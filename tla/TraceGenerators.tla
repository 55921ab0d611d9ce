-------------------------- MODULE TraceGenerators --------------------------
(***************************************************************************)
(* The programs of bench_sketch that write traces: bench_query_gen and     *)
(* bench_update_gen, which turn the lines of a YCSB log into requests,     *)
(* the latter while it counts them in memcached, bench_query_gen4Real,     *)
(* which does so for a recorded stream, and cut, which cuts a trace into   *)
(* chips.  The lines come in any order.  UNIFORM_OPERATE and               *)
(* ONLY_ONE_OPERATE are compiled in or not (workload); FC_V1 is not        *)
(* defined, and -d is given by no script.                                  *)
(***************************************************************************)
EXTENDS DriverLoops, TLC

CONSTANTS
    Byte,        \* number of values of delta in a request
    MaxRounds    \* rounds of the loop for a uniform trace

VARIABLES
    memc,        \* memcached: the keys that are there, with their values
    workload,    \* the build, the log, the script and the options of cut
    rounds,      \* i of the loop
    checked      \* uniform_check says true

-----------------------------------------------------------------------------
(* memcached, which counts the keys of a trace, as the programs of         *)
(* bench_sketch use it.  Each of them has one connection and waits for     *)
(* every answer.  Nothing is evicted, and no value reaches 2^64.           *)

Restart == memc' = [k \in {} |-> 0]

Present(k)   == k \in DOMAIN memc
Value(k)     == IF Present(k) THEN memc[k] ELSE 0
Stores(k, v) == memc' = (k :> v) @@ memc

(* A key that is not there gets an initial value instead of the offset.    *)
MemcInitInc(k, offset, initial) ==
    Stores(k, IF Present(k) THEN memc[k] + offset ELSE initial)

(* These two fail when the key is not there; a value goes down to 0 only.  *)
MemcInc(k, offset) == IF Present(k) THEN Stores(k, memc[k] + offset) ELSE UNCHANGED memc
MemcDec(k, offset) ==
    IF Present(k) THEN Stores(k, IF memc[k] < offset THEN 0 ELSE memc[k] - offset)
    ELSE UNCHANGED memc

-----------------------------------------------------------------------------
(* Records and files *)

Record(type, k, delta) == [type |-> type, key |-> k, delta |-> delta % Byte]
InitFile  == <<"init", 0>>
BaseFile  == <<"base", 0>>

Stored(f, num, records) == files' = (f :> [num |-> num, records |-> records]) @@ files

GeneratorKeeps == UNCHANGED <<workload, nStart, interval, exited, requests, querys, inside>>
Counted        == UNCHANGED <<memc, rounds, checked>>

-----------------------------------------------------------------------------
(* The header and the records *)

(* A new file, with the header of the log; that of a stream is not known yet. *)
Create ==
    /\ In("create")
    /\ Stored(running.file,
              CASE running.file = InitFile -> Len(workload.records)
                [] workload.stream         -> 0
                [] OTHER                   -> workload.ops,
              << >>)
    /\ Advance /\ GeneratorKeeps /\ Counted

(* bench_query_gen *)
QueryGen ==
    /\ In("query_gen")
    /\ Stored(QueryFile, Len(workload.records),
              [i \in DOMAIN workload.records |-> Record("get", workload.records[i], 0)])
    /\ Advance /\ GeneratorKeeps /\ Counted

Input == IF running.file = InitFile THEN Len(workload.records) ELSE workload.ops

NextLine(kind) ==
    /\ In(kind) /\ index < Input
    /\ index' = index + 1
    /\ GeneratorKeeps /\ UNCHANGED <<stages, outputs, rounds, checked>>

Writes(r) ==
    LET f == files[running.file] IN Stored(running.file, f.num, Append(f.records, r))

Skipped == UNCHANGED <<files, memc>>

InsertLine ==
    /\ NextLine("update_gen") /\ running.file = InitFile
    /\ LET k == workload.records[index + 1]
       IN  MemcInitInc(k, 0, 0) /\ Writes(Record("init", k, 0))

Frequent == workload.ops \div Len(workload.records)

(* Mutation: a key that has its frequency is not counted, but written. *)
IncreaseWritesAll(k, delta) ==
    /\ Writes(Record("inc", k, delta))
    /\ IF workload.uniform /\ ~(Present(k) /\ Value(k) < Frequent) THEN UNCHANGED memc
       ELSE MemcInc(k, delta)

(* A uniform trace skips the key that has its frequency.                   *)
Increase(k, delta) ==
    IF workload.uniform /\ ~(Present(k) /\ Value(k) < Frequent) THEN Skipped
    ELSE MemcInc(k, delta) /\ Writes(Record("inc", k, delta))

(* Mutation: the deletion is not bounded by what memcached has counted. *)
DecreaseFreely(k) ==
    \E delta \in IF workload.onlyOne THEN {1} ELSE 0 .. Value(k) + 1 :
        MemcDec(k, delta) /\ Writes(Record("dec", k, delta))

(* Nothing is deleted that is not there, and never the whole of it unless  *)
(* every delta is one; a delta that does not fit is cut in the trace only. *)
Decrease(k) ==
    IF ~Present(k) \/ (workload.onlyOne /\ Value(k) < 1) THEN Skipped
    ELSE \E delta \in (IF workload.onlyOne THEN {1}
                       ELSE 0 .. (IF Value(k) = 0 THEN 0 ELSE Value(k) - 1)) :
             MemcDec(k, delta) /\ Writes(Record("dec", k, delta))

ReadLine ==
    /\ NextLine("update_gen") /\ running.file # InitFile
    /\ \E i \in DOMAIN workload.records, draw \in 1 .. (IF workload.onlyOne THEN 1 ELSE workload.gap) :
           LET k == workload.records[i]
           IN  IF draw > workload.zero THEN Increase(k, draw - workload.zero) ELSE Decrease(k)

LogEnds ==
    /\ In("update_gen") /\ index >= Input
    /\ Advance /\ GeneratorKeeps /\ Counted /\ UNCHANGED files

-----------------------------------------------------------------------------
(* A uniform trace *)

(* The end of bench_update_gen -a, which writes the file uniform_check.    *)
UniformCheck ==
    /\ In("uniform_check")
    /\ checked' = (\A i \in DOMAIN workload.records : Value(workload.records[i]) = Frequent)
    /\ Advance /\ GeneratorKeeps /\ UNCHANGED <<files, memc, rounds>>

(* The loop of ycsb_workload_gen.sh: the first trace is not checked, and   *)
(* each round appends to it.                                               *)
UniformLoop ==
    /\ In("uniform")
    /\ IF checked \/ rounds = MaxRounds
       THEN Advance /\ UNCHANGED rounds
       ELSE /\ stages' = <<Stage("update_gen", UpdatesFile(0)), Call("uniform_check")>> \o stages
            /\ rounds' = rounds + 1
            /\ UNCHANGED <<index, outputs>>
    /\ GeneratorKeeps /\ UNCHANGED <<files, memc, checked>>

-----------------------------------------------------------------------------
(* A recorded stream *)

StreamLine ==
    /\ NextLine("real_gen")
    /\ \E i \in DOMAIN workload.records : Writes(Record("inc", workload.records[i], 1))
    /\ UNCHANGED memc

(* The header is written last. *)
StreamEnds ==
    /\ In("real_gen") /\ index >= Input
    /\ LET records == files[running.file].records
       IN  Stored(running.file, Len(records), records)
    /\ Advance /\ GeneratorKeeps /\ Counted

-----------------------------------------------------------------------------
(* cut *)

Least(x, y) == IF x < y THEN x ELSE y

(* With -t every record of a chip gets that type; without it keeps its own. *)
Chip(trace, first, last) ==
    LET records == SubSeq(trace, first + 1, Least(last, Len(trace)))
    IN  [num |-> Len(records),
         records |-> [i \in DOMAIN records |->
                         IF workload.cut.type = "kept" THEN records[i]
                         ELSE [records[i] EXCEPT !.type = workload.cut.type]]]

(* The last chip may be shorter, and those after it are not written.       *)
Chips(trace) ==
    LET cut == workload.cut
        first(i) == cut.s + (i - 1) * cut.d
    IN  [i \in {j \in 1 .. cut.c : j = 1 \/ first(j) < Len(trace)} |->
            Chip(trace, first(i), first(i) + cut.d)]

Cut ==
    /\ In("cut")
    /\ IF CannotLoad(UpdatesFile(0), 0) \/ workload.cut.s > files[UpdatesFile(0)].num
       THEN files' = files
       ELSE LET trace == Loaded(UpdatesFile(0), 0)
                chips == Chips(trace)
            IN  files' = [f \in {UpdatesFile(i) : i \in DOMAIN chips} |-> chips[f[2]]]
                         @@ (BaseFile :> [num |-> workload.cut.s,
                                          records |-> SubSeq(trace, 1, workload.cut.s)])
                         @@ files
    /\ Advance /\ GeneratorKeeps /\ Counted

GeneratorStep ==
    \/ Create \/ QueryGen \/ InsertLine \/ ReadLine \/ LogEnds
    \/ UniformCheck \/ UniformLoop \/ StreamLine \/ StreamEnds \/ Cut
=============================================================================
