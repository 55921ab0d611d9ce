----------------------------- MODULE Experiment -----------------------------
(***************************************************************************)
(* The experiments of bench_sketch: a script generates the traces, starts  *)
(* memcached anew and has its clients replay them, which leaves the files  *)
(* of reference counts the sketches are compared with.                     *)
(*                                                                         *)
(* The clients: bench_client, which the scripts call for one file after    *)
(* the other, bench_client_r, which replays a trace in chunks, forward and *)
(* back, and bench_client4Real, which finds the distinct keys of a stream. *)
(* Their loops are those of the drivers (DriverLoops).                     *)
(***************************************************************************)
EXTENDS TraceGenerators, FiniteSetsExt

(* The stages of a client that follow the one at the head.                 *)
RestOfClient(plan) ==
    LET others == {i \in 2 .. Len(plan) : plan[i].kind \notin {"exec", "load_querys", "reverse"}}
    IN  IF others = {} THEN << >> ELSE SubSeq(plan, Min(others), Len(plan))

(* requests_init() exits when it cannot load; the script goes on with its  *)
(* next command.                                                           *)
ClientExits ==
    /\ stages' = RestOfClient(stages)
    /\ exited' = TRUE
    /\ index' = 0
    /\ UNCHANGED <<given, requests, querys, inside, outputs, memc>>

RequestsInit ==
    /\ In("load")
    /\ IF CannotLoad(running.file, 0) THEN ClientExits
       ELSE requests' = Loaded(running.file, 0) /\ NextStage /\ UNCHANGED <<querys, memc>>

RequestsInitR ==
    /\ In("load_querys")
    /\ IF CannotLoad(running.file, 0) THEN ClientExits
       ELSE querys' = Loaded(running.file, 0) /\ NextStage /\ UNCHANGED <<requests, memc>>

Line(k) == [key |-> k, value |-> Value(k)]

Adds(line) == outputs' = Written(running.file, Append(outputs[running.file], line))

(* requests_exec() of bench_client *)
BenchClient ==
    /\ Round("exec") /\ running.file # QueryFile
    /\ \/ request.type = "init" /\ MemcInitInc(request.key, 0, 0) /\ UNCHANGED outputs
       \/ request.type = "inc" /\ MemcInitInc(request.key, request.delta, request.delta) /\ UNCHANGED outputs
       \/ request.type = "dec" /\ MemcDec(request.key, request.delta) /\ UNCHANGED outputs
       \/ request.type = "get" /\ MemcInitInc(request.key, 0, 0) /\ Adds(Line(request.key))

ClientEnds == LoopEnds /\ running.file # QueryFile /\ UNCHANGED memc

QueryFqs == [i \in DOMAIN Queries(querys) |-> Line(Queries(querys)[i].key)]

Perform(type, r) ==
    \/ type = "inc" /\ MemcInc(r.key, r.delta)
    \/ type = "dec" /\ MemcDec(r.key, r.delta)
    \/ type = "unknown" /\ UNCHANGED memc

(* requests_exec() of bench_client_r *)
BenchClientR ==
    \/ ForwardStep /\ Perform(Forward(request.type), request)
    \/ ReverseStep /\ Perform(Opposite(request.type), request)
    \/ (ForwardQuery(QueryFqs) \/ ReverseQuery(QueryFqs)) /\ UNCHANGED memc
    \/ (ForwardChunk \/ TurnAround \/ ReverseChunk \/ ReverseEnds) /\ UNCHANGED memc

Get(k) == [type |-> "get", key |-> k, delta |-> 1]

(* The value is the delta after the first addition to a key.               *)
FirstTime(r) == Value(r.key) = 0

(* requests_exec() of bench_client4Real writes its lines into the file of  *)
(* queries, whose number it knows at the end.                              *)
BenchClient4Real ==
    /\ Round("exec") /\ running.file = QueryFile
    /\ IF request.type = "inc"
       THEN /\ MemcInitInc(request.key, request.delta, request.delta)
            /\ IF FirstTime(request) THEN Adds(Get(request.key)) ELSE UNCHANGED outputs
       ELSE UNCHANGED <<memc, outputs>>

RealEnds ==
    /\ In("exec") /\ ~More /\ running.file = QueryFile
    /\ LET lines == outputs[QueryFile]
       IN  files' = (QueryFile :> [num |-> Len(lines), records |-> lines]) @@ files
    /\ Advance
    /\ UNCHANGED <<nStart, interval, exited, requests, querys, inside, memc>>

ClientStep ==
    \/ RequestsInit \/ RequestsInitR \/ BenchClient \/ ClientEnds \/ BenchClientR
    \/ BenchClient4Real \/ RealEnds

-----------------------------------------------------------------------------
(* The scripts *)

CONSTANT
    Workloads,   \* [script, records, ops, stream, onlyOne, uniform, zero, gap, cut]
    Intervals    \* values of the option -r

vars == <<control, memc, workload, rounds, checked>>

NewMemcached == Call("memcached")
Client(f, o) == <<Stage("load", f), Stage("exec", o)>>

(* ycsb_workload_gen.sh *)
YcsbWorkload(uniform) ==
    <<NewMemcached, Call("query_gen"),
      Stage("create", InitFile), Stage("update_gen", InitFile),
      Stage("create", UpdatesFile(0)), Stage("update_gen", UpdatesFile(0))>>
    \o (IF uniform THEN <<Call("uniform")>> ELSE << >>)

(* benchmark_creat.sh *)
BenchmarkCreat(reverse) ==
    <<NewMemcached>> \o Client(InitFile, Output(0))
    \o WithReverse([reverse |-> reverse, subfiles |-> 0], Answered(0, << >>))

(* bench_query_gen4Real, then bench_gen_real_requests.sh *)
RealRequests ==
    <<Stage("create", UpdatesFile(0)), Stage("real_gen", UpdatesFile(0)), NewMemcached>>
    \o Client(UpdatesFile(0), QueryFile) \o Client(QueryFile, Output(0))

(* Every chip is followed by the queries. *)
ChipsAnswered == Subfiles(workload.cut.c, << >>)

(* experiment_real_inc.sh *)
RealInc ==
    <<Call("cut"), NewMemcached>>
    \o Client(BaseFile, Output(0)) \o Client(QueryFile, Output(0)) \o ChipsAnswered

(* experiment_uniform_dec.sh and experiment_zipf_dec.sh, after the log *)
DecExperiment ==
    <<Call("cut"), NewMemcached>> \o Client(InitFile, Output(0)) \o Answered(0, << >>)
    \o ChipsAnswered

Script ==
    CASE workload.script = "plain"    -> YcsbWorkload(workload.uniform) \o BenchmarkCreat(FALSE)
      [] workload.script = "inc-dec"  -> YcsbWorkload(FALSE) \o BenchmarkCreat(TRUE)
      [] workload.script = "real"     -> RealRequests
      [] workload.script = "real_inc" -> RealRequests \o RealInc
      [] workload.script = "dec"      -> YcsbWorkload(FALSE) \o DecExperiment

Init ==
    /\ workload \in Workloads
    /\ files = [f \in {} |-> << >>]
    /\ nStart = 0 /\ interval \in (IF workload.script = "inc-dec" THEN Intervals ELSE {1})
    /\ ControlInit(Script)
    /\ memc = [k \in {} |-> 0]
    /\ rounds = 0 /\ checked = FALSE

MemcachedStarts ==
    /\ In("memcached") /\ Restart
    /\ NextStage /\ UNCHANGED <<requests, querys, workload, rounds, checked>>

ClientRuns == ClientStep /\ UNCHANGED <<workload, rounds, checked>>

Ends == stages = << >> /\ UNCHANGED vars

Next == MemcachedStarts \/ GeneratorStep \/ ClientRuns \/ Ends

Spec == Init /\ [][Next]_vars

-----------------------------------------------------------------------------
(* Properties *)

Sum(f) == FoldFunction(LAMBDA x, y : x + y, 0, f)

(* What the first n records of a trace add to a key. *)
Net(trace, n, k) ==
    Sum([i \in 1 .. n |->
            IF trace[i].key # k THEN 0
            ELSE CASE trace[i].type = "inc" -> trace[i].delta
                   [] trace[i].type = "dec" -> -trace[i].delta
                   [] OTHER -> 0])

(* The reference files a script is run for, with the number of updates     *)
(* each of them is to have seen and what the chips of its trace have added *)
(* or taken away.                                                          *)
References ==
    LET n == files[UpdatesFile(0)].num
        upTo(i) == Least(i, n)
        chunks == (n + interval - 1) \div interval
        cut == workload.cut
    IN  CASE workload.script \in {"plain", "real"} -> {[file |-> Output(0), seen |-> n, chips |-> 0]}
          [] workload.script = "inc-dec" ->
                {[file |-> <<"forward", i>>, seen |-> upTo(i * interval), chips |-> 0] : i \in 1 .. chunks}
                \union
                {[file |-> <<"reverse", i>>, seen |-> upTo(i * interval), chips |-> 0] : i \in 0 .. (chunks - 1)}
          [] workload.script = "real_inc" ->
                {[file |-> Output(i), seen |-> upTo(cut.s + i * cut.d), chips |-> 0] : i \in 0 .. cut.c}
          [] workload.script = "dec" ->
                {[file |-> Output(i), seen |-> n, chips |-> upTo(i * cut.d)] : i \in 0 .. cut.c}

Count(r, k) ==
    LET trace == files[UpdatesFile(0)].records
    IN  Net(trace, r.seen, k)
        + (IF workload.cut.type = "dec" THEN -1 ELSE 1) * Net(trace, r.chips, k)

(* When an experiment has ended and no program of it gave up, every        *)
(* reference file answers every key of the trace once, with the net count  *)
(* of what it is to have seen: memcached, which does not go below zero and *)
(* was used for generating too, has not missed, repeated or clamped an     *)
(* update, not even where a delta was cut to a byte.                       *)
ReferenceExact ==
    (stages = << >> /\ ~exited) =>
        \A r \in References :
            /\ r.file \in DOMAIN outputs
            /\ LET lines == outputs[r.file]
                   trace == Loaded(UpdatesFile(0), 0)
               IN  /\ \A i, j \in DOMAIN lines : lines[i].key = lines[j].key => i = j
                   /\ \A i \in DOMAIN trace : \E j \in DOMAIN lines : lines[j].key = trace[i].key
                   /\ \A i \in DOMAIN lines : lines[i].value = Count(r, lines[i].key)

(* A trace that uniform_check calls true, which took several rounds of     *)
(* appending under the header of the first, can be loaded and has every    *)
(* key with the same frequency, where one delta is one and the operations  *)
(* divide evenly among the records.                                        *)
UniformTraceLoads ==
    (checked /\ workload.onlyOne /\ workload.ops % Len(workload.records) = 0) =>
        /\ ~CannotLoad(UpdatesFile(0), 0)
        /\ LET trace == Loaded(UpdatesFile(0), 0)
           IN  \A i \in DOMAIN workload.records :
                   Net(trace, Len(trace), workload.records[i]) = Frequent
=============================================================================
