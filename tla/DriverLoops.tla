---------------------------- MODULE DriverLoops ----------------------------
(***************************************************************************)
(* What the drivers of the sketches share (main.c of sfsketch and          *)
(* cqfilter, main.cpp of the other sketches): main() is a sequence of      *)
(* stages, each of which loads a trace into the array `requests', runs a   *)
(* loop over it, or changes the sketch at once; with -r one stage replays  *)
(* the trace in chunks, forward and back.  A module for each driver says   *)
(* which stages its main() goes through and what a request does.           *)
(***************************************************************************)
EXTENDS Integers, Sequences

CONSTANT SizeT      \* number of values of a size_t

VARIABLES
    files,       \* the files found: their header's number and their records
    stages,      \* the stages not yet finished; the first one is running
    exited,      \* the program has called exit() before the end of main()
    requests,    \* requests, the first num_requests of them
    querys,      \* querys, of a reverse run
    index,       \* i, or index of requests_exec_r()
    nStart,      \* n_startt
    firstPart,   \* requests_delete() is in the first of its two loops
    interval,    \* interval
    phase,       \* where requests_exec_r() is
    ops,         \* ops, the length of the chunk
    todo,        \* ops - i, what is left of the chunk
    chunk,       \* count, the number of the chunk
    outputs      \* the output files: their answers, with what was true then

given  == <<files, nStart, interval>>
inside == <<firstPart, phase, ops, todo, chunk>>
control == <<given, stages, exited, requests, querys, index, inside, outputs>>

running == Head(stages)
request == requests[index + 1]
Num     == Len(requests)

In(kind) == stages # << >> /\ running.kind = kind

-----------------------------------------------------------------------------
(* The stages of main(), with the file they read or write                  *)

Stage(kind, file) == [kind |-> kind, file |-> file]
Call(kind)        == Stage(kind, <<"none", 0>>)
UpdatesFile(i)    == <<"inc-dec_up", i>>      \* i = 0: no number
QueryFile         == <<"query", 0>>
Output(i)         == <<"out", i>>

(* Mutation: the name of the output is built before the loop over the subfiles. *)
AnsweredInOne(i, composing) ==
    <<Stage("load", UpdatesFile(i)), Stage("exec", Output(0)), Stage("load", QueryFile)>>
    \o composing \o <<Stage("exec", Output(0))>>

(* Updates of a file, then the queries, whose answers replace its output;  *)
(* composing is what main() does in between.                               *)
Answered(i, composing) ==
    <<Stage("load", UpdatesFile(i)), Stage("exec", Output(i)), Stage("load", QueryFile)>>
    \o composing \o <<Stage("exec", Output(i))>>

(* for (int i=1; i<=nSubfiles; i++)                                       *)
Subfiles(n, composing) ==
    LET upTo[i \in 0 .. n] == IF i = 0 THEN << >> ELSE upTo[i - 1] \o Answered(i, composing)
    IN upTo[n]

(* Without -T the queries replace the updates in `requests', which -t then *)
(* runs; with -T the updates stay there.                                   *)
Forwards(options, composing, timed) ==
    (IF options.timed
     THEN <<Stage("load", UpdatesFile(0)), Stage("exec", Output(0))>> \o timed
     ELSE Answered(0, composing))
    \o (IF options.throughput THEN <<Call("throughput")>> ELSE << >>)
    \o Subfiles(options.subfiles, composing)

(* -r and -n together are refused. *)
WithReverse(options, forwards) ==
    IF ~options.reverse THEN forwards
    ELSE IF options.subfiles > 0 THEN << >>
    ELSE <<Stage("load", UpdatesFile(0)), Stage("load_querys", QueryFile), Call("reverse")>>

-----------------------------------------------------------------------------
(* From stage to stage *)

ControlInit(plan) ==
    /\ stages = plan
    /\ exited = FALSE
    /\ requests = << >> /\ querys = << >>
    /\ index = 0 /\ firstPart = TRUE
    /\ phase = "forward" /\ ops = interval /\ todo = 0 /\ chunk = 0
    /\ outputs = [o \in {} |-> << >>]

FirstIndexOffByOne(plan) ==                                \* a mutation
    IF plan # << >> /\ Head(plan).kind = "delete" THEN Num ELSE 0

(* Where the loop of a stage starts.                                       *)
FirstIndex(plan) ==
    IF plan # << >> /\ Head(plan).kind = "delete" THEN Num - 1 ELSE 0

Written(file, lines) ==
    [o \in DOMAIN outputs \union {file} |-> IF o = file THEN lines ELSE outputs[o]]

(* requests_exec() starts with an empty output file.                       *)
Opened(plan) ==
    IF plan # << >> /\ Head(plan).kind = "exec" THEN Written(Head(plan).file, << >>)
    ELSE outputs

Advance ==
    /\ stages' = Tail(stages)
    /\ index' = FirstIndex(Tail(stages))
    /\ outputs' = Opened(Tail(stages))

NextStage == Advance /\ UNCHANGED <<given, exited, inside>>

Exit ==
    /\ stages' = << >> /\ exited' = TRUE
    /\ UNCHANGED <<given, requests, querys, index, inside, outputs>>

(* The number of a file that ends before it.                               *)
NoNumber == -1

(* A read of the header that fails leaves the number at what it was.       *)
NumberOf(f, before) == IF files[f].num = NoNumber THEN before ELSE files[f].num

(* fopen() fails, or the file holds fewer records than the number read.    *)
CannotLoad(f, before) == f \notin DOMAIN files \/ NumberOf(f, before) > Len(files[f].records)

Loaded(f, before) == SubSeq(files[f].records, 1, NumberOf(f, before))

Load ==
    /\ In("load")
    /\ IF CannotLoad(running.file, Num) THEN Exit
       ELSE requests' = Loaded(running.file, Num) /\ NextStage /\ UNCHANGED querys

(* requests_init_r() clears the number first. *)
LoadQuerys ==
    /\ In("load_querys")
    /\ IF CannotLoad(running.file, 0) THEN Exit
       ELSE querys' = Loaded(running.file, 0) /\ NextStage /\ UNCHANGED requests

-----------------------------------------------------------------------------
(* The loops *)

(* The comparison of the signed index with a size_t converts it.           *)
Unsigned(i) == IF i < 0 THEN i + SizeT ELSE i

(* The first loop of requests_delete() is over once its condition fails.   *)
InFirstPart == firstPart /\ Unsigned(index) >= (Num - nStart + SizeT) % SizeT

(* Whether the loop of the running stage goes round once more.  The loops  *)
(* of requests_query() and requests_delete() come in two parts, before and *)
(* after the n_startt-th request, the second going on where the first one  *)
(* stopped.                                                                *)
More ==
    CASE running.kind \in {"exec", "throughput"} -> index < Num
      [] running.kind = "query"  -> index < nStart \/ index < Num
      [] running.kind = "delete" -> InFirstPart \/ index >= 0

InLoop == In("exec") \/ In("query") \/ In("throughput") \/ In("delete")

Round(kind) ==
    /\ In(kind) /\ More
    /\ index' = IF kind = "delete" THEN index - 1 ELSE index + 1
    /\ firstPart' = (IF kind = "delete" THEN InFirstPart ELSE firstPart)
    /\ UNCHANGED <<given, stages, exited, requests, querys, phase, ops, todo, chunk>>

(* A loop whose answers are not kept.                                      *)
QuietRound(kind) == Round(kind) /\ UNCHANGED outputs

LoopEnds ==
    /\ InLoop /\ ~More
    /\ NextStage
    /\ UNCHANGED <<requests, querys>>

(* The functions that take a time exit, with status 0, when they cannot    *)
(* open the file for it.                                                   *)
TimingFails ==
    /\ In("timing") \/ ((In("exec") \/ In("query") \/ In("delete")) /\ ~More)
    /\ Exit

-----------------------------------------------------------------------------
(* requests_exec_r() *)

At(p) == In("reverse") /\ phase = p
ReverseKeeps == UNCHANGED <<given, exited, requests, querys, firstPart>>

(* while (index < loads.num): the last chunk may be shorter.               *)
ForwardChunk ==
    /\ At("forward") /\ index < Num
    /\ ops' = IF Num - index < interval THEN Num - index ELSE ops
    /\ todo' = ops'
    /\ chunk' = chunk + 1
    /\ phase' = "forwardOps"
    /\ ReverseKeeps /\ UNCHANGED <<stages, index, outputs>>

(* Mutation: the chunk is not counted down. *)
ForwardStepStuck ==
    /\ At("forwardOps") /\ todo > 0
    /\ UNCHANGED control

ForwardStep ==
    /\ At("forwardOps") /\ todo > 0
    /\ index' = index + 1
    /\ todo' = todo - 1
    /\ ReverseKeeps /\ UNCHANGED <<stages, phase, ops, chunk, outputs>>

(* queryfqs() goes over the records and skips, with a message, what is no  *)
(* query.                                                                  *)
Queries(rs) ==
    LET upTo[i \in 0 .. Len(rs)] ==
            IF i = 0 THEN << >>
            ELSE IF rs[i].type = "get" THEN Append(upTo[i - 1], rs[i]) ELSE upTo[i - 1]
    IN upTo[Len(rs)]

(* queryfqs("..._%d.out"): lines has an answer for every query. *)
ForwardQuery(lines) ==
    /\ At("forwardOps") /\ todo = 0
    /\ outputs' = Written(<<"forward", chunk>>, lines)
    /\ phase' = "forward"
    /\ ReverseKeeps /\ UNCHANGED <<stages, index, ops, todo, chunk>>

TurnAround ==
    /\ At("forward") /\ index >= Num
    /\ index' = Num - 1
    /\ phase' = "reverse"
    /\ ReverseKeeps /\ UNCHANGED <<stages, ops, todo, chunk, outputs>>

(* while (index >= 0): the first chunk undone has the length of the last   *)
(* one done.                                                               *)
ReverseChunk ==
    /\ At("reverse") /\ index >= 0
    /\ chunk' = chunk - 1
    /\ todo' = ops
    /\ phase' = "reverseOps"
    /\ ReverseKeeps /\ UNCHANGED <<stages, index, ops, outputs>>

ReverseStep ==
    /\ At("reverseOps") /\ todo > 0
    /\ index' = index - 1
    /\ todo' = todo - 1
    /\ ReverseKeeps /\ UNCHANGED <<stages, phase, ops, chunk, outputs>>

(* Mutation: the length of the last chunk is kept on the whole way back. *)
ReverseQueryKeepsOps(lines) ==
    /\ At("reverseOps") /\ todo = 0
    /\ outputs' = Written(<<"reverse", chunk>>, lines)
    /\ phase' = "reverse"
    /\ ReverseKeeps /\ UNCHANGED <<stages, index, ops, todo, chunk>>

(* queryfqs("..._r_%d.out"); ops = interval                                *)
ReverseQuery(lines) ==
    /\ At("reverseOps") /\ todo = 0
    /\ outputs' = Written(<<"reverse", chunk>>, lines)
    /\ ops' = interval
    /\ phase' = "reverse"
    /\ ReverseKeeps /\ UNCHANGED <<stages, index, todo, chunk>>

ReverseEnds ==
    /\ At("reverse") /\ index < 0
    /\ stages' = Tail(stages)
    /\ ReverseKeeps /\ UNCHANGED <<index, phase, ops, todo, chunk, outputs>>

(* Control that leaves the sketch alone. *)
ControlStep ==
    \/ Load \/ LoadQuerys \/ LoopEnds \/ TimingFails
    \/ ForwardChunk \/ TurnAround \/ ReverseChunk \/ ReverseEnds

(* What a request does on the way forward and on the way back; a type the  *)
(* function does not know (request_init) is skipped with a message.        *)
Forward(type)  == IF type \in {"inc", "dec"} THEN type ELSE "unknown"
Opposite(type) == CASE type = "inc" -> "dec" [] type = "dec" -> "inc" [] OTHER -> "unknown"
=============================================================================
