---------------------------- MODULE CMCUDriver -----------------------------
(***************************************************************************)
(* The driver of the conservative-update sketch, cmcusketch/main.cpp, which*)
(* knows no deletions.                                                     *)
(***************************************************************************)
EXTENDS DriverLoops

CONSTANTS Keys, D, W, MaxCounter, Hash, Deltas, Limit   \* the sketch, see CMCUSketch

VARIABLES table, count                                  \* the same

sketch == <<table, count>>

Sketch == INSTANCE CMCUSketch

Line(x) == [key |-> x, value |-> Sketch!QueryPoint(x), count |-> count[x], content |-> table]

(* With -T the updates are queried. *)
Main(options) == Forwards(options, << >>, <<Call("query")>>)

RequestsInit == Load /\ UNCHANGED sketch

(* A type that is not known is skipped with a message. *)
Perform(type, r) ==
    \/ type = "inc" /\ Sketch!Insert(r.key, r.delta)
    \/ type # "inc" /\ UNCHANGED sketch

RequestsExec ==
    /\ Round("exec")
    /\ \/ /\ request.type # "get"
          /\ Perform(IF request.type = "init" THEN "inc" ELSE request.type, request)
          /\ UNCHANGED outputs
       \/ /\ request.type = "get"
          /\ outputs' = Written(running.file, Append(outputs[running.file], Line(request.key)))
          /\ UNCHANGED sketch

RequestsQuery == QuietRound("query") /\ UNCHANGED sketch
TestThrpt     == QuietRound("throughput") /\ UNCHANGED sketch

Next ==
    \/ RequestsInit \/ RequestsExec \/ RequestsQuery \/ TestThrpt
    \/ ((LoopEnds \/ TimingFails) /\ UNCHANGED sketch)
=============================================================================
