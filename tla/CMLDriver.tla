----------------------------- MODULE CMLDriver -----------------------------
(***************************************************************************)
(* The driver of the Count-Min-Log sketch, cmlsketch/main.cpp, which has   *)
(* neither -T nor -s and knows no deletions.  A line of its output is the  *)
(* count that the logarithm read stands for; the logarithm stands for it.  *)
(***************************************************************************)
EXTENDS DriverLoops

CONSTANTS Keys, D, W, MaxCounter, Hash, Deltas, Limit, Cap   \* the sketch, see CMLSketch

VARIABLES table, count                                       \* the same

sketch == <<table, count>>

Sketch == INSTANCE CMLSketch

Line(x) == [key |-> x, value |-> Sketch!LogCounter(x), count |-> count[x], content |-> table]

Main(options) == Forwards(options, << >>, << >>)

RequestsInit == Load /\ UNCHANGED sketch

(* A type that is not known is skipped with a message. *)
Perform(type, r) ==
    \/ type = "inc" /\ Sketch!Insert(r.key, r.delta)
    \/ type # "inc" /\ UNCHANGED sketch

RequestsExec ==
    /\ Round("exec")
    /\ \/ /\ request.type # "get"
          /\ Perform(IF request.type = "init" THEN "inc" ELSE request.type, request)
          /\ UNCHANGED outputs
       \/ /\ request.type = "get"
          /\ outputs' = Written(running.file, Append(outputs[running.file], Line(request.key)))
          /\ UNCHANGED sketch

TestThrpt == QuietRound("throughput") /\ UNCHANGED sketch

Next ==
    \/ RequestsInit \/ RequestsExec \/ TestThrpt
    \/ (LoopEnds /\ UNCHANGED sketch)
=============================================================================
