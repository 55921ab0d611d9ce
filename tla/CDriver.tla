------------------------------ MODULE CDriver ------------------------------
(***************************************************************************)
(* The driver of the Count sketch, csketch/main.cpp.                       *)
(***************************************************************************)
EXTENDS DriverLoops

CONSTANTS Keys, D, W, Hash, Deltas, Limit, MaxNum, Sign   \* the sketch, see CSketch

VARIABLES s, count, clipped                               \* the same

sketch == <<s, count, clipped>>

Sketch == INSTANCE CSketch

Line(x) == [key |-> x, value |-> Sketch!CSQuery(x), count |-> count[x], content |-> s]

(* With -T the updates are queried and deleted. *)
Main(options) ==
    WithReverse(options, Forwards(options, << >>, <<Call("query"), Call("delete")>>))

RequestsInit  == Load /\ UNCHANGED sketch
RequestsInitR == LoadQuerys /\ UNCHANGED sketch

(* A type that is not known is skipped with a message. *)
Perform(type, r) ==
    \/ type = "inc" /\ Sketch!Inc(r.key, r.delta)
    \/ type = "dec" /\ Sketch!Dec(r.key, r.delta)
    \/ type = "unknown" /\ UNCHANGED sketch

RequestsExec ==
    /\ Round("exec")
    /\ \/ /\ request.type # "get"
          /\ Perform(IF request.type = "init" THEN "inc" ELSE request.type, request)
          /\ UNCHANGED outputs
       \/ /\ request.type = "get"
          /\ outputs' = Written(running.file, Append(outputs[running.file], Line(request.key)))
          /\ UNCHANGED sketch

RequestsQuery == QuietRound("query") /\ UNCHANGED sketch
TestThrpt     == QuietRound("throughput") /\ UNCHANGED sketch

(* Every request of the trace is deleted, its type is not looked at. *)
RequestsDelete == QuietRound("delete") /\ Sketch!Dec(request.key, request.delta)

QueryFqs == [i \in DOMAIN Queries(querys) |-> Line(Queries(querys)[i].key)]

RequestsExecR ==
    \/ ForwardStep /\ Perform(Forward(request.type), request)
    \/ ReverseStep /\ Perform(Opposite(request.type), request)
    \/ (ForwardQuery(QueryFqs) \/ ReverseQuery(QueryFqs)) /\ UNCHANGED sketch
    \/ (ForwardChunk \/ TurnAround \/ ReverseChunk \/ ReverseEnds) /\ UNCHANGED sketch

Next ==
    \/ RequestsInit \/ RequestsInitR \/ RequestsExec \/ RequestsQuery \/ TestThrpt
    \/ RequestsDelete \/ RequestsExecR
    \/ ((LoopEnds \/ TimingFails) /\ UNCHANGED sketch)
=============================================================================
