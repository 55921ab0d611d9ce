----------------------------- MODULE SFDriver ------------------------------
(***************************************************************************)
(* The driver of the two-level sketch, sfsketch/main.c, built with         *)
(* SF_FINAL (program sfsketch) or with SF_V2 (program sf_v2), which has    *)
(* no array to compose and none to switch to.                              *)
(***************************************************************************)
EXTENDS DriverLoops

CONSTANTS Keys, D, WL, ExpK, MaxC, Hash, Deltas, Limit   \* the sketches, see SFFinal

VARIABLES
    program,                                          \* which build
    fat, slim,                                        \* the arrays of either
    querySketch, inserted, deleted, composed, fresh,  \* the rest of SFFinal
    maxArray, aborted, count, cut, lossy              \* the rest of SFV2

final  == <<querySketch, inserted, deleted, composed, fresh>>
v2     == <<maxArray, aborted, count, cut, lossy>>
sketch == <<fat, slim, final, v2>>

Final == INSTANCE SFFinal
V2    == INSTANCE SFV2

IsFinal == program = "sfsketch"

Inc(x, delta) ==
    \/ IsFinal /\ Final!Inc(x, delta) /\ UNCHANGED v2
    \/ ~IsFinal /\ V2!Inc(x, delta) /\ UNCHANGED final

Dec(x, delta) ==
    \/ IsFinal /\ Final!Dec(x, delta) /\ UNCHANGED v2
    \/ ~IsFinal /\ V2!Dec(x, delta) /\ UNCHANGED final

Line(x) ==
    [key |-> x, content |-> fat,
     value |-> IF IsFinal THEN Final!Query(x) ELSE V2!Query(x),
     count |-> IF IsFinal THEN inserted[x] - deleted[x] ELSE count[x]]

(* Mutation: the slim array is not composed before the queries. *)
ComposeForgotten == <<Call("slim")>>

(* compose_slim(); set_query_slim() *)
ComposeAndSwitch == <<Call("compose"), Call("slim")>>

(* With -T the updates are queried, on either array, and deleted; the time *)
(* of compose_slim() is taken.                                             *)
Main(options) ==
    WithReverse(options,
        IF IsFinal
        THEN Forwards(options, ComposeAndSwitch,
                 <<Call("fat"), Call("query"), Call("compose"), Call("timing"), Call("slim"),
                   Call("query"), Call("delete")>>)
        ELSE Forwards(options, << >>, <<Call("query"), Call("delete")>>))

RequestsInit  == Load /\ UNCHANGED sketch
RequestsInitR == LoadQuerys /\ UNCHANGED sketch

(* A type that is not known is skipped with a message. *)
Perform(type, r) ==
    \/ type = "inc" /\ Inc(r.key, r.delta)
    \/ type = "dec" /\ Dec(r.key, r.delta)
    \/ type = "unknown" /\ UNCHANGED sketch

RequestsExec ==
    /\ Round("exec")
    /\ \/ /\ request.type # "get"
          /\ Perform(IF request.type = "init" THEN "inc" ELSE request.type, request)
          /\ UNCHANGED outputs
       \/ /\ request.type = "get"
          /\ outputs' = Written(running.file, Append(outputs[running.file], Line(request.key)))
          /\ UNCHANGED sketch

RequestsQuery == QuietRound("query") /\ UNCHANGED sketch
TestThrpt     == QuietRound("throughput") /\ UNCHANGED sketch

(* Every request of the trace is deleted, its type is not looked at. *)
RequestsDelete == QuietRound("delete") /\ Dec(request.key, request.delta)

QueryFqs == [i \in DOMAIN Queries(querys) |-> Line(Queries(querys)[i].key)]

RequestsExecR ==
    \/ ForwardStep /\ Perform(Forward(request.type), request)
    \/ ReverseStep /\ Perform(Opposite(request.type), request)
    \/ (ForwardQuery(QueryFqs) \/ ReverseQuery(QueryFqs)) /\ UNCHANGED sketch
    \/ (ForwardChunk \/ TurnAround \/ ReverseChunk \/ ReverseEnds) /\ UNCHANGED sketch

SketchCall ==
    /\ IsFinal
    /\ \/ In("compose") /\ Final!ComposeSlim
       \/ In("slim") /\ Final!SetQuerySlim
       \/ In("fat") /\ Final!SetQueryFat
       \/ In("timing") /\ UNCHANGED <<fat, slim, final>>
    /\ NextStage
    /\ UNCHANGED <<requests, querys, v2>>

Next ==
    \/ RequestsInit \/ RequestsInitR \/ RequestsExec \/ RequestsQuery \/ TestThrpt
    \/ RequestsDelete \/ RequestsExecR \/ SketchCall
    \/ ((LoopEnds \/ TimingFails) /\ UNCHANGED sketch)
=============================================================================
