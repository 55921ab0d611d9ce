----------------------------- MODULE CQFDriver -----------------------------
(***************************************************************************)
(* The driver of the counting quotient filter, cqfilter/main.c, over       *)
(* gqf_wrapper.h.  The filter is the counted multiset of its hashes, as    *)
(* QuotientFilter implements it.  The option -r is read and has no effect. *)
(***************************************************************************)
EXTENDS DriverLoops, FiniteSets

CONSTANTS
    Keys,
    Fingerprint,   \* Fingerprint[key], the hash qf_insert_s() stores
    Room           \* hashes the filter always has room for

VARIABLES
    counts,    \* what the filter counts, by hash
    refused,   \* history: an insertion has been refused
    count      \* history: the true count of every key

sketch == <<counts, refused, count>>

Line(x) ==
    [key |-> x, value |-> counts[Fingerprint[x]], count |-> count[x], content |-> counts]

FilterInit ==
    /\ counts = [h \in {Fingerprint[x] : x \in Keys} |-> 0]
    /\ refused = FALSE
    /\ count = [x \in Keys |-> 0]

(* With -T the updates are queried. *)
Main(options) == Forwards(options, << >>, <<Call("query")>>)

RequestsInit == Load /\ UNCHANGED sketch

(* gqf_insert(): a filter that is full refuses, which the wrapper does    *)
(* not tell; how soon it is full depends on the counters in its slots.     *)
GqfInsert(x, delta) ==
    LET h == Fingerprint[x]
        used == Cardinality({g \in DOMAIN counts : counts[g] > 0})
    IN \/ /\ counts' = [counts EXCEPT ![h] = @ + delta]
          /\ UNCHANGED refused
       \/ /\ used >= Room
          /\ refused' = TRUE
          /\ UNCHANGED counts

(* request_init, request_inc and request_dec are all insertions. *)
Perform(r) ==
    /\ GqfInsert(r.key, r.delta)
    /\ count' = [count EXCEPT ![r.key] = IF r.type = "dec" THEN @ - r.delta ELSE @ + r.delta]

RequestsExec ==
    /\ Round("exec")
    /\ \/ /\ request.type # "get"
          /\ Perform(request)
          /\ UNCHANGED outputs
       \/ /\ request.type = "get"
          /\ outputs' = Written(running.file, Append(outputs[running.file], Line(request.key)))
          /\ UNCHANGED sketch

RequestsQuery == QuietRound("query") /\ UNCHANGED sketch
TestThrpt     == QuietRound("throughput") /\ UNCHANGED sketch

Next ==
    \/ RequestsInit \/ RequestsExec \/ RequestsQuery \/ TestThrpt
    \/ ((LoopEnds \/ TimingFails) /\ UNCHANGED sketch)
=============================================================================
