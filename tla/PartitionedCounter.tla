------------------------- MODULE PartitionedCounter -------------------------
(***************************************************************************)
(* The counter of cqfilter/partitioned_counter.c, with which threads that  *)
(* insert into the quotient filter keep its number of elements: a thread   *)
(* adds to the local counter of its processor and moves that counter to    *)
(* the global one when it has grown beyond a threshold; pc_sync() moves    *)
(* them all, before the global counter is read.  Each atomic operation is  *)
(* a step; between two of them other threads run.                          *)
(***************************************************************************)
EXTENDS Integers, FiniteSetsExt

CONSTANTS
    Threads,
    NumCounters,   \* num_counters
    Threshold,     \* threshold
    Amounts,       \* what a call of pc_add() may add
    MaxCalls       \* bound on the number of calls (bounds the model only)

Ids == 0 .. (NumCounters - 1)

VARIABLES
    local,    \* local_counters[id].counter
    global,   \* *global_counter
    at,       \* where a thread is: "idle", or in pc_add() or pc_sync()
    id,       \* counter_id of its pc_add(), i of its pc_sync()
    held,     \* new_count or c: taken from a local counter, not yet handed over
    calls,    \* history: calls made
    added,    \* history: the sum of everything added
    late      \* history: how much was added, by size, since a pc_sync() began

vars == <<local, global, at, id, held, calls, added, late>>

Size(n) == IF n < 0 THEN -n ELSE n
InSync(t) == at[t] \in {"sync", "syncGive", "synced"}

Init ==
    /\ local = [i \in Ids |-> 0]
    /\ global = 0
    /\ at = [t \in Threads |-> "idle"]
    /\ id = [t \in Threads |-> 0]
    /\ held = [t \in Threads |-> 0]
    /\ calls = 0
    /\ added = 0
    /\ late = [t \in Threads |-> 0]

Call(t) ==
    /\ at[t] = "idle"
    /\ calls < MaxCalls
    /\ calls' = calls + 1

Beyond(n) == n > Threshold \/ n < -Threshold

(* Mutation: what the local counter held before the addition is tested. *)
AddTestsOld(t, i, amount) ==
    /\ Call(t)
    /\ local' = [local EXCEPT ![i] = @ + amount]
    /\ IF Beyond(local[i])
       THEN at' = [at EXCEPT ![t] = "collect"] /\ id' = [id EXCEPT ![t] = i]
       ELSE UNCHANGED <<at, id>>
    /\ added' = added + amount
    /\ late' = [u \in Threads |-> IF InSync(u) THEN late[u] + Size(amount) ELSE 0]
    /\ UNCHANGED <<global, held>>

(* pc_add() up to the test.  sched_getcpu() may answer any processor, and  *)
(* the thread may have moved to another one since.                         *)
Add(t, i, amount) ==
    /\ Call(t)
    /\ local' = [local EXCEPT ![i] = @ + amount]
    /\ IF Beyond(local'[i])
       THEN at' = [at EXCEPT ![t] = "collect"] /\ id' = [id EXCEPT ![t] = i]
       ELSE UNCHANGED <<at, id>>
    /\ added' = added + amount
    /\ late' = [u \in Threads |-> IF InSync(u) THEN late[u] + Size(amount) ELSE 0]
    /\ UNCHANGED <<global, held>>

(* Mutation: the local counter is read and not cleared. *)
TakeKeepsLocal(t) ==
    /\ held' = [held EXCEPT ![t] = local[id[t]]]
    /\ UNCHANGED local

(* __atomic_exchange_n(&local_counters[...].counter, 0)                    *)
Take(t) ==
    /\ held' = [held EXCEPT ![t] = local[id[t]]]
    /\ local' = [local EXCEPT ![id[t]] = 0]

Collect(t) ==
    /\ at[t] = "collect"
    /\ Take(t)
    /\ at' = [at EXCEPT ![t] = "give"]
    /\ UNCHANGED <<global, id, calls, added, late>>

(* __atomic_fetch_add(global_counter, ...)                                 *)
Hand(t) ==
    /\ global' = global + held[t]
    /\ held' = [held EXCEPT ![t] = 0]

Give(t) ==
    /\ at[t] = "give"
    /\ Hand(t)
    /\ at' = [at EXCEPT ![t] = "idle"]
    /\ id' = [id EXCEPT ![t] = 0]
    /\ UNCHANGED <<local, calls, added, late>>

(* pc_sync() (pc_destructor(), which begins with it, is never called).     *)
Sync(t) ==
    /\ Call(t)
    /\ at' = [at EXCEPT ![t] = "sync"]
    /\ id' = [id EXCEPT ![t] = 0]
    /\ late' = [late EXCEPT ![t] = 0]
    /\ UNCHANGED <<local, global, held, added>>

SyncTake(t) ==
    /\ at[t] = "sync"
    /\ Take(t)
    /\ at' = [at EXCEPT ![t] = "syncGive"]
    /\ UNCHANGED <<global, id, calls, added, late>>

(* Mutation: the loop over i ends one counter early. *)
SyncGiveShort(t) ==
    /\ at[t] = "syncGive"
    /\ Hand(t)
    /\ id' = [id EXCEPT ![t] = @ + 1]
    /\ at' = [at EXCEPT ![t] = IF id'[t] < NumCounters - 1 THEN "sync" ELSE "synced"]
    /\ UNCHANGED <<local, calls, added, late>>

SyncGive(t) ==
    /\ at[t] = "syncGive"
    /\ Hand(t)
    /\ id' = [id EXCEPT ![t] = @ + 1]
    /\ at' = [at EXCEPT ![t] = IF id'[t] < NumCounters THEN "sync" ELSE "synced"]
    /\ UNCHANGED <<local, calls, added, late>>

(* The caller reads the global counter (qf_get_sum_of_counts()).           *)
Read(t) ==
    /\ at[t] = "synced"
    /\ at' = [at EXCEPT ![t] = "idle"]
    /\ id' = [id EXCEPT ![t] = 0]
    /\ late' = [late EXCEPT ![t] = 0]
    /\ UNCHANGED <<local, global, held, calls, added>>

-----------------------------------------------------------------------------
(* Properties *)

(* Nothing added is ever lost or counted twice: it is in a local counter,  *)
(* in the global one, or in the hands of a thread between its exchange and *)
(* its fetch-and-add, however pc_add()s and pc_sync()s interleave.         *)
NothingLost == global + SumFunction(local) + SumFunction(held) = added

(* When pc_sync() returns, the global counter lacks at most what was added *)
(* since it was called and what other threads have taken and not yet       *)
(* handed over.                                                            *)
SyncCatchesUp ==
    \A t \in Threads : at[t] = "synced" =>
        Size(added - global - SumFunction(held)) <= late[t]
=============================================================================
