---------------------------- MODULE LockedFilter ----------------------------
(***************************************************************************)
(* Threads inside one quotient filter of cqfilter/gqf.c.  A call of        *)
(* qf_insert() first reads the number of slots in use through the          *)
(* partitioned counter, then takes the locks of the regions around the     *)
(* bucket of its key, looks for the place of the key and the next free     *)
(* slots, shifts the slots in between, adds to the counter and gives the   *)
(* locks back; qf_remove() does the same without the first read.  A step   *)
(* is one lock, one atomic operation of the counter, the look at the slots *)
(* or the store into them.  A slot holds the bucket of its item, which is  *)
(* all that shifting depends on (QFSlots has the metadata).                *)
(***************************************************************************)
EXTENDS Integers, FiniteSets, FiniteSetsExt

CONSTANTS
    Threads,
    NSlots,       \* xnslots: the slots, past the buckets included
    Buckets,      \* the buckets keys go to
    Region,       \* NUM_SLOTS_TO_LOCK
    Cluster,      \* CLUSTER_SIZE
    Limit,        \* 95% of nslots: at this many slots qf_insert() refuses
    NumCounters, Threshold,
    AbsentToo,    \* qf_remove() may be called for what is not there
    MaxOps,       \* bound on the number of calls (bounds the model only)
    Nobody, Free,
    Left          \* of a lock: the call that took it has returned

ASSUME LockedAssumption ==
    /\ Region \in Nat \ {0} /\ Cluster \in Nat /\ NSlots \in Nat
    /\ 2 * Cluster < Region      \* 2^15 and 2^16
    /\ Buckets \subseteq 0 .. (NSlots - 1) /\ Free \notin Int
    /\ AbsentToo \in BOOLEAN /\ MaxOps \in Nat /\ Limit \in Nat
    /\ IsFiniteSet(Threads) /\ Nobody \notin Threads /\ Left \notin Threads /\ Left # Nobody
    /\ NumCounters \in Nat \ {0} /\ Threshold \in Nat

Slots == 0 .. (NSlots - 1)
Locks == 0 .. (NSlots \div Region + 1)
Counts == {1, 2}
Jobs ==
    [kind : {"insert"}, bucket : Buckets, n : Counts] \union
    [kind : {"remove"}, bucket : Buckets, n : {1}]

NoJob == CHOOSE j \in Jobs : TRUE

VARIABLES
    local, global, at, id, held, calls, added, late,  \* noccupied_slots
    slots,     \* the slots: the bucket of the item, or Free
    lock,      \* runtimedata->locks: the thread that has it, Nobody or Left
    stage,     \* where a thread is in its call
    job,       \* its arguments: one or two items of a bucket
    plan,      \* what it is about to store: a function on some slots
    ops,       \* history: calls begun
    stored,    \* history: items of a bucket accepted, less those removed
    promised,  \* history: items of a bucket not yet asked to be removed
    crowded    \* history: a call found a stretch of slots longer than Cluster

counterVars == <<local, global, at, id, held, calls, added, late>>
vars == <<counterVars, slots, lock, stage, job, plan, ops, stored, promised, crowded>>

(* The partitioned counter of the slots in use.                            *)
Occupied == INSTANCE PartitionedCounter WITH
    Amounts <- {-2, -1, 1, 2}, MaxCalls <- 2 * MaxOps

NoSlots == [s \in {} |-> Free]

-----------------------------------------------------------------------------
(* Locks *)

RegionOf(b) == b \div Region
Offset(b) == b % Region

(* Mutation: the distance to the next region is one short. *)
ReachesNextStrictly(b) == Region - Offset(b) < Cluster

ReachesNext(b) == Region - Offset(b) <= Cluster
ReachesBack(b) == b >= Region /\ Offset(b) <= Cluster

(* The small lock is for one item, the large one for several or a removal. *)
Small(j) == j.kind = "insert" /\ j.n = 1

LocksOf(j) ==
    LET r == RegionOf(j.bucket)
    IN IF Small(j)
       THEN {r} \union {l \in {r + 1} : ReachesNext(j.bucket)}
       ELSE {r, r + 1} \union {l \in {r - 1} : ReachesBack(j.bucket)}

Has(t) == {l \in Locks : lock[l] = t}

(* Mutation: the large lock is taken from the highest region down. *)
NextLockLargeDown(t) ==
    LET rest == LocksOf(job[t]) \ Has(t)
    IN IF Small(job[t]) THEN Min(rest) ELSE Max(rest)

(* Locks are taken from the lowest region up.                              *)
NextLock(t) == Min(LocksOf(job[t]) \ Has(t))

-----------------------------------------------------------------------------
(* Slots *)

InUse(s) == slots[s] # Free

(* Items of a bucket stand together, buckets in order, none before home.   *)
Place(b) == {s \in Slots : s >= b /\ (~InUse(s) \/ slots[s] > b)}

FreeFrom(s) == {f \in Slots : f >= s /\ ~InUse(f)}

(* find_next_n_empty_slots(): the first, and the last of n.  From its home *)
(* to its place a bucket has no empty slot.                                *)
FirstEmpty(b)   == Min(FreeFrom(b))
LastEmpty(b, n) == IF n = 1 THEN FirstEmpty(b) ELSE Min(FreeFrom(FirstEmpty(b) + 1))

Room(j) ==
    /\ FreeFrom(j.bucket) # {}
    /\ j.n = 1 \/ FreeFrom(FirstEmpty(j.bucket) + 1) # {}

(* The items up to the last of n empty slots move up to make room for n of *)
(* bucket b: those before the first empty slot by n, those between by one. *)
ShiftUp(b, n) ==
    LET p == Min(Place(b))
        f == FirstEmpty(b)
    IN [u \in p .. LastEmpty(b, n) |->
            IF u < p + n THEN b
            ELSE IF n = 1 \/ u - n < f THEN slots[u - n] ELSE slots[u - 1]]

HomeItems(b) == {s \in Slots : slots[s] = b}

(* The slots after an item, as far as their items are away from home.      *)
Away(s) ==
    {u \in Slots : u > s /\ \A v \in (s + 1) .. u : InUse(v) /\ slots[v] < v}

(* They move back onto the item.                                           *)
ShiftDown(b) ==
    LET s == Max(HomeItems(b))
        e == Max({s} \union Away(s))
    IN [u \in s .. e |-> IF u < e THEN slots[u + 1] ELSE Free]

(* A stretch of slots in use longer than Cluster. *)
Crowded ==
    \E s \in Slots : s + Cluster \in Slots /\ \A u \in s .. (s + Cluster) : InUse(u)

-----------------------------------------------------------------------------
(* Calls *)

Idle(t) == stage[t] = "idle"
AllIdle == \A t \in Threads : Idle(t)
Goes(t, s) ==
    /\ stage' = [stage EXCEPT ![t] = s]
    /\ job' = IF s = "idle" THEN [job EXCEPT ![t] = NoJob] ELSE job

Begins(t, j, s) ==
    /\ stage' = [stage EXCEPT ![t] = s]
    /\ job' = [job EXCEPT ![t] = j]

(* What the counter and the slots leave alone. *)
FilterStays == UNCHANGED <<slots, lock, plan, stored, crowded>>
NoCall == UNCHANGED <<ops, promised>>

Init ==
    /\ Occupied!Init
    /\ slots = [s \in Slots |-> Free]
    /\ lock = [l \in Locks |-> Nobody]
    /\ stage = [t \in Threads |-> "idle"]
    /\ job = [t \in Threads |-> NoJob]
    /\ plan = [t \in Threads |-> NoSlots]
    /\ ops = 0
    /\ stored = [b \in Buckets |-> 0]
    /\ promised = [b \in Buckets |-> 0]
    /\ crowded = FALSE

(* qf_insert(): pc_sync() before the number of slots in use is read.       *)
CallInsert(t, j) ==
    /\ Idle(t) /\ ops < MaxOps /\ j.kind = "insert"
    /\ Occupied!Sync(t)
    /\ Begins(t, j, "check")
    /\ ops' = ops + 1
    /\ FilterStays /\ UNCHANGED promised

(* qf_remove() of one item.                                                *)
CallRemove(t, j) ==
    /\ Idle(t) /\ ops < MaxOps /\ j.kind = "remove"
    /\ AbsentToo \/ promised[j.bucket] > 0
    /\ Begins(t, j, "lock")
    /\ ops' = ops + 1
    /\ promised' = [promised EXCEPT ![j.bucket] = IF @ = 0 THEN 0 ELSE @ - 1]
    /\ FilterStays /\ UNCHANGED counterVars

CountStep(t) ==
    /\ Occupied!Collect(t) \/ Occupied!Give(t) \/ Occupied!SyncTake(t) \/ Occupied!SyncGive(t)
    /\ UNCHANGED <<stage, job>> /\ FilterStays /\ NoCall

(* Mutation: the test lets one call too many through. *)
CheckBeyond(t) ==
    /\ stage[t] = "check"
    /\ Occupied!Read(t)
    /\ Goes(t, IF global > Limit THEN "idle" ELSE "lock")
    /\ FilterStays /\ NoCall

(* The fullness test of qf_insert().                                       *)
Check(t) ==
    /\ stage[t] = "check"
    /\ Occupied!Read(t)
    /\ Goes(t, IF global >= Limit THEN "idle" ELSE "lock")
    /\ FilterStays /\ NoCall

(* qf_spin_lock(): with QF_WAIT_FOR_LOCK the thread spins.                 *)
TakeLock(t) ==
    /\ stage[t] = "lock"
    /\ LET l == NextLock(t)
       IN /\ lock[l] = Nobody
          /\ lock' = [lock EXCEPT ![l] = t]
          /\ Goes(t, IF LocksOf(job[t]) = Has(t) \union {l} THEN "look" ELSE "lock")
    /\ UNCHANGED <<counterVars, slots, plan, stored, crowded>> /\ NoCall

(* Mutation: it keeps what it has. *)
GiveUpKeeps(t) ==
    /\ stage[t] = "lock"
    /\ lock[NextLock(t)] # Nobody
    /\ Goes(t, "idle")
    /\ FilterStays /\ NoCall /\ UNCHANGED counterVars

(* With QF_TRY_ONCE_LOCK, which any call may have, it gives up and gives   *)
(* back what it has.                                                       *)
GiveUp(t) ==
    /\ stage[t] = "lock"
    /\ lock[NextLock(t)] # Nobody
    /\ Goes(t, IF Has(t) = {} THEN "idle" ELSE "unlock")
    /\ FilterStays /\ NoCall /\ UNCHANGED counterVars

(* A call returns with its locks: their words stay set.                    *)
Leave(t) == lock' = [l \in Locks |-> IF lock[l] = t THEN Left ELSE lock[l]]

(* The place of the item and the slots to shift are found; a removal of    *)
(* what is not there and an insertion without a free slot return at once,  *)
(* with the locks.                                                         *)
Look(t) ==
    LET j == job[t]
    IN /\ stage[t] = "look"
       /\ IF j.kind = "insert" /\ Room(j)
          THEN plan' = [plan EXCEPT ![t] = ShiftUp(j.bucket, j.n)] /\ Goes(t, "store")
               /\ UNCHANGED lock
          ELSE IF j.kind = "remove" /\ HomeItems(j.bucket) # {}
          THEN plan' = [plan EXCEPT ![t] = ShiftDown(j.bucket)] /\ Goes(t, "store")
               /\ UNCHANGED lock
          ELSE UNCHANGED plan /\ Goes(t, "idle") /\ Leave(t)
       /\ crowded' = (crowded \/ Crowded)
       /\ UNCHANGED <<counterVars, slots, stored>> /\ NoCall

(* Items a call adds to its bucket, which is what it changes the number of *)
(* slots in use by.                                                        *)
Change(j) == IF j.kind = "insert" THEN j.n ELSE -1

(* The slots are stored; pc_add() for the slots in use.                    *)
Store(t, i) ==
    LET j == job[t]
    IN /\ stage[t] = "store"
       /\ slots' = [s \in Slots |-> IF s \in DOMAIN plan[t] THEN plan[t][s] ELSE slots[s]]
       /\ plan' = [plan EXCEPT ![t] = NoSlots]
       /\ Occupied!Add(t, i, Change(j))
       /\ stored' = [stored EXCEPT ![j.bucket] = @ + Change(j)]
       /\ promised' = [promised EXCEPT ![j.bucket] = IF j.kind = "insert" THEN @ + j.n ELSE @]
       /\ Goes(t, "unlock")
       /\ UNCHANGED <<lock, ops, crowded>>

(* qf_unlock(), after the pc_add() is done: the highest region first.      *)
GiveLock(t) ==
    /\ stage[t] = "unlock" /\ at[t] = "idle"
    /\ lock' = [lock EXCEPT ![Max(Has(t))] = Nobody]
    /\ Goes(t, IF Cardinality(Has(t)) = 1 THEN "idle" ELSE "unlock")
    /\ UNCHANGED <<counterVars, slots, plan, stored, crowded>> /\ NoCall

(* qf_sync_counters(), for a caller who is about to read the counter.      *)
SyncCounters(t) ==
    /\ Idle(t) /\ ops < MaxOps
    /\ Occupied!Sync(t)
    /\ Begins(t, job[t], "sync")
    /\ ops' = ops + 1
    /\ FilterStays /\ UNCHANGED promised

Synced(t) ==
    /\ stage[t] = "sync"
    /\ Occupied!Read(t)
    /\ Goes(t, "idle")
    /\ FilterStays /\ NoCall

Step(t) ==
    \/ CountStep(t) \/ Check(t) \/ TakeLock(t) \/ Look(t)
    \/ (\E i \in 0 .. (NumCounters - 1) : Store(t, i))
    \/ GiveLock(t) \/ Synced(t)

Stopped == AllIdle /\ ops = MaxOps /\ UNCHANGED vars

Next ==
    \/ \E t \in Threads :
        \/ \E j \in Jobs : CallInsert(t, j) \/ CallRemove(t, j)
        \/ GiveUp(t) \/ SyncCounters(t) \/ Step(t)
    \/ Stopped

Fairness == \A t \in Threads : WF_vars(Step(t))
Spec == Init /\ [][Next]_vars /\ Fairness

-----------------------------------------------------------------------------
(* Properties *)

(* Nothing counted is ever lost or counted twice: it is in a local         *)
(* counter, in the global one, or in the hands of a thread between its     *)
(* exchange and its fetch-and-add, however pc_add()s and pc_sync()s of the *)
(* calls interleave.                                                       *)
NothingLost == Occupied!NothingLost

(* While no thread is inside, the global counter is off the number of      *)
(* slots in use by no more than the threshold for each local counter,      *)
(* although a thread tests the sum it saw and collects a sum that may have *)
(* changed since, in a pc_sync() that other threads add behind.            *)
IdleErrorBounded ==
    AllIdle => Occupied!Size(Cardinality({s \in Slots : InUse(s)}) - global)
                 <= NumCounters * Threshold

(* When a thread reads the global counter after its pc_sync(), it lacks at *)
(* most what was added since it was called and what other threads have     *)
(* taken and not yet handed over.                                          *)
SyncCatchesUp == Occupied!SyncCatchesUp

(* As long as no call found a stretch of slots in use longer than           *)
(* CLUSTER_SIZE, no thread ever shifts what another has just stored, also at the ends of *)
(* the regions, where the slots a call looks at lie in a region it locks   *)
(* only because of the distance of its bucket: the filter holds exactly    *)
(* the items that were accepted and not removed.                           *)
ItemsKept ==
    ~crowded => \A b \in Buckets : Cardinality(HomeItems(b)) = stored[b]

(* Threads test the fullness at the same time and all go on: no call goes  *)
(* on when the limit is reached, but for what was added since its          *)
(* pc_sync() began and what others have taken and not yet handed over; as  *)
(* long as no stretch of slots was longer than CLUSTER_SIZE.               *)
FullIsRefused ==
    [][\A t \in Threads : ~crowded /\ stage[t] = "check" /\ stage'[t] = "lock" =>
          Cardinality({s \in Slots : InUse(s)})
            < Limit + late[t] + Occupied!Size(Occupied!SumFunction(held))]_vars

(* gqf.h: "portion of the CQF being examined or modified is locked" for    *)
(* the call: no lock outlives it.                                          *)
LocksReturned ==
    \A l \in Locks : lock[l] # Nobody => \E t \in Threads : l \in Has(t) /\ ~Idle(t)

(* No set of threads waits for each other for ever: every call returns,    *)
(* given that the threads run and that calls are finitely many.            *)
EveryCallReturns == \A t \in Threads : ~Idle(t) ~> Idle(t)
=============================================================================
