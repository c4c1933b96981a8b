------------------------- MODULE ThreadQueueProofs -------------------------
(***************************************************************************)
(* For any number of threads, any items and any capacities: thread_queue   *)
(* loses no wake-up, and it implements BlockingChannel (safety part).      *)
(***************************************************************************)
EXTENDS ThreadQueue, FiniteSetTheorems, TLAPS

\* The inductive invariant.  NoLostWakeup alone is not inductive: that put()
\* may find the queue closed and leave without notifying anyone is harmless
\* only because close() has emptied the wait sets for good.
Inv == TypeOK /\ NoLostWakeup /\ ClosedMeansAwake

-----------------------------------------------------------------------------
(* Sets of threads.                                                        *)

\* Any set of threads has a size; subsets are no larger.
LEMMA ThreadSets ==
    \A S \in SUBSET Threads :
        /\ IsFiniteSet(S)
        /\ Cardinality(S) \in Nat
        /\ S = {} => Cardinality(S) = 0
        /\ \A T \in SUBSET S : Cardinality(T) <= Cardinality(S)
<1> SUFFICES ASSUME NEW S \in SUBSET Threads
             PROVE  /\ IsFiniteSet(S)
                    /\ Cardinality(S) \in Nat
                    /\ S = {} => Cardinality(S) = 0
                    /\ \A T \in SUBSET S : Cardinality(T) <= Cardinality(S)
    OBVIOUS
<1>1. IsFiniteSet(S)
    BY ThreadsFinite, FS_Subset
<1>2. Cardinality(S) \in Nat
    BY <1>1, FS_CardinalityType
<1>3. S = {} => Cardinality(S) = 0
    BY FS_EmptySet
<1>4. \A T \in SUBSET S : Cardinality(T) <= Cardinality(S)
    BY <1>1, FS_Subset
<1> QED BY <1>1, <1>2, <1>3, <1>4

\* A thread that joins a set, or leaves it, changes its size by one.
LEMMA ThreadSetStep ==
    ASSUME NEW S \in SUBSET Threads, NEW u \in Threads
    PROVE  /\ u \notin S => Cardinality(S \union {u}) = Cardinality(S) + 1
           /\ u \in S => Cardinality(S \ {u}) = Cardinality(S) - 1
<1>1. IsFiniteSet(S)
    BY ThreadSets
<1> QED BY <1>1, FS_AddElement, FS_RemoveElement

-----------------------------------------------------------------------------
(* The inductive step, one lemma per part of the code that ends in the     *)
(* release of lock_.                                                       *)

\* How a call starts its wait or goes back to it.
Deadline(t) == timed' \in {timed, timed \union {t}} /\ UNCHANGED expired

\* Store, reached from an idle thread or from the wait in put().
LEMMA StoreStep ==
    ASSUME Inv, NEW t \in Threads, NEW v \in Values,
           op[t] # "get", t \notin notFullCond, Store(t, v)
    PROVE  Inv'
<1> USE DEF Inv
<1>1. TypeOK'
  <2>1. CASE closed \/ Len(que) >= cap
    BY <2>1, NoValueAssumption DEF TypeOK, Store, Return, Ops, Outcomes
  <2>2. CASE ~(closed \/ Len(que) >= cap)
    <3>1. que' \in Seq(Values)
        BY <2>2 DEF TypeOK, Store
    <3>2. notEmptyCond' \subseteq notEmptyCond
        BY <2>2 DEF Store, NotifyOneNotEmpty
    <3> QED BY <2>2, <3>1, <3>2, NoValueAssumption DEF TypeOK, Store, Return, Ops, Outcomes
  <2> QED BY <2>1, <2>2
<1>2. ClosedMeansAwake'
    BY DEF ClosedMeansAwake, Store, NotifyOneNotEmpty
<1>3. /\ WakingGetters \in SUBSET Threads /\ WakingPutters \in SUBSET Threads
      /\ Cardinality(WakingGetters) \in Nat /\ Cardinality(WakingPutters) \in Nat
    BY ThreadSets DEF WakingGetters, WakingPutters
<1>4. Len(que) \in Nat /\ cap \in Nat
    BY DEF TypeOK
<1>5. CASE closed
    BY <1>1, <1>2, <1>5 DEF NoLostWakeup, ClosedMeansAwake, Store
<1>6. CASE ~closed /\ Len(que) >= cap
  <2>1. /\ UNCHANGED <<que, cap, notEmptyCond, notFullCond>>
        /\ op' = [op EXCEPT ![t] = "none"]
    BY <1>6 DEF Store, Return
  <2>2. WakingGetters' = WakingGetters
    BY <2>1 DEF WakingGetters, TypeOK
  <2>3. Cardinality(WakingPutters') \in Nat
    BY ThreadSets DEF WakingPutters
  <2> QED BY <1>1, <1>2, <1>3, <1>4, <1>6, <2>1, <2>2, <2>3 DEF NoLostWakeup
<1>7. CASE ~closed /\ Len(que) < cap
  <2>1. /\ UNCHANGED <<cap, notFullCond>>
        /\ op' = [op EXCEPT ![t] = "none"]
        /\ NotifyOneNotEmpty
        /\ Len(que') = Len(que) + 1
    BY <1>4, <1>7 DEF Store, Return, TypeOK
  <2>2. notEmptyCond' # {} => Len(que') <= Cardinality(WakingGetters')
    <3> SUFFICES ASSUME notEmptyCond' # {}
                 PROVE  Len(que') <= Cardinality(WakingGetters')
        OBVIOUS
    <3>1. PICK u \in notEmptyCond : notEmptyCond' = notEmptyCond \ {u}
        BY <2>1 DEF NotifyOneNotEmpty
    <3>2. WakingGetters' = WakingGetters \union {u} /\ u \notin WakingGetters
        BY <2>1, <3>1 DEF WakingGetters, TypeOK
    <3>3. Cardinality(WakingGetters') = Cardinality(WakingGetters) + 1
        BY <1>3, <3>1, <3>2, ThreadSetStep DEF TypeOK
    <3> QED BY <1>3, <1>4, <2>1, <3>1, <3>3 DEF NoLostWakeup
  <2>3. notFullCond' # {} => cap' <= Len(que') + Cardinality(WakingPutters')
    <3>1. CASE op[t] = "put"
      <4>1. WakingPutters' = WakingPutters \ {t} /\ t \in WakingPutters
        BY <2>1, <3>1 DEF WakingPutters, TypeOK
      <4>2. Cardinality(WakingPutters') = Cardinality(WakingPutters) - 1
        BY <1>3, <4>1, ThreadSetStep
      <4> QED BY <1>3, <1>4, <2>1, <4>2 DEF NoLostWakeup
    <3>2. CASE op[t] # "put"
      <4>1. WakingPutters' = WakingPutters
        BY <2>1, <3>2 DEF WakingPutters, TypeOK
      <4> QED BY <1>3, <1>4, <2>1, <4>1 DEF NoLostWakeup
    <3> QED BY <3>1, <3>2
  <2> QED BY <1>1, <1>2, <2>2, <2>3 DEF NoLostWakeup
<1> QED BY <1>1, <1>2, <1>4, <1>5, <1>6, <1>7

\* Take, reached from an idle thread or from the wait in get().
LEMMA TakeStep ==
    ASSUME Inv, NEW t \in Threads, op[t] # "put", t \notin notEmptyCond, Take(t)
    PROVE  Inv'
<1> USE DEF Inv
<1>1. TypeOK'
  <2>1. CASE que = <<>>
    BY <2>1, NoValueAssumption DEF TypeOK, Take, Return, Ops, Outcomes
  <2>2. CASE que # <<>>
    <3>1. que' \in Seq(Values) /\ Head(que) \in Values
        BY <2>2 DEF TypeOK, Take
    <3>2. notFullCond' \subseteq notFullCond
        BY <2>2 DEF Take, NotifyOneNotFull
    <3> QED BY <2>2, <3>1, <3>2, NoValueAssumption DEF TypeOK, Take, Return, Ops, Outcomes
  <2> QED BY <2>1, <2>2
<1>2. ClosedMeansAwake'
    BY DEF ClosedMeansAwake, Take, NotifyOneNotFull
<1>3. /\ WakingGetters \in SUBSET Threads /\ WakingPutters \in SUBSET Threads
      /\ Cardinality(WakingGetters) \in Nat /\ Cardinality(WakingPutters) \in Nat
    BY ThreadSets DEF WakingGetters, WakingPutters
<1>4. Len(que) \in Nat /\ cap \in Nat
    BY DEF TypeOK
<1>5. CASE que = <<>>
  <2>1. /\ UNCHANGED <<que, cap, notEmptyCond, notFullCond>>
        /\ op' = [op EXCEPT ![t] = "none"]
    BY <1>5 DEF Take, Return
  <2>2. WakingPutters' = WakingPutters
    BY <2>1 DEF WakingPutters, TypeOK
  <2>3. Cardinality(WakingGetters') \in Nat
    BY ThreadSets DEF WakingGetters
  <2>4. Len(que') = 0
    BY <1>5, <2>1
  <2> QED BY <1>1, <1>2, <1>3, <1>4, <2>1, <2>2, <2>3, <2>4 DEF NoLostWakeup
<1>6. CASE que # <<>>
  <2>1. /\ UNCHANGED <<cap, notEmptyCond>>
        /\ op' = [op EXCEPT ![t] = "none"]
        /\ NotifyOneNotFull
        /\ Len(que') = Len(que) - 1
    BY <1>4, <1>6 DEF Take, Return, TypeOK
  <2>2. notFullCond' # {} => cap' <= Len(que') + Cardinality(WakingPutters')
    <3> SUFFICES ASSUME notFullCond' # {}
                 PROVE  cap' <= Len(que') + Cardinality(WakingPutters')
        OBVIOUS
    <3>1. PICK u \in notFullCond : notFullCond' = notFullCond \ {u}
        BY <2>1 DEF NotifyOneNotFull
    <3>2. WakingPutters' = WakingPutters \union {u} /\ u \notin WakingPutters
        BY <2>1, <3>1 DEF WakingPutters, TypeOK
    <3>3. Cardinality(WakingPutters') = Cardinality(WakingPutters) + 1
        BY <1>3, <3>1, <3>2, ThreadSetStep DEF TypeOK
    <3> QED BY <1>3, <1>4, <2>1, <3>1, <3>3 DEF NoLostWakeup
  <2>3. notEmptyCond' # {} => Len(que') <= Cardinality(WakingGetters')
    <3>1. CASE op[t] = "get"
      <4>1. WakingGetters' = WakingGetters \ {t} /\ t \in WakingGetters
        BY <2>1, <3>1 DEF WakingGetters, TypeOK
      <4>2. Cardinality(WakingGetters') = Cardinality(WakingGetters) - 1
        BY <1>3, <4>1, ThreadSetStep
      <4> QED BY <1>3, <1>4, <2>1, <4>2 DEF NoLostWakeup
    <3>2. CASE op[t] # "get"
      <4>1. WakingGetters' = WakingGetters
        BY <2>1, <3>2 DEF WakingGetters, TypeOK
      <4> QED BY <1>3, <1>4, <2>1, <4>1 DEF NoLostWakeup
    <3> QED BY <3>1, <3>2
  <2> QED BY <1>1, <1>2, <2>2, <2>3 DEF NoLostWakeup
<1> QED BY <1>5, <1>6

\* put() starts to wait, or waits again after a wake-up that found no place.
LEMMA BlockInPutStep ==
    ASSUME Inv, NEW t \in Threads, NEW v \in Values, ~CanPut,
           op[t] # "get", BlockInPut(t, v), Deadline(t)
    PROVE  Inv'
<1> USE DEF Inv
<1>1. TypeOK'
    BY DEF TypeOK, BlockInPut, Deadline, Ops, Outcomes
<1>2. ClosedMeansAwake'
    BY DEF ClosedMeansAwake, BlockInPut, CanPut
<1>3. WakingGetters' = WakingGetters
    BY DEF WakingGetters, BlockInPut, TypeOK
<1>4. Cardinality(WakingPutters') \in Nat
    BY ThreadSets DEF WakingPutters
<1>5. cap' <= Len(que') /\ Len(que') \in Nat /\ cap' \in Nat
    BY DEF CanPut, BlockInPut, TypeOK
<1>6. cap' <= Len(que') + Cardinality(WakingPutters')
    BY <1>4, <1>5
<1> QED BY <1>1, <1>2, <1>3, <1>6 DEF NoLostWakeup, BlockInPut

\* get() starts to wait, or waits again after a wake-up that found no item.
LEMMA BlockInGetStep ==
    ASSUME Inv, NEW t \in Threads, ~CanGet,
           op[t] # "put", BlockInGet(t), Deadline(t)
    PROVE  Inv'
<1> USE DEF Inv
<1>1. TypeOK'
    BY DEF TypeOK, BlockInGet, Deadline, Ops, Outcomes
<1>2. ClosedMeansAwake'
    BY DEF ClosedMeansAwake, BlockInGet, CanGet
<1>3. WakingPutters' = WakingPutters
    BY DEF WakingPutters, BlockInGet, TypeOK
<1>4. Cardinality(WakingGetters') \in Nat
    BY ThreadSets DEF WakingGetters
<1>5. Len(que') = 0
    BY DEF CanGet, BlockInGet
<1>6. Len(que') <= Cardinality(WakingGetters')
    BY <1>4, <1>5
<1> QED BY <1>1, <1>2, <1>3, <1>6 DEF NoLostWakeup, BlockInGet

\* A thread leaves its wait set of its own accord: deadline or spurious.
LEMMA LeaveStep ==
    ASSUME Inv, NEW t \in Threads, Expire(t) \/ SpuriousWakeup(t)
    PROVE  Inv'
<1> USE DEF Inv
<1>1. TypeOK' /\ ClosedMeansAwake'
    BY DEF TypeOK, ClosedMeansAwake, Expire, SpuriousWakeup
<1>2. /\ UNCHANGED <<que, cap, op>>
      /\ notEmptyCond' \subseteq notEmptyCond
      /\ notFullCond' \subseteq notFullCond
    BY DEF Expire, SpuriousWakeup
<1>3. /\ WakingGetters \in SUBSET WakingGetters'
      /\ WakingPutters \in SUBSET WakingPutters'
      /\ WakingGetters' \in SUBSET Threads
      /\ WakingPutters' \in SUBSET Threads
    BY <1>2 DEF WakingGetters, WakingPutters
<1>4. /\ Cardinality(WakingGetters) <= Cardinality(WakingGetters')
      /\ Cardinality(WakingPutters) <= Cardinality(WakingPutters')
    BY <1>3, ThreadSets
<1>5. /\ Cardinality(WakingGetters) \in Nat /\ Cardinality(WakingGetters') \in Nat
      /\ Cardinality(WakingPutters) \in Nat /\ Cardinality(WakingPutters') \in Nat
      /\ Len(que) \in Nat /\ cap \in Nat
    BY <1>3, ThreadSets DEF TypeOK
<1> QED BY <1>1, <1>2, <1>4, <1>5 DEF NoLostWakeup

\* capacity(), close() and clear(), called from outside any wait.
LEMMA ControlStep ==
    ASSUME Inv, (\E n \in Caps : Capacity(n)) \/ Close \/ Clear
    PROVE  Inv'
<1> USE DEF Inv
<1>1. TypeOK'
  <2>1. ASSUME NEW n \in Caps, Capacity(n) PROVE TypeOK'
    <3>1. cap' \in Nat \ {0} /\ notFullCond' \subseteq notFullCond
        BY <2>1, CapsAssumption DEF Capacity, AtLeastOne
    <3> QED BY <2>1, <3>1 DEF TypeOK, Capacity
  <2>2. ASSUME Close PROVE TypeOK'
    BY <2>2 DEF TypeOK, Close
  <2>3. ASSUME Clear PROVE TypeOK'
    BY <2>3 DEF TypeOK, Clear
  <2> QED BY <2>1, <2>2, <2>3
<1>2. ClosedMeansAwake'
    BY DEF ClosedMeansAwake, Capacity, Close, Clear
<1>3. /\ Len(que) \in Nat /\ cap' \in Nat
      /\ \A S \in SUBSET Threads : Cardinality(S) \in Nat
    BY <1>1, ThreadSets DEF TypeOK
<1>4. ASSUME NEW n \in Caps, Capacity(n)
      PROVE  NoLostWakeup'
  <2>1. WakingGetters' = WakingGetters /\ WakingPutters' \in SUBSET Threads
    BY <1>4 DEF Capacity, WakingGetters, WakingPutters
  <2>2. Cardinality(WakingPutters') \in Nat
    BY <1>3, <2>1
  <2> QED BY <1>3, <1>4, <2>1, <2>2 DEF NoLostWakeup, Capacity
<1>5. ASSUME Close PROVE NoLostWakeup'
    BY <1>5 DEF Close, NoLostWakeup
<1>6. ASSUME Clear PROVE NoLostWakeup'
  <2>1. Len(que') = 0 /\ notFullCond' = {}
    BY <1>6 DEF Clear
  <2>2. Cardinality(WakingGetters') \in Nat
    BY ThreadSets DEF WakingGetters
  <2> QED BY <2>1, <2>2 DEF NoLostWakeup
<1> QED BY <1>1, <1>2, <1>4, <1>5, <1>6

-----------------------------------------------------------------------------
(* The theorems.                                                           *)

\* Inv holds initially and every step of every call keeps it.
LEMMA InitInv == Init => Inv
<1> SUFFICES ASSUME Init PROVE Inv
    OBVIOUS
<1>1. cap \in Nat \ {0}
    BY CapsAssumption DEF Init, AtLeastOne
<1>2. TypeOK
  <2>0. que \in Seq(Values)
    BY DEF Init
  <2>1. closed \in BOOLEAN
    BY DEF Init
  <2>2. /\ op \in [Threads -> Ops]
        /\ val \in [Threads -> Values \union {NoValue}]
        /\ ret \in [Threads -> Outcomes \union Values]
    BY DEF Init, Ops, Outcomes
  <2>3. \A t \in Threads : op[t] = "none" /\ val[t] \notin Values
    BY NoValueAssumption DEF Init
  <2>4. notEmptyCond = {} /\ notFullCond = {} /\ timed = {} /\ expired = {}
    BY DEF Init
  <2> QED BY <1>1, <2>0, <2>1, <2>2, <2>3, <2>4 DEF TypeOK
<1>3. NoLostWakeup /\ ClosedMeansAwake
    BY DEF Init, NoLostWakeup, ClosedMeansAwake
<1> QED BY <1>2, <1>3 DEF Inv

LEMMA NextInv == Inv /\ [Next]_vars => Inv'
<1> SUFFICES ASSUME Inv, [Next]_vars PROVE Inv'
    OBVIOUS
<1>t. TypeOK
    BY DEF Inv
<1>1. ASSUME NEW t \in Threads, NEW v \in Values,
             Put(t, v) \/ TryPutUntil(t, v) \/ TryPut(t, v)
      PROVE  Inv'
  <2>1. op[t] = "none" /\ t \notin notFullCond
    BY <1>1, <1>t DEF Put, TryPutUntil, TryPut, TypeOK
  <2>2. Store(t, v) \/ (~CanPut /\ BlockInPut(t, v) /\ Deadline(t))
    BY <1>1 DEF Put, TryPutUntil, TryPut, Deadline
  <2> QED BY <2>1, <2>2, StoreStep, BlockInPutStep
<1>2. ASSUME NEW t \in Threads, Get(t) \/ TryGetUntil(t) \/ TryGet(t)
      PROVE  Inv'
  <2>1. op[t] = "none" /\ t \notin notEmptyCond
    BY <1>2, <1>t DEF Get, TryGetUntil, TryGet, TypeOK
  <2>2. Take(t) \/ (~CanGet /\ BlockInGet(t) /\ Deadline(t))
    BY <1>2 DEF Get, TryGetUntil, TryGet, Deadline
  <2> QED BY <2>1, <2>2, TakeStep, BlockInGetStep
<1>3. ASSUME NEW t \in Threads, WakeInPut(t) PROVE Inv'
  <2>1. op[t] = "put" /\ t \notin notFullCond /\ val[t] \in Values
    BY <1>3, <1>t DEF WakeInPut, TypeOK
  <2>2. Store(t, val[t]) \/ (~CanPut /\ BlockInPut(t, val[t]) /\ Deadline(t))
    BY <1>3 DEF WakeInPut, Deadline
  <2> QED BY <2>1, <2>2, StoreStep, BlockInPutStep
<1>4. ASSUME NEW t \in Threads, WakeInGet(t) PROVE Inv'
  <2>1. op[t] = "get" /\ t \notin notEmptyCond
    BY <1>4 DEF WakeInGet
  <2>2. Take(t) \/ (~CanGet /\ BlockInGet(t) /\ Deadline(t))
    BY <1>4 DEF WakeInGet, Deadline
  <2> QED BY <2>1, <2>2, TakeStep, BlockInGetStep
<1>5. ASSUME UNCHANGED vars PROVE Inv'
    BY <1>5 DEF vars, Inv, TypeOK, NoLostWakeup, ClosedMeansAwake,
                WakingGetters, WakingPutters
<1> QED BY <1>1, <1>2, <1>3, <1>4, <1>5, LeaveStep, ControlStep
        DEF Next, Call, Wake

\* The types of thread_queue's state, and of its wait sets, in every reachable
\* state.
THEOREM TypeCorrect == Spec => []TypeOK
<1>1. Inv => TypeOK
    BY DEF Inv
<1> QED BY <1>1, InitInv, NextInv, PTL DEF Spec

\* put(), get() and their timed forms, capacity(), clear() and close() never
\* leave a sleeping thread behind an item, or a place, that nobody is coming for.
THEOREM NoWakeupIsLost == Spec => []NoLostWakeup
<1>1. Inv => NoLostWakeup
    BY DEF Inv
<1> QED BY <1>1, InitInv, NextInv, PTL DEF Spec

\* After close() no thread sleeps in the queue, ever.
THEOREM NobodySleepsAfterClose == Spec => []ClosedMeansAwake
<1>1. Inv => ClosedMeansAwake
    BY DEF Inv
<1> QED BY <1>1, InitInv, NextInv, PTL DEF Spec

\* Producers and consumers never all sleep against each other.
THEOREM NoStandoffEver == Spec => []NoStandoff
<1>1. ASSUME Inv PROVE NoStandoff
  <2> SUFFICES ASSUME notEmptyCond # {}, notFullCond # {},
                      WakingGetters = {}, WakingPutters = {}
               PROVE  FALSE
    BY DEF NoStandoff
  <2>1. Cardinality(WakingGetters) = 0 /\ Cardinality(WakingPutters) = 0
    BY FS_EmptySet
  <2>2. Len(que) <= 0 /\ cap <= Len(que) + 0
    BY <1>1, <2>1 DEF Inv, NoLostWakeup
  <2>3. Len(que) \in Nat /\ cap \in Nat \ {0}
    BY <1>1 DEF Inv, TypeOK
  <2> QED BY <2>2, <2>3
<1> QED BY <1>1, InitInv, NextInv, PTL DEF Spec

-----------------------------------------------------------------------------
(* Refinement: forgetting the wait sets, every step of thread_queue is a   *)
(* step of BlockingChannel or changes nothing a caller can see.            *)

\* The end of put(), for a call that may complete or may give up.
LEMMA StoreRefines ==
    ASSUME TypeOK, NEW t \in Threads, NEW v \in Values, Store(t, v)
    PROVE  \/ Channel!Accept(t, v)
           \/ Channel!RefusePut(t)
           \/ Len(que) >= cap /\ Channel!GiveUpPut(t)
<1>1. CASE closed
    BY <1>1 DEF Store, Return, Channel!RefusePut, Channel!Done
<1>2. CASE ~closed /\ Len(que) >= cap
    BY <1>2 DEF Store, Return, Channel!GiveUpPut, Channel!Done
<1>3. CASE ~closed /\ ~(Len(que) >= cap)
  <2>1. Len(que) < cap
    BY <1>3 DEF TypeOK
  <2> QED BY <1>3, <2>1 DEF Store, Return, Channel!Accept, Channel!Done
<1> QED BY <1>1, <1>2, <1>3

\* The end of get().
LEMMA TakeRefines ==
    ASSUME TypeOK, NEW t \in Threads, Take(t)
    PROVE  \/ Channel!Deliver(t)
           \/ que = <<>> /\ Channel!GiveUpGet(t) /\ (closed => Channel!RefuseGet(t))
<1>1. CASE que = <<>>
    BY <1>1 DEF Take, Return, Channel!GiveUpGet, Channel!RefuseGet, Channel!Done
<1>2. CASE que # <<>>
    BY <1>2 DEF Take, Return, Channel!Deliver, Channel!Done
<1> QED BY <1>1, <1>2

\* A step of a thread that is not yet in a call.
LEMMA CallRefines ==
    ASSUME TypeOK, NEW t \in Threads, Call(t)
    PROVE  Channel!Call(t)
<1>1. ASSUME NEW v \in Values, Put(t, v) \/ TryPutUntil(t, v) \/ TryPut(t, v)
      PROVE  Channel!Call(t)
  <2>1. CASE Store(t, v)
    BY <1>1, <2>1, StoreRefines DEF Put, TryPutUntil, TryPut, Channel!Call
  <2>2. CASE ~CanPut /\ BlockInPut(t, v) /\ Deadline(t)
    <3>1. ~closed /\ Len(que) >= cap
        BY <2>2 DEF CanPut, TypeOK
    <3>2. Channel!Block(t, "put", v)
        BY <2>2 DEF BlockInPut, Deadline, Channel!Block
    <3> QED BY <1>1, <3>1, <3>2 DEF Put, TryPutUntil, TryPut, Channel!Call
  <2> QED BY <1>1, <2>1, <2>2 DEF Put, TryPutUntil, TryPut, Deadline
<1>2. ASSUME Get(t) \/ TryGetUntil(t) \/ TryGet(t)
      PROVE  Channel!Call(t)
  <2>1. op[t] = "none"
    BY <1>2 DEF Get, TryGetUntil, TryGet
  <2>2. CASE Take(t)
    BY <2>1, <2>2, TakeRefines DEF Channel!Call
  <2>3. CASE ~CanGet /\ BlockInGet(t) /\ Deadline(t)
    <3>1. ~closed /\ que = <<>>
        BY <2>3 DEF CanGet
    <3>2. val[t] = NoValue /\ val = [val EXCEPT ![t] = NoValue]
        BY <2>1 DEF TypeOK
    <3>3. Channel!Block(t, "get", NoValue)
        BY <2>3, <3>2 DEF BlockInGet, Deadline, Channel!Block
    <3> QED BY <2>1, <3>1, <3>3 DEF Channel!Call
  <2> QED BY <1>2, <2>2, <2>3 DEF Get, TryGetUntil, TryGet, Deadline
<1> QED BY <1>1, <1>2 DEF Call

\* A step of a thread that has left its wait set.
LEMMA WakeRefines ==
    ASSUME TypeOK, NEW t \in Threads, Wake(t)
    PROVE  \/ Channel!CompletePut(t)
           \/ Channel!CompleteGet(t)
           \/ Channel!TimeOut(t)
           \/ UNCHANGED <<que, cap, closed, op, val, timed, ret>>
<1>1. ASSUME WakeInPut(t)
      PROVE  \/ Channel!CompletePut(t)
             \/ Channel!TimeOut(t)
             \/ UNCHANGED <<que, cap, closed, op, val, timed, ret>>
  <2>1. op[t] = "put" /\ val[t] \in Values /\ ret[t] = "running"
    BY <1>1 DEF WakeInPut, TypeOK
  <2>2. CASE (CanPut \/ t \in expired) /\ Store(t, val[t])
    <3>1. Len(que) >= cap /\ ~closed => t \in timed
        BY <2>2 DEF CanPut, TypeOK
    <3> QED BY <2>1, <2>2, <3>1, StoreRefines
            DEF Channel!CompletePut, Channel!TimeOut, Channel!RefusePut, Channel!GiveUpPut
  <2>3. CASE BlockInPut(t, val[t]) /\ UNCHANGED <<timed, expired>>
    BY <2>1, <2>3 DEF BlockInPut, TypeOK
  <2> QED BY <1>1, <2>2, <2>3 DEF WakeInPut
<1>2. ASSUME WakeInGet(t)
      PROVE  \/ Channel!CompleteGet(t)
             \/ Channel!TimeOut(t)
             \/ UNCHANGED <<que, cap, closed, op, val, timed, ret>>
  <2>1. op[t] = "get" /\ ret[t] = "running"
    BY <1>2 DEF WakeInGet, TypeOK
  <2>2. CASE (CanGet \/ t \in expired) /\ Take(t)
    <3>1. que = <<>> /\ ~closed => t \in timed
        BY <2>2 DEF CanGet, TypeOK
    <3> QED BY <2>1, <2>2, <3>1, TakeRefines DEF Channel!CompleteGet, Channel!TimeOut
  <2>3. CASE BlockInGet(t) /\ UNCHANGED <<timed, expired>>
    BY <2>1, <2>3 DEF BlockInGet, TypeOK
  <2> QED BY <1>2, <2>2, <2>3 DEF WakeInGet
<1> QED BY <1>1, <1>2 DEF Wake

\* thread_queue is a BlockingChannel: what its callers see of any execution is
\* an execution of the channel.
THEOREM QueueIsChannel == Spec => Channel!Safety
<1>1. Init => Channel!Init
    BY DEF Init, Channel!Init, AtLeastOne
<1>2. ASSUME Inv, [Next]_vars PROVE [Channel!Next]_Channel!cvars
  <2>t. TypeOK
    BY <1>2 DEF Inv
  <2>1. ASSUME NEW t \in Threads, Call(t) \/ Wake(t)
        PROVE  Channel!Next \/ UNCHANGED Channel!cvars
    BY <2>t, <2>1, CallRefines, WakeRefines DEF Channel!Next, Channel!cvars
  <2>2. ASSUME NEW t \in Threads, Expire(t) \/ SpuriousWakeup(t)
        PROVE  UNCHANGED Channel!cvars
    BY <2>2 DEF Expire, SpuriousWakeup, Channel!cvars
  <2>3. ASSUME NEW n \in Caps, Capacity(n) PROVE Channel!Next
    BY <2>3 DEF Capacity, AtLeastOne, Channel!Next, Channel!Resize
  <2>4. ASSUME Close PROVE Channel!Next
    BY <2>4 DEF Close, Channel!Next, Channel!Shut
  <2>5. ASSUME Clear PROVE Channel!Next
    BY <2>5 DEF Clear, Channel!Next, Channel!Drop
  <2>6. ASSUME UNCHANGED vars PROVE UNCHANGED Channel!cvars
    BY <2>6 DEF vars, Channel!cvars
  <2> QED BY <1>2, <2>1, <2>2, <2>3, <2>4, <2>5, <2>6 DEF Next
<1> QED BY <1>1, <1>2, InitInv, NextInv, PTL DEF Spec, Channel!Safety

=============================================================================
