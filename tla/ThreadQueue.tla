---------------------------- MODULE ThreadQueue ----------------------------
(***************************************************************************)
(* mqtt::thread_queue (include/mqtt/thread_queue.h): the bounded, closable *)
(* blocking queue between the library's callback thread and the threads    *)
(* that consume its events.                                                *)
(*                                                                         *)
(* Every member function holds lock_ from its first to its last statement, *)
(* except while it waits on a condition variable, so a call that does not  *)
(* wait is one step, and a call that waits is a step up to the wait and a  *)
(* step after each wake-up.  A waiting thread is in the wait set of its    *)
(* condition variable.  It leaves the set when it is notified, when its    *)
(* deadline passes or spuriously, and some time later gets lock_ back and  *)
(* evaluates its predicate again (Wake); in between, other threads run.    *)
(***************************************************************************)
EXTENDS Naturals, Sequences, FiniteSets

CONSTANTS
    Threads,    \* the threads that share the queue
    Values,     \* the items
    NoValue,    \* "no item": the value of val[t] outside a put
    Caps,       \* the arguments capacity() is called with
    InitCap     \* the argument of the constructor

ASSUME CapsAssumption == /\ Caps \subseteq Nat
                         /\ InitCap \in Nat
ASSUME ThreadsFinite == IsFiniteSet(Threads)
ASSUME NoValueAssumption == NoValue \notin Values

VARIABLES
    que,            \* que_
    cap,            \* cap_
    closed,         \* closed_
    notEmptyCond,   \* the threads in the wait set of notEmptyCond_
    notFullCond,    \* the threads in the wait set of notFullCond_
    op,             \* the call a thread has blocked in: "none", "get" or "put"
    val,            \* the argument of a blocked put
    timed,          \* the threads blocked in a _for or _until call
    expired,        \* those of them whose deadline has passed
    ret             \* how the last call of each thread returned

vars == <<que, cap, closed, notEmptyCond, notFullCond, op, val, timed,
          expired, ret>>

Ops == {"none", "get", "put"}

\* "ok": the put was accepted; "none": false or queue_closed, no item moved;
\* "running": the thread is in a call.
Outcomes == {"ok", "none", "running"}

\* Variant for mutation: the constructor and capacity() take the argument as it is.
AtLeastOne_Raw(n) == n

AtLeastOne(n) == IF n < 1 THEN 1 ELSE n

\* The predicates of the waits on notFullCond_ and notEmptyCond_ (and, for
\* mutation, one that forgets closed_).
CanPut == Len(que) < cap \/ closed
CanGet_NotClosed == que # <<>>
CanGet == que # <<>> \/ closed

NotifyOneNotEmpty ==
    \/ notEmptyCond = {} /\ notEmptyCond' = {}
    \/ \E u \in notEmptyCond : notEmptyCond' = notEmptyCond \ {u}

NotifyOneNotFull ==
    \/ notFullCond = {} /\ notFullCond' = {}
    \/ \E u \in notFullCond : notFullCond' = notFullCond \ {u}

Return(t, r) ==
    /\ op' = [op EXCEPT ![t] = "none"]
    /\ val' = [val EXCEPT ![t] = NoValue]
    /\ timed' = timed \ {t}
    /\ expired' = expired \ {t}
    /\ ret' = [ret EXCEPT ![t] = r]

Init ==
    /\ que = <<>>
    /\ cap = AtLeastOne(InitCap)
    /\ closed = FALSE
    /\ notEmptyCond = {}
    /\ notFullCond = {}
    /\ op = [t \in Threads |-> "none"]
    /\ val = [t \in Threads |-> NoValue]
    /\ timed = {}
    /\ expired = {}
    /\ ret = [t \in Threads |-> "none"]

-----------------------------------------------------------------------------
(* The part of put and get that follows the wait.                          *)

\* Variant for mutation: an item added to a queue that was not empty wakes nobody.
Store_NotifyIfEmpty(t, v) ==
    /\ IF closed \/ Len(que) >= cap
       THEN /\ Return(t, "none")
            /\ UNCHANGED <<que, notEmptyCond>>
       ELSE /\ que' = Append(que, v)
            /\ IF que = <<>> THEN NotifyOneNotEmpty ELSE UNCHANGED notEmptyCond
            /\ Return(t, "ok")
    /\ UNCHANGED <<cap, closed, notFullCond>>

\* Closed: put throws queue_closed, the try_ forms return false.  Still full:
\* only a try_ form that did not wait, or whose wait timed out, gets here.
Store(t, v) ==
    /\ IF closed \/ Len(que) >= cap
       THEN /\ Return(t, "none")
            /\ UNCHANGED <<que, notEmptyCond>>
       ELSE /\ que' = Append(que, v)
            /\ NotifyOneNotEmpty
            /\ Return(t, "ok")
    /\ UNCHANGED <<cap, closed, notFullCond>>

\* Empty: the queue is done (get() throws, get(val) returns false), or a try_
\* form gives up.
Take(t) ==
    /\ IF que = <<>>
       THEN /\ Return(t, "none")
            /\ UNCHANGED <<que, notFullCond>>
       ELSE /\ que' = Tail(que)
            /\ NotifyOneNotFull
            /\ Return(t, Head(que))
    /\ UNCHANGED <<cap, closed, notEmptyCond>>

BlockInPut(t, v) ==
    /\ notFullCond' = notFullCond \union {t}
    /\ op' = [op EXCEPT ![t] = "put"]
    /\ val' = [val EXCEPT ![t] = v]
    /\ ret' = [ret EXCEPT ![t] = "running"]
    /\ UNCHANGED <<que, cap, closed, notEmptyCond>>

BlockInGet(t) ==
    /\ notEmptyCond' = notEmptyCond \union {t}
    /\ op' = [op EXCEPT ![t] = "get"]
    /\ ret' = [ret EXCEPT ![t] = "running"]
    /\ UNCHANGED <<que, cap, closed, notFullCond, val>>

-----------------------------------------------------------------------------
(* The calls, from a thread that is not in one.                            *)

\* put
Put(t, v) ==
    /\ op[t] = "none"
    /\ IF CanPut THEN Store(t, v)
       ELSE BlockInPut(t, v) /\ UNCHANGED <<timed, expired>>

\* try_put_for and try_put_until
TryPutUntil(t, v) ==
    /\ op[t] = "none"
    /\ IF CanPut THEN Store(t, v)
       ELSE /\ BlockInPut(t, v)
            /\ timed' = timed \union {t}
            /\ UNCHANGED expired

TryPut(t, v) == op[t] = "none" /\ Store(t, v)

\* get() and get(val)
Get(t) ==
    /\ op[t] = "none"
    /\ IF CanGet THEN Take(t)
       ELSE BlockInGet(t) /\ UNCHANGED <<timed, expired>>

\* try_get_for and try_get_until
TryGetUntil(t) ==
    /\ op[t] = "none"
    /\ IF CanGet THEN Take(t)
       ELSE /\ BlockInGet(t)
            /\ timed' = timed \union {t}
            /\ UNCHANGED expired

TryGet(t) == op[t] = "none" /\ Take(t)

\* Variants for mutation: calls that change the state and forget to notify.
Capacity_Silent(n) ==
    /\ cap' = AtLeastOne(n)
    /\ UNCHANGED <<que, closed, notEmptyCond, notFullCond, op, val, timed, expired, ret>>

Close_ConsumersOnly ==
    /\ closed' = TRUE
    /\ notEmptyCond' = {}
    /\ UNCHANGED <<que, cap, notFullCond, op, val, timed, expired, ret>>

Clear_Silent ==
    /\ que' = <<>>
    /\ UNCHANGED <<cap, closed, notEmptyCond, notFullCond, op, val, timed, expired, ret>>

\* capacity(n)
Capacity(n) ==
    /\ cap' = AtLeastOne(n)
    /\ notFullCond' = IF cap' > Len(que) THEN {} ELSE notFullCond
    /\ UNCHANGED <<que, closed, notEmptyCond, op, val, timed, expired, ret>>

Close ==
    /\ closed' = TRUE
    /\ notFullCond' = {}
    /\ notEmptyCond' = {}
    /\ UNCHANGED <<que, cap, op, val, timed, expired, ret>>

Clear ==
    /\ que' = <<>>
    /\ notFullCond' = {}
    /\ UNCHANGED <<cap, closed, notEmptyCond, op, val, timed, expired, ret>>

-----------------------------------------------------------------------------
(* What happens to a thread that has blocked (std::condition_variable).    *)

\* The deadline of a timed wait passes.
Expire(t) ==
    /\ t \in timed \ expired
    /\ expired' = expired \union {t}
    /\ notEmptyCond' = notEmptyCond \ {t}
    /\ notFullCond' = notFullCond \ {t}
    /\ UNCHANGED <<que, cap, closed, op, val, timed, ret>>

SpuriousWakeup(t) ==
    /\ t \in notEmptyCond \union notFullCond
    /\ notEmptyCond' = notEmptyCond \ {t}
    /\ notFullCond' = notFullCond \ {t}
    /\ UNCHANGED <<que, cap, closed, op, val, timed, expired, ret>>

\* A thread that left the wait set has lock_ again: wait(pred) returns, or
\* waits again.
WakeInPut(t) ==
    /\ op[t] = "put" /\ t \notin notFullCond
    /\ IF CanPut \/ t \in expired THEN Store(t, val[t])
       ELSE BlockInPut(t, val[t]) /\ UNCHANGED <<timed, expired>>

WakeInGet(t) ==
    /\ op[t] = "get" /\ t \notin notEmptyCond
    /\ IF CanGet \/ t \in expired THEN Take(t)
       ELSE BlockInGet(t) /\ UNCHANGED <<timed, expired>>

Wake(t) == WakeInPut(t) \/ WakeInGet(t)

-----------------------------------------------------------------------------
Call(t) ==
    \/ \E v \in Values : Put(t, v) \/ TryPutUntil(t, v) \/ TryPut(t, v)
    \/ Get(t) \/ TryGetUntil(t) \/ TryGet(t)

Next ==
    \/ \E t \in Threads : Call(t) \/ Wake(t) \/ Expire(t) \/ SpuriousWakeup(t)
    \/ \E n \in Caps : Capacity(n)
    \/ Close
    \/ Clear

\* The scheduler lets a runnable thread run and time passes; nobody is obliged
\* to call anything.
Fairness == \A t \in Threads : WF_vars(Wake(t)) /\ WF_vars(Expire(t))

Spec == Init /\ [][Next]_vars /\ Fairness

-----------------------------------------------------------------------------
(* Properties.                                                             *)

\* The threads that have left a wait set and have not yet run again.
WakingGetters == {t \in Threads : op[t] = "get" /\ t \notin notEmptyCond}
WakingPutters == {t \in Threads : op[t] = "put" /\ t \notin notFullCond}

\* Types; a thread waits on the condition variable of the call it is in, and
\* only a blocked call has an argument or a deadline.
TypeOK ==
    /\ que \in Seq(Values)
    /\ cap \in Nat \ {0}
    /\ closed \in BOOLEAN
    /\ op \in [Threads -> Ops]
    /\ val \in [Threads -> Values \union {NoValue}]
    /\ ret \in [Threads -> Outcomes \union Values]
    /\ notEmptyCond \subseteq {t \in Threads : op[t] = "get"}
    /\ notFullCond \subseteq {t \in Threads : op[t] = "put"}
    /\ timed \subseteq {t \in Threads : op[t] # "none"}
    /\ expired \subseteq timed
    /\ \A t \in Threads : /\ val[t] \in Values <=> op[t] = "put"
                          /\ op[t] # "none" => ret[t] = "running"

\* put() and try_put*() notify one consumer per item and get() one producer
\* per freed place, so a notification may be used up by a thread that finds
\* nothing: no wake-up is lost all the same.  A consumer sleeps on
\* notEmptyCond_ only if every item in the queue has a consumer already on its
\* way to fetch it, and a producer sleeps on notFullCond_ only if every free
\* place has a producer on its way to fill it.
NoLostWakeup ==
    /\ notEmptyCond # {} => Len(que) <= Cardinality(WakingGetters)
    /\ notFullCond # {} => cap <= Len(que) + Cardinality(WakingPutters)

\* close() leaves nobody asleep, and nobody falls asleep after it, whatever
\* capacity(), clear() and late wake-ups do.
ClosedMeansAwake == closed => notEmptyCond = {} /\ notFullCond = {}

\* A consumer asleep on an empty queue and a producer asleep on a full one
\* never face each other with nobody left to wake them, even after capacity()
\* has shrunk the queue below what it holds or clear() has emptied it.
NoStandoff ==
    notEmptyCond # {} /\ notFullCond # {}
        => WakingGetters \union WakingPutters # {}

\* The queue behaves like the channel its class comment describes: FIFO, no
\* item lost or invented, nothing accepted once closed, every refused call
\* refused for a reason, and no call left blocked that could complete.
Channel == INSTANCE BlockingChannel WITH items <- que

ImplementsChannel == Channel!Spec

\* close() releases every thread blocked in put(), get() or a timed form.
CloseReleases ==
    \A t \in Threads : closed /\ op[t] # "none" ~> op[t] = "none"

=============================================================================
