------------------------------- MODULE Counter -------------------------------
(***************************************************************************)
(* multithr_counter of examples/multithr_pub_sub.cpp, through which the    *)
(* thread that consumes messages tells the one that publishes their number *)
(* every so many messages, and when to stop.  lock_ is held from one label *)
(* to the next, so a step is a critical section; the wait on cond_ and the *)
(* notification after incr() has unlocked are steps of their own.          *)
(***************************************************************************)
EXTENDS Naturals

CONSTANTS
    Every,          \* the 10 of incr(), cut down
    MaxCount        \* bound on the messages that are consumed

ASSUME CounterBounds == Every \in Nat \ {0} /\ MaxCount \in Nat

VARIABLES
    count, closed, ready,   \* count_, closed_ and ready_
    asleep,                 \* the publisher sleeps on cond_
    signal,                 \* main() is about to notify
    consumer,               \* where main() is
    reporter,               \* where publisher_func() is
    taken,                  \* n, what get_count() has returned
    reported                \* the last count that was published

counterVars == <<count, closed, ready, asleep, signal, consumer, reporter, taken, reported>>

\* Types.
CounterTypeOK ==
    /\ {count, taken, reported} \subseteq Nat
    /\ {closed, ready, asleep, signal} \subseteq BOOLEAN
    /\ consumer \in {"idle", "consume", "join", "off"}
    /\ reporter \in {"none", "get_count", "closed", "publish", "wait", "ended"}

CounterInit ==
    /\ count = 0 /\ taken = 0 /\ reported = 0
    /\ closed = FALSE /\ ready = FALSE /\ asleep = FALSE /\ signal = FALSE
    /\ consumer = "idle" /\ reporter = "none"

-----------------------------------------------------------------------------
(* main()                                                                  *)

StartPublisher ==
    /\ consumer = "idle"
    /\ consumer' = "consume" /\ reporter' = "get_count"
    /\ UNCHANGED <<count, closed, ready, asleep, signal, taken, reported>>

\* Mutant: only somebody who is waiting is told.
Due_Waiting(n) == n % Every = 0 /\ asleep

Due(n) == n % Every = 0

\* A message was consumed.
incr ==
    /\ consumer = "consume" /\ ~signal /\ count < MaxCount
    /\ count' = count + 1
    /\ ready' = (ready \/ Due(count'))
    /\ signal' = Due(count')
    /\ UNCHANGED <<closed, asleep, consumer, reporter, taken, reported>>

notify ==
    /\ signal /\ signal' = FALSE
    /\ asleep' = FALSE
    /\ UNCHANGED <<count, closed, ready, consumer, reporter, taken, reported>>

\* Mutant: waiters are woken, and find that nothing is ready.
close_NotReady ==
    /\ consumer = "consume" /\ ~signal
    /\ closed' = TRUE /\ asleep' = FALSE
    /\ consumer' = "join"
    /\ UNCHANGED <<count, ready, signal, reporter, taken, reported>>

\* The exit command has come, or the consumer was stopped.
close ==
    /\ consumer = "consume" /\ ~signal
    /\ closed' = TRUE /\ ready' = TRUE /\ asleep' = FALSE
    /\ consumer' = "join"
    /\ UNCHANGED <<count, signal, reporter, taken, reported>>

join ==
    /\ consumer = "join" /\ reporter = "ended"
    /\ consumer' = "off"
    /\ UNCHANGED <<count, closed, ready, asleep, signal, reporter, taken, reported>>

-----------------------------------------------------------------------------
(* publisher_func()                                                        *)

\* cond_.wait() tests ready_, sleeps, and tests again when it is woken.
get_count ==
    /\ reporter = "get_count" /\ ~asleep
    /\ IF ready
       THEN ready' = FALSE /\ taken' = count /\ reporter' = "closed" /\ UNCHANGED asleep
       ELSE asleep' = TRUE /\ UNCHANGED <<ready, taken, reporter>>
    /\ UNCHANGED <<count, closed, signal, consumer, reported>>

SpuriousWakeup ==
    /\ asleep /\ asleep' = FALSE
    /\ UNCHANGED <<count, closed, ready, signal, consumer, reporter, taken, reported>>

TestClosed ==
    /\ reporter = "closed"
    /\ reporter' = IF closed THEN "ended" ELSE "publish"
    /\ UNCHANGED <<count, closed, ready, asleep, signal, consumer, taken, reported>>

PublishCount ==
    /\ reporter = "publish"
    /\ reporter' = "wait" /\ reported' = taken
    /\ UNCHANGED <<count, closed, ready, asleep, signal, consumer, taken>>

CountDelivered ==
    /\ reporter = "wait"
    /\ reporter' = "get_count"
    /\ UNCHANGED <<count, closed, ready, asleep, signal, consumer, taken, reported>>

\* publish() or wait() throws; nothing catches it, and the process is terminated.
Terminate ==
    /\ reporter \in {"publish", "wait"} /\ consumer # "off"
    /\ reporter' = "ended" /\ consumer' = "off"
    /\ signal' = FALSE /\ asleep' = FALSE
    /\ UNCHANGED <<count, closed, ready, taken, reported>>

-----------------------------------------------------------------------------
Consumer == notify \/ join
Reporter == get_count \/ TestClosed \/ PublishCount \/ CountDelivered

CounterNext ==
    \/ StartPublisher \/ incr \/ close
    \/ Consumer \/ Reporter \/ SpuriousWakeup \/ Terminate

\* Both threads go on, and a message that was published is answered.
CounterFairness == WF_counterVars(Consumer) /\ WF_counterVars(Reporter)

CounterSpec == CounterInit /\ [][CounterNext]_counterVars /\ CounterFairness

-----------------------------------------------------------------------------
(* Properties.                                                             *)

\* publisher.join() returns once the counter is closed, wherever the publisher is: it may
\* have taken ready_ for itself before, or be about to sleep.
JoinReturns == consumer = "join" ~> consumer = "off"

\* Every tenth message is reported, by itself or with later ones, although the publisher
\* is not waiting when the signal comes, unless the program comes to its end.
CountReported ==
    \A k \in 1 .. MaxCount \div Every :
        count >= k * Every ~> reported >= k * Every \/ consumer # "consume"

\* "This will block the caller until at least 10 new messages received": each report
\* counts so many more messages than the one before.
EnoughNewMessages ==
    [][reporter' = "publish" /\ reporter # "publish" => taken >= reported + Every]_counterVars

=============================================================================
