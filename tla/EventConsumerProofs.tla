------------------------ MODULE EventConsumerProofs ------------------------
(***************************************************************************)
(* That no call of the consumer swallows, repeats or reorders an event,    *)
(* and that the shutdown event is the last, for any number of consumers,   *)
(* events and queues, the old ones included that start_consuming() has     *)
(* replaced.                                                               *)
(*                                                                         *)
(* NothingSwallowed is not inductive.  Order tells why events stay in      *)
(* order: one thread puts them, and never into an older queue than before; *)
(* Reads tells what a consumer has yet to see: in the queues that it can   *)
(* still get to, only later events.                                        *)
(***************************************************************************)
EXTENDS EventConsumer, TLAPS

Queues == 1 .. MaxQueues

\* What a sequence holds, and that the numbers of its events rise.
Held(s) == {s[i] : i \in DOMAIN s}
Rising(s) == \A i, j \in DOMAIN s : i < j => s[i].id < s[j].id

\* An event that was put before the one that the callback thread has at hand.
Past(n) == n <= arrived /\ (cb.at # "idle" => n < arrived)

\* The oldest queue that a consumer can still take events from.
QueueOf(c) == IF cons[c].call = "none" THEN que ELSE cons[c].q

\* start_consuming() creates no queue beyond the bound; calls have a queue.
Calling ==
    /\ ctl \in {"disable", "reset"} => que < MaxQueues
    /\ \A c \in Consumers : cons[c].call # "none" => cons[c].q \in 1 .. que
    /\ cb.at # "idle" => cb.evt \in Events /\ cb.evt.id = arrived
    /\ cb.at = "put" => cb.q \in 1 .. que

Order ==
    /\ \A q \in Queues : Rising(items[q])
    /\ \A p, q \in Queues : p < q =>
          \A d \in Held(items[p]), e \in Held(items[q]) : d.id < e.id
    /\ \A q \in Queues : q > que \/ (cb.at = "put" /\ q > cb.q) => items[q] = <<>>
    /\ \A q \in Queues : \A e \in Held(items[q]) : Past(e.id)

Reads ==
    /\ \A c \in Consumers : \A n \in Held(read[c]) : Past(n)
    /\ \A c \in Consumers : \A n \in Held(read[c]) : \A q \in Queues :
          \A e \in Held(items[q]) : e.id # n /\ (q >= QueueOf(c) => n < e.id)
    /\ \A c \in Consumers : \A i, j \in DOMAIN read[c] : i < j => read[c][i] < read[c][j]
    /\ \A c, d \in Consumers : c # d => \A n \in Held(read[c]) : n \notin Held(read[d])

\* The calls that agree on which events end them.
SoundCalls == "try_consume_message_until" \notin Calls

Kept ==
    SoundCalls => \A e \in accepted : e.kind # "connected" =>
        \/ \E q \in Queues : e \in Held(items[q])
        \/ \E c \in Consumers : e.id \in Held(read[c])

ConsumerInv == TypeOK /\ Calling /\ Order /\ Reads /\ Kept /\ ShutdownIsLast

-----------------------------------------------------------------------------
(* Sequences.                                                              *)

\* An event that is put: the last of its queue.
LEMMA HeldAppend ==
    ASSUME NEW S, NEW s \in Seq(S), NEW e \in S
    PROVE  Append(s, e) \in Seq(S) /\ Held(Append(s, e)) = Held(s) \union {e}
  <1>1. /\ Append(s, e) \in Seq(S)
        /\ DOMAIN Append(s, e) = 1 .. Len(s) + 1
        /\ DOMAIN s = 1 .. Len(s) /\ Len(s) \in Nat
        /\ Append(s, e)[Len(s) + 1] = e
        /\ \A i \in 1 .. Len(s) : Append(s, e)[i] = s[i]
    OBVIOUS
  <1>2. ASSUME NEW x \in Held(Append(s, e)) PROVE x \in Held(s) \union {e}
    <2>1. PICK i \in 1 .. Len(s) + 1 : x = Append(s, e)[i]
      BY <1>1 DEF Held
    <2>2. CASE i = Len(s) + 1
      BY <2>1, <2>2, <1>1
    <2>3. CASE i # Len(s) + 1
      <3>1. i \in 1 .. Len(s)
        BY <2>3, <1>1
      <3> QED
        BY <2>1, <3>1, <1>1 DEF Held
    <2> QED
      BY <2>2, <2>3
  <1>3. ASSUME NEW x \in Held(s) PROVE x \in Held(Append(s, e))
    <2>1. PICK i \in 1 .. Len(s) : x = s[i]
      BY <1>1 DEF Held
    <2>2. i \in DOMAIN Append(s, e) /\ x = Append(s, e)[i]
      BY <2>1, <1>1
    <2> QED
      BY <2>2 DEF Held
  <1>4. e \in Held(Append(s, e))
    <2>1. Len(s) + 1 \in DOMAIN Append(s, e)
      BY <1>1
    <2> QED
      BY <2>1, <1>1 DEF Held
  <1> QED
    BY <1>1, <1>2, <1>3, <1>4

\* An event that is taken: the first of its queue.
LEMMA HeldTail ==
    ASSUME NEW S, NEW s \in Seq(S), s # <<>>
    PROVE  /\ Head(s) \in S /\ Tail(s) \in Seq(S)
           /\ Head(s) \in Held(s)
           /\ Held(s) = Held(Tail(s)) \union {Head(s)}
  <1>1. /\ Head(s) \in S /\ Tail(s) \in Seq(S) /\ Len(s) \in Nat \ {0}
        /\ DOMAIN Tail(s) = 1 .. Len(s) - 1
        /\ DOMAIN s = 1 .. Len(s)
        /\ Head(s) = s[1]
        /\ \A i \in 1 .. Len(s) - 1 : Tail(s)[i] = s[i + 1]
    OBVIOUS
  <1>2. Head(s) \in Held(s)
    BY <1>1 DEF Held
  <1>3. ASSUME NEW x \in Held(s) PROVE x \in Held(Tail(s)) \union {Head(s)}
    <2>1. PICK i \in 1 .. Len(s) : x = s[i]
      BY <1>1 DEF Held
    <2>2. CASE i = 1
      BY <2>1, <2>2, <1>1
    <2>3. CASE i # 1
      <3>1. i - 1 \in DOMAIN Tail(s) /\ Tail(s)[i - 1] = x
        BY <2>1, <2>3, <1>1
      <3> QED
        BY <3>1 DEF Held
    <2> QED
      BY <2>2, <2>3
  <1>4. ASSUME NEW x \in Held(Tail(s)) PROVE x \in Held(s)
    <2>1. PICK i \in 1 .. Len(s) - 1 : x = Tail(s)[i]
      BY <1>1 DEF Held
    <2>2. i + 1 \in DOMAIN s /\ x = s[i + 1]
      BY <2>1, <1>1
    <2> QED
      BY <2>2 DEF Held
  <1> QED
    BY <1>1, <1>2, <1>3, <1>4

\* The numbers go on rising when a later event is put, and when the first is taken.
LEMMA RisingAppend ==
    ASSUME NEW s \in Seq(Events), NEW e \in Events, Rising(s),
           \A d \in Held(s) : d.id < e.id
    PROVE  Rising(Append(s, e))
  <1>1. /\ DOMAIN Append(s, e) = 1 .. Len(s) + 1
        /\ DOMAIN s = 1 .. Len(s) /\ Len(s) \in Nat
        /\ Append(s, e)[Len(s) + 1] = e
        /\ \A i \in 1 .. Len(s) : Append(s, e)[i] = s[i]
    OBVIOUS
  <1> SUFFICES ASSUME NEW i \in 1 .. Len(s) + 1, NEW j \in 1 .. Len(s) + 1, i < j
               PROVE  Append(s, e)[i].id < Append(s, e)[j].id
    BY <1>1 DEF Rising
  <1>2. i \in 1 .. Len(s) /\ Append(s, e)[i] = s[i] /\ s[i] \in Held(s)
    BY <1>1 DEF Held
  <1>3. CASE j = Len(s) + 1
    BY <1>1, <1>2, <1>3
  <1>4. CASE j # Len(s) + 1
    BY <1>1, <1>2, <1>4 DEF Rising
  <1> QED
    BY <1>3, <1>4

LEMMA RisingTail ==
    ASSUME NEW s \in Seq(Events), s # <<>>, Rising(s)
    PROVE  Rising(Tail(s)) /\ \A e \in Held(Tail(s)) : Head(s).id < e.id
  <1>1. /\ Len(s) \in Nat \ {0}
        /\ DOMAIN Tail(s) = 1 .. Len(s) - 1
        /\ DOMAIN s = 1 .. Len(s)
        /\ Head(s) = s[1]
        /\ \A i \in 1 .. Len(s) - 1 : Tail(s)[i] = s[i + 1]
    OBVIOUS
  <1>2. Rising(Tail(s))
    <2> SUFFICES ASSUME NEW i \in 1 .. Len(s) - 1, NEW j \in 1 .. Len(s) - 1, i < j
                 PROVE  Tail(s)[i].id < Tail(s)[j].id
      BY <1>1 DEF Rising
    <2>1. i + 1 \in 1 .. Len(s) /\ j + 1 \in 1 .. Len(s) /\ i + 1 < j + 1
      BY <1>1
    <2> QED
      BY <1>1, <2>1 DEF Rising
  <1>3. ASSUME NEW e \in Held(Tail(s)) PROVE Head(s).id < e.id
    <2>1. PICK i \in 1 .. Len(s) - 1 : e = Tail(s)[i]
      BY <1>1 DEF Held
    <2>2. i + 1 \in 1 .. Len(s) /\ 1 \in 1 .. Len(s) /\ 1 < i + 1
      BY <1>1
    <2> QED
      BY <1>1, <2>1, <2>2 DEF Rising
  <1> QED
    BY <1>2, <1>3

-----------------------------------------------------------------------------
(* The steps.                                                              *)

\* The invariant holds in a client that has no consumer.
LEMMA ConsumerInit == Init => ConsumerInv
  <1> SUFFICES ASSUME Init PROVE ConsumerInv
    OBVIOUS
  <1>1. TypeOK
    BY BoundsAssumption DEF Init, TypeOK, NoCallback, Idle, Nothing
  <1>2. Calling
    BY DEF Init, Calling, NoCallback, Idle
  <1>3. Order
    BY DEF Init, Order, Held, Rising, Queues
  <1>4. Reads
    BY DEF Init, Reads, Held
  <1>5. Kept /\ ShutdownIsLast
    BY DEF Init, Kept, ShutdownIsLast, Nothing, NoEvent, Shutdown
  <1> QED
    BY <1>1, <1>2, <1>3, <1>4, <1>5 DEF ConsumerInv

\* The thread that starts and stops the consumer puts and takes nothing.
LEMMA ControlKeeps ==
    ASSUME ConsumerInv,
           \/ StartConsuming \/ StopConsuming \/ SetCallback \/ Control
           \/ \E k \in Handlers : SetHandler(k)
    PROVE  ConsumerInv'
  <1> USE BoundsAssumption
  <1>1. /\ UNCHANGED <<items, cb, arrived, cons, got, read, accepted>>
        /\ que' = que \/ (que' = que + 1 /\ ctl = "reset")
        /\ closed' = closed \/ (closed' = closed \union ({que} \ {0}) /\ que' = que)
    BY DEF StartConsuming, StopConsuming, SetCallback, Control, SetHandler, DisableCallbacks,
           CloseQueue, ResetQueue, HookCallbacks, SetCallbacks, queue, consumers
  <1>2. /\ que \in 0 .. MaxQueues /\ que' \in 0 .. MaxQueues /\ que <= que'
        /\ closed \subseteq closed' /\ closed' \subseteq 1 .. que'
    <2>1. que \in 0 .. MaxQueues /\ que' \in 0 .. MaxQueues /\ que <= que'
      BY <1>1 DEF ConsumerInv, TypeOK, Calling
    <2>2. closed \subseteq 1 .. que
      BY DEF ConsumerInv, TypeOK
    <2>3. \A q \in closed : q \in 1 .. que'
      BY <2>1, <2>2
    <2>4. que' = que => {que} \ {0} \subseteq 1 .. que'
      BY <2>1
    <2> QED
      BY <1>1, <2>1, <2>3, <2>4
  <1>3. /\ hooks' \subseteq AllHooks
        /\ ctl' \in {"idle", "disable", "stop", "close", "reset", "callbacks",
                     "hook", "hookConnected", "hookDisconnected"}
        /\ ctl' \in {"disable", "reset"} => que' < MaxQueues
    <2> USE DEF ConsumerInv, TypeOK, Calling, AllHooks, CallbackHooks, Kinds
    <2>1. CASE StartConsuming \/ StopConsuming
      BY <2>1 DEF StartConsuming, StopConsuming, queue
    <2>2. CASE SetCallback \/ SetCallbacks \/ \E k \in Handlers : SetHandler(k)
      BY <2>2, HandlersAssumption DEF SetCallback, SetCallbacks, SetHandler, queue
    <2>3. CASE DisableCallbacks \/ CloseQueue \/ ResetQueue
      BY <2>3 DEF DisableCallbacks, CloseQueue, ResetQueue, queue
    <2>4. CASE HookCallbacks
      BY <2>4 DEF HookCallbacks, Hook
    <2> QED
      BY <2>1, <2>2, <2>3, <2>4 DEF Control
  <1>4. TypeOK'
    BY <1>1, <1>2, <1>3 DEF ConsumerInv, TypeOK
  <1>5. Calling'
    BY <1>1, <1>2, <1>3 DEF ConsumerInv, TypeOK, Calling
  <1>6. Order'
    BY <1>1, <1>2 DEF ConsumerInv, Order, Past, Queues
  <1>7. Reads'
    <2>1. \A c \in Consumers, q \in Queues : q >= QueueOf(c)' => q >= QueueOf(c)
      BY <1>1, <1>2 DEF QueueOf, Queues
    <2>2. \A n : Past(n)' = Past(n)
      BY <1>1 DEF Past
    <2> QED
      BY <1>1, <2>1, <2>2 DEF ConsumerInv, Reads
  <1>8. Kept'
    BY <1>1 DEF ConsumerInv, Kept
  <1>9. ShutdownIsLast'
    BY <1>1, <1>2 DEF ConsumerInv, ShutdownIsLast
  <1> QED
    BY <1>4, <1>5, <1>6, <1>7, <1>8, <1>9 DEF ConsumerInv

\* clear_consumer(): what it throws away counts as never accepted.
LEMMA ClearKeeps == ASSUME ConsumerInv, ClearConsumer PROVE ConsumerInv'
  <1>1. /\ que \in Queues
        /\ items' = [items EXCEPT ![que] = <<>>]
        /\ items \in [Queues -> Seq(Events)]
        /\ accepted' = {e \in accepted : e \notin Held(items[que])}
        /\ UNCHANGED <<que, closed, hooks, ctl, cb, arrived, cons, got, read>>
    BY DEF ClearConsumer, ConsumerInv, TypeOK, Queues, Held, control, consumers
  <1>2. \A q \in Queues : Held(items'[q]) = IF q = que THEN {} ELSE Held(items[q])
    BY <1>1 DEF Held
  <1>3. TypeOK'
    BY <1>1 DEF ConsumerInv, TypeOK, Queues
  <1>4. Calling'
    BY <1>1 DEF ConsumerInv, Calling
  <1>5. Order'
    <2>1. \A q \in Queues : Rising(items'[q])
      BY <1>1 DEF ConsumerInv, Order, Rising
    <2>2. \A q \in Queues : items[q] = <<>> => items'[q] = <<>>
      BY <1>1
    <2> QED
      BY <1>1, <1>2, <2>1, <2>2 DEF ConsumerInv, Order, Past
  <1>6. Reads'
    <2>1. \A c \in Consumers : QueueOf(c)' = QueueOf(c)
      BY <1>1 DEF QueueOf
    <2>2. \A n : Past(n)' = Past(n)
      BY <1>1 DEF Past
    <2>3. read' = read /\ \A q \in Queues : \A e \in Held(items'[q]) : e \in Held(items[q])
      BY <1>1, <1>2
    <2> QED
      BY <2>1, <2>2, <2>3 DEF ConsumerInv, Reads
  <1>7. Kept'
    BY <1>1, <1>2 DEF ConsumerInv, Kept
  <1>8. ShutdownIsLast'
    BY <1>1 DEF ConsumerInv, TypeOK, ShutdownIsLast, Queues
  <1> QED
    BY <1>3, <1>4, <1>5, <1>6, <1>7, <1>8 DEF ConsumerInv

\* What is queued and read are events and their numbers.
LEMMA Numbers ==
    ASSUME TypeOK
    PROVE  /\ \A q \in Queues : \A e \in Held(items[q]) : e \in Events /\ e.id \in 1 .. MaxEvents
           /\ \A c \in Consumers : \A n \in Held(read[c]) : n \in 1 .. MaxEvents
  <1>1. \A e \in Events : e.id \in 1 .. MaxEvents
    BY DEF Events
  <1>2. ASSUME NEW q \in Queues, NEW e \in Held(items[q]) PROVE e \in Events
    <2>1. items[q] \in Seq(Events)
      BY DEF TypeOK, Queues
    <2>2. PICK i \in DOMAIN items[q] : e = items[q][i]
      BY DEF Held
    <2> QED
      BY <2>1, <2>2
  <1>3. ASSUME NEW c \in Consumers, NEW n \in Held(read[c]) PROVE n \in 1 .. MaxEvents
    <2>1. read[c] \in Seq(1 .. MaxEvents)
      BY DEF TypeOK
    <2>2. PICK i \in DOMAIN read[c] : n = read[c][i]
      BY DEF Held
    <2> DEFINE S == 1 .. MaxEvents
    <2> HIDE DEF S
    <2>3. read[c] \in Seq(S) => read[c][i] \in S
      OBVIOUS
    <2> QED
      BY <2>1, <2>2, <2>3 DEF S
  <1> QED
    BY <1>1, <1>2, <1>3

\* An event comes, and finds its handlers and the queue.
LEMMA ArriveKeeps ==
    ASSUME ConsumerInv, (\E k \in Kinds : Arrive(k)) \/ CheckQueue
    PROVE  ConsumerInv'
  <1>1. /\ UNCHANGED <<que, items, closed, hooks, ctl, cons, got, read, accepted>>
        /\ arrived' \in 0 .. MaxEvents /\ arrived <= arrived'
        /\ cb' \in [at : {"idle", "handlers", "put"}, evt : Events \union {NoEvent},
                    q : 0 .. que]
        /\ cb'.at # "idle" => cb'.evt \in Events /\ cb'.evt.id = arrived'
        /\ cb'.at = "put" => cb'.q = que /\ que \in 1 .. que
        /\ cb.at = "idle" /\ cb'.at # "idle" => arrived < arrived'
        /\ cb.at # "idle" => arrived' = arrived
    <2> USE DEF ConsumerInv, TypeOK, Calling
    <2>1. CASE \E k \in Kinds : Arrive(k)
      <3>1. PICK k \in Kinds : Arrive(k)
        BY <2>1
      <3>2. arrived' = arrived + 1 /\ arrived' \in 1 .. MaxEvents /\ cb.at = "idle"
        <4>1. arrived \in 0 .. MaxEvents /\ arrived < MaxEvents /\ cb.at = "idle"
          BY <3>1 DEF Arrive
        <4>2. arrived' = arrived + 1
          BY <3>1 DEF Arrive
        <4> QED
          BY <4>1, <4>2, BoundsAssumption
      <3>3. [id |-> arrived', kind |-> k] \in Events
        BY <3>2 DEF Events
      <3>4. CASE k \in hooks
        <4>1. cb' = [at |-> "handlers", evt |-> [id |-> arrived', kind |-> k], q |-> 0]
          BY <3>1, <3>4 DEF Arrive
        <4>2. UNCHANGED <<que, items, closed, hooks, ctl, cons, got, read, accepted>>
          BY <3>1 DEF Arrive, queue, control, consumers
        <4>3. que \in 0 .. MaxQueues /\ arrived \in 0 .. MaxEvents
          OBVIOUS
        <4> QED
          BY <3>2, <3>3, <4>1, <4>2, <4>3
      <3>5. CASE k \notin hooks
        BY <3>1, <3>2, <3>5 DEF Arrive, queue, control, consumers
      <3> QED
        BY <3>4, <3>5
    <2>2. CASE CheckQueue
      BY <2>2 DEF CheckQueue, NoCallback, queue, control, consumers
    <2> QED
      BY <2>1, <2>2
  <1>2. \A n \in 0 .. MaxEvents : Past(n) => Past(n)'
    BY <1>1 DEF ConsumerInv, TypeOK, Past
  <1>3. \A q \in Queues : \A e \in Held(items[q]) : e.id \in 0 .. MaxEvents
    BY Numbers DEF ConsumerInv
  <1>4. \A c \in Consumers : \A n \in Held(read[c]) : n \in 0 .. MaxEvents
    BY Numbers DEF ConsumerInv
  <1>5. TypeOK'
    BY <1>1 DEF ConsumerInv, TypeOK
  <1>6. Calling'
    BY <1>1 DEF ConsumerInv, TypeOK, Calling
  <1>7. Order'
    <2>1. \A q \in Queues : q > que \/ (cb'.at = "put" /\ q > cb'.q) => items[q] = <<>>
      BY <1>1 DEF ConsumerInv, Order
    <2>2. \A q \in Queues : \A e \in Held(items[q]) : Past(e.id)'
      BY <1>2, <1>3 DEF ConsumerInv, Order
    <2> QED
      BY <1>1, <2>1, <2>2 DEF ConsumerInv, Order
  <1>8. Reads'
    <2>1. \A c \in Consumers : QueueOf(c)' = QueueOf(c)
      BY <1>1 DEF QueueOf
    <2>2. \A c \in Consumers : \A n \in Held(read[c]) : Past(n)'
      BY <1>2, <1>4 DEF ConsumerInv, Reads
    <2>3. read' = read /\ items' = items
      BY <1>1
    <2> QED
      BY <2>1, <2>2, <2>3 DEF ConsumerInv, Reads
  <1>9. Kept' /\ ShutdownIsLast'
    BY <1>1 DEF ConsumerInv, Kept, ShutdownIsLast
  <1> QED
    BY <1>5, <1>6, <1>7, <1>8, <1>9 DEF ConsumerInv

\* put(): the event is later than all that were put before, and goes to the last
\* queue that has any.
LEMMA PutKeeps == ASSUME ConsumerInv, PutEvent PROVE ConsumerInv'
  <1> DEFINE e == cb.evt
             p == cb.q
  <1>1. /\ p \in Queues /\ p \in 1 .. que /\ e \in Events /\ e.id = arrived
        /\ items \in [Queues -> Seq(Events)]
        /\ cb.at = "put" /\ cb' = NoCallback /\ NoCallback.at = "idle"
        /\ UNCHANGED <<que, closed, hooks, ctl, arrived, cons, got, read>>
    <2>1. cb.at = "put" /\ cb' = NoCallback /\ NoCallback.at = "idle"
          /\ UNCHANGED <<que, closed, hooks, ctl, arrived, cons, got, read>>
      BY DEF PutEvent, NoCallback, control, consumers
    <2>2. que \in 0 .. MaxQueues /\ items \in [Queues -> Seq(Events)]
      BY DEF ConsumerInv, TypeOK, Queues
    <2>3. p \in 1 .. que /\ e \in Events /\ e.id = arrived
      BY <2>1 DEF ConsumerInv, Calling
    <2>4. p \in Queues
      BY <2>2, <2>3, BoundsAssumption DEF Queues
    <2> QED
      BY <2>1, <2>2, <2>3, <2>4
  <1>2. \/ UNCHANGED <<items, accepted>>
        \/ /\ p \notin closed
           /\ items' = [items EXCEPT ![p] = Append(items[p], e)]
           /\ accepted' = accepted \union {e}
    BY DEF PutEvent
  <1> HIDE DEF e, p
  <1>3. cb' \in [at : {"idle"}, evt : {NoEvent}, q : {0}] /\ que \in Nat /\ que <= MaxQueues
    BY <1>1, BoundsAssumption DEF NoCallback, ConsumerInv, TypeOK
  <1>4. \A n \in 1 .. MaxEvents : n <= arrived => Past(n)'
    BY <1>1 DEF Past
  <1>5. CASE UNCHANGED <<items, accepted>>
    <2>1. TypeOK'
      BY <1>1, <1>3, <1>5 DEF ConsumerInv, TypeOK
    <2>2. Calling'
      BY <1>1, <1>5 DEF ConsumerInv, TypeOK, Calling
    <2>3. Order'
      BY <1>1, <1>4, <1>5, Numbers DEF ConsumerInv, Order, Past
    <2>4. Reads'
      <3>1. \A c \in Consumers : QueueOf(c)' = QueueOf(c)
        BY <1>1 DEF QueueOf
      <3>2. \A c \in Consumers : \A n \in Held(read[c]) : Past(n)'
        BY <1>4, Numbers DEF ConsumerInv, Reads, Past
      <3> QED
        BY <3>1, <3>2, <1>1, <1>5 DEF ConsumerInv, Reads
    <2>5. Kept' /\ ShutdownIsLast'
      BY <1>1, <1>5 DEF ConsumerInv, Kept, ShutdownIsLast
    <2> QED
      BY <2>1, <2>2, <2>3, <2>4, <2>5 DEF ConsumerInv
  <1>6. CASE /\ p \notin closed
             /\ items' = [items EXCEPT ![p] = Append(items[p], e)]
             /\ accepted' = accepted \union {e}
    <2>1. items'[p] \in Seq(Events) /\ Held(items'[p]) = Held(items[p]) \union {e}
      BY <1>1, <1>6, HeldAppend
    <2>2. \A q \in Queues \ {p} : items'[q] = items[q]
      BY <1>1, <1>6
    <2>3. \A q \in Queues : \A d \in Held(items[q]) : d.id < e.id
      BY <1>1 DEF ConsumerInv, Order, Past
    <2>4. \A q \in Queues : q > p => items[q] = <<>> /\ Held(items[q]) = {}
      BY <1>1 DEF ConsumerInv, Order, Held, p
    <2>5. TypeOK'
      BY <1>1, <1>3, <1>6, <2>1 DEF ConsumerInv, TypeOK, Queues
    <2>6. Calling'
      BY <1>1 DEF ConsumerInv, TypeOK, Calling
    <2>7. Order'
      <3>1. \A q \in Queues : Rising(items'[q])
        <4>1. Rising(items'[p])
          BY <1>1, <1>6, <2>3, RisingAppend DEF ConsumerInv, Order
        <4> QED
          BY <4>1, <2>2 DEF ConsumerInv, Order
      <3>2. ASSUME NEW q \in Queues, NEW r \in Queues, q < r,
                   NEW d \in Held(items'[q]), NEW f \in Held(items'[r])
            PROVE  d.id < f.id
        <4>1. q # r
          BY <3>2 DEF Queues
        <4>2. CASE r = p /\ f = e
          BY <4>1, <4>2, <3>2, <2>2, <2>3
        <4>3. CASE r = p /\ f # e
          BY <4>1, <4>3, <3>2, <2>1, <2>2 DEF ConsumerInv, Order
        <4>4. CASE q = p
          BY <4>1, <4>4, <3>2, <2>2, <2>4
        <4>5. CASE q # p /\ r # p
          BY <4>5, <3>2, <2>2 DEF ConsumerInv, Order
        <4> QED
          BY <4>2, <4>3, <4>4, <4>5
      <3>3. \A q \in Queues : q > que => items'[q] = <<>>
        <4>1. \A q \in Queues : q > que => q # p
          BY <1>1, <1>3 DEF Queues
        <4> QED
          BY <4>1, <2>2 DEF ConsumerInv, Order
      <3>4. ASSUME NEW q \in Queues, NEW d \in Held(items'[q]) PROVE Past(d.id)'
        <4>1. CASE d \in Held(items[q])
          BY <4>1, <1>4, Numbers DEF ConsumerInv, Order, Past
        <4>2. CASE d \notin Held(items[q])
          <5>1. d = e
            BY <4>2, <3>4, <2>1, <2>2
          <5>2. e.id \in 1 .. MaxEvents /\ e.id <= arrived
            BY <1>1 DEF Events
          <5> QED
            BY <5>1, <5>2, <1>4
        <4> QED
          BY <4>1, <4>2
      <3> QED
        BY <3>1, <3>2, <3>3, <3>4, <1>1 DEF Order
    <2>8. Reads'
      <3>1. \A c \in Consumers : QueueOf(c)' = QueueOf(c)
        BY <1>1 DEF QueueOf
      <3>2. \A c \in Consumers : \A n \in Held(read[c]) : Past(n)' /\ n < e.id
        BY <1>1, <1>4, Numbers DEF ConsumerInv, Reads, Past
      <3>3. ASSUME NEW c \in Consumers, NEW n \in Held(read[c]), NEW q \in Queues,
                   NEW d \in Held(items'[q])
            PROVE  d.id # n /\ (q >= QueueOf(c) => n < d.id)
        <4>1. CASE d \in Held(items[q])
          BY <4>1 DEF ConsumerInv, Reads
        <4>2. CASE d \notin Held(items[q])
          <5>1. d = e
            BY <4>2, <3>3, <2>1, <2>2
          <5>2. n \in 1 .. MaxEvents /\ e.id \in 1 .. MaxEvents
            BY <1>1, Numbers DEF ConsumerInv, Events
          <5> QED
            BY <5>1, <5>2, <3>2
        <4> QED
          BY <4>1, <4>2
      <3>4. read' = read
        BY <1>1
      <3> QED
        BY <3>1, <3>2, <3>3, <3>4 DEF ConsumerInv, Reads
    <2>9. Kept'
      <3>1. \A q \in Queues : \A d \in Held(items[q]) : d \in Held(items'[q])
        BY <2>1, <2>2
      <3>2. e \in Held(items'[p])
        BY <2>1
      <3> QED
        BY <3>1, <3>2, <1>1, <1>6 DEF ConsumerInv, Kept
    <2>10. ShutdownIsLast'
      BY <1>1, <1>6, <2>2 DEF ConsumerInv, TypeOK, ShutdownIsLast,
                              Queues
    <2> QED
      BY <2>5, <2>6, <2>7, <2>8, <2>9, <2>10 DEF ConsumerInv
  <1> QED
    BY <1>2, <1>5, <1>6

\* A call begins, or ends without an event.
LEMMA CallKeeps ==
    ASSUME ConsumerInv, NEW c \in Consumers,
           (\E call \in Calls : Begin(c, call)) \/ ConsumeDone(c) \/ GiveUp(c)
    PROVE  ConsumerInv'
  <1>1. /\ UNCHANGED <<que, items, closed, hooks, ctl, cb, arrived, read, accepted>>
        /\ \E f, g : cons' = [cons EXCEPT ![c] = f] /\ got' = [got EXCEPT ![c] = g]
    <2>1. CASE \E call \in Calls : Begin(c, call)
      BY <2>1 DEF Begin, queue, control
    <2>2. CASE ConsumeDone(c) \/ GiveUp(c)
      <3>1. \E ok : Return(c, ok, Shutdown) \/ Return(c, ok, NoEvent)
        BY <2>2 DEF ConsumeDone, GiveUp
      <3>2. read' = read
        <4>1. Shutdown.id = 0 /\ NoEvent.id = 0
          BY DEF Shutdown, NoEvent
        <4>2. read' = [read EXCEPT ![c] = read[c]]
          BY <3>1, <4>1 DEF Return
        <4>3. read \in [Consumers -> Seq(1 .. MaxEvents)]
          BY DEF ConsumerInv, TypeOK
        <4> QED
          BY <4>2, <4>3
      <3> QED
        BY <2>2, <3>1, <3>2 DEF ConsumeDone, GiveUp, Return, queue, control
    <2> QED
      BY <2>1, <2>2
  <1>2. /\ cons'[c] \in [call : Calls \union {"none"}, q : 0 .. que]
        /\ cons'[c].call # "none" => cons'[c].q = que /\ que \in 1 .. que
        /\ got'[c] \in [call : Calls \union {"none"}, q : 0 .. que, ok : BOOLEAN,
                        evt : {NoEvent, Shutdown}]
        /\ got'[c].evt = NoEvent => ~got'[c].ok
        /\ got'[c].evt = Shutdown => got'[c].q \in closed /\ items[got'[c].q] = <<>>
    <2> USE DEF ConsumerInv, TypeOK
    <2>1. CASE \E call \in Calls : Begin(c, call)
      BY <2>1 DEF Begin, Nothing, Shutdown, NoEvent
    <2>2. CASE ConsumeDone(c)
      <3>1. cons[c].q \in closed /\ items[cons[c].q] = <<>>
        BY <2>2 DEF ConsumeDone
      <3>2. NoEvent # Shutdown /\ Idle \in [call : Calls \union {"none"}, q : 0 .. que]
            /\ Idle.call = "none"
        BY DEF NoEvent, Shutdown, Idle
      <3>3. cons[c].call \in Calls \union {"none"} /\ cons[c].q \in 0 .. que
        OBVIOUS
      <3>4. CASE cons[c].call \in Blocking
        <4>1. Return(c, TRUE, Shutdown)
          BY <2>2, <3>4 DEF ConsumeDone
        <4>2. /\ cons'[c] = Idle
              /\ got'[c] = [call |-> cons[c].call, q |-> cons[c].q, ok |-> TRUE,
                            evt |-> Shutdown]
          BY <4>1 DEF Return
        <4> HIDE DEF ConsumerInv, TypeOK
        <4> QED
          BY <3>1, <3>2, <3>3, <4>2
      <3>5. CASE cons[c].call \notin Blocking
        <4>1. Return(c, FALSE, NoEvent)
          BY <2>2, <3>5 DEF ConsumeDone
        <4>2. /\ cons'[c] = Idle
              /\ got'[c] = [call |-> cons[c].call, q |-> cons[c].q, ok |-> FALSE,
                            evt |-> NoEvent]
          BY <4>1 DEF Return
        <4> HIDE DEF ConsumerInv, TypeOK
        <4> QED
          BY <3>1, <3>2, <3>3, <4>2
      <3> QED
        BY <3>4, <3>5
    <2>3. CASE GiveUp(c)
      BY <2>3 DEF GiveUp, Return, Idle, Shutdown, NoEvent
    <2> QED
      BY <2>1, <2>2, <2>3
  <1>3. \A d \in Consumers \ {c} : cons'[d] = cons[d] /\ got'[d] = got[d]
    BY <1>1 DEF ConsumerInv, TypeOK
  <1>4. TypeOK'
    <2>1. cons' \in [Consumers -> [call : Calls \union {"none"}, q : 0 .. que]]
      BY <1>1, <1>2 DEF ConsumerInv, TypeOK
    <2>2. got' \in [Consumers -> [call : Calls \union {"none"}, q : 0 .. que, ok : BOOLEAN,
                                  evt : Events \union {NoEvent, Shutdown}]]
      BY <1>1, <1>2 DEF ConsumerInv, TypeOK
    <2> QED
      BY <1>1, <2>1, <2>2 DEF ConsumerInv, TypeOK
  <1>5. Calling'
    <2>1. \A d \in Consumers : cons'[d].call # "none" => cons'[d].q \in 1 .. que
      BY <1>2, <1>3 DEF ConsumerInv, Calling
    <2> QED
      BY <1>1, <2>1 DEF ConsumerInv, Calling
  <1>6. Order'
    BY <1>1 DEF ConsumerInv, Order, Past
  <1>7. Reads'
    <2>1. ASSUME NEW d \in Consumers PROVE QueueOf(d)' >= QueueOf(d) /\ QueueOf(d) \in Nat
                                           /\ QueueOf(d)' \in Nat
      <3>1. que \in Nat /\ cons[d].q \in Nat /\ cons[d].q <= que
        BY DEF ConsumerInv, TypeOK
      <3>2. CASE d = c
        BY <3>1, <3>2, <1>1, <1>2 DEF QueueOf
      <3>3. CASE d # c
        BY <3>1, <3>3, <1>1, <1>3 DEF QueueOf
      <3> QED
        BY <3>2, <3>3
    <2>2. \A d \in Consumers, q \in Queues : q >= QueueOf(d)' => q >= QueueOf(d)
      BY <2>1 DEF Queues
    <2>3. \A n : Past(n)' = Past(n)
      BY <1>1 DEF Past
    <2>4. items' = items /\ read' = read
      BY <1>1
    <2> QED
      BY <2>2, <2>3, <2>4 DEF ConsumerInv, Reads
  <1>8. Kept'
    BY <1>1 DEF ConsumerInv, Kept
  <1>9. ShutdownIsLast'
    BY <1>1, <1>2, <1>3 DEF ConsumerInv, ShutdownIsLast
  <1> QED
    BY <1>4, <1>5, <1>6, <1>7, <1>8, <1>9 DEF ConsumerInv

\* A call takes the first event of its queue: it returns it, or the event is one
\* that the calls for messages pass over.
LEMMA ConsumeKeeps ==
    ASSUME ConsumerInv, NEW c \in Consumers, Consume(c)
    PROVE  ConsumerInv'
  <1> DEFINE q == cons[c].q
             h == Head(items[q])
             t == Tail(items[q])
             returned == Returns(cons[c].call, h)
  <1>1. /\ q \in 1 .. que /\ q \in Queues /\ que \in 0 .. MaxQueues
        /\ items[q] \in Seq(Events) /\ items[q] # <<>>
        /\ cons[c].call \in Calls
    BY BoundsAssumption DEF Consume, ConsumerInv, TypeOK, Calling, Queues
  <1>2. /\ h \in Events /\ t \in Seq(Events)
        /\ h \in Held(items[q]) /\ Held(items[q]) = Held(t) \union {h}
    BY <1>1, HeldTail
  <1>3. Rising(t) /\ \A e \in Held(t) : h.id < e.id
    BY <1>1, RisingTail DEF ConsumerInv, Order
  <1>4. /\ items' = [items EXCEPT ![q] = t]
        /\ UNCHANGED <<que, closed, hooks, ctl, cb, arrived, accepted>>
    BY DEF Consume, control
  <1>5. /\ items' \in [Queues -> Seq(Events)]
        /\ items'[q] = t
        /\ \A p \in Queues \ {q} : items'[p] = items[p]
    BY <1>1, <1>2, <1>4 DEF ConsumerInv, TypeOK, Queues
  <1> HIDE DEF q, h, t, returned
  <1>6. \A p \in Queues : Held(items'[p]) \subseteq Held(items[p])
    BY <1>2, <1>5
  <1>7. \A p \in Queues : \A e \in Held(items[p]) : e \in Events /\ e.id \in Nat
    <2> SUFFICES ASSUME NEW p \in Queues, NEW e \in Held(items[p])
                 PROVE  e \in Events /\ e.id \in Nat
      OBVIOUS
    <2>1. items[p] \in Seq(Events)
      BY DEF ConsumerInv, TypeOK, Queues
    <2>2. e \in Events
      BY <2>1 DEF Held
    <2> QED
      BY <2>2 DEF Events
  <1>8. \A p \in Queues : \A e \in Held(items'[p]) :
            e.id # h.id /\ (p >= q => h.id < e.id)
    <2> SUFFICES ASSUME NEW p \in Queues, NEW e \in Held(items'[p])
                 PROVE  e.id # h.id /\ (p >= q => h.id < e.id)
      OBVIOUS
    <2>1. e.id \in Nat /\ h.id \in Nat /\ p \in Nat /\ q \in Nat
      <3>1. e \in Held(items[p])
        BY <1>6
      <3>2. e.id \in Nat /\ h.id \in Nat
        BY <3>1, <1>1, <1>2, <1>7
      <3> QED
        BY <3>2, <1>1 DEF Queues
    <2>2. CASE p = q
      <3>1. items'[p] = t
        BY <2>2, <1>5
      <3>2. e \in Held(t)
        BY <3>1
      <3>3. h.id < e.id
        BY <3>2, <1>3
      <3> QED
        BY <3>3, <2>1
    <2>3. CASE p < q
      <3>1. e.id < h.id
        BY <2>3, <1>1, <1>2, <1>6 DEF ConsumerInv, Order
      <3> QED
        BY <3>1, <2>1, <2>3
    <2>4. CASE q < p
      <3>1. h.id < e.id
        BY <2>4, <1>1, <1>2, <1>6 DEF ConsumerInv, Order
      <3> QED
        BY <3>1, <2>1, <2>4
    <2> QED
      BY <2>1, <2>2, <2>3, <2>4
  <1>9. /\ Past(h.id)
        /\ \A d \in Consumers : h.id \notin Held(read[d])
        /\ \A n \in Held(read[c]) : n < h.id
    <2>1. Past(h.id)
      BY <1>1, <1>2 DEF ConsumerInv, Order
    <2>2. \A d \in Consumers : h.id \notin Held(read[d])
      BY <1>1, <1>2 DEF ConsumerInv, Reads
    <2>3. q >= QueueOf(c)
      BY <1>1 DEF QueueOf, Consume, q
    <2>4. \A n \in Held(read[c]) : n < h.id
      BY <1>1, <1>2, <2>3 DEF ConsumerInv, Reads
    <2> QED
      BY <2>1, <2>2, <2>4
  <1>10. /\ cons'[c] \in [call : Calls \union {"none"}, q : 0 .. que]
         /\ cons'[c].call # "none" => cons'[c].q = que
         /\ \A d \in Consumers \ {c} :
                cons'[d] = cons[d] /\ got'[d] = got[d] /\ read'[d] = read[d]
         /\ cons' \in [Consumers -> [call : Calls \union {"none"}, q : 0 .. que]]
    <2>1. CASE returned
      <3>1. Return(c, TRUE, h)
        BY <2>1 DEF Consume, returned, h, q
      <3>2. cons' = [cons EXCEPT ![c] = Idle] /\ Idle.call = "none"
            /\ Idle \in [call : Calls \union {"none"}, q : 0 .. que]
        BY <3>1, <1>1 DEF Return, Idle
      <3>3. \A d \in Consumers \ {c} : got'[d] = got[d] /\ read'[d] = read[d]
        BY <3>1 DEF Return, ConsumerInv, TypeOK
      <3> QED
        BY <3>2, <3>3 DEF ConsumerInv, TypeOK
    <2>2. CASE ~returned
      <3>1. /\ cons' = [cons EXCEPT ![c] = [call |-> cons[c].call, q |-> que]]
            /\ got' = got /\ read' = read
        BY <2>2 DEF Consume, returned, h, q
      <3>2. [call |-> cons[c].call, q |-> que] \in [call : Calls \union {"none"}, q : 0 .. que]
        BY <1>1
      <3> QED
        BY <3>1, <3>2 DEF ConsumerInv, TypeOK
    <2> QED
      BY <2>1, <2>2
  <1>11. ASSUME returned
         PROVE  /\ got' = [got EXCEPT ![c] = [call |-> cons[c].call, q |-> q, ok |-> TRUE,
                                              evt |-> h]]
                /\ read' = [read EXCEPT ![c] = Append(read[c], h.id)]
    <2>1. Return(c, TRUE, h)
      BY <1>11 DEF Consume, returned, h, q
    <2>2. h.id # 0
      BY <1>2 DEF Events
    <2> QED
      BY <2>1, <2>2 DEF Return, q
  <1>12. ASSUME ~returned
         PROVE  got' = got /\ read' = read /\ (SoundCalls => h.kind = "connected")
    <2>1. got' = got /\ read' = read
      BY <1>12 DEF Consume, returned, h, q
    <2>2. SoundCalls => h.kind = "connected"
      BY <1>12, <1>1, <1>2 DEF returned, Returns, SoundCalls, IsAnyDisconnect, Events, Kinds
    <2> QED
      BY <2>1, <2>2
  <1>13. /\ read' \in [Consumers -> Seq(1 .. MaxEvents)]
         /\ \A d \in Consumers : Held(read'[d]) = Held(read[d])
                                   \union (IF d = c /\ returned THEN {h.id} ELSE {})
    <2>1. h.id \in 1 .. MaxEvents /\ read \in [Consumers -> Seq(1 .. MaxEvents)]
      BY <1>2 DEF Events, ConsumerInv, TypeOK
    <2>2. /\ Append(read[c], h.id) \in Seq(1 .. MaxEvents)
          /\ Held(Append(read[c], h.id)) = Held(read[c]) \union {h.id}
      <3> DEFINE Ids == 1 .. MaxEvents
      <3>1. read[c] \in Seq(Ids) /\ h.id \in Ids
        BY <2>1
      <3> HIDE DEF Ids
      <3>2. Append(read[c], h.id) \in Seq(Ids)
            /\ Held(Append(read[c], h.id)) = Held(read[c]) \union {h.id}
        BY <3>1, HeldAppend
      <3> QED
        BY <3>2 DEF Ids
    <2>3. CASE returned
      <3>1. read' = [read EXCEPT ![c] = Append(read[c], h.id)]
        BY <1>11, <2>3
      <3>2. read' \in [Consumers -> Seq(1 .. MaxEvents)] /\ read'[c] = Append(read[c], h.id)
        BY <3>1, <2>1, <2>2
      <3> QED
        BY <3>2, <2>2, <2>3, <1>10
    <2>4. CASE ~returned
      BY <1>12, <2>1, <2>4
    <2> QED
      BY <2>3, <2>4
  <1>14. TypeOK'
    <2>1. got' \in [Consumers -> [call : Calls \union {"none"}, q : 0 .. que, ok : BOOLEAN,
                                  evt : Events \union {NoEvent, Shutdown}]]
      <3>1. CASE returned
        <4>1. [call |-> cons[c].call, q |-> q, ok |-> TRUE, evt |-> h]
                \in [call : Calls \union {"none"}, q : 0 .. que, ok : BOOLEAN,
                     evt : Events \union {NoEvent, Shutdown}]
          <5>1. q \in 0 .. que
            BY <1>1
          <5>2. cons[c].call \in Calls \union {"none"} /\ h \in Events \union {NoEvent, Shutdown}
            BY <1>1, <1>2
          <5> QED
            BY <5>1, <5>2
        <4> QED
          BY <4>1, <1>11, <3>1 DEF ConsumerInv, TypeOK
      <3>2. CASE ~returned
        BY <1>12, <3>2 DEF ConsumerInv, TypeOK
      <3> QED
        BY <3>1, <3>2
    <2> QED
      BY <1>4, <1>5, <1>10, <1>13, <2>1 DEF ConsumerInv, TypeOK, Queues
  <1>15. Calling'
    <2>1. que \in 1 .. que
      BY <1>1
    <2> QED
      BY <2>1, <1>4, <1>10 DEF ConsumerInv, Calling
  <1>16. \A n : Past(n)' = Past(n)
    BY <1>4 DEF Past
  <1>17. Order'
    <2>1. \A p \in Queues : Rising(items'[p])
      <3> SUFFICES ASSUME NEW p \in Queues PROVE Rising(items'[p])
        OBVIOUS
      <3>1. CASE p = q
        BY <3>1, <1>3, <1>5
      <3>2. CASE p # q
        BY <3>2, <1>5 DEF ConsumerInv, Order
      <3> QED
        BY <3>1, <3>2
    <2>2. \A o, p \in Queues : o < p =>
              \A d \in Held(items'[o]), e \in Held(items'[p]) : d.id < e.id
      BY <1>6 DEF ConsumerInv, Order
    <2>3. \A p \in Queues : p > que \/ (cb.at = "put" /\ p > cb.q) => items'[p] = <<>>
      <3> SUFFICES ASSUME NEW p \in Queues, p > que \/ (cb.at = "put" /\ p > cb.q)
                   PROVE  items'[p] = <<>>
        OBVIOUS
      <3>1. items[p] = <<>>
        BY DEF ConsumerInv, Order
      <3>2. p # q
        BY <3>1, <1>1
      <3> QED
        BY <3>1, <3>2, <1>5
    <2>4. \A p \in Queues : \A e \in Held(items'[p]) : Past(e.id)'
      BY <1>6, <1>16 DEF ConsumerInv, Order
    <2> QED
      BY <2>1, <2>2, <2>3, <2>4, <1>4 DEF Order
  <1>18. Reads'
    <2>1. \A d \in Consumers : \A n \in Held(read'[d]) : Past(n)'
      BY <1>9, <1>13, <1>16 DEF ConsumerInv, Reads
    <2>2. ASSUME NEW d \in Consumers, NEW n \in Held(read'[d]), NEW p \in Queues,
                 NEW e \in Held(items'[p])
          PROVE  e.id # n /\ (p >= QueueOf(d)' => n < e.id)
      <3>1. p \in Nat /\ q \in Nat /\ que \in Nat /\ q <= que
        BY <1>1 DEF Queues
      <3>2. QueueOf(c)' = que /\ QueueOf(c) = q
        BY <1>4, <1>10 DEF QueueOf, Consume, q
      <3>3. d # c => QueueOf(d)' = QueueOf(d)
        BY <1>4, <1>10 DEF QueueOf
      <3>4. p >= QueueOf(d)' => p >= QueueOf(d)
        BY <3>1, <3>2, <3>3
      <3>5. CASE n \in Held(read[d])
        BY <3>4, <3>5, <1>6 DEF ConsumerInv, Reads
      <3>6. CASE n \notin Held(read[d])
        <4>1. n = h.id /\ d = c
          BY <3>6, <1>13
        <4> QED
          BY <4>1, <3>1, <3>2, <1>8
      <3> QED
        BY <3>5, <3>6
    <2>3. ASSUME NEW d \in Consumers, NEW i \in DOMAIN read'[d], NEW j \in DOMAIN read'[d], i < j
          PROVE  read'[d][i] < read'[d][j]
      <3>1. CASE d = c /\ returned
        <4>1. read'[d] = Append(read[c], h.id) /\ read[c] \in Seq(1 .. MaxEvents)
          BY <3>1, <1>11 DEF ConsumerInv, TypeOK
        <4>2. /\ DOMAIN read[c] = 1 .. Len(read[c]) /\ Len(read[c]) \in Nat
              /\ DOMAIN read'[d] = 1 .. Len(read[c]) + 1
              /\ read'[d][Len(read[c]) + 1] = h.id
              /\ \A k \in 1 .. Len(read[c]) : read'[d][k] = read[c][k]
          BY <4>1
        <4>3. i \in DOMAIN read[c] /\ read'[d][i] = read[c][i] /\ read[c][i] \in Held(read[c])
          BY <2>3, <4>2 DEF Held
        <4>4. CASE j = Len(read[c]) + 1
          BY <4>2, <4>3, <4>4, <1>9
        <4>5. CASE j # Len(read[c]) + 1
          <5>1. j \in DOMAIN read[c] /\ read'[d][j] = read[c][j]
            BY <4>2, <4>5
          <5> QED
            BY <4>3, <5>1, <2>3 DEF ConsumerInv, Reads
        <4> QED
          BY <4>4, <4>5
      <3>2. CASE ~(d = c /\ returned)
        <4>1. read'[d] = read[d]
          BY <3>2, <1>10, <1>12
        <4> QED
          BY <4>1, <2>3 DEF ConsumerInv, Reads
      <3> QED
        BY <3>1, <3>2
    <2>4. ASSUME NEW b \in Consumers, NEW d \in Consumers, b # d, NEW n \in Held(read'[b])
          PROVE  n \notin Held(read'[d])
      <3>1. n \in Held(read[b]) \/ (b = c /\ n = h.id)
        BY <1>13
      <3>2. n \in Held(read'[d]) => n \in Held(read[d]) \/ (d = c /\ n = h.id)
        BY <1>13
      <3>3. n \in Held(read[b]) => n \notin Held(read[d])
        BY <2>4 DEF ConsumerInv, Reads
      <3> QED
        BY <3>1, <3>2, <3>3, <2>4, <1>9
    <2> QED
      BY <2>1, <2>2, <2>3, <2>4 DEF Reads
  <1>19. Kept'
    <2> SUFFICES ASSUME SoundCalls, NEW e \in accepted, e.kind # "connected"
                 PROVE  \/ \E p \in Queues : e \in Held(items'[p])
                        \/ \E d \in Consumers : e.id \in Held(read'[d])
      BY <1>4 DEF Kept
    <2>1. CASE \E d \in Consumers : e.id \in Held(read[d])
      BY <2>1, <1>13
    <2>2. CASE \E p \in Queues : e \in Held(items[p])
      <3>1. PICK p \in Queues : e \in Held(items[p])
        BY <2>2
      <3>2. CASE p # q \/ e # h
        <4>1. e \in Held(items'[p])
          BY <3>1, <3>2, <1>2, <1>5
        <4> QED
          BY <4>1
      <3>3. CASE p = q /\ e = h
        <4>1. returned
          BY <3>3, <1>12
        <4>2. e.id \in Held(read'[c])
          BY <3>3, <4>1, <1>13
        <4> QED
          BY <4>2
      <3> QED
        BY <3>2, <3>3
    <2> QED
      BY <2>1, <2>2 DEF ConsumerInv, Kept
  <1>20. ShutdownIsLast'
    <2>1. ASSUME NEW d \in Consumers, got'[d].evt = Shutdown
          PROVE  got'[d].q \in closed /\ items'[got'[d].q] = <<>>
      <3>1. CASE d = c /\ returned
        <4>1. got'[d].evt = h
          BY <3>1, <1>11 DEF ConsumerInv, TypeOK
        <4>2. h.id # 0
          BY <1>2 DEF Events
        <4> QED
          BY <4>1, <4>2, <2>1 DEF Shutdown
      <3>2. CASE ~(d = c /\ returned)
        <4>1. got'[d] = got[d]
          BY <3>2, <1>10, <1>12
        <4>2. got[d].q \in closed /\ items[got[d].q] = <<>>
          BY <4>1, <2>1 DEF ConsumerInv, ShutdownIsLast
        <4>3. got[d].q \in Queues
          BY <4>2, BoundsAssumption DEF ConsumerInv, TypeOK, Queues
        <4>4. got[d].q # q
          BY <4>2, <1>1
        <4> QED
          BY <4>1, <4>2, <4>3, <4>4, <1>5
      <3> QED
        BY <3>1, <3>2
    <2> QED
      BY <2>1, <1>4 DEF ShutdownIsLast
  <1> QED
    BY <1>14, <1>15, <1>17, <1>18, <1>19, <1>20 DEF ConsumerInv

-----------------------------------------------------------------------------
(* The theorems.                                                           *)

\* Every step of the client, of the callbacks and of the consumers keeps the
\* invariant.
LEMMA ConsumerStep ==
    ASSUME ConsumerInv, [Next]_vars
    PROVE  ConsumerInv'
  <1>1. CASE StartConsuming \/ StopConsuming \/ SetCallback \/ Control
             \/ \E k \in Handlers : SetHandler(k)
    BY <1>1, ControlKeeps
  <1>2. CASE ClearConsumer
    BY <1>2, ClearKeeps
  <1>3. CASE PutEvent
    BY <1>3, PutKeeps
  <1>4. CASE CheckQueue \/ \E k \in Kinds : Arrive(k)
    BY <1>4, ArriveKeeps
  <1>5. CASE \E c \in Consumers : Consume(c)
    BY <1>5, ConsumeKeeps
  <1>6. CASE \E c \in Consumers :
                 (\E call \in Calls : Begin(c, call)) \/ ConsumeDone(c) \/ GiveUp(c)
    BY <1>6, CallKeeps
  <1>7. CASE UNCHANGED vars
    <2>1. UNCHANGED <<que, items, closed, hooks, ctl, cb, arrived, cons, got, read, accepted>>
      BY <1>7 DEF vars, queue, control, consumers
    <2>2. TypeOK' /\ Calling'
      BY <2>1 DEF ConsumerInv, TypeOK, Calling
    <2>3. Order'
      BY <2>1 DEF ConsumerInv, Order, Past
    <2>4. Reads' /\ Kept'
      BY <2>1 DEF ConsumerInv, Reads, Kept, Past, QueueOf
    <2>5. ShutdownIsLast'
      BY <2>1 DEF ConsumerInv, ShutdownIsLast
    <2> QED
      BY <2>2, <2>3, <2>4, <2>5 DEF ConsumerInv
  <1> QED
    BY <1>1, <1>2, <1>3, <1>4, <1>5, <1>6, <1>7 DEF Next, Callback, Consumer

\* The invariant of the event consumer, for the calls that agree on which events
\* end them.
THEOREM ConsumerInvariant == Spec => []ConsumerInv
  <1>1. Init => ConsumerInv
    BY ConsumerInit
  <1>2. ConsumerInv /\ [Next]_vars => ConsumerInv'
    BY ConsumerStep
  <1> QED
    BY <1>1, <1>2, PTL DEF Spec

\* No event that was accepted is swallowed by a call, given to two consumers, or
\* given out of order, whatever start_consuming() and stop_consuming() do to the
\* queue meanwhile.
THEOREM NoEventSwallowed == ASSUME SoundCalls PROVE Spec => []NothingSwallowed
  <1>1. ConsumerInv => NothingSwallowed
    <2> SUFFICES ASSUME ConsumerInv PROVE NothingSwallowed
      OBVIOUS
    <2>1. \A e \in accepted :
            e.kind # "connected" =>
                \/ \E q \in 1 .. MaxQueues : \E i \in DOMAIN items[q] : items[q][i] = e
                \/ \E c \in Consumers : \E i \in DOMAIN read[c] : read[c][i] = e.id
      BY DEF ConsumerInv, Kept, Held, Queues
    <2>2. \A c \in Consumers : \A i, j \in DOMAIN read[c] :
            i < j => read[c][i] < read[c][j]
      BY DEF ConsumerInv, Reads
    <2>3. \A c, d \in Consumers : c # d =>
            \A i \in DOMAIN read[c], j \in DOMAIN read[d] : read[c][i] # read[d][j]
      BY DEF ConsumerInv, Reads, Held
    <2> QED
      BY <2>1, <2>2, <2>3 DEF NothingSwallowed
  <1> QED
    BY <1>1, ConsumerInvariant, PTL

\* After the shutdown event the queue it came from stays closed and empty, although
\* callbacks that have already read que_ still put to it.
THEOREM ShutdownEndsTheQueue == Spec => []ShutdownIsLast
  <1>1. ConsumerInv => ShutdownIsLast
    BY DEF ConsumerInv
  <1> QED
    BY <1>1, ConsumerInvariant, PTL

=============================================================================
