--------------------------- MODULE EventConsumer ---------------------------
(***************************************************************************)
(* The consumer side of mqtt::async_client: the event queue que_ that      *)
(* start_consuming() creates, the callbacks on_connected,                  *)
(* on_connection_lost, on_disconnected and on_message_arrived that fill    *)
(* it, and the consume_ and try_consume_ calls that empty it.              *)
(*                                                                         *)
(* que_ is a pointer to a thread_queue.  A thread_queue is used here as    *)
(* the channel that the module ThreadQueue shows it to implement: every    *)
(* operation is one step, and a blocked call waits for its guard.  A       *)
(* thread that has read the pointer works on the queue it pointed to, even *)
(* when start_consuming() has replaced it since.                           *)
(***************************************************************************)
EXTENDS Naturals, Sequences

CONSTANTS
    Consumers,      \* the application's consumer threads
    Calls,          \* the calls they make
    Handlers,       \* the kinds of events the application sets a handler for
    MaxEvents,      \* bound on the events that arrive
    MaxQueues       \* bound on the queues that start_consuming() creates

Blocking == {"consume_event", "consume_message"}
Trying == {"try_consume_event", "try_consume_message"}
Timed == {"try_consume_event_for", "try_consume_message_for", "try_consume_message_until"}
EventCalls == {"consume_event", "try_consume_event", "try_consume_event_for"}

ASSUME CallsAssumption == Calls \subseteq Blocking \union Trying \union Timed
ASSUME HandlersAssumption == Handlers \subseteq {"message", "connected", "connection_lost", "disconnected"}
ASSUME BoundsAssumption == MaxEvents \in Nat /\ MaxQueues \in Nat

VARIABLES
    que,        \* que_: the number of the queue it points to, 0 for nullptr
    items,      \* the events in each queue
    closed,     \* the queues that have been closed
    hooks,      \* C library: the callbacks of the client that are installed
    ctl,        \* the thread that starts and stops the consumer: its place
    cb,         \* the callback thread
    arrived,    \* the number of events so far
    cons,       \* the call each consumer thread is in, and its queue
    got,        \* what the last call of each consumer returned
    read,       \* history: the numbers of the events each consumer was given
    accepted    \* history: the events put into a queue and not cleared

queue == <<que, items, closed>>
control == <<hooks, ctl>>
consumers == <<cons, got, read>>
vars == <<queue, control, cb, arrived, consumers, accepted>>

Kinds == {"message", "connected", "connection_lost", "disconnected"}
Events == [id : 1 .. MaxEvents, kind : Kinds]
NoEvent == [id |-> 0, kind |-> "none"]
Shutdown == [id |-> 0, kind |-> "shutdown"]

\* MQTTAsync_setCallbacks installs on_connection_lost and on_message_arrived.
AllHooks == Kinds
CallbackHooks == {"message", "connection_lost"}

\* event::is_any_disconnect
IsAnyDisconnect(e) == e.kind \in {"connection_lost", "disconnected", "shutdown"}

Idle == [call |-> "none", q |-> 0]
Nothing == [call |-> "none", q |-> 0, ok |-> FALSE, evt |-> NoEvent]
NoCallback == [at |-> "idle", evt |-> NoEvent, q |-> 0]

Init ==
    /\ que = 0
    /\ items = [q \in 1 .. MaxQueues |-> <<>>]
    /\ closed = {}
    /\ hooks = {}
    /\ ctl = "idle"
    /\ cb = NoCallback
    /\ arrived = 0
    /\ cons = [c \in Consumers |-> Idle]
    /\ got = [c \in Consumers |-> Nothing]
    /\ read = [c \in Consumers |-> <<>>]
    /\ accepted = {}

-----------------------------------------------------------------------------
(* start_consuming, stop_consuming, set_callback, clear_consumer.          *)

\* Nothing is done if the queue is already up.
StartConsuming ==
    /\ ctl = "idle"
    /\ IF que # 0 /\ que \notin closed
       THEN UNCHANGED ctl
       ELSE que < MaxQueues /\ ctl' = "disable"
    /\ UNCHANGED <<queue, hooks, cb, arrived, consumers, accepted>>

StopConsuming ==
    /\ ctl = "idle"
    /\ ctl' = "stop"
    /\ UNCHANGED <<queue, hooks, cb, arrived, consumers, accepted>>

\* disable_callbacks() leaves a function that does nothing in place of
\* on_message_arrived.  When the C library refuses, start_consuming() throws and
\* stop_consuming() goes on to close the queue.  (The variant forgets to.)
DisableCallbacks_Throws ==
    /\ ctl \in {"disable", "stop"}
    /\ \/ /\ hooks' = hooks \ CallbackHooks
          /\ ctl' = IF ctl = "stop" THEN "close" ELSE "reset"
       \/ UNCHANGED hooks /\ ctl' = "idle"
    /\ UNCHANGED <<queue, cb, arrived, consumers, accepted>>

DisableCallbacks ==
    /\ ctl \in {"disable", "stop"}
    /\ \/ /\ hooks' = hooks \ CallbackHooks
          /\ ctl' = IF ctl = "stop" THEN "close" ELSE "reset"
       \/ UNCHANGED hooks /\ ctl' = IF ctl = "stop" THEN "close" ELSE "idle"
    /\ UNCHANGED <<queue, cb, arrived, consumers, accepted>>

\* It closes the queue without a test that there is one.
CloseQueue_Unchecked ==
    /\ ctl = "close"
    /\ closed' = closed \union {que}
    /\ ctl' = "idle"
    /\ UNCHANGED <<que, items, hooks, cb, arrived, consumers, accepted>>

CloseQueue ==
    /\ ctl = "close"
    /\ closed' = closed \union ({que} \ {0})
    /\ ctl' = "idle"
    /\ UNCHANGED <<que, items, hooks, cb, arrived, consumers, accepted>>

ResetQueue ==
    /\ ctl = "reset"
    /\ que' = que + 1
    /\ ctl' = "hook"
    /\ UNCHANGED <<items, closed, hooks, cb, arrived, consumers, accepted>>

\* check_ret() throws when the C library refuses.
Hook(callbacks, next) ==
    \/ hooks' = hooks \union callbacks /\ ctl' = next
    \/ ctl' = "idle" /\ UNCHANGED hooks

\* setCallbacks, setConnected and setDisconnected, in this order.
HookCallbacks ==
    /\ \/ ctl = "hook" /\ Hook(CallbackHooks, "hookConnected")
       \/ ctl = "hookConnected" /\ Hook({"connected"}, "hookDisconnected")
       \/ ctl = "hookDisconnected" /\ Hook({"disconnected"}, "idle")
    /\ UNCHANGED <<queue, cb, arrived, consumers, accepted>>

\* set_callback() calls setConnected, and takes it back if it fails; then it calls
\* setCallbacks, and ignores whether that fails.
SetCallback ==
    /\ ctl = "idle"
    /\ \/ hooks' = hooks \union {"connected"} /\ ctl' = "callbacks"
       \/ hooks' \in {hooks, hooks \ {"connected"}} /\ UNCHANGED ctl
    /\ UNCHANGED <<queue, cb, arrived, consumers, accepted>>

SetCallbacks ==
    /\ ctl = "callbacks"
    /\ hooks' \in {hooks, hooks \union CallbackHooks}
    /\ ctl' = "idle"
    /\ UNCHANGED <<queue, cb, arrived, consumers, accepted>>

\* set_connected_handler() and its like install the one callback they need.
SetHandler(k) ==
    /\ ctl = "idle"
    /\ hooks' = hooks \union {k}
    /\ UNCHANGED <<queue, ctl, cb, arrived, consumers, accepted>>

ClearConsumer ==
    /\ ctl = "idle" /\ que # 0
    /\ accepted' = {e \in accepted : \A i \in DOMAIN items[que] : items[que][i] # e}
    /\ items' = [items EXCEPT ![que] = <<>>]
    /\ UNCHANGED <<que, closed, control, cb, arrived, consumers>>

-----------------------------------------------------------------------------
(* The callback thread.                                                    *)

\* The C library calls the function that is installed for the event; without one
\* the event is lost.
Arrive(k) ==
    /\ cb.at = "idle" /\ arrived < MaxEvents
    /\ arrived' = arrived + 1
    /\ cb' = IF k \in hooks
             THEN [at |-> "handlers", evt |-> [id |-> arrived', kind |-> k], q |-> 0]
             ELSE cb
    /\ UNCHANGED <<queue, control, consumers, accepted>>

\* The application's handlers have run; if there is a queue, it is put to.
CheckQueue ==
    /\ cb.at = "handlers"
    /\ cb' = IF que = 0 THEN NoCallback ELSE [at |-> "put", evt |-> cb.evt, q |-> que]
    /\ UNCHANGED <<queue, control, arrived, consumers, accepted>>

\* put() throws queue_closed when the queue is closed, and the handler catches it.
PutEvent ==
    /\ cb.at = "put"
    /\ IF cb.q \in closed THEN UNCHANGED <<items, accepted>>
       ELSE /\ items' = [items EXCEPT ![cb.q] = Append(@, cb.evt)]
            /\ accepted' = accepted \union {cb.evt}
    /\ cb' = NoCallback
    /\ UNCHANGED <<que, closed, control, arrived, consumers>>

-----------------------------------------------------------------------------
(* The consumer threads.                                                   *)

\* Without a queue the calls throw (consume_event must not be called then).
Begin(c, call) ==
    /\ cons[c].call = "none" /\ que # 0
    /\ cons' = [cons EXCEPT ![c] = [call |-> call, q |-> que]]
    /\ got' = [got EXCEPT ![c] = Nothing]
    /\ UNCHANGED <<queue, control, cb, arrived, read, accepted>>

Return(c, ok, evt) ==
    /\ cons' = [cons EXCEPT ![c] = Idle]
    /\ got' = [got EXCEPT ![c] = [call |-> cons[c].call, q |-> cons[c].q, ok |-> ok,
                                  evt |-> evt]]
    /\ read' = [read EXCEPT ![c] = IF evt.id = 0 THEN @ ELSE Append(@, evt.id)]

\* Whether the call returns with the event, or asks for the next: the calls for
\* messages pass over connected events, and return an empty pointer for the end
\* of a connection.  (try_consume_message_until tests for the opposite.)
Returns_Any(call, e) == call \in EventCalls \/ e.kind = "message"
Returns(call, e) ==
    \/ call \in EventCalls
    \/ e.kind = "message"
    \/ IF call = "try_consume_message_until" THEN ~IsAnyDisconnect(e) ELSE IsAnyDisconnect(e)

Consume(c) ==
    LET q == cons[c].q IN
    /\ cons[c].call # "none" /\ items[q] # <<>>
    /\ items' = [items EXCEPT ![q] = Tail(@)]
    /\ IF Returns(cons[c].call, Head(items[q]))
       THEN Return(c, TRUE, Head(items[q]))
       ELSE /\ cons' = [cons EXCEPT ![c] = [call |-> cons[c].call, q |-> que]]
            /\ UNCHANGED <<got, read>>
    /\ UNCHANGED <<que, closed, control, cb, arrived, accepted>>

\* It gives up a closed queue that still has events.
ConsumeDone_Early(c) ==
    /\ cons[c].call # "none" /\ cons[c].q \in closed
    /\ IF cons[c].call \in Blocking
       THEN Return(c, TRUE, Shutdown)
       ELSE Return(c, FALSE, NoEvent)
    /\ UNCHANGED <<queue, control, cb, arrived, accepted>>

\* The queue is closed and empty: get() throws, which gives a shutdown event; the
\* try_ forms of get return false.
ConsumeDone(c) ==
    /\ cons[c].call # "none" /\ cons[c].q \in closed /\ items[cons[c].q] = <<>>
    /\ IF cons[c].call \in Blocking
       THEN Return(c, TRUE, Shutdown)
       ELSE Return(c, FALSE, NoEvent)
    /\ UNCHANGED <<queue, control, cb, arrived, accepted>>

\* The queue is empty; a try_ call gives up, at once or when its time is over.
GiveUp(c) ==
    /\ cons[c].call \in Trying \union Timed
    /\ items[cons[c].q] = <<>> /\ cons[c].q \notin closed
    /\ Return(c, FALSE, NoEvent)
    /\ UNCHANGED <<queue, control, cb, arrived, accepted>>

-----------------------------------------------------------------------------
Control ==
    \/ DisableCallbacks \/ CloseQueue \/ ResetQueue \/ HookCallbacks \/ SetCallbacks

Callback == CheckQueue \/ PutEvent

Consumer(c) == Consume(c) \/ ConsumeDone(c) \/ GiveUp(c)

Next ==
    \/ StartConsuming \/ StopConsuming \/ SetCallback \/ ClearConsumer \/ Control
    \/ \E k \in Handlers : SetHandler(k)
    \/ Callback \/ \E k \in Kinds : Arrive(k)
    \/ \E c \in Consumers : Consumer(c) \/ \E call \in Calls : Begin(c, call)

\* A call that has begun goes on when it is not blocked; nobody has to call, and
\* nothing has to arrive.
Fairness ==
    /\ WF_vars(Control)
    /\ WF_vars(Callback)
    /\ \A c \in Consumers : WF_vars(Consumer(c))

Spec == Init /\ [][Next]_vars /\ Fairness

-----------------------------------------------------------------------------
(* Properties.                                                             *)

\* Types; a queue is filled or closed only once start_consuming() has created it.
TypeOK ==
    /\ que \in 0 .. MaxQueues
    /\ items \in [1 .. MaxQueues -> Seq(Events)]
    /\ closed \subseteq 1 .. que
    /\ hooks \subseteq AllHooks
    /\ ctl \in {"idle", "disable", "stop", "close", "reset", "callbacks",
                 "hook", "hookConnected", "hookDisconnected"}
    /\ cb \in [at : {"idle", "handlers", "put"}, evt : Events \union {NoEvent}, q : 0 .. que]
    /\ arrived \in 0 .. MaxEvents
    /\ cons \in [Consumers -> [call : Calls \union {"none"}, q : 0 .. que]]
    /\ got \in [Consumers -> [call : Calls \union {"none"}, q : 0 .. que, ok : BOOLEAN,
                              evt : Events \union {NoEvent, Shutdown}]]
    /\ read \in [Consumers -> Seq(1 .. MaxEvents)]
    /\ accepted \subseteq Events

\* No call swallows what it has taken from the queue: every message and every end
\* of a connection that was accepted is still queued or was given to exactly one
\* consumer, and each consumer is given its events in the order of their arrival.
NothingSwallowed ==
    /\ \A e \in accepted :
          e.kind # "connected" =>
              \/ \E q \in 1 .. MaxQueues : \E i \in DOMAIN items[q] : items[q][i] = e
              \/ \E c \in Consumers : \E i \in DOMAIN read[c] : read[c][i] = e.id
    /\ \A c \in Consumers : \A i, j \in DOMAIN read[c] : i < j => read[c][i] < read[c][j]
    /\ \A c, d \in Consumers : c # d =>
          \A i \in DOMAIN read[c], j \in DOMAIN read[d] : read[c][i] # read[d][j]

\* A call for messages, try_consume_message_until() too, returns true when "a message was
\* read", or with an empty pointer because of "a disconnect or shutdown": a connected
\* event ends none.
EmptyMeansDisconnect ==
    \A c \in Consumers :
        got[c].ok /\ got[c].call \notin EventCalls /\ got[c].evt.kind # "message"
            => IsAnyDisconnect(got[c].evt)

\* The shutdown event is the last: nothing is left in the queue it came from, and
\* nothing is added to it, although callbacks that have passed the test for a
\* queue still run, and not every callback is disabled by stop_consuming().
ShutdownIsLast ==
    \A c \in Consumers :
        got[c].evt = Shutdown => got[c].q \in closed /\ items[got[c].q] = <<>>

\* stop_consuming() wakes up every thread that waits on the queue, even when the C
\* library refuses to disable the callbacks.
StopWakesConsumers ==
    \A c \in Consumers : ctl = "stop" /\ cons[c].call # "none" ~> cons[c].call = "none"

=============================================================================
