------------------------------ MODULE Publisher ------------------------------
(***************************************************************************)
(* The programs of examples/ that publish, against a network that loses    *)
(* connections.  What a program differs in is a record: how it waits for   *)
(* each of its messages, whether the client takes messages without a       *)
(* connection, whether it connects again by itself, whether the program    *)
(* connects and disconnects for every message.                             *)
(*                                                                         *)
(* A loop that publishes until the user has enough is cut down to two      *)
(* messages.  All programs but data_publish use clean sessions: the C      *)
(* library gives up on their messages when the connection is lost.         *)
(***************************************************************************)
EXTENDS Naturals, Sequences

CONSTANT
    MaxLosses       \* bound on lost connections

ASSUME PublisherBound == MaxLosses \in Nat

\* "timed" is wait_for(), whose answer is not used, "poll" a listener's flag that is
\* polled, "sync" the blocking client, which throws when the time is over, and "thread"
\* another thread that waits for the tokens it is passed.
async_publish ==
    [waits |-> <<"timed", "timed", "wait", "poll">>, offline |-> FALSE, auto |-> FALSE,
     each |-> FALSE, opens |-> TRUE]
topic_publish == [async_publish EXCEPT !.waits = <<"none", "none", "none", "wait">>]
ssl_publish == [async_publish EXCEPT !.waits = <<"timed">>]
ws_publish == [async_publish EXCEPT !.waits = <<"timed">>]
pub_speed_test == [async_publish EXCEPT !.waits = <<"thread", "thread">>]
sync_publish == [async_publish EXCEPT !.waits = <<"sync", "sync", "wait">>]
sync_reconnect == [async_publish EXCEPT !.waits = <<"sync", "sync">>, !.each = TRUE]

\* Automatic reconnects.  The constructor that data_publish uses sets the size of the
\* off-line buffer, but does not let the client send while it is disconnected.
data_publish == [async_publish EXCEPT !.waits = <<"none", "none">>, !.auto = TRUE]

\* ... and this one does not wait for the connection.
async_publish_time == [data_publish EXCEPT !.offline = TRUE, !.opens = FALSE]

Publishers ==
    {async_publish, topic_publish, ssl_publish, ws_publish, pub_speed_test, sync_publish,
     sync_reconnect, data_publish, async_publish_time}

VARIABLES
    publisher,      \* the program
    at,             \* where main() is
    delivery,       \* what has become of the messages published so far
    que,            \* pub_speed_test: tokens for the other thread, 0 for an empty one
    waiter,         \* pub_speed_test: where token_wait_func() is, and its token
    up,             \* is_connected()
    losses

publisherVars == <<publisher, at, delivery, que, waiter, up, losses>>

Deliveries == {"pending", "ok", "failed"}
Places == {"idle", "connect", "check", "publish", "wait", "join", "disconnect", "unwind",
           "exit0", "exit1"}
Threaded == publisher = pub_speed_test
Published == Len(delivery)

\* Types.
PublisherTypeOK ==
    /\ publisher \in Publishers /\ at \in Places
    /\ delivery \in Seq(Deliveries) /\ que \in Seq(Nat)
    /\ waiter \in [at : {"none", "get", "wait", "done", "failed"}, tok : Nat]
    /\ up \in BOOLEAN /\ losses \in Nat

PublisherInit ==
    /\ publisher \in Publishers
    /\ at = "idle" /\ delivery = <<>> /\ que = <<>>
    /\ waiter = [at |-> "none", tok |-> 0]
    /\ up = FALSE /\ losses = 0

-----------------------------------------------------------------------------
(* main()                                                                  *)

Goto(place) == at' = place /\ UNCHANGED <<publisher, delivery, que, waiter, losses>>

PublisherStart == at = "idle" /\ Goto("connect") /\ UNCHANGED up

\* An exception leaves the try block.  That of pub_speed_test first destroys the future
\* of its thread, which waits for the thread to end.
Throws == Goto(IF Threaded /\ waiter.at # "none" THEN "unwind" ELSE "exit1")

\* connect() is answered, if the program waits for that; the other thread of
\* pub_speed_test is started next.
PublisherConnect ==
    /\ at = "connect"
    /\ \/ Goto("exit1") /\ UNCHANGED up
       \/ /\ at' = IF publisher.each THEN "check" ELSE "publish"
          /\ up' \in {TRUE, publisher.opens}
          /\ waiter' = IF Threaded THEN [waiter EXCEPT !.at = "get"] ELSE waiter
          /\ UNCHANGED <<publisher, delivery, que, losses>>

\* sync_reconnect: reconnect(), unless there is a connection.
CheckConnected ==
    /\ at = "check"
    /\ \/ Goto("publish") /\ up' = TRUE
       \/ ~up /\ Goto("exit1") /\ UNCHANGED up

Turns == Published < Len(publisher.waits)

\* The message is refused, for want of a connection or of space.
PublishRefused == at = "publish" /\ Turns /\ Throws /\ UNCHANGED up

Publish ==
    /\ at = "publish" /\ Turns
    /\ up \/ publisher.offline
    /\ delivery' = Append(delivery, "pending")
    /\ que' = IF Threaded THEN Append(que, Published + 1) ELSE que
    /\ at' = IF publisher.waits[Published + 1] \in {"none", "thread"} THEN "publish" ELSE "wait"
    /\ UNCHANGED <<publisher, waiter, up, losses>>

\* Mutant: the listener's on_failure() does not set done_.
is_done_Success(i) == delivery[i] = "ok"

is_done(i) == delivery[i] # "pending"

\* The wait for the message just published: until it is answered, the flag is set or
\* the time over.  wait() and wait_for() throw if the delivery has failed.
PublishWait ==
    /\ at = "wait"
    /\ LET how == publisher.waits[Published]
           next == IF publisher.each THEN "disconnect" ELSE "publish"
       IN  \/ how = "poll" /\ is_done(Published) /\ Goto(next)
           \/ how # "poll" /\ delivery[Published] = "ok" /\ Goto(next)
           \/ how # "poll" /\ delivery[Published] = "failed" /\ Throws
           \/ how = "timed" /\ delivery[Published] = "pending" /\ Goto(next)
           \/ how = "sync" /\ delivery[Published] = "pending" /\ Throws
    /\ UNCHANGED up

\* All is published.  pub_speed_test tells its thread with an empty token.
Finish ==
    /\ at = "publish" /\ ~Turns
    /\ at' = IF Threaded THEN "join" ELSE "disconnect"
    /\ que' = IF Threaded THEN Append(que, 0) ELSE que
    /\ UNCHANGED <<publisher, delivery, waiter, up, losses>>

\* fut.get() throws what the thread has thrown.
Join ==
    /\ at = "join"
    /\ \/ waiter.at = "done" /\ Goto("disconnect")
       \/ waiter.at = "failed" /\ Goto("exit1")
    /\ UNCHANGED up

\* disconnect(), which throws without a connection, or when it fails or takes too long.
PublisherDisconnect ==
    /\ at = "disconnect"
    /\ \/ Goto("exit1") /\ UNCHANGED up
       \/ /\ up /\ up' = FALSE
          /\ Goto(IF publisher.each /\ Turns THEN "check" ELSE "exit0")

\* The thread has ended, so the handler runs; its empty token comes after that.
Unwind == at = "unwind" /\ waiter.at \in {"done", "failed"} /\ Goto("exit1") /\ UNCHANGED up

-----------------------------------------------------------------------------
(* token_wait_func()                                                       *)

WaiterGet ==
    /\ waiter.at = "get" /\ que # <<>>
    /\ que' = Tail(que)
    /\ waiter' = [at |-> IF Head(que) = 0 THEN "done" ELSE "wait", tok |-> Head(que)]
    /\ UNCHANGED <<publisher, at, delivery, up, losses>>

\* Mutant: the thread takes no notice of a failure.
WaiterWait_Swallows ==
    /\ waiter.at = "wait" /\ delivery[waiter.tok] # "pending"
    /\ waiter' = [waiter EXCEPT !.at = "get"]
    /\ UNCHANGED <<publisher, at, delivery, que, up, losses>>

\* tok->wait() throws if the delivery has failed: the future has the exception.
WaiterWait ==
    /\ waiter.at = "wait" /\ delivery[waiter.tok] # "pending"
    /\ waiter' = [waiter EXCEPT !.at = IF delivery[waiter.tok] = "ok" THEN "get" ELSE "failed"]
    /\ UNCHANGED <<publisher, at, delivery, que, up, losses>>

-----------------------------------------------------------------------------
(* The C library and the network.                                          *)

Running == at \notin {"idle", "exit0", "exit1"}

\* Delivered while there is a connection, or given up.
Delivered(i) ==
    /\ Running /\ delivery[i] = "pending"
    /\ \E d \in {"ok", "failed"} : (d = "ok" => up) /\ delivery' = [delivery EXCEPT ![i] = d]
    /\ UNCHANGED <<publisher, at, que, waiter, up, losses>>

ConnectionLost ==
    /\ Running /\ up /\ losses < MaxLosses
    /\ up' = FALSE /\ losses' = losses + 1
    /\ UNCHANGED <<publisher, at, delivery, que, waiter>>

AutomaticReconnect ==
    /\ Running /\ publisher.auto /\ at # "connect" /\ ~up
    /\ up' = TRUE
    /\ UNCHANGED <<publisher, at, delivery, que, waiter, losses>>

-----------------------------------------------------------------------------
Main ==
    \/ PublisherConnect \/ CheckConnected \/ PublishRefused \/ Publish \/ PublishWait
    \/ Finish \/ Join \/ PublisherDisconnect \/ Unwind

Waiter == WaiterGet \/ WaiterWait

Answers == \E i \in DOMAIN delivery : Delivered(i)

PublisherNext ==
    \/ PublisherStart \/ Main \/ Waiter \/ Answers
    \/ ConnectionLost \/ AutomaticReconnect

\* Both threads go on while they can, and the C library answers for every message.
PublisherFairness ==
    /\ WF_publisherVars(Main) /\ WF_publisherVars(Waiter)
    /\ \A i \in 1 .. 4 : WF_publisherVars(i \in DOMAIN delivery /\ Delivered(i))

PublisherSpec == PublisherInit /\ [][PublisherNext]_publisherVars /\ PublisherFairness

-----------------------------------------------------------------------------
(* Properties.                                                             *)

\* A program that waits for a message without a limit, or with the blocking client, or
\* in another thread ("Any exceptions thrown from here will be caught in main()"), ends
\* with success only if the message was delivered.
SuccessIsDelivered ==
    at = "exit0" =>
        \A i \in DOMAIN delivery :
            publisher.waits[i] \in {"wait", "sync", "thread"} => delivery[i] = "ok"

\* The future's destructor waits for a thread that waits for a token: the handler that
\* would put one into the queue runs after the destructor.
Unjoined == at = "unwind" /\ waiter.at = "get" /\ que = <<>>

\* Every publishing program comes to its end, whatever connections and deliveries fail,
\* on whatever thread and in whatever way it waits for them; but pub_speed_test hangs
\* in the destructor of its future when a message is refused.
PublisherEnds == at # "idle" ~> at \in {"exit0", "exit1"} \/ Unjoined

=============================================================================
