----------------------------- MODULE Subscriber -----------------------------
(***************************************************************************)
(* The programs of examples/ that subscribe and wait for messages, against *)
(* a server that keeps sessions and a network that loses connections.      *)
(*                                                                         *)
(* What the programs differ in is a record each: whether the session       *)
(* outlives the connection, whether the client reconnects by itself,       *)
(* whether the program skips its subscriptions when the server has a       *)
(* session, how many requests it subscribes with, whether it waits for     *)
(* them, whether its waits have a limit, and what it does when the         *)
(* connection is lost, what else ends it, and what becomes of it when a    *)
(* thread of it stops the consumer.  One of them is chosen in Init; it may *)
(* crash, stop and be started again.  The server grants what it is asked   *)
(* for and forgets no session it promised to keep.                         *)
(*                                                                         *)
(* A name that Persistence has, too, has Subscriber or Program in front:   *)
(* ExampleProofs extends both modules.                                     *)
(***************************************************************************)
EXTENDS Naturals, Sequences

CONSTANTS
    Attempts,       \* N_ATTEMPT and N_RETRY_ATTEMPTS, cut down
    MaxFaults,      \* bound on lost connections and crashes
    MaxRuns,        \* bound on the starts of the program
    MaxQueue        \* bound on the queue when a message comes

ASSUME SubscriberBounds == {Attempts, MaxFaults, MaxRuns, MaxQueue} \subseteq Nat

\* Blocking client, both topics in one request; it polls until it is reconnected.
sync_consume ==
    [keeps |-> TRUE, auto |-> TRUE, skips |-> TRUE, requests |-> 1, waits |-> TRUE,
     timed |-> TRUE, onLost |-> "poll", quits |-> "message", stops |-> "no"]

\* One request per topic, each with its subscription identifier.
sync_consume_v5 == [sync_consume EXCEPT !.requests = 2]

\* Only reports that the connection was lost.
async_consume ==
    [sync_consume EXCEPT !.timed = FALSE, !.onLost = "ignore", !.quits = "never"]
async_message_consume ==
    [sync_consume EXCEPT !.timed = FALSE, !.onLost = "ignore", !.quits = "never"]

\* Stops when the connection is lost.  The first also has a thread that stops the
\* consumer: its loop expects an exception then, and gets shutdown events without end.
async_consume_v5 ==
    [async_consume EXCEPT !.auto = FALSE, !.onLost = "exit", !.stops = "spins"]
async_message_consume_v5 == [async_message_consume EXCEPT !.auto = FALSE, !.onLost = "exit"]

\* Does not wait for the answer to its subscription; a thread stops the consumer.
multithr_pub_sub ==
    [async_consume EXCEPT !.waits = FALSE, !.quits = "message", !.stops = "ends"]

\* A new session and a new subscription in every connection.
rpc_math_srvr ==
    [sync_consume EXCEPT !.keeps = FALSE, !.auto = FALSE, !.skips = FALSE,
                         !.onLost = "reconnect"]

\* The server makes up the client's name, so there is no session to come back to.
mqttpp_chat ==
    [async_message_consume_v5 EXCEPT !.keeps = FALSE, !.skips = FALSE, !.quits = "any"]

\* Subscribes in the callback connected(), connects again in connection_lost().
async_subscribe ==
    [async_consume EXCEPT !.auto = FALSE, !.skips = FALSE, !.waits = FALSE,
                          !.onLost = "callback", !.quits = "any"]
async_subscribe_v5 == [async_subscribe EXCEPT !.keeps = FALSE]

\* Takes one message, its reply, or none: try_consume_message_for() gives an empty
\* pointer when its time is over and when the connection is lost.
rpc_math_cli == [mqttpp_chat EXCEPT !.quits = "timed"]

Programs ==
    {sync_consume, sync_consume_v5, async_consume, async_message_consume, async_consume_v5,
     async_message_consume_v5, multithr_pub_sub, rpc_math_srvr, mqttpp_chat,
     async_subscribe, async_subscribe_v5, rpc_math_cli}

VARIABLES
    prog,           \* the program
    pc,             \* where it is
    made,           \* subscription requests made in this connection
    tries,          \* i of try_reconnect(), nretry_ of the callback class
    answer,         \* what the token it waits for was answered with
    consuming,      \* the queue is up, or the callback installed
    queue,          \* events that the client has passed on
    link,           \* is_connected()
    wire,           \* the requests on their way to the server
    session,        \* server: it has a session for the client
    subs,           \* server: the requests it has granted in this session
    cut,            \* the session was left before all its requests were granted
    faults, runs

client == <<pc, made, tries, answer, consuming, queue>>
server == <<session, subs>>
bounds == <<faults, runs>>
subscriberVars == <<prog, client, link, wire, server, cut, bounds>>

\* A connect request among the numbered subscription requests.
CONNECT == 0

Wanted == 1 .. prog.requests
Callback == prog.onLost = "callback"

\* Types.
SubscriberTypeOK ==
    /\ prog \in Programs
    /\ pc \in {"off", "start_consuming", "connect", "connecting", "subscribe", "subscribing",
               "consume", "poll", "retry", "reconnecting", "stopping"}
    /\ made \in 0 .. 2 /\ tries \in Nat
    /\ answer \in {"none", "new", "present", "granted", "failed"}
    /\ queue \in Seq({"connected", "lost", "failed", "message"})
    /\ wire \in Seq({CONNECT, 1, 2})
    /\ {link, consuming, session, cut} \subseteq BOOLEAN
    /\ subs \subseteq 1 .. 2
    /\ faults \in Nat /\ runs \in Nat

SubscriberInit ==
    /\ prog \in Programs
    /\ pc = "off" /\ made = 0 /\ tries = 0 /\ answer = "none"
    /\ queue = <<>> /\ wire = <<>>
    /\ link = FALSE /\ consuming = FALSE /\ session = FALSE /\ cut = FALSE
    /\ subs = {}
    /\ faults = 0 /\ runs = 0

-----------------------------------------------------------------------------
(* The process ends, in whatever way.                                      *)

\* The session is left as it is: cut off if it lacks a subscription.
Leave == cut' = (cut \/ (session /\ subs # Wanted))

Exit ==
    /\ pc' = "off" /\ made' = 0 /\ tries' = 0 /\ answer' = "none"
    /\ consuming' = FALSE /\ queue' = <<>> /\ wire' = <<>> /\ link' = FALSE
    /\ Leave
    /\ UNCHANGED <<prog, server, bounds>>

ProgramCrash ==
    /\ pc # "off" /\ faults < MaxFaults
    /\ faults' = faults + 1
    /\ pc' = "off" /\ made' = 0 /\ tries' = 0 /\ answer' = "none"
    /\ consuming' = FALSE /\ queue' = <<>> /\ wire' = <<>> /\ link' = FALSE
    /\ Leave
    /\ UNCHANGED <<prog, server, runs>>

-----------------------------------------------------------------------------
(* The server and the network.                                             *)

\* Events go to the queue, or to the callbacks, that are there.
Pass(event) == queue' = IF consuming THEN Append(queue, event) ELSE queue

Present == session /\ prog.keeps

\* The connection is made; a session that is not kept begins anew.
ServerConnect ==
    /\ wire # <<>> /\ Head(wire) = CONNECT
    /\ wire' = Tail(wire)
    /\ link' = TRUE /\ session' = TRUE
    /\ subs' = IF Present THEN subs ELSE {}
    /\ cut' = (cut /\ Present)
    /\ answer' = IF Present THEN "present" ELSE "new"
    /\ Pass("connected")
    /\ UNCHANGED <<prog, pc, made, tries, consuming, bounds>>

\* The connection cannot be made.  The listener of async_subscribe is told.
ConnectFails ==
    /\ wire # <<>> /\ Head(wire) = CONNECT
    /\ wire' = Tail(wire)
    /\ answer' = "failed"
    /\ IF Callback THEN Pass("failed") ELSE UNCHANGED queue
    /\ UNCHANGED <<prog, pc, made, tries, consuming, link, server, cut, bounds>>

ServerSubscribe ==
    /\ wire # <<>> /\ Head(wire) # CONNECT
    /\ wire' = Tail(wire)
    /\ subs' = subs \union {Head(wire)}
    /\ cut' = (cut /\ subs' # Wanted)
    /\ answer' = "granted"
    /\ UNCHANGED <<prog, pc, made, tries, consuming, queue, link, session, bounds>>

\* What is on its way is lost; the C library may fail its token, or not.
Lost ==
    /\ link /\ faults < MaxFaults
    /\ faults' = faults + 1
    /\ link' = FALSE /\ wire' = <<>>
    /\ answer' \in IF wire = <<>> THEN {answer} ELSE {answer, "failed"}
    /\ Pass("lost")
    /\ Leave
    /\ UNCHANGED <<prog, pc, made, tries, consuming, server, runs>>

\* The client reconnects by itself, once it has been connected; the program is not
\* told whether the server had its session.
AutoReconnect ==
    /\ prog.auto /\ ~link /\ pc # "off"
    /\ pc \in {"start_consuming", "connect", "connecting"} => answer \in {"new", "present"}
    /\ link' = TRUE
    /\ subs' = IF prog.keeps THEN subs ELSE {}
    /\ Pass("connected")
    /\ UNCHANGED <<prog, pc, made, tries, answer, consuming, wire, session, cut, bounds>>

\* A message, kept for the session or new, comes as soon as there is a connection.
Message ==
    /\ link /\ subs # {} /\ Len(queue) < MaxQueue
    /\ Pass("message")
    /\ UNCHANGED <<prog, pc, made, tries, answer, consuming, link, wire, server, cut, bounds>>

-----------------------------------------------------------------------------
(* The programs.                                                           *)

\* Mutant: the consumer is started when connect() was called.
Opening_Swapped ==
    IF Callback THEN <<"start_consuming", "connect">> ELSE <<"connect", "start_consuming">>

\* main() begins with these two.
Opening == <<"start_consuming", "connect">>

After(statement) ==
    IF statement = Opening[1] THEN Opening[2]
    ELSE IF Callback THEN "consume" ELSE "connecting"

Start ==
    /\ pc = "off" /\ runs < MaxRuns
    /\ runs' = runs + 1
    /\ pc' = Opening[1]
    /\ UNCHANGED <<prog, made, tries, answer, consuming, queue, link, wire, server, cut, faults>>

\* The consumer is started, or the callback installed.
start_consuming ==
    /\ pc = "start_consuming"
    /\ consuming' = TRUE /\ pc' = After(pc)
    /\ UNCHANGED <<prog, made, tries, answer, queue, link, wire, server, cut, bounds>>

\* The request is sent, or refused, which throws.
connect ==
    /\ pc = "connect"
    /\ \/ Exit
       \/ /\ wire' = <<CONNECT>> /\ pc' = After(pc)
          /\ UNCHANGED <<prog, made, tries, answer, consuming, queue, link, server, cut, bounds>>

\* The connect response: throws, or tells whether there was a session.
Connected ==
    /\ pc = "connecting" /\ answer # "none"
    /\ \/ answer = "failed" /\ Exit
       \/ /\ answer # "failed"
          /\ pc' = IF prog.skips /\ answer = "present" THEN "consume" ELSE "subscribe"
          /\ UNCHANGED <<prog, made, tries, answer, consuming, queue, link, wire, server, cut,
                         bounds>>

\* A subscription is refused without a connection.
Subscribe ==
    /\ pc = "subscribe"
    /\ \/ ~link /\ Exit
       \/ /\ link
          /\ wire' = Append(wire, made + 1)
          /\ made' = made + 1
          /\ answer' = "none"
          /\ pc' = IF prog.waits THEN "subscribing" ELSE "consume"
          /\ UNCHANGED <<prog, tries, consuming, queue, link, server, cut, bounds>>

Subscribed ==
    /\ pc = "subscribing"
    /\ \/ answer = "failed" /\ Exit
       \/ /\ answer = "granted"
          /\ pc' = IF made = prog.requests THEN "consume" ELSE "subscribe"
          /\ UNCHANGED <<prog, made, tries, answer, consuming, queue, link, wire, server, cut,
                         bounds>>

\* The blocking client's time-out.
TimesOut == pc \in {"connecting", "subscribing"} /\ prog.timed /\ answer = "none" /\ Exit

Take == queue' = Tail(queue) /\ UNCHANGED <<prog, consuming, server, cut, bounds>>

\* A message is handled; the event that the client is connected is passed over.
Consume ==
    /\ pc = "consume" /\ queue # <<>>
    /\ \/ Head(queue) = "message" /\ prog.quits # "timed"
       \/ Head(queue) = "connected" /\ ~Callback
    /\ Take /\ UNCHANGED <<pc, made, tries, answer, link, wire>>

\* A message ends the program (an exit command, a request whose reply cannot be
\* published), or its user or another thread does.
Quit ==
    /\ pc = "consume"
    /\ \/ prog.quits = "any"
       \/ prog.quits = "message" /\ queue # <<>> /\ Head(queue) = "message"
    /\ Exit

\* Another thread takes the callbacks off and closes the queue.
stop_consuming ==
    /\ pc = "consume" /\ prog.stops # "no"
    /\ consuming' = FALSE /\ pc' = "stopping"
    /\ UNCHANGED <<prog, made, tries, answer, queue, link, wire, server, cut, bounds>>

\* What is left in the queue is taken; then consume_message() tells that the consumer is
\* closed and the program disconnects, or consume_event() gives a shutdown event, which
\* is passed over.
Drain ==
    /\ pc = "stopping"
    /\ \/ /\ queue # <<>> /\ Head(queue) # "lost"
          /\ Take /\ UNCHANGED <<pc, made, tries, answer, link, wire>>
       \/ /\ queue # <<>>
          /\ Head(queue) = "lost" \/ (Head(queue) = "message" /\ prog.quits = "message")
          /\ Exit
       \/ queue = <<>> /\ prog.stops = "ends" /\ Exit

\* The reply has come, or its time is over, or the request cannot be published.
GiveUp == pc = "consume" /\ prog.quits = "timed" /\ Exit

\* The connection was lost, says the queue; it may be back.
ConsumeLost ==
    /\ pc = "consume" /\ queue # <<>> /\ Head(queue) = "lost"
    /\ \/ prog.onLost = "exit" /\ Exit
       \/ prog.onLost = "reconnect" /\ link /\ Exit
       \/ /\ prog.onLost \in {"ignore", "poll", "reconnect"}
          /\ pc' = IF link THEN pc
                   ELSE CASE prog.onLost = "ignore" -> pc
                          [] prog.onLost = "poll" -> "poll"
                          [] prog.onLost = "reconnect" -> "retry"
          /\ prog.onLost = "reconnect" => ~link
          /\ tries' = 0
          /\ Take /\ UNCHANGED <<made, answer, link, wire>>

Poll ==
    /\ pc = "poll" /\ link
    /\ pc' = "consume"
    /\ UNCHANGED <<prog, made, tries, answer, consuming, queue, link, wire, server, cut,
                   bounds>>

\* try_reconnect() makes an attempt, or gives up: after Attempts of them, or when
\* the connection has come about between two.
TryReconnect ==
    /\ pc = "retry"
    /\ \/ (link \/ tries = Attempts) /\ Exit
       \/ /\ ~link /\ tries < Attempts
          /\ answer' = "none"
          /\ wire' = <<CONNECT>>
          /\ pc' = "reconnecting"
          /\ UNCHANGED <<prog, made, tries, consuming, queue, link, server, cut, bounds>>

\* Mutant: the subscription is not made again.
Reconnected_Only ==
    /\ pc = "reconnecting" /\ answer \in {"new", "present"}
    /\ pc' = "consume" /\ made' = 0
    /\ UNCHANGED <<prog, tries, answer, consuming, queue, link, wire, server, cut, bounds>>

Reconnected ==
    /\ pc = "reconnecting" /\ answer \in {"new", "present"}
    /\ pc' = "subscribe" /\ made' = 0
    /\ UNCHANGED <<prog, tries, answer, consuming, queue, link, wire, server, cut, bounds>>

\* The attempt failed or timed out; the server may still answer it.
ReconnectFails ==
    /\ pc = "reconnecting" /\ answer \in {"failed", "none"}
    /\ pc' = "retry" /\ tries' = tries + 1
    /\ UNCHANGED <<prog, made, answer, consuming, queue, link, wire, server, cut, bounds>>

-----------------------------------------------------------------------------
(* async_subscribe: the callbacks, run by the client's thread.             *)

\* subscribe() throws without a connection, and nothing catches it.
connected ==
    /\ Callback /\ pc = "consume" /\ queue # <<>> /\ Head(queue) = "connected"
    /\ \/ ~link /\ Exit
       \/ link /\ wire' = Append(wire, 1) /\ Take /\ UNCHANGED <<pc, made, tries, answer, link>>

\* Mutant: only the counter is reset.
connection_lost_Silent ==
    /\ Callback /\ pc = "consume" /\ queue # <<>> /\ Head(queue) = "lost"
    /\ tries' = 0 /\ wire' = wire
    /\ Take /\ UNCHANGED <<pc, made, answer, link>>

\* Resets nretry_ and connects again; exits if the request is refused.
connection_lost ==
    /\ Callback /\ pc = "consume" /\ queue # <<>> /\ Head(queue) = "lost"
    /\ \/ Exit
       \/ /\ tries' = 0 /\ wire' = <<CONNECT>>
          /\ Take /\ UNCHANGED <<pc, made, answer, link>>

on_failure ==
    /\ Callback /\ pc = "consume" /\ queue # <<>> /\ Head(queue) = "failed"
    /\ \/ Exit
       \/ /\ tries < Attempts
          /\ tries' = tries + 1 /\ wire' = <<CONNECT>>
          /\ Take /\ UNCHANGED <<pc, made, answer, link>>

-----------------------------------------------------------------------------
Handlers == connected \/ connection_lost \/ on_failure

Program ==
    \/ start_consuming \/ connect \/ Connected \/ Subscribe \/ Subscribed \/ TimesOut
    \/ Consume \/ Drain \/ GiveUp \/ ConsumeLost \/ Poll
    \/ TryReconnect \/ Reconnected \/ ReconnectFails
    \/ Handlers

Requests == ServerConnect \/ ConnectFails \/ ServerSubscribe

SubscriberNext ==
    \/ Start \/ Program \/ Quit \/ stop_consuming \/ Requests
    \/ Lost \/ AutoReconnect \/ Message \/ ProgramCrash

\* The program goes on while it can, a request is answered, and a client that
\* reconnects by itself does so in the end.
Fairness == WF_subscriberVars(Program) /\ WF_subscriberVars(Requests) /\ WF_subscriberVars(AutoReconnect)

SubscriberSpec == SubscriberInit /\ [][SubscriberNext]_subscriberVars /\ Fairness

-----------------------------------------------------------------------------
(* Properties.                                                             *)

\* Nothing is left to do but to wait for messages.
Listening == pc = "consume" /\ consuming /\ link /\ wire = <<>>
                /\ \A i \in DOMAIN queue : queue[i] \notin {"lost", "connected"}

\* A program that waits for messages on a connection has its subscriptions, however
\* often the connection was lost or the program started anew: either it asks for
\* them in every connection, or "there is a session, then the server remembers us
\* and our subscriptions".  The one exception, for the latter: a session that the
\* client lost, or that an earlier run left, between connect and subscribe.
NeverDeaf == Listening /\ (prog.skips => ~cut) => subs = Wanted

\* "Start consumer before connecting to make sure to not miss any messages": whenever
\* the server can send a message, those it has kept for the session included, there is
\* a queue or a callback that takes it, until the program stops the consumer.
NothingMissed == link /\ subs # {} /\ pc # "stopping" => consuming

\* The two ways in which a program waits for ever without a connection: for the answer to
\* a subscription that was lost with the connection, if it waits without a limit; and for
\* the end of a consumer that it has stopped itself.
Stuck ==
    \/ pc = "subscribing" /\ ~prog.timed /\ answer = "none" /\ wire = <<>>
    \/ pc = "stopping" /\ prog.stops = "spins" /\ queue = <<>>

\* A program that has no connection, or has lost it, wherever it is, is connected and
\* waits for messages in the end, or it ends: no retry goes on for ever, and nobody waits
\* for a connection that no one makes.  The exception is Stuck.
Recovers == pc # "off" /\ ~link ~> Listening \/ pc = "off" \/ Stuck

\* "This just exits if the consumer is closed or the client is disconnected."  (Not so
\* for async_consume_v5, whose loop passes over the shutdown events.)
StopEnds == pc = "stopping" ~> pc = "off"

=============================================================================
