----------------------------- MODULE SyncClient -----------------------------
(***************************************************************************)
(* mqtt::client (src/client.cpp): an async_client whose every operation is *)
(* followed by a wait for its token, for timeout_ at most, and whose       *)
(* application callbacks run on a thread that std::async starts while the  *)
(* thread that has something to report waits for them: the C library's     *)
(* thread, or a thread whose publish() was refused.                        *)
(*                                                                         *)
(* The async_client and its tokens are taken from AsyncClient and Token: a *)
(* call creates its token and hands it to the C library in one step, and a *)
(* wait ends when the token is complete (Token shows that no sleeper is    *)
(* left behind).  What a token was answered with is left out: a call that  *)
(* throws and one that returns end alike.                                  *)
(***************************************************************************)
EXTENDS Naturals

CONSTANTS
    Apps,           \* the application's threads
    Cb,             \* the C library's thread
    Async,          \* the thread std::async starts for the C library's thread
    Workers,        \* the threads it starts for publications that are refused
    Connectors,     \* the threads that call connect() and reconnect()
    UserCalls,      \* the operations the application calls from its callbacks
    Tokens,         \* the tokens that can be created
    Null,           \* nullptr
    MaxEvents       \* bound on reconnects, reports of refusals and unasked events

Threads == Apps \union Workers \union {Async, Cb}

\* "publish_message" is publish(const message&), "publish" the other overloads;
\* "subscribe" stands for unsubscribe, too.
Operations == {"connect", "reconnect", "disconnect", "publish", "publish_message",
               "subscribe"}
Publications == {"publish", "publish_message"}
WithResponse == {"connect", "reconnect", "subscribe"}

ASSUME SyncThreads ==
    {Async, Cb} \intersect (Apps \union Workers) = {} /\ Apps \intersect Workers = {} /\ Async # Cb
ASSUME SyncCallers == Connectors \subseteq Threads /\ UserCalls \subseteq Operations
ASSUME SyncNull == Null \notin Tokens \union Workers
ASSUME SyncBound == MaxEvents \in Nat

VARIABLES
    call,           \* the operation each thread is in, its token and its place
    waits,          \* the worker that each thread's refused publication waits for
    kind,           \* what each token tracks, "none" before it is created
    complete,       \* complete_ of each token
    connTok,        \* connTok_ of the async_client
    userCallback,   \* whether set_callback() has been called
    requests,       \* C library: the tokens it has to answer
    connects,       \* C library: calls of on_connected to come
    events,         \* reconnects, reports of refusals and unasked events so far
    cb,             \* the C library's thread: its place, and the token it answers
    user            \* the callback of the application that each thread runs

library == <<requests, connects, events>>
vars == <<call, waits, kind, complete, connTok, userCallback, library, cb, user>>

Callbacks == {"connected", "connection_lost", "message_arrived", "delivery_complete"}
NoCall == [op |-> "none", tok |-> Null, at |-> "idle"]
Resting == [at |-> "idle", tok |-> Null, then |-> "none"]

\* Types.
TypeOK ==
    /\ call \in [Threads -> [op : Operations \union {"none"}, tok : Tokens \union {Null},
                             at : {"idle", "wait", "response", "report"}]]
    /\ waits \in [Threads -> Workers \union {Null}]
    /\ kind \in [Tokens -> Operations \union {"none"}]
    /\ complete \in [Tokens -> BOOLEAN]
    /\ connTok \in Tokens \union {Null}
    /\ userCallback \in BOOLEAN
    /\ requests \subseteq Tokens
    /\ connects \in Nat /\ events \in Nat
    /\ cb \in [at : {"idle", "remove", "event", "user"}, tok : Tokens \union {Null},
               then : {"none", "connected", "connection_lost"}]
    /\ user \in [Threads -> Callbacks \union {"none"}]

Init ==
    /\ call = [th \in Threads |-> NoCall]
    /\ waits = [th \in Threads |-> Null]
    /\ kind = [t \in Tokens |-> "none"]
    /\ complete = [t \in Tokens |-> FALSE]
    /\ connTok = Null
    /\ userCallback = FALSE
    /\ requests = {} /\ connects = 0 /\ events = 0
    /\ cb = Resting
    /\ user = [th \in Threads |-> "none"]

-----------------------------------------------------------------------------
(* The operations.                                                         *)

\* A thread of the application, or one that runs a callback of it.
MayCall(th, op) ==
    /\ call[th].at = "idle"
    /\ th \in Apps \/ (user[th] # "none" /\ op \in UserCalls)
    /\ op \in {"connect", "reconnect"} => th \in Connectors

Wait(th, op, t) == call' = [call EXCEPT ![th] = [op |-> op, tok |-> t, at |-> "wait"]]

set_callback(th) ==
    /\ th \in Apps /\ call[th].at = "idle"
    /\ userCallback' = TRUE
    /\ UNCHANGED <<call, waits, kind, complete, connTok, library, cb, user>>

\* A new token: one is as good as another.
Unused == {t \in Tokens : kind[t] = "none"}
NewToken == CHOOSE t \in Tokens : kind[t] = "none"

\* A request that the C library accepts.
Accepted(th, op) ==
    /\ MayCall(th, op) /\ Unused # {}
    /\ kind' = [kind EXCEPT ![NewToken] = op]
    /\ requests' = requests \union {NewToken}
    /\ connTok' = IF op = "connect" THEN NewToken ELSE connTok
    /\ Wait(th, op, NewToken)
    /\ UNCHANGED <<waits, complete, userCallback, connects, events, cb, user>>

\* A new thread of std::async, as good as another.
Free == {w \in Workers : user[w] = "none" /\ \A th \in Threads : waits[th] # w}
NewWorker == CHOOSE w \in Free : TRUE

\* A publication that is refused is reported to delivery_complete() all the same, when
\* its QoS is above 0: remove_token() launches the callback and waits for it, without
\* a limit, on the thread that called publish().
ReportRefused(th, op) ==
    /\ op \in Publications /\ userCallback
    /\ Free # {} /\ events < MaxEvents
    /\ events' = events + 1
    /\ user' = [user EXCEPT ![NewWorker] = "delivery_complete"]
    /\ waits' = [waits EXCEPT ![th] = NewWorker]
    /\ call' = [call EXCEPT ![th] = [op |-> op, tok |-> Null, at |-> "report"]]

\* A request that the C library refuses: connect() forgets the connect token, a
\* publication is perhaps reported, and the call throws.
Refused(th, op) ==
    /\ MayCall(th, op)
    /\ connTok' = IF op = "connect" THEN Null ELSE connTok
    /\ \/ ReportRefused(th, op)
       \/ UNCHANGED <<call, waits, user, events>>
    /\ UNCHANGED <<kind, complete, userCallback, requests, connects, cb>>

Request(th, op) == Accepted(th, op) \/ Refused(th, op)

connect(th) == Request(th, "connect")
disconnect(th) == Request(th, "disconnect")
publish(th) == Request(th, "publish")
publish_message(th) == Request(th, "publish_message")
subscribe(th) == Request(th, "subscribe")

\* reconnect() resets the connect token first.  The C library may refuse, or never
\* come back, or call on_connected.
reconnect(th) ==
    /\ MayCall(th, "reconnect") /\ connTok # Null /\ events < MaxEvents
    /\ events' = events + 1
    /\ complete' = [complete EXCEPT ![connTok] = FALSE]
    /\ \/ UNCHANGED <<call, connects>>
       \/ Wait(th, "reconnect", connTok) /\ connects' \in {connects, connects + 1}
    /\ UNCHANGED <<waits, kind, connTok, userCallback, requests, cb, user>>

\* Mutants: the message overload of publish gets a time-out, or subscribe loses its.
Timed_All == Operations
Timed_NotSubscribe == Operations \ {"publish_message", "subscribe"}

\* wait_for(timeout_) against wait().
Timed == Operations \ {"publish_message"}

AskResponse(th) ==
    call' = [call EXCEPT ![th] = [op |-> call[th].op, tok |-> call[th].tok, at |-> "response"]]

\* The token is complete: the call throws if it was answered with an error, goes on
\* to get its response, or returns.
WaitEnds(th) ==
    /\ call[th].at = "wait" /\ complete[call[th].tok]
    /\ \/ call' = [call EXCEPT ![th] = NoCall]
       \/ call[th].op \in WithResponse /\ AskResponse(th)
    /\ UNCHANGED <<waits, kind, complete, connTok, userCallback, library, cb, user>>

\* timeout_ is over: timeout_error.  The request stays with the C library.
TimesOut(th) ==
    /\ call[th].at = "wait" /\ call[th].op \in Timed /\ ~complete[call[th].tok]
    /\ call' = [call EXCEPT ![th] = NoCall]
    /\ UNCHANGED <<waits, kind, complete, connTok, userCallback, library, cb, user>>

\* get_connect_response() and its like wait for the token again, without a limit.
GetResponse(th) ==
    /\ call[th].at = "response" /\ complete[call[th].tok]
    /\ call' = [call EXCEPT ![th] = NoCall]
    /\ UNCHANGED <<waits, kind, complete, connTok, userCallback, library, cb, user>>

\* delivery_complete() has returned, and the refused publication throws.
ReportEnds(th) ==
    /\ call[th].at = "report" /\ user[waits[th]] = "none"
    /\ call' = [call EXCEPT ![th] = NoCall]
    /\ waits' = [waits EXCEPT ![th] = Null]
    /\ UNCHANGED <<kind, complete, connTok, userCallback, library, cb, user>>

-----------------------------------------------------------------------------
(* The C library's thread.                                                 *)

\* It answers a request: the token is complete, and remove_token() is next.  A
\* connection is announced to on_connected.
Answer(t) ==
    /\ cb.at = "idle" /\ t \in requests
    /\ requests' = requests \ {t}
    /\ complete' = [complete EXCEPT ![t] = TRUE]
    /\ connects' \in IF kind[t] = "connect" THEN {connects, connects + 1} ELSE {connects}
    /\ cb' = [at |-> "remove", tok |-> t, then |-> "none"]
    /\ UNCHANGED <<call, waits, kind, connTok, userCallback, events, user>>

\* on_connected completes the connect token, if there is one.
OnConnected ==
    /\ cb.at = "idle" /\ connects > 0
    /\ connects' = connects - 1
    /\ complete' = IF connTok = Null THEN complete ELSE [complete EXCEPT ![connTok] = TRUE]
    /\ cb' = [at |-> IF connTok = Null THEN "event" ELSE "remove", tok |-> connTok,
              then |-> "connected"]
    /\ UNCHANGED <<call, waits, kind, connTok, userCallback, requests, events, user>>

OnConnectionLost ==
    /\ cb.at = "idle" /\ events < MaxEvents
    /\ events' = events + 1
    /\ cb' = [at |-> "event", tok |-> Null, then |-> "connection_lost"]
    /\ UNCHANGED <<call, waits, kind, complete, connTok, userCallback, requests, connects, user>>

\* message_arrived runs on this thread.
OnMessageArrived ==
    /\ cb.at = "idle" /\ events < MaxEvents /\ userCallback
    /\ events' = events + 1
    /\ cb' = [at |-> "user", tok |-> Null, then |-> "none"]
    /\ user' = [user EXCEPT ![Cb] = "message_arrived"]
    /\ UNCHANGED <<call, waits, kind, complete, connTok, userCallback, requests, connects>>

\* Mutant: the thread is not waited for.
Launch_NoWait(callback) ==
    /\ user[Async] = "none"
    /\ user' = [user EXCEPT ![Async] = callback]
    /\ cb' = Resting

\* std::async(...).wait()
Launch(callback) ==
    /\ user' = [user EXCEPT ![Async] = callback]
    /\ cb' = [at |-> "user", tok |-> cb.tok, then |-> cb.then]

\* remove_token(): a message with a QoS above 0 is reported to the callback.
RemoveToken ==
    /\ cb.at = "remove"
    /\ \/ userCallback /\ kind[cb.tok] \in Publications /\ Launch("delivery_complete")
       \/ /\ cb' = IF cb.then = "none" THEN Resting
                   ELSE [at |-> "event", tok |-> cb.tok, then |-> cb.then]
          /\ UNCHANGED user
    /\ UNCHANGED <<call, waits, kind, complete, connTok, userCallback, library>>

ReportEvent ==
    /\ cb.at = "event"
    /\ IF userCallback THEN Launch(cb.then) ELSE cb' = Resting /\ UNCHANGED user
    /\ UNCHANGED <<call, waits, kind, complete, connTok, userCallback, library>>

\* The application's callback returns; the C library's thread goes on.
UserReturns(th) ==
    /\ user[th] # "none" /\ call[th].at = "idle"
    /\ user' = [user EXCEPT ![th] = "none"]
    /\ UNCHANGED <<call, waits, kind, complete, connTok, userCallback, library, cb>>

UserDone ==
    /\ cb.at = "user" /\ user[Async] = "none" /\ user[Cb] = "none"
    /\ cb' = Resting
    /\ UNCHANGED <<call, waits, kind, complete, connTok, userCallback, library, user>>

-----------------------------------------------------------------------------
Operation(th) ==
    \/ connect(th) \/ disconnect(th) \/ publish(th) \/ publish_message(th) \/ subscribe(th)
    \/ reconnect(th) \/ set_callback(th)

Returns(th) == WaitEnds(th) \/ TimesOut(th) \/ GetResponse(th) \/ ReportEnds(th)

Library ==
    \/ \E t \in Tokens : Answer(t)
    \/ OnConnected \/ RemoveToken \/ ReportEvent \/ UserDone

Unasked == OnConnectionLost \/ OnMessageArrived

Next ==
    \/ Library \/ Unasked
    \/ \E th \in Threads : Operation(th) \/ Returns(th) \/ UserReturns(th)

\* The C library answers what it accepted, a wait sees that its token is complete or
\* its time over, and the application's callbacks return.  Nobody has to call.
Fairness ==
    /\ WF_vars(Library)
    /\ \A th \in Threads : WF_vars(Returns(th))
    /\ \A th \in Threads \ Apps : WF_vars(UserReturns(th))

Spec == Init /\ [][Next]_vars /\ Fairness

-----------------------------------------------------------------------------
(* Properties.                                                             *)

InScope(t) == \E th \in Threads : call[th].tok = t

\* Every operation returns or throws, and the C library's thread gets back from every
\* callback, although a callback that calls an operation keeps this thread from
\* answering it, which README.md warns of: the time-out of the operation ends the
\* circle.  This is for callbacks that call the operations in UserCalls; one that calls
\* publish(const message&), which has no time-out, never returns.
CallsReturn ==
    /\ \A th \in Threads : call[th].at # "idle" ~> call[th].at = "idle"
    /\ cb.at # "idle" ~> cb.at = "idle"

\* Whoever has something to report to the application waits for its callback.  So the
\* C library's thread makes one callback at a time, whatever thread it runs on, and
\* takes up nothing meanwhile; the delivery_complete() of a publication that is refused,
\* which may run beside it, is over before publish() throws.
CallbacksSerial ==
    /\ \A th, tk \in Threads \ Workers :
          user[th] # "none" => cb.at = "user" /\ (user[tk] # "none" => th = tk)
    /\ \A w \in Workers : user[w] # "none" =>
          \E th \in Threads : waits[th] = w /\ call[th].at = "report"

\* publish(const message&) does not time out, "since that could leave the library
\* with a reference to memory that could disappear": as long as the message is to be
\* delivered, the caller is in the call and the message in scope.
LentWhileSending ==
    \A t \in requests : kind[t] = "publish_message" => InScope(t)

\* ... "while the library is still using it": when remove_token() asks the message
\* for its QoS, and when delivery_complete() is given it, it is still in scope.
LentWhileUsed ==
    cb.at \in {"remove", "user"} /\ cb.tok # Null /\ userCallback
        /\ kind[cb.tok] = "publish_message" => InScope(cb.tok)

=============================================================================
