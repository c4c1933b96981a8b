------------------------------- MODULE Token -------------------------------
(***************************************************************************)
(* One mqtt::token (src/token.cpp, include/mqtt/token.h): the future of an *)
(* asynchronous action.  The library's callback thread completes it, the   *)
(* application's threads wait for it, register a listener on it and, when  *)
(* it is the client's connect token, have reconnect() use it again.        *)
(*                                                                         *)
(* The member functions hold the token's lock_ in the sections that are    *)
(* one step here.  The completion handlers release it before they call the *)
(* listener, notify the waiting threads and leave the client's list, and   *)
(* set_action_callback() releases it before it reads rc_ and calls the     *)
(* listener: those are steps of their own.                                 *)
(*                                                                         *)
(* The C library is external: it reports the action once, with onSuccess   *)
(* or onFailure, and for a connection it also calls on_connected (see the  *)
(* comment on async_client::on_connected), which is all that a reconnect   *)
(* gets.                                                                   *)
(***************************************************************************)
EXTENDS Naturals, Sequences

CONSTANTS
    Users,          \* application threads; each has one listener of its own
    NoListener,
    MaxActions      \* bound: connect() and the reconnect()s that follow

ASSUME NoListenerAssumption == NoListener \notin Users
ASSUME MaxActionsAssumption == MaxActions \in Nat \ {0}

VARIABLES
    type,           \* type_: "CONNECT" for the client's connect token, or "OTHER"
    complete,       \* complete_
    rc,             \* rc_: "ok" (MQTTASYNC_SUCCESS) or "err"
    reason,         \* reasonCode_: "ok" or "bad" (0x80 and above)
    rsp,            \* the action whose response connRsp_ etc. hold, 0 for null
    listener,       \* listener_
    registered,     \* the listeners that have been registered so far
    cond,           \* the threads in the wait set of cond_
    pc,             \* what each application thread is doing
    handler,        \* the callback thread: its next statement and its local copies
    due,            \* what the C library has yet to report (external)
    act,            \* the number of the action the token tracks
    reported,       \* history: what the C library has reported
    told,           \* history: what each listener has been told, in order
    got             \* what each thread's last wait returned

outcome == <<complete, rc, reason, rsp>>
vars == <<type, outcome, listener, registered, cond, pc, handler, due, act, reported,
          told, got>>

Reports == {"success", "failure", "refused", "connected"}
Failures == {"failure", "refused"}

Idle == [at |-> "idle", listener |-> NoListener, kind |-> "connected"]

\* What the C library may report of the first action.  "failure" comes with an
\* error code of the library; in MQTT v5 the server can refuse the request with a
\* reason code of 0x80 or above, and then the library's code is MQTTASYNC_SUCCESS
\* ("refused"), which is why check_ret() looks at both.
FirstReports ==
    {<<"success">>, <<"failure">>, <<"refused">>}
        \union (IF type = "CONNECT" THEN {<<"success", "connected">>} ELSE {})

Init ==
    /\ type \in {"CONNECT", "OTHER"}
    /\ complete = FALSE
    /\ rc = "ok"
    /\ reason = "ok"
    /\ rsp = 0
    /\ listener \in {NoListener} \union Users
    /\ registered = {listener} \ {NoListener}
    /\ cond = {}
    /\ pc = [u \in Users |-> "idle"]
    /\ handler = Idle
    /\ due \in FirstReports
    /\ act = 1
    /\ reported = {}
    /\ told = [u \in Users |-> <<>>]
    /\ got = [u \in Users |-> [st |-> "none", rsp |-> 0, act |-> 0]]

-----------------------------------------------------------------------------
(* The callback thread: on_success, on_success5, on_failure, on_failure5.  *)

\* What the call with report k makes of rc_ and reasonCode_.  on_connected()
\* calls on_success() with no response, which leaves reasonCode_ alone.
\* (The names with an underscore are variants for mutation, here and below.)
RcOf_Ignored(k) == "ok"
RcOf(k) == IF k = "failure" THEN "err" ELSE "ok"
ReasonOf(k) == CASE k = "refused" -> "bad"
                 [] k = "connected" -> reason
                 [] OTHER -> "ok"
RspOf(k) == IF k = "success" THEN act ELSE rsp

\* Under lock_: record the outcome and copy listener_.
Complete ==
    /\ handler.at = "idle" /\ due # <<>>
    /\ due' = Tail(due)
    /\ complete' = TRUE
    /\ rc' = RcOf(Head(due))
    /\ reason' = ReasonOf(Head(due))
    /\ rsp' = RspOf(Head(due))
    /\ handler' = [at |-> "listener", listener |-> listener, kind |-> Head(due)]
    /\ reported' = reported \union {Head(due)}
    /\ UNCHANGED <<type, listener, registered, cond, pc, act, told, got>>

\* A handler that reads listener_ again instead of using its copy.
CallListener_Reread ==
    /\ handler.at = "listener"
    /\ told' = [u \in Users |->
                    IF u = listener
                    THEN Append(told[u], IF handler.kind \in Failures THEN "err" ELSE "ok")
                    ELSE told[u]]
    /\ handler' = [handler EXCEPT !.at = "notify"]
    /\ UNCHANGED <<type, outcome, listener, registered, cond, pc, due, act, reported, got>>

\* Without the lock: on_success or on_failure of the listener that was copied.
CallListener ==
    /\ handler.at = "listener"
    /\ told' = [u \in Users |->
                    IF u = handler.listener
                    THEN Append(told[u], IF handler.kind \in Failures THEN "err" ELSE "ok")
                    ELSE told[u]]
    /\ handler' = [handler EXCEPT !.at = "notify"]
    /\ UNCHANGED <<type, outcome, listener, registered, cond, pc, due, act, reported, got>>

\* A handler that calls notify_one().
NotifyAll_One ==
    /\ handler.at = "notify"
    /\ \/ cond = {} /\ cond' = {}
       \/ \E u \in cond : cond' = cond \ {u}
    /\ handler' = Idle
    /\ UNCHANGED <<type, outcome, listener, registered, pc, due, act, reported, told, got>>

\* cond_.notify_all(), then cli_->remove_token(this), which does not touch
\* the token any more.
NotifyAll ==
    /\ handler.at = "notify"
    /\ cond' = {}
    /\ handler' = Idle
    /\ UNCHANGED <<type, outcome, listener, registered, pc, due, act, reported, told, got>>

-----------------------------------------------------------------------------
(* The application's threads.                                              *)

\* What a wait that has lock_ returns: check_ret() and, for the calls that ask
\* for it, the response.
Result ==
    [st  |-> CASE ~complete -> "timeout"
               [] complete /\ (rc = "err" \/ reason = "bad") -> "err"
               [] OTHER -> "ok",
     rsp |-> rsp,
     act |-> act]

Finish(u) ==
    /\ got' = [got EXCEPT ![u] = Result]
    /\ pc' = [pc EXCEPT ![u] = "idle"]
    /\ UNCHANGED <<type, outcome, listener, registered, handler, due, act, reported, told>>

Sleep(u, how) ==
    /\ cond' = cond \union {u}
    /\ pc' = [pc EXCEPT ![u] = how]
    /\ UNCHANGED <<type, outcome, listener, registered, handler, due, act, reported, told, got>>

\* wait() and get_connect_response(), get_subscribe_response(),
\* get_unsubscribe_response(): "wait"; wait_for() and wait_until(): "timed".
Wait(u, how) ==
    /\ pc[u] = "idle"
    /\ IF complete THEN Finish(u) /\ UNCHANGED cond ELSE Sleep(u, how)

TryWait(u) == pc[u] = "idle" /\ Finish(u) /\ UNCHANGED cond

\* Notified or woken spuriously, the thread has lock_ again.
Wake(u) ==
    /\ pc[u] \in {"wait", "timed"} /\ u \notin cond
    /\ IF complete THEN Finish(u) /\ UNCHANGED cond ELSE Sleep(u, pc[u])

SpuriousWakeup(u) ==
    /\ u \in cond
    /\ cond' = cond \ {u}
    /\ UNCHANGED <<type, outcome, listener, registered, pc, handler, due, act, reported, told, got>>

TimeOut_StaysInCond(u) == pc[u] = "timed" /\ Finish(u) /\ UNCHANGED cond

\* The deadline passes; the predicate is evaluated a last time.
TimeOut(u) ==
    /\ pc[u] = "timed"
    /\ cond' = cond \ {u}
    /\ Finish(u)

SetActionCallback_NoCheck(u) ==
    /\ pc[u] = "idle" /\ u \notin registered
    /\ listener' = u
    /\ registered' = registered \union {u}
    /\ UNCHANGED <<type, outcome, cond, pc, handler, due, act, reported, told, got>>

\* set_action_callback(), under lock_.  Each listener is registered once.
SetActionCallback(u) ==
    /\ pc[u] = "idle" /\ u \notin registered
    /\ listener' = u
    /\ registered' = registered \union {u}
    /\ pc' = [pc EXCEPT ![u] = IF complete THEN "tell" ELSE "idle"]
    /\ UNCHANGED <<type, outcome, cond, handler, due, act, reported, told, got>>

\* ... and after it has released the lock: it reads rc_ and calls the listener.
TellListener(u) ==
    /\ pc[u] = "tell"
    /\ told' = [told EXCEPT ![u] = Append(@, rc)]
    /\ pc' = [pc EXCEPT ![u] = "idle"]
    /\ UNCHANGED <<type, outcome, listener, registered, cond, handler, due, act, reported, got>>

\* reset(), from async_client::reconnect().
Reset(u) ==
    /\ type = "CONNECT" /\ act < MaxActions
    /\ pc[u] = "idle"
    /\ complete' = FALSE
    /\ rc' = "ok"
    /\ reason' = "ok"
    /\ act' = act + 1
    /\ pc' = [pc EXCEPT ![u] = "reconnect"]
    /\ UNCHANGED <<type, rsp, listener, registered, cond, handler, due, reported, told, got>>

\* ... which then asks the C library to reconnect.  When it refuses, reconnect()
\* throws and leaves the token as it is.
Reconnect(u) ==
    /\ pc[u] = "reconnect"
    /\ due' \in {due, Append(due, "connected")}
    /\ pc' = [pc EXCEPT ![u] = "idle"]
    /\ UNCHANGED <<type, outcome, listener, registered, cond, handler, act, reported, told, got>>

-----------------------------------------------------------------------------
Handler == Complete \/ CallListener \/ NotifyAll

User(u) ==
    \/ Wait(u, "wait") \/ Wait(u, "timed") \/ TryWait(u)
    \/ Wake(u) \/ SpuriousWakeup(u) \/ TimeOut(u)
    \/ SetActionCallback(u) \/ TellListener(u)
    \/ Reset(u) \/ Reconnect(u)

Next == Handler \/ \E u \in Users : User(u)

\* The library reports what it has to report and its thread runs, woken threads
\* get the processor, time passes, and a call that has begun is not abandoned.
Fairness ==
    /\ WF_vars(Handler)
    /\ \A u \in Users : /\ WF_vars(Wake(u))
                        /\ WF_vars(TimeOut(u))
                        /\ WF_vars(TellListener(u) \/ Reconnect(u))

Spec == Init /\ [][Next]_vars /\ Fairness

-----------------------------------------------------------------------------
(* Properties.                                                             *)

\* Types; only a thread in a wait is in the wait set of cond_.
TypeOK ==
    /\ type \in {"CONNECT", "OTHER"}
    /\ complete \in BOOLEAN
    /\ rc \in {"ok", "err"}
    /\ reason \in {"ok", "bad"}
    /\ rsp \in Nat
    /\ act \in Nat
    /\ listener \in Users \union {NoListener}
    /\ registered \subseteq Users
    /\ pc \in [Users -> {"idle", "wait", "timed", "tell", "reconnect"}]
    /\ handler \in [at : {"idle", "listener", "notify"},
                    listener : Users \union {NoListener}, kind : Reports]
    /\ due \in Seq(Reports)
    /\ reported \subseteq Reports
    /\ told \in [Users -> Seq({"ok", "err"})]
    /\ got \in [Users -> [st : {"none", "timeout", "err", "ok"}, rsp : Nat, act : Nat]]
    /\ cond \subseteq {u \in Users : pc[u] \in {"wait", "timed"}}

\* The handlers notify after they have released lock_, and reset() can undo
\* complete_ in between: still nobody sleeps on a complete token once the
\* callback thread has left it.
NoSleeperLeftBehind == complete /\ handler.at = "idle" => cond = {}

\* set_action_callback() against a completion handler: for an action that the
\* library reports once, a listener is called at most once, whether it was
\* there from the start, came before the completion, during it or after it.
ListenerOnce == type # "CONNECT" => \A u \in Users : Len(told[u]) <= 1

\* ... and the listener that is registered is not missed.
ListenerNotMissed ==
    complete /\ handler.at # "listener" /\ listener # NoListener
        => told[listener] # <<>> \/ pc[listener] = "tell"

\* A listener's on_success() is called for an action that succeeded and its
\* on_failure() for one that failed, by whichever of the two paths.  (Not so after a
\* refusal or a reset(): set_action_callback() reads rc_ alone, and after the unlock.)
ListenerToldTruth ==
    type # "CONNECT" /\ "refused" \notin reported =>
        \A u \in Users : \A i \in DOMAIN told[u] :
            told[u][i] = IF "failure" \in reported THEN "err" ELSE "ok"

\* get_*_response() return the response to the action the token tracks.  (Not so after
\* a reset(), which leaves the response of the earlier connection in place.)
ResponseIsCurrent ==
    \A u \in Users : got[u].st = "ok" => got[u].rsp = got[u].act

\* A thread blocked in wait() returns: the action is reported, and its
\* completion reaches every thread that waits for it.
WaitReturns ==
    \A u \in Users : type # "CONNECT" /\ pc[u] = "wait" ~> pc[u] = "idle"

=============================================================================
