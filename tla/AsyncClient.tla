---------------------------- MODULE AsyncClient ----------------------------
(***************************************************************************)
(* The token bookkeeping of mqtt::async_client (src/async_client.cpp): the *)
(* calls that start an action, the two lists of tokens in play, the        *)
(* connect token, and the callback thread that completes tokens and calls  *)
(* the application back.                                                   *)
(*                                                                         *)
(* A thread is a stack of calls, since the application may call the client *)
(* again from a listener, from delivery_complete() or from connected().    *)
(* lock_ is a mutex that is not recursive.  The C library is external: it  *)
(* keeps the address of a token as the context of a request, answers every *)
(* request it accepted, and protects itself with a recursive mutex that it *)
(* may or may not hold during a callback.                                  *)
(*                                                                         *)
(* Of a token only what it tracks is modelled here; the rest is in the     *)
(* module Token.                                                           *)
(***************************************************************************)
EXTENDS Naturals, Sequences

CONSTANTS
    Apps,           \* the application's threads
    Connectors,     \* those of them that call connect() and reconnect()
    Cb,             \* the C library's thread
    Tokens,         \* the tokens that can be created
    Null,           \* nullptr, and "nobody" for a mutex
    MaxReconnects,  \* bound on the calls of reconnect()
    MaxDepth        \* bound on the depth of a thread's stack

Threads == Apps \union {Cb}

ASSUME ThreadsAssumption == Connectors \subseteq Apps /\ Cb \notin Apps
ASSUME NullAssumption == Null \notin Tokens \union Threads
ASSUME BoundsAssumption == MaxReconnects \in Nat /\ MaxDepth \in Nat \ {0}

VARIABLES
    lock,                   \* who holds lock_
    clib,                   \* who holds the C library's mutex
    pendingTokens,          \* pendingTokens_: how often each token is in it
    pendingDeliveryTokens,  \* pendingDeliveryTokens_
    connTok,                \* connTok_
    userCallback,           \* whether userCallback_ is set
    kind,                   \* what each token tracks, "none" before it is created
    stack,                  \* the calls each thread is in, innermost first
    requests,               \* C library: the tokens it has the address of
    installed,              \* C library: whether on_connected is installed
    connects,               \* C library: calls of on_connected to come
    reconnects,             \* how often reconnect() has been called
    delivered               \* history: how often delivery_complete(t) was called

lists == <<pendingTokens, pendingDeliveryTokens>>
library == <<requests, installed, connects>>
vars == <<lock, clib, lists, connTok, userCallback, kind, stack, library,
          reconnects, delivered>>

\* "publish0" is a message with QoS 0; "request" stands for subscribe,
\* unsubscribe and disconnect, which treat their tokens alike.
Actions == {"connect", "publish0", "publish1", "request"}
Publications == {"publish0", "publish1"}
Calls == Actions \union {"reconnect", "set_callback", "on_success", "on_failure", "connected"}

\* The places where a thread runs code of the application.
UserCode == {"listener", "delivery", "event"}
Places == UserCode \union {"add", "send", "sent", "remove", "unlock", "deliver",
                           "removed", "set", "install", "unset"}

Frames == [call : Calls, at : Places, tok : Tokens \union {Null}]

Init ==
    /\ lock = Null
    /\ clib = Null
    /\ pendingTokens = [t \in Tokens |-> 0]
    /\ pendingDeliveryTokens = {}
    /\ connTok = Null
    /\ userCallback = FALSE
    /\ kind = [t \in Tokens |-> "none"]
    /\ stack = [th \in Threads |-> <<>>]
    /\ requests = {}
    /\ installed = FALSE
    /\ connects = 0
    /\ reconnects = 0
    /\ delivered = [t \in Tokens |-> 0]

-----------------------------------------------------------------------------
(* The stack of a thread.                                                  *)

At(th, place) == stack[th] # <<>> /\ Head(stack[th]).at = place
Top(th) == Head(stack[th])

Push(th, frame) == stack' = [stack EXCEPT ![th] = <<frame>> \o @]
Goto(th, place) ==
    stack' = [stack EXCEPT ![th] = <<[Head(@) EXCEPT !.at = place]>> \o Tail(@)]

\* The innermost call returns or throws.  When it is a callback of the C
\* library, the library leaves its critical section.
Return(th) ==
    /\ stack' = [stack EXCEPT ![th] = Tail(@)]
    /\ clib' = IF th = Cb /\ Len(stack[th]) = 1 THEN Null ELSE clib

\* A thread can begin a call when it is in none, or from the application's code.
MayCall(th) ==
    IF stack[th] = <<>> THEN th \in Apps
    ELSE Top(th).at \in UserCode /\ Len(stack[th]) < MaxDepth

MayEnterLibrary(th) == clib \in {Null, th}

\* The token a call works on: connect() keeps it in no variable but connTok_.
TokOf(f) == IF f.call = "connect" THEN connTok ELSE f.tok

-----------------------------------------------------------------------------
(* publish, subscribe, unsubscribe, disconnect, connect, reconnect.        *)

\* An overload that forgets add_token().
Begin_NotAdded(th, k, t) ==
    /\ MayCall(th) /\ kind[t] = "none"
    /\ kind' = [kind EXCEPT ![t] = k]
    /\ connTok' = IF k = "connect" THEN t ELSE connTok
    /\ Push(th, [call |-> k, at |-> "send", tok |-> t])
    /\ UNCHANGED <<lock, clib, lists, userCallback, library,
                   reconnects, delivered>>

\* The call creates its token; connect() stores it in connTok_.
Begin(th, k, t) ==
    /\ MayCall(th) /\ kind[t] = "none"
    /\ kind' = [kind EXCEPT ![t] = k]
    /\ connTok' = IF k = "connect" THEN t ELSE connTok
    /\ Push(th, [call |-> k, at |-> "add", tok |-> t])
    /\ UNCHANGED <<lock, clib, lists, userCallback, library,
                   reconnects, delivered>>

\* The operations.  Subscribe, Unsubscribe and Disconnect treat their tokens alike.
Connect(th, t) == th \in Connectors /\ Begin(th, "connect", t)
Publish(th, k, t) == k \in Publications /\ Begin(th, k, t)
Subscribe(th, t) == Begin(th, "request", t)
Unsubscribe(th, t) == Begin(th, "request", t)
Disconnect(th, t) == Begin(th, "request", t)

\* reconnect() resets the token of the last connect(); without one it throws.
Reconnect(th) ==
    /\ MayCall(th) /\ th \in Connectors /\ reconnects < MaxReconnects
    /\ connTok # Null
    /\ reconnects' = reconnects + 1
    /\ Push(th, [call |-> "reconnect", at |-> "add", tok |-> connTok])
    /\ UNCHANGED <<lock, clib, lists, connTok, userCallback, kind, library,
                   delivered>>

AddToken(th) ==
    /\ At(th, "add") /\ (lock = Null \/ TokOf(Top(th)) = Null)
    /\ LET t == TokOf(Top(th)) IN
       IF t # Null /\ kind[t] \in Publications
       THEN /\ pendingDeliveryTokens' = pendingDeliveryTokens \union {t}
            /\ UNCHANGED pendingTokens
       ELSE /\ pendingTokens' = [u \in Tokens |-> IF u = t THEN pendingTokens[u] + 1
                                                 ELSE pendingTokens[u]]
            /\ UNCHANGED pendingDeliveryTokens
    /\ Goto(th, "send")
    /\ UNCHANGED <<lock, clib, connTok, userCallback, kind, library, reconnects, delivered>>

\* The C library accepts the request ...
SendAccepted(th) ==
    /\ At(th, "send") /\ MayEnterLibrary(th)
    /\ IF Top(th).call = "reconnect"
       THEN /\ installed' = TRUE
            /\ connects' \in {connects, connects + 1}
            /\ UNCHANGED requests
       ELSE /\ requests' = requests \union ({TokOf(Top(th))} \ {Null})
            /\ UNCHANGED <<installed, connects>>
    /\ Goto(th, "sent")
    /\ UNCHANGED <<lock, clib, lists, connTok, userCallback, kind, reconnects, delivered>>

\* A call that throws without removing its token.
SendRefused_Throws(th) ==
    /\ At(th, "send") /\ MayEnterLibrary(th)
    /\ Goto(th, "removed")
    /\ installed' \in {installed, installed \/ Top(th).call = "reconnect"}
    /\ UNCHANGED <<lock, clib, lists, connTok, userCallback, kind, requests, connects,
                   reconnects, delivered>>

\* ... or refuses it (reconnect() has then perhaps installed on_connected).
SendRefused(th) ==
    /\ At(th, "send") /\ MayEnterLibrary(th)
    /\ Goto(th, "remove")
    /\ installed' \in {installed, installed \/ Top(th).call = "reconnect"}
    /\ UNCHANGED <<lock, clib, lists, connTok, userCallback, kind, requests, connects,
                   reconnects, delivered>>

\* The call returns its token.
Sent(th) ==
    /\ At(th, "sent")
    /\ Return(th)
    /\ UNCHANGED <<lock, lists, connTok, userCallback, kind, library, reconnects,
                   delivered>>

-----------------------------------------------------------------------------
(* remove_token, from a completion handler or from a call that was refused. *)

\* Variants: it erases what it has not found; it tests for a QoS above 1; it
\* leaves the token in the list.
RemoveToken_Unchecked(th) ==
    /\ At(th, "remove") /\ TokOf(Top(th)) # Null /\ lock = Null
    /\ lock' = th
    /\ LET t == TokOf(Top(th)) IN
       /\ pendingDeliveryTokens' = pendingDeliveryTokens \ {t}
       /\ pendingTokens' = [u \in Tokens |-> IF u = t /\ t \notin pendingDeliveryTokens
                                             THEN pendingTokens[u] - 1
                                             ELSE pendingTokens[u]]
       /\ Goto(th, IF t \in pendingDeliveryTokens /\ userCallback /\ kind[t] = "publish1"
                   THEN "deliver" ELSE "unlock")
    /\ UNCHANGED <<clib, connTok, userCallback, kind, library, reconnects, delivered>>

RemoveToken_QosAboveOne(th) ==
    /\ At(th, "remove") /\ TokOf(Top(th)) # Null /\ lock = Null
    /\ lock' = th
    /\ pendingDeliveryTokens' = pendingDeliveryTokens \ {TokOf(Top(th))}
    /\ pendingTokens' = [u \in Tokens |-> IF u = TokOf(Top(th)) /\ pendingTokens[u] > 0
                                          THEN pendingTokens[u] - 1
                                          ELSE pendingTokens[u]]
    /\ Goto(th, "unlock")
    /\ UNCHANGED <<clib, connTok, userCallback, kind, library, reconnects, delivered>>

RemoveToken_NotErased(th) ==
    /\ At(th, "remove") /\ TokOf(Top(th)) # Null /\ lock = Null
    /\ lock' = th
    /\ LET t == TokOf(Top(th)) IN
       /\ pendingTokens' = [u \in Tokens |-> IF u = t /\ pendingTokens[u] > 0
                                             THEN pendingTokens[u] - 1
                                             ELSE pendingTokens[u]]
       /\ Goto(th, IF t \in pendingDeliveryTokens /\ userCallback /\ kind[t] = "publish1"
                   THEN "deliver" ELSE "unlock")
    /\ UNCHANGED <<clib, pendingDeliveryTokens, connTok, userCallback, kind, library,
                   reconnects, delivered>>

\* Under lock_: a delivery token is erased and, if its message has a QoS above 0
\* and a callback is registered, reported; another token is erased once.
RemoveToken(th) ==
    /\ At(th, "remove") /\ TokOf(Top(th)) # Null /\ lock = Null
    /\ lock' = th
    /\ LET t == TokOf(Top(th)) IN
       /\ pendingDeliveryTokens' = pendingDeliveryTokens \ {t}
       /\ pendingTokens' = [u \in Tokens |-> IF u = t /\ pendingTokens[u] > 0
                                             THEN pendingTokens[u] - 1
                                             ELSE pendingTokens[u]]
       /\ Goto(th, IF t \in pendingDeliveryTokens /\ userCallback /\ kind[t] = "publish1"
                   THEN "deliver" ELSE "unlock")
    /\ UNCHANGED <<clib, connTok, userCallback, kind, library, reconnects, delivered>>

\* With a null pointer it returns at once.
RemoveNothing(th) ==
    /\ At(th, "remove") /\ TokOf(Top(th)) = Null
    /\ Goto(th, "removed")
    /\ UNCHANGED <<lock, clib, lists, connTok, userCallback, kind, library, reconnects,
                   delivered>>

Unlock(th) ==
    /\ At(th, "unlock")
    /\ lock' = Null
    /\ Goto(th, "removed")
    /\ UNCHANGED <<clib, lists, connTok, userCallback, kind, library, reconnects, delivered>>

\* It calls delivery_complete() and keeps lock_.
Deliver_Locked(th) ==
    /\ At(th, "deliver")
    /\ delivered' = [delivered EXCEPT ![TokOf(Top(th))] = @ + 1]
    /\ Goto(th, "delivery")
    /\ UNCHANGED <<lock, clib, lists, connTok, userCallback, kind, library, reconnects>>

\* g.unlock(), then delivery_complete() of the application.
Deliver(th) ==
    /\ At(th, "deliver")
    /\ lock' = Null
    /\ delivered' = [delivered EXCEPT ![TokOf(Top(th))] = @ + 1]
    /\ Goto(th, "delivery")
    /\ UNCHANGED <<clib, lists, connTok, userCallback, kind, library, reconnects>>

\* After remove_token: a handler is done, on_connected() goes on to the
\* application's handlers, a refused call throws, and connect() first resets connTok_.
Removed(th) ==
    /\ At(th, "removed")
    /\ IF Top(th).call = "connected"
       THEN Goto(th, "event") /\ UNCHANGED <<clib, connTok>>
       ELSE /\ connTok' = IF Top(th).call = "connect" THEN Null ELSE connTok
            /\ Return(th)
    /\ UNCHANGED <<lock, lists, userCallback, kind, library, reconnects, delivered>>

\* The application's code returns.
UserReturns(th) ==
    /\ stack[th] # <<>> /\ Top(th).at \in UserCode
    /\ \/ Top(th).at = "listener" /\ Goto(th, "remove") /\ UNCHANGED clib
       \/ Top(th).at = "delivery" /\ Goto(th, "removed") /\ UNCHANGED clib
       \/ Top(th).at = "event" /\ Return(th)
    /\ UNCHANGED <<lock, lists, connTok, userCallback, kind, library, reconnects, delivered>>

-----------------------------------------------------------------------------
(* set_callback.                                                           *)

SetCallback(th) ==
    /\ MayCall(th)
    /\ Push(th, [call |-> "set_callback", at |-> "set", tok |-> Null])
    /\ UNCHANGED <<lock, clib, lists, connTok, userCallback, kind, library, reconnects,
                   delivered>>

\* It keeps lock_ while it calls the C library (issue 519).
StoreCallback_Locked(th) ==
    /\ At(th, "set") /\ lock = Null
    /\ lock' = th
    /\ userCallback' = TRUE
    /\ Goto(th, "install")
    /\ UNCHANGED <<clib, lists, connTok, kind, library, reconnects, delivered>>

StoreCallback(th) ==
    /\ At(th, "set") /\ lock = Null
    /\ userCallback' = TRUE
    /\ Goto(th, "install")
    /\ UNCHANGED <<lock, clib, lists, connTok, kind, library, reconnects, delivered>>

\* MQTTAsync_setConnected and MQTTAsync_setCallbacks.
InstallCallbacks(th) ==
    /\ At(th, "install") /\ MayEnterLibrary(th)
    /\ \/ installed' = TRUE /\ Return(th)
       \/ installed' = FALSE /\ Goto(th, "unset") /\ UNCHANGED clib
    /\ UNCHANGED <<lock, lists, connTok, userCallback, kind, requests, connects, reconnects,
                   delivered>>

UnsetCallback(th) ==
    /\ At(th, "unset") /\ lock = Null
    /\ userCallback' = FALSE
    /\ Return(th)
    /\ UNCHANGED <<lock, lists, connTok, kind, library, reconnects, delivered>>

-----------------------------------------------------------------------------
(* The callback thread.                                                    *)

\* The C library calls on_success or on_failure of a token, whose handler
\* completes it and calls its listener.  A connection is then announced to
\* on_connected too.
Report(t, ok) ==
    /\ stack[Cb] = <<>> /\ clib = Null
    /\ t \in requests
    /\ requests' = requests \ {t}
    /\ connects' = IF ok /\ kind[t] = "connect" /\ installed THEN connects + 1 ELSE connects
    /\ clib' \in {Null, Cb}
    /\ Push(Cb, [call |-> IF ok THEN "on_success" ELSE "on_failure", at |-> "listener", tok |-> t])
    /\ UNCHANGED <<lock, lists, connTok, userCallback, kind, installed, reconnects, delivered>>

\* on_connected: it completes the connect token, if there is one.
OnConnected ==
    /\ stack[Cb] = <<>> /\ clib = Null
    /\ connects > 0 /\ installed
    /\ connects' = connects - 1
    /\ clib' \in {Null, Cb}
    /\ Push(Cb, [call |-> "connected", at |-> IF connTok = Null THEN "event" ELSE "listener",
                 tok |-> connTok])
    /\ UNCHANGED <<lock, lists, connTok, userCallback, kind, requests, installed,
                   reconnects, delivered>>

-----------------------------------------------------------------------------
Step(th) ==
    \/ AddToken(th) \/ SendAccepted(th) \/ SendRefused(th) \/ Sent(th)
    \/ RemoveToken(th) \/ RemoveNothing(th) \/ Unlock(th) \/ Deliver(th) \/ Removed(th)
    \/ UserReturns(th)
    \/ StoreCallback(th) \/ InstallCallbacks(th) \/ UnsetCallback(th)

Call(th) ==
    \/ \E t \in Tokens : \/ Connect(th, t)
                         \/ \E k \in Publications : Publish(th, k, t)
                         \/ Subscribe(th, t) \/ Unsubscribe(th, t) \/ Disconnect(th, t)
    \/ Reconnect(th) \/ SetCallback(th)

Library == OnConnected \/ \E t \in Tokens, ok \in BOOLEAN : Report(t, ok)

Next == Library \/ \E th \in Threads : Step(th) \/ Call(th)

\* A call that has begun goes on and the C library answers; nobody has to call.
\* Strong fairness for the steps that take a mutex, which others may take first.
\* The application's code in a callback returns in the end, as README.md asks of it.
Fairness ==
    /\ WF_vars(Library)
    /\ \A th \in Threads : SF_vars(Step(th)) /\ SF_vars(UserReturns(th))

Spec == Init /\ [][Next]_vars /\ Fairness

-----------------------------------------------------------------------------
(* Properties.                                                             *)

Pending(t) == t \in pendingDeliveryTokens \/ pendingTokens[t] > 0

\* The calls in progress, as thread and frame.
InProgress(t, places) ==
    \E th \in Threads : \E i \in DOMAIN stack[th] :
        stack[th][i].tok = t /\ stack[th][i].at \in places

\* Types; only delivery tokens are in the list of delivery tokens.
TypeOK ==
    /\ lock \in Threads \union {Null}
    /\ clib \in {Null, Cb}
    /\ pendingTokens \in [Tokens -> Nat]
    /\ pendingDeliveryTokens \subseteq {t \in Tokens : kind[t] \in Publications}
    /\ connTok \in Tokens \union {Null}
    /\ userCallback \in BOOLEAN
    /\ kind \in [Tokens -> Actions \union {"none"}]
    /\ stack \in [Threads -> Seq(Frames)]
    /\ requests \subseteq Tokens
    /\ installed \in BOOLEAN
    /\ connects \in Nat
    /\ reconnects \in Nat
    /\ delivered \in [Tokens -> Nat]

\* The threads a thread is waiting for: the holder of lock_, which may be itself,
\* or the holder of the C library's mutex.
WaitsFor(th) ==
    IF stack[th] = <<>> THEN {}
    ELSE CASE Top(th).at \in {"add", "remove", "set", "unset"} -> {lock} \ {Null}
           [] Top(th).at \in {"send", "install"} -> {clib} \ {Null, th}
           [] OTHER -> {}

\* Threads never wait for each other in a circle, and none for itself: the client
\* enters the C library and the application's code without lock_.
NoWaitCycle ==
    \A circle \in (SUBSET {th \in Threads : WaitsFor(th) # {}}) \ {{}} :
        \E th \in circle : WaitsFor(th) \intersect circle = {}

\* The C library has only the address of a token: as long as it may use it, and as
\* long as a handler runs on it, the client keeps the token in one of its lists,
\* whatever the application does with its own reference.  (The connect token is
\* also kept by connTok_.)
InFlightIsPending ==
    \A t \in Tokens :
        kind[t] # "connect" /\ (t \in requests \/ InProgress(t, {"listener", "remove"}))
            => Pending(t)

\* The lists hold tokens that are in play: one that is not a connect token leaves
\* its list when its request has been answered or refused, on every path.
PendingIsInPlay ==
    \A t \in Tokens :
        Pending(t) /\ kind[t] # "connect"
            => t \in requests \/ InProgress(t, {"send", "listener", "remove"})

\* delivery_complete(t) is called at most once, for a message with a QoS above 0,
\* when t is in no list and the C library is done with it.
DeliveryCompleteLast ==
    \A t \in Tokens :
        delivered[t] > 0 => /\ delivered[t] = 1 /\ kind[t] = "publish1"
                            /\ ~Pending(t) /\ t \notin requests

\* connect() returns the token of the connection it has asked for.
ConnectReturnsItsToken ==
    \A th \in Threads : At(th, "sent") /\ Top(th).call = "connect" => connTok = Top(th).tok

\* Every call of the client returns, and so does every callback.
CallsReturn == \A th \in Threads : stack[th] # <<>> ~> stack[th] = <<>>

\* A message with a QoS above 0 whose delivery the C library has reported as successful
\* is reported to the callback, if one stays registered: on_success() finds its token in
\* the list, whatever other threads have added and removed.
DeliveryIsReported ==
    \A t \in Tokens :
        At(Cb, "listener") /\ Top(Cb) = [call |-> "on_success", at |-> "listener", tok |-> t]
            /\ kind[t] = "publish1" /\ userCallback
        ~> delivered[t] = 1 \/ ~userCallback

\* "Called when delivery for a message has been completed, and all acknowledgments have
\* been received", says callback.h of delivery_complete().  (Not so: remove_token() calls
\* it for a publication that was refused or has failed, too.)
DeliveryMeansAcked ==
    \A th \in Threads : At(th, "delivery") => Top(th).call = "on_success"

=============================================================================
