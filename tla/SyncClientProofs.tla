-------------------------- MODULE SyncClientProofs --------------------------
(***************************************************************************)
(* What mqtt::client promises of its callbacks and of the messages that    *)
(* are lent to it, for any number of threads and tokens.                   *)
(*                                                                         *)
(* SyncInv is inductive.  Users says where the application's callbacks     *)
(* run, Toks what the tokens of calls and requests are, and Lent names the *)
(* call that a lent message belongs to.                                    *)
(***************************************************************************)
EXTENDS SyncClient, TLAPS

\* A callback of the application runs while somebody waits for it: on one of two
\* threads at most while the C library's thread does, and on a worker while the thread
\* whose publication was refused does.
Users ==
    /\ \A th \in Threads \ Workers : user[th] # "none" => th \in {Async, Cb} /\ cb.at = "user"
    /\ \A th, tk \in Threads \ Workers : user[th] # "none" /\ user[tk] # "none" => th = tk
    /\ \A w \in Workers : user[w] # "none" => \E th \in Threads : waits[th] = w
    /\ \A th \in Threads : waits[th] # Null => call[th].at = "report"

\* The connect token is one; a token that was not created is neither complete nor
\* sent, and nobody waits for it; only the connect token is complete while it is being
\* answered.
Toks ==
    /\ connTok # Null => kind[connTok] = "connect"
    /\ \A t \in Tokens : kind[t] = "none" => ~complete[t] /\ t \notin requests
    /\ \A t \in requests : complete[t] => kind[t] = "connect"
    /\ \A th \in Threads : call[th].at \in {"wait", "response"} =>
          call[th].tok \in Tokens /\ kind[call[th].tok] # "none"

\* A call without a time-out waits for every message lent to the C library.
Lent ==
    \A t \in requests : kind[t] = "publish_message" =>
        \E th \in Threads : call[th] = [op |-> "publish_message", tok |-> t, at |-> "wait"]

SyncInv == TypeOK /\ Users /\ Toks /\ Lent

-----------------------------------------------------------------------------
\* A request gets a token that no other has (async_client::publish and its like make
\* a new one).
LEMMA NewTokenIsUnused ==
    Unused # {} => NewToken \in Tokens /\ kind[NewToken] = "none"
  BY DEF Unused, NewToken

\* The invariant holds when the client has been constructed.
LEMMA SyncInit == Init => SyncInv
  <1> SUFFICES ASSUME Init PROVE SyncInv
    OBVIOUS
  <1> USE DEF Init
  <1>1. TypeOK
    BY SyncNull DEF TypeOK, NoCall, Resting
  <1>2. Users
    BY DEF Users, Threads
  <1>3. Toks
    BY DEF Toks, NoCall
  <1>4. Lent
    BY DEF Lent
  <1> QED
    BY <1>1, <1>2, <1>3, <1>4 DEF SyncInv

\* What a call leaves as it is: the C library's thread and the callbacks.  A thread that
\* calls, or whose wait for a token ends, waits for no worker.
LEMMA UsersKept ==
    ASSUME Users, UNCHANGED <<waits, cb, user>>,
           NEW th \in Threads, waits[th] = Null,
           \A tk \in Threads \ {th} : call'[tk] = call[tk]
    PROVE  Users'
  BY DEF Users

\* An idle thread, or one that waits for a token, waits for no worker.
LEMMA NoReport ==
    ASSUME SyncInv, NEW th \in Threads, call[th].at # "report"
    PROVE  waits[th] = Null
  BY DEF SyncInv, Users

\* A lent message is in the hands of the thread that waits for its token, so what the
\* others do leaves it in scope.
LEMMA LentKept ==
    ASSUME Lent, UNCHANGED <<kind, requests>>,
           NEW th \in Threads, call[th].at # "wait",
           \A tk \in Threads \ {th} : call'[tk] = call[tk]
    PROVE  Lent'
  <1> SUFFICES ASSUME NEW t \in requests', kind'[t] = "publish_message"
               PROVE  \E tk \in Threads :
                          call'[tk] = [op |-> "publish_message", tok |-> t, at |-> "wait"]
    BY DEF Lent
  <1>1. PICK tk \in Threads : call[tk] = [op |-> "publish_message", tok |-> t, at |-> "wait"]
    BY DEF Lent
  <1>2. tk # th
    BY <1>1
  <1> QED
    BY <1>1, <1>2

\* A request that is accepted: connect, disconnect, publish and subscribe.
LEMMA AcceptedKeeps ==
    ASSUME SyncInv, NEW th \in Threads, NEW op \in Operations \ {"reconnect"}, Accepted(th, op)
    PROVE  SyncInv'
  <1> DEFINE new == NewToken
  <1>1. new \in Tokens /\ kind[new] = "none"
    BY NewTokenIsUnused DEF Accepted
  <1> HIDE DEF new
  <1>2. /\ call' = [call EXCEPT ![th] = [op |-> op, tok |-> new, at |-> "wait"]]
        /\ kind' = [kind EXCEPT ![new] = op]
        /\ requests' = requests \union {new}
        /\ connTok' = IF op = "connect" THEN new ELSE connTok
        /\ UNCHANGED <<waits, complete, userCallback, connects, events, cb, user>>
        /\ call[th].at = "idle"
    BY DEF Accepted, Wait, MayCall, new
  <1>3. TypeOK'
    BY <1>1, <1>2 DEF SyncInv, TypeOK, Operations
  <1>4. Users'
    BY <1>2, UsersKept, NoReport DEF SyncInv, TypeOK
  <1>5. Toks'
    <2> USE <1>1, <1>2 DEF SyncInv, TypeOK, Toks, Operations
    <2>1. connTok' # Null => kind'[connTok'] = "connect"
      OBVIOUS
    <2>2. \A t \in Tokens : kind'[t] = "none" => ~complete'[t] /\ t \notin requests'
      OBVIOUS
    <2>3. \A t \in requests' : complete'[t] => kind'[t] = "connect"
      OBVIOUS
    <2>4. ASSUME NEW tk \in Threads, call'[tk].at \in {"wait", "response"}
          PROVE  call'[tk].tok \in Tokens /\ kind'[call'[tk].tok] # "none"
      <3>1. CASE tk = th
        BY <3>1, <2>4
      <3>2. CASE tk # th
        BY <3>2, <2>4
      <3> QED
        BY <3>1, <3>2
    <2> QED
      BY <2>1, <2>2, <2>3, <2>4
  <1>6. Lent'
    <2> SUFFICES ASSUME NEW t \in requests', kind'[t] = "publish_message"
                 PROVE  \E tk \in Threads :
                            call'[tk] = [op |-> "publish_message", tok |-> t, at |-> "wait"]
      BY DEF Lent
    <2>1. CASE t = new
      BY <2>1, <1>1, <1>2 DEF SyncInv, TypeOK
    <2>2. CASE t # new
      <3>1. PICK tk \in Threads :
                     call[tk] = [op |-> "publish_message", tok |-> t, at |-> "wait"]
        BY <2>2, <1>1, <1>2 DEF SyncInv, TypeOK, Lent
      <3>2. tk # th
        BY <3>1, <1>2
      <3> QED
        BY <3>1, <3>2, <1>2 DEF SyncInv, TypeOK
    <2> QED
      BY <2>1, <2>2
  <1> QED
    BY <1>3, <1>4, <1>5, <1>6 DEF SyncInv

\* A request that is refused, whether a worker reports it or not.
LEMMA RefusedKeeps ==
    ASSUME SyncInv, NEW th \in Threads, NEW op \in Operations, Refused(th, op)
    PROVE  SyncInv'
  <1>1. /\ connTok' \in {Null, connTok} /\ call[th].at = "idle"
        /\ UNCHANGED <<kind, complete, userCallback, requests, connects, cb>>
    BY DEF Refused, MayCall
  <1>2. CASE UNCHANGED <<call, waits, user, events>>
    <2>1. TypeOK' /\ Toks' /\ Lent'
      BY <1>1, <1>2 DEF SyncInv, TypeOK, Toks, Lent
    <2>2. Users'
      BY <1>1, <1>2 DEF SyncInv, Users
    <2> QED
      BY <2>1, <2>2 DEF SyncInv
  <1>3. CASE ReportRefused(th, op)
    <2> DEFINE new == NewWorker
    <2>1. new \in Workers /\ \A tk \in Threads : waits[tk] # new
      BY <1>3 DEF ReportRefused, Free, NewWorker
    <2> HIDE DEF new
    <2>2. /\ user' = [user EXCEPT ![new] = "delivery_complete"]
          /\ waits' = [waits EXCEPT ![th] = new]
          /\ call' = [call EXCEPT ![th] = [op |-> op, tok |-> Null, at |-> "report"]]
          /\ events' = events + 1
      BY <1>3 DEF ReportRefused, new
    <2>3. waits[th] = Null
      BY <1>1, NoReport
    <2>4. TypeOK'
      BY <1>1, <2>1, <2>2 DEF SyncInv, TypeOK, Callbacks, Threads
    <2>5. Users'
      <3> USE <1>1, <2>1, <2>2, <2>3, SyncNull DEF SyncInv, TypeOK, Users
      <3>1. \A tk \in Threads \ Workers : user'[tk] = user[tk]
        OBVIOUS
      <3>2. \A w \in Workers : user'[w] # "none" => \E tk \in Threads : waits'[tk] = w
        OBVIOUS
      <3>3. \A tk \in Threads : waits'[tk] # Null => call'[tk].at = "report"
        OBVIOUS
      <3> QED
        BY <3>1, <3>2, <3>3
    <2>6. Toks'
      BY <1>1, <2>2 DEF SyncInv, TypeOK, Toks
    <2>7. Lent'
      BY <1>1, <2>2, LentKept DEF SyncInv, TypeOK
    <2> QED
      BY <2>4, <2>5, <2>6, <2>7 DEF SyncInv
  <1> QED
    BY <1>2, <1>3 DEF Refused

\* reconnect(): the connect token is reset, which no lent message waits for.
LEMMA ReconnectKeeps ==
    ASSUME SyncInv, NEW th \in Threads, reconnect(th)
    PROVE  SyncInv'
  <1>1. /\ call' = call \/ call' = [call EXCEPT ![th] =
                                       [op |-> "reconnect", tok |-> connTok, at |-> "wait"]]
        /\ connects' \in {connects, connects + 1} /\ events' = events + 1
        /\ complete' = [complete EXCEPT ![connTok] = FALSE]
        /\ UNCHANGED <<waits, kind, connTok, userCallback, requests, cb, user>>
        /\ call[th].at = "idle" /\ connTok # Null
    BY DEF reconnect, Wait, MayCall
  <1>2. TypeOK'
    BY <1>1 DEF SyncInv, TypeOK, Operations
  <1>3. Users'
    BY <1>1, UsersKept, NoReport DEF SyncInv, TypeOK
  <1>4. Toks'
    BY <1>1 DEF SyncInv, TypeOK, Toks
  <1>5. Lent'
    BY <1>1, LentKept DEF SyncInv, TypeOK
  <1> QED
    BY <1>2, <1>3, <1>4, <1>5 DEF SyncInv

\* The end of a wait for a token: a lent message is not let go before it is answered.
LEMMA WaitEndKeeps ==
    ASSUME SyncInv, NEW th \in Threads, WaitEnds(th) \/ TimesOut(th) \/ GetResponse(th)
    PROVE  SyncInv'
  <1>1. /\ call' = [call EXCEPT ![th] = NoCall] \/ AskResponse(th)
        /\ complete[call[th].tok] \/ (call[th].at = "wait" /\ call[th].op # "publish_message")
        /\ call[th].at \in {"wait", "response"}
        /\ UNCHANGED <<waits, kind, complete, connTok, userCallback, library, cb, user>>
    BY DEF WaitEnds, TimesOut, GetResponse, Timed
  <1>2. TypeOK'
    BY <1>1 DEF SyncInv, TypeOK, NoCall, AskResponse, library
  <1>3. Users'
    <2>1. \A tk \in Threads \ {th} : call'[tk] = call[tk]
      BY <1>1 DEF SyncInv, TypeOK, AskResponse
    <2> QED
      BY <1>1, <2>1, UsersKept, NoReport DEF SyncInv
  <1>4. Toks'
    BY <1>1 DEF SyncInv, TypeOK, Toks, NoCall, AskResponse, library
  <1>5. Lent'
    <2> SUFFICES ASSUME NEW t \in requests', kind'[t] = "publish_message"
                 PROVE  \E tk \in Threads :
                            call'[tk] = [op |-> "publish_message", tok |-> t, at |-> "wait"]
      BY DEF Lent
    <2>1. PICK tk \in Threads :
                   call[tk] = [op |-> "publish_message", tok |-> t, at |-> "wait"]
      BY <1>1 DEF SyncInv, Lent, library
    <2>2. ~complete[t]
      BY <1>1 DEF SyncInv, Toks, library
    <2>3. tk # th
      BY <2>1, <2>2, <1>1
    <2> QED
      BY <2>1, <2>3, <1>1 DEF SyncInv, TypeOK, AskResponse
  <1> QED
    BY <1>2, <1>3, <1>4, <1>5 DEF SyncInv

\* The end of the wait for a worker, whose callback has returned.
LEMMA ReportEndKeeps ==
    ASSUME SyncInv, NEW th \in Threads, ReportEnds(th)
    PROVE  SyncInv'
  <1>1. /\ call[th].at = "report" /\ user[waits[th]] = "none"
        /\ call' = [call EXCEPT ![th] = NoCall]
        /\ waits' = [waits EXCEPT ![th] = Null]
        /\ UNCHANGED <<kind, complete, connTok, userCallback, library, cb, user>>
    BY DEF ReportEnds
  <1>2. TypeOK'
    BY <1>1 DEF SyncInv, TypeOK, NoCall, library
  <1>3. Users'
    <2> USE <1>1, SyncNull DEF SyncInv, TypeOK, Users
    <2>1. \A w \in Workers : user'[w] # "none" => \E tk \in Threads : waits'[tk] = w
      OBVIOUS
    <2>2. \A tk \in Threads : waits'[tk] # Null => call'[tk].at = "report"
      OBVIOUS
    <2> QED
      BY <2>1, <2>2
  <1>4. Toks'
    BY <1>1 DEF SyncInv, TypeOK, Toks, NoCall, library
  <1>5. Lent'
    BY <1>1, LentKept DEF SyncInv, TypeOK, library
  <1> QED
    BY <1>2, <1>3, <1>4, <1>5 DEF SyncInv

\* The C library's thread before it calls the application: a token is completed, and
\* taken out of the requests if it was one of them.
LEMMA CompletionKeeps ==
    ASSUME SyncInv, (\E t \in Tokens : Answer(t)) \/ OnConnected
    PROVE  SyncInv'
  <1>1. PICK t \in Tokens \union {Null} :
          /\ complete' = IF t = Null THEN complete ELSE [complete EXCEPT ![t] = TRUE]
          /\ \/ t \in requests /\ requests' = requests \ {t}
             \/ t = connTok /\ requests' = requests
    <2>1. CASE \E t \in Tokens : Answer(t)
      BY <2>1, SyncNull DEF Answer
    <2>2. CASE OnConnected
      BY <2>2 DEF OnConnected, SyncInv, TypeOK
    <2> QED
      BY <2>1, <2>2
  <1>2. /\ UNCHANGED <<call, waits, kind, connTok, userCallback, events, user>>
        /\ connects' \in Nat
        /\ cb.at = "idle"
        /\ cb' \in [at : {"event", "remove"}, tok : Tokens \union {Null},
                    then : {"none", "connected"}]
    <2>1. CASE \E u \in Tokens : Answer(u)
      BY <2>1 DEF Answer, SyncInv, TypeOK
    <2>2. CASE OnConnected
      BY <2>2 DEF OnConnected, SyncInv, TypeOK
    <2> QED
      BY <2>1, <2>2
  <1>3. TypeOK'
    BY <1>1, <1>2 DEF SyncInv, TypeOK
  <1>4. Users'
    BY <1>2 DEF SyncInv, Users
  <1>5. Toks'
    BY <1>1, <1>2, SyncNull DEF SyncInv, TypeOK, Toks
  <1>6. Lent'
    BY <1>1, <1>2 DEF SyncInv, Lent
  <1> QED
    BY <1>3, <1>4, <1>5, <1>6 DEF SyncInv

\* The C library's thread calls the application, or waits for it, or has done with it.
LEMMA ReportKeeps ==
    ASSUME SyncInv, RemoveToken \/ ReportEvent \/ UserDone \/ Unasked
    PROVE  SyncInv'
  <1> USE SyncThreads
  <1>1. UNCHANGED <<call, waits, kind, complete, connTok, userCallback, requests, connects>>
    BY DEF RemoveToken, ReportEvent, UserDone, Unasked, OnConnectionLost, OnMessageArrived,
           library
  <1>2. TypeOK'
    <2> USE DEF SyncInv, TypeOK, Callbacks, Threads, Resting, library
    <2>1. CASE RemoveToken
      BY <2>1 DEF RemoveToken, Launch
    <2>2. CASE ReportEvent
      BY <2>2 DEF ReportEvent, Launch
    <2>3. CASE UserDone
      BY <2>3 DEF UserDone
    <2>4. CASE Unasked
      BY <2>4 DEF Unasked, OnConnectionLost, OnMessageArrived
    <2> QED
      BY <2>1, <2>2, <2>3, <2>4
  <1>3. Users'
    <2> USE <1>1 DEF SyncInv, TypeOK, Users, Threads, Resting
    <2>1. CASE RemoveToken
      BY <2>1 DEF RemoveToken, Launch
    <2>2. CASE ReportEvent
      BY <2>2 DEF ReportEvent, Launch
    <2>3. CASE UserDone
      BY <2>3 DEF UserDone
    <2>4. CASE Unasked
      BY <2>4 DEF Unasked, OnConnectionLost, OnMessageArrived
    <2> QED
      BY <2>1, <2>2, <2>3, <2>4
  <1>4. Toks'
    BY <1>1 DEF SyncInv, Toks
  <1>5. Lent'
    BY <1>1 DEF SyncInv, Lent
  <1> QED
    BY <1>2, <1>3, <1>4, <1>5 DEF SyncInv

\* Every step of the client, of the application and of the C library.
LEMMA SyncStep == SyncInv /\ [Next]_vars => SyncInv'
  <1> SUFFICES ASSUME SyncInv, [Next]_vars PROVE SyncInv'
    OBVIOUS
  <1>1. ASSUME NEW th \in Threads, Operation(th) PROVE SyncInv'
    <2>1. CASE \E op \in Operations \ {"reconnect"} : Request(th, op)
      BY <2>1, AcceptedKeeps, RefusedKeeps DEF Request
    <2>2. CASE reconnect(th)
      BY <2>2, ReconnectKeeps
    <2>3. CASE set_callback(th)
      BY <2>3 DEF set_callback, SyncInv, TypeOK, Users, Toks, Lent, library
    <2> QED
      BY <1>1, <2>1, <2>2, <2>3
         DEF Operation, connect, disconnect, publish, publish_message, subscribe, Operations
  <1>2. ASSUME NEW th \in Threads, UserReturns(th) PROVE SyncInv'
    <2>1. TypeOK' /\ Toks' /\ Lent'
      BY <1>2 DEF UserReturns, SyncInv, TypeOK, Toks, Lent, library
    <2>2. Users'
      BY <1>2 DEF UserReturns, SyncInv, TypeOK, Users
    <2> QED
      BY <2>1, <2>2 DEF SyncInv
  <1>3. CASE UNCHANGED vars
    BY <1>3 DEF SyncInv, TypeOK, Users, Toks, Lent, vars, library
  <1> QED
    BY <1>1, <1>2, <1>3, WaitEndKeeps, ReportEndKeeps, CompletionKeeps, ReportKeeps
       DEF Next, Library, Returns

\* All of it, in every state.
THEOREM SyncInvariant == Spec => []SyncInv
  BY SyncInit, SyncStep, PTL DEF Spec

\* Every callback of the application is waited for, and the C library's thread makes one
\* at a time: client::connected() and its like wait for the thread they launch.
THEOREM OneCallbackAtATime == Spec => []CallbacksSerial
  <1>1. SyncInv => CallbacksSerial
    BY SyncNull DEF SyncInv, Users, CallbacksSerial
  <1> QED
    BY <1>1, SyncInvariant, PTL

\* A message that is lent to publish(const message&) stays in scope until it has been
\* answered: that overload waits without a time-out.
THEOREM MessageInScope == Spec => []LentWhileSending
  <1>1. SyncInv => LentWhileSending
    <2> SUFFICES ASSUME SyncInv, NEW t \in requests, kind[t] = "publish_message"
                 PROVE  InScope(t)
      BY DEF LentWhileSending
    <2>1. PICK th \in Threads :
                   call[th] = [op |-> "publish_message", tok |-> t, at |-> "wait"]
      BY DEF SyncInv, Lent
    <2> QED
      BY <2>1 DEF InScope
  <1> QED
    BY <1>1, SyncInvariant, PTL

=============================================================================
