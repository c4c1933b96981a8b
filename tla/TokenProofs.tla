---------------------------- MODULE TokenProofs ----------------------------
(***************************************************************************)
(* For any set of application threads: nobody sleeps on a completed token, *)
(* no registered listener is missed, and the listener of a token that is   *)
(* completed once is called once and told the truth.                       *)
(***************************************************************************)
EXTENDS Token, TLAPS

\* A listener that is registered on a complete token has been told, or is about
\* to be told by set_action_callback() or by the handler that copied it.  Unlike
\* ListenerNotMissed this also speaks of the time between the handler's release
\* of lock_ and its call.
ListenerCared ==
    complete /\ listener # NoListener
        => \/ told[listener] # <<>>
           \/ pc[listener] = "tell"
           \/ handler.at = "listener" /\ handler.listener = listener

Inv == TypeOK /\ NoSleeperLeftBehind /\ ListenerCared

-----------------------------------------------------------------------------
\* What has been appended to is not empty.
LEMMA AppendStep ==
    ASSUME NEW S, NEW s \in Seq(S), NEW e \in S
    PROVE  Append(s, e) \in Seq(S) /\ Append(s, e) # <<>>
<1>1. Append(s, e) \in Seq(S) /\ Len(Append(s, e)) = Len(s) + 1 /\ Len(s) \in Nat
    OBVIOUS
<1>2. Len(<<>>) = 0
    OBVIOUS
<1> QED BY <1>1, <1>2

\* The tail of a single element is empty.
LEMMA TailOfOne ==
    ASSUME NEW S, NEW s \in Seq(S), Len(s) = 1
    PROVE  Tail(s) = <<>>
<1> DEFINE t == Tail(s)
<1>1. Len(t) = 0 /\ t \in Seq(S)
    OBVIOUS
<1> HIDE DEF t
<1>2. t = <<>>
    BY <1>1
<1> QED BY <1>2 DEF t

\* The types of a token and of the threads around it.
LEMMA TypeInit == Init => TypeOK
<1> SUFFICES ASSUME Init PROVE TypeOK
    OBVIOUS
<1>1. due \in Seq(Reports)
  <2>1. \A r \in Reports : <<r>> \in Seq(Reports)
    OBVIOUS
  <2>2. <<"success", "connected">> \in Seq(Reports)
    BY DEF Reports
  <2>3. \/ due \in {<<"success">>, <<"failure">>, <<"refused">>}
        \/ due = <<"success", "connected">>
    BY DEF Init, FirstReports
  <2> QED BY <2>1, <2>2, <2>3 DEF Reports
<1>2. told \in [Users -> Seq({"ok", "err"})]
    BY DEF Init
<1>3. got \in [Users -> [st : {"none", "timeout", "err", "ok"}, rsp : Nat, act : Nat]]
    BY DEF Init
<1>4. handler \in [at : {"idle", "listener", "notify"},
                   listener : Users \union {NoListener}, kind : Reports]
    BY DEF Init, Idle, Reports
<1>5. pc \in [Users -> {"idle", "wait", "timed", "tell", "reconnect"}] /\ cond = {}
    BY DEF Init
<1>6. /\ type \in {"CONNECT", "OTHER"}
      /\ complete \in BOOLEAN /\ rc \in {"ok", "err"} /\ reason \in {"ok", "bad"}
      /\ rsp \in Nat /\ act \in Nat /\ reported \subseteq Reports
    BY DEF Init
<1>7. listener \in Users \union {NoListener} /\ registered \subseteq Users
    BY DEF Init
<1> QED BY <1>1, <1>2, <1>3, <1>4, <1>5, <1>6, <1>7 DEF TypeOK

\* Every step of the callback thread keeps Inv.
LEMMA HandlerStep ==
    ASSUME Inv, Handler
    PROVE  Inv'
<1> USE DEF Inv
<1>1. ASSUME Complete PROVE Inv'
  <2>1. Head(due) \in Reports /\ Tail(due) \in Seq(Reports)
    BY <1>1 DEF Complete, TypeOK
  <2>2. RcOf(Head(due)) \in {"ok", "err"} /\ ReasonOf(Head(due)) \in {"ok", "bad"}
        /\ RspOf(Head(due)) \in Nat
    BY DEF RcOf, ReasonOf, RspOf, TypeOK
  <2>3. TypeOK'
    BY <1>1, <2>1, <2>2 DEF Complete, TypeOK
  <2> QED BY <1>1, <2>3 DEF Complete, NoSleeperLeftBehind, ListenerCared
<1>2. ASSUME CallListener PROVE Inv'
  <2> DEFINE what == IF handler.kind \in Failures THEN "err" ELSE "ok"
  <2>a. \A u \in Users : /\ Append(told[u], what) \in Seq({"ok", "err"})
                         /\ Append(told[u], what) # <<>>
    <3>1. \A u \in Users : told[u] \in Seq({"ok", "err"})
      BY DEF TypeOK
    <3>2. what \in {"ok", "err"}
      OBVIOUS
    <3> HIDE DEF what
    <3> QED BY <3>1, <3>2, AppendStep
  <2>b. told' = [u \in Users |-> IF u = handler.listener
                                THEN Append(told[u], what) ELSE told[u]]
    BY <1>2 DEF CallListener
  <2> HIDE DEF what
  <2>1. told' \in [Users -> Seq({"ok", "err"})]
    BY <2>a, <2>b DEF TypeOK
  <2>2. \A u \in Users : told[u] # <<>> => told'[u] # <<>>
    BY <2>a, <2>b
  <2>3. handler.listener \in Users => told'[handler.listener] # <<>>
    BY <2>a, <2>b
  <2>4. TypeOK'
    BY <1>2, <2>1 DEF CallListener, TypeOK, outcome
  <2> QED BY <1>2, <2>2, <2>3, <2>4
          DEF CallListener, NoSleeperLeftBehind, ListenerCared, TypeOK, outcome
<1>3. ASSUME NotifyAll PROVE Inv'
  <2>1. TypeOK'
    BY <1>3 DEF NotifyAll, TypeOK, outcome, Idle, Reports
  <2> QED BY <1>3, <2>1
          DEF NotifyAll, NoSleeperLeftBehind, ListenerCared, TypeOK, outcome, Idle
<1> QED BY <1>1, <1>2, <1>3 DEF Handler

\* A wait that returns.
LEMMA FinishStep ==
    ASSUME Inv, NEW u \in Users, Finish(u), pc[u] # "tell",
           cond' = cond \ {u}
    PROVE  Inv'
<1> USE DEF Inv
<1>1. Result \in [st : {"none", "timeout", "err", "ok"}, rsp : Nat, act : Nat]
    BY DEF Result, TypeOK
<1>2. TypeOK'
    BY <1>1 DEF Finish, TypeOK, outcome
<1>3. NoSleeperLeftBehind'
    BY DEF Finish, NoSleeperLeftBehind, outcome
<1>4. ListenerCared'
    BY DEF Finish, ListenerCared, TypeOK, outcome
<1> QED BY <1>2, <1>3, <1>4

\* A wait that goes to sleep, because the token is not complete.
LEMMA SleepStep ==
    ASSUME Inv, NEW u \in Users, NEW how \in {"wait", "timed"}, Sleep(u, how),
           ~complete
    PROVE  Inv'
<1> USE DEF Inv
<1>1. TypeOK'
    BY DEF Sleep, TypeOK, outcome
<1> QED BY <1>1 DEF Sleep, NoSleeperLeftBehind, ListenerCared, outcome

\* Every step of an application thread keeps Inv.
LEMMA UserStep ==
    ASSUME Inv, NEW u \in Users, User(u)
    PROVE  Inv'
<1> USE DEF Inv
<1>1. ASSUME Wait(u, "wait") \/ Wait(u, "timed") \/ TryWait(u) \/ Wake(u)
      PROVE  Inv'
  <2>1. pc[u] # "tell" /\ (u \notin cond)
    BY <1>1 DEF Wait, TryWait, Wake, TypeOK
  <2>2. cond = cond \ {u}
    BY <2>1
  <2>3. \/ Finish(u) /\ UNCHANGED cond
        \/ ~complete /\ \E how \in {"wait", "timed"} : Sleep(u, how)
    BY <1>1 DEF Wait, TryWait, Wake
  <2> QED BY <2>1, <2>2, <2>3, FinishStep, SleepStep
<1>2. ASSUME TimeOut(u) PROVE Inv'
  <2>1. pc[u] # "tell" /\ Finish(u) /\ cond' = cond \ {u}
    BY <1>2 DEF TimeOut
  <2> QED BY <2>1, FinishStep
<1>3. ASSUME SpuriousWakeup(u) PROVE Inv'
  <2>1. TypeOK'
    BY <1>3 DEF SpuriousWakeup, TypeOK, outcome
  <2> QED BY <1>3, <2>1 DEF SpuriousWakeup, NoSleeperLeftBehind, ListenerCared, outcome
<1>4. ASSUME SetActionCallback(u) PROVE Inv'
  <2>1. TypeOK'
    BY <1>4 DEF SetActionCallback, TypeOK, outcome
  <2> QED BY <1>4, <2>1
          DEF SetActionCallback, NoSleeperLeftBehind, ListenerCared, TypeOK, outcome
<1>5. ASSUME TellListener(u) PROVE Inv'
  <2>a. told[u] \in Seq({"ok", "err"}) /\ rc \in {"ok", "err"}
    BY DEF TypeOK
  <2>b. Append(told[u], rc) \in Seq({"ok", "err"}) /\ Append(told[u], rc) # <<>>
    BY <2>a, AppendStep
  <2>c. told \in [Users -> Seq({"ok", "err"})]
        /\ told' = [told EXCEPT ![u] = Append(told[u], rc)]
    BY <1>5 DEF TellListener, TypeOK
  <2> HIDE DEF Inv
  <2>1. told' \in [Users -> Seq({"ok", "err"})] /\ told'[u] # <<>>
    BY <2>b, <2>c
  <2> USE DEF Inv
  <2>2. TypeOK'
    BY <1>5, <2>1 DEF TellListener, TypeOK, outcome
  <2> QED BY <1>5, <2>1, <2>2
          DEF TellListener, NoSleeperLeftBehind, ListenerCared, TypeOK, outcome
<1>6. ASSUME Reset(u) PROVE Inv'
  <2>1. act' \in Nat
    BY <1>6 DEF Reset, TypeOK
  <2>2. TypeOK'
    <3>1. cond' \subseteq {v \in Users : pc'[v] \in {"wait", "timed"}}
      BY <1>6 DEF Reset, TypeOK
    <3>2. pc' \in [Users -> {"idle", "wait", "timed", "tell", "reconnect"}]
      BY <1>6 DEF Reset, TypeOK
    <3>3. /\ complete' \in BOOLEAN /\ rc' \in {"ok", "err"} /\ reason' \in {"ok", "bad"}
          /\ UNCHANGED <<type, rsp, listener, registered, handler, due, reported, told, got>>
      BY <1>6 DEF Reset
    <3> QED BY <2>1, <3>1, <3>2, <3>3 DEF TypeOK
  <2> QED BY <1>6, <2>2 DEF Reset, NoSleeperLeftBehind, ListenerCared
<1>7. ASSUME Reconnect(u) PROVE Inv'
  <2>1. due' \in Seq(Reports)
    <3>1. due \in Seq(Reports) /\ "connected" \in Reports
      BY DEF TypeOK, Reports
    <3>2. Append(due, "connected") \in Seq(Reports)
      BY <3>1, AppendStep
    <3> QED BY <1>7, <3>1, <3>2 DEF Reconnect
  <2>2. TypeOK'
    BY <1>7, <2>1 DEF Reconnect, TypeOK, outcome
  <2> QED BY <1>7, <2>2
          DEF Reconnect, NoSleeperLeftBehind, ListenerCared, TypeOK, outcome
<1> QED BY <1>1, <1>2, <1>3, <1>4, <1>5, <1>6, <1>7 DEF User

-----------------------------------------------------------------------------
\* The call a listener gets is in one place at a time: due, while the action is
\* not complete; in the handler that has copied the listener; in
\* set_action_callback(); or made.
Once(u) ==
    /\ told[u] = <<>> \/ Len(told[u]) = 1
    /\ pc[u] # "reconnect"
    /\ ~complete => told[u] = <<>> /\ pc[u] # "tell"
    /\ pc[u] = "tell" => /\ told[u] = <<>> /\ u \in registered
                         /\ ~(handler.at = "listener" /\ handler.listener = u)
    /\ handler.at = "listener" /\ handler.listener = u => told[u] = <<>>
    /\ u \notin registered => /\ told[u] = <<>> /\ listener # u
                              /\ ~(handler.at = "listener" /\ handler.listener = u)

OnceInv ==
    /\ complete => due = <<>>
    /\ ~complete => handler.at = "idle" /\ Len(due) = 1
    /\ \A u \in Users : Once(u)

\* Only an action that is reported once has this invariant: a connect token is
\* completed twice.
LEMMA OnceInit == Init /\ type # "CONNECT" => OnceInv
<1> SUFFICES ASSUME Init, type # "CONNECT" PROVE OnceInv
    OBVIOUS
<1>1. due \in {<<"success">>, <<"failure">>, <<"refused">>}
    BY DEF Init, FirstReports
<1>2. Len(due) = 1
    BY <1>1
<1>3. \A u \in Users : Once(u)
    BY NoListenerAssumption DEF Init, Once, Idle
<1> QED BY <1>2, <1>3 DEF Init, OnceInv, Idle

LEMMA OnceNext == Inv /\ OnceInv /\ type # "CONNECT" /\ [Next]_vars => OnceInv'
<1> SUFFICES ASSUME Inv, OnceInv, type # "CONNECT", [Next]_vars PROVE OnceInv'
    OBVIOUS
<1> USE DEF Inv
<1>1. ASSUME Complete PROVE OnceInv'
  <2>1. ~complete /\ Len(due) = 1 /\ due \in Seq(Reports)
    BY <1>1 DEF Complete, OnceInv, TypeOK
  <2>2. Tail(due) = <<>>
    BY <2>1, TailOfOne
  <2>3. due' = <<>>
    BY <1>1, <2>2 DEF Complete
  <2>4. ASSUME NEW v \in Users PROVE Once(v)'
    BY <1>1, <2>1 DEF Complete, OnceInv, Once
  <2> QED BY <1>1, <2>3, <2>4 DEF Complete, OnceInv
<1>2. ASSUME CallListener PROVE OnceInv'
  <2>1. ASSUME NEW v \in Users PROVE Once(v)'
    <3>1. handler' = [handler EXCEPT !.at = "notify"] /\ handler'.at = "notify"
          /\ UNCHANGED <<complete, pc, registered, listener>>
      BY <1>2 DEF CallListener, TypeOK, outcome
    <3>2. CASE v = handler.listener
      <4>1. told[v] = <<>> /\ Once(v)
        BY <1>2, <3>2 DEF CallListener, OnceInv, Once
      <4>2. \E e : told'[v] = Append(<<>>, e)
        BY <1>2, <3>2, <4>1 DEF CallListener
      <4>3. Len(told'[v]) = 1
        BY <4>2
      <4>4. v \in registered /\ pc[v] # "tell" /\ complete
        BY <1>2, <3>2, <4>1 DEF CallListener, OnceInv, Once
      <4> QED BY <3>1, <4>1, <4>3, <4>4 DEF Once
    <3>3. CASE v # handler.listener
      <4>1. told'[v] = told[v] /\ Once(v)
        BY <1>2, <3>3 DEF CallListener, OnceInv
      <4> QED BY <3>1, <4>1 DEF Once
    <3> QED BY <3>2, <3>3
  <2> QED BY <1>2, <2>1 DEF CallListener, OnceInv, outcome
<1>3. ASSUME NotifyAll PROVE OnceInv'
    BY <1>3 DEF NotifyAll, OnceInv, Once, outcome, Idle
<1>4. ASSUME NEW u \in Users, User(u) PROVE OnceInv'
  <2>1. ASSUME \/ Finish(u) /\ pc[u] # "tell"
               \/ Sleep(u, "wait") \/ Sleep(u, "timed")
        PROVE  OnceInv'
    <3>1. /\ UNCHANGED <<complete, due, handler, told, registered, listener>>
          /\ \A v \in Users : pc'[v] \in {pc[v], "idle", "wait", "timed"}
      BY <2>1 DEF Finish, Sleep, TypeOK, outcome
    <3> QED BY <3>1 DEF OnceInv, Once
  <2>2. ASSUME SpuriousWakeup(u) PROVE OnceInv'
    BY <2>2 DEF SpuriousWakeup, OnceInv, Once, outcome
  <2>3. ASSUME SetActionCallback(u) PROVE OnceInv'
    <3>1. Once(u)'
      BY <2>3 DEF SetActionCallback, OnceInv, Once, TypeOK, outcome
    <3>2. ASSUME NEW v \in Users \ {u} PROVE Once(v)'
      BY <2>3 DEF SetActionCallback, OnceInv, Once, TypeOK, outcome
    <3> QED BY <2>3, <3>1, <3>2 DEF SetActionCallback, OnceInv, outcome
  <2>4. ASSUME TellListener(u) PROVE OnceInv'
    <3>1. told[u] = <<>> /\ Once(u) /\ complete
      BY <2>4 DEF TellListener, OnceInv, Once
    <3>2. told'[u] = Append(<<>>, rc)
      BY <2>4, <3>1 DEF TellListener, TypeOK
    <3>3. Len(told'[u]) = 1
      BY <3>2
    <3>4. Once(u)'
      BY <2>4, <3>1, <3>3 DEF TellListener, Once, TypeOK, outcome
    <3>5. ASSUME NEW v \in Users \ {u} PROVE Once(v)'
      BY <2>4 DEF TellListener, OnceInv, Once, TypeOK, outcome
    <3> QED BY <2>4, <3>4, <3>5 DEF TellListener, OnceInv, outcome
  <2>5. ~Reset(u) /\ ~Reconnect(u)
    BY DEF Reset, Reconnect, OnceInv, Once
  <2> QED BY <1>4, <2>1, <2>2, <2>3, <2>4, <2>5
          DEF User, Wait, TryWait, Wake, TimeOut
<1>5. ASSUME UNCHANGED vars PROVE OnceInv'
    BY <1>5 DEF vars, outcome, OnceInv, Once
<1> QED BY <1>1, <1>2, <1>3, <1>4, <1>5 DEF Next, Handler

\* A token keeps its type_.
LEMMA TypeKept == [Next]_vars => type' = type
<1>1. Handler => type' = type
    BY DEF Handler, Complete, CallListener, NotifyAll
<1>2. ASSUME NEW u \in Users, User(u) PROVE type' = type
    BY <1>2 DEF User, Wait, TryWait, Wake, TimeOut, Finish, Sleep, SpuriousWakeup,
                SetActionCallback, TellListener, Reset, Reconnect
<1> QED BY <1>1, <1>2 DEF Next, vars

-----------------------------------------------------------------------------
LEMMA InitInv == Init => Inv
    BY TypeInit DEF Init, Inv, NoSleeperLeftBehind, ListenerCared

LEMMA NextInv == Inv /\ [Next]_vars => Inv'
<1> SUFFICES ASSUME Inv, [Next]_vars PROVE Inv'
    OBVIOUS
<1>1. ASSUME UNCHANGED vars PROVE Inv'
    BY <1>1 DEF vars, outcome, Inv, TypeOK, NoSleeperLeftBehind, ListenerCared
<1> QED BY <1>1, HandlerStep, UserStep DEF Next

\* The types of the token's state.
THEOREM TypeCorrect == Spec => []TypeOK
<1>1. Inv => TypeOK
    BY DEF Inv
<1> QED BY <1>1, InitInv, NextInv, PTL DEF Spec

\* No thread is left asleep in wait() on a token whose completion handler has
\* finished, whatever reset() does meanwhile.
THEOREM EverySleeperIsWoken == Spec => []NoSleeperLeftBehind
<1>1. Inv => NoSleeperLeftBehind
    BY DEF Inv
<1> QED BY <1>1, InitInv, NextInv, PTL DEF Spec

\* set_action_callback() and the completion handlers together miss no listener.
THEOREM NoListenerMissed == Spec => []ListenerNotMissed
<1>1. Inv => ListenerNotMissed
    BY DEF Inv, ListenerCared, ListenerNotMissed
<1> QED BY <1>1, InitInv, NextInv, PTL DEF Spec

\* A token that is completed once calls its listener once, however
\* set_action_callback() and the completion handler interleave.
THEOREM OneShotListenerOnce == Spec => []ListenerOnce
<1> DEFINE OneShot == type # "CONNECT" => OnceInv
<1>1. OneShot => ListenerOnce
  <2> SUFFICES ASSUME OnceInv, NEW u \in Users PROVE Len(told[u]) <= 1
    BY DEF ListenerOnce
  <2>1. told[u] = <<>> => Len(told[u]) = 0
    OBVIOUS
  <2>2. Once(u)
    BY DEF OnceInv
  <2>3. told[u] = <<>> \/ Len(told[u]) = 1
    BY <2>2 DEF Once
  <2>4. Len(told[u]) = 0 \/ Len(told[u]) = 1
    BY <2>1, <2>3
  <2>5. 0 <= 1 /\ 1 <= 1
    OBVIOUS
  <2> QED BY <2>4, <2>5, Zenon
<1>2. Init => Inv /\ OneShot
    BY InitInv, OnceInit
<1>3. Inv /\ OneShot /\ [Next]_vars => Inv' /\ OneShot'
    BY NextInv, OnceNext, TypeKept
<1> QED BY <1>1, <1>2, <1>3, PTL DEF Spec

-----------------------------------------------------------------------------
\* What a listener is told.  Until the one report has come nothing is reported;
\* after it, rc_ and the handler's copy of it say the same as the report.
Report == IF "failure" \in reported THEN "err" ELSE "ok"

TruthInv ==
    /\ ~complete => reported = {}
    /\ complete => rc = Report
    /\ handler.at = "listener" => reported = {handler.kind}
    /\ "refused" \notin reported =>
          \A u \in Users : told[u] = <<>> \/ told[u] = <<Report>>

LEMMA TruthNext ==
    Inv /\ OnceInv /\ TruthInv /\ type # "CONNECT" /\ [Next]_vars => TruthInv'
<1> SUFFICES ASSUME Inv, OnceInv, TruthInv, type # "CONNECT", [Next]_vars PROVE TruthInv'
    OBVIOUS
<1>1. ASSUME Complete PROVE TruthInv'
  <2>1. ~complete /\ Len(due) = 1 /\ due \in Seq(Reports)
    BY <1>1 DEF Complete, Inv, OnceInv, TypeOK
  <2>2. reported' = {Head(due)} /\ complete' = TRUE /\ rc' = RcOf(Head(due))
        /\ handler' = [at |-> "listener", listener |-> listener, kind |-> Head(due)]
        /\ told' = told
    BY <1>1, <2>1 DEF Complete, TruthInv
  <2>3. rc' = Report'
    BY <2>2 DEF Report, RcOf
  <2>4. \A u \in Users : told[u] = <<>>
    BY <2>1 DEF OnceInv, Once
  <2> QED BY <2>2, <2>3, <2>4 DEF TruthInv
<1>2. ASSUME CallListener PROVE TruthInv'
  <2> DEFINE what == IF handler.kind \in Failures THEN "err" ELSE "ok"
  <2>1. /\ UNCHANGED <<complete, rc, reported>> /\ reported = {handler.kind}
        /\ handler' = [handler EXCEPT !.at = "notify"] /\ handler'.at = "notify"
        /\ told' = [u \in Users |-> IF u = handler.listener
                                    THEN Append(told[u], what) ELSE told[u]]
    BY <1>2 DEF CallListener, TruthInv, Inv, TypeOK, outcome
  <2>2. "refused" \notin reported => what = Report
    BY <2>1 DEF Report, Failures
  <2> HIDE DEF what
  <2>3. ASSUME "refused" \notin reported, NEW u \in Users
        PROVE  told'[u] = <<>> \/ told'[u] = <<Report>>
    <3>1. CASE u = handler.listener
      <4>1. told[u] = <<>>
        BY <1>2, <3>1 DEF CallListener, OnceInv, Once
      <4>2. told'[u] = Append(<<>>, Report)
        BY <2>1, <2>2, <2>3, <3>1, <4>1
      <4> QED BY <4>2
    <3>2. CASE u # handler.listener
      BY <2>1, <2>3, <3>2 DEF TruthInv
    <3> QED BY <3>1, <3>2
  <2>4. Report' = Report
    BY <2>1 DEF Report
  <2> QED BY <2>1, <2>3, <2>4 DEF TruthInv
<1>3. ASSUME NotifyAll PROVE TruthInv'
    BY <1>3 DEF NotifyAll, TruthInv, Report, outcome, Idle
<1>4. ASSUME NEW u \in Users, TellListener(u) PROVE TruthInv'
  <2>1. told[u] = <<>> /\ complete
    BY <1>4 DEF TellListener, OnceInv, Once
  <2>2. UNCHANGED <<complete, rc, reported, handler>> /\ Report' = Report
    BY <1>4 DEF TellListener, outcome, Report
  <2>3. told' = [told EXCEPT ![u] = Append(<<>>, rc)] /\ DOMAIN told = Users
    BY <1>4, <2>1 DEF TellListener, Inv, TypeOK
  <2>4. told'[u] = <<rc>> /\ \A v \in Users \ {u} : told'[v] = told[v]
    BY <2>3
  <2> QED BY <2>1, <2>2, <2>4 DEF TruthInv
<1>5. ASSUME NEW u \in Users, User(u), ~TellListener(u) PROVE TruthInv'
  <2>1. ~Reset(u) /\ ~Reconnect(u)
    BY DEF Reset, Reconnect, OnceInv, Once
  <2>2. UNCHANGED <<complete, rc, reported, handler, told>>
    BY <1>5, <2>1 DEF User, Wait, TryWait, Wake, TimeOut, Finish, Sleep, SpuriousWakeup,
                      SetActionCallback, outcome
  <2> QED BY <2>2 DEF TruthInv, Report
<1>6. ASSUME UNCHANGED vars PROVE TruthInv'
    BY <1>6 DEF vars, outcome, TruthInv, Report
<1> QED BY <1>1, <1>2, <1>3, <1>4, <1>5, <1>6 DEF Next, Handler

\* A listener of a token that is completed once is told whether the action has
\* failed, by the completion handler or by set_action_callback() alike, unless
\* the server has refused the request.
THEOREM ListenersAreToldTheTruth == Spec => []ListenerToldTruth
<1> DEFINE OneShot == type # "CONNECT" => OnceInv /\ TruthInv
<1>1. OneShot => ListenerToldTruth
  <2> SUFFICES ASSUME TruthInv, "refused" \notin reported, NEW u \in Users,
                      NEW i \in DOMAIN told[u]
               PROVE  told[u][i] = Report
    BY DEF ListenerToldTruth, Report
  <2>1. told[u] = <<>> \/ told[u] = <<Report>>
    BY DEF TruthInv
  <2>2. told[u] # <<>>
    OBVIOUS
  <2>3. told[u] = <<Report>> /\ i = 1
    BY <2>1, <2>2
  <2> QED BY <2>3
<1>2. Init => Inv /\ OneShot
    BY InitInv, OnceInit DEF Init, TruthInv, Idle
<1>3. Inv /\ OneShot /\ [Next]_vars => Inv' /\ OneShot'
    BY NextInv, OnceNext, TruthNext, TypeKept
<1> QED BY <1>1, <1>2, <1>3, PTL DEF Spec

=============================================================================
