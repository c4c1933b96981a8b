-------------------------- MODULE AsyncClientProofs --------------------------
(***************************************************************************)
(* Proofs about AsyncClient, for any number of threads, tokens, reconnects *)
(* and nested calls: a token in the hands of the C library is in a list of *)
(* the client and leaves it, delivery_complete() comes last and once, and  *)
(* threads do not wait for each other in a circle.                         *)
(***************************************************************************)
EXTENDS AsyncClient, TLAPS

\* The places of a call that has still something to do for its token, and those
\* at which the token has to be in a list.
ActivePlaces == {"add", "send", "listener", "remove", "deliver"}
HoldingPlaces == {"send", "listener", "remove"}

Busy(t) == InProgress(t, ActivePlaces)
Held(t) == InProgress(t, HoldingPlaces)

\* A token is in the hands of one call at a time.
Sole(t) ==
    \A th, u \in Threads : \A i \in DOMAIN stack[th], j \in DOMAIN stack[u] :
        /\ stack[th][i].tok = t /\ stack[th][i].at \in ActivePlaces
        /\ stack[u][j].tok = t /\ stack[u][j].at \in ActivePlaces
        => th = u /\ i = j

\* Calls have tokens of their own kind, and only a message with a QoS above 0 is
\* about to be reported.
FrameOK(f) ==
    /\ f.tok = Null \/ kind[f.tok] # "none"
    /\ f.call \in {"connect", "reconnect"} => f.tok = Null \/ kind[f.tok] = "connect"
    /\ f.at = "deliver" => /\ f.call # "connect" /\ f.tok \in Tokens
                           /\ kind[f.tok] = "publish1"

FramesOK ==
    /\ \A th \in Threads : \A i \in DOMAIN stack[th] : FrameOK(stack[th][i])
    /\ connTok = Null \/ kind[connTok] = "connect"

\* The life of a token, other than a connect token, which is used again: the
\* C library has it or one call has, it is in a list just then, and when it is
\* reported nobody has it.
Life(t) ==
    /\ Sole(t)
    /\ t \in requests => ~Busy(t)
    /\ delivered[t] > 0 => /\ delivered[t] = 1 /\ kind[t] = "publish1"
                           /\ t \notin requests /\ ~Busy(t)
    /\ Pending(t) <=> t \in requests \/ Held(t)
    /\ pendingTokens[t] <= 1

Lives ==
    \A t \in Tokens :
        /\ t \in requests => kind[t] # "none"
        /\ kind[t] = "connect" => delivered[t] = 0
        /\ kind[t] # "connect" => Life(t)

\* lock_ is held for a moment only, with nothing to wait for.
Locked == lock # Null => At(lock, "unlock") \/ At(lock, "deliver")

ClientInv == TypeOK /\ FramesOK /\ Lives /\ Locked

-----------------------------------------------------------------------------
(* Sequences.                                                              *)

\* An element put in front.
LEMMA ConsSeq ==
    ASSUME NEW S, NEW s \in Seq(S), NEW e \in S
    PROVE  /\ <<e>> \o s \in Seq(S) /\ 1 \in DOMAIN (<<e>> \o s)
           /\ (<<e>> \o s)[1] = e /\ <<e>> \o s # <<>>
           /\ \A i \in DOMAIN s : i + 1 \in DOMAIN (<<e>> \o s) /\ (<<e>> \o s)[i + 1] = s[i]
           /\ \A i \in DOMAIN (<<e>> \o s) :
                 i = 1 \/ (i # 1 /\ i - 1 \in DOMAIN s /\ (<<e>> \o s)[i] = s[i - 1])
<1> DEFINE r == <<e>> \o s
<1>1. <<e>> \in Seq(S) /\ Len(<<e>>) = 1 /\ <<e>>[1] = e
    OBVIOUS
<1>2. /\ r \in Seq(S) /\ Len(r) = Len(s) + 1 /\ Len(s) \in Nat
      /\ DOMAIN r = 1 .. Len(r) /\ DOMAIN s = 1 .. Len(s)
    BY <1>1
<1>3. \A i \in 1 .. Len(s) + 1 : r[i] = IF i = 1 THEN e ELSE s[i - 1]
    BY <1>1, <1>2
<1> HIDE DEF r
<1>4. r # <<>>
    BY <1>2
<1>5. QED
    BY <1>2, <1>3, <1>4 DEF r

\* The rest of a sequence.
LEMMA TailSeq ==
    ASSUME NEW S, NEW s \in Seq(S), s # <<>>
    PROVE  /\ Tail(s) \in Seq(S) /\ 1 \in DOMAIN s /\ Head(s) = s[1] /\ Head(s) \in S
           /\ \A i \in DOMAIN Tail(s) : i + 1 \in DOMAIN s /\ Tail(s)[i] = s[i + 1]
           /\ \A i \in DOMAIN s :
                 i = 1 \/ (i # 1 /\ i - 1 \in DOMAIN Tail(s) /\ s[i] = Tail(s)[i - 1])
<1> DEFINE r == Tail(s)
<1>1. /\ r \in Seq(S) /\ Len(r) = Len(s) - 1 /\ Len(s) \in Nat /\ Len(s) # 0
      /\ DOMAIN r = 1 .. Len(r) /\ DOMAIN s = 1 .. Len(s)
    OBVIOUS
<1>2. \A i \in 1 .. Len(s) - 1 : r[i] = s[i + 1]
    OBVIOUS
<1>3. Head(s) = s[1] /\ Head(s) \in S
    OBVIOUS
<1> HIDE DEF r
<1>4. QED
    BY <1>1, <1>2, <1>3 DEF r

\* Another first element.
LEMMA ReplaceSeq ==
    ASSUME NEW S, NEW s \in Seq(S), s # <<>>, NEW e \in S
    PROVE  /\ <<e>> \o Tail(s) \in Seq(S) /\ DOMAIN (<<e>> \o Tail(s)) = DOMAIN s
           /\ (<<e>> \o Tail(s))[1] = e /\ <<e>> \o Tail(s) # <<>>
           /\ \A i \in DOMAIN s : i # 1 => (<<e>> \o Tail(s))[i] = s[i]
<1> DEFINE t == Tail(s)
           r == <<e>> \o t
<1>1. /\ t \in Seq(S) /\ Len(t) = Len(s) - 1 /\ Len(s) \in Nat /\ Len(s) # 0
      /\ DOMAIN s = 1 .. Len(s)
    OBVIOUS
<1>2. \A i \in 1 .. Len(s) - 1 : t[i] = s[i + 1]
    OBVIOUS
<1> HIDE DEF t
<1>3. /\ r \in Seq(S) /\ Len(r) = Len(t) + 1 /\ DOMAIN r = 1 .. Len(r)
      /\ \A i \in 1 .. Len(t) + 1 : r[i] = IF i = 1 THEN e ELSE t[i - 1]
  <2>1. <<e>> \in Seq(S) /\ Len(<<e>>) = 1 /\ <<e>>[1] = e
    OBVIOUS
  <2>2. QED
    BY <1>1, <2>1
<1> HIDE DEF r
<1>4. \A i \in DOMAIN s : i # 1 => r[i] = s[i]
    BY <1>1, <1>2, <1>3
<1>5. QED
    BY <1>1, <1>3, <1>4 DEF r, t

-----------------------------------------------------------------------------
(* Stacks: what going to another place, beginning a call and returning do  *)
(* to the calls in progress.                                               *)

LEMMA GotoStack ==
    ASSUME TypeOK, NEW th \in Threads, stack[th] # <<>>, NEW place \in Places,
           Goto(th, place)
    PROVE  /\ stack' \in [Threads -> Seq(Frames)]
           /\ 1 \in DOMAIN stack[th] /\ Top(th) = stack[th][1] /\ Top(th) \in Frames
           /\ stack'[th] # <<>> /\ stack'[th][1] = Head(stack'[th])
           /\ stack'[th][1].call = Top(th).call /\ stack'[th][1].tok = Top(th).tok
           /\ stack'[th][1].at = place
           /\ \A u \in Threads : u # th => stack'[u] = stack[u]
           /\ \A u \in Threads : DOMAIN stack'[u] = DOMAIN stack[u]
           /\ \A u \in Threads : \A i \in DOMAIN stack[u] :
                 u # th \/ i # 1 => stack'[u][i] = stack[u][i]
<1> DEFINE s == stack[th]
           h == Head(s)
           e == [h EXCEPT !.at = place]
           r == <<e>> \o Tail(s)
<1>1. stack \in [Threads -> Seq(Frames)] /\ s \in Seq(Frames) /\ s # <<>>
    BY DEF TypeOK
<1>2. 1 \in DOMAIN s /\ h = s[1] /\ h \in Frames
  <2> HIDE DEF s
  <2>1. QED
    BY <1>1, TailSeq
<1>3. e \in Frames /\ e.call = h.call /\ e.tok = h.tok /\ e.at = place
  <2> HIDE DEF h
  <2>1. QED
    BY <1>2 DEF Frames
<1>4. /\ r \in Seq(Frames) /\ DOMAIN r = DOMAIN s /\ r[1] = e /\ r # <<>>
      /\ \A i \in DOMAIN s : i # 1 => r[i] = s[i]
  <2> HIDE DEF s, e
  <2>1. QED
    BY <1>1, <1>3, ReplaceSeq
<1>5. Head(r) = r[1]
  <2> HIDE DEF r
  <2>1. QED
    BY <1>4
<1>6. stack' = [stack EXCEPT ![th] = r]
    BY DEF Goto
<1>7. stack' \in [Threads -> Seq(Frames)] /\ stack'[th] = r
      /\ \A u \in Threads : u # th => stack'[u] = stack[u]
  <2> HIDE DEF r
  <2>1. QED
    BY <1>1, <1>4, <1>6
<1>8. Top(th) = h
    BY DEF Top
<1>9. QED
  <2> HIDE DEF r, e, h
  <2>1. QED
    BY <1>2, <1>3, <1>4, <1>5, <1>7, <1>8

LEMMA PushStack ==
    ASSUME TypeOK, NEW th \in Threads, NEW f \in Frames, Push(th, f)
    PROVE  /\ stack' \in [Threads -> Seq(Frames)]
           /\ 1 \in DOMAIN stack'[th] /\ stack'[th][1] = f
           /\ \A u \in Threads : u # th => stack'[u] = stack[u]
           /\ \A i \in DOMAIN stack[th] :
                 i + 1 \in DOMAIN stack'[th] /\ stack'[th][i + 1] = stack[th][i]
           /\ \A i \in DOMAIN stack'[th] :
                 i = 1 \/ (i # 1 /\ i - 1 \in DOMAIN stack[th]
                           /\ stack'[th][i] = stack[th][i - 1])
<1> DEFINE s == stack[th]
           r == <<f>> \o s
<1>1. stack \in [Threads -> Seq(Frames)] /\ s \in Seq(Frames)
    BY DEF TypeOK
<1>2. /\ r \in Seq(Frames) /\ 1 \in DOMAIN r /\ r[1] = f
      /\ \A i \in DOMAIN s : i + 1 \in DOMAIN r /\ r[i + 1] = s[i]
      /\ \A i \in DOMAIN r : i = 1 \/ (i # 1 /\ i - 1 \in DOMAIN s /\ r[i] = s[i - 1])
  <2> HIDE DEF s
  <2>1. QED
    BY <1>1, ConsSeq
<1>3. stack' = [stack EXCEPT ![th] = r]
    BY DEF Push
<1> HIDE DEF r
<1>4. stack' \in [Threads -> Seq(Frames)] /\ stack'[th] = r
      /\ \A u \in Threads : u # th => stack'[u] = stack[u]
    BY <1>1, <1>2, <1>3
<1>5. QED
    BY <1>2, <1>4

LEMMA PopStack ==
    ASSUME TypeOK, NEW th \in Threads, stack[th] # <<>>,
           stack' = [stack EXCEPT ![th] = Tail(@)]
    PROVE  /\ stack' \in [Threads -> Seq(Frames)]
           /\ 1 \in DOMAIN stack[th] /\ Top(th) = stack[th][1] /\ Top(th) \in Frames
           /\ \A u \in Threads : u # th => stack'[u] = stack[u]
           /\ \A i \in DOMAIN stack'[th] :
                 i + 1 \in DOMAIN stack[th] /\ stack'[th][i] = stack[th][i + 1]
           /\ \A i \in DOMAIN stack[th] :
                 i = 1 \/ (i # 1 /\ i - 1 \in DOMAIN stack'[th]
                           /\ stack[th][i] = stack'[th][i - 1])
<1> DEFINE s == stack[th]
           r == Tail(s)
<1>1. stack \in [Threads -> Seq(Frames)] /\ s \in Seq(Frames) /\ s # <<>>
    BY DEF TypeOK
<1>2. /\ r \in Seq(Frames) /\ 1 \in DOMAIN s /\ Head(s) = s[1] /\ Head(s) \in Frames
      /\ \A i \in DOMAIN r : i + 1 \in DOMAIN s /\ r[i] = s[i + 1]
      /\ \A i \in DOMAIN s : i = 1 \/ (i # 1 /\ i - 1 \in DOMAIN r /\ s[i] = r[i - 1])
  <2> HIDE DEF s
  <2>1. QED
    BY <1>1, TailSeq
<1>3. stack' = [stack EXCEPT ![th] = r]
    OBVIOUS
<1> HIDE DEF r
<1>4. stack' \in [Threads -> Seq(Frames)] /\ stack'[th] = r
      /\ \A u \in Threads : u # th => stack'[u] = stack[u]
    BY <1>1, <1>2, <1>3
<1>5. QED
    BY <1>2, <1>4 DEF Top

\* A step that leaves the calls that work for t alone, and one after which the
\* only such call is at a given place.
Steady(t) ==
    /\ Sole(t) => Sole(t)'
    /\ Busy(t)' <=> Busy(t)
    /\ Held(t)' <=> Held(t)

Moves(t, place) ==
    /\ Sole(t)'
    /\ Busy(t)' <=> place \in ActivePlaces
    /\ Held(t)' <=> place \in HoldingPlaces

LEMMA GotoSteady ==
    ASSUME TypeOK, NEW th \in Threads, stack[th] # <<>>, NEW place \in Places,
           Goto(th, place), NEW t \in Tokens,
           Top(th).tok = t => Top(th).at \notin ActivePlaces /\ place \notin ActivePlaces
    PROVE  Steady(t)
<1>1. /\ \A u \in Threads : DOMAIN stack'[u] = DOMAIN stack[u]
      /\ \A u \in Threads : \A i \in DOMAIN stack[u] :
            \/ stack'[u][i] = stack[u][i]
            \/ /\ ~(stack[u][i].tok = t /\ stack[u][i].at \in ActivePlaces)
               /\ ~(stack'[u][i].tok = t /\ stack'[u][i].at \in ActivePlaces)
    BY GotoStack
<1>2. ASSUME NEW P, P \subseteq ActivePlaces
      PROVE  InProgress(t, P)' <=> InProgress(t, P)
    BY <1>1, <1>2 DEF InProgress
<1>3. Sole(t) => Sole(t)'
    BY <1>1 DEF Sole
<1>4. QED
    BY <1>2, <1>3 DEF Steady, Busy, Held, ActivePlaces, HoldingPlaces

LEMMA GotoMoves ==
    ASSUME TypeOK, NEW th \in Threads, stack[th] # <<>>, NEW place \in Places,
           Goto(th, place), NEW t \in Tokens, Sole(t),
           Top(th).tok = t, Top(th).at \in ActivePlaces
    PROVE  Moves(t, place)
<1>1. /\ 1 \in DOMAIN stack[th] /\ stack'[th][1].tok = t /\ stack'[th][1].at = place
      /\ \A u \in Threads : DOMAIN stack'[u] = DOMAIN stack[u]
      /\ \A u \in Threads : \A i \in DOMAIN stack[u] :
            u # th \/ i # 1 => stack'[u][i] = stack[u][i]
      /\ stack[th][1].tok = t /\ stack[th][1].at \in ActivePlaces
    BY GotoStack
<1>2. \A u \in Threads : \A i \in DOMAIN stack[u] :
        u # th \/ i # 1 => ~(stack[u][i].tok = t /\ stack[u][i].at \in ActivePlaces)
    BY <1>1 DEF Sole
<1>3. ASSUME NEW P, P \subseteq ActivePlaces
      PROVE  InProgress(t, P)' <=> place \in P
    BY <1>1, <1>2, <1>3 DEF InProgress
<1>4. Sole(t)'
    BY <1>1, <1>2 DEF Sole
<1>5. QED
    BY <1>3, <1>4 DEF Moves, Busy, Held, ActivePlaces, HoldingPlaces

LEMMA PushSteady ==
    ASSUME TypeOK, NEW th \in Threads, NEW f \in Frames, Push(th, f), NEW t \in Tokens,
           f.tok # t
    PROVE  Steady(t)
<1>1. /\ 1 \in DOMAIN stack'[th] /\ stack'[th][1] = f
      /\ \A u \in Threads : u # th => stack'[u] = stack[u]
      /\ \A i \in DOMAIN stack[th] :
            i + 1 \in DOMAIN stack'[th] /\ stack'[th][i + 1] = stack[th][i]
      /\ \A i \in DOMAIN stack'[th] :
            i = 1 \/ (i # 1 /\ i - 1 \in DOMAIN stack[th]
                      /\ stack'[th][i] = stack[th][i - 1])
    BY PushStack
<1>2. ASSUME NEW P
      PROVE  InProgress(t, P)' <=> InProgress(t, P)
  <2>1. ASSUME InProgress(t, P) PROVE InProgress(t, P)'
    <3>1. PICK u \in Threads : \E i \in DOMAIN stack[u] :
             stack[u][i].tok = t /\ stack[u][i].at \in P
      BY <2>1 DEF InProgress
    <3>2. \E i \in DOMAIN stack'[u] : stack'[u][i].tok = t /\ stack'[u][i].at \in P
      <4>1. CASE u = th
        BY <1>1, <3>1, <4>1
      <4>2. CASE u # th
        BY <1>1, <3>1, <4>2
      <4>3. QED
        BY <4>1, <4>2
    <3>3. QED
      BY <3>2 DEF InProgress
  <2>2. ASSUME InProgress(t, P)' PROVE InProgress(t, P)
    <3>1. PICK u \in Threads : \E i \in DOMAIN stack'[u] :
             stack'[u][i].tok = t /\ stack'[u][i].at \in P
      BY <2>2 DEF InProgress
    <3>2. \E i \in DOMAIN stack[u] : stack[u][i].tok = t /\ stack[u][i].at \in P
      <4>1. CASE u = th
        BY <1>1, <3>1, <4>1
      <4>2. CASE u # th
        BY <1>1, <3>1, <4>2
      <4>3. QED
        BY <4>1, <4>2
    <3>3. QED
      BY <3>2 DEF InProgress
  <2>3. QED
    BY <2>1, <2>2
<1>3. ASSUME Sole(t) PROVE Sole(t)'
  <2>1. SUFFICES ASSUME NEW v \in Threads, NEW u \in Threads,
                        NEW i \in DOMAIN stack'[v], NEW j \in DOMAIN stack'[u],
                        stack'[v][i].tok = t, stack'[v][i].at \in ActivePlaces,
                        stack'[u][j].tok = t, stack'[u][j].at \in ActivePlaces
                 PROVE  v = u /\ i = j
    BY DEF Sole
  <2> DEFINE x == IF v = th THEN i - 1 ELSE i
             y == IF u = th THEN j - 1 ELSE j
  <2>2. x \in DOMAIN stack[v] /\ stack'[v][i] = stack[v][x]
    BY <1>1, <2>1
  <2>3. y \in DOMAIN stack[u] /\ stack'[u][j] = stack[u][y]
    BY <1>1, <2>1
  <2>4. v = u /\ x = y
    <3> HIDE DEF x, y
    <3>1. QED
      BY <1>3, <2>1, <2>2, <2>3 DEF Sole
  <2>5. v = th => i \in Nat /\ j \in Nat
    <3>1. stack' \in [Threads -> Seq(Frames)]
      BY PushStack
    <3>2. QED
      BY <2>1, <2>4, <3>1
  <2>6. QED
    BY <2>4, <2>5
<1>4. QED
    BY <1>2, <1>3 DEF Steady, Busy, Held

LEMMA PushMoves ==
    ASSUME TypeOK, NEW th \in Threads, NEW f \in Frames, Push(th, f), NEW t \in Tokens,
           f.tok = t, f.at \in ActivePlaces, ~Busy(t)
    PROVE  Moves(t, f.at)
<1>1. /\ 1 \in DOMAIN stack'[th] /\ stack'[th][1] = f
      /\ \A u \in Threads : u # th => stack'[u] = stack[u]
      /\ \A i \in DOMAIN stack'[th] :
            i = 1 \/ (i # 1 /\ i - 1 \in DOMAIN stack[th]
                      /\ stack'[th][i] = stack[th][i - 1])
    BY PushStack
<1>2. \A u \in Threads : \A i \in DOMAIN stack'[u] :
        stack'[u][i].tok = t /\ stack'[u][i].at \in ActivePlaces => u = th /\ i = 1
  <2>1. SUFFICES ASSUME NEW u \in Threads, NEW i \in DOMAIN stack'[u], u # th \/ i # 1
                 PROVE  ~(stack'[u][i].tok = t /\ stack'[u][i].at \in ActivePlaces)
    OBVIOUS
  <2>2. \E j \in DOMAIN stack[u] : stack'[u][i] = stack[u][j]
    <3>1. CASE u = th
      BY <1>1, <2>1, <3>1
    <3>2. CASE u # th
      BY <1>1, <2>1, <3>2
    <3>3. QED
      BY <3>1, <3>2
  <2>3. QED
    BY <2>2 DEF Busy, InProgress
<1>3. ASSUME NEW P, P \subseteq ActivePlaces
      PROVE  InProgress(t, P)' <=> f.at \in P
    BY <1>1, <1>2, <1>3 DEF InProgress
<1>4. Sole(t)'
    BY <1>2 DEF Sole
<1>5. QED
    BY <1>3, <1>4 DEF Moves, Busy, Held, ActivePlaces, HoldingPlaces

\* A call returns when it has nothing to do for its token any more.
LEMMA PopSteady ==
    ASSUME TypeOK, NEW th \in Threads, stack[th] # <<>>,
           stack' = [stack EXCEPT ![th] = Tail(@)],
           Top(th).at \notin ActivePlaces, NEW t \in Tokens
    PROVE  Steady(t)
<1>1. /\ stack[th][1].at \notin ActivePlaces
      /\ \A u \in Threads : u # th => stack'[u] = stack[u]
      /\ \A i \in DOMAIN stack'[th] :
            i + 1 \in DOMAIN stack[th] /\ stack'[th][i] = stack[th][i + 1]
      /\ \A i \in DOMAIN stack[th] :
            i = 1 \/ (i # 1 /\ i - 1 \in DOMAIN stack'[th]
                      /\ stack[th][i] = stack'[th][i - 1])
    BY PopStack, Zenon
<1>2. ASSUME NEW P, P \subseteq ActivePlaces
      PROVE  InProgress(t, P)' <=> InProgress(t, P)
  <2>1. ASSUME InProgress(t, P) PROVE InProgress(t, P)'
    <3>1. PICK u \in Threads : \E i \in DOMAIN stack[u] :
             stack[u][i].tok = t /\ stack[u][i].at \in P
      BY <2>1 DEF InProgress
    <3>2. \E i \in DOMAIN stack'[u] : stack'[u][i].tok = t /\ stack'[u][i].at \in P
      <4>1. CASE u = th
        <5>1. PICK i \in DOMAIN stack[th] : stack[th][i].tok = t /\ stack[th][i].at \in P
          BY <3>1, <4>1
        <5>2. i # 1
          BY <1>1, <1>2, <5>1
        <5>3. i - 1 \in DOMAIN stack'[th] /\ stack[th][i] = stack'[th][i - 1]
          BY <1>1, <5>2
        <5>4. QED
          BY <4>1, <5>1, <5>3
      <4>2. CASE u # th
        BY <1>1, <3>1, <4>2
      <4>3. QED
        BY <4>1, <4>2
    <3>3. QED
      BY <3>2 DEF InProgress
  <2>2. ASSUME InProgress(t, P)' PROVE InProgress(t, P)
    <3>1. PICK u \in Threads : \E i \in DOMAIN stack'[u] :
             stack'[u][i].tok = t /\ stack'[u][i].at \in P
      BY <2>2 DEF InProgress
    <3>2. \E i \in DOMAIN stack[u] : stack[u][i].tok = t /\ stack[u][i].at \in P
      <4>1. CASE u = th
        BY <1>1, <3>1, <4>1
      <4>2. CASE u # th
        BY <1>1, <3>1, <4>2
      <4>3. QED
        BY <4>1, <4>2
    <3>3. QED
      BY <3>2 DEF InProgress
  <2>3. QED
    BY <2>1, <2>2
<1>3. ASSUME Sole(t) PROVE Sole(t)'
  <2>1. SUFFICES ASSUME NEW v \in Threads, NEW u \in Threads,
                        NEW i \in DOMAIN stack'[v], NEW j \in DOMAIN stack'[u],
                        stack'[v][i].tok = t, stack'[v][i].at \in ActivePlaces,
                        stack'[u][j].tok = t, stack'[u][j].at \in ActivePlaces
                 PROVE  v = u /\ i = j
    BY DEF Sole
  <2> DEFINE x == IF v = th THEN i + 1 ELSE i
             y == IF u = th THEN j + 1 ELSE j
  <2>2. x \in DOMAIN stack[v] /\ stack'[v][i] = stack[v][x]
    BY <1>1, <2>1
  <2>3. y \in DOMAIN stack[u] /\ stack'[u][j] = stack[u][y]
    BY <1>1, <2>1
  <2>4. v = u /\ x = y
    <3> HIDE DEF x, y
    <3>1. QED
      BY <1>3, <2>1, <2>2, <2>3 DEF Sole
  <2>5. i \in Nat /\ j \in Nat
    <3>1. stack' \in [Threads -> Seq(Frames)]
      BY PopStack, Zenon
    <3>2. QED
      BY <2>1, <3>1
  <2>6. QED
    BY <2>4, <2>5
<1>4. QED
    BY <1>2, <1>3 DEF Steady, Busy, Held, ActivePlaces, HoldingPlaces

\* What calls have as tokens stays right, if tokens keep their kind and the new
\* frame has the right one.
LEMMA GotoFrames ==
    ASSUME TypeOK, FramesOK, NEW th \in Threads, stack[th] # <<>>, NEW place \in Places,
           Goto(th, place), kind' = kind, connTok' \in {connTok, Null},
           place = "deliver" => /\ Top(th).call # "connect" /\ Top(th).tok \in Tokens
                                /\ kind[Top(th).tok] = "publish1"
    PROVE  FramesOK'
<1>1. /\ stack'[th][1].call = Top(th).call /\ stack'[th][1].tok = Top(th).tok
      /\ stack'[th][1].at = place
      /\ 1 \in DOMAIN stack[th] /\ Top(th) = stack[th][1]
      /\ \A u \in Threads : DOMAIN stack'[u] = DOMAIN stack[u]
      /\ \A u \in Threads : \A i \in DOMAIN stack[u] :
            u # th \/ i # 1 => stack'[u][i] = stack[u][i]
    BY GotoStack
<1>2. FrameOK(stack[th][1])
    BY <1>1 DEF FramesOK
<1>3. FrameOK(stack[th][1])'
    BY <1>1, <1>2 DEF FrameOK
<1>4. ASSUME NEW u \in Threads, NEW i \in DOMAIN stack[u] PROVE FrameOK(stack[u][i])'
  <2>1. CASE u # th \/ i # 1
    <3>1. stack'[u][i] = stack[u][i] /\ FrameOK(stack[u][i])
      BY <1>1, <2>1 DEF FramesOK
    <3>2. QED
      BY <3>1 DEF FrameOK
  <2>2. CASE u = th /\ i = 1
    BY <1>3, <2>2
  <2>3. QED
    BY <2>1, <2>2
<1>5. QED
    BY <1>1, <1>4 DEF FramesOK

LEMMA PushFrames ==
    ASSUME TypeOK, FramesOK, NEW th \in Threads, NEW f \in Frames, Push(th, f),
           \A t \in Tokens : kind[t] # "none" => kind'[t] = kind[t],
           FrameOK(f)', connTok' = Null \/ kind'[connTok'] = "connect"
    PROVE  FramesOK'
<1>1. /\ stack'[th][1] = f
      /\ \A u \in Threads : u # th => stack'[u] = stack[u]
      /\ \A i \in DOMAIN stack'[th] :
            i = 1 \/ (i # 1 /\ i - 1 \in DOMAIN stack[th]
                      /\ stack'[th][i] = stack[th][i - 1])
    BY PushStack
<1>2. ASSUME NEW u \in Threads, NEW i \in DOMAIN stack'[u] PROVE FrameOK(stack[u][i])'
  <2>1. CASE u = th /\ i = 1
    BY <1>1, <2>1 DEF FrameOK
  <2>2. CASE u # th \/ i # 1
    <3>1. PICK j \in DOMAIN stack[u] : stack'[u][i] = stack[u][j]
      <4>1. CASE u = th
        BY <1>1, <2>2, <4>1
      <4>2. CASE u # th
        BY <1>1, <4>2
      <4>3. QED
        BY <4>1, <4>2
    <3>2. FrameOK(stack[u][j]) /\ stack[u][j] \in Frames
      BY DEF FramesOK, TypeOK
    <3>3. QED
      BY <3>1, <3>2 DEF FrameOK, Frames
  <2>3. QED
    BY <2>1, <2>2
<1>3. QED
    BY <1>2 DEF FramesOK

LEMMA PopFrames ==
    ASSUME TypeOK, FramesOK, NEW th \in Threads, stack[th] # <<>>,
           stack' = [stack EXCEPT ![th] = Tail(@)], kind' = kind,
           connTok' \in {connTok, Null}
    PROVE  FramesOK'
<1>1. /\ \A u \in Threads : u # th => stack'[u] = stack[u]
      /\ \A i \in DOMAIN stack'[th] :
            i + 1 \in DOMAIN stack[th] /\ stack'[th][i] = stack[th][i + 1]
    BY PopStack, Zenon
<1>2. ASSUME NEW u \in Threads, NEW i \in DOMAIN stack'[u] PROVE FrameOK(stack[u][i])'
  <2>1. PICK j \in DOMAIN stack[u] : stack'[u][i] = stack[u][j]
    <3>1. CASE u = th
      BY <1>1, <3>1
    <3>2. CASE u # th
      BY <1>1, <3>2
    <3>3. QED
      BY <3>1, <3>2
  <2>2. FrameOK(stack[u][j])
    BY DEF FramesOK
  <2>3. QED
    BY <2>1, <2>2 DEF FrameOK
<1>3. QED
    BY <1>2 DEF FramesOK

-----------------------------------------------------------------------------
(* The life of a token.                                                    *)

\* A step that does not touch t.
LEMMA LifeSteady ==
    ASSUME NEW t \in Tokens, Life(t), Steady(t),
           kind'[t] = kind[t], t \in requests' <=> t \in requests,
           delivered'[t] = delivered[t], Pending(t)' <=> Pending(t),
           pendingTokens'[t] = pendingTokens[t]
    PROVE  Life(t)'
BY DEF Life, Steady

\* A step that moves the one call which has t.
LEMMA LifeMoves ==
    ASSUME NEW t \in Tokens, NEW place, Moves(t, place), pendingTokens'[t] <= 1,
           t \in requests' => place \notin ActivePlaces,
           delivered'[t] > 0 => /\ delivered'[t] = 1 /\ kind'[t] = "publish1"
                                /\ t \notin requests' /\ place \notin ActivePlaces,
           Pending(t)' <=> t \in requests' \/ place \in HoldingPlaces
    PROVE  Life(t)'
BY DEF Life, Moves

\* What the top of a stack says of its token: it is that of the call, except
\* in connect(), and one that is at work has it alone.
LEMMA TopLife ==
    ASSUME TypeOK, FramesOK, Lives, NEW th \in Threads, stack[th] # <<>>
    PROVE  /\ Top(th) \in Frames /\ FrameOK(Top(th))
           /\ TokOf(Top(th)) \in Tokens \union {Null}
           /\ \A t \in Tokens : kind[t] # "connect" =>
                 /\ TokOf(Top(th)) = t <=> Top(th).tok = t
                 /\ Top(th).tok = t => Top(th).call \notin {"connect", "reconnect"}
                 /\ Top(th).tok = t /\ Top(th).at \in ActivePlaces =>
                       Busy(t) /\ t \notin requests /\ delivered[t] = 0
                 /\ Top(th).tok = t /\ Top(th).at \in HoldingPlaces => Pending(t)
                 /\ Top(th).tok = t /\ Top(th).at \in ActivePlaces \ HoldingPlaces
                       => ~Pending(t)
<1>1. stack[th] \in Seq(Frames)
    BY DEF TypeOK
<1>2. 1 \in DOMAIN stack[th] /\ Top(th) = stack[th][1] /\ Top(th) \in Frames
    BY <1>1, TailSeq DEF Top
<1>3. FrameOK(Top(th))
    BY <1>2 DEF FramesOK
<1>4. TokOf(Top(th)) \in Tokens \union {Null}
    BY <1>2 DEF TokOf, TypeOK, Frames
<1>5. ASSUME NEW t \in Tokens, kind[t] # "connect"
      PROVE  /\ TokOf(Top(th)) = t <=> Top(th).tok = t
             /\ Top(th).tok = t => Top(th).call \notin {"connect", "reconnect"}
  <2>1. t # Null
    BY NullAssumption
  <2>2. Top(th).tok = t => Top(th).call \notin {"connect", "reconnect"}
    BY <1>3, <1>5, <2>1 DEF FrameOK
  <2>3. connTok # t
    BY <1>5, <2>1 DEF FramesOK
  <2>4. QED
    BY <2>2, <2>3 DEF TokOf
<1>6. ASSUME NEW t \in Tokens, kind[t] # "connect", Top(th).tok = t,
             Top(th).at \in ActivePlaces
      PROVE  /\ Busy(t) /\ t \notin requests /\ delivered[t] = 0
             /\ Top(th).at \in HoldingPlaces <=> Pending(t)
  <2>1. Life(t)
    BY <1>6 DEF Lives
  <2>2. Busy(t)
    BY <1>2, <1>6 DEF Busy, InProgress
  <2>3. Held(t) <=> Top(th).at \in HoldingPlaces
    <3>1. Top(th).at \in HoldingPlaces => Held(t)
      BY <1>2, <1>6 DEF Held, InProgress
    <3>2. ASSUME Held(t) PROVE Top(th).at \in HoldingPlaces
      <4>1. PICK u \in Threads : \E i \in DOMAIN stack[u] :
               stack[u][i].tok = t /\ stack[u][i].at \in HoldingPlaces
        BY <3>2 DEF Held, InProgress
      <4>2. PICK i \in DOMAIN stack[u] :
               stack[u][i].tok = t /\ stack[u][i].at \in HoldingPlaces
        BY <4>1
      <4>3. stack[u][i].at \in ActivePlaces
        BY <4>2 DEF ActivePlaces, HoldingPlaces
      <4>4. u = th /\ i = 1
        BY <1>2, <1>6, <2>1, <4>2, <4>3 DEF Life, Sole
      <4>5. QED
        BY <1>2, <4>2, <4>4
    <3>3. QED
      BY <3>1, <3>2
  <2>4. delivered[t] \in Nat
    BY DEF TypeOK
  <2>5. QED
    BY <2>1, <2>2, <2>3, <2>4 DEF Life
<1>7. QED
    BY <1>2, <1>3, <1>4, <1>5, <1>6 DEF ActivePlaces, HoldingPlaces

\* Steps that leave the lists and the C library's requests alone.
records == <<kind, requests, delivered, pendingTokens, pendingDeliveryTokens>>

LEMMA LivesSteady ==
    ASSUME TypeOK, Lives, UNCHANGED records,
           \A t \in Tokens : kind[t] # "connect" => Life(t)'
    PROVE  Lives'
BY DEF Lives, records

LEMMA GotoQuiet ==
    ASSUME TypeOK, FramesOK, Lives, NEW th \in Threads, stack[th] # <<>>,
           NEW place \in Places \ {"deliver"}, Goto(th, place),
           UNCHANGED records, connTok' \in {connTok, Null},
           \A t \in Tokens : kind[t] # "connect" /\ Top(th).tok = t =>
               \/ Top(th).at \in HoldingPlaces /\ place \in HoldingPlaces
               \/ Top(th).at \notin ActivePlaces /\ place \notin ActivePlaces
    PROVE  FramesOK' /\ Lives'
<1>1. FramesOK'
    BY GotoFrames DEF records
<1>2. ASSUME NEW t \in Tokens, kind[t] # "connect" PROVE Life(t)'
  <2>1. Life(t) /\ (Pending(t)' <=> Pending(t))
    BY <1>2 DEF Lives, Pending, records
  <2>2. CASE Top(th).tok = t => Top(th).at \notin ActivePlaces /\ place \notin ActivePlaces
    <3>1. Steady(t)
      BY <2>2, GotoSteady
    <3>2. QED
      BY <2>1, <3>1, LifeSteady DEF records
  <2>3. CASE Top(th).tok = t /\ Top(th).at \in HoldingPlaces /\ place \in HoldingPlaces
    <3>1. Top(th).at \in ActivePlaces /\ place \in ActivePlaces
      BY <2>3 DEF ActivePlaces, HoldingPlaces
    <3>2. Moves(t, place)
      BY <2>1, <2>3, <3>1, GotoMoves DEF Life
    <3>3. t \notin requests /\ delivered[t] = 0 /\ Pending(t)
      BY <1>2, <2>3, <3>1, TopLife
    <3>4. pendingTokens'[t] <= 1 /\ t \notin requests' /\ ~(delivered'[t] > 0)
      BY <2>1, <3>3 DEF Life, records
    <3>5. QED
      BY <2>1, <2>3, <3>2, <3>3, <3>4, LifeMoves
  <2>4. QED
    BY <1>2, <2>2, <2>3
<1>3. QED
    BY <1>1, <1>2, LivesSteady

LEMMA PopQuiet ==
    ASSUME TypeOK, FramesOK, Lives, NEW th \in Threads, stack[th] # <<>>,
           stack' = [stack EXCEPT ![th] = Tail(@)], Top(th).at \notin ActivePlaces,
           UNCHANGED records, connTok' \in {connTok, Null}
    PROVE  FramesOK' /\ Lives'
<1>1. FramesOK'
    BY PopFrames, Zenon DEF records
<1>2. ASSUME NEW t \in Tokens, kind[t] # "connect" PROVE Life(t)'
  <2>1. Life(t) /\ (Pending(t)' <=> Pending(t))
    BY <1>2 DEF Lives, Pending, records
  <2>2. Steady(t)
    BY PopSteady, Zenon
  <2>3. QED
    BY <2>1, <2>2, LifeSteady DEF records
<1>3. QED
    BY <1>1, <1>2, LivesSteady

LEMMA PushQuiet ==
    ASSUME TypeOK, FramesOK, Lives, NEW th \in Threads, NEW f \in Frames, Push(th, f),
           UNCHANGED records, connTok' = connTok,
           f.tok = Null \/ kind[f.tok] = "connect", f.at # "deliver"
    PROVE  FramesOK' /\ Lives'
<1>1. FramesOK'
  <2>1. FrameOK(f)'
    BY DEF FrameOK, records
  <2>2. connTok' = Null \/ kind'[connTok'] = "connect"
    BY DEF FramesOK, records
  <2>3. QED
    BY <2>1, <2>2, PushFrames DEF records
<1>2. ASSUME NEW t \in Tokens, kind[t] # "connect" PROVE Life(t)'
  <2>1. Life(t) /\ (Pending(t)' <=> Pending(t))
    BY <1>2 DEF Lives, Pending, records
  <2>2. f.tok # t
    BY <1>2, NullAssumption
  <2>3. Steady(t)
    BY <2>2, PushSteady
  <2>4. QED
    BY <2>1, <2>3, LifeSteady DEF records
<1>3. QED
    BY <1>1, <1>2, LivesSteady

\* A step of th keeps lock_ in the hands of another, gives it back, or takes it
\* for the moment.
LEMMA LockedStep ==
    ASSUME TypeOK, Locked, NEW th \in Threads,
           \A u \in Threads : u # th => stack'[u] = stack[u],
           \/ lock' = Null
           \/ lock' = lock /\ ~At(th, "unlock") /\ ~At(th, "deliver")
           \/ lock' = th /\ (At(th, "unlock")' \/ At(th, "deliver")')
    PROVE  Locked'
<1>1. CASE lock' = Null
    BY <1>1 DEF Locked
<1>2. CASE lock' = th /\ (At(th, "unlock")' \/ At(th, "deliver")')
    BY <1>2 DEF Locked, At
<1>3. CASE lock' = lock /\ lock # Null /\ ~At(th, "unlock") /\ ~At(th, "deliver")
  <2>1. lock \in Threads /\ lock # th
    BY <1>3 DEF TypeOK, Locked
  <2>2. stack'[lock] = stack[lock]
    BY <2>1
  <2>3. QED
    BY <1>3, <2>2 DEF Locked, At
<1>4. QED
    BY <1>1, <1>2, <1>3

-----------------------------------------------------------------------------
(* The steps.                                                              *)

\* The types of what the lists and the stacks do not depend on.
OthersOK ==
    /\ lock \in Threads \union {Null} /\ clib \in {Null, Cb}
    /\ connTok \in Tokens \union {Null} /\ userCallback \in BOOLEAN
    /\ installed \in BOOLEAN /\ connects \in Nat /\ reconnects \in Nat

LEMMA TypeRecords ==
    ASSUME TypeOK, OthersOK', UNCHANGED records, stack' \in [Threads -> Seq(Frames)]
    PROVE  TypeOK'
BY DEF TypeOK, OthersOK, records

\* Steps of a call that only go on.
LEMMA GotoStep ==
    ASSUME ClientInv, NEW th \in Threads,
           \/ SendRefused(th) \/ RemoveNothing(th) \/ Unlock(th) \/ StoreCallback(th)
           \/ InstallCallbacks(th) /\ Goto(th, "unset") /\ UNCHANGED clib
           \/ UserReturns(th) /\ ~At(th, "event")
           \/ Removed(th) /\ Top(th).call = "connected"
    PROVE  ClientInv'
<1> USE DEF ClientInv
<1>1. /\ stack[th] # <<>>
      /\ \E place \in Places \ {"deliver"} :
            /\ Goto(th, place)
            /\ \/ Top(th).at \in HoldingPlaces /\ place \in HoldingPlaces
               \/ Top(th).at \notin ActivePlaces /\ place \notin ActivePlaces
               \/ TokOf(Top(th)) = Null
      /\ \/ lock' = Null
         \/ lock' = lock /\ ~At(th, "unlock") /\ ~At(th, "deliver")
      /\ UNCHANGED records /\ connTok' = connTok
      /\ clib' = clib /\ connects' = connects /\ reconnects' = reconnects
      /\ userCallback' \in BOOLEAN /\ installed' \in BOOLEAN
  <2>1. \/ At(th, "send") /\ Goto(th, "remove")
        \/ At(th, "remove") /\ Goto(th, "removed") /\ TokOf(Top(th)) = Null
        \/ At(th, "unlock") /\ Goto(th, "removed") /\ lock' = Null
        \/ At(th, "set") /\ Goto(th, "install")
        \/ At(th, "install") /\ Goto(th, "unset")
        \/ At(th, "listener") /\ Goto(th, "remove")
        \/ At(th, "delivery") /\ Goto(th, "removed")
        \/ At(th, "removed") /\ Goto(th, "event")
    BY DEF SendRefused, RemoveNothing, Unlock, StoreCallback, InstallCallbacks, UserReturns,
           Removed, At, Top
  <2>2. /\ stack[th] # <<>>
        /\ \E place \in Places \ {"deliver"} :
              /\ Goto(th, place)
              /\ \/ Top(th).at \in HoldingPlaces /\ place \in HoldingPlaces
                 \/ Top(th).at \notin ActivePlaces /\ place \notin ActivePlaces
                 \/ TokOf(Top(th)) = Null
    <3>1. /\ {"remove", "removed", "install", "unset", "event"} \subseteq Places \ {"deliver"}
          /\ {"send", "listener", "remove"} \subseteq HoldingPlaces
      BY DEF Places, UserCode, HoldingPlaces
    <3>2. \A x \in {"unlock", "set", "install", "delivery", "removed", "unset", "event"} :
             x \notin ActivePlaces
      BY DEF ActivePlaces
    <3>3. \/ stack[th] # <<>> /\ Top(th).at = "send" /\ Goto(th, "remove")
          \/ stack[th] # <<>> /\ Goto(th, "removed") /\ TokOf(Top(th)) = Null
          \/ stack[th] # <<>> /\ Top(th).at \in {"unlock", "delivery"} /\ Goto(th, "removed")
          \/ stack[th] # <<>> /\ Top(th).at = "set" /\ Goto(th, "install")
          \/ stack[th] # <<>> /\ Top(th).at = "install" /\ Goto(th, "unset")
          \/ stack[th] # <<>> /\ Top(th).at = "listener" /\ Goto(th, "remove")
          \/ stack[th] # <<>> /\ Top(th).at = "removed" /\ Goto(th, "event")
      BY <2>1 DEF At, Top
    <3>4. QED
      BY <3>1, <3>2, <3>3
  <2>3. lock' = Null \/ (~At(th, "unlock") /\ ~At(th, "deliver"))
    BY <2>1 DEF At
  <2>4. lock' \in {lock, Null} /\ UNCHANGED records /\ connTok' = connTok
    BY DEF SendRefused, RemoveNothing, Unlock, StoreCallback, InstallCallbacks, UserReturns,
           Removed, records, lists, library, At, Top
  <2>5. clib' = clib /\ connects' = connects /\ reconnects' = reconnects
    BY DEF SendRefused, RemoveNothing, Unlock, StoreCallback, InstallCallbacks, UserReturns,
           Removed, library, At, Top
  <2>6. userCallback' \in BOOLEAN /\ installed' \in BOOLEAN
    BY Zenon DEF SendRefused, RemoveNothing, Unlock, StoreCallback, InstallCallbacks, UserReturns,
           Removed, library, TypeOK
  <2>7. QED
    BY <2>2, <2>3, <2>4, <2>5, <2>6
<1>2. PICK place \in Places \ {"deliver"} :
        /\ Goto(th, place)
        /\ \/ Top(th).at \in HoldingPlaces /\ place \in HoldingPlaces
           \/ Top(th).at \notin ActivePlaces /\ place \notin ActivePlaces
           \/ TokOf(Top(th)) = Null
    BY <1>1, Zenon
<1>3. stack' \in [Threads -> Seq(Frames)] /\ \A u \in Threads : u # th => stack'[u] = stack[u]
    BY <1>1, <1>2, GotoStack, Zenon
<1>4. TypeOK'
  <2>1. OthersOK'
    BY <1>1 DEF OthersOK, TypeOK
  <2>2. QED
    BY <1>1, <1>3, <2>1, TypeRecords, Zenon
<1>5. FramesOK' /\ Lives'
  <2>1. ASSUME NEW t \in Tokens, kind[t] # "connect", Top(th).tok = t
        PROVE  \/ Top(th).at \in HoldingPlaces /\ place \in HoldingPlaces
               \/ Top(th).at \notin ActivePlaces /\ place \notin ActivePlaces
    BY <1>1, <1>2, <2>1, TopLife, NullAssumption, Zenon
  <2>2. QED
    BY <1>1, <1>2, <2>1, GotoQuiet
<1>6. Locked'
    BY <1>1, <1>3, LockedStep
<1>7. QED
    BY <1>4, <1>5, <1>6

\* Calls that return or throw.
LEMMA ReturnStep ==
    ASSUME ClientInv, NEW th \in Threads,
           \/ Sent(th) \/ UnsetCallback(th)
           \/ InstallCallbacks(th) /\ Return(th)
           \/ UserReturns(th) /\ At(th, "event")
           \/ Removed(th) /\ Top(th).call # "connected"
    PROVE  ClientInv'
<1> USE DEF ClientInv
<1>1. /\ stack[th] # <<>> /\ Top(th).at \notin ActivePlaces
      /\ Return(th) /\ ~At(th, "unlock") /\ ~At(th, "deliver")
      /\ lock' = lock /\ UNCHANGED records /\ connTok' \in {connTok, Null}
      /\ connects' = connects /\ reconnects' = reconnects
      /\ userCallback' \in BOOLEAN /\ installed' \in BOOLEAN
  <2>1. /\ \E place \in {"sent", "unset", "install", "event", "removed"} : At(th, place)
        /\ Return(th)
    BY DEF Sent, UnsetCallback, InstallCallbacks, UserReturns, Removed, At, Top
  <2>2. /\ stack[th] # <<>> /\ Top(th).at \notin ActivePlaces
        /\ ~At(th, "unlock") /\ ~At(th, "deliver")
    BY <2>1 DEF At, Top, ActivePlaces
  <2>3. /\ lock' = lock /\ UNCHANGED records /\ connTok' \in {connTok, Null}
        /\ connects' = connects /\ reconnects' = reconnects
    BY DEF Sent, UnsetCallback, InstallCallbacks, UserReturns, Removed, records, lists, library
  <2>4. userCallback' \in BOOLEAN /\ installed' \in BOOLEAN
    BY Zenon DEF Sent, UnsetCallback, InstallCallbacks, UserReturns, Removed, library, TypeOK
  <2>5. QED
    BY <2>1, <2>2, <2>3, <2>4, Zenon
<1>2. stack' = [stack EXCEPT ![th] = Tail(@)] /\ clib' \in {Null, clib}
    BY <1>1 DEF Return
<1>3. stack' \in [Threads -> Seq(Frames)] /\ \A u \in Threads : u # th => stack'[u] = stack[u]
    BY <1>1, <1>2, PopStack, Zenon
<1>4. TypeOK'
  <2>1. OthersOK'
    BY <1>1, <1>2 DEF OthersOK, TypeOK
  <2>2. QED
    BY <1>1, <1>3, <2>1, TypeRecords
<1>5. FramesOK' /\ Lives'
    BY <1>1, <1>2, PopQuiet, Zenon
<1>6. Locked'
    BY <1>1, <1>3, LockedStep
<1>7. QED
    BY <1>4, <1>5, <1>6

\* Application code holds no lock.
LEMMA MayCallFree ==
    ASSUME NEW th \in Threads, MayCall(th)
    PROVE  ~At(th, "unlock") /\ ~At(th, "deliver")
BY DEF MayCall, At, Top, UserCode

\* Calls and callbacks that begin with the connect token or with none.
LEMMA PushStep ==
    ASSUME ClientInv, NEW th \in Threads,
           SetCallback(th) \/ Reconnect(th) \/ (th = Cb /\ OnConnected)
    PROVE  ClientInv'
<1> USE DEF ClientInv
<1>1. \E f \in Frames : /\ Push(th, f) /\ f.at # "deliver"
                        /\ f.tok = Null \/ kind[f.tok] = "connect"
  <2> DEFINE frame(c, p, x) == [call |-> c, at |-> p, tok |-> x]
  <2>1. connTok \in Tokens \union {Null} /\ (connTok = Null \/ kind[connTok] = "connect")
    BY DEF TypeOK, FramesOK
  <2>2. CASE SetCallback(th)
    <3>1. Push(th, frame("set_callback", "set", Null))
      BY <2>2 DEF SetCallback
    <3>2. frame("set_callback", "set", Null) \in Frames
      BY DEF Frames, Calls, Places
    <3>3. QED
      BY <3>1, <3>2
  <2>3. CASE Reconnect(th)
    <3>1. Push(th, frame("reconnect", "add", connTok))
      BY <2>3 DEF Reconnect
    <3>2. frame("reconnect", "add", connTok) \in Frames
      BY <2>1 DEF Frames, Calls, Places
    <3>3. QED
      BY <2>1, <3>1, <3>2
  <2>4. CASE th = Cb /\ OnConnected
    <3> DEFINE p == IF connTok = Null THEN "event" ELSE "listener"
    <3>1. Push(th, frame("connected", p, connTok))
      BY <2>4 DEF OnConnected
    <3>2. frame("connected", p, connTok) \in Frames
      BY <2>1 DEF Frames, Calls, Places, UserCode
    <3>3. QED
      BY <2>1, <3>1, <3>2
  <2>5. QED
    BY <2>2, <2>3, <2>4
<1>2. PICK f \in Frames : /\ Push(th, f) /\ f.at # "deliver"
                          /\ f.tok = Null \/ kind[f.tok] = "connect"
    BY <1>1
<1>3. ~At(th, "unlock") /\ ~At(th, "deliver")
  <2>1. MayCall(th) \/ stack[th] = <<>>
    BY DEF SetCallback, Reconnect, OnConnected
  <2>2. QED
    BY <2>1, MayCallFree DEF At
<1>4. /\ lock' = lock /\ UNCHANGED records /\ connTok' = connTok
      /\ userCallback' = userCallback /\ installed' = installed
    BY DEF SetCallback, Reconnect, OnConnected, records, lists, library
<1>5. clib' \in {Null, Cb} /\ connects' \in Nat /\ reconnects' \in Nat
    BY DEF SetCallback, Reconnect, OnConnected, library, TypeOK
<1>6. stack' \in [Threads -> Seq(Frames)] /\ \A u \in Threads : u # th => stack'[u] = stack[u]
    BY <1>2, PushStack
<1>7. TypeOK'
  <2>1. OthersOK'
    BY <1>4, <1>5 DEF OthersOK, TypeOK
  <2>2. QED
    BY <1>4, <1>6, <2>1, TypeRecords
<1>8. FramesOK' /\ Lives'
    BY <1>2, <1>4, PushQuiet
<1>9. Locked'
    BY <1>3, <1>4, <1>6, LockedStep
<1>10. QED
    BY <1>7, <1>8, <1>9

\* A call that creates its token: nobody has it yet.
LEMMA BeginStep ==
    ASSUME ClientInv, NEW th \in Threads, NEW k \in Actions, NEW t \in Tokens, Begin(th, k, t)
    PROVE  ClientInv'
<1> USE DEF ClientInv
<1>1. PICK f \in Frames : f = [call |-> k, at |-> "add", tok |-> t]
  <2>1. [call |-> k, at |-> "add", tok |-> t] \in Frames
    BY DEF Frames, Calls, Places
  <2>2. QED
    BY <2>1
<1>2. UNCHANGED <<lock, clib, pendingTokens, pendingDeliveryTokens, userCallback, requests,
                  installed, connects, reconnects, delivered>>
    BY DEF Begin, lists, library
<1>3. /\ MayCall(th) /\ kind[t] = "none" /\ Push(th, f)
      /\ f.tok = t /\ f.at = "add" /\ f.call = k
      /\ kind' = [kind EXCEPT ![t] = k]
      /\ connTok' = IF k = "connect" THEN t ELSE connTok
    BY <1>1 DEF Begin
<1>4. /\ kind \in [Tokens -> Actions \union {"none"}] /\ kind' \in [Tokens -> Actions \union {"none"}]
      /\ kind'[t] = k /\ \A u \in Tokens : u # t => kind'[u] = kind[u]
    BY <1>3 DEF TypeOK
<1>5. k # "none" /\ k # "reconnect" /\ "none" \notin Publications /\ "connect" \notin Publications
    BY DEF Actions, Publications
<1>6. stack' \in [Threads -> Seq(Frames)] /\ \A u \in Threads : u # th => stack'[u] = stack[u]
    BY <1>3, PushStack
<1>7. TypeOK'
  <2>1. OthersOK'
    BY <1>2, <1>3 DEF OthersOK, TypeOK
  <2>2. pendingDeliveryTokens' \subseteq {u \in Tokens : kind'[u] \in Publications}
    BY <1>2, <1>3, <1>4, <1>5 DEF TypeOK
  <2>3. QED
    BY <1>2, <1>4, <1>6, <2>1, <2>2 DEF TypeOK, OthersOK
<1>8. FramesOK'
  <2>1. \A u \in Tokens : kind[u] # "none" => kind'[u] = kind[u]
    BY <1>3, <1>4
  <2>2. FrameOK(f)'
    BY <1>3, <1>4, <1>5 DEF FrameOK
  <2>3. connTok' = Null \/ kind'[connTok'] = "connect"
    BY <1>3, <1>4, <2>1 DEF FramesOK, TypeOK
  <2>4. QED
    BY <1>3, <2>1, <2>2, <2>3, PushFrames
<1>9. /\ Life(t) /\ t \notin requests /\ ~Busy(t) /\ ~Held(t) /\ ~Pending(t)
      /\ delivered[t] = 0 /\ pendingTokens[t] <= 1
  <2>1. Life(t) /\ t \notin requests
    BY <1>3, Zenon DEF Lives
  <2>2. ~InProgress(t, Places)
    <3>1. \A u \in Threads : \A i \in DOMAIN stack[u] : stack[u][i].tok # t
      BY <1>3, NullAssumption DEF FramesOK, FrameOK
    <3>2. QED
      BY <3>1 DEF InProgress
  <2>3. ~Busy(t) /\ ~Held(t)
    BY <2>2 DEF Busy, Held, InProgress, ActivePlaces, HoldingPlaces, Places, UserCode
  <2>4. delivered[t] \in Nat
    BY DEF TypeOK
  <2>5. ~Pending(t) /\ pendingTokens[t] <= 1
    BY <2>1, <2>3 DEF Life
  <2>6. ~(delivered[t] > 0)
    BY <1>3, <2>1 DEF Life
  <2>7. delivered[t] = 0
    BY <2>4, <2>6
  <2>8. QED
    BY <2>1, <2>3, <2>5, <2>7, Zenon
<1>10. ASSUME NEW u \in Tokens, kind'[u] # "connect" PROVE Life(u)'
  <2>1. CASE u # t
    <3>1. Steady(u)
      BY <1>3, <2>1, PushSteady
    <3>2. Life(u) /\ kind'[u] = kind[u] /\ (Pending(u)' <=> Pending(u))
      BY <1>2, <1>4, <1>10, <2>1 DEF Lives, Pending
    <3>3. QED
      BY <1>2, <3>1, <3>2, LifeSteady, Zenon
  <2>2. CASE u = t
    <3>1. "add" \in ActivePlaces /\ "add" \notin HoldingPlaces
      BY DEF ActivePlaces, HoldingPlaces
    <3>2. Moves(t, "add")
      BY <1>3, <1>9, <3>1, PushMoves, Zenon
    <3>3. ~Pending(t)'
      BY <1>2, <1>9 DEF Pending
    <3>4. t \notin requests' /\ ~(delivered'[t] > 0) /\ pendingTokens'[t] <= 1
      <4>1. requests' = requests /\ delivered' = delivered /\ pendingTokens' = pendingTokens
        BY <1>2
      <4>2. ~(delivered[t] > 0)
        BY <1>9
      <4>3. QED
        BY <1>9, <4>1, <4>2, Zenon
    <3>5. QED
      BY <2>2, <3>1, <3>2, <3>3, <3>4, LifeMoves
  <2>3. QED
    BY <2>1, <2>2
<1>11. Lives'
  <2>1. \A u \in Tokens : u \in requests' => kind'[u] # "none"
    BY <1>2, <1>4, <1>5 DEF Lives
  <2>2. \A u \in Tokens : kind'[u] = "connect" => delivered'[u] = 0
    BY <1>2, <1>4, <1>9 DEF Lives
  <2>3. QED
    BY <1>10, <2>1, <2>2 DEF Lives
<1>12. Locked'
    BY <1>2, <1>3, <1>6, MayCallFree, LockedStep
<1>13. QED
    BY <1>7, <1>8, <1>11, <1>12

\* The tokens that are not connect tokens after a step of a call to another
\* place, when the token of the call moves and no other is touched.
LEMMA GotoLives ==
    ASSUME TypeOK, FramesOK, Lives, NEW th \in Threads, stack[th] # <<>>,
           NEW place \in Places, Goto(th, place), kind' = kind, Top(th).at \in ActivePlaces,
           \A u \in Tokens : kind[u] # "connect" /\ Top(th).tok # u =>
               /\ u \in requests' <=> u \in requests
               /\ delivered'[u] = delivered[u] /\ pendingTokens'[u] = pendingTokens[u]
               /\ Pending(u)' <=> Pending(u),
           \A u \in Tokens : kind[u] # "connect" /\ Top(th).tok = u =>
               /\ pendingTokens'[u] <= 1
               /\ u \in requests' => place \notin ActivePlaces
               /\ delivered'[u] > 0 => /\ delivered'[u] = 1 /\ kind[u] = "publish1"
                                       /\ u \notin requests' /\ place \notin ActivePlaces
               /\ Pending(u)' <=> u \in requests' \/ place \in HoldingPlaces,
           \A u \in Tokens : /\ u \in requests' => kind[u] # "none"
                             /\ kind[u] = "connect" => delivered'[u] = 0
    PROVE  Lives'
<1>1. ASSUME NEW u \in Tokens, kind[u] # "connect" PROVE Life(u)'
  <2>1. Life(u)
    BY <1>1 DEF Lives
  <2>2. CASE Top(th).tok # u
    <3>1. Steady(u)
      BY <2>2, GotoSteady
    <3>2. QED
      BY <1>1, <2>1, <2>2, <3>1, LifeSteady
  <2>3. CASE Top(th).tok = u
    <3>1. Moves(u, place)
      BY <2>1, <2>3, GotoMoves, Zenon DEF Life
    <3>2. QED
      BY <1>1, <2>3, <3>1, LifeMoves
  <2>4. QED
    BY <2>2, <2>3
<1>2. QED
    BY <1>1 DEF Lives

LEMMA AddTokenStep ==
    ASSUME ClientInv, NEW th \in Threads, AddToken(th)
    PROVE  ClientInv'
<1> USE DEF ClientInv
<1> DEFINE t == TokOf(Top(th))
<1>1. /\ stack[th] # <<>> /\ Top(th).at = "add" /\ ~At(th, "unlock") /\ ~At(th, "deliver")
      /\ Goto(th, "send")
    BY Zenon DEF AddToken, At, Top
<1>2. UNCHANGED <<lock, clib, connTok, userCallback, kind, requests, installed, connects,
                  reconnects, delivered>>
    BY DEF AddToken, library
<1>3. \/ /\ t \in Tokens /\ kind[t] \in Publications
         /\ pendingDeliveryTokens' = pendingDeliveryTokens \union {t}
         /\ pendingTokens' = pendingTokens
      \/ /\ ~(t \in Tokens /\ kind[t] \in Publications)
         /\ pendingTokens' = [u \in Tokens |-> IF u = t THEN pendingTokens[u] + 1
                                               ELSE pendingTokens[u]]
         /\ pendingDeliveryTokens' = pendingDeliveryTokens
  <2>1. t \in Tokens \union {Null} /\ Null \notin Tokens
    BY <1>1, TopLife, NullAssumption, Zenon
  <2>2. QED
    BY <2>1 DEF AddToken
<1>4. /\ "send" \in Places /\ "add" \in ActivePlaces \ HoldingPlaces /\ "send" \in HoldingPlaces
      /\ "connect" \notin Publications /\ "add" \in ActivePlaces
    BY DEF Places, ActivePlaces, HoldingPlaces, Publications
<1>5. stack' \in [Threads -> Seq(Frames)] /\ \A u \in Threads : u # th => stack'[u] = stack[u]
    BY <1>1, <1>4, GotoStack
<1> HIDE DEF t
<1>6. TypeOK'
  <2>1. OthersOK'
    BY <1>2 DEF OthersOK, TypeOK
  <2>2. pendingTokens' \in [Tokens -> Nat]
    BY <1>3 DEF TypeOK
  <2>3. pendingDeliveryTokens' \subseteq {u \in Tokens : kind'[u] \in Publications}
    BY <1>2, <1>3 DEF TypeOK
  <2>4. QED
    BY <1>2, <1>5, <2>1, <2>2, <2>3 DEF TypeOK, OthersOK
<1>7. FramesOK'
    BY <1>1, <1>2, <1>4, GotoFrames
<1>8. ASSUME NEW u \in Tokens, kind[u] # "connect", Top(th).tok # u
      PROVE  pendingTokens'[u] = pendingTokens[u] /\ (Pending(u)' <=> Pending(u))
  <2>1. t # u
    BY <1>1, <1>8, TopLife DEF t
  <2>2. QED
    BY <1>3, <2>1 DEF Pending
<1>9. ASSUME NEW u \in Tokens, kind[u] # "connect", Top(th).tok = u
      PROVE  pendingTokens'[u] <= 1 /\ Pending(u)' /\ u \notin requests' /\ delivered'[u] = 0
  <2>1. t = u /\ ~Pending(u) /\ u \notin requests /\ delivered[u] = 0
    BY <1>1, <1>4, <1>9, TopLife DEF t
  <2>2. pendingTokens[u] = 0
    BY <2>1 DEF Pending, TypeOK
  <2>3. pendingTokens'[u] <= 1 /\ Pending(u)'
    BY <1>3, <2>1, <2>2 DEF Pending
  <2>4. QED
    BY <1>2, <2>1, <2>3
<1>10. Lives'
  <2>1. \A u \in Tokens : /\ u \in requests' => kind[u] # "none"
                          /\ kind[u] = "connect" => delivered'[u] = 0
    BY <1>2 DEF Lives
  <2>2. \A u \in Tokens : kind[u] # "connect" /\ Top(th).tok # u =>
               /\ u \in requests' <=> u \in requests
               /\ delivered'[u] = delivered[u] /\ pendingTokens'[u] = pendingTokens[u]
               /\ Pending(u)' <=> Pending(u)
    BY <1>2, <1>8
  <2>3. \A u \in Tokens : kind[u] # "connect" /\ Top(th).tok = u =>
               /\ pendingTokens'[u] <= 1 /\ Pending(u)' /\ u \notin requests'
               /\ ~(delivered'[u] > 0)
    BY <1>9
  <2>4. QED
    BY <1>1, <1>2, <1>4, <2>1, <2>2, <2>3, GotoLives
<1>11. Locked'
    BY <1>1, <1>2, <1>5, LockedStep
<1>12. QED
    BY <1>6, <1>7, <1>10, <1>11

LEMMA SendAcceptedStep ==
    ASSUME ClientInv, NEW th \in Threads, SendAccepted(th)
    PROVE  ClientInv'
<1> USE DEF ClientInv
<1> DEFINE t == TokOf(Top(th))
<1>1. /\ stack[th] # <<>> /\ Top(th).at = "send" /\ ~At(th, "unlock") /\ ~At(th, "deliver")
      /\ Goto(th, "sent")
    BY DEF SendAccepted, At, Top
<1>2. /\ UNCHANGED <<lock, clib, connTok, userCallback, kind, pendingTokens,
                     pendingDeliveryTokens, reconnects, delivered>>
      /\ requests' = IF Top(th).call = "reconnect" THEN requests
                     ELSE requests \union ({t} \ {Null})
    BY DEF SendAccepted, lists
<1>3. installed' \in BOOLEAN /\ connects' \in Nat
  <2>1. installed' \in {TRUE, installed} /\ connects' \in {connects, connects + 1}
    BY Zenon DEF SendAccepted
  <2>2. installed \in BOOLEAN /\ connects \in Nat
    BY DEF TypeOK
  <2>3. connects' \in Nat
    BY <2>1, <2>2
  <2>4. installed' \in BOOLEAN
    BY <2>1, <2>2, Zenon
  <2>5. QED
    BY <2>3, <2>4
<1>4. /\ "sent" \in Places /\ "sent" \notin ActivePlaces /\ "sent" \notin HoldingPlaces
      /\ "send" \in ActivePlaces /\ "send" \in HoldingPlaces
    BY DEF Places, ActivePlaces, HoldingPlaces
<1>5. stack' \in [Threads -> Seq(Frames)] /\ \A u \in Threads : u # th => stack'[u] = stack[u]
    BY <1>1, <1>4, GotoStack
<1>6. t \in Tokens \union {Null} /\ (t = Null \/ kind[t] # "none")
  <2>1. FrameOK(Top(th)) /\ t \in Tokens \union {Null}
    BY <1>1, TopLife, Zenon
  <2>2. QED
    BY <2>1 DEF FrameOK, FramesOK, TokOf
<1> HIDE DEF t
<1>7. TypeOK'
  <2>1. OthersOK'
    BY <1>2, <1>3 DEF OthersOK, TypeOK
  <2>2. requests' \subseteq Tokens
    BY <1>2, <1>6 DEF TypeOK
  <2>3. QED
    BY <1>2, <1>5, <2>1, <2>2 DEF TypeOK, OthersOK
<1>8. FramesOK'
    BY <1>1, <1>2, <1>4, GotoFrames, Zenon
<1>9. ASSUME NEW u \in Tokens PROVE Pending(u)' <=> Pending(u)
    BY <1>2 DEF Pending
<1>10. ASSUME NEW u \in Tokens, kind[u] # "connect", Top(th).tok # u
       PROVE  u \in requests' <=> u \in requests
  <2>1. t # u
    BY <1>1, <1>10, TopLife, Zenon DEF t
  <2>2. QED
    BY <1>2, <2>1
<1>11. ASSUME NEW u \in Tokens, kind[u] # "connect", Top(th).tok = u
       PROVE  /\ pendingTokens'[u] <= 1 /\ u \in requests' /\ Pending(u)'
              /\ ~(delivered'[u] > 0)
  <2>1. t = u /\ Top(th).call # "reconnect" /\ Pending(u) /\ delivered[u] = 0
    BY <1>1, <1>4, <1>11, TopLife, Zenon DEF t
  <2>2. u \in requests' /\ ~(delivered'[u] > 0)
    BY <1>2, <2>1, NullAssumption
  <2>3. pendingTokens[u] <= 1
    BY <1>11 DEF Lives, Life
  <2>4. QED
    BY <1>2, <1>9, <2>1, <2>2, <2>3
<1>12. Lives'
  <2>1. \A u \in Tokens : /\ u \in requests' => kind[u] # "none"
                          /\ kind[u] = "connect" => delivered'[u] = 0
    BY <1>2, <1>6 DEF Lives
  <2>2. QED
    BY <1>1, <1>2, <1>4, <1>9, <1>10, <1>11, <2>1, GotoLives, Zenon
<1>13. Locked'
    BY <1>1, <1>2, <1>5, LockedStep
<1>14. QED
    BY <1>7, <1>8, <1>12, <1>13

LEMMA RemoveTokenStep ==
    ASSUME ClientInv, NEW th \in Threads, RemoveToken(th)
    PROVE  ClientInv'
<1> USE DEF ClientInv
<1> DEFINE t == TokOf(Top(th))
<1>1. /\ stack[th] # <<>> /\ Top(th).at = "remove" /\ t # Null /\ lock' = th
      /\ pendingDeliveryTokens' = pendingDeliveryTokens \ {t}
      /\ pendingTokens' = [u \in Tokens |-> IF u = t /\ pendingTokens[u] > 0
                                            THEN pendingTokens[u] - 1 ELSE pendingTokens[u]]
    BY Zenon DEF RemoveToken, At, Top
<1>2. UNCHANGED <<clib, connTok, userCallback, kind, requests, installed, connects,
                  reconnects, delivered>>
    BY DEF RemoveToken, library
<1>3. PICK place \in {"deliver", "unlock"} :
        /\ Goto(th, place)
        /\ place = "deliver" => t \in pendingDeliveryTokens /\ kind[t] = "publish1"
    BY DEF RemoveToken
<1>4. /\ place \in Places /\ place \notin HoldingPlaces
      /\ "remove" \in ActivePlaces /\ "remove" \in HoldingPlaces
    BY <1>3 DEF Places, ActivePlaces, HoldingPlaces
<1>5. /\ stack' \in [Threads -> Seq(Frames)] /\ stack'[th] # <<>>
      /\ Head(stack'[th]).at = place /\ \A u \in Threads : u # th => stack'[u] = stack[u]
  <2>1. /\ stack' \in [Threads -> Seq(Frames)] /\ \A u \in Threads : u # th => stack'[u] = stack[u]
        /\ stack'[th] # <<>> /\ stack'[th][1] = Head(stack'[th]) /\ stack'[th][1].at = place
    BY <1>1, <1>3, <1>4, GotoStack
  <2>2. QED
    BY <2>1
<1>6. place = "deliver" => /\ Top(th).call # "connect" /\ Top(th).tok \in Tokens
                           /\ kind[Top(th).tok] = "publish1"
  <2>1. ASSUME place = "deliver" PROVE Top(th).tok = t /\ Top(th).call # "connect" /\ t \in Tokens
    <3>1. t \in Tokens /\ kind[t] # "connect"
      BY <1>3, <2>1 DEF TypeOK
    <3>2. QED
      BY <1>1, <3>1, TopLife, Zenon
  <2>2. QED
    BY <1>3, <2>1
<1> HIDE DEF t
<1>7. TypeOK'
  <2>1. OthersOK'
    BY <1>1, <1>2 DEF OthersOK, TypeOK
  <2>2. pendingTokens' \in [Tokens -> Nat]
    BY <1>1 DEF TypeOK
  <2>3. pendingDeliveryTokens' \subseteq {u \in Tokens : kind'[u] \in Publications}
    BY <1>1, <1>2 DEF TypeOK
  <2>4. QED
    BY <1>2, <1>5, <2>1, <2>2, <2>3 DEF TypeOK, OthersOK
<1>8. FramesOK'
    BY <1>1, <1>2, <1>3, <1>4, <1>6, GotoFrames
<1>9. ASSUME NEW u \in Tokens, kind[u] # "connect", Top(th).tok # u
      PROVE  pendingTokens'[u] = pendingTokens[u] /\ (Pending(u)' <=> Pending(u))
  <2>1. t # u
    BY <1>1, <1>9, TopLife, Zenon DEF t
  <2>2. QED
    BY <1>1, <2>1 DEF Pending
<1>10. ASSUME NEW u \in Tokens, kind[u] # "connect", Top(th).tok = u
       PROVE  pendingTokens'[u] <= 1 /\ ~Pending(u)' /\ u \notin requests' /\ ~(delivered'[u] > 0)
  <2>1. t = u /\ u \notin requests /\ delivered[u] = 0
    BY <1>1, <1>4, <1>10, TopLife DEF t
  <2>2. pendingTokens[u] <= 1 /\ pendingTokens[u] \in Nat
    BY <1>10 DEF Lives, Life, TypeOK
  <2>3. pendingTokens'[u] = 0 /\ u \notin pendingDeliveryTokens'
    BY <1>1, <2>1, <2>2
  <2>4. QED
    BY <1>2, <2>1, <2>3 DEF Pending
<1>11. Lives'
  <2>1. \A u \in Tokens : /\ u \in requests' => kind[u] # "none"
                          /\ kind[u] = "connect" => delivered'[u] = 0
    BY <1>2 DEF Lives
  <2>2. QED
    BY <1>1, <1>2, <1>3, <1>4, <1>9, <1>10, <2>1, GotoLives, Zenon
<1>12. Locked'
  <2>1. At(th, "unlock")' \/ At(th, "deliver")'
    BY <1>3, <1>5, Zenon DEF At
  <2>2. QED
    BY <1>1, <1>5, <2>1, LockedStep, Zenon
<1>13. QED
    BY <1>7, <1>8, <1>11, <1>12

LEMMA DeliverStep ==
    ASSUME ClientInv, NEW th \in Threads, Deliver(th)
    PROVE  ClientInv'
<1> USE DEF ClientInv
<1>1. /\ stack[th] # <<>> /\ Top(th).at = "deliver" /\ lock' = Null /\ Goto(th, "delivery")
      /\ delivered' = [delivered EXCEPT ![TokOf(Top(th))] = @ + 1]
    BY Zenon DEF Deliver, At, Top
<1>2. UNCHANGED <<clib, connTok, userCallback, kind, pendingTokens, pendingDeliveryTokens,
                  requests, installed, connects, reconnects>>
    BY DEF Deliver, lists, library
<1>3. PICK t \in Tokens : /\ Top(th).tok = t /\ TokOf(Top(th)) = t /\ kind[t] = "publish1"
  <2>1. FrameOK(Top(th))
    BY <1>1, TopLife
  <2>2. QED
    BY <1>1, <2>1 DEF FrameOK, TokOf
<1>4. /\ "delivery" \in Places /\ "delivery" \notin ActivePlaces
      /\ "delivery" \notin HoldingPlaces
      /\ "deliver" \in ActivePlaces /\ "deliver" \in ActivePlaces \ HoldingPlaces
    BY DEF Places, UserCode, ActivePlaces, HoldingPlaces
<1>5. stack' \in [Threads -> Seq(Frames)] /\ \A u \in Threads : u # th => stack'[u] = stack[u]
    BY <1>1, <1>4, GotoStack
<1>6. t \notin requests /\ delivered[t] = 0 /\ ~Pending(t) /\ pendingTokens[t] <= 1
  <2>1. kind[t] # "connect"
    BY <1>3
  <2>2. QED
    BY <1>1, <1>3, <1>4, <2>1, TopLife, Zenon DEF Lives, Life
<1>7. /\ delivered' \in [Tokens -> Nat] /\ delivered'[t] = 1
      /\ \A u \in Tokens : u # t => delivered'[u] = delivered[u]
    BY <1>1, <1>3, <1>6 DEF TypeOK
<1>8. TypeOK'
  <2>1. OthersOK'
    BY <1>1, <1>2 DEF OthersOK, TypeOK
  <2>2. QED
    BY <1>2, <1>5, <1>7, <2>1 DEF TypeOK, OthersOK
<1>9. FramesOK'
    BY <1>1, <1>2, <1>4, GotoFrames, Zenon
<1>10. ASSUME NEW u \in Tokens PROVE Pending(u)' <=> Pending(u)
    BY <1>2 DEF Pending
<1>11. Lives'
  <2>1. \A u \in Tokens : /\ u \in requests' => kind[u] # "none"
                          /\ kind[u] = "connect" => delivered'[u] = 0
    BY <1>2, <1>3, <1>7 DEF Lives
  <2>2. \A u \in Tokens : Top(th).tok = u => u = t
    BY <1>3
  <2>3. \A u \in Tokens : kind[u] # "connect" /\ Top(th).tok # u =>
               /\ u \in requests' <=> u \in requests
               /\ delivered'[u] = delivered[u] /\ pendingTokens'[u] = pendingTokens[u]
               /\ Pending(u)' <=> Pending(u)
    BY <1>2, <1>3, <1>7, <1>10, Zenon
  <2>4. /\ pendingTokens'[t] <= 1 /\ t \notin requests' /\ ~Pending(t)'
    BY <1>2, <1>6, <1>10, Zenon
  <2>5. \A u \in Tokens : kind[u] # "connect" /\ Top(th).tok = u =>
               /\ pendingTokens'[u] <= 1 /\ u \notin requests' /\ ~Pending(u)'
               /\ delivered'[u] = 1 /\ kind[u] = "publish1"
    BY <1>3, <1>7, <2>2, <2>4
  <2>6. \A u \in Tokens : kind[u] # "connect" /\ Top(th).tok = u =>
               /\ pendingTokens'[u] <= 1
               /\ u \in requests' => "delivery" \notin ActivePlaces
               /\ delivered'[u] > 0 => /\ delivered'[u] = 1 /\ kind[u] = "publish1"
                                       /\ u \notin requests' /\ "delivery" \notin ActivePlaces
               /\ Pending(u)' <=> u \in requests' \/ "delivery" \in HoldingPlaces
    BY <1>4, <2>5, Zenon
  <2>7. kind' = kind /\ Top(th).at \in ActivePlaces
    BY <1>1, <1>2, <1>4, Zenon
  <2>8. QED
    BY <1>1, <1>4, <2>1, <2>3, <2>6, <2>7, GotoLives, Zenon
<1>12. Locked'
    BY <1>1, <1>5, LockedStep
<1>13. QED
    BY <1>8, <1>9, <1>11, <1>12

\* The C library hands a token over to the handler of its answer.
LEMMA ReportStep ==
    ASSUME ClientInv, NEW t \in Tokens, NEW ok \in BOOLEAN, Report(t, ok)
    PROVE  ClientInv'
<1> USE DEF ClientInv
<1>1. PICK f \in Frames : f = [call |-> IF ok THEN "on_success" ELSE "on_failure",
                               at |-> "listener", tok |-> t]
  <2>1. [call |-> IF ok THEN "on_success" ELSE "on_failure", at |-> "listener", tok |-> t] \in Frames
    BY DEF Frames, Calls, Places, UserCode
  <2>2. QED
    BY <2>1
<1>2. /\ stack[Cb] = <<>> /\ t \in requests /\ requests' = requests \ {t} /\ Push(Cb, f)
      /\ f.tok = t /\ f.at = "listener" /\ f.call \in {"on_success", "on_failure"}
      /\ clib' \in {Null, Cb}
      /\ connects' \in {connects, connects + 1}
    BY <1>1 DEF Report
<1>3. UNCHANGED <<lock, connTok, userCallback, kind, pendingTokens, pendingDeliveryTokens,
                  installed, reconnects, delivered>>
    BY DEF Report, lists
<1>4. Cb \in Threads /\ kind[t] # "none"
    BY <1>2 DEF Threads, Lives
<1>5. /\ "listener" \in ActivePlaces /\ "listener" \in HoldingPlaces
    BY DEF ActivePlaces, HoldingPlaces
<1>6. stack' \in [Threads -> Seq(Frames)] /\ \A u \in Threads : u # Cb => stack'[u] = stack[u]
    BY <1>2, <1>4, PushStack
<1>7. TypeOK'
  <2>1. connects' \in Nat /\ requests' \subseteq Tokens
    <3>1. connects \in Nat /\ requests \subseteq Tokens
      BY DEF TypeOK
    <3>2. connects' \in Nat
      BY <1>2, <3>1
    <3>3. QED
      BY <1>2, <3>1, <3>2, Zenon
  <2>2. QED
    BY <1>2, <1>3, <1>6, <2>1 DEF TypeOK
<1>8. FramesOK'
  <2>1. FrameOK(f)'
    BY <1>2, <1>3, <1>4, Zenon DEF FrameOK
  <2>2. connTok' = Null \/ kind'[connTok'] = "connect"
    BY <1>3 DEF FramesOK
  <2>3. QED
    BY <1>2, <1>3, <1>4, <2>1, <2>2, PushFrames, Zenon
<1>9. ASSUME NEW u \in Tokens, kind[u] # "connect" PROVE Life(u)'
  <2>1. Life(u) /\ (Pending(u)' <=> Pending(u))
    BY <1>3, <1>9, Zenon DEF Lives, Pending
  <2>2. CASE u # t
    <3>1. Steady(u)
      BY <1>2, <1>4, <2>2, PushSteady
    <3>2. QED
      BY <1>2, <1>3, <2>1, <2>2, <3>1, LifeSteady
  <2>3. CASE u = t
    <3>1. ~Busy(t) /\ Pending(t) /\ pendingTokens[t] <= 1 /\ ~(delivered[t] > 0)
      BY <1>2, <2>1, <2>3, Zenon DEF Life
    <3>2. Moves(t, "listener")
      BY <1>2, <1>4, <1>5, <3>1, PushMoves, Zenon
    <3>3. /\ t \notin requests' /\ ~(delivered'[t] > 0) /\ pendingTokens'[t] <= 1
          /\ Pending(t)'
      BY <1>2, <1>3, <2>1, <2>3, <3>1
    <3>4. QED
      BY <1>5, <2>3, <3>2, <3>3, LifeMoves
  <2>4. QED
    BY <2>2, <2>3
<1>10. Lives'
    BY <1>2, <1>3, <1>9, Zenon DEF Lives
<1>11. Locked'
  <2>1. ~At(Cb, "unlock") /\ ~At(Cb, "deliver")
    BY <1>2 DEF At
  <2>2. QED
    BY <1>3, <1>4, <1>6, <2>1, LockedStep
<1>12. QED
    BY <1>7, <1>8, <1>10, <1>11

-----------------------------------------------------------------------------
(* The invariant, and what follows from it.                                *)

LEMMA ClientInit == Init => ClientInv
<1>1. SUFFICES ASSUME Init PROVE ClientInv
    OBVIOUS
<1>2. stack = [th \in Threads |-> <<>>] /\ \A th \in Threads : DOMAIN stack[th] = {}
    BY <1>1 DEF Init
<1>3. TypeOK
  <2>1. <<>> \in Seq(Frames)
    OBVIOUS
  <2>2. stack \in [Threads -> Seq(Frames)]
    BY <1>2, <2>1
  <2>3. QED
    BY <1>1, <2>2, Zenon DEF Init, TypeOK
<1>4. FramesOK
    BY <1>1, <1>2 DEF FramesOK, Init
<1>5. \A t \in Tokens : Sole(t) /\ ~Busy(t) /\ ~Held(t)
    BY <1>2 DEF Sole, Busy, Held, InProgress
<1>6. \A t \in Tokens : Life(t)
    BY <1>1, <1>5 DEF Life, Pending, Init
<1>7. Lives
    BY <1>1, <1>6 DEF Lives, Init
<1>8. Locked
    BY <1>1 DEF Locked, Init
<1>9. QED
    BY <1>3, <1>4, <1>7, <1>8 DEF ClientInv

LEMMA ClientStutters == ClientInv /\ UNCHANGED vars => ClientInv'
<1>1. SUFFICES ASSUME ClientInv, UNCHANGED vars PROVE ClientInv'
    OBVIOUS
<1> USE DEF vars, lists, library
<1>2. TypeOK'
    BY <1>1 DEF ClientInv, TypeOK
<1>3. FramesOK'
    BY <1>1, Zenon DEF ClientInv, FramesOK, FrameOK
<1>4. Lives'
  <2>1. stack' = stack /\ UNCHANGED records
    BY <1>1 DEF records
  <2>2. ASSUME NEW t \in Tokens, kind[t] # "connect" PROVE Life(t)'
    <3>1. Life(t)
      BY <1>1, <2>2 DEF ClientInv, Lives
    <3>2. Steady(t)
      BY <2>1 DEF Steady, Sole, Busy, Held, InProgress
    <3>3. Pending(t)' <=> Pending(t)
      BY <2>1 DEF Pending, records
    <3>4. QED
      BY <2>1, <3>1, <3>2, <3>3, LifeSteady DEF records
  <2>3. QED
    BY <1>1, <2>1, <2>2, LivesSteady DEF ClientInv
<1>5. Locked'
    BY <1>1 DEF ClientInv, Locked, At
<1>6. QED
    BY <1>2, <1>3, <1>4, <1>5 DEF ClientInv

LEMMA ClientNext == ClientInv /\ [Next]_vars => ClientInv'
<1>1. SUFFICES ASSUME ClientInv, [Next]_vars PROVE ClientInv'
    OBVIOUS
<1>2. CASE UNCHANGED vars
    BY <1>1, <1>2, ClientStutters
<1>3. CASE Library
  <2>1. CASE OnConnected
    <3>1. Cb \in Threads
      BY DEF Threads
    <3>2. QED
      BY <1>1, <2>1, <3>1, PushStep
  <2>2. CASE \E t \in Tokens, ok \in BOOLEAN : Report(t, ok)
    BY <1>1, <2>2, ReportStep
  <2>3. QED
    BY <1>3, <2>1, <2>2 DEF Library
<1>4. ASSUME NEW th \in Threads, Step(th) PROVE ClientInv'
  <2>1. CASE AddToken(th)
    BY <1>1, <2>1, AddTokenStep
  <2>2. CASE SendAccepted(th)
    BY <1>1, <2>2, SendAcceptedStep
  <2>3. CASE SendRefused(th) \/ RemoveNothing(th) \/ Unlock(th) \/ StoreCallback(th)
    BY <1>1, <2>3, GotoStep
  <2>4. CASE Sent(th) \/ UnsetCallback(th)
    BY <1>1, <2>4, ReturnStep
  <2>5. CASE RemoveToken(th)
    BY <1>1, <2>5, RemoveTokenStep
  <2>6. CASE Deliver(th)
    BY <1>1, <2>6, DeliverStep
  <2>7. CASE Removed(th)
    BY <1>1, <2>7, GotoStep, ReturnStep
  <2>8. CASE UserReturns(th)
    BY <1>1, <2>8, GotoStep, ReturnStep
  <2>9. CASE InstallCallbacks(th)
    <3>1. Return(th) \/ (Goto(th, "unset") /\ UNCHANGED clib)
      BY <2>9 DEF InstallCallbacks
    <3>2. QED
      BY <1>1, <2>9, <3>1, GotoStep, ReturnStep
  <2>10. QED
    BY <1>4, <2>1, <2>2, <2>3, <2>4, <2>5, <2>6, <2>7, <2>8, <2>9 DEF Step
<1>5. ASSUME NEW th \in Threads, Call(th) PROVE ClientInv'
  <2>1. CASE Reconnect(th) \/ SetCallback(th)
    BY <1>1, <2>1, PushStep
  <2>2. CASE \E t \in Tokens, k \in Actions : Begin(th, k, t)
    BY <1>1, <2>2, BeginStep
  <2>3. QED
    BY <1>5, <2>1, <2>2 DEF Call, Connect, Publish, Subscribe, Unsubscribe, Disconnect,
                            Actions, Publications
<1>6. QED
    BY <1>1, <1>2, <1>3, <1>4, <1>5 DEF Next

\* Nothing but the lists, the stacks and lock_ decides what follows: the invariant
\* holds for any number of threads and tokens, and of calls nested in callbacks.
THEOREM ClientInvariant == Spec => []ClientInv
<1>1. QED
    BY ClientInit, ClientNext, PTL DEF Spec

\* Types; only delivery tokens are in the list of delivery tokens.
THEOREM TypeCorrect == Spec => []TypeOK
<1>1. ClientInv => TypeOK
    BY DEF ClientInv
<1>2. QED
    BY <1>1, ClientInvariant, PTL

\* As long as the C library may use the address of a token, and as long as a
\* handler runs on it, add_token() has put it in a list and remove_token() has not
\* taken it out, whatever other threads and nested calls do.
THEOREM TokensInFlightAreKept == Spec => []InFlightIsPending
<1>1. ASSUME ClientInv PROVE InFlightIsPending
  <2>1. SUFFICES ASSUME NEW t \in Tokens, kind[t] # "connect",
                        t \in requests \/ InProgress(t, {"listener", "remove"})
                 PROVE  Pending(t)
    BY DEF InFlightIsPending
  <2>2. InProgress(t, {"listener", "remove"}) => Held(t)
    BY DEF Held, InProgress, HoldingPlaces
  <2>3. QED
    BY <1>1, <2>1, <2>2 DEF ClientInv, Lives, Life
<1>2. QED
    BY <1>1, ClientInvariant, PTL

\* No token stays behind in a list: remove_token() has erased it on every path by
\* which a request ends, answered or refused.
THEOREM ListsHoldTokensInPlay == Spec => []PendingIsInPlay
<1>1. ASSUME ClientInv PROVE PendingIsInPlay
    BY <1>1 DEF PendingIsInPlay, ClientInv, Lives, Life, Held, HoldingPlaces
<1>2. QED
    BY <1>1, ClientInvariant, PTL

\* remove_token() calls delivery_complete() for a message at most once, and last:
\* the token is then in no list and the C library is done with it.
THEOREM DeliveryIsCompleteOnce == Spec => []DeliveryCompleteLast
<1>1. ASSUME ClientInv PROVE DeliveryCompleteLast
  <2>1. SUFFICES ASSUME NEW t \in Tokens, delivered[t] > 0
                 PROVE  /\ delivered[t] = 1 /\ kind[t] = "publish1"
                        /\ ~Pending(t) /\ t \notin requests
    BY DEF DeliveryCompleteLast
  <2>2. kind[t] # "connect"
    BY <1>1, <2>1 DEF ClientInv, Lives
  <2>3. Life(t)
    BY <1>1, <2>2 DEF ClientInv, Lives
  <2>4. Held(t) => Busy(t)
    BY DEF Held, Busy, InProgress, ActivePlaces, HoldingPlaces
  <2>5. QED
    BY <2>1, <2>3, <2>4 DEF Life
<1>2. QED
    BY <1>1, ClientInvariant, PTL

\* No set of threads waits only for each other: whoever has lock_ has nothing to
\* wait for, and the C library's thread waits for nothing but lock_.
THEOREM NoDeadlock == Spec => []NoWaitCycle
<1>1. ASSUME ClientInv PROVE NoWaitCycle
  <2>1. SUFFICES ASSUME NEW circle \in (SUBSET Threads) \ {{}}
                 PROVE  \E th \in circle : WaitsFor(th) \intersect circle = {}
    BY DEF NoWaitCycle
  <2>2. clib \in {Null, Cb} /\ Null \notin circle
    BY <1>1, <2>1, NullAssumption DEF ClientInv, TypeOK
  <2>3. \A th \in Threads : WaitsFor(th) \subseteq {lock, Cb}
    BY <2>2 DEF WaitsFor
  <2>4. WaitsFor(Cb) \subseteq {lock}
    BY <2>2 DEF WaitsFor
  <2>5. CASE lock \in circle
    <3>1. At(lock, "unlock") \/ At(lock, "deliver")
      BY <1>1, <2>2, <2>5 DEF ClientInv, Locked
    <3>2. WaitsFor(lock) = {}
      BY <3>1 DEF WaitsFor, At, Top
    <3>3. QED
      BY <2>5, <3>2
  <2>6. CASE lock \notin circle /\ Cb \in circle
    BY <2>4, <2>6
  <2>7. CASE lock \notin circle /\ Cb \notin circle
    BY <2>1, <2>3, <2>7
  <2>8. QED
    BY <2>5, <2>6, <2>7
<1>2. QED
    BY <1>1, ClientInvariant, PTL

=============================================================================
