------------------------- MODULE TopicMatcherProofs -------------------------
(***************************************************************************)
(* Proofs about TopicFilter and TopicMatcher.                              *)
(*                                                                         *)
(* The functions on strings recurse over the length of their argument;     *)
(* what they return is shown by induction, in the form of the least        *)
(* counterexample.  Fit is the form that topic_filter::matches() and the   *)
(* rules of MQTT have in common.                                           *)
(*                                                                         *)
(* The invariant of the matcher is Inv.  A step of an iterator takes the   *)
(* last entry off the stack and puts entries for children of its node in   *)
(* its place: SearchStep and YieldStep show that such a change keeps Inv,  *)
(* and the lemmas about AllNext, TopicEnds and Descend that their steps    *)
(* are such changes.                                                       *)
(***************************************************************************)
EXTENDS TopicMatcher, WellFoundedInduction, SequenceTheorems, FiniteSetTheorems, TLAPS

-----------------------------------------------------------------------------
(* Induction, as the existence of a least counterexample.                  *)

\* A set of natural numbers has a least element.
LEMMA Least ==
    ASSUME NEW T, T \subseteq Nat, T # {}
    PROVE  \E x \in T : \A y \in T : x <= y
<1>1. PICK R : IsWellFoundedOn(R, Nat) /\ \A x, y \in Nat : y < x => <<y, x>> \in R
  <2>1. \A x, y \in Nat : y < x => <<y, x>> \in OpToRel(<, Nat)
    BY Zenon DEF OpToRel
  <2>2. QED
    BY <2>1, NatLessThanWellFounded, Zenon
<1>2. PICK x \in T : \A y \in T : ~(<<y, x>> \in R)
    BY <1>1, WFMin, Zenon
<1>3. \A y \in T : ~(y < x)
    BY <1>1, <1>2, Zenon
<1>4. QED
    BY <1>3

\* A set that has 0 and is closed under the successor has all natural numbers.
LEMMA Induction ==
    ASSUME NEW T, 0 \in T, \A n \in Nat : n \in T => n + 1 \in T
    PROVE  Nat \subseteq T
<1> DEFINE U == Nat \ T
<1>1. SUFFICES ASSUME U # {} PROVE FALSE
    OBVIOUS
<1>2. PICK x \in U : \A y \in U : x <= y
    BY <1>1, Least, Zenon
<1>3. x \in Nat /\ x # 0 /\ x - 1 \in Nat
    BY <1>2
<1>4. x - 1 \in T
    BY <1>2, <1>3
<1>5. x - 1 + 1 \in T /\ x - 1 + 1 = x
    BY <1>3, <1>4
<1>6. QED
    BY <1>2, <1>5

-----------------------------------------------------------------------------
(* topic::split.                                                           *)

\* A field ends at the first slash that follows, or at the end of the string.
LEMMA FieldEndIs ==
    ASSUME NEW S, NEW s \in Seq(S), NEW i \in 1 .. Len(s) + 1
    PROVE  /\ FieldEnd(s, i) \in i .. Len(s) + 1
           /\ FieldEnd(s, i) <= Len(s) => s[FieldEnd(s, i)] = "/"
           /\ \A p \in i .. Len(s) : p < FieldEnd(s, i) => s[p] # "/"
<1> DEFINE T == {p \in i .. Len(s) : s[p] = "/"} \union {Len(s) + 1}
<1>1. T \subseteq Nat /\ T # {} /\ T \subseteq i .. Len(s) + 1
    OBVIOUS
<1> HIDE DEF T
<1>2. \E x \in T : \A y \in T : x <= y
    BY <1>1, Least, Zenon
<1>3. Min(T) \in T /\ \A y \in T : Min(T) <= y
    BY <1>2, Zenon DEF Min
<1>4. FieldEnd(s, i) = Min(T)
    BY DEF FieldEnd, T
<1>5. FieldEnd(s, i) \in T /\ \A y \in T : FieldEnd(s, i) <= y
    BY <1>3, <1>4
<1>6. FieldEnd(s, i) \in i .. Len(s) + 1
    BY <1>1, <1>5, Zenon
<1>7. FieldEnd(s, i) <= Len(s) => s[FieldEnd(s, i)] = "/"
    BY <1>5, <1>6 DEF T
<1>8. ASSUME NEW p \in i .. Len(s), p < FieldEnd(s, i), s[p] = "/" PROVE FALSE
  <2>1. p \in T
    BY <1>8 DEF T
  <2>2. QED
    BY <2>1, <1>5, <1>6, <1>8
<1>9. QED
    BY <1>6, <1>7, <1>8

\* The equation of the loop: what it appends from position i on.
Fields(s, from, i) ==
    <<SubSeq(s, i, FieldEnd(s, i) - 1)>>
        \o IF FieldEnd(s, i) > Len(s) THEN <<>> ELSE from[FieldEnd(s, i) + 1]

\* There is a function with this equation: built from the end of the string.
LEMMA FieldsExist ==
    ASSUME NEW S, NEW s \in Seq(S)
    PROVE  \E from : from = [i \in 1 .. Len(s) + 1 |-> Fields(s, from, i)]
<1> DEFINE N == Len(s) + 1
           T == {k \in Nat : k < N =>
                    \E g : \A i \in N - k .. N : g[i] = Fields(s, g, i)}
<1>0. N \in Nat /\ N >= 1
    OBVIOUS
<1>1. 0 \in T
  <2> DEFINE g == [i \in {N} |-> Fields(s, <<>>, i)]
  <2>1. FieldEnd(s, N) > Len(s)
    BY FieldEndIs
  <2>2. Fields(s, g, N) = Fields(s, <<>>, N)
    BY <2>1 DEF Fields
  <2>3. \A i \in N - 0 .. N : i = N
    BY <1>0
  <2>4. g[N] = Fields(s, <<>>, N)
    OBVIOUS
  <2> HIDE DEF g, N
  <2>5. \A i \in N - 0 .. N : g[i] = Fields(s, g, i)
    BY <2>2, <2>3, <2>4
  <2>6. QED
    BY <2>5
<1>2. ASSUME NEW n \in Nat, n \in T PROVE n + 1 \in T
  <2>1. CASE n + 1 < N
    <3> DEFINE m == N - (n + 1)
    <3>1. m \in 1 .. N /\ N - n = m + 1
        BY <2>1, <1>0
    <3>2. PICK g : \A i \in m + 1 .. N : g[i] = Fields(s, g, i)
      <4>1. n < N
        BY <2>1, <1>0
      <4>2. QED
        BY <4>1, <1>2, <3>1
    <3> HIDE DEF m
    <3> DEFINE h == [i \in m .. N |-> IF i = m THEN Fields(s, g, i) ELSE g[i]]
    <3>3. \A i \in m + 1 .. N : h[i] = g[i]
        BY <3>1
    <3>4. h[m] = Fields(s, g, m)
        BY <3>1, <1>0
    <3> HIDE DEF h
    <3>5. ASSUME NEW i \in m .. N PROVE Fields(s, h, i) = Fields(s, g, i)
      <4>1. i \in 1 .. N /\ FieldEnd(s, i) \in i .. N
        BY <3>1, FieldEndIs
      <4>2. FieldEnd(s, i) > Len(s) \/ FieldEnd(s, i) + 1 \in m + 1 .. N
        BY <4>1, <3>1, <1>0
      <4>3. QED
        BY <4>2, <3>3 DEF Fields
    <3>6. \A i \in m .. N : h[i] = Fields(s, h, i)
        BY <3>1, <3>2, <3>3, <3>4, <3>5
    <3>7. QED
        BY <3>6 DEF m
  <2>2. QED
    BY <2>1
<1>3. Nat \subseteq T
  <2> HIDE DEF T
  <2>1. QED
    BY <1>1, <1>2, Induction
<1>4. Len(s) \in T
    BY <1>3
<1>5. PICK g : \A i \in 1 .. N : g[i] = Fields(s, g, i)
  <2>1. Len(s) < N /\ N - Len(s) = 1
    BY <1>0
  <2>2. QED
    BY <1>4, <2>1
<1> DEFINE f == [i \in 1 .. N |-> g[i]]
<1>6. ASSUME NEW i \in 1 .. N PROVE Fields(s, f, i) = Fields(s, g, i)
  <2>1. FieldEnd(s, i) > Len(s) \/ FieldEnd(s, i) + 1 \in 1 .. N
    BY FieldEndIs, <1>0
  <2>2. QED
    BY <2>1 DEF Fields
<1>7. f = [i \in 1 .. N |-> Fields(s, f, i)]
    BY <1>5, <1>6
<1>8. QED
    BY <1>7, Zenon

\* Split is the value of such a function at the first position.
LEMMA SplitIs ==
    ASSUME NEW S, NEW s \in Seq(S), s # <<>>
    PROVE  \E from : /\ Split(s) = from[1]
                     /\ \A i \in 1 .. Len(s) + 1 : from[i] = Fields(s, from, i)
<1> DEFINE D == 1 .. Len(s) + 1
           from == CHOOSE g : g = [i \in D |-> Fields(s, g, i)]
<1>1. from = [i \in D |-> Fields(s, from, i)]
    BY FieldsExist, Zenon
<1>2. Split(s) = from[1]
    BY Zenon DEF Split, Fields
<1>3. QED
  <2> HIDE DEF from
  <2>1. \A i \in D : from[i] = Fields(s, from, i)
    BY <1>1, Zenon
  <2>2. QED
    BY <1>2, <2>1, Zenon

-----------------------------------------------------------------------------
(* topic_filter::to_string().                                              *)

\* The equation of the loop that joins n fields.
Joined(fields, upto, n) ==
    CASE n = 0 -> <<>>
      [] n = 1 -> fields[1]
      [] OTHER -> upto[n - 1] \o <<"/">> \o fields[n]

LEMMA JoinedMore ==
    ASSUME NEW fields, NEW upto, NEW n, n # 0, n # 1
    PROVE  Joined(fields, upto, n) = upto[n - 1] \o <<"/">> \o fields[n]
BY Zenon DEF Joined

\* Concatenation as an operator, for equations between long concatenations.
Cat(x, y) == x \o y

LEMMA CatSeq ==
    ASSUME NEW S, NEW x \in Seq(S), NEW y \in Seq(S)
    PROVE  Cat(x, y) \in Seq(S)
BY ConcatProperties DEF Cat

LEMMA CatAssociative ==
    ASSUME NEW S, NEW x \in Seq(S), NEW y \in Seq(S), NEW z \in Seq(S)
    PROVE  Cat(Cat(x, y), z) = Cat(x, Cat(y, z))
BY ConcatAssociative, SMT DEF Cat

\* There is a function with this equation.
LEMMA JoinedExist ==
    ASSUME NEW fields, NEW N \in Nat
    PROVE  \E upto : upto = [n \in 0 .. N |-> Joined(fields, upto, n)]
<1> DEFINE T == {k \in Nat : \E g : g = [n \in 0 .. k |-> Joined(fields, g, n)]}
<1>1. 0 \in T
  <2> DEFINE g == [n \in 0 .. 0 |-> <<>>]
  <2>1. \A n \in 0 .. 0 : Joined(fields, g, n) = <<>>
    BY DEF Joined
  <2>2. g = [n \in 0 .. 0 |-> Joined(fields, g, n)]
    BY <2>1
  <2>3. QED
    BY <2>2
<1>2. ASSUME NEW k \in Nat, k \in T PROVE k + 1 \in T
  <2>1. PICK g : g = [n \in 0 .. k |-> Joined(fields, g, n)]
    BY <1>2
  <2> DEFINE h == [n \in 0 .. k + 1 |-> IF n = k + 1 THEN Joined(fields, g, n) ELSE g[n]]
  <2>2. \A n \in 0 .. k : h[n] = g[n]
    OBVIOUS
  <2>3. h[k + 1] = Joined(fields, g, k + 1)
    OBVIOUS
  <2>4. DOMAIN h = 0 .. k + 1 /\ h = [n \in 0 .. k + 1 |-> h[n]]
    OBVIOUS
  <2> HIDE DEF h
  <2>5. ASSUME NEW n \in 0 .. k + 1 PROVE Joined(fields, h, n) = Joined(fields, g, n)
    <3>1. n = 0 \/ n = 1 \/ n - 1 \in 0 .. k
        OBVIOUS
    <3>2. QED
        BY <3>1, <2>2 DEF Joined
  <2>6. \A n \in 0 .. k : g[n] = Joined(fields, g, n)
    BY <2>1, Zenon
  <2>7. \A n \in 0 .. k + 1 : h[n] = Joined(fields, h, n)
    BY <2>2, <2>3, <2>5, <2>6
  <2>8. h = [n \in 0 .. k + 1 |-> Joined(fields, h, n)]
    BY <2>4, <2>7
  <2>9. QED
    BY <2>8
<1>3. Nat \subseteq T
  <2> HIDE DEF T
  <2>1. QED
    BY <1>1, <1>2, Induction
<1>4. QED
    BY <1>3

\* Join is the value of such a function for all fields.
LEMMA JoinIs ==
    ASSUME NEW fields, Len(fields) \in Nat
    PROVE  \E upto : /\ Join(fields) = upto[Len(fields)]
                     /\ \A n \in 0 .. Len(fields) : upto[n] = Joined(fields, upto, n)
<1> DEFINE D == 0 .. Len(fields)
           upto == CHOOSE g : g = [n \in D |-> Joined(fields, g, n)]
<1>1. upto = [n \in D |-> Joined(fields, upto, n)]
  <2>1. \E g : g = [n \in D |-> Joined(fields, g, n)]
    BY JoinedExist
  <2>2. QED
    BY <2>1, Zenon
<1>2. Join(fields) = upto[Len(fields)]
    BY Zenon DEF Join, Joined
<1>3. QED
  <2> HIDE DEF upto
  <2>1. \A n \in D : upto[n] = Joined(fields, upto, n)
    BY <1>1, Zenon
  <2>2. QED
    BY <1>2, <2>1, Zenon

\* One field is joined to itself.
LEMMA JoinOne ==
    ASSUME NEW f
    PROVE  Join(<<f>>) = f
<1>1. Len(<<f>>) = 1 /\ <<f>>[1] = f
    OBVIOUS
<1>2. PICK upto : /\ Join(<<f>>) = upto[1]
                  /\ \A n \in 0 .. 1 : upto[n] = Joined(<<f>>, upto, n)
    BY <1>1, JoinIs, Zenon
<1>3. QED
    BY <1>1, <1>2 DEF Joined

\* One more field, seen from the first.
LEMMA JoinAssociative ==
    ASSUME NEW S, NEW a \in Seq(S), NEW b \in Seq(S), NEW c \in Seq(S), NEW d \in Seq(S)
    PROVE  /\ (a \o (b \o c)) \o b \o d = a \o (b \o (c \o b \o d))
           /\ c \o b \o d \in Seq(S)
<1>1. /\ Cat(b, c) \in Seq(S) /\ Cat(c, b) \in Seq(S) /\ Cat(Cat(c, b), d) \in Seq(S)
      /\ Cat(b, Cat(c, b)) \in Seq(S)
    BY CatSeq, Zenon
<1>2. Cat(Cat(a, Cat(b, c)), b) = Cat(a, Cat(Cat(b, c), b))
    BY <1>1, CatAssociative
<1>3. Cat(Cat(b, c), b) = Cat(b, Cat(c, b))
    BY <1>1, CatAssociative
<1>4. Cat(Cat(a, Cat(b, Cat(c, b))), d) = Cat(a, Cat(Cat(b, Cat(c, b)), d))
    BY <1>1, CatAssociative
<1>5. Cat(Cat(b, Cat(c, b)), d) = Cat(b, Cat(Cat(c, b), d))
    BY <1>1, CatAssociative
<1>6. Cat(Cat(Cat(a, Cat(b, c)), b), d) = Cat(a, Cat(b, Cat(Cat(c, b), d)))
    BY <1>2, <1>3, <1>4, <1>5
<1>7. QED
    BY <1>1, <1>6, Zenon DEF Cat

\* A field is put in front of others with a slash.
LEMMA JoinCons ==
    ASSUME NEW S, "/" \in S, NEW f \in Seq(S), NEW rest \in Seq(Seq(S)), rest # <<>>
    PROVE  /\ Join(rest) \in Seq(S)
           /\ Join(<<f>> \o rest) = f \o (<<"/">> \o Join(rest))
<1> DEFINE all == <<f>> \o rest
           N == Len(rest)
<1>1. N \in Nat /\ N >= 1 /\ \A n \in 1 .. N : rest[n] \in Seq(S)
  <2>1. N \in Nat \ {0}
    BY EmptySeq
  <2>2. \A n \in 1 .. N : rest[n] \in Seq(S)
    BY ElementOfSeq
  <2>3. QED
    BY <2>1, <2>2
<1>2. Len(all) = N + 1 /\ all[1] = f /\ \A n \in 1 .. N : all[n + 1] = rest[n]
  <2>1. <<f>> \in Seq(Seq(S)) /\ Len(<<f>>) = 1 /\ <<f>>[1] = f
    OBVIOUS
  <2>2. /\ Len(all) = 1 + N
        /\ \A n \in 1 .. 1 + N : all[n] = IF n <= 1 THEN <<f>>[n] ELSE rest[n - 1]
    BY <2>1, ConcatProperties
  <2>3. \A n \in 1 .. N : n + 1 \in 1 .. 1 + N /\ ~(n + 1 <= 1) /\ n + 1 - 1 = n
    BY <1>1
  <2>4. 1 \in 1 .. 1 + N
    BY <1>1
  <2> HIDE DEF all, N
  <2>5. QED
    BY <1>1, <2>1, <2>2, <2>3, <2>4
<1> HIDE DEF all
<1>3. PICK u : Join(rest) = u[N] /\ \A n \in 0 .. N : u[n] = Joined(rest, u, n)
    BY <1>1, JoinIs
<1>4. PICK v : Join(all) = v[N + 1] /\ \A n \in 0 .. N + 1 : v[n] = Joined(all, v, n)
  <2>1. Len(all) \in Nat
    BY <1>1, <1>2
  <2>2. QED
    BY <2>1, <1>2, JoinIs, Zenon
<1> HIDE DEF N
<1>5. <<"/">> \in Seq(S)
    OBVIOUS
<1> DEFINE Slash == <<"/">>
           P(n) == u[n] \in Seq(S) /\ v[n + 1] = f \o (Slash \o u[n])
           T == {n \in Nat : n < N => P(n + 1)}
<1>6. u[1] = rest[1] /\ v[1] = f
    BY <1>1, <1>2, <1>3, <1>4 DEF Joined
<1>7. ASSUME NEW n \in 2 .. N PROVE u[n] = u[n - 1] \o Slash \o rest[n]
  <2>1. n \in 0 .. N /\ n # 0 /\ n # 1
    BY <1>1
  <2>2. QED
    BY <2>1, <1>3, JoinedMore, Zenon
<1>8. ASSUME NEW n \in 1 .. N PROVE v[n + 1] = v[n] \o Slash \o rest[n]
  <2>1. n + 1 \in 0 .. N + 1 /\ n + 1 # 0 /\ n + 1 # 1 /\ n + 1 - 1 = n
    BY <1>1
  <2>2. PICK k : k = n + 1
    OBVIOUS
  <2>3. v[k] = v[k - 1] \o Slash \o all[k]
    <3>1. v[k] = Joined(all, v, k)
        BY <2>1, <2>2, <1>4
    <3>2. k # 0 /\ k # 1
        BY <2>1, <2>2
    <3>3. QED
        BY <3>1, <3>2, JoinedMore, Zenon
  <2>4. k - 1 = n /\ all[k] = rest[n]
    BY <2>1, <2>2, <1>2
  <2>5. QED
    BY <2>2, <2>3, <2>4, Zenon
<1> HIDE DEF Slash
<1>9. 0 \in T
  <2>1. 1 \in 1 .. N /\ rest[1] \in Seq(S)
    BY <1>1
  <2>2. v[1 + 1] = f \o Slash \o rest[1]
    BY <1>6, <1>8, <2>1, Zenon
  <2>3. (f \o Slash) \o rest[1] = f \o (Slash \o rest[1])
    <3>1. Slash \in Seq(S)
        BY <1>5 DEF Slash
    <3>2. Cat(Cat(f, Slash), rest[1]) = Cat(f, Cat(Slash, rest[1]))
        BY <3>1, <2>1, CatAssociative
    <3>3. QED
        BY <3>2, Zenon DEF Cat
  <2>4. P(1)
    BY <1>6, <2>1, <2>2, <2>3
  <2> HIDE DEF P
  <2>5. P(0 + 1)
    <3>1. 0 + 1 = 1
        OBVIOUS
    <3>2. QED
        BY <2>4, <3>1, Zenon
  <2>6. QED
    BY <2>5
<1>10. ASSUME NEW n \in Nat, n \in T PROVE n + 1 \in T
  <2> DEFINE m == n + 1
  <2> HIDE DEF P
  <2>1. SUFFICES ASSUME m < N PROVE P(m + 1)
    BY <1>1
  <2> USE DEF P
  <2>2. m \in 1 .. N /\ m + 1 \in 2 .. N /\ m + 1 \in 1 .. N /\ m + 1 - 1 = m /\ n < N
    BY <1>1, <2>1
  <2>3. u[m] \in Seq(S) /\ v[m + 1] = f \o (Slash \o u[m])
    BY <1>10, <2>2
  <2> HIDE DEF m
  <2>4. u[m + 1] = u[m] \o Slash \o rest[m + 1]
    <3>1. PICK k : k = m + 1
        OBVIOUS
    <3>2. k \in 2 .. N /\ k - 1 = m
        BY <3>1, <2>2
    <3>3. u[k] = u[k - 1] \o Slash \o rest[k]
        BY <1>7, <3>2, Zenon
    <3>4. QED
        BY <3>1, <3>2, <3>3, Zenon
  <2>5. v[m + 1 + 1] = (f \o (Slash \o u[m])) \o Slash \o rest[m + 1]
    BY <1>8, <2>2, <2>3, Zenon
  <2>6. rest[m + 1] \in Seq(S) /\ Slash \in Seq(S)
    BY <1>1, <1>5, <2>2 DEF Slash
  <2>7. /\ (f \o (Slash \o u[m])) \o Slash \o rest[m + 1] = f \o (Slash \o (u[m] \o Slash \o rest[m + 1]))
        /\ u[m] \o Slash \o rest[m + 1] \in Seq(S)
    BY <2>3, <2>6, JoinAssociative, Zenon
  <2>8. QED
    BY <2>4, <2>5, <2>7, Zenon
<1>11. Nat \subseteq T
  <2> HIDE DEF T
  <2>1. QED
    BY <1>9, <1>10, Induction, Zenon
<1>12. N - 1 \in T /\ N - 1 < N /\ N - 1 + 1 = N
  <2> HIDE DEF T
  <2>1. QED
    BY <1>1, <1>11
<1>13. P(N)
    BY <1>12, Zenon
<1>14. QED
    BY <1>3, <1>4, <1>13, Zenon DEF all, Slash

-----------------------------------------------------------------------------
(* What the fields of a string are.                                        *)

\* The fields of s from position i on: joined they are the rest of s, their
\* characters are those of s without the slashes, and the last one goes to the end.
Parts(S, s, i, f) ==
    /\ f \in Seq(Seq(S)) /\ f # <<>>
    /\ Join(f) = SubSeq(s, i, Len(s))
    /\ \A k \in 1 .. Len(f) : \A j \in 1 .. Len(f[k]) : \E p \in i .. Len(s) : f[k][j] = s[p]
    /\ \A p \in i .. Len(s) :
          s[p] # "/" => \E k \in 1 .. Len(f) : \E j \in 1 .. Len(f[k]) : f[k][j] = s[p]
    /\ \E q \in i .. Len(s) + 1 :
          f[Len(f)] = SubSeq(s, q, Len(s)) /\ (q = i \/ s[q - 1] = "/")

\* A part of a string, and its characters.
LEMMA SubString ==
    ASSUME NEW S, NEW s \in Seq(S), NEW i \in 1 .. Len(s) + 1, NEW e \in i .. Len(s) + 1
    PROVE  /\ SubSeq(s, i, e - 1) \in Seq(S)
           /\ Len(SubSeq(s, i, e - 1)) = e - i
           /\ \A j \in 1 .. e - i : SubSeq(s, i, e - 1)[j] = s[i + j - 1]
<1>1. \A p \in i .. e - 1 : s[p] \in S
    BY ElementOfSeq
<1>2. i \in Int /\ e - 1 \in Int /\ e - 1 - i + 1 = e - i
    OBVIOUS
<1>3. /\ SubSeq(s, i, e - 1) \in Seq(S)
      /\ Len(SubSeq(s, i, e - 1)) = IF i <= e - 1 THEN e - 1 - i + 1 ELSE 0
      /\ \A j \in 1 .. e - 1 - i + 1 : SubSeq(s, i, e - 1)[j] = s[i + j - 1]
    BY <1>1, <1>2, SubSeqProperties
<1>4. (IF i <= e - 1 THEN e - 1 - i + 1 ELSE 0) = e - i
    OBVIOUS
<1>5. QED
    BY <1>2, <1>3, <1>4

\* A sequence without its last element.
LEMMA FrontIs ==
    ASSUME NEW S, NEW s \in Seq(S), NEW n \in Nat, Len(s) = n + 1
    PROVE  Front(s) \in Seq(S) /\ Len(Front(s)) = n /\ \A j \in 1 .. n : Front(s)[j] = s[j]
<1>1. \A j \in 1 .. n : s[j] \in S
    BY ElementOfSeq
<1>2. PICK r : r = SubSeq(s, 1, n)
    BY Zenon
<1>3. /\ r \in Seq(S) /\ Len(r) = (IF 1 <= n THEN n - 1 + 1 ELSE 0)
      /\ \A j \in 1 .. n - 1 + 1 : r[j] = s[1 + j - 1]
    BY <1>1, <1>2, SubSeqProperties
<1>4. r \in Seq(S) /\ Len(r) = n /\ \A j \in 1 .. n : r[j] = s[j]
    BY <1>3
<1>5. Front(s) = r
  <2>1. Len(s) - 1 = n
    OBVIOUS
  <2>2. QED
    BY <1>2, <2>1, Zenon DEF Front
<1>6. QED
    BY <1>4, <1>5, Zenon

\* The last field.
LEMMA PartsLast ==
    ASSUME NEW S, NEW s \in Seq(S), NEW i \in 1 .. Len(s) + 1
    PROVE  Parts(S, s, i, <<SubSeq(s, i, Len(s))>>)
<1> DEFINE t == SubSeq(s, i, Len(s))
           f == <<t>>
<1>1. /\ t \in Seq(S)
      /\ Len(t) = Len(s) + 1 - i
      /\ \A j \in 1 .. Len(s) + 1 - i : t[j] = s[i + j - 1]
  <2>1. Len(s) + 1 \in i .. Len(s) + 1 /\ Len(s) + 1 - 1 = Len(s)
    OBVIOUS
  <2>2. QED
    BY <2>1, SubString
<1>2. Join(f) = t
    BY JoinOne
<1>3. f \in Seq(Seq(S)) /\ f # <<>> /\ Len(f) = 1 /\ f[1] = t
    BY <1>1
<1>4. \A j \in 1 .. Len(t) : \E p \in i .. Len(s) : t[j] = s[p]
  <2>1. \A j \in 1 .. Len(t) : i + j - 1 \in i .. Len(s) /\ t[j] = s[i + j - 1]
    BY <1>1
  <2>2. QED
    BY <2>1
<1>5. \A p \in i .. Len(s) : \E j \in 1 .. Len(t) : t[j] = s[p]
  <2>1. \A p \in i .. Len(s) : p - i + 1 \in 1 .. Len(s) + 1 - i /\ i + (p - i + 1) - 1 = p
    OBVIOUS
  <2>2. QED
    BY <2>1, <1>1, Zenon
<1>6. i \in i .. Len(s) + 1
    OBVIOUS
<1> HIDE DEF f
<1>7. \A k \in 1 .. Len(f) : k = 1
    BY <1>3
<1>8. 1 \in 1 .. Len(f)
    BY <1>3
<1>9. Parts(S, s, i, f)
  <2>1. \A k \in 1 .. Len(f) : \A j \in 1 .. Len(f[k]) : \E p \in i .. Len(s) : f[k][j] = s[p]
    BY <1>3, <1>4, <1>7, Zenon
  <2>2. \A p \in i .. Len(s) :
          s[p] # "/" => \E k \in 1 .. Len(f) : \E j \in 1 .. Len(f[k]) : f[k][j] = s[p]
    BY <1>3, <1>5, <1>8, Zenon
  <2>3. \E q \in i .. Len(s) + 1 :
          f[Len(f)] = SubSeq(s, q, Len(s)) /\ (q = i \/ s[q - 1] = "/")
    BY <1>3, <1>6, Zenon
  <2>4. QED
    BY <1>2, <1>3, <2>1, <2>2, <2>3, Zenon DEF Parts
<1>10. QED
    BY <1>9 DEF f

\* A field that ends with a slash, before the fields that follow it.
LEMMA PartsMore ==
    ASSUME NEW S, "/" \in S, NEW s \in Seq(S), NEW i \in 1 .. Len(s) + 1,
           FieldEnd(s, i) <= Len(s),
           NEW g, Parts(S, s, FieldEnd(s, i) + 1, g)
    PROVE  Parts(S, s, i, <<SubSeq(s, i, FieldEnd(s, i) - 1)>> \o g)
<1>1. PICK e \in i .. Len(s) : e = FieldEnd(s, i) /\ s[e] = "/"
    BY FieldEndIs
<1> DEFINE t == SubSeq(s, i, e - 1)
           f == <<t>> \o g
<1>2. /\ t \in Seq(S)
      /\ Len(t) = e - i
      /\ \A j \in 1 .. e - i : t[j] = s[i + j - 1]
    BY SubString
<1>3. Parts(S, s, e + 1, g)
    BY <1>1
<1>4. g \in Seq(Seq(S)) /\ g # <<>> /\ Join(g) = SubSeq(s, e + 1, Len(s)) /\ Len(g) \in Nat \ {0}
    BY <1>3, EmptySeq, Zenon DEF Parts
<1>5. /\ f \in Seq(Seq(S)) /\ Len(f) = Len(g) + 1
      /\ f[1] = t
      /\ \A k \in 1 .. Len(g) : f[k + 1] = g[k]
  <2>1. <<t>> \in Seq(Seq(S)) /\ Len(<<t>>) = 1 /\ <<t>>[1] = t
    BY <1>2
  <2> DEFINE a == <<t>>
  <2> HIDE DEF a
  <2>2. /\ a \o g \in Seq(Seq(S))
        /\ Len(a \o g) = 1 + Len(g)
        /\ \A k \in 1 .. 1 + Len(g) : (a \o g)[k] = IF k <= 1 THEN a[k] ELSE g[k - 1]
    BY <2>1, <1>4, ConcatProperties DEF a
  <2>4. 1 \in 1 .. 1 + Len(g) /\ a[1] = t
    BY <1>4, <2>1 DEF a
  <2>5. /\ (a \o g)[1] = t
        /\ \A k \in 1 .. Len(g) : (a \o g)[k + 1] = g[k]
    <3>1. (a \o g)[1] = t
        BY <2>2, <2>4
    <3>2. ASSUME NEW k \in 1 .. Len(g) PROVE (a \o g)[k + 1] = g[k]
      <4>1. PICK m : m = k + 1
        BY Zenon
      <4>2. m \in 1 .. 1 + Len(g) /\ ~(m <= 1) /\ m - 1 = k
        BY <1>4, <4>1
      <4>3. (a \o g)[m] = g[m - 1]
        BY <2>2, <4>2, Zenon
      <4>4. QED
        BY <4>1, <4>2, <4>3, Zenon
    <3>3. QED
        BY <3>1, <3>2, Zenon
  <2>6. Len(a \o g) = Len(g) + 1
    BY <2>2, <1>4
  <2>7. QED
    BY <2>2, <2>5, <2>6, Zenon DEF a
<1>6. Join(f) = SubSeq(s, i, Len(s))
  <2>1. Join(f) = t \o (<<"/">> \o SubSeq(s, e + 1, Len(s)))
    BY <1>2, <1>4, JoinCons, Zenon
  <2>2. SubSeq(s, e, Len(s)) = <<s[e]>> \o SubSeq(s, e + 1, Len(s))
    BY SubSeqRecursiveFirst
  <2>3. SubSeq(s, i, e - 1) \o SubSeq(s, e - 1 + 1, Len(s)) = SubSeq(s, i, Len(s))
    <3>1. e - 1 \in i - 1 .. Len(s) /\ Len(s) \in e - 1 .. Len(s)
        OBVIOUS
    <3>2. QED
        BY <3>1, ConcatAdjacentSubSeq, Zenon
  <2>4. e - 1 + 1 = e
    OBVIOUS
  <2>5. QED
    BY <1>1, <2>1, <2>2, <2>3, <2>4, Zenon
<1> HIDE DEF f, t
<1>7. f # <<>>
    BY <1>4, <1>5
<1>8. \A k \in 1 .. Len(f) : k = 1 \/ \E m \in 1 .. Len(g) : k = m + 1
  <2>1. \A k \in 1 .. Len(f) : k # 1 => k - 1 \in 1 .. Len(g) /\ k = k - 1 + 1
    BY <1>4, <1>5
  <2>2. QED
    BY <2>1
<1>9. ASSUME NEW k \in 1 .. Len(f), NEW j \in 1 .. Len(f[k])
      PROVE  \E p \in i .. Len(s) : f[k][j] = s[p]
  <2>1. CASE k = 1
    <3>1. j \in 1 .. e - i /\ i + j - 1 \in i .. Len(s)
        BY <2>1, <1>2, <1>5
    <3>2. QED
        BY <2>1, <3>1, <1>2, <1>5
  <2>2. CASE \E m \in 1 .. Len(g) : k = m + 1
    <3>1. PICK m \in 1 .. Len(g) : k = m + 1
        BY <2>2
    <3>2. f[k] = g[m]
        BY <3>1, <1>5
    <3>3. PICK p \in e + 1 .. Len(s) : f[k][j] = s[p]
      <4>1. j \in 1 .. Len(g[m])
        BY <3>2, Zenon
      <4>2. \A o \in 1 .. Len(g) : \A l \in 1 .. Len(g[o]) : \E p \in e + 1 .. Len(s) : g[o][l] = s[p]
        BY <1>3, Zenon DEF Parts
      <4>3. QED
        BY <3>2, <4>1, <4>2, Zenon
    <3>4. p \in i .. Len(s)
        OBVIOUS
    <3>5. QED
        BY <3>3, <3>4
  <2>3. QED
    BY <2>1, <2>2, <1>8
<1>10. ASSUME NEW p \in i .. Len(s), s[p] # "/"
       PROVE  \E k \in 1 .. Len(f) : \E j \in 1 .. Len(f[k]) : f[k][j] = s[p]
  <2>1. CASE p < e
    <3>1. p - i + 1 \in 1 .. e - i /\ i + (p - i + 1) - 1 = p /\ 1 \in 1 .. Len(f)
        BY <2>1, <1>4, <1>5
    <3>2. t[p - i + 1] = s[p]
        BY <3>1, <1>2
    <3>3. p - i + 1 \in 1 .. Len(f[1]) /\ f[1][p - i + 1] = s[p]
        BY <3>1, <3>2, <1>2, <1>5
    <3>4. QED
        BY <3>1, <3>3
  <2>2. CASE p > e
    <3>1. p \in e + 1 .. Len(s)
        BY <2>2
    <3>2. PICK m \in 1 .. Len(g) : \E j \in 1 .. Len(g[m]) : g[m][j] = s[p]
        BY <3>1, <1>3, <1>10, Zenon DEF Parts
    <3>3. m + 1 \in 1 .. Len(f) /\ f[m + 1] = g[m]
        BY <1>4, <1>5
    <3>4. QED
        BY <3>2, <3>3
  <2>3. QED
    BY <2>1, <2>2, <1>1, <1>10
<1>11. \E q \in i .. Len(s) + 1 :
          f[Len(f)] = SubSeq(s, q, Len(s)) /\ (q = i \/ s[q - 1] = "/")
  <2>1. PICK q \in e + 1 .. Len(s) + 1 :
            g[Len(g)] = SubSeq(s, q, Len(s)) /\ (q = e + 1 \/ s[q - 1] = "/")
    BY <1>3, Zenon DEF Parts
  <2>2. q \in i .. Len(s) + 1
    OBVIOUS
  <2>3. s[q - 1] = "/"
    BY <2>1, <1>1
  <2>4. f[Len(f)] = g[Len(g)]
    <3>1. Len(g) \in 1 .. Len(g)
        BY <1>4
    <3>2. f[Len(g) + 1] = g[Len(g)]
        BY <3>1, <1>5, Zenon
    <3>3. QED
        BY <3>2, <1>5, Zenon
  <2>5. QED
    BY <2>1, <2>2, <2>3, <2>4
<1>12. Parts(S, s, i, f)
    BY <1>5, <1>6, <1>7, <1>9, <1>10, <1>11, Zenon DEF Parts
<1>13. QED
    BY <1>1, <1>12 DEF f, t

\* So are the fields that topic::split gives for the whole string.
LEMMA SplitParts ==
    ASSUME NEW S, "/" \in S, NEW s \in Seq(S), s # <<>>
    PROVE  Parts(S, s, 1, Split(s))
<1>1. PICK from : /\ Split(s) = from[1]
                  /\ \A i \in 1 .. Len(s) + 1 : from[i] = Fields(s, from, i)
    BY SplitIs
<1> DEFINE N == Len(s) + 1
           T == {k \in Nat : k < N /\ ~Parts(S, s, N - k, from[N - k])}
<1>2. N \in Nat /\ N >= 1
    OBVIOUS
<1>3. T = {}
  <2>1. SUFFICES ASSUME T # {} PROVE FALSE
    OBVIOUS
  <2>2. PICK k \in T : \A m \in T : k <= m
    <3> HIDE DEF T
    <3>1. T \subseteq Nat
        BY DEF T
    <3>2. QED
        BY <2>1, <3>1, Least, Zenon
  <2>3. PICK i \in 1 .. N : i = N - k /\ ~Parts(S, s, i, from[i])
    BY <1>2, <2>2
  <2>4. from[i] = Fields(s, from, i)
    BY <1>1
  <2>5. PICK e \in i .. N : e = FieldEnd(s, i)
    BY FieldEndIs
  <2>6. CASE e > Len(s)
    <3>1. e - 1 = Len(s)
        BY <2>6, <1>2
    <3>2. from[i] = <<SubSeq(s, i, Len(s))>>
        BY <2>4, <2>5, <2>6, <3>1 DEF Fields
    <3>3. QED
        BY <2>3, <3>2, PartsLast, Zenon
  <2>7. CASE e <= Len(s)
    <3>1. e + 1 \in 1 .. N /\ N - (e + 1) \in Nat /\ N - (e + 1) < k /\ N - (e + 1) < N
          /\ N - (N - (e + 1)) = e + 1
        BY <1>2, <2>2, <2>3, <2>7
    <3>2. N - (e + 1) \notin T
        BY <2>2, <3>1
    <3>3. Parts(S, s, e + 1, from[e + 1])
        BY <3>1, <3>2
    <3>4. from[i] = <<SubSeq(s, i, e - 1)>> \o from[e + 1]
      <4>1. ~(e > Len(s))
        BY <1>2, <2>7
      <4>2. QED
        BY <2>4, <2>5, <4>1, Zenon DEF Fields
    <3>5. QED
        BY <2>3, <2>5, <2>7, <3>3, <3>4, PartsMore, Zenon
  <2>8. QED
    BY <2>6, <2>7
<1>4. N - 1 \notin T
    BY <1>3
<1>5. N - 1 \in Nat /\ N - 1 < N /\ N - (N - 1) = 1
    BY <1>2
<1>6. QED
    BY <1>1, <1>4, <1>5

\* A string of one character.
LEMMA OneChar ==
    ASSUME NEW S, NEW u \in Seq(S), Len(u) = 1
    PROVE  u = <<u[1]>>
<1>1. u[1] \in S
  <2>1. 1 \in 1 .. Len(u)
    OBVIOUS
  <2>2. QED
    BY <2>1, ElementOfSeq, Zenon
<1> DEFINE c == u[1]
           v == <<c>>
<1> HIDE DEF c
<1>2. v \in Seq(S) /\ Len(v) = 1 /\ v[1] = c
    BY <1>1 DEF c
<1> HIDE DEF v
<1>3. \A i \in 1 .. Len(u) : u[i] = v[i]
    BY <1>2 DEF c
<1>4. u = v
    BY <1>2, <1>3, SeqEqual
<1>5. QED
    BY <1>4 DEF v, c

LEMMA Wildcards ==
    /\ Len(Plus) = 1 /\ Plus[1] = "+"
    /\ Len(Hash) = 1 /\ Hash[1] = "#"
    /\ Plus # Hash
BY DEF Plus, Hash

\* The fields of a topic: none is a wildcard.
LEMMA TopicFields ==
    ASSUME NEW S, "/" \in S, NEW t \in Seq(S), IsTopic(t)
    PROVE  /\ Split(t) \in Seq(Seq(S)) /\ Len(Split(t)) \in Nat \ {0}
           /\ Join(Split(t)) = t
           /\ \A k \in 1 .. Len(Split(t)) : Split(t)[k] \notin {Plus, Hash}
<1>1. t # <<>> /\ \A i \in 1 .. Len(t) : t[i] \notin {"+", "#"}
    BY DEF IsTopic
<1> DEFINE L == Split(t)
<1>2. Parts(S, t, 1, L)
    BY <1>1, SplitParts
<1> HIDE DEF L
<1>3. L \in Seq(Seq(S)) /\ Len(L) \in Nat \ {0} /\ Join(L) = t
    BY <1>2, EmptySeq, SubSeqFull DEF Parts
<1>4. ASSUME NEW k \in 1 .. Len(L), L[k] \in {Plus, Hash} PROVE FALSE
  <2>1. Len(L[k]) = 1 /\ L[k][1] \in {"+", "#"}
    BY <1>4, Wildcards
  <2>2. PICK p \in 1 .. Len(t) : L[k][1] = t[p]
    BY <1>2, <2>1 DEF Parts
  <2>3. QED
    BY <1>1, <2>1, <2>2, Zenon
<1>5. QED
    BY <1>3, <1>4 DEF L

\* The fields of a filter: "#" is the last one if the string ends with it, "+" is
\* one if the string has one.
LEMMA FilterFields ==
    ASSUME NEW S, "/" \in S, NEW f \in Seq(S), IsFilter(f)
    PROVE  /\ Split(f) \in Seq(Seq(S)) /\ Len(Split(f)) \in Nat \ {0}
           /\ Join(Split(f)) = f
           /\ \A k \in 1 .. Len(Split(f)) : Split(f)[k] = Hash => k = Len(Split(f))
           /\ Split(f)[Len(Split(f))] = Hash <=> f[Len(f)] = "#"
           /\ (\E k \in 1 .. Len(Split(f)) : Split(f)[k] = Plus)
                    <=> \E i \in 1 .. Len(f) : f[i] = "+"
<1> DEFINE F == Split(f)
           n == Len(F)
<1>1. f # <<>> /\ Len(f) \in Nat \ {0}
    BY EmptySeq DEF IsFilter
<1>2. Parts(S, f, 1, F)
    BY <1>1, SplitParts
<1>3. F \in Seq(Seq(S)) /\ n \in Nat \ {0} /\ Join(F) = f
    BY <1>2, EmptySeq, SubSeqFull DEF Parts
<1>4. \A k \in DOMAIN F :
          /\ \A i \in DOMAIN F[k] : F[k][i] \in {"+", "#"} => Len(F[k]) = 1
          /\ F[k] = Hash => k = n
    BY Zenon DEF IsFilter
<1> HIDE DEF F
<1>5. \A k \in 1 .. n : F[k] \in Seq(S) /\ DOMAIN F[k] = 1 .. Len(F[k])
    BY <1>3, ElementOfSeq
<1>6. DOMAIN F = 1 .. n
    BY <1>3
<1>7. \A k \in 1 .. n :
          /\ \A i \in 1 .. Len(F[k]) : F[k][i] \in {"+", "#"} => Len(F[k]) = 1
          /\ F[k] = Hash => k = n
    BY <1>4, <1>5, <1>6, Zenon
<1>8. n \in 1 .. n
    BY <1>3
<1>9. PICK q \in 1 .. Len(f) + 1 : F[n] = SubSeq(f, q, Len(f)) /\ (q = 1 \/ f[q - 1] = "/")
    BY <1>2 DEF Parts
<1>10. /\ Len(F[n]) = Len(f) + 1 - q
       /\ \A j \in 1 .. Len(f) + 1 - q : F[n][j] = f[q + j - 1]
  <2>1. Len(f) + 1 \in q .. Len(f) + 1 /\ Len(f) + 1 - 1 = Len(f)
    OBVIOUS
  <2>2. QED
    BY <1>9, <2>1, SubString
<1>11. ASSUME F[n] = Hash PROVE f[Len(f)] = "#"
  <2>1. Len(F[n]) = 1 /\ F[n][1] = "#"
    BY <1>11, Wildcards
  <2>2. Len(f) + 1 - q = 1
    BY <1>10, <2>1, Zenon
  <2>3. 1 \in 1 .. Len(f) + 1 - q /\ q + 1 - 1 = Len(f)
    BY <1>1, <2>2
  <2>4. F[n][1] = f[q + 1 - 1]
    BY <1>10, <2>3, Zenon
  <2>5. QED
    BY <2>1, <2>3, <2>4, Zenon
<1>12. ASSUME f[Len(f)] = "#" PROVE F[n] = Hash
  <2>1. q # Len(f) + 1
    <3>1. ASSUME q = Len(f) + 1 PROVE FALSE
      <4>1. q # 1 /\ q - 1 = Len(f)
        BY <1>1, <3>1
      <4>2. QED
        BY <1>9, <1>12, <4>1
    <3>2. QED
        BY <3>1
  <2>2. PICK m \in 1 .. Len(f) + 1 - q : m = Len(f) + 1 - q /\ q + m - 1 = Len(f)
    BY <2>1
  <2>3. F[n][m] = "#" /\ m \in 1 .. Len(F[n])
    BY <1>10, <1>12, <2>2
  <2>4. Len(F[n]) = 1 /\ F[n][1] = "#"
    BY <1>7, <1>8, <1>10, <2>2, <2>3, Zenon
  <2>5. F[n] \in Seq(S)
    BY <1>5, <1>8
  <2>6. F[n] = <<F[n][1]>>
    BY <2>4, <2>5, OneChar, Zenon
  <2>7. QED
    BY <2>4, <2>6, Zenon DEF Hash
<1>13. ASSUME NEW k \in 1 .. n, F[k] = Plus PROVE \E i \in 1 .. Len(f) : f[i] = "+"
  <2>1. 1 \in 1 .. Len(F[k]) /\ F[k][1] = "+"
    BY <1>13, Wildcards
  <2>2. PICK p \in 1 .. Len(f) : F[k][1] = f[p]
    BY <1>2, <2>1, Zenon DEF Parts
  <2>3. QED
    BY <2>1, <2>2, Zenon
<1>14. ASSUME NEW i \in 1 .. Len(f), f[i] = "+" PROVE \E k \in 1 .. n : F[k] = Plus
  <2>1. PICK k \in 1 .. n : \E j \in 1 .. Len(F[k]) : F[k][j] = "+"
    <3>1. f[i] # "/"
        BY <1>14
    <3>2. \A p \in 1 .. Len(f) :
             f[p] # "/" => \E m \in 1 .. Len(F) : \E j \in 1 .. Len(F[m]) : F[m][j] = f[p]
        BY <1>2, Zenon DEF Parts
    <3>3. QED
        BY <1>2, <1>14, <3>1, <3>2, Zenon
  <2>2. PICK j \in 1 .. Len(F[k]) : F[k][j] = "+"
    BY <2>1
  <2>3. Len(F[k]) = 1
    BY <1>7, <2>2
  <2>4. j = 1 /\ F[k] \in Seq(S)
    BY <1>5, <2>3
  <2>5. F[k] = <<F[k][1]>>
    BY <2>3, <2>4, OneChar, Zenon
  <2>6. F[k] = Plus
    BY <2>2, <2>4, <2>5, Zenon DEF Plus
  <2>7. QED
    BY <2>6
<1>15. QED
    BY <1>3, <1>7, <1>11, <1>12, <1>13, <1>14 DEF F

\* What topic_filter::to_string() gives is what the filter was made from.
LEMMA StringIsKept ==
    ASSUME NEW S, NEW s \in Seq(S)
    PROVE  FilterString(s) = s
<1>1. s \in Seq(S \union {"/"})
    BY SeqMonotonic
<1>2. ASSUME s # <<>> PROVE Join(Split(s)) = s
  <2>1. Parts(S \union {"/"}, s, 1, Split(s))
    BY <1>1, <1>2, SplitParts
  <2>2. QED
    BY <1>1, <2>1, SubSeqFull DEF Parts
<1>3. QED
    BY <1>2 DEF FilterString, HasWildcards

-----------------------------------------------------------------------------
(* topic_filter::matches.                                                  *)

\* The fields of a filter before a "#" at its end.
Body(F) == IF F[Len(F)] = Hash THEN Len(F) - 1 ELSE Len(F)

\* The rules of MQTT on fields: what both the filter and the trie decide.
Fit(F, L) ==
    /\ IF F[Len(F)] = Hash THEN Len(L) >= Body(F) ELSE Len(L) = Body(F)
    /\ \A i \in 1 .. Body(F) : F[i] = Plus \/ F[i] = L[i]
    /\ F[1] \in {Plus, Hash} => ~IsSystem(L[1])

LEMMA SpecIsFit ==
    ASSUME NEW S, "/" \in S, NEW f \in Seq(S), IsFilter(f), NEW t
    PROVE  SpecMatches(f, t) <=> Fit(Split(f), Split(t))
<1> DEFINE F == Split(f)
           L == Split(t)
           body == IF Last(F) = Hash THEN Front(F) ELSE F
<1>1. F \in Seq(Seq(S)) /\ Len(F) \in Nat \ {0}
    BY FilterFields
<1>2. SpecMatches(f, t) <=>
        /\ IF Last(F) = Hash THEN Len(L) >= Len(body) ELSE Len(L) = Len(body)
        /\ \A i \in DOMAIN body : body[i] \in {Plus, L[i]}
        /\ F[1] \in {Plus, Hash} => ~IsSystem(L[1])
    BY Zenon DEF SpecMatches
<1> HIDE DEF F, L
<1>3. Last(F) = F[Len(F)]
    BY DEF Last
<1>4. Len(body) = Body(F) /\ DOMAIN body = 1 .. Body(F) /\ \A i \in 1 .. Body(F) : body[i] = F[i]
  <2>1. CASE F[Len(F)] = Hash
    <3>1. body = Front(F)
        BY <2>1, <1>3, Zenon
    <3>2. PICK n \in Nat : Len(F) = n + 1
      <4>1. Len(F) - 1 \in Nat /\ Len(F) = (Len(F) - 1) + 1
        BY <1>1
      <4>2. QED
        BY <4>1, Zenon
    <3>3. /\ Front(F) \in Seq(Seq(S)) /\ Len(Front(F)) = n
          /\ \A j \in 1 .. n : Front(F)[j] = F[j]
        BY <1>1, <3>2, FrontIs, Zenon
    <3>4. DOMAIN Front(F) = 1 .. n
        BY <3>3, LenProperties
    <3> HIDE DEF body
    <3>5. Body(F) = n
        BY <2>1, <3>2 DEF Body
    <3>6. QED
        BY <3>1, <3>3, <3>4, <3>5, Zenon
  <2>2. CASE F[Len(F)] # Hash
    <3>1. body = F /\ Body(F) = Len(F)
        BY <2>2, <1>3 DEF Body
    <3>2. DOMAIN F = 1 .. Len(F)
        BY <1>1
    <3> HIDE DEF body
    <3>3. QED
        BY <3>1, <3>2, Zenon
  <2>3. QED
    BY <2>1, <2>2
<1> HIDE DEF body
<1>5. (\A i \in DOMAIN body : body[i] \in {Plus, L[i]})
        <=> \A i \in 1 .. Body(F) : F[i] = Plus \/ F[i] = L[i]
    BY <1>4, Zenon
<1>6. SpecMatches(f, t) <=> Fit(F, L)
    BY <1>2, <1>3, <1>4, <1>5, Zenon DEF Fit
<1>7. QED
    BY <1>6 DEF F, L

\* The loop of matches() compares the fields before a "#" at the end.
LEMMA FieldsMatchIs ==
    ASSUME NEW F, NEW L, NEW n \in Nat \ {0}, Len(F) = n, DOMAIN F = 1 .. n,
           \A k \in 1 .. n : F[k] = Hash => k = n
    PROVE  FieldsMatch(F, L) <=> \A i \in 1 .. Body(F) : F[i] = Plus \/ F[i] = L[i]
<1> DEFINE T == {i \in DOMAIN F : F[i] = Hash} \union {Len(F) + 1}
           stop == Min(T)
<1>1. T \subseteq Nat /\ T # {} /\ n + 1 \in T
    OBVIOUS
<1>2. \A i \in T : (i = n /\ F[n] = Hash) \/ i = n + 1
    OBVIOUS
<1>3. F[n] = Hash => n \in T
    OBVIOUS
<1>4. FieldsMatch(F, L) <=> \A i \in 1 .. stop - 1 : F[i] = Plus \/ F[i] = L[i]
    BY Zenon DEF FieldsMatch
<1> HIDE DEF T
<1>5. stop \in T /\ \A y \in T : stop <= y
  <2>1. \E x \in T : \A y \in T : x <= y
    BY <1>1, Least, Zenon
  <2>2. QED
    BY <2>1, Zenon DEF Min
<1> HIDE DEF stop
<1>6. stop - 1 = Body(F)
  <2>1. CASE F[n] = Hash
    <3>1. stop <= n /\ n \in Nat
        BY <2>1, <1>3, <1>5
    <3>2. stop = n
        BY <3>1, <1>2, <1>5
    <3>3. QED
        BY <2>1, <3>2 DEF Body
  <2>2. CASE F[n] # Hash
    <3>1. stop = n + 1
        BY <2>2, <1>2, <1>5
    <3>2. QED
        BY <2>2, <3>1 DEF Body
  <2>3. QED
    BY <2>1, <2>2
<1>7. QED
    BY <1>4, <1>6, Zenon

\* topic_filter::matches decides by the rules of MQTT.
LEMMA MatchesIsFit ==
    ASSUME NEW S, "/" \in S, NEW f \in Seq(S), IsFilter(f), NEW t \in Seq(S), IsTopic(t)
    PROVE  Matches(f, t) <=> Fit(Split(f), Split(t))
<1> DEFINE F == Split(f)
           L == Split(t)
           n == Len(F)
           nt == Len(L)
<1>1. /\ F \in Seq(Seq(S)) /\ n \in Nat \ {0} /\ Join(F) = f
      /\ \A k \in 1 .. n : F[k] = Hash => k = n
      /\ F[n] = Hash <=> f[Len(f)] = "#"
      /\ (\E k \in 1 .. n : F[k] = Plus) <=> \E i \in 1 .. Len(f) : f[i] = "+"
    BY FilterFields
<1>2. /\ L \in Seq(Seq(S)) /\ nt \in Nat \ {0} /\ Join(L) = t
      /\ \A k \in 1 .. nt : L[k] \notin {Plus, Hash}
    BY TopicFields
<1>3. Matches(f, t) <=>
        IF ~HasWildcards(f) THEN f = t
        ELSE /\ ~(n > nt /\ ~(n = nt + 1 /\ Last(F) = Hash))
             /\ ~(nt > n /\ Last(F) # Hash)
             /\ ~(IsWildcard(F[1]) /\ nt > 0 /\ IsSystem(L[1]))
             /\ FieldsMatch(F, L)
    BY Zenon DEF Matches
<1>4. HasWildcards(f) <=> F[n] = Hash \/ \E k \in 1 .. n : F[k] = Plus
  <2>1. f # <<>>
    BY DEF IsFilter
  <2>2. DOMAIN f = 1 .. Len(f)
    OBVIOUS
  <2> HIDE DEF F, n
  <2>3. QED
    BY <1>1, <2>1, <2>2, Zenon DEF HasWildcards, Last
<1>5. f = t <=> F = L
    BY <1>1, <1>2, Zenon
<1>6. Last(F) = F[n]
    BY DEF Last
<1> HIDE DEF F, L
<1>7. DOMAIN F = 1 .. n /\ n \in 1 .. n /\ 1 \in 1 .. n
    BY <1>1
<1>8. FieldsMatch(F, L) <=> \A i \in 1 .. Body(F) : F[i] = Plus \/ F[i] = L[i]
  <2>1. PICK m \in Nat \ {0} : /\ Len(F) = m /\ DOMAIN F = 1 .. m
                               /\ \A k \in 1 .. m : F[k] = Hash => k = m
    BY <1>1, <1>7, Zenon
  <2>2. QED
    BY <2>1, FieldsMatchIs
<1>9. CASE ~HasWildcards(f)
  <2>1. F[n] # Hash /\ \A k \in 1 .. n : F[k] # Plus
    BY <1>4, <1>9, Zenon
  <2>2. Body(F) = n
    BY <2>1 DEF Body
  <2>3. F[1] \notin {Plus, Hash}
    BY <1>1, <1>7, <2>1, Zenon
  <2>4. Fit(F, L) <=> nt = n /\ \A i \in 1 .. n : F[i] = L[i]
    BY <2>1, <2>2, <2>3, Zenon DEF Fit
  <2>5. ASSUME nt = n, \A i \in 1 .. n : F[i] = L[i] PROVE F = L
    BY <1>1, <1>2, <2>5, SeqEqual
  <2>6. Fit(F, L) <=> F = L
    BY <2>4, <2>5, Zenon
  <2>7. QED
    BY <1>3, <1>5, <1>9, <2>6, Zenon DEF F, L
<1>10. CASE HasWildcards(f)
  <2>1. Matches(f, t) <=>
            /\ ~(n > nt /\ ~(n = nt + 1 /\ F[n] = Hash))
            /\ ~(nt > n /\ F[n] # Hash)
            /\ ~(F[1] \in {Plus, Hash} /\ nt > 0 /\ IsSystem(L[1]))
            /\ \A i \in 1 .. Body(F) : F[i] = Plus \/ F[i] = L[i]
    BY <1>3, <1>6, <1>8, <1>10, Zenon DEF IsWildcard
  <2>2. nt > 0 /\ n \in Nat /\ nt \in Nat
    BY <1>2, <1>1
  <2>3. CASE F[n] = Hash
    <3>1. Body(F) = n - 1
        BY <2>3 DEF Body
    <3>2. ~(n > nt /\ ~(n = nt + 1)) <=> nt >= n - 1
        BY <2>2
    <3>3. Matches(f, t) <=> Fit(F, L)
        BY <2>1, <2>2, <2>3, <3>1, <3>2, Zenon DEF Fit
    <3>4. QED
        BY <3>3 DEF F, L
  <2>4. CASE F[n] # Hash
    <3>1. Body(F) = n
        BY <2>4 DEF Body
    <3>2. ~(n > nt) /\ ~(nt > n) <=> nt = n
        BY <2>2
    <3>3. Matches(f, t) <=> Fit(F, L)
        BY <2>1, <2>2, <2>4, <3>1, <3>2, Zenon DEF Fit
    <3>4. QED
        BY <3>3 DEF F, L
  <2>5. QED
    BY <2>3, <2>4
<1>11. QED
    BY <1>9, <1>10

\* A filter gives back the string it was made from, for strings of any length over
\* any characters.
THEOREM FiltersKeepTheirString == Spec => []FilterRoundTrip
<1>1. FilterRoundTrip
    BY StringIsKept, StringsAssumption DEF FilterRoundTrip
<1>2. QED
    BY <1>1, PTL

\* topic_filter::matches follows the rules of MQTT, for any filter and any topic
\* that these allow.
THEOREM FiltersFollowMqtt == Spec => []FilterMatchesSpec
<1>1. FilterMatchesSpec
  <2>1. SUFFICES ASSUME NEW f \in FilterStrings, IsFilter(f), NEW t \in TopicStrings, IsTopic(t)
                 PROVE  Matches(f, t) <=> SpecMatches(f, t)
    BY DEF FilterMatchesSpec
  <2> DEFINE S == Char \union {"/"}
  <2>2. f \in Seq(S) /\ t \in Seq(S) /\ "/" \in S
    BY StringsAssumption, SeqMonotonic
  <2> HIDE DEF S
  <2>3. QED
    BY <2>1, <2>2, MatchesIsFit, SpecIsFit
<1>2. QED
    BY <1>1, PTL

-----------------------------------------------------------------------------
(* The invariant of the trie and of an iterator.                           *)

Text == Char \union {"/"}
Path == Seq(Seq(Text))

\* One node is above another, or the same.
Above(x, y) == Len(x) <= Len(y) /\ \A i \in 1 .. Len(x) : x[i] = y[i]

Values == {Split(f) : f \in Filters}

\* The trie: finite, with the nodes above each node, and values for filters only.
Trie ==
    /\ nodes \subseteq Path /\ IsFiniteSet(nodes)
    /\ Root \in nodes
    /\ \A node \in nodes : \A k \in 0 .. Len(node) : SubSeq(node, 1, k) \in nodes
    /\ content \subseteq nodes /\ content \subseteq Values

Entry == [node : Path, fields : Path, first : BOOLEAN]
Iterator == [kind : {"all", "match"}, topic : Seq(Text), stack : Seq(Entry),
             pos : {"at", "next", "end"}]

\* The iterator, and what is known of it while it is in use.
Shape ==
    /\ it \in Iterator /\ found \in Seq(Path)
    /\ it.kind = "match" => it.topic \in Topics
    /\ kept \subseteq Values
    /\ tidy \in BOOLEAN
    /\ it.pos # "end" =>
          /\ \A i \in 1 .. Len(it.stack) : it.stack[i].node \in nodes
          /\ kept \subseteq content
          /\ tidy => ~Untidy

\* No entry of the stack is above another, or above a value that was found; so no
\* value can be found again.
Separate(stack, values) ==
    /\ \A i, j \in 1 .. Len(stack) : i # j => ~Above(stack[i].node, stack[j].node)
    /\ \A i \in 1 .. Len(stack) : \A k \in 1 .. Len(values) : ~Above(stack[i].node, values[k])
    /\ \A k, m \in 1 .. Len(values) : values[k] = values[m] => k = m

\* An entry of a search stands for a beginning of the topic that its node fits.
Route(e, L) ==
    /\ Len(e.node) <= Len(L)
    /\ e.fields = SubSeq(L, Len(e.node) + 1, Len(L))
    /\ e.first <=> Len(e.node) = 0
    /\ \A k \in 1 .. Len(e.node) : e.node[k] = Plus \/ e.node[k] = L[k]
    /\ Len(e.node) > 0 /\ e.node[1] = Plus => ~IsSystem(L[1])

Routes ==
    it.kind = "match" =>
        /\ \A i \in 1 .. Len(it.stack) : Route(it.stack[i], Split(it.topic))
        /\ \A k \in 1 .. Len(found) : found[k] \in Values /\ Fit(found[k], Split(it.topic))

\* A value was found, or is below an entry of the stack.
Reached(node, stack, values) ==
    \/ \E k \in 1 .. Len(values) : values[k] = node
    \/ \E i \in 1 .. Len(stack) : Above(stack[i].node, node)

\* The values that the iterator owes its user.
Owed(node) == it.kind = "match" => tidy /\ Fit(node, Split(it.topic))

Complete ==
    /\ \A node \in kept : Owed(node) => Reached(node, it.stack, found)
    /\ it.pos = "end" => it.stack = <<>> \/ (it.kind = "match" /\ ~tidy)

Inv == Trie /\ Shape /\ Separate(it.stack, found) /\ Routes /\ Complete

-----------------------------------------------------------------------------
(* Nodes above others.                                                     *)

LEMMA AboveSelf ==
    ASSUME NEW S, NEW x \in Seq(S)
    PROVE  Above(x, x)
BY DEF Above

LEMMA AboveAppend ==
    ASSUME NEW S, NEW x \in Seq(S), NEW y \in Seq(S), NEW c \in S
    PROVE  /\ Above(y, Append(y, c))
           /\ ~Above(Append(y, c), y)
           /\ Above(Append(y, c), x) => Above(y, x)
           /\ Above(x, Append(y, c)) => Above(x, y) \/ x = Append(y, c)
<1> DEFINE z == Append(y, c)
<1>1. /\ z \in Seq(S) /\ Len(z) = Len(y) + 1
      /\ \A i \in 1 .. Len(y) : z[i] = y[i]
    BY AppendProperties
<1> HIDE DEF z
<1>2. Len(x) \in Nat /\ Len(y) \in Nat
    OBVIOUS
<1>4. Above(y, z) /\ ~Above(z, y)
    BY <1>1, <1>2 DEF Above
<1>5. Above(z, x) => Above(y, x)
  <2>1. \A i \in 1 .. Len(y) : i \in 1 .. Len(z)
    BY <1>1, <1>2
  <2>2. Len(z) <= Len(x) => Len(y) <= Len(x)
    BY <1>1, <1>2
  <2>3. QED
    BY <1>1, <2>1, <2>2 DEF Above
<1>6. ASSUME Above(x, z) PROVE Above(x, y) \/ x = z
  <2>1. CASE Len(x) = Len(z)
    <3>1. \A i \in 1 .. Len(x) : x[i] = z[i]
        BY <1>6 DEF Above
    <3>2. x = z
        BY <2>1, <3>1, <1>1, SeqEqual
    <3>3. QED
        BY <3>2
  <2>2. CASE Len(x) # Len(z)
    <3>1. Len(x) <= Len(y)
        BY <2>2, <1>1, <1>2, <1>6 DEF Above
    <3>2. \A i \in 1 .. Len(x) : i \in 1 .. Len(y) /\ x[i] = z[i]
        BY <3>1, <1>2, <1>6 DEF Above
    <3>3. \A i \in 1 .. Len(x) : x[i] = y[i]
        BY <1>1, <3>2, Zenon
    <3>4. QED
        BY <3>1, <3>3 DEF Above
  <2>3. QED
    BY <2>1, <2>2
<1>7. QED
    BY <1>4, <1>5, <1>6 DEF z

\* Of two children of a node none is above the other.
LEMMA AboveSiblings ==
    ASSUME NEW S, NEW y \in Seq(S), NEW c \in S, NEW d \in S,
           Above(Append(y, c), Append(y, d))
    PROVE  Append(y, c) = Append(y, d)
<1>1. PICK z \in Seq(S) : z = Append(y, c)
    BY AppendProperties, Zenon
<1>2. ~Above(z, y)
    BY <1>1, AboveAppend
<1>3. Above(z, Append(y, d)) => Above(z, y) \/ z = Append(y, d)
    BY AboveAppend
<1>4. QED
    BY <1>1, <1>2, <1>3, Zenon

\* The last entry of a stack is taken off and others are put there.
Pushed(st, B, N) ==
    /\ N \in Seq(Entry)
    /\ Last(st) = st[Len(st)] /\ Len(st) \in 1 .. Len(st)
    /\ \A i \in 1 .. Len(st) - 1 : \E j \in 1 .. Len(N) : N[j] = st[i]
    /\ \A i \in 1 .. Len(B) : \E j \in 1 .. Len(N) : N[j] = B[i]
    /\ \A i \in 1 .. Len(N) :
          \/ i \in 1 .. Len(st) - 1 /\ N[i] = st[i]
          \/ i - (Len(st) - 1) \in 1 .. Len(B) /\ N[i] = B[i - (Len(st) - 1)]

LEMMA PopPush ==
    ASSUME NEW st \in Seq(Entry), st # <<>>, NEW B \in Seq(Entry)
    PROVE  Pushed(st, B, Front(st) \o B)
<1> DEFINE n == Len(st) - 1
           R == Front(st)
           N == Front(st) \o B
<1>1. Len(st) \in Nat \ {0} /\ n \in Nat /\ Len(B) \in Nat
  <2>1. Len(st) \in Nat \ {0}
    BY EmptySeq
  <2>2. QED
    BY <2>1
<1>2. R \in Seq(Entry) /\ Len(R) = n /\ \A i \in 1 .. n : R[i] = st[i]
  <2>1. Len(st) = n + 1
    BY <1>1
  <2> HIDE DEF n
  <2>2. QED
    BY <1>1, <2>1, FrontIs, Zenon
<1>3. N = R \o B
    BY Zenon
<1> HIDE DEF R, N
<1>4. /\ N \in Seq(Entry) /\ Len(N) = n + Len(B)
      /\ \A i \in 1 .. n + Len(B) : N[i] = IF i <= n THEN R[i] ELSE B[i - n]
  <2>1. /\ N \in Seq(Entry) /\ Len(N) = Len(R) + Len(B)
        /\ \A i \in 1 .. Len(R) + Len(B) : N[i] = IF i <= Len(R) THEN R[i] ELSE B[i - Len(R)]
    BY <1>2, <1>3, ConcatProperties, Zenon
  <2> HIDE DEF n
  <2>2. QED
    BY <1>2, <2>1, Zenon
<1> HIDE DEF n
<1>5. \A i \in 1 .. n : i \in 1 .. Len(N) /\ N[i] = st[i]
    BY <1>1, <1>2, <1>4
<1>6. ASSUME NEW i \in 1 .. Len(B) PROVE \E j \in 1 .. Len(N) : N[j] = B[i]
  <2>1. PICK j : j = n + i
    OBVIOUS
  <2>2. j \in 1 .. n + Len(B) /\ ~(j <= n) /\ j - n = i
    BY <1>1, <2>1
  <2>3. N[j] = B[i] /\ j \in 1 .. Len(N)
    BY <1>4, <2>2, Zenon
  <2>4. QED
    BY <2>3, Zenon
<1>7. ASSUME NEW i \in 1 .. Len(N)
      PROVE  (i \in 1 .. n /\ N[i] = st[i]) \/ (i - n \in 1 .. Len(B) /\ N[i] = B[i - n])
  <2>1. i \in 1 .. n \/ (~(i <= n) /\ i - n \in 1 .. Len(B))
    BY <1>1, <1>4
  <2>2. i \in 1 .. n + Len(B)
    BY <1>4
  <2>3. QED
    BY <1>4, <1>5, <2>1, <2>2
<1>8. Last(st) = st[Len(st)] /\ Len(st) \in 1 .. Len(st)
    BY <1>1 DEF Last
<1>9. QED
  <2>1. \A i \in 1 .. n : \E j \in 1 .. Len(N) : N[j] = st[i]
    BY <1>5, Zenon
  <2>2. QED
    BY <1>4, <1>6, <1>7, <1>8, <2>1, Zenon DEF Pushed, N, n

-----------------------------------------------------------------------------
(* The steps of an iterator, seen as changes of its stack.                 *)

\* The entries are for different children of a node.
Kids(B, x) ==
    /\ \A j \in 1 .. Len(B) : \E c \in Seq(Text) : B[j].node = Append(x, c)
    /\ \A j, k \in 1 .. Len(B) : B[j].node = B[k].node => j = k

\* Entries for children take the place of the last entry.
LEMMA SeparatePush ==
    ASSUME NEW st \in Seq(Entry), st # <<>>, NEW vs \in Seq(Path), Separate(st, vs),
           NEW B \in Seq(Entry), Kids(B, Last(st).node)
    PROVE  /\ Separate(Front(st) \o B, vs)
           /\ \A y \in Path :
                 \/ y = Last(st).node
                 \/ /\ \E c \in Seq(Text) : y = Append(Last(st).node, c)
                    /\ \A j \in 1 .. Len(B) : B[j].node # y
                 => Separate(Front(st) \o B, Append(vs, y))
<1>0. PICK N : N = Front(st) \o B
    BY Zenon
<1> DEFINE n == Len(st) - 1
           x == Last(st).node
<1>1. /\ N \in Seq(Entry)
      /\ Last(st) = st[Len(st)] /\ Len(st) \in 1 .. Len(st)
      /\ \A i \in 1 .. Len(N) : \/ i \in 1 .. n /\ N[i] = st[i]
                                \/ i - n \in 1 .. Len(B) /\ N[i] = B[i - n]
  <2>1. Pushed(st, B, N)
    BY <1>0, PopPush, Zenon
  <2>2. QED
    BY <2>1, Zenon DEF Pushed
<1>2. x \in Path /\ x = st[Len(st)].node
  <2>1. st[Len(st)] \in Entry
    BY <1>1, ElementOfSeq
  <2>2. QED
    BY <1>1, <2>1 DEF Entry
<1> HIDE DEF x
<1>3. \A i \in 1 .. n : i \in 1 .. Len(st) /\ i # Len(st)
    OBVIOUS
<1>4. \A i \in 1 .. Len(st) : st[i].node \in Path
  <2>1. \A i \in 1 .. Len(st) : st[i] \in Entry
    BY ElementOfSeq
  <2>2. QED
    BY <2>1 DEF Entry
<1>5. \A i \in 1 .. n : ~Above(st[i].node, x) /\ ~Above(x, st[i].node)
    BY <1>1, <1>2, <1>3, Zenon DEF Separate
<1>6. \A k \in 1 .. Len(vs) : ~Above(x, vs[k])
    BY <1>1, <1>2, Zenon DEF Separate
<1>7. ASSUME NEW c \in Seq(Text), NEW i \in 1 .. n
      PROVE  ~Above(st[i].node, Append(x, c)) /\ ~Above(Append(x, c), st[i].node)
  <2>1. PICK a \in Path : a = st[i].node
    BY <1>3, <1>4, Zenon
  <2>2. ~Above(a, x) /\ ~Above(x, a)
    BY <1>5, <2>1, Zenon
  <2>3. /\ Above(x, Append(x, c))
        /\ Above(Append(x, c), a) => Above(x, a)
        /\ Above(a, Append(x, c)) => Above(a, x) \/ a = Append(x, c)
    BY <1>2, AboveAppend DEF Path
  <2>4. QED
    BY <2>1, <2>2, <2>3, Zenon
<1>8. \A k \in 1 .. Len(vs) : vs[k] \in Path
    BY ElementOfSeq
<1>9. ASSUME NEW c \in Seq(Text), NEW k \in 1 .. Len(vs)
      PROVE  ~Above(Append(x, c), vs[k])
  <2>1. vs[k] \in Path
    BY <1>8
  <2>2. QED
    BY <1>2, <1>6, <2>1, AboveAppend DEF Path
<1>10. ASSUME NEW i \in 1 .. Len(N), NEW j \in 1 .. Len(N), i # j
       PROVE  ~Above(N[i].node, N[j].node)
  <2>1. CASE i \in 1 .. n /\ N[i] = st[i] /\ j \in 1 .. n /\ N[j] = st[j]
    BY <2>1, <1>3, <1>10 DEF Separate
  <2>2. CASE i \in 1 .. n /\ N[i] = st[i] /\ j - n \in 1 .. Len(B) /\ N[j] = B[j - n]
    <3>1. PICK c \in Seq(Text) : B[j - n].node = Append(x, c)
        BY <2>2, Zenon DEF Kids, x
    <3>2. ~Above(st[i].node, Append(x, c))
        BY <2>2, <1>7
    <3>3. QED
        BY <2>2, <3>1, <3>2, Zenon
  <2>3. CASE i - n \in 1 .. Len(B) /\ N[i] = B[i - n] /\ j \in 1 .. n /\ N[j] = st[j]
    <3>1. PICK c \in Seq(Text) : B[i - n].node = Append(x, c)
        BY <2>3, Zenon DEF Kids, x
    <3>2. ~Above(Append(x, c), st[j].node)
        BY <2>3, <1>7
    <3>3. QED
        BY <2>3, <3>1, <3>2, Zenon
  <2>4. CASE i - n \in 1 .. Len(B) /\ N[i] = B[i - n] /\ j - n \in 1 .. Len(B) /\ N[j] = B[j - n]
    <3>1. i - n # j - n
        BY <1>10
    <3>2. B[i - n].node # B[j - n].node
        BY <2>4, <3>1, Zenon DEF Kids
    <3>3. PICK c \in Seq(Text) : B[i - n].node = Append(x, c)
        BY <2>4, Zenon DEF Kids, x
    <3>4. PICK d \in Seq(Text) : B[j - n].node = Append(x, d)
        BY <2>4, Zenon DEF Kids, x
    <3>5. Append(x, c) # Append(x, d)
        BY <3>2, <3>3, <3>4, Zenon
    <3>6. ~Above(Append(x, c), Append(x, d))
        BY <3>5, <1>2, AboveSiblings DEF Path
    <3>7. QED
        BY <2>4, <3>3, <3>4, <3>6, Zenon
  <2>5. QED
    BY <1>1, <2>1, <2>2, <2>3, <2>4, Zenon
<1>11. ASSUME NEW i \in 1 .. Len(N), NEW k \in 1 .. Len(vs)
       PROVE  ~Above(N[i].node, vs[k])
  <2>1. CASE i \in 1 .. n /\ N[i] = st[i]
    BY <2>1, <1>3, Zenon DEF Separate
  <2>2. CASE i - n \in 1 .. Len(B) /\ N[i] = B[i - n]
    <3>1. PICK c \in Seq(Text) : B[i - n].node = Append(x, c)
        BY <2>2, Zenon DEF Kids, x
    <3>2. QED
        BY <2>2, <3>1, <1>9, Zenon
  <2>3. QED
    BY <1>1, <2>1, <2>2, Zenon
<1>12. Separate(N, vs)
    BY <1>10, <1>11, Zenon DEF Separate
<1>13. ASSUME NEW y \in Path,
              \/ y = x
              \/ /\ \E c \in Seq(Text) : y = Append(x, c)
                 /\ \A j \in 1 .. Len(B) : B[j].node # y
       PROVE  Separate(N, Append(vs, y))
  <2>1. ASSUME NEW i \in 1 .. Len(N) PROVE ~Above(N[i].node, y)
    <3>1. CASE i \in 1 .. n /\ N[i] = st[i]
        BY <3>1, <1>5, <1>7, <1>13, Zenon
    <3>2. CASE i - n \in 1 .. Len(B) /\ N[i] = B[i - n]
      <4>1. PICK c \in Seq(Text) : N[i].node = Append(x, c)
        BY <3>2, Zenon DEF Kids, x
      <4>2. CASE y = x
        BY <4>1, <4>2, <1>2, AboveAppend DEF Path
      <4>3. CASE \E d \in Seq(Text) : y = Append(x, d) /\ B[i - n].node # y
        <5>1. PICK d \in Seq(Text) : y = Append(x, d) /\ B[i - n].node # y
            BY <4>3, Zenon
        <5>2. Append(x, c) # Append(x, d)
            BY <3>2, <4>1, <5>1, Zenon
        <5>3. ~Above(Append(x, c), Append(x, d))
            BY <5>2, <1>2, AboveSiblings DEF Path
        <5>4. QED
            BY <4>1, <5>1, <5>3, Zenon
      <4>4. QED
        BY <3>2, <4>2, <4>3, <1>13, Zenon
    <3>3. QED
        BY <1>1, <3>1, <3>2, Zenon
  <2>2. Above(x, y)
    <3>1. CASE y = x
        BY <3>1, <1>2, AboveSelf DEF Path
    <3>2. CASE \E c \in Seq(Text) : y = Append(x, c)
        BY <3>2, <1>2, AboveAppend DEF Path
    <3>3. QED
        BY <3>1, <3>2, <1>13
  <2>3. \A k \in 1 .. Len(vs) : vs[k] # y
    BY <1>6, <2>2, Zenon
  <2> DEFINE ws == Append(vs, y)
  <2>4. /\ Len(ws) = Len(vs) + 1 /\ Len(vs) \in Nat
        /\ \A k \in 1 .. Len(vs) : ws[k] = vs[k]
        /\ ws[Len(vs) + 1] = y
    BY AppendProperties
  <2> HIDE DEF ws
  <2>5. \A k \in 1 .. Len(ws) :
            (k \in 1 .. Len(vs) /\ ws[k] = vs[k]) \/ (k = Len(vs) + 1 /\ ws[k] = y)
    <3>1. \A k \in 1 .. Len(vs) + 1 : k \in 1 .. Len(vs) \/ k = Len(vs) + 1
        BY <2>4
    <3>2. QED
        BY <2>4, <3>1, Zenon
  <2>6. \A i \in 1 .. Len(N) : \A k \in 1 .. Len(ws) : ~Above(N[i].node, ws[k])
    BY <2>1, <2>5, <1>11, Zenon
  <2>7. \A k, m \in 1 .. Len(ws) : ws[k] = ws[m] => k = m
    BY <2>3, <2>5, Zenon DEF Separate
  <2>8. QED
    BY <1>10, <2>6, <2>7, Zenon DEF Separate, ws
<1>14. QED
    BY <1>0, <1>12, <1>13 DEF x

\* What is below an entry that is taken off must be below one of the new ones, or
\* be the value that is found.
LEMMA ReachedPush ==
    ASSUME NEW st \in Seq(Entry), st # <<>>, NEW vs \in Seq(Path), NEW B \in Seq(Entry),
           NEW node, Reached(node, st, vs)
    PROVE  /\ (Above(Last(st).node, node) => \E j \in 1 .. Len(B) : Above(B[j].node, node))
                => Reached(node, Front(st) \o B, vs)
           /\ \A y \in Path :
                (Above(Last(st).node, node) => node = y \/ \E j \in 1 .. Len(B) : Above(B[j].node, node))
                  => Reached(node, Front(st) \o B, Append(vs, y))
<1>0. PICK N : N = Front(st) \o B
    BY Zenon
<1> DEFINE Kid == \E j \in 1 .. Len(B) : Above(B[j].node, node)
<1>1. /\ Last(st) = st[Len(st)]
      /\ \A i \in 1 .. Len(st) - 1 : \E j \in 1 .. Len(N) : N[j] = st[i]
      /\ \A i \in 1 .. Len(B) : \E j \in 1 .. Len(N) : N[j] = B[i]
  <2>1. Pushed(st, B, N)
    BY <1>0, PopPush, Zenon
  <2>2. QED
    BY <2>1, Zenon DEF Pushed
<1>2. \A i \in 1 .. Len(st) : i = Len(st) \/ i \in 1 .. Len(st) - 1
    OBVIOUS
<1>3. \/ \E k \in 1 .. Len(vs) : vs[k] = node
      \/ Above(Last(st).node, node)
      \/ \E j \in 1 .. Len(N) : Above(N[j].node, node)
    BY <1>1, <1>2, Zenon DEF Reached
<1>4. Kid => \E j \in 1 .. Len(N) : Above(N[j].node, node)
    BY <1>1, Zenon
<1> HIDE DEF Kid
<1>5. (Above(Last(st).node, node) => Kid) => Reached(node, N, vs)
    BY <1>3, <1>4, Zenon DEF Reached
<1>6. ASSUME NEW y \in Path, Above(Last(st).node, node) => node = y \/ Kid
      PROVE  Reached(node, N, Append(vs, y))
  <2> DEFINE ws == Append(vs, y)
  <2>1. /\ Len(ws) = Len(vs) + 1 /\ Len(vs) \in Nat
        /\ \A k \in 1 .. Len(vs) : ws[k] = vs[k]
        /\ ws[Len(vs) + 1] = y
    BY AppendProperties
  <2> HIDE DEF ws
  <2>2. Len(vs) + 1 \in 1 .. Len(ws) /\ \A k \in 1 .. Len(vs) : k \in 1 .. Len(ws)
    BY <2>1
  <2>3. Reached(node, N, ws)
    BY <1>3, <1>4, <1>6, <2>1, <2>2, Zenon DEF Reached
  <2>4. QED
    BY <2>3 DEF ws
<1>7. QED
    BY <1>0, <1>5, <1>6 DEF Kid

\* Neither the trie nor what is known of it changes inside next().
LEMMA StillTidy ==
    ASSUME UNCHANGED <<nodes, content>>
    PROVE  Untidy' <=> Untidy
BY DEF Untidy, HasChild

LEMMA StackEntries ==
    ASSUME Shape
    PROVE  /\ it.stack \in Seq(Entry)
           /\ it.stack # <<>> =>
                 /\ Len(it.stack) \in 1 .. Len(it.stack)
                 /\ Last(it.stack) = it.stack[Len(it.stack)] /\ Last(it.stack) \in Entry
<1>1. it.stack \in Seq(Entry)
    BY DEF Shape, Iterator
<1>2. ASSUME it.stack # <<>>
      PROVE  Len(it.stack) \in 1 .. Len(it.stack) /\ it.stack[Len(it.stack)] \in Entry
  <2>1. Len(it.stack) \in Nat \ {0}
    BY <1>1, <1>2, EmptySeq
  <2>2. QED
    BY <1>1, <2>1, ElementOfSeq
<1>3. QED
    BY <1>1, <1>2 DEF Last

\* A step of next() that puts entries on the stack, and finds nothing.
LEMMA SearchStep ==
    ASSUME Inv, it.pos = "next", it.stack # <<>>, NEW B \in Seq(Entry),
           Kids(B, Last(it.stack).node),
           \A j \in 1 .. Len(B) : B[j].node \in nodes,
           it.kind = "match" => \A j \in 1 .. Len(B) : Route(B[j], Split(it.topic)),
           \A node \in kept : Owed(node) /\ Above(Last(it.stack).node, node)
                => \E j \in 1 .. Len(B) : Above(B[j].node, node),
           Search(Front(it.stack) \o B), UNCHANGED <<nodes, content, kept, tidy>>
    PROVE  Inv'
<1>0. PICK N : N = Front(it.stack) \o B
    BY Zenon
<1>1. it \in Iterator /\ it.stack \in Seq(Entry) /\ found \in Seq(Path)
    BY StackEntries DEF Inv, Shape
<1>2. /\ N \in Seq(Entry)
      /\ \A i \in 1 .. Len(N) : \/ \E k \in 1 .. Len(it.stack) : N[i] = it.stack[k]
                                \/ \E k \in 1 .. Len(B) : N[i] = B[k]
  <2>1. PICK st : st = it.stack
    OBVIOUS
  <2> DEFINE n == Len(st) - 1
  <2>2. /\ N \in Seq(Entry)
        /\ \A i \in 1 .. Len(N) : \/ i \in 1 .. n /\ N[i] = st[i]
                                  \/ i - n \in 1 .. Len(B) /\ N[i] = B[i - n]
    <3>1. Pushed(st, B, N)
        BY <1>0, <1>1, <2>1, PopPush, Zenon
    <3>2. QED
        BY <3>1, Zenon DEF Pushed
  <2>3. \A i \in 1 .. n : i \in 1 .. Len(st)
    BY <1>1, <2>1
  <2> HIDE DEF n
  <2>4. QED
    BY <2>1, <2>2, <2>3, Zenon
<1>3. it' = [it EXCEPT !.stack = N] /\ found' = found
    BY <1>0 DEF Search
<1>4. Separate(N, found)
    BY <1>0, <1>1, SeparatePush DEF Inv
<1>5. \A node \in kept : Owed(node) => Reached(node, N, found)
  <2>1. SUFFICES ASSUME NEW node \in kept, Owed(node) PROVE Reached(node, N, found)
    OBVIOUS
  <2>2. Reached(node, it.stack, found)
    BY <2>1 DEF Inv, Complete
  <2>3. Above(Last(it.stack).node, node) => \E j \in 1 .. Len(B) : Above(B[j].node, node)
    BY <2>1
  <2>4. QED
    BY <1>0, <1>1, <2>2, <2>3, ReachedPush
<1>6. /\ it'.stack = N /\ it'.pos = "next" /\ it'.kind = it.kind /\ it'.topic = it.topic
      /\ it' \in Iterator
    BY <1>1, <1>2, <1>3, Zenon DEF Iterator
<1>8. Trie'
    BY DEF Inv, Trie
<1>9. Shape'
  <2>1. \A i \in 1 .. Len(N) : N[i].node \in nodes
    BY <1>2, Zenon DEF Inv, Shape
  <2>2. QED
    BY <1>3, <1>6, <2>1, StillTidy DEF Inv, Shape
<1>10. Separate(it.stack, found)'
    BY <1>3, <1>4, <1>6, Zenon DEF Separate
<1>11. Routes'
  <2>1. it.kind = "match" => \A i \in 1 .. Len(N) : Route(N[i], Split(it.topic))
    BY <1>2, Zenon DEF Inv, Routes
  <2>2. QED
    BY <1>3, <1>6, <2>1, Zenon DEF Inv, Routes
<1>12. Complete'
  <2>1. \A node : Owed(node)' <=> Owed(node)
    BY <1>6, Zenon DEF Owed
  <2>2. QED
    BY <1>3, <1>5, <1>6, <2>1 DEF Complete
<1>13. QED
    BY <1>8, <1>9, <1>10, <1>11, <1>12 DEF Inv

\* A step of next() that puts entries on the stack and returns with a node.
LEMMA YieldStep ==
    ASSUME Inv, it.pos = "next", it.stack # <<>>, NEW B \in Seq(Entry),
           Kids(B, Last(it.stack).node),
           \A j \in 1 .. Len(B) : B[j].node \in nodes,
           it.kind = "match" => \A j \in 1 .. Len(B) : Route(B[j], Split(it.topic)),
           NEW y \in Path,
           \/ y = Last(it.stack).node
           \/ /\ \E c \in Seq(Text) : y = Append(Last(it.stack).node, c)
              /\ \A j \in 1 .. Len(B) : B[j].node # y,
           it.kind = "match" => Fit(y, Split(it.topic)),
           y \notin content => it.kind = "match" /\ ~tidy,
           \A node \in kept : Owed(node) /\ Above(Last(it.stack).node, node)
                => node = y \/ \E j \in 1 .. Len(B) : Above(B[j].node, node),
           Yield(y, Front(it.stack) \o B), UNCHANGED <<nodes, content, kept, tidy>>
    PROVE  Inv'
<1>0. PICK N : N = Front(it.stack) \o B
    BY Zenon
<1>1. it \in Iterator /\ it.stack \in Seq(Entry) /\ found \in Seq(Path)
    BY StackEntries, Zenon DEF Inv, Shape
<1>2. /\ N \in Seq(Entry)
      /\ \A i \in 1 .. Len(N) : \/ \E k \in 1 .. Len(it.stack) : N[i] = it.stack[k]
                                \/ \E k \in 1 .. Len(B) : N[i] = B[k]
  <2>1. PICK st : st = it.stack
    BY Zenon
  <2> DEFINE n == Len(st) - 1
  <2>2. /\ N \in Seq(Entry)
        /\ \A i \in 1 .. Len(N) : \/ i \in 1 .. n /\ N[i] = st[i]
                                  \/ i - n \in 1 .. Len(B) /\ N[i] = B[i - n]
    <3>1. Pushed(st, B, N)
        BY <1>0, <1>1, <2>1, PopPush, Zenon
    <3>2. QED
        BY <3>1, Zenon DEF Pushed
  <2>3. \A i \in 1 .. n : i \in 1 .. Len(st)
    BY <1>1, <2>1
  <2> HIDE DEF n
  <2>4. QED
    BY <2>1, <2>2, <2>3, Zenon
<1>3. /\ it' = [it EXCEPT !.stack = N, !.pos = IF y \in content THEN "at" ELSE "end"]
      /\ found' = IF y \in content THEN Append(found, y) ELSE found
    BY <1>0 DEF Yield
<1>4. Separate(N, found) /\ Separate(N, Append(found, y))
    BY <1>0, <1>1, SeparatePush, Zenon DEF Inv
<1>5. y \in content => \A node \in kept : Owed(node) => Reached(node, N, Append(found, y))
  <2>1. SUFFICES ASSUME NEW node \in kept, Owed(node) PROVE Reached(node, N, Append(found, y))
    BY Zenon
  <2>2. Reached(node, it.stack, found)
    BY <2>1, Zenon DEF Inv, Complete
  <2>3. Above(Last(it.stack).node, node)
            => node = y \/ \E j \in 1 .. Len(B) : Above(B[j].node, node)
    BY <2>1
  <2>4. QED
    BY <1>0, <1>1, <2>2, <2>3, ReachedPush, Zenon
<1>6. /\ it'.stack = N /\ it'.kind = it.kind /\ it'.topic = it.topic
      /\ it'.pos = IF y \in content THEN "at" ELSE "end"
      /\ it' \in Iterator
    BY <1>1, <1>2, <1>3, Zenon DEF Iterator
<1> DEFINE ws == Append(found, y)
<1>8. /\ ws \in Seq(Path) /\ Len(ws) = Len(found) + 1 /\ Len(found) \in Nat
      /\ \A k \in 1 .. Len(found) : ws[k] = found[k]
      /\ ws[Len(found) + 1] = y
    BY <1>1, AppendProperties
<1>9. \A k \in 1 .. Len(ws) : k \in 1 .. Len(found) \/ k = Len(found) + 1
    BY <1>8
<1> HIDE DEF ws
<1>10. Trie'
    BY Zenon DEF Inv, Trie
<1>11. Shape'
  <2>1. \A i \in 1 .. Len(N) : N[i].node \in nodes
    BY <1>2, Zenon DEF Inv, Shape
  <2>2. found' \in Seq(Path)
    BY <1>1, <1>3, <1>8 DEF ws
  <2>3. QED
    BY <1>6, <2>1, <2>2, StillTidy, Zenon DEF Inv, Shape
<1>12. Separate(it.stack, found)'
  <2>1. Separate(it'.stack, found')
    BY <1>3, <1>4, <1>6, Zenon
  <2>2. QED
    BY <2>1, Zenon DEF Separate
<1>13. Routes'
  <2>1. it.kind = "match" => \A i \in 1 .. Len(N) : Route(N[i], Split(it.topic))
    BY <1>2, Zenon DEF Inv, Routes
  <2>2. ASSUME it.kind = "match", y \in content
        PROVE  \A k \in 1 .. Len(ws) : ws[k] \in Values /\ Fit(ws[k], Split(it.topic))
    <3>1. y \in Values /\ Fit(y, Split(it.topic))
        BY <2>2, Zenon DEF Inv, Trie
    <3>2. QED
        BY <2>2, <3>1, <1>8, <1>9, Zenon DEF Inv, Routes
  <2>3. CASE y \in content
    BY <2>1, <2>2, <2>3, <1>3, <1>6, Zenon DEF Routes, ws
  <2>4. CASE y \notin content
    BY <2>1, <2>4, <1>3, <1>6, Zenon DEF Inv, Routes
  <2>5. QED
    BY <2>3, <2>4, Zenon
<1>14. Complete'
  <2>1. \A node : Owed(node)' <=> Owed(node)
    BY <1>6, Zenon DEF Owed
  <2>2. CASE y \in content
    <3>1. it'.pos # "end" /\ found' = ws
        BY <2>2, <1>3, <1>6 DEF ws
    <3>2. QED
        BY <2>1, <2>2, <3>1, <1>5, <1>6, Zenon DEF Complete, ws
  <2>3. CASE y \notin content
    <3>1. it'.kind = "match" /\ ~tidy' /\ \A node : ~Owed(node)
        BY <2>3, <1>6 DEF Owed
    <3>2. QED
        BY <2>1, <3>1, Zenon DEF Complete
  <2>4. QED
    BY <2>2, <2>3, Zenon
<1>15. QED
    BY <1>10, <1>11, <1>12, <1>13, <1>14 DEF Inv

-----------------------------------------------------------------------------
(* next() of an iterator over all filters.                                 *)

\* A sequence of all elements of a set, each of them once.
Lists(s, K) ==
    /\ s \in Seq(K)
    /\ \A i, j \in 1 .. Len(s) : s[i] = s[j] => i = j
    /\ \A e \in K : \E i \in 1 .. Len(s) : s[i] = e

LEMMA SetToSeqIs ==
    ASSUME NEW K, IsFiniteSet(K)
    PROVE  Lists(SetToSeq(K), K)
<1>0. PICK s : s = SetToSeq(K)
    BY Zenon
<1>1. PICK n \in Nat : n = Cardinality(K)
    BY FS_CardinalityType
<1>2. \E f \in [1 .. n -> K] : IsInjective(f)
    BY <1>1, FS_CardinalityType, Zenon DEF ExistsBijection, Bijection, Injection
<1>3. s \in [1 .. n -> K] /\ IsInjective(s)
    BY <1>0, <1>1, <1>2, Zenon DEF SetToSeq
<1>4. s \in Surjection(1 .. n, K)
  <2>1. IsFiniteSet(1 .. n) /\ Cardinality(1 .. n) = n
    BY FS_Interval
  <2>2. s \in Injection(1 .. n, K)
    BY <1>3, Zenon DEF Injection
  <2>3. QED
    BY <1>1, <2>1, <2>2, FS_Injection, Zenon
<1>5. s \in Seq(K) /\ Len(s) = n /\ DOMAIN s = 1 .. n
    BY <1>3
<1>6. QED
    BY <1>0, <1>3, <1>4, <1>5, Zenon DEF Lists, Surjection, IsInjective

\* The first node on the way from one node to another below it.
LEMMA FirstOnTheWay ==
    ASSUME NEW S, NEW x \in Seq(S), NEW y \in Seq(S), Above(x, y), x # y
    PROVE  /\ Len(x) + 1 \in 1 .. Len(y) /\ y[Len(x) + 1] \in S
           /\ SubSeq(y, 1, Len(x) + 1) = Append(x, y[Len(x) + 1])
           /\ Above(Append(x, y[Len(x) + 1]), y)
<1>1. PICK k : k = Len(x) + 1
    OBVIOUS
<1>2. Len(x) \in Nat /\ Len(y) \in Nat /\ Len(x) <= Len(y) /\ \A i \in 1 .. Len(x) : x[i] = y[i]
    BY DEF Above
<1>3. Len(x) # Len(y)
    BY <1>2, SeqEqual
<1>4. k \in 1 .. Len(y) /\ k \in Nat /\ k + 1 \in 1 .. Len(y) + 1 /\ 1 \in 1 .. Len(y) + 1
    BY <1>1, <1>2, <1>3
<1>5. y[k] \in S
    BY <1>4, ElementOfSeq
<1>6. PICK z : z = Append(x, y[k])
    BY Zenon
<1>7. /\ z \in Seq(S) /\ Len(z) = k /\ z[k] = y[k]
      /\ \A i \in 1 .. Len(x) : z[i] = x[i]
    BY <1>1, <1>5, <1>6, AppendProperties
<1>8. \A i \in 1 .. k : z[i] = y[i]
  <2>1. \A i \in 1 .. k : i = k \/ i \in 1 .. Len(x)
    BY <1>1, <1>2
  <2>2. QED
    BY <1>2, <1>7, <2>1, Zenon
<1>9. Above(z, y)
    BY <1>4, <1>7, <1>8 DEF Above
<1>10. PICK w : w = SubSeq(y, 1, k)
    BY Zenon
<1>11. w \in Seq(S) /\ Len(w) = k /\ \A i \in 1 .. k : w[i] = y[i]
  <2>1. \A i \in 1 .. k : y[i] \in S
    BY <1>4, ElementOfSeq
  <2>2. QED
    BY <1>4, <1>10, <2>1, SubSeqProperties
<1>12. w = z
    BY <1>7, <1>8, <1>11, SeqEqual
<1>13. QED
    BY <1>1, <1>4, <1>5, <1>6, <1>9, <1>10, <1>12

LEMMA FrontLast ==
    ASSUME NEW S, NEW x \in Seq(S)
    PROVE  /\ x # <<>> => \E c \in S : x = Append(Front(x), c)
           /\ \A c \in S : Append(x, c) # <<>> /\ Front(Append(x, c)) = x
<1>1. ASSUME NEW y \in Seq(S), NEW c \in S
      PROVE  Append(y, c) # <<>> /\ Front(Append(y, c)) = y
  <2>1. PICK z : z = Append(y, c)
    BY Zenon
  <2>2. /\ z \in Seq(S) /\ z # <<>> /\ Len(z) = Len(y) + 1
        /\ \A i \in 1 .. Len(y) : z[i] = y[i]
    BY <2>1, AppendProperties
  <2>3. Front(z) = SubSeq(z, 1, Len(y))
    BY <2>2 DEF Front
  <2>4. PICK w : w = SubSeq(z, 1, Len(y))
    BY Zenon
  <2>5. w \in Seq(S) /\ Len(w) = Len(y) /\ \A i \in 1 .. Len(y) : w[i] = z[i]
    <3>1. \A i \in 1 .. Len(y) : z[i] \in S
        BY <2>2, ElementOfSeq
    <3>2. Len(y) \in Nat
        OBVIOUS
    <3>3. QED
        BY <2>4, <3>1, <3>2, SubSeqProperties
  <2>6. w = y
    BY <2>2, <2>5, SeqEqual
  <2>7. QED
    BY <2>1, <2>2, <2>3, <2>4, <2>6
<1>2. ASSUME x # <<>> PROVE \E c \in S : x = Append(Front(x), c)
  <2>1. PICK y \in Seq(S), c \in S : x = Append(y, c)
    BY <1>2, SequenceEmptyOrAppend
  <2>2. Front(x) = y
    BY <1>1, <2>1
  <2>3. QED
    BY <2>1, <2>2
<1>3. QED
    BY <1>1, <1>2

\* The children of a node, in any order, as AllNext puts them on the stack.
LEMMA AllChildren ==
    ASSUME Trie, NEW top \in Entry, NEW below,
           below = SetToSeq({[top EXCEPT !.node = node] :
                       node \in {node \in nodes : node # Root /\ Front(node) = top.node}})
    PROVE  /\ below \in Seq(Entry) /\ Kids(below, top.node)
           /\ \A j \in 1 .. Len(below) : below[j].node \in nodes
           /\ \A node \in nodes : Above(top.node, node)
                => node = top.node \/ \E j \in 1 .. Len(below) : Above(below[j].node, node)
<1> DEFINE x == top.node
           children == {node \in nodes : node # Root /\ Front(node) = x}
           entry(node) == [top EXCEPT !.node = node]
           K == {entry(node) : node \in children}
<1>1. x \in Path /\ nodes \subseteq Path
    BY DEF Entry, Trie
<1>2. \A node \in nodes : entry(node) \in Entry /\ entry(node).node = node
    BY <1>1 DEF Entry
<1>3. \A e \in K : e \in Entry /\ e.node \in children /\ e = entry(e.node)
    BY <1>2, Zenon
<1>4. IsFiniteSet(K)
  <2> DEFINE g == [e \in K |-> e.node]
  <2>1. g \in [K -> nodes]
    BY <1>3
  <2>2. ASSUME NEW a \in K, NEW b \in K, g[a] = g[b] PROVE a = b
    <3>1. a.node = b.node
        BY <2>2
    <3>2. QED
        BY <1>3, <3>1, Zenon
  <2>3. DOMAIN g = K
    OBVIOUS
  <2> HIDE DEF g, K
  <2>4. g \in Injection(K, nodes)
    BY <2>1, <2>2, <2>3, Zenon DEF Injection, IsInjective
  <2>5. QED
    BY <2>4, FS_Injection, Zenon DEF Trie
<1>5. /\ below \in Seq(K)
      /\ \A i, j \in 1 .. Len(below) : below[i] = below[j] => i = j
      /\ \A e \in K : \E i \in 1 .. Len(below) : below[i] = e
  <2>1. below = SetToSeq(K)
    OBVIOUS
  <2> HIDE DEF K
  <2>2. Lists(SetToSeq(K), K)
    BY <1>4, SetToSeqIs, Zenon
  <2>3. Lists(below, K)
    BY <2>1, <2>2
  <2>4. QED
    BY <2>3, Zenon DEF Lists
<1>6. \A j \in 1 .. Len(below) : below[j] \in K
    BY <1>5, ElementOfSeq, Zenon
<1>7. K \subseteq Entry
    BY <1>3, Zenon
<1>8. \A node \in children : entry(node) \in K
    OBVIOUS
<1> HIDE DEF K, entry
<1>9. below \in Seq(Entry)
    BY <1>5, <1>7, SeqMonotonic
<1>10. \A j \in 1 .. Len(below) : /\ below[j].node \in nodes /\ below[j].node # Root
                                  /\ Front(below[j].node) = x
                                  /\ below[j] = entry(below[j].node)
    BY <1>3, <1>6, Zenon
<1>11. Kids(below, x)
  <2>1. ASSUME NEW j \in 1 .. Len(below)
        PROVE  \E c \in Seq(Text) : below[j].node = Append(x, c)
    <3>1. PICK node \in Path : node = below[j].node /\ node # <<>> /\ Front(node) = x
        BY <1>1, <1>10, Zenon DEF Root
    <3>2. node # <<>> => \E c \in Seq(Text) : node = Append(Front(node), c)
        BY FrontLast DEF Path
    <3>3. QED
        BY <3>1, <3>2, Zenon
  <2>2. ASSUME NEW j \in 1 .. Len(below), NEW k \in 1 .. Len(below), below[j].node = below[k].node
        PROVE  j = k
    <3>1. below[j] = entry(below[j].node) /\ below[k] = entry(below[k].node)
        BY <1>10, Zenon
    <3>2. below[j] = below[k]
        BY <2>2, <3>1
    <3>3. QED
        BY <1>5, <3>2, Zenon
  <2>3. QED
    BY <2>1, <2>2, Zenon DEF Kids
<1>12. ASSUME NEW node \in nodes, Above(x, node), node # x
       PROVE  \E j \in 1 .. Len(below) : Above(below[j].node, node)
  <2>1. PICK k : k = Len(x) + 1
    BY Zenon
  <2>2. PICK c : c = Append(x, node[k])
    BY Zenon
  <2>3. /\ k \in 1 .. Len(node) /\ node[k] \in Seq(Text)
        /\ SubSeq(node, 1, k) = c /\ Above(c, node)
    <3>1. x \in Seq(Seq(Text)) /\ node \in Seq(Seq(Text))
        BY <1>1 DEF Path
    <3> HIDE DEF x
    <3>2. QED
        BY <1>12, <2>1, <2>2, <3>1, FirstOnTheWay, Zenon
  <2>4. k \in 0 .. Len(node)
    BY <2>3
  <2>5. c \in nodes
    BY <2>3, <2>4, Zenon DEF Trie
  <2>6. c # <<>> /\ Front(c) = x
    BY <1>1, <2>2, <2>3, FrontLast DEF Path
  <2>7. entry(c) \in K
    BY <1>8, <2>5, <2>6 DEF Root
  <2>8. PICK j \in 1 .. Len(below) : below[j] = entry(c)
    BY <1>5, <2>7, Zenon
  <2>9. QED
    BY <1>2, <2>3, <2>5, <2>8, Zenon
<1>13. QED
    BY <1>9, <1>10, <1>11, <1>12, Zenon

LEMMA AllNextStep == Inv /\ AllNext => Inv'
<1> SUFFICES ASSUME Inv, AllNext PROVE Inv'
    OBVIOUS
<1>1. /\ it.pos = "next" /\ it.stack # <<>> /\ it.kind = "all"
      /\ UNCHANGED <<nodes, content, kept, tidy>>
    BY DEF AllNext
<1>2. PICK top : top = Last(it.stack)
    BY Zenon
<1>3. PICK below : below = SetToSeq({[top EXCEPT !.node = node] :
                       node \in {node \in nodes : node # Root /\ Front(node) = top.node}})
    BY Zenon
<1>4. IF top.node \in content THEN Yield(top.node, Front(it.stack) \o below)
                              ELSE Search(Front(it.stack) \o below)
    BY <1>2, <1>3 DEF AllNext
<1>5. top \in Entry /\ top.node \in Path
    BY <1>1, <1>2, StackEntries DEF Inv, Entry
<1>6. /\ below \in Seq(Entry) /\ Kids(below, top.node)
      /\ \A j \in 1 .. Len(below) : below[j].node \in nodes
      /\ \A node \in nodes : Above(top.node, node)
           => node = top.node \/ \E j \in 1 .. Len(below) : Above(below[j].node, node)
    BY <1>3, <1>5, AllChildren, Zenon DEF Inv
<1>7. kept \subseteq nodes /\ kept \subseteq content
    BY <1>1 DEF Inv, Shape, Trie
<1>8. it.kind # "match"
    BY <1>1
<1>9. CASE top.node \in content
    BY <1>1, <1>2, <1>4, <1>5, <1>6, <1>7, <1>8, <1>9, YieldStep, Zenon
<1>10. CASE top.node \notin content
  <2>1. \A node \in kept : Above(top.node, node)
           => \E j \in 1 .. Len(below) : Above(below[j].node, node)
    BY <1>6, <1>7, <1>10, Zenon
  <2>2. QED
    BY <1>1, <1>2, <1>4, <1>6, <1>8, <1>10, <2>1, SearchStep, Zenon
<1>11. QED
    BY <1>9, <1>10

-----------------------------------------------------------------------------
(* Where a search stands: its entries, and the values below them.          *)

TopicPath(L) ==
    /\ L \in Path /\ Len(L) \in Nat \ {0}
    /\ \A k \in 1 .. Len(L) : L[k] # Plus /\ L[k] # Hash

FilterPath(F) ==
    /\ F \in Path /\ Len(F) \in Nat \ {0}
    /\ \A k \in 1 .. Len(F) : F[k] = Hash => k = Len(F)

LEMMA TopicIsPath ==
    ASSUME NEW t \in Topics
    PROVE  TopicPath(Split(t)) /\ t \in Seq(Text) /\ "/" \in Text
<1>1. t \in Seq(Text) /\ IsTopic(t) /\ "/" \in Text
    BY StringsAssumption, TopicsAssumption, SeqMonotonic DEF Text
<1>2. /\ Split(t) \in Seq(Seq(Text)) /\ Len(Split(t)) \in Nat \ {0}
      /\ \A k \in 1 .. Len(Split(t)) : Split(t)[k] \notin {Plus, Hash}
    BY <1>1, TopicFields
<1>3. QED
    BY <1>1, <1>2, Zenon DEF TopicPath, Path

LEMMA ValueIsPath ==
    ASSUME NEW F \in Values
    PROVE  FilterPath(F) /\ \E f \in Filters : f \in Seq(Text) /\ F = Split(f) /\ Join(F) = f
<1>1. PICK f \in Filters : F = Split(f)
    BY DEF Values
<1>2. f \in Seq(Text) /\ IsFilter(f) /\ "/" \in Text
    BY StringsAssumption, FiltersAssumption, SeqMonotonic DEF Text
<1>3. /\ Split(f) \in Seq(Seq(Text)) /\ Len(Split(f)) \in Nat \ {0}
      /\ Join(Split(f)) = f
      /\ \A k \in 1 .. Len(Split(f)) : Split(f)[k] = Hash => k = Len(Split(f))
    BY <1>2, FilterFields
<1>4. QED
    BY <1>1, <1>2, <1>3, Zenon DEF FilterPath, Path

\* What the trie decides by its fields is what topic_filter::matches says.
LEMMA ValueMatches ==
    ASSUME NEW F \in Values, NEW t \in Topics
    PROVE  Matches(Join(F), t) <=> Fit(F, Split(t))
<1>1. PICK f \in Filters : f \in Seq(Text) /\ F = Split(f) /\ Join(F) = f
    BY ValueIsPath, Zenon
<1>2. IsFilter(f) /\ IsTopic(t)
    BY FiltersAssumption, TopicsAssumption
<1>3. Matches(f, t) <=> Fit(Split(f), Split(t))
    BY <1>1, <1>2, TopicIsPath, MatchesIsFit, Zenon
<1>4. QED
    BY <1>1, <1>3

LEMMA ChildField ==
    ASSUME NEW S, NEW x \in Seq(S), NEW c, Append(x, c) \in Seq(S)
    PROVE  c \in S
<1>1. PICK z : z = Append(x, c)
    BY Zenon
<1> DEFINE T == S \union {c}
<1>2. x \in Seq(T) /\ c \in T
    BY SeqMonotonic
<1> HIDE DEF T
<1>3. Len(z) = Len(x) + 1 /\ z[Len(x) + 1] = c /\ Len(x) \in Nat
    BY <1>1, <1>2, AppendProperties
<1>4. z \in Seq(S) /\ Len(x) + 1 \in 1 .. Len(z)
    BY <1>1, <1>3
<1>5. z[Len(x) + 1] \in S
    BY <1>4, ElementOfSeq
<1>6. QED
    BY <1>3, <1>5

\* F is the node x itself where the topic ends, its "#", or below the child that the
\* topic leads to.
Onward(F, x, k, L) ==
    \/ F = x /\ Len(x) = Len(L)
    \/ F = Append(x, Hash) /\ (Len(x) = 0 => ~IsSystem(L[1]))
    \/ /\ Len(x) < Len(L) /\ F # x
       /\ F[k] = L[k] \/ (F[k] = Plus /\ (Len(x) = 0 => ~IsSystem(L[1])))

\* So is a value that fits the topic and is below a node on its way.
LEMMA OwedBelow ==
    ASSUME NEW L, TopicPath(L), NEW x \in Path, Len(x) <= Len(L),
           \A k \in 1 .. Len(x) : x[k] = Plus \/ x[k] = L[k],
           NEW F, FilterPath(F), Fit(F, L), Above(x, F), NEW k, k = Len(x) + 1
    PROVE  Onward(F, x, k, L)
<1> SUFFICES \/ F = x /\ Len(x) = Len(L)
             \/ F = Append(x, Hash) /\ (Len(x) = 0 => ~IsSystem(L[1]))
             \/ /\ Len(x) < Len(L) /\ F # x
                /\ F[k] = L[k] \/ (F[k] = Plus /\ (Len(x) = 0 => ~IsSystem(L[1])))
    BY Zenon DEF Onward
<1>1. /\ Len(x) \in Nat /\ Len(L) \in Nat \ {0} /\ Len(F) \in Nat \ {0} /\ F \in Path
      /\ Len(x) <= Len(F) /\ \A i \in 1 .. Len(x) : x[i] = F[i]
    BY DEF TopicPath, FilterPath, Above, Path
<1>2. \A i \in 1 .. Len(x) : x[i] # Hash
  <2>1. \A i \in 1 .. Len(x) : i \in 1 .. Len(L)
    BY <1>1
  <2>2. QED
    BY <2>1, Wildcards, Zenon DEF TopicPath
<1>3. CASE F = x
  <2>1. F[Len(F)] # Hash
    <3>1. Len(F) \in 1 .. Len(x)
        BY <1>1, <1>3
    <3>2. QED
        BY <1>2, <1>3, <3>1
  <2>2. Len(L) = Len(F)
    BY <2>1 DEF Fit, Body
  <2>3. QED
    BY <1>3, <2>2
<1>4. CASE F # x
  <2>1. k \in 1 .. Len(F) /\ SubSeq(F, 1, k) = Append(x, F[k])
    BY <1>1, <1>4, FirstOnTheWay DEF Path
  <2>2. Len(x) = 0 /\ F[k] \in {Plus, Hash} => ~IsSystem(L[1])
    BY <1>1 DEF Fit
  <2>3. CASE F[k] = Hash
    <3>1. k = Len(F)
        BY <2>1, <2>3 DEF FilterPath
    <3>2. SubSeq(F, 1, Len(F)) = F
        BY <1>1, SubSeqFull DEF Path
    <3>3. F = Append(x, Hash)
        BY <2>1, <2>3, <3>1, <3>2
    <3>4. QED
        BY <2>2, <2>3, <3>3, Zenon
  <2>4. CASE F[k] # Hash
    <3>1. k \in 1 .. Body(F)
        BY <1>1, <2>1, <2>4 DEF Body
    <3>2. F[k] = Plus \/ F[k] = L[k]
        BY <3>1, Zenon DEF Fit
    <3>3. Body(F) \in Nat /\ Body(F) <= Len(L)
        BY <1>1 DEF Fit, Body
    <3>4. Len(x) < Len(L)
        BY <1>1, <3>1, <3>3
    <3>5. QED
        BY <1>4, <2>2, <3>2, <3>4, Zenon
  <2>5. QED
    BY <2>3, <2>4
<1>5. QED
    BY <1>3, <1>4

\* What a search returns with fits the topic: the node where the topic ends, and
\* the "#" of a node on its way.
LEMMA YieldFits ==
    ASSUME NEW L, TopicPath(L), NEW e \in Entry, Route(e, L)
    PROVE  /\ Len(e.node) = Len(L) => Fit(e.node, L)
           /\ Hash \in Seq(Text) /\ (Len(e.node) = 0 => ~IsSystem(L[1]))
                => Fit(Append(e.node, Hash), L)
<1>1. PICK x : x = e.node
    BY Zenon
<1>2. /\ x \in Path /\ Len(x) \in Nat /\ Len(L) \in Nat \ {0} /\ Len(x) <= Len(L)
      /\ \A k \in 1 .. Len(x) : x[k] = Plus \/ x[k] = L[k]
      /\ Len(x) > 0 /\ x[1] = Plus => ~IsSystem(L[1])
    BY <1>1 DEF Entry, Route, TopicPath, Path
<1>3. \A i \in 1 .. Len(x) : x[i] # Hash
  <2>1. \A i \in 1 .. Len(x) : i \in 1 .. Len(L)
    BY <1>2
  <2>2. QED
    BY <1>2, <2>1, Wildcards, Zenon DEF TopicPath
<1>4. ASSUME Len(x) = Len(L) PROVE Fit(x, L)
  <2>1. Len(x) \in 1 .. Len(x) /\ 1 \in 1 .. Len(x) /\ Len(x) > 0
    BY <1>2, <1>4
  <2>2. x[Len(x)] # Hash /\ x[1] # Hash
    BY <1>3, <2>1, Zenon
  <2>3. Body(x) = Len(x)
    BY <2>2 DEF Body
  <2>4. x[1] \in {Plus, Hash} => ~IsSystem(L[1])
    BY <1>2, <2>1, <2>2
  <2>5. QED
    BY <1>2, <1>4, <2>2, <2>3, <2>4, Zenon DEF Fit
<1>5. ASSUME Hash \in Seq(Text), Len(x) = 0 => ~IsSystem(L[1]) PROVE Fit(Append(x, Hash), L)
  <2>1. PICK z : z = Append(x, Hash)
    BY Zenon
  <2>2. /\ Len(z) = Len(x) + 1 /\ z[Len(x) + 1] = Hash
        /\ \A i \in 1 .. Len(x) : z[i] = x[i]
    BY <1>2, <1>5, <2>1, AppendProperties DEF Path
  <2>3. z[Len(z)] = Hash
    BY <2>2
  <2>4. Body(z) = Len(x)
    BY <1>2, <2>2, <2>3 DEF Body
  <2>5. z[1] \in {Plus, Hash} => ~IsSystem(L[1])
    <3>1. CASE Len(x) = 0
        BY <1>5, <3>1
    <3>2. CASE Len(x) > 0
        BY <1>2, <1>3, <2>2, <3>2
    <3>3. QED
        BY <1>2, <3>1, <3>2
  <2>6. \A i \in 1 .. Len(x) : z[i] = Plus \/ z[i] = L[i]
    BY <1>2, <2>2
  <2>7. Fit(z, L)
    BY <1>2, <2>3, <2>4, <2>5, <2>6 DEF Fit
  <2>8. QED
    BY <2>1, <2>7
<1>6. QED
    BY <1>1, <1>4, <1>5

\* Where a step of a search starts.
LEMMA SearchState ==
    ASSUME Inv, it.pos = "next", it.stack # <<>>, it.kind = "match",
           NEW top, top = Last(it.stack), NEW L, L = Split(it.topic)
    PROVE  /\ TopicPath(L) /\ top \in Entry /\ top.node \in Path /\ top.node \in nodes /\ Route(top, L)
           /\ nodes \subseteq Path /\ kept \subseteq content /\ content \subseteq nodes
           /\ \A F \in kept : FilterPath(F)
           /\ \A F : Owed(F) => tidy /\ Fit(F, L)
           /\ tidy => ~Untidy
<1>1. /\ Len(it.stack) \in 1 .. Len(it.stack)
      /\ top = it.stack[Len(it.stack)] /\ top \in Entry
    BY StackEntries DEF Inv
<1>2. TopicPath(L)
    BY TopicIsPath DEF Inv, Shape
<1>3. top.node \in nodes /\ Route(top, L)
  <2>1. \A i \in 1 .. Len(it.stack) : it.stack[i].node \in nodes /\ Route(it.stack[i], L)
    BY DEF Inv, Shape, Routes
  <2>2. QED
    BY <1>1, <2>1
<1>4. nodes \subseteq Path /\ kept \subseteq content /\ content \subseteq nodes
    BY DEF Inv, Shape, Trie
<1>5. \A F \in kept : FilterPath(F)
    BY ValueIsPath DEF Inv, Shape
<1>6. (\A F : Owed(F) => tidy /\ Fit(F, L)) /\ (tidy => ~Untidy)
    BY DEF Owed, Inv, Shape
<1>7. QED
    BY <1>1, <1>2, <1>3, <1>4, <1>5, <1>6, Zenon

\* The "#" below a node that is on the way of the topic.
LEMMA HashYield ==
    ASSUME NEW L, TopicPath(L), NEW top \in Entry, Route(top, L), nodes \subseteq Path,
           top.node \in nodes, HasChild(top.node, Hash), tidy => ~Untidy,
           Len(top.node) = 0 => ~IsSystem(L[1]), NEW y, y = Child(top.node, Hash)
    PROVE  /\ y \in Path /\ \E c \in Seq(Text) : y = Append(top.node, c)
           /\ Fit(y, L)
           /\ y \notin content => ~tidy
           /\ tidy => top.node \notin content
<1>1. y \in Path /\ y = Append(top.node, Hash) /\ top.node \in Path
    BY DEF HasChild, Child, Entry
<1>2. Hash \in Seq(Text)
    BY <1>1, ChildField DEF Path
<1>3. Fit(y, L)
    BY <1>1, <1>2, YieldFits
<1>4. Untidy <=> \E node \in nodes : /\ HasChild(node, Hash)
                                     /\ Child(node, Hash) \notin content \/ node \in content
    BY Zenon DEF Untidy
<1>5. (y \notin content => ~tidy) /\ (tidy => top.node \notin content)
    BY <1>4, Zenon
<1>6. QED
    BY <1>1, <1>2, <1>3, <1>5, Zenon

LEMMA TopicEndsStep == Inv /\ TopicEnds => Inv'
<1> SUFFICES ASSUME Inv, TopicEnds PROVE Inv'
    OBVIOUS
<1>1. /\ it.pos = "next" /\ it.stack # <<>> /\ it.kind = "match"
      /\ UNCHANGED <<nodes, content, kept, tidy>>
    BY DEF TopicEnds
<1>2. PICK top : top = Last(it.stack)
    BY Zenon
<1>3. PICK L : L = Split(it.topic)
    BY Zenon
<1>4. PICK x : x = top.node
    BY Zenon
<1>5. PICK B : B = <<>>
    BY Zenon
<1>6. /\ top.fields = <<>>
      /\ x \in content => Yield(x, Front(it.stack))
      /\ x \notin content /\ HasChild(x, Hash) => Yield(Child(x, Hash), Front(it.stack))
      /\ x \notin content /\ ~HasChild(x, Hash) => Search(Front(it.stack))
    BY <1>2, <1>4, Zenon DEF TopicEnds
<1>7. /\ TopicPath(L) /\ top \in Entry /\ x \in Path /\ x \in nodes /\ Route(top, L)
      /\ nodes \subseteq Path /\ kept \subseteq content /\ content \subseteq nodes
      /\ \A F \in kept : FilterPath(F)
      /\ \A F : Owed(F) => tidy /\ Fit(F, L)
      /\ tidy => ~Untidy
    BY <1>1, <1>2, <1>3, <1>4, SearchState
<1>8. B \in Seq(Entry) /\ Len(B) = 0 /\ Kids(B, x) /\ \A j : j \notin 1 .. Len(B)
    BY <1>5 DEF Kids
<1>9. Front(it.stack) \o B = Front(it.stack)
  <2>1. PICK st \in Seq(Entry) : st = it.stack
    BY <1>1, StackEntries DEF Inv
  <2>2. Front(st) \in Seq(Entry)
    <3>1. Len(st) \in Nat /\ \A i \in 1 .. Len(st) - 1 : st[i] \in Entry
        BY ElementOfSeq
    <3>2. QED
        BY <3>1, SubSeqProperties DEF Front
  <2>3. QED
    BY <1>5, <2>1, <2>2, ConcatEmptySeq
<1>10. Len(x) = Len(L) /\ Len(L) \in Nat \ {0}
  <2>1. /\ Len(x) \in Nat /\ Len(L) \in Nat \ {0} /\ L \in Seq(Seq(Text))
        /\ Len(x) <= Len(L) /\ SubSeq(L, Len(x) + 1, Len(L)) = <<>>
    <3>1. Len(x) <= Len(L) /\ top.fields = SubSeq(L, Len(x) + 1, Len(L))
        BY <1>4, <1>7, Zenon DEF Route
    <3>2. Len(x) \in Nat /\ Len(L) \in Nat \ {0} /\ L \in Seq(Seq(Text))
        BY <1>7 DEF TopicPath, Path
    <3>3. QED
        BY <1>6, <3>1, <3>2, Zenon
  <2>2. PICK m : m = Len(x) + 1
    BY Zenon
  <2>3. \A i \in m .. Len(L) : L[i] \in Seq(Text)
    BY <2>1, <2>2, ElementOfSeq
  <2>4. Len(SubSeq(L, m, Len(L))) = IF m <= Len(L) THEN Len(L) - m + 1 ELSE 0
    BY <2>1, <2>2, <2>3, SubSeqProperties
  <2>5. Len(SubSeq(L, m, Len(L))) = 0
    BY <2>1, <2>2, EmptySeq, Zenon
  <2>6. QED
    BY <2>1, <2>2, <2>4, <2>5
<1>11. Fit(x, L)
    BY <1>4, <1>7, <1>10, YieldFits
<1>12. ASSUME NEW F \in kept, Owed(F), Above(x, F)
       PROVE  F = x \/ F = Append(x, Hash)
  <2>1. /\ FilterPath(F) /\ Fit(F, L)
        /\ \A k \in 1 .. Len(x) : x[k] = Plus \/ x[k] = L[k]
    BY <1>4, <1>7, <1>12 DEF Route
  <2>2. PICK k : k = Len(x) + 1
    BY Zenon
  <2>3. \/ F = x
        \/ F = Append(x, Hash)
        \/ Len(x) < Len(L)
    <3>1. Onward(F, x, k, L)
        BY <1>7, <1>10, <1>12, <2>1, <2>2, OwedBelow
    <3>2. QED
        BY <3>1, Zenon DEF Onward
  <2>4. QED
    BY <1>10, <2>3
<1>13. CASE x \in content
  <2>1. \A F \in kept : Owed(F) /\ Above(x, F) => F = x
    <3>1. SUFFICES ASSUME NEW F \in kept, Owed(F), Above(x, F), F = Append(x, Hash) PROVE FALSE
        BY <1>12
    <3>2. HasChild(x, Hash)
        BY <1>7, <3>1 DEF HasChild, Child
    <3>3. Untidy /\ tidy
        BY <1>7, <1>13, <3>1, <3>2, Zenon DEF Untidy
    <3>4. QED
        BY <1>7, <3>3
  <2>2. Yield(x, Front(it.stack) \o B)
    BY <1>6, <1>9, <1>13
  <2>3. QED
    BY <1>1, <1>2, <1>3, <1>4, <1>7, <1>8, <1>11, <1>13, <2>1, <2>2, YieldStep, Zenon
<1>14. CASE x \notin content /\ HasChild(x, Hash)
  <2>1. PICK y : y = Child(x, Hash)
    BY Zenon
  <2>2. Yield(y, Front(it.stack) \o B)
    BY <1>6, <1>9, <1>14, <2>1
  <2>3. /\ y \in Path /\ \E c \in Seq(Text) : y = Append(x, c)
        /\ Fit(y, L)
        /\ y \notin content => ~tidy
    BY <1>4, <1>7, <1>10, <1>14, <2>1, HashYield
  <2>4. \A F \in kept : Owed(F) /\ Above(x, F) => F = y
    BY <1>7, <1>12, <1>14, <2>1 DEF Child
  <2>5. QED
    BY <1>1, <1>2, <1>3, <1>4, <1>7, <1>8, <2>2, <2>3, <2>4, YieldStep, Zenon
<1>15. CASE x \notin content /\ ~HasChild(x, Hash)
  <2>1. Search(Front(it.stack) \o B)
    BY <1>6, <1>9, <1>15
  <2>2. \A F \in kept : ~(Owed(F) /\ Above(x, F))
    BY <1>7, <1>12, <1>15, Zenon DEF HasChild, Child
  <2>3. QED
    BY <1>1, <1>2, <1>3, <1>4, <1>7, <1>8, <2>1, <2>2, SearchStep, Zenon
<1>16. QED
    BY <1>13, <1>14, <1>15

\* At most two entries, each of them there under its condition.
Chosen(B, p, d, q, e) ==
    /\ \A j \in 1 .. Len(B) : (p /\ B[j] = d) \/ (q /\ B[j] = e)
    /\ \A j, k \in 1 .. Len(B) : B[j] = B[k] => j = k
    /\ p => \E j \in 1 .. Len(B) : B[j] = d
    /\ q => \E j \in 1 .. Len(B) : B[j] = e

LEMMA UpToTwo ==
    ASSUME NEW E, NEW p, NEW q, NEW d, NEW e, p => d \in E, q => e \in E, d # e,
           NEW A, A = IF p THEN <<d>> ELSE <<>>,
           NEW B, B = IF q THEN <<e>> ELSE <<>>
    PROVE  A \in Seq(E) /\ B \in Seq(E) /\ A \o B \in Seq(E) /\ Chosen(A \o B, p, d, q, e)
<1>1. CASE p /\ q
  <2>1. PICK C : C = A \o B
    BY Zenon
  <2>2. A = <<d>> /\ B = <<e>> /\ d \in E /\ e \in E
    BY <1>1
  <2>3. A \in Seq(E) /\ B \in Seq(E) /\ Len(A) = 1 /\ Len(B) = 1 /\ A[1] = d /\ B[1] = e
    BY <2>2
  <2>4. /\ C \in Seq(E) /\ Len(C) = Len(A) + Len(B)
        /\ \A i \in 1 .. Len(A) + Len(B) : C[i] = IF i <= Len(A) THEN A[i] ELSE B[i - Len(A)]
    BY <2>1, <2>3, ConcatProperties
  <2>5. Len(C) = 2 /\ C[1] = d /\ C[2] = e
    BY <2>3, <2>4
  <2>6. /\ \A j \in 1 .. Len(C) : C[j] = d \/ C[j] = e
        /\ \A j, k \in 1 .. Len(C) : C[j] = C[k] => j = k
        /\ 1 \in 1 .. Len(C) /\ 2 \in 1 .. Len(C)
    BY <2>5
  <2>7. Chosen(C, p, d, q, e)
    BY <1>1, <2>5, <2>6, Zenon DEF Chosen
  <2>8. QED
    BY <2>1, <2>3, <2>4, <2>7, Zenon
<1>2. ASSUME NEW b, NEW C, C = <<b>>
      PROVE  /\ C[1] = b /\ 1 \in 1 .. Len(C)
             /\ \A j \in 1 .. Len(C) : C[j] = b
             /\ \A j, k \in 1 .. Len(C) : C[j] = C[k] => j = k
    BY <1>2
<1>3. CASE p /\ ~q
  <2>1. A = <<d>> /\ B = <<>> /\ d \in E
    BY <1>3
  <2>2. A \in Seq(E) /\ B \in Seq(E)
    BY <2>1
  <2>3. A \o B = A
    BY <2>1, <2>2, ConcatEmptySeq, Zenon
  <2>4. /\ A[1] = d /\ 1 \in 1 .. Len(A)
        /\ \A j \in 1 .. Len(A) : A[j] = d
        /\ \A j, k \in 1 .. Len(A) : A[j] = A[k] => j = k
    BY <1>2, <2>1
  <2>5. Chosen(A, p, d, q, e)
    BY <1>3, <2>4, Zenon DEF Chosen
  <2>6. QED
    BY <2>2, <2>3, <2>5, Zenon
<1>4. CASE ~p /\ q
  <2>1. A = <<>> /\ B = <<e>> /\ e \in E
    BY <1>4
  <2>2. A \in Seq(E) /\ B \in Seq(E)
    BY <2>1
  <2>3. A \o B = B
    BY <2>1, <2>2, ConcatEmptySeq, Zenon
  <2>4. /\ B[1] = e /\ 1 \in 1 .. Len(B)
        /\ \A j \in 1 .. Len(B) : B[j] = e
        /\ \A j, k \in 1 .. Len(B) : B[j] = B[k] => j = k
    BY <1>2, <2>1
  <2>5. Chosen(B, p, d, q, e)
    BY <1>4, <2>4, Zenon DEF Chosen
  <2>6. QED
    BY <2>2, <2>3, <2>5, Zenon
<1>5. CASE ~p /\ ~q
  <2>1. A = <<>> /\ B = <<>>
    BY <1>5
  <2>2. A \in Seq(E) /\ B \in Seq(E) /\ A \o B = A /\ \A j : j \notin 1 .. Len(A)
    BY <2>1
  <2>3. Chosen(A, p, d, q, e)
    BY <1>5, <2>2, Zenon DEF Chosen
  <2>4. QED
    BY <2>2, <2>3, Zenon
<1>6. QED
    BY <1>1, <1>3, <1>4, <1>5

\* The topic leads on from the node x of an entry, and an entry for a child that it
\* leads to is on the way too.
LeadsOn(top, x, k, L) ==
    /\ k \in 1 .. Len(L) /\ Head(top.fields) = L[k]
    /\ top.first <=> Len(x) = 0
    /\ \A e : \A c \in Seq(Text) :
          /\ c = L[k] \/ (c = Plus /\ (Len(x) = 0 => ~IsSystem(L[1])))
          /\ e = [node |-> Append(x, c), fields |-> Tail(top.fields), first |-> FALSE]
          => e \in Entry /\ Route(e, L)

LEMMA RouteDown ==
    ASSUME NEW L, TopicPath(L), NEW top \in Entry, Route(top, L), top.fields # <<>>,
           NEW x, x = top.node, NEW k, k = Len(x) + 1
    PROVE  LeadsOn(top, x, k, L)
<1>2. /\ x \in Path /\ Len(x) \in Nat /\ Len(L) \in Nat \ {0} /\ L \in Seq(Seq(Text))
    BY DEF Entry, TopicPath, Path
<1>3. /\ Len(x) <= Len(L)
      /\ top.fields = SubSeq(L, Len(x) + 1, Len(L))
      /\ top.first <=> Len(x) = 0
      /\ \A i \in 1 .. Len(x) : x[i] = Plus \/ x[i] = L[i]
      /\ Len(x) > 0 /\ x[1] = Plus => ~IsSystem(L[1])
    BY Zenon DEF Route
<1>4. top.fields = SubSeq(L, k, Len(L)) /\ k = Len(x) + 1
    BY <1>3, Zenon
<1>5. k \in 1 .. Len(L)
  <2>1. PICK n \in Int : n = Len(L)
    BY <1>2
  <2>2. k \in Int /\ 1 <= k
    BY <1>2, <1>4
  <2>3. n < k => SubSeq(L, k, n) = <<>>
    BY <2>2, SubSeqEmpty, Zenon
  <2>4. SubSeq(L, k, n) # <<>>
    BY <1>4, <2>1, Zenon
  <2>5. ~(n < k)
    BY <2>3, <2>4, Zenon
  <2>6. QED
    BY <2>1, <2>2, <2>5
<1>6. Head(top.fields) = L[k] /\ Tail(top.fields) = SubSeq(L, k + 1, Len(L))
  <2>1. Len(L) \in k .. Len(L)
    BY <1>2, <1>5
  <2>2. Head(SubSeq(L, k, Len(L))) = L[k] /\ Tail(SubSeq(L, k, Len(L))) = SubSeq(L, k + 1, Len(L))
    BY <1>2, <1>5, <2>1, HeadTailOfSubSeq, Zenon
  <2>3. QED
    BY <1>4, <2>2, Zenon
<1>7. ASSUME NEW c \in Seq(Text), c = L[k] \/ (c = Plus /\ (Len(x) = 0 => ~IsSystem(L[1]))),
             NEW e, e = [node |-> Append(x, c), fields |-> Tail(top.fields), first |-> FALSE]
      PROVE  e \in Entry /\ Route(e, L)
  <2>1. PICK z : z = Append(x, c)
    BY Zenon
  <2>2. /\ z \in Path /\ Len(z) = k /\ z[k] = c
        /\ \A i \in 1 .. Len(x) : z[i] = x[i]
    BY <1>2, <1>4, <2>1, AppendProperties DEF Path
  <2>3. PICK T : T = SubSeq(L, k + 1, Len(L))
    BY Zenon
  <2>4. T \in Path
    <3>1. \A i \in k + 1 .. Len(L) : L[i] \in Seq(Text)
        BY <1>2, <1>5, ElementOfSeq
    <3>2. QED
        BY <1>2, <1>5, <2>3, <3>1, SubSeqProperties DEF Path
  <2>5. e.node = z /\ e.fields = T /\ e.first = FALSE /\ e = [node |-> z, fields |-> T, first |-> FALSE]
    BY <1>6, <1>7, <2>1, <2>3, Zenon
  <2>6. e \in Entry
    BY <2>2, <2>4, <2>5 DEF Entry
  <2>7. \A i \in 1 .. k : z[i] = Plus \/ z[i] = L[i]
    <3>1. \A i \in 1 .. k : i = k \/ i \in 1 .. Len(x)
        BY <1>2, <1>4
    <3>2. QED
        BY <1>3, <1>7, <2>2, <3>1, Zenon
  <2>8. z[1] = Plus => ~IsSystem(L[1])
    <3>1. CASE Len(x) = 0
      <4>1. k = 1 /\ 1 \in 1 .. Len(L)
        BY <1>4, <1>5, <3>1
      <4>2. L[1] # Plus
        BY <4>1, Zenon DEF TopicPath
      <4>3. QED
        BY <1>7, <2>2, <3>1, <4>1, <4>2
    <3>2. CASE Len(x) > 0
      <4>1. 1 \in 1 .. Len(x)
        BY <1>2, <3>2
      <4>2. z[1] = x[1]
        BY <2>2, <4>1
      <4>3. QED
        BY <1>3, <3>2, <4>2, Zenon
    <3>3. QED
        BY <1>2, <3>1, <3>2
  <2>9. k <= Len(L) /\ k # 0
    BY <1>5
  <2>10. Route(e, L)
    BY <2>2, <2>3, <2>5, <2>7, <2>8, <2>9, Zenon DEF Route
  <2>11. QED
    BY <2>6, <2>10
<1>8. QED
    BY <1>3, <1>5, <1>6, <1>7, Zenon DEF LeadsOn

LEMMA DescendStep == Inv /\ Descend => Inv'
<1> SUFFICES ASSUME Inv, Descend PROVE Inv'
    OBVIOUS
<1>1. /\ it.pos = "next" /\ it.stack # <<>> /\ it.kind = "match"
      /\ UNCHANGED <<nodes, content, kept, tidy>>
    BY DEF Descend
<1>2. PICK top : top = Last(it.stack)
    BY Zenon
<1>3. PICK L : L = Split(it.topic)
    BY Zenon
<1>4. PICK x : x = top.node
    BY Zenon
<1>5. PICK k : k = Len(x) + 1
    BY Zenon
<1> DEFINE wild == Len(x) = 0 => ~IsSystem(L[1])
           entry(c) == [node |-> Append(x, c), fields |-> Tail(top.fields), first |-> FALSE]
           p == HasChild(x, L[k])
           q == wild /\ HasChild(x, Plus)
<1>6. /\ TopicPath(L) /\ top \in Entry /\ x \in Path /\ x \in nodes /\ Route(top, L)
      /\ nodes \subseteq Path /\ kept \subseteq content /\ content \subseteq nodes
      /\ \A F \in kept : FilterPath(F)
      /\ \A F : Owed(F) => tidy /\ Fit(F, L)
      /\ tidy => ~Untidy
    BY <1>1, <1>2, <1>3, <1>4, SearchState
<1>7. top.fields # <<>>
    BY <1>2 DEF Descend
<1>7a. LeadsOn(top, x, k, L)
    BY <1>4, <1>5, <1>6, <1>7, RouteDown
<1>8. /\ k \in 1 .. Len(L) /\ Head(top.fields) = L[k]
      /\ top.first <=> Len(x) = 0
    BY <1>7a, Zenon DEF LeadsOn
<1>9. \A c \in Seq(Text) : c = L[k] \/ (c = Plus /\ wild) => entry(c) \in Entry /\ Route(entry(c), L)
    BY <1>7a, Zenon DEF LeadsOn
<1>10. PICK A : A = IF p THEN <<entry(L[k])>> ELSE <<>>
    BY Zenon
<1>11. PICK C : C = IF q THEN <<entry(Plus)>> ELSE <<>>
    BY Zenon
<1>12. PICK B : B = A \o C
    BY Zenon
<1>13. ~top.first \/ ~IsSystem(L[k]) <=> wild
    BY <1>5, <1>8
<1>14. /\ wild /\ HasChild(x, Hash) => Yield(Child(x, Hash), Front(it.stack) \o A \o C)
       /\ ~(wild /\ HasChild(x, Hash)) => Search(Front(it.stack) \o A \o C)
  <2> DEFINE below(c) == IF HasChild(x, c) THEN <<[node |-> Child(x, c), fields |-> Tail(top.fields), first |-> FALSE]>> ELSE <<>>
             w == ~top.first \/ ~IsSystem(Head(top.fields))
             stack == Front(it.stack) \o below(Head(top.fields)) \o IF w THEN below(Plus) ELSE <<>>
  <2>1. IF w /\ HasChild(x, Hash) THEN Yield(Child(x, Hash), stack) ELSE Search(stack)
    BY <1>2, <1>4, Zenon DEF Descend
  <2>2. w <=> wild
    BY <1>8, <1>13, Zenon
  <2>3. below(Head(top.fields)) = A
    BY <1>8, <1>10, Zenon DEF Child
  <2>4. (IF w THEN below(Plus) ELSE <<>>) = C
    BY <1>11, <2>2, Zenon DEF Child
  <2> HIDE DEF w, below
  <2>5. stack = Front(it.stack) \o A \o C
    BY <2>3, <2>4, Zenon
  <2> HIDE DEF stack, wild
  <2>6. QED
    BY <2>1, <2>2, <2>5
<1> HIDE DEF wild, entry
<1>15. \A c : HasChild(x, c) => c \in Seq(Text)
  <2>1. SUFFICES ASSUME NEW c, HasChild(x, c) PROVE c \in Seq(Text)
    OBVIOUS
  <2>2. Append(x, c) \in Path
    BY <1>6, <2>1, Zenon DEF HasChild, Child
  <2>3. QED
    BY <1>6, <2>2, ChildField DEF Path
<1>16. (p => entry(L[k]) \in Entry /\ Route(entry(L[k]), L))
       /\ (q => entry(Plus) \in Entry /\ Route(entry(Plus), L))
    BY <1>9, <1>15, Zenon
<1>17. \A c : entry(c).node = Append(x, c)
    BY DEF entry
<1>18. \A c, d : Append(x, c) = Append(x, d) => c = d
  <2>1. SUFFICES ASSUME NEW c, NEW d, Append(x, c) = Append(x, d) PROVE c = d
    BY Zenon
  <2> DEFINE S == Seq(Text) \union {c, d}
  <2>2. x \in Seq(S) /\ c \in S /\ d \in S
    BY <1>6, SeqMonotonic DEF Path
  <2> HIDE DEF S
  <2>3. QED
    BY <2>1, <2>2, AppendInjective
<1>19. L[k] # Plus /\ L[k] # Hash /\ Plus # Hash
    BY <1>6, <1>8, Wildcards, Zenon DEF TopicPath
<1>20. entry(L[k]) # entry(Plus)
    BY <1>17, <1>18, <1>19, Zenon
<1>21. A \in Seq(Entry) /\ C \in Seq(Entry) /\ B \in Seq(Entry) /\ Chosen(B, p, entry(L[k]), q, entry(Plus))
  <2> HIDE DEF p, q
  <2>1. A \in Seq(Entry) /\ C \in Seq(Entry) /\ A \o C \in Seq(Entry)
        /\ Chosen(A \o C, p, entry(L[k]), q, entry(Plus))
    BY <1>10, <1>11, <1>16, <1>20, UpToTwo, Zenon
  <2>2. QED
    BY <1>12, <2>1, Zenon
<1>22. Front(it.stack) \o A \o C = Front(it.stack) \o B
  <2>1. Front(it.stack) \in Seq(Entry)
    <3>1. PICK st \in Seq(Entry) : st = it.stack
        BY <1>1, StackEntries DEF Inv
    <3>2. Len(st) \in Nat /\ \A i \in 1 .. Len(st) - 1 : st[i] \in Entry
        BY ElementOfSeq
    <3>3. QED
        BY <3>1, <3>2, SubSeqProperties DEF Front
  <2>2. QED
    BY <1>12, <1>21, <2>1, ConcatAssociative
<1>23. \A j \in 1 .. Len(B) : (p /\ B[j] = entry(L[k])) \/ (q /\ B[j] = entry(Plus))
    BY <1>21, Zenon DEF Chosen
<1>24. ASSUME NEW j \in 1 .. Len(B)
       PROVE  /\ B[j].node \in nodes /\ Route(B[j], L) /\ B[j].node # Append(x, Hash)
              /\ \E c \in Seq(Text) : B[j].node = Append(x, c)
  <2>1. ASSUME NEW c, HasChild(x, c), c # Hash, B[j] = entry(c), Route(entry(c), L)
        PROVE  /\ B[j].node \in nodes /\ Route(B[j], L) /\ B[j].node # Append(x, Hash)
               /\ \E d \in Seq(Text) : B[j].node = Append(x, d)
    <3>1. c \in Seq(Text) /\ B[j].node = Append(x, c) /\ Append(x, c) \in nodes
        BY <1>15, <1>17, <2>1, Zenon DEF HasChild, Child
    <3>2. QED
        BY <1>18, <2>1, <3>1, Zenon
  <2>2. CASE p /\ B[j] = entry(L[k])
    BY <1>16, <1>19, <2>1, <2>2, Zenon
  <2>3. CASE q /\ B[j] = entry(Plus)
    BY <1>16, <1>19, <2>1, <2>3, Zenon
  <2>4. QED
    BY <1>23, <2>2, <2>3, Zenon
<1>25. Kids(B, x)
  <2>1. ASSUME NEW j \in 1 .. Len(B), NEW i \in 1 .. Len(B), B[j].node = B[i].node
        PROVE  j = i
    <3>1. B[j] = B[i]
      <4>1. Append(x, L[k]) # Append(x, Plus)
        BY <1>18, <1>19, Zenon
      <4>2. QED
        BY <1>17, <1>23, <2>1, <4>1, Zenon
    <3>2. QED
        BY <1>21, <3>1, Zenon DEF Chosen
  <2>2. QED
    BY <1>24, <2>1, Zenon DEF Kids
<1>26. ASSUME NEW F \in kept, Owed(F), Above(x, F)
       PROVE  \/ F = Append(x, Hash) /\ wild /\ HasChild(x, Hash)
              \/ \E j \in 1 .. Len(B) : Above(B[j].node, F)
  <2>1. /\ FilterPath(F) /\ Fit(F, L) /\ F \in nodes /\ F \in Path
        /\ Len(x) <= Len(L)
        /\ \A i \in 1 .. Len(x) : x[i] = Plus \/ x[i] = L[i]
    BY <1>4, <1>6, <1>26, Zenon DEF Route
  <2>2. \/ F = x /\ Len(x) = Len(L)
        \/ F = Append(x, Hash) /\ (Len(x) = 0 => ~IsSystem(L[1]))
        \/ /\ Len(x) < Len(L) /\ F # x
           /\ F[k] = L[k] \/ (F[k] = Plus /\ (Len(x) = 0 => ~IsSystem(L[1])))
    <3>1. Onward(F, x, k, L)
        BY <1>5, <1>6, <1>26, <2>1, OwedBelow
    <3>2. QED
        BY <3>1, Zenon DEF Onward
  <2>3. Len(x) # Len(L)
    BY <1>5, <1>6, <1>8 DEF Path, TopicPath
  <2>4. CASE F = Append(x, Hash) /\ wild
    BY <2>1, <2>4, Zenon DEF HasChild, Child
  <2>5. CASE F # x /\ (F[k] = L[k] \/ (F[k] = Plus /\ wild))
    <3>1. PICK c : c = F[k]
        BY Zenon
    <3>2. k \in 1 .. Len(F) /\ SubSeq(F, 1, k) = Append(x, c) /\ Above(Append(x, c), F)
        BY <1>5, <1>6, <1>26, <2>1, <2>5, <3>1, FirstOnTheWay, Zenon DEF Path
    <3>3. k \in 0 .. Len(F)
        BY <3>2
    <3>4. HasChild(x, c)
        BY <2>1, <3>2, <3>3, Zenon DEF Inv, Trie, HasChild, Child
    <3>5. \E j \in 1 .. Len(B) : B[j] = entry(c)
        BY <1>21, <2>5, <3>1, <3>4, Zenon DEF Chosen
    <3>6. QED
        BY <1>17, <3>2, <3>5, Zenon
  <2>6. QED
    BY <2>2, <2>3, <2>4, <2>5, Zenon DEF wild
<1>27. CASE wild /\ HasChild(x, Hash)
  <2>1. PICK y : y = Child(x, Hash)
    BY Zenon
  <2>2. Yield(y, Front(it.stack) \o B)
    BY <1>14, <1>22, <1>27, <2>1
  <2>3. /\ y \in Path /\ \E c \in Seq(Text) : y = Append(x, c)
        /\ Fit(y, L)
        /\ y \notin content => ~tidy
    BY <1>4, <1>6, <1>27, <2>1, HashYield DEF wild
  <2>4. \A F \in kept : Owed(F) /\ Above(x, F) => F = y \/ \E j \in 1 .. Len(B) : Above(B[j].node, F)
    BY <1>26, <2>1, Zenon DEF Child
  <2>5. \A j \in 1 .. Len(B) : B[j].node # y
    BY <1>24, <2>1, Zenon DEF Child
  <2>6. QED
    BY <1>1, <1>2, <1>3, <1>4, <1>21, <1>24, <1>25, <2>2, <2>3, <2>4, <2>5, YieldStep, Zenon
<1>28. CASE ~(wild /\ HasChild(x, Hash))
  <2>1. Search(Front(it.stack) \o B)
    BY <1>14, <1>22, <1>28
  <2>2. \A F \in kept : Owed(F) /\ Above(x, F) => \E j \in 1 .. Len(B) : Above(B[j].node, F)
    BY <1>26, <1>28, Zenon
  <2>3. QED
    BY <1>1, <1>2, <1>3, <1>4, <1>21, <1>24, <1>25, <2>1, <2>2, SearchStep, Zenon
<1>29. QED
    BY <1>27, <1>28

-----------------------------------------------------------------------------
(* The other actions.                                                      *)

\* No iterator is in use.
Idle == it = NoIterator /\ found = <<>> /\ kept = {} /\ tidy = TRUE

LEMMA IdleInv == Trie /\ Idle => Inv
<1> SUFFICES ASSUME Trie, Idle PROVE Inv
    OBVIOUS
<1>1. /\ it.kind = "all" /\ it.pos = "end" /\ it.stack = <<>> /\ it.topic = <<>>
      /\ it = [kind |-> "all", topic |-> <<>>, stack |-> <<>>, pos |-> "end"]
    BY DEF Idle, NoIterator
<1>2. Shape
  <2>1. it \in Iterator
    BY <1>1 DEF Iterator
  <2>2. found \in Seq(Path)
    BY DEF Idle
  <2>3. it.kind # "match" /\ ~(it.pos # "end")
    BY <1>1
  <2>4. kept \subseteq Values /\ tidy \in BOOLEAN
    BY Zenon DEF Idle
  <2>5. QED
    BY <2>1, <2>2, <2>3, <2>4, Zenon DEF Shape
<1>3. Separate(it.stack, found)
    BY <1>1 DEF Idle, Separate
<1>4. Routes /\ Complete
    BY <1>1 DEF Idle, Routes, Complete
<1>5. QED
    BY <1>2, <1>3, <1>4 DEF Inv

LEMMA InitInv == Init => Inv
<1> SUFFICES ASSUME Init PROVE Inv
    OBVIOUS
<1>1. Root \in Path /\ Len(Root) = 0 /\ SubSeq(Root, 1, 0) = Root
    BY SubSeqEmpty DEF Root, Path
<1>2. IsFiniteSet({Root})
    BY FS_Singleton, Zenon
<1>3. \A node \in nodes : \A k \in 0 .. Len(node) : SubSeq(node, 1, k) \in nodes
    BY <1>1 DEF Init
<1>4. Trie
    BY <1>1, <1>2, <1>3 DEF Trie, Init
<1>5. QED
    BY <1>4, IdleInv DEF Idle, Init

\* A change of the collection, with an iterator that keeps its stack.
LEMMA ObserveInv ==
    ASSUME Inv, Trie', Observe, it.pos # "end" => nodes \subseteq nodes'
    PROVE  Inv'
<1>1. CASE it.pos = "end"
  <2>1. Idle'
    BY <1>1 DEF Observe, Idle, NoIterator
  <2>2. QED
    BY <2>1, IdleInv, PTL
<1>2. CASE it.pos # "end"
  <2>1. /\ kept' = kept \intersect content' /\ tidy' = (tidy /\ ~Untidy')
        /\ it' = it /\ found' = found /\ nodes \subseteq nodes'
    BY <1>2 DEF Observe
  <2>2. kept' \subseteq kept /\ kept' \subseteq content' /\ tidy' \in BOOLEAN
        /\ (tidy' => tidy) /\ (tidy' => ~Untidy')
    BY <2>1, Zenon DEF Inv, Shape
  <2>3. Shape'
    BY <1>2, <2>1, <2>2 DEF Inv, Shape
  <2>4. Separate(it.stack, found)'
    BY <2>1, Zenon DEF Inv, Separate
  <2>5. Routes'
    BY <2>1, Zenon DEF Inv, Routes
  <2>6. Complete'
    <3>1. \A node : Owed(node)' => Owed(node)
        BY <2>1, <2>2, Zenon DEF Owed
    <3>2. QED
        BY <1>2, <2>1, <2>2, <3>1 DEF Inv, Complete
  <2>7. QED
    BY <2>3, <2>4, <2>5, <2>6 DEF Inv
<1>3. QED
    BY <1>1, <1>2

\* The nodes on the way to a node: finitely many, with the way to each of them.
LEMMA WayToNode ==
    ASSUME NEW F \in Path
    PROVE  /\ IsFiniteSet(Prefixes(F)) /\ Prefixes(F) \subseteq Path /\ F \in Prefixes(F)
           /\ \A node \in Prefixes(F) : \A k \in 0 .. Len(node) : SubSeq(node, 1, k) \in Prefixes(F)
<1>1. PICK n \in Nat : n = Len(F)
    BY DEF Path
<1>2. Prefixes(F) = {SubSeq(F, 1, l) : l \in 0 .. n}
    BY <1>1 DEF Prefixes
<1>3. ASSUME NEW l \in 0 .. n
      PROVE  /\ SubSeq(F, 1, l) \in Path /\ Len(SubSeq(F, 1, l)) = l
             /\ \A i \in 1 .. l : SubSeq(F, 1, l)[i] = F[i]
  <2>1. \A i \in 1 .. l : F[i] \in Seq(Text)
    BY <1>1, ElementOfSeq DEF Path
  <2>2. QED
    BY <2>1, SubSeqProperties DEF Path
<1>4. F \in Prefixes(F)
  <2>1. SubSeq(F, 1, n) = F
    BY <1>1, SubSeqFull DEF Path
  <2>2. QED
    BY <1>2, <2>1
<1>5. IsFiniteSet(Prefixes(F))
  <2> DEFINE D == 0 .. n
             g == [l \in D |-> SubSeq(F, 1, l)]
  <2>1. IsFiniteSet(D)
    BY FS_Interval
  <2> HIDE DEF D
  <2>2. g \in Surjection(D, Prefixes(F))
    BY <1>2, Zenon DEF Surjection, D
  <2>3. QED
    BY <2>1, <2>2, FS_Surjection
<1>6. ASSUME NEW node \in Prefixes(F), NEW k \in 0 .. Len(node)
      PROVE  SubSeq(node, 1, k) \in Prefixes(F)
  <2>1. PICK l \in 0 .. n : node = SubSeq(F, 1, l)
    BY <1>2
  <2>2. node \in Path /\ Len(node) = l /\ \A i \in 1 .. l : node[i] = F[i]
    BY <1>3, <2>1
  <2>3. k \in 0 .. l /\ k \in 0 .. n
    BY <2>2
  <2>4. PICK v : v = SubSeq(node, 1, k)
    BY Zenon
  <2>5. PICK w : w = SubSeq(F, 1, k)
    BY Zenon
  <2>6. w \in Path /\ Len(w) = k /\ \A i \in 1 .. k : w[i] = F[i]
    BY <1>3, <2>3, <2>5
  <2>7. v \in Path /\ Len(v) = k /\ \A i \in 1 .. k : v[i] = node[i]
    <3>1. \A i \in 1 .. k : node[i] \in Seq(Text)
        BY <2>2, <2>3, ElementOfSeq DEF Path
    <3>2. QED
        BY <2>3, <2>4, <3>1, SubSeqProperties DEF Path
  <2>8. \A i \in 1 .. k : v[i] = w[i]
    BY <2>2, <2>3, <2>6, <2>7
  <2>9. v = w
    BY <2>6, <2>7, <2>8, SeqEqual DEF Path
  <2>10. QED
    BY <1>2, <2>3, <2>4, <2>5, <2>9
<1>7. QED
    BY <1>2, <1>3, <1>4, <1>5, <1>6, Zenon

LEMMA ChangeStep == Inv /\ Change => Inv'
<1> SUFFICES ASSUME Inv, Change PROVE Inv'
    OBVIOUS
<1>1. /\ nodes \subseteq Path /\ IsFiniteSet(nodes) /\ Root \in nodes
      /\ \A node \in nodes : \A k \in 0 .. Len(node) : SubSeq(node, 1, k) \in nodes
      /\ content \subseteq nodes /\ content \subseteq Values
    BY DEF Inv, Trie
<1>2. CASE Prune
  <2>1. nodes' = {Root} \union UNION {Prefixes(F) : F \in content} /\ content' = content
    BY <1>2 DEF Prune
  <2>2. nodes' \subseteq nodes
    <3>1. \A F \in content : \A k \in 0 .. Len(F) : SubSeq(F, 1, k) \in nodes
        BY <1>1
    <3>2. \A F \in content : Prefixes(F) \subseteq nodes
        BY <3>1, Zenon DEF Prefixes
    <3>3. QED
        BY <1>1, <2>1, <3>2
  <2>3. \A F \in content : /\ F \in Prefixes(F)
                           /\ \A node \in Prefixes(F) : \A k \in 0 .. Len(node) :
                                  SubSeq(node, 1, k) \in Prefixes(F)
    BY <1>1, WayToNode
  <2>4. \A k \in 0 .. Len(Root) : SubSeq(Root, 1, k) = Root
    <3>1. Len(Root) = 0 /\ SubSeq(Root, 1, 0) = Root
        BY SubSeqEmpty DEF Root
    <3>2. QED
        BY <3>1
  <2>5. \A node \in nodes' : \A k \in 0 .. Len(node) : SubSeq(node, 1, k) \in nodes'
    BY <2>1, <2>3, <2>4
  <2>6. content' \subseteq nodes' /\ Root \in nodes'
    BY <2>1, <2>3
  <2>7. IsFiniteSet(nodes')
    BY <1>1, <2>2, FS_Subset
  <2>8. Trie'
    BY <1>1, <2>1, <2>2, <2>5, <2>6, <2>7 DEF Trie
  <2>9. QED
    BY <1>2, <2>8, ObserveInv DEF Prune
<1>3. ASSUME NEW f \in Filters, InsertFilter(f) PROVE Inv'
  <2>1. PICK F \in Values : F = Split(f)
    BY DEF Values
  <2>2. nodes' = nodes \union Prefixes(F) /\ content' = content \union {F} /\ Observe
    BY <1>3, <2>1 DEF InsertFilter
  <2>3. F \in Path
    BY ValueIsPath DEF FilterPath
  <2>4. /\ IsFiniteSet(Prefixes(F)) /\ Prefixes(F) \subseteq Path /\ F \in Prefixes(F)
        /\ \A node \in Prefixes(F) : \A k \in 0 .. Len(node) : SubSeq(node, 1, k) \in Prefixes(F)
    BY <2>3, WayToNode
  <2>5. IsFiniteSet(nodes')
    BY <1>1, <2>2, <2>4, FS_Union, Zenon
  <2>6. \A node \in nodes' : \A k \in 0 .. Len(node) : SubSeq(node, 1, k) \in nodes'
    BY <1>1, <2>2, <2>4
  <2>7. nodes' \subseteq Path /\ Root \in nodes' /\ content' \subseteq nodes' /\ content' \subseteq Values
    BY <1>1, <2>2, <2>4
  <2>8. Trie'
    BY <2>5, <2>6, <2>7 DEF Trie
  <2>9. QED
    BY <2>2, <2>8, ObserveInv
<1>4. ASSUME NEW f \in Filters, RemoveFilter(f) PROVE Inv'
  <2>1. nodes' = nodes /\ content' \subseteq content /\ Observe
    BY <1>4 DEF RemoveFilter
  <2>2. Trie'
    BY <1>1, <2>1 DEF Trie
  <2>3. QED
    BY <2>1, <2>2, ObserveInv
<1>5. QED
    BY <1>2, <1>3, <1>4 DEF Change

\* A new iterator: everything is below the root, where its stack begins.
LEMMA BeginStep ==
    ASSUME Inv, NEW kind \in {"all", "match"}, NEW topic, Begin(kind, topic),
           kind = "match" => topic \in Topics, kind = "all" => topic = <<>>
    PROVE  Inv'
<1> DEFINE L == Split(topic)
<1>1. PICK e : e = FirstNode(topic)
    BY Zenon
<1>2. PICK st : st = <<e>>
    BY Zenon
<1>3. /\ it' = [kind |-> kind, topic |-> topic, stack |-> st, pos |-> "next"]
      /\ found' = <<>> /\ kept' = content /\ tidy' = ~Untidy
      /\ nodes' = nodes /\ content' = content
    BY <1>1, <1>2 DEF Begin
<1>4. e.node = <<>> /\ e.fields = L /\ e.first = TRUE /\ e = [node |-> <<>>, fields |-> L, first |-> TRUE]
    BY <1>1 DEF FirstNode, Root
<1>5. topic \in Seq(Text) /\ L \in Path
  <2>1. CASE kind = "match"
    BY <2>1, TopicIsPath DEF TopicPath
  <2>2. CASE kind = "all"
    <3>1. topic = <<>> /\ L = <<>>
        BY <2>2 DEF Split
    <3>2. <<>> \in Seq(Text) /\ <<>> \in Path
        BY DEF Path
    <3>3. QED
        BY <3>1, <3>2, Zenon
  <2>3. QED
    BY <2>1, <2>2
<1>6. e \in Entry
  <2> HIDE DEF L
  <2>1. <<>> \in Path
    BY DEF Path
  <2>2. QED
    BY <1>4, <1>5, <2>1 DEF Entry
<1>7. st \in Seq(Entry) /\ Len(st) = 1 /\ st[1] = e
    BY <1>2, <1>6
<1>8. \A i \in 1 .. Len(st) : i = 1 /\ st[i] = e
    BY <1>7
<1>9. /\ it'.kind = kind /\ it'.topic = topic /\ it'.stack = st /\ it'.pos = "next"
      /\ it' \in Iterator
  <2> HIDE DEF L
  <2>1. QED
    BY <1>3, <1>5, <1>7 DEF Iterator
<1>10. Trie'
    BY <1>3 DEF Inv, Trie
<1>11. Shape'
  <2>1. \A i \in 1 .. Len(st) : st[i].node \in nodes
    BY <1>4, <1>8 DEF Inv, Trie, Root
  <2>2. content \subseteq Values
    BY DEF Inv, Trie
  <2>3. (tidy' => ~Untidy') /\ tidy' \in BOOLEAN
    BY <1>3, StillTidy, Zenon
  <2>4. found' \in Seq(Path)
    BY <1>3
  <2>5. QED
    BY <1>3, <1>9, <2>1, <2>2, <2>3, <2>4 DEF Shape
<1>12. Separate(it.stack, found)'
  <2>1. Len(found') = 0
    BY <1>3
  <2>2. \A k : k \notin 1 .. Len(found')
    BY <2>1
  <2>3. QED
    BY <1>8, <1>9, <2>2, Zenon DEF Separate
<1>13. Routes'
  <2>1. ASSUME kind = "match" PROVE Route(e, L)
    <3>1. PICK T : T = L
        BY Zenon
    <3>2. TopicPath(T)
        BY <2>1, <3>1, TopicIsPath
    <3>3. Len(T) \in Nat /\ SubSeq(T, 1, Len(T)) = T
        BY <3>2, SubSeqFull DEF TopicPath, Path
    <3>4. e.fields = T
        BY <1>4, <3>1, Zenon
    <3>5. Route(e, T)
        BY <1>4, <3>3, <3>4 DEF Route
    <3>6. QED
        BY <3>1, <3>5
  <2>2. Len(found') = 0
    BY <1>3
  <2>3. \A k : k \notin 1 .. Len(found')
    BY <2>2
  <2> HIDE DEF L
  <2>4. kind = "match" => \A i \in 1 .. Len(st) : Route(st[i], L)
    BY <1>8, <2>1, Zenon
  <2>5. QED
    BY <1>9, <2>3, <2>4, Zenon DEF Routes, L
<1>14. Complete'
  <2>1. ASSUME NEW node \in content PROVE Reached(node, st, found')
    <3>1. Len(node) \in Nat
        BY DEF Inv, Trie, Path
    <3>2. Above(st[1].node, node) /\ 1 \in 1 .. Len(st)
        BY <1>4, <1>7, <3>1 DEF Above
    <3>3. QED
        BY <3>2, Zenon DEF Reached
  <2>2. QED
    BY <1>3, <1>9, <2>1 DEF Complete
<1>15. QED
    BY <1>10, <1>11, <1>12, <1>13, <1>14 DEF Inv

LEMMA IncrementStep == Inv /\ Increment => Inv'
<1> SUFFICES ASSUME Inv, Increment PROVE Inv'
    OBVIOUS
<1>1. /\ it.pos = "at" /\ it' = [it EXCEPT !.pos = "next"]
      /\ UNCHANGED <<nodes, content, found, kept, tidy>>
    BY DEF Increment
<1>2. /\ it' \in Iterator /\ it'.pos = "next"
      /\ it'.kind = it.kind /\ it'.topic = it.topic /\ it'.stack = it.stack
    BY <1>1, Zenon DEF Inv, Shape, Iterator
<1>3. Trie'
    BY <1>1 DEF Inv, Trie
<1>4. Shape'
    BY <1>1, <1>2, StillTidy DEF Inv, Shape
<1>5. Separate(it.stack, found)'
    BY <1>1, <1>2, Zenon DEF Inv, Separate
<1>6. Routes'
    BY <1>1, <1>2, Zenon DEF Inv, Routes
<1>7. Complete'
    BY <1>1, <1>2 DEF Inv, Complete, Owed, Reached
<1>8. QED
    BY <1>3, <1>4, <1>5, <1>6, <1>7 DEF Inv

LEMMA NextEndsStep == Inv /\ NextEnds => Inv'
<1> SUFFICES ASSUME Inv, NextEnds PROVE Inv'
    OBVIOUS
<1>1. /\ it.pos = "next" /\ it.stack = <<>> /\ it' = [it EXCEPT !.pos = "end"]
      /\ UNCHANGED <<nodes, content, found, kept, tidy>>
    BY DEF NextEnds
<1>2. /\ it' \in Iterator /\ it'.pos = "end"
      /\ it'.kind = it.kind /\ it'.topic = it.topic /\ it'.stack = it.stack
    BY <1>1, Zenon DEF Inv, Shape, Iterator
<1>3. Trie'
    BY <1>1 DEF Inv, Trie
<1>4. Shape'
    BY <1>1, <1>2 DEF Inv, Shape
<1>5. Separate(it.stack, found)'
    BY <1>1, <1>2, Zenon DEF Inv, Separate
<1>6. Routes'
    BY <1>1, <1>2, Zenon DEF Inv, Routes
<1>7. Complete'
    BY <1>1, <1>2 DEF Inv, Complete, Owed, Reached
<1>8. QED
    BY <1>3, <1>4, <1>5, <1>6, <1>7 DEF Inv

\* The invariant of the trie and of an iterator over it, inside next() and between
\* its calls, whatever is inserted and removed on the way.
THEOREM MatcherInvariant == Spec => []Inv
<1>1. Inv /\ [Next]_vars => Inv'
  <2> SUFFICES ASSUME Inv, [Next]_vars PROVE Inv'
    OBVIOUS
  <2>1. CASE Change
    BY <2>1, ChangeStep
  <2>2. CASE StartIterator
    <3>1. CASE Begin("all", <<>>)
        BY <3>1, BeginStep
    <3>2. ASSUME NEW t \in Topics, Begin("match", t) PROVE Inv'
        BY <3>2, BeginStep
    <3>3. QED
        BY <2>2, <3>1, <3>2 DEF StartIterator
  <2>3. CASE Increment
    BY <2>3, IncrementStep
  <2>4. CASE Drop
    <3>1. Trie'
        BY <2>4 DEF Drop, Inv, Trie
    <3>2. Idle'
        BY <2>4 DEF Drop, Idle, NoIterator
    <3>3. QED
        BY <3>1, <3>2, IdleInv, PTL
  <2>5. CASE Iterate
    BY <2>5, NextEndsStep, AllNextStep, TopicEndsStep, DescendStep DEF Iterate
  <2>6. CASE UNCHANGED vars
    <3>1. it' = it /\ found' = found /\ nodes' = nodes /\ content' = content /\ kept' = kept /\ tidy' = tidy
        BY <2>6 DEF vars
    <3>2. Trie'
        BY <3>1 DEF Inv, Trie
    <3>3. Shape'
        BY <3>1, StillTidy DEF Inv, Shape
    <3>4. Separate(it.stack, found)' /\ Routes'
        BY <3>1, Zenon DEF Inv, Separate, Routes
    <3>5. Complete'
        BY <3>1, Zenon DEF Inv, Complete, Owed, Reached
    <3>6. QED
        BY <3>2, <3>3, <3>4, <3>5 DEF Inv
  <2>7. QED
    BY <2>1, <2>2, <2>3, <2>4, <2>5, <2>6 DEF Next
<1>2. QED
    BY <1>1, InitInv, PTL DEF Spec

LEMMA FoundIs ==
    ASSUME Shape
    PROVE  /\ DOMAIN found = 1 .. Len(found)
           /\ \A node : node \in Range(found) <=> \E k \in 1 .. Len(found) : found[k] = node
<1>1. DOMAIN found = 1 .. Len(found)
    BY DEF Shape
<1>2. QED
    BY <1>1 DEF Range

\* Every node of the trie has its parent in it, and an iterator that is in use points
\* only to nodes of the trie, for any filters and topics.
THEOREM MatcherTypes == Spec => []TypeOK
<1>1. Inv => TypeOK
  <2> SUFFICES ASSUME Inv PROVE TypeOK
    OBVIOUS
  <2>1. ASSUME NEW node \in nodes \ {Root} PROVE Front(node) \in nodes
    <3>1. node \in Seq(Seq(Text)) /\ node # <<>>
        BY <2>1 DEF Inv, Trie, Path, Root
    <3>2. Len(node) \in Nat \ {0}
        BY <3>1, EmptySeq
    <3>3. Len(node) - 1 \in 0 .. Len(node)
        BY <3>2
    <3>4. QED
        BY <3>3 DEF Inv, Trie, Front
  <2>2. it.pos \in {"at", "next", "end"} /\ it.kind \in {"all", "match"}
        /\ DOMAIN it.stack = 1 .. Len(it.stack)
    BY DEF Inv, Shape, Iterator
  <2>3. QED
    BY <2>1, <2>2, Zenon DEF TypeOK, Inv, Trie, Shape, Values
<1>2. QED
    BY <1>1, MatcherInvariant, PTL

\* What match_iterator points to matches the topic by topic_filter::matches, the rule
\* for "$" included, for any filters and topics.
THEOREM SearchFindsMatches == Spec => []OnlyMatches
<1>1. Inv => OnlyMatches
  <2> SUFFICES ASSUME Inv, it.kind = "match", NEW node \in Range(found)
               PROVE  Matches(Join(node), it.topic)
    BY DEF OnlyMatches
  <2>1. PICK k \in 1 .. Len(found) : found[k] = node
    BY FoundIs DEF Inv
  <2>2. it.topic \in Topics /\ node \in Values /\ Fit(node, Split(it.topic))
    BY <2>1 DEF Inv, Shape, Routes
  <2>3. QED
    BY <2>2, ValueMatches
<1>2. QED
    BY <1>1, MatcherInvariant, PTL

\* No iterator points to a filter twice, whatever is inserted or removed on the way.
THEOREM NothingFoundTwice == Spec => []NoRepeat
<1>1. Inv => NoRepeat
    BY FoundIs, Zenon DEF Inv, Separate, NoRepeat, IsInjective
<1>2. QED
    BY <1>1, MatcherInvariant, PTL

\* A search that has ended without meeting an awkward "#" has pointed to every matching
\* filter that was there all the time.
THEOREM SearchIsComplete == Spec => []SearchComplete
<1>1. Inv => SearchComplete
  <2> SUFFICES ASSUME Inv, it.kind = "match", it.pos = "end", tidy, NEW node \in kept,
                      Matches(Join(node), it.topic)
               PROVE  node \in Range(found)
    BY DEF SearchComplete
  <2>1. it.topic \in Topics /\ node \in Values
    BY DEF Inv, Shape
  <2>2. Fit(node, Split(it.topic))
    BY <2>1, ValueMatches
  <2>3. it.stack = <<>> /\ Reached(node, it.stack, found)
    BY <2>2 DEF Inv, Complete, Owed
  <2>4. \E k \in 1 .. Len(found) : found[k] = node
    BY <2>3 DEF Reached
  <2>5. QED
    BY <2>4, FoundIs DEF Inv
<1>2. QED
    BY <1>1, MatcherInvariant, PTL

\* An iterator over all filters that has come to end() has pointed to every filter that
\* was there all the time.
THEOREM IterationIsComplete == Spec => []AllItems
<1>1. Inv => AllItems
  <2> SUFFICES ASSUME Inv, it.kind = "all", it.pos = "end", NEW node \in kept
               PROVE  node \in Range(found)
    BY DEF AllItems
  <2>1. it.stack = <<>> /\ Reached(node, it.stack, found)
    BY DEF Inv, Complete, Owed
  <2>2. \E k \in 1 .. Len(found) : found[k] = node
    BY <2>1 DEF Reached
  <2>3. QED
    BY <2>2, FoundIs DEF Inv
<1>2. QED
    BY <1>1, MatcherInvariant, PTL

=============================================================================
