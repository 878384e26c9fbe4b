--------------------------- MODULE SequenceLemmas ---------------------------
(***************************************************************************)
(* Induction over data.  The induction theorems of the library have an     *)
(* operator as a parameter; here a property is the set of those numbers    *)
(* that have it, and induction is that a set of naturals without a least   *)
(* element is empty.  From it: a recursive function over the naturals has  *)
(* the values its equation says, and what Within does to sequences.        *)
(***************************************************************************)
EXTENDS Naturals, Sequences, SequenceTheorems, Subsequences, WellFoundedInduction, TLAPS

-----------------------------------------------------------------------------
\* Induction

\* A non-empty set of naturals has a least element.
LEMMA LeastNat ==
    ASSUME NEW T, T \subseteq Nat, T # {}
    PROVE  \E x \in T : \A y \in T : ~ (y < x)
  <1>1. \E x \in T : \A y \in T : <<y, x>> \notin OpToRel(<, Nat)
    BY NatLessThanWellFounded, WFMin, Zenon
  <1>2. ASSUME NEW x \in T, NEW y \in T, y < x
        PROVE  <<y, x>> \in OpToRel(<, Nat)
    BY <1>2, Zenon DEF OpToRel
  <1>3. QED
    BY <1>1, <1>2, Zenon

\* Induction for the numbers that are in T.
LEMMA SetInduction ==
    ASSUME NEW T, 0 \in T, \A n \in Nat : n \in T => n + 1 \in T
    PROVE  \A n \in Nat : n \in T
  <1> DEFINE B == Nat \ T
  <1> SUFFICES ASSUME B # {}
               PROVE  FALSE
    OBVIOUS
  <1>1. PICK m \in B : \A y \in B : ~(y < m)
    <2> HIDE DEF B
    <2>1. B \subseteq Nat
      BY DEF B
    <2>2. QED
      BY <2>1, LeastNat
  <1>2. m # 0 /\ m - 1 \in Nat /\ m - 1 < m
    BY <1>1
  <1>3. m - 1 \in T
    BY <1>1, <1>2
  <1>4. QED
    BY <1>1, <1>2, <1>3

\* g is the sequence of values that begins with a and goes on by step.
IsStep(step, V) == step \in [Nat \X V -> V]
Unfolds(g, V, a, step) ==
    /\ g \in [Nat -> V] /\ g[0] = a
    /\ \A n \in Nat : g[n + 1] = step[<<n, g[n]>>]

\* A value for 0 and a step define a function on all naturals.
LEMMA RecursionDefines ==
    ASSUME NEW V, NEW a \in V, NEW step, IsStep(step, V)
    PROVE  \E g : Unfolds(g, V, a, step)
  <1> USE DEF IsStep
  <1> DEFINE Starts(f, n) == f \in [0..n -> V] /\ f[0] = a
             Steps(f, n) == \A k \in Nat : k < n => f[k + 1] = step[<<k, f[k]>>]
             Good(f, n) == Starts(f, n) /\ Steps(f, n)
             Made == {n \in Nat : \E f : Good(f, n)}
  <1>1. \A n \in Nat : \E f : Good(f, n)
    <2>1. 0 \in Made
      <3>1. Good([k \in 0..0 |-> a], 0)
        OBVIOUS
      <3>2. QED
        BY <3>1
    <2>2. ASSUME NEW n \in Nat, n \in Made
          PROVE  n + 1 \in Made
      <3>1. PICK f : Good(f, n)
        BY <2>2
      <3> DEFINE h == [k \in 0..(n + 1) |-> IF k = n + 1 THEN step[<<n, f[n]>>] ELSE f[k]]
      <3>2. f[n] \in V /\ step[<<n, f[n]>>] \in V
        BY <3>1
      <3>3. Starts(h, n + 1)
        BY <3>1, <3>2
      <3>4. /\ \A k \in 0..n : h[k] = f[k]
            /\ h[n + 1] = step[<<n, f[n]>>]
        OBVIOUS
      <3> HIDE DEF h
      <3>5. Steps(h, n + 1)
        <4> SUFFICES ASSUME NEW k \in Nat, k < n + 1
                     PROVE  h[k + 1] = step[<<k, h[k]>>]
          OBVIOUS
        <4>1. CASE k = n
          BY <4>1, <3>4
        <4>2. CASE k # n
          <5>1. k < n /\ k + 1 \in 0..n /\ k \in 0..n
            BY <4>2
          <5>2. f[k + 1] = step[<<k, f[k]>>]
            BY <3>1, <5>1
          <5>3. QED
            BY <3>4, <5>1, <5>2
        <4>3. QED
          BY <4>1, <4>2
      <3>6. QED
        BY <3>3, <3>5
    <2>3. \A n \in Nat : n \in Made
      <3> HIDE DEF Made
      <3>1. QED
        BY <2>1, <2>2, SetInduction
    <2>4. QED
      BY <2>3
  <1>2. ASSUME NEW n \in Nat, NEW f, NEW h, Good(f, n), Good(h, n + 1)
        PROVE  \A k \in Nat : k <= n => f[k] = h[k]
    <2> DEFINE Same == {k \in Nat : k <= n => f[k] = h[k]}
    <2>1. 0 \in Same
      BY <1>2
    <2>2. ASSUME NEW k \in Nat, k \in Same
          PROVE  k + 1 \in Same
      <3> SUFFICES ASSUME k + 1 <= n
                   PROVE  f[k + 1] = h[k + 1]
        OBVIOUS
      <3>1. f[k] = h[k] /\ k < n /\ k < n + 1
        BY <2>2
      <3>2. f[k + 1] = step[<<k, f[k]>>] /\ h[k + 1] = step[<<k, h[k]>>]
        BY <1>2, <3>1
      <3>3. QED
        BY <3>1, <3>2
    <2>3. \A k \in Nat : k \in Same
      <3> HIDE DEF Same
      <3>1. QED
        BY <2>1, <2>2, SetInduction
    <2>4. QED
      BY <2>3
  <1> DEFINE f(n) == CHOOSE f : Good(f, n)
             g == [n \in Nat |-> f(n)[n]]
  <1>3. \A n \in Nat : Good(f(n), n)
    <2> HIDE DEF Good
    <2>1. QED
      BY <1>1, Zenon
  <1>4. g \in [Nat -> V] /\ g[0] = a
    <2>1. \A n \in Nat : f(n) \in [0..n -> V] /\ f(n)[0] = a
      BY <1>3
    <2> HIDE DEF f
    <2>2. QED
      BY <2>1
  <1>5. ASSUME NEW n \in Nat
        PROVE  g[n + 1] = step[<<n, g[n]>>]
    <2> HIDE DEF f
    <2>1. Good(f(n), n) /\ Good(f(n + 1), n + 1)
      <3> HIDE DEF Good
      <3>1. QED
        BY <1>3
    <2>2. f(n)[n] = f(n + 1)[n]
      <3> HIDE DEF Good
      <3>1. QED
        BY <1>2, <2>1
    <2>3. f(n + 1)[n + 1] = step[<<n, f(n + 1)[n]>>]
      BY <2>1
    <2>4. QED
      BY <2>2, <2>3
  <1>6. QED
    <2> HIDE DEF g
    <2>1. Unfolds(g, V, a, step)
      BY <1>4, <1>5 DEF Unfolds
    <2>2. QED
      BY <2>1

-----------------------------------------------------------------------------
\* Within

\* The recursion of WithinFirst does what it says.
LEMMA WithinFirstDef ==
    ASSUME NEW seq, NEW S
    PROVE  /\ WithinFirst(seq, S) \in [Nat -> Seq(S)]
           /\ WithinFirst(seq, S)[0] = <<>>
           /\ \A n \in Nat :
                 WithinFirst(seq, S)[n + 1] = Joined(WithinFirst(seq, S)[n], seq[n + 1], S)
  <1> DEFINE V == Seq(S)
             next(n, v) == Joined(v, seq[n + 1], S)
             step == [x \in Nat \X V |-> next(x[1], x[2])]
             Body(f) == [n \in Nat |->
                           IF n = 0 THEN <<>> ELSE Joined(f[n - 1], seq[n], S)]
             none == <<>>
  <1>0. /\ \A n \in Nat, v \in V : next(n, v) \in V
        /\ none \in V
    BY DEF Joined
  <1>1. IsStep(step, V)
    <2> HIDE DEF next, V
    <2>1. QED
      BY <1>0 DEF IsStep
  <1>2. PICK g : Unfolds(g, V, none, step)
    <2> HIDE DEF step, V, none, next
    <2>1. none \in V
      BY <1>0
    <2>2. QED
      BY <1>1, <2>1, RecursionDefines, Zenon
  <1>3. \A n \in Nat : g[n + 1] = next(n, g[n])
    <2>1. \A n \in Nat : <<n, g[n]>> \in Nat \X V
      BY <1>2 DEF Unfolds
    <2> HIDE DEF next, V
    <2>2. QED
      BY <1>2, <2>1 DEF Unfolds
  <1>4. g = Body(g)
    <2>1. \A n \in Nat : g[n] = Body(g)[n]
      <3> TAKE n \in Nat
      <3>1. CASE n = 0
        BY <1>2, <3>1 DEF Unfolds
      <3>2. CASE n # 0
        <4>1. n - 1 \in Nat /\ (n - 1) + 1 = n
          BY <3>2
        <4>2. g[n] = next(n - 1, g[n - 1])
          <5> HIDE DEF next
          <5>1. QED
            BY <1>3, <4>1
        <4>3. QED
          BY <3>2, <4>1, <4>2
      <3>3. QED
        BY <3>1, <3>2
    <2> DEFINE b == Body(g)
    <2>2. b = [n \in Nat |-> b[n]]
      OBVIOUS
    <2> HIDE DEF b, V
    <2>3. QED
      BY <1>2, <2>1, <2>2 DEF b, Unfolds
  <1> DEFINE w == WithinFirst(seq, S)
  <1>5. w = CHOOSE f : f = Body(f)
    BY DEF WithinFirst
  <1>6. w = Body(w)
    <2> HIDE DEF Body, w
    <2>1. QED
      BY <1>4, <1>5, Zenon
  <1>7. /\ w[0] = <<>>
        /\ \A n \in Nat : w[n + 1] = next(n, w[n])
    <2> HIDE DEF w
    <2>1. w[0] = <<>>
      BY <1>6
    <2>2. ASSUME NEW n \in Nat PROVE w[n + 1] = next(n, w[n])
      <3>1. n + 1 \in Nat /\ n + 1 # 0 /\ (n + 1) - 1 = n
        OBVIOUS
      <3>2. QED
        BY <1>6, <3>1
    <2>3. QED
      BY <2>1, <2>2
  <1>8. \A n \in Nat : w[n] \in V
    <2> DEFINE T == {n \in Nat : w[n] \in V}
    <2> HIDE DEF w, V, next
    <2>1. 0 \in T
      BY <1>0, <1>7
    <2>2. ASSUME NEW n \in Nat, n \in T
          PROVE  n + 1 \in T
      BY <1>0, <1>7, <2>2
    <2> HIDE DEF T
    <2>3. \A n \in Nat : n \in T
      BY <2>1, <2>2, SetInduction
    <2>4. QED
      BY <2>3 DEF T
  <1>9. w \in [Nat -> V]
    <2> HIDE DEF w, V
    <2>1. w = [n \in Nat |-> w[n]]
      BY <1>6
    <2>2. QED
      BY <1>8, <2>1
  <1>10. QED
    BY <1>7, <1>9

\* The same, a fact at a time.
LEMMA WithinFirstNone ==
    ASSUME NEW seq, NEW S
    PROVE  WithinFirst(seq, S)[0] = <<>>
  BY WithinFirstDef

LEMMA WithinFirstNext ==
    ASSUME NEW seq, NEW S, NEW n \in Nat
    PROVE  WithinFirst(seq, S)[n + 1] = Joined(WithinFirst(seq, S)[n], seq[n + 1], S)
  BY WithinFirstDef

LEMMA WithinFirstType ==
    ASSUME NEW seq, NEW S, NEW n \in Nat
    PROVE  WithinFirst(seq, S)[n] \in Seq(S)
  BY WithinFirstDef

\* What is kept of the first n elements depends on those only.
Agree(s, t, m) == \A i \in 1..m : s[i] = t[i]

LEMMA WithinFirstOf ==
    ASSUME NEW s, NEW t, NEW S, NEW m \in Nat, Agree(s, t, m)
    PROVE  WithinFirst(s, S)[m] = WithinFirst(t, S)[m]
  <1> USE DEF Agree
  <1> DEFINE T == {n \in Nat : n <= m => WithinFirst(s, S)[n] = WithinFirst(t, S)[n]}
  <1>1. 0 \in T
    BY WithinFirstNone
  <1>2. ASSUME NEW n \in Nat, n \in T
        PROVE  n + 1 \in T
    <2> SUFFICES ASSUME n + 1 <= m
                 PROVE  WithinFirst(s, S)[n + 1] = WithinFirst(t, S)[n + 1]
      OBVIOUS
    <2>1. WithinFirst(s, S)[n] = WithinFirst(t, S)[n] /\ s[n + 1] = t[n + 1]
      BY <1>2
    <2>2. QED
      BY <2>1, WithinFirstNext
  <1>3. \A n \in Nat : n \in T
    <2> HIDE DEF T
    <2>1. QED
      BY <1>1, <1>2, SetInduction
  <1>4. QED
    BY <1>3

LEMMA WithinType ==
    ASSUME NEW T, NEW s \in Seq(T), NEW S
    PROVE  Within(s, S) \in Seq(S)
  BY WithinFirstType DEF Within

LEMMA WithinEmpty ==
    ASSUME NEW S
    PROVE  Within(<<>>, S) = <<>>
  BY WithinFirstNone DEF Within

LEMMA WithinAppend ==
    ASSUME NEW T, NEW s \in Seq(T), NEW x \in T, NEW S
    PROVE  Within(Append(s, x), S) = Joined(Within(s, S), x, S)
  <1> DEFINE t == Append(s, x)
  <1>1. /\ Len(t) = Len(s) + 1 /\ Len(s) \in Nat /\ t[Len(s) + 1] = x
        /\ \A i \in 1..Len(s) : s[i] = t[i]
    OBVIOUS
  <1> HIDE DEF t
  <1> DEFINE n == Len(s)
  <1>2. WithinFirst(t, S)[n] = WithinFirst(s, S)[n]
    <2>1. n \in Nat /\ Agree(s, t, n)
      BY <1>1 DEF Agree
    <2> HIDE DEF n
    <2>2. QED
      BY <2>1, WithinFirstOf
  <1>3. WithinFirst(t, S)[n + 1] = Joined(WithinFirst(t, S)[n], t[n + 1], S)
    BY <1>1, WithinFirstNext
  <1>4. QED
    BY <1>1, <1>2, <1>3 DEF Within, t

LEMMA JoinedToConcat ==
    ASSUME NEW S, NEW a \in Seq(S), NEW b \in Seq(S), NEW x
    PROVE  Joined(a \o b, x, S) = a \o Joined(b, x, S)
  <1>1. ASSUME x \in S
        PROVE  Append(a \o b, x) = a \o Append(b, x)
    BY <1>1
  <1>2. QED
    BY <1>1 DEF Joined

\* By induction on the front of t.
LEMMA WithinConcat ==
    ASSUME NEW T, NEW s \in Seq(T), NEW t \in Seq(T), NEW S
    PROVE  Within(s \o t, S) = Within(s, S) \o Within(t, S)
  <1> DEFINE B == {n \in Nat : n <= Len(t) =>
                      Within(s \o SubSeq(t, 1, n), S) = Within(s, S) \o Within(SubSeq(t, 1, n), S)}
  <1>1. 0 \in B
    <2>1. SubSeq(t, 1, 0) = <<>> /\ s \o <<>> = s
      OBVIOUS
    <2>2. Within(s, S) \o <<>> = Within(s, S)
      BY WithinType
    <2>3. QED
      BY <2>1, <2>2, WithinEmpty
  <1>2. ASSUME NEW n \in Nat, n \in B
        PROVE  n + 1 \in B
    <2> SUFFICES ASSUME n + 1 <= Len(t)
                 PROVE  Within(s \o SubSeq(t, 1, n + 1), S)
                          = Within(s, S) \o Within(SubSeq(t, 1, n + 1), S)
      OBVIOUS
    <2> DEFINE f == SubSeq(t, 1, n)
               x == t[n + 1]
    <2>1. f \in Seq(T) /\ x \in T
      OBVIOUS
    <2>2. SubSeq(t, 1, n + 1) = Append(f, x)
      OBVIOUS
    <2>3. Within(s \o f, S) = Within(s, S) \o Within(f, S)
      BY <1>2
    <2> HIDE DEF f, x
    <2>4. s \o Append(f, x) = Append(s \o f, x) /\ s \o f \in Seq(T)
      BY <2>1
    <2>5. /\ Within(Append(f, x), S) = Joined(Within(f, S), x, S)
          /\ Within(Append(s \o f, x), S) = Joined(Within(s \o f, S), x, S)
      BY <2>1, <2>4, WithinAppend
    <2>6. Within(s, S) \in Seq(S) /\ Within(f, S) \in Seq(S)
      BY <2>1, WithinType
    <2>7. Joined(Within(s, S) \o Within(f, S), x, S) = Within(s, S) \o Joined(Within(f, S), x, S)
      BY <2>6, JoinedToConcat
    <2>8. QED
      BY <2>2, <2>3, <2>4, <2>5, <2>7
  <1>3. \A n \in Nat : n \in B
    <2> HIDE DEF B
    <2>1. QED
      BY <1>1, <1>2, SetInduction
  <1>4. SubSeq(t, 1, Len(t)) = t /\ Len(t) \in Nat
    OBVIOUS
  <1>5. Len(t) \in B
    <2> HIDE DEF B
    <2>1. QED
      BY <1>3, <1>4
  <1>6. Within(s \o SubSeq(t, 1, Len(t)), S) = Within(s, S) \o Within(SubSeq(t, 1, Len(t)), S)
    BY <1>4, <1>5
  <1>7. QED
    BY <1>4, <1>6

LEMMA WithinOne ==
    ASSUME NEW x, NEW S
    PROVE  Within(<<x>>, S) = IF x \in S THEN <<x>> ELSE <<>>
  <1>1. <<>> \in Seq({x}) /\ Append(<<>>, x) = <<x>> /\ x \in {x}
    OBVIOUS
  <1>2. Within(Append(<<>>, x), S) = Joined(Within(<<>>, S), x, S)
    BY <1>1, WithinAppend, Zenon
  <1>3. QED
    BY <1>1, <1>2, WithinEmpty DEF Joined

\* The first element and the rest.
LEMMA WithinHeadTail ==
    ASSUME NEW T, NEW s \in Seq(T), s # <<>>, NEW S
    PROVE  Within(s, S) = IF Head(s) \in S THEN <<Head(s)>> \o Within(Tail(s), S)
                          ELSE Within(Tail(s), S)
  <1>1. s = <<Head(s)>> \o Tail(s) /\ <<Head(s)>> \in Seq(T) /\ Tail(s) \in Seq(T)
    OBVIOUS
  <1>2. Within(<<Head(s)>> \o Tail(s), S) = Within(<<Head(s)>>, S) \o Within(Tail(s), S)
    <2> DEFINE h == <<Head(s)>>
               r == Tail(s)
    <2>1. h \in Seq(T) /\ r \in Seq(T)
      BY <1>1
    <2> HIDE DEF h, r
    <2>2. Within(h \o r, S) = Within(h, S) \o Within(r, S)
      BY <2>1, WithinConcat
    <2>3. QED
      BY <2>2 DEF h, r
  <1>3. Within(<<Head(s)>>, S) = IF Head(s) \in S THEN <<Head(s)>> ELSE <<>>
    BY WithinOne
  <1>4. Within(Tail(s), S) \in Seq(S)
    BY <1>1, WithinType
  <1>5. <<>> \o Within(Tail(s), S) = Within(Tail(s), S)
    BY <1>4
  <1>6. QED
    BY <1>1, <1>2, <1>3, <1>5

\* Without elements of S nothing is left.
LEMMA WithinNothing ==
    ASSUME NEW T, NEW s \in Seq(T), NEW S, \A i \in 1..Len(s) : s[i] \notin S
    PROVE  Within(s, S) = <<>>
  <1> DEFINE B == {n \in Nat : n <= Len(s) => WithinFirst(s, S)[n] = <<>>}
  <1>1. 0 \in B
    BY WithinFirstNone
  <1>2. ASSUME NEW n \in Nat, n \in B
        PROVE  n + 1 \in B
    <2> SUFFICES ASSUME n + 1 <= Len(s)
                 PROVE  WithinFirst(s, S)[n + 1] = <<>>
      OBVIOUS
    <2>1. WithinFirst(s, S)[n] = <<>> /\ s[n + 1] \notin S
      BY <1>2
    <2>2. Joined(<<>>, s[n + 1], S) = <<>>
      BY <2>1 DEF Joined
    <2>3. QED
      BY <2>1, <2>2, WithinFirstNext
  <1> HIDE DEF B
  <1>3. \A n \in Nat : n \in B
    BY <1>1, <1>2, SetInduction
  <1>4. Len(s) \in B /\ Len(s) \in Nat
    BY <1>3
  <1>5. QED
    BY <1>4 DEF B, Within

\* What is kept was there, and what was there once is kept once.
Comes(kept, s, n) == \A i \in 1..Len(kept) : \E j \in 1..n : kept[i] = s[j]
Distinct(s) == \A i, j \in 1..Len(s) : s[i] = s[j] => i = j

LEMMA WithinComes ==
    ASSUME NEW T, NEW s \in Seq(T), NEW S
    PROVE  /\ Comes(Within(s, S), s, Len(s))
           /\ Distinct(s) => Distinct(Within(s, S))
  <1> DEFINE w(n) == WithinFirst(s, S)[n]
             B == {n \in Nat : n <= Len(s) =>
                      Comes(w(n), s, n) /\ (Distinct(s) => Distinct(w(n)))}
  <1>1. 0 \in B
    BY WithinFirstNone DEF Comes, Distinct
  <1>2. ASSUME NEW n \in Nat, n \in B
        PROVE  n + 1 \in B
    <2> SUFFICES ASSUME n + 1 <= Len(s)
                 PROVE  Comes(w(n + 1), s, n + 1) /\ (Distinct(s) => Distinct(w(n + 1)))
      OBVIOUS
    <2>1. w(n) \in Seq(S) /\ w(n + 1) = Joined(w(n), s[n + 1], S)
      BY WithinFirstType, WithinFirstNext
    <2>2. Comes(w(n), s, n) /\ (Distinct(s) => Distinct(w(n)))
      BY <1>2
    <2> HIDE DEF w
    <2> DEFINE k == w(n)
               x == s[n + 1]
    <2>3. CASE x \notin S
      BY <2>1, <2>2, <2>3 DEF Joined, Comes
    <2>4. CASE x \in S
      <3>1. /\ k \in Seq(S) /\ w(n + 1) = Append(k, x)
            /\ Comes(k, s, n) /\ (Distinct(s) => Distinct(k))
        BY <2>1, <2>2, <2>4 DEF Joined
      <3> HIDE DEF k
      <3> DEFINE a == Append(k, x)
      <3>2. /\ Len(a) = Len(k) + 1 /\ Len(k) \in Nat /\ a[Len(k) + 1] = x
            /\ \A i \in 1..Len(k) : a[i] = k[i]
        BY <3>1, <2>4
      <3> HIDE DEF a
      <3>3. Comes(a, s, n + 1)
        BY <3>1, <3>2 DEF Comes
      <3>4. ASSUME Distinct(s)
            PROVE  Distinct(a)
        <4>1. \A i \in 1..Len(k) : k[i] # x
          <5> TAKE i \in 1..Len(k)
          <5>1. PICK j \in 1..n : k[i] = s[j]
            BY <3>1 DEF Comes
          <5>2. j \in 1..Len(s) /\ n + 1 \in 1..Len(s) /\ j # n + 1
            OBVIOUS
          <5>3. QED
            BY <3>4, <5>1, <5>2 DEF Distinct
        <4>2. QED
          BY <3>1, <3>2, <3>4, <4>1 DEF Distinct
      <3>5. QED
        BY <3>1, <3>3, <3>4 DEF a
    <2>5. QED
      BY <2>3, <2>4
  <1> HIDE DEF B
  <1>3. \A n \in Nat : n \in B
    BY <1>1, <1>2, SetInduction
  <1>4. Len(s) \in B /\ Len(s) \in Nat
    BY <1>3
  <1>5. QED
    BY <1>4 DEF B, Within

\* A sequence over S is kept whole.
LEMMA WithinAll ==
    ASSUME NEW S, NEW s \in Seq(S)
    PROVE  Within(s, S) = s
  <1> DEFINE B == {n \in Nat : n <= Len(s) => WithinFirst(s, S)[n] = SubSeq(s, 1, n)}
  <1>1. 0 \in B
    <2>1. SubSeq(s, 1, 0) = <<>>
      OBVIOUS
    <2>2. QED
      BY <2>1, WithinFirstNone
  <1>2. ASSUME NEW n \in Nat, n \in B
        PROVE  n + 1 \in B
    <2> SUFFICES ASSUME n + 1 <= Len(s)
                 PROVE  WithinFirst(s, S)[n + 1] = SubSeq(s, 1, n + 1)
      OBVIOUS
    <2>1. WithinFirst(s, S)[n] = SubSeq(s, 1, n) /\ s[n + 1] \in S
      BY <1>2
    <2>2. SubSeq(s, 1, n + 1) = Append(SubSeq(s, 1, n), s[n + 1])
      OBVIOUS
    <2>3. QED
      BY <2>1, <2>2, WithinFirstNext DEF Joined
  <1> HIDE DEF B
  <1>3. \A n \in Nat : n \in B
    BY <1>1, <1>2, SetInduction
  <1>4. Len(s) \in B /\ Len(s) \in Nat /\ SubSeq(s, 1, Len(s)) = s
    BY <1>3
  <1>5. QED
    BY <1>4 DEF B, Within

\* What is kept stays in order: the pairs of a relation are a set here.
Ascends(s, R) == \A i, j \in 1..Len(s) : i < j => <<s[i], s[j]>> \in R

LEMMA WithinAscends ==
    ASSUME NEW T, NEW s \in Seq(T), NEW S, NEW R, Ascends(s, R)
    PROVE  Ascends(Within(s, S), R)
  <1> DEFINE w(n) == WithinFirst(s, S)[n]
             B == {n \in Nat : n <= Len(s) => Comes(w(n), s, n) /\ Ascends(w(n), R)}
  <1>1. 0 \in B
    BY WithinFirstNone DEF Comes, Ascends
  <1>2. ASSUME NEW n \in Nat, n \in B
        PROVE  n + 1 \in B
    <2> SUFFICES ASSUME n + 1 <= Len(s)
                 PROVE  Comes(w(n + 1), s, n + 1) /\ Ascends(w(n + 1), R)
      OBVIOUS
    <2>1. w(n) \in Seq(S) /\ w(n + 1) = Joined(w(n), s[n + 1], S)
      BY WithinFirstType, WithinFirstNext
    <2>2. Comes(w(n), s, n) /\ Ascends(w(n), R)
      BY <1>2
    <2> HIDE DEF w
    <2> DEFINE k == w(n)
               x == s[n + 1]
    <2>3. CASE x \notin S
      BY <2>1, <2>2, <2>3 DEF Joined, Comes
    <2>4. CASE x \in S
      <3>1. k \in Seq(S) /\ w(n + 1) = Append(k, x) /\ Comes(k, s, n) /\ Ascends(k, R)
        BY <2>1, <2>2, <2>4 DEF Joined
      <3> HIDE DEF k
      <3> DEFINE a == Append(k, x)
      <3>2. /\ Len(a) = Len(k) + 1 /\ Len(k) \in Nat /\ a[Len(k) + 1] = x
            /\ \A i \in 1..Len(k) : a[i] = k[i]
        BY <3>1, <2>4
      <3> HIDE DEF a
      <3>3. Comes(a, s, n + 1)
        BY <3>1, <3>2 DEF Comes
      <3>4. \A i \in 1..Len(k) : <<k[i], x>> \in R
        <4> TAKE i \in 1..Len(k)
        <4>1. PICK j \in 1..n : k[i] = s[j]
          BY <3>1 DEF Comes
        <4>2. j \in 1..Len(s) /\ n + 1 \in 1..Len(s) /\ j < n + 1
          OBVIOUS
        <4>3. QED
          BY <4>1, <4>2 DEF Ascends
      <3>5. \A i, j \in 1..Len(a) : i < j => <<a[i], a[j]>> \in R
        <4> SUFFICES ASSUME NEW i \in 1..Len(a), NEW j \in 1..Len(a), i < j
                     PROVE  <<a[i], a[j]>> \in R
          OBVIOUS
        <4>1. i \in 1..Len(k) /\ (j \in 1..Len(k) \/ j = Len(k) + 1)
          BY <3>2
        <4>2. QED
          BY <3>1, <3>2, <3>4, <4>1 DEF Ascends
      <3>6. QED
        BY <3>1, <3>3, <3>5 DEF a, Ascends
    <2>5. QED
      BY <2>3, <2>4
  <1> HIDE DEF B
  <1>3. \A n \in Nat : n \in B
    BY <1>1, <1>2, SetInduction
  <1>4. Len(s) \in B /\ Len(s) \in Nat
    BY <1>3
  <1>5. QED
    BY <1>4 DEF B, Within
=============================================================================
