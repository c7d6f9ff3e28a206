------------------------- MODULE SubsequencesProofs -------------------------
(***************************************************************************)
(* What Among returns, for all sequences and sets: its elements are those  *)
(* of the sequence that lie in the set, in their order.                    *)
(***************************************************************************)
EXTENDS Subsequences, SequencesExt, FiniteSetTheorems, FunctionTheorems, WellFoundedInduction, TLAPS

(* Numbers: the library's induction theorem takes its predicate as an       *)
(* operator, which no prover here can instantiate; a set can stand for it.   *)

\* Every set of numbers that is not empty has a least one.
LEMMA LeastNatural ==
  ASSUME NEW T \in SUBSET Nat, T # {}
  PROVE  \E n \in T : \A m \in T : n <= m
<1> DEFINE R == OpToRel(<, Nat)
<1>1. IsWellFoundedOn(R, Nat)
  BY NatLessThanWellFounded
<1>2. \E n \in T : \A m \in T : ~(<<m, n>> \in R)
  <2> HIDE DEF R
  <2> QED BY <1>1, WFMin
<1>3. \A m, n \in Nat : <<m, n>> \in R <=> m < n
  BY DEF OpToRel
<1> HIDE DEF R
<1>4. PICK n \in T : \A m \in T : ~(<<m, n>> \in R)
  BY <1>2
<1>5. ASSUME NEW m \in T PROVE n <= m
  <2>1. ~(<<m, n>> \in R)
    BY <1>4
  <2>2. m \in Nat /\ n \in Nat
    OBVIOUS
  <2>3. ~(m < n)
    BY <1>3, <2>1, <2>2
  <2>4. QED BY <2>2, <2>3
<1>6. QED BY <1>5

\* A set of numbers that has 0 and with each number the next has them all.
LEMMA Induction ==
  ASSUME NEW P, 0 \in P, \A n \in Nat : n \in P => n + 1 \in P
  PROVE  \A n \in Nat : n \in P
<1> SUFFICES ASSUME Nat \ P # {} PROVE FALSE
  OBVIOUS
<1>1. PICK n \in Nat \ P : \A m \in Nat \ P : n <= m
  <2>1. Nat \ P \in SUBSET Nat
    OBVIOUS
  <2> QED BY <2>1, LeastNatural
<1>2. n # 0 /\ n - 1 \in Nat /\ ~(n <= n - 1)
  BY <1>1
<1>3. n - 1 \in P
  BY <1>1, <1>2
<1>4. (n - 1) + 1 \in P
  BY <1>2, <1>3
<1>5. QED BY <1>1, <1>2, <1>4

-----------------------------------------------------------------------------
\* Where the elements of a sequence lie.
LEMMA RangeWithin ==
  ASSUME NEW T, NEW s \in Seq(T), NEW U, \A j \in 1..Len(s) : s[j] \in U
  PROVE  Range(s) \subseteq U
BY DEF Range

\* One more element.
LEMMA AppendOne ==
  ASSUME NEW T, NEW s \in Seq(T), NEW e \in T
  PROVE  /\ Append(s, e) \in Seq(T) /\ Len(Append(s, e)) = Len(s) + 1
         /\ Append(s, e)[Len(s) + 1] = e
         /\ \A j \in 1..Len(s) : Append(s, e)[j] = s[j]
         /\ Range(Append(s, e)) = Range(s) \cup {e}
         /\ IsInjective(s) /\ e \notin Range(s) => IsInjective(Append(s, e))
<1> DEFINE a == Append(s, e)
<1>1. /\ a \in Seq(T) /\ Len(a) = Len(s) + 1 /\ a[Len(s) + 1] = e
      /\ \A j \in 1..Len(s) : a[j] = s[j]
      /\ Len(s) \in Nat /\ DOMAIN s = 1..Len(s) /\ DOMAIN a = 1..(Len(s) + 1)
  OBVIOUS
<1> HIDE DEF a
<1>2. Range(a) \subseteq Range(s) \cup {e}
  <2>1. ASSUME NEW j \in 1..Len(a) PROVE a[j] \in Range(s) \cup {e}
    <3>1. CASE j = Len(s) + 1
      BY <1>1, <3>1
    <3>2. CASE j # Len(s) + 1
      BY <1>1, <3>2 DEF Range
    <3>3. QED BY <3>1, <3>2
  <2>2. QED BY <1>1, <2>1, RangeWithin
<1>3. Range(s) \subseteq Range(a)
  <2>1. ASSUME NEW j \in 1..Len(s) PROVE s[j] \in Range(a)
    <3>1. j \in DOMAIN a /\ a[j] = s[j]
      BY <1>1
    <3>2. QED BY <3>1 DEF Range
  <2>2. QED BY <2>1, RangeWithin
<1>4. e \in Range(a)
  BY <1>1 DEF Range
<1>5. ASSUME IsInjective(s), e \notin Range(s) PROVE IsInjective(a)
  <2>1. ASSUME NEW i \in 1..Len(s) PROVE a[i] # e
    BY <1>1, <1>5 DEF Range
  <2>2. ASSUME NEW i \in 1..(Len(s) + 1), NEW j \in 1..(Len(s) + 1), a[i] = a[j] PROVE i = j
    <3>1. CASE i = Len(s) + 1 \/ j = Len(s) + 1
      BY <1>1, <2>1, <2>2, <3>1
    <3>2. CASE i # Len(s) + 1 /\ j # Len(s) + 1
      <4>1. i \in 1..Len(s) /\ j \in 1..Len(s)
        BY <1>1, <3>2
      <4>2. s[i] = s[j]
        BY <1>1, <2>2, <4>1
      <4>3. QED BY <1>1, <1>5, <4>1, <4>2 DEF IsInjective
    <3>3. QED BY <3>1, <3>2
  <2>3. QED BY <1>1, <2>2 DEF IsInjective
<1>6. QED BY <1>1, <1>2, <1>3, <1>4, <1>5 DEF a

-----------------------------------------------------------------------------
(* Among *)

TakenStep(f, s, S, n) ==
  IF n = 0 THEN <<>>
  ELSE IF s[n] \in S THEN Append(f[n - 1], s[n]) ELSE f[n - 1]

\* The recursive function in Among exists: the partial results for each prefix.
LEMMA Taken ==
  ASSUME NEW T, NEW s \in Seq(T), NEW S
  PROVE  \E f : f = [n \in 0..Len(s) |-> TakenStep(f, s, S, n)]
<1> DEFINE Upto(n, f) == f = [m \in 0..n |-> TakenStep(f, s, S, m)]
           P == {n \in Nat : \E f : Upto(n, f)}
<1>1. 0 \in P
  <2>1. Upto(0, [m \in 0..0 |-> <<>>])
    BY DEF TakenStep
  <2> QED BY <2>1
<1>2. ASSUME NEW n \in Nat, n \in P PROVE n + 1 \in P
  <2>1. PICK f : Upto(n, f)
    BY <1>2
  <2> DEFINE g == [m \in 0..(n + 1) |-> IF m <= n THEN f[m] ELSE TakenStep(f, s, S, n + 1)]
  <2>2. ASSUME NEW m \in 0..(n + 1) PROVE g[m] = TakenStep(g, s, S, m)
    <3>1. CASE m = 0
      BY <2>1, <3>1 DEF TakenStep
    <3>2. CASE m # 0
      <4>1. g[m - 1] = f[m - 1]
        BY <3>2
      <4>2. g[m] = TakenStep(f, s, S, m)
        <5>1. CASE m = n + 1
          BY <5>1
        <5>2. CASE m # n + 1
          <6>1. m \in 0..n
            BY <5>2
          <6>2. f[m] = TakenStep(f, s, S, m)
            BY <2>1, <6>1
          <6> QED BY <6>1, <6>2
        <5> QED BY <5>1, <5>2
      <4> QED BY <3>2, <4>1, <4>2 DEF TakenStep
    <3> QED BY <3>1, <3>2
  <2>3. Upto(n + 1, g)
    BY <2>2
  <2> HIDE DEF g
  <2> QED BY <2>3
<1>3. \A n \in Nat : n \in P
  <2> HIDE DEF P
  <2> QED BY <1>1, <1>2, Induction
<1>4. QED
  BY <1>3

\* Among takes the elements one by one.
LEMMA AmongByPrefix ==
  ASSUME NEW T, NEW s \in Seq(T), NEW S
  PROVE  \E f : /\ f[0] = <<>>
                /\ \A n \in 0..(Len(s) - 1) :
                     f[n + 1] = IF s[n + 1] \in S THEN Append(f[n], s[n + 1]) ELSE f[n]
                /\ Among(s, S) = f[Len(s)]
<1> DEFINE taken == CHOOSE f : f = [n \in 0..Len(s) |-> TakenStep(f, s, S, n)]
<1>1. taken = [n \in 0..Len(s) |-> TakenStep(taken, s, S, n)]
  BY Taken
<1>2. Among(s, S) = taken[Len(s)]
  BY DEF Among, TakenStep
<1> HIDE DEF taken
<1>3. taken[0] = <<>>
  BY <1>1 DEF TakenStep
<1>4. ASSUME NEW n \in 0..(Len(s) - 1)
      PROVE  taken[n + 1] = IF s[n + 1] \in S THEN Append(taken[n], s[n + 1]) ELSE taken[n]
  <2>1. n + 1 \in 0..Len(s) /\ n + 1 # 0 /\ (n + 1) - 1 = n
    OBVIOUS
  <2>2. taken[n + 1] = TakenStep(taken, s, S, n + 1)
    BY <1>1, <2>1
  <2>3. QED BY <2>1, <2>2 DEF TakenStep
<1>5. QED BY <1>2, <1>3, <1>4

\* Every prefix of s, and what has been taken from it.
Picks(r, s, S, n) ==
  /\ r \in Seq(Range(s)) /\ Len(r) <= n
  /\ \A j \in 1..Len(r) :
       \E i \in 1..n : r[j] = s[i] /\ s[i] \in S /\ Len(r) - j <= n - i /\ j <= i
  /\ \A i \in 1..n : s[i] \in S => \E j \in 1..Len(r) : r[j] = s[i]
  /\ \A j, k \in 1..Len(r) : j < k =>
       \E i, l \in 1..n : i < l /\ r[j] = s[i] /\ r[k] = s[l]

LEMMA PicksOne ==
  ASSUME NEW T, NEW s \in Seq(T), NEW S, NEW n \in 0..(Len(s) - 1), NEW r, Picks(r, s, S, n)
  PROVE  Picks(IF s[n + 1] \in S THEN Append(r, s[n + 1]) ELSE r, s, S, n + 1)
<1> DEFINE q == Append(r, s[n + 1])
<1>1. n + 1 \in 1..Len(s) /\ s[n + 1] \in Range(s) /\ n \in Nat
  BY DEF Range
<1>2. r \in Seq(Range(s)) /\ Len(r) \in Nat /\ Len(r) <= n
  BY DEF Picks
<1>3. CASE s[n + 1] \notin S
  BY <1>1, <1>2, <1>3 DEF Picks
<1>4. CASE s[n + 1] \in S
  <2>1. /\ q \in Seq(Range(s)) /\ Len(q) = Len(r) + 1
        /\ \A j \in 1..Len(r) : q[j] = r[j]
        /\ q[Len(r) + 1] = s[n + 1]
    BY <1>1, <1>2
  <2> HIDE DEF q
  <2>2. ASSUME NEW j \in 1..Len(q)
        PROVE  \E i \in 1..(n + 1) : q[j] = s[i] /\ s[i] \in S /\ Len(q) - j <= (n + 1) - i /\ j <= i
    <3>1. CASE j = Len(r) + 1
      BY <1>1, <1>2, <1>4, <2>1, <3>1
    <3>2. CASE j # Len(r) + 1
      <4>1. j \in 1..Len(r)
        BY <1>2, <2>1, <3>2
      <4>2. PICK i \in 1..n : r[j] = s[i] /\ s[i] \in S /\ Len(r) - j <= n - i /\ j <= i
        BY <4>1 DEF Picks
      <4>3. QED BY <1>1, <1>2, <2>1, <4>1, <4>2
    <3>3. QED BY <3>1, <3>2
  <2>3. ASSUME NEW i \in 1..(n + 1), s[i] \in S PROVE \E j \in 1..Len(q) : q[j] = s[i]
    <3>1. CASE i = n + 1
      BY <1>2, <2>1, <3>1
    <3>2. CASE i # n + 1
      <4>1. i \in 1..n
        BY <1>1, <3>2
      <4>2. PICK j \in 1..Len(r) : r[j] = s[i]
        BY <2>3, <4>1 DEF Picks
      <4>3. QED BY <1>2, <2>1, <4>2
    <3>3. QED BY <3>1, <3>2
  <2>4. ASSUME NEW j \in 1..Len(q), NEW k \in 1..Len(q), j < k
        PROVE  \E i, l \in 1..(n + 1) : i < l /\ q[j] = s[i] /\ q[k] = s[l]
    <3>1. j \in 1..Len(r)
      BY <1>2, <2>1, <2>4
    <3>2. CASE k = Len(r) + 1
      <4>1. PICK i \in 1..n : r[j] = s[i]
        BY <3>1 DEF Picks
      <4>2. QED BY <1>1, <2>1, <3>1, <3>2, <4>1
    <3>3. CASE k # Len(r) + 1
      <4>1. k \in 1..Len(r)
        BY <1>2, <2>1, <3>3
      <4>2. PICK i \in 1..n, l \in 1..n : i < l /\ r[j] = s[i] /\ r[k] = s[l]
        BY <2>4, <3>1, <4>1 DEF Picks
      <4>3. QED BY <1>1, <2>1, <3>1, <4>1, <4>2
    <3>4. QED BY <3>2, <3>3
  <2>5. Picks(q, s, S, n + 1)
    BY <1>1, <1>2, <2>1, <2>2, <2>3, <2>4 DEF Picks
  <2>6. QED BY <1>4, <2>5 DEF q
<1>5. QED BY <1>3, <1>4

LEMMA AmongPicks ==
  ASSUME NEW T, NEW s \in Seq(T), NEW S
  PROVE  Picks(Among(s, S), s, S, Len(s))
<1>1. PICK f : /\ f[0] = <<>>
               /\ \A n \in 0..(Len(s) - 1) :
                    f[n + 1] = IF s[n + 1] \in S THEN Append(f[n], s[n + 1]) ELSE f[n]
               /\ Among(s, S) = f[Len(s)]
  BY AmongByPrefix
<1> DEFINE P == {n \in Nat : n <= Len(s) => Picks(f[n], s, S, n)}
<1>2. 0 \in P
  <2>1. Picks(<<>>, s, S, 0)
    BY DEF Picks
  <2>2. QED BY <1>1, <2>1
<1>3. ASSUME NEW n \in Nat, n \in P PROVE n + 1 \in P
  <2>1. SUFFICES ASSUME n + 1 <= Len(s) PROVE Picks(f[n + 1], s, S, n + 1)
    OBVIOUS
  <2>2. n \in 0..(Len(s) - 1) /\ n <= Len(s)
    BY <2>1
  <2>3. Picks(f[n], s, S, n)
    BY <1>3, <2>2
  <2>4. Picks(IF s[n + 1] \in S THEN Append(f[n], s[n + 1]) ELSE f[n], s, S, n + 1)
    BY <2>2, <2>3, PicksOne
  <2>5. QED BY <1>1, <2>2, <2>4
<1>4. \A n \in Nat : n \in P
  <2> HIDE DEF P
  <2> QED BY <1>2, <1>3, Induction
<1>5. Len(s) \in P
  BY <1>4
<1>6. QED BY <1>1, <1>5

\* The elements of Among(s, S) are those of s that lie in S.
LEMMA AmongRange ==
  ASSUME NEW T, NEW s \in Seq(T), NEW S
  PROVE  /\ Among(s, S) \in Seq(T) /\ Len(Among(s, S)) <= Len(s)
         /\ Range(Among(s, S)) = Range(s) \cap S
<1> DEFINE r == Among(s, S)
<1>1. Picks(r, s, S, Len(s))
  BY AmongPicks
<1> HIDE DEF r
<1>2. r \in Seq(Range(s)) /\ Len(r) <= Len(s) /\ DOMAIN r = 1..Len(r) /\ DOMAIN s = 1..Len(s)
  BY <1>1 DEF Picks
<1>3. r \in Seq(T)
  <2>1. Range(s) \subseteq T
    BY DEF Range
  <2>2. QED BY <1>2, <2>1
<1>4. Range(r) = Range(s) \cap S
  <2>1. ASSUME NEW j \in 1..Len(r) PROVE r[j] \in Range(s) \cap S
    <3>1. PICK i \in 1..Len(s) : r[j] = s[i] /\ s[i] \in S
      BY <1>1 DEF Picks
    <3>2. QED BY <1>2, <3>1 DEF Range
  <2>2. ASSUME NEW i \in 1..Len(s), s[i] \in S PROVE s[i] \in Range(r)
    <3>1. PICK j \in 1..Len(r) : r[j] = s[i]
      BY <1>1, <2>2 DEF Picks
    <3>2. QED BY <1>2, <3>1 DEF Range
  <2>3. QED BY <1>2, <2>1, <2>2 DEF Range
<1>5. QED BY <1>2, <1>3, <1>4 DEF r

\* Their order is that of s: no element appears twice that did not before.
LEMMA AmongInjective ==
  ASSUME NEW T, NEW s \in Seq(T), NEW S, IsInjective(s)
  PROVE  IsInjective(Among(s, S))
<1> DEFINE r == Among(s, S)
<1>1. Picks(r, s, S, Len(s))
  BY AmongPicks
<1> HIDE DEF r
<1>2. r \in Seq(Range(s)) /\ DOMAIN r = 1..Len(r) /\ DOMAIN s = 1..Len(s) /\ Len(r) \in Nat
  BY <1>1 DEF Picks
<1>3. ASSUME NEW j \in 1..Len(r), NEW k \in 1..Len(r), j < k PROVE r[j] # r[k]
  <2>1. PICK i \in 1..Len(s), l \in 1..Len(s) : i < l /\ r[j] = s[i] /\ r[k] = s[l]
    BY <1>1, <1>3 DEF Picks
  <2>2. QED BY <1>2, <2>1 DEF IsInjective
<1>4. ASSUME NEW j \in 1..Len(r), NEW k \in 1..Len(r), r[j] = r[k] PROVE j = k
  <2>1. j \in Int /\ k \in Int /\ ~(j < k) /\ ~(k < j)
    BY <1>2, <1>3, <1>4
  <2>2. QED BY <2>1
<1>5. QED BY <1>2, <1>4 DEF IsInjective, r

\* An element is followed by no more elements than it was in s.
LEMMA AmongPosition ==
  ASSUME NEW T, NEW s \in Seq(T), NEW S, NEW j \in 1..Len(Among(s, S))
  PROVE  \E i \in 1..Len(s) : /\ Among(s, S)[j] = s[i] /\ s[i] \in S /\ j <= i
                              /\ Len(Among(s, S)) - j <= Len(s) - i
BY AmongPicks DEF Picks

\* The last element of a sequence is the last one among those of its set.
LEMMA AmongLast ==
  ASSUME NEW T, NEW s \in Seq(T), NEW S, IsInjective(s), s # <<>>,
         NEW j \in 1..Len(Among(s, S)), Among(s, S)[j] = s[Len(s)]
  PROVE  j = Len(Among(s, S))
<1>1. PICK i \in 1..Len(s) : Among(s, S)[j] = s[i] /\ Len(Among(s, S)) - j <= Len(s) - i
  BY AmongPosition
<1>2. Len(s) \in 1..Len(s) /\ Len(Among(s, S)) \in Nat
  BY AmongRange
<1>3. i = Len(s)
  <2>1. i \in DOMAIN s /\ Len(s) \in DOMAIN s /\ s[i] = s[Len(s)]
    BY <1>1, <1>2
  <2>2. QED BY <2>1 DEF IsInjective
<1>4. QED BY <1>1, <1>2, <1>3

\* Of two elements the one that comes first is the one that came first in s.
LEMMA AmongOrder ==
  ASSUME NEW T, NEW s \in Seq(T), NEW S
  PROVE  \A j, k \in 1..Len(Among(s, S)) : j < k =>
           \E i, l \in 1..Len(s) : i < l /\ Among(s, S)[j] = s[i] /\ Among(s, S)[k] = s[l]
BY AmongPicks DEF Picks

\* All of a sequence whose elements lie in the set.
LEMMA AmongAll ==
  ASSUME NEW T, NEW s \in Seq(T), NEW S, \A i \in 1..Len(s) : s[i] \in S
  PROVE  Among(s, S) = s
<1>1. PICK f : /\ f[0] = <<>>
               /\ \A n \in 0..(Len(s) - 1) :
                    f[n + 1] = IF s[n + 1] \in S THEN Append(f[n], s[n + 1]) ELSE f[n]
               /\ Among(s, S) = f[Len(s)]
  BY AmongByPrefix
<1>2. Len(s) \in Nat /\ s = [i \in 1..Len(s) |-> s[i]]
  OBVIOUS
<1> DEFINE First(n) == [i \in 1..n |-> s[i]]
           P == {n \in Nat : n <= Len(s) => f[n] = First(n)}
<1>3. 0 \in P
  BY <1>1
<1>4. ASSUME NEW n \in Nat, n \in P PROVE n + 1 \in P
  <2>1. SUFFICES ASSUME n + 1 <= Len(s) PROVE f[n + 1] = First(n + 1)
    OBVIOUS
  <2>2. n \in 0..(Len(s) - 1) /\ n + 1 \in 1..Len(s) /\ n <= Len(s)
    BY <1>2, <2>1
  <2>3. f[n + 1] = Append(First(n), s[n + 1])
    BY <1>1, <1>4, <2>2
  <2>4. First(n) \in Seq(T) /\ Len(First(n)) = n /\ s[n + 1] \in T
    BY <1>2, <2>2
  <2>5. Append(First(n), s[n + 1]) = First(n + 1)
    BY <2>2, <2>4
  <2> QED BY <2>3, <2>5
<1>5. \A n \in Nat : n \in P
  <2> HIDE DEF P
  <2> QED BY <1>3, <1>4, Induction
<1>6. Len(s) \in P
  BY <1>2, <1>5
<1> QED BY <1>1, <1>2, <1>6

-----------------------------------------------------------------------------
(* Sequences joined, and their ends                                          *)

\* What two sequences hold together.
LEMMA Joined ==
  ASSUME NEW T, NEW s \in Seq(T), NEW t \in Seq(T)
  PROVE  /\ s \o t \in Seq(T) /\ Len(s \o t) = Len(s) + Len(t)
         /\ Range(s \o t) = Range(s) \cup Range(t)
         /\ IsInjective(s) /\ IsInjective(t) /\ Range(s) \cap Range(t) = {} => IsInjective(s \o t)
         /\ t # <<>> => s \o t # <<>>
<1> DEFINE u == s \o t
<1>1. /\ u \in Seq(T) /\ Len(u) = Len(s) + Len(t) /\ Len(s) \in Nat /\ Len(t) \in Nat
      /\ DOMAIN u = 1..Len(u) /\ DOMAIN s = 1..Len(s) /\ DOMAIN t = 1..Len(t)
      /\ \A i \in DOMAIN u : u[i] = IF i <= Len(s) THEN s[i] ELSE t[i - Len(s)]
  OBVIOUS
<1> HIDE DEF u
<1>2. \A i \in DOMAIN s : i \in DOMAIN u /\ u[i] = s[i]
  BY <1>1
<1>3. \A i \in DOMAIN t : i + Len(s) \in DOMAIN u /\ u[i + Len(s)] = t[i]
  BY <1>1
<1>4. \A i \in DOMAIN u : (i \in DOMAIN s /\ u[i] = s[i])
                          \/ (i - Len(s) \in DOMAIN t /\ u[i] = t[i - Len(s)])
  BY <1>1
<1>5. Range(u) = Range(s) \cup Range(t)
  BY <1>2, <1>3, <1>4 DEF Range
<1>6. ASSUME IsInjective(s), IsInjective(t), Range(s) \cap Range(t) = {} PROVE IsInjective(u)
  <2> SUFFICES ASSUME NEW i \in DOMAIN u, NEW j \in DOMAIN u, u[i] = u[j] PROVE i = j
    BY DEF IsInjective
  <2>1. i \in Int /\ j \in Int /\ Len(s) \in Int
    BY <1>1
  <2>2. CASE i \in DOMAIN s /\ u[i] = s[i] /\ j \in DOMAIN s /\ u[j] = s[j]
    BY <1>6, <2>2 DEF IsInjective
  <2>3. CASE i - Len(s) \in DOMAIN t /\ u[i] = t[i - Len(s)] /\ j - Len(s) \in DOMAIN t /\ u[j] = t[j - Len(s)]
    <3>1. i - Len(s) = j - Len(s)
      BY <1>6, <2>3 DEF IsInjective
    <3> QED BY <2>1, <3>1
  <2>4. ~(i \in DOMAIN s /\ u[i] = s[i] /\ j - Len(s) \in DOMAIN t /\ u[j] = t[j - Len(s)])
    BY <1>6 DEF Range
  <2>5. ~(j \in DOMAIN s /\ u[j] = s[j] /\ i - Len(s) \in DOMAIN t /\ u[i] = t[i - Len(s)])
    BY <1>6 DEF Range
  <2> QED BY <1>4, <2>2, <2>3, <2>4, <2>5
<1>7. t # <<>> => u # <<>>
  BY <1>1
<1> QED BY <1>1, <1>5, <1>6, <1>7 DEF u

\* A sequence is the beginning of what it is extended to.
LEMMA PrefixIs ==
  ASSUME NEW T, NEW s \in Seq(T), NEW t \in Seq(T), NEW u \in Seq(T)
  PROVE  IsPrefix(s, s) /\ IsPrefix(s, s \o t \o u)
<1> DEFINE v == s \o t
           w == v \o u
<1>1. v \in Seq(T) /\ Len(v) \in Nat /\ Len(s) <= Len(v) /\ \A i \in 1..Len(s) : v[i] = s[i]
  OBVIOUS
<1> HIDE DEF v
<1>2. Len(w) \in Nat /\ Len(v) <= Len(w) /\ \A i \in 1..Len(v) : w[i] = v[i]
  BY <1>1
<1> HIDE DEF w
<1>3. Len(s) \in Nat
  OBVIOUS
<1>4. Len(s) <= Len(w) /\ \A i \in 1..Len(s) : w[i] = s[i]
  BY <1>1, <1>2, <1>3
<1>5. SubSeq(s, 1, Len(s)) = SubSeq(w, 1, Len(s))
  BY <1>4
<1> QED BY <1>3, <1>4, <1>5 DEF IsPrefix, v, w


\* One sequence is the end of another.
LEMMA EndIs ==
  ASSUME NEW T, NEW s \in Seq(T), NEW t \in Seq(T)
  PROVE  IsSuffix(s, t) <=> Len(s) <= Len(t) /\ \A i \in 1..Len(s) : s[i] = t[Len(t) - Len(s) + i]
<1> DEFINE m == Len(s)
           n == Len(t)
           r == Reverse(s)
           q == Reverse(t)
<1>1. m \in Nat /\ n \in Nat /\ s \in [1..m -> T] /\ t \in [1..n -> T]
  OBVIOUS
<1>2. r = [i \in 1..m |-> s[(m - i) + 1]] /\ q = [i \in 1..n |-> t[(n - i) + 1]]
  BY DEF Reverse
<1> HIDE DEF m, n, r, q
<1>3. r \in Seq(T) /\ Len(r) = m /\ q \in Seq(T) /\ Len(q) = n
  <2>1. \A i \in 1..m : (m - i) + 1 \in 1..m
    BY <1>1
  <2>2. \A i \in 1..n : (n - i) + 1 \in 1..n
    BY <1>1
  <2>3. r \in [1..m -> T] /\ q \in [1..n -> T]
    BY <1>1, <1>2, <2>1, <2>2
  <2> QED BY <1>1, <2>3
<1>4. IsSuffix(s, t) <=> m <= n /\ SubSeq(r, 1, m) = SubSeq(q, 1, m)
  BY <1>3 DEF IsSuffix, IsPrefix, r, q
<1>5. ASSUME m <= n
      PROVE  SubSeq(r, 1, m) = SubSeq(q, 1, m) <=> \A i \in 1..m : r[i] = q[i]
  <2>1. SubSeq(r, 1, m) = [i \in 1..m |-> r[i]] /\ SubSeq(q, 1, m) = [i \in 1..m |-> q[i]]
    BY <1>1, <1>3, <1>5
  <2> QED BY <2>1
<1>6. ASSUME m <= n
      PROVE  (\A i \in 1..m : r[i] = q[i]) <=> \A i \in 1..m : s[i] = t[n - m + i]
  <2>1. \A i \in 1..m : /\ r[i] = s[(m - i) + 1] /\ q[i] = t[(n - i) + 1]
                        /\ (m - i) + 1 \in 1..m /\ (m - ((m - i) + 1)) + 1 = i
                        /\ n - m + ((m - i) + 1) = (n - i) + 1
                        /\ n - m + i = (n - ((m - i) + 1)) + 1
    BY <1>1, <1>2, <1>6
  <2>2. ASSUME \A i \in 1..m : r[i] = q[i], NEW i \in 1..m PROVE s[i] = t[n - m + i]
    <3> DEFINE j == (m - i) + 1
    <3>1. j \in 1..m
      BY <2>1
    <3>2. r[j] = q[j] /\ r[j] = s[(m - j) + 1] /\ q[j] = t[(n - j) + 1]
      BY <2>1, <2>2, <3>1
    <3>3. (m - j) + 1 = i /\ (n - j) + 1 = n - m + i
      BY <2>1
    <3> HIDE DEF j
    <3> QED BY <3>2, <3>3
  <2>3. ASSUME \A i \in 1..m : s[i] = t[n - m + i], NEW i \in 1..m PROVE r[i] = q[i]
    <3> DEFINE j == (m - i) + 1
    <3>1. j \in 1..m /\ r[i] = s[j] /\ q[i] = t[(n - i) + 1] /\ n - m + j = (n - i) + 1
      BY <2>1
    <3> HIDE DEF j
    <3> QED BY <2>3, <3>1
  <2> QED BY <2>2, <2>3
<1> QED BY <1>4, <1>5, <1>6 DEF m, n

LEMMA EndJoined ==
  ASSUME NEW T, NEW s \in Seq(T), NEW t \in Seq(T), NEW u \in Seq(T), IsSuffix(s, t)
  PROVE  IsSuffix(s \o u, t \o u)
<1> DEFINE v == s \o u
           w == t \o u
<1>1. /\ v \in Seq(T) /\ Len(v) = Len(s) + Len(u) /\ w \in Seq(T) /\ Len(w) = Len(t) + Len(u)
      /\ \A i \in 1..Len(v) : v[i] = IF i <= Len(s) THEN s[i] ELSE u[i - Len(s)]
      /\ \A i \in 1..Len(w) : w[i] = IF i <= Len(t) THEN t[i] ELSE u[i - Len(t)]
      /\ Len(s) \in Nat /\ Len(t) \in Nat /\ Len(u) \in Nat
  OBVIOUS
<1> HIDE DEF v, w
<1>2. Len(s) <= Len(t) /\ \A i \in 1..Len(s) : s[i] = t[Len(t) - Len(s) + i]
  BY EndIs
<1>3. ASSUME NEW i \in 1..Len(v) PROVE v[i] = w[Len(w) - Len(v) + i]
  <2> DEFINE j == Len(w) - Len(v) + i
  <2>1. j \in 1..Len(w) /\ j = Len(t) - Len(s) + i
    BY <1>1, <1>2
  <2> HIDE DEF j
  <2>2. CASE i <= Len(s)
    <3>1. i \in 1..Len(s) /\ j <= Len(t)
      BY <1>1, <2>1, <2>2
    <3>2. v[i] = s[i] /\ w[j] = t[j] /\ s[i] = t[j]
      BY <1>1, <1>2, <2>1, <2>2, <3>1
    <3> QED BY <3>2 DEF j
  <2>3. CASE ~(i <= Len(s))
    <3>1. ~(j <= Len(t)) /\ j - Len(t) = i - Len(s)
      BY <1>1, <2>1, <2>3
    <3> QED BY <1>1, <2>1, <2>3, <3>1 DEF j
  <2> QED BY <2>2, <2>3
<1>4. Len(v) <= Len(w)
  BY <1>1, <1>2
<1>5. IsSuffix(v, w)
  BY <1>1, <1>3, <1>4, EndIs
<1> QED BY <1>5 DEF v, w

LEMMA EndSelf ==
  ASSUME NEW T, NEW t \in Seq(T)
  PROVE  IsSuffix(t, t) /\ IsSuffix(<<>>, t)
<1>1. <<>> \in Seq(T) /\ Len(<<>>) = 0 /\ Len(t) \in Nat
  OBVIOUS
<1>2. \A i \in 1..Len(t) : t[i] = t[Len(t) - Len(t) + i]
  <2>1. \A i \in 1..Len(t) : Len(t) - Len(t) + i = i
    BY <1>1
  <2> QED BY <2>1
<1>3. IsSuffix(t, t)
  BY <1>1, <1>2, EndIs
<1>4. IsSuffix(<<>>, t)
  <2> DEFINE e == <<>>
  <2>1. e \in Seq(T) /\ Len(e) = 0
    BY <1>1
  <2> HIDE DEF e
  <2>2. Len(e) <= Len(t) /\ \A i \in 1..Len(e) : e[i] = t[Len(t) - Len(e) + i]
    BY <1>1, <2>1
  <2>3. IsSuffix(e, t)
    BY <2>1, <2>2, EndIs
  <2> QED BY <2>3 DEF e
<1> QED BY <1>3, <1>4

-----------------------------------------------------------------------------
(* Lines: <<who, lock>>, in which everyone stands once, oldest first.  The   *)
(* first of those who want a lock holds it.                                  *)

Line(q) ==
  q \in Seq(Range(q)) /\ \A i, j \in DOMAIN q : q[i][1] = q[j][1] => i = j

FirstOf(q, c) ==
  \E i \in DOMAIN q : q[i][1] = c /\ \A j \in 1..(i - 1) : q[j][2] # q[i][2]

\* One more joins.
LEMMA LineJoined ==
  ASSUME NEW q, Line(q), NEW c, NEW l, \A e \in Range(q) : e[1] # c
  PROVE  LET r == Append(q, <<c, l>>)
         IN  /\ Line(r) /\ Range(r) = Range(q) \cup {<<c, l>>}
             /\ \A d : FirstOf(q, d) => FirstOf(r, d)
<1> DEFINE e == <<c, l>>
           U == Range(q) \cup {e}
           r == Append(q, e)
<1>1. q \in Seq(U) /\ e \in U
  BY DEF Line
<1>2. /\ r \in Seq(U) /\ Len(r) = Len(q) + 1 /\ r[Len(q) + 1] = e /\ \A j \in 1..Len(q) : r[j] = q[j]
      /\ Range(r) = Range(q) \cup {e}
  BY <1>1, AppendOne
<1>3. DOMAIN q = 1..Len(q) /\ Len(q) \in Nat /\ \A j \in 1..Len(q) : q[j] \in Range(q)
  BY <1>1 DEF Range
<1>4. e[1] = c
  OBVIOUS
<1> HIDE DEF r, U, e
<1>5. DOMAIN r = 1..(Len(q) + 1) /\ r \in Seq(Range(r))
  BY <1>1, <1>2 DEF U
<1>6. ASSUME NEW i \in DOMAIN r, NEW j \in DOMAIN r, r[i][1] = r[j][1] PROVE i = j
  <2>1. CASE i \in 1..Len(q) /\ j \in 1..Len(q)
    BY <1>2, <1>3, <1>6, <2>1 DEF Line
  <2>2. CASE i = Len(q) + 1 /\ j \in 1..Len(q)
    BY <1>2, <1>3, <1>4, <1>6, <2>2
  <2>3. CASE j = Len(q) + 1 /\ i \in 1..Len(q)
    BY <1>2, <1>3, <1>4, <1>6, <2>3
  <2>4. CASE i = Len(q) + 1 /\ j = Len(q) + 1
    BY <2>4
  <2> QED BY <1>3, <1>5, <2>1, <2>2, <2>3, <2>4
<1>7. ASSUME NEW d, FirstOf(q, d) PROVE FirstOf(r, d)
  <2>1. PICK i \in DOMAIN q : q[i][1] = d /\ \A j \in 1..(i - 1) : q[j][2] # q[i][2]
    BY <1>7 DEF FirstOf
  <2>2. i \in DOMAIN r /\ r[i] = q[i] /\ \A j \in 1..(i - 1) : r[j] = q[j]
    BY <1>2, <1>3, <1>5
  <2> QED BY <2>1, <2>2 DEF FirstOf
<1>8. Line(r)
  BY <1>5, <1>6 DEF Line
<1> QED BY <1>2, <1>7, <1>8 DEF r, e

\* One leaves.
LEMMA LineLeft ==
  ASSUME NEW q, Line(q), NEW c
  PROVE  LET r == Among(q, {e \in Range(q) : e[1] # c})
         IN  /\ Line(r) /\ Range(r) = {e \in Range(q) : e[1] # c}
             /\ \A d : d # c /\ FirstOf(q, d) => FirstOf(r, d)
<1> DEFINE T == Range(q)
           S == {e \in Range(q) : e[1] # c}
           r == Among(q, S)
<1>1. q \in Seq(T) /\ DOMAIN q = 1..Len(q)
  BY DEF Line
<1>2. r \in Seq(T) /\ Range(r) = T \cap S
  BY <1>1, AmongRange
<1>3. Range(r) = S /\ DOMAIN r = 1..Len(r) /\ r \in Seq(Range(r)) /\ Len(r) \in Nat
  <2>1. DOMAIN r = 1..Len(r) /\ Len(r) \in Nat
    BY <1>2
  <2>2. \A j \in 1..Len(r) : r[j] \in Range(r)
    BY <2>1 DEF Range
  <2> HIDE DEF r
  <2>3. r \in Seq(Range(r))
    BY <1>2, <2>1, <2>2
  <2> QED BY <1>2, <2>1, <2>3
<1>4. \A j, k \in 1..Len(r) : j < k => \E i, l \in 1..Len(q) : i < l /\ r[j] = q[i] /\ r[k] = q[l]
  <2> HIDE DEF S, T
  <2>1. \A j, k \in 1..Len(Among(q, S)) : j < k =>
          \E i, l \in 1..Len(q) : i < l /\ Among(q, S)[j] = q[i] /\ Among(q, S)[k] = q[l]
    <3>1. q \in Seq(T)
      BY <1>1
    <3> QED BY <3>1, AmongOrder
  <2> QED BY <2>1 DEF r
<1>5. \A i, l \in 1..Len(q) : q[i][1] = q[l][1] => i = l
  BY <1>1 DEF Line
<1> HIDE DEF r, S
<1>6. ASSUME NEW j \in 1..Len(r), NEW k \in 1..Len(r), j < k, r[j][1] = r[k][1] PROVE FALSE
  <2>1. PICK i, l \in 1..Len(q) : i < l /\ r[j] = q[i] /\ r[k] = q[l]
    BY <1>4, <1>6
  <2> QED BY <1>5, <1>6, <2>1
<1>7. Line(r)
  <2>1. ASSUME NEW j \in 1..Len(r), NEW k \in 1..Len(r), r[j][1] = r[k][1] PROVE j = k
    <3>1. ~(j < k) /\ ~(k < j)
      BY <1>6, <2>1
    <3> QED BY <1>3, <3>1
  <2> QED BY <1>3, <2>1 DEF Line
<1>8. ASSUME NEW d, d # c, FirstOf(q, d) PROVE FirstOf(r, d)
  <2>1. PICK i \in DOMAIN q : q[i][1] = d /\ \A j \in 1..(i - 1) : q[j][2] # q[i][2]
    BY <1>8 DEF FirstOf
  <2>2. q[i] \in S
    BY <1>8, <2>1 DEF S, Range
  <2>3. PICK m \in DOMAIN r : r[m] = q[i]
    BY <1>3, <2>2 DEF Range
  <2>4. ASSUME NEW j \in 1..(m - 1), r[j][2] = r[m][2] PROVE FALSE
    <3>1. j \in 1..Len(r) /\ m \in 1..Len(r) /\ j < m
      BY <1>3
    <3>2. PICK a, b \in 1..Len(q) : a < b /\ r[j] = q[a] /\ r[m] = q[b]
      BY <1>4, <3>1
    <3>3. b = i
      BY <1>1, <1>5, <2>3, <3>2
    <3>4. a \in 1..(i - 1)
      BY <3>2, <3>3
    <3> QED BY <2>1, <2>3, <2>4, <3>2, <3>4
  <2> QED BY <2>1, <2>3, <2>4 DEF FirstOf
<1> QED BY <1>3, <1>7, <1>8 DEF r, S

\* A lock is held by one.
LEMMA LineFirst ==
  ASSUME NEW q, Line(q), NEW c, NEW d, NEW l, <<c, l>> \in Range(q), <<d, l>> \in Range(q),
         FirstOf(q, c), FirstOf(q, d)
  PROVE  c = d
<1>1. PICK i \in DOMAIN q : q[i][1] = c /\ \A j \in 1..(i - 1) : q[j][2] # q[i][2]
  BY DEF FirstOf
<1>2. PICK k \in DOMAIN q : q[k][1] = d /\ \A j \in 1..(k - 1) : q[j][2] # q[k][2]
  BY DEF FirstOf
<1>3. q[i][2] = l /\ q[k][2] = l
  <2>1. PICK a \in DOMAIN q : q[a] = <<c, l>>
    BY DEF Range
  <2>2. PICK b \in DOMAIN q : q[b] = <<d, l>>
    BY DEF Range
  <2>3. a = i /\ b = k
    BY <1>1, <1>2, <2>1, <2>2 DEF Line
  <2> QED BY <2>1, <2>2, <2>3
<1>4. i \in Nat /\ k \in Nat /\ i >= 1 /\ k >= 1
  <2>1. DOMAIN q = 1..Len(q)
    BY DEF Line
  <2> QED BY <2>1
<1>5. ~(i < k) /\ ~(k < i)
  BY <1>1, <1>2, <1>3, <1>4
<1>6. i = k
  BY <1>4, <1>5
<1> QED BY <1>1, <1>2, <1>6

-----------------------------------------------------------------------------
(* Sequences without repetitions *)

\* Without its first element.
LEMMA TailOnce ==
  ASSUME NEW T, NEW s \in Seq(T), s # <<>>
  PROVE  /\ Tail(s) \in Seq(T) /\ Len(Tail(s)) = Len(s) - 1 /\ Head(s) \in Range(s)
         /\ Range(Tail(s)) \subseteq Range(s)
         /\ IsInjective(s) => IsInjective(Tail(s)) /\ Range(Tail(s)) = Range(s) \ {Head(s)}
<1> DEFINE t == Tail(s)
<1>1. /\ t \in Seq(T) /\ Len(t) = Len(s) - 1 /\ Len(s) \in Nat /\ Len(s) >= 1 /\ Head(s) = s[1]
      /\ \A j \in 1..Len(t) : t[j] = s[j + 1]
  OBVIOUS
<1>2. DOMAIN s = 1..Len(s) /\ DOMAIN t = 1..Len(t)
  OBVIOUS
<1> HIDE DEF t
<1>3. Head(s) \in Range(s)
  BY <1>1, <1>2 DEF Range
<1>4. Range(t) \subseteq Range(s)
  <2>1. ASSUME NEW j \in 1..Len(t) PROVE t[j] \in Range(s)
    <3>1. j + 1 \in DOMAIN s /\ t[j] = s[j + 1]
      BY <1>1, <1>2
    <3>2. QED BY <3>1 DEF Range
  <2>2. QED BY <1>1, <2>1, RangeWithin
<1>5. ASSUME IsInjective(s) PROVE IsInjective(t) /\ Range(t) = Range(s) \ {Head(s)}
  <2>1. IsInjective(t)
    <3> SUFFICES ASSUME NEW i \in 1..Len(t), NEW j \in 1..Len(t), t[i] = t[j] PROVE i = j
      BY <1>2 DEF IsInjective
    <3>1. i + 1 \in DOMAIN s /\ j + 1 \in DOMAIN s /\ s[i + 1] = s[j + 1]
      BY <1>1, <1>2
    <3>2. QED BY <1>5, <3>1 DEF IsInjective
  <2>2. Head(s) \notin Range(t)
    <3> SUFFICES ASSUME NEW j \in 1..Len(t), t[j] = Head(s) PROVE FALSE
      BY <1>2 DEF Range
    <3>1. j + 1 \in DOMAIN s /\ 1 \in DOMAIN s /\ s[j + 1] = s[1]
      BY <1>1, <1>2
    <3>2. QED BY <1>5, <3>1 DEF IsInjective
  <2>3. Range(s) \ {Head(s)} \subseteq Range(t)
    <3> SUFFICES ASSUME NEW j \in 1..Len(s), s[j] # Head(s) PROVE s[j] \in Range(t)
      BY <1>2 DEF Range
    <3>1. j - 1 \in DOMAIN t /\ t[j - 1] = s[j]
      BY <1>1, <1>2
    <3>2. QED BY <3>1 DEF Range
  <2>4. QED BY <1>4, <2>1, <2>2, <2>3
<1>6. QED BY <1>1, <1>3, <1>4, <1>5 DEF t

\* A sequence without repetitions is as long as its range is large.
LEMMA OnceLength ==
  ASSUME NEW T, NEW s \in Seq(T), IsInjective(s)
  PROVE  IsFiniteSet(Range(s)) /\ Cardinality(Range(s)) = Len(s)
<1>1. Len(s) \in Nat /\ DOMAIN s = 1..Len(s)
  OBVIOUS
<1>2. s \in [1..Len(s) -> Range(s)]
  BY <1>1 DEF Range
<1>3. s \in Bijection(1..Len(s), Range(s))
  <2>1. \A i, j \in 1..Len(s) : s[i] = s[j] => i = j
    BY <1>1 DEF IsInjective
  <2>2. s \in Injection(1..Len(s), Range(s))
    BY <1>2, <2>1, Fun_IsInj
  <2>3. s \in Surjection(1..Len(s), Range(s))
    BY <1>1, <1>2 DEF Range, Surjection
  <2>4. QED BY <2>2, <2>3 DEF Bijection
<1>4. ExistsBijection(1..Len(s), Range(s))
  BY <1>3 DEF ExistsBijection
<1>5. IsFiniteSet(1..Len(s)) /\ Cardinality(1..Len(s)) = Len(s)
  BY <1>1, FS_Interval
<1>6. QED BY <1>4, <1>5, FS_Bijection, FS_CountingElements
=============================================================================
