----------------------------- MODULE Induction -----------------------------
(***************************************************************************)
(* Induction over the natural numbers, and functions defined by recursion  *)
(* over them, in a form that needs no operator as a parameter: what is     *)
(* proved by induction is stated as membership in a set, and what is       *)
(* applied in each step is a function.  And what the proofs need of        *)
(* sequences that get longer or shorter by one element.                    *)
(***************************************************************************)
EXTENDS Integers, Sequences, WellFoundedInduction, SequenceTheorems, TLAPS

\* The least-number principle.
LEMMA LeastNat ==
  ASSUME NEW T \in SUBSET Nat, T # {}
  PROVE  \E x \in T : \A y \in T : x <= y
<1> DEFINE R == OpToRel(<, Nat)
<1>1. IsWellFoundedOn(R, Nat)
  BY NatLessThanWellFounded
<1>2. \A x, y \in Nat : x < y => <<x, y>> \in R
  BY DEF OpToRel
<1> HIDE DEF R
<1>3. \E x \in T : \A y \in T : ~(<<y, x>> \in R)
  BY <1>1, WFMin
<1>4. PICK x \in T : \A y \in T : ~(<<y, x>> \in R)
  BY <1>3
<1>5. ASSUME NEW y \in T PROVE x <= y
  <2>1. x \in Nat /\ y \in Nat
    OBVIOUS
  <2>2. ~(y < x)
    BY <1>2, <1>4, <2>1
  <2>3. QED
    BY <2>1, <2>2
<1>6. QED
  BY <1>5

\* Induction: a set with 0 and with the successor of each of its numbers.
LEMMA NatInSet ==
  ASSUME NEW S, 0 \in S, \A n \in Nat : n \in S => n + 1 \in S
  PROVE  Nat \subseteq S
<1> DEFINE T == {n \in Nat : n \notin S}
<1> SUFFICES ASSUME T # {} PROVE FALSE
  OBVIOUS
<1>1. PICK x \in T : \A y \in T : x <= y
  BY LeastNat
<1>2. x # 0 /\ x - 1 \in Nat /\ x - 1 \notin T
  BY <1>1
<1>3. QED
  BY <1>1, <1>2

-----------------------------------------------------------------------------
(* Recursion.  The hypotheses are named, which lets the provers see where a *)
(* lemma applies.                                                           *)

\* From each number of D next leads to a greater one, and D ends below L.
Climbs(L, D, next) ==
  /\ L \in Nat /\ D \in SUBSET Nat /\ next \in [D -> Nat]
  /\ \A a \in D : a < L /\ next[a] > a

\* What a recursion does on D, and outside of it.
Steps(D, V, stop, step) == stop \in [Nat -> V] /\ step \in [D \X V -> V]

\* f is what the recursion defines.
Solves(f, D, V, next, stop, step) ==
  /\ f \in [Nat -> V]
  /\ \A a \in Nat : f[a] = IF a \in D THEN step[<<a, f[next[a]]>>] ELSE stop[a]

\* A function may be defined on numbers below a bound from its value at a
\* greater number.
LEMMA RecursionUp ==
  ASSUME NEW L, NEW D, NEW next, Climbs(L, D, next),
         NEW V, NEW stop, NEW step, Steps(D, V, stop, step)
  PROVE  \E f : Solves(f, D, V, next, stop, step)
<1> USE DEF Climbs, Steps
<1> DEFINE Value(f, a) == IF a \in D THEN step[<<a, f[next[a]]>>] ELSE stop[a]
           Good(n) == {f \in [Nat -> V] : \A a \in Nat : a + n >= L => f[a] = Value(f, a)}
           S == {n \in Nat : Good(n) # {}}
<1>1. 0 \in S
  <2>1. stop \in Good(0)
    OBVIOUS
  <2>2. QED
    BY <2>1
<1>2. ASSUME NEW n \in Nat, n \in S PROVE n + 1 \in S
  <2>1. PICK f \in [Nat -> V] : \A a \in Nat : a + n >= L => f[a] = Value(f, a)
    BY <1>2
  <2> DEFINE g == [a \in Nat |-> IF a + n >= L THEN f[a] ELSE Value(f, a)]
  <2>2. \A a \in Nat : Value(f, a) \in V
    OBVIOUS
  <2>3. g \in [Nat -> V]
    BY <2>2
  <2>4. ASSUME NEW a \in Nat, a + (n + 1) >= L PROVE g[a] = Value(g, a)
    <3>1. a \in D => next[a] \in Nat /\ next[a] + n >= L
      BY <2>4
    <3>2. a \in D => g[next[a]] = f[next[a]]
      BY <3>1
    <3>3. Value(g, a) = Value(f, a)
      BY <3>2
    <3>4. QED
      BY <2>1, <3>3
  <2>5. g \in Good(n + 1)
    BY <2>3, <2>4
  <2> HIDE DEF Good
  <2>6. QED
    BY <2>5
<1>3. L \in S
  <2> HIDE DEF S
  <2>1. Nat \subseteq S
    BY <1>1, <1>2, NatInSet
  <2>2. QED
    BY <2>1
<1>4. PICK f : f \in Good(L)
  BY <1>3
<1>5. Solves(f, D, V, next, stop, step)
  BY <1>4 DEF Solves
<1>6. QED
  BY <1>5

\* The value at a greater number determines the value of both in the same way.
Follow(f, g, D, next) ==
  /\ \A a \in D : g[next[a]] = f[next[a]] => g[a] = f[a]
  /\ \A a \in Nat \ D : g[a] = f[a]

\* Such a function is the only one.
LEMMA RecursionUpUnique ==
  ASSUME NEW L, NEW D, NEW next, Climbs(L, D, next),
         NEW f, NEW g, Follow(f, g, D, next)
  PROVE  \A a \in Nat : g[a] = f[a]
<1> USE DEF Climbs, Follow
<1> DEFINE S == {n \in Nat : \A a \in Nat : a + n >= L => g[a] = f[a]}
<1>1. 0 \in S
  OBVIOUS
<1>2. ASSUME NEW n \in Nat, n \in S PROVE n + 1 \in S
  <2>1. ASSUME NEW a \in Nat, a + (n + 1) >= L PROVE g[a] = f[a]
    <3>1. CASE a \in D
      <4>1. next[a] \in Nat /\ next[a] + n >= L
        BY <2>1, <3>1
      <4>2. QED
        BY <1>2, <3>1, <4>1
    <3>2. QED
      BY <3>1
  <2>2. QED
    BY <2>1
<1>3. L \in S
  <2> HIDE DEF S
  <2>1. Nat \subseteq S
    BY <1>1, <1>2, NatInSet
  <2>2. QED
    BY <2>1
<1>4. QED
  BY <1>3

-----------------------------------------------------------------------------
(* The same over the numbers up to a bound *)

LEMMA RangeInSet ==
  ASSUME NEW N \in Nat, NEW S, 0 \in S, \A k \in 0 .. N : k < N /\ k \in S => k + 1 \in S
  PROVE  0 .. N \subseteq S
<1> DEFINE T == {n \in Nat : n <= N => n \in S}
<1>1. 0 \in T
  OBVIOUS
<1>2. \A n \in Nat : n \in T => n + 1 \in T
  OBVIOUS
<1> HIDE DEF T
<1>3. Nat \subseteq T
  BY <1>1, <1>2, NatInSet
<1>4. QED
  BY <1>3 DEF T

\* f is what a recursion from the number before defines, from a on.
Counts(f, N, a, step) ==
  /\ f[0] = a
  /\ \A k \in 1 .. N : f[k] = step[<<k, f[k - 1]>>]

Turns(N, V, a, step) == N \in Nat /\ a \in V /\ step \in [(1 .. N) \X V -> V]

\* A function may be defined up to a bound from its value at the number before.
LEMMA RecursionDown ==
  ASSUME NEW N, NEW V, NEW a, NEW step, Turns(N, V, a, step)
  PROVE  \E f \in [0 .. N -> V] : Counts(f, N, a, step)
<1> USE DEF Turns
<1> DEFINE Good(n) == {f \in [0 .. N -> V] :
             f[0] = a /\ \A k \in 1 .. N : k <= n => f[k] = step[<<k, f[k - 1]>>]}
           S == {n \in 0 .. N : Good(n) # {}}
<1>1. 0 \in S
  <2>1. [k \in 0 .. N |-> a] \in Good(0)
    OBVIOUS
  <2>2. QED
    BY <2>1
<1>2. ASSUME NEW n \in 0 .. N, n < N, n \in S PROVE n + 1 \in S
  <2>1. PICK f \in [0 .. N -> V] :
          f[0] = a /\ \A k \in 1 .. N : k <= n => f[k] = step[<<k, f[k - 1]>>]
    BY <1>2
  <2> DEFINE g == [k \in 0 .. N |-> IF k = n + 1 THEN step[<<k, f[k - 1]>>] ELSE f[k]]
  <2>2. g \in [0 .. N -> V]
    <3>1. ASSUME NEW k \in 0 .. N PROVE g[k] \in V
      <4>1. k = n + 1 => k \in 1 .. N /\ k - 1 \in 0 .. N
        OBVIOUS
      <4>2. QED
        BY <4>1
    <3>2. QED
      BY <3>1
  <2>3. ASSUME NEW k \in 1 .. N, k <= n + 1 PROVE g[k] = step[<<k, g[k - 1]>>]
    <3>1. k \in 0 .. N /\ k - 1 \in 0 .. N /\ k - 1 # n + 1
      BY <2>3
    <3>2. g[k - 1] = f[k - 1]
      BY <3>1
    <3>3. QED
      BY <2>1, <2>3, <3>1, <3>2
  <2>4. g[0] = a
    BY <2>1
  <2>5. g \in Good(n + 1)
    BY <2>2, <2>3, <2>4
  <2>6. n + 1 \in 0 .. N
    BY <1>2
  <2> HIDE DEF Good
  <2>7. QED
    BY <2>5, <2>6
<1>3. N \in S
  <2> HIDE DEF S
  <2>1. 0 .. N \subseteq S
    BY <1>1, <1>2, RangeInSet
  <2>2. QED
    BY <2>1
<1>4. PICK f \in [0 .. N -> V] :
        f[0] = a /\ \A k \in 1 .. N : k <= N => f[k] = step[<<k, f[k - 1]>>]
  BY <1>3
<1>5. Counts(f, N, a, step)
  BY <1>4 DEF Counts
<1>6. QED
  BY <1>5

\* The value before determines the value of both in the same way.
FollowUp(f, g, N) ==
  /\ g[0] = f[0]
  /\ \A k \in 0 .. N : k < N /\ g[k] = f[k] => g[k + 1] = f[k + 1]

LEMMA RecursionDownUnique ==
  ASSUME NEW N \in Nat, NEW f, NEW g, FollowUp(f, g, N)
  PROVE  \A k \in 0 .. N : g[k] = f[k]
<1> DEFINE S == {k \in 0 .. N : g[k] = f[k]}
<1>1. 0 \in S
  BY DEF FollowUp
<1>2. \A k \in 0 .. N : k < N /\ k \in S => k + 1 \in S
  BY DEF FollowUp
<1> HIDE DEF S
<1>3. 0 .. N \subseteq S
  BY <1>1, <1>2, RangeInSet
<1>4. QED
  BY <1>3 DEF S

\* The other way: from the bound down.
FollowDown(f, g, N) ==
  /\ g[N] = f[N]
  /\ \A k \in 0 .. N : k < N /\ g[k + 1] = f[k + 1] => g[k] = f[k]

LEMMA RecursionBelowUnique ==
  ASSUME NEW N \in Nat, NEW f, NEW g, FollowDown(f, g, N)
  PROVE  \A k \in 0 .. N : g[k] = f[k]
<1> DEFINE S == {k \in 0 .. N : g[N - k] = f[N - k]}
<1>1. 0 \in S
  BY DEF FollowDown
<1>2. ASSUME NEW k \in 0 .. N, k < N, k \in S PROVE k + 1 \in S
  <2>1. N - (k + 1) \in 0 .. N /\ N - (k + 1) < N /\ (N - (k + 1)) + 1 = N - k
    BY <1>2
  <2>2. g[N - (k + 1)] = f[N - (k + 1)]
    BY <1>2, <2>1 DEF FollowDown
  <2>3. QED
    BY <1>2, <2>2
<1> HIDE DEF S
<1>3. 0 .. N \subseteq S
  BY <1>1, <1>2, RangeInSet
<1>4. ASSUME NEW k \in 0 .. N PROVE g[k] = f[k]
  <2>1. N - k \in S /\ N - (N - k) = k
    BY <1>3
  <2>2. QED
    BY <2>1 DEF S
<1>5. QED
  BY <1>4
-----------------------------------------------------------------------------
(* Sequences *)

\* A sequence with an element more.
LEMMA AppendGives ==
  ASSUME NEW S, NEW s \in Seq(S), NEW e \in S
  PROVE  Append(s, e) = [k \in 1 .. Len(s) + 1 |-> IF k = Len(s) + 1 THEN e ELSE s[k]]
<1> DEFINE n == Len(s)
           t == Append(s, e)
<1>1. /\ n \in Nat /\ t \in Seq(S) /\ Len(t) = n + 1
      /\ \A k \in 1 .. n : t[k] = s[k]
      /\ t[n + 1] = e
  BY AppendProperties, LenProperties
<1> HIDE DEF n, t
<1>2. t \in [1 .. n + 1 -> S]
  BY <1>1, LenProperties
<1>3. \A k \in 1 .. n + 1 : k = n + 1 \/ k \in 1 .. n
  BY <1>1
<1>4. \A k \in 1 .. n + 1 : t[k] = IF k = n + 1 THEN e ELSE s[k]
  BY <1>1, <1>3
<1>5. t = [k \in 1 .. n + 1 |-> IF k = n + 1 THEN e ELSE s[k]]
  BY <1>2, <1>4
<1>6. QED
  BY <1>5 DEF n, t

\* What is left of a sequence without one of its elements (RemoveAt).
LEMMA RemoveAtGives ==
  ASSUME NEW S, NEW s \in Seq(S), NEW i \in 1 .. Len(s)
  PROVE  SubSeq(s, 1, i - 1) \o SubSeq(s, i + 1, Len(s)) =
           [k \in 1 .. Len(s) - 1 |-> IF k < i THEN s[k] ELSE s[k + 1]]
<1> DEFINE n == Len(s)
           Before == SubSeq(s, 1, i - 1)
           After == SubSeq(s, i + 1, n)
<1>1. n \in Nat /\ i \in Nat /\ i >= 1 /\ i <= n /\ \A k \in 1 .. n : s[k] \in S
  BY LenProperties, ElementOfSeq
<1> HIDE DEF n
<1>2. /\ Before \in Seq(S) /\ Len(Before) = i - 1
      /\ \A k \in 1 .. i - 1 : Before[k] = s[k]
  <2>1. 1 \in Int /\ i - 1 \in Int /\ \A k \in 1 .. i - 1 : s[k] \in S
    BY <1>1
  <2>2. /\ Before \in Seq(S)
        /\ Len(Before) = IF 1 <= i - 1 THEN (i - 1) - 1 + 1 ELSE 0
        /\ \A k \in 1 .. (i - 1) - 1 + 1 : Before[k] = s[1 + k - 1]
    BY <2>1, SubSeqProperties
  <2>3. /\ (IF 1 <= i - 1 THEN (i - 1) - 1 + 1 ELSE 0) = i - 1
        /\ (i - 1) - 1 + 1 = i - 1 /\ \A k \in 1 .. i - 1 : 1 + k - 1 = k
    BY <1>1
  <2> HIDE DEF Before
  <2>4. QED
    BY <2>2, <2>3
<1>3. /\ After \in Seq(S) /\ Len(After) = n - i
      /\ \A k \in 1 .. n - i : After[k] = s[i + k]
  <2>1. i + 1 \in Int /\ n \in Int /\ \A k \in i + 1 .. n : s[k] \in S
    BY <1>1
  <2>2. /\ After \in Seq(S)
        /\ Len(After) = IF i + 1 <= n THEN n - (i + 1) + 1 ELSE 0
        /\ \A k \in 1 .. n - (i + 1) + 1 : After[k] = s[i + 1 + k - 1]
    BY <2>1, SubSeqProperties
  <2>3. /\ (IF i + 1 <= n THEN n - (i + 1) + 1 ELSE 0) = n - i
        /\ n - (i + 1) + 1 = n - i /\ \A k \in 1 .. n - i : i + 1 + k - 1 = i + k
    BY <1>1
  <2> HIDE DEF After
  <2>4. QED
    BY <2>2, <2>3
<1> HIDE DEF Before, After
<1>4. /\ Before \o After \in Seq(S)
      /\ Len(Before \o After) = n - 1
      /\ \A k \in 1 .. n - 1 : (Before \o After)[k] =
           IF k <= i - 1 THEN Before[k] ELSE After[k - (i - 1)]
  <2>1. /\ Before \o After \in Seq(S)
        /\ Len(Before \o After) = Len(Before) + Len(After)
        /\ \A k \in 1 .. Len(Before) + Len(After) : (Before \o After)[k] =
             IF k <= Len(Before) THEN Before[k] ELSE After[k - Len(Before)]
    BY <1>2, <1>3, ConcatProperties
  <2>2. Len(Before) + Len(After) = n - 1
    BY <1>1, <1>2, <1>3
  <2>3. QED
    BY <1>2, <2>1, <2>2
<1>5. ASSUME NEW k \in 1 .. n - 1
      PROVE  (Before \o After)[k] = IF k < i THEN s[k] ELSE s[k + 1]
  <2>1. CASE k < i
    <3>1. k <= i - 1 /\ k \in 1 .. i - 1
      BY <1>1, <2>1
    <3>2. QED
      BY <1>2, <1>4, <2>1, <3>1
  <2>2. CASE ~(k < i)
    <3>1. ~(k <= i - 1) /\ k - (i - 1) \in 1 .. n - i /\ i + (k - (i - 1)) = k + 1
      BY <1>1, <2>2
    <3>2. QED
      BY <1>3, <1>4, <2>2, <3>1
  <2>3. QED
    BY <2>1, <2>2
<1>6. Before \o After = [k \in 1 .. n - 1 |-> (Before \o After)[k]]
  <2>1. Before \o After \in [1 .. n - 1 -> S]
    BY <1>4, LenProperties
  <2>2. QED
    BY <2>1
<1>7. QED
  BY <1>5, <1>6 DEF Before, After, n

\* What is left of a sequence without its last element (Front).
LEMMA FrontGives ==
  ASSUME NEW S, NEW s \in Seq(S), Len(s) >= 1
  PROVE  SubSeq(s, 1, Len(s) - 1) = [k \in 1 .. Len(s) - 1 |-> s[k]]
<1> DEFINE n == Len(s) - 1
           t == SubSeq(s, 1, n)
<1>1. n \in Nat /\ \A k \in 1 .. n : s[k] \in S
  BY LenProperties, ElementOfSeq
<1> HIDE DEF n
<1>2. /\ t \in Seq(S)
      /\ Len(t) = IF 1 <= n THEN n - 1 + 1 ELSE 0
      /\ \A k \in 1 .. n - 1 + 1 : t[k] = s[1 + k - 1]
  BY <1>1, SubSeqProperties
<1>3. /\ (IF 1 <= n THEN n - 1 + 1 ELSE 0) = n /\ n - 1 + 1 = n
      /\ \A k \in 1 .. n : 1 + k - 1 = k
  BY <1>1
<1> HIDE DEF t
<1>4. t \in [1 .. n -> S] /\ \A k \in 1 .. n : t[k] = s[k]
  BY <1>2, <1>3, LenProperties
<1>5. t = [k \in 1 .. n |-> s[k]]
  BY <1>4
<1>6. QED
  BY <1>5 DEF t, n

\* A sequence with another one put in after its first elements.
Spliced(s, i, r) ==
  [k \in 1 .. Len(s) + Len(r) |->
     IF k <= i THEN s[k] ELSE IF k <= i + Len(r) THEN r[k - i] ELSE s[k - Len(r)]]

LEMMA SpliceGives ==
  ASSUME NEW S, NEW s \in Seq(S), NEW r \in Seq(S), NEW i \in 0 .. Len(s)
  PROVE  SubSeq(s, 1, i) \o r \o SubSeq(s, i + 1, Len(s)) = Spliced(s, i, r)
<1> DEFINE n == Len(s)
           q == Len(r)
           Before == SubSeq(s, 1, i)
           After == SubSeq(s, i + 1, n)
           Joined == Before \o r
           All == Joined \o After
<1>1. /\ n \in Nat /\ q \in Nat /\ i \in Nat /\ i <= n
      /\ (\A k \in 1 .. n : s[k] \in S) /\ (\A k \in 1 .. q : r[k] \in S)
  BY LenProperties, ElementOfSeq
<1> HIDE DEF n, q
<1>2. Before \in Seq(S) /\ Len(Before) = i /\ \A k \in 1 .. i : Before[k] = s[k]
  <2>1. 1 \in Int /\ i \in Int /\ \A k \in 1 .. i : s[k] \in S
    BY <1>1
  <2>2. /\ Before \in Seq(S)
        /\ Len(Before) = IF 1 <= i THEN i - 1 + 1 ELSE 0
        /\ \A k \in 1 .. i - 1 + 1 : Before[k] = s[1 + k - 1]
    BY <2>1, SubSeqProperties
  <2>3. /\ (IF 1 <= i THEN i - 1 + 1 ELSE 0) = i
        /\ i - 1 + 1 = i /\ \A k \in 1 .. i : 1 + k - 1 = k
    BY <1>1
  <2> HIDE DEF Before
  <2>4. QED
    BY <2>2, <2>3
<1>3. /\ After \in Seq(S) /\ Len(After) = n - i
      /\ \A k \in 1 .. n - i : After[k] = s[i + k]
  <2>1. i + 1 \in Int /\ n \in Int /\ \A k \in i + 1 .. n : s[k] \in S
    BY <1>1
  <2>2. /\ After \in Seq(S)
        /\ Len(After) = IF i + 1 <= n THEN n - (i + 1) + 1 ELSE 0
        /\ \A k \in 1 .. n - (i + 1) + 1 : After[k] = s[i + 1 + k - 1]
    BY <2>1, SubSeqProperties
  <2>3. /\ (IF i + 1 <= n THEN n - (i + 1) + 1 ELSE 0) = n - i
        /\ n - (i + 1) + 1 = n - i /\ \A k \in 1 .. n - i : i + 1 + k - 1 = i + k
    BY <1>1
  <2> HIDE DEF After
  <2>4. QED
    BY <2>2, <2>3
<1> HIDE DEF Before, After
<1>4. /\ Joined \in Seq(S) /\ Len(Joined) = i + q
      /\ \A k \in 1 .. i + q : Joined[k] = IF k <= i THEN Before[k] ELSE r[k - i]
  BY <1>2, ConcatProperties DEF q
<1> HIDE DEF Joined
<1>5. /\ All \in Seq(S) /\ Len(All) = n + q
      /\ \A k \in 1 .. n + q : All[k] = IF k <= i + q THEN Joined[k] ELSE After[k - (i + q)]
  <2>1. /\ All \in Seq(S) /\ Len(All) = Len(Joined) + Len(After)
        /\ \A k \in 1 .. Len(Joined) + Len(After) :
             All[k] = IF k <= Len(Joined) THEN Joined[k] ELSE After[k - Len(Joined)]
    BY <1>3, <1>4, ConcatProperties
  <2>2. Len(Joined) + Len(After) = n + q
    BY <1>1, <1>3, <1>4
  <2> HIDE DEF All
  <2>3. QED
    BY <1>4, <2>1, <2>2
<1> HIDE DEF All
<1>6. ASSUME NEW k \in 1 .. n + q
      PROVE  All[k] = IF k <= i THEN s[k] ELSE IF k <= i + q THEN r[k - i] ELSE s[k - q]
  <2>1. CASE k <= i
    <3>1. k \in 1 .. i /\ k \in 1 .. i + q /\ k <= i + q
      BY <1>1, <2>1
    <3>2. QED
      BY <1>2, <1>4, <1>5, <2>1, <3>1
  <2>2. CASE ~(k <= i) /\ k <= i + q
    <3>1. k \in 1 .. i + q
      BY <1>1, <2>2
    <3>2. QED
      BY <1>4, <1>5, <2>2, <3>1
  <2>3. CASE ~(k <= i + q)
    <3>1. ~(k <= i) /\ k - (i + q) \in 1 .. n - i /\ i + (k - (i + q)) = k - q
      BY <1>1, <2>3
    <3>2. QED
      BY <1>3, <1>5, <2>3, <3>1
  <2>4. QED
    BY <2>1, <2>2, <2>3
<1>7. All \in [1 .. n + q -> S]
  BY <1>5, LenProperties
<1>8. All = [k \in 1 .. n + q |->
               IF k <= i THEN s[k] ELSE IF k <= i + q THEN r[k - i] ELSE s[k - q]]
  BY <1>6, <1>7
<1>9. QED
  BY <1>8 DEF All, Joined, Before, After, n, q, Spliced
=============================================================================
