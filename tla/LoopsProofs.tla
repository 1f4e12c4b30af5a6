---------------------------- MODULE LoopsProofs ----------------------------
(***************************************************************************)
(* What the loops of Loops compute, for every list.  The induction is over *)
(* a least counterexample, which needs no operator as a parameter.         *)
(***************************************************************************)
EXTENDS Loops, SequencesExt, SequenceTheorems, FiniteSetTheorems,
        WellFoundedInduction, TLAPS

\* A set of natural numbers that is not empty has a least element.
LEMMA LeastNatural ==
  ASSUME NEW T \in SUBSET Nat, T # {}
  PROVE  \E m \in T : \A n \in T : m <= n
<1> DEFINE R == OpToRel(<, Nat)
<1>1. IsWellFoundedOn(R, Nat)
  BY NatLessThanWellFounded
<1>2. PICK m \in T : \A n \in T : <<n, m>> \notin R
  <2> HIDE DEF R
  <2> QED BY <1>1, WFMin
<1>3. \A n \in T : ~(n < m)
  BY <1>2 DEF OpToRel
<1> QED BY <1>3

\* What holds of no turns of a loop, and of one more whenever it holds of some, holds
\* of all of them up to N.
LEMMA TurnByTurn ==
  ASSUME NEW N \in Nat, NEW Good \in SUBSET Nat, 0 \in Good,
         \A n \in 0..(N - 1) : n \in Good => n + 1 \in Good
  PROVE  0..N \subseteq Good
<1> DEFINE Bad == {n \in 0..N : n \notin Good}
<1> SUFFICES ASSUME Bad # {} PROVE FALSE
  OBVIOUS
<1>1. PICK m \in Bad : \A n \in Bad : m <= n
  <2>1. Bad \in SUBSET Nat
    OBVIOUS
  <2> HIDE DEF Bad
  <2> QED BY <2>1, LeastNatural
<1>2. m # 0 /\ m \in 0..N /\ m \notin Good
  BY <1>1
<1>3. m - 1 \in 0..(N - 1) /\ m - 1 \in Good
  BY <1>1, <1>2
<1>4. (m - 1) + 1 \in Good
  BY <1>3
<1>5. (m - 1) + 1 = m
  BY <1>2
<1> QED BY <1>2, <1>4, <1>5

\* The values of a loop's variable, after n turns each.
IsRun(f, X, start, N, Turn) ==
  /\ f \in [0..N -> X]
  /\ f[0] = start
  /\ \A n \in 1..N : f[n] = Turn[<<n, f[n - 1]>>]

\* A loop has a value after every turn.
LEMMA LoopRuns ==
  ASSUME NEW X, NEW start \in X, NEW N \in Nat, NEW Turn \in [(1..N) \X X -> X]
  PROVE  \E f : IsRun(f, X, start, N, Turn)
<1> DEFINE Runs(n, f) == /\ f \in [0..n -> X]
                         /\ f[0] = start
                         /\ \A i \in 1..n : f[i] = Turn[<<i, f[i - 1]>>]
           Good == {n \in 0..N : \E f : Runs(n, f)}
<1>1. 0 \in Good
  <2> DEFINE f == [i \in 0..0 |-> start]
  <2>1. f \in [0..0 -> X] /\ f[0] = start /\ (1..0) = {}
    OBVIOUS
  <2> HIDE DEF f
  <2>2. Runs(0, f)
    BY <2>1
  <2> HIDE DEF Runs
  <2> QED BY <2>2
<1>2. ASSUME NEW n \in 0..(N - 1), n \in Good
      PROVE  n + 1 \in Good
  <2>1. PICK f : Runs(n, f)
    <3> HIDE DEF Runs
    <3> QED BY <1>2
  <2>2. f \in [0..n -> X] /\ f[0] = start /\ \A i \in 1..n : f[i] = Turn[<<i, f[i - 1]>>]
    BY <2>1
  <2> DEFINE x == Turn[<<n + 1, f[n]>>]
             g == [i \in 0..(n + 1) |-> IF i <= n THEN f[i] ELSE x]
  <2>0. n \in Nat /\ n + 1 \in 1..N /\ n \in 0..n
    OBVIOUS
  <2>3. x \in X
    <3>1. f[n] \in X /\ n + 1 \in 1..N
      BY <2>0, <2>2
    <3>2. <<n + 1, f[n]>> \in (1..N) \X X
      BY <3>1
    <3> QED BY <3>2
  <2>4. /\ \A i \in 0..n : g[i] = f[i]
        /\ g[n + 1] = x
        /\ g \in [0..(n + 1) -> X]
    <3> HIDE DEF x
    <3>1. \A i \in 0..(n + 1) : (i <= n => i \in 0..n) /\ (~(i <= n) => i = n + 1)
      BY <2>0
    <3>2. \A i \in 0..n : i \in 0..(n + 1) /\ i <= n
      BY <2>0
    <3>3. n + 1 \in 0..(n + 1) /\ ~(n + 1 <= n)
      BY <2>0
    <3> QED BY <2>2, <2>3, <3>1, <3>2, <3>3
  <2> HIDE DEF g
  <2>5. g[0] = start
    BY <2>0, <2>2, <2>4
  <2>6. ASSUME NEW i \in 1..(n + 1) PROVE g[i] = Turn[<<i, g[i - 1]>>]
    <3>1. CASE i \in 1..n
      <4>1. i - 1 \in 0..n /\ i \in 0..n
        BY <3>1
      <4> QED BY <2>2, <2>4, <3>1, <4>1
    <3>2. CASE i = n + 1
      <4>1. i - 1 = n /\ n \in 0..n
        BY <3>2
      <4> QED BY <2>4, <3>2, <4>1
    <3> QED BY <2>0, <3>1, <3>2
  <2>7. Runs(n + 1, g)
    BY <2>4, <2>5, <2>6
  <2>8. n + 1 \in 0..N
    OBVIOUS
  <2> HIDE DEF Runs
  <2> QED BY <2>7, <2>8
<1>3. N \in Good
  <2>1. Good \in SUBSET Nat
    <3> HIDE DEF Runs
    <3> QED OBVIOUS
  <2> HIDE DEF Good
  <2>2. 0..N \subseteq Good
    BY <1>1, <1>2, <2>1, TurnByTurn
  <2> QED BY <2>2
<1>4. PICK f : Runs(N, f)
  <2> HIDE DEF Runs
  <2> QED BY <1>3
<1> QED BY <1>4 DEF IsRun

-----------------------------------------------------------------------------

\* The loop of Matching, turn by turn.
IsMatchingRun(f, S, s, keep) ==
  /\ f \in [0..Len(s) -> Seq(S)]
  /\ f[0] = <<>>
  /\ \A n \in 1..Len(s) :
       f[n] = IF s[n] \in keep THEN Append(f[n - 1], s[n]) ELSE f[n - 1]
  /\ Matching(s, keep) = f[Len(s)]

LEMMA MatchingLoop ==
  ASSUME NEW S, NEW s \in Seq(S), NEW keep
  PROVE  \E f : IsMatchingRun(f, S, s, keep)
<1> DEFINE N == Len(s)
           X == Seq(S)
           Turn == [p \in (1..N) \X X |-> IF s[p[1]] \in keep THEN Append(p[2], s[p[1]]) ELSE p[2]]
           Body(f) == [n \in 0..N |-> IF n = 0 THEN <<>>
                                      ELSE IF s[n] \in keep THEN Append(f[n - 1], s[n])
                                      ELSE f[n - 1]]
           F == CHOOSE f : f = Body(f)
<1>1. N \in Nat
  OBVIOUS
<1>2. Turn \in [(1..N) \X X -> X]
  <2> SUFFICES ASSUME NEW n \in 1..N, NEW t \in X
               PROVE  (IF s[n] \in keep THEN Append(t, s[n]) ELSE t) \in X
    OBVIOUS
  <2>1. s[n] \in S
    OBVIOUS
  <2> QED BY <2>1
<1>3. PICK f \in [0..N -> X] : /\ f[0] = <<>>
                              /\ \A n \in 1..N : f[n] = Turn[<<n, f[n - 1]>>]
  <2> DEFINE none == <<>>
  <2>1. none \in X
    OBVIOUS
  <2> HIDE DEF Turn, N, X, none
  <2>2. \E f : IsRun(f, X, none, N, Turn)
    BY <1>1, <1>2, <2>1, LoopRuns
  <2> QED BY <2>2 DEF none, IsRun
<1>4. f = Body(f)
  <2>1. ASSUME NEW n \in 1..N
        PROVE  f[n] = IF s[n] \in keep THEN Append(f[n - 1], s[n]) ELSE f[n - 1]
    <3>1. f[n - 1] \in X /\ <<n, f[n - 1]>> \in (1..N) \X X
      <4> HIDE DEF X
      <4> QED BY <1>1
    <3> QED BY <1>3, <3>1
  <2>2. \A n \in 0..N : n = 0 \/ n \in 1..N
    BY <1>1
  <2> HIDE DEF X, N
  <2> QED BY <1>3, <2>1, <2>2
<1>5. F = Body(F)
  <2> HIDE DEF Body
  <2> QED BY <1>4
<1>6. Matching(s, keep) = F[N]
  BY DEF Matching
<1>7. /\ F[0] = <<>>
      /\ \A n \in 1..N : F[n] = IF s[n] \in keep THEN Append(F[n - 1], s[n]) ELSE F[n - 1]
      /\ DOMAIN F = 0..N
      /\ F = [n \in 0..N |-> F[n]]
  <2> HIDE DEF F, N
  <2>1. 0 \in 0..N /\ \A n \in 1..N : n \in 0..N /\ n # 0
    BY <1>1
  <2> QED BY <1>5, <2>1
<1>8. \A n \in 0..N : F[n] \in X
  <2> HIDE DEF F, X, N
  <2> DEFINE Good == {n \in 0..N : F[n] \in X}
  <2>1. 0 \in Good
    <3>1. <<>> \in X
      BY DEF X
    <3> QED BY <1>1, <1>7, <3>1
  <2>2. ASSUME NEW n \in 0..(N - 1), n \in Good PROVE n + 1 \in Good
    <3>1. n + 1 \in 1..N /\ n + 1 \in 0..N /\ (n + 1) - 1 = n /\ F[n] \in X
      BY <1>1, <2>2
    <3>2. \A t \in X : Append(t, s[n + 1]) \in X
      <4>1. s[n + 1] \in S
        BY <3>1 DEF N
      <4> QED BY <4>1 DEF X
    <3>3. F[n + 1] \in X
      BY <1>7, <3>1, <3>2
    <3> QED BY <3>1, <3>3
  <2>3. Good \in SUBSET Nat
    OBVIOUS
  <2> HIDE DEF Good
  <2>4. 0..N \subseteq Good
    BY <1>1, <2>1, <2>2, <2>3, TurnByTurn
  <2> QED BY <2>4 DEF Good
<1> HIDE DEF F, X, N
<1>9. F \in [0..N -> X]
  BY <1>7, <1>8
<1> QED BY <1>6, <1>7, <1>9 DEF X, N, IsMatchingRun

\* Where the elements that a loop keeps come from: g is their places in s, in order.
KeepsPlaces(t, s, keep, n, g) ==
  /\ g \in [1..Len(t) -> 1..n]
  /\ \A j, k \in 1..Len(t) : j < k => g[j] < g[k]
  /\ \A k \in 1..Len(t) : t[k] = s[g[k]] /\ s[g[k]] \in keep
  /\ \A i \in 1..n : s[i] \in keep => \E k \in 1..Len(t) : g[k] = i

\* One turn of the loop.
LEMMA PlacesGrow ==
  ASSUME NEW S, NEW s, NEW keep, NEW t \in Seq(S), NEW n \in Nat, NEW g,
         s[n + 1] \in S, KeepsPlaces(t, s, keep, n, g)
  PROVE  /\ s[n + 1] \in keep =>
              \E h : KeepsPlaces(Append(t, s[n + 1]), s, keep, n + 1, h)
         /\ s[n + 1] \notin keep => KeepsPlaces(t, s, keep, n + 1, g)
<1> DEFINE m == Len(t)
           u == Append(t, s[n + 1])
           h == [k \in 1..(m + 1) |-> IF k <= m THEN g[k] ELSE n + 1]
<1>1. /\ g \in [1..m -> 1..n] /\ m \in Nat
      /\ \A j, k \in 1..m : j < k => g[j] < g[k]
      /\ \A k \in 1..m : t[k] = s[g[k]] /\ s[g[k]] \in keep
      /\ \A i \in 1..n : s[i] \in keep => \E k \in 1..m : g[k] = i
  BY DEF KeepsPlaces
<1>2. \A i \in 1..(n + 1) : i \in 1..n \/ i = n + 1
  OBVIOUS
<1>3. CASE s[n + 1] \in keep
  <2>1. /\ Len(u) = m + 1
        /\ \A k \in 1..m : u[k] = t[k]
        /\ u[m + 1] = s[n + 1]
    BY AppendProperties
  <2>2. /\ \A k \in 1..m : h[k] = g[k]
        /\ h[m + 1] = n + 1
        /\ h \in [1..(m + 1) -> 1..(n + 1)]
    <3>1. \A k \in 1..(m + 1) : (k <= m => k \in 1..m) /\ (~(k <= m) => k = m + 1)
      BY <1>1
    <3>2. /\ \A k \in 1..m : k \in 1..(m + 1) /\ k <= m
          /\ m + 1 \in 1..(m + 1) /\ ~(m + 1 <= m)
          /\ n + 1 \in 1..(n + 1) /\ 1..n \subseteq 1..(n + 1)
      BY <1>1
    <3> HIDE DEF m
    <3> QED BY <1>1, <3>1, <3>2
  <2>3. \A k \in 1..(m + 1) : k \in 1..m \/ k = m + 1
    BY <1>1
  <2> HIDE DEF m, u, h
  <2>4. \A k \in 1..m : g[k] < n + 1
    BY <1>1
  <2>5. \A j, k \in 1..(m + 1) : j < k => h[j] < h[k]
    <3> SUFFICES ASSUME NEW j \in 1..(m + 1), NEW k \in 1..(m + 1), j < k
                 PROVE  h[j] < h[k]
      OBVIOUS
    <3>1. j \in 1..m
      BY <1>1
    <3> QED BY <1>1, <2>2, <2>3, <2>4, <3>1
  <2>6. \A k \in 1..(m + 1) : u[k] = s[h[k]] /\ s[h[k]] \in keep
    BY <1>1, <1>3, <2>1, <2>2, <2>3
  <2>7. \A i \in 1..(n + 1) : s[i] \in keep => \E k \in 1..(m + 1) : h[k] = i
    <3>1. m + 1 \in 1..(m + 1) /\ 1..m \subseteq 1..(m + 1)
      BY <1>1
    <3> QED BY <1>1, <1>2, <2>2, <3>1
  <2>8. KeepsPlaces(u, s, keep, n + 1, h)
    BY <2>1, <2>2, <2>5, <2>6, <2>7 DEF KeepsPlaces
  <2> QED BY <1>3, <2>8 DEF u
<1>4. CASE s[n + 1] \notin keep
  <2>1. g \in [1..m -> 1..(n + 1)]
    BY <1>1
  <2> QED BY <1>1, <1>2, <1>4, <2>1 DEF KeepsPlaces
<1> QED BY <1>3, <1>4

\* Matching keeps the elements that are in keep, all of them, in their order.
LEMMA MatchingPlaces ==
  ASSUME NEW S, NEW s \in Seq(S), NEW keep
  PROVE  /\ Matching(s, keep) \in Seq(S)
         /\ \E g : KeepsPlaces(Matching(s, keep), s, keep, Len(s), g)
<1>0. PICK f : IsMatchingRun(f, S, s, keep)
  BY MatchingLoop
<1>1. /\ f \in [0..Len(s) -> Seq(S)] /\ f[0] = <<>>
      /\ \A n \in 1..Len(s) :
           f[n] = IF s[n] \in keep THEN Append(f[n - 1], s[n]) ELSE f[n - 1]
      /\ Matching(s, keep) = f[Len(s)]
  BY <1>0 DEF IsMatchingRun
<1> DEFINE N == Len(s)
           Good == {n \in 0..N : \E g : KeepsPlaces(f[n], s, keep, n, g)}
<1>2. N \in Nat
  OBVIOUS
<1>3. 0 \in Good
  <2>1. KeepsPlaces(<<>>, s, keep, 0, <<>>)
    BY DEF KeepsPlaces
  <2> QED BY <1>1, <1>2, <2>1
<1>4. ASSUME NEW n \in 0..(N - 1), n \in Good PROVE n + 1 \in Good
  <2>1. PICK g : KeepsPlaces(f[n], s, keep, n, g)
    BY <1>4
  <2>2. n + 1 \in 1..N /\ n + 1 \in 0..N /\ (n + 1) - 1 = n /\ n \in Nat /\ n \in 0..N
    BY <1>2
  <2>3. f[n] \in Seq(S) /\ s[n + 1] \in S
    BY <1>1, <2>2
  <2>4. f[n + 1] = IF s[n + 1] \in keep THEN Append(f[n], s[n + 1]) ELSE f[n]
    BY <1>1, <2>2
  <2> DEFINE t == f[n]
  <2> HIDE DEF t
  <2>5. /\ s[n + 1] \in keep => \E h : KeepsPlaces(Append(t, s[n + 1]), s, keep, n + 1, h)
        /\ s[n + 1] \notin keep => KeepsPlaces(t, s, keep, n + 1, g)
    <3>1. t \in Seq(S) /\ KeepsPlaces(t, s, keep, n, g)
      BY <2>1, <2>3 DEF t
    <3> QED BY <2>2, <2>3, <3>1, PlacesGrow
  <2>6. \E h : KeepsPlaces(f[n + 1], s, keep, n + 1, h)
    BY <2>4, <2>5 DEF t
  <2> QED BY <2>2, <2>6
<1>5. N \in Good
  <2>1. Good \in SUBSET Nat
    OBVIOUS
  <2> HIDE DEF Good
  <2>2. 0..N \subseteq Good
    BY <1>2, <1>3, <1>4, <2>1, TurnByTurn
  <2> QED BY <1>2, <2>2
<1> QED BY <1>1, <1>2, <1>5

\* What is kept is what is in the list and in keep.
LEMMA MatchingOf ==
  ASSUME NEW S, NEW s \in Seq(S), NEW keep
  PROVE  /\ Matching(s, keep) \in Seq(S)
         /\ \A k \in DOMAIN Matching(s, keep) :
              \E i \in DOMAIN s : s[i] \in keep /\ Matching(s, keep)[k] = s[i]
         /\ \A i \in DOMAIN s : s[i] \in keep =>
              \E k \in DOMAIN Matching(s, keep) : Matching(s, keep)[k] = s[i]
<1> DEFINE t == Matching(s, keep)
<1>1. t \in Seq(S) /\ \E g : KeepsPlaces(t, s, keep, Len(s), g)
  BY MatchingPlaces
<1> HIDE DEF t
<1>2. PICK g : /\ g \in [1..Len(t) -> 1..Len(s)]
               /\ \A k \in 1..Len(t) : t[k] = s[g[k]] /\ s[g[k]] \in keep
               /\ \A i \in 1..Len(s) : s[i] \in keep => \E k \in 1..Len(t) : g[k] = i
  BY <1>1 DEF KeepsPlaces
<1>3. DOMAIN t = 1..Len(t) /\ DOMAIN s = 1..Len(s)
  BY <1>1
<1>4. \A k \in DOMAIN t : \E i \in DOMAIN s : s[i] \in keep /\ t[k] = s[i]
  BY <1>2, <1>3
<1>5. \A i \in DOMAIN s : s[i] \in keep => \E k \in DOMAIN t : t[k] = s[i]
  BY <1>2, <1>3
<1> QED BY <1>1, <1>4, <1>5 DEF t

\* A loop that keeps every element returns the list.
LEMMA MatchingAll ==
  ASSUME NEW S, NEW s \in Seq(S), NEW keep, \A i \in DOMAIN s : s[i] \in keep
  PROVE  Matching(s, keep) = s
<1>0. PICK f : IsMatchingRun(f, S, s, keep)
  BY MatchingLoop
<1> DEFINE N == Len(s)
           Good == {n \in 0..N : Len(f[n]) = n /\ \A k \in 1..n : f[n][k] = s[k]}
<1>1. /\ f \in [0..N -> Seq(S)] /\ f[0] = <<>>
      /\ \A n \in 1..N : f[n] = Append(f[n - 1], s[n])
      /\ Matching(s, keep) = f[N]
  <2>1. \A n \in 1..N : s[n] \in keep
    OBVIOUS
  <2> QED BY <1>0, <2>1 DEF IsMatchingRun
<1>2. N \in Nat /\ DOMAIN s = 1..N
  OBVIOUS
<1>3. 0 \in Good
  BY <1>1, <1>2
<1>4. ASSUME NEW n \in 0..(N - 1), n \in Good PROVE n + 1 \in Good
  <2>1. n + 1 \in 1..N /\ n + 1 \in 0..N /\ (n + 1) - 1 = n /\ n \in 0..N
    BY <1>2
  <2>2. f[n] \in Seq(S) /\ s[n + 1] \in S /\ Len(f[n]) = n /\ \A k \in 1..n : f[n][k] = s[k]
    <3>1. Len(f[n]) = n /\ \A k \in 1..n : f[n][k] = s[k]
      BY <1>4
    <3>2. f[n] \in Seq(S)
      BY <1>1, <2>1
    <3>3. s[n + 1] \in S
      BY <2>1
    <3> QED BY <3>1, <3>2, <3>3
  <2>3. f[n + 1] = Append(f[n], s[n + 1])
    BY <1>1, <2>1
  <2>4. /\ Len(f[n + 1]) = n + 1
        /\ \A k \in 1..n : f[n + 1][k] = s[k]
        /\ f[n + 1][n + 1] = s[n + 1]
    BY <2>2, <2>3, AppendProperties
  <2>5. \A k \in 1..(n + 1) : k \in 1..n \/ k = n + 1
    BY <2>1
  <2> QED BY <2>1, <2>4, <2>5
<1>5. N \in Good
  <2>1. Good \in SUBSET Nat
    OBVIOUS
  <2> HIDE DEF Good
  <2>2. 0..N \subseteq Good
    BY <1>2, <1>3, <1>4, <2>1, TurnByTurn
  <2> QED BY <1>2, <2>2
<1>6. f[N] \in Seq(S) /\ Len(f[N]) = N /\ \A k \in 1..N : f[N][k] = s[k]
  BY <1>1, <1>2, <1>5
<1> QED BY <1>1, <1>2, <1>6

\* What append() does to a list, typed by its own elements.
LEMMA AppendGrows ==
  ASSUME NEW S, NEW s \in Seq(S), S = ToSet(s), NEW x
  PROVE  /\ Append(s, x) \in Seq(ToSet(Append(s, x)))
         /\ Len(Append(s, x)) = Len(s) + 1
         /\ DOMAIN Append(s, x) = 1..(Len(s) + 1)
         /\ \A i \in DOMAIN s : Append(s, x)[i] = s[i]
         /\ Append(s, x)[Len(s) + 1] = x
<1> DEFINE T == S \cup {x}
           t == Append(s, x)
<1>1. s \in Seq(T) /\ x \in T
  OBVIOUS
<1>2. /\ t \in Seq(T) /\ Len(t) = Len(s) + 1 /\ DOMAIN t = 1..(Len(s) + 1)
      /\ \A i \in 1..Len(s) : t[i] = s[i]
      /\ t[Len(s) + 1] = x
  <2> HIDE DEF T
  <2> QED BY <1>1, AppendProperties
<1>3. t \in Seq(ToSet(t))
  <2>1. \A i \in 1..Len(t) : t[i] \in ToSet(t)
    BY <1>2 DEF ToSet
  <2>2. t = [i \in 1..Len(t) |-> t[i]] /\ Len(t) \in Nat
    <3> HIDE DEF t, T
    <3> QED BY <1>2
  <2> HIDE DEF t, T
  <2> QED BY <2>1, <2>2
<1> QED BY <1>2, <1>3

-----------------------------------------------------------------------------

\* The loop of Total, number by number.
IsTotalRun(f, s) ==
  /\ f \in [0..Len(s) -> Int]
  /\ f[0] = 0
  /\ \A n \in 1..Len(s) : f[n] = f[n - 1] + s[n]
  /\ Total(s) = f[Len(s)]

LEMMA TotalLoop ==
  ASSUME NEW s \in Seq(Int)
  PROVE  \E f : IsTotalRun(f, s)
<1> DEFINE N == Len(s)
           Turn == [p \in (1..N) \X Int |-> p[2] + s[p[1]]]
           Body(f) == [n \in 0..N |-> IF n = 0 THEN 0 ELSE f[n - 1] + s[n]]
           F == CHOOSE f : f = Body(f)
<1>1. N \in Nat /\ \A n \in 1..N : s[n] \in Int
  OBVIOUS
<1>2. Turn \in [(1..N) \X Int -> Int]
  <2> HIDE DEF N
  <2> QED BY <1>1
<1>3. PICK f \in [0..N -> Int] : /\ f[0] = 0
                                /\ \A n \in 1..N : f[n] = Turn[<<n, f[n - 1]>>]
  <2> DEFINE zero == 0
  <2>1. zero \in Int
    OBVIOUS
  <2> HIDE DEF Turn, N, zero
  <2>2. \E f : IsRun(f, Int, zero, N, Turn)
    BY <1>1, <1>2, <2>1, LoopRuns
  <2> QED BY <2>2 DEF zero, IsRun
<1>4. f = Body(f)
  <2>1. ASSUME NEW n \in 1..N PROVE f[n] = f[n - 1] + s[n]
    <3>1. f[n - 1] \in Int /\ <<n, f[n - 1]>> \in (1..N) \X Int
      <4> HIDE DEF N
      <4> QED BY <1>1
    <3> QED BY <1>3, <3>1
  <2>2. \A n \in 0..N : n = 0 \/ n \in 1..N
    BY <1>1
  <2> HIDE DEF N
  <2> QED BY <1>3, <2>1, <2>2
<1>5. F = Body(F)
  <2> HIDE DEF Body
  <2> QED BY <1>4
<1>6. Total(s) = F[N]
  BY DEF Total
<1>7. /\ F[0] = 0
      /\ \A n \in 1..N : F[n] = F[n - 1] + s[n]
      /\ DOMAIN F = 0..N
      /\ F = [n \in 0..N |-> F[n]]
  <2> HIDE DEF F, N
  <2>1. 0 \in 0..N /\ \A n \in 1..N : n \in 0..N /\ n # 0
    BY <1>1
  <2> QED BY <1>5, <2>1
<1> HIDE DEF F, N
<1>8. \A n \in 0..N : F[n] \in Int
  <2> DEFINE Good == {n \in 0..N : F[n] \in Int}
  <2>1. 0 \in Good
    BY <1>1, <1>7
  <2>2. ASSUME NEW n \in 0..(N - 1), n \in Good PROVE n + 1 \in Good
    <3>1. n + 1 \in 1..N /\ n + 1 \in 0..N /\ (n + 1) - 1 = n /\ F[n] \in Int
      BY <1>1, <2>2
    <3>2. s[n + 1] \in Int /\ F[n + 1] = F[n] + s[n + 1]
      BY <1>1, <1>7, <3>1
    <3> QED BY <3>1, <3>2
  <2>3. Good \in SUBSET Nat
    OBVIOUS
  <2> HIDE DEF Good
  <2>4. 0..N \subseteq Good
    BY <1>1, <2>1, <2>2, <2>3, TurnByTurn
  <2> QED BY <2>4 DEF Good
<1>9. F \in [0..N -> Int]
  BY <1>7, <1>8
<1> QED BY <1>6, <1>7, <1>9 DEF N, IsTotalRun

\* A sum of integers is one.
LEMMA TotalType == ASSUME NEW s \in Seq(Int) PROVE Total(s) \in Int
<1>1. PICK f : IsTotalRun(f, s)
  BY TotalLoop
<1> QED BY <1>1 DEF IsTotalRun

\* One more number.
LEMMA TotalNext ==
  ASSUME NEW s \in Seq(Int), NEW t \in Seq(Int), Len(t) = Len(s) + 1,
         \A i \in 1..Len(s) : t[i] = s[i]
  PROVE  Total(t) = Total(s) + t[Len(t)]
<1>1. PICK f : IsTotalRun(f, s)
  BY TotalLoop
<1>2. PICK g : IsTotalRun(g, t)
  BY TotalLoop
<1> DEFINE N == Len(s)
           Good == {n \in 0..N : g[n] = f[n]}
<1>3. N \in Nat /\ Len(t) = N + 1
  OBVIOUS
<1>4. /\ f[0] = 0 /\ \A n \in 1..N : f[n] = f[n - 1] + s[n]
      /\ Total(s) = f[N]
  BY <1>1 DEF IsTotalRun
<1>5. /\ g[0] = 0 /\ \A n \in 1..(N + 1) : g[n] = g[n - 1] + t[n]
      /\ Total(t) = g[N + 1]
  BY <1>2 DEF IsTotalRun
<1>6. \A i \in 1..N : t[i] = s[i]
  OBVIOUS
<1> HIDE DEF N
<1>7. 0 \in Good
  BY <1>3, <1>4, <1>5
<1>8. ASSUME NEW n \in 0..(N - 1), n \in Good PROVE n + 1 \in Good
  <2>1. n + 1 \in 1..N /\ n + 1 \in 1..(N + 1) /\ n + 1 \in 0..N /\ (n + 1) - 1 = n
    BY <1>3
  <2>2. g[n + 1] = g[n] + t[n + 1] /\ f[n + 1] = f[n] + s[n + 1] /\ t[n + 1] = s[n + 1]
    BY <1>4, <1>5, <1>6, <2>1
  <2> QED BY <1>8, <2>1, <2>2
<1>9. N \in Good
  <2>1. Good \in SUBSET Nat
    OBVIOUS
  <2> HIDE DEF Good
  <2>2. 0..N \subseteq Good
    BY <1>3, <1>7, <1>8, <2>1, TurnByTurn
  <2> QED BY <1>3, <2>2
<1>10. g[N + 1] = g[N] + t[N + 1]
  <2>1. N + 1 \in 1..(N + 1) /\ (N + 1) - 1 = N
    BY <1>3
  <2> QED BY <1>5, <2>1
<1> QED BY <1>3, <1>4, <1>5, <1>9, <1>10

\* A sum of sums, and of multiples.
LEMMA TotalAdds ==
  ASSUME NEW s \in Seq(Int), NEW t \in Seq(Int), NEW u \in Seq(Int), NEW c \in Int,
         Len(t) = Len(s), Len(u) = Len(s),
         \A i \in 1..Len(s) : u[i] = s[i] + c * t[i]
  PROVE  Total(u) = Total(s) + c * Total(t)
<1>1. PICK f : IsTotalRun(f, s)
  BY TotalLoop
<1>2. PICK g : IsTotalRun(g, t)
  BY TotalLoop
<1>3. PICK h : IsTotalRun(h, u)
  BY TotalLoop
<1> DEFINE N == Len(s)
           Good == {n \in 0..N : h[n] = f[n] + c * g[n]}
<1>4. N \in Nat /\ Len(t) = N /\ Len(u) = N
      /\ \A i \in 1..N : u[i] = s[i] + c * t[i] /\ s[i] \in Int /\ t[i] \in Int
  OBVIOUS
<1>5. /\ f[0] = 0 /\ \A n \in 1..N : f[n] = f[n - 1] + s[n]
      /\ Total(s) = f[N] /\ f \in [0..N -> Int]
  BY <1>1 DEF IsTotalRun
<1>6. /\ g[0] = 0 /\ \A n \in 1..N : g[n] = g[n - 1] + t[n]
      /\ Total(t) = g[N] /\ g \in [0..N -> Int]
  BY <1>2, <1>4 DEF IsTotalRun
<1>7. /\ h[0] = 0 /\ \A n \in 1..N : h[n] = h[n - 1] + u[n]
      /\ Total(u) = h[N]
  BY <1>3, <1>4 DEF IsTotalRun
<1> HIDE DEF N
<1>8. 0 \in Good
  <2>1. c * 0 = 0
    OBVIOUS
  <2>2. h[0] = 0 /\ f[0] = 0 /\ g[0] = 0 /\ 0 \in 0..N
    BY <1>4, <1>5, <1>6, <1>7
  <2>3. f[0] + c * g[0] = 0 + c * 0
    BY <2>2
  <2>4. h[0] = f[0] + c * g[0]
    BY <2>1, <2>2, <2>3
  <2> QED BY <2>2, <2>4
<1>9. ASSUME NEW n \in 0..(N - 1), n \in Good PROVE n + 1 \in Good
  <2>1. n + 1 \in 1..N /\ n + 1 \in 0..N /\ (n + 1) - 1 = n /\ n \in 0..N
    BY <1>4
  <2>2. /\ h[n + 1] = h[n] + u[n + 1] /\ f[n + 1] = f[n] + s[n + 1]
        /\ g[n + 1] = g[n] + t[n + 1] /\ u[n + 1] = s[n + 1] + c * t[n + 1]
        /\ h[n] = f[n] + c * g[n]
    BY <1>4, <1>5, <1>6, <1>7, <1>9, <2>1
  <2>3. f[n] \in Int /\ g[n] \in Int /\ s[n + 1] \in Int /\ t[n + 1] \in Int
    BY <1>4, <1>5, <1>6, <2>1
  <2>5. h[n + 1] = f[n + 1] + c * g[n + 1]
    <3> DEFINE x == f[n]
               y == g[n]
               v == s[n + 1]
               w == t[n + 1]
    <3>1. /\ h[n + 1] = (x + c * y) + (v + c * w)
          /\ f[n + 1] = x + v /\ g[n + 1] = y + w
      BY <2>2
    <3>2. x \in Int /\ y \in Int /\ v \in Int /\ w \in Int
      BY <2>3
    <3> HIDE DEF x, y, v, w
    <3>3. (x + c * y) + (v + c * w) = (x + v) + c * (y + w)
      BY <3>2
    <3> QED BY <3>1, <3>3
  <2> QED BY <2>1, <2>5
<1>10. N \in Good
  <2>1. Good \in SUBSET Nat
    OBVIOUS
  <2> HIDE DEF Good
  <2>2. 0..N \subseteq Good
    BY <1>4, <1>8, <1>9, <2>1, TurnByTurn
  <2> QED BY <1>4, <2>2
<1> QED BY <1>5, <1>6, <1>7, <1>10

\* Greater numbers have a greater sum, and the same sum only when they are the same.
LEMMA TotalGrows ==
  ASSUME NEW s \in Seq(Int), NEW t \in Seq(Int), Len(t) = Len(s),
         \A i \in 1..Len(s) : s[i] <= t[i]
  PROVE  /\ Total(s) <= Total(t)
         /\ Total(s) = Total(t) => \A i \in 1..Len(s) : s[i] = t[i]
<1>1. PICK f : IsTotalRun(f, s)
  BY TotalLoop
<1>2. PICK g : IsTotalRun(g, t)
  BY TotalLoop
<1> DEFINE N == Len(s)
           Good == {n \in 0..N : /\ f[n] <= g[n]
                                 /\ f[n] = g[n] => \A i \in 1..n : s[i] = t[i]}
<1>3. N \in Nat /\ Len(t) = N
      /\ \A i \in 1..N : s[i] <= t[i] /\ s[i] \in Int /\ t[i] \in Int
  OBVIOUS
<1>4. /\ f[0] = 0 /\ \A n \in 1..N : f[n] = f[n - 1] + s[n]
      /\ Total(s) = f[N] /\ f \in [0..N -> Int]
  BY <1>1 DEF IsTotalRun
<1>5. /\ g[0] = 0 /\ \A n \in 1..N : g[n] = g[n - 1] + t[n]
      /\ Total(t) = g[N] /\ g \in [0..N -> Int]
  BY <1>2, <1>3 DEF IsTotalRun
<1> HIDE DEF N
<1>6. 0 \in Good
  BY <1>3, <1>4, <1>5
<1>7. ASSUME NEW n \in 0..(N - 1), n \in Good PROVE n + 1 \in Good
  <2>1. n + 1 \in 1..N /\ n + 1 \in 0..N /\ (n + 1) - 1 = n /\ n \in 0..N
    BY <1>3
  <2>2. /\ f[n + 1] = f[n] + s[n + 1] /\ g[n + 1] = g[n] + t[n + 1]
        /\ s[n + 1] <= t[n + 1] /\ f[n] <= g[n]
        /\ f[n] \in Int /\ g[n] \in Int /\ s[n + 1] \in Int /\ t[n + 1] \in Int
    BY <1>3, <1>4, <1>5, <1>7, <2>1
  <2>3. f[n + 1] <= g[n + 1] /\ (f[n + 1] = g[n + 1] => f[n] = g[n] /\ s[n + 1] = t[n + 1])
    BY <2>2
  <2>4. f[n + 1] = g[n + 1] => \A i \in 1..(n + 1) : s[i] = t[i]
    <3>1. \A i \in 1..(n + 1) : i \in 1..n \/ i = n + 1
      BY <2>1
    <3>2. f[n] = g[n] => \A i \in 1..n : s[i] = t[i]
      BY <1>7
    <3> QED BY <2>3, <3>1, <3>2
  <2> QED BY <2>1, <2>3, <2>4
<1>8. N \in Good
  <2>1. Good \in SUBSET Nat
    OBVIOUS
  <2> HIDE DEF Good
  <2>2. 0..N \subseteq Good
    BY <1>3, <1>6, <1>7, <2>1, TurnByTurn
  <2> QED BY <1>3, <2>2
<1> QED BY <1>4, <1>5, <1>8 DEF N

\* The first number and the k-th change places.
Swapped(t, s, k) ==
  /\ Len(t) = Len(s) /\ k \in 1..Len(s)
  /\ t[1] = s[k] /\ t[k] = s[1]
  /\ \A i \in 2..Len(s) : i # k => t[i] = s[i]

\* The order of the numbers is no matter.
LEMMA TotalSwapped ==
  ASSUME NEW s \in Seq(Int), NEW t \in Seq(Int), NEW k, Swapped(t, s, k)
  PROVE  Total(t) = Total(s)
<1>1. PICK f : IsTotalRun(f, s)
  BY TotalLoop
<1>2. PICK g : IsTotalRun(g, t)
  BY TotalLoop
<1> DEFINE N == Len(s)
           d(n) == IF 1 <= n /\ n < k THEN s[k] - s[1] ELSE 0
           Good == {n \in 0..N : g[n] = f[n] + d(n)}
<1>3. /\ N \in Nat /\ Len(t) = N /\ k \in 1..N /\ 1 \in 1..N
      /\ \A i \in 1..N : s[i] \in Int /\ t[i] \in Int
      /\ t[1] = s[k] /\ t[k] = s[1] /\ \A i \in 2..N : i # k => t[i] = s[i]
  BY DEF Swapped
<1>4. /\ f[0] = 0 /\ \A n \in 1..N : f[n] = f[n - 1] + s[n]
      /\ Total(s) = f[N] /\ f \in [0..N -> Int]
  BY <1>1 DEF IsTotalRun
<1>5. /\ g[0] = 0 /\ \A n \in 1..N : g[n] = g[n - 1] + t[n]
      /\ Total(t) = g[N]
  BY <1>2, <1>3 DEF IsTotalRun
<1> HIDE DEF N
<1>6. 0 \in Good
  <2>1. d(0) = 0 /\ 0 \in 0..N /\ g[0] = 0 /\ f[0] = 0
    BY <1>3, <1>4, <1>5
  <2> HIDE DEF d
  <2> QED BY <2>1
<1>7. ASSUME NEW n \in 0..(N - 1), n \in Good PROVE n + 1 \in Good
  <2>1. n + 1 \in 1..N /\ n + 1 \in 0..N /\ (n + 1) - 1 = n /\ n \in 0..N
    BY <1>3
  <2>2. /\ f[n + 1] = f[n] + s[n + 1] /\ g[n + 1] = g[n] + t[n + 1]
        /\ g[n] = f[n] + d(n) /\ f[n] \in Int
    BY <1>4, <1>5, <1>7, <2>1
  <2>3. d(n) + t[n + 1] = s[n + 1] + d(n + 1)
    <3>1. CASE n = 0
      BY <1>3, <2>1, <3>1
    <3>2. CASE n # 0 /\ n + 1 = k
      BY <1>3, <2>1, <3>2
    <3>3. CASE n # 0 /\ n + 1 # k
      <4>1. t[n + 1] = s[n + 1]
        BY <1>3, <2>1, <3>3
      <4>2. (1 <= n /\ n < k) <=> (1 <= n + 1 /\ n + 1 < k)
        BY <1>3, <2>1, <3>3
      <4>3. d(n) = d(n + 1) /\ d(n) \in Int
        BY <1>3, <4>2
      <4> HIDE DEF d
      <4> QED BY <1>3, <2>1, <4>1, <4>3
    <3> QED BY <3>1, <3>2, <3>3
  <2>4. d(n) \in Int /\ d(n + 1) \in Int /\ t[n + 1] \in Int /\ s[n + 1] \in Int
    BY <1>3, <2>1
  <2> HIDE DEF d
  <2>5. g[n + 1] = f[n + 1] + d(n + 1)
    <3> DEFINE x == f[n]
               y == d(n)
               z == d(n + 1)
               v == s[n + 1]
               w == t[n + 1]
    <3>1. /\ g[n + 1] = (x + y) + w /\ y + w = v + z
          /\ f[n + 1] + d(n + 1) = (x + v) + z
      BY <2>2, <2>3
    <3>2. x \in Int /\ y \in Int /\ z \in Int /\ v \in Int /\ w \in Int
      BY <2>2, <2>4
    <3> HIDE DEF x, y, z, v, w
    <3>3. (x + y) + w = (x + v) + z
      BY <3>1, <3>2
    <3> QED BY <3>1, <3>3
  <2> QED BY <2>1, <2>5
<1>8. N \in Good
  <2>1. Good \in SUBSET Nat
    OBVIOUS
  <2> HIDE DEF Good
  <2>2. 0..N \subseteq Good
    BY <1>3, <1>6, <1>7, <2>1, TurnByTurn
  <2> QED BY <1>3, <2>2
<1>9. d(N) = 0 /\ f[N] \in Int
  BY <1>3, <1>4
<1> HIDE DEF d
<1> QED BY <1>4, <1>5, <1>8, <1>9

\* Numbers by their places.
LEMMA ListOf ==
  ASSUME NEW X, NEW n \in Nat, NEW f \in [1..n -> X]
  PROVE  f \in Seq(X) /\ Len(f) = n /\ DOMAIN f = 1..n
OBVIOUS

\* The same number n times.
LEMMA TotalConstant ==
  ASSUME NEW n \in Nat, NEW c \in Int, NEW s \in [1..n -> Int],
         \A i \in 1..n : s[i] = c
  PROVE  Total(s) = c * n
<1>1. s \in Seq(Int) /\ Len(s) = n
  BY ListOf
<1>2. PICK f : IsTotalRun(f, s)
  BY <1>1, TotalLoop
<1>3. /\ f[0] = 0 /\ \A k \in 1..n : f[k] = f[k - 1] + c
      /\ Total(s) = f[n]
  BY <1>1, <1>2 DEF IsTotalRun
<1> DEFINE Good == {k \in 0..n : f[k] = c * k}
<1>4. 0 \in Good
  <2>1. c * 0 = 0
    OBVIOUS
  <2> QED BY <1>3, <2>1
<1>5. ASSUME NEW k \in 0..(n - 1), k \in Good PROVE k + 1 \in Good
  <2>1. k + 1 \in 1..n /\ k + 1 \in 0..n /\ (k + 1) - 1 = k
    OBVIOUS
  <2>2. f[k + 1] = f[k] + c
    BY <1>3, <2>1
  <2>3. c * k + c = c * (k + 1)
    OBVIOUS
  <2>4. f[k + 1] = c * (k + 1)
    BY <1>5, <2>2, <2>3
  <2> QED BY <2>1, <2>4
<1>6. n \in Good
  <2>1. Good \in SUBSET Nat
    OBVIOUS
  <2> HIDE DEF Good
  <2>2. 0..n \subseteq Good
    BY <1>4, <1>5, <2>1, TurnByTurn
  <2> QED BY <2>2
<1> QED BY <1>3, <1>6

\* To add ones and zeros is to count the ones.
LEMMA TotalMarks ==
  ASSUME NEW n \in Nat, NEW s \in [1..n -> {0, 1}]
  PROVE  Total(s) = Cardinality({i \in 1..n : s[i] = 1})
<1>1. s \in [1..n -> Int]
  OBVIOUS
<1>2. s \in Seq(Int) /\ Len(s) = n
  BY <1>1, ListOf
<1>3. PICK f : IsTotalRun(f, s)
  BY <1>2, TotalLoop
<1>4. /\ f[0] = 0 /\ \A k \in 1..n : f[k] = f[k - 1] + s[k]
      /\ Total(s) = f[n]
  BY <1>2, <1>3 DEF IsTotalRun
<1> DEFINE Marked(k) == {i \in 1..k : s[i] = 1}
           Good == {k \in 0..n : f[k] = Cardinality(Marked(k))}
<1>5. 0 \in Good
  <2>1. Marked(0) = {}
    OBVIOUS
  <2> QED BY <1>4, <2>1, FS_EmptySet
<1>6. ASSUME NEW k \in 0..(n - 1), k \in Good PROVE k + 1 \in Good
  <2>1. k + 1 \in 1..n /\ k + 1 \in 0..n /\ (k + 1) - 1 = k
    OBVIOUS
  <2>2. f[k + 1] = f[k] + s[k + 1] /\ f[k] = Cardinality(Marked(k))
    BY <1>4, <1>6, <2>1
  <2>3. IsFiniteSet(Marked(k)) /\ Cardinality(Marked(k)) \in Nat
    <3>1. IsFiniteSet(1..k)
      BY FS_Interval
    <3>2. Marked(k) \subseteq 1..k
      OBVIOUS
    <3> HIDE DEF Marked
    <3> QED BY <3>1, <3>2, FS_Subset, FS_CardinalityType
  <2>4. CASE s[k + 1] = 1
    <3>1. Marked(k + 1) = Marked(k) \cup {k + 1} /\ k + 1 \notin Marked(k)
      BY <2>4
    <3>2. Cardinality(Marked(k) \cup {k + 1}) = Cardinality(Marked(k)) + 1
      <4> HIDE DEF Marked
      <4> QED BY <2>3, <3>1, FS_AddElement
    <3>3. f[k + 1] = Cardinality(Marked(k + 1))
      <4> HIDE DEF Marked
      <4> QED BY <2>2, <2>4, <3>1, <3>2
    <3> QED BY <2>1, <3>3
  <2>5. CASE s[k + 1] = 0
    <3>1. Marked(k + 1) = Marked(k)
      BY <2>5
    <3>2. f[k + 1] = Cardinality(Marked(k + 1))
      <4> HIDE DEF Marked
      <4> QED BY <2>2, <2>3, <2>5, <3>1
    <3> QED BY <2>1, <3>2
  <2> QED BY <2>1, <2>4, <2>5
<1>7. n \in Good
  <2>1. Good \in SUBSET Nat
    OBVIOUS
  <2> HIDE DEF Good
  <2>2. 0..n \subseteq Good
    BY <1>5, <1>6, <2>1, TurnByTurn
  <2> QED BY <2>2
<1> QED BY <1>4, <1>7

-----------------------------------------------------------------------------

\* A loop within a loop: the numbers of n rows and n columns.
Cells(n) == (1..n) \X (1..n)
Row(m, n, i) == Total([j \in 1..n |-> m[<<i, j>>]])
Rows(m, n) == [i \in 1..n |-> Row(m, n, i)]
Grid(m, n) == Total(Rows(m, n))

LEMMA RowType ==
  ASSUME NEW n \in Nat, NEW m \in [Cells(n) -> Int], NEW i \in 1..n
  PROVE  /\ [j \in 1..n |-> m[<<i, j>>]] \in Seq(Int)
         /\ Len([j \in 1..n |-> m[<<i, j>>]]) = n
         /\ Row(m, n, i) \in Int
<1> DEFINE row == [j \in 1..n |-> m[<<i, j>>]]
<1>1. row \in [1..n -> Int]
  BY DEF Cells
<1> HIDE DEF row
<1>2. row \in Seq(Int) /\ Len(row) = n
  BY <1>1, ListOf
<1>3. Total(row) \in Int
  BY <1>2, TotalType
<1> QED BY <1>2, <1>3 DEF row, Row

LEMMA GridType ==
  ASSUME NEW n \in Nat, NEW m \in [Cells(n) -> Int]
  PROVE  /\ Rows(m, n) \in Seq(Int)
         /\ Len(Rows(m, n)) = n
         /\ \A i \in 1..n : Rows(m, n)[i] = Row(m, n, i)
         /\ Grid(m, n) \in Int
<1>1. Rows(m, n) \in [1..n -> Int]
  BY RowType DEF Rows
<1>2. \A i \in 1..n : Rows(m, n)[i] = Row(m, n, i)
  BY DEF Rows
<1>3. Rows(m, n) \in Seq(Int) /\ Len(Rows(m, n)) = n
  BY <1>1, ListOf
<1> QED BY <1>2, <1>3, TotalType DEF Grid

\* Two grids, and a multiple of one, cell by cell.
LEMMA GridAdds ==
  ASSUME NEW n \in Nat, NEW c \in Int, NEW a \in [Cells(n) -> Int],
         NEW b \in [Cells(n) -> Int], NEW m \in [Cells(n) -> Int],
         \A p \in Cells(n) : m[p] = a[p] + c * b[p]
  PROVE  Grid(m, n) = Grid(a, n) + c * Grid(b, n)
<1>1. ASSUME NEW i \in 1..n
      PROVE  Row(m, n, i) = Row(a, n, i) + c * Row(b, n, i)
  <2> DEFINE r(x) == [j \in 1..n |-> x[<<i, j>>]]
             ra == r(a)
             rb == r(b)
             rm == r(m)
  <2>1. /\ ra \in Seq(Int) /\ Len(ra) = n
        /\ rb \in Seq(Int) /\ Len(rb) = n
        /\ rm \in Seq(Int) /\ Len(rm) = n
    BY RowType
  <2>2. \A j \in 1..n : rm[j] = ra[j] + c * rb[j]
    BY DEF Cells
  <2>3. Row(m, n, i) = Total(rm) /\ Row(a, n, i) = Total(ra) /\ Row(b, n, i) = Total(rb)
    BY DEF Row
  <2> HIDE DEF ra, rb, rm
  <2>4. /\ Len(rb) = Len(ra) /\ Len(rm) = Len(ra)
        /\ \A j \in 1..Len(ra) : rm[j] = ra[j] + c * rb[j]
    BY <2>1, <2>2
  <2>5. Total(rm) = Total(ra) + c * Total(rb)
    BY <2>1, <2>4, TotalAdds, ZenonT(30)
  <2> QED BY <2>3, <2>5
<1> DEFINE ra == Rows(a, n)
           rb == Rows(b, n)
           rm == Rows(m, n)
<1>2. /\ ra \in Seq(Int) /\ Len(ra) = n
      /\ rb \in Seq(Int) /\ Len(rb) = n
      /\ rm \in Seq(Int) /\ Len(rm) = n
      /\ \A i \in 1..n : rm[i] = ra[i] + c * rb[i]
  BY <1>1, GridType
<1>3. Grid(m, n) = Total(rm) /\ Grid(a, n) = Total(ra) /\ Grid(b, n) = Total(rb)
  BY DEF Grid
<1> HIDE DEF ra, rb, rm
<1>4. /\ Len(rb) = Len(ra) /\ Len(rm) = Len(ra)
      /\ \A i \in 1..Len(ra) : rm[i] = ra[i] + c * rb[i]
  BY <1>2
<1>5. Total(rm) = Total(ra) + c * Total(rb)
  BY <1>2, <1>4, TotalAdds, ZenonT(30)
<1> QED BY <1>3, <1>5

\* Greater cells, and equal sums only of equal cells.
LEMMA GridGrows ==
  ASSUME NEW n \in Nat, NEW a \in [Cells(n) -> Int], NEW b \in [Cells(n) -> Int],
         \A p \in Cells(n) : a[p] <= b[p]
  PROVE  /\ Grid(a, n) <= Grid(b, n)
         /\ Grid(a, n) = Grid(b, n) => \A p \in Cells(n) : a[p] = b[p]
<1>1. ASSUME NEW i \in 1..n
      PROVE  /\ Row(a, n, i) <= Row(b, n, i)
             /\ Row(a, n, i) = Row(b, n, i) => \A j \in 1..n : a[<<i, j>>] = b[<<i, j>>]
  <2> DEFINE ra == [j \in 1..n |-> a[<<i, j>>]]
             rb == [j \in 1..n |-> b[<<i, j>>]]
  <2>1. ra \in Seq(Int) /\ Len(ra) = n /\ rb \in Seq(Int) /\ Len(rb) = n
    BY RowType
  <2>2. \A j \in 1..n : ra[j] <= rb[j] /\ ra[j] = a[<<i, j>>] /\ rb[j] = b[<<i, j>>]
    BY DEF Cells
  <2>3. Row(a, n, i) = Total(ra) /\ Row(b, n, i) = Total(rb)
    BY DEF Row
  <2> HIDE DEF ra, rb
  <2>4. /\ Total(ra) <= Total(rb)
        /\ Total(ra) = Total(rb) => \A j \in 1..n : ra[j] = rb[j]
    BY <2>1, <2>2, TotalGrows
  <2> QED BY <2>2, <2>3, <2>4
<1> DEFINE ra == Rows(a, n)
           rb == Rows(b, n)
<1>2. /\ ra \in Seq(Int) /\ Len(ra) = n /\ rb \in Seq(Int) /\ Len(rb) = n
      /\ \A i \in 1..n : /\ ra[i] = Row(a, n, i) /\ rb[i] = Row(b, n, i)
                         /\ ra[i] <= rb[i]
  BY <1>1, GridType
<1>3. Grid(a, n) = Total(ra) /\ Grid(b, n) = Total(rb)
  BY DEF Grid
<1> HIDE DEF ra, rb
<1>4. /\ Total(ra) <= Total(rb)
      /\ Total(ra) = Total(rb) => \A i \in 1..n : ra[i] = rb[i]
  BY <1>2, TotalGrows
<1>5. ASSUME Total(ra) = Total(rb), NEW p \in Cells(n) PROVE a[p] = b[p]
  <2>1. PICK i \in 1..n, j \in 1..n : p = <<i, j>>
    BY DEF Cells
  <2>2. Row(a, n, i) = Row(b, n, i)
    BY <1>2, <1>4, <1>5
  <2> QED BY <1>1, <2>1, <2>2
<1> QED BY <1>3, <1>4, <1>5

\* Row by row or column by column.
LEMMA GridTransposed ==
  ASSUME NEW n \in Nat, NEW m \in [Cells(n) -> Int], NEW t \in [Cells(n) -> Int],
         \A i, j \in 1..n : t[<<i, j>>] = m[<<j, i>>]
  PROVE  Grid(t, n) = Grid(m, n)
<1> DEFINE Upper(k) == [i \in 1..k |-> Row(m, n, i)]
           Column(k, j) == [i \in 1..k |-> m[<<i, j>>]]
           Left(k) == [j \in 1..n |-> Total(Column(k, j))]
           Good == {k \in 0..n : Total(Upper(k)) = Total(Left(k))}
<1>1. ASSUME NEW k \in 0..n
      PROVE  Upper(k) \in Seq(Int) /\ Len(Upper(k)) = k
  <2> DEFINE u == Upper(k)
  <2>1. u \in [1..k -> Int] /\ k \in Nat
    BY RowType
  <2> HIDE DEF u
  <2>2. u \in Seq(Int) /\ Len(u) = k
    BY <2>1, ListOf
  <2> QED BY <2>2 DEF u
<1>2. ASSUME NEW k \in 0..n, NEW j \in 1..n
      PROVE  /\ Column(k, j) \in Seq(Int) /\ Len(Column(k, j)) = k
             /\ Total(Column(k, j)) \in Int
  <2> DEFINE u == Column(k, j)
  <2>1. u \in [1..k -> Int] /\ k \in Nat
    BY DEF Cells
  <2> HIDE DEF u
  <2>2. u \in Seq(Int) /\ Len(u) = k
    BY <2>1, ListOf
  <2>3. Total(u) \in Int
    BY <2>2, TotalType
  <2> QED BY <2>2, <2>3 DEF u
<1>3. ASSUME NEW k \in 0..n
      PROVE  /\ Left(k) \in Seq(Int) /\ Len(Left(k)) = n
             /\ \A j \in 1..n : Left(k)[j] = Total(Column(k, j))
  <2> DEFINE u == Left(k)
  <2>1. \A j \in 1..n : u[j] = Total(Column(k, j)) /\ u[j] \in Int
    <3> HIDE DEF Column
    <3> QED BY <1>2
  <2>2. u \in [1..n -> Int]
    <3> HIDE DEF Column
    <3> QED BY <1>2
  <2> HIDE DEF u
  <2>3. u \in Seq(Int) /\ Len(u) = n
    BY <2>2, ListOf
  <2> HIDE DEF Column
  <2> QED BY <2>1, <2>3 DEF u
<1>4. 0 \in Good
  <2>1. Upper(0) \in Seq(Int) /\ Len(Upper(0)) = 0 /\ 0 \in 0..n
    BY <1>1
  <2>2. Total(Upper(0)) = 0
    <3> DEFINE u == Upper(0)
    <3>1. u \in Seq(Int) /\ Len(u) = 0
      BY <2>1
    <3> HIDE DEF u
    <3>2. PICK f : IsTotalRun(f, u)
      BY <3>1, TotalLoop
    <3>3. Total(u) = 0
      BY <3>1, <3>2 DEF IsTotalRun
    <3> QED BY <3>3 DEF u
  <2>3. \A j \in 1..n : Total(Column(0, j)) = 0
    <3> SUFFICES ASSUME NEW j \in 1..n PROVE Total(Column(0, j)) = 0
      OBVIOUS
    <3> DEFINE u == Column(0, j)
    <3>1. u \in Seq(Int) /\ Len(u) = 0
      BY <1>2, <2>1
    <3> HIDE DEF u
    <3>2. PICK f : IsTotalRun(f, u)
      BY <3>1, TotalLoop
    <3>3. Total(u) = 0
      BY <3>1, <3>2 DEF IsTotalRun
    <3> QED BY <3>3 DEF u
  <2>4. Total(Left(0)) = 0
    <3> DEFINE u == Left(0)
               zero == 0
    <3>1. u \in [1..n -> Int] /\ \A j \in 1..n : u[j] = zero
      <4> HIDE DEF Column
      <4> QED BY <2>3
    <3>2. Total(u) = zero * n
      <4> HIDE DEF u
      <4>1. zero \in Int
        OBVIOUS
      <4> HIDE DEF zero
      <4> QED BY <3>1, <4>1, TotalConstant
    <3> HIDE DEF u
    <3>3. Total(u) = 0
      BY <3>2
    <3> QED BY <3>3 DEF u
  <2> HIDE DEF Upper, Left
  <2> QED BY <2>1, <2>2, <2>4
<1>5. ASSUME NEW k \in 0..(n - 1), k \in Good PROVE k + 1 \in Good
  <2>1. k \in 0..n /\ k + 1 \in 0..n /\ k + 1 \in 1..n
    OBVIOUS
  <2>2. Total(Upper(k + 1)) = Total(Upper(k)) + Row(m, n, k + 1)
    <3> DEFINE u == Upper(k)
               v == Upper(k + 1)
    <3>1. /\ u \in Seq(Int) /\ Len(u) = k /\ v \in Seq(Int) /\ Len(v) = k + 1
      BY <1>1, <2>1
    <3>2. \A i \in 1..k : v[i] = u[i]
      BY <2>1
    <3>3. v[k + 1] = Row(m, n, k + 1)
      BY <2>1
    <3> HIDE DEF u, v
    <3>4. Total(v) = Total(u) + v[Len(v)]
      BY <3>1, <3>2, TotalNext
    <3> QED BY <3>1, <3>3, <3>4 DEF u, v
  <2>3. ASSUME NEW j \in 1..n
        PROVE  Total(Column(k + 1, j)) = Total(Column(k, j)) + m[<<k + 1, j>>]
    <3> DEFINE u == Column(k, j)
               v == Column(k + 1, j)
    <3>1. /\ u \in Seq(Int) /\ Len(u) = k /\ v \in Seq(Int) /\ Len(v) = k + 1
      BY <1>2, <2>1
    <3>2. \A i \in 1..k : v[i] = u[i]
      BY <2>1
    <3>3. v[k + 1] = m[<<k + 1, j>>]
      BY <2>1
    <3> HIDE DEF u, v
    <3>4. Total(v) = Total(u) + v[Len(v)]
      BY <3>1, <3>2, TotalNext
    <3> QED BY <3>1, <3>3, <3>4 DEF u, v
  <2>4. Total(Left(k + 1)) = Total(Left(k)) + Row(m, n, k + 1)
    <3> DEFINE u == Left(k)
               v == Left(k + 1)
               w == [j \in 1..n |-> m[<<k + 1, j>>]]
               one == 1
    <3>1. /\ u \in Seq(Int) /\ Len(u) = n /\ v \in Seq(Int) /\ Len(v) = n
          /\ \A j \in 1..n : /\ u[j] = Total(Column(k, j)) /\ u[j] \in Int
                             /\ v[j] = Total(Column(k + 1, j))
      <4> HIDE DEF Left, Column
      <4> QED BY <1>2, <1>3, <2>1
    <3>2. w \in Seq(Int) /\ Len(w) = n /\ \A j \in 1..n : w[j] = m[<<k + 1, j>>] /\ w[j] \in Int
      <4>1. \A j \in 1..n : w[j] = m[<<k + 1, j>>] /\ w[j] \in Int
        BY <2>1 DEF Cells
      <4> QED BY <2>1, <4>1, RowType
    <3>3. \A j \in 1..n : v[j] = u[j] + one * w[j]
      <4> SUFFICES ASSUME NEW j \in 1..n PROVE v[j] = u[j] + one * w[j]
        OBVIOUS
      <4>1. u[j] \in Int /\ w[j] \in Int
        <5> HIDE DEF u, w
        <5> QED BY <3>1, <3>2
      <4>2. v[j] = u[j] + w[j]
        <5> HIDE DEF u, v, w, Column
        <5> QED BY <2>3, <3>1, <3>2
      <4> HIDE DEF u, v, w
      <4> QED BY <4>1, <4>2
    <3>4. Row(m, n, k + 1) = Total(w)
      BY DEF Row
    <3>5. one \in Int /\ Total(w) \in Int
      BY <2>1, <3>4, RowType
    <3> HIDE DEF u, v, w
    <3>6. Total(v) = Total(u) + one * Total(w)
      <4> HIDE DEF one
      <4>1. /\ Len(w) = Len(u) /\ Len(v) = Len(u)
            /\ \A j \in 1..Len(u) : v[j] = u[j] + one * w[j]
        BY <3>1, <3>2, <3>3
      <4> QED BY <3>1, <3>2, <3>5, <4>1, TotalAdds, ZenonT(30)
    <3>7. Total(v) = Total(u) + Total(w)
      BY <3>5, <3>6
    <3> QED BY <3>4, <3>7 DEF u, v
  <2>5. Total(Upper(k)) = Total(Left(k))
    BY <1>5
  <2> HIDE DEF Upper, Left
  <2> QED BY <2>1, <2>2, <2>4, <2>5
<1>6. n \in Good
  <2>1. Good \in SUBSET Nat
    <3> HIDE DEF Upper, Left
    <3> QED OBVIOUS
  <2> HIDE DEF Good
  <2>2. 0..n \subseteq Good
    BY <1>4, <1>5, <2>1, TurnByTurn
  <2> QED BY <2>2
<1>7. Upper(n) = Rows(m, n)
  BY DEF Rows
<1>8. Left(n) = Rows(t, n)
  <2> SUFFICES ASSUME NEW j \in 1..n PROVE Total(Column(n, j)) = Row(t, n, j)
    BY DEF Rows
  <2>1. Column(n, j) = [i \in 1..n |-> t[<<j, i>>]]
    OBVIOUS
  <2> QED BY <2>1 DEF Row
<1> QED BY <1>6, <1>7, <1>8 DEF Grid

\* The first row changes places with the k-th, and the columns likewise.
Other(i, k) == IF i = 1 THEN k ELSE IF i = k THEN 1 ELSE i

LEMMA GridSwapped ==
  ASSUME NEW n \in Nat, NEW k \in 1..n,
         NEW m \in [Cells(n) -> Int], NEW t \in [Cells(n) -> Int],
         \A i, j \in 1..n : t[<<i, j>>] = m[<<Other(i, k), Other(j, k)>>]
  PROVE  Grid(t, n) = Grid(m, n)
<1>1. /\ 1 \in 1..n /\ Other(1, k) = k /\ Other(k, k) = 1
      /\ \A i \in 1..n : Other(i, k) \in 1..n
      /\ \A i \in 2..n : i # k => Other(i, k) = i
  BY DEF Other
<1>2. ASSUME NEW i \in 1..n
      PROVE  Row(t, n, i) = Row(m, n, Other(i, k))
  <2> DEFINE o == Other(i, k)
             rt == [j \in 1..n |-> t[<<i, j>>]]
             rm == [j \in 1..n |-> m[<<o, j>>]]
  <2>0. o \in 1..n
    BY <1>1
  <2>1. rt \in Seq(Int) /\ Len(rt) = n /\ rm \in Seq(Int) /\ Len(rm) = n
    <3> HIDE DEF o
    <3> QED BY <2>0, RowType
  <2>2. \A j \in 1..n : rt[j] = m[<<o, Other(j, k)>>] /\ rm[j] = m[<<o, j>>]
    OBVIOUS
  <2>3. Row(t, n, i) = Total(rt) /\ Row(m, n, o) = Total(rm)
    BY DEF Row
  <2> HIDE DEF rt, rm, o
  <2>4. Swapped(rt, rm, k)
    <3>1. \A j \in 1..n : rt[j] = rm[Other(j, k)]
      BY <1>1, <2>2
    <3>2. rt[1] = rm[k] /\ rt[k] = rm[1]
      BY <1>1, <3>1
    <3>3. \A j \in 2..n : j # k => rt[j] = rm[j]
      <4>1. \A j \in 2..n : j \in 1..n
        OBVIOUS
      <4> QED BY <1>1, <3>1, <4>1
    <3> QED BY <2>1, <3>2, <3>3 DEF Swapped
  <2>5. Total(rt) = Total(rm)
    BY <2>1, <2>4, TotalSwapped
  <2> QED BY <2>3, <2>5 DEF o
<1> DEFINE rt == Rows(t, n)
           rm == Rows(m, n)
<1>3. /\ rt \in Seq(Int) /\ Len(rt) = n /\ rm \in Seq(Int) /\ Len(rm) = n
      /\ \A i \in 1..n : rt[i] = Row(t, n, i) /\ rm[i] = Row(m, n, i)
  BY GridType
<1>4. Grid(t, n) = Total(rt) /\ Grid(m, n) = Total(rm)
  BY DEF Grid
<1> HIDE DEF rt, rm
<1>5. Swapped(rt, rm, k)
  <2>1. \A i \in 1..n : rt[i] = rm[Other(i, k)]
    BY <1>1, <1>2, <1>3
  <2>2. rt[1] = rm[k] /\ rt[k] = rm[1]
    BY <1>1, <2>1
  <2>3. \A i \in 2..n : i # k => rt[i] = rm[i]
    <3>1. \A i \in 2..n : i \in 1..n
      OBVIOUS
    <3> QED BY <1>1, <2>1, <3>1
  <2> QED BY <1>3, <2>2, <2>3 DEF Swapped
<1> QED BY <1>3, <1>4, <1>5, TotalSwapped
=============================================================================
