----------------------------- MODULE Recursion -----------------------------
(***************************************************************************)
(* A loop over 1 .. N that starts from First and goes on with Step, as the *)
(* parsers of the repository are modelled, and what makes it provable.  A  *)
(* module that proves something of such a loop takes an INSTANCE with its  *)
(* own First and Step; `c' is what they depend on besides the loop.        *)
(***************************************************************************)
EXTENDS Integers, FiniteSetTheorems, TLAPS

CONSTANTS First(_), Step(_, _, _)

\* The value after `N' rounds.
Loop(c, N) ==
  LET loop[n \in 0 .. N] == IF n = 0 THEN First(c) ELSE Step(c, loop[n - 1], n)
  IN loop[N]

(* Induction over the naturals, stated of a set.  If some n were left out, so    *)
(* would be the number before each that is left out up to n, which sends them to *)
(* fewer: two of them would go to the same place.                                *)
THEOREM Induction ==
  ASSUME NEW T, 0 \in T, \A n \in Nat : n \in T => n + 1 \in T
  PROVE  \A n \in Nat : n \in T
<1> SUFFICES ASSUME NEW n \in Nat, n \notin T PROVE FALSE
  OBVIOUS
<1> DEFINE C == {m \in 0 .. n : m \notin T}
           D == C \ {n}
           f == [m \in C |-> m - 1]
<1>1. IsFiniteSet(C) /\ n \in C
  <2>1. IsFiniteSet(0 .. n)
    BY FS_Interval
  <2>2. C \subseteq 0 .. n
    OBVIOUS
  <2>3. n \in C
    OBVIOUS
  <2> QED BY <2>1, <2>2, <2>3, FS_Subset
<1>2. IsFiniteSet(D) /\ Cardinality(D) < Cardinality(C)
  <2>1. Cardinality(D) = Cardinality(C) - 1 /\ IsFiniteSet(D)
    BY <1>1, FS_RemoveElement
  <2>2. Cardinality(C) \in Nat
    BY <1>1, FS_CardinalityType
  <2> QED BY <2>1, <2>2
<1>3. f \in [C -> D]
  OBVIOUS
<1>4. \E x, y \in C : x # y /\ f[x] = f[y]
  <2> HIDE DEF C, D, f
  <2> QED BY <1>1, <1>2, <1>3, FS_PigeonHole
<1> QED BY <1>4

(* Every set of naturals that is not empty has a least element. *)
LEMMA LeastElement ==
  ASSUME NEW I, I \subseteq Nat, I # {}
  PROVE  \E x \in I : \A y \in I : x <= y
<1> SUFFICES ASSUME \A x \in I : \E y \in I : ~(x <= y) PROVE FALSE
  OBVIOUS
<1> DEFINE T == {n \in Nat : \A m \in 0 .. n : m \notin I}
<1>1. 0 \in T
  OBVIOUS
<1>2. \A n \in Nat : n \in T => n + 1 \in T
  OBVIOUS
<1>3. \A n \in Nat : n \in T
  <2> HIDE DEF T
  <2> QED BY <1>1, <1>2, Induction
<1>4. PICK n \in I : TRUE
  OBVIOUS
<1>5. n \in T /\ n \in Nat
  BY <1>3
<1> QED BY <1>5

(* The function a loop is written as exists. *)
LEMMA LoopExists ==
  ASSUME NEW c, NEW N \in Nat
  PROVE  \E f : f = [n \in 0 .. N |-> IF n = 0 THEN First(c) ELSE Step(c, f[n - 1], n)]
<1> DEFINE Is(f, M) == f = [n \in 0 .. M |-> IF n = 0 THEN First(c) ELSE Step(c, f[n - 1], n)]
           T == {M \in Nat : \E f : Is(f, M)}
<1>1. 0 \in T
  <2> DEFINE f == [n \in 0 .. 0 |-> First(c)]
  <2>1. Is(f, 0)
    OBVIOUS
  <2> QED BY <2>1
<1>2. ASSUME NEW M \in Nat, M \in T PROVE M + 1 \in T
  <2>1. PICK f : Is(f, M)
    BY <1>2
  <2> DEFINE g == [n \in 0 .. M + 1 |-> IF n = M + 1 THEN Step(c, f[M], n) ELSE f[n]]
  <2>2. ASSUME NEW n \in 0 .. M + 1
        PROVE  g[n] = IF n = 0 THEN First(c) ELSE Step(c, g[n - 1], n)
    <3>1. CASE n = M + 1
      BY <3>1
    <3>2. CASE n # M + 1
      <4>1. n \in 0 .. M /\ g[n] = f[n] /\ (n # 0 => g[n - 1] = f[n - 1])
        BY <3>2
      <4> QED BY <4>1, <2>1
    <3> QED BY <3>1, <3>2
  <2>3. Is(g, M + 1)
    <3> HIDE DEF g
    <3>1. g = [n \in 0 .. M + 1 |-> g[n]]
      BY DEF g
    <3> QED BY <3>1, <2>2
  <2>4. \E h : Is(h, M + 1)
    <3> HIDE DEF g, Is
    <3> QED BY <2>3
  <2> HIDE DEF Is
  <2> QED BY <2>4
<1>3. \A M \in Nat : M \in T
  <2> HIDE DEF T
  <2> QED BY <1>1, <1>2, Induction
<1>4. N \in T
  BY <1>3
<1> QED BY <1>4

(* Two functions written as the same loop agree where both are defined. *)
LEMMA LoopUnique ==
  ASSUME NEW c, NEW M \in Nat, NEW N \in Nat, M <= N, NEW f, NEW g,
         f = [n \in 0 .. M |-> IF n = 0 THEN First(c) ELSE Step(c, f[n - 1], n)],
         g = [n \in 0 .. N |-> IF n = 0 THEN First(c) ELSE Step(c, g[n - 1], n)]
  PROVE  \A n \in 0 .. M : f[n] = g[n]
<1> DEFINE T == {n \in Nat : n <= M => f[n] = g[n]}
<1>1. 0 \in T
  OBVIOUS
<1>2. ASSUME NEW n \in Nat, n \in T PROVE n + 1 \in T
  <2> SUFFICES ASSUME n + 1 <= M PROVE f[n + 1] = g[n + 1]
    OBVIOUS
  <2>1. f[n] = g[n]
    BY <1>2
  <2>2. f[n + 1] = Step(c, f[n], n + 1)
    OBVIOUS
  <2>3. g[n + 1] = Step(c, g[n], n + 1)
    OBVIOUS
  <2> QED BY <2>1, <2>2, <2>3
<1>3. \A n \in Nat : n \in T
  <2> HIDE DEF T
  <2> QED BY <1>1, <1>2, Induction
<1> SUFFICES ASSUME NEW n \in 0 .. M PROVE f[n] = g[n]
  OBVIOUS
<1>4. n \in Nat /\ n <= M
  OBVIOUS
<1>5. n \in T
  <2> HIDE DEF T
  <2> QED BY <1>3, <1>4
<1> QED BY <1>4, <1>5

(* A loop of no round. *)
THEOREM LoopZero ==
  ASSUME NEW c
  PROVE  Loop(c, 0) = First(c)
<1> DEFINE Is(f) == f = [n \in 0 .. 0 |-> IF n = 0 THEN First(c) ELSE Step(c, f[n - 1], n)]
           loop == CHOOSE f : Is(f)
<1>1. \E f : Is(f)
  BY LoopExists
<1>2. Is(loop)
  BY <1>1
<1>3. Loop(c, 0) = loop[0]
  BY DEF Loop
<1>4. loop[0] = First(c)
  <2> HIDE DEF loop
  <2> QED BY <1>2
<1> QED BY <1>3, <1>4

(* A loop of one more round. *)
THEOREM LoopNext ==
  ASSUME NEW c, NEW n \in Nat
  PROVE  Loop(c, n + 1) = Step(c, Loop(c, n), n + 1)
<1> DEFINE Is(f, N) == f = [m \in 0 .. N |-> IF m = 0 THEN First(c) ELSE Step(c, f[m - 1], m)]
           short == CHOOSE f : Is(f, n)
           long == CHOOSE f : Is(f, n + 1)
<1>1. Is(short, n) /\ Is(long, n + 1)
  <2>1. \E f : Is(f, n)
    BY LoopExists
  <2>2. \E f : Is(f, n + 1)
    <3>1. n + 1 \in Nat
      OBVIOUS
    <3> QED BY <3>1, LoopExists
  <2> QED BY <2>1, <2>2
<1>2. Loop(c, n) = short[n] /\ Loop(c, n + 1) = long[n + 1]
  BY DEF Loop
<1>3. short[n] = long[n]
  <2> HIDE DEF short, long
  <2> QED BY <1>1, LoopUnique
<1>4. long[n + 1] = Step(c, long[n], n + 1)
  <2> HIDE DEF short, long
  <2> QED BY <1>1
<1> QED BY <1>2, <1>3, <1>4

=============================================================================
