------------------------------ MODULE Recursion -------------------------------
(***************************************************************************)
(* What the proofs need to reason about functions defined by recursion on  *)
(* a number: TimerList follows pointers, Log goes through a file.          *)
(***************************************************************************)
EXTENDS Naturals, WellFoundedInduction, TLAPS

\* A nonempty set of numbers has a least element.  Proofs by induction take
\* the least counterexample.
LEMMA LeastNumber ==
    ASSUME NEW S \in SUBSET Nat, S # {}
    PROVE  \E n \in S : \A m \in S : n <= m
<1>1. PICK n \in S : \A m \in S : ~(<<m, n>> \in OpToRel(<, Nat))
  BY NatLessThanWellFounded, WFMin
<1>2. \A m \in Nat : m < n => <<m, n>> \in OpToRel(<, Nat)
  <2> SUFFICES ASSUME NEW m \in Nat, m < n
               PROVE  <<m, n>> \in OpToRel(<, Nat)
    OBVIOUS
  <2>1. <<m, n>> \in Nat \X Nat /\ <<m, n>>[1] < <<m, n>>[2]
    OBVIOUS
  <2> QED
    BY <2>1, Zenon DEF OpToRel
<1>3. \A m \in S : ~(m < n)
  BY <1>1, <1>2
<1>4. \A m \in S : n <= m
  BY <1>3
<1> QED
  BY <1>4

\* g[k] is the value reached from v in k steps of f, which is told the step.
Run(g, V, v, f, N) ==
    /\ g \in [0..N -> V]
    /\ g[0] = v
    /\ \A k \in 1..N : g[k] = f[<<k, g[k - 1]>>]

\* There is such a function, which is what makes a recursive definition mean
\* what it says.
LEMMA RunExists ==
    ASSUME NEW V, NEW v \in V, NEW N \in Nat, NEW f \in [(1..N) \X V -> V]
    PROVE  \E g : Run(g, V, v, f, N)
<1> DEFINE Good(n) == \E g : Run(g, V, v, f, n)
           Bad == {n \in 0..N : ~Good(n)}
<1> SUFFICES ASSUME Bad # {} PROVE FALSE
  OBVIOUS
<1>0. Bad \in SUBSET Nat
  OBVIOUS
<1>1. PICK n \in Bad : \A m \in Bad : n <= m
  BY <1>0, LeastNumber
<1>2. n # 0
  <2>1. [k \in 0..0 |-> v] \in [0..0 -> V] /\ [k \in 0..0 |-> v][0] = v
    OBVIOUS
  <2>2. \A k \in 1..0 : FALSE
    OBVIOUS
  <2>3. Good(0)
    BY <2>1, <2>2 DEF Run
  <2> QED
    BY <2>3
<1>3. n \in 1..N /\ n - 1 \in 0..N /\ Good(n - 1)
  <2> HIDE DEF Good
  <2> QED
    BY <1>1, <1>2
<1>4. PICK g : Run(g, V, v, f, n - 1)
  BY <1>3
<1> DEFINE h == [k \in 0..n |-> IF k = n THEN f[<<n, g[n - 1]>>] ELSE g[k]]
<1>5. n - 1 \in 0..(n - 1) /\ g[n - 1] \in V /\ f[<<n, g[n - 1]>>] \in V
  BY <1>3, <1>4 DEF Run
<1>6. h \in [0..n -> V] /\ h[0] = v
  BY <1>3, <1>4, <1>5 DEF Run
<1>7. ASSUME NEW k \in 1..n PROVE h[k] = f[<<k, h[k - 1]>>]
  <2>1. k - 1 \in 0..n /\ k - 1 # n /\ h[k - 1] = g[k - 1]
    BY <1>3
  <2>2. CASE k = n
    BY <1>3, <2>1, <2>2
  <2>3. CASE k # n
    <3>1. k \in 1..(n - 1) /\ h[k] = g[k]
      BY <1>3, <2>3
    <3> QED
      BY <1>4, <2>1, <3>1 DEF Run
  <2> QED
    BY <2>2, <2>3
<1> QED
  BY <1>6, <1>7 DEF Run
=============================================================================
