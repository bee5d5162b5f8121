--------------------------- MODULE LeastElements ----------------------------
(***************************************************************************)
(* A nonempty set of natural numbers has a least element, and what follows *)
(* for functions that are defined by recursion over an interval 0..n.      *)
(***************************************************************************)
EXTENDS Naturals, WellFoundedInduction, TLAPS

Less == {p \in Nat \X Nat : p[1] < p[2]}

\* What the searches of src/fs/edit.rs and src/fetch/mod.rs for the first
\* position with some property rest on.
LEMMA HasLeast ==
    ASSUME NEW S \in SUBSET Nat, S # {}
    PROVE  \E n \in S : \A m \in S : n <= m
<1>1. OpToRel(<, Nat) = Less
  BY DEF OpToRel, Less
<1>2. PICK n \in S : \A m \in S : <<m, n>> \notin Less
  BY <1>1, NatLessThanWellFounded, WFMin
<1>3. ASSUME NEW m \in S PROVE n <= m
  <2>1. <<m, n>> \notin Less /\ m \in Nat /\ n \in Nat
    BY <1>2
  <2> QED
    BY <2>1 DEF Less
<1> QED
  BY <1>3

LEMMA HasGreatest ==
    ASSUME NEW n \in Nat, NEW S \in SUBSET (0..n), S # {}
    PROVE  \E m \in S : \A k \in S : k <= m
<1> DEFINE left == {k \in 0..n : n - k \in S}
<1>1. left \in SUBSET Nat /\ left # {}
  <2>1. PICK k \in S : TRUE
    OBVIOUS
  <2>2. n - k \in 0..n /\ n - (n - k) = k
    BY <2>1
  <2>3. n - k \in left
    BY <2>1, <2>2
  <2>4. left \in SUBSET Nat
    OBVIOUS
  <2> HIDE DEF left
  <2> QED
    BY <2>3, <2>4
<1>2. PICK m \in left : \A k \in left : m <= k
  <2> HIDE DEF left
  <2> QED
    BY <1>1, HasLeast
<1>3. ASSUME NEW k \in S PROVE k <= n - m
  <2>1. n - k \in 0..n /\ n - (n - k) = k
    OBVIOUS
  <2>2. m <= n - k
    BY <1>2, <2>1
  <2> QED
    BY <1>2, <2>1, <2>2
<1> QED
  BY <1>2, <1>3
-----------------------------------------------------------------------------
(* Functions defined by recursion *)

\* Counting from nought reaches every number of an interval.
LEMMA CountUp ==
    ASSUME NEW n \in Nat, NEW S \in SUBSET (0..n), 0 \in S, \A i \in 1..n : i - 1 \in S => i \in S
    PROVE  S = 0..n
<1> DEFINE Missed == (0..n) \ S
<1>1. SUFFICES ASSUME Missed # {} PROVE FALSE
  OBVIOUS
<1>2. PICK m \in Missed : \A k \in Missed : m <= k
  <2>1. Missed \in SUBSET Nat
    OBVIOUS
  <2> HIDE DEF Missed
  <2> QED
    BY <1>1, <2>1, HasLeast
<1>3. m \in 1..n /\ m - 1 \in 0..n /\ ~(m <= m - 1)
  OBVIOUS
<1>4. m - 1 \in S
  BY <1>2, <1>3
<1> QED
  BY <1>3, <1>4

\* The steps lead from each set of a sequence of sets to the next one.
Leads(step, S, n) == \A i \in 1..n : \A x \in S[i - 1] : step[i][x] \in S[i]
\* The runs of the steps from x.
IsRun(g, step, x, n) ==
    /\ g = [i \in 0..n |-> g[i]]
    /\ g[0] = x
    /\ \A i \in 1..n : g[i] = step[i][g[i - 1]]

\* A recursive function over an interval exists: take a step of it from each number to the next.
LEMMA Iterates ==
    ASSUME NEW n \in Nat, NEW step, NEW x
    PROVE  \E g : IsRun(g, step, x, n)
<1> DEFINE Reached == {k \in 0..n : \E g : IsRun(g, step, x, k)}
<1>1. 0 \in Reached
  <2>1. IsRun([i \in 0..0 |-> x], step, x, 0)
    BY DEF IsRun
  <2> QED
    BY <2>1
<1>2. ASSUME NEW k \in 1..n, k - 1 \in Reached PROVE k \in Reached
  <2>1. PICK g : IsRun(g, step, x, k - 1)
    BY <1>2
  <2> DEFINE h == [i \in 0..k |-> IF i = k THEN step[k][g[k - 1]] ELSE g[i]]
  <2>2. ASSUME NEW i \in 1..k PROVE h[i] = step[i][h[i - 1]]
    <3>1. i - 1 \in 0..k /\ i \in 0..k /\ i - 1 # k /\ h[i - 1] = g[i - 1]
      OBVIOUS
    <3>2. CASE i = k
      BY <3>1, <3>2
    <3>3. CASE i # k
      <4>1. i \in 1..k - 1
        BY <3>3
      <4> QED
        BY <2>1, <3>1, <3>3, <4>1 DEF IsRun
    <3> QED
      BY <3>2, <3>3
  <2>3. h[0] = x /\ h = [i \in 0..k |-> h[i]]
    BY <2>1 DEF IsRun
  <2>4. IsRun(h, step, x, k)
    BY <2>2, <2>3 DEF IsRun
  <2> QED
    BY <2>4
<1>3. Reached = 0..n
  BY <1>1, <1>2, CountUp
<1> QED
  BY <1>3

\* Where a function goes on as the steps do, it stays in their sets.
LEMMA StaysWithin ==
    ASSUME NEW n \in Nat, NEW step, NEW S, Leads(step, S, n),
           NEW f, f[0] \in S[0],
           \A i \in 1..n : f[i - 1] \in S[i - 1] => f[i] = step[i][f[i - 1]]
    PROVE  \A i \in 0..n : f[i] \in S[i]
<1> DEFINE Inside == {i \in 0..n : f[i] \in S[i]}
<1>1. 0 \in Inside
  OBVIOUS
<1>2. ASSUME NEW i \in 1..n, i - 1 \in Inside PROVE i \in Inside
  BY <1>2 DEF Leads
<1>3. Inside = 0..n
  BY <1>1, <1>2, CountUp
<1> QED
  BY <1>3
=============================================================================
