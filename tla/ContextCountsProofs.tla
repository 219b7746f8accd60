------------------------- MODULE ContextCountsProofs --------------------------
(***************************************************************************)
(* What is proved of the counts of the contexts, for every alphabet and    *)
(* every MAX_FREQ whose sums fit into two bytes (CountsAssumption; the 256 *)
(* symbols and the 124 of the code do): each operation of the models of    *)
(* PPMd7 and PPMd8 that changes a count keeps Roomy, that is, SummFreq is  *)
(* above the sum of the frequencies, so that the escape has a share, and   *)
(* within two bytes; every frequency is within its byte and at least 1;    *)
(* and rescaling takes symbols away at full order only.                    *)
(*                                                                         *)
(* A model is here any record with contexts (IsModel).  What an operation  *)
(* does is first stated as a change of one context (Changed), whose new    *)
(* states and sum are then shown to have room (ContextOK).                 *)
(***************************************************************************)
EXTENDS ContextCounts, WellFoundedInduction, FiniteSetTheorems, TLAPS

\* The bounds the counts have, without the one of their products.
LEMMA Bounds ==
    /\ MAX_FREQ \in 8..246 /\ MAX_FREQ \in Nat
    /\ TextSize \in Nat /\ Cardinality(Symbols) \in Nat
<1>1. MAX_FREQ \in 8..246 /\ TextSize \in Nat
  BY CountsAssumption
<1>2. Cardinality(Symbols) \in Nat
  BY CountsAssumption, FS_CardinalityType
<1> QED BY <1>1, <1>2

\* A set of numbers has a least one: induction.
LEMMA LeastNumber ==
    ASSUME NEW S \in SUBSET Nat, S # {}
    PROVE  \E m \in S : \A k \in S : m <= k
<1> DEFINE R == OpToRel(<, Nat)
<1>1. IsWellFoundedOn(R, Nat)
  BY NatLessThanWellFounded
<1>2. \A i \in Nat, j \in Nat : i < j => <<i, j>> \in R
  BY DEF OpToRel
<1> HIDE DEF R
<1>3. PICK m \in S : \A k \in S : ~(<<k, m>> \in R)
  BY <1>1, WFMin
<1>4. ASSUME NEW k \in S PROVE m <= k
  <2>1. m \in Nat /\ k \in Nat /\ ~(k < m)
    BY <1>2, <1>3
  <2> QED BY <2>1
<1> QED BY <1>4

\* A set that has 0 and with each number below n the next one has them all.
LEMMA Climb ==
    ASSUME NEW n \in Nat, NEW S, 0 \in S, \A i \in 0..(n - 1) : i \in S => i + 1 \in S
    PROVE  \A i \in 0..n : i \in S
<1> SUFFICES ASSUME (0..n) \ S # {} PROVE FALSE
  OBVIOUS
<1>1. PICK m \in (0..n) \ S : \A k \in (0..n) \ S : m <= k
  <2> DEFINE T == (0..n) \ S
  <2>1. T \in SUBSET Nat /\ T # {}
    OBVIOUS
  <2> HIDE DEF T
  <2>2. \E m \in T : \A k \in T : m <= k
    BY <2>1, LeastNumber
  <2> QED BY <2>2 DEF T
<1>2. m \in 1..n /\ m - 1 \in 0..(n - 1) /\ (m - 1) + 1 = m
  OBVIOUS
<1>3. m - 1 \in S
  BY <1>1, <1>2
<1> QED BY <1>2, <1>3

\* The greatest number of a set of the first ones.
LEMMA MaxOf ==
    ASSUME NEW n \in Nat, NEW s \in SUBSET (1..n), s # {}
    PROVE  Max(s) \in s /\ \A y \in s : Max(s) >= y
<1> DEFINE T == {n - y : y \in s}
<1>1. T \in SUBSET Nat /\ T # {}
  <2>1. \A y \in s : n - y \in Nat
    OBVIOUS
  <2>2. PICK y \in s : TRUE
    OBVIOUS
  <2>3. n - y \in T
    OBVIOUS
  <2> QED BY <2>1, <2>3
<1>2. PICK m \in T : \A k \in T : m <= k
  BY <1>1, LeastNumber
<1>3. PICK x \in s : m = n - x
  BY <1>2
<1>4. \A y \in s : x >= y
  <2> SUFFICES ASSUME NEW y \in s PROVE x >= y
    OBVIOUS
  <2>1. n - y \in T
    OBVIOUS
  <2> HIDE DEF T
  <2>2. n - x <= n - y /\ x \in Nat /\ y \in Nat
    BY <1>2, <1>3, <2>1
  <2> QED BY <2>2
<1> QED BY <1>4 DEF Max

\* That of the first ones themselves.
LEMMA MaxOfFirst ==
    ASSUME NEW n \in Nat, NEW k \in 1..n
    PROVE  Max(1..k) = k /\ (1..k) \ {k} = 1..(k - 1)
<1>1. (1..k) \in SUBSET (1..n) /\ k \in 1..k
  OBVIOUS
<1>2. Max(1..k) \in 1..k /\ Max(1..k) >= k
  BY <1>1, MaxOf
<1> QED BY <1>2

-------------------------------------------------------------------------------
(***************************************************************************)
(* Folds of a sequence: the function on sets of places that FoldLeft       *)
(* chooses exists.                                                         *)
(***************************************************************************)

\* h[<<i, v>>] is what the fold makes of v with the i-th item.
Folds(g, n, b, h) ==
    \A s \in SUBSET (1..n) : g[s] = IF s = {} THEN b ELSE h[<<Max(s), g[s \ {Max(s)}]>>]

\* The function that a fold over the first n numbers chooses exists.
LEMMA FoldExists ==
    ASSUME NEW n \in Nat, NEW V, NEW b \in V, NEW h \in [(1..n) \X V -> V]
    PROVE  \E g \in [SUBSET (1..n) -> V] : Folds(g, n, b, h)
<1> DEFINE S == {k \in 0..n : \E g \in [SUBSET (1..k) -> V] : Folds(g, k, b, h)}
<1>1. 0 \in S
  <2> DEFINE g == [s \in SUBSET (1..0) |-> b]
  <2>1. g \in [SUBSET (1..0) -> V]
    OBVIOUS
  <2>2. SUBSET (1..0) = {{}}
    OBVIOUS
  <2>3. Folds(g, 0, b, h)
    BY <2>2 DEF Folds
  <2> QED BY <2>1, <2>3
<1>2. ASSUME NEW k \in 0..(n - 1), k \in S PROVE k + 1 \in S
  <2>1. PICK g \in [SUBSET (1..k) -> V] : Folds(g, k, b, h)
    BY <1>2
  <2> DEFINE e == k + 1
             f == [s \in SUBSET (1..e) |-> IF e \in s THEN h[<<e, g[s \ {e}]>>] ELSE g[s]]
  <2>2. e \in 1..n /\ k \in Nat /\ e \in Nat
    OBVIOUS
  <2>3. ASSUME NEW s \in SUBSET (1..e)
        PROVE  s \ {e} \in SUBSET (1..k) /\ (e \notin s => s \in SUBSET (1..k))
    BY <2>2
  <2>4. f \in [SUBSET (1..e) -> V]
    BY <2>2, <2>3
  <2>5. ASSUME NEW s \in SUBSET (1..e)
        PROVE  f[s] = IF s = {} THEN b ELSE h[<<Max(s), f[s \ {Max(s)}]>>]
    <3>1. CASE e \in s
      <4>1. Max(s) = e
        <5>1. s # {} /\ \A y \in s : y <= e /\ y \in Int
          BY <2>2, <3>1
        <5>2. Max(s) \in s /\ \A y \in s : Max(s) >= y
          BY <2>2, <3>1, MaxOf
        <5> HIDE DEF e
        <5>3. Max(s) <= e /\ Max(s) >= e /\ Max(s) \in Int /\ e \in Int
          BY <2>2, <3>1, <5>1, <5>2
        <5> QED BY <5>3
      <4>2. f[s \ {e}] = g[s \ {e}]
        BY <2>3
      <4> QED BY <3>1, <4>1, <4>2
    <3>2. CASE e \notin s /\ s # {}
      <4>1. s \in SUBSET (1..k) /\ s \ {Max(s)} \in SUBSET (1..e) /\ e \notin s \ {Max(s)}
        BY <2>2, <2>3, <3>2
      <4>2. f[s] = g[s] /\ f[s \ {Max(s)}] = g[s \ {Max(s)}]
        BY <3>2, <4>1
      <4> QED BY <2>1, <3>2, <4>1, <4>2 DEF Folds
    <3>3. CASE s = {}
      BY <2>1, <2>3, <3>3 DEF Folds
    <3> QED BY <3>1, <3>2, <3>3
  <2> HIDE DEF f
  <2>6. Folds(f, e, b, h)
    BY <2>5 DEF Folds
  <2> QED BY <2>2, <2>4, <2>6
<1> HIDE DEF S
<1>3. n \in S
  BY <1>1, <1>2, Climb
<1> QED BY <1>3 DEF S

-------------------------------------------------------------------------------
(***************************************************************************)
(* The sum of the frequencies.                                             *)
(***************************************************************************)
State == [sym : Symbols, freq : Nat, succ : Nat]

\* What a choice for the fold of SumFreq satisfies.
Sums(g, q) ==
    g = [s \in SUBSET (1..Len(q)) |-> IF s = {} THEN 0 ELSE g[s \ {Max(s)}] + q[Max(s)].freq]

\* The sums of the first k frequencies, for every k.
Adds(p, q) ==
    /\ p \in [0..Len(q) -> Int] /\ p[0] = 0
    /\ \A i \in 0..(Len(q) - 1) : p[i + 1] = p[i] + q[i + 1].freq

\* The sum is what the chosen function has for all places.
LEMMA SumFreqIsFold ==
    ASSUME NEW q \in Seq(State)
    PROVE  SumFreq(q) = (CHOOSE g : Sums(g, q))[1..Len(q)]
<1>1. DOMAIN q = 1..Len(q)
  OBVIOUS
<1> QED BY <1>1, Zenon DEF SumFreq, FoldLeft, MapThenFoldSet, Sums

\* There is a function to choose.
LEMMA SumsExist ==
    ASSUME NEW q \in Seq(State)
    PROVE  \E g : Sums(g, q)
<1> DEFINE n == Len(q)
           h == [x \in (1..n) \X Nat |-> x[2] + q[x[1]].freq]
<1>1. n \in Nat /\ 0 \in Nat
  OBVIOUS
<1>2. h \in [(1..n) \X Nat -> Nat]
  <2> SUFFICES ASSUME NEW x \in (1..n) \X Nat PROVE x[2] + q[x[1]].freq \in Nat
    OBVIOUS
  <2>1. x[1] \in 1..n /\ x[2] \in Nat
    OBVIOUS
  <2>2. q[x[1]] \in State
    BY <2>1
  <2>3. q[x[1]].freq \in Nat
    BY <2>2 DEF State
  <2> QED BY <2>1, <2>3
<1> HIDE DEF n, h
<1>3. PICK g \in [SUBSET (1..n) -> Nat] : Folds(g, n, 0, h)
  BY <1>1, <1>2, FoldExists
<1>4. ASSUME NEW s \in SUBSET (1..n), s # {}
      PROVE  g[s] = g[s \ {Max(s)}] + q[Max(s)].freq
  <2>1. Max(s) \in 1..n /\ s \ {Max(s)} \in SUBSET (1..n)
    BY <1>1, <1>4, MaxOf
  <2>2. g[s \ {Max(s)}] \in Nat
    BY <2>1
  <2>3. g[s] = h[<<Max(s), g[s \ {Max(s)}]>>]
    BY <1>3, <1>4 DEF Folds
  <2> QED BY <2>1, <2>2, <2>3 DEF h
<1>5. ASSUME NEW s \in SUBSET (1..n), s = {} PROVE g[s] = 0
  BY <1>3, <1>5 DEF Folds
<1>6. g = [s \in SUBSET (1..n) |-> IF s = {} THEN 0 ELSE g[s \ {Max(s)}] + q[Max(s)].freq]
  BY <1>4, <1>5
<1> QED BY <1>6 DEF Sums, n

\* SumFreq is the last of the sums of the first frequencies.
LEMMA SumFreqAdds ==
    ASSUME NEW q \in Seq(State)
    PROVE  \E p \in [0..Len(q) -> Nat] : Adds(p, q) /\ SumFreq(q) = p[Len(q)]
<1> DEFINE n == Len(q)
           g == CHOOSE g : Sums(g, q)
           p == [k \in 0..n |-> g[1..k]]
<1>1. n \in Nat /\ \A i \in 1..n : q[i].freq \in Nat
  <2>1. \A s \in State : s.freq \in Nat
    BY DEF State
  <2>2. \A i \in 1..n : q[i] \in State
    OBVIOUS
  <2> QED BY <2>1, <2>2
<1>2. Sums(g, q)
  BY SumsExist
<1>3. SumFreq(q) = g[1..n]
  BY SumFreqIsFold
<1> HIDE DEF g
<1>4. p[0] = 0
  <2>1. g[{}] = 0
    BY <1>2 DEF Sums
  <2>2. 1..0 = {} /\ 0 \in 0..n
    BY <1>1
  <2> QED BY <2>1, <2>2
<1>5. ASSUME NEW i \in 0..(n - 1) PROVE p[i + 1] = p[i] + q[i + 1].freq
  <2>1. i + 1 \in 1..n /\ i \in 0..n /\ i + 1 \in 0..n /\ (i + 1) - 1 = i
    BY <1>1
  <2>2. Max(1..(i + 1)) = i + 1 /\ (1..(i + 1)) \ {i + 1} = 1..i
    BY <1>1, <2>1, MaxOfFirst
  <2>3. (1..(i + 1)) \in SUBSET (1..n) /\ 1..(i + 1) # {}
    <3>1. i + 1 \in 1..(i + 1)
      BY <2>1
    <3>2. \A k \in 1..(i + 1) : k \in 1..n
      BY <1>1, <2>1
    <3> QED BY <3>1, <3>2
  <2>4. g[1..(i + 1)] = g[1..i] + q[i + 1].freq
    BY <1>2, <2>2, <2>3 DEF Sums
  <2> QED BY <2>1, <2>4
<1>6. p[n] = g[1..n] /\ p = [k \in 0..n |-> p[k]]
  BY <1>1
<1> HIDE DEF p
<1> DEFINE S == {j \in 0..n : p[j] \in Nat}
<1>7. \A k \in 0..n : k \in S
  <2>1. 0 \in S
    BY <1>1, <1>4
  <2>2. ASSUME NEW i \in 0..(n - 1), i \in S PROVE i + 1 \in S
    <3>1. i + 1 \in 0..n /\ i + 1 \in 1..n
      BY <1>1
    <3>2. p[i] \in Nat /\ p[i + 1] = p[i] + q[i + 1].freq /\ q[i + 1].freq \in Nat
      BY <1>1, <1>5, <2>2, <3>1
    <3>3. p[i + 1] \in Nat
      BY <3>2
    <3> QED BY <3>1, <3>3
  <2> HIDE DEF S
  <2> QED BY <1>1, <2>1, <2>2, Climb
<1>8. p \in [0..n -> Nat]
  BY <1>6, <1>7
<1>9. Adds(p, q)
  BY <1>4, <1>5, <1>8 DEF Adds
<1> QED BY <1>3, <1>6, <1>8, <1>9

\* Two such sums are the same.
LEMMA AddsOnce ==
    ASSUME NEW q \in Seq(State), NEW p, Adds(p, q)
    PROVE  SumFreq(q) = p[Len(q)]
<1>1. PICK r : Adds(r, q) /\ SumFreq(q) = r[Len(q)]
  BY SumFreqAdds
<1> DEFINE n == Len(q)
           S == {k \in 0..n : p[k] = r[k]}
<1>2. n \in Nat
  OBVIOUS
<1>3. 0 \in S
  BY <1>1, <1>2 DEF Adds
<1>4. ASSUME NEW i \in 0..(n - 1), i \in S PROVE i + 1 \in S
  <2>1. i + 1 \in 0..n
    BY <1>2
  <2> QED BY <1>1, <1>4, <2>1 DEF Adds
<1> HIDE DEF S
<1>5. \A k \in 0..n : k \in S
  BY <1>2, <1>3, <1>4, Climb
<1>6. n \in 0..n
  BY <1>2
<1> QED BY <1>1, <1>5, <1>6 DEF S

\* The fields of a state of a sequence.
LEMMA StateAt ==
    ASSUME NEW q \in Seq(State), NEW i \in 1..Len(q)
    PROVE  q[i] \in State /\ q[i].sym \in Symbols /\ q[i].freq \in Nat /\ q[i].succ \in Nat
<1>1. q[i] \in State
  OBVIOUS
<1> QED BY <1>1 DEF State

\* It is a number.
LEMMA SumIsNat ==
    ASSUME NEW q \in Seq(State)
    PROVE  SumFreq(q) \in Nat /\ Len(q) \in Nat
<1>1. Len(q) \in Nat /\ Len(q) \in 0..Len(q)
  OBVIOUS
<1> QED BY <1>1, SumFreqAdds

\* One frequency is another.
LEMMA SumChanged ==
    ASSUME NEW q \in Seq(State), NEW r \in Seq(State), Len(r) = Len(q), NEW i \in 1..Len(q),
           \A j \in 1..Len(q) : j # i => r[j].freq = q[j].freq
    PROVE  SumFreq(r) = SumFreq(q) + (r[i].freq - q[i].freq)
<1>1. PICK p \in [0..Len(q) -> Nat] : Adds(p, q) /\ SumFreq(q) = p[Len(q)]
  BY SumFreqAdds
<1> DEFINE n == Len(q)
           d == r[i].freq - q[i].freq
           s == [k \in 0..n |-> IF k < i THEN p[k] ELSE p[k] + d]
<1>2. n \in Nat /\ i \in 1..n /\ \A j \in 1..n : q[j].freq \in Nat /\ r[j].freq \in Nat
  BY StateAt
<1>3. d \in Int /\ r[i].freq = q[i].freq + d
  BY <1>2
<1> HIDE DEF d
<1>4. s \in [0..n -> Int] /\ s[0] = 0
  BY <1>1, <1>2, <1>3 DEF Adds
<1>5. ASSUME NEW k \in 0..(n - 1) PROVE s[k + 1] = s[k] + r[k + 1].freq
  <2>1. k \in 0..n /\ k + 1 \in 0..n /\ k + 1 \in 1..n /\ p[k] \in Nat /\ p[k + 1] \in Nat
    BY <1>2
  <2>2. p[k + 1] = p[k] + q[k + 1].freq
    BY <1>1 DEF Adds
  <2>3. CASE k + 1 = i
    BY <1>2, <1>3, <2>1, <2>2, <2>3
  <2>4. CASE k + 1 # i
    <3>1. r[k + 1].freq = q[k + 1].freq
      BY <2>1, <2>4
    <3> QED BY <1>2, <1>3, <2>1, <2>2, <2>4, <3>1
  <2> QED BY <2>3, <2>4
<1>6. s[n] = p[n] + d
  BY <1>2
<1> HIDE DEF s
<1>7. Adds(s, r)
  BY <1>4, <1>5 DEF Adds
<1> QED BY <1>1, <1>6, <1>7, AddsOnce DEF d

\* Two neighbours change places.
LEMMA SumSwapped ==
    ASSUME NEW q \in Seq(State), NEW i \in 2..Len(q)
    PROVE  /\ Swapped(q, i) \in Seq(State) /\ Len(Swapped(q, i)) = Len(q)
           /\ \A j \in 1..Len(q) : Swapped(q, i)[j] =
                 IF j = i THEN q[i - 1] ELSE IF j = i - 1 THEN q[i] ELSE q[j]
           /\ SumFreq(Swapped(q, i)) = SumFreq(q)
<1>1. PICK p \in [0..Len(q) -> Nat] : Adds(p, q) /\ SumFreq(q) = p[Len(q)]
  BY SumFreqAdds
<1> DEFINE n == Len(q)
           r == Swapped(q, i)
           s == [k \in 0..n |-> IF k = i - 1 THEN p[i - 2] + q[i].freq ELSE p[k]]
<1>2. n \in Nat /\ i \in 2..n /\ i - 1 \in 1..n /\ i - 2 \in 0..(n - 1)
      /\ \A j \in 1..n : q[j].freq \in Nat
  BY StateAt
<1>3. r \in Seq(State) /\ Len(r) = n
  BY <1>2 DEF Swapped
<1>4. \A j \in 1..n : r[j] = IF j = i THEN q[i - 1] ELSE IF j = i - 1 THEN q[i] ELSE q[j]
  BY <1>2 DEF Swapped
<1> HIDE DEF r
<1>5. s \in [0..n -> Int] /\ s[0] = 0
  <2>1. \A k \in 0..n : p[k] \in Nat
    OBVIOUS
  <2>2. p[0] = 0
    BY <1>1 DEF Adds
  <2>3. p[i - 2] + q[i].freq \in Int /\ 0 \in 0..n /\ 0 # i - 1
    BY <1>2, <2>1
  <2>4. \A k \in 0..n : s[k] \in Int
    BY <2>1, <2>3
  <2>5. s = [k \in 0..n |-> s[k]]
    OBVIOUS
  <2>6. s[0] = 0
    BY <2>2, <2>3
  <2> HIDE DEF s
  <2> QED BY <2>4, <2>5, <2>6
<1>6. ASSUME NEW k \in 0..(n - 1) PROVE s[k + 1] = s[k] + r[k + 1].freq
  <2>1. k \in 0..n /\ k + 1 \in 0..n /\ k + 1 \in 1..n /\ p[k] \in Nat /\ p[k + 1] \in Nat
    BY <1>2
  <2>2. p[k + 1] = p[k] + q[k + 1].freq /\ p[i - 1] = p[i - 2] + q[i - 1].freq
    <3>1. (i - 2) + 1 = i - 1
      BY <1>2
    <3> QED BY <1>1, <1>2, <3>1 DEF Adds
  <2>3. CASE k + 1 = i - 1
    <3>1. k = i - 2 /\ r[k + 1] = q[i]
      BY <1>2, <1>4, <2>1, <2>3
    <3> QED BY <1>2, <2>1, <2>3, <3>1
  <2>4. CASE k + 1 = i
    <3>1. k = i - 1 /\ r[k + 1] = q[i - 1] /\ p[i - 2] \in Nat
      BY <1>2, <1>4, <2>1, <2>4
    <3>2. s[k] = p[i - 2] + q[i].freq /\ s[k + 1] = p[k + 1]
      BY <2>1, <3>1
    <3>3. r[k + 1].freq = q[i - 1].freq /\ q[k + 1].freq = q[i].freq
          /\ p[k] = p[i - 2] + q[i - 1].freq
      BY <2>2, <2>4, <3>1
    <3>4. q[i].freq \in Nat /\ q[i - 1].freq \in Nat
      BY <1>2
    <3> HIDE DEF s
    <3> QED BY <2>2, <3>1, <3>2, <3>3, <3>4
  <2>5. CASE k + 1 # i /\ k + 1 # i - 1
    <3>1. r[k + 1] = q[k + 1] /\ k # i - 1
      BY <1>2, <1>4, <2>1, <2>5
    <3> QED BY <2>1, <2>2, <2>5, <3>1
  <2> QED BY <2>3, <2>4, <2>5
<1>7. s[n] = p[n]
  BY <1>2
<1> HIDE DEF s
<1>8. Adds(s, r)
  BY <1>3, <1>5, <1>6 DEF Adds
<1>9. SumFreq(r) = SumFreq(q)
  BY <1>1, <1>3, <1>7, <1>8, AddsOnce
<1> QED BY <1>3, <1>4, <1>9 DEF r

\* A state at the end adds its frequency.
LEMMA SumAppended ==
    ASSUME NEW q \in Seq(State), NEW x \in State
    PROVE  SumFreq(Append(q, x)) = SumFreq(q) + x.freq
<1>1. PICK p \in [0..Len(q) -> Nat] : Adds(p, q) /\ SumFreq(q) = p[Len(q)]
  BY SumFreqAdds
<1> DEFINE n == Len(q)
           r == Append(q, x)
           s == [k \in 0..(n + 1) |-> IF k = n + 1 THEN p[n] + x.freq ELSE p[k]]
<1>2. n \in Nat /\ x.freq \in Nat
  BY DEF State
<1>3. r \in Seq(State) /\ Len(r) = n + 1 /\ r[n + 1] = x /\ \A k \in 1..n : r[k] = q[k]
  OBVIOUS
<1> HIDE DEF r
<1>4. s \in [0..(n + 1) -> Int] /\ s[0] = 0
  <2>1. \A k \in 0..n : p[k] \in Nat
    OBVIOUS
  <2>2. p[0] = 0
    BY <1>1 DEF Adds
  <2> QED BY <1>2, <2>1, <2>2
<1>5. ASSUME NEW k \in 0..n PROVE s[k + 1] = s[k] + r[k + 1].freq
  <2>1. k \in 0..(n + 1) /\ k + 1 \in 0..(n + 1)
    BY <1>2
  <2>2. CASE k = n
    BY <1>2, <1>3, <2>1, <2>2
  <2>3. CASE k # n
    <3>1. k \in 0..(n - 1) /\ r[k + 1] = q[k + 1]
      BY <1>2, <1>3, <2>3
    <3>2. p[k + 1] = p[k] + q[k + 1].freq
      BY <1>1, <3>1 DEF Adds
    <3> QED BY <1>2, <2>1, <2>3, <3>1, <3>2
  <2> QED BY <2>2, <2>3
<1>6. s[n + 1] = p[n] + x.freq /\ (n + 1) - 1 = n
  BY <1>2
<1> HIDE DEF s
<1>7. Adds(s, r)
  BY <1>3, <1>4, <1>5, <1>6 DEF Adds
<1> QED BY <1>1, <1>3, <1>6, <1>7, AddsOnce DEF r

\* What has no frequency adds nothing.
LEMMA SumOfFront ==
    ASSUME NEW q \in Seq(State), NEW k \in 0..Len(q),
           \A i \in (k + 1)..Len(q) : q[i].freq = 0
    PROVE  SumFreq(SubSeq(q, 1, k)) = SumFreq(q)
<1>1. PICK p \in [0..Len(q) -> Nat] : Adds(p, q) /\ SumFreq(q) = p[Len(q)]
  BY SumFreqAdds
<1> DEFINE n == Len(q)
           r == SubSeq(q, 1, k)
           s == [i \in 0..k |-> p[i]]
<1>2. n \in Nat /\ k \in 0..n
  OBVIOUS
<1>3. r \in Seq(State) /\ Len(r) = k /\ \A i \in 1..k : r[i] = q[i]
  BY <1>2
<1> HIDE DEF r
<1>4. s \in [0..k -> Int] /\ s[0] = 0 /\ s[k] = p[k]
  <2>1. \A i \in 0..n : p[i] \in Nat
    OBVIOUS
  <2>2. p[0] = 0
    BY <1>1 DEF Adds
  <2> QED BY <1>2, <2>1, <2>2
<1>5. ASSUME NEW i \in 0..(k - 1) PROVE s[i + 1] = s[i] + r[i + 1].freq
  <2>1. i \in 0..k /\ i + 1 \in 0..k /\ i \in 0..(n - 1) /\ i + 1 \in 1..k
    BY <1>2
  <2>2. p[i + 1] = p[i] + q[i + 1].freq
    BY <1>1, <2>1 DEF Adds
  <2> QED BY <1>3, <2>1, <2>2
<1> HIDE DEF s
<1>6. Adds(s, r)
  BY <1>3, <1>4, <1>5 DEF Adds
<1>7. SumFreq(r) = p[k]
  BY <1>3, <1>4, <1>6, AddsOnce
<1> DEFINE S == {i \in 0..(n - k) : p[k + i] = p[k]}
<1>8. \A i \in 0..(n - k) : i \in S
  <2>1. 0 \in S /\ n - k \in Nat
    BY <1>2
  <2>2. ASSUME NEW i \in 0..((n - k) - 1), i \in S PROVE i + 1 \in S
    <3>1. k + i \in 0..(n - 1) /\ (k + i) + 1 = k + (i + 1) /\ (k + i) + 1 \in (k + 1)..n
          /\ i + 1 \in 0..(n - k)
      BY <1>2
    <3>2. p[(k + i) + 1] = p[k + i] + q[(k + i) + 1].freq
      BY <1>1, <3>1 DEF Adds
    <3>3. q[(k + i) + 1].freq = 0 /\ p[k + i] = p[k] /\ p[k] \in Nat
      BY <1>2, <2>2, <3>1
    <3>4. p[k + (i + 1)] = p[k]
      BY <3>1, <3>2, <3>3
    <3> QED BY <3>1, <3>4
  <2> HIDE DEF S
  <2> QED BY <2>1, <2>2, Climb
<1>9. n - k \in 0..(n - k) /\ k + (n - k) = n
  BY <1>2
<1> QED BY <1>1, <1>7, <1>8, <1>9 DEF r

\* Products that are not linear, where the prover needs them.
LEMMA OneTimes ==
    ASSUME NEW a \in Int, NEW k \in Int
    PROVE  a * (k + 1) = a * k + a /\ a * k \in Int /\ a * 0 = 0
OBVIOUS

\* Frequencies between two numbers add up to a sum between as many of each.
LEMMA SumBetween ==
    ASSUME NEW q \in Seq(State), NEW a \in Nat, NEW b \in Nat,
           \A i \in 1..Len(q) : a <= q[i].freq /\ q[i].freq <= b
    PROVE  a * Len(q) <= SumFreq(q) /\ SumFreq(q) <= b * Len(q)
<1>1. PICK p \in [0..Len(q) -> Nat] : Adds(p, q) /\ SumFreq(q) = p[Len(q)]
  BY SumFreqAdds
<1> DEFINE n == Len(q)
           S == {k \in 0..n : a * k <= p[k] /\ p[k] <= b * k}
<1>2. n \in Nat /\ n \in 0..n
  OBVIOUS
<1>3. 0 \in S
  <2>1. p[0] = 0 /\ a * 0 = 0 /\ b * 0 = 0
    BY <1>1, OneTimes DEF Adds
  <2> QED BY <1>2, <2>1
<1>4. ASSUME NEW k \in 0..(n - 1), k \in S PROVE k + 1 \in S
  <2>1. k + 1 \in 0..n /\ k + 1 \in 1..n /\ k \in 0..n
    BY <1>2
  <2>2. p[k + 1] = p[k] + q[k + 1].freq /\ p[k] \in Nat /\ q[k + 1].freq \in Nat
        /\ a <= q[k + 1].freq /\ q[k + 1].freq <= b
    BY <1>1, <2>1, StateAt DEF Adds
  <2>3. a * k <= p[k] /\ p[k] <= b * k
    BY <1>4
  <2>4. a * (k + 1) = a * k + a /\ b * (k + 1) = b * k + b /\ a * k \in Int /\ b * k \in Int
    BY OneTimes
  <2> DEFINE ak == a * k
             bk == b * k
  <2> HIDE DEF ak, bk
  <2>5. a * (k + 1) <= p[k + 1] /\ p[k + 1] <= b * (k + 1)
    BY <2>2, <2>3, <2>4 DEF ak, bk
  <2> QED BY <2>1, <2>5
<1> HIDE DEF S
<1>5. \A k \in 0..n : k \in S
  BY <1>2, <1>3, <1>4, Climb
<1> QED BY <1>1, <1>2, <1>5 DEF S

\* The others have at least 1 each.
LEMMA SumHas ==
    ASSUME NEW q \in Seq(State), NEW i \in 1..Len(q),
           \A j \in 1..Len(q) : q[j].freq >= 1
    PROVE  SumFreq(q) >= q[i].freq + Len(q) - 1
<1>1. PICK p \in [0..Len(q) -> Nat] : Adds(p, q) /\ SumFreq(q) = p[Len(q)]
  BY SumFreqAdds
<1> DEFINE n == Len(q)
           S == {k \in 0..n : p[k] >= IF k < i THEN k ELSE q[i].freq + k - 1}
<1>2. n \in Nat /\ n \in 0..n /\ i \in 1..n /\ q[i].freq \in Nat
  BY StateAt
<1>3. 0 \in S
  <2>1. p[0] = 0
    BY <1>1 DEF Adds
  <2> QED BY <1>2, <2>1
<1>4. ASSUME NEW k \in 0..(n - 1), k \in S PROVE k + 1 \in S
  <2>1. k + 1 \in 0..n /\ k + 1 \in 1..n /\ k \in 0..n
    BY <1>2
  <2>2. p[k + 1] = p[k] + q[k + 1].freq /\ p[k] \in Nat /\ q[k + 1].freq \in Nat
        /\ q[k + 1].freq >= 1
    BY <1>1, <2>1, StateAt DEF Adds
  <2>3. p[k] >= IF k < i THEN k ELSE q[i].freq + k - 1
    BY <1>4
  <2>4. p[k + 1] >= IF k + 1 < i THEN k + 1 ELSE q[i].freq + (k + 1) - 1
    <3>1. CASE k + 1 = i
      BY <1>2, <2>1, <2>2, <2>3, <3>1
    <3>2. CASE k + 1 # i
      BY <1>2, <2>1, <2>2, <2>3, <3>2
    <3> QED BY <3>1, <3>2
  <2> QED BY <2>1, <2>4
<1> HIDE DEF S
<1>5. \A k \in 0..n : k \in S
  BY <1>2, <1>3, <1>4, Climb
<1>6. p[n] >= IF n < i THEN n ELSE q[i].freq + n - 1
  BY <1>2, <1>5 DEF S
<1> QED BY <1>1, <1>2, <1>6

-------------------------------------------------------------------------------
(***************************************************************************)
(* The loop of Rescale.                                                    *)
(***************************************************************************)
Sorted(q) == \A i, j \in 1..Len(q) : i <= j => q[j].freq <= q[i].freq

\* A set that has all numbers below each of its own is an interval.
LEMMA FirstOnes ==
    ASSUME NEW n \in Nat, NEW T \in SUBSET (1..n), \A i \in T : \A j \in 1..i : j \in T
    PROVE  Cardinality(T) \in 0..n /\ T = 1..Cardinality(T)
<1>1. CASE T = {}
  <2>1. Cardinality(T) = 0
    BY <1>1, FS_EmptySet
  <2> QED BY <1>1, <2>1
<1>2. CASE T # {}
  <2>1. Max(T) \in T /\ \A y \in T : Max(T) >= y
    BY <1>2, MaxOf
  <2> DEFINE k == Max(T)
  <2>2. k \in 1..n
    BY <2>1
  <2>3. T = 1..k
    <3>1. \A y \in T : y \in 1..k
      BY <2>1, <2>2
    <3>2. \A y \in 1..k : y \in T
      BY <2>1
    <3> QED BY <3>1, <3>2
  <2> HIDE DEF k
  <2>4. Cardinality(1..k) = k
    <3>1. Cardinality(1..k) = IF 1 > k THEN 0 ELSE k - 1 + 1
      BY <2>2, FS_Interval
    <3> QED BY <2>2, <3>1
  <2> QED BY <2>2, <2>3, <2>4
<1> QED BY <1>1, <1>2

\* A set of the first n numbers has at most n.
LEMMA FewPlaces ==
    ASSUME NEW n \in Nat, NEW T \in SUBSET (1..n)
    PROVE  IsFiniteSet(T) /\ Cardinality(T) \in 0..n
<1>1. IsFiniteSet(1..n) /\ Cardinality(1..n) = n
  <2>1. IsFiniteSet(1..n) /\ Cardinality(1..n) = IF 1 > n THEN 0 ELSE n - 1 + 1
    BY FS_Interval
  <2> QED BY <2>1
<1>2. IsFiniteSet(T) /\ Cardinality(T) <= Cardinality(1..n)
  BY <1>1, FS_Subset
<1>3. Cardinality(T) \in Nat
  BY <1>2, FS_CardinalityType
<1> QED BY <1>1, <1>2, <1>3

\* A state comes to stand between the first k and the others.
Between(r, p, k, x) ==
    /\ r \in Seq(State) /\ Len(r) = Len(p) + 1
    /\ r[k + 1] = x
    /\ \A j \in 1..k : r[j] = p[j]
    /\ \A j \in (k + 1)..Len(p) : r[j + 1] = p[j]

\* What InsertAt of the sequence modules makes.
LEMMA InsertAtIs ==
    ASSUME NEW p \in Seq(State), NEW x \in State, NEW k \in 0..Len(p)
    PROVE  Between(InsertAt(p, k + 1, x), p, k, x)
<1> DEFINE n == Len(p)
           a == SubSeq(p, 1, k)
           b == SubSeq(p, k + 1, n)
           r == (a \o <<x>>) \o b
<1>1. n \in Nat /\ k \in 0..n /\ (k + 1) - 1 = k
  OBVIOUS
<1>2. a \in Seq(State) /\ Len(a) = k /\ \A j \in 1..k : a[j] = p[j]
  BY <1>1
<1>3. b \in Seq(State) /\ Len(b) = n - k /\ \A j \in 1..(n - k) : b[j] = p[k + j]
  BY <1>1
<1>4. InsertAt(p, k + 1, x) = r
  BY <1>1 DEF InsertAt
<1> HIDE DEF a, b
<1> DEFINE c == a \o <<x>>
<1>5. c \in Seq(State) /\ Len(c) = k + 1 /\ c[k + 1] = x /\ \A j \in 1..k : c[j] = a[j]
  BY <1>1, <1>2
<1> HIDE DEF c
<1>6. (c \o b) \in Seq(State) /\ Len(c \o b) = n + 1
  <2>1. c \in Seq(State) /\ b \in Seq(State)
    BY <1>3, <1>5
  <2>2. (c \o b) \in Seq(State) /\ Len(c \o b) = Len(c) + Len(b)
    BY <2>1
  <2>3. (k + 1) + (n - k) = n + 1
    BY <1>1
  <2> QED BY <1>3, <1>5, <2>2, <2>3
<1>7. \A j \in 1..(k + 1) : (c \o b)[j] = c[j]
  BY <1>1, <1>3, <1>5
<1>8. \A j \in (k + 1)..n : (c \o b)[j + 1] = p[j]
  <2> SUFFICES ASSUME NEW j \in (k + 1)..n PROVE (c \o b)[j + 1] = p[j]
    OBVIOUS
  <2>1. (j + 1) - (k + 1) = j - k /\ j - k \in 1..(n - k) /\ k + (j - k) = j
        /\ j + 1 \in 1..(n + 1) /\ ~(j + 1 <= k + 1)
    BY <1>1
  <2>2. (c \o b)[j + 1] = b[(j + 1) - (k + 1)]
    BY <1>1, <1>3, <1>5, <2>1
  <2> QED BY <1>3, <2>1, <2>2
<1>9. (c \o b)[k + 1] = x /\ \A j \in 1..k : (c \o b)[j] = p[j]
  BY <1>1, <1>2, <1>5, <1>7
<1> QED BY <1>4, <1>6, <1>8, <1>9 DEF Between, c

\* A state inserted into states gives states.
LEMMA InsertedIsSeq ==
    ASSUME NEW p \in Seq(State), NEW x \in State
    PROVE  \E k \in 0..Len(p) : Between(Inserted(p, x), p, k, x)
<1> DEFINE T == {i \in DOMAIN p : p[i].freq >= x.freq}
<1>1. Len(p) \in Nat /\ T \in SUBSET (1..Len(p))
  OBVIOUS
<1> HIDE DEF T
<1>2. Cardinality(T) \in 0..Len(p)
  BY <1>1, FewPlaces
<1>3. Between(InsertAt(p, Cardinality(T) + 1, x), p, Cardinality(T), x)
  BY <1>2, InsertAtIs
<1> QED BY <1>2, <1>3 DEF Inserted, T

\* It comes to stand in order.
LEMMA InsertedSorted ==
    ASSUME NEW p \in Seq(State), NEW x \in State, Sorted(p)
    PROVE  Sorted(Inserted(p, x))
<1> DEFINE T == {i \in DOMAIN p : p[i].freq >= x.freq}
           n == Len(p)
           k == Cardinality(T)
           r == Inserted(p, x)
<1>1. n \in Nat /\ T \in SUBSET (1..n) /\ x.freq \in Nat /\ \A i \in 1..n : p[i].freq \in Nat
  <2>1. n \in Nat /\ T \in SUBSET (1..n)
    OBVIOUS
  <2>2. x.freq \in Nat
    BY DEF State
  <2>3. \A i \in 1..n : p[i].freq \in Nat
    BY StateAt
  <2> QED BY <2>1, <2>2, <2>3
<1>2. \A i \in T : \A j \in 1..i : j \in T
  <2> SUFFICES ASSUME NEW i \in T, NEW j \in 1..i PROVE j \in T
    OBVIOUS
  <2>1. i \in 1..n /\ j \in 1..n /\ j <= i /\ p[i].freq >= x.freq
    BY <1>1
  <2>2. p[i].freq <= p[j].freq
    BY <2>1 DEF Sorted
  <2> QED BY <1>1, <2>1, <2>2
<1>3. \A i \in 1..n : i \in T <=> p[i].freq >= x.freq
  OBVIOUS
<1>4. Between(r, p, k, x) /\ k \in 0..n
  <2> HIDE DEF T
  <2>1. k \in 0..n
    BY <1>1, FewPlaces
  <2>2. Between(InsertAt(p, k + 1, x), p, k, x)
    BY <2>1, InsertAtIs
  <2> QED BY <2>1, <2>2 DEF Inserted, T
<1> HIDE DEF T
<1>5. T = 1..k
  BY <1>1, <1>2, FirstOnes
<1> HIDE DEF r, k
<1>6. \A i \in 1..n : i <= k <=> p[i].freq >= x.freq
  BY <1>1, <1>3, <1>4, <1>5
<1> SUFFICES ASSUME NEW i \in 1..Len(r), NEW j \in 1..Len(r), i <= j
             PROVE  r[j].freq <= r[i].freq
  BY DEF Sorted, r
<1>7. Len(r) = n + 1 /\ i \in 1..(n + 1) /\ j \in 1..(n + 1)
  BY <1>4 DEF Between
<1>8. \A a, b \in 1..n : a <= b => p[b].freq <= p[a].freq
  BY DEF Sorted
<1>9. \A l \in 1..(n + 1) :
         \/ l <= k /\ r[l] = p[l] /\ l \in 1..n
         \/ l = k + 1 /\ r[l] = x
         \/ l > k + 1 /\ r[l] = p[l - 1] /\ l - 1 \in 1..n
  <2> SUFFICES ASSUME NEW l \in 1..(n + 1)
               PROVE  \/ l <= k /\ r[l] = p[l] /\ l \in 1..n
                      \/ l = k + 1 /\ r[l] = x
                      \/ l > k + 1 /\ r[l] = p[l - 1] /\ l - 1 \in 1..n
    OBVIOUS
  <2>1. CASE l <= k
    BY <1>1, <1>4, <2>1 DEF Between
  <2>2. CASE l = k + 1
    BY <1>1, <1>4, <2>2 DEF Between
  <2>3. CASE l > k + 1
    <3>1. l - 1 \in (k + 1)..n /\ (l - 1) + 1 = l /\ l - 1 \in 1..n
      BY <1>1, <1>4, <2>3
    <3> QED BY <1>4, <2>3, <3>1 DEF Between
  <2> QED BY <1>1, <1>4, <2>1, <2>2, <2>3
<1>10. CASE i <= k
  <2>1. r[i] = p[i] /\ i \in 1..n
    BY <1>1, <1>4, <1>7, <1>9, <1>10
  <2>2. CASE j <= k
    BY <1>1, <1>4, <1>7, <1>8, <1>9, <2>1, <2>2
  <2>3. CASE j = k + 1
    <3>1. r[j] = x
      BY <1>1, <1>4, <1>7, <1>9, <2>3
    <3> QED BY <1>1, <1>6, <1>10, <2>1, <3>1
  <2>4. CASE j > k + 1
    <3>1. r[j] = p[j - 1] /\ j - 1 \in 1..n /\ i <= j - 1
      BY <1>1, <1>4, <1>7, <1>9, <1>10, <2>4
    <3> QED BY <1>8, <2>1, <3>1
  <2> QED BY <1>4, <1>7, <2>2, <2>3, <2>4
<1>11. CASE i = k + 1
  <2>1. r[i] = x
    BY <1>1, <1>4, <1>7, <1>9, <1>11
  <2>2. CASE j = i
    BY <1>1, <2>1, <2>2
  <2>3. CASE j > i
    <3>1. r[j] = p[j - 1] /\ j - 1 \in 1..n /\ ~(j - 1 <= k)
      BY <1>1, <1>4, <1>7, <1>9, <1>11, <2>3
    <3>2. ~(p[j - 1].freq >= x.freq)
      BY <1>6, <3>1
    <3> QED BY <1>1, <2>1, <3>1, <3>2
  <2> QED BY <1>7, <2>2, <2>3
<1>12. CASE i > k + 1
  <2>1. r[i] = p[i - 1] /\ i - 1 \in 1..n /\ r[j] = p[j - 1] /\ j - 1 \in 1..n /\ i - 1 <= j - 1
    BY <1>1, <1>4, <1>7, <1>9, <1>12
  <2> QED BY <1>8, <2>1
<1> QED BY <1>4, <1>7, <1>10, <1>11, <1>12

\* A state with half its frequency.
HalfOf(x, a) == [x EXCEPT !.freq = (@ + a) \div 2]

More(x) == [x EXCEPT !.freq = @ + 4]

\* What a choice for the fold of Halved satisfies.
Halves(g, q, j, a) ==
    g = [s \in SUBSET (1..Len(RemoveAt(q, j))) |->
            IF s = {} THEN <<HalfOf(More(q[j]), a)>>
            ELSE Inserted(g[s \ {Max(s)}], HalfOf(RemoveAt(q, j)[Max(s)], a))]

\* What RemoveAt of the sequence modules makes.
LEMMA RemoveAtIs ==
    ASSUME NEW q \in Seq(State), NEW j \in 1..Len(q)
    PROVE  /\ RemoveAt(q, j) \in Seq(State) /\ Len(RemoveAt(q, j)) = Len(q) - 1
           /\ \A k \in 1..(Len(q) - 1) : RemoveAt(q, j)[k] = IF k < j THEN q[k] ELSE q[k + 1]
<1> DEFINE n == Len(q)
           b == SubSeq(q, 1, j - 1)
           c == SubSeq(q, j + 1, n)
<1>1. n \in Nat /\ j \in 1..n /\ j - 1 \in 0..n /\ (j - 1) + (n - j) = n - 1
  OBVIOUS
<1>0. (j # n => j + 1 \in 1..n) /\ n - (j + 1) + 1 = n - j
  <2> HIDE DEF n, b, c
  <2>1. n \in Int /\ j \in Int /\ 1 <= j /\ j <= n
    BY <1>1
  <2> QED BY <2>1
<1>2. b \in Seq(State) /\ Len(b) = j - 1 /\ \A k \in 1..(j - 1) : b[k] = q[k]
  BY <1>1
<1>3. c \in Seq(State) /\ Len(c) = n - j /\ \A k \in 1..(n - j) : c[k] = q[j + k]
  <2>1. c \in Seq(State) /\ Len(c) = n - j
    <3>1. CASE j = n
      BY <1>1, <3>1
    <3>2. CASE j # n
      <4>1. j + 1 \in 1..n /\ n - (j + 1) + 1 = n - j
        BY <1>0, <3>2
      <4>2. c \in Seq(State)
        BY <4>1
      <4>3. Len(c) = n - (j + 1) + 1
        BY <1>1, <4>1
      <4> QED BY <4>1, <4>2, <4>3
    <3> QED BY <3>1, <3>2
  <2>2. \A k \in 1..(n - j) : c[k] = q[j + k]
    <3> SUFFICES ASSUME NEW k \in 1..(n - j) PROVE c[k] = q[j + k]
      OBVIOUS
    <3>1. (j + 1) + k - 1 = j + k
      BY <1>1
    <3> QED BY <1>1, <3>1
  <2> QED BY <2>1, <2>2
<1>4. RemoveAt(q, j) = b \o c
  BY DEF RemoveAt
<1> HIDE DEF b, c
<1>5. (b \o c) \in Seq(State) /\ Len(b \o c) = n - 1
  <2>1. (b \o c) \in Seq(State) /\ Len(b \o c) = Len(b) + Len(c)
    BY <1>2, <1>3
  <2> QED BY <1>1, <1>2, <1>3, <2>1
<1>6. ASSUME NEW k \in 1..(n - 1) PROVE (b \o c)[k] = IF k < j THEN q[k] ELSE q[k + 1]
  <2>1. CASE k < j
    <3>1. k \in 1..(j - 1)
      BY <1>1, <2>1
    <3>2. (b \o c)[k] = b[k]
      BY <1>2, <1>3, <3>1
    <3> QED BY <1>2, <2>1, <3>1, <3>2
  <2>2. CASE ~(k < j)
    <3>1. k - (j - 1) \in 1..(n - j) /\ j + (k - (j - 1)) = k + 1 /\ ~(k <= j - 1)
          /\ k \in 1..((j - 1) + (n - j))
      BY <1>1, <2>2
    <3>2. (b \o c)[k] = c[k - (j - 1)]
      BY <1>1, <1>2, <1>3, <3>1
    <3> QED BY <1>3, <2>2, <3>1, <3>2
  <2> QED BY <2>1, <2>2
<1> QED BY <1>4, <1>5, <1>6

\* The loop is what the chosen function has for all places.
LEMMA HalvedIsFold ==
    ASSUME NEW q \in Seq(State), NEW j \in 1..Len(q), NEW a \in {0, 1}
    PROVE  Halved(q, j, a) = (CHOOSE g : Halves(g, q, j, a))[1..Len(RemoveAt(q, j))]
<1>1. RemoveAt(q, j) \in Seq(State)
  BY RemoveAtIs
<1>2. DOMAIN RemoveAt(q, j) = 1..Len(RemoveAt(q, j))
  BY <1>1
<1> QED BY <1>2, Zenon DEF Halved, FoldLeft, MapThenFoldSet, Halves, HalfOf, More

\* Half a frequency, with or without 1 that is added before.
LEMMA HalfIs ==
    ASSUME NEW x \in State, NEW a \in {0, 1}
    PROVE  /\ HalfOf(x, a) \in State /\ HalfOf(x, a).freq = (x.freq + a) \div 2
           /\ HalfOf(x, a).sym = x.sym
           /\ More(x) \in State /\ More(x).freq = x.freq + 4 /\ More(x).sym = x.sym
<1>1. x.freq \in Nat
  BY DEF State
<1>2. (x.freq + a) \div 2 \in Nat
  BY <1>1
<1> QED BY <1>1, <1>2 DEF HalfOf, More, State

\* There is a function to choose.
LEMMA HalvesExist ==
    ASSUME NEW q \in Seq(State), NEW j \in 1..Len(q), NEW a \in {0, 1}
    PROVE  \E g : Halves(g, q, j, a)
<1> DEFINE rest == RemoveAt(q, j)
           n == Len(rest)
           b == <<HalfOf(More(q[j]), a)>>
           V == Seq(State)
           h == [x \in (1..n) \X V |-> Inserted(x[2], HalfOf(rest[x[1]], a))]
<1>1. rest \in Seq(State) /\ n \in Nat
  BY RemoveAtIs
<1>2. b \in V
  <2>1. q[j] \in State
    BY StateAt
  <2>2. HalfOf(More(q[j]), a) \in State
    BY <2>1, HalfIs
  <2> QED BY <2>2
<1> HIDE DEF rest, b
<1>3. \A i \in 1..n : HalfOf(rest[i], a) \in State
  <2> SUFFICES ASSUME NEW i \in 1..n PROVE HalfOf(rest[i], a) \in State
    OBVIOUS
  <2>1. rest[i] \in State
    BY <1>1
  <2> QED BY <2>1, HalfIs
<1>4. \A v \in V : \A i \in 1..n : Inserted(v, HalfOf(rest[i], a)) \in V
  BY <1>3, InsertedIsSeq DEF Between
<1> HIDE DEF V
<1>5. h \in [(1..n) \X V -> V]
  <2> SUFFICES ASSUME NEW x \in (1..n) \X V PROVE Inserted(x[2], HalfOf(rest[x[1]], a)) \in V
    OBVIOUS
  <2>1. x[1] \in 1..n /\ x[2] \in V
    OBVIOUS
  <2> QED BY <1>4, <2>1
<1> HIDE DEF n, h
<1>6. PICK g \in [SUBSET (1..n) -> V] : Folds(g, n, b, h)
  BY <1>1, <1>2, <1>5, FoldExists DEF n
<1>7. ASSUME NEW s \in SUBSET (1..n), s # {}
      PROVE  g[s] = Inserted(g[s \ {Max(s)}], HalfOf(rest[Max(s)], a))
  <2>1. Max(s) \in 1..n /\ s \ {Max(s)} \in SUBSET (1..n)
    BY <1>1, <1>7, MaxOf DEF n
  <2>2. g[s \ {Max(s)}] \in V
    BY <2>1
  <2>3. g[s] = h[<<Max(s), g[s \ {Max(s)}]>>]
    BY <1>6, <1>7 DEF Folds
  <2>4. <<Max(s), g[s \ {Max(s)}]>> \in (1..n) \X V
    BY <2>1, <2>2
  <2>5. h[<<Max(s), g[s \ {Max(s)}]>>] = Inserted(g[s \ {Max(s)}], HalfOf(rest[Max(s)], a))
    BY <2>4 DEF h
  <2> QED BY <2>3, <2>5
<1>8. ASSUME NEW s \in SUBSET (1..n), s = {} PROVE g[s] = b
  BY <1>6, <1>8 DEF Folds
<1>9. g = [s \in SUBSET (1..n) |-> IF s = {} THEN b
                                   ELSE Inserted(g[s \ {Max(s)}], HalfOf(rest[Max(s)], a))]
  BY <1>7, <1>8
<1> QED BY <1>9 DEF Halves, n, rest, b

\* What the loop of Rescale has after k states: the found one is in front when
\* it starts, and keeps at least 2.
SortedTo(v, q, j, a, k) ==
    /\ v \in Seq(State) /\ Len(v) = k + 1
    /\ Sorted(v)
    /\ \A i \in 1..(k + 1) : v[i].freq >= a /\ v[i].freq <= MAX_FREQ
    /\ \E i \in 1..(k + 1) : v[i].freq >= 2
    /\ SymbolsOf(v) = {q[j].sym} \union {RemoveAt(q, j)[i].sym : i \in 1..k}

\* Half a frequency, rounded as the adder says, is at least the adder; half the
\* found one, which counts 4 more, is at least 2.
LEMMA HalfInRange ==
    ASSUME NEW f \in Nat, NEW a \in {0, 1}, f >= 1, f <= MAX_FREQ + 4
    PROVE  /\ a <= (f + a) \div 2 /\ (f + a) \div 2 <= MAX_FREQ
           /\ 2 <= (f + 4 + a) \div 2 /\ (f + 4 + a) \div 2 <= MAX_FREQ
<1>1. MAX_FREQ \in 8..246
  BY Bounds
<1> QED BY <1>1

\* The loop starts with the found state.
LEMMA SortedToStart ==
    ASSUME NEW q \in Seq(State), NEW j \in 1..Len(q), NEW a \in {0, 1},
           \A i \in 1..Len(q) : q[i].freq >= 1 /\ q[i].freq <= MAX_FREQ + 4
    PROVE  SortedTo(<<HalfOf(More(q[j]), a)>>, q, j, a, 0)
<1> DEFINE x == HalfOf(More(q[j]), a)
           v == <<x>>
<1>1. q[j] \in State /\ More(q[j]) \in State /\ q[j].freq \in Nat
  BY StateAt, HalfIs
<1>2. x \in State /\ x.freq = (q[j].freq + 4 + a) \div 2 /\ x.sym = q[j].sym
  BY <1>1, HalfIs
<1>3. 2 <= x.freq /\ x.freq <= MAX_FREQ
  BY <1>1, <1>2, HalfInRange
<1>4. x.freq >= a /\ x.freq \in Nat
  BY <1>2, <1>3 DEF State
<1> HIDE DEF x
<1>5. v \in Seq(State) /\ Len(v) = 1 /\ v[1] = x /\ DOMAIN v = {1} /\ 1..(0 + 1) = {1}
  BY <1>2
<1> HIDE DEF v
<1>6. SymbolsOf(v) = {q[j].sym} \union {RemoveAt(q, j)[i].sym : i \in 1..0}
  BY <1>2, <1>5 DEF SymbolsOf
<1>7. Sorted(v)
  BY <1>4, <1>5 DEF Sorted
<1> QED BY <1>3, <1>4, <1>5, <1>6, <1>7 DEF SortedTo, v, x

\* One state more is inserted.
LEMMA SortedToNext ==
    ASSUME NEW q \in Seq(State), NEW j \in 1..Len(q), NEW a \in {0, 1},
           \A i \in 1..Len(q) : q[i].freq >= 1 /\ q[i].freq <= MAX_FREQ + 4,
           NEW k \in 0..(Len(q) - 2), NEW v, SortedTo(v, q, j, a, k)
    PROVE  SortedTo(Inserted(v, HalfOf(RemoveAt(q, j)[k + 1], a)), q, j, a, k + 1)
<1> DEFINE rest == RemoveAt(q, j)
           y == rest[k + 1]
           x == HalfOf(y, a)
           r == Inserted(v, x)
<1>1. Len(q) \in Nat /\ k \in Nat /\ k + 1 \in 1..(Len(q) - 1)
  OBVIOUS
<1>2. \E i \in 1..Len(q) : y = q[i]
  <2>1. y = IF k + 1 < j THEN q[k + 1] ELSE q[(k + 1) + 1]
    BY <1>1, RemoveAtIs
  <2>2. k + 1 \in 1..Len(q) /\ (k + 1) + 1 \in 1..Len(q)
    BY <1>1
  <2> QED BY <2>1, <2>2
<1>3. y \in State /\ y.freq \in Nat /\ y.freq >= 1 /\ y.freq <= MAX_FREQ + 4
  BY <1>2, StateAt
<1> HIDE DEF rest, y
<1>4. x \in State /\ x.freq = (y.freq + a) \div 2 /\ x.sym = y.sym
  BY <1>3, HalfIs
<1>5. a <= x.freq /\ x.freq <= MAX_FREQ
  BY <1>3, <1>4, HalfInRange
<1> HIDE DEF x
<1>6. v \in Seq(State) /\ Len(v) = k + 1 /\ Sorted(v)
  BY DEF SortedTo
<1>7. Sorted(r)
  BY <1>4, <1>6, InsertedSorted
<1>8. PICK l \in 0..(k + 1) : Between(r, v, l, x)
  BY <1>4, <1>6, InsertedIsSeq
<1> HIDE DEF r
<1>9. r \in Seq(State) /\ Len(r) = (k + 1) + 1
  BY <1>6, <1>8 DEF Between
<1>10. \A i \in 1..((k + 1) + 1) : r[i] = x \/ \E e \in 1..(k + 1) : r[i] = v[e]
  <2> SUFFICES ASSUME NEW i \in 1..((k + 1) + 1)
               PROVE  r[i] = x \/ \E e \in 1..(k + 1) : r[i] = v[e]
    OBVIOUS
  <2>1. CASE i <= l
    <3>1. i \in 1..l /\ i \in 1..(k + 1)
      BY <1>1, <1>8, <2>1
    <3> QED BY <1>8, <3>1 DEF Between
  <2>2. CASE i = l + 1
    BY <1>8, <2>2 DEF Between
  <2>3. CASE i > l + 1
    <3>1. i - 1 \in (l + 1)..(k + 1) /\ (i - 1) + 1 = i /\ i - 1 \in 1..(k + 1)
      BY <1>1, <1>8, <2>3
    <3> QED BY <1>6, <1>8, <3>1 DEF Between
  <2> QED BY <1>1, <1>8, <2>1, <2>2, <2>3
<1>11. \A e \in 1..(k + 1) : \E i \in 1..((k + 1) + 1) : r[i] = v[e]
  <2> SUFFICES ASSUME NEW e \in 1..(k + 1) PROVE \E i \in 1..((k + 1) + 1) : r[i] = v[e]
    OBVIOUS
  <2>1. CASE e <= l
    <3>1. e \in 1..l /\ e \in 1..((k + 1) + 1)
      BY <1>1, <1>8, <2>1
    <3> QED BY <1>8, <3>1 DEF Between
  <2>2. CASE e > l
    <3>1. e \in (l + 1)..(k + 1) /\ e + 1 \in 1..((k + 1) + 1)
      BY <1>1, <1>8, <2>2
    <3> QED BY <1>6, <1>8, <3>1 DEF Between
  <2> QED BY <1>1, <1>8, <2>1, <2>2
<1>12. \E i \in 1..((k + 1) + 1) : r[i] = x
  <2>1. l + 1 \in 1..((k + 1) + 1)
    BY <1>1, <1>8
  <2> QED BY <1>8, <2>1 DEF Between
<1>13. \A i \in 1..((k + 1) + 1) : r[i].freq >= a /\ r[i].freq <= MAX_FREQ
  <2>1. \A e \in 1..(k + 1) : v[e].freq >= a /\ v[e].freq <= MAX_FREQ
    BY DEF SortedTo
  <2>2. x.freq >= a
    BY <1>4, <1>5 DEF State
  <2> QED BY <1>5, <1>10, <2>1, <2>2
<1>14. \E i \in 1..((k + 1) + 1) : r[i].freq >= 2
  <2>1. PICK e \in 1..(k + 1) : v[e].freq >= 2
    BY DEF SortedTo
  <2> QED BY <1>11, <2>1
<1>15. SymbolsOf(r) = SymbolsOf(v) \union {x.sym}
  <2>1. DOMAIN r = 1..((k + 1) + 1) /\ DOMAIN v = 1..(k + 1)
    BY <1>6, <1>9
  <2>2. ASSUME NEW s \in SymbolsOf(r) PROVE s \in SymbolsOf(v) \union {x.sym}
    <3>1. PICK i \in 1..((k + 1) + 1) : s = r[i].sym
      BY <2>1, <2>2 DEF SymbolsOf
    <3> QED BY <1>10, <2>1, <3>1 DEF SymbolsOf
  <2>3. ASSUME NEW s \in SymbolsOf(v) PROVE s \in SymbolsOf(r)
    <3>1. PICK e \in 1..(k + 1) : s = v[e].sym
      BY <2>1, <2>3 DEF SymbolsOf
    <3> QED BY <1>11, <2>1, <3>1 DEF SymbolsOf
  <2>4. x.sym \in SymbolsOf(r)
    BY <1>12, <2>1 DEF SymbolsOf
  <2> QED BY <2>2, <2>3, <2>4
<1>16. {rest[i].sym : i \in 1..(k + 1)} = {rest[i].sym : i \in 1..k} \union {y.sym}
  <2>1. \A i \in 1..(k + 1) : i \in 1..k \/ i = k + 1
    BY <1>1
  <2>2. k + 1 \in 1..(k + 1) /\ \A i \in 1..k : i \in 1..(k + 1)
    BY <1>1
  <2> QED BY <2>1, <2>2 DEF y
<1>17. SymbolsOf(r) = {q[j].sym} \union {rest[i].sym : i \in 1..(k + 1)}
  <2>1. SymbolsOf(v) = {q[j].sym} \union {rest[i].sym : i \in 1..k}
    BY DEF SortedTo, rest
  <2> QED BY <1>4, <1>15, <1>16, <2>1
<1> QED BY <1>7, <1>9, <1>13, <1>14, <1>17 DEF SortedTo, r, x, y, rest

\* The loop sorts what it halves, and the sequence keeps its symbols.
LEMMA HalvedIs ==
    ASSUME NEW q \in Seq(State), NEW j \in 1..Len(q), NEW a \in {0, 1},
           \A i \in 1..Len(q) : q[i].freq >= 1 /\ q[i].freq <= MAX_FREQ + 4
    PROVE  /\ Halved(q, j, a) \in Seq(State) /\ Len(Halved(q, j, a)) = Len(q)
           /\ Sorted(Halved(q, j, a))
           /\ \A i \in 1..Len(q) : /\ Halved(q, j, a)[i].freq >= a
                                   /\ Halved(q, j, a)[i].freq <= MAX_FREQ
           /\ Halved(q, j, a)[1].freq >= 2
           /\ SymbolsOf(Halved(q, j, a)) = SymbolsOf(q)
<1> DEFINE n == Len(q)
           rest == RemoveAt(q, j)
           g == CHOOSE g : Halves(g, q, j, a)
           r == Halved(q, j, a)
           S == {k \in 0..(n - 1) : SortedTo(g[1..k], q, j, a, k)}
<1>1. n \in Nat /\ n - 1 \in Nat /\ j \in 1..n /\ (n - 1) + 1 = n
  OBVIOUS
<1>2. rest \in Seq(State) /\ Len(rest) = n - 1
  BY RemoveAtIs
<1>3. Halves(g, q, j, a)
  BY HalvesExist
<1>4. r = g[1..(n - 1)]
  BY <1>2, HalvedIsFold
<1> HIDE DEF g, r
<1>5. 0 \in S
  <2>1. {} \in SUBSET (1..(n - 1)) /\ 1..0 = {} /\ 0 \in 0..(n - 1)
    BY <1>1
  <2>2. g[{}] = <<HalfOf(More(q[j]), a)>>
    BY <1>2, <1>3, <2>1 DEF Halves
  <2>3. SortedTo(<<HalfOf(More(q[j]), a)>>, q, j, a, 0)
    BY SortedToStart
  <2> QED BY <2>1, <2>2, <2>3
<1>6. ASSUME NEW k \in 0..((n - 1) - 1), k \in S PROVE k + 1 \in S
  <2>1. k \in 0..(n - 2) /\ k + 1 \in 1..(n - 1) /\ k + 1 \in 0..(n - 1) /\ (k + 1) - 1 = k
    BY <1>1
  <2>2. Max(1..(k + 1)) = k + 1 /\ (1..(k + 1)) \ {k + 1} = 1..k
    BY <1>1, <2>1, MaxOfFirst
  <2>3. (1..(k + 1)) \in SUBSET (1..(n - 1)) /\ 1..(k + 1) # {}
    <3>1. k + 1 \in 1..(k + 1)
      BY <2>1
    <3>2. \A e \in 1..(k + 1) : e \in 1..(n - 1)
      BY <1>1, <2>1
    <3> QED BY <3>1, <3>2
  <2>4. g[1..(k + 1)] = Inserted(g[1..k], HalfOf(rest[k + 1], a))
    BY <1>2, <1>3, <2>2, <2>3 DEF Halves
  <2>5. SortedTo(g[1..k], q, j, a, k)
    BY <1>6
  <2>6. SortedTo(Inserted(g[1..k], HalfOf(rest[k + 1], a)), q, j, a, k + 1)
    BY <2>1, <2>5, SortedToNext
  <2> QED BY <2>1, <2>4, <2>6
<1> HIDE DEF S
<1>7. \A k \in 0..(n - 1) : k \in S
  BY <1>1, <1>5, <1>6, Climb
<1>8. SortedTo(r, q, j, a, n - 1)
  <2>1. n - 1 \in 0..(n - 1)
    BY <1>1
  <2> QED BY <1>4, <1>7, <2>1 DEF S
<1>9. r \in Seq(State) /\ Len(r) = n /\ Sorted(r)
  BY <1>1, <1>8 DEF SortedTo
<1>10. \A i \in 1..n : r[i].freq >= a /\ r[i].freq <= MAX_FREQ
  BY <1>1, <1>8 DEF SortedTo
<1>11. r[1].freq >= 2
  <2>1. PICK i \in 1..n : r[i].freq >= 2
    BY <1>1, <1>8 DEF SortedTo
  <2>2. 1 \in 1..n /\ 1 <= i /\ i \in 1..Len(r) /\ 1 \in 1..Len(r)
    BY <1>1, <1>9
  <2>3. r[i].freq <= r[1].freq
    BY <1>9, <2>2 DEF Sorted
  <2>4. r[i].freq \in Nat /\ r[1].freq \in Nat
    BY <1>9, <2>2, StateAt
  <2> QED BY <2>1, <2>3, <2>4
<1>12. SymbolsOf(r) = SymbolsOf(q)
  <2>1. SymbolsOf(r) = {q[j].sym} \union {rest[i].sym : i \in 1..(n - 1)}
    BY <1>8 DEF SortedTo
  <2>2. SymbolsOf(q) = {q[i].sym : i \in 1..n}
    <3>1. DOMAIN q = 1..n
      OBVIOUS
    <3> QED BY <3>1 DEF SymbolsOf
  <2>3. \A k \in 1..(n - 1) : rest[k] = IF k < j THEN q[k] ELSE q[k + 1]
    BY RemoveAtIs
  <2>4. \A k \in 1..(n - 1) : k \in 1..n /\ k + 1 \in 1..n
    BY <1>1
  <2>5. ASSUME NEW i \in 1..n, i # j PROVE \E k \in 1..(n - 1) : rest[k] = q[i]
    <3>1. CASE i < j
      <4>1. i \in 1..(n - 1)
        BY <1>1, <3>1
      <4> QED BY <2>3, <3>1, <4>1
    <3>2. CASE i > j
      <4>1. i - 1 \in 1..(n - 1) /\ ~(i - 1 < j) /\ (i - 1) + 1 = i
        BY <1>1, <3>2
      <4> QED BY <2>3, <4>1
    <3> QED BY <1>1, <2>5, <3>1, <3>2
  <2> HIDE DEF rest
  <2>6. ASSUME NEW s \in SymbolsOf(q) PROVE s \in SymbolsOf(r)
    <3>1. PICK i \in 1..n : s = q[i].sym
      BY <2>2
    <3>2. CASE i = j
      BY <2>1, <3>1, <3>2
    <3>3. CASE i # j
      BY <2>1, <2>5, <3>1, <3>3
    <3> QED BY <3>2, <3>3
  <2>7. ASSUME NEW s \in SymbolsOf(r) PROVE s \in SymbolsOf(q)
    BY <1>1, <2>1, <2>2, <2>3, <2>4, <2>7
  <2> QED BY <2>6, <2>7
<1> QED BY <1>9, <1>10, <1>11, <1>12 DEF r

\* In a sorted sequence what has no frequency stands at the end.
LEMMA ZerosLast ==
    ASSUME NEW r \in Seq(State), Sorted(r), Len(r) >= 1, r[1].freq >= 2,
           NEW gone, gone = Cardinality({i \in DOMAIN r : r[i].freq = 0})
    PROVE  /\ gone \in 0..(Len(r) - 1)
           /\ \A i \in 1..(Len(r) - gone) : r[i].freq >= 1
           /\ \A i \in (Len(r) - gone + 1)..Len(r) : r[i].freq = 0
<1> DEFINE n == Len(r)
           T == {i \in 1..n : r[i].freq # 0}
           k == Cardinality(T)
<1>1. n \in Nat /\ 1 \in 1..n /\ DOMAIN r = 1..n /\ \A i \in 1..n : r[i].freq \in Nat
  <2>1. n \in Nat /\ 1 \in 1..n /\ DOMAIN r = 1..n
    OBVIOUS
  <2>2. \A i \in 1..n : r[i].freq \in Nat
    BY StateAt
  <2> QED BY <2>1, <2>2
<1>2. \A i \in T : \A j \in 1..i : j \in T
  <2> SUFFICES ASSUME NEW i \in T, NEW j \in 1..i PROVE j \in T
    OBVIOUS
  <2>1. i \in 1..n /\ j \in 1..n /\ j <= i /\ r[i].freq # 0
    BY <1>1
  <2>2. r[i].freq <= r[j].freq
    BY <2>1 DEF Sorted
  <2> QED BY <1>1, <2>1, <2>2
<1>3. 1 \in T /\ T \in SUBSET (1..n) /\ \A i \in 1..n : i \in T <=> r[i].freq # 0
  BY <1>1
<1>4. {i \in DOMAIN r : r[i].freq = 0} = (1..n) \ T
  BY <1>1
<1> HIDE DEF T
<1>5. k \in 0..n /\ T = 1..k
  BY <1>1, <1>2, <1>3, FirstOnes
<1> HIDE DEF k
<1>6. k \in 1..n
  BY <1>1, <1>3, <1>5
<1>7. (1..n) \ T = (k + 1)..n
  <2>1. \A i \in 1..n : i \notin 1..k <=> i \in (k + 1)..n
    BY <1>1, <1>6
  <2>2. \A i \in (k + 1)..n : i \in 1..n
    BY <1>1, <1>6
  <2> QED BY <1>5, <2>1, <2>2
<1>8. gone = n - k
  <2>0. k + 1 \in Int /\ n \in Int
    BY <1>1, <1>6
  <2>1. Cardinality((k + 1)..n) = IF k + 1 > n THEN 0 ELSE n - (k + 1) + 1
    BY <2>0, FS_Interval
  <2>2. Cardinality((k + 1)..n) = n - k
    BY <1>1, <1>6, <2>1
  <2> QED BY <1>4, <1>7, <2>2
<1>9. n - gone = k /\ gone \in 0..(n - 1)
  <2>1. n \in Int /\ k \in Int /\ 1 <= k /\ k <= n
    BY <1>1, <1>6
  <2> HIDE DEF n
  <2>2. n - (n - k) = k /\ n - k \in 0..(n - 1)
    BY <2>1
  <2> QED BY <1>8, <2>2
<1>10. \A i \in 1..k : r[i].freq >= 1
  BY <1>1, <1>3, <1>5, <1>6
<1>11. \A i \in (k + 1)..n : r[i].freq = 0
  <2> SUFFICES ASSUME NEW i \in (k + 1)..n PROVE r[i].freq = 0
    OBVIOUS
  <2>1. i \in 1..n /\ i \notin T
    BY <1>1, <1>6, <1>7
  <2> QED BY <1>3, <2>1
<1> QED BY <1>9, <1>10, <1>11

-------------------------------------------------------------------------------
(***************************************************************************)
(* How large a sum may become.                                             *)
(***************************************************************************)
Size == Cardinality(Symbols)

\* More of the same is more.
LEMMA TimesGrows ==
    ASSUME NEW a \in Nat, NEW n \in Nat, NEW k \in Nat, n <= k
    PROVE  a * n <= a * k /\ a * n \in Nat /\ a * k \in Nat
OBVIOUS

\* MAX_FREQ for each state, the greatest share, and what one step adds, fit
\* into two bytes.
LEMMA SumsFit ==
    ASSUME NEW n \in Nat, n <= Size
    PROVE  /\ Size \in Nat /\ MAX_FREQ * n \in Nat
           /\ MAX_FREQ * n + ShareLimit(n) + 10 < 65536
           /\ ShareLimit(n) \in Nat /\ MAX_FREQ \in 8..246
<1>1. Size \in Nat /\ MAX_FREQ \in 8..246 /\ Size * (MAX_FREQ + 11) + 30 < 65536
  BY CountsAssumption, FS_CardinalityType DEF Size
<1>2. MAX_FREQ * n <= MAX_FREQ * Size /\ MAX_FREQ * n \in Nat /\ MAX_FREQ * Size \in Nat
  BY <1>1, TimesGrows
<1>3. Size * (MAX_FREQ + 11) = MAX_FREQ * Size + 11 * Size
  BY <1>1
<1> DEFINE a == MAX_FREQ * n
           b == MAX_FREQ * Size
<1> HIDE DEF a, b
<1>4. a <= b /\ a \in Nat /\ b \in Nat /\ b + 11 * Size + 30 < 65536
  BY <1>1, <1>2, <1>3 DEF a, b
<1>5. ShareLimit(n) = 6 * Size + 20 + 5 * n
  BY DEF ShareLimit, Size
<1>6. a + ShareLimit(n) + 10 < 65536 /\ ShareLimit(n) \in Nat
  BY <1>1, <1>4, <1>5
<1> QED BY <1>1, <1>2, <1>6 DEF a

\* What fits into two bytes is kept.
LEMMA FitsTwoBytes ==
    ASSUME NEW x \in Nat, NEW y \in Nat, x + y < 65536
    PROVE  UInt16(x + y) = x + y
<1>1. ((x + y) % 65536) = x + y
  OBVIOUS
<1> QED BY <1>1 DEF UInt16

\* The share that is left is at least 1, and keeps its bound.
LEMMA ShareLeft ==
    ASSUME NEW e \in Nat, NEW n \in Nat, NEW k \in Nat, k <= n, n <= Size, e >= 1,
           e <= ShareLimit(n)
    PROVE  /\ EscapeShare(e + (n - k)) >= 1 /\ EscapeShare(e + (n - k)) <= ShareLimit(k)
           /\ EscapeShare(e + (n - k)) \in Nat
<1>1. Size \in Nat
  BY SumsFit
<1>2. ShareLimit(n) = 6 * Size + 20 + 5 * n /\ ShareLimit(k) = 6 * Size + 20 + 5 * k
  BY DEF ShareLimit, Size
<1> DEFINE f == e + (n - k)
<1>3. f \in Nat /\ f >= 1 /\ f <= 12 * Size + 39 + 10 * k
  BY <1>1, <1>2
<1> HIDE DEF f
<1>4. f - (f \div 2) >= 1 /\ f - (f \div 2) \in Nat /\ 2 * (f - (f \div 2)) <= f + 1
  BY <1>3
<1>5. f - (f \div 2) <= 6 * Size + 20 + 5 * k
  BY <1>1, <1>3, <1>4
<1> QED BY <1>2, <1>4, <1>5 DEF EscapeShare, f

\* A sequence of states before Rescale: what was counted last may be above
\* MAX_FREQ, by what one symbol counts.
Counting(q, summ) ==
    /\ q \in Seq(State) /\ Len(q) \in 1..Size /\ summ \in Nat
    /\ \A i \in 1..Len(q) : q[i].freq >= 1 /\ q[i].freq <= MAX_FREQ + 4
    /\ SumFreq(q) < summ /\ summ <= SumFreq(q) + ShareLimit(Len(q))

\* What h leaves of the states q.
Leaves(h, q, a) ==
    /\ h.left \in Seq(State) /\ Len(h.left) \in 1..Len(q)
    /\ h.gone = Len(q) - Len(h.left) /\ h.escFreq \in Nat /\ h.escFreq >= 1
    /\ h.summ \in Nat /\ HasRoom(h.left, h.summ)
    /\ SymbolsOf(h.left) \subseteq SymbolsOf(q)
    /\ a = 1 => h.gone = 0 /\ SymbolsOf(h.left) = SymbolsOf(q)

\* What Rescale makes of them has room again.
LEMMA HalvingKeepsRoom ==
    ASSUME NEW q, NEW summ, Counting(q, summ), NEW j \in 1..Len(q), NEW a \in {0, 1},
           NEW h, h = Halving(q, summ, j, a)
    PROVE  Leaves(h, q, a)
<1> DEFINE n == Len(q)
           r == Halved(q, j, a)
           gone == Cardinality({i \in DOMAIN r : r[i].freq = 0})
           k == n - gone
           left == SubSeq(r, 1, k)
           sum == SumFreq(q)
           e == summ - sum
<1>1. q \in Seq(State) /\ n \in 1..Size /\ summ \in Nat /\ n \in Nat
      /\ \A i \in 1..n : q[i].freq >= 1 /\ q[i].freq <= MAX_FREQ + 4
  BY DEF Counting
<1>2. sum < summ /\ summ <= sum + ShareLimit(n) /\ sum \in Nat
  BY <1>1, SumIsNat DEF Counting
<1>3. /\ r \in Seq(State) /\ Len(r) = n /\ Sorted(r)
      /\ \A i \in 1..n : r[i].freq >= a /\ r[i].freq <= MAX_FREQ
      /\ r[1].freq >= 2
      /\ SymbolsOf(r) = SymbolsOf(q)
  BY <1>1, HalvedIs
<1> HIDE DEF r
<1>4. n >= 1 /\ Size \in Nat /\ n <= Size
  <2>1. Size \in Nat
    BY <1>1, SumsFit, Bounds DEF Size
  <2> QED BY <1>1, <2>1
<1>5. /\ gone \in 0..(n - 1)
      /\ \A i \in 1..(n - gone) : r[i].freq >= 1
      /\ \A i \in (n - gone + 1)..n : r[i].freq = 0
  <2> HIDE DEF gone
  <2>1. gone = Cardinality({i \in DOMAIN r : r[i].freq = 0})
    BY DEF gone
  <2> QED BY <1>3, <1>4, <2>1, ZerosLast
<1> HIDE DEF gone
<1>6. k \in 1..n /\ k \in 0..n /\ n - k = gone /\ k \in Nat
  BY <1>1, <1>4, <1>5
<1>7. left \in Seq(State) /\ Len(left) = k /\ \A i \in 1..k : left[i] = r[i]
  BY <1>3, <1>6
<1>8. SumFreq(left) = SumFreq(r)
  BY <1>3, <1>5, <1>6, SumOfFront
<1>9. e \in Nat /\ e >= 1 /\ e <= ShareLimit(n) /\ ShareLimit(n) \in Nat
  <2>1. ShareLimit(n) \in Nat
    BY <1>1, <1>4, SumsFit
  <2> QED BY <1>1, <1>2, <2>1
<1> HIDE DEF k, left, e
<1> DEFINE esc == e + (n - k)
<1>10. EscapeShare(esc) >= 1 /\ EscapeShare(esc) <= ShareLimit(k) /\ EscapeShare(esc) \in Nat
  <2>1. k <= n /\ n <= Size /\ n \in Nat /\ k \in Nat
    BY <1>1, <1>4, <1>6
  <2> QED BY <1>9, <2>1, ShareLeft
<1>11. \A i \in 1..k : left[i].freq \in 1..MAX_FREQ
  <2> SUFFICES ASSUME NEW i \in 1..k PROVE left[i].freq \in 1..MAX_FREQ
    OBVIOUS
  <2>1. i \in 1..n
    BY <1>1, <1>6
  <2>2. r[i].freq \in Nat /\ r[i].freq >= 1 /\ r[i].freq <= MAX_FREQ /\ MAX_FREQ \in Nat
    BY <1>3, <1>5, <2>1, StateAt, Bounds DEF k
  <2> QED BY <1>7, <2>2
<1>12. SumFreq(r) \in Nat /\ SumFreq(r) <= MAX_FREQ * n
  <2>1. \A i \in 1..Len(r) : 0 <= r[i].freq /\ r[i].freq <= MAX_FREQ
    BY <1>3, StateAt
  <2>2. MAX_FREQ \in Nat /\ 0 \in Nat
    BY Bounds
  <2> QED BY <1>3, <2>1, <2>2, SumBetween, SumIsNat
<1>13. UInt16(SumFreq(r) + EscapeShare(esc)) = SumFreq(r) + EscapeShare(esc)
  <2>1. MAX_FREQ * n + ShareLimit(n) + 10 < 65536 /\ MAX_FREQ * n \in Nat
    BY <1>1, <1>4, SumsFit
  <2>2. ShareLimit(k) <= ShareLimit(n) /\ ShareLimit(k) \in Nat
    <3>1. ShareLimit(n) = 6 * Size + 20 + 5 * n /\ ShareLimit(k) = 6 * Size + 20 + 5 * k
      BY DEF ShareLimit, Size
    <3> QED BY <1>1, <1>4, <1>6, <3>1
  <2> DEFINE x == SumFreq(r)
             y == EscapeShare(esc)
             z == MAX_FREQ * n
  <2>3. x \in Nat /\ y \in Nat /\ x <= z /\ y <= ShareLimit(n) /\ z \in Nat
        /\ z + ShareLimit(n) + 10 < 65536
    BY <1>9, <1>10, <1>12, <2>1, <2>2
  <2> HIDE DEF x, y, z
  <2>4. x + y < 65536
    BY <1>9, <2>3
  <2>5. UInt16(x + y) = x + y
    BY <2>3, <2>4, FitsTwoBytes
  <2> QED BY <2>5 DEF x, y
<1>14. h.left = left /\ h.gone = gone /\ h.escFreq = e + gone
       /\ h.summ = UInt16(SumFreq(r) + EscapeShare(e + gone))
  BY <1>3 DEF Halving, r, gone, k, left, e
<1>15. h.summ = SumFreq(r) + EscapeShare(esc)
  BY <1>6, <1>13, <1>14
<1> HIDE DEF esc
<1>16. HasRoom(h.left, h.summ) /\ h.summ \in Nat
  <2>1. SumFreq(left) < h.summ /\ h.summ <= SumFreq(left) + ShareLimit(k) /\ h.summ \in Nat
    <3> DEFINE x == SumFreq(r)
               y == EscapeShare(esc)
               z == ShareLimit(k)
    <3>1. z \in Nat
      <4>1. z = 6 * Size + 20 + 5 * k
        BY DEF ShareLimit, Size
      <4> HIDE DEF z
      <4> QED BY <1>4, <1>6, <4>1
    <3>2. x \in Nat
      BY <1>12
    <3>3. h.summ = x + y
      BY <1>15
    <3>4. y \in Nat
      BY <1>10
    <3>5. SumFreq(left) < x + y /\ x + y <= SumFreq(left) + z
      BY <1>8, <1>10, <3>1, <3>2, <3>4
    <3> HIDE DEF x, y, z
    <3>6. SumFreq(left) < h.summ /\ h.summ <= SumFreq(left) + z /\ h.summ \in Nat
      BY <3>2, <3>3, <3>4, <3>5
    <3> QED BY <3>6 DEF z
  <2> QED BY <1>7, <1>11, <1>14, <2>1 DEF HasRoom
<1>17. SymbolsOf(left) \subseteq SymbolsOf(r)
  <2>1. DOMAIN left = 1..k /\ DOMAIN r = 1..n /\ \A i \in 1..k : i \in 1..n
    BY <1>1, <1>3, <1>6, <1>7
  <2> QED BY <1>7, <2>1 DEF SymbolsOf
<1>18. ASSUME a = 1 PROVE gone = 0 /\ SymbolsOf(left) = SymbolsOf(r)
  <2>1. gone = 0
    <3>1. CASE gone # 0
      <4>1. n \in (n - gone + 1)..n /\ n \in 1..n
        BY <1>1, <1>4, <1>5, <3>1
      <4>2. r[n].freq = 0 /\ r[n].freq >= 1
        BY <1>3, <1>5, <1>18, <4>1
      <4> QED BY <4>2
    <3> QED BY <3>1
  <2>2. k = n
    BY <1>1, <1>6, <2>1
  <2>3. DOMAIN left = 1..n /\ DOMAIN r = 1..n
    BY <1>3, <1>7, <2>2
  <2> QED BY <1>7, <2>1, <2>2, <2>3 DEF SymbolsOf
<1>19. h.escFreq \in Nat /\ h.escFreq >= 1
  <2>1. gone \in Nat
    BY <1>1, <1>5
  <2> QED BY <1>9, <1>14, <2>1
<1> QED BY <1>3, <1>6, <1>7, <1>14, <1>16, <1>17, <1>18, <1>19 DEF Leaves

-------------------------------------------------------------------------------
(***************************************************************************)
(* Models, as far as their contexts go.  A context of PPMd8 has flags.     *)
(***************************************************************************)
Context7 == [stats : Seq(State), summ : Nat, suffix : Nat]
Context8 == [stats : Seq(State), summ : Nat, suffix : Nat, flags : SUBSET Nat]

Kinds == {Context7, Context8}

IsModel(m, C) ==
    /\ {"ctx", "found", "Min", "OrderFall", "InitEsc"} \subseteq DOMAIN m
    /\ m.ctx \in Seq(C)

\* m2 is m but for the context c, which has the states s and the sum n.
Changed(C, m, m2, c, s, n) ==
    /\ IsModel(m2, C)
    /\ Contexts(m2) = Contexts(m)
    /\ Stats(m2, c) = s /\ SummFreq(m2, c) = n
    /\ \A d \in Contexts(m) \ {c} : Stats(m2, d) = Stats(m, d) /\ SummFreq(m2, d) = SummFreq(m, d)
    /\ m2.Min = m.Min /\ m2.OrderFall = m.OrderFall /\ m2.InitEsc = m.InitEsc

\* The fields of a context.
LEMMA ContextFields ==
    ASSUME NEW C \in Kinds, NEW x \in C
    PROVE  x.stats \in Seq(State) /\ x.summ \in Nat
<1>1. CASE C = Context7
  BY <1>1 DEF Context7
<1>2. CASE C = Context8
  BY <1>2 DEF Context8
<1> QED BY <1>1, <1>2 DEF Kinds

\* A context with other states.
LEMMA OtherStats ==
    ASSUME NEW C \in Kinds, NEW x \in C, NEW s \in Seq(State)
    PROVE  /\ [x EXCEPT !.stats = s] \in C /\ [x EXCEPT !.stats = s].stats = s
           /\ [x EXCEPT !.stats = s].summ = x.summ
<1>1. CASE C = Context7
  BY <1>1 DEF Context7
<1>2. CASE C = Context8
  BY <1>2 DEF Context8
<1> QED BY <1>1, <1>2 DEF Kinds

\* A context with another sum.
LEMMA OtherSumm ==
    ASSUME NEW C \in Kinds, NEW x \in C, NEW n \in Nat
    PROVE  /\ [x EXCEPT !.summ = n] \in C /\ [x EXCEPT !.summ = n].summ = n
           /\ [x EXCEPT !.summ = n].stats = x.stats
<1>1. CASE C = Context7
  BY <1>1 DEF Context7
<1>2. CASE C = Context8
  BY <1>2 DEF Context8
<1> QED BY <1>1, <1>2 DEF Kinds

\* The context x with the states s and the sum n.
WithBoth(x, s, n) == [x EXCEPT !.stats = s, !.summ = n]

\* A context with other states and another sum.
LEMMA BothFields ==
    ASSUME NEW C \in Kinds, NEW x \in C, NEW s \in Seq(State), NEW n \in Nat
    PROVE  /\ WithBoth(x, s, n) \in C
           /\ WithBoth(x, s, n).stats = s /\ WithBoth(x, s, n).summ = n
<1>1. CASE C = Context7
  BY <1>1 DEF Context7, WithBoth
<1>2. CASE C = Context8
  BY <1>2 DEF Context8, WithBoth
<1> QED BY <1>1, <1>2 DEF Kinds

PutContext(m, c, x) == [m EXCEPT !.ctx[c - TextSize] = x]

\* Contexts and their places.
LEMMA PlaceInCtx ==
    ASSUME NEW C, NEW m, IsModel(m, C), NEW c \in Contexts(m)
    PROVE  /\ c - TextSize \in 1..Len(m.ctx) /\ m.ctx[c - TextSize] \in C
           /\ \A d \in Contexts(m) \ {c} : d - TextSize # c - TextSize
<1>1. m.ctx \in Seq(C) /\ TextSize \in Nat
  BY Bounds DEF IsModel
<1>2. PICK i \in 1..Len(m.ctx) : c = TextSize + i
  BY DEF Contexts
<1>3. i \in Nat /\ c - TextSize = i
  BY <1>1, <1>2
<1>4. m.ctx[c - TextSize] \in C
  BY <1>1, <1>3
<1>5. ASSUME NEW d \in Contexts(m) \ {c} PROVE d - TextSize # c - TextSize
  <2>1. PICK k \in 1..Len(m.ctx) : d = TextSize + k
    BY DEF Contexts
  <2>2. k \in Nat /\ d - TextSize = k
    BY <1>1, <2>1
  <2> QED BY <1>2, <1>3, <2>1, <2>2
<1> QED BY <1>3, <1>4, <1>5

\* A context put in the place of another is a change of that one only.
LEMMA PutIs ==
    ASSUME NEW C, NEW m, IsModel(m, C), NEW c \in Contexts(m), NEW x \in C
    PROVE  Changed(C, m, PutContext(m, c, x), c, x.stats, x.summ)
<1> DEFINE m2 == PutContext(m, c, x)
           k == c - TextSize
<1>1. k \in 1..Len(m.ctx) /\ \A d \in Contexts(m) \ {c} : d - TextSize # k
  BY PlaceInCtx
<1>2. m.ctx \in Seq(C) /\ {"ctx", "found", "Min", "OrderFall", "InitEsc"} \subseteq DOMAIN m
  BY DEF IsModel
<1> HIDE DEF k
<1>3. m2 = [m EXCEPT !.ctx = [m.ctx EXCEPT ![k] = x]]
  BY <1>2 DEF PutContext, k
<1> HIDE DEF m2
<1> DEFINE q == [m.ctx EXCEPT ![k] = x]
<1>4. q \in Seq(C) /\ Len(q) = Len(m.ctx) /\ q[k] = x
      /\ \A i \in 1..Len(m.ctx) : i # k => q[i] = m.ctx[i]
  BY <1>1, <1>2
<1> HIDE DEF q
<1>5. DOMAIN m2 = DOMAIN m /\ m2.ctx = q /\ m2.Min = m.Min /\ m2.OrderFall = m.OrderFall
      /\ m2.InitEsc = m.InitEsc
  BY <1>2, <1>3 DEF q
<1>6. IsModel(m2, C) /\ Contexts(m2) = Contexts(m)
  BY <1>2, <1>4, <1>5 DEF IsModel, Contexts
<1>7. Stats(m2, c) = x.stats /\ SummFreq(m2, c) = x.summ
  BY <1>4, <1>5 DEF Stats, SummFreq, k
<1>8. ASSUME NEW d \in Contexts(m) \ {c}
      PROVE  Stats(m2, d) = Stats(m, d) /\ SummFreq(m2, d) = SummFreq(m, d)
  <2>1. d - TextSize \in 1..Len(m.ctx) /\ d - TextSize # k
    BY <1>1, PlaceInCtx
  <2>2. m2.ctx[d - TextSize] = m.ctx[d - TextSize]
    BY <1>4, <1>5, <2>1
  <2> QED BY <2>2 DEF Stats, SummFreq
<1> QED BY <1>5, <1>6, <1>7, <1>8 DEF Changed, m2

\* One change after another.
LEMMA ChangedTwice ==
    ASSUME NEW C, NEW m, NEW m2, NEW m3, NEW c, NEW s, NEW n, NEW s2, NEW n2,
           Changed(C, m, m2, c, s, n), Changed(C, m2, m3, c, s2, n2)
    PROVE  Changed(C, m, m3, c, s2, n2)
BY DEF Changed

-------------------------------------------------------------------------------
(***************************************************************************)
(* The operations on a model as changes of one context.                    *)
(***************************************************************************)
\* WithStats changes the states.
LEMMA WithStatsIs ==
    ASSUME NEW C \in Kinds, NEW m, IsModel(m, C), NEW c \in Contexts(m), NEW s \in Seq(State)
    PROVE  Changed(C, m, WithStats(m, c, s), c, s, SummFreq(m, c))
<1> DEFINE x == [m.ctx[c - TextSize] EXCEPT !.stats = s]
<1>1. m.ctx[c - TextSize] \in C
  BY PlaceInCtx
<1>2. x \in C /\ x.stats = s /\ x.summ = SummFreq(m, c)
  BY <1>1, OtherStats DEF SummFreq
<1>3. WithStats(m, c, s) = PutContext(m, c, x)
  BY DEF WithStats, PutContext
<1> HIDE DEF x
<1>4. Changed(C, m, PutContext(m, c, x), c, x.stats, x.summ)
  BY <1>2, PutIs
<1> QED BY <1>2, <1>3, <1>4

\* AddSumm changes the sum, when it fits into two bytes.
LEMMA AddSummIs ==
    ASSUME NEW C \in Kinds, NEW m, IsModel(m, C), NEW c \in Contexts(m), NEW k \in Nat,
           SummFreq(m, c) + k < 65536
    PROVE  Changed(C, m, AddSumm(m, c, k), c, Stats(m, c), SummFreq(m, c) + k)
<1> DEFINE n == UInt16(SummFreq(m, c) + k)
           x == [m.ctx[c - TextSize] EXCEPT !.summ = n]
<1>1. m.ctx[c - TextSize] \in C
  BY PlaceInCtx
<1>3. SummFreq(m, c) \in Nat
  BY <1>1, ContextFields DEF SummFreq
<1>4. n = SummFreq(m, c) + k
  BY <1>3, FitsTwoBytes
<1>5. n \in Nat
  BY <1>3, <1>4
<1> HIDE DEF n
<1>6. x \in C /\ x.summ = n /\ x.stats = Stats(m, c)
  BY <1>1, <1>5, OtherSumm DEF Stats
<1>7. AddSumm(m, c, k) = PutContext(m, c, x)
  BY DEF AddSumm, PutContext, n, SummFreq
<1> HIDE DEF x
<1>8. Changed(C, m, PutContext(m, c, x), c, x.stats, x.summ)
  BY <1>6, PutIs
<1> QED BY <1>4, <1>6, <1>7, <1>8

\* The states with one frequency more by k.
MoreAt(s, i, k) == [s EXCEPT ![i].freq = @ + k]

\* The sum of the frequencies is more by as much, and the symbols are the same.
LEMMA MoreAtIs ==
    ASSUME NEW s \in Seq(State), NEW i \in 1..Len(s), NEW k \in Nat
    PROVE  /\ MoreAt(s, i, k) \in Seq(State) /\ Len(MoreAt(s, i, k)) = Len(s)
           /\ MoreAt(s, i, k)[i].freq = s[i].freq + k
           /\ \A j \in 1..Len(s) : j # i => MoreAt(s, i, k)[j] = s[j]
           /\ \A j \in 1..Len(s) : MoreAt(s, i, k)[j].sym = s[j].sym
           /\ SumFreq(MoreAt(s, i, k)) = SumFreq(s) + k
           /\ SymbolsOf(MoreAt(s, i, k)) = SymbolsOf(s)
<1> DEFINE x == [s[i] EXCEPT !.freq = @ + k]
           r == MoreAt(s, i, k)
<1>1. s[i] \in State /\ s[i].freq \in Nat
  BY StateAt
<1>2. x \in State /\ x.freq = s[i].freq + k /\ x.sym = s[i].sym
  BY <1>1 DEF State
<1>3. r = [s EXCEPT ![i] = x]
  BY DEF MoreAt
<1> HIDE DEF x, r
<1>4. r \in Seq(State) /\ Len(r) = Len(s) /\ r[i] = x /\ \A j \in 1..Len(s) : j # i => r[j] = s[j]
  BY <1>2, <1>3
<1>5. SumFreq(r) = SumFreq(s) + (r[i].freq - s[i].freq)
  BY <1>4, SumChanged
<1>6. SumFreq(r) = SumFreq(s) + k
  BY <1>1, <1>2, <1>4, <1>5, SumIsNat
<1>7. \A j \in 1..Len(s) : r[j].sym = s[j].sym
  BY <1>2, <1>4
<1>8. SymbolsOf(r) = SymbolsOf(s)
  <2>1. DOMAIN r = 1..Len(s) /\ DOMAIN s = 1..Len(s)
    BY <1>4
  <2> QED BY <1>7, <2>1 DEF SymbolsOf
<1> QED BY <1>2, <1>4, <1>6, <1>7, <1>8 DEF r

\* AddFreq changes the states.
LEMMA AddFreqIs ==
    ASSUME NEW C \in Kinds, NEW m, IsModel(m, C), NEW c \in Contexts(m),
           NEW i \in 1..NumStats(m, c), NEW at, at[1] = c, at[2] = i, NEW k \in Nat
    PROVE  Changed(C, m, AddFreq(m, at, k), c, MoreAt(Stats(m, c), i, k), SummFreq(m, c))
<1> DEFINE s == MoreAt(Stats(m, c), i, k)
           x == [m.ctx[c - TextSize] EXCEPT !.stats = s]
<1>1. m.ctx[c - TextSize] \in C
  BY PlaceInCtx
<1>3. Stats(m, c) \in Seq(State)
  BY <1>1, ContextFields DEF Stats
<1>4. s \in Seq(State)
  BY <1>3, MoreAtIs DEF NumStats
<1>5. x \in C /\ x.stats = s /\ x.summ = SummFreq(m, c)
  BY <1>1, <1>4, OtherStats DEF SummFreq
<1>6. AddFreq(m, at, k) = PutContext(m, c, x)
  BY DEF AddFreq, PutContext, MoreAt, Stats
<1> HIDE DEF x
<1>7. Changed(C, m, PutContext(m, c, x), c, x.stats, x.summ)
  BY <1>5, PutIs
<1> QED BY <1>5, <1>6, <1>7

-------------------------------------------------------------------------------
(***************************************************************************)
(* Room in every context, and what keeps it.                               *)
(***************************************************************************)
ContextOK(s, n) ==
    /\ Len(s) \in 1..Size
    /\ IF Len(s) = 1 THEN s[1].freq \in 1..255 ELSE HasRoom(s, n)

\* What Roomy says of a context.
LEMMA RoomyAt ==
    ASSUME NEW C \in Kinds, NEW m, IsModel(m, C), Roomy(m), NEW c \in Contexts(m)
    PROVE  /\ ContextOK(Stats(m, c), SummFreq(m, c))
           /\ Stats(m, c) \in Seq(State) /\ SummFreq(m, c) \in Nat /\ NumStats(m, c) \in Nat
           /\ NumStats(m, c) = Len(Stats(m, c)) /\ NumStats(m, c) \in 1..Size
<1>1. m.ctx[c - TextSize] \in C
  BY PlaceInCtx
<1>2. Stats(m, c) \in Seq(State) /\ SummFreq(m, c) \in Nat
  BY <1>1, ContextFields DEF Stats, SummFreq
<1>3. NumStats(m, c) = Len(Stats(m, c)) /\ NumStats(m, c) \in Nat
  BY <1>2 DEF NumStats
<1>4. ContextOK(Stats(m, c), SummFreq(m, c)) /\ NumStats(m, c) \in 1..Size
  BY <1>3 DEF Roomy, ContextOK, Size
<1> QED BY <1>2, <1>3, <1>4

\* A change that leaves room in its context leaves room in all.
LEMMA RoomyAfter ==
    ASSUME NEW C \in Kinds, NEW m, Roomy(m), NEW m2, NEW c \in Contexts(m),
           NEW s, NEW n, Changed(C, m, m2, c, s, n), ContextOK(s, n)
    PROVE  IsModel(m2, C) /\ Roomy(m2)
<1>1. Contexts(m2) = Contexts(m) /\ IsModel(m2, C)
  BY DEF Changed
<1> SUFFICES ASSUME NEW d \in Contexts(m)
             PROVE  /\ NumStats(m2, d) \in 1..Size
                    /\ IF NumStats(m2, d) = 1
                       THEN Stats(m2, d)[1].freq \in 1..255
                       ELSE HasRoom(Stats(m2, d), SummFreq(m2, d))
  BY <1>1 DEF Roomy, Size
<1>2. CASE d = c
  <2>1. Stats(m2, d) = s /\ SummFreq(m2, d) = n /\ NumStats(m2, d) = Len(s)
    BY <1>2 DEF Changed, NumStats
  <2> QED BY <2>1 DEF ContextOK
<1>3. CASE d # c
  <2>1. Stats(m2, d) = Stats(m, d) /\ SummFreq(m2, d) = SummFreq(m, d)
        /\ NumStats(m2, d) = NumStats(m, d)
    BY <1>3 DEF Changed, NumStats
  <2> QED BY <2>1 DEF Roomy, Size
<1> QED BY <1>2, <1>3

\* A sum with room fits into two bytes, and so does what one step adds.
LEMMA RoomFits ==
    ASSUME NEW s \in Seq(State), Len(s) \in 1..Size, NEW n \in Nat, HasRoom(s, n)
    PROVE  n + 10 < 65536 /\ SumFreq(s) \in Nat /\ SumFreq(s) < n /\ Size \in Nat
           /\ n <= SumFreq(s) + ShareLimit(Len(s)) /\ ShareLimit(Len(s)) \in Nat
           /\ SumFreq(s) + ShareLimit(Len(s)) + 10 < 65536
<1>1. SumFreq(s) \in Nat /\ Len(s) \in Nat
  BY SumIsNat
<1>2. Size \in Nat
  BY Bounds DEF Size
<1>3. Len(s) <= Size
  BY <1>1, <1>2
<1>4. MAX_FREQ \in Nat /\ 0 \in Nat
  BY Bounds
<1>5. \A i \in 1..Len(s) : 0 <= s[i].freq /\ s[i].freq <= MAX_FREQ
  BY <1>4, StateAt DEF HasRoom
<1>6. SumFreq(s) <= MAX_FREQ * Len(s)
  BY <1>4, <1>5, SumBetween
<1>7. MAX_FREQ * Len(s) \in Nat /\ MAX_FREQ * Len(s) + ShareLimit(Len(s)) + 10 < 65536
      /\ ShareLimit(Len(s)) \in Nat
  BY <1>1, <1>3, SumsFit
<1>8. SumFreq(s) < n /\ n <= SumFreq(s) + ShareLimit(Len(s))
  BY DEF HasRoom
<1> DEFINE a == MAX_FREQ * Len(s)
           x == SumFreq(s)
           y == ShareLimit(Len(s))
<1>9. a \in Nat /\ x \in Nat /\ y \in Nat /\ x <= a /\ a + y + 10 < 65536 /\ x < n /\ n <= x + y
  BY <1>1, <1>6, <1>7, <1>8
<1> HIDE DEF a, x, y
<1>10. n + 10 < 65536 /\ x + y + 10 < 65536
  BY <1>9
<1> QED BY <1>1, <1>2, <1>7, <1>8, <1>10 DEF x, y

\* Counting a state by k, when its frequency stays in bounds, keeps room.
LEMMA MoreKeepsRoom ==
    ASSUME NEW s \in Seq(State), NEW n \in Nat, HasRoom(s, n), NEW i \in 1..Len(s),
           NEW k \in Nat, s[i].freq + k <= MAX_FREQ
    PROVE  HasRoom(MoreAt(s, i, k), n + k)
<1> DEFINE r == MoreAt(s, i, k)
<1>1. /\ r \in Seq(State) /\ Len(r) = Len(s)
      /\ r[i].freq = s[i].freq + k
      /\ \A j \in 1..Len(s) : j # i => r[j] = s[j]
      /\ SumFreq(r) = SumFreq(s) + k
  BY MoreAtIs
<1> HIDE DEF r
<1>2. SumFreq(s) \in Nat /\ Len(s) \in Nat /\ MAX_FREQ \in Nat /\ s[i].freq \in 1..MAX_FREQ
  BY SumIsNat, Bounds DEF HasRoom
<1>3. ShareLimit(Len(s)) \in Int
  <2>1. Size \in Nat
    BY Bounds DEF Size
  <2> QED BY <1>2, <2>1 DEF ShareLimit, Size
<1>4. SumFreq(s) < n /\ n <= SumFreq(s) + ShareLimit(Len(s))
  BY DEF HasRoom
<1>5. SumFreq(r) < n + k /\ n + k <= SumFreq(r) + ShareLimit(Len(r))
  BY <1>1, <1>2, <1>3, <1>4
<1>6. \A j \in 1..Len(r) : r[j].freq \in 1..MAX_FREQ
  <2> SUFFICES ASSUME NEW j \in 1..Len(s) PROVE r[j].freq \in 1..MAX_FREQ
    BY <1>1
  <2>1. CASE j = i
    BY <1>1, <1>2, <2>1
  <2>2. CASE j # i
    BY <1>1, <2>2 DEF HasRoom
  <2> QED BY <2>1, <2>2
<1> QED BY <1>5, <1>6 DEF HasRoom, r

\* So does an exchange of neighbours.
LEMMA SwappedKeepsRoom ==
    ASSUME NEW s \in Seq(State), NEW n \in Nat, HasRoom(s, n), NEW i \in 2..Len(s)
    PROVE  HasRoom(Swapped(s, i), n)
<1> DEFINE r == Swapped(s, i)
<1>1. /\ r \in Seq(State) /\ Len(r) = Len(s) /\ SumFreq(r) = SumFreq(s)
      /\ \A j \in 1..Len(s) : r[j] = IF j = i THEN s[i - 1] ELSE IF j = i - 1 THEN s[i] ELSE s[j]
  BY SumSwapped
<1> HIDE DEF r
<1>2. i \in 1..Len(s) /\ i - 1 \in 1..Len(s)
  OBVIOUS
<1>3. \A j \in 1..Len(r) : r[j].freq \in 1..MAX_FREQ
  BY <1>1, <1>2 DEF HasRoom
<1> QED BY <1>1, <1>3 DEF HasRoom, r

-------------------------------------------------------------------------------
(***************************************************************************)
(* UpdateModel: the suffix of MinContext.                                  *)
(***************************************************************************)
\* The place of a symbol that is there.
LEMMA PlaceOfIs ==
    ASSUME NEW s \in Seq(State), NEW x \in SymbolsOf(s)
    PROVE  PlaceOf(s, x) \in 1..Len(s) /\ s[PlaceOf(s, x)].sym = x
<1>1. \E i \in DOMAIN s : s[i].sym = x
  BY DEF SymbolsOf
<1>2. PlaceOf(s, x) \in DOMAIN s /\ s[PlaceOf(s, x)].sym = x
  BY <1>1, Zenon DEF PlaceOf
<1> QED BY <1>2

\* Counting the state at place i of a context with several by k.
LEMMA CountedByKeepsRoom ==
    ASSUME NEW C \in Kinds, NEW m, IsModel(m, C), Roomy(m), NEW c \in Contexts(m),
           NumStats(m, c) # 1, NEW i \in 1..NumStats(m, c), NEW at, at[1] = c, at[2] = i,
           NEW k \in 0..9, Stats(m, c)[i].freq + k <= MAX_FREQ
    PROVE  /\ Changed(C, m, AddSumm(AddFreq(m, at, k), c, k), c, MoreAt(Stats(m, c), i, k),
                      SummFreq(m, c) + k)
           /\ IsModel(AddSumm(AddFreq(m, at, k), c, k), C)
           /\ Roomy(AddSumm(AddFreq(m, at, k), c, k))
<1> DEFINE s == Stats(m, c)
           n == SummFreq(m, c)
           m1 == AddFreq(m, at, k)
           m2 == AddSumm(m1, c, k)
<1>1. /\ ContextOK(s, n) /\ s \in Seq(State) /\ n \in Nat /\ NumStats(m, c) = Len(s)
      /\ Len(s) \in 1..Size /\ k \in Nat
  BY RoomyAt
<1>2. HasRoom(s, n)
  BY <1>1 DEF ContextOK
<1>3. n + k < 65536
  <2>1. n + 10 < 65536
    BY <1>1, <1>2, RoomFits
  <2> QED BY <1>1, <2>1
<1>4. Changed(C, m, m1, c, MoreAt(s, i, k), n)
  BY <1>1, AddFreqIs
<1>5. IsModel(m1, C) /\ c \in Contexts(m1) /\ SummFreq(m1, c) = n /\ Stats(m1, c) = MoreAt(s, i, k)
  BY <1>4 DEF Changed
<1> HIDE DEF m1
<1>6. Changed(C, m1, m2, c, MoreAt(s, i, k), n + k)
  <2>1. SummFreq(m1, c) + k < 65536
    BY <1>3, <1>5
  <2>2. Changed(C, m1, m2, c, Stats(m1, c), SummFreq(m1, c) + k)
    BY <1>1, <1>5, <2>1, AddSummIs
  <2> QED BY <1>5, <2>2
<1>7. Changed(C, m, m2, c, MoreAt(s, i, k), n + k)
  BY <1>4, <1>6, ChangedTwice
<1>8. HasRoom(MoreAt(s, i, k), n + k) /\ Len(MoreAt(s, i, k)) = Len(s)
  BY <1>1, <1>2, MoreKeepsRoom, MoreAtIs
<1>9. ContextOK(MoreAt(s, i, k), n + k)
  BY <1>1, <1>8 DEF ContextOK
<1> HIDE DEF m2, s, n
<1>10. IsModel(m2, C) /\ Roomy(m2)
  BY <1>7, <1>9, RoomyAfter
<1> QED BY <1>7, <1>10 DEF m1, m2, s, n

\* A state that is alone in its context counts once more, below the threshold
\* of UpdateBin, of UpdateModel or of CreateSuccessors, or not: every context
\* keeps room, and the count fits into its byte.
THEOREM LoneCountKeepsRoom ==
    ASSUME NEW C \in Kinds, NEW m, IsModel(m, C), Roomy(m), NEW c \in Contexts(m),
           NumStats(m, c) = 1, NEW at, at[1] = c, at[2] = 1,
           NEW k \in {0, 1}, k = 1 => Stats(m, c)[1].freq < 255
    PROVE  IsModel(AddFreq(m, at, k), C) /\ Roomy(AddFreq(m, at, k))
<1> DEFINE s == Stats(m, c)
           r == MoreAt(s, 1, k)
<1>1. /\ ContextOK(s, SummFreq(m, c)) /\ s \in Seq(State) /\ Len(s) = 1 /\ k \in Nat
      /\ 1 \in 1..NumStats(m, c) /\ 1 \in 1..Len(s) /\ Len(s) \in 1..Size
  <2>1. /\ ContextOK(s, SummFreq(m, c)) /\ s \in Seq(State) /\ NumStats(m, c) = Len(s)
        /\ NumStats(m, c) \in 1..Size
    BY RoomyAt
  <2>2. k \in Nat /\ 1 \in 1..1
    OBVIOUS
  <2> HIDE DEF s
  <2> QED BY <2>1, <2>2
<1>2. Changed(C, m, AddFreq(m, at, k), c, r, SummFreq(m, c))
  BY <1>1, AddFreqIs
<1>3. Len(r) = 1 /\ r[1].freq = s[1].freq + k
  BY <1>1, MoreAtIs
<1>4. s[1].freq \in 1..255
  BY <1>1 DEF ContextOK
<1>5. ContextOK(r, SummFreq(m, c))
  <2>1. r[1].freq \in 1..255
    BY <1>3, <1>4
  <2> QED BY <1>1, <1>3, <2>1 DEF ContextOK
<1> HIDE DEF r, s
<1> QED BY <1>2, <1>5, RoomyAfter

\* The found symbol counts in the suffix of MinContext, where it may move one
\* place to the front (UpdateModel, in both models): every context keeps room
\* for an escape.
THEOREM SuffixKeepsRoom ==
    ASSUME NEW C \in Kinds, NEW m, IsModel(m, C), Roomy(m),
           CountsInSuffix(m) => /\ Suffix(m, m.Min) \in Contexts(m)
                                /\ FoundState(m).sym \in SymbolsOf(Stats(m, Suffix(m, m.Min)))
    PROVE  IsModel(UpdateSuffix(m), C) /\ Roomy(UpdateSuffix(m))
<1> DEFINE c  == Suffix(m, m.Min)
           s  == Stats(m, c)
           i  == PlaceOf(s, FoundState(m).sym)
           up == i # 1 /\ s[i].freq >= s[i - 1].freq
           j  == IF up THEN i - 1 ELSE i
           m1 == IF up THEN WithStats(m, c, Swapped(s, i)) ELSE m
<1>1. CASE ~CountsInSuffix(m)
  <2>1. UpdateSuffix(m) = m
    BY <1>1 DEF UpdateSuffix
  <2> QED BY <2>1
<1>2. CASE CountsInSuffix(m)
  <2>1. c \in Contexts(m)
    BY <1>2
  <2>2. /\ ContextOK(s, SummFreq(m, c)) /\ s \in Seq(State) /\ SummFreq(m, c) \in Nat
        /\ NumStats(m, c) = Len(s) /\ Len(s) \in 1..Size /\ Len(s) \in Nat
    BY <2>1, RoomyAt
  <2>3. i \in 1..Len(s)
    BY <1>2, <2>2, PlaceOfIs
  <2>4. CASE NumStats(m, c) = 1
    <3> DEFINE k == Bool(s[1].freq < 32)
    <3>1. UpdateSuffix(m) = AddFreq(m, <<c, 1>>, k)
      BY <1>2, <2>4 DEF UpdateSuffix
    <3>2. k \in {0, 1} /\ (k = 1 => s[1].freq < 255)
      <4>1. s[1].freq \in Nat
        <5>1. 1 \in 1..Len(s)
          BY <2>2
        <5> HIDE DEF s
        <5> QED BY <2>2, <5>1, StateAt
      <4> QED BY <4>1 DEF Bool
    <3> DEFINE at == <<c, 1>>
    <3>3. at[1] = c /\ at[2] = 1
      OBVIOUS
    <3> HIDE DEF k, at, c, s
    <3>4. IsModel(AddFreq(m, at, k), C) /\ Roomy(AddFreq(m, at, k))
      BY <2>1, <2>4, <3>2, <3>3, LoneCountKeepsRoom DEF s
    <3> QED BY <3>1, <3>4 DEF at, c
  <2>5. CASE NumStats(m, c) # 1
    <3>1. UpdateSuffix(m) = IF Stats(m1, c)[j].freq < MAX_FREQ - 9
                            THEN AddSumm(AddFreq(m1, <<c, j>>, 2), c, 2)
                            ELSE m1
      BY <1>2, <2>5 DEF UpdateSuffix
    <3>2. HasRoom(s, SummFreq(m, c))
      BY <2>2, <2>5 DEF ContextOK
    <3>3. /\ IsModel(m1, C) /\ Roomy(m1) /\ c \in Contexts(m1)
          /\ NumStats(m1, c) = Len(s) /\ j \in 1..Len(s)
      <4>1. CASE up
        <5>1. i \in 2..Len(s) /\ j = i - 1 /\ i - 1 \in 1..Len(s)
          BY <2>2, <2>3, <4>1
        <5>2. Swapped(s, i) \in Seq(State) /\ Len(Swapped(s, i)) = Len(s)
          BY <2>2, <5>1, SumSwapped
        <5>3. HasRoom(Swapped(s, i), SummFreq(m, c))
          BY <2>2, <3>2, <5>1, SwappedKeepsRoom
        <5>4. ContextOK(Swapped(s, i), SummFreq(m, c))
          BY <2>2, <2>5, <5>2, <5>3 DEF ContextOK
        <5>5. m1 = WithStats(m, c, Swapped(s, i))
          BY <4>1
        <5> DEFINE r == Swapped(s, i)
        <5> HIDE DEF r, c, s, m1
        <5>6. Changed(C, m, m1, c, r, SummFreq(m, c))
          BY <2>1, <5>2, <5>5, WithStatsIs DEF r
        <5>7. IsModel(m1, C) /\ Roomy(m1)
          BY <2>1, <5>4, <5>6, RoomyAfter DEF r
        <5>8. c \in Contexts(m1) /\ Stats(m1, c) = r
          BY <2>1, <5>6 DEF Changed
        <5>9. NumStats(m1, c) = Len(s)
          BY <5>2, <5>8 DEF NumStats, r
        <5> QED BY <5>1, <5>7, <5>8, <5>9
      <4>2. CASE ~up
        BY <2>1, <2>2, <2>3, <4>2
      <4> QED BY <4>1, <4>2
    <3> HIDE DEF m1, j
    <3>4. CASE Stats(m1, c)[j].freq < MAX_FREQ - 9
      <4> DEFINE at == <<c, j>>
      <4>1. at[1] = c /\ at[2] = j
        OBVIOUS
      <4> HIDE DEF c, s, at
      <4>2. j \in 1..NumStats(m1, c) /\ NumStats(m1, c) # 1 /\ 2 \in 0..9
        BY <2>2, <2>5, <3>3
      <4>3. Stats(m1, c)[j].freq + 2 <= MAX_FREQ
        <5>1. Stats(m1, c) \in Seq(State) /\ NumStats(m1, c) = Len(Stats(m1, c))
          BY <3>3, RoomyAt
        <5>2. Stats(m1, c)[j].freq \in Nat /\ MAX_FREQ \in Nat
          BY <4>2, <5>1, StateAt, Bounds
        <5> QED BY <3>4, <5>2
      <4>4. IsModel(AddSumm(AddFreq(m1, at, 2), c, 2), C) /\ Roomy(AddSumm(AddFreq(m1, at, 2), c, 2))
        BY <3>3, <4>1, <4>2, <4>3, CountedByKeepsRoom
      <4> QED BY <3>1, <3>4, <4>4 DEF at, c
    <3>5. CASE ~(Stats(m1, c)[j].freq < MAX_FREQ - 9)
      BY <3>1, <3>3, <3>5
    <3> QED BY <3>4, <3>5
  <2> QED BY <2>4, <2>5
<1> QED BY <1>1, <1>2

\* A state that CreateSuccessors passes on its way counts once more (PPMd8):
\* every context keeps room.
THEOREM PassingKeepsRoom ==
    ASSUME NEW C \in Kinds, NEW m, IsModel(m, C), Roomy(m), NEW c \in Contexts(m),
           NEW i \in 1..NumStats(m, c)
    PROVE  IsModel(Passed(m, c, i), C) /\ Roomy(Passed(m, c, i))
<1> DEFINE at == <<c, i>>
           f == Stats(m, c)[i].freq
<1>1. Stats(m, c) \in Seq(State) /\ NumStats(m, c) = Len(Stats(m, c)) /\ NumStats(m, c) \in Nat
  BY RoomyAt
<1>2. f \in Nat /\ MAX_FREQ \in Nat
  BY <1>1, StateAt, Bounds
<1>3. at[1] = c /\ at[2] = i
  OBVIOUS
<1> HIDE DEF at
<1>4. CASE NumStats(m, c) # 1 /\ f < MAX_FREQ - 9
  <2>1. Passed(m, c, i) = AddSumm(AddFreq(m, at, 1), c, 1)
    BY <1>4 DEF Passed, at
  <2>2. f + 1 <= MAX_FREQ /\ 1 \in 0..9
    BY <1>2, <1>4
  <2> QED BY <1>3, <1>4, <2>1, <2>2, CountedByKeepsRoom
<1>5. CASE NumStats(m, c) # 1 /\ ~(f < MAX_FREQ - 9)
  <2>1. Passed(m, c, i) = m
    BY <1>5 DEF Passed
  <2> QED BY <2>1
<1>6. CASE NumStats(m, c) = 1
  <2> DEFINE k == Bool(NumStats(m, Suffix(m, c)) = 1 /\ f < 24)
  <2>1. Passed(m, c, i) = AddFreq(m, at, k)
    BY <1>6 DEF Passed, at
  <2>2. i = 1
    BY <1>6
  <2>3. k \in {0, 1} /\ (k = 1 => Stats(m, c)[1].freq < 255)
    BY <1>2, <2>2 DEF Bool
  <2> HIDE DEF k
  <2>4. IsModel(AddFreq(m, at, k), C) /\ Roomy(AddFreq(m, at, k))
    BY <1>3, <1>6, <2>2, <2>3, LoneCountKeepsRoom
  <2> QED BY <2>1, <2>4
<1> QED BY <1>4, <1>5, <1>6

\* So does a state that ReduceOrder comes by (PPMd8), by 2.
THEOREM SearchingKeepsRoom ==
    ASSUME NEW C \in Kinds, NEW m, IsModel(m, C), Roomy(m), NEW c \in Contexts(m),
           NEW i \in 1..NumStats(m, c)
    PROVE  IsModel(Searched(m, c, i), C) /\ Roomy(Searched(m, c, i))
<1> DEFINE at == <<c, i>>
           f == Stats(m, c)[i].freq
<1>1. Stats(m, c) \in Seq(State) /\ NumStats(m, c) = Len(Stats(m, c)) /\ NumStats(m, c) \in Nat
  BY RoomyAt
<1>2. f \in Nat /\ MAX_FREQ \in Nat
  BY <1>1, StateAt, Bounds
<1>3. at[1] = c /\ at[2] = i
  OBVIOUS
<1> HIDE DEF at
<1>4. CASE NumStats(m, c) # 1 /\ f < MAX_FREQ - 9
  <2>1. Searched(m, c, i) = AddSumm(AddFreq(m, at, 2), c, 2)
    BY <1>4 DEF Searched, at
  <2>2. f + 2 <= MAX_FREQ /\ 2 \in 0..9
    BY <1>2, <1>4
  <2> QED BY <1>3, <1>4, <2>1, <2>2, CountedByKeepsRoom
<1>5. CASE NumStats(m, c) # 1 /\ ~(f < MAX_FREQ - 9)
  <2>1. Searched(m, c, i) = m
    BY <1>5 DEF Searched
  <2> QED BY <2>1
<1>6. CASE NumStats(m, c) = 1
  <2> DEFINE k == Bool(f < 32)
  <2>1. Searched(m, c, i) = AddFreq(m, at, k)
    BY <1>6 DEF Searched, at
  <2>2. i = 1
    BY <1>6
  <2>3. k \in {0, 1} /\ (k = 1 => Stats(m, c)[1].freq < 255)
    BY <1>2, <2>2 DEF Bool
  <2> HIDE DEF k
  <2>4. IsModel(AddFreq(m, at, k), C) /\ Roomy(AddFreq(m, at, k))
    BY <1>3, <1>6, <2>2, <2>3, LoneCountKeepsRoom
  <2> QED BY <2>1, <2>4
<1> QED BY <1>4, <1>5, <1>6

-------------------------------------------------------------------------------
(***************************************************************************)
(* UpdateModel: a new state.                                               *)
(***************************************************************************)

\* A context that a state can join, which adds up to `more` to the escape's
\* share.
Open(s, n, more) ==
    /\ s \in Seq(State) /\ Len(s) \in 1..Size /\ Len(s) + 1 <= Size /\ n \in Nat
    /\ \A i \in 1..Len(s) : s[i].freq \in 1..MAX_FREQ
    /\ SumFreq(s) < n /\ n + more <= SumFreq(s) + ShareLimit(Len(s)) + 5

\* The sums of the new state: its frequency, and what SummFreq grows by.
LEMMA JoinedKeepsRoom ==
    ASSUME NEW s, NEW n, NEW more \in Nat, Open(s, n, more), NEW x \in State, NEW g \in Nat,
           x.freq \in 1..7, x.freq <= g, g <= x.freq + more, g <= 7, more >= 2
    PROVE  HasRoom(Append(s, x), n + g) /\ n + g < 65536
<1> DEFINE r == Append(s, x)
           k == Len(s)
<1>1. s \in Seq(State) /\ k \in Nat /\ k + 1 <= Size /\ n \in Nat /\ k \in 1..Size
  BY DEF Open
<1>2. r \in Seq(State) /\ Len(r) = k + 1 /\ r[k + 1] = x /\ \A i \in 1..k : r[i] = s[i]
  BY <1>1
<1>3. SumFreq(r) = SumFreq(s) + x.freq /\ SumFreq(s) \in Nat
  BY <1>1, SumAppended, SumIsNat
<1>4. Size \in Nat /\ MAX_FREQ \in 8..246
  BY Bounds DEF Size
<1>5. ShareLimit(k + 1) = ShareLimit(k) + 5 /\ ShareLimit(k) \in Nat
  <2>1. ShareLimit(k) = 6 * Size + 20 + 5 * k /\ ShareLimit(k + 1) = 6 * Size + 20 + 5 * (k + 1)
    BY DEF ShareLimit, Size
  <2> QED BY <1>1, <1>4, <2>1
<1>6. SumFreq(s) < n /\ n + more <= SumFreq(s) + ShareLimit(k) + 5
  BY DEF Open
<1>7. SumFreq(s) <= MAX_FREQ * k /\ MAX_FREQ * k \in Nat
      /\ MAX_FREQ * k + ShareLimit(k) + 10 < 65536
  <2>1. \A i \in 1..k : 0 <= s[i].freq /\ s[i].freq <= MAX_FREQ
    BY <1>1, <1>4, StateAt DEF Open
  <2>2. MAX_FREQ \in Nat /\ 0 \in Nat /\ k <= Size
    BY <1>1, <1>4
  <2>3. SumFreq(s) <= MAX_FREQ * k
    BY <1>1, <2>1, <2>2, SumBetween
  <2>4. MAX_FREQ * k \in Nat /\ MAX_FREQ * k + ShareLimit(k) + 10 < 65536
    BY <1>1, <2>2, SumsFit
  <2> QED BY <2>3, <2>4
<1> DEFINE sum == SumFreq(s)
           a == MAX_FREQ * k
           y == ShareLimit(k)
           f == x.freq
<1>8. sum \in Nat /\ a \in Nat /\ y \in Nat /\ f \in 1..7 /\ sum < n /\ n + more <= sum + y + 5
      /\ sum <= a /\ a + y + 10 < 65536
  BY <1>3, <1>5, <1>6, <1>7
<1> HIDE DEF sum, a, y, f
<1>9. sum + f < n + g /\ n + g <= sum + f + (y + 5) /\ n + g < 65536
  <2>1. f <= g /\ g <= f + more
    BY DEF f
  <2> QED BY <1>1, <1>8, <2>1
<1>10. SumFreq(r) = sum + f /\ ShareLimit(Len(r)) = y + 5
  BY <1>2, <1>3, <1>5 DEF sum, y, f
<1>11. \A i \in 1..Len(r) : r[i].freq \in 1..MAX_FREQ
  <2> SUFFICES ASSUME NEW i \in 1..(k + 1) PROVE r[i].freq \in 1..MAX_FREQ
    BY <1>2
  <2>1. CASE i = k + 1
    BY <1>2, <1>4, <2>1
  <2>2. CASE i # k + 1
    <3>1. i \in 1..k
      BY <1>1, <2>2
    <3> QED BY <1>2, <3>1 DEF Open
  <2> QED BY <2>1, <2>2
<1> HIDE DEF r
<1> QED BY <1>9, <1>10, <1>11 DEF HasRoom, r

\* The state joins the others.
LEMMA JoinedIs ==
    ASSUME NEW C \in Kinds, NEW m, IsModel(m, C), NEW c \in Contexts(m),
           NEW more \in Nat, more >= 2, Open(Stats(m, c), SummFreq(m, c), more),
           NEW fs, fs.sym \in Symbols, NEW successor \in Nat, NEW new,
           new.freq \in 1..7, new.summ \in Nat, new.freq <= new.summ,
           new.summ <= new.freq + more, new.summ <= 7
    PROVE  \E s, n : /\ Changed(C, m, Joined(m, c, fs, new, successor), c, s, n)
                     /\ ContextOK(s, n)
<1> DEFINE q == Stats(m, c)
           x == [sym |-> fs.sym, freq |-> new.freq, succ |-> successor]
           s == Append(q, x)
           m1 == WithStats(m, c, s)
           g == new.summ
           n == SummFreq(m, c)
<1>1. q \in Seq(State) /\ n \in Nat /\ Len(q) \in 1..Size /\ Len(q) + 1 <= Size /\ Len(q) \in Nat
  BY DEF Open
<1>2. x \in State /\ x.freq = new.freq
  BY DEF State
<1>3. s \in Seq(State) /\ Len(s) = Len(q) + 1
  BY <1>1, <1>2
<1>4. HasRoom(s, n + g) /\ n + g < 65536
  <2> HIDE DEF x, q, n, g
  <2>1. g \in Nat /\ x.freq \in 1..7 /\ x.freq <= g /\ g <= x.freq + more /\ g <= 7
    BY <1>2 DEF g
  <2>2. Open(q, n, more)
    BY DEF q, n
  <2> QED BY <1>2, <2>1, <2>2, JoinedKeepsRoom
<1>5. Joined(m, c, fs, new, successor) = AddSumm(m1, c, g)
  BY DEF Joined
<1> HIDE DEF x, q, s, g
<1>6. Changed(C, m, m1, c, s, n)
  BY <1>3, WithStatsIs
<1>7. IsModel(m1, C) /\ c \in Contexts(m1) /\ Stats(m1, c) = s /\ SummFreq(m1, c) = n
  BY <1>6 DEF Changed
<1> HIDE DEF m1, n
<1>8. SummFreq(m1, c) + g < 65536 /\ g \in Nat
  BY <1>4, <1>7 DEF g
<1>9. Changed(C, m1, AddSumm(m1, c, g), c, Stats(m1, c), SummFreq(m1, c) + g)
  BY <1>7, <1>8, AddSummIs
<1>10. Changed(C, m1, AddSumm(m1, c, g), c, s, n + g)
  BY <1>7, <1>9
<1>11. Changed(C, m, AddSumm(m1, c, g), c, s, n + g)
  BY <1>6, <1>10, ChangedTwice
<1>12. ContextOK(s, n + g)
  <2>1. Len(s) \in 1..Size /\ Len(s) # 1
    <3>1. Size \in Nat
      BY Bounds DEF Size
    <3> QED BY <1>1, <1>3, <3>1
  <2> QED BY <1>4, <2>1 DEF ContextOK
<1> QED BY <1>5, <1>11, <1>12

\* The lone state of a context that gets company: its frequency is shared.
LEMMA SharedIs ==
    ASSUME NEW f \in 1..255
    PROVE  SharedFreq(f) \in 1..MAX_FREQ
<1>1. MAX_FREQ \in 8..246
  BY Bounds
<1>2. CASE f < MAX_FREQ \div 4 - 1
  <2>1. SharedFreq(f) = 2 * f
    BY <1>2 DEF SharedFreq
  <2>2. 4 * (MAX_FREQ \div 4) <= MAX_FREQ /\ MAX_FREQ \div 4 \in Nat
    BY <1>1
  <2> DEFINE d == MAX_FREQ \div 4
  <2>3. 2 * f <= MAX_FREQ /\ 2 * f >= 1
    <3>1. d \in Nat /\ 4 * d <= MAX_FREQ /\ f < d - 1
      BY <1>2, <2>2
    <3> HIDE DEF d
    <3> QED BY <1>1, <3>1
  <2> QED BY <1>1, <2>1, <2>3
<1>3. CASE ~(f < MAX_FREQ \div 4 - 1)
  <2>1. SharedFreq(f) = MAX_FREQ - 4
    BY <1>3 DEF SharedFreq
  <2> QED BY <1>1, <2>1
<1> QED BY <1>2, <1>3

\* A context with one state and a sum for it.
LEMMA OneShared ==
    ASSUME NEW C \in Kinds, NEW m, IsModel(m, C), Roomy(m), NEW c \in Contexts(m),
           NumStats(m, c) = 1, NumStats(m, c) < Size, NEW share \in 1..26,
           NEW f1, f1 = SharedFreq(Stats(m, c)[1].freq), NEW m1,
           m1 = [m EXCEPT !.ctx[c - TextSize] = [@ EXCEPT !.stats[1].freq = f1, !.summ = f1 + share]]
    PROVE  \E s, n : Changed(C, m, m1, c, s, n) /\ Open(s, n, 5)
<1> DEFINE q == Stats(m, c)
           y == [q[1] EXCEPT !.freq = f1]
           s == [q EXCEPT ![1] = y]
           n == f1 + share
           x == m.ctx[c - TextSize]
           x2 == WithBoth(x, s, n)
<1>1. /\ q \in Seq(State) /\ Len(q) = 1 /\ ContextOK(q, SummFreq(m, c))
  <2>1. q \in Seq(State) /\ NumStats(m, c) = Len(q) /\ ContextOK(q, SummFreq(m, c))
    BY RoomyAt
  <2> HIDE DEF q
  <2> QED BY <2>1
<1>2. f1 \in 1..MAX_FREQ /\ MAX_FREQ \in 8..246 /\ f1 \in Nat /\ f1 >= 1
  <2>1. q[1].freq \in 1..255
    BY <1>1 DEF ContextOK
  <2>2. f1 \in 1..MAX_FREQ /\ MAX_FREQ \in 8..246
    <3>1. SharedFreq(q[1].freq) \in 1..MAX_FREQ
      BY <2>1, SharedIs
    <3> QED BY <3>1, Bounds
  <2> QED BY <2>2
<1>3. q[1] \in State
  <2>1. 1 \in 1..Len(q)
    BY <1>1
  <2> HIDE DEF q
  <2> QED BY <1>1, <2>1, StateAt
<1>4. y \in State /\ y.freq = f1
  BY <1>2, <1>3 DEF State
<1> HIDE DEF q, y
<1>5. s \in Seq(State) /\ Len(s) = 1 /\ s[1] = y
  BY <1>1, <1>4
<1> HIDE DEF s
<1>6. SumFreq(s) = f1
  <2>1. \A i \in 1..Len(s) : f1 <= s[i].freq /\ s[i].freq <= f1
    <3> SUFFICES ASSUME NEW i \in 1..Len(s) PROVE s[i].freq = f1
      BY <1>2
    <3>1. i = 1
      BY <1>5
    <3> QED BY <1>4, <1>5, <3>1
  <2>2. f1 * Len(s) <= SumFreq(s) /\ SumFreq(s) <= f1 * Len(s)
    BY <1>2, <1>5, <2>1, SumBetween
  <2>3. f1 * Len(s) = f1
    <3>1. f1 * 1 = f1
      BY <1>2
    <3> QED BY <1>5, <3>1
  <2>4. SumFreq(s) \in Nat
    BY <1>5, SumIsNat
  <2> QED BY <1>2, <2>2, <2>3, <2>4
<1>7. n \in Nat
  BY <1>2
<1>8. x \in C
  BY PlaceInCtx
<1>9. m1 = PutContext(m, c, x2)
  BY DEF PutContext, WithBoth, s, y, q, Stats
<1>10. f1 < n /\ n <= f1 + 26
  BY <1>2
<1> HIDE DEF x, n
<1>11. x2 \in C /\ x2.stats = s /\ x2.summ = n
  BY <1>5, <1>7, <1>8, BothFields
<1> HIDE DEF x2
<1>12. Changed(C, m, PutContext(m, c, x2), c, x2.stats, x2.summ)
  BY <1>11, PutIs
<1>13. Open(s, n, 5)
  <2>1. Size \in Nat /\ 1 < Size
    BY Bounds DEF Size
  <2>2. ShareLimit(Len(s)) = 6 * Size + 25
    <3>1. ShareLimit(1) = 6 * Size + 20 + 5 * 1
      BY DEF ShareLimit, Size
    <3> QED BY <1>5, <2>1, <3>1
  <2>3. Len(s) \in 1..Size /\ Len(s) + 1 <= Size
    BY <1>5, <2>1
  <2>4. SumFreq(s) < n /\ n + 5 <= SumFreq(s) + ShareLimit(Len(s)) + 5
    BY <1>2, <1>6, <1>7, <1>10, <2>1, <2>2
  <2>5. \A i \in 1..Len(s) : s[i].freq \in 1..MAX_FREQ
    <3> SUFFICES ASSUME NEW i \in 1..Len(s) PROVE s[i].freq \in 1..MAX_FREQ
      OBVIOUS
    <3>1. i = 1
      BY <1>5
    <3> QED BY <1>2, <1>4, <1>5, <3>1
  <2> QED BY <1>5, <1>7, <2>3, <2>4, <2>5 DEF Open
<1> QED BY <1>9, <1>11, <1>12, <1>13

\* A larger block for the states: the sum may grow before the new state comes.
LEMMA LargerOpens ==
    ASSUME NEW C \in Kinds, NEW m, IsModel(m, C), Roomy(m), NEW c \in Contexts(m),
           NumStats(m, c) # 1, NumStats(m, c) < Size, NEW k \in Nat, NEW more \in Nat,
           k + more <= 5
    PROVE  \E s, n : Changed(C, m, AddSumm(m, c, k), c, s, n) /\ Open(s, n, more)
<1> DEFINE s == Stats(m, c)
           n == SummFreq(m, c)
<1>1. /\ ContextOK(s, n) /\ s \in Seq(State) /\ n \in Nat /\ NumStats(m, c) = Len(s)
      /\ Len(s) \in 1..Size
  BY RoomyAt
<1> HIDE DEF s, n
<1>2. HasRoom(s, n)
  BY <1>1 DEF ContextOK
<1>3. n + 10 < 65536 /\ SumFreq(s) \in Nat /\ SumFreq(s) < n /\ Size \in Nat
      /\ n <= SumFreq(s) + ShareLimit(Len(s)) /\ ShareLimit(Len(s)) \in Nat
  BY <1>1, <1>2, RoomFits
<1>4. n + k < 65536
  BY <1>1, <1>3
<1>5. Changed(C, m, AddSumm(m, c, k), c, s, n + k)
  BY <1>4, AddSummIs DEF s, n
<1>6. Open(s, n + k, more)
  <2>1. Len(s) + 1 <= Size /\ n + k \in Nat
    BY <1>1, <1>3
  <2>2. SumFreq(s) < n + k /\ n + k + more <= SumFreq(s) + ShareLimit(Len(s)) + 5
    BY <1>1, <1>3
  <2>3. \A i \in 1..Len(s) : s[i].freq \in 1..MAX_FREQ
    BY <1>2 DEF HasRoom
  <2> QED BY <1>1, <2>1, <2>2, <2>3 DEF Open
<1> QED BY <1>5, <1>6

\* Who is open for more is open for less.
LEMMA OpenForLess ==
    ASSUME NEW s, NEW n, Open(s, n, 5), NEW more \in Nat, more <= 5
    PROVE  Open(s, n, more)
<1>1. s \in Seq(State) /\ n \in Nat /\ n + 5 <= SumFreq(s) + ShareLimit(Len(s)) + 5
      /\ Len(s) \in 1..Size
  BY DEF Open
<1>2. SumFreq(s) \in Nat /\ ShareLimit(Len(s)) \in Int
  <2>1. Size \in Nat
    BY Bounds DEF Size
  <2> QED BY <1>1, <2>1, SumIsNat DEF ShareLimit, Size
<1>3. n + more <= SumFreq(s) + ShareLimit(Len(s)) + 5
  BY <1>1, <1>2
<1> QED BY <1>3 DEF Open

\* The expansion of PPMd7 leaves the context open for the new state.
LEMMA Expand7Opens ==
    ASSUME NEW C \in Kinds, NEW m, IsModel(m, C), Roomy(m), NEW c \in Contexts(m),
           NumStats(m, c) < Size, NumStats(m, c) = 1 => m.InitEsc \in 1..25, NEW ns
    PROVE  \E s, n : Changed(C, m, Expand7(m, c, ns), c, s, n) /\ Open(s, n, 2)
<1>1. CASE NumStats(m, c) # 1
  <2> DEFINE k == Bool(2 * NumStats(m, c) < ns)
                  + 2 * Bool(4 * NumStats(m, c) <= ns /\ SummFreq(m, c) <= 8 * NumStats(m, c))
  <2>1. k \in Nat /\ k + 2 <= 5
    BY DEF Bool
  <2>2. Expand7(m, c, ns) = AddSumm(m, c, k)
    BY <1>1 DEF Expand7
  <2> HIDE DEF k
  <2>3. \E s, n : Changed(C, m, AddSumm(m, c, k), c, s, n) /\ Open(s, n, 2)
    BY <1>1, <2>1, LargerOpens
  <2> QED BY <2>2, <2>3
<1>2. CASE NumStats(m, c) = 1
  <2> DEFINE share == m.InitEsc + Bool(ns > 3)
             f1 == SharedFreq(Stats(m, c)[1].freq)
             m1 == Expand7(m, c, ns)
  <2>1. share \in 1..26
    BY <1>2 DEF Bool
  <2>2. m1 = [m EXCEPT !.ctx[c - TextSize] = [@ EXCEPT !.stats[1].freq = f1,
                                                     !.summ = f1 + m.InitEsc + Bool(ns > 3)]]
    BY <1>2 DEF Expand7
  <2>3. f1 + m.InitEsc + Bool(ns > 3) = f1 + share
    <3>1. Stats(m, c)[1].freq \in 1..255
      BY <1>2 DEF Roomy
    <3>2. f1 \in Nat
      <4>1. f1 \in 1..MAX_FREQ
        BY <3>1, SharedIs
      <4> HIDE DEF f1
      <4> QED BY <4>1, Bounds
    <3>3. m.InitEsc \in Nat /\ Bool(ns > 3) \in Nat
      BY <1>2 DEF Bool
    <3> HIDE DEF f1
    <3> QED BY <3>2, <3>3
  <2>4. m1 = [m EXCEPT !.ctx[c - TextSize] = [@ EXCEPT !.stats[1].freq = f1, !.summ = f1 + share]]
    BY <2>2, <2>3
  <2>5. f1 = SharedFreq(Stats(m, c)[1].freq)
    OBVIOUS
  <2> HIDE DEF m1, f1, share
  <2>6. \E s, n : Changed(C, m, m1, c, s, n) /\ Open(s, n, 5)
    BY <1>2, <2>1, <2>4, <2>5, OneShared
  <2> QED BY <2>6, OpenForLess DEF m1
<1> QED BY <1>1, <1>2

\* The expansion of PPMd8 leaves the context open for a little more.
LEMMA Expand8Opens ==
    ASSUME NEW C \in Kinds, NEW m, IsModel(m, C), Roomy(m), NEW c \in Contexts(m),
           NumStats(m, c) < Size, NumStats(m, c) = 1 => m.InitEsc \in 1..25, NEW ns
    PROVE  \E s, n : Changed(C, m, Expand8(m, c, ns), c, s, n) /\ Open(s, n, 3)
<1>0. NumStats(m, c) \in Nat
  BY RoomyAt
<1>1. CASE NumStats(m, c) # 1
  <2> DEFINE k == Bool(3 * (NumStats(m, c) - 1) + 1 < ns)
  <2>1. k \in Nat /\ k + 3 <= 5
    BY DEF Bool
  <2>2. Expand8(m, c, ns) = AddSumm(m, c, k)
    BY <1>0, <1>1 DEF Expand8
  <2> HIDE DEF k
  <2>3. \E s, n : Changed(C, m, AddSumm(m, c, k), c, s, n) /\ Open(s, n, 3)
    BY <1>1, <2>1, LargerOpens
  <2> QED BY <2>2, <2>3
<1>2. CASE NumStats(m, c) = 1
  <2> DEFINE share == m.InitEsc + Bool(ns > 2)
             f1 == SharedFreq(Stats(m, c)[1].freq)
             m1 == Expand8(m, c, ns)
  <2>1. share \in 1..26
    BY <1>2 DEF Bool
  <2>2. m1 = [m EXCEPT !.ctx[c - TextSize] = [@ EXCEPT !.stats[1].freq = f1,
                                                     !.summ = f1 + m.InitEsc + Bool(ns > 2)]]
    BY <1>2 DEF Expand8
  <2>3. f1 + m.InitEsc + Bool(ns > 2) = f1 + share
    <3>1. Stats(m, c)[1].freq \in 1..255
      BY <1>2 DEF Roomy
    <3>2. f1 \in Nat
      <4>1. f1 \in 1..MAX_FREQ
        BY <3>1, SharedIs
      <4> HIDE DEF f1
      <4> QED BY <4>1, Bounds
    <3>3. m.InitEsc \in Nat /\ Bool(ns > 2) \in Nat
      BY <1>2 DEF Bool
    <3> HIDE DEF f1
    <3> QED BY <3>2, <3>3
  <2>4. m1 = [m EXCEPT !.ctx[c - TextSize] = [@ EXCEPT !.stats[1].freq = f1, !.summ = f1 + share]]
    BY <2>2, <2>3
  <2>5. f1 = SharedFreq(Stats(m, c)[1].freq)
    OBVIOUS
  <2> HIDE DEF m1, f1, share
  <2>6. \E s, n : Changed(C, m, m1, c, s, n) /\ Open(s, n, 5)
    BY <1>2, <2>1, <2>4, <2>5, OneShared
  <2> QED BY <2>6, OpenForLess DEF m1
<1> QED BY <1>1, <1>2

\* What the new state starts with.
LEMMA NewFreqIs ==
    ASSUME NEW f, NEW s0, NEW summ
    PROVE  /\ NewFreq7(f, s0, summ).freq \in 1..7 /\ NewFreq7(f, s0, summ).summ \in 3..7
           /\ NewFreq7(f, s0, summ).freq <= NewFreq7(f, s0, summ).summ
           /\ NewFreq7(f, s0, summ).summ <= NewFreq7(f, s0, summ).freq + 2
           /\ NewFreq8(f, s0, summ).freq \in 1..7 /\ NewFreq8(f, s0, summ).summ \in 4..7
           /\ NewFreq8(f, s0, summ).freq <= NewFreq8(f, s0, summ).summ
           /\ NewFreq8(f, s0, summ).summ <= NewFreq8(f, s0, summ).freq + 3
<1> DEFINE cf == 2 * f * (summ + 6)
           sf == s0 + summ
<1>1. \A b : Bool(b) \in {0, 1}
  BY DEF Bool
<1>2. /\ NewFreq7(f, s0, summ) =
            IF cf < 6 * sf
            THEN [freq |-> 1 + Bool(cf > sf) + Bool(cf >= 4 * sf), summ |-> 3]
            ELSE [freq |-> 4 + Bool(cf >= 9 * sf) + Bool(cf >= 12 * sf) + Bool(cf >= 15 * sf),
                  summ |-> 4 + Bool(cf >= 9 * sf) + Bool(cf >= 12 * sf) + Bool(cf >= 15 * sf)]
      /\ NewFreq8(f, s0, summ) =
            IF cf < 6 * sf
            THEN [freq |-> 1 + Bool(cf > sf) + Bool(cf >= 4 * sf), summ |-> 4]
            ELSE [freq |-> 4 + Bool(cf > 9 * sf) + Bool(cf > 12 * sf) + Bool(cf > 15 * sf),
                  summ |-> 4 + Bool(cf > 9 * sf) + Bool(cf > 12 * sf) + Bool(cf > 15 * sf)]
  BY DEF NewFreq7, NewFreq8
<1> HIDE DEF cf, sf
<1> QED BY <1>1, <1>2

\* A new state in a context, in PPMd7: every context keeps room for an escape.
\* A context that gets its second state was left by an escape, which set
\* InitEsc.
THEOREM NewStateKeepsRoom7 ==
    ASSUME NEW C \in Kinds, NEW m, IsModel(m, C), Roomy(m), NEW c \in Contexts(m),
           NumStats(m, c) < Cardinality(Symbols),
           NumStats(m, c) = 1 => m.InitEsc \in 1..25,
           NEW fs, fs.sym \in Symbols, NEW ns, NEW s0, NEW successor \in Nat
    PROVE  /\ IsModel(WithNewState7(m, c, fs, ns, s0, successor), C)
           /\ Roomy(WithNewState7(m, c, fs, ns, s0, successor))
<1> DEFINE m1 == Expand7(m, c, ns)
           new == NewFreq7(fs.freq, s0, SummFreq(m1, c))
           m2 == Joined(m1, c, fs, new, successor)
<1>1. PICK s, n : Changed(C, m, m1, c, s, n) /\ Open(s, n, 2)
  BY Expand7Opens DEF Size
<1>2. WithNewState7(m, c, fs, ns, s0, successor) = m2
  BY DEF WithNewState7
<1> HIDE DEF m1
<1>3. new.freq \in 1..7 /\ new.summ \in Nat /\ new.freq <= new.summ
      /\ new.summ <= new.freq + 2 /\ new.summ <= 7
  <2>1. new.freq \in 1..7 /\ new.summ \in 3..7 /\ new.freq <= new.summ
        /\ new.summ <= new.freq + 2
    BY NewFreqIs
  <2> HIDE DEF new
  <2> QED BY <2>1
<1> HIDE DEF new
<1>4. IsModel(m1, C) /\ c \in Contexts(m1) /\ Open(Stats(m1, c), SummFreq(m1, c), 2)
  BY <1>1 DEF Changed
<1>5. \E s2, n2 : Changed(C, m1, m2, c, s2, n2) /\ ContextOK(s2, n2)
  <2>1. 2 \in Nat /\ 2 >= 2
    OBVIOUS
  <2> QED BY <1>3, <1>4, <2>1, JoinedIs
<1> HIDE DEF m2
<1>6. PICK s2, n2 : Changed(C, m1, m2, c, s2, n2) /\ ContextOK(s2, n2)
  BY <1>5
<1>7. Changed(C, m, m2, c, s2, n2)
  BY <1>1, <1>6, ChangedTwice
<1>8. IsModel(m2, C) /\ Roomy(m2)
  BY <1>6, <1>7, RoomyAfter
<1> QED BY <1>2, <1>8

\* The same in PPMd8, where the context also remembers whether it has a high
\* symbol.
THEOREM NewStateKeepsRoom8 ==
    ASSUME NEW m, IsModel(m, Context8), Roomy(m), NEW c \in Contexts(m),
           NumStats(m, c) < Cardinality(Symbols),
           NumStats(m, c) = 1 => m.InitEsc \in 1..25,
           NEW fs, fs.sym \in Symbols, NEW ns, NEW s0, NEW successor \in Nat
    PROVE  /\ IsModel(WithNewState8(m, c, fs, ns, s0, successor), Context8)
           /\ Roomy(WithNewState8(m, c, fs, ns, s0, successor))
<1> DEFINE m1 == Expand8(m, c, ns)
           new == NewFreq8(fs.freq, s0, SummFreq(m1, c))
           m2 == Joined(m1, c, fs, new, successor)
           m3 == [m2 EXCEPT !.ctx[c - TextSize].flags = @ \union HighFlag(8, fs.sym)]
<1>0. Context8 \in Kinds
  BY DEF Kinds
<1>1. PICK s, n : Changed(Context8, m, m1, c, s, n) /\ Open(s, n, 3)
  BY <1>0, Expand8Opens DEF Size
<1>2. WithNewState8(m, c, fs, ns, s0, successor) = m3
  BY DEF WithNewState8
<1> HIDE DEF m1
<1>3. new.freq \in 1..7 /\ new.summ \in Nat /\ new.freq <= new.summ
      /\ new.summ <= new.freq + 3 /\ new.summ <= 7
  <2>1. new.freq \in 1..7 /\ new.summ \in 4..7 /\ new.freq <= new.summ
        /\ new.summ <= new.freq + 3
    BY NewFreqIs
  <2> HIDE DEF new
  <2> QED BY <2>1
<1> HIDE DEF new
<1>4. IsModel(m1, Context8) /\ c \in Contexts(m1) /\ Open(Stats(m1, c), SummFreq(m1, c), 3)
  BY <1>1 DEF Changed
<1>5. \E s2, n2 : Changed(Context8, m1, m2, c, s2, n2) /\ ContextOK(s2, n2)
  <2>1. 3 \in Nat /\ 3 >= 2
    OBVIOUS
  <2> QED BY <1>0, <1>3, <1>4, <2>1, JoinedIs
<1> HIDE DEF m2
<1>6. PICK s2, n2 : Changed(Context8, m1, m2, c, s2, n2) /\ ContextOK(s2, n2)
  BY <1>5
<1>7. Changed(Context8, m, m2, c, s2, n2)
  BY <1>1, <1>6, ChangedTwice
<1>8. IsModel(m2, Context8) /\ c \in Contexts(m2) /\ Stats(m2, c) = s2 /\ SummFreq(m2, c) = n2
  BY <1>7 DEF Changed
<1>9. Changed(Context8, m2, m3, c, s2, n2)
  <2> DEFINE x == m2.ctx[c - TextSize]
             y == [x EXCEPT !.flags = @ \union HighFlag(8, fs.sym)]
  <2>1. x \in Context8 /\ x.stats = s2 /\ x.summ = n2
    BY <1>8, PlaceInCtx DEF Stats, SummFreq
  <2>2. m3 = PutContext(m2, c, y)
    BY DEF PutContext
  <2> HIDE DEF x
  <2>3. HighFlag(8, fs.sym) \in SUBSET Nat
    BY DEF HighFlag
  <2>4. y \in Context8 /\ y.stats = s2 /\ y.summ = n2
    BY <2>1, <2>3 DEF Context8
  <2> HIDE DEF y
  <2>5. Changed(Context8, m2, PutContext(m2, c, y), c, y.stats, y.summ)
    BY <1>8, <2>4, PutIs
  <2> QED BY <2>2, <2>4, <2>5
<1> HIDE DEF m3
<1>10. Changed(Context8, m, m3, c, s2, n2)
  BY <1>7, <1>9, ChangedTwice
<1>11. IsModel(m3, Context8) /\ Roomy(m3)
  BY <1>0, <1>6, <1>10, RoomyAfter
<1> QED BY <1>2, <1>11

-------------------------------------------------------------------------------
(***************************************************************************)
(* Rescale: the state that stays alone.                                    *)
(***************************************************************************)
Upper(f) == f - f \div 2

\* What a choice for the loop of LoneFreq7 satisfies.
LoneLoop(g, freq, n) ==
    g = [e \in 0..n |-> Upper(IF e \div 2 > 1 THEN g[e \div 2] ELSE freq)]

\* The half that stays of a frequency is one that counts.
LEMMA UpperIs ==
    ASSUME NEW freq \in Nat, NEW f \in 1..freq
    PROVE  Upper(f) \in 1..freq
BY DEF Upper

\* The numbers that the loop halves become smaller.
LEMMA HalfBelow ==
    ASSUME NEW k \in Nat
    PROVE  /\ (k + 1) \div 2 \in 0..k
           /\ \A e \in 0..k : e \div 2 \in 0..k
BY Z3

\* The loop ends: it has a result for every share of the escape.
LEMMA LoneLoopExists ==
    ASSUME NEW freq, NEW n \in Nat
    PROVE  \E g : LoneLoop(g, freq, n)
<1> DEFINE S == {k \in 0..n : \E g : LoneLoop(g, freq, k)}
<1>1. 0 \in S
  <2> DEFINE g == [e \in 0..0 |-> Upper(freq)]
  <2>1. \A e \in 0..0 : ~(e \div 2 > 1) /\ g[e] = Upper(freq)
    OBVIOUS
  <2>2. g = [e \in 0..0 |-> Upper(IF e \div 2 > 1 THEN g[e \div 2] ELSE freq)]
    BY <2>1
  <2>3. LoneLoop(g, freq, 0)
    BY <2>2 DEF LoneLoop
  <2> QED BY <2>3
<1>2. ASSUME NEW k \in 0..(n - 1), k \in S PROVE k + 1 \in S
  <2>1. PICK g : LoneLoop(g, freq, k)
    BY <1>2
  <2> DEFINE m == k + 1
             last == Upper(IF m \div 2 > 1 THEN g[m \div 2] ELSE freq)
             f == [e \in 0..m |-> IF e \in 0..k THEN g[e] ELSE last]
  <2>2. k \in Nat /\ m \in 0..n /\ \A e \in 0..m : e \in 0..k \/ (e = m /\ e \notin 0..k)
    OBVIOUS
  <2>3. m \div 2 \in 0..k /\ \A e \in 0..k : e \div 2 \in 0..k /\ e \in 0..m
    BY <2>2, HalfBelow
  <2>4. \A e \in 0..k : f[e] = g[e]
    BY <2>3
  <2>5. \A e \in 0..k : g[e] = Upper(IF e \div 2 > 1 THEN g[e \div 2] ELSE freq)
    BY <2>1 DEF LoneLoop
  <2>6. f[m] = last
    BY <2>2
  <2>7. f = [e \in 0..m |-> f[e]]
    OBVIOUS
  <2> HIDE DEF f
  <2>8. ASSUME NEW e \in 0..m
        PROVE  f[e] = Upper(IF e \div 2 > 1 THEN f[e \div 2] ELSE freq)
    <3>1. CASE e \in 0..k
      BY <2>3, <2>4, <2>5, <3>1
    <3>2. CASE e = m
      BY <2>3, <2>4, <2>6, <3>2
    <3> QED BY <2>2, <3>1, <3>2
  <2>9. LoneLoop(f, freq, m)
    BY <2>7, <2>8 DEF LoneLoop
  <2> QED BY <2>2, <2>9
<1> HIDE DEF S
<1>3. n \in S
  BY <1>1, <1>2, Climb
<1> QED BY <1>3 DEF S

\* What is left of a frequency counts.
LEMMA LoneFreq7Is ==
    ASSUME NEW freq \in Nat, freq >= 1, NEW n \in Nat
    PROVE  LoneFreq7(freq, n) \in 1..freq
<1> DEFINE g == CHOOSE g : LoneLoop(g, freq, n)
           S == {k \in 0..n : \A e \in 0..k : g[e] \in 1..freq}
<1>1. LoneLoop(g, freq, n)
  BY LoneLoopExists
<1>2. LoneFreq7(freq, n) = g[n]
  BY Zenon DEF LoneFreq7, LoneLoop, Upper
<1> HIDE DEF g
<1>3. \A e \in 0..n : g[e] = Upper(IF e \div 2 > 1 THEN g[e \div 2] ELSE freq)
  BY <1>1 DEF LoneLoop
<1>4. freq \in 1..freq
  OBVIOUS
<1>5. 0 \in S
  <2>1. 0 \in 0..n /\ ~(0 \div 2 > 1) /\ \A e \in 0..0 : e = 0
    OBVIOUS
  <2>2. g[0] = Upper(freq)
    BY <1>3, <2>1
  <2>3. g[0] \in 1..freq
    BY <1>4, <2>2, UpperIs
  <2> QED BY <2>1, <2>3
<1>6. ASSUME NEW k \in 0..(n - 1), k \in S PROVE k + 1 \in S
  <2>1. k \in Nat /\ k + 1 \in 0..n /\ \A e \in 0..(k + 1) : e \in 0..k \/ e = k + 1
    OBVIOUS
  <2>2. \A e \in 0..k : g[e] \in 1..freq
    BY <1>6
  <2>3. (k + 1) \div 2 \in 0..k
    BY <2>1, HalfBelow
  <2>4. g[k + 1] = Upper(IF (k + 1) \div 2 > 1 THEN g[(k + 1) \div 2] ELSE freq)
    BY <1>3, <2>1
  <2>5. g[k + 1] \in 1..freq
    <3> DEFINE f == IF (k + 1) \div 2 > 1 THEN g[(k + 1) \div 2] ELSE freq
    <3>1. f \in 1..freq
      BY <1>4, <2>2, <2>3
    <3> HIDE DEF f
    <3>2. Upper(f) \in 1..freq
      BY <3>1, UpperIs
    <3> QED BY <2>4, <3>2 DEF f
  <2> QED BY <2>1, <2>2, <2>5
<1> HIDE DEF S
<1>7. n \in S
  BY <1>5, <1>6, Climb
<1>8. n \in 0..n
  OBVIOUS
<1> QED BY <1>2, <1>7, <1>8 DEF S

\* The mean of PPMd8 counts too, and is bounded.
LEMMA LoneFreq8Is ==
    ASSUME NEW freq \in Nat, freq >= 1, NEW n \in Nat, n >= 1
    PROVE  LoneFreq8(freq, n) \in 1..MAX_FREQ
<1>1. MAX_FREQ \in 8..246
  BY Bounds
<1>2. MAX_FREQ \div 3 \in 1..MAX_FREQ
  BY <1>1
<1> DEFINE d == (2 * freq + n - 1) \div n
<1>3. d \in Nat /\ d >= 1
  <2> DEFINE a == 2 * freq + n - 1
  <2>1. a \in Nat /\ a >= n
    OBVIOUS
  <2> HIDE DEF a
  <2>2. a \div n \in Nat /\ a \div n >= 1
    BY <2>1, Z3
  <2> QED BY <2>2 DEF a
<1>4. LoneFreq8(freq, n) = IF d > MAX_FREQ \div 3 THEN MAX_FREQ \div 3 ELSE d
  BY DEF LoneFreq8
<1> HIDE DEF d
<1> QED BY <1>1, <1>2, <1>3, <1>4

-------------------------------------------------------------------------------
(***************************************************************************)
(* Rescale: what it makes of MinContext.                                   *)
(***************************************************************************)

\* The states s are those of q, or at full order some of them.
Kept(s, q, orderFall) ==
    /\ SymbolsOf(s) \subseteq SymbolsOf(q)
    /\ orderFall # 0 => SymbolsOf(s) = SymbolsOf(q)

\* FoundState alone changes.
LEMMA FoundElsewhere ==
    ASSUME NEW C, NEW m, IsModel(m, C), NEW f, NEW m2, m2 = [m EXCEPT !.found = f]
    PROVE  /\ IsModel(m2, C) /\ m2.ctx = m.ctx /\ m2.found = f
           /\ m2.Min = m.Min /\ m2.OrderFall = m.OrderFall /\ m2.InitEsc = m.InitEsc
           /\ Contexts(m2) = Contexts(m)
           /\ \A d : Stats(m2, d) = Stats(m, d) /\ SummFreq(m2, d) = SummFreq(m, d)
<1>1. DOMAIN m2 = DOMAIN m /\ m2.ctx = m.ctx /\ m2.found = f
      /\ m2.Min = m.Min /\ m2.OrderFall = m.OrderFall /\ m2.InitEsc = m.InitEsc
  BY DEF IsModel
<1> QED BY <1>1 DEF IsModel, Contexts, Stats, SummFreq

\* What stays after halving: one state alone, with the frequency k, or several
\* that leave room.
LEMMA LeftOver ==
    ASSUME NEW q, NEW summ, Counting(q, summ), Len(q) # 1,
           NEW a \in {0, 1}, NEW h, Leaves(h, q, a), NEW k \in 1..MAX_FREQ,
           NEW lone, lone = <<[h.left[1] EXCEPT !.freq = k]>>
    PROVE  IF h.gone # 0 /\ Len(h.left) = 1
           THEN lone \in Seq(State) /\ ContextOK(lone, 0) /\ Kept(lone, q, a)
                /\ SymbolsOf(lone) = SymbolsOf(h.left)
           ELSE h.left \in Seq(State) /\ h.summ \in Nat /\ ContextOK(h.left, h.summ)
                /\ Kept(h.left, q, a)
<1> DEFINE s == h.left
           n == h.summ
           gone == h.gone
<1>1. /\ s \in Seq(State) /\ Len(s) \in 1..Len(q) /\ gone = Len(q) - Len(s)
      /\ n \in Nat /\ HasRoom(s, n)
      /\ SymbolsOf(s) \subseteq SymbolsOf(q)
      /\ (a = 1 => gone = 0 /\ SymbolsOf(s) = SymbolsOf(q))
  BY DEF Leaves
<1>2. Len(q) \in 1..Size /\ Len(q) \in Nat
  BY DEF Counting
<1>3. Size \in Nat /\ MAX_FREQ \in 8..246
  BY Bounds DEF Size
<1>a. lone = <<[s[1] EXCEPT !.freq = k]>>
  OBVIOUS
<1> HIDE DEF s, n, gone
<1>4. Len(s) \in 1..Size
  BY <1>1, <1>2, <1>3
<1>5. Kept(s, q, a)
  BY <1>1 DEF Kept
<1>6. CASE gone # 0 /\ Len(s) = 1
  <2> DEFINE x == [s[1] EXCEPT !.freq = k]
  <2>1. 1 \in 1..Len(s)
    BY <1>1
  <2>2. s[1] \in State
    BY <1>1, <2>1, StateAt
  <2>3. k \in Nat /\ k \in 1..255
    BY <1>3
  <2>4. x \in State /\ x.freq = k /\ x.sym = s[1].sym
    BY <2>2, <2>3 DEF State
  <2>5. lone = <<x>>
    BY <1>a
  <2> HIDE DEF x
  <2>6. lone \in Seq(State) /\ Len(lone) = 1 /\ lone[1] = x /\ DOMAIN lone = {1}
    BY <2>4, <2>5
  <2>7. ContextOK(lone, 0)
    BY <1>4, <1>6, <2>3, <2>4, <2>6 DEF ContextOK
  <2>8. DOMAIN s = {1}
    BY <1>1, <1>6
  <2>9. SymbolsOf(lone) = SymbolsOf(s)
    BY <2>4, <2>6, <2>8 DEF SymbolsOf
  <2>10. Kept(lone, q, a)
    BY <1>5, <2>9 DEF Kept
  <2> QED BY <1>6, <2>6, <2>7, <2>9, <2>10 DEF s, gone
<1>7. CASE ~(gone # 0 /\ Len(s) = 1)
  <2>1. Len(s) # 1
    BY <1>1, <1>2, <1>7
  <2>2. ContextOK(s, n)
    BY <1>1, <1>4, <2>1 DEF ContextOK
  <2> QED BY <1>1, <1>5, <1>7, <2>2 DEF s, n, gone
<1> QED BY <1>6, <1>7

\* MinContext before Rescale.
Due(C, m) ==
    /\ IsModel(m, C) /\ m.Min \in Contexts(m) /\ NumStats(m, m.Min) # 1
    /\ m.found[1] = m.Min /\ m.found[2] \in 1..NumStats(m, m.Min)
    /\ Counting(Stats(m, m.Min), SummFreq(m, m.Min))

\* The context in the place of c is x, and FoundState has moved.
PutFound(m, c, x, f) == [m EXCEPT !.found = f, !.ctx[c - TextSize] = x]

\* That FoundState moves does not matter for the contexts.
LEMMA PutFoundIs ==
    ASSUME NEW C, NEW m, IsModel(m, C), NEW c \in Contexts(m), NEW x \in C, NEW f
    PROVE  Changed(C, m, PutFound(m, c, x, f), c, x.stats, x.summ)
<1> DEFINE m1 == [m EXCEPT !.found = f]
           m2 == PutFound(m, c, x, f)
<1>1. m2 = PutContext(m1, c, x)
  BY DEF PutContext, IsModel, PutFound
<1>2. m1 = [m EXCEPT !.found = f]
  OBVIOUS
<1> HIDE DEF m1, m2
<1>3. /\ IsModel(m1, C) /\ m1.Min = m.Min /\ m1.OrderFall = m.OrderFall
      /\ m1.InitEsc = m.InitEsc /\ Contexts(m1) = Contexts(m)
      /\ \A d : Stats(m1, d) = Stats(m, d) /\ SummFreq(m1, d) = SummFreq(m, d)
  BY <1>2, FoundElsewhere
<1>4. Changed(C, m1, m2, c, x.stats, x.summ)
  BY <1>1, <1>3, PutIs
<1> QED BY <1>3, <1>4 DEF Changed, m2

\* Rescale of PPMd7 is a change of MinContext that leaves room in it.
LEMMA Rescale7Is ==
    ASSUME NEW C \in Kinds, NEW m, Due(C, m)
    PROVE  \E s, n : /\ Changed(C, m, Rescale7(m), m.Min, s, n) /\ ContextOK(s, n)
                     /\ Kept(s, Stats(m, m.Min), m.OrderFall)
<1> DEFINE c == m.Min
           a == Adder(m)
           x == m.ctx[c - TextSize]
           q == Stats(m, c)
           summ == SummFreq(m, c)
           h == Halving(q, summ, m.found[2], a)
           k == LoneFreq7(h.left[1].freq, h.escFreq)
           lone == <<[h.left[1] EXCEPT !.freq = k]>>
           y == IF h.gone # 0 /\ Len(h.left) = 1
                THEN WithBoth(x, lone, 0) ELSE WithBoth(x, h.left, h.summ)
<1>1. /\ IsModel(m, C) /\ c \in Contexts(m) /\ Len(q) # 1 /\ m.found[2] \in 1..Len(q)
      /\ Counting(q, summ)
  BY DEF Due, NumStats
<1>2. a \in {0, 1} /\ (m.OrderFall # 0 <=> a # 0)
  BY DEF Adder, Bool
<1>3. Rescale7(m) = PutFound(m, c, y, <<c, 1>>)
  BY DEF Rescale7, PutFound, WithBoth
<1>4. x \in C
  BY <1>1, PlaceInCtx
<1>5. h = Halving(q, summ, m.found[2], a) /\ lone = <<[h.left[1] EXCEPT !.freq = k]>>
  OBVIOUS
<1> HIDE DEF h, a, q, summ, x
<1>6. Leaves(h, q, a)
  BY <1>1, <1>2, <1>5, HalvingKeepsRoom
<1>7. k \in 1..MAX_FREQ
  <2>1. 1 \in 1..Len(h.left) /\ MAX_FREQ \in Nat /\ h.escFreq \in Nat
    BY <1>6, Bounds DEF Leaves
  <2>2. h.left[1].freq \in 1..MAX_FREQ
    BY <1>6, <2>1 DEF HasRoom, Leaves
  <2> DEFINE f == h.left[1].freq
  <2>3. f \in Nat /\ f >= 1 /\ f <= MAX_FREQ
    BY <2>1, <2>2
  <2> HIDE DEF f
  <2>4. LoneFreq7(f, h.escFreq) \in 1..f
    BY <2>1, <2>3, LoneFreq7Is
  <2> QED BY <2>1, <2>3, <2>4 DEF f
<1> HIDE DEF k, lone
<1>8. y \in C /\ ContextOK(y.stats, y.summ) /\ Kept(y.stats, q, a)
  <2>1. CASE h.gone # 0 /\ Len(h.left) = 1
    <3>1. lone \in Seq(State) /\ 0 \in Nat /\ ContextOK(lone, 0) /\ Kept(lone, q, a)
      BY <1>1, <1>2, <1>5, <1>6, <1>7, <2>1, LeftOver
    <3>2. y = WithBoth(x, lone, 0)
      BY <2>1
    <3> HIDE DEF y
    <3> QED BY <1>4, <3>1, <3>2, BothFields
  <2>2. CASE ~(h.gone # 0 /\ Len(h.left) = 1)
    <3>1. h.left \in Seq(State) /\ h.summ \in Nat /\ ContextOK(h.left, h.summ)
          /\ Kept(h.left, q, a)
      BY <1>1, <1>2, <1>5, <1>6, <1>7, <2>2, LeftOver
    <3>2. y = WithBoth(x, h.left, h.summ)
      BY <2>2
    <3> HIDE DEF y
    <3> QED BY <1>4, <3>1, <3>2, BothFields
  <2> QED BY <2>1, <2>2
<1> HIDE DEF y
<1>9. Changed(C, m, Rescale7(m), c, y.stats, y.summ)
  BY <1>1, <1>3, <1>8, PutFoundIs
<1>10. Kept(y.stats, q, m.OrderFall)
  BY <1>2, <1>8 DEF Kept
<1> QED BY <1>8, <1>9, <1>10 DEF q

\* The flags of a context of PPMd8 do not matter here.
WithFlags(x, f) == [x EXCEPT !.flags = f]

\* A context with other flags.
LEMMA OtherFlags ==
    ASSUME NEW x \in Context8, NEW f \in SUBSET Nat
    PROVE  /\ WithFlags(x, f) \in Context8
           /\ WithFlags(x, f).stats = x.stats /\ WithFlags(x, f).summ = x.summ
BY DEF Context8, WithFlags

\* The flags of high symbols are flags.
LEMMA HighInIs ==
    ASSUME NEW stats
    PROVE  HighIn(stats) \in SUBSET Nat
BY DEF HighIn, HighFlag

\* Rescale of PPMd8 is a change of MinContext that leaves room in it.
LEMMA Rescale8Is ==
    ASSUME NEW m, Due(Context8, m)
    PROVE  \E s, n : /\ Changed(Context8, m, Rescale8(m), m.Min, s, n) /\ ContextOK(s, n)
                     /\ Kept(s, Stats(m, m.Min), m.OrderFall)
<1> DEFINE c == m.Min
           a == Adder(m)
           x == m.ctx[c - TextSize]
           q == Stats(m, c)
           summ == SummFreq(m, c)
           h == Halving(q, summ, m.found[2], a)
           k == LoneFreq8(h.left[1].freq, h.escFreq)
           lone == <<[h.left[1] EXCEPT !.freq = k]>>
           f1 == (x.flags \intersect {16}) \union HighIn(h.left)
           f2 == (IF h.gone = 0 THEN x.flags ELSE (x.flags \ {8}) \union HighIn(h.left))
                 \union {4}
           y == IF h.gone # 0 /\ Len(h.left) = 1
                THEN WithFlags(WithBoth(x, lone, 0), f1)
                ELSE WithFlags(WithBoth(x, h.left, h.summ), f2)
<1>0. Context8 \in Kinds
  BY DEF Kinds
<1>1. /\ IsModel(m, Context8) /\ c \in Contexts(m) /\ Len(q) # 1 /\ m.found[2] \in 1..Len(q)
      /\ Counting(q, summ)
  BY DEF Due, NumStats
<1>2. a \in {0, 1} /\ (m.OrderFall # 0 <=> a # 0)
  BY DEF Adder, Bool
<1>4. x \in Context8
  BY <1>1, PlaceInCtx
<1>3. Rescale8(m) = PutFound(m, c, y, <<c, 1>>)
  BY DEF Rescale8, PutFound, WithBoth, WithFlags, Flags
<1>5. h = Halving(q, summ, m.found[2], a) /\ lone = <<[h.left[1] EXCEPT !.freq = k]>>
  OBVIOUS
<1>6. f1 \in SUBSET Nat /\ f2 \in SUBSET Nat
  <2>1. x.flags \in SUBSET Nat
    BY <1>4 DEF Context8
  <2>2. HighIn(h.left) \in SUBSET Nat
    BY HighInIs
  <2> HIDE DEF h, x
  <2> QED BY <2>1, <2>2
<1> HIDE DEF h, a, q, summ, x, f1, f2
<1>7. Leaves(h, q, a)
  BY <1>1, <1>2, <1>5, HalvingKeepsRoom
<1>8. k \in 1..MAX_FREQ
  <2>1. 1 \in 1..Len(h.left) /\ MAX_FREQ \in Nat /\ h.escFreq \in Nat /\ h.escFreq >= 1
    BY <1>7, Bounds DEF Leaves
  <2>2. h.left[1].freq \in 1..MAX_FREQ
    BY <1>7, <2>1 DEF HasRoom, Leaves
  <2> DEFINE f == h.left[1].freq
  <2>3. f \in Nat /\ f >= 1
    BY <2>1, <2>2
  <2> HIDE DEF f
  <2>4. LoneFreq8(f, h.escFreq) \in 1..MAX_FREQ
    BY <2>1, <2>3, LoneFreq8Is
  <2> QED BY <2>4 DEF f
<1> HIDE DEF k, lone
<1>9. y \in Context8 /\ ContextOK(y.stats, y.summ) /\ Kept(y.stats, q, a)
  <2>1. CASE h.gone # 0 /\ Len(h.left) = 1
    <3> DEFINE z == WithBoth(x, lone, 0)
    <3>1. lone \in Seq(State) /\ 0 \in Nat /\ ContextOK(lone, 0) /\ Kept(lone, q, a)
      BY <1>1, <1>2, <1>5, <1>7, <1>8, <2>1, LeftOver
    <3>2. y = WithFlags(z, f1)
      BY <2>1
    <3>3. z \in Context8 /\ z.stats = lone /\ z.summ = 0
      BY <1>0, <1>4, <3>1, BothFields
    <3> HIDE DEF y, z
    <3> QED BY <1>6, <3>1, <3>2, <3>3, OtherFlags
  <2>2. CASE ~(h.gone # 0 /\ Len(h.left) = 1)
    <3> DEFINE z == WithBoth(x, h.left, h.summ)
    <3>1. h.left \in Seq(State) /\ h.summ \in Nat /\ ContextOK(h.left, h.summ)
          /\ Kept(h.left, q, a)
      BY <1>1, <1>2, <1>5, <1>7, <1>8, <2>2, LeftOver
    <3>2. y = WithFlags(z, f2)
      BY <2>2
    <3>3. z \in Context8 /\ z.stats = h.left /\ z.summ = h.summ
      BY <1>0, <1>4, <3>1, BothFields
    <3> HIDE DEF y, z
    <3> QED BY <1>6, <3>1, <3>2, <3>3, OtherFlags
  <2> QED BY <2>1, <2>2
<1> HIDE DEF y
<1>10. Changed(Context8, m, Rescale8(m), c, y.stats, y.summ)
  BY <1>1, <1>3, <1>9, PutFoundIs
<1>11. Kept(y.stats, q, m.OrderFall)
  BY <1>2, <1>9 DEF Kept
<1> QED BY <1>9, <1>10, <1>11 DEF q

-------------------------------------------------------------------------------
(***************************************************************************)
(* A symbol that was found counts, and its context is rescaled if need be. *)
(***************************************************************************)

\* FoundState is a state of MinContext, which has others.
FoundAmongOthers(m) ==
    /\ m.Min \in Contexts(m) /\ NumStats(m, m.Min) # 1
    /\ m.found = <<m.Min, m.found[2]>> /\ m.found[2] \in 1..NumStats(m, m.Min)

\* The model m1 comes from m by a change of MinContext that keeps its states,
\* up to their order and to the places that Rescale may free.
Counts(C, m, m1) ==
    /\ IsModel(m1, C) /\ Roomy(m1)
    /\ Contexts(m1) = Contexts(m) /\ m1.Min = m.Min
    /\ Kept(Stats(m1, m.Min), Stats(m, m.Min), m.OrderFall)
    /\ \A d \in Contexts(m) \ {m.Min} :
            Stats(m1, d) = Stats(m, d) /\ SummFreq(m1, d) = SummFreq(m, d)

\* The found state counts by 4, and the sum with it.
LEMMA CountedIs ==
    ASSUME NEW C \in Kinds, NEW m, IsModel(m, C), Roomy(m), FoundAmongOthers(m)
    PROVE  LET c == m.Min
               q == MoreAt(Stats(m, c), m.found[2], 4)
           IN  /\ Changed(C, m, Counted(m), c, q, SummFreq(m, c) + 4)
               /\ Counted(m).found = m.found
               /\ Counting(q, SummFreq(m, c) + 4) /\ Len(q) = NumStats(m, c)
               /\ SymbolsOf(q) = SymbolsOf(Stats(m, c))
               /\ \A j \in 1..Len(q) : j # m.found[2] => q[j].freq <= MAX_FREQ
<1> DEFINE c == m.Min
           s == Stats(m, c)
           n == SummFreq(m, c)
           i == m.found[2]
           at == m.found
           q == MoreAt(s, i, 4)
           m1 == AddFreq(m, at, 4)
           m2 == AddSumm(m1, c, 4)
<1>1. c \in Contexts(m) /\ NumStats(m, c) # 1 /\ i \in 1..NumStats(m, c) /\ at[1] = c /\ at[2] = i
  BY DEF FoundAmongOthers
<1>2. /\ ContextOK(s, n) /\ s \in Seq(State) /\ n \in Nat /\ NumStats(m, c) = Len(s)
      /\ Len(s) \in 1..Size
  BY <1>1, RoomyAt
<1>3. HasRoom(s, n)
  BY <1>1, <1>2 DEF ContextOK
<1>4. n + 4 < 65536 /\ SumFreq(s) \in Nat /\ ShareLimit(Len(s)) \in Nat
      /\ SumFreq(s) < n /\ n <= SumFreq(s) + ShareLimit(Len(s))
  BY <1>2, <1>3, RoomFits
<1>5. Counted(m) = m2 /\ m2.found = m.found
  <2>1. m2.found = m.found
    BY DEF AddSumm, AddFreq
  <2>2. Counted(m) = m2
    BY DEF Counted
  <2> QED BY <2>1, <2>2
<1>6. 4 \in Nat
  OBVIOUS
<1>7. Changed(C, m, m1, c, q, n)
  BY <1>1, <1>6, AddFreqIs
<1> HIDE DEF m1, at, i
<1>8. IsModel(m1, C) /\ c \in Contexts(m1) /\ SummFreq(m1, c) = n /\ Stats(m1, c) = q
  BY <1>1, <1>7 DEF Changed
<1>9. Changed(C, m1, m2, c, q, n + 4)
  <2>1. SummFreq(m1, c) + 4 < 65536
    BY <1>4, <1>8
  <2>2. Changed(C, m1, m2, c, Stats(m1, c), SummFreq(m1, c) + 4)
    BY <1>6, <1>8, <2>1, AddSummIs
  <2> QED BY <1>8, <2>2
<1>10. Changed(C, m, m2, c, q, n + 4)
  BY <1>7, <1>9, ChangedTwice
<1> HIDE DEF s, n
<1>11. i \in 1..Len(s)
  BY <1>1, <1>2
<1>12. /\ q \in Seq(State) /\ Len(q) = Len(s)
       /\ q[i].freq = s[i].freq + 4
       /\ \A j \in 1..Len(s) : j # i => q[j] = s[j]
       /\ SumFreq(q) = SumFreq(s) + 4 /\ SymbolsOf(q) = SymbolsOf(s)
  BY <1>2, <1>6, <1>11, MoreAtIs
<1> HIDE DEF q
<1>13. Counting(q, n + 4)
  <2>1. SumFreq(q) < n + 4 /\ n + 4 <= SumFreq(q) + ShareLimit(Len(q)) /\ n + 4 \in Nat
    BY <1>2, <1>4, <1>12
  <2>2. ASSUME NEW j \in 1..Len(q) PROVE q[j].freq >= 1 /\ q[j].freq <= MAX_FREQ + 4
    <3>0. \A k \in 1..Len(s) : s[k].freq \in 1..MAX_FREQ
      BY <1>3 DEF HasRoom
    <3>1. s[j].freq \in 1..MAX_FREQ /\ s[i].freq \in 1..MAX_FREQ /\ MAX_FREQ \in Nat
      BY <1>11, <1>12, <3>0, Bounds
    <3>2. q[j].freq = s[j].freq \/ q[j].freq = s[i].freq + 4
      BY <1>12
    <3> QED BY <3>1, <3>2
  <2> QED BY <1>2, <1>12, <2>1, <2>2 DEF Counting
<1>14. ASSUME NEW j \in 1..Len(q), j # i PROVE q[j].freq <= MAX_FREQ
  <2>1. \A k \in 1..Len(s) : s[k].freq \in 1..MAX_FREQ
    BY <1>3 DEF HasRoom
  <2>2. s[j].freq \in 1..MAX_FREQ /\ q[j] = s[j] /\ MAX_FREQ \in Nat
    BY <1>12, <1>14, <2>1, Bounds
  <2> QED BY <2>2
<1> HIDE DEF m2
<1> QED BY <1>2, <1>5, <1>10, <1>12, <1>13, <1>14 DEF q, s, n, i

\* What a change of MinContext that leaves room makes of the model.
LEMMA CountsAfter ==
    ASSUME NEW C, NEW m, Roomy(m), m.Min \in Contexts(m), NEW m2, NEW s, NEW n,
           Changed(C, m, m2, m.Min, s, n), ContextOK(s, n),
           Kept(s, Stats(m, m.Min), m.OrderFall), C \in Kinds
    PROVE  Counts(C, m, m2)
<1> DEFINE c == m.Min
<1>1. c \in Contexts(m) /\ Changed(C, m, m2, c, s, n)
  OBVIOUS
<1> HIDE DEF c
<1>2. IsModel(m2, C) /\ Roomy(m2)
  BY <1>1, RoomyAfter
<1> QED BY <1>2 DEF Changed, Counts

\* Two exchanged states are still there.
LEMMA SwappedSymbols ==
    ASSUME NEW q \in Seq(State), NEW i \in 2..Len(q)
    PROVE  SymbolsOf(Swapped(q, i)) = SymbolsOf(q)
<1> DEFINE r == Swapped(q, i)
<1>1. /\ r \in Seq(State) /\ Len(r) = Len(q)
      /\ \A j \in 1..Len(q) : r[j] = IF j = i THEN q[i - 1] ELSE IF j = i - 1 THEN q[i] ELSE q[j]
  BY SumSwapped
<1>2. i \in 1..Len(q) /\ i - 1 \in 1..Len(q) /\ i # i - 1 /\ DOMAIN q = 1..Len(q)
  OBVIOUS
<1> HIDE DEF r
<1>3. DOMAIN r = 1..Len(q)
  BY <1>1
<1>4. ASSUME NEW j \in 1..Len(q) PROVE \E k \in 1..Len(q) : r[j].sym = q[k].sym
  BY <1>1, <1>2
<1>5. ASSUME NEW j \in 1..Len(q) PROVE \E k \in 1..Len(q) : q[j].sym = r[k].sym
  <2>1. CASE j = i
    <3>1. r[i - 1] = q[i]
      BY <1>1, <1>2
    <3> QED BY <1>2, <2>1, <3>1
  <2>2. CASE j = i - 1
    <3>1. r[i] = q[i - 1]
      BY <1>1, <1>2
    <3> QED BY <1>2, <2>2, <3>1
  <2>3. CASE j # i /\ j # i - 1
    BY <1>1, <2>3
  <2> QED BY <2>1, <2>2, <2>3
<1>6. SymbolsOf(r) \subseteq SymbolsOf(q)
  <2> SUFFICES ASSUME NEW y \in SymbolsOf(r) PROVE y \in SymbolsOf(q)
    OBVIOUS
  <2>1. PICK j \in DOMAIN r : y = r[j].sym
    BY DEF SymbolsOf
  <2>2. PICK k \in 1..Len(q) : y = q[k].sym
    BY <1>2, <1>3, <1>4, <2>1
  <2>3. k \in DOMAIN q
    BY <1>2, <1>3
  <2> QED BY <2>2, <2>3 DEF SymbolsOf
<1>7. SymbolsOf(q) \subseteq SymbolsOf(r)
  <2> SUFFICES ASSUME NEW y \in SymbolsOf(q) PROVE y \in SymbolsOf(r)
    OBVIOUS
  <2>1. PICK j \in DOMAIN q : y = q[j].sym
    BY DEF SymbolsOf
  <2>2. PICK k \in 1..Len(q) : y = r[k].sym
    BY <1>2, <1>3, <1>5, <2>1
  <2>3. k \in DOMAIN r
    BY <1>2, <1>3
  <2> QED BY <2>2, <2>3 DEF SymbolsOf
<1> QED BY <1>6, <1>7 DEF r

\* The model m2 comes from m by counting a state of MinContext: the states q
\* have the sum n, and only the found one can be above MAX_FREQ.
Raised(C, m, m2, q, n) ==
    /\ Changed(C, m, m2, m.Min, q, n)
    /\ Counting(q, n) /\ Len(q) = NumStats(m, m.Min)
    /\ SymbolsOf(q) = SymbolsOf(Stats(m, m.Min))
    /\ m2.found[1] = m.Min /\ m2.found[2] \in 1..Len(q)
    /\ \A j \in 1..Len(q) : j # m2.found[2] => q[j].freq <= MAX_FREQ

\* Such a model may be rescaled.
LEMMA RaisedIsDue ==
    ASSUME NEW C, NEW m, NEW m2, NEW q, NEW n, Raised(C, m, m2, q, n),
           m.Min \in Contexts(m), NumStats(m, m.Min) # 1
    PROVE  Due(C, m2) /\ Stats(m2, m2.Min) = q /\ m2.Min = m.Min /\ m2.OrderFall = m.OrderFall
<1>1. IsModel(m2, C) /\ Contexts(m2) = Contexts(m) /\ Stats(m2, m.Min) = q
      /\ SummFreq(m2, m.Min) = n /\ m2.Min = m.Min /\ m2.OrderFall = m.OrderFall
  BY DEF Raised, Changed
<1> QED BY <1>1 DEF Raised, Due, NumStats

\* If it is not above, no other is.
LEMMA RaisedFits ==
    ASSUME NEW q, NEW n, Counting(q, n), Len(q) # 1, NEW i,
           \A j \in 1..Len(q) : j # i => q[j].freq <= MAX_FREQ,
           i \in 1..Len(q) => q[i].freq <= MAX_FREQ
    PROVE  ContextOK(q, n)
<1>1. \A j \in 1..Len(q) : q[j].freq \in Nat /\ q[j].freq >= 1 /\ q[j].freq <= MAX_FREQ
  <2>1. q \in Seq(State) /\ \A j \in 1..Len(q) : q[j].freq >= 1
    BY DEF Counting
  <2>2. \A j \in 1..Len(q) : q[j].freq \in Nat
    BY <2>1, StateAt
  <2>3. \A j \in 1..Len(q) : q[j].freq <= MAX_FREQ
    OBVIOUS
  <2> QED BY <2>1, <2>2, <2>3
<1>2. \A j \in 1..Len(q) : q[j].freq \in 1..MAX_FREQ
  BY <1>1, Bounds
<1>3. HasRoom(q, n)
  BY <1>2 DEF HasRoom, Counting
<1> QED BY <1>3 DEF ContextOK, Counting

\* The result r of rescaling where it is due.
LEMMA RaisedCounts ==
    ASSUME NEW C \in Kinds, NEW m, Roomy(m), FoundAmongOthers(m),
           NEW m2, NEW q, NEW n, Raised(C, m, m2, q, n), NEW r,
           IF FoundState(m2).freq > MAX_FREQ
           THEN \E s, k : /\ Changed(C, m2, r, m2.Min, s, k) /\ ContextOK(s, k)
                          /\ Kept(s, Stats(m2, m2.Min), m2.OrderFall)
           ELSE r = m2
    PROVE  Counts(C, m, r)
<1> DEFINE c == m.Min
<1>1. c \in Contexts(m) /\ NumStats(m, c) # 1
  BY DEF FoundAmongOthers
<1>2. Due(C, m2) /\ Stats(m2, m2.Min) = q /\ m2.Min = c /\ m2.OrderFall = m.OrderFall
  BY <1>1, RaisedIsDue
<1>3. /\ Changed(C, m, m2, c, q, n) /\ Counting(q, n) /\ Len(q) # 1
      /\ SymbolsOf(q) = SymbolsOf(Stats(m, c))
      /\ m2.found[1] = c /\ m2.found[2] \in 1..Len(q)
      /\ \A j \in 1..Len(q) : j # m2.found[2] => q[j].freq <= MAX_FREQ
  BY <1>1 DEF Raised
<1>4. FoundState(m2) = q[m2.found[2]]
  BY <1>2, <1>3 DEF FoundState
<1>5. CASE FoundState(m2).freq > MAX_FREQ
  <2>1. PICK s, k : Changed(C, m2, r, c, s, k) /\ ContextOK(s, k) /\ Kept(s, q, m.OrderFall)
    BY <1>2, <1>5
  <2>2. Changed(C, m, r, c, s, k)
    BY <1>3, <2>1, ChangedTwice
  <2>3. Kept(s, Stats(m, c), m.OrderFall)
    BY <1>3, <2>1 DEF Kept
  <2> QED BY <1>1, <2>1, <2>2, <2>3, CountsAfter
<1>6. CASE ~(FoundState(m2).freq > MAX_FREQ)
  <2>1. r = m2
    BY <1>6
  <2> DEFINE i == m2.found[2]
  <2>a. q \in Seq(State) /\ i \in 1..Len(q)
    BY <1>3 DEF Counting
  <2> HIDE DEF i
  <2>b. q[i].freq \in Nat /\ MAX_FREQ \in Nat
    BY <2>a, StateAt, Bounds
  <2>2. q[m2.found[2]].freq \in Nat /\ MAX_FREQ \in Nat
    BY <2>b DEF i
  <2>3. q[m2.found[2]].freq <= MAX_FREQ
    BY <1>4, <1>6, <2>2
  <2>4. ContextOK(q, n)
    BY <1>3, <2>3, RaisedFits
  <2>5. Kept(q, Stats(m, c), m.OrderFall)
    BY <1>3 DEF Kept
  <2> QED BY <1>1, <1>3, <2>1, <2>4, <2>5, CountsAfter
<1> QED BY <1>5, <1>6

\* The model mc is m1 but for what Rescale does not read.
Alike(C, m1, mc) ==
    /\ IsModel(mc, C) /\ mc.ctx = m1.ctx /\ mc.found = m1.found
    /\ mc.Min = m1.Min /\ mc.OrderFall = m1.OrderFall /\ mc.InitEsc = m1.InitEsc

\* Counting makes such a model.
LEMMA CountedRaises ==
    ASSUME NEW C \in Kinds, NEW m, IsModel(m, C), Roomy(m), FoundAmongOthers(m),
           NEW mc, Alike(C, Counted(m), mc)
    PROVE  \E q, n : Raised(C, m, mc, q, n) /\ mc.found = m.found
<1> DEFINE c == m.Min
           i == m.found[2]
           q == MoreAt(Stats(m, c), i, 4)
           n == SummFreq(m, c) + 4
<1>1. /\ Changed(C, m, Counted(m), c, q, n)
      /\ Counted(m).found = m.found
      /\ Counting(q, n) /\ Len(q) = NumStats(m, c)
      /\ SymbolsOf(q) = SymbolsOf(Stats(m, c))
      /\ \A j \in 1..Len(q) : j # i => q[j].freq <= MAX_FREQ
  BY CountedIs
<1>2. m.found = <<c, i>> /\ i \in 1..NumStats(m, c)
  BY DEF FoundAmongOthers
<1> HIDE DEF q, n
<1>3. Changed(C, m, mc, c, q, n)
  <2>1. /\ IsModel(mc, C) /\ Contexts(mc) = Contexts(Counted(m))
        /\ \A d : Stats(mc, d) = Stats(Counted(m), d) /\ SummFreq(mc, d) = SummFreq(Counted(m), d)
        /\ mc.Min = Counted(m).Min /\ mc.OrderFall = Counted(m).OrderFall
        /\ mc.InitEsc = Counted(m).InitEsc
    BY DEF Alike, Contexts, Stats, SummFreq
  <2> QED BY <1>1, <2>1 DEF Changed
<1>4. mc.found = m.found
  BY <1>1 DEF Alike
<1>5. m.found[1] = c /\ m.found[2] = i
  BY <1>2
<1> HIDE DEF i
<1>6. Raised(C, m, mc, q, n)
  BY <1>1, <1>2, <1>3, <1>4, <1>5 DEF Raised
<1> QED BY <1>4, <1>6

\* Update1_0 and Update2 of PPMd7: the found symbol counts by 4, and its
\* context is rescaled when a byte could no longer hold the count.  Every
\* context keeps room for an escape; below full order no symbol is lost.
THEOREM CountingKeepsRoom7 ==
    ASSUME NEW C \in Kinds, NEW m, IsModel(m, C), Roomy(m), FoundAmongOthers(m),
           NEW mc, Alike(C, Counted(m), mc)
    PROVE  Counts(C, m, Rescaled7(mc))
<1>1. PICK q, n : Raised(C, m, mc, q, n)
  BY CountedRaises
<1>2. Due(C, mc)
  BY <1>1, RaisedIsDue DEF FoundAmongOthers
<1> DEFINE r == Rescaled7(mc)
<1>3. IF FoundState(mc).freq > MAX_FREQ
      THEN \E s, k : /\ Changed(C, mc, r, mc.Min, s, k) /\ ContextOK(s, k)
                     /\ Kept(s, Stats(mc, mc.Min), mc.OrderFall)
      ELSE r = mc
  BY <1>2, Rescale7Is DEF Rescaled7
<1> HIDE DEF r
<1>4. Counts(C, m, r)
  BY <1>1, <1>3, RaisedCounts
<1> QED BY <1>4 DEF r

\* The same in PPMd8.
THEOREM CountingKeepsRoom8 ==
    ASSUME NEW m, IsModel(m, Context8), Roomy(m), FoundAmongOthers(m),
           NEW mc, Alike(Context8, Counted(m), mc)
    PROVE  Counts(Context8, m, Rescaled8(mc))
<1>0. Context8 \in Kinds
  BY DEF Kinds
<1>1. PICK q, n : Raised(Context8, m, mc, q, n)
  BY <1>0, CountedRaises
<1>2. Due(Context8, mc)
  BY <1>1, RaisedIsDue DEF FoundAmongOthers
<1> DEFINE r == Rescaled8(mc)
<1>3. IF FoundState(mc).freq > MAX_FREQ
      THEN \E s, k : /\ Changed(Context8, mc, r, mc.Min, s, k) /\ ContextOK(s, k)
                     /\ Kept(s, Stats(mc, mc.Min), mc.OrderFall)
      ELSE r = mc
  BY <1>2, Rescale8Is DEF Rescaled8
<1> HIDE DEF r
<1>4. Counts(Context8, m, r)
  BY <1>0, <1>1, <1>3, RaisedCounts
<1> QED BY <1>4 DEF r

\* The model in which the counted state has changed places with the one before.
LEMMA RisenRaises ==
    ASSUME NEW C \in Kinds, NEW m, IsModel(m, C), Roomy(m), FoundAmongOthers(m),
           m.found[2] # 1, Rises(Counted(m))
    PROVE  \E q, n : Raised(C, m, Risen(Counted(m)), q, n)
<1> DEFINE c == m.Min
           i == m.found[2]
           q == MoreAt(Stats(m, c), i, 4)
           n == SummFreq(m, c) + 4
           m1 == Counted(m)
           r == Swapped(q, i)
           m2 == WithStats(m1, c, r)
           f == <<c, i - 1>>
           m3 == [m2 EXCEPT !.found = f]
<1>1. /\ Changed(C, m, m1, c, q, n) /\ m1.found = m.found
      /\ Counting(q, n) /\ Len(q) = NumStats(m, c)
      /\ SymbolsOf(q) = SymbolsOf(Stats(m, c))
      /\ \A j \in 1..Len(q) : j # i => q[j].freq <= MAX_FREQ
  BY CountedIs
<1>2. m.found = <<c, i>> /\ i \in 1..NumStats(m, c) /\ c \in Contexts(m) /\ NumStats(m, c) # 1
  BY DEF FoundAmongOthers
<1> HIDE DEF m1, q, n
<1>3. IsModel(m1, C) /\ c \in Contexts(m1) /\ Stats(m1, c) = q /\ SummFreq(m1, c) = n
      /\ m1.Min = c
  BY <1>1, <1>2 DEF Changed
<1>4. q \in Seq(State) /\ Len(q) \in 1..Size /\ i \in 2..Len(q) /\ i - 1 \in 1..Len(q) /\ Len(q) \in Nat
  <2>1. q \in Seq(State) /\ Len(q) \in 1..Size
    BY <1>1 DEF Counting
  <2>2. Len(q) \in Nat
    BY <2>1
  <2>3. i \in 1..Len(q) /\ i # 1
    BY <1>1, <1>2
  <2> HIDE DEF i
  <2> QED BY <2>1, <2>2, <2>3
<1>5. Risen(m1) = m3
  <2>1. m1.found = <<c, i>>
    BY <1>1, <1>2
  <2>2. m2.found = m1.found
    BY DEF WithStats
  <2>3. Risen(m1) = [m2 EXCEPT !.found[2] = @ - 1]
    BY <1>1, <1>3, Zenon DEF Risen
  <2> HIDE DEF m2, i, c
  <2>4. [m2 EXCEPT !.found[2] = @ - 1] = [m2 EXCEPT !.found = <<c, i - 1>>]
    BY <2>1, <2>2
  <2> QED BY <2>3, <2>4
<1>6. /\ r \in Seq(State) /\ Len(r) = Len(q) /\ SumFreq(r) = SumFreq(q)
      /\ \A j \in 1..Len(q) : r[j] = IF j = i THEN q[i - 1] ELSE IF j = i - 1 THEN q[i] ELSE q[j]
  BY <1>4, SumSwapped
<1>7. SymbolsOf(r) = SymbolsOf(q)
  BY <1>4, SwappedSymbols
<1> HIDE DEF r, m2, f, i
<1>8. Changed(C, m1, m2, c, r, n)
  BY <1>3, <1>6, WithStatsIs DEF m2
<1>9. Changed(C, m, m2, c, r, n) /\ IsModel(m2, C)
  BY <1>1, <1>8, ChangedTwice DEF Changed
<1>10. m3 = [m2 EXCEPT !.found = f]
  OBVIOUS
<1> HIDE DEF m3
<1>11. /\ IsModel(m3, C) /\ m3.found = f
       /\ m3.Min = m2.Min /\ m3.OrderFall = m2.OrderFall /\ m3.InitEsc = m2.InitEsc
       /\ Contexts(m3) = Contexts(m2)
       /\ \A d : Stats(m3, d) = Stats(m2, d) /\ SummFreq(m3, d) = SummFreq(m2, d)
  BY <1>9, <1>10, FoundElsewhere
<1>12. Changed(C, m, m3, c, r, n)
  BY <1>9, <1>11 DEF Changed
<1>13. m3.found[1] = c /\ m3.found[2] = i - 1
  BY <1>11 DEF f
<1>14. \A j \in 1..Len(r) : j # i - 1 => r[j].freq <= MAX_FREQ
  <2> SUFFICES ASSUME NEW j \in 1..Len(q), j # i - 1 PROVE r[j].freq <= MAX_FREQ
    BY <1>6
  <2>0. i - 1 # i /\ \A k \in 1..Len(q) : k # i => q[k].freq <= MAX_FREQ
    BY <1>1, <1>4 DEF i
  <2>1. CASE j = i
    <3>1. r[j] = q[i - 1]
      BY <1>6, <2>1
    <3> QED BY <1>4, <2>0, <3>1
  <2>2. CASE j # i
    <3>1. r[j] = q[j]
      BY <1>6, <2>2
    <3> QED BY <2>0, <2>2, <3>1
  <2> QED BY <2>1, <2>2
<1>15. Counting(r, n)
  <2>1. \A j \in 1..Len(q) : q[j].freq >= 1 /\ q[j].freq <= MAX_FREQ + 4
    BY <1>1 DEF Counting
  <2>2. \A j \in 1..Len(r) : r[j].freq >= 1 /\ r[j].freq <= MAX_FREQ + 4
    <3> SUFFICES ASSUME NEW j \in 1..Len(q) PROVE \E k \in 1..Len(q) : r[j] = q[k]
      BY <1>6, <2>1
    <3> QED BY <1>4, <1>6
  <2> QED BY <1>1, <1>6, <2>2 DEF Counting
<1>16. Raised(C, m, m3, r, n)
  BY <1>1, <1>4, <1>6, <1>7, <1>12, <1>13, <1>14, <1>15 DEF Raised
<1> QED BY <1>5, <1>16 DEF m1

\* The result of Update1 in a model where only the counted state may be above
\* MAX_FREQ: if the state does not rise it is not above.
LEMMA NotRisenFits ==
    ASSUME NEW C \in Kinds, NEW m, IsModel(m, C), Roomy(m), FoundAmongOthers(m),
           m.found[2] # 1, ~Rises(Counted(m))
    PROVE  Counts(C, m, Counted(m))
<1> DEFINE c == m.Min
           i == m.found[2]
           q == MoreAt(Stats(m, c), i, 4)
           n == SummFreq(m, c) + 4
           m1 == Counted(m)
<1>1. /\ Changed(C, m, m1, c, q, n) /\ m1.found = m.found
      /\ Counting(q, n) /\ Len(q) = NumStats(m, c)
      /\ SymbolsOf(q) = SymbolsOf(Stats(m, c))
      /\ \A j \in 1..Len(q) : j # i => q[j].freq <= MAX_FREQ
  BY CountedIs
<1>2. m.found = <<c, i>> /\ i \in 1..NumStats(m, c) /\ c \in Contexts(m) /\ NumStats(m, c) # 1
  BY DEF FoundAmongOthers
<1> HIDE DEF m1, q, n
<1>3. Stats(m1, c) = q /\ m1.Min = c
  BY <1>1, <1>2 DEF Changed
<1>4. ~(q[i].freq > q[i - 1].freq)
  BY <1>1, <1>3 DEF Rises, m1
<1> HIDE DEF i
<1>5. q \in Seq(State) /\ i \in 1..Len(q) /\ i # 1 /\ Len(q) # 1
  BY <1>1, <1>2 DEF Counting, i
<1>6. i - 1 \in 1..Len(q) /\ i - 1 # i
  BY <1>5
<1>7. q[i].freq \in Nat /\ q[i - 1].freq \in Nat /\ MAX_FREQ \in Nat /\ q[i - 1].freq <= MAX_FREQ
  <2>1. \A k \in 1..Len(q) : q[k].freq \in Nat
    BY <1>5, StateAt
  <2> QED BY <1>1, <1>5, <1>6, <2>1, Bounds
<1>8. q[i].freq <= MAX_FREQ
  BY <1>4, <1>7
<1>9. ContextOK(q, n)
  BY <1>1, <1>5, <1>8, RaisedFits
<1>10. Kept(q, Stats(m, c), m.OrderFall)
  BY <1>1 DEF Kept
<1> QED BY <1>1, <1>2, <1>9, <1>10, CountsAfter DEF m1

\* Update1 of PPMd7: a symbol that is not the first of its context counts by 4
\* and may move one place to the front; only then is the count looked at, which
\* is enough.  Every context keeps room for an escape; below full order no
\* symbol is lost.
THEOREM CountingUpKeepsRoom7 ==
    ASSUME NEW C \in Kinds, NEW m, IsModel(m, C), Roomy(m), FoundAmongOthers(m),
           m.found[2] # 1
    PROVE  Counts(C, m, CountedUp7(m))
<1>1. CASE Rises(Counted(m))
  <2> DEFINE m2 == Risen(Counted(m))
             r == Rescaled7(m2)
  <2>1. PICK q, n : Raised(C, m, m2, q, n)
    BY <1>1, RisenRaises
  <2>2. CountedUp7(m) = r
    BY <1>1 DEF CountedUp7
  <2> HIDE DEF m2
  <2>3. Due(C, m2)
    BY <2>1, RaisedIsDue DEF FoundAmongOthers
  <2>4. IF FoundState(m2).freq > MAX_FREQ
        THEN \E s, k : /\ Changed(C, m2, r, m2.Min, s, k) /\ ContextOK(s, k)
                       /\ Kept(s, Stats(m2, m2.Min), m2.OrderFall)
        ELSE r = m2
    BY <2>3, Rescale7Is DEF Rescaled7
  <2> HIDE DEF r
  <2>5. Counts(C, m, r)
    BY <2>1, <2>4, RaisedCounts
  <2> QED BY <2>2, <2>5
<1>2. CASE ~Rises(Counted(m))
  <2>1. CountedUp7(m) = Counted(m)
    BY <1>2 DEF CountedUp7
  <2> QED BY <1>2, <2>1, NotRisenFits
<1> QED BY <1>1, <1>2

\* The same in PPMd8.
THEOREM CountingUpKeepsRoom8 ==
    ASSUME NEW m, IsModel(m, Context8), Roomy(m), FoundAmongOthers(m), m.found[2] # 1
    PROVE  Counts(Context8, m, CountedUp8(m))
<1>0. Context8 \in Kinds
  BY DEF Kinds
<1>1. CASE Rises(Counted(m))
  <2> DEFINE m2 == Risen(Counted(m))
             r == Rescaled8(m2)
  <2>1. PICK q, n : Raised(Context8, m, m2, q, n)
    BY <1>0, <1>1, RisenRaises
  <2>2. CountedUp8(m) = r
    BY <1>1 DEF CountedUp8
  <2> HIDE DEF m2
  <2>3. Due(Context8, m2)
    BY <2>1, RaisedIsDue DEF FoundAmongOthers
  <2>4. IF FoundState(m2).freq > MAX_FREQ
        THEN \E s, k : /\ Changed(Context8, m2, r, m2.Min, s, k) /\ ContextOK(s, k)
                       /\ Kept(s, Stats(m2, m2.Min), m2.OrderFall)
        ELSE r = m2
    BY <2>3, Rescale8Is DEF Rescaled8
  <2> HIDE DEF r
  <2>5. Counts(Context8, m, r)
    BY <1>0, <2>1, <2>4, RaisedCounts
  <2> QED BY <2>2, <2>5
<1>2. CASE ~Rises(Counted(m))
  <2>1. CountedUp8(m) = Counted(m)
    BY <1>2 DEF CountedUp8
  <2> QED BY <1>0, <1>2, <2>1, NotRisenFits
<1> QED BY <1>1, <1>2

-------------------------------------------------------------------------------
(***************************************************************************)
(* CreateSuccessors: contexts with one state.                              *)
(***************************************************************************)

\* A quotient, bounded without a product of unknowns.
LEMMA QuotientFits ==
    ASSUME NEW a \in Nat, NEW d \in Nat, d >= 1, NEW b \in Nat, a < d * (b + 1)
    PROVE  a \div d \in 0..b
<1>1. a \div d \in Nat /\ d * (a \div d) <= a
  BY Z3
<1> DEFINE k == a \div d
<1> HIDE DEF k
<1>2. k \in Nat /\ d * k <= a
  BY <1>1 DEF k
<1>3. CASE k >= b + 1
  <2>1. d * (b + 1) <= d * k /\ d * (b + 1) \in Nat /\ d * k \in Nat
    BY <1>2, <1>3, TimesGrows
  <2> QED BY <1>2, <2>1
<1>4. CASE ~(k >= b + 1)
  BY <1>2, <1>4 DEF k
<1> QED BY <1>3, <1>4

\* The two numbers that the formulas divide: what they divide by is at least
\* once and less than (b + 1) times in them.
LEMMA ProductsBelow ==
    ASSUME NEW b \in Nat, NEW d \in Nat, d >= 1
    PROVE  /\ 2 * b + 3 * d - 1 < (2 * d) * (b + 2)
           /\ b + 2 * d - 3 < d * (b + 2)
<1>1. d * (b + 2) = d * b + 2 * d
  OBVIOUS
<1>2. (2 * d) * (b + 2) = 2 * (d * b) + 4 * d
  OBVIOUS
<1>3. b * 1 <= b * d /\ b * 1 \in Nat /\ b * d \in Nat
  BY TimesGrows
<1>4. b * 1 = b /\ b * d = d * b
  OBVIOUS
<1> DEFINE p == d * b
<1> HIDE DEF p
<1>5. p \in Nat /\ b <= p
  BY <1>3, <1>4 DEF p
<1>6. 2 * b + 3 * d - 1 < 2 * p + 4 * d /\ b + 2 * d - 3 < p + 2 * d
  BY <1>5
<1> QED BY <1>1, <1>2, <1>6 DEF p

\* What the counts of a context say of a symbol: its own count cf above 1, and
\* the rest of SummFreq, which holds the escape and what the others have above 1.
LEMMA RestIsLeft ==
    ASSUME NEW C \in Kinds, NEW m, IsModel(m, C), Roomy(m), NEW c \in Contexts(m),
           NumStats(m, c) # 1, NEW sym \in SymbolsOf(Stats(m, c))
    PROVE  LET cf == Stats(m, c)[PlaceOf(Stats(m, c), sym)].freq - 1
           IN  /\ cf \in Nat /\ cf + 1 <= MAX_FREQ
               /\ SummFreq(m, c) - NumStats(m, c) - cf \in Nat
               /\ SummFreq(m, c) - NumStats(m, c) - cf >= 1
               /\ NumStats(m, c) \in Nat /\ SummFreq(m, c) \in Nat
<1> DEFINE s == Stats(m, c)
           n == SummFreq(m, c)
           i == PlaceOf(s, sym)
<1>1. /\ ContextOK(s, n) /\ s \in Seq(State) /\ n \in Nat /\ NumStats(m, c) = Len(s)
      /\ Len(s) \in 1..Size /\ Len(s) \in Nat
  BY RoomyAt
<1>2. i \in 1..Len(s)
  BY <1>1, PlaceOfIs
<1>3. HasRoom(s, n)
  BY <1>1 DEF ContextOK
<1> HIDE DEF s, n, i
<1>4. \A j \in 1..Len(s) : s[j].freq \in 1..MAX_FREQ
  BY <1>3 DEF HasRoom
<1>5. MAX_FREQ \in Nat
  BY Bounds
<1>6. SumFreq(s) >= s[i].freq + Len(s) - 1
  <2>1. \A j \in 1..Len(s) : s[j].freq >= 1
    BY <1>4, <1>5
  <2> QED BY <1>1, <1>2, <2>1, SumHas
<1>7. SumFreq(s) < n /\ SumFreq(s) \in Nat
  BY <1>1, SumIsNat, <1>3 DEF HasRoom
<1>8. s[i].freq \in 1..MAX_FREQ
  BY <1>2, <1>4
<1> DEFINE f == s[i].freq
<1> HIDE DEF f
<1>9. f \in 1..MAX_FREQ /\ SumFreq(s) >= f + Len(s) - 1
  BY <1>6, <1>8 DEF f
<1>10. /\ f - 1 \in Nat /\ (f - 1) + 1 <= MAX_FREQ
       /\ n - NumStats(m, c) - (f - 1) \in Nat /\ n - NumStats(m, c) - (f - 1) >= 1
       /\ NumStats(m, c) \in Nat /\ n \in Nat
  <2> DEFINE k == NumStats(m, c)
  <2>1. k = Len(s)
    BY <1>1
  <2> HIDE DEF k
  <2>2. /\ f - 1 \in Nat /\ (f - 1) + 1 <= MAX_FREQ
        /\ n - k - (f - 1) \in Nat /\ n - k - (f - 1) >= 1 /\ k \in Nat /\ n \in Nat
    BY <1>1, <1>5, <1>7, <1>9, <2>1
  <2> QED BY <2>2 DEF k
<1> QED BY <1>10 DEF f, s, n, i

\* The frequency that a symbol starts with in a new context fits into the byte
\* it is stored in, in PPMd7, and it is at least 1; nothing is divided by 0.
THEOREM InheritedFits7 ==
    ASSUME NEW C \in Kinds, NEW m, IsModel(m, C), Roomy(m), NEW c \in Contexts(m),
           NEW sym \in SymbolsOf(Stats(m, c))
    PROVE  /\ InheritedFreq7(m, c, sym) \in 1..255
           /\ NumStats(m, c) # 1 =>
                  LET cf == Stats(m, c)[PlaceOf(Stats(m, c), sym)].freq - 1
                  IN  SummFreq(m, c) - NumStats(m, c) - cf >= 1
<1> DEFINE cf == Stats(m, c)[PlaceOf(Stats(m, c), sym)].freq - 1
           d == SummFreq(m, c) - NumStats(m, c) - cf
           a == 2 * cf + 3 * d - 1
           f == InheritedFreq7(m, c, sym)
<1>1. CASE NumStats(m, c) = 1
  BY <1>1 DEF Roomy, InheritedFreq7
<1>2. CASE NumStats(m, c) # 1
  <2>1. cf \in Nat /\ cf + 1 <= MAX_FREQ /\ d \in Nat /\ d >= 1 /\ MAX_FREQ \in 8..246
    BY <1>2, RestIsLeft, Bounds
  <2>2. f = 1 + IF 2 * cf <= d THEN Bool(5 * cf > d) ELSE a \div (2 * d)
    BY <1>2 DEF InheritedFreq7
  <2>3. a \in Nat /\ 2 * d \in Nat /\ 2 * d >= 1
    BY <2>1
  <2> HIDE DEF cf, d, f
  <2>4. a < (2 * d) * ((cf + 1) + 1)
    <3>1. a < (2 * d) * (cf + 2)
      BY <2>1, ProductsBelow
    <3>2. (cf + 1) + 1 = cf + 2
      BY <2>1
    <3> QED BY <3>1, <3>2
  <2> HIDE DEF a
  <2>5. a \div (2 * d) \in 0..(cf + 1)
    <3> DEFINE e == 2 * d
    <3>1. a \in Nat /\ e \in Nat /\ e >= 1 /\ cf + 1 \in Nat /\ a < e * ((cf + 1) + 1)
      BY <2>1, <2>3, <2>4
    <3> HIDE DEF e
    <3>2. a \div e \in 0..(cf + 1)
      BY <3>1, QuotientFits
    <3> QED BY <3>2 DEF e
  <2>6. Bool(5 * cf > d) \in {0, 1}
    BY DEF Bool
  <2> DEFINE q == a \div (2 * d)
  <2> HIDE DEF q
  <2>7. f = 1 + (IF 2 * cf <= d THEN Bool(5 * cf > d) ELSE q) /\ q \in 0..(cf + 1)
    BY <2>2, <2>5 DEF q
  <2>8. f \in 1..255
    BY <2>1, <2>6, <2>7
  <2>9. d >= 1
    BY <2>1
  <2> QED BY <2>8, <2>9 DEF f, d, cf
<1> QED BY <1>1, <1>2

\* The same in PPMd8.
THEOREM InheritedFits8 ==
    ASSUME NEW C \in Kinds, NEW m, IsModel(m, C), Roomy(m), NEW c \in Contexts(m),
           NEW sym \in SymbolsOf(Stats(m, c))
    PROVE  /\ InheritedFreq8(m, c, sym) \in 1..255
           /\ NumStats(m, c) # 1 =>
                  LET cf == Stats(m, c)[PlaceOf(Stats(m, c), sym)].freq - 1
                  IN  SummFreq(m, c) - (NumStats(m, c) - 1) - cf >= 1
<1> DEFINE cf == Stats(m, c)[PlaceOf(Stats(m, c), sym)].freq - 1
           d == SummFreq(m, c) - (NumStats(m, c) - 1) - cf
           a == cf + 2 * d - 3
           f == InheritedFreq8(m, c, sym)
<1>1. CASE NumStats(m, c) = 1
  BY <1>1 DEF Roomy, InheritedFreq8
<1>2. CASE NumStats(m, c) # 1
  <2> DEFINE n == SummFreq(m, c)
             k == NumStats(m, c)
  <2>a. cf \in Nat /\ cf + 1 <= MAX_FREQ /\ n - k - cf \in Nat /\ n - k - cf >= 1
        /\ k \in Nat /\ n \in Nat /\ MAX_FREQ \in 8..246
    BY <1>2, RestIsLeft, Bounds
  <2>2. f = 1 + IF 2 * cf <= d THEN Bool(5 * cf > d) ELSE a \div d
    BY <1>2 DEF InheritedFreq8
  <2>b. d = n - (k - 1) - cf
    OBVIOUS
  <2> HIDE DEF cf, d, f, n, k
  <2>1. d \in Nat /\ d >= 2
    BY <2>a, <2>b
  <2>3. a \in Nat
    BY <2>1, <2>a
  <2>4. a < d * ((cf + 1) + 1)
    <3>0. d >= 1
      BY <2>1
    <3>1. a < d * (cf + 2)
      BY <2>1, <2>a, <3>0, ProductsBelow
    <3>2. (cf + 1) + 1 = cf + 2
      BY <2>a
    <3> QED BY <3>1, <3>2
  <2> HIDE DEF a
  <2>5. a \div d \in 0..(cf + 1)
    <3>1. d >= 1 /\ cf + 1 \in Nat
      BY <2>1, <2>a
    <3> QED BY <2>1, <2>3, <2>4, <3>1, QuotientFits
  <2>6. Bool(5 * cf > d) \in {0, 1}
    BY DEF Bool
  <2> DEFINE q == a \div d
  <2> HIDE DEF q
  <2>7. f = 1 + (IF 2 * cf <= d THEN Bool(5 * cf > d) ELSE q) /\ q \in 0..(cf + 1)
    BY <2>2, <2>5 DEF q
  <2>8. f \in 1..255
    BY <2>a, <2>6, <2>7
  <2>9. d >= 1
    BY <2>1
  <2> QED BY <2>8, <2>9 DEF f, d, cf
<1> QED BY <1>1, <1>2

\* A state with another successor.
Pointed(s, i, a) == [s EXCEPT ![i].succ = a]

\* Its counts are the same.
LEMMA PointedIs ==
    ASSUME NEW s \in Seq(State), NEW i \in 1..Len(s), NEW a \in Nat
    PROVE  /\ Pointed(s, i, a) \in Seq(State) /\ Len(Pointed(s, i, a)) = Len(s)
           /\ \A j \in 1..Len(s) : Pointed(s, i, a)[j].freq = s[j].freq
           /\ SumFreq(Pointed(s, i, a)) = SumFreq(s)
<1> DEFINE x == [s[i] EXCEPT !.succ = a]
           r == Pointed(s, i, a)
<1>1. s[i] \in State /\ s[i].freq \in Nat
  BY StateAt
<1>2. x \in State /\ x.freq = s[i].freq
  BY <1>1 DEF State
<1>3. r = [s EXCEPT ![i] = x]
  BY DEF Pointed
<1> HIDE DEF x, r
<1>4. r \in Seq(State) /\ Len(r) = Len(s) /\ r[i] = x /\ \A j \in 1..Len(s) : j # i => r[j] = s[j]
  BY <1>2, <1>3
<1>5. \A j \in 1..Len(s) : r[j].freq = s[j].freq
  BY <1>2, <1>4
<1>6. SumFreq(r) = SumFreq(s) + (r[i].freq - s[i].freq)
  BY <1>4, <1>5, SumChanged
<1>7. SumFreq(r) = SumFreq(s)
  BY <1>1, <1>5, <1>6, SumIsNat
<1> QED BY <1>4, <1>5, <1>7 DEF r

\* The successor of a state is set: no count changes.
LEMMA PointingKeepsRoom ==
    ASSUME NEW C \in Kinds, NEW m, IsModel(m, C), Roomy(m), NEW c \in Contexts(m),
           NEW i \in 1..NumStats(m, c), NEW at, at[1] = c, at[2] = i, NEW a \in Nat
    PROVE  IsModel(SetSuccessor(m, at, a), C) /\ Roomy(SetSuccessor(m, at, a))
<1> DEFINE s == Stats(m, c)
           r == Pointed(s, i, a)
           n == SummFreq(m, c)
           x == [m.ctx[c - TextSize] EXCEPT !.stats = r]
<1>1. /\ ContextOK(s, n) /\ s \in Seq(State) /\ NumStats(m, c) = Len(s)
  BY RoomyAt
<1>2. m.ctx[c - TextSize] \in C
  BY PlaceInCtx
<1>3. /\ r \in Seq(State) /\ Len(r) = Len(s) /\ SumFreq(r) = SumFreq(s)
      /\ \A j \in 1..Len(s) : r[j].freq = s[j].freq
  BY <1>1, PointedIs
<1>4. SetSuccessor(m, at, a) = PutContext(m, c, x)
  BY DEF SetSuccessor, PutContext, Pointed, Stats
<1>5. x \in C /\ x.stats = r /\ x.summ = n
  BY <1>2, <1>3, OtherStats DEF SummFreq
<1> HIDE DEF x, r
<1>6. Changed(C, m, PutContext(m, c, x), c, r, n)
  <2>1. Changed(C, m, PutContext(m, c, x), c, x.stats, x.summ)
    BY <1>5, PutIs
  <2> QED BY <1>5, <2>1
<1>7. ContextOK(r, n)
  <2> HIDE DEF s, n
  <2>1. CASE Len(s) = 1
    <3>1. 1 \in 1..Len(s)
      BY <2>1
    <3>2. r[1].freq = s[1].freq
      BY <1>3, <3>1
    <3> QED BY <1>1, <1>3, <2>1, <3>2 DEF ContextOK
  <2>2. CASE Len(s) # 1
    <3>1. HasRoom(s, n)
      BY <1>1, <2>2 DEF ContextOK
    <3>2. HasRoom(r, n)
      BY <1>3, <3>1 DEF HasRoom
    <3> QED BY <1>1, <1>3, <2>2, <3>2 DEF ContextOK
  <2> QED BY <2>1, <2>2
<1> HIDE DEF s, n
<1> QED BY <1>4, <1>6, <1>7, RoomyAfter

\* A context more, in which one state is alone.
LEMMA OneMoreIs ==
    ASSUME NEW C \in Kinds, NEW m, IsModel(m, C), NEW x \in C,
           NEW m2, m2 = [m EXCEPT !.ctx = Append(@, x)]
    PROVE  /\ IsModel(m2, C)
           /\ Contexts(m2) = Contexts(m) \union {TextSize + Len(m.ctx) + 1}
           /\ Stats(m2, TextSize + Len(m.ctx) + 1) = x.stats
           /\ \A d \in Contexts(m) : Stats(m2, d) = Stats(m, d) /\ SummFreq(m2, d) = SummFreq(m, d)
<1> DEFINE n == Len(m.ctx)
           q == Append(m.ctx, x)
<1>1. m.ctx \in Seq(C) /\ "ctx" \in DOMAIN m /\ TextSize \in Nat
      /\ {"ctx", "found", "Min", "OrderFall", "InitEsc"} \subseteq DOMAIN m
  BY Bounds DEF IsModel
<1>2. /\ q \in Seq(C) /\ n \in Nat /\ Len(q) = n + 1 /\ q[n + 1] = x
      /\ \A i \in 1..n : q[i] = m.ctx[i]
  BY <1>1
<1>3. m2.ctx = q /\ DOMAIN m2 = DOMAIN m
  BY <1>1
<1> HIDE DEF q
<1>4. IsModel(m2, C)
  BY <1>1, <1>2, <1>3 DEF IsModel
<1>5. Len(m2.ctx) = n + 1
  BY <1>2, <1>3
<1> HIDE DEF n
<1>6. 1..(n + 1) = (1..n) \union {n + 1}
  BY <1>2
<1>7. TextSize + (n + 1) = TextSize + n + 1
  BY <1>1, <1>2
<1>8. Contexts(m2) = Contexts(m) \union {TextSize + n + 1}
  <2>1. Contexts(m2) = {TextSize + i : i \in 1..(n + 1)}
    BY <1>5 DEF Contexts
  <2>2. Contexts(m) = {TextSize + i : i \in 1..n}
    BY DEF Contexts, n
  <2> QED BY <1>6, <1>7, <2>1, <2>2
<1>9. Stats(m2, TextSize + n + 1) = x.stats
  <2>1. (TextSize + n + 1) - TextSize = n + 1
    BY <1>1, <1>2
  <2>2. m2.ctx[(TextSize + n + 1) - TextSize] = x
    BY <1>2, <1>3, <2>1
  <2> QED BY <2>2 DEF Stats
<1>10. ASSUME NEW d \in Contexts(m)
       PROVE  Stats(m2, d) = Stats(m, d) /\ SummFreq(m2, d) = SummFreq(m, d)
  <2>1. d - TextSize \in 1..n
    BY PlaceInCtx DEF n
  <2>2. m2.ctx[d - TextSize] = m.ctx[d - TextSize]
    BY <1>2, <1>3, <2>1
  <2> QED BY <2>2 DEF Stats, SummFreq
<1> QED BY <1>4, <1>8, <1>9, <1>10 DEF n

\* CreateSuccessors makes a context below others, with one state whose
\* frequency fits into a byte: every context keeps room.
THEOREM ChildKeepsRoom ==
    ASSUME NEW C \in Kinds, NEW m, IsModel(m, C), Roomy(m), NEW c \in Contexts(m),
           NEW i \in 1..NumStats(m, c), NEW at, at[1] = c, at[2] = i,
           NEW x \in C, Len(x.stats) = 1, x.stats[1].freq \in 1..255
    PROVE  IsModel(WithChild(m, at, x), C) /\ Roomy(WithChild(m, at, x))
<1> DEFINE m2 == [m EXCEPT !.ctx = Append(@, x)]
           a == TextSize + Len(m.ctx) + 1
<1>1. WithChild(m, at, x) = SetSuccessor(m2, at, a)
  BY DEF WithChild
<1>2. m2 = [m EXCEPT !.ctx = Append(@, x)]
  OBVIOUS
<1>3. a \in Nat
  <2>1. m.ctx \in Seq(C) /\ TextSize \in Nat
    BY Bounds DEF IsModel
  <2> QED BY <2>1
<1> HIDE DEF m2, a
<1>4. /\ IsModel(m2, C) /\ Contexts(m2) = Contexts(m) \union {a} /\ Stats(m2, a) = x.stats
      /\ \A d \in Contexts(m) : Stats(m2, d) = Stats(m, d) /\ SummFreq(m2, d) = SummFreq(m, d)
  BY <1>2, OneMoreIs DEF a
<1>5. 1 \in 1..Size
  <2>1. NumStats(m, c) \in 1..Size /\ Size \in Nat
    BY RoomyAt, Bounds DEF Size
  <2> QED BY <2>1
<1>6. Roomy(m2)
  <2> SUFFICES ASSUME NEW d \in Contexts(m) \union {a}
               PROVE  /\ NumStats(m2, d) \in 1..Size
                      /\ IF NumStats(m2, d) = 1
                         THEN Stats(m2, d)[1].freq \in 1..255
                         ELSE HasRoom(Stats(m2, d), SummFreq(m2, d))
    BY <1>4 DEF Roomy, Size
  <2>1. CASE d \in Contexts(m)
    <3>1. Stats(m2, d) = Stats(m, d) /\ SummFreq(m2, d) = SummFreq(m, d)
          /\ NumStats(m2, d) = NumStats(m, d)
      BY <1>4, <2>1 DEF NumStats
    <3> QED BY <2>1, <3>1 DEF Roomy, Size
  <2>2. CASE d = a
    <3>1. Stats(m2, d) = x.stats /\ NumStats(m2, d) = 1
      BY <1>4, <2>2 DEF NumStats
    <3> QED BY <1>5, <3>1
  <2> QED BY <2>1, <2>2
<1>7. c \in Contexts(m2) /\ i \in 1..NumStats(m2, c)
  BY <1>4 DEF NumStats
<1>8. IsModel(SetSuccessor(m2, at, a), C) /\ Roomy(SetSuccessor(m2, at, a))
  BY <1>3, <1>4, <1>6, <1>7, PointingKeepsRoom
<1> QED BY <1>1, <1>8

\* RestartModel, in both models: the root context has every symbol once, and
\* room for an escape.
THEOREM RestartKeepsRoom ==
    ASSUME NEW C \in Kinds, NEW root \in C, root.stats = RootStats,
           root.summ = Len(RootStats) + 1, NEW maxOrder, NEW units
    PROVE  /\ IsModel(Restarted(root, maxOrder, units), C)
           /\ Roomy(Restarted(root, maxOrder, units))
<1> DEFINE m == Restarted(root, maxOrder, units)
           s == RootStats
           c == TextSize + 1
<1>1. Size \in Nat /\ Size >= 1 /\ Symbols = 0..(Size - 1) /\ TextSize \in Nat
      /\ MAX_FREQ \in 8..246
  <2>1. Size \in Nat /\ Symbols = 0..(Size - 1) /\ 0 \in Symbols /\ TextSize \in Nat
        /\ MAX_FREQ \in 8..246
    BY CountsAssumption, FS_CardinalityType DEF Size
  <2> QED BY <2>1
<1>2. s = [i \in 1..Size |-> [sym |-> i - 1, freq |-> 1, succ |-> NULL]]
  BY DEF RootStats, Size
<1> HIDE DEF s
<1>3. \A i \in 1..Size : [sym |-> i - 1, freq |-> 1, succ |-> NULL] \in State
  <2> SUFFICES ASSUME NEW i \in 1..Size
               PROVE  [sym |-> i - 1, freq |-> 1, succ |-> NULL] \in State
    OBVIOUS
  <2>1. i - 1 \in Symbols /\ NULL \in Nat /\ 1 \in Nat
    BY <1>1 DEF NULL
  <2> QED BY <2>1 DEF State
<1>4. s \in Seq(State) /\ Len(s) = Size /\ \A i \in 1..Size : s[i].freq = 1
  BY <1>1, <1>2, <1>3
<1>5. SumFreq(s) = Size
  <2>1. \A i \in 1..Len(s) : 1 <= s[i].freq /\ s[i].freq <= 1
    BY <1>4
  <2>2. 1 \in Nat
    OBVIOUS
  <2>3. 1 * Len(s) <= SumFreq(s) /\ SumFreq(s) <= 1 * Len(s)
    BY <1>4, <2>1, <2>2, SumBetween
  <2>4. SumFreq(s) \in Nat
    BY <1>4, SumIsNat
  <2>5. 1 * Len(s) = Size
    BY <1>1, <1>4
  <2> QED BY <1>1, <2>3, <2>4, <2>5
<1>6. HasRoom(s, Size + 1)
  <2>1. ShareLimit(Size) = 6 * Size + 20 + 5 * Size
    BY DEF ShareLimit, Size
  <2>2. SumFreq(s) < Size + 1 /\ Size + 1 <= SumFreq(s) + ShareLimit(Len(s))
    <3>1. Len(s) = Size
      BY <1>4
    <3>2. Size < Size + 1 /\ Size + 1 <= Size + (6 * Size + 20 + 5 * Size)
      BY <1>1
    <3> QED BY <1>5, <2>1, <3>1, <3>2
  <2>3. \A i \in 1..Len(s) : s[i].freq \in 1..MAX_FREQ
    BY <1>1, <1>4
  <2> QED BY <2>2, <2>3 DEF HasRoom
<1>7. m.ctx = <<root>> /\ {"ctx", "found", "Min", "OrderFall", "InitEsc"} \subseteq DOMAIN m
  BY DEF Restarted
<1> HIDE DEF m
<1>8. Len(m.ctx) = 1 /\ m.ctx[1] = root /\ m.ctx \in Seq(C)
  BY <1>7
<1>9. IsModel(m, C) /\ Contexts(m) = {c}
  <2>1. \A i \in 1..1 : i = 1
    OBVIOUS
  <2> QED BY <1>7, <1>8, <2>1 DEF IsModel, Contexts
<1>10. Stats(m, c) = s /\ SummFreq(m, c) = Size + 1 /\ NumStats(m, c) = Size
  <2>1. c - TextSize = 1
    BY <1>1
  <2> QED BY <1>4, <1>8, <2>1 DEF Stats, SummFreq, NumStats, s
<1>11. Roomy(m)
  <2>1. Size \in 1..Size
    BY <1>1
  <2>2. Size = 1 => s[1].freq \in 1..255
    BY <1>4
  <2> QED BY <1>6, <1>9, <1>10, <2>1, <2>2 DEF Roomy, Size
<1> QED BY <1>9, <1>11 DEF m
===============================================================================
