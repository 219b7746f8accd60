--------------------------- MODULE UnitSizesProofs ---------------------------
(***************************************************************************)
(* Lemmas about UnitSizes.tla, for arenas, units and tables of any size:   *)
(* the sizes of blocks grow with their index, the units of a block are     *)
(* counted as its bytes are, and a run of units is cut into blocks that    *)
(* cover it without overlap.                                               *)
(*                                                                         *)
(* Induction is by the least number of a set, which WFMin provides.        *)
(***************************************************************************)
EXTENDS UnitSizes, WellFoundedInduction, TLAPS

\* A set of numbers has a least one.
LEMMA LeastNumber ==
    ASSUME NEW S \in SUBSET Nat, S # {}
    PROVE  \E m \in S : \A k \in S : m <= k
<1> DEFINE R == OpToRel(<, Nat)
<1>1. IsWellFoundedOn(R, Nat)
  BY NatLessThanWellFounded
<1>2. \A i \in Nat, j \in Nat : i < j => <<i, j>> \in R
  BY DEF OpToRel
<1> HIDE DEF R
<1>3. PICK m \in S : \A k \in S : ~(<<k, m>> \in R)
  BY <1>1, WFMin
<1>4. ASSUME NEW k \in S PROVE m <= k
  <2>1. m \in Nat /\ k \in Nat /\ ~(k < m)
    BY <1>2, <1>3
  <2> QED BY <2>1
<1> QED BY <1>4

\* A set that has 0 and with each number the next one has them all.
LEMMA AllNumbers ==
    ASSUME NEW S \in SUBSET Nat, 0 \in S, \A n \in S : n + 1 \in S
    PROVE  S = Nat
<1> SUFFICES ASSUME Nat \ S # {} PROVE FALSE
  OBVIOUS
<1>1. PICK m \in Nat \ S : \A k \in Nat \ S : m <= k
  BY LeastNumber
<1>2. m # 0
  OBVIOUS
<1>3. m - 1 \in Nat /\ m - 1 \notin Nat \ S
  BY <1>1, <1>2
<1>4. (m - 1) + 1 = m
  OBVIOUS
<1> QED BY <1>3, <1>4

-------------------------------------------------------------------------------
(***************************************************************************)
(* The table of sizes.                                                     *)
(***************************************************************************)

SizeStep(i) == IF i >= 3 * IndexPeriod THEN 4 ELSE i \div IndexPeriod + 1

\* The table up to n.
IsTable(f, n) ==
    f = [i \in 0..n |-> IF i = 0 THEN SizeStep(0) ELSE f[i - 1] + SizeStep(i)]

\* A list's size exceeds the one before it by at least a unit; the first is one unit.
LEMMA SizeStepPositive ==
    ASSUME NEW i \in Nat PROVE SizeStep(i) \in Nat \ {0} /\ SizeStep(0) = 1
<1>1. IndexPeriod \in Nat \ {0}
  BY SizesAssumption
<1>2. i \div IndexPeriod \in Nat /\ 0 \div IndexPeriod = 0
  BY <1>1
<1>3. 3 * IndexPeriod > 0 /\ ~(0 >= 3 * IndexPeriod)
  BY <1>1
<1>4. i \div IndexPeriod + 1 \in Nat \ {0} /\ 0 \div IndexPeriod + 1 = 1
  BY <1>2
<1>5. SizeStep(0) = 1
  BY <1>3, <1>4 DEF SizeStep
<1>6. SizeStep(i) \in Nat \ {0}
  BY <1>4 DEF SizeStep
<1> QED BY <1>5, <1>6

\* For every n there is a function with the values Ppmd7_Construct computes up to n.
LEMMA TableExists == \A n \in Nat : \E f : IsTable(f, n)
<1> DEFINE S == {n \in Nat : \E f : IsTable(f, n)}
<1>1. 0 \in S
  <2> DEFINE one == [i \in 0..0 |-> SizeStep(0)]
  <2>1. one = [i \in 0..0 |-> IF i = 0 THEN SizeStep(0)
                              ELSE one[i - 1] + SizeStep(i)]
    OBVIOUS
  <2> HIDE DEF one
  <2>2. IsTable(one, 0)
    BY <2>1 DEF IsTable
  <2>3. \E f : IsTable(f, 0)
    BY <2>2
  <2> QED BY <2>3
<1>2. ASSUME NEW n \in S PROVE n + 1 \in S
  <2>1. PICK f : IsTable(f, n)
    OBVIOUS
  <2>2. n \in Nat
    OBVIOUS
  <2> DEFINE g == [i \in 0..n + 1 |-> IF i = n + 1 THEN f[n] + SizeStep(n + 1) ELSE f[i]]
             h == [i \in 0..n + 1 |-> IF i = 0 THEN SizeStep(0)
                                      ELSE g[i - 1] + SizeStep(i)]
  <2>3. ASSUME NEW i \in 0..n + 1 PROVE g[i] = h[i]
    <3>1. CASE i = n + 1
      <4>1. i - 1 = n /\ n \in 0..n + 1 /\ n # n + 1 /\ i # 0
        BY <2>2, <3>1
      <4>2. g[n] = f[n]
        BY <4>1
      <4> QED BY <3>1, <4>1, <4>2
    <3>2. CASE i # n + 1
      <4>1. i \in 0..n
        BY <2>2, <3>2
      <4>2. f[i] = IF i = 0 THEN SizeStep(0) ELSE f[i - 1] + SizeStep(i)
        BY <2>1, <4>1 DEF IsTable
      <4>3. i # 0 => i - 1 \in 0..n + 1 /\ i - 1 # n + 1
        BY <2>2
      <4> QED BY <3>2, <4>2, <4>3
    <3> QED BY <3>1, <3>2
  <2>4. g = h
    BY <2>3
  <2>5. IsTable(g, n + 1)
    BY <2>4 DEF IsTable
  <2> QED BY <2>2, <2>5
<1> HIDE DEF S
<1>3. S = Nat
  BY <1>1, <1>2, AllNumbers DEF S
<1> QED BY <1>3 DEF S

\* The table is what its definition says.
LEMMA TableIsDefined ==
    Indx2Units = [i \in Indexes |-> IF i = 0 THEN SizeStep(0)
                                    ELSE Indx2Units[i - 1] + SizeStep(i)]
<1>1. NumIndexes - 1 \in Nat
  BY SizesAssumption
<1>2. PICK f : IsTable(f, NumIndexes - 1)
  BY <1>1, TableExists
<1>3. f = [i \in Indexes |-> IF i = 0 THEN SizeStep(0) ELSE f[i - 1] + SizeStep(i)]
  BY <1>2 DEF IsTable, Indexes
<1> DEFINE T == CHOOSE size : size = [i \in Indexes |->
               IF i = 0 THEN SizeStep(0) ELSE size[i - 1] + SizeStep(i)]
<1>4. T = [i \in Indexes |-> IF i = 0 THEN SizeStep(0) ELSE T[i - 1] + SizeStep(i)]
  BY <1>3
<1> HIDE DEF T
<1>5. Indx2Units = T
  BY DEF Indx2Units, SizeStep, T
<1> QED BY <1>4, <1>5

\* A block has at least one unit, the smallest has one, and a larger index is a
\* larger size.
LEMMA SizesGrow ==
    /\ I2U(0) = 1
    /\ \A i \in Indexes : I2U(i) \in Nat \ {0}
    /\ \A i, j \in Indexes : i < j => I2U(i) < I2U(j)
<1> DEFINE T == Indx2Units
           S == {n \in Nat : n \in Indexes =>
                                /\ T[n] \in Nat \ {0}
                                /\ \A i \in Indexes : i < n => T[i] \in Nat /\ T[i] < T[n]}
<1>1. /\ 0 \in Indexes
      /\ \A i \in Indexes : i \in Nat /\ (i # 0 => i - 1 \in Indexes)
  BY SizesAssumption DEF Indexes
<1>2. T[0] = 1
  BY <1>1, TableIsDefined, SizeStepPositive
<1>3. ASSUME NEW n \in Nat, n + 1 \in Indexes
      PROVE  n \in Indexes /\ T[n + 1] = T[n] + SizeStep(n + 1)
  <2>1. (n + 1) - 1 = n /\ n + 1 # 0
    OBVIOUS
  <2> QED BY <1>1, <1>3, <2>1, TableIsDefined
<1> HIDE DEF T
<1>4. 0 \in S
  BY <1>1, <1>2
<1>5. ASSUME NEW n \in S PROVE n + 1 \in S
  <2> SUFFICES ASSUME n + 1 \in Indexes
               PROVE  /\ T[n + 1] \in Nat \ {0}
                      /\ \A i \in Indexes : i < n + 1 =>
                             T[i] \in Nat /\ T[i] < T[n + 1]
    OBVIOUS
  <2>1. /\ n \in Indexes /\ T[n + 1] = T[n] + SizeStep(n + 1)
        /\ T[n] \in Nat \ {0}
        /\ \A i \in Indexes : i < n => T[i] \in Nat /\ T[i] < T[n]
    BY <1>3
  <2>2. SizeStep(n + 1) \in Nat \ {0}
    BY SizeStepPositive
  <2>3. T[n + 1] \in Nat \ {0} /\ T[n] < T[n + 1]
    BY <2>1, <2>2
  <2>4. ASSUME NEW i \in Indexes, i < n + 1
        PROVE  T[i] \in Nat /\ T[i] < T[n + 1]
    <3>1. CASE i = n
      BY <2>1, <2>3, <3>1
    <3>2. CASE i # n
      <4>1. n \in Nat /\ i \in Nat
        BY <1>1
      <4>2. i < n
        BY <2>4, <3>2, <4>1
      <4>3. T[i] \in Nat /\ T[i] < T[n]
        BY <2>1, <4>2
      <4> QED BY <2>1, <2>3, <4>3
    <3> QED BY <3>1, <3>2
  <2> QED BY <2>3, <2>4
<1> HIDE DEF S
<1>6. S = Nat
  BY <1>4, <1>5, AllNumbers DEF S
<1>7. ASSUME NEW n \in Indexes
      PROVE  /\ T[n] \in Nat \ {0}
             /\ \A i \in Indexes : i < n => T[i] < T[n]
  BY <1>1, <1>6 DEF S
<1> QED BY <1>2, <1>7 DEF T, I2U

\* The last list index is one of them, and the greatest.
LEMMA LastIndexIs ==
    /\ LastIndex \in Indexes /\ 0 \in Indexes
    /\ \A i \in Indexes : i \in Nat /\ i <= LastIndex
    /\ \A i \in Nat : i <= LastIndex => i \in Indexes
  BY SizesAssumption DEF LastIndex, Indexes

\* The last size is the largest and holds at least one unit.
LEMMA MaxUnitsIs ==
    MaxUnits \in Nat \ {0} /\ \A i \in Indexes : I2U(i) <= MaxUnits
<1>1. MaxUnits \in Nat \ {0}
  BY SizesGrow, LastIndexIs DEF MaxUnits
<1>2. ASSUME NEW i \in Indexes PROVE I2U(i) <= MaxUnits
  <2>1. CASE i = LastIndex
    BY <1>1, <2>1 DEF MaxUnits
  <2>2. CASE i # LastIndex
    <3>1. i \in Nat /\ LastIndex \in Nat /\ i <= LastIndex
      BY LastIndexIs
    <3>2. i < LastIndex
      BY <2>2, <3>1
    <3>3. I2U(i) < I2U(LastIndex) /\ I2U(i) \in Nat
      BY <3>2, LastIndexIs, SizesGrow
    <3> QED BY <1>1, <3>3 DEF MaxUnits
  <2> QED BY <2>1, <2>2
<1> QED BY <1>1, <1>2

\* U2I finds the smallest size for any number of units a block may have.
LEMMA SmallestSize ==
    ASSUME NEW nu \in 1..MaxUnits
    PROVE  /\ U2I(nu) \in Indexes
           /\ I2U(U2I(nu)) >= nu
           /\ \A j \in 0..U2I(nu) - 1 : I2U(j) < nu
<1> DEFINE Large == {i \in Indexes : I2U(i) >= nu}
<1>1. nu \in Nat /\ LastIndex \in Large
  BY LastIndexIs, MaxUnitsIs DEF MaxUnits
<1>2. Large \in SUBSET Nat
  BY LastIndexIs
<1>3. PICK m \in Large : \A k \in Large : m <= k
  BY <1>1, <1>2, LeastNumber
<1>4. m \in Indexes /\ m \in Nat /\ I2U(m) >= nu
  BY <1>2
<1>5. ASSUME NEW j \in 0..m - 1 PROVE I2U(j) < nu
  <2>1. j \in Nat /\ j < m
    BY <1>4
  <2>2. j \in Indexes
    BY <1>4, <2>1, LastIndexIs
  <2>3. ~(m <= j)
    BY <1>4, <2>1
  <2>4. ~(I2U(j) >= nu)
    BY <1>3, <2>2, <2>3
  <2>5. I2U(j) \in Nat
    BY <2>2, SizesGrow
  <2> QED BY <1>1, <2>4, <2>5
<1>6. \E i \in Indexes : I2U(i) >= nu /\ \A j \in 0..i - 1 : I2U(j) < nu
  BY <1>4, <1>5
<1> HIDE DEF Large
<1> QED BY <1>6 DEF U2I

-------------------------------------------------------------------------------
(***************************************************************************)
(* Units and bytes.                                                        *)
(***************************************************************************)

\* A unit has bytes.
LEMMA UnitSizeIs == UNIT_SIZE \in Nat \ {0}
  BY SizesAssumption

\* U2B is linear, strictly growing, and at least the number of units.
LEMMA BytesOfUnits ==
    /\ U2B(0) = 0 /\ U2B(1) = UNIT_SIZE
    /\ \A m \in Int : U2B(m) \in Int
    /\ \A m \in Nat : U2B(m) \in Nat /\ m <= U2B(m)
    /\ \A m, n \in Int : U2B(m + n) = U2B(m) + U2B(n)
    /\ \A m, n \in Int : m < n => U2B(m) + UNIT_SIZE <= U2B(n)
    /\ \A m, n \in Int : U2B(m) = U2B(n) => m = n
<1>1. UNIT_SIZE \in Nat \ {0} /\ UNIT_SIZE \in Int
  BY SizesAssumption
<1>2. U2B(0) = 0 /\ U2B(1) = UNIT_SIZE /\ \A m \in Int : U2B(m) \in Int
  BY <1>1 DEF U2B
<1>3. ASSUME NEW m \in Int, NEW n \in Int PROVE U2B(m + n) = U2B(m) + U2B(n)
  BY <1>1 DEF U2B
<1>4. ASSUME NEW m \in Nat PROVE U2B(m) \in Nat /\ m <= U2B(m)
  BY <1>1 DEF U2B
<1>5. ASSUME NEW m \in Int, NEW n \in Int, m < n
      PROVE  U2B(m) + UNIT_SIZE <= U2B(n)
  <2> DEFINE d == n - m - 1
  <2>1. d \in Nat /\ d \in Int /\ n = m + (1 + d) /\ 1 + d \in Int
    BY <1>5
  <2> HIDE DEF d
  <2>2. U2B(m + (1 + d)) = U2B(m) + U2B(1 + d)
    BY <1>3, <2>1
  <2>3. U2B(1 + d) = U2B(1) + U2B(d)
    BY <1>3, <2>1
  <2>4. U2B(d) \in Nat /\ U2B(m) \in Int
    BY <1>2, <1>4, <2>1
  <2> QED BY <1>1, <1>2, <2>1, <2>2, <2>3, <2>4
<1>6. ASSUME NEW m \in Int, NEW n \in Int, U2B(m) = U2B(n) PROVE m = n
  <2>1. U2B(m) \in Int /\ U2B(n) \in Int
    BY <1>2
  <2>2. ~(m < n)
    BY <1>1, <1>5, <1>6, <2>1
  <2>3. ~(n < m)
    BY <1>1, <1>5, <1>6, <2>1
  <2> QED BY <2>2, <2>3
<1> QED BY <1>2, <1>3, <1>4, <1>5, <1>6

\* A run of units is its first and the rest, and they have nothing in common.
LEMMA UnitsJoin ==
    ASSUME NEW at \in Int, NEW m \in Nat, NEW n \in Nat
    PROVE  /\ Units(at, m + n) = Units(at, m) \cup Units(at + U2B(m), n)
           /\ Units(at, m) \cap Units(at + U2B(m), n) = {}
<1>1. ASSUME NEW x \in Units(at, m + n)
      PROVE  x \in Units(at, m) \cup Units(at + U2B(m), n)
  <2>1. PICK k \in 0..(m + n) - 1 : x = at + U2B(k)
    BY DEF Units
  <2>2. CASE k < m
    <3>1. k \in 0..m - 1
      BY <2>2
    <3> QED BY <2>1, <3>1 DEF Units
  <2>3. CASE k >= m
    <3> DEFINE d == k - m
    <3>1. d \in 0..n - 1 /\ k = m + d /\ d \in Int /\ m \in Int
      BY <2>3
    <3> HIDE DEF d
    <3>2. U2B(m + d) = U2B(m) + U2B(d)
      BY <3>1, BytesOfUnits
    <3>3. U2B(m) \in Int /\ U2B(d) \in Int
      BY <3>1, BytesOfUnits
    <3>4. x = (at + U2B(m)) + U2B(d)
      BY <2>1, <3>1, <3>2, <3>3
    <3> QED BY <3>1, <3>4 DEF Units
  <2> QED BY <2>2, <2>3
<1>2. ASSUME NEW x \in Units(at, m) PROVE x \in Units(at, m + n)
  <2>1. PICK k \in 0..m - 1 : x = at + U2B(k)
    BY DEF Units
  <2>2. k \in 0..(m + n) - 1
    OBVIOUS
  <2> QED BY <2>1, <2>2 DEF Units
<1>3. ASSUME NEW x \in Units(at + U2B(m), n)
      PROVE  \E k \in m..(m + n) - 1 : x = at + U2B(k)
  <2>1. PICK k \in 0..n - 1 : x = (at + U2B(m)) + U2B(k)
    BY DEF Units
  <2>2. m \in Int /\ k \in Int
    OBVIOUS
  <2>3. U2B(m + k) = U2B(m) + U2B(k)
    BY <2>2, BytesOfUnits
  <2>4. U2B(m) \in Int /\ U2B(k) \in Int
    BY <2>2, BytesOfUnits
  <2>5. x = at + U2B(m + k) /\ m + k \in m..(m + n) - 1
    BY <2>1, <2>3, <2>4
  <2> QED BY <2>5
<1>4. ASSUME NEW x \in Units(at + U2B(m), n) PROVE x \in Units(at, m + n)
  <2>1. PICK k \in m..(m + n) - 1 : x = at + U2B(k)
    BY <1>3
  <2>2. k \in 0..(m + n) - 1
    OBVIOUS
  <2> QED BY <2>1, <2>2 DEF Units
<1>5. ASSUME NEW x \in Units(at, m), x \in Units(at + U2B(m), n) PROVE FALSE
  <2>1. PICK k \in 0..m - 1 : x = at + U2B(k)
    BY DEF Units
  <2>2. PICK j \in m..(m + n) - 1 : x = at + U2B(j)
    BY <1>3, <1>5
  <2>3. k \in Int /\ j \in Int /\ k # j
    OBVIOUS
  <2>4. U2B(k) \in Int /\ U2B(j) \in Int
    BY <2>3, BytesOfUnits
  <2>5. U2B(k) = U2B(j)
    <3> DEFINE a == U2B(k)
               b == U2B(j)
    <3>1. at + a = at + b /\ a \in Int /\ b \in Int
      BY <2>1, <2>2, <2>4
    <3> HIDE DEF a, b
    <3>2. a = b
      BY <3>1
    <3> QED BY <3>2 DEF a, b
  <2> QED BY <2>3, <2>5, BytesOfUnits
<1> QED BY <1>1, <1>2, <1>4, <1>5

\* A block of one unit is its address, a block of none is empty.
LEMMA UnitsOne ==
    ASSUME NEW at \in Int PROVE Units(at, 1) = {at} /\ Units(at, 0) = {}
<1>1. 0..1 - 1 = {0} /\ 0..0 - 1 = {}
  OBVIOUS
<1>2. at + U2B(0) = at
  BY BytesOfUnits
<1> QED BY <1>1, <1>2 DEF Units

\* The first unit of a block is its address.
LEMMA FirstOfUnits ==
    ASSUME NEW at \in Int, NEW nu \in Nat \ {0} PROVE at \in Units(at, nu)
<1>1. 0 \in 0..nu - 1 /\ at + U2B(0) = at
  BY BytesOfUnits
<1> QED BY <1>1 DEF Units

-------------------------------------------------------------------------------
(***************************************************************************)
(* How InsertUnits cuts a run.                                             *)
(***************************************************************************)

\* What \div yields, without the remainder.
LEMMA Division ==
    ASSUME NEW k \in Nat, NEW m \in Nat \ {0}
    PROVE  k \div m \in Nat /\ (k \div m) * m <= k /\ k < (k \div m) * m + m
  OBVIOUS

\* Multiplying by m keeps an order and widens the distance to m.
LEMMA Multiples ==
    ASSUME NEW a \in Nat, NEW b \in Nat, NEW m \in Nat, a < b
    PROVE  a * m \in Nat /\ b * m \in Nat /\ a * m + m <= b * m
<1>1. PICK d \in Nat : b = a + 1 + d
  <2>1. b - a - 1 \in Nat /\ b = a + 1 + (b - a - 1)
    OBVIOUS
  <2> QED BY <2>1
<1>2. b * m = a * m + m + d * m /\ d * m \in Nat /\ a * m \in Nat
  BY <1>1
<1> QED BY <1>2

Full(nu) == (nu - 1) \div MaxUnits
Remainder(nu) == nu - Full(nu) * MaxUnits

\* The blocks of the largest size, and what comes behind them.
HeadPieces(nu) == {[at |-> n * MaxUnits, indx |-> LastIndex] : n \in 0..Full(nu) - 1}
TailPieces(nu) ==
    LET i == U2I(Remainder(nu))
        at == Full(nu) * MaxUnits
    IN  IF I2U(i) = Remainder(nu)
        THEN {[at |-> at, indx |-> i]}
        ELSE {[at |-> at, indx |-> i - 1],
              [at |-> at + I2U(i - 1), indx |-> Remainder(nu) - I2U(i - 1) - 1]}

\* The blocks GlueFreeBlocks cuts a run into: whole ones of the largest size,
\* and the rest, which is at most as large.
LEMMA PiecesAre ==
    ASSUME NEW nu \in Nat \ {0}
    PROVE  /\ Pieces(nu) = HeadPieces(nu) \cup TailPieces(nu)
           /\ Full(nu) \in Nat /\ Remainder(nu) \in 1..MaxUnits
           /\ Full(nu) * MaxUnits \in Nat /\ nu = Full(nu) * MaxUnits + Remainder(nu)
<1>1. MaxUnits \in Nat \ {0} /\ nu - 1 \in Nat
  BY MaxUnitsIs
<1>2. /\ Full(nu) \in Nat /\ Full(nu) * MaxUnits <= nu - 1
      /\ nu - 1 < Full(nu) * MaxUnits + MaxUnits
  BY <1>1, Division DEF Full
<1>3. Full(nu) * MaxUnits \in Nat
  BY <1>1, <1>2
<1>4. Remainder(nu) \in 1..MaxUnits /\ nu = Full(nu) * MaxUnits + Remainder(nu)
  <2> DEFINE x == Full(nu) * MaxUnits
  <2> HIDE DEF x
  <2>1. x \in Nat /\ x <= nu - 1 /\ nu - 1 < x + MaxUnits /\ Remainder(nu) = nu - x
    BY <1>2, <1>3 DEF x, Remainder
  <2> QED BY <1>1, <2>1 DEF x
<1>5. Pieces(nu) = HeadPieces(nu) \cup TailPieces(nu)
  BY DEF Pieces, HeadPieces, TailPieces, Full, Remainder
<1> QED BY <1>2, <1>3, <1>4, <1>5

\* What is left of a run behind its blocks of the largest size is a block of
\* some size, or the two that SplitAssumption speaks of.
LEMMA TailIs ==
    ASSUME NEW nu \in Nat \ {0}
    PROVE  LET at == Full(nu) * MaxUnits IN
           \/ \E i \in Indexes :
                  TailPieces(nu) = {[at |-> at, indx |-> i]} /\ I2U(i) = Remainder(nu)
           \/ \E i, j \in Indexes :
                  /\ TailPieces(nu) = {[at |-> at, indx |-> i],
                                       [at |-> at + I2U(i), indx |-> j]}
                  /\ I2U(i) + I2U(j) = Remainder(nu)
<1> DEFINE rest == Remainder(nu)
           i == U2I(rest)
           k == I2U(i - 1)
           at == Full(nu) * MaxUnits
<1>1. rest \in 1..MaxUnits /\ rest \in Nat \ {0}
  BY PiecesAre
<1> HIDE DEF rest
<1>2. /\ i \in Indexes /\ I2U(i) >= rest
      /\ \A j \in 0..i - 1 : I2U(j) < rest
  BY <1>1, SmallestSize
<1>3. i \in Nat /\ i <= LastIndex /\ I2U(i) \in Nat
  BY <1>2, LastIndexIs, SizesGrow
<1>4. CASE I2U(i) = rest
  <2>1. TailPieces(nu) = {[at |-> at, indx |-> i]}
    BY <1>4 DEF TailPieces, rest
  <2> HIDE DEF i, at
  <2> QED BY <1>2, <1>4, <2>1 DEF rest, at
<1>5. CASE I2U(i) # rest
  <2>1. TailPieces(nu) = {[at |-> at, indx |-> i - 1],
                          [at |-> at + k, indx |-> rest - k - 1]}
    BY <1>5 DEF TailPieces, rest
  <2> HIDE DEF i, at
  <2>2. i # 0
    BY <1>1, <1>2, <1>5, SizesGrow
  <2>3. i - 1 \in 0..i - 1 /\ i - 1 \in Nat /\ i - 1 <= LastIndex /\ (i - 1) + 1 = i
        /\ i - 1 # LastIndex
    BY <1>3, <2>2, LastIndexIs
  <2>4. i - 1 \in Indexes /\ i - 1 \in Indexes \ {LastIndex}
    BY <2>3, LastIndexIs
  <2>5. k \in Nat /\ k < rest /\ k = I2U(i - 1)
    BY <1>2, <2>3, <2>4, SizesGrow
  <2> HIDE DEF k
  <2>6. rest - k \in 1..I2U((i - 1) + 1) - I2U(i - 1) - 1
    BY <1>1, <1>2, <1>3, <1>5, <2>3, <2>5
  <2>7. rest - k <= NumIndexes /\ I2U(rest - k - 1) = rest - k
    BY <2>4, <2>6, SplitAssumption
  <2>8. rest - k - 1 \in Indexes
    BY <1>1, <2>5, <2>7, SizesAssumption DEF Indexes
  <2>9. I2U(i - 1) + I2U(rest - k - 1) = rest
    BY <1>1, <2>5, <2>7
  <2> QED BY <2>1, <2>4, <2>5, <2>8, <2>9 DEF rest, at
<1> QED BY <1>4, <1>5

\* The piece p has the unit k of the run.
Within(k, p) == p.at <= k /\ k < p.at + I2U(p.indx)

\* The whole blocks lie side by side and cover the front of the run.
LEMMA HeadTiles ==
    ASSUME NEW nu \in Nat \ {0}
    PROVE  /\ \A p \in HeadPieces(nu) :
                  /\ p.indx = LastIndex /\ p.at \in Nat
                  /\ p.at + MaxUnits <= Full(nu) * MaxUnits
           /\ \A p, q \in HeadPieces(nu) :
                  p # q => p.at + MaxUnits <= q.at \/ q.at + MaxUnits <= p.at
           /\ \A k \in 0..Full(nu) * MaxUnits - 1 : \E p \in HeadPieces(nu) :
                  p.at <= k /\ k < p.at + MaxUnits
<1>1. /\ MaxUnits \in Nat \ {0} /\ MaxUnits \in Nat
      /\ Full(nu) \in Nat /\ Full(nu) * MaxUnits \in Nat
  BY MaxUnitsIs, PiecesAre
<1>2. ASSUME NEW p \in HeadPieces(nu)
      PROVE  \E n \in 0..Full(nu) - 1 :
                 p = [at |-> n * MaxUnits, indx |-> LastIndex]
  BY DEF HeadPieces
<1>3. ASSUME NEW p \in HeadPieces(nu)
      PROVE  /\ p.indx = LastIndex /\ p.at \in Nat
             /\ p.at + MaxUnits <= Full(nu) * MaxUnits
  <2>1. PICK n \in 0..Full(nu) - 1 : p = [at |-> n * MaxUnits, indx |-> LastIndex]
    BY <1>2
  <2>2. n \in Nat /\ n < Full(nu)
    BY <1>1
  <2>3. n * MaxUnits \in Nat /\ n * MaxUnits + MaxUnits <= Full(nu) * MaxUnits
    BY <1>1, <2>2, Multiples
  <2> QED BY <2>1, <2>3
<1>4. ASSUME NEW p \in HeadPieces(nu), NEW q \in HeadPieces(nu), p # q
      PROVE  p.at + MaxUnits <= q.at \/ q.at + MaxUnits <= p.at
  <2>1. PICK n \in 0..Full(nu) - 1 : p = [at |-> n * MaxUnits, indx |-> LastIndex]
    BY <1>2
  <2>2. PICK m \in 0..Full(nu) - 1 : q = [at |-> m * MaxUnits, indx |-> LastIndex]
    BY <1>2
  <2>3. n \in Nat /\ m \in Nat /\ n # m
    BY <1>1, <1>4, <2>1, <2>2
  <2>4. n < m \/ m < n
    BY <2>3
  <2>5. n * MaxUnits + MaxUnits <= m * MaxUnits \/ m * MaxUnits + MaxUnits <= n * MaxUnits
    BY <1>1, <2>3, <2>4, Multiples
  <2> QED BY <2>1, <2>2, <2>5
<1>5. ASSUME NEW k \in 0..Full(nu) * MaxUnits - 1
      PROVE  \E p \in HeadPieces(nu) : p.at <= k /\ k < p.at + MaxUnits
  <2> DEFINE n == k \div MaxUnits
  <2>1. k \in Nat /\ k < Full(nu) * MaxUnits
    BY <1>1
  <2>2. n \in Nat /\ n * MaxUnits <= k /\ k < n * MaxUnits + MaxUnits
    BY <1>1, <2>1, Division
  <2> HIDE DEF n
  <2>3. n < Full(nu)
    <3>1. SUFFICES ASSUME n >= Full(nu) PROVE FALSE
      BY <1>1, <2>2
    <3>2. Full(nu) * MaxUnits <= n * MaxUnits
      <4>1. CASE n = Full(nu)
        BY <1>1, <4>1
      <4>2. CASE n > Full(nu)
        <5>1. /\ Full(nu) * MaxUnits + MaxUnits <= n * MaxUnits
              /\ n * MaxUnits \in Nat
          BY <1>1, <2>2, <4>2, Multiples
        <5> QED BY <1>1, <5>1
      <4> QED BY <1>1, <2>2, <3>1, <4>1, <4>2
    <3>3. n * MaxUnits \in Nat
      BY <1>1, <2>2
    <3> QED BY <1>1, <2>1, <2>2, <3>2, <3>3
  <2>4. [at |-> n * MaxUnits, indx |-> LastIndex] \in HeadPieces(nu)
    BY <1>1, <2>2, <2>3 DEF HeadPieces
  <2> QED BY <2>2, <2>4
<1> QED BY <1>3, <1>4, <1>5

\* InsertUnits cuts a run into blocks of the sizes there are that cover all of
\* it and do not overlap.
LEMMA PiecesTile ==
    ASSUME NEW nu \in Nat \ {0}
    PROVE  /\ \A p \in Pieces(nu) :
                  /\ p.indx \in Indexes /\ p.at \in Nat
                  /\ p.at + I2U(p.indx) <= nu
           /\ \A p, q \in Pieces(nu) :
                  p # q => \/ p.at + I2U(p.indx) <= q.at
                           \/ q.at + I2U(q.indx) <= p.at
           /\ \A k \in 0..nu - 1 : \E p \in Pieces(nu) : Within(k, p)
<1> DEFINE border == Full(nu) * MaxUnits
           rest == Remainder(nu)
<1>1. /\ border \in Nat /\ rest \in Nat /\ nu = border + rest
      /\ Pieces(nu) = HeadPieces(nu) \cup TailPieces(nu)
  BY PiecesAre, MaxUnitsIs
<1>2. LastIndex \in Indexes /\ I2U(LastIndex) = MaxUnits /\ MaxUnits \in Nat
  BY LastIndexIs, MaxUnitsIs DEF MaxUnits
<1>3. /\ \A p \in HeadPieces(nu) :
             p.indx = LastIndex /\ p.at \in Nat /\ p.at + MaxUnits <= border
      /\ \A p, q \in HeadPieces(nu) :
             p # q => p.at + MaxUnits <= q.at \/ q.at + MaxUnits <= p.at
      /\ \A k \in 0..border - 1 : \E p \in HeadPieces(nu) :
             p.at <= k /\ k < p.at + MaxUnits
  BY HeadTiles
<1>4. /\ \A p \in TailPieces(nu) :
             /\ p.indx \in Indexes /\ p.at \in Nat /\ border <= p.at
             /\ p.at + I2U(p.indx) <= nu
      /\ \A p, q \in TailPieces(nu) :
             p # q => p.at + I2U(p.indx) <= q.at \/ q.at + I2U(q.indx) <= p.at
      /\ \A k \in border..nu - 1 : \E p \in TailPieces(nu) : Within(k, p)
  <2> HIDE DEF border, rest
  <2>1. CASE \E i \in Indexes :
                 TailPieces(nu) = {[at |-> border, indx |-> i]} /\ I2U(i) = rest
    <3>1. PICK i \in Indexes :
              TailPieces(nu) = {[at |-> border, indx |-> i]} /\ I2U(i) = rest
      BY <2>1
    <3> DEFINE p == [at |-> border, indx |-> i]
    <3>2. p \in TailPieces(nu) /\ p.at = border /\ p.indx = i /\ TailPieces(nu) = {p}
      BY <3>1
    <3> HIDE DEF p
    <3>3. \A k \in border..nu - 1 : Within(k, p)
      BY <1>1, <3>1, <3>2 DEF Within
    <3> QED BY <1>1, <3>1, <3>2, <3>3
  <2>2. CASE \E i, j \in Indexes :
                 /\ TailPieces(nu) = {[at |-> border, indx |-> i],
                                      [at |-> border + I2U(i), indx |-> j]}
                 /\ I2U(i) + I2U(j) = rest
    <3>1. PICK i \in Indexes, j \in Indexes :
              /\ TailPieces(nu) = {[at |-> border, indx |-> i],
                                   [at |-> border + I2U(i), indx |-> j]}
              /\ I2U(i) + I2U(j) = rest
      BY <2>2
    <3>2. I2U(i) \in Nat /\ I2U(j) \in Nat
      BY SizesGrow
    <3>3. /\ \A p \in TailPieces(nu) :
                 /\ p.indx \in Indexes /\ p.at \in Nat /\ border <= p.at
                 /\ p.at + I2U(p.indx) <= nu
      BY <1>1, <3>1, <3>2
    <3>4. \A p, q \in TailPieces(nu) :
             p # q => p.at + I2U(p.indx) <= q.at \/ q.at + I2U(q.indx) <= p.at
      BY <1>1, <3>1, <3>2
    <3>5. ASSUME NEW k \in border..nu - 1
          PROVE  \E p \in TailPieces(nu) : Within(k, p)
      <4> DEFINE p == [at |-> border, indx |-> i]
                 q == [at |-> border + I2U(i), indx |-> j]
      <4>1. /\ p \in TailPieces(nu) /\ q \in TailPieces(nu)
            /\ p.at = border /\ p.indx = i
            /\ q.at = border + I2U(i) /\ q.indx = j
        BY <3>1
      <4> HIDE DEF p, q
      <4>2. k \in Int /\ border <= k /\ k < (border + I2U(i)) + I2U(j)
        BY <1>1, <3>1, <3>2
      <4>3. Within(k, p) \/ Within(k, q)
        BY <1>1, <3>2, <4>1, <4>2 DEF Within
      <4> QED BY <4>1, <4>3
    <3> QED BY <3>3, <3>4, <3>5
  <2> QED BY <2>1, <2>2, TailIs DEF border, rest
<1> HIDE DEF border, rest
<1>5. ASSUME NEW p \in Pieces(nu)
      PROVE  p.indx \in Indexes /\ p.at \in Nat /\ p.at + I2U(p.indx) <= nu
  <2>1. CASE p \in HeadPieces(nu)
    BY <1>1, <1>2, <1>3, <2>1
  <2>2. CASE p \in TailPieces(nu)
    BY <1>4, <2>2
  <2> QED BY <1>1, <2>1, <2>2
<1>6. ASSUME NEW p \in Pieces(nu), NEW q \in Pieces(nu), p # q
      PROVE  p.at + I2U(p.indx) <= q.at \/ q.at + I2U(q.indx) <= p.at
  <2>1. CASE p \in HeadPieces(nu) /\ q \in HeadPieces(nu)
    BY <1>2, <1>3, <1>6, <2>1
  <2>2. CASE p \in TailPieces(nu) /\ q \in TailPieces(nu)
    BY <1>4, <1>6, <2>2
  <2>3. CASE p \in HeadPieces(nu) /\ q \in TailPieces(nu)
    BY <1>1, <1>2, <1>3, <1>4, <2>3
  <2>4. CASE p \in TailPieces(nu) /\ q \in HeadPieces(nu)
    BY <1>1, <1>2, <1>3, <1>4, <2>4
  <2> QED BY <1>1, <2>1, <2>2, <2>3, <2>4
<1>7. ASSUME NEW k \in 0..nu - 1 PROVE \E p \in Pieces(nu) : Within(k, p)
  <2>1. CASE k < border
    <3>1. k \in 0..border - 1
      BY <1>1, <2>1
    <3>2. PICK p \in HeadPieces(nu) : p.at <= k /\ k < p.at + MaxUnits
      BY <1>3, <3>1
    <3> QED BY <1>1, <1>2, <1>3, <3>2 DEF Within
  <2>2. CASE k >= border
    <3>1. k \in border..nu - 1
      BY <1>1, <2>2
    <3>2. PICK p \in TailPieces(nu) : Within(k, p)
      BY <1>4, <3>1
    <3> QED BY <1>1, <3>2
  <2> QED BY <1>1, <2>1, <2>2
<1> QED BY <1>5, <1>6, <1>7

\* A larger index is not a smaller size.
LEMMA SizesOrder ==
    ASSUME NEW i \in Indexes, NEW j \in Indexes, I2U(i) < I2U(j) PROVE i < j
<1>1. i \in Nat /\ j \in Nat /\ I2U(i) \in Nat /\ I2U(j) \in Nat
  BY SizesGrow, LastIndexIs
<1>2. i # j
  BY <1>1
<1>3. ~(j < i)
  BY <1>1, SizesGrow
<1> QED BY <1>1, <1>2, <1>3

\* A run that would hold a block of some size is not cut into smaller ones only.
LEMMA RunHasPiece ==
    ASSUME NEW nu \in Nat \ {0}, NEW indx \in Indexes, I2U(indx) <= nu
    PROVE  \E p \in Pieces(nu) : p.indx \in Indexes /\ indx <= p.indx
<1>1. /\ Pieces(nu) = HeadPieces(nu) \cup TailPieces(nu)
      /\ Full(nu) \in Nat /\ Remainder(nu) \in 1..MaxUnits
      /\ nu = Full(nu) * MaxUnits + Remainder(nu)
  BY PiecesAre
<1>2. indx \in Nat /\ LastIndex \in Indexes /\ indx <= LastIndex /\ MaxUnits \in Nat
  BY LastIndexIs, MaxUnitsIs
<1>3. CASE Full(nu) # 0
  <2> DEFINE p == [at |-> 0 * MaxUnits, indx |-> LastIndex]
  <2>1. 0 \in 0..Full(nu) - 1
    BY <1>1, <1>3
  <2>2. p \in HeadPieces(nu)
    BY <2>1 DEF HeadPieces
  <2> QED BY <1>1, <1>2, <2>2
<1>4. CASE Full(nu) = 0
  <2> DEFINE i == U2I(nu)
  <2>1. 0 * MaxUnits = 0 /\ Full(nu) * MaxUnits = 0
    BY <1>2, <1>4
  <2>2. Remainder(nu) = nu /\ nu \in 1..MaxUnits
    BY <1>1, <1>2, <2>1
  <2>3. i \in Indexes /\ I2U(i) >= nu
    BY <2>2, SmallestSize
  <2>4. i \in Nat /\ I2U(i) \in Nat /\ I2U(indx) \in Nat
    BY <2>3, LastIndexIs, SizesGrow
  <2>5. CASE I2U(i) = nu
    <3> DEFINE p == [at |-> Full(nu) * MaxUnits, indx |-> i]
    <3>1. p \in TailPieces(nu)
      BY <2>2, <2>5 DEF TailPieces
    <3> HIDE DEF i
    <3>2. indx <= i
      <4>1. ~(i < indx)
        BY <2>3, <2>4, <2>5, SizesGrow
      <4> QED BY <1>2, <2>4, <4>1
    <3> QED BY <1>1, <2>3, <3>1, <3>2
  <2>6. CASE I2U(i) # nu
    <3> DEFINE p == [at |-> Full(nu) * MaxUnits, indx |-> i - 1]
    <3>1. p \in TailPieces(nu)
      BY <2>2, <2>6 DEF TailPieces
    <3> HIDE DEF i
    <3>2. I2U(indx) < I2U(i)
      BY <2>3, <2>4, <2>6
    <3>3. indx < i
      BY <2>3, <3>2, SizesOrder
    <3>4. i <= LastIndex /\ LastIndex \in Nat
      BY <2>3, LastIndexIs
    <3>5. i - 1 \in Nat /\ i - 1 <= LastIndex /\ indx <= i - 1
      BY <1>2, <2>4, <3>3, <3>4
    <3>6. i - 1 \in Indexes
      BY <3>5, LastIndexIs
    <3> QED BY <1>1, <3>1, <3>5, <3>6
  <2> QED BY <2>5, <2>6
<1> QED BY <1>3, <1>4

-------------------------------------------------------------------------------
(***************************************************************************)
(* Lists of blocks, one for each index: the free lists and the states.     *)
(***************************************************************************)

Families == [Indexes -> SUBSET Int]

\* The units in the lists.
Covered(lists) ==
    UNION {UNION {Units(at, I2U(i)) : at \in lists[i]} : i \in Indexes}

\* No unit is in two blocks of the lists.
ListsApart(lists) ==
    \A i, j \in Indexes : \A a \in lists[i], b \in lists[j] :
        <<i, a>> # <<j, b>> => Units(a, I2U(i)) \cap Units(b, I2U(j)) = {}

Joined(lists, more) == [i \in Indexes |-> lists[i] \cup more[i]]

Single(i, at) == [j \in Indexes |-> IF j = i THEN {at} ELSE {}]

\* Which units are in the blocks of a family of lists.
LEMMA CoveredBy ==
    ASSUME NEW lists, NEW x
    PROVE  x \in Covered(lists) <=>
               \E i \in Indexes : \E at \in lists[i] : x \in Units(at, I2U(i))
  BY DEF Covered

\* Putting the nodes of two families of lists together, when they share no unit,
\* covers what both cover, each unit once.
LEMMA ListsJoin ==
    ASSUME NEW lists \in Families, NEW more \in Families
    PROVE  /\ Joined(lists, more) \in Families
           /\ Covered(Joined(lists, more)) = Covered(lists) \cup Covered(more)
           /\ ListsApart(lists) /\ ListsApart(more)
              /\ Covered(lists) \cap Covered(more) = {}
              => ListsApart(Joined(lists, more))
<1>1. Joined(lists, more) \in Families
  BY DEF Joined, Families
<1>2. \A i \in Indexes : Joined(lists, more)[i] = lists[i] \cup more[i]
  BY DEF Joined
<1> DEFINE both == Joined(lists, more)
<1> HIDE DEF both
<1>3. ASSUME NEW x PROVE x \in Covered(both) <=> x \in Covered(lists) \/ x \in Covered(more)
  BY <1>2, CoveredBy DEF both
<1>4. ASSUME ListsApart(lists), ListsApart(more), Covered(lists) \cap Covered(more) = {},
             NEW i \in Indexes, NEW j \in Indexes, NEW a \in both[i], NEW b \in both[j],
             <<i, a>> # <<j, b>>
      PROVE  Units(a, I2U(i)) \cap Units(b, I2U(j)) = {}
  <2>1. CASE a \in lists[i] /\ b \in lists[j]
    BY <1>4, <2>1 DEF ListsApart
  <2>2. CASE a \in more[i] /\ b \in more[j]
    BY <1>4, <2>2 DEF ListsApart
  <2>3. CASE a \in lists[i] /\ b \in more[j]
    <3>1. Units(a, I2U(i)) \subseteq Covered(lists)
      BY <2>3 DEF Covered
    <3>2. Units(b, I2U(j)) \subseteq Covered(more)
      BY <2>3 DEF Covered
    <3> QED BY <1>4, <3>1, <3>2
  <2>4. CASE a \in more[i] /\ b \in lists[j]
    <3>1. Units(a, I2U(i)) \subseteq Covered(more)
      BY <2>4 DEF Covered
    <3>2. Units(b, I2U(j)) \subseteq Covered(lists)
      BY <2>4 DEF Covered
    <3> QED BY <1>4, <3>1, <3>2
  <2> QED BY <1>2, <2>1, <2>2, <2>3, <2>4 DEF both
<1> QED BY <1>1, <1>3, <1>4 DEF both, ListsApart

\* A family with one block covers the units of that block.
LEMMA SingleIs ==
    ASSUME NEW i \in Indexes, NEW at \in Int
    PROVE  /\ Single(i, at) \in Families /\ ListsApart(Single(i, at))
           /\ Covered(Single(i, at)) = Units(at, I2U(i))
<1>1. \A j \in Indexes : Single(i, at)[j] = IF j = i THEN {at} ELSE {}
  BY DEF Single
<1>2. Single(i, at) \in Families
  BY DEF Single, Families
<1>3. ASSUME NEW x PROVE x \in Covered(Single(i, at)) <=> x \in Units(at, I2U(i))
  BY <1>1, CoveredBy
<1>4. ListsApart(Single(i, at))
  BY <1>1 DEF ListsApart
<1> QED BY <1>2, <1>3, <1>4

\* A block taken out of the lists takes its units with it.
LEMMA ListsRemove ==
    ASSUME NEW lists \in Families, ListsApart(lists),
           NEW i \in Indexes, NEW at \in lists[i]
    PROVE  LET less == [lists EXCEPT ![i] = @ \ {at}] IN
           /\ less \in Families /\ ListsApart(less)
           /\ Covered(less) = Covered(lists) \ Units(at, I2U(i))
           /\ Units(at, I2U(i)) \subseteq Covered(lists)
<1> DEFINE less == [lists EXCEPT ![i] = @ \ {at}]
<1>1. \A j \in Indexes : less[j] = IF j = i THEN lists[i] \ {at} ELSE lists[j]
  BY DEF Families
<1>2. less \in Families
  BY DEF Families
<1> HIDE DEF less
<1>3. \A j \in Indexes : \A b \in less[j] : b \in lists[j] /\ <<i, at>> # <<j, b>>
  BY <1>1
<1>4. ListsApart(less)
  BY <1>3 DEF ListsApart
<1>5. Units(at, I2U(i)) \subseteq Covered(lists)
  BY DEF Covered
<1>6. ASSUME NEW x \in Covered(less)
      PROVE  x \in Covered(lists) /\ x \notin Units(at, I2U(i))
  <2>1. PICK j \in Indexes : \E b \in less[j] : x \in Units(b, I2U(j))
    BY <1>6, CoveredBy
  <2>2. PICK b \in less[j] : x \in Units(b, I2U(j))
    BY <2>1
  <2>3. b \in lists[j] /\ <<i, at>> # <<j, b>>
    BY <1>3
  <2>4. Units(at, I2U(i)) \cap Units(b, I2U(j)) = {}
    BY <2>3 DEF ListsApart
  <2> QED BY <2>2, <2>3, <2>4, CoveredBy
<1>7. ASSUME NEW x \in Covered(lists), x \notin Units(at, I2U(i))
      PROVE  x \in Covered(less)
  <2>1. PICK j \in Indexes : \E b \in lists[j] : x \in Units(b, I2U(j))
    BY <1>7, CoveredBy
  <2>2. PICK b \in lists[j] : x \in Units(b, I2U(j))
    BY <2>1
  <2>3. <<i, at>> # <<j, b>>
    BY <1>7, <2>2
  <2>4. b \in less[j]
    BY <1>1, <2>3
  <2> QED BY <2>2, <2>4, CoveredBy
<1> QED BY <1>2, <1>4, <1>5, <1>6, <1>7 DEF less

\* The units of a block that begins `at` units behind ptr.
LEMMA UnitsWithin ==
    ASSUME NEW ptr \in Int, NEW at \in Nat, NEW n \in Nat, NEW x
    PROVE  x \in Units(ptr + U2B(at), n) <=> \E k \in at..at + n - 1 : x = ptr + U2B(k)
<1>1. ASSUME x \in Units(ptr + U2B(at), n)
      PROVE  \E k \in at..at + n - 1 : x = ptr + U2B(k)
  <2>1. PICK k \in 0..n - 1 : x = (ptr + U2B(at)) + U2B(k)
    BY <1>1 DEF Units
  <2>2. at \in Int /\ k \in Int
    OBVIOUS
  <2>3. U2B(at + k) = U2B(at) + U2B(k)
    BY <2>2, BytesOfUnits
  <2>4. U2B(at) \in Int /\ U2B(k) \in Int
    BY <2>2, BytesOfUnits
  <2>5. x = ptr + U2B(at + k) /\ at + k \in at..at + n - 1
    BY <2>1, <2>3, <2>4
  <2> QED BY <2>5
<1>2. ASSUME NEW k \in at..at + n - 1, x = ptr + U2B(k)
      PROVE  x \in Units(ptr + U2B(at), n)
  <2> DEFINE d == k - at
  <2>1. d \in 0..n - 1 /\ d \in Int /\ at \in Int /\ k = at + d
    OBVIOUS
  <2> HIDE DEF d
  <2>2. U2B(at + d) = U2B(at) + U2B(d)
    BY <2>1, BytesOfUnits
  <2>3. U2B(at) \in Int /\ U2B(d) \in Int
    BY <2>1, BytesOfUnits
  <2>4. x = (ptr + U2B(at)) + U2B(d)
    BY <1>2, <2>1, <2>2, <2>3
  <2> QED BY <2>1, <2>4 DEF Units
<1> QED BY <1>1, <1>2

\* Distinct units of a run have distinct addresses.
LEMMA SameUnit ==
    ASSUME NEW ptr \in Int, NEW k \in Int, NEW j \in Int, ptr + U2B(k) = ptr + U2B(j)
    PROVE  k = j
<1> DEFINE a == U2B(k)
           b == U2B(j)
<1>1. ptr + a = ptr + b /\ a \in Int /\ b \in Int
  BY BytesOfUnits
<1> HIDE DEF a, b
<1>2. a = b
  BY <1>1
<1> QED BY <1>2, BytesOfUnits DEF a, b

-------------------------------------------------------------------------------
(***************************************************************************)
(* Runs of units put into the lists.                                       *)
(***************************************************************************)

\* A run, cut by InsertUnits.
NodesLists(ptr, nu) == [i \in Indexes |-> NodesOf(ptr, nu, i)]

\* The nodes a run of nu units is cut into (SplitBlock, GlueFreeBlocks) cover
\* the run, each unit once.
LEMMA NodesTile ==
    ASSUME NEW ptr \in Int, NEW nu \in Nat \ {0}
    PROVE  /\ NodesLists(ptr, nu) \in Families
           /\ ListsApart(NodesLists(ptr, nu))
           /\ Covered(NodesLists(ptr, nu)) = Units(ptr, nu)
<1> DEFINE L == NodesLists(ptr, nu)
<1>1. \A i \in Indexes : L[i] = {ptr + U2B(p.at) : p \in {q \in Pieces(nu) : q.indx = i}}
  BY DEF NodesLists, NodesOf
<1>2. \A p \in Pieces(nu) :
          /\ p.indx \in Indexes /\ p.at \in Nat /\ p.at + I2U(p.indx) <= nu
          /\ I2U(p.indx) \in Nat
  BY PiecesTile, SizesGrow
<1>3. L \in Families
  <2>1. ASSUME NEW p \in Pieces(nu) PROVE ptr + U2B(p.at) \in Int
    <3>1. p.at \in Int
      BY <1>2
    <3>2. U2B(p.at) \in Int
      BY <3>1, BytesOfUnits
    <3> QED BY <3>2
  <2> QED BY <1>1, <2>1 DEF NodesLists, NodesOf, Families
<1> HIDE DEF L
<1>4. ASSUME NEW i \in Indexes, NEW a \in L[i]
      PROVE  \E p \in Pieces(nu) : p.indx = i /\ a = ptr + U2B(p.at)
  BY <1>1
<1>5. ASSUME NEW i \in Indexes, NEW j \in Indexes, NEW a \in L[i], NEW b \in L[j],
             <<i, a>> # <<j, b>>, NEW x \in Units(a, I2U(i)), x \in Units(b, I2U(j))
      PROVE  FALSE
  <2>1. PICK p \in Pieces(nu) : p.indx = i /\ a = ptr + U2B(p.at)
    BY <1>4
  <2>2. PICK q \in Pieces(nu) : q.indx = j /\ b = ptr + U2B(q.at)
    BY <1>4
  <2>3. PICK k \in p.at..p.at + I2U(i) - 1 : x = ptr + U2B(k)
    <3>1. p.at \in Nat /\ I2U(i) \in Nat /\ x \in Units(ptr + U2B(p.at), I2U(i))
      BY <1>2, <1>5, <2>1
    <3> QED BY <3>1, UnitsWithin
  <2>4. PICK l \in q.at..q.at + I2U(j) - 1 : x = ptr + U2B(l)
    <3>1. q.at \in Nat /\ I2U(j) \in Nat /\ x \in Units(ptr + U2B(q.at), I2U(j))
      BY <1>2, <1>5, <2>2
    <3> QED BY <3>1, UnitsWithin
  <2>5. p.at \in Int /\ q.at \in Int /\ I2U(i) \in Int /\ I2U(j) \in Int
    BY <1>2, SizesGrow
  <2>6. k \in Int /\ l \in Int /\ k = l
    BY <2>3, <2>4, <2>5, SameUnit
  <2>7. p # q
    BY <1>5, <2>1, <2>2
  <2>8. p.at + I2U(i) <= q.at \/ q.at + I2U(j) <= p.at
    BY <2>1, <2>2, <2>7, PiecesTile
  <2> QED BY <2>3, <2>4, <2>5, <2>6, <2>8
<1>6. ListsApart(L)
  BY <1>5 DEF ListsApart
<1>7. ASSUME NEW x \in Covered(L) PROVE x \in Units(ptr, nu)
  <2>1. PICK i \in Indexes : \E a \in L[i] : x \in Units(a, I2U(i))
    BY CoveredBy
  <2>2. PICK a \in L[i] : x \in Units(a, I2U(i))
    BY <2>1
  <2>3. PICK p \in Pieces(nu) : p.indx = i /\ a = ptr + U2B(p.at)
    BY <1>4
  <2>4. PICK k \in p.at..p.at + I2U(i) - 1 : x = ptr + U2B(k)
    BY <1>2, <2>2, <2>3, UnitsWithin
  <2>5. k \in 0..nu - 1
    BY <1>2, <2>3
  <2> QED BY <2>4, <2>5 DEF Units
<1>8. ASSUME NEW x \in Units(ptr, nu) PROVE x \in Covered(L)
  <2>1. PICK k \in 0..nu - 1 : x = ptr + U2B(k)
    BY DEF Units
  <2>2. PICK p \in Pieces(nu) : Within(k, p)
    BY PiecesTile
  <2>3. p.indx \in Indexes /\ p.at \in Nat /\ I2U(p.indx) \in Nat
    BY <1>2
  <2>4. k \in p.at..p.at + I2U(p.indx) - 1
    BY <2>2, <2>3 DEF Within
  <2>5. x \in Units(ptr + U2B(p.at), I2U(p.indx))
    BY <2>1, <2>3, <2>4, UnitsWithin
  <2>6. ptr + U2B(p.at) \in L[p.indx]
    BY <1>1, <2>3
  <2> QED BY <2>3, <2>5, <2>6, CoveredBy
<1> QED BY <1>3, <1>6, <1>7, <1>8 DEF L

\* Several runs, each cut by InsertUnits.
RunsLists(starts, extent) ==
    [i \in Indexes |-> UNION {NodesOf(a, extent[a], i) : a \in starts}]

\* The same for several runs that share no unit: what GlueFreeBlocks puts
\* back into the lists is what it took from them.
LEMMA RunsTile ==
    ASSUME NEW starts \in SUBSET Int, NEW extent \in [starts -> Nat \ {0}],
           \A a, b \in starts :
               a # b => Units(a, extent[a]) \cap Units(b, extent[b]) = {}
    PROVE  /\ RunsLists(starts, extent) \in Families
           /\ ListsApart(RunsLists(starts, extent))
           /\ Covered(RunsLists(starts, extent)) =
                  UNION {Units(a, extent[a]) : a \in starts}
<1> DEFINE L == RunsLists(starts, extent)
           N(a) == NodesLists(a, extent[a])
<1>1. \A i \in Indexes : L[i] = UNION {N(a)[i] : a \in starts}
  BY DEF RunsLists, NodesLists
<1>2. ASSUME NEW a \in starts
      PROVE  /\ N(a) \in Families /\ ListsApart(N(a))
             /\ Covered(N(a)) = Units(a, extent[a])
  <2>1. a \in Int /\ extent[a] \in Nat \ {0}
    OBVIOUS
  <2> QED BY <2>1, NodesTile
<1>3. L \in Families
  <2>1. ASSUME NEW i \in Indexes PROVE L[i] \subseteq Int
    <3>1. ASSUME NEW a \in starts PROVE N(a)[i] \subseteq Int
      BY <1>2 DEF Families
    <3> QED BY <1>1, <3>1
  <2>2. L = [i \in Indexes |-> L[i]]
    BY DEF RunsLists
  <2> QED BY <2>1, <2>2 DEF Families
<1> HIDE DEF L, N
<1>4. ASSUME NEW i \in Indexes, NEW j \in Indexes, NEW p \in L[i], NEW q \in L[j],
             <<i, p>> # <<j, q>>
      PROVE  Units(p, I2U(i)) \cap Units(q, I2U(j)) = {}
  <2>1. PICK a \in starts : p \in N(a)[i]
    BY <1>1
  <2>2. PICK b \in starts : q \in N(b)[j]
    BY <1>1
  <2>3. CASE a = b
    BY <1>2, <1>4, <2>1, <2>2, <2>3 DEF ListsApart
  <2>4. CASE a # b
    <3>1. Units(p, I2U(i)) \subseteq Covered(N(a))
      BY <2>1 DEF Covered
    <3>2. Units(q, I2U(j)) \subseteq Covered(N(b))
      BY <2>2 DEF Covered
    <3>3. Covered(N(a)) \cap Covered(N(b)) = {}
      BY <1>2, <2>4
    <3> QED BY <3>1, <3>2, <3>3
  <2> QED BY <2>3, <2>4
<1>5. ASSUME NEW x
      PROVE  x \in Covered(L) <=> \E a \in starts : x \in Covered(N(a))
  <2>1. x \in Covered(L) <=>
            \E i \in Indexes : \E p \in L[i] : x \in Units(p, I2U(i))
    BY CoveredBy
  <2>2. \A a : x \in Covered(N(a)) <=>
            \E i \in Indexes : \E p \in N(a)[i] : x \in Units(p, I2U(i))
    BY CoveredBy
  <2> QED BY <1>1, <2>1, <2>2
<1>6. Covered(L) = UNION {Units(a, extent[a]) : a \in starts}
  BY <1>2, <1>5
<1> QED BY <1>3, <1>4, <1>6 DEF L, ListsApart

-------------------------------------------------------------------------------
(***************************************************************************)
(* The arena of an allocator, which is a record with a field FreeList and  *)
(* three addresses: units go from UnitsStart to the end of the arena, and  *)
(* between LoUnit and HiUnit is a gap nothing has been taken from yet.     *)
(***************************************************************************)

ArenaSize(h) == (ArenaEnd - h.UnitsStart) \div UNIT_SIZE
Arena(h) == Units(h.UnitsStart, ArenaSize(h))

GapSize(h) == (h.HiUnit - h.LoUnit) \div UNIT_SIZE
GapUnits(h) == Units(h.LoUnit, GapSize(h))

\* What can still be handed out.
Space(h) == Covered(h.FreeList) \cup GapUnits(h)

\* U2B and the division by UNIT_SIZE cancel out.
LEMMA WholeUnits ==
    ASSUME NEW n \in Nat PROVE U2B(n) \div UNIT_SIZE = n
<1>1. UNIT_SIZE \in Nat \ {0} /\ UNIT_SIZE \in Nat /\ n * UNIT_SIZE \in Nat
  BY SizesAssumption
<1> DEFINE q == (n * UNIT_SIZE) \div UNIT_SIZE
<1>2. q \in Nat /\ q * UNIT_SIZE <= n * UNIT_SIZE /\ n * UNIT_SIZE < q * UNIT_SIZE + UNIT_SIZE
  BY <1>1, Division
<1> HIDE DEF q
<1>3. ~(q < n)
  <2>1. q < n => /\ q * UNIT_SIZE \in Nat /\ n * UNIT_SIZE \in Nat
                 /\ q * UNIT_SIZE + UNIT_SIZE <= n * UNIT_SIZE
    BY <1>1, <1>2, Multiples
  <2> QED BY <1>1, <1>2, <2>1
<1>4. ~(n < q)
  <2>1. n < q => /\ q * UNIT_SIZE \in Nat /\ n * UNIT_SIZE \in Nat
                 /\ n * UNIT_SIZE + UNIT_SIZE <= q * UNIT_SIZE
    BY <1>1, <1>2, Multiples
  <2> QED BY <1>1, <1>2, <2>1
<1>5. q = n
  BY <1>2, <1>3, <1>4
<1> QED BY <1>5 DEF q, U2B

\* The units of a run lie between its ends.
LEMMA UnitsBetween ==
    ASSUME NEW at \in Int, NEW n \in Nat, NEW x \in Units(at, n)
    PROVE  x \in Int /\ at <= x /\ x + UNIT_SIZE <= at + U2B(n)
<1>1. PICK k \in 0..n - 1 : x = at + U2B(k)
  BY DEF Units
<1>2. k \in Nat /\ k \in Int /\ n \in Int /\ k < n
  OBVIOUS
<1>3. U2B(k) \in Nat /\ U2B(n) \in Int /\ U2B(k) + UNIT_SIZE <= U2B(n)
  BY <1>2, BytesOfUnits
<1>4. UNIT_SIZE \in Nat
  BY UnitSizeIs
<1> QED BY <1>1, <1>3, <1>4

\* The arena ends at an address, and begins behind NULL.
LEMMA ArenaEndIs == ArenaEnd \in Nat /\ AlignOffset \in Nat \ {0}
  BY SizesAssumption DEF ArenaEnd

\* The nodes of a list are units of their blocks.
LEMMA NodesAreUnits ==
    ASSUME NEW lists \in Families, NEW i \in Indexes, NEW at \in lists[i]
    PROVE  at \in Int /\ at \in Covered(lists) /\ Units(at, I2U(i)) \subseteq Covered(lists)
<1>1. at \in Int /\ I2U(i) \in Nat \ {0}
  BY SizesGrow DEF Families
<1>2. at \in Units(at, I2U(i))
  BY <1>1, FirstOfUnits
<1> QED BY <1>1, <1>2 DEF Covered

-------------------------------------------------------------------------------
(***************************************************************************)
(* Gluing: runs of free units are found from the nodes that are kept.      *)
(***************************************************************************)

\* n units from node, the run ends: another node is kept, or a unit is not free.
RunEnds(node, kept, units, n) ==
    node + U2B(n) \in kept \/ node + U2B(n) \notin units

\* The run of a kept node goes on over free units that are not kept, and ends.
AreRuns(units, kept, extent) ==
    \A x \in kept :
        /\ RunEnds(x, kept, units, extent[x])
        /\ \A m \in 1..extent[x] - 1 : x + U2B(m) \in units \ kept

\* A run ends before the next node kept, so no two runs have a unit in common.
LEMMA RunsApart ==
    ASSUME NEW units \in SUBSET Int, NEW kept \in SUBSET units,
           NEW extent \in [kept -> Nat \ {0}], AreRuns(units, kept, extent),
           NEW a \in kept, NEW b \in kept, a # b
    PROVE  Units(a, extent[a]) \cap Units(b, extent[b]) = {}
<1>1. \A node \in kept :
          /\ node \in Int /\ extent[node] \in Nat \ {0}
          /\ \A m \in 1..extent[node] - 1 : node + U2B(m) \notin kept
  BY DEF AreRuns
<1>2. ASSUME NEW p \in kept, NEW q \in kept, p # q,
             NEW j \in 0..extent[p] - 1,
             NEW k \in 0..extent[q] - 1,
             j >= k, p + U2B(j) = q + U2B(k)
      PROVE  FALSE
  <2> DEFINE d == j - k
             x == U2B(k)
             y == U2B(d)
  <2>1. p \in Int /\ q \in Int /\ extent[p] \in Nat \ {0}
        /\ extent[q] \in Nat \ {0}
    BY <1>1
  <2>2. d \in Nat /\ d \in Int /\ k \in Int /\ j = d + k /\ d <= extent[p] - 1
    BY <1>2, <2>1
  <2> HIDE DEF d
  <2>3. U2B(d + k) = y + x /\ y \in Int /\ x \in Int
    BY <2>2, BytesOfUnits
  <2> HIDE DEF x, y
  <2>4. p + (y + x) = q + x
    BY <1>2, <2>2, <2>3 DEF x
  <2>5. p + y = q
    BY <2>1, <2>3, <2>4
  <2>6. CASE d = 0
    <3>1. y = 0
      BY <2>6, BytesOfUnits DEF y
    <3> QED BY <1>2, <2>1, <2>5, <3>1
  <2>7. CASE d # 0
    <3>1. d \in 1..extent[p] - 1
      BY <2>1, <2>2, <2>7
    <3>2. p + U2B(d) \notin kept
      BY <1>1, <3>1
    <3> QED BY <1>2, <2>5, <3>2 DEF y
  <2> QED BY <2>6, <2>7
<1>3. ASSUME NEW x \in Units(a, extent[a]),
             x \in Units(b, extent[b])
      PROVE  FALSE
  <2>1. PICK j \in 0..extent[a] - 1 : x = a + U2B(j)
    BY DEF Units
  <2>2. PICK k \in 0..extent[b] - 1 : x = b + U2B(k)
    BY <1>3 DEF Units
  <2>3. j \in Int /\ k \in Int
    BY <1>1
  <2>4. CASE j >= k
    BY <1>2, <2>1, <2>2, <2>4
  <2>5. CASE k >= j
    BY <1>2, <2>1, <2>2, <2>5
  <2> QED BY <2>3, <2>4, <2>5
<1> QED BY <1>3

\* The unit that is j units before u.
Before(u, j) == u - U2B(j)

\* Going back from a free unit, unit by unit.
LEMMA BeforeIs ==
    ASSUME NEW u \in Int
    PROVE  /\ Before(u, 0) = u
           /\ \A j \in Nat : Before(u, j) \in Int /\ Before(u, j) <= u - j
           /\ \A j, k \in Nat : k <= j => Before(u, j) + U2B(k) = Before(u, j - k)
           /\ \A j \in Nat : Before(u, j) - UNIT_SIZE = Before(u, j + 1)
<1>1. Before(u, 0) = u
  BY BytesOfUnits DEF Before
<1>2. ASSUME NEW j \in Nat PROVE Before(u, j) \in Int /\ Before(u, j) <= u - j
  <2>1. U2B(j) \in Nat /\ j <= U2B(j)
    BY BytesOfUnits
  <2> QED BY <2>1 DEF Before
<1>3. ASSUME NEW j \in Nat, NEW k \in Nat, k <= j
      PROVE  Before(u, j) + U2B(k) = Before(u, j - k)
  <2> DEFINE d == j - k
  <2>1. d \in Int /\ k \in Int /\ d + k = j
    OBVIOUS
  <2> HIDE DEF d
  <2>2. U2B(d + k) = U2B(d) + U2B(k) /\ U2B(d) \in Int /\ U2B(k) \in Int
    BY <2>1, BytesOfUnits
  <2>3. Before(u, j) + U2B(k) = Before(u, d)
    BY <2>1, <2>2 DEF Before
  <2> QED BY <2>3 DEF d
<1>4. ASSUME NEW j \in Nat PROVE Before(u, j) - UNIT_SIZE = Before(u, j + 1)
  <2>1. U2B(j + 1) = U2B(j) + U2B(1) /\ U2B(1) = UNIT_SIZE /\ U2B(j) \in Int
        /\ UNIT_SIZE \in Int
    <3>1. j \in Int /\ 1 \in Int
      OBVIOUS
    <3> QED BY <3>1, BytesOfUnits, UnitSizeIs
  <2> QED BY <2>1 DEF Before
<1> QED BY <1>1, <1>2, <1>3, <1>4

\* Behind every free unit the free units go on without a hole down to one that
\* begins a block and has no free unit before it.
LEMMA RunBegins ==
    ASSUME NEW lists \in Families, Covered(lists) \subseteq AlignOffset..ArenaEnd - 1,
           NEW u \in Covered(lists)
    PROVE  \E d \in Nat :
               /\ \E i \in Indexes : Before(u, d) \in lists[i]
               /\ Before(u, d) - UNIT_SIZE \notin Covered(lists)
               /\ \A j \in 0..d : Before(u, j) \in Covered(lists)
<1> DEFINE units == Covered(lists)
           Holes == {j \in Nat : Before(u, j) \notin units}
<1> HIDE DEF units
<1>1. AlignOffset \in Nat /\ ArenaEnd \in Nat /\ u \in Nat
      /\ \A x \in units : x \in Int /\ x >= AlignOffset
  BY ArenaEndIs DEF units
<1>2. u + 1 \in Holes
  <2>1. Before(u, u + 1) \in Int /\ Before(u, u + 1) <= u - (u + 1)
    BY <1>1, BeforeIs
  <2>2. Before(u, u + 1) < 0
    BY <1>1, <2>1
  <2>3. Before(u, u + 1) \notin units
    BY <1>1, <2>1, <2>2
  <2> QED BY <1>1, <2>3
<1>3. PICK least \in Holes : \A k \in Holes : least <= k
  BY <1>2, LeastNumber
<1>4. least # 0
  BY <1>1, BeforeIs DEF units
<1> DEFINE d == least - 1
<1>5. d \in Nat /\ least = d + 1
  BY <1>3, <1>4
<1>6. Before(u, d + 1) \notin units
  BY <1>3, <1>5
<1>7. ASSUME NEW j \in 0..d PROVE Before(u, j) \in units
  <2>1. j \in Nat /\ ~(least <= j)
    BY <1>5
  <2> QED BY <1>3, <2>1
<1> HIDE DEF d, Holes
<1>8. Before(u, d) - UNIT_SIZE \notin units
  BY <1>1, <1>5, <1>6, BeforeIs
<1>9. Before(u, d) \in units
  BY <1>5, <1>7
<1>10. PICK i \in Indexes : \E at \in lists[i] : Before(u, d) \in Units(at, I2U(i))
  BY <1>9, CoveredBy DEF units
<1>11. PICK at \in lists[i] : Before(u, d) \in Units(at, I2U(i))
  BY <1>10
<1>12. Before(u, d) = at
  <2>1. PICK k \in 0..I2U(i) - 1 : Before(u, d) = at + U2B(k)
    BY <1>11 DEF Units
  <2>2. I2U(i) \in Nat /\ k \in Nat /\ at \in Int
    BY SizesGrow DEF Families
  <2>3. k = 0
    <3>1. SUFFICES ASSUME k # 0 PROVE FALSE
      OBVIOUS
    <3> DEFINE m == k - 1
    <3>2. m \in 0..I2U(i) - 1 /\ m \in Int /\ k = m + 1
      BY <2>2, <3>1
    <3> HIDE DEF m
    <3>3. U2B(m + 1) = U2B(m) + UNIT_SIZE /\ U2B(m) \in Int /\ UNIT_SIZE \in Int
      BY <3>2, BytesOfUnits, UnitSizeIs
    <3>4. Before(u, d) - UNIT_SIZE = at + U2B(m)
      BY <2>1, <2>2, <3>2, <3>3
    <3>5. at + U2B(m) \in Units(at, I2U(i))
      BY <3>2 DEF Units
    <3>6. at + U2B(m) \in units
      BY <3>5, CoveredBy DEF units
    <3> QED BY <1>8, <3>4, <3>6
  <2> QED BY <2>1, <2>2, <2>3, BytesOfUnits
<1> QED BY <1>5, <1>7, <1>8, <1>11, <1>12 DEF units

\* The runs from the nodes that are kept have all the free units.
LEMMA RunsCover ==
    ASSUME NEW lists \in Families, Covered(lists) \subseteq AlignOffset..ArenaEnd - 1,
           NEW kept \in SUBSET Covered(lists),
           NEW extent \in [kept -> Nat \ {0}], AreRuns(Covered(lists), kept, extent),
           \A i \in Indexes : \A node \in lists[i] :
               node - UNIT_SIZE \notin Covered(lists) => node \in kept
    PROVE  UNION {Units(x, extent[x]) : x \in kept} = Covered(lists)
<1> DEFINE units == Covered(lists)
<1>1. ASSUME NEW x \in kept
      PROVE  /\ x \in Int /\ extent[x] \in Nat \ {0} /\ RunEnds(x, kept, units, extent[x])
             /\ \A m \in 1..extent[x] - 1 : x + U2B(m) \in units
  BY DEF AreRuns
<1>2. ASSUME NEW x \in kept, NEW u \in Units(x, extent[x]) PROVE u \in units
  <2>1. PICK k \in 0..extent[x] - 1 : u = x + U2B(k)
    BY DEF Units
  <2>2. extent[x] \in Nat /\ x \in Int /\ \A m \in 1..extent[x] - 1 : x + U2B(m) \in units
    BY <1>1
  <2>3. CASE k = 0
    <3>1. u = x
      BY <2>1, <2>2, <2>3, BytesOfUnits
    <3> QED BY <3>1
  <2>4. CASE k # 0
    <3>1. k \in 1..extent[x] - 1
      BY <2>2, <2>4
    <3> QED BY <2>1, <2>2, <3>1
  <2> QED BY <2>3, <2>4
<1>3. ASSUME NEW u \in units PROVE \E x \in kept : u \in Units(x, extent[x])
  <2>1. PICK b \in Nat :
            /\ \E i \in Indexes : Before(u, b) \in lists[i]
            /\ Before(u, b) - UNIT_SIZE \notin units
            /\ \A j \in 0..b : Before(u, j) \in units
    BY RunBegins
  <2>2. Before(u, b) \in kept
    BY <2>1
  <2>3. u \in Int
    OBVIOUS
  <2> HIDE DEF units
  <2> DEFINE D == {d \in Nat : d <= b /\ Before(u, d) \in kept}
  <2>4. b \in D
    BY <2>2
  <2>5. PICK d \in D : \A k \in D : d <= k
    BY <2>4, LeastNumber
  <2> DEFINE x == Before(u, d)
  <2>6. d \in Nat /\ d <= b /\ x \in kept
    BY <2>5
  <2> HIDE DEF D
  <2>7. extent[x] \in Nat \ {0} /\ RunEnds(x, kept, units, extent[x])
    BY <1>1, <2>6
  <2>8. d < extent[x]
    <3> SUFFICES ASSUME extent[x] <= d PROVE FALSE
      BY <2>6, <2>7
    <3> DEFINE n == extent[x]
               e == d - n
    <3>1. e \in Nat /\ e < d /\ e <= b /\ e \in 0..b
      BY <2>6, <2>7
    <3>2. x + U2B(n) = Before(u, e)
      <4>1. n \in Nat /\ n <= d
        BY <2>7
      <4> HIDE DEF n
      <4> QED BY <2>3, <2>6, <4>1, BeforeIs
    <3> HIDE DEF e
    <3>3. Before(u, e) \in units
      BY <2>1, <3>1
    <3>4. Before(u, e) \in kept
      BY <2>7, <3>2, <3>3 DEF RunEnds
    <3>5. e \in D
      BY <3>1, <3>4 DEF D
    <3> QED BY <2>5, <2>6, <3>1, <3>5
  <2>9. u = x + U2B(d)
    <3>1. Before(u, d) + U2B(d) = Before(u, d - d) /\ d - d = 0
      BY <2>3, <2>6, BeforeIs
    <3> QED BY <2>3, <3>1, BeforeIs
  <2>10. d \in 0..extent[x] - 1
    BY <2>6, <2>7, <2>8
  <2>11. u \in Units(x, extent[x])
    <3> HIDE DEF x
    <3> QED BY <2>9, <2>10 DEF Units
  <2> QED BY <2>6, <2>11
<1> QED BY <1>2, <1>3

\* Gluing neither loses nor doubles a free unit.
LEMMA RunsGlued ==
    ASSUME NEW lists \in Families, Covered(lists) \subseteq AlignOffset..ArenaEnd - 1,
           NEW kept \in SUBSET Covered(lists),
           NEW extent \in [kept -> Nat \ {0}], AreRuns(Covered(lists), kept, extent),
           \A i \in Indexes : \A node \in lists[i] :
               node - UNIT_SIZE \notin Covered(lists) => node \in kept
    PROVE  LET glued == RunsLists(kept, extent) IN
           glued \in Families /\ ListsApart(glued) /\ Covered(glued) = Covered(lists)
<1> DEFINE units == Covered(lists)
<1>1. units \in SUBSET Int /\ kept \in SUBSET Int
  BY ArenaEndIs
<1>2. \A a, b \in kept : a # b => Units(a, extent[a]) \cap Units(b, extent[b]) = {}
  BY <1>1, RunsApart
<1>3. UNION {Units(x, extent[x]) : x \in kept} = units
  BY RunsCover
<1> QED BY <1>1, <1>2, <1>3, RunsTile

-------------------------------------------------------------------------------
(***************************************************************************)
(* Where RestartModel puts the root context and its states.                *)
(***************************************************************************)

\* Units above the text when the model begins.
RootUnits == ((Size \div 8) \div UNIT_SIZE) * 7

\* They are more than the root context and its states, and less than the arena.
LEMMA RootUnitsFit ==
    /\ RootUnits \in Nat /\ MaxUnits + 1 <= RootUnits
    /\ U2B(RootUnits) \in Nat /\ U2B(RootUnits) < Size
<1>1. Size \in Nat /\ UNIT_SIZE \in Nat \ {0} /\ MaxUnits \in Nat \ {0}
  BY SizesAssumption, MaxUnitsIs
<1> DEFINE eighth == Size \div 8
           q == eighth \div UNIT_SIZE
<1>2. eighth \in Nat /\ eighth * 8 <= Size
  BY <1>1
<1> HIDE DEF eighth
<1>3. q \in Nat /\ q * UNIT_SIZE <= eighth
  BY <1>1, <1>2, Division
<1> HIDE DEF q
<1>4. RootUnits = q * 7
  BY DEF RootUnits, q, eighth
<1>5. RootUnits \in Nat /\ MaxUnits + 1 <= RootUnits
  BY <1>3, <1>4, RoomAssumption DEF q, eighth
<1>6. q * UNIT_SIZE \in Nat /\ (q * 7) * UNIT_SIZE = 7 * (q * UNIT_SIZE)
  BY <1>1, <1>3
<1> DEFINE b == q * UNIT_SIZE
<1>7. U2B(RootUnits) = 7 * b /\ b \in Nat /\ b <= eighth
  BY <1>3, <1>4, <1>6 DEF U2B
<1> HIDE DEF b
<1>8. eighth # 0
  <2>1. SUFFICES ASSUME eighth = 0 PROVE FALSE
    OBVIOUS
  <2>2. b = 0
    BY <1>2, <1>7, <2>1
  <2>3. U2B(RootUnits) = 0
    BY <1>7, <2>2
  <2>4. RootUnits <= 0
    BY <1>5, <2>3, BytesOfUnits
  <2> QED BY <1>1, <1>5, <2>4
<1>9. 7 * b \in Nat /\ 7 * b < Size
  BY <1>1, <1>2, <1>7, <1>8
<1> QED BY <1>5, <1>7, <1>9

\* Those between the states of the root context and the root context.
RootGap == RootUnits - 1 - MaxUnits

\* RestartModel shares out the arena among the states of the root context, which
\* begin it, the root context, which ends it, and a gap between them.
LEMMA RootArena ==
    LET lo == FirstUnit + U2B(MaxUnits)
        states == Units(FirstUnit, MaxUnits)
        middle == Units(lo, RootGap)
    IN
    /\ FirstUnit \in Int /\ lo \in Int /\ RootContext \in Int
    /\ AlignOffset \in Int /\ AlignOffset < FirstUnit /\ AlignOffset <= FirstUnit
    /\ FirstUnit <= lo /\ RootContext <= ArenaEnd
    /\ RootGap \in Nat /\ RootContext = lo + U2B(RootGap)
    /\ (RootContext - lo) \div UNIT_SIZE = RootGap
    /\ RootUnits \in Nat /\ ArenaEnd = FirstUnit + U2B(RootUnits)
    /\ (ArenaEnd - FirstUnit) \div UNIT_SIZE = RootUnits
    /\ Units(FirstUnit, RootUnits) = states \cup middle \cup {RootContext}
    /\ states \cap middle = {} /\ RootContext \notin states \cup middle
<1> DEFINE n == RootUnits
           gap == RootGap
           all == U2B(n)
           lo == FirstUnit + U2B(MaxUnits)
           states == Units(FirstUnit, MaxUnits)
           middle == Units(lo, gap)
<1>1. /\ n \in Nat /\ gap \in Nat /\ MaxUnits \in Nat /\ n = (MaxUnits + gap) + 1
      /\ all \in Nat /\ all < Size /\ MaxUnits + gap \in Nat
  BY RootUnitsFit, MaxUnitsIs DEF RootGap
<1>2. /\ ArenaEnd = AlignOffset + Size /\ Size \in Nat /\ AlignOffset \in Nat \ {0}
      /\ UNIT_SIZE \in Nat \ {0}
  BY SizesAssumption DEF ArenaEnd
<1>3. FirstUnit = ArenaEnd - all /\ RootContext = ArenaEnd - UNIT_SIZE
  BY DEF FirstUnit, RootContext, RootUnits
<1> HIDE DEF n, gap
<1>4. /\ U2B(MaxUnits + gap) = U2B(MaxUnits) + U2B(gap)
      /\ all = U2B(MaxUnits + gap) + UNIT_SIZE
      /\ U2B(MaxUnits) \in Nat /\ U2B(gap) \in Nat
  <2>1. MaxUnits \in Int /\ gap \in Int /\ MaxUnits + gap \in Int /\ 1 \in Int
    BY <1>1
  <2>2. U2B((MaxUnits + gap) + 1) = U2B(MaxUnits + gap) + U2B(1)
    BY <2>1, BytesOfUnits
  <2>3. U2B(MaxUnits + gap) = U2B(MaxUnits) + U2B(gap)
    BY <2>1, BytesOfUnits
  <2> QED BY <1>1, <2>2, <2>3, BytesOfUnits
<1> DEFINE m == U2B(MaxUnits)
           b == U2B(gap)
           c == U2B(MaxUnits + gap)
<1>5. /\ c = m + b /\ all = c + UNIT_SIZE /\ m \in Nat /\ b \in Nat
      /\ lo = FirstUnit + m
  BY <1>4
<1> HIDE DEF all, lo, m, b, c
<1>6. /\ FirstUnit \in Int /\ lo \in Int /\ RootContext \in Int /\ ArenaEnd \in Int
      /\ AlignOffset < FirstUnit /\ FirstUnit <= lo /\ RootContext <= ArenaEnd
      /\ ArenaEnd = FirstUnit + all /\ RootContext = lo + b
      /\ RootContext = FirstUnit + c /\ AlignOffset <= FirstUnit
      /\ RootContext - lo = b /\ ArenaEnd - FirstUnit = all /\ AlignOffset \in Int
  BY <1>1, <1>2, <1>3, <1>5
<1>7. b \div UNIT_SIZE = gap /\ all \div UNIT_SIZE = n
  BY <1>1, WholeUnits DEF b, all
<1>8. /\ Units(FirstUnit, MaxUnits + gap) = states \cup middle
      /\ states \cap middle = {}
  <2>1. /\ Units(FirstUnit, MaxUnits + gap)
               = Units(FirstUnit, MaxUnits) \cup Units(FirstUnit + U2B(MaxUnits), gap)
        /\ Units(FirstUnit, MaxUnits) \cap Units(FirstUnit + U2B(MaxUnits), gap) = {}
    BY <1>1, <1>6, UnitsJoin
  <2> QED BY <2>1 DEF lo
<1>9. /\ Units(FirstUnit, n) = Units(FirstUnit, MaxUnits + gap) \cup {RootContext}
      /\ Units(FirstUnit, MaxUnits + gap) \cap {RootContext} = {}
  <2>1. /\ Units(FirstUnit, (MaxUnits + gap) + 1)
               = Units(FirstUnit, MaxUnits + gap) \cup Units(FirstUnit + c, 1)
        /\ Units(FirstUnit, MaxUnits + gap) \cap Units(FirstUnit + c, 1) = {}
    BY <1>1, <1>6, UnitsJoin DEF c
  <2>2. Units(RootContext, 1) = {RootContext}
    BY <1>6, UnitsOne
  <2> QED BY <1>1, <1>6, <2>1, <2>2
<1> HIDE DEF states, middle
<1>10. /\ Units(FirstUnit, n) = states \cup middle \cup {RootContext}
       /\ states \cap middle = {} /\ RootContext \notin states \cup middle
  BY <1>8, <1>9
<1> QED BY <1>1, <1>6, <1>7, <1>10 DEF n, gap, all, lo, b, states, middle

-------------------------------------------------------------------------------
(***************************************************************************)
(* Lists as blocks with an owner.                                          *)
(***************************************************************************)

\* The blocks of lists have what the lists cover, each its own.
LEMMA ListsBlocks ==
    ASSUME NEW owner, NEW lists, ListsApart(lists)
    PROVE  /\ \A b, c \in Lists(owner, lists) : b # c => UnitsOf(b) \cap UnitsOf(c) = {}
           /\ UNION {UnitsOf(b) : b \in Lists(owner, lists)} = Covered(lists)
<1> DEFINE Block(i, at) == [owner |-> owner, at |-> at, nu |-> I2U(i)]
<1>1. ASSUME NEW b \in Lists(owner, lists)
      PROVE  \E i \in Indexes : \E at \in lists[i] :
                 b = Block(i, at) /\ UnitsOf(b) = Units(at, I2U(i))
  <2>1. PICK i \in Indexes : \E at \in lists[i] : b = Block(i, at)
    BY DEF Lists
  <2>2. PICK at \in lists[i] : b = Block(i, at)
    BY <2>1
  <2>3. b.at = at /\ b.nu = I2U(i)
    BY <2>2
  <2> QED BY <2>2, <2>3 DEF UnitsOf
<1>2. ASSUME NEW i \in Indexes, NEW at \in lists[i]
      PROVE  \E b \in Lists(owner, lists) : UnitsOf(b) = Units(at, I2U(i))
  <2>1. Block(i, at) \in Lists(owner, lists)
    BY DEF Lists
  <2>2. UnitsOf(Block(i, at)) = Units(at, I2U(i))
    BY DEF UnitsOf
  <2> QED BY <2>1, <2>2
<1>3. ASSUME NEW b \in Lists(owner, lists), NEW c \in Lists(owner, lists), b # c
      PROVE  UnitsOf(b) \cap UnitsOf(c) = {}
  <2>1. PICK i \in Indexes : \E at \in lists[i] :
            b = Block(i, at) /\ UnitsOf(b) = Units(at, I2U(i))
    BY <1>1
  <2>2. PICK at \in lists[i] : b = Block(i, at) /\ UnitsOf(b) = Units(at, I2U(i))
    BY <2>1
  <2>3. PICK j \in Indexes : \E to \in lists[j] :
            c = Block(j, to) /\ UnitsOf(c) = Units(to, I2U(j))
    BY <1>1
  <2>4. PICK to \in lists[j] : c = Block(j, to) /\ UnitsOf(c) = Units(to, I2U(j))
    BY <2>3
  <2>5. <<i, at>> # <<j, to>>
    BY <1>3, <2>2, <2>4
  <2> QED BY <2>2, <2>4, <2>5 DEF ListsApart
<1> HIDE DEF Block
<1>4. ASSUME NEW x
      PROVE  x \in Covered(lists) <=> \E b \in Lists(owner, lists) : x \in UnitsOf(b)
  BY <1>1, <1>2, CoveredBy
<1> QED BY <1>3, <1>4
===============================================================================
