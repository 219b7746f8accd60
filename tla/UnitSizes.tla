------------------------------- MODULE UnitSizes -------------------------------
(***************************************************************************)
(* What the sub-allocators of lib/ppmd/Ppmd7.c and lib/ppmd/Ppmd8.c have   *)
(* in common: memory is handed out in blocks of units, blocks have one of  *)
(* NumIndexes sizes, and there is a list of free blocks for each size.     *)
(* Pointers are offsets from Base.  A free list is the set of its nodes:   *)
(* which of them is taken (in C the last one put in) is left open.         *)
(***************************************************************************)
EXTENDS Integers

CONSTANTS
    Size,           \* bytes of the arena
    AlignOffset,    \* offset of its first byte
    UNIT_SIZE,      \* bytes of a unit (12)
    NumIndexes,     \* PPMD_NUM_INDEXES (38)
    IndexPeriod     \* PPMD_N1 = PPMD_N2 = PPMD_N3 (4)

NULL == 0

Indexes == 0..NumIndexes - 1

\* Sizes 1, 2, 3, 4, 6, 8, 10, 12, 15, 18, 21, 24, 28, 32... 128.
Indx2Units ==
    LET step(i) == IF i >= 3 * IndexPeriod THEN 4 ELSE i \div IndexPeriod + 1
        size[i \in Indexes] == IF i = 0 THEN step(0) ELSE size[i - 1] + step(i)
    IN  size

I2U(i) == Indx2Units[i]

LastIndex == NumIndexes - 1
MaxUnits == I2U(LastIndex)

\* The smallest size that holds nu units.
U2I(nu) == CHOOSE i \in Indexes : I2U(i) >= nu /\ \A j \in 0..i - 1 : I2U(j) < nu

U2B(nu) == nu * UNIT_SIZE

ASSUME SizesAssumption ==
    /\ Size \in Nat /\ AlignOffset \in Nat \ {0} /\ UNIT_SIZE \in Nat \ {0}
    /\ NumIndexes \in Nat \ {0} /\ IndexPeriod \in Nat \ {0}

\* RestartModel and the constructors take for granted that the root context and its
\* states fit: PPMD7_MIN_MEM_SIZE.
ASSUME RoomAssumption == ((Size \div 8) \div UNIT_SIZE) * 7 >= MaxUnits + 1

\* What is left of a block, cut to the next smaller size, is a size of its own:
\* SplitBlock and GlueFreeBlocks put it in list nu - k - 1 without looking.
ASSUME SplitAssumption ==
    \A i \in Indexes \ {LastIndex} :
        \A rest \in 1..I2U(i + 1) - I2U(i) - 1 :
            rest <= NumIndexes /\ I2U(rest - 1) = rest

Units(at, nu) == {at + U2B(k) : k \in 0..nu - 1}

ArenaEnd == AlignOffset + Size

\* A fault: the remainder of a block that fits no size is forgotten.
PiecesWithoutRest(nu) ==
    LET full == (nu - 1) \div MaxUnits
        rest == nu - full * MaxUnits
        i == U2I(rest)
    IN  {[at |-> n * MaxUnits, indx |-> LastIndex] : n \in 0..full - 1}
        \cup
        {[at |-> full * MaxUnits, indx |-> IF I2U(i) = rest THEN i ELSE i - 1]}

\* nu units as blocks of the sizes there are: as many of the largest as
\* possible, and the rest in one or two.  In a record, the offset in units.
Pieces(nu) ==
    LET full == (nu - 1) \div MaxUnits
        rest == nu - full * MaxUnits
        i == U2I(rest)
        k == I2U(i - 1)
        at == full * MaxUnits
    IN  {[at |-> n * MaxUnits, indx |-> LastIndex] : n \in 0..full - 1}
        \cup
        IF I2U(i) = rest
        THEN {[at |-> at, indx |-> i]}
        ELSE {[at |-> at, indx |-> i - 1],
              [at |-> at + k, indx |-> rest - k - 1]}

NodesOf(ptr, nu, i) ==
    {ptr + U2B(piece.at) : piece \in {x \in Pieces(nu) : x.indx = i}}

FreeNodes(h) == UNION {h.FreeList[i] : i \in Indexes}

FreeUnits(h) ==
    UNION {UNION {Units(node, I2U(i)) : node \in h.FreeList[i]} : i \in Indexes}

-------------------------------------------------------------------------------
(***************************************************************************)
(* Where RestartModel puts the root context and its 256 states.            *)
(***************************************************************************)

FirstUnit == ArenaEnd - U2B(((Size \div 8) \div UNIT_SIZE) * 7)
RootContext == ArenaEnd - UNIT_SIZE

RootStats == [i \in Indexes |-> IF i = LastIndex THEN {FirstUnit} ELSE {}]

-------------------------------------------------------------------------------
(***************************************************************************)
(* For the properties: blocks of units, and who has them.                  *)
(***************************************************************************)

Lists(owner, lists) ==
    UNION {{[owner |-> owner, at |-> at, nu |-> I2U(i)] : at \in lists[i]} :
              i \in Indexes}

UnitsOf(b) == Units(b.at, b.nu)
===============================================================================
