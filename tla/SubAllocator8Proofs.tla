------------------------- MODULE SubAllocator8Proofs -------------------------
(***************************************************************************)
(* What holds of SubAllocator8.tla for an arena, units, tables and orders  *)
(* of every size: its memory stays partitioned while the context model     *)
(* takes and gives back, while RestoreModel frees and moves blocks, and    *)
(* while the arena gives units up to the text; and the tree of contexts    *)
(* stays one, whatever CutOff cuts.                                        *)
(***************************************************************************)
EXTENDS SubAllocator8, UnitSizesProofs, FiniteSetTheorems

-------------------------------------------------------------------------------
(***************************************************************************)
(* The inductive invariant.                                                *)
(***************************************************************************)

HeapTypes ==
    [FreeList : Families, Stamps : [Indexes -> Int],
     UnitsStart : Int, LoUnit : Int, HiUnit : Int, GlueCount : Int]

Bounds(h) ==
    /\ AlignOffset <= h.UnitsStart
    /\ GapSize(h) \in Nat /\ h.HiUnit = h.LoUnit + U2B(GapSize(h))
    /\ ArenaSize(h) \in Nat /\ ArenaEnd = h.UnitsStart + U2B(ArenaSize(h))

\* Stamps counts the nodes of the lists.
Counted(h) ==
    \A i \in Indexes :
        IsFiniteSet(h.FreeList[i]) /\ h.Stamps[i] = Cardinality(h.FreeList[i])

Sound(h) ==
    /\ h \in HeapTypes /\ h.GlueCount \in 0..GlueReset
    /\ Bounds(h)
    /\ Counted(h)
    /\ ListsApart(h.FreeList)
    /\ Covered(h.FreeList) \cap GapUnits(h) = {}
    /\ Space(h) \subseteq Arena(h)

ContextTypes == [parent : Int, order : 0..MaxOrder, stats : Int, indx : Indexes]

\* The states of a context, if they have a block, and of all contexts of a tree t.
BlockOf(stats, indx) == IF stats = NULL THEN {} ELSE Units(stats, I2U(indx))
BlockIn(t, c) == BlockOf(t[c].stats, t[c].indx)
StatsTaken(t) == UNION {BlockIn(t, c) : c \in DOMAIN t}
Taken(t) == DOMAIN t \cup StatsTaken(t)

HeldInv(t) ==
    /\ DOMAIN t \subseteq Int
    /\ t \in [DOMAIN t -> ContextTypes]
    /\ \A c, d \in DOMAIN t : c # d => BlockIn(t, c) \cap BlockIn(t, d) = {}
    /\ DOMAIN t \cap StatsTaken(t) = {}

SharesInv(h, t) ==
    /\ Taken(t) \cap Space(h) = {}
    /\ Taken(t) \cup Space(h) = Arena(h)

TextInv ==
    /\ Text \in Int /\ AlignOffset <= Text /\ Text < heap.UnitsStart
    /\ appended \in BOOLEAN /\ (appended => AlignOffset < Text)

\* The contexts are a tree by their parents, one order a step.
TreeInv(t) ==
    /\ RootContext \in DOMAIN t /\ t[RootContext].parent = NULL
    /\ \A c \in DOMAIN t \ {RootContext} :
           /\ t[c].parent \in DOMAIN t
           /\ t[c].order = t[t[c].parent].order + 1

ChildrenIn(t, c) == {d \in DOMAIN t : t[d].parent = c}
CapacityIn(t, c) == IF t[c].stats = NULL THEN 1 ELSE 2 * I2U(t[c].indx)

\* The capacity a context had before the symbol under way moved its states.
Lately(t, c) == IF t[c].indx = 0 THEN 1 ELSE 2 * I2U(t[c].indx - 1)

RoomInv(t, moved) ==
    /\ \A c \in DOMAIN t : Cardinality(ChildrenIn(t, c)) <= CapacityIn(t, c)
    /\ \A c \in moved :
           t[c].stats # NULL /\ Cardinality(ChildrenIn(t, c)) <= Lately(t, c)

PhaseInv ==
    /\ phase \in {"coding", "undo", "cutoff"} /\ fresh \in BOOLEAN
    /\ grown \subseteq DOMAIN tree /\ todo \subseteq DOMAIN tree
    /\ phase # "cutoff" => stack = <<>> /\ todo = {}
    /\ phase = "cutoff" => grown = {}
    /\ phase = "undo" => Text = AlignOffset /\ ~appended

\* The calls of CutOff under way are for different contexts, which are still in
\* use and will not be entered again, and know how many successors those have.
StackInv(t, calls, rest) ==
    /\ calls \in Seq([context : Int, successors : Nat])
    /\ \A k \in 1..Len(calls) :
           /\ calls[k].context \in DOMAIN t \ rest
           /\ Cardinality(ChildrenIn(t, calls[k].context)) <= calls[k].successors
           /\ calls[k].successors <= CapacityIn(t, calls[k].context)
    /\ \A j, k \in 1..Len(calls) :
           calls[j].context = calls[k].context => j = k

IInv ==
    /\ Sound(heap) /\ HeldInv(tree) /\ SharesInv(heap, tree) /\ TextInv
    /\ TreeInv(tree) /\ RoomInv(tree, grown) /\ PhaseInv
    /\ StackInv(tree, stack, todo)

-------------------------------------------------------------------------------
(***************************************************************************)
(* Of heaps.                                                               *)
(***************************************************************************)

\* Everything in the arena is an address between AlignOffset and its end.
LEMMA ArenaBetween ==
    ASSUME NEW h, h \in HeapTypes, Bounds(h), NEW x \in Arena(h)
    PROVE  x \in AlignOffset..ArenaEnd - 1
<1>1. h.UnitsStart \in Int /\ ArenaSize(h) \in Nat /\ AlignOffset <= h.UnitsStart
      /\ ArenaEnd = h.UnitsStart + U2B(ArenaSize(h))
  BY DEF HeapTypes, Bounds
<1>2. x \in Int /\ h.UnitsStart <= x /\ x + UNIT_SIZE <= ArenaEnd
  BY <1>1, UnitsBetween DEF Arena
<1>3. UNIT_SIZE \in Nat \ {0} /\ ArenaEnd \in Nat /\ AlignOffset \in Nat
  BY UnitSizeIs, ArenaEndIs
<1> QED BY <1>1, <1>2, <1>3

\* No unit of the arena is at NULL.
LEMMA ArenaNotNull ==
    ASSUME NEW h, h \in HeapTypes, Bounds(h), NEW x \in Arena(h) PROVE x # NULL
<1>1. x \in AlignOffset..ArenaEnd - 1
  BY ArenaBetween
<1> QED BY <1>1, ArenaEndIs DEF NULL

\* Addresses are finitely many.
LEMMA AddressesFinite ==
    ASSUME NEW S \in SUBSET Addresses
    PROVE  IsFiniteSet(S) /\ Cardinality(S) \in 0..Size
<1>1. AlignOffset \in Int /\ ArenaEnd - 1 \in Int /\ Size \in Nat
      /\ ArenaEnd - 1 = AlignOffset + Size - 1
  BY SizesAssumption, ArenaEndIs DEF ArenaEnd
<1> DEFINE a == AlignOffset
           b == ArenaEnd - 1
<1>2. IsFiniteSet(a..b) /\ Cardinality(a..b) = IF a > b THEN 0 ELSE b - a + 1
  <2> HIDE DEF a, b
  <2>1. a \in Int /\ b \in Int
    BY <1>1 DEF a, b
  <2> QED BY <2>1, FS_Interval
<1>3. Cardinality(a..b) <= Size
  BY <1>1, <1>2
<1>4. S \in SUBSET (a..b)
  BY DEF Addresses
<1> HIDE DEF a, b
<1>5. IsFiniteSet(S) /\ Cardinality(S) <= Cardinality(a..b)
  BY <1>2, <1>4, FS_Subset
<1>6. Cardinality(S) \in Nat /\ Cardinality(a..b) \in Nat
  BY <1>2, <1>5, FS_CardinalityType
<1> QED BY <1>1, <1>3, <1>5, <1>6

\* Lists with their units in the arena have finitely many nodes.
LEMMA ListsFinite ==
    ASSUME NEW h, h \in HeapTypes, Bounds(h), NEW lists \in Families,
           Covered(lists) \subseteq Arena(h), NEW i \in Indexes
    PROVE  /\ lists[i] \subseteq Covered(lists) /\ lists[i] \subseteq Addresses
           /\ IsFiniteSet(lists[i]) /\ Cardinality(lists[i]) \in 0..Size
<1>1. lists[i] \subseteq Covered(lists)
  BY NodesAreUnits
<1>2. lists[i] \subseteq Addresses
  BY <1>1, ArenaBetween DEF Addresses
<1> QED BY <1>1, <1>2, AddressesFinite

\* Sets with no element in common have their sizes together.
LEMMA SizesAdd ==
    ASSUME NEW S, NEW T, IsFiniteSet(S), IsFiniteSet(T), S \cap T = {}
    PROVE  /\ IsFiniteSet(S \cup T)
           /\ Cardinality(S \cup T) = Cardinality(S) + Cardinality(T)
           /\ Cardinality(S) \in Nat /\ Cardinality(T) \in Nat
<1>1. Cardinality(S) \in Nat /\ Cardinality(T) \in Nat
  BY FS_CardinalityType
<1>2. IsFiniteSet(S \cup T) /\ Cardinality(S \cup T) =
          Cardinality(S) + Cardinality(T) - Cardinality(S \cap T)
  BY FS_Union
<1>3. Cardinality(S \cap T) = 0
  BY FS_EmptySet
<1> QED BY <1>1, <1>2, <1>3

\* A heap with other lists is sound when they are.
LEMMA NewLists ==
    ASSUME NEW h, Sound(h), NEW g \in HeapTypes, g.GlueCount \in 0..GlueReset,
           g.UnitsStart = h.UnitsStart, g.LoUnit = h.LoUnit, g.HiUnit = h.HiUnit,
           Counted(g), ListsApart(g.FreeList),
           Covered(g.FreeList) \cap GapUnits(h) = {},
           Covered(g.FreeList) \subseteq Arena(h)
    PROVE  /\ Sound(g) /\ Arena(g) = Arena(h)
           /\ Space(g) = Covered(g.FreeList) \cup GapUnits(h)
<1>1. GapSize(g) = GapSize(h) /\ ArenaSize(g) = ArenaSize(h)
  BY DEF GapSize, ArenaSize
<1>2. Arena(g) = Arena(h) /\ GapUnits(g) = GapUnits(h)
  BY <1>1 DEF Arena, GapUnits
<1>3. Bounds(h) /\ Space(h) \subseteq Arena(h)
  BY DEF Sound
<1>4. Bounds(g)
  BY <1>1, <1>3 DEF Bounds
<1>5. GapUnits(h) \subseteq Arena(h)
  BY <1>3 DEF Space
<1>6. Space(g) = Covered(g.FreeList) \cup GapUnits(h)
  BY <1>2 DEF Space
<1> QED BY <1>2, <1>4, <1>5, <1>6 DEF Sound

-------------------------------------------------------------------------------
(***************************************************************************)
(* The operations of the free lists.                                       *)
(***************************************************************************)

\* Units that nobody else has can be put into the lists.
FreshUnits(h, units) == units \cap Space(h) = {} /\ units \subseteq Arena(h)

\* The heap g is h with these units given back.
Gained(h, g, units) ==
    /\ Sound(g) /\ Arena(g) = Arena(h) /\ g.UnitsStart = h.UnitsStart
    /\ g.GlueCount = h.GlueCount
    /\ Space(g) = Space(h) \cup units

\* h with more nodes in its lists, all of them counted.
WithNodes(h, more) ==
    [h EXCEPT !.FreeList = Joined(h.FreeList, more),
              !.Stamps = [i \in Indexes |-> h.Stamps[i] + Cardinality(more[i])]]

\* A sound heap that puts blocks of fresh units into its lists stays sound, and
\* its free space grows by just those units.
LEMMA ListsGain ==
    ASSUME NEW h, Sound(h), NEW more \in Families, ListsApart(more),
           FreshUnits(h, Covered(more))
    PROVE  Gained(h, WithNodes(h, more), Covered(more))
<1>1. h \in HeapTypes /\ h.FreeList \in Families /\ h.GlueCount \in 0..GlueReset
      /\ ListsApart(h.FreeList) /\ Bounds(h) /\ Counted(h)
      /\ Covered(h.FreeList) \cap GapUnits(h) = {} /\ Space(h) \subseteq Arena(h)
  BY DEF Sound, HeapTypes
<1> DEFINE both == Joined(h.FreeList, more)
           counts == [i \in Indexes |-> h.Stamps[i] + Cardinality(more[i])]
           g == WithNodes(h, more)
<1>2. Covered(more) \cap Covered(h.FreeList) = {} /\ Covered(more) \cap GapUnits(h) = {}
      /\ Covered(more) \subseteq Arena(h) /\ Covered(h.FreeList) \subseteq Arena(h)
  BY <1>1 DEF FreshUnits, Space
<1>3. /\ both \in Families /\ Covered(both) = Covered(h.FreeList) \cup Covered(more)
      /\ ListsApart(both)
  BY <1>1, <1>2, ListsJoin
<1>4. ASSUME NEW i \in Indexes
      PROVE  IsFiniteSet(both[i]) /\ counts[i] = Cardinality(both[i]) /\ counts[i] \in Int
  <2>1. both[i] = h.FreeList[i] \cup more[i] /\ counts[i] = h.Stamps[i] + Cardinality(more[i])
    BY DEF Joined
  <2>2. /\ more[i] \subseteq Covered(more) /\ IsFiniteSet(more[i])
        /\ h.FreeList[i] \subseteq Covered(h.FreeList)
    BY <1>1, <1>2, ListsFinite
  <2>3. IsFiniteSet(h.FreeList[i]) /\ h.Stamps[i] = Cardinality(h.FreeList[i])
    BY <1>1 DEF Counted
  <2>4. h.FreeList[i] \cap more[i] = {}
    BY <1>2, <2>2
  <2> DEFINE old == h.FreeList[i]
             new == more[i]
  <2>5. /\ IsFiniteSet(old \cup new)
        /\ Cardinality(old \cup new) = Cardinality(old) + Cardinality(new)
        /\ Cardinality(old) \in Nat /\ Cardinality(new) \in Nat
    <3>1. IsFiniteSet(old) /\ IsFiniteSet(new) /\ old \cap new = {}
      BY <2>2, <2>3, <2>4
    <3> HIDE DEF old, new
    <3> QED BY <3>1, SizesAdd
  <2> HIDE DEF both, counts
  <2>6. both[i] = old \cup new /\ counts[i] = Cardinality(old) + Cardinality(new)
    BY <2>1, <2>3
  <2> HIDE DEF old, new
  <2> QED BY <2>5, <2>6
<1>5. g = [h EXCEPT !.FreeList = both, !.Stamps = counts]
  BY DEF WithNodes
<1>6. counts \in [Indexes -> Int]
  BY <1>4
<1> HIDE DEF both, counts, g
<1>7. /\ g \in HeapTypes /\ g.GlueCount = h.GlueCount /\ g.FreeList = both
      /\ g.Stamps = counts
      /\ g.UnitsStart = h.UnitsStart /\ g.LoUnit = h.LoUnit /\ g.HiUnit = h.HiUnit
  BY <1>1, <1>3, <1>5, <1>6 DEF HeapTypes
<1>8. Counted(g)
  BY <1>4, <1>7 DEF Counted
<1>9. Covered(both) \cap GapUnits(h) = {} /\ Covered(both) \subseteq Arena(h)
  BY <1>1, <1>2, <1>3
<1>10. Sound(g) /\ Arena(g) = Arena(h) /\ Space(g) = Covered(both) \cup GapUnits(h)
  BY <1>1, <1>3, <1>7, <1>8, <1>9, NewLists
<1>11. Space(g) = Space(h) \cup Covered(more)
  BY <1>3, <1>10 DEF Space
<1> QED BY <1>7, <1>10, <1>11 DEF Gained, g

\* InsertNode gives the heap the units of the node.
LEMMA NodeInserted ==
    ASSUME NEW h, Sound(h), NEW i \in Indexes, NEW node \in Int,
           FreshUnits(h, Units(node, I2U(i)))
    PROVE  Gained(h, InsertNode(h, node, i), Units(node, I2U(i)))
<1> DEFINE more == Single(i, node)
           counts == [h.Stamps EXCEPT ![i] = @ + 1]
<1>1. more \in Families /\ ListsApart(more) /\ Covered(more) = Units(node, I2U(i))
  BY SingleIs
<1>2. h \in HeapTypes /\ h.FreeList \in [Indexes -> SUBSET Int] /\ h.Stamps \in [Indexes -> Int]
  BY DEF Sound, HeapTypes, Families
<1>3. [h.FreeList EXCEPT ![i] = @ \cup {node}] = Joined(h.FreeList, more)
  BY <1>2 DEF Joined, Single
<1>4. counts = [j \in Indexes |-> h.Stamps[j] + Cardinality(more[j])]
  <2>1. \A j \in Indexes : Cardinality(more[j]) = IF j = i THEN 1 ELSE 0
    BY FS_Singleton, FS_EmptySet DEF Single
  <2> QED BY <1>2, <2>1
<1>5. InsertNode(h, node, i) = [h EXCEPT !.FreeList = [h.FreeList EXCEPT ![i] = @ \cup {node}],
                                         !.Stamps = counts]
  BY <1>2 DEF InsertNode, HeapTypes
<1> HIDE DEF more, counts
<1>6. InsertNode(h, node, i) = WithNodes(h, more)
  BY <1>3, <1>4, <1>5 DEF WithNodes
<1>7. FreshUnits(h, Covered(more))
  BY <1>1
<1>8. Gained(h, WithNodes(h, more), Covered(more))
  BY <1>1, <1>7, ListsGain
<1> QED BY <1>1, <1>6, <1>8

\* The loop that returns a remainder of any size gives the heap those units.
LEMMA UnitsInserted ==
    ASSUME NEW h, Sound(h), NEW ptr \in Int, NEW nu \in Nat \ {0},
           FreshUnits(h, Units(ptr, nu))
    PROVE  Gained(h, InsertUnits(h, ptr, nu), Units(ptr, nu))
<1> DEFINE more == NodesLists(ptr, nu)
<1>1. more \in Families /\ ListsApart(more) /\ Covered(more) = Units(ptr, nu)
  BY NodesTile
<1>2. InsertUnits(h, ptr, nu) = WithNodes(h, more)
  BY DEF InsertUnits, Joined, NodesLists, WithNodes
<1> HIDE DEF more
<1>3. FreshUnits(h, Covered(more))
  BY <1>1
<1>4. Gained(h, WithNodes(h, more), Covered(more))
  BY <1>1, <1>3, ListsGain
<1> QED BY <1>1, <1>2, <1>4

\* The block ptr of nu units has left the heap h; what is left is g.
Left(h, g, ptr, nu) ==
    /\ Sound(g) /\ Arena(g) = Arena(h) /\ g.UnitsStart = h.UnitsStart
    /\ ptr \in Int
    /\ Units(ptr, nu) \cap Space(g) = {}
    /\ Units(ptr, nu) \cup Space(g) = Space(h)

\* RemoveNode takes the units of one node out of the heap.
LEMMA NodeRemoved ==
    ASSUME NEW h, Sound(h), NEW i \in Indexes, NEW r \in RemoveNode(h, i)
    PROVE  Left(h, r.heap, r.ptr, I2U(i)) /\ r.heap.GlueCount = h.GlueCount
           /\ r.ptr \in h.FreeList[i]
<1>1. PICK node \in h.FreeList[i] :
          r = Result(node, [h EXCEPT !.FreeList[i] = @ \ {node}, !.Stamps[i] = @ - 1])
  BY DEF RemoveNode
<1>2. h \in HeapTypes /\ h.FreeList \in Families /\ h.GlueCount \in 0..GlueReset
      /\ ListsApart(h.FreeList) /\ Bounds(h) /\ Counted(h)
      /\ h.Stamps \in [Indexes -> Int]
      /\ Covered(h.FreeList) \cap GapUnits(h) = {} /\ Space(h) \subseteq Arena(h)
  BY DEF Sound, HeapTypes
<1> DEFINE less == [h.FreeList EXCEPT ![i] = @ \ {node}]
           counts == [h.Stamps EXCEPT ![i] = @ - 1]
<1>3. [h EXCEPT !.FreeList[i] = @ \ {node}, !.Stamps[i] = @ - 1]
          = [h EXCEPT !.FreeList = less, !.Stamps = counts]
  BY <1>2 DEF HeapTypes
<1>4. /\ less \in Families /\ ListsApart(less)
      /\ Covered(less) = Covered(h.FreeList) \ Units(node, I2U(i))
      /\ Units(node, I2U(i)) \subseteq Covered(h.FreeList)
  BY <1>2, ListsRemove
<1>5. node \in Int
  BY <1>2, NodesAreUnits
<1>6. ASSUME NEW j \in Indexes
      PROVE  IsFiniteSet(less[j]) /\ counts[j] = Cardinality(less[j]) /\ counts[j] \in Int
  <2>1. IsFiniteSet(h.FreeList[j]) /\ h.Stamps[j] = Cardinality(h.FreeList[j])
        /\ h.Stamps[j] \in Int
    BY <1>2 DEF Counted
  <2>2. CASE j = i
    <3>1. less[j] = h.FreeList[j] \ {node} /\ counts[j] = h.Stamps[j] - 1 /\ node \in h.FreeList[j]
      BY <1>2, <2>2 DEF Families
    <3>2. IsFiniteSet(h.FreeList[j] \ {node})
          /\ Cardinality(h.FreeList[j] \ {node}) = Cardinality(h.FreeList[j]) - 1
      <4> DEFINE old == h.FreeList[j]
      <4>1. IsFiniteSet(old) /\ node \in old
        BY <2>1, <3>1
      <4> HIDE DEF old
      <4>2. IsFiniteSet(old \ {node})
            /\ Cardinality(old \ {node}) = IF node \in old THEN Cardinality(old) - 1
                                           ELSE Cardinality(old)
        BY <4>1, FS_RemoveElement
      <4> QED BY <4>1, <4>2 DEF old
    <3> HIDE DEF less, counts
    <3> QED BY <2>1, <3>1, <3>2
  <2>3. CASE j # i
    <3>1. less[j] = h.FreeList[j] /\ counts[j] = h.Stamps[j]
      BY <1>2, <2>3 DEF Families
    <3> QED BY <2>1, <3>1
  <2> QED BY <2>2, <2>3
<1>7. counts \in [Indexes -> Int]
  BY <1>2
<1> HIDE DEF less, counts
<1> DEFINE g == [h EXCEPT !.FreeList = less, !.Stamps = counts]
<1>8. /\ g \in HeapTypes /\ g.GlueCount = h.GlueCount /\ g.FreeList = less
      /\ g.Stamps = counts
      /\ g.UnitsStart = h.UnitsStart /\ g.LoUnit = h.LoUnit /\ g.HiUnit = h.HiUnit
  BY <1>2, <1>4, <1>7 DEF HeapTypes
<1>9. r.ptr = node /\ r.heap = g
  BY <1>1, <1>3 DEF Result
<1> HIDE DEF g
<1>10. Counted(g)
  BY <1>6, <1>8 DEF Counted
<1>11. Covered(less) \cap GapUnits(h) = {} /\ Covered(less) \subseteq Arena(h)
  BY <1>2, <1>4 DEF Space
<1>12. Sound(g) /\ Arena(g) = Arena(h) /\ Space(g) = Covered(less) \cup GapUnits(h)
  BY <1>2, <1>4, <1>8, <1>10, <1>11, NewLists
<1>13. Units(node, I2U(i)) \cap Space(g) = {}
  BY <1>2, <1>4, <1>12
<1>14. Units(node, I2U(i)) \cup Space(g) = Space(h)
  BY <1>4, <1>12 DEF Space
<1> QED BY <1>5, <1>8, <1>9, <1>12, <1>13, <1>14 DEF Left

\* SplitBlock gives back what is behind the smaller block.
LEMMA BlockSplit ==
    ASSUME NEW h, Sound(h), NEW ptr \in Int, NEW i0 \in Indexes, NEW i1 \in Indexes,
           i1 < i0, FreshUnits(h, Units(ptr, I2U(i0)))
    PROVE  LET g == SplitBlock(h, ptr, i0, i1) IN
           /\ Sound(g) /\ Arena(g) = Arena(h) /\ g.UnitsStart = h.UnitsStart
           /\ g.GlueCount = h.GlueCount
           /\ Units(ptr, I2U(i1)) \cap Space(g) = {}
           /\ Units(ptr, I2U(i1)) \cup Space(g) = Space(h) \cup Units(ptr, I2U(i0))
<1> DEFINE front == Units(ptr, I2U(i1))
           rest == I2U(i0) - I2U(i1)
           behind == ptr + U2B(I2U(i1))
           back == Units(behind, rest)
           g == SplitBlock(h, ptr, i0, i1)
<1>1. I2U(i0) \in Nat \ {0} /\ I2U(i1) \in Nat \ {0} /\ I2U(i1) < I2U(i0)
  BY SizesGrow
<1>2. rest \in Nat \ {0} /\ rest \in Nat /\ I2U(i1) + rest = I2U(i0) /\ I2U(i1) \in Nat
  BY <1>1
<1>3. behind \in Int
  <2>1. U2B(I2U(i1)) \in Int
    BY <1>2, BytesOfUnits
  <2> QED BY <2>1
<1>4. g = InsertUnits(h, behind, rest)
  BY DEF SplitBlock
<1> HIDE DEF g, rest
<1>5. Units(ptr, I2U(i0)) = front \cup back /\ front \cap back = {}
  BY <1>2, UnitsJoin
<1> HIDE DEF behind, back, front
<1>6. back \cap Space(h) = {} /\ back \subseteq Arena(h)
  BY <1>5 DEF FreshUnits
<1>7. FreshUnits(h, Units(behind, rest))
  BY <1>6 DEF FreshUnits, back
<1>8. Gained(h, g, back)
  BY <1>2, <1>3, <1>4, <1>7, UnitsInserted DEF back
<1>9. front \cap Space(h) = {}
  BY <1>5 DEF FreshUnits
<1>10. /\ Sound(g) /\ Arena(g) = Arena(h) /\ g.UnitsStart = h.UnitsStart
       /\ g.GlueCount = h.GlueCount /\ Space(g) = Space(h) \cup back
  BY <1>8 DEF Gained
<1>11. front \cap Space(g) = {} /\ front \cup Space(g) = Space(h) \cup Units(ptr, I2U(i0))
  BY <1>5, <1>9, <1>10
<1> QED BY <1>10, <1>11 DEF g, front

-------------------------------------------------------------------------------
(***************************************************************************)
(* Runs of free units, and gluing.                                         *)
(***************************************************************************)

\* FreeRun counts the free units in a row from an address on.
LEMMA FreeRunIs ==
    ASSUME NEW units \in SUBSET (AlignOffset..ArenaEnd - 1), NEW at \in Int, AlignOffset <= at
    PROVE  LET n == FreeRun(at, units) IN
           /\ n \in 0..Size /\ n \in Nat /\ at + U2B(n) \notin units
           /\ \A m \in 0..n - 1 : at + U2B(m) \in units
<1> DEFINE Ends == {n \in Nat : at + U2B(n) \notin units}
<1>1. Size \in Nat /\ AlignOffset \in Nat \ {0} /\ ArenaEnd = AlignOffset + Size
  BY SizesAssumption DEF ArenaEnd
<1>2. Size \in Ends
  <2>1. U2B(Size) \in Nat /\ Size <= U2B(Size)
    BY <1>1, BytesOfUnits
  <2>2. at + U2B(Size) >= ArenaEnd /\ ArenaEnd \in Int /\ at + U2B(Size) \in Int
    BY <1>1, <2>1
  <2>3. at + U2B(Size) \notin AlignOffset..ArenaEnd - 1
    BY <1>1, <2>2
  <2> QED BY <1>1, <2>3
<1>3. PICK n \in Ends : \A k \in Ends : n <= k
  BY <1>2, LeastNumber
<1>4. n \in Nat /\ n <= Size /\ n \in 0..Size /\ at + U2B(n) \notin units
  BY <1>1, <1>2, <1>3
<1>5. ASSUME NEW m \in 0..n - 1 PROVE at + U2B(m) \in units
  <2>1. m \in Nat /\ ~(n <= m)
    BY <1>4
  <2>2. m \notin Ends
    BY <1>3, <2>1
  <2> QED BY <2>1, <2>2
<1> HIDE DEF Ends
<1> DEFINE Is(k) == /\ at + U2B(k) \notin units
                    /\ \A m \in 0..k - 1 : at + U2B(m) \in units
<1>6. \E k \in 0..Size : Is(k)
  BY <1>4, <1>5
<1> HIDE DEF Is
<1>7. FreeRun(at, units) = CHOOSE k \in 0..Size : Is(k)
  BY DEF FreeRun, Is
<1> DEFINE e == FreeRun(at, units)
<1>8. e \in 0..Size /\ Is(e)
  BY <1>6, <1>7
<1> HIDE DEF e
<1>9. e \in Nat
  BY <1>1, <1>8
<1> QED BY <1>8, <1>9 DEF e, Is

\* The free nodes with no free unit before them, and the run of each.
RunsOf(lists) ==
    {x \in Covered(lists) : /\ \E i \in Indexes : x \in lists[i]
                            /\ x - UNIT_SIZE \notin Covered(lists)}
RunLengths(lists) == [x \in RunsOf(lists) |-> FreeRun(x, Covered(lists))]

\* A run has its node, ends before the next run, and goes on without a hole.
LEMMA RunsAre ==
    ASSUME NEW lists \in Families, Covered(lists) \subseteq AlignOffset..ArenaEnd - 1
    PROVE  /\ RunsOf(lists) \in SUBSET Covered(lists)
           /\ RunLengths(lists) \in [RunsOf(lists) -> Nat \ {0}]
           /\ AreRuns(Covered(lists), RunsOf(lists), RunLengths(lists))
<1> DEFINE units == Covered(lists)
           kept == RunsOf(lists)
           ext(x) == FreeRun(x, units)
<1>1. units \in SUBSET (AlignOffset..ArenaEnd - 1) /\ AlignOffset \in Nat /\ ArenaEnd \in Nat
  BY ArenaEndIs
<1>2. kept \subseteq units /\ \A x \in kept : x - UNIT_SIZE \notin units
  BY DEF RunsOf
<1> HIDE DEF units, kept
<1>3. ASSUME NEW x \in kept
      PROVE  /\ x \in Int /\ ext(x) \in Nat \ {0} /\ x + U2B(ext(x)) \notin units
             /\ \A m \in 1..ext(x) - 1 : x + U2B(m) \in units \ kept
  <2>1. x \in Int /\ AlignOffset <= x /\ x \in units
    BY <1>1, <1>2
  <2> DEFINE n == ext(x)
  <2>2. /\ n \in Nat /\ x + U2B(n) \notin units
        /\ \A m \in 0..n - 1 : x + U2B(m) \in units
    BY <1>1, <2>1, FreeRunIs
  <2> HIDE DEF n
  <2>3. n # 0
    BY <2>1, <2>2, BytesOfUnits
  <2>4. ASSUME NEW m \in 1..n - 1 PROVE x + U2B(m) \in units \ kept
    <3> DEFINE j == m - 1
    <3>1. m \in 0..n - 1 /\ j \in 0..n - 1 /\ j \in Int /\ m = j + 1
      BY <2>2
    <3> HIDE DEF j
    <3>2. U2B(j + 1) = U2B(j) + UNIT_SIZE /\ U2B(j) \in Int /\ UNIT_SIZE \in Int
      BY <3>1, BytesOfUnits, UnitSizeIs
    <3>3. (x + U2B(m)) - UNIT_SIZE = x + U2B(j)
      BY <2>1, <3>1, <3>2
    <3>4. x + U2B(m) \in units /\ x + U2B(j) \in units
      BY <2>2, <3>1
    <3> QED BY <1>2, <3>3, <3>4
  <2> QED BY <2>1, <2>2, <2>3, <2>4 DEF n
<1>4. RunLengths(lists) = [x \in kept |-> ext(x)]
  BY DEF RunLengths, kept, units
<1> HIDE DEF ext
<1>5. RunLengths(lists) \in [kept -> Nat \ {0}]
  BY <1>3, <1>4
<1>6. AreRuns(units, kept, RunLengths(lists))
  BY <1>3, <1>4 DEF AreRuns, RunEnds
<1> QED BY <1>2, <1>5, <1>6 DEF units, kept

\* Gluing neither loses nor doubles a free unit, and counts its blocks anew.
LEMMA Glued ==
    ASSUME NEW h, Sound(h)
    PROVE  LET g == GlueFreeBlocks(h) IN
           /\ Sound(g) /\ Arena(g) = Arena(h) /\ Space(g) = Space(h)
           /\ g.UnitsStart = h.UnitsStart /\ g.GlueCount = GlueReset
<1> DEFINE units == Covered(h.FreeList)
           lists == RunsLists(RunsOf(h.FreeList), RunLengths(h.FreeList))
           counts == [i \in Indexes |-> Cardinality(lists[i])]
           g == GlueFreeBlocks(h)
<1>1. h \in HeapTypes /\ h.FreeList \in Families /\ Bounds(h)
      /\ units \cap GapUnits(h) = {} /\ Space(h) \subseteq Arena(h)
      /\ Space(h) = units \cup GapUnits(h)
  BY DEF Sound, HeapTypes, Space
<1>2. units \subseteq Arena(h)
  BY <1>1
<1>3. units \subseteq AlignOffset..ArenaEnd - 1
  BY <1>1, <1>2, ArenaBetween
<1>4. {node \in FreeNodes(h) : node - UNIT_SIZE \notin units} = RunsOf(h.FreeList)
  <2>1. ASSUME NEW i \in Indexes, NEW node \in h.FreeList[i] PROVE node \in units
    BY <1>1, NodesAreUnits
  <2> HIDE DEF units
  <2> QED BY <2>1 DEF FreeNodes, RunsOf, units
<1>5. FreeUnits(h) = units
  BY DEF FreeUnits, Covered
<1>6. g = [h EXCEPT !.FreeList = lists, !.Stamps = counts, !.GlueCount = GlueReset]
  <2>1. [i \in Indexes |->
            UNION {NodesOf(node, FreeRun(node, units), i) : node \in RunsOf(h.FreeList)}]
        = lists
    <3>1. ASSUME NEW i \in Indexes
          PROVE  UNION {NodesOf(node, FreeRun(node, units), i) : node \in RunsOf(h.FreeList)}
                 = UNION {NodesOf(x, RunLengths(h.FreeList)[x], i) : x \in RunsOf(h.FreeList)}
      BY DEF RunLengths
    <3> QED BY <3>1 DEF RunsLists
  <2> HIDE DEF units, lists
  <2> QED BY <1>4, <1>5, <2>1 DEF GlueFreeBlocks
<1>7. lists \in Families /\ ListsApart(lists) /\ Covered(lists) = units
  <2> DEFINE kept == RunsOf(h.FreeList)
             extent == RunLengths(h.FreeList)
  <2>1. kept \in SUBSET units /\ extent \in [kept -> Nat \ {0}]
        /\ AreRuns(units, kept, extent)
    BY <1>1, <1>3, RunsAre
  <2>2. \A i \in Indexes : \A node \in h.FreeList[i] :
            node - UNIT_SIZE \notin units => node \in kept
    BY <1>1, NodesAreUnits DEF RunsOf
  <2> HIDE DEF kept, extent
  <2> QED BY <1>1, <1>3, <2>1, <2>2, RunsGlued DEF kept, extent
<1>8. ASSUME NEW i \in Indexes
      PROVE  IsFiniteSet(lists[i]) /\ counts[i] = Cardinality(lists[i]) /\ counts[i] \in Int
  <2> HIDE DEF lists
  <2>1. IsFiniteSet(lists[i]) /\ Cardinality(lists[i]) \in 0..Size
    BY <1>1, <1>2, <1>7, ListsFinite
  <2>2. Size \in Nat
    BY SizesAssumption
  <2> QED BY <2>1, <2>2
<1>9. counts \in [Indexes -> Int]
  BY <1>8
<1> HIDE DEF lists, counts, g
<1>10. GlueReset \in Int /\ GlueReset \in 0..GlueReset
  BY RestoreAssumption
<1>11. /\ g \in HeapTypes /\ g.GlueCount = GlueReset /\ g.FreeList = lists
       /\ g.Stamps = counts
       /\ g.UnitsStart = h.UnitsStart /\ g.LoUnit = h.LoUnit /\ g.HiUnit = h.HiUnit
  BY <1>1, <1>6, <1>7, <1>9, <1>10 DEF HeapTypes
<1>12. Counted(g)
  BY <1>8, <1>11 DEF Counted
<1>13. Sound(g) /\ Arena(g) = Arena(h) /\ Space(g) = Covered(g.FreeList) \cup GapUnits(h)
  BY <1>1, <1>2, <1>7, <1>10, <1>11, <1>12, NewLists
<1> QED BY <1>1, <1>7, <1>11, <1>13 DEF g

-------------------------------------------------------------------------------
(***************************************************************************)
(* Allocation.                                                             *)
(***************************************************************************)

\* The request is served from space in the arena, or from what the arena grows
\* downwards by; the text is not reached.  If it is not served, nothing is lost.
Served(h, r, nu) ==
    /\ Sound(r.heap) /\ Text < r.heap.UnitsStart
    /\ Arena(h) \subseteq Arena(r.heap)
    /\ r.ptr = NULL => Arena(r.heap) = Arena(h) /\ Space(r.heap) = Space(h)
    /\ r.ptr # NULL =>
           /\ r.ptr \in Int
           /\ Units(r.ptr, nu) \cap Space(r.heap) = {}
           /\ Units(r.ptr, nu) \cup Space(r.heap)
                  = Space(h) \cup (Arena(r.heap) \ Arena(h))

\* A block that left the heap is one an allocation may return.
LEMMA LeftServes ==
    ASSUME NEW h, Sound(h), NEW r, NEW nu \in Nat \ {0}, Text < h.UnitsStart,
           Left(h, r.heap, r.ptr, nu)
    PROVE  Served(h, r, nu) /\ r.ptr # NULL
<1>1. /\ Sound(r.heap) /\ Arena(r.heap) = Arena(h) /\ r.heap.UnitsStart = h.UnitsStart
      /\ r.ptr \in Int /\ Units(r.ptr, nu) \cap Space(r.heap) = {}
      /\ Units(r.ptr, nu) \cup Space(r.heap) = Space(h)
  BY DEF Left
<1>2. Arena(r.heap) \ Arena(h) = {}
  BY <1>1
<1>3. r.ptr \in Units(r.ptr, nu)
  BY <1>1, FirstOfUnits
<1>4. h \in HeapTypes /\ Bounds(h) /\ Space(h) \subseteq Arena(h)
  BY DEF Sound
<1>5. r.ptr # NULL
  BY <1>1, <1>3, <1>4, ArenaNotNull
<1> QED BY <1>1, <1>2, <1>5 DEF Served

\* The arena grows downwards.
LEMMA FromText ==
    ASSUME NEW h, Sound(h), Text \in Int, AlignOffset <= Text, Text < h.UnitsStart,
           h.GlueCount # 0, NEW indx \in Indexes, NEW r \in TakeFromText(h, indx)
    PROVE  Served(h, r, I2U(indx))
<1> DEFINE nu == I2U(indx)
           bytes == U2B(nu)
           less == [h EXCEPT !.GlueCount = @ - 1]
<1>1. nu \in Nat /\ bytes \in Int /\ bytes \in Nat
  BY SizesGrow, BytesOfUnits
<1>2. /\ h \in HeapTypes /\ Bounds(h) /\ h.GlueCount \in 0..GlueReset /\ Counted(h)
      /\ ListsApart(h.FreeList) /\ Covered(h.FreeList) \cap GapUnits(h) = {}
      /\ Space(h) \subseteq Arena(h)
  BY DEF Sound
<1>3. /\ GlueReset \in Nat /\ AlignOffset \in Nat /\ h.GlueCount \in Int
      /\ h.UnitsStart \in Int /\ h.LoUnit \in Int /\ h.HiUnit \in Int
  BY <1>2, RestoreAssumption, SizesAssumption DEF HeapTypes
<1>4. h.GlueCount - 1 \in 0..GlueReset /\ h.GlueCount - 1 \in Int
  BY <1>2, <1>3
<1>5. r = IF h.UnitsStart - Text > bytes
          THEN Result(h.UnitsStart - bytes, [less EXCEPT !.UnitsStart = @ - bytes])
          ELSE Result(NULL, less)
  BY DEF TakeFromText
<1>6. CASE ~(h.UnitsStart - Text > bytes)
  <2> HIDE DEF bytes, nu
  <2>1. r.ptr = NULL /\ r.heap = less
    BY <1>5, <1>6 DEF Result
  <2>2. /\ less \in HeapTypes /\ less.GlueCount \in 0..GlueReset
        /\ less.UnitsStart = h.UnitsStart /\ less.LoUnit = h.LoUnit
        /\ less.HiUnit = h.HiUnit /\ less.FreeList = h.FreeList /\ less.Stamps = h.Stamps
    BY <1>2, <1>4 DEF HeapTypes
  <2> HIDE DEF less
  <2>3. Covered(h.FreeList) \subseteq Arena(h)
    BY <1>2 DEF Space
  <2>4. Counted(less)
    BY <1>2, <2>2 DEF Counted
  <2>5. Sound(less) /\ Arena(less) = Arena(h) /\ Space(less) = Space(h)
    BY <1>2, <2>2, <2>3, <2>4, NewLists DEF Space
  <2> QED BY <2>1, <2>2, <2>5 DEF Served
<1>7. CASE h.UnitsStart - Text > bytes
  <2> DEFINE start == h.UnitsStart - bytes
             g == [less EXCEPT !.UnitsStart = start]
             size == nu + ArenaSize(h)
  <2>1. r.ptr = start /\ r.heap = g
    BY <1>5, <1>7 DEF Result
  <2>2. start \in Int /\ Text < start /\ AlignOffset <= start /\ start # 0
        /\ start + bytes = h.UnitsStart
    BY <1>1, <1>3, <1>7, ArenaEndIs
  <2> HIDE DEF start
  <2>3. /\ g \in HeapTypes /\ g.GlueCount = h.GlueCount - 1
        /\ g.UnitsStart = start /\ g.LoUnit = h.LoUnit
        /\ g.HiUnit = h.HiUnit /\ g.FreeList = h.FreeList /\ g.Stamps = h.Stamps
    BY <1>2, <1>4, <2>2 DEF HeapTypes
  <2> HIDE DEF g, less
  <2>4. /\ GapSize(g) = GapSize(h) /\ GapUnits(g) = GapUnits(h) /\ Space(g) = Space(h)
        /\ (Counted(h) => Counted(g))
    BY <2>3 DEF GapSize, GapUnits, Space, Counted
  <2>5. ArenaSize(h) \in Nat /\ ArenaEnd = h.UnitsStart + U2B(ArenaSize(h))
        /\ GapSize(h) \in Nat /\ h.HiUnit = h.LoUnit + U2B(GapSize(h))
    BY <1>2 DEF Bounds
  <2>6. size \in Nat /\ U2B(size) = bytes + U2B(ArenaSize(h))
    <3>1. size \in Nat /\ nu \in Int /\ ArenaSize(h) \in Int
      BY <1>1, <2>5
    <3>2. U2B(nu + ArenaSize(h)) = U2B(nu) + U2B(ArenaSize(h))
      BY <3>1, BytesOfUnits
    <3> QED BY <3>1, <3>2
  <2>7. ArenaEnd = start + U2B(size)
    <3>1. U2B(ArenaSize(h)) \in Int
      BY <2>5, BytesOfUnits
    <3> DEFINE a == U2B(ArenaSize(h))
               c == U2B(size)
    <3>2. a \in Int /\ c = bytes + a /\ ArenaEnd = h.UnitsStart + a
      BY <2>5, <2>6, <3>1
    <3> HIDE DEF a, c, bytes
    <3>3. ArenaEnd = start + c
      BY <1>1, <2>2, <3>2
    <3> QED BY <3>3 DEF c
  <2>8. ArenaSize(g) = size
    <3> DEFINE c == U2B(size)
    <3>1. c \in Int /\ ArenaEnd = start + c /\ c \div UNIT_SIZE = size
      BY <2>6, <2>7, BytesOfUnits, WholeUnits
    <3> HIDE DEF c, size
    <3>2. ArenaEnd - start = c
      BY <2>2, <3>1
    <3> QED BY <2>3, <3>1, <3>2 DEF ArenaSize
  <2>9. /\ Arena(g) = Units(start, nu) \cup Arena(h)
        /\ Units(start, nu) \cap Arena(h) = {}
    <3>1. /\ Units(start, nu + ArenaSize(h))
                 = Units(start, nu) \cup Units(start + bytes, ArenaSize(h))
          /\ Units(start, nu) \cap Units(start + bytes, ArenaSize(h)) = {}
      BY <1>1, <2>2, <2>5, UnitsJoin
    <3> HIDE DEF nu, bytes
    <3>2. Arena(h) = Units(start + bytes, ArenaSize(h))
      BY <2>2 DEF Arena
    <3>3. Arena(g) = Units(start, nu + ArenaSize(h))
      BY <2>3, <2>8 DEF Arena
    <3> QED BY <3>1, <3>2, <3>3
  <2> HIDE DEF size, nu, bytes
  <2>10. Bounds(g)
    BY <2>2, <2>3, <2>4, <2>5, <2>6, <2>7, <2>8 DEF Bounds
  <2>11. Sound(g)
    BY <1>2, <1>4, <2>3, <2>4, <2>9, <2>10 DEF Sound
  <2>12. Units(start, nu) \cap Space(g) = {}
    BY <1>2, <2>4, <2>9
  <2>13. Units(start, nu) \cup Space(g) = Space(h) \cup (Arena(g) \ Arena(h))
    BY <2>4, <2>9
  <2> QED BY <2>1, <2>2, <2>3, <2>9, <2>11, <2>12, <2>13 DEF Served, nu, NULL
<1> QED BY <1>6, <1>7

\* Blocks are taken from either end of the gap.
LEMMA GapCut ==
    ASSUME NEW h, Sound(h), NEW m \in Nat, NEW n \in Nat, GapSize(h) = m + n
    PROVE  LET cut == h.LoUnit + U2B(m) IN
           /\ Left(h, [h EXCEPT !.LoUnit = cut], h.LoUnit, m)
           /\ Left(h, [h EXCEPT !.HiUnit = cut], cut, n)
<1> DEFINE lo == h.LoUnit
           cut == lo + U2B(m)
           lower == Units(lo, m)
           upper == Units(cut, n)
           free == Covered(h.FreeList)
           above == [h EXCEPT !.LoUnit = cut]
           below == [h EXCEPT !.HiUnit = cut]
<1>1. /\ h \in HeapTypes /\ Bounds(h) /\ h.GlueCount \in 0..GlueReset /\ Counted(h)
      /\ ListsApart(h.FreeList) /\ free \cap GapUnits(h) = {}
      /\ free \cup GapUnits(h) \subseteq Arena(h)
      /\ Space(h) = free \cup GapUnits(h)
  BY DEF Sound, Space
<1>2. /\ AlignOffset <= h.UnitsStart
      /\ h.HiUnit = lo + U2B(GapSize(h))
      /\ ArenaSize(h) \in Nat /\ ArenaEnd = h.UnitsStart + U2B(ArenaSize(h))
      /\ lo \in Int /\ h.UnitsStart \in Int /\ h.HiUnit \in Int
  BY <1>1 DEF Bounds, HeapTypes
<1>3. /\ U2B(m) \in Nat /\ U2B(n) \in Nat /\ U2B(m + n) = U2B(m) + U2B(n)
      /\ U2B(m) \div UNIT_SIZE = m /\ U2B(n) \div UNIT_SIZE = n
  <2>1. m \in Int /\ n \in Int
    OBVIOUS
  <2> QED BY <2>1, BytesOfUnits, WholeUnits
<1>4. GapUnits(h) = lower \cup upper /\ lower \cap upper = {}
  <2>1. lo \in Int
    BY <1>2
  <2> HIDE DEF lo
  <2>2. Units(lo, m + n) = lower \cup upper /\ lower \cap upper = {}
    BY <2>1, UnitsJoin
  <2> HIDE DEF lower, upper
  <2> QED BY <2>2 DEF GapUnits, lo
<1>5. /\ cut \in Int /\ h.HiUnit = cut + U2B(n)
      /\ cut - lo = U2B(m) /\ h.HiUnit - cut = U2B(n)
  <2> DEFINE a == U2B(m)
             b == U2B(n)
             c == U2B(m + n)
  <2>1. a \in Nat /\ b \in Nat /\ c = a + b /\ h.HiUnit = lo + c /\ cut = lo + a
    BY <1>2, <1>3
  <2> HIDE DEF a, b, c, cut, lo
  <2>2. /\ cut \in Int /\ h.HiUnit = cut + b
        /\ cut - lo = a /\ h.HiUnit - cut = b
    BY <1>2, <2>1
  <2> QED BY <2>2 DEF a, b
<1> HIDE DEF cut
<1>6. /\ above \in HeapTypes /\ above.LoUnit = cut /\ above.HiUnit = h.HiUnit
      /\ above.UnitsStart = h.UnitsStart /\ above.FreeList = h.FreeList
      /\ above.GlueCount = h.GlueCount /\ above.Stamps = h.Stamps
  BY <1>1, <1>5 DEF HeapTypes
<1>7. /\ below \in HeapTypes /\ below.LoUnit = h.LoUnit /\ below.HiUnit = cut
      /\ below.UnitsStart = h.UnitsStart /\ below.FreeList = h.FreeList
      /\ below.GlueCount = h.GlueCount /\ below.Stamps = h.Stamps
  BY <1>1, <1>5 DEF HeapTypes
<1> HIDE DEF above, below, lo
<1>8. /\ GapSize(above) = n /\ GapUnits(above) = upper
      /\ ArenaSize(above) = ArenaSize(h) /\ Arena(above) = Arena(h)
      /\ Space(above) = free \cup upper
  <2>1. GapSize(above) = n /\ ArenaSize(above) = ArenaSize(h)
    BY <1>3, <1>5, <1>6 DEF GapSize, ArenaSize
  <2> QED BY <1>6, <2>1 DEF GapUnits, Arena, Space
<1>9. /\ GapSize(below) = m /\ GapUnits(below) = lower
      /\ ArenaSize(below) = ArenaSize(h) /\ Arena(below) = Arena(h)
      /\ Space(below) = free \cup lower
  <2>1. GapSize(below) = m /\ ArenaSize(below) = ArenaSize(h)
    BY <1>3, <1>5, <1>7 DEF GapSize, ArenaSize, lo
  <2> QED BY <1>7, <2>1 DEF GapUnits, Arena, Space, lo
<1> HIDE DEF lower, upper, free
<1>10. Bounds(above) /\ Counted(above)
  BY <1>1, <1>2, <1>5, <1>6, <1>8 DEF Bounds, Counted
<1>11. Bounds(below) /\ Counted(below)
  BY <1>1, <1>2, <1>5, <1>7, <1>9 DEF Bounds, Counted, lo, cut
<1>12. Sound(above)
  <2>1. free \cap upper = {} /\ free \cup upper \subseteq Arena(h)
    BY <1>1, <1>4
  <2>2. Covered(above.FreeList) = free
    BY <1>6 DEF free
  <2> QED BY <1>1, <1>6, <1>8, <1>10, <2>1, <2>2 DEF Sound
<1>13. Sound(below)
  <2>1. free \cap lower = {} /\ free \cup lower \subseteq Arena(h)
    BY <1>1, <1>4
  <2>2. Covered(below.FreeList) = free
    BY <1>7 DEF free
  <2> QED BY <1>1, <1>7, <1>9, <1>11, <2>1, <2>2 DEF Sound
<1>14. lower \cap Space(above) = {} /\ lower \cup Space(above) = Space(h)
  BY <1>1, <1>4, <1>8
<1>15. upper \cap Space(below) = {} /\ upper \cup Space(below) = Space(h)
  BY <1>1, <1>4, <1>9
<1>16. Left(h, above, lo, m)
  BY <1>2, <1>6, <1>8, <1>12, <1>14 DEF Left, lower
<1>17. Left(h, below, cut, n)
  BY <1>5, <1>7, <1>9, <1>13, <1>15 DEF Left, upper
<1> QED BY <1>16, <1>17 DEF above, below, lo, cut

\* A block that leaves a heap and is cut leaves a smaller block outside.
LEMMA LeftAndSplit ==
    ASSUME NEW h, Sound(h), NEW q, NEW i0 \in Indexes, NEW i1 \in Indexes, i1 < i0,
           Left(h, q.heap, q.ptr, I2U(i0))
    PROVE  Left(h, SplitBlock(q.heap, q.ptr, i0, i1), q.ptr, I2U(i1))
<1> DEFINE block == Units(q.ptr, I2U(i0))
           g == SplitBlock(q.heap, q.ptr, i0, i1)
<1>1. /\ Sound(q.heap) /\ Arena(q.heap) = Arena(h) /\ q.heap.UnitsStart = h.UnitsStart
      /\ q.ptr \in Int /\ block \cap Space(q.heap) = {}
      /\ block \cup Space(q.heap) = Space(h)
  BY DEF Left
<1>2. Space(h) \subseteq Arena(h)
  BY DEF Sound
<1>3. FreshUnits(q.heap, block)
  BY <1>1, <1>2 DEF FreshUnits
<1> HIDE DEF g
<1>4. /\ Sound(g) /\ Arena(g) = Arena(q.heap) /\ g.UnitsStart = q.heap.UnitsStart
      /\ Units(q.ptr, I2U(i1)) \cap Space(g) = {}
      /\ Units(q.ptr, I2U(i1)) \cup Space(g) = Space(q.heap) \cup block
  BY <1>1, <1>3, BlockSplit DEF g
<1> QED BY <1>1, <1>4 DEF Left, g

\* The next larger block is cut, or the arena grows.
LEMMA FromLarger ==
    ASSUME NEW h, Sound(h), Text \in Int, AlignOffset <= Text, Text < h.UnitsStart,
           h.GlueCount # 0, NEW indx \in Indexes, NEW r \in TakeFromLarger(h, indx)
    PROVE  Served(h, r, I2U(indx))
<1> DEFINE larger == {i \in indx + 1..LastIndex : h.FreeList[i] # {}}
           next == CHOOSE i \in larger : \A j \in larger : i <= j
<1>1. indx \in Nat /\ LastIndex \in Nat /\ I2U(indx) \in Nat \ {0}
  BY LastIndexIs, SizesGrow
<1>2. CASE larger = {}
  <2>1. r \in TakeFromText(h, indx)
    BY <1>2 DEF TakeFromLarger
  <2> QED BY <2>1, FromText
<1>3. CASE larger # {}
  <2>1. larger \in SUBSET Nat
    BY <1>1
  <2>2. \E i \in larger : \A j \in larger : i <= j
    BY <1>3, <2>1, LeastNumber
  <2>3. next \in larger
    BY <2>2
  <2>4. next \in Indexes /\ indx < next
    <3>1. next \in Nat /\ indx < next /\ next <= LastIndex
      BY <1>1, <2>3
    <3> QED BY <3>1, LastIndexIs
  <2>5. PICK q \in RemoveNode(h, next) :
            r = Result(q.ptr, SplitBlock(q.heap, q.ptr, next, indx))
    BY <1>3 DEF TakeFromLarger
  <2> HIDE DEF next, larger
  <2>6. Left(h, q.heap, q.ptr, I2U(next))
    BY <2>4, NodeRemoved
  <2>7. Left(h, SplitBlock(q.heap, q.ptr, next, indx), q.ptr, I2U(indx))
    BY <2>4, <2>6, LeftAndSplit
  <2>8. r.ptr = q.ptr /\ r.heap = SplitBlock(q.heap, q.ptr, next, indx)
    BY <2>5 DEF Result
  <2> QED BY <1>1, <2>7, <2>8, LeftServes
<1> QED BY <1>2, <1>3

\* AllocUnitsRare returns units nobody uses, or NULL.
LEMMA Rare ==
    ASSUME NEW h, Sound(h), Text \in Int, AlignOffset <= Text, Text < h.UnitsStart,
           NEW indx \in Indexes, NEW r \in AllocUnitsRare(h, indx)
    PROVE  Served(h, r, I2U(indx))
<1>1. I2U(indx) \in Nat \ {0}
  BY SizesGrow
<1>2. CASE h.GlueCount # 0
  <2>1. r \in TakeFromLarger(h, indx)
    BY <1>2 DEF AllocUnitsRare
  <2> QED BY <1>2, <2>1, FromLarger
<1>3. CASE h.GlueCount = 0
  <2> DEFINE g == GlueFreeBlocks(h)
  <2>1. r \in IF g.FreeList[indx] # {} THEN RemoveNode(g, indx) ELSE TakeFromLarger(g, indx)
    BY <1>3 DEF AllocUnitsRare
  <2>2. /\ Sound(g) /\ Arena(g) = Arena(h) /\ Space(g) = Space(h)
        /\ g.UnitsStart = h.UnitsStart /\ g.GlueCount = GlueReset
    BY Glued
  <2> HIDE DEF g
  <2>3. g.GlueCount # 0
    BY <2>2, RestoreAssumption
  <2>4. Served(g, r, I2U(indx)) => Served(h, r, I2U(indx))
    BY <2>2 DEF Served
  <2>5. CASE g.FreeList[indx] # {}
    <3>1. r \in RemoveNode(g, indx)
      BY <2>1, <2>5
    <3>2. Left(g, r.heap, r.ptr, I2U(indx))
      BY <2>2, <3>1, NodeRemoved
    <3> QED BY <1>1, <2>2, <2>4, <3>2, LeftServes
  <2>6. CASE g.FreeList[indx] = {}
    <3>1. r \in TakeFromLarger(g, indx)
      BY <2>1, <2>6
    <3> QED BY <2>2, <2>3, <2>4, <3>1, FromLarger
  <2> QED BY <2>5, <2>6
<1> QED BY <1>2, <1>3

\* The same of AllocUnits, with its list and its gap.
LEMMA UnitsAllocated ==
    ASSUME NEW h, Sound(h), Text \in Int, AlignOffset <= Text, Text < h.UnitsStart,
           NEW indx \in Indexes, NEW r \in AllocUnits(h, indx)
    PROVE  Served(h, r, I2U(indx))
<1> DEFINE nu == I2U(indx)
           bytes == U2B(nu)
<1>1. nu \in Nat \ {0} /\ nu \in Nat /\ nu \in Int
  BY SizesGrow
<1>2. CASE h.FreeList[indx] # {}
  <2>1. r \in RemoveNode(h, indx)
    BY <1>2 DEF AllocUnits
  <2>2. Left(h, r.heap, r.ptr, nu)
    BY <2>1, NodeRemoved
  <2> QED BY <1>1, <2>2, LeftServes
<1>3. CASE h.FreeList[indx] = {} /\ bytes <= h.HiUnit - h.LoUnit
  <2>1. r = Result(h.LoUnit, [h EXCEPT !.LoUnit = @ + bytes])
    BY <1>3 DEF AllocUnits
  <2>2. /\ h \in HeapTypes /\ h.LoUnit \in Int /\ h.HiUnit \in Int
        /\ GapSize(h) \in Nat /\ h.HiUnit = h.LoUnit + U2B(GapSize(h))
    BY DEF Sound, Bounds, HeapTypes
  <2>3. GapSize(h) \in Int
    BY <2>2
  <2>4. nu <= GapSize(h)
    <3>1. U2B(GapSize(h)) \in Int /\ bytes \in Int /\ UNIT_SIZE \in Nat \ {0}
      BY <1>1, <2>3, BytesOfUnits, UnitSizeIs
    <3>2. GapSize(h) < nu => U2B(GapSize(h)) + UNIT_SIZE <= bytes
      BY <1>1, <2>3, BytesOfUnits
    <3> DEFINE c == U2B(GapSize(h))
    <3>3. c \in Int /\ h.HiUnit = h.LoUnit + c /\ (GapSize(h) < nu => c + UNIT_SIZE <= bytes)
      BY <2>2, <3>1, <3>2
    <3>4. bytes <= h.HiUnit - h.LoUnit /\ h.LoUnit \in Int /\ h.HiUnit \in Int
      BY <1>3, <2>2
    <3> HIDE DEF c, bytes
    <3>5. ~(c + UNIT_SIZE <= bytes)
      BY <3>1, <3>3, <3>4
    <3>6. ~(GapSize(h) < nu)
      BY <3>3, <3>5
    <3> HIDE DEF nu
    <3> QED BY <1>1, <2>3, <3>6
  <2> DEFINE rest == GapSize(h) - nu
  <2>5. rest \in Nat /\ GapSize(h) = nu + rest
    BY <1>1, <2>3, <2>4
  <2> HIDE DEF rest, nu
  <2>6. Left(h, [h EXCEPT !.LoUnit = h.LoUnit + U2B(nu)], h.LoUnit, nu)
    BY <1>1, <2>5, GapCut
  <2>7. r.ptr = h.LoUnit /\ r.heap = [h EXCEPT !.LoUnit = h.LoUnit + U2B(nu)]
    BY <2>1 DEF Result
  <2>8. Served(h, r, nu)
    BY <1>1, <2>6, <2>7, LeftServes
  <2> QED BY <2>8 DEF nu
<1>4. CASE h.FreeList[indx] = {} /\ ~(bytes <= h.HiUnit - h.LoUnit)
  <2>1. r \in AllocUnitsRare(h, indx)
    BY <1>4 DEF AllocUnits
  <2> QED BY <2>1, Rare
<1> QED BY <1>2, <1>3, <1>4

\* The same of the allocation in CreateSuccessors, with the top of the gap.
LEMMA ContextAllocated ==
    ASSUME NEW h, Sound(h), Text \in Int, AlignOffset <= Text, Text < h.UnitsStart,
           NEW r \in AllocContext(h)
    PROVE  Served(h, r, 1)
<1>1. 0 \in Indexes /\ I2U(0) = 1 /\ 1 \in Nat \ {0}
  BY SizesGrow, LastIndexIs
<1>2. CASE h.HiUnit # h.LoUnit
  <2>1. r = Result(h.HiUnit - UNIT_SIZE, [h EXCEPT !.HiUnit = h.HiUnit - UNIT_SIZE])
    BY <1>2 DEF AllocContext
  <2>2. /\ h \in HeapTypes /\ h.LoUnit \in Int /\ h.HiUnit \in Int
        /\ GapSize(h) \in Nat /\ h.HiUnit = h.LoUnit + U2B(GapSize(h))
    BY DEF Sound, Bounds, HeapTypes
  <2>3. GapSize(h) # 0
    <3>1. U2B(0) = 0
      BY BytesOfUnits
    <3>2. GapSize(h) = 0 => h.HiUnit = h.LoUnit
      BY <2>2, <3>1
    <3> QED BY <1>2, <3>2
  <2> DEFINE m == GapSize(h) - 1
  <2>4. m \in Nat /\ GapSize(h) = m + 1 /\ m \in Int /\ 1 \in Int
    BY <2>2, <2>3
  <2> HIDE DEF m
  <2>5. U2B(m + 1) = U2B(m) + UNIT_SIZE /\ U2B(m) \in Nat /\ UNIT_SIZE \in Int
    BY <2>4, BytesOfUnits, UnitSizeIs
  <2> DEFINE c == U2B(m)
             d == U2B(m + 1)
  <2>6. d = c + UNIT_SIZE /\ c \in Nat /\ h.HiUnit = h.LoUnit + d
    BY <2>2, <2>4, <2>5
  <2> HIDE DEF c, d
  <2>7. h.HiUnit - UNIT_SIZE = h.LoUnit + c
    BY <2>2, <2>5, <2>6
  <2>8. Left(h, [h EXCEPT !.HiUnit = h.LoUnit + c], h.LoUnit + c, 1)
    BY <2>4, GapCut DEF c
  <2>9. r.ptr = h.LoUnit + c /\ r.heap = [h EXCEPT !.HiUnit = h.LoUnit + c]
    BY <2>1, <2>7 DEF Result
  <2> QED BY <1>1, <2>8, <2>9, LeftServes
<1>3. CASE h.HiUnit = h.LoUnit /\ h.FreeList[0] # {}
  <2>1. r \in RemoveNode(h, 0)
    BY <1>3 DEF AllocContext
  <2>2. Left(h, r.heap, r.ptr, 1)
    BY <1>1, <2>1, NodeRemoved
  <2> QED BY <1>1, <2>2, LeftServes
<1>4. CASE h.HiUnit = h.LoUnit /\ h.FreeList[0] = {}
  <2>1. r \in AllocUnitsRare(h, 0)
    BY <1>4 DEF AllocContext
  <2> QED BY <1>1, <2>1, Rare
<1> QED BY <1>2, <1>3, <1>4

-------------------------------------------------------------------------------
(***************************************************************************)
(* Blocks given back, and an arena that gives units back to the text.      *)
(***************************************************************************)

\* From h to g somebody has got the units new for the units old.  Units may
\* have left the arena to the text, or joined it from there.
Exchanged(h, g, old, new) ==
    /\ Sound(g) /\ (Text < h.UnitsStart => Text < g.UnitsStart)
    /\ new \cap Space(g) = {} /\ new \subseteq Arena(g)
    /\ new \cup Space(g) \cup (Arena(h) \ Arena(g))
           = old \cup Space(h) \cup (Arena(g) \ Arena(h))

\* An allocation that is served gives units for nothing, a failed one nothing.
LEMMA ServedExchanges ==
    ASSUME NEW h, Sound(h), NEW r, NEW nu, Served(h, r, nu)
    PROVE  /\ r.ptr = NULL => Exchanged(h, r.heap, {}, {})
           /\ r.ptr # NULL => Exchanged(h, r.heap, {}, Units(r.ptr, nu))
<1>1. /\ Sound(r.heap) /\ Text < r.heap.UnitsStart /\ Arena(h) \subseteq Arena(r.heap)
      /\ Space(r.heap) \subseteq Arena(r.heap) /\ Space(h) \subseteq Arena(h)
  BY DEF Served, Sound
<1>2. CASE r.ptr = NULL
  BY <1>1, <1>2 DEF Served, Exchanged
<1>3. CASE r.ptr # NULL
  <2> DEFINE new == Units(r.ptr, nu)
  <2>1. /\ new \cap Space(r.heap) = {}
        /\ new \cup Space(r.heap) = Space(h) \cup (Arena(r.heap) \ Arena(h))
    BY <1>3 DEF Served
  <2> HIDE DEF new
  <2>2. Exchanged(h, r.heap, {}, new)
    BY <1>1, <2>1 DEF Exchanged
  <2> QED BY <1>3, <2>2 DEF new
<1> QED BY <1>2, <1>3

\* A node that is inserted gives units and gets nothing.
LEMMA GainedExchanges ==
    ASSUME NEW h, NEW g, NEW units, Gained(h, g, units)
    PROVE  Exchanged(h, g, units, {})
  BY DEF Gained, Exchanged

\* Units somebody has, and the heap and nobody else has not.
LEMMA Exchange ==
    ASSUME NEW h, Sound(h), NEW old, FreshUnits(h, old)
    PROVE  Exchanged(h, h, old, old)
  BY DEF FreshUnits, Exchanged

\* Where the exchange ends with units of a block, the block is not at NULL.
LEMMA ExchangedNotNull ==
    ASSUME NEW h, NEW g, NEW old, NEW ptr \in Int, NEW nu \in Nat \ {0},
           Exchanged(h, g, old, Units(ptr, nu))
    PROVE  ptr # NULL
<1>1. ptr \in Arena(g) /\ g \in HeapTypes /\ Bounds(g)
  BY FirstOfUnits DEF Exchanged, Sound
<1> QED BY <1>1, ArenaNotNull

\* A block is given back for one that has just left the lists.
LEMMA LeftThenGained ==
    ASSUME NEW h, Sound(h), NEW old, FreshUnits(h, old), NEW mid, NEW g, NEW ptr, NEW nu,
           Left(h, mid, ptr, nu), FreshUnits(mid, old) => Gained(mid, g, old)
    PROVE  Exchanged(h, g, old, Units(ptr, nu))
<1> DEFINE new == Units(ptr, nu)
<1>1. /\ Sound(mid) /\ Arena(mid) = Arena(h) /\ mid.UnitsStart = h.UnitsStart
      /\ new \cap Space(mid) = {} /\ new \cup Space(mid) = Space(h)
      /\ Space(h) \subseteq Arena(h) /\ old \cap Space(h) = {} /\ old \subseteq Arena(h)
  BY DEF Left, Sound, FreshUnits
<1> HIDE DEF new
<1>2. FreshUnits(mid, old)
  BY <1>1 DEF FreshUnits
<1>3. /\ Sound(g) /\ Arena(g) = Arena(mid) /\ g.UnitsStart = mid.UnitsStart
      /\ Space(g) = Space(mid) \cup old
  BY <1>2 DEF Gained
<1> QED BY <1>1, <1>3 DEF Exchanged, new

\* A block for a smaller one: the rest of it, or all of it when the lists have a
\* block of the smaller size, is free again.
LEMMA UnitsShrunk ==
    ASSUME NEW h, Sound(h), NEW oldPtr \in Int, NEW i0 \in Indexes, NEW i1 \in Indexes,
           i1 <= i0, FreshUnits(h, Units(oldPtr, I2U(i0))),
           NEW r \in ShrinkUnits(h, oldPtr, i0, i1)
    PROVE  /\ Exchanged(h, r.heap, Units(oldPtr, I2U(i0)), Units(r.ptr, I2U(i1)))
           /\ r.ptr \in Int /\ r.ptr # NULL
<1> DEFINE old == Units(oldPtr, I2U(i0))
<1>1. I2U(i1) \in Nat \ {0} /\ i0 \in Nat /\ i1 \in Nat
  BY SizesGrow, LastIndexIs
<1>2. Exchanged(h, r.heap, old, Units(r.ptr, I2U(i1))) /\ r.ptr \in Int
  <2>1. CASE i0 = i1
    <3>1. r.ptr = oldPtr /\ r.heap = h
      BY <2>1 DEF ShrinkUnits, Result
    <3> QED BY <2>1, <3>1, Exchange
  <2>2. CASE i0 # i1 /\ h.FreeList[i1] # {}
    <3>1. PICK q \in RemoveNode(h, i1) : r = Result(q.ptr, InsertNode(q.heap, oldPtr, i0))
      BY <2>2 DEF ShrinkUnits
    <3>2. r.ptr = q.ptr /\ r.heap = InsertNode(q.heap, oldPtr, i0)
      BY <3>1 DEF Result
    <3>3. Left(h, q.heap, q.ptr, I2U(i1))
      BY NodeRemoved
    <3>4. q.ptr \in Int /\ Sound(q.heap)
      BY <3>3 DEF Left
    <3>5. FreshUnits(q.heap, old) => Gained(q.heap, r.heap, old)
      BY <3>2, <3>4, NodeInserted
    <3> HIDE DEF old
    <3> QED BY <3>2, <3>3, <3>4, <3>5, LeftThenGained DEF old
  <2>3. CASE i0 # i1 /\ h.FreeList[i1] = {}
    <3> DEFINE g == SplitBlock(h, oldPtr, i0, i1)
    <3>1. i1 < i0
      BY <1>1, <2>3
    <3>2. r = Result(oldPtr, g)
      BY <2>3 DEF ShrinkUnits
    <3>3. /\ Sound(g) /\ Arena(g) = Arena(h) /\ g.UnitsStart = h.UnitsStart
          /\ Units(oldPtr, I2U(i1)) \cap Space(g) = {}
          /\ Units(oldPtr, I2U(i1)) \cup Space(g) = Space(h) \cup old
      BY <3>1, BlockSplit
    <3> HIDE DEF g
    <3>4. r.ptr = oldPtr /\ r.heap = g
      BY <3>2 DEF Result
    <3>5. old \subseteq Arena(h) /\ Space(h) \subseteq Arena(h)
      BY DEF FreshUnits, Sound
    <3> HIDE DEF old
    <3> QED BY <3>3, <3>4, <3>5 DEF Exchanged
  <2> QED BY <2>1, <2>2, <2>3
<1>3. r.ptr # NULL
  BY <1>1, <1>2, ExchangedNotNull
<1> QED BY <1>2, <1>3

\* A run of units that begins another run has not more units than it.
LEMMA FrontFits ==
    ASSUME NEW at \in Int, NEW m \in Nat, NEW n \in Nat, Units(at, m) \subseteq Units(at, n)
    PROVE  m <= n
<1> SUFFICES ASSUME n < m PROVE FALSE
  OBVIOUS
<1>1. n \in 0..m - 1 /\ n \in Int
  OBVIOUS
<1>2. at + U2B(n) \in Units(at, n)
  BY <1>1 DEF Units
<1>3. PICK k \in 0..n - 1 : at + U2B(n) = at + U2B(k)
  BY <1>2 DEF Units
<1>4. k \in Int /\ k # n
  OBVIOUS
<1> QED BY <1>1, <1>3, <1>4, SameUnit

\* UnitsStart passes units that somebody had, and that are in no list.
LEMMA ArenaRises ==
    ASSUME NEW h, Sound(h), Text \in Int, NEW m \in Nat, FreshUnits(h, Units(h.UnitsStart, m))
    PROVE  LET g == [h EXCEPT !.UnitsStart = @ + U2B(m)] IN
           /\ Exchanged(h, g, Units(h.UnitsStart, m), {})
           /\ Arena(g) = Arena(h) \ Units(h.UnitsStart, m) /\ Space(g) = Space(h)
<1> DEFINE at == h.UnitsStart
           front == Units(at, m)
           start == at + U2B(m)
           rest == ArenaSize(h) - m
           g == [h EXCEPT !.UnitsStart = start]
<1>1. /\ h \in HeapTypes /\ h.GlueCount \in 0..GlueReset /\ Bounds(h) /\ Counted(h)
      /\ ListsApart(h.FreeList) /\ Covered(h.FreeList) \cap GapUnits(h) = {}
      /\ Space(h) \subseteq Arena(h)
      /\ front \cap Space(h) = {} /\ front \subseteq Arena(h)
  BY DEF Sound, FreshUnits
<1>2. /\ at \in Int /\ AlignOffset <= at /\ ArenaSize(h) \in Nat
      /\ ArenaEnd = at + U2B(ArenaSize(h)) /\ AlignOffset \in Int
      /\ GapSize(h) \in Nat /\ h.HiUnit = h.LoUnit + U2B(GapSize(h))
  BY <1>1, ArenaEndIs DEF Bounds, HeapTypes
<1>3. m <= ArenaSize(h)
  BY <1>1, <1>2, FrontFits DEF Arena
<1>4. rest \in Nat /\ ArenaSize(h) = m + rest /\ rest \in Int /\ m \in Int
  BY <1>2, <1>3
<1> HIDE DEF rest
<1>5. /\ Arena(h) = front \cup Units(start, rest) /\ front \cap Units(start, rest) = {}
  <2>1. at \in Int
    BY <1>2
  <2> HIDE DEF at
  <2>2. /\ Units(at, m + rest) = front \cup Units(start, rest)
        /\ front \cap Units(start, rest) = {}
    BY <1>4, <2>1, UnitsJoin
  <2> HIDE DEF front, start
  <2> QED BY <1>4, <2>2 DEF Arena, at
<1>6. /\ U2B(m) \in Nat /\ U2B(rest) \in Nat /\ U2B(m + rest) = U2B(m) + U2B(rest)
      /\ U2B(rest) \div UNIT_SIZE = rest
  BY <1>4, BytesOfUnits, WholeUnits
<1>7. /\ start \in Int /\ at <= start /\ ArenaEnd = start + U2B(rest)
      /\ ArenaEnd - start = U2B(rest)
  <2> DEFINE a == U2B(m)
             b == U2B(rest)
             c == U2B(m + rest)
  <2>1. a \in Nat /\ b \in Nat /\ c = a + b /\ ArenaEnd = at + c /\ start = at + a
    BY <1>2, <1>4, <1>6
  <2> HIDE DEF a, b, c, start, at
  <2>2. start \in Int /\ at <= start /\ ArenaEnd = start + b /\ ArenaEnd - start = b
    BY <1>2, <2>1
  <2> QED BY <2>2 DEF b
<1> HIDE DEF start
<1>8. /\ g \in HeapTypes /\ g.UnitsStart = start /\ g.LoUnit = h.LoUnit
      /\ g.HiUnit = h.HiUnit /\ g.FreeList = h.FreeList
      /\ g.GlueCount = h.GlueCount /\ g.Stamps = h.Stamps
  BY <1>1, <1>7 DEF HeapTypes
<1>9. [h EXCEPT !.UnitsStart = @ + U2B(m)] = g
  BY DEF start
<1> HIDE DEF g
<1>10. /\ ArenaSize(g) = rest /\ Arena(g) = Units(start, rest)
       /\ GapSize(g) = GapSize(h) /\ GapUnits(g) = GapUnits(h) /\ Space(g) = Space(h)
  <2>1. ArenaSize(g) = rest /\ GapSize(g) = GapSize(h)
    BY <1>6, <1>7, <1>8 DEF ArenaSize, GapSize
  <2> QED BY <1>8, <2>1 DEF Arena, GapUnits, Space
<1> HIDE DEF front
<1>11. AlignOffset <= start
  <2> HIDE DEF at
  <2> QED BY <1>2, <1>7
<1>12. Bounds(g) /\ Counted(g)
  BY <1>1, <1>2, <1>4, <1>7, <1>8, <1>10, <1>11 DEF Bounds, Counted
<1>13. Arena(g) = Arena(h) \ front /\ Space(g) \subseteq Arena(g)
  BY <1>1, <1>5, <1>10
<1>14. Sound(g)
  BY <1>1, <1>8, <1>10, <1>12, <1>13 DEF Sound
<1>15. Text < h.UnitsStart => Text < g.UnitsStart
  <2> HIDE DEF at
  <2>1. Text < at => Text < start
    BY <1>2, <1>7
  <2> QED BY <1>8, <2>1 DEF at
<1>16. Exchanged(h, g, front, {})
  BY <1>1, <1>10, <1>13, <1>14, <1>15 DEF Exchanged
<1> QED BY <1>9, <1>10, <1>13, <1>16 DEF front

\* SpecialFreeUnit: a unit goes to the lists, or back to the text.
LEMMA UnitFreed ==
    ASSUME NEW h, Sound(h), Text \in Int, NEW ptr \in Int, FreshUnits(h, {ptr})
    PROVE  Exchanged(h, SpecialFreeUnit(h, ptr), {ptr}, {})
<1>1. Units(ptr, 1) = {ptr} /\ I2U(0) = 1 /\ 0 \in Indexes /\ U2B(1) = UNIT_SIZE
  BY UnitsOne, SizesGrow, LastIndexIs, BytesOfUnits
<1>2. CASE ptr = h.UnitsStart
  <2> DEFINE g == [h EXCEPT !.UnitsStart = @ + U2B(1)]
  <2>1. FreshUnits(h, Units(h.UnitsStart, 1))
    BY <1>1, <1>2
  <2>2. Exchanged(h, g, Units(h.UnitsStart, 1), {})
    BY <2>1, ArenaRises
  <2>3. SpecialFreeUnit(h, ptr) = g
    BY <1>1, <1>2 DEF SpecialFreeUnit
  <2> HIDE DEF g
  <2> QED BY <1>1, <1>2, <2>2, <2>3
<1>3. CASE ptr # h.UnitsStart
  <2>1. SpecialFreeUnit(h, ptr) = InsertNode(h, ptr, 0)
    BY <1>3 DEF SpecialFreeUnit
  <2>2. Gained(h, InsertNode(h, ptr, 0), {ptr})
    BY <1>1, NodeInserted
  <2> QED BY <2>1, <2>2, GainedExchanges
<1> QED BY <1>2, <1>3

\* MoveUnitsUp: a block for one of the same size, if there is one above it; the
\* old one goes to the lists, or back to the text.
LEMMA UnitsMoved ==
    ASSUME NEW h, Sound(h), Text \in Int, NEW oldPtr \in Int, NEW indx \in Indexes,
           FreshUnits(h, Units(oldPtr, I2U(indx))),
           NEW r \in MoveUnitsUp(h, oldPtr, indx)
    PROVE  /\ Exchanged(h, r.heap, Units(oldPtr, I2U(indx)), Units(r.ptr, I2U(indx)))
           /\ r.ptr \in Int /\ r.ptr # NULL
<1> DEFINE nu == I2U(indx)
           old == Units(oldPtr, nu)
<1>1. nu \in Nat \ {0} /\ nu \in Nat
  BY SizesGrow
<1>2. Exchanged(h, r.heap, old, Units(r.ptr, nu)) /\ r.ptr \in Int
  <2>1. CASE r = Result(oldPtr, h)
    <3>1. r.ptr = oldPtr /\ r.heap = h
      BY <2>1 DEF Result
    <3> HIDE DEF nu
    <3> QED BY <3>1, Exchange DEF nu
  <2>2. CASE r # Result(oldPtr, h)
    <3>1. PICK q \in RemoveNode(h, indx) :
              r = Result(q.ptr, IF oldPtr # h.UnitsStart
                                THEN InsertNode(q.heap, oldPtr, indx)
                                ELSE [q.heap EXCEPT !.UnitsStart = @ + U2B(I2U(indx))])
      BY <2>2 DEF MoveUnitsUp
    <3>2. Left(h, q.heap, q.ptr, nu)
      BY NodeRemoved
    <3> DEFINE mid == q.heap
               new == Units(q.ptr, nu)
    <3>3. /\ Sound(mid) /\ Arena(mid) = Arena(h) /\ mid.UnitsStart = h.UnitsStart
          /\ q.ptr \in Int /\ new \cap Space(mid) = {} /\ new \cup Space(mid) = Space(h)
      BY <3>2 DEF Left
    <3>4. old \cap Space(h) = {} /\ old \subseteq Arena(h) /\ Space(h) \subseteq Arena(h)
      BY DEF FreshUnits, Sound
    <3>5. CASE oldPtr # h.UnitsStart
      <4>1. r.ptr = q.ptr /\ r.heap = InsertNode(mid, oldPtr, indx)
        BY <3>1, <3>5 DEF Result
      <4>2. FreshUnits(mid, old) => Gained(mid, r.heap, old)
        BY <3>3, <4>1, NodeInserted
      <4> HIDE DEF old, mid
      <4> QED BY <3>2, <3>3, <4>1, <4>2, LeftThenGained DEF mid, old
    <3>6. CASE oldPtr = h.UnitsStart
      <4> DEFINE g == [mid EXCEPT !.UnitsStart = @ + U2B(nu)]
      <4>1. r.ptr = q.ptr /\ r.heap = g
        BY <3>1, <3>6 DEF Result
      <4> HIDE DEF new, old, nu, mid
      <4>2. old = Units(mid.UnitsStart, nu) /\ FreshUnits(mid, old)
        BY <3>3, <3>4, <3>6 DEF FreshUnits, old
      <4>3. /\ Exchanged(mid, g, old, {}) /\ Arena(g) = Arena(mid) \ old
            /\ Space(g) = Space(mid)
        BY <1>1, <3>3, <4>2, ArenaRises
      <4> HIDE DEF g
      <4>4. /\ Sound(g) /\ (Text < h.UnitsStart => Text < g.UnitsStart)
        BY <3>3, <4>3 DEF Exchanged
      <4>5. Exchanged(h, g, old, new)
        BY <3>3, <3>4, <4>3, <4>4 DEF Exchanged
      <4> QED BY <3>3, <4>1, <4>5 DEF new
    <3> QED BY <3>5, <3>6
  <2> QED BY <2>1, <2>2
<1> HIDE DEF nu, old
<1>3. r.ptr # NULL
  BY <1>1, <1>2, ExchangedNotNull
<1> QED BY <1>2, <1>3 DEF nu, old

\* Whole lists without some of their nodes stay apart; what the others cover is
\* no longer covered.
LEMMA ListsPart ==
    ASSUME NEW lists \in Families, ListsApart(lists), NEW left \in Families,
           \A i \in Indexes : left[i] \subseteq lists[i], NEW gone,
           \A i \in Indexes : \A node \in lists[i] :
               IF node \in left[i] THEN Units(node, I2U(i)) \cap gone = {}
               ELSE Units(node, I2U(i)) \subseteq gone
    PROVE  ListsApart(left) /\ Covered(left) = Covered(lists) \ gone
<1>1. ListsApart(left)
  BY DEF ListsApart
<1>2. ASSUME NEW x PROVE x \in Covered(left) <=> x \in Covered(lists) /\ x \notin gone
  <2>1. ASSUME x \in Covered(left) PROVE x \in Covered(lists) /\ x \notin gone
    <3>1. PICK i \in Indexes : \E node \in left[i] : x \in Units(node, I2U(i))
      BY <2>1, CoveredBy
    <3>2. PICK node \in left[i] : x \in Units(node, I2U(i))
      BY <3>1
    <3>3. node \in lists[i] /\ Units(node, I2U(i)) \cap gone = {}
      OBVIOUS
    <3> QED BY <3>2, <3>3, CoveredBy
  <2>2. ASSUME x \in Covered(lists), x \notin gone PROVE x \in Covered(left)
    <3>1. PICK i \in Indexes : \E node \in lists[i] : x \in Units(node, I2U(i))
      BY <2>2, CoveredBy
    <3>2. PICK node \in lists[i] : x \in Units(node, I2U(i))
      BY <3>1
    <3>3. node \in left[i]
      BY <2>2, <3>2
    <3> QED BY <3>2, <3>3, CoveredBy
  <2> QED BY <2>1, <2>2
<1> QED BY <1>1, <1>2

\* A free block that begins among the first n units, behind which is none that
\* is free, lies among them; one that begins later does not reach them.
LEMMA FrontBlocks ==
    ASSUME NEW at \in Int, NEW n \in Nat, NEW units, at + U2B(n) \notin units,
           NEW node \in Int, NEW nu \in Nat \ {0}, Units(node, nu) \subseteq units,
           NEW total \in Nat, node \in Units(at, total)
    PROVE  IF node >= at + U2B(n)
           THEN Units(node, nu) \cap Units(at, n) = {}
           ELSE Units(node, nu) \subseteq Units(at, n)
<1>1. U2B(n) \in Int /\ UNIT_SIZE \in Nat \ {0}
  BY BytesOfUnits, UnitSizeIs
<1>2. CASE node >= at + U2B(n)
  <2> SUFFICES ASSUME NEW x \in Units(node, nu), x \in Units(at, n) PROVE FALSE
    BY <1>2
  <2>1. x \in Int /\ node <= x
    BY UnitsBetween
  <2>2. x + UNIT_SIZE <= at + U2B(n)
    BY UnitsBetween
  <2> DEFINE c == U2B(n)
  <2>3. c \in Int /\ x + UNIT_SIZE <= at + c /\ node >= at + c
    BY <1>1, <1>2, <2>2
  <2> HIDE DEF c
  <2> QED BY <1>1, <2>1, <2>3
<1>3. CASE ~(node >= at + U2B(n))
  <2>1. PICK b \in 0..total - 1 : node = at + U2B(b)
    BY DEF Units
  <2>2. b \in Nat /\ b \in Int /\ n \in Int
    OBVIOUS
  <2>3. b < n
    <3> SUFFICES ASSUME n <= b PROVE FALSE
      BY <2>2
    <3>1. n = b \/ U2B(n) + UNIT_SIZE <= U2B(b)
      BY <2>2, BytesOfUnits
    <3> DEFINE c == U2B(n)
               d == U2B(b)
    <3>2. c \in Int /\ d \in Int /\ (n = b => c = d) /\ node = at + d /\ ~(node >= at + c)
      BY <1>3, <2>1, <2>2, BytesOfUnits
    <3>3. c = d \/ c + UNIT_SIZE <= d
      BY <3>1
    <3> HIDE DEF c, d
    <3> QED BY <1>1, <3>2, <3>3
  <2>4. b + nu <= n
    <3> SUFFICES ASSUME n < b + nu PROVE FALSE
      BY <2>2
    <3> DEFINE k == n - b
    <3>1. k \in 0..nu - 1 /\ k \in Int /\ n = b + k
      BY <2>2, <2>3
    <3> HIDE DEF k
    <3>2. U2B(b + k) = U2B(b) + U2B(k) /\ U2B(b) \in Int /\ U2B(k) \in Int
      BY <2>2, <3>1, BytesOfUnits
    <3>3. node + U2B(k) = at + U2B(n)
      <4> DEFINE c == U2B(b)
                 d == U2B(k)
                 e == U2B(n)
      <4>1. e = c + d /\ c \in Int /\ d \in Int /\ node = at + c
        BY <2>1, <3>1, <3>2
      <4> HIDE DEF c, d, e
      <4>2. node + d = at + e
        BY <4>1
      <4> QED BY <4>2 DEF d, e
    <3>4. node + U2B(k) \in Units(node, nu)
      BY <3>1 DEF Units
    <3> QED BY <3>3, <3>4
  <2>5. ASSUME NEW x \in Units(node, nu) PROVE x \in Units(at, n)
    <3>1. PICK k \in b..b + nu - 1 : x = at + U2B(k)
      BY <2>1, <2>2, UnitsWithin
    <3>2. k \in 0..n - 1
      BY <2>2, <2>4
    <3> QED BY <3>1, <3>2 DEF Units
  <2> QED BY <1>3, <2>5
<1> QED BY <1>2, <1>3

\* ExpandTextArea takes the free blocks at UnitsStart, and only them, out of the
\* lists and out of the arena.
LEMMA TextExpanded ==
    ASSUME NEW h, Sound(h), Text \in Int
    PROVE  /\ Exchanged(h, ExpandTextArea(h), {}, {})
           /\ ExpandTextArea(h).GlueCount = h.GlueCount
<1> DEFINE units == Covered(h.FreeList)
           at == h.UnitsStart
           n == FreeRun(at, units)
           end == at + U2B(n)
           front == Units(at, n)
           left == [i \in Indexes |-> {node \in h.FreeList[i] : node >= end}]
           counts == [i \in Indexes |-> h.Stamps[i] - Cardinality(h.FreeList[i] \ left[i])]
           mid == [h EXCEPT !.FreeList = left, !.Stamps = counts]
           g == ExpandTextArea(h)
<1>1. /\ h \in HeapTypes /\ h.FreeList \in Families /\ h.GlueCount \in 0..GlueReset
      /\ Bounds(h) /\ Counted(h) /\ ListsApart(h.FreeList)
      /\ units \cap GapUnits(h) = {} /\ Space(h) \subseteq Arena(h)
      /\ Space(h) = units \cup GapUnits(h) /\ at \in Int /\ AlignOffset <= at
      /\ h.Stamps \in [Indexes -> Int]
  BY DEF Sound, HeapTypes, Space, Bounds
<1>2. units \subseteq Arena(h)
  BY <1>1
<1>3. units \in SUBSET (AlignOffset..ArenaEnd - 1)
  BY <1>1, <1>2, ArenaBetween
<1>4. /\ n \in Nat /\ end \notin units /\ \A m \in 0..n - 1 : at + U2B(m) \in units
  <2> HIDE DEF units, at
  <2> QED BY <1>1, <1>3, FreeRunIs
<1>5. FreeUnits(h) = units
  BY DEF FreeUnits, Covered
<1>6. g = [h EXCEPT !.UnitsStart = end, !.FreeList = left, !.Stamps = counts]
  <2> HIDE DEF units
  <2> QED BY <1>5 DEF ExpandTextArea
<1> HIDE DEF units, n, g
<1>7. front \subseteq units
  BY <1>4 DEF Units
<1>8. ASSUME NEW i \in Indexes, NEW node \in h.FreeList[i]
      PROVE  IF node \in left[i] THEN Units(node, I2U(i)) \cap front = {}
             ELSE Units(node, I2U(i)) \subseteq front
  <2>1. node \in Int /\ node \in units /\ Units(node, I2U(i)) \subseteq units
    BY <1>1, NodesAreUnits DEF units
  <2>2. node \in Units(at, ArenaSize(h)) /\ ArenaSize(h) \in Nat
    BY <1>1, <1>2, <2>1 DEF Arena, Bounds
  <2>3. I2U(i) \in Nat \ {0}
    BY SizesGrow
  <2>4. node \in left[i] <=> node >= end
    OBVIOUS
  <2> HIDE DEF left, at
  <2>5. IF node >= end THEN Units(node, I2U(i)) \cap front = {}
        ELSE Units(node, I2U(i)) \subseteq front
    BY <1>1, <1>4, <2>1, <2>2, <2>3, FrontBlocks
  <2> QED BY <2>4, <2>5
<1>9. left \in Families /\ \A i \in Indexes : left[i] \subseteq h.FreeList[i]
  BY <1>1 DEF Families
<1>10. ASSUME NEW i \in Indexes
       PROVE  IsFiniteSet(left[i]) /\ counts[i] = Cardinality(left[i]) /\ counts[i] \in Int
  <2> DEFINE old == h.FreeList[i]
             new == left[i]
             gone == old \ new
  <2>1. counts[i] = h.Stamps[i] - Cardinality(gone)
    OBVIOUS
  <2>2. IsFiniteSet(old) /\ h.Stamps[i] = Cardinality(old) /\ new \subseteq old
    BY <1>1, <1>9 DEF Counted
  <2> HIDE DEF old, new, counts
  <2>3. IsFiniteSet(new) /\ IsFiniteSet(gone) /\ new \cap gone = {} /\ old = new \cup gone
    BY <2>2, FS_Subset
  <2> HIDE DEF gone
  <2>4. /\ Cardinality(new \cup gone) = Cardinality(new) + Cardinality(gone)
        /\ Cardinality(new) \in Nat /\ Cardinality(gone) \in Nat
    BY <2>3, SizesAdd
  <2> QED BY <2>1, <2>2, <2>3, <2>4 DEF new
<1>11. counts \in [Indexes -> Int]
  BY <1>10
<1> HIDE DEF left, counts
<1>12. ListsApart(left) /\ Covered(left) = units \ front
  <2> HIDE DEF front
  <2> QED BY <1>1, <1>8, <1>9, ListsPart DEF units
<1>13. /\ mid \in HeapTypes /\ mid.GlueCount = h.GlueCount /\ mid.FreeList = left
       /\ mid.Stamps = counts
       /\ mid.UnitsStart = at /\ mid.LoUnit = h.LoUnit /\ mid.HiUnit = h.HiUnit
  BY <1>1, <1>9, <1>11 DEF HeapTypes
<1>14. g = [mid EXCEPT !.UnitsStart = @ + U2B(n)]
  BY <1>1, <1>6 DEF HeapTypes
<1> HIDE DEF mid
<1>15. Counted(mid)
  BY <1>10, <1>13 DEF Counted
<1>16. /\ Covered(mid.FreeList) \cap GapUnits(h) = {} /\ Covered(mid.FreeList) \subseteq Arena(h)
       /\ ListsApart(mid.FreeList) /\ mid.GlueCount \in 0..GlueReset
  BY <1>1, <1>2, <1>12, <1>13
<1>17. Sound(mid) /\ Arena(mid) = Arena(h) /\ Space(mid) = Covered(left) \cup GapUnits(h)
  BY <1>13, <1>15, <1>16, NewLists
<1> HIDE DEF front
<1>18. front \cap Space(mid) = {} /\ front \subseteq Arena(mid)
       /\ Space(mid) \cup front = Space(h)
  BY <1>1, <1>2, <1>7, <1>12, <1>17
<1>19. FreshUnits(mid, front) /\ front = Units(mid.UnitsStart, n)
  BY <1>13, <1>18 DEF FreshUnits, front
<1>20. /\ Exchanged(mid, g, front, {}) /\ Arena(g) = Arena(mid) \ front
       /\ Space(g) = Space(mid)
  BY <1>4, <1>14, <1>17, <1>19, ArenaRises
<1>21. Sound(g) /\ (Text < h.UnitsStart => Text < g.UnitsStart)
  BY <1>13, <1>20 DEF Exchanged
<1>22. Exchanged(h, g, {}, {})
  BY <1>17, <1>18, <1>20, <1>21 DEF Exchanged
<1>23. g.GlueCount = h.GlueCount
  BY <1>1, <1>6 DEF HeapTypes
<1> QED BY <1>22, <1>23 DEF g

\* GlueCount says when to glue, nothing else.
LEMMA GlueCountIsFree ==
    ASSUME NEW h, NEW g, NEW old, NEW new, Exchanged(h, g, old, new),
           NEW count \in 0..GlueReset
    PROVE  Exchanged(h, [g EXCEPT !.GlueCount = count], old, new)
<1> DEFINE k == [g EXCEPT !.GlueCount = count]
<1>1. /\ g \in HeapTypes /\ Bounds(g) /\ Counted(g) /\ ListsApart(g.FreeList)
      /\ Covered(g.FreeList) \cap GapUnits(g) = {} /\ Space(g) \subseteq Arena(g)
  BY DEF Exchanged, Sound
<1>2. count \in Int
  BY RestoreAssumption
<1>3. /\ k \in HeapTypes /\ k.GlueCount = count /\ k.FreeList = g.FreeList
      /\ k.Stamps = g.Stamps
      /\ k.UnitsStart = g.UnitsStart /\ k.LoUnit = g.LoUnit /\ k.HiUnit = g.HiUnit
  BY <1>1, <1>2 DEF HeapTypes
<1> HIDE DEF k
<1>4. Counted(k) /\ Covered(k.FreeList) \subseteq Arena(g)
  BY <1>1, <1>3 DEF Counted, Space
<1>5. Sound(k) /\ Arena(k) = Arena(g) /\ Space(k) = Covered(k.FreeList) \cup GapUnits(g)
  <2>1. Sound(g)
    BY DEF Exchanged
  <2> QED BY <1>1, <1>3, <1>4, <2>1, NewLists
<1>6. Space(k) = Space(g)
  BY <1>3, <1>5 DEF Space
<1> QED BY <1>3, <1>5, <1>6 DEF Exchanged, k

-------------------------------------------------------------------------------
(***************************************************************************)
(* Contexts and their blocks of states.                                    *)
(***************************************************************************)

\* u is t with other states: the contexts and their links are the same.
SameShape(t, u) ==
    /\ DOMAIN u = DOMAIN t
    /\ \A c \in DOMAIN t : u[c].parent = t[c].parent /\ u[c].order = t[c].order

\* A context has states of its own, or none.
LEMMA BlockOfIs ==
    ASSUME NEW stats \in Int, NEW indx \in Indexes
    PROVE  /\ stats = NULL => BlockOf(stats, indx) = {}
           /\ stats # NULL => BlockOf(stats, indx) = Units(stats, I2U(indx))
  BY DEF BlockOf

\* What a context has, the heap has not, and it lies in the arena.
LEMMA HeldIsFresh ==
    ASSUME NEW h, NEW t, SharesInv(h, t), NEW c \in DOMAIN t
    PROVE  /\ FreshUnits(h, BlockIn(t, c)) /\ BlockIn(t, c) \subseteq Taken(t)
           /\ FreshUnits(h, {c}) /\ {c} \subseteq Taken(t)
<1>1. BlockIn(t, c) \subseteq Taken(t) /\ {c} \subseteq Taken(t)
  BY DEF Taken, StatsTaken
<1> QED BY <1>1 DEF SharesInv, FreshUnits

\* Whoever exchanges what is his with a sound heap leaves everybody else's alone,
\* and nothing without an owner.
LEMMA SharesKept ==
    ASSUME NEW h, NEW g, NEW t, NEW u, NEW old, NEW new,
           SharesInv(h, t), Exchanged(h, g, old, new), old \subseteq Taken(t)
    PROVE  /\ new \cap (Taken(t) \ old) = {}
           /\ Taken(u) = (Taken(t) \ old) \cup new => SharesInv(g, u)
<1> DEFINE T == Taken(t)
           S == Space(h)
           A == Arena(h)
           S1 == Space(g)
           A1 == Arena(g)
<1>1. /\ T \cap S = {} /\ T \cup S = A
      /\ new \cap S1 = {} /\ new \subseteq A1 /\ S1 \subseteq A1
      /\ new \cup S1 \cup (A \ A1) = old \cup S \cup (A1 \ A)
  BY DEF SharesInv, Exchanged, Sound
<1> HIDE DEF T, S, A, S1, A1
<1>2. /\ new \cap (T \ old) = {}
      /\ ((T \ old) \cup new) \cap S1 = {}
  BY <1>1
<1>3. (T \ old) \cup new \cup S1 = A1
  <2>1. old \subseteq T
    BY DEF T
  <2>2. ASSUME NEW x \in T, x \notin old PROVE x \in A1
    BY <1>1, <2>2
  <2>3. ASSUME NEW x \in A1 PROVE x \in (T \ old) \cup new \cup S1
    BY <1>1, <2>3
  <2> QED BY <1>1, <2>2, <2>3
<1> QED BY <1>2, <1>3 DEF SharesInv, T, S1, A1

\* A context gets another block of states: the others keep theirs.
LEMMA BlockReplaced ==
    ASSUME NEW t, HeldInv(t), NEW c \in DOMAIN t, NEW ptr \in Int, NEW i \in Indexes,
           BlockOf(ptr, i) \cap (Taken(t) \ BlockIn(t, c)) = {}
    PROVE  LET u == [t EXCEPT ![c].stats = ptr, ![c].indx = i] IN
           /\ HeldInv(u) /\ SameShape(t, u)
           /\ Taken(u) = (Taken(t) \ BlockIn(t, c)) \cup BlockOf(ptr, i)
           /\ u[c].stats = ptr /\ u[c].indx = i
           /\ \A d \in DOMAIN t \ {c} : u[d] = t[d]
<1> DEFINE old == BlockIn(t, c)
           new == BlockOf(ptr, i)
           one == [t[c] EXCEPT !.stats = ptr, !.indx = i]
           u == [t EXCEPT ![c].stats = ptr, ![c].indx = i]
<1>1. /\ DOMAIN t \subseteq Int /\ t \in [DOMAIN t -> ContextTypes]
      /\ \A a, b \in DOMAIN t : a # b => BlockIn(t, a) \cap BlockIn(t, b) = {}
      /\ DOMAIN t \cap StatsTaken(t) = {}
  BY DEF HeldInv
<1>2. /\ t[c] \in ContextTypes /\ one \in ContextTypes /\ one.stats = ptr /\ one.indx = i
      /\ one.parent = t[c].parent /\ one.order = t[c].order
  BY <1>1 DEF ContextTypes
<1>3. u = [t EXCEPT ![c] = one]
  BY <1>1, <1>2
<1> HIDE DEF u, one
<1>4. /\ DOMAIN u = DOMAIN t /\ u[c] = one /\ \A d \in DOMAIN t \ {c} : u[d] = t[d]
      /\ u \in [DOMAIN u -> ContextTypes]
  BY <1>1, <1>2, <1>3
<1>5. /\ BlockIn(u, c) = new
      /\ \A d \in DOMAIN t \ {c} : BlockIn(u, d) = BlockIn(t, d)
  BY <1>2, <1>4 DEF BlockIn
<1>6. \A d \in DOMAIN t \ {c} : BlockIn(t, d) \subseteq Taken(t) \ old
  <2> SUFFICES ASSUME NEW d \in DOMAIN t \ {c} PROVE BlockIn(t, d) \subseteq Taken(t) \ old
    OBVIOUS
  <2>1. BlockIn(t, d) \cap old = {}
    BY <1>1
  <2>2. BlockIn(t, d) \subseteq Taken(t)
    BY DEF Taken, StatsTaken
  <2> QED BY <2>1, <2>2
<1>7. DOMAIN t \subseteq Taken(t) \ old
  BY <1>1 DEF Taken, StatsTaken
<1> HIDE DEF old, new
<1>8. new \cap (Taken(t) \ old) = {}
  BY DEF old, new
<1>9. \A a, b \in DOMAIN u : a # b => BlockIn(u, a) \cap BlockIn(u, b) = {}
  <2> SUFFICES ASSUME NEW a \in DOMAIN t, NEW b \in DOMAIN t, a # b
               PROVE  BlockIn(u, a) \cap BlockIn(u, b) = {}
    BY <1>4
  <2>1. CASE a = c
    BY <1>5, <1>6, <1>8, <2>1
  <2>2. CASE b = c
    BY <1>5, <1>6, <1>8, <2>2
  <2>3. CASE a # c /\ b # c
    BY <1>1, <1>5, <2>3
  <2> QED BY <2>1, <2>2, <2>3
<1>10. ASSUME NEW x
       PROVE  x \in StatsTaken(u) <=> x \in new \/ (x \in StatsTaken(t) /\ x \notin old)
  <2>1. x \in StatsTaken(u) <=> \E d \in DOMAIN t : x \in BlockIn(u, d)
    BY <1>4 DEF StatsTaken
  <2>2. x \in StatsTaken(t) <=> \E d \in DOMAIN t : x \in BlockIn(t, d)
    BY DEF StatsTaken
  <2>3. x \in BlockIn(t, c) <=> x \in old
    BY DEF old
  <2>4. ASSUME NEW d \in DOMAIN t \ {c}, x \in BlockIn(t, d) PROVE x \notin old
    BY <1>6, <2>4
  <2> QED BY <1>5, <2>1, <2>2, <2>3, <2>4
<1>11. DOMAIN u \cap StatsTaken(u) = {}
  BY <1>1, <1>4, <1>7, <1>8, <1>10
<1>12. Taken(u) = (Taken(t) \ old) \cup new
  BY <1>4, <1>7, <1>10 DEF Taken
<1>13. HeldInv(u)
  BY <1>1, <1>4, <1>9, <1>11 DEF HeldInv
<1>14. SameShape(t, u)
  BY <1>2, <1>4 DEF SameShape
<1> QED BY <1>2, <1>4, <1>12, <1>13, <1>14 DEF u, old, new

\* So a context may exchange its block with the heap.
LEMMA BlockExchanged ==
    ASSUME NEW t, HeldInv(t), NEW h, SharesInv(h, t), NEW c \in DOMAIN t, NEW g,
           NEW ptr \in Int, NEW i \in Indexes,
           Exchanged(h, g, BlockIn(t, c), BlockOf(ptr, i))
    PROVE  LET u == [t EXCEPT ![c].stats = ptr, ![c].indx = i] IN
           /\ HeldInv(u) /\ SharesInv(g, u) /\ SameShape(t, u)
           /\ u[c].stats = ptr /\ u[c].indx = i
           /\ \A d \in DOMAIN t \ {c} : u[d] = t[d]
<1> DEFINE u == [t EXCEPT ![c].stats = ptr, ![c].indx = i]
<1>1. BlockIn(t, c) \subseteq Taken(t)
  BY HeldIsFresh
<1>2. BlockOf(ptr, i) \cap (Taken(t) \ BlockIn(t, c)) = {}
  BY <1>1, SharesKept
<1>3. /\ HeldInv(u) /\ SameShape(t, u)
      /\ Taken(u) = (Taken(t) \ BlockIn(t, c)) \cup BlockOf(ptr, i)
      /\ u[c].stats = ptr /\ u[c].indx = i
      /\ \A d \in DOMAIN t \ {c} : u[d] = t[d]
  BY <1>2, BlockReplaced
<1> HIDE DEF u
<1>4. SharesInv(g, u)
  BY <1>1, <1>3, SharesKept
<1> QED BY <1>3, <1>4 DEF u

\* A context is added to the tree.
LEMMA ContextAdded ==
    ASSUME NEW t, HeldInv(t), NEW h, SharesInv(h, t), NEW g, NEW x \in Int, NEW one \in ContextTypes,
           one.stats = NULL, Exchanged(h, g, {}, {x})
    PROVE  LET u == [d \in DOMAIN t \cup {x} |-> IF d = x THEN one ELSE t[d]] IN
           /\ x \notin DOMAIN t
           /\ HeldInv(u) /\ SharesInv(g, u)
<1> DEFINE u == [d \in DOMAIN t \cup {x} |-> IF d = x THEN one ELSE t[d]]
<1>1. x \notin Taken(t)
  <2>1. {x} \cap (Taken(t) \ {}) = {}
    BY SharesKept
  <2> QED BY <2>1
<1>2. x \notin DOMAIN t /\ x \notin StatsTaken(t)
  BY <1>1 DEF Taken
<1>3. /\ DOMAIN t \subseteq Int /\ t \in [DOMAIN t -> ContextTypes]
      /\ \A a, b \in DOMAIN t : a # b => BlockIn(t, a) \cap BlockIn(t, b) = {}
      /\ DOMAIN t \cap StatsTaken(t) = {}
  BY DEF HeldInv
<1>4. /\ DOMAIN u = DOMAIN t \cup {x} /\ u[x] = one /\ \A d \in DOMAIN t : u[d] = t[d]
  BY <1>2
<1>5. u \in [DOMAIN u -> ContextTypes]
  BY <1>3
<1> HIDE DEF u
<1>6. BlockIn(u, x) = {} /\ \A d \in DOMAIN t : BlockIn(u, d) = BlockIn(t, d)
  BY <1>4 DEF BlockIn, BlockOf
<1>7. StatsTaken(u) = StatsTaken(t)
  BY <1>4, <1>6 DEF StatsTaken
<1>8. HeldInv(u)
  BY <1>2, <1>3, <1>4, <1>5, <1>6, <1>7 DEF HeldInv
<1>9. Taken(u) = (Taken(t) \ {}) \cup {x}
  BY <1>4, <1>7 DEF Taken
<1>10. SharesInv(g, u)
  BY <1>9, SharesKept
<1> QED BY <1>2, <1>8, <1>10 DEF u

\* A context without a block leaves the tree.
LEMMA ContextRemoved ==
    ASSUME NEW t, HeldInv(t), NEW h, SharesInv(h, t), NEW c \in DOMAIN t, t[c].stats = NULL,
           NEW g, Exchanged(h, g, {c}, {})
    PROVE  LET u == [d \in DOMAIN t \ {c} |-> t[d]] IN HeldInv(u) /\ SharesInv(g, u)
<1> DEFINE u == [d \in DOMAIN t \ {c} |-> t[d]]
<1>1. /\ DOMAIN t \subseteq Int /\ t \in [DOMAIN t -> ContextTypes]
      /\ \A a, b \in DOMAIN t : a # b => BlockIn(t, a) \cap BlockIn(t, b) = {}
      /\ DOMAIN t \cap StatsTaken(t) = {}
  BY DEF HeldInv
<1>2. DOMAIN u = DOMAIN t \ {c} /\ \A d \in DOMAIN u : u[d] = t[d]
  OBVIOUS
<1>3. u \in [DOMAIN u -> ContextTypes]
  BY <1>1
<1> HIDE DEF u
<1>4. BlockIn(t, c) = {} /\ \A d \in DOMAIN u : BlockIn(u, d) = BlockIn(t, d)
  BY <1>2 DEF BlockIn, BlockOf
<1>5. StatsTaken(u) = StatsTaken(t)
  BY <1>2, <1>4 DEF StatsTaken
<1>6. HeldInv(u)
  BY <1>1, <1>2, <1>3, <1>4, <1>5 DEF HeldInv
<1>7. Taken(u) = (Taken(t) \ {c}) \cup {}
  BY <1>1, <1>2, <1>5 DEF Taken
<1>8. {c} \subseteq Taken(t)
  BY HeldIsFresh
<1>9. SharesInv(g, u)
  BY <1>7, <1>8, SharesKept
<1> QED BY <1>6, <1>9 DEF u

-------------------------------------------------------------------------------
(***************************************************************************)
(* The tree of contexts.                                                   *)
(***************************************************************************)

\* The contexts are addresses other than NULL, and so finitely many.
LEMMA ContextsAre ==
    ASSUME NEW h, Sound(h), NEW t, HeldInv(t), SharesInv(h, t)
    PROVE  /\ DOMAIN t \subseteq Addresses /\ NULL \notin DOMAIN t
           /\ \A c \in DOMAIN t :
                  BlockIn(t, c) \subseteq Addresses /\ NULL \notin BlockIn(t, c)
           /\ \A S \in SUBSET DOMAIN t : IsFiniteSet(S) /\ Cardinality(S) \in Nat
<1>1. Taken(t) \subseteq Arena(h)
  BY DEF SharesInv
<1>2. \A x \in Arena(h) : x \in Addresses /\ x # NULL
  BY ArenaBetween, ArenaNotNull DEF Sound, Addresses
<1>3. DOMAIN t \subseteq Taken(t) /\ \A c \in DOMAIN t : BlockIn(t, c) \subseteq Taken(t)
  BY DEF Taken, StatsTaken
<1>4. DOMAIN t \subseteq Addresses
  BY <1>1, <1>2, <1>3
<1>5. ASSUME NEW S \in SUBSET DOMAIN t PROVE IsFiniteSet(S) /\ Cardinality(S) \in Nat
  <2>1. IsFiniteSet(S)
    BY <1>4, AddressesFinite
  <2> QED BY <2>1, FS_CardinalityType
<1> QED BY <1>1, <1>2, <1>3, <1>4, <1>5

\* No more children, no larger number.
LEMMA FewerChildren ==
    ASSUME NEW S, NEW T \in SUBSET S, IsFiniteSet(S)
    PROVE  Cardinality(T) \in Nat /\ Cardinality(S) \in Nat
           /\ Cardinality(T) <= Cardinality(S)
  BY FS_Subset, FS_CardinalityType

\* A set without elements has size 0, and no other has.
LEMMA NoChildren ==
    ASSUME NEW S, IsFiniteSet(S)
    PROVE  S = {} <=> Cardinality(S) = 0
  BY FS_EmptySet

\* Capacities are numbers; the one before the symbol is not larger.
LEMMA CapacityIs ==
    ASSUME NEW t, NEW c \in DOMAIN t, t[c] \in ContextTypes
    PROVE  /\ CapacityIn(t, c) \in Nat \ {0}
           /\ t[c].stats = NULL => CapacityIn(t, c) = 1
           /\ t[c].stats # NULL => CapacityIn(t, c) = 2 * I2U(t[c].indx)
           /\ I2U(t[c].indx) \in Nat \ {0}
<1>1. t[c].indx \in Indexes
  BY DEF ContextTypes
<1>2. I2U(t[c].indx) \in Nat \ {0}
  BY <1>1, SizesGrow
<1>3. 2 * I2U(t[c].indx) \in Nat \ {0}
  BY <1>2
<1> QED BY <1>2, <1>3 DEF CapacityIn

\* Contexts that get other states keep their places in the tree.
LEMMA ShapeKept ==
    ASSUME NEW t, NEW u, SameShape(t, u)
    PROVE  /\ \A c : ChildrenIn(u, c) = ChildrenIn(t, c)
           /\ TreeInv(t) => TreeInv(u)
<1>1. DOMAIN u = DOMAIN t
      /\ \A c \in DOMAIN t : u[c].parent = t[c].parent /\ u[c].order = t[c].order
  BY DEF SameShape
<1> QED BY <1>1 DEF ChildrenIn, TreeInv

\* The contexts of the highest order have no children.
LEMMA HighestHasNone ==
    ASSUME NEW t, HeldInv(t), TreeInv(t), NULL \notin DOMAIN t,
           NEW c \in DOMAIN t, t[c].order = MaxOrder
    PROVE  ChildrenIn(t, c) = {}
<1> SUFFICES ASSUME NEW d \in ChildrenIn(t, c) PROVE FALSE
  OBVIOUS
<1>1. d \in DOMAIN t /\ t[d].parent = c /\ c # NULL
  BY DEF ChildrenIn
<1>2. d # RootContext
  BY <1>1 DEF TreeInv
<1>3. t[d].order = MaxOrder + 1
  BY <1>1, <1>2 DEF TreeInv
<1>4. t[d].order \in 0..MaxOrder
  BY <1>1 DEF HeldInv, ContextTypes
<1>5. MaxOrder \in Nat
  BY RestoreAssumption
<1> QED BY <1>3, <1>4, <1>5

\* One context gets other states, enough for the successors it has.
LEMMA RoomKept ==
    ASSUME NEW t, NEW u, SameShape(t, u), NEW moved, NEW left, RoomInv(t, moved),
           NEW c \in DOMAIN t, \A d \in DOMAIN t \ {c} : u[d] = t[d],
           left \subseteq DOMAIN t, left \ {c} \subseteq moved,
           Cardinality(ChildrenIn(t, c)) <= CapacityIn(u, c),
           c \in left => /\ u[c].stats # NULL
                         /\ Cardinality(ChildrenIn(t, c)) <= Lately(u, c)
    PROVE  RoomInv(u, left)
<1>1. DOMAIN u = DOMAIN t /\ \A d : ChildrenIn(u, d) = ChildrenIn(t, d)
  BY ShapeKept DEF SameShape
<1>2. ASSUME NEW d \in DOMAIN u PROVE Cardinality(ChildrenIn(u, d)) <= CapacityIn(u, d)
  <2>1. CASE d = c
    BY <1>1, <2>1
  <2>2. CASE d # c
    <3>1. CapacityIn(u, d) = CapacityIn(t, d)
      BY <1>1, <2>2 DEF CapacityIn
    <3>2. Cardinality(ChildrenIn(t, d)) <= CapacityIn(t, d)
      BY <1>1 DEF RoomInv
    <3> QED BY <1>1, <3>1, <3>2
  <2> QED BY <2>1, <2>2
<1>3. ASSUME NEW d \in left
      PROVE  u[d].stats # NULL /\ Cardinality(ChildrenIn(u, d)) <= Lately(u, d)
  <2>1. CASE d = c
    BY <1>1, <2>1
  <2>2. CASE d # c
    <3>1. d \in moved /\ u[d] = t[d]
      BY <2>2
    <3>2. t[d].stats # NULL /\ Cardinality(ChildrenIn(t, d)) <= Lately(t, d)
      BY <3>1 DEF RoomInv
    <3>3. Lately(u, d) = Lately(t, d)
      BY <3>1 DEF Lately
    <3> QED BY <1>1, <3>1, <3>2, <3>3
  <2> QED BY <2>1, <2>2
<1> QED BY <1>2, <1>3 DEF RoomInv

\* A context nobody is the child of leaves the tree, and it stays a tree.
LEMMA LeafCut ==
    ASSUME NEW t, TreeInv(t), NEW c \in DOMAIN t, c # RootContext, ChildrenIn(t, c) = {}
    PROVE  LET u == [d \in DOMAIN t \ {c} |-> t[d]] IN
           /\ TreeInv(u) /\ DOMAIN u = DOMAIN t \ {c}
           /\ \A d \in DOMAIN u : u[d] = t[d]
           /\ \A d : ChildrenIn(u, d) \subseteq ChildrenIn(t, d)
<1> DEFINE u == [d \in DOMAIN t \ {c} |-> t[d]]
<1>1. DOMAIN u = DOMAIN t \ {c} /\ \A d \in DOMAIN u : u[d] = t[d]
  OBVIOUS
<1> HIDE DEF u
<1>2. \A d : ChildrenIn(u, d) \subseteq ChildrenIn(t, d)
  BY <1>1 DEF ChildrenIn
<1>3. RootContext \in DOMAIN u /\ u[RootContext].parent = NULL
  BY <1>1 DEF TreeInv
<1>4. ASSUME NEW d \in DOMAIN u \ {RootContext}
      PROVE  u[d].parent \in DOMAIN u /\ u[d].order = u[u[d].parent].order + 1
  <2>1. u[d] = t[d] /\ d \in DOMAIN t \ {RootContext}
    BY <1>1
  <2>2. t[d].parent \in DOMAIN t /\ t[d].order = t[t[d].parent].order + 1
    BY <2>1 DEF TreeInv
  <2>3. t[d].parent # c
    BY <2>1 DEF ChildrenIn
  <2>4. u[d].parent \in DOMAIN u /\ u[u[d].parent] = t[t[d].parent]
    BY <1>1, <2>1, <2>2, <2>3
  <2> QED BY <2>1, <2>2, <2>4
<1>5. TreeInv(u)
  BY <1>3, <1>4 DEF TreeInv
<1> QED BY <1>1, <1>2, <1>5 DEF u

\* The states CutOff keeps of a context fit into a block of the size it takes.
LEMMA KeptFit ==
    ASSUME NEW indx \in Indexes, NEW kept \in Nat, kept > 1, kept <= 2 * I2U(indx)
    PROVE  /\ U2I(UnitsFor(kept)) \in Indexes /\ U2I(UnitsFor(kept)) <= indx
           /\ kept <= 2 * I2U(U2I(UnitsFor(kept)))
<1> DEFINE nu == UnitsFor(kept)
           has == I2U(indx)
<1>1. has \in Nat \ {0} /\ has <= MaxUnits /\ MaxUnits \in Nat
  BY SizesGrow, MaxUnitsIs
<1>2. kept <= 2 * has
  OBVIOUS
<1> HIDE DEF has
<1>3. nu \in Nat /\ nu >= 1 /\ nu <= has /\ kept <= 2 * nu
  BY <1>1, <1>2 DEF UnitsFor
<1> HIDE DEF nu
<1>4. nu \in 1..MaxUnits
  BY <1>1, <1>3
<1>5. /\ U2I(nu) \in Indexes /\ I2U(U2I(nu)) >= nu
      /\ \A j \in 0..U2I(nu) - 1 : I2U(j) < nu
  BY <1>4, SmallestSize
<1>6. U2I(nu) <= indx
  <2>1. U2I(nu) \in Nat /\ indx \in Nat
    BY <1>5, LastIndexIs
  <2>2. ASSUME indx < U2I(nu) PROVE FALSE
    <3>1. indx \in 0..U2I(nu) - 1
      BY <2>1, <2>2
    <3>2. has < nu
      BY <1>5, <3>1 DEF has
    <3> QED BY <1>1, <1>3, <3>2
  <2> QED BY <2>1, <2>2
<1>7. I2U(U2I(nu)) \in Nat
  BY <1>5, SizesGrow
<1>8. kept <= 2 * I2U(U2I(nu))
  BY <1>3, <1>5, <1>7
<1> QED BY <1>5, <1>6, <1>8 DEF nu

\* The larger block is had before the smaller one is given back.
LEMMA ServedThenGained ==
    ASSUME NEW h, Sound(h), NEW r, NEW nu \in Nat \ {0}, Served(h, r, nu), r.ptr # NULL,
           NEW at \in Int, NEW i \in Indexes, FreshUnits(h, Units(at, I2U(i)))
    PROVE  Exchanged(h, InsertNode(r.heap, at, i), Units(at, I2U(i)), Units(r.ptr, nu))
<1> DEFINE old == Units(at, I2U(i))
           new == Units(r.ptr, nu)
           g == InsertNode(r.heap, at, i)
<1>1. Exchanged(h, r.heap, {}, new)
  BY ServedExchanges
<1>2. /\ Sound(r.heap) /\ (Text < h.UnitsStart => Text < r.heap.UnitsStart)
      /\ new \cap Space(r.heap) = {} /\ new \subseteq Arena(r.heap)
      /\ new \cup Space(r.heap) \cup (Arena(h) \ Arena(r.heap))
             = {} \cup Space(h) \cup (Arena(r.heap) \ Arena(h))
  BY <1>1 DEF Exchanged
<1>3. Arena(h) \subseteq Arena(r.heap)
  BY DEF Served
<1>4. old \cap Space(h) = {} /\ old \subseteq Arena(h)
  BY DEF FreshUnits
<1> HIDE DEF new
<1>5. FreshUnits(r.heap, old)
  BY <1>2, <1>3, <1>4 DEF FreshUnits
<1>6. Gained(r.heap, g, old)
  BY <1>2, <1>5, NodeInserted
<1> HIDE DEF old, g
<1>7. /\ Sound(g) /\ Arena(g) = Arena(r.heap) /\ g.UnitsStart = r.heap.UnitsStart
      /\ Space(g) = Space(r.heap) \cup old
  BY <1>6 DEF Gained
<1>8. new \cap old = {}
  BY <1>2, <1>3, <1>4
<1>9. new \cup Space(g) \cup (Arena(h) \ Arena(g)) = old \cup Space(h) \cup (Arena(g) \ Arena(h))
  BY <1>2, <1>3, <1>7
<1>10. Exchanged(h, g, old, new)
  BY <1>2, <1>7, <1>8, <1>9 DEF Exchanged
<1> QED BY <1>10 DEF old, new, g

-------------------------------------------------------------------------------
(***************************************************************************)
(* The steps while symbols are coded, and the undoing of the last one.     *)
(***************************************************************************)

\* Where no call of CutOff is under way, nothing is asked of the stack.
LEMMA NoCalls == ASSUME NEW t, NEW rest PROVE StackInv(t, <<>>, rest)
<1>1. <<>> \in Seq([context : Int, successors : Nat]) /\ Len(<<>>) = 0 /\ 1..0 = {}
  OBVIOUS
<1> QED BY <1>1 DEF StackInv

\* What the invariant says of the state, part by part.
LEMMA Parts ==
    ASSUME IInv
    PROVE  /\ Sound(heap) /\ HeldInv(tree) /\ SharesInv(heap, tree)
           /\ Text \in Int /\ AlignOffset <= Text /\ Text < heap.UnitsStart
           /\ TreeInv(tree) /\ RoomInv(tree, grown) /\ NULL \notin DOMAIN tree
           /\ \A c \in DOMAIN tree :
                  /\ c \in Int /\ tree[c] \in ContextTypes
                  /\ tree[c].stats \in Int /\ tree[c].indx \in Indexes
                  /\ IsFiniteSet(ChildrenIn(tree, c))
                  /\ Cardinality(ChildrenIn(tree, c)) \in Nat
<1>1. Sound(heap) /\ HeldInv(tree) /\ SharesInv(heap, tree) /\ TextInv
      /\ TreeInv(tree) /\ RoomInv(tree, grown)
  BY DEF IInv
<1>2. NULL \notin DOMAIN tree
      /\ \A S \in SUBSET DOMAIN tree : IsFiniteSet(S) /\ Cardinality(S) \in Nat
  BY <1>1, ContextsAre
<1>3. ASSUME NEW c \in DOMAIN tree
      PROVE  /\ c \in Int /\ tree[c] \in ContextTypes
             /\ tree[c].stats \in Int /\ tree[c].indx \in Indexes
             /\ IsFiniteSet(ChildrenIn(tree, c))
             /\ Cardinality(ChildrenIn(tree, c)) \in Nat
  <2>1. c \in Int /\ tree[c] \in ContextTypes
    BY <1>1 DEF HeldInv
  <2>2. ChildrenIn(tree, c) \in SUBSET DOMAIN tree
    BY DEF ChildrenIn
  <2> QED BY <1>2, <2>1, <2>2 DEF ContextTypes
<1> QED BY <1>1, <1>2, <1>3 DEF TextInv

\* RestoreModel begins in any state of the coding in which the heap has lost
\* nothing; the contexts to undo are among those the symbol has moved.
LEMMA RestoreBegins ==
    ASSUME IInv, phase = "coding", NEW undo \in SUBSET grown, BeginRestore(undo),
           Exchanged(heap, heap', {}, {})
    PROVE  IInv'
<1>1. /\ phase' = "undo" /\ Text' = AlignOffset /\ appended' = FALSE
      /\ grown' = undo /\ tree' = tree /\ stack' = stack /\ todo' = todo /\ fresh' = fresh
  BY DEF BeginRestore
<1>2. Sound(heap)
  BY Parts
<1>3. Sound(heap') /\ Text < heap'.UnitsStart
  BY Parts DEF Exchanged
<1>4. Taken(tree) = (Taken(tree) \ {}) \cup {} /\ {} \subseteq Taken(tree)
  OBVIOUS
<1>5. SharesInv(heap', tree)
  BY <1>4, Parts, SharesKept
<1>6. TextInv'
  <2>1. AlignOffset \in Int
    BY SizesAssumption
  <2>2. heap'.UnitsStart \in Int
    BY <1>3 DEF Sound, HeapTypes
  <2>3. Text \in Int /\ AlignOffset <= Text
    BY Parts
  <2>4. AlignOffset < heap'.UnitsStart /\ AlignOffset <= AlignOffset
    BY <1>3, <2>1, <2>2, <2>3
  <2>5. appended' \in BOOLEAN /\ ~appended'
    BY <1>1
  <2>6. Text' \in Int /\ AlignOffset <= Text' /\ Text' < heap'.UnitsStart
    BY <1>1, <2>1, <2>4
  <2> QED BY <2>5, <2>6 DEF TextInv
<1>7. RoomInv(tree, undo)
  BY Parts DEF RoomInv
<1>8. stack = <<>> /\ todo = {} /\ fresh \in BOOLEAN /\ undo \subseteq DOMAIN tree
  BY DEF IInv, PhaseInv
<1>9. PhaseInv'
  BY <1>1, <1>8 DEF PhaseInv
<1>10. StackInv(tree, <<>>, {})
  BY NoCalls
<1> QED BY <1>1, <1>3, <1>5, <1>6, <1>7, <1>8, <1>9, <1>10, Parts DEF IInv

\* A step outside CutOff that leaves the text, and the parts of the invariant.
LEMMA MovesOn ==
    ASSUME IInv, phase # "cutoff", UNCHANGED <<Text, restoring>>,
           appended' = appended \/ appended' = FALSE,
           Sound(heap'), HeldInv(tree'), SharesInv(heap', tree'),
           Text < heap'.UnitsStart, TreeInv(tree'), RoomInv(tree', grown'),
           grown' \subseteq DOMAIN tree'
    PROVE  IInv'
<1>1. phase' = phase /\ stack' = stack /\ todo' = todo /\ fresh' = fresh /\ Text' = Text
  BY DEF restoring
<1>2. PhaseInv /\ TextInv
  BY DEF IInv
<1>3. stack = <<>> /\ todo = {}
  BY <1>2 DEF PhaseInv
<1>4. TextInv'
  <2>1. appended' \in BOOLEAN /\ (appended' => AlignOffset < Text)
    <3>1. appended \in BOOLEAN /\ (appended => AlignOffset < Text)
      BY <1>2 DEF TextInv
    <3>2. CASE appended' = appended
      BY <3>1, <3>2
    <3>3. CASE appended' = FALSE
      BY <3>3
    <3> QED BY <3>2, <3>3
  <2>2. Text \in Int /\ AlignOffset <= Text
    BY Parts
  <2> QED BY <1>1, <2>1, <2>2 DEF TextInv
<1>5. PhaseInv'
  BY <1>1, <1>2, <1>3 DEF PhaseInv
<1>6. StackInv(tree', <<>>, {})
  BY NoCalls
<1> QED BY <1>1, <1>3, <1>4, <1>5, <1>6 DEF IInv

\* A context exchanges its states with the heap, and has room for its successors.
LEMMA StatsExchanged ==
    ASSUME IInv, phase # "cutoff", UNCHANGED <<Text, restoring>>,
           appended' = appended \/ appended' = FALSE,
           NEW c \in DOMAIN tree, NEW ptr \in Int, NEW i \in Indexes,
           Exchanged(heap, heap', BlockIn(tree, c), BlockOf(ptr, i)),
           tree' = WithStats(c, ptr, i),
           grown' \subseteq DOMAIN tree, grown' \ {c} \subseteq grown,
           Cardinality(Children(c)) <= (IF ptr = NULL THEN 1 ELSE 2 * I2U(i)),
           c \in grown' =>
               /\ ptr # NULL
               /\ Cardinality(Children(c)) <= (IF i = 0 THEN 1 ELSE 2 * I2U(i - 1))
    PROVE  IInv'
<1> DEFINE u == [tree EXCEPT ![c].stats = ptr, ![c].indx = i]
<1>1. u = tree'
  BY DEF WithStats
<1>2. HeldInv(tree) /\ SharesInv(heap, tree) /\ TreeInv(tree) /\ RoomInv(tree, grown)
  BY Parts
<1>3. /\ HeldInv(u) /\ SharesInv(heap', u) /\ SameShape(tree, u)
      /\ u[c].stats = ptr /\ u[c].indx = i
      /\ \A d \in DOMAIN tree \ {c} : u[d] = tree[d]
  BY <1>2, BlockExchanged
<1> HIDE DEF u
<1>4. TreeInv(u)
  BY <1>2, <1>3, ShapeKept
<1>5. Children(c) = ChildrenIn(tree, c)
  BY DEF Children, ChildrenIn
<1>6. Cardinality(ChildrenIn(tree, c)) <= CapacityIn(u, c)
  BY <1>3, <1>5 DEF CapacityIn
<1>7. c \in grown' => /\ u[c].stats # NULL
                      /\ Cardinality(ChildrenIn(tree, c)) <= Lately(u, c)
  BY <1>3, <1>5 DEF Lately
<1>8. RoomInv(u, grown')
  BY <1>2, <1>3, <1>6, <1>7, RoomKept
<1>9. Sound(heap') /\ Text < heap'.UnitsStart /\ DOMAIN u = DOMAIN tree
  BY <1>3, Parts DEF Exchanged, SameShape
<1> QED BY <1>1, <1>3, <1>4, <1>8, <1>9, MovesOn

\* Nothing is exchanged where the heap stays.
LEMMA NothingExchanged == ASSUME NEW h, Sound(h) PROVE Exchanged(h, h, {}, {})
<1>1. FreshUnits(h, {})
  BY DEF FreshUnits
<1> QED BY <1>1, Exchange

\* The symbol is put behind the text, or there is no room for it.
LEMMA AppendTextKeeps == ASSUME IInv, AppendText PROVE IInv'
<1>1. phase = "coding" /\ heap' = heap
  BY DEF AppendText
<1>2. CASE Text + 1 >= heap.UnitsStart
  <2>1. BeginRestore({}) /\ Exchanged(heap, heap', {}, {})
    BY <1>1, <1>2, Parts, NothingExchanged DEF AppendText
  <2>2. {} \in SUBSET grown
    OBVIOUS
  <2> QED BY <1>1, <2>1, <2>2, RestoreBegins
<1>3. CASE ~(Text + 1 >= heap.UnitsStart)
  <2>1. /\ Text' = Text + 1 /\ appended' = TRUE /\ grown' = {} /\ tree' = tree
        /\ phase' = phase /\ stack' = stack /\ todo' = todo /\ fresh' = fresh
    BY <1>3 DEF AppendText, restoring
  <2>2. Text \in Int /\ heap.UnitsStart \in Int /\ AlignOffset \in Int /\ AlignOffset <= Text
    BY Parts, SizesAssumption DEF Sound, HeapTypes
  <2>3. Text + 1 \in Int /\ AlignOffset <= Text + 1 /\ Text + 1 < heap.UnitsStart
        /\ AlignOffset < Text + 1
    BY <1>3, <2>2
  <2>4. TextInv'
    BY <1>1, <2>1, <2>3 DEF TextInv
  <2>5. PhaseInv'
    BY <1>1, <2>1 DEF IInv, PhaseInv
  <2>6. RoomInv(tree, {})
    BY Parts DEF RoomInv
  <2> QED BY <1>1, <2>1, <2>4, <2>5, <2>6 DEF IInv
<1> QED BY <1>2, <1>3

\* The symbol just put behind the text is taken back.
LEMMA RetractTextKeeps == ASSUME IInv, RetractText PROVE IInv'
<1>1. /\ phase = "coding" /\ appended /\ Text' = Text - 1 /\ appended' = FALSE
      /\ heap' = heap /\ tree' = tree /\ grown' = grown
      /\ phase' = phase /\ stack' = stack /\ todo' = todo /\ fresh' = fresh
  BY DEF RetractText, model, restoring
<1>2. AlignOffset < Text
  BY <1>1 DEF IInv, TextInv
<1>3. Text \in Int /\ heap.UnitsStart \in Int /\ AlignOffset \in Int /\ Text < heap.UnitsStart
  BY Parts, SizesAssumption DEF Sound, HeapTypes
<1>4. Text - 1 \in Int /\ AlignOffset <= Text - 1 /\ Text - 1 < heap.UnitsStart
  BY <1>2, <1>3
<1>5. TextInv'
  BY <1>1, <1>4 DEF TextInv
<1>6. PhaseInv'
  BY <1>1 DEF IInv, PhaseInv
<1> QED BY <1>1, <1>5, <1>6 DEF IInv

\* A new context is a leaf of the tree, and its parent has room for it.
LEMMA LeafAdded ==
    ASSUME NEW t, HeldInv(t), TreeInv(t), RoomInv(t, {}), NULL \notin DOMAIN t,
           NEW c \in DOMAIN t, t[c].order < MaxOrder, IsFiniteSet(ChildrenIn(t, c)),
           Cardinality(ChildrenIn(t, c)) < CapacityIn(t, c),
           NEW x \in Int, x # NULL, x \notin DOMAIN t
    PROVE  LET one == Context(c, t[c].order + 1)
               u == [d \in DOMAIN t \cup {x} |-> IF d = x THEN one ELSE t[d]]
           IN  one \in ContextTypes /\ one.stats = NULL /\ TreeInv(u) /\ RoomInv(u, {})
<1> DEFINE one == Context(c, t[c].order + 1)
           u == [d \in DOMAIN t \cup {x} |-> IF d = x THEN one ELSE t[d]]
<1>1. /\ one.parent = c /\ one.order = t[c].order + 1 /\ one.stats = NULL /\ one.indx = 0
      /\ one = [parent |-> c, order |-> t[c].order + 1, stats |-> NULL, indx |-> 0]
  BY DEF Context
<1>2. one \in ContextTypes
  <2>1. c \in Int /\ t[c].order \in 0..MaxOrder /\ t[c].order < MaxOrder
        /\ t[c] \in ContextTypes
    BY DEF HeldInv, ContextTypes
  <2>2. t[c].order + 1 \in 0..MaxOrder
    BY <2>1, RestoreAssumption
  <2>3. NULL \in Int /\ 0 \in Indexes
    BY LastIndexIs DEF NULL
  <2> QED BY <1>1, <2>1, <2>2, <2>3 DEF ContextTypes
<1> HIDE DEF one
<1>3. DOMAIN u = DOMAIN t \cup {x} /\ u[x] = one /\ \A d \in DOMAIN t : u[d] = t[d]
  OBVIOUS
<1> HIDE DEF u
<1>4. /\ RootContext \in DOMAIN t /\ t[RootContext].parent = NULL
      /\ \A d \in DOMAIN t \ {RootContext} :
             t[d].parent \in DOMAIN t /\ t[d].order = t[t[d].parent].order + 1
  BY DEF TreeInv
<1>5. TreeInv(u)
  <2>1. ASSUME NEW d \in DOMAIN u \ {RootContext}
        PROVE  u[d].parent \in DOMAIN u /\ u[d].order = u[u[d].parent].order + 1
    <3>1. CASE d = x
      BY <1>1, <1>3, <3>1
    <3>2. CASE d # x
      <4>1. d \in DOMAIN t \ {RootContext}
        BY <1>3, <3>2
      <4>2. t[d].parent \in DOMAIN t /\ t[d].order = t[t[d].parent].order + 1
        BY <1>4, <4>1
      <4> QED BY <1>3, <4>1, <4>2
    <3> QED BY <3>1, <3>2
  <2> QED BY <1>3, <1>4, <2>1 DEF TreeInv
<1>6. ASSUME NEW d \in DOMAIN t PROVE t[d].parent # x
  <2>1. t[d].parent \in DOMAIN t \/ t[d].parent = NULL
    BY <1>4
  <2> QED BY <2>1
<1>7. ASSUME NEW d \in DOMAIN u PROVE Cardinality(ChildrenIn(u, d)) <= CapacityIn(u, d)
  <2>1. CASE d = x
    <3>1. ChildrenIn(u, x) = {}
      BY <1>1, <1>3, <1>6 DEF ChildrenIn
    <3>2. CapacityIn(u, x) = 1
      BY <1>1, <1>3 DEF CapacityIn
    <3>3. Cardinality(ChildrenIn(u, x)) = 0
      BY <3>1, FS_EmptySet
    <3> QED BY <2>1, <3>2, <3>3
  <2>2. CASE d = c
    <3>1. ChildrenIn(u, c) = ChildrenIn(t, c) \cup {x} /\ x \notin ChildrenIn(t, c)
      BY <1>1, <1>3 DEF ChildrenIn
    <3>2. CapacityIn(u, c) = CapacityIn(t, c) /\ t[c] \in ContextTypes
      BY <1>3 DEF CapacityIn, HeldInv
    <3>3. Cardinality(ChildrenIn(u, c)) = Cardinality(ChildrenIn(t, c)) + 1
      BY <3>1, FS_AddElement
    <3>4. Cardinality(ChildrenIn(t, c)) \in Nat /\ CapacityIn(t, c) \in Nat
      BY <3>2, FS_CardinalityType, CapacityIs
    <3> QED BY <2>2, <3>2, <3>3, <3>4
  <2>3. CASE d # x /\ d # c
    <3>1. d \in DOMAIN t
      BY <1>3, <2>3
    <3>2. ChildrenIn(u, d) = ChildrenIn(t, d)
      BY <1>1, <1>3, <2>3 DEF ChildrenIn
    <3>3. CapacityIn(u, d) = CapacityIn(t, d)
      BY <1>3, <3>1 DEF CapacityIn
    <3> QED BY <3>1, <3>2, <3>3 DEF RoomInv
  <2> QED BY <2>1, <2>2, <2>3
<1>8. RoomInv(u, {})
  BY <1>7 DEF RoomInv
<1> QED BY <1>1, <1>2, <1>5, <1>8 DEF u, one

\* A state whose successor was text gets a context.
LEMMA NewContextKeeps == ASSUME IInv, NewContext PROVE IInv'
<1>1. PICK c \in DOMAIN tree, r \in AllocContext(heap) :
        /\ tree[c].order < MaxOrder
        /\ Cardinality(Children(c)) < Capacity(c)
        /\ heap' = r.heap
        /\ \/ r.ptr = NULL /\ BeginRestore({})
           \/ /\ r.ptr # NULL
              /\ tree' = [d \in DOMAIN tree \cup {r.ptr} |->
                    IF d = r.ptr THEN Context(c, tree[c].order + 1) ELSE tree[d]]
              /\ grown' = {}
              /\ UNCHANGED <<Text, appended, restoring>>
  BY DEF NewContext
<1>2. phase = "coding"
  BY DEF NewContext
<1>3. Served(heap, r, 1) /\ Sound(heap)
  BY Parts, ContextAllocated
<1>4. /\ r.ptr = NULL => Exchanged(heap, r.heap, {}, {})
      /\ r.ptr # NULL => Exchanged(heap, r.heap, {}, Units(r.ptr, 1))
  BY <1>3, ServedExchanges
<1>5. CASE r.ptr = NULL
  <2>1. BeginRestore({}) /\ Exchanged(heap, heap', {}, {}) /\ {} \in SUBSET grown
    BY <1>1, <1>4, <1>5
  <2> QED BY <1>2, <2>1, RestoreBegins
<1>6. CASE r.ptr # NULL
  <2> DEFINE x == r.ptr
             one == Context(c, tree[c].order + 1)
             u == [d \in DOMAIN tree \cup {x} |-> IF d = x THEN one ELSE tree[d]]
  <2>1. tree' = u /\ grown' = {} /\ UNCHANGED <<Text, appended, restoring>>
    BY <1>1, <1>6
  <2>2. x \in Int /\ x # NULL
    BY <1>3, <1>6 DEF Served
  <2>3. Exchanged(heap, heap', {}, {x})
    BY <1>1, <1>4, <1>6, <2>2, UnitsOne
  <2>4. /\ HeldInv(tree) /\ SharesInv(heap, tree) /\ TreeInv(tree) /\ NULL \notin DOMAIN tree
        /\ RoomInv(tree, {}) /\ IsFiniteSet(ChildrenIn(tree, c))
    BY Parts DEF RoomInv
  <2>5. tree[c].order < MaxOrder /\ Cardinality(ChildrenIn(tree, c)) < CapacityIn(tree, c)
    BY <1>1 DEF Children, ChildrenIn, Capacity, CapacityIn, Binary
  <2> HIDE DEF x
  <2>6. x \notin DOMAIN tree
    <3>1. {x} \cap (Taken(tree) \ {}) = {}
      BY <2>3, <2>4, SharesKept
    <3> QED BY <3>1 DEF Taken
  <2>7. one \in ContextTypes /\ one.stats = NULL /\ TreeInv(u) /\ RoomInv(u, {})
    BY <2>2, <2>4, <2>5, <2>6, LeafAdded
  <2> HIDE DEF one
  <2>8. HeldInv(u) /\ SharesInv(heap', u)
    BY <2>2, <2>3, <2>4, <2>7, ContextAdded
  <2>9. Sound(heap') /\ Text < heap'.UnitsStart
    BY <2>3, Parts DEF Exchanged
  <2> HIDE DEF u
  <2>10. {} \subseteq DOMAIN tree' /\ phase # "cutoff" /\ appended' = appended
         /\ UNCHANGED <<Text, restoring>>
    BY <1>2, <2>1
  <2> QED BY <2>1, <2>7, <2>8, <2>9, <2>10, MovesOn
<1> QED BY <1>5, <1>6

\* A context gets its second state, or its states move to a larger block.
LEMMA GrowKeeps ==
    ASSUME IInv, phase = "coding", NEW c \in DOMAIN tree \ grown, NEW i \in Indexes,
           IF Binary(c) THEN i = 0 ELSE i = tree[c].indx + 1, Grow(c, i)
    PROVE  IInv'
<1>1. PICK r \in AllocUnits(heap, i) :
        \/ /\ r.ptr = NULL
           /\ heap' = r.heap
           /\ BeginRestore(grown)
        \/ /\ r.ptr # NULL
           /\ heap' = IF Binary(c) THEN r.heap
                      ELSE InsertNode(r.heap, tree[c].stats, tree[c].indx)
           /\ tree' = WithStats(c, r.ptr, i)
           /\ grown' = grown \cup {c}
           /\ appended' = FALSE
           /\ UNCHANGED <<Text, restoring>>
  BY DEF Grow
<1>2. Served(heap, r, I2U(i)) /\ Sound(heap) /\ I2U(i) \in Nat \ {0}
  BY Parts, UnitsAllocated, SizesGrow
<1>3. /\ r.ptr = NULL => Exchanged(heap, r.heap, {}, {})
      /\ r.ptr # NULL => Exchanged(heap, r.heap, {}, Units(r.ptr, I2U(i)))
  BY <1>2, ServedExchanges
<1>4. CASE r.ptr = NULL
  <2>1. BeginRestore(grown) /\ Exchanged(heap, heap', {}, {}) /\ grown \in SUBSET grown
    BY <1>1, <1>3, <1>4
  <2> QED BY <2>1, RestoreBegins
<1>5. CASE r.ptr # NULL
  <2> DEFINE x == r.ptr
  <2>1. /\ heap' = IF Binary(c) THEN r.heap
                   ELSE InsertNode(r.heap, tree[c].stats, tree[c].indx)
        /\ tree' = WithStats(c, x, i) /\ grown' = grown \cup {c}
        /\ appended' = FALSE /\ UNCHANGED <<Text, restoring>>
    BY <1>1, <1>5
  <2>2. x \in Int /\ x # NULL
    BY <1>2, <1>5 DEF Served
  <2>3. /\ tree[c] \in ContextTypes /\ tree[c].stats \in Int /\ tree[c].indx \in Indexes
        /\ Cardinality(ChildrenIn(tree, c)) \in Nat
        /\ Cardinality(ChildrenIn(tree, c)) <= CapacityIn(tree, c)
        /\ SharesInv(heap, tree)
    BY Parts DEF RoomInv
  <2>4. Children(c) = ChildrenIn(tree, c)
    BY DEF Children, ChildrenIn
  <2>5. BlockOf(x, i) = Units(x, I2U(i))
    BY <2>2, BlockOfIs
  <2>6. Exchanged(heap, heap', BlockIn(tree, c), BlockOf(x, i))
    <3>1. CASE Binary(c)
      <4>1. BlockIn(tree, c) = {} /\ heap' = r.heap
        BY <2>1, <3>1 DEF BlockIn, BlockOf, Binary
      <4> QED BY <1>3, <1>5, <2>5, <4>1
    <3>2. CASE ~Binary(c)
      <4>1. BlockIn(tree, c) = Units(tree[c].stats, I2U(tree[c].indx))
        BY <3>2 DEF BlockIn, BlockOf, Binary
      <4>2. FreshUnits(heap, BlockIn(tree, c))
        BY <2>3, HeldIsFresh
      <4>3. Exchanged(heap, InsertNode(r.heap, tree[c].stats, tree[c].indx),
                      Units(tree[c].stats, I2U(tree[c].indx)), Units(x, I2U(i)))
        BY <1>2, <1>5, <2>3, <4>1, <4>2, ServedThenGained
      <4>4. heap' = InsertNode(r.heap, tree[c].stats, tree[c].indx)
        BY <2>1, <3>2
      <4> QED BY <2>5, <4>1, <4>3, <4>4
    <3> QED BY <3>1, <3>2
  <2>7. /\ Cardinality(Children(c)) <= 2 * I2U(i)
        /\ Cardinality(Children(c)) <= (IF i = 0 THEN 1 ELSE 2 * I2U(i - 1))
    <3> DEFINE n == Cardinality(Children(c))
    <3>1. n \in Nat /\ n <= CapacityIn(tree, c) /\ CapacityIn(tree, c) \in Nat
      BY <2>3, <2>4, CapacityIs
    <3>2. CASE Binary(c)
      <4>1. i = 0 /\ CapacityIn(tree, c) = 1 /\ I2U(0) = 1
        BY <2>3, <3>2, CapacityIs, SizesGrow DEF Binary
      <4> HIDE DEF n
      <4>2. n <= 1 /\ I2U(i) = 1 /\ i = 0
        BY <3>1, <4>1
      <4>3. n <= 2 * I2U(i)
        BY <3>1, <4>2
      <4> QED BY <4>2, <4>3 DEF n
    <3>3. CASE ~Binary(c)
      <4> DEFINE k == tree[c].indx
                 was == I2U(tree[c].indx)
      <4>1. i = k + 1 /\ CapacityIn(tree, c) = 2 * was /\ k \in Nat
        BY <2>3, <3>3, CapacityIs, LastIndexIs DEF Binary
      <4> HIDE DEF k
      <4>2. i # 0 /\ i - 1 = k /\ k < i /\ k \in Indexes
        BY <2>3, <4>1 DEF k
      <4>3. was = I2U(k) /\ was \in Nat /\ I2U(k) < I2U(i)
        BY <4>2, SizesGrow DEF k
      <4> HIDE DEF was, n
      <4>4. n <= 2 * was
        BY <3>1, <4>1
      <4>5. n <= 2 * I2U(i)
        BY <1>2, <3>1, <4>3, <4>4
      <4>6. n <= (IF i = 0 THEN 1 ELSE 2 * I2U(i - 1))
        BY <4>2, <4>3, <4>4
      <4> QED BY <4>5, <4>6 DEF n
    <3> QED BY <3>2, <3>3
  <2>8. grown' \subseteq DOMAIN tree /\ grown' \ {c} \subseteq grown
    BY <2>1 DEF IInv, PhaseInv
  <2>9. phase # "cutoff"
    OBVIOUS
  <2> HIDE DEF x
  <2> QED BY <2>1, <2>2, <2>6, <2>7, <2>8, <2>9, StatsExchanged
<1> QED BY <1>4, <1>5

\* UpdateModel's new blocks of states.
LEMMA NewStatsKeeps == ASSUME IInv, NewStats \/ ExpandStats PROVE IInv'
<1>1. CASE NewStats
  <2>1. PICK c \in DOMAIN tree \ grown : Binary(c) /\ Grow(c, 0)
    BY <1>1 DEF NewStats
  <2>2. phase = "coding" /\ 0 \in Indexes
    BY <1>1, LastIndexIs DEF NewStats
  <2>3. IF Binary(c) THEN 0 = 0 ELSE 0 = tree[c].indx + 1
    BY <2>1
  <2> QED BY <2>1, <2>2, <2>3, GrowKeeps
<1>2. CASE ExpandStats
  <2>1. PICK c \in DOMAIN tree \ grown :
          ~Binary(c) /\ tree[c].indx # LastIndex /\ Grow(c, tree[c].indx + 1)
    BY <1>2 DEF ExpandStats
  <2>2. tree[c].indx \in Indexes
    BY Parts
  <2>3. tree[c].indx + 1 \in Indexes
    <3>1. tree[c].indx \in Nat /\ tree[c].indx <= LastIndex /\ LastIndex \in Nat
      BY <2>2, LastIndexIs
    <3>2. tree[c].indx + 1 \in Nat /\ tree[c].indx + 1 <= LastIndex
      BY <2>1, <3>1
    <3> QED BY <3>2, LastIndexIs
  <2>4. phase = "coding"
    BY <1>2 DEF ExpandStats
  <2> DEFINE i == tree[c].indx + 1
  <2>5. IF Binary(c) THEN i = 0 ELSE i = tree[c].indx + 1
    BY <2>1
  <2>6. i \in Indexes /\ Grow(c, i)
    BY <2>1, <2>3
  <2> HIDE DEF i
  <2> QED BY <2>4, <2>5, <2>6, GrowKeeps
<1> QED BY <1>1, <1>2

\* The states of a context shrink to the size i1, or go altogether.
LEMMA StatsGivenUp ==
    ASSUME IInv, NEW c \in DOMAIN tree, ~Binary(c)
    PROVE  /\ BlockIn(tree, c) = Units(tree[c].stats, I2U(tree[c].indx))
           /\ FreshUnits(heap, BlockIn(tree, c))
           /\ \A i1 \in Indexes : i1 <= tree[c].indx =>
                  \A r \in ShrinkUnits(heap, tree[c].stats, tree[c].indx, i1) :
                      /\ r.ptr \in Int /\ r.ptr # NULL
                      /\ Exchanged(heap, r.heap, BlockIn(tree, c), BlockOf(r.ptr, i1))
           /\ LET g == InsertNode(heap, tree[c].stats, tree[c].indx) IN
                  Gained(heap, g, BlockIn(tree, c)) /\ Exchanged(heap, g, BlockIn(tree, c), {})
           /\ BlockOf(NULL, 0) = {}
<1>1. Sound(heap) /\ SharesInv(heap, tree) /\ tree[c].stats \in Int /\ tree[c].indx \in Indexes
  BY Parts
<1>2. BlockIn(tree, c) = Units(tree[c].stats, I2U(tree[c].indx))
  BY DEF BlockIn, BlockOf, Binary
<1>3. FreshUnits(heap, BlockIn(tree, c))
  BY <1>1, HeldIsFresh
<1>4. ASSUME NEW i1 \in Indexes, i1 <= tree[c].indx,
             NEW r \in ShrinkUnits(heap, tree[c].stats, tree[c].indx, i1)
      PROVE  /\ r.ptr \in Int /\ r.ptr # NULL
             /\ Exchanged(heap, r.heap, BlockIn(tree, c), BlockOf(r.ptr, i1))
  <2>1. /\ Exchanged(heap, r.heap, BlockIn(tree, c), Units(r.ptr, I2U(i1)))
        /\ r.ptr \in Int /\ r.ptr # NULL
    BY <1>1, <1>2, <1>3, <1>4, UnitsShrunk
  <2> QED BY <2>1 DEF BlockOf
<1>5. LET g == InsertNode(heap, tree[c].stats, tree[c].indx) IN
      Gained(heap, g, BlockIn(tree, c)) /\ Exchanged(heap, g, BlockIn(tree, c), {})
  BY <1>1, <1>2, <1>3, NodeInserted, GainedExchanges
<1>6. BlockOf(NULL, 0) = {}
  BY DEF BlockOf
<1> QED BY <1>2, <1>3, <1>4, <1>5, <1>6

\* Rescale drops states of a context of the highest order.
LEMMA ShrinkStatsKeeps == ASSUME IInv, ShrinkStats PROVE IInv'
<1>1. PICK c \in DOMAIN tree : \E i1 \in 0..tree[c].indx - 1 :
        /\ ~Binary(c) /\ tree[c].order = MaxOrder
        /\ \E r \in ShrinkUnits(heap, tree[c].stats, tree[c].indx, i1) :
              /\ heap' = r.heap
              /\ tree' = WithStats(c, r.ptr, i1)
  BY DEF ShrinkStats
<1>2. tree[c].indx \in Nat /\ tree[c].indx <= LastIndex /\ LastIndex \in Nat
  BY Parts, LastIndexIs
<1>3. PICK i1 \in 0..tree[c].indx - 1 :
        /\ ~Binary(c) /\ tree[c].order = MaxOrder
        /\ \E r \in ShrinkUnits(heap, tree[c].stats, tree[c].indx, i1) :
              /\ heap' = r.heap
              /\ tree' = WithStats(c, r.ptr, i1)
  BY <1>1
<1>4. PICK r \in ShrinkUnits(heap, tree[c].stats, tree[c].indx, i1) :
         heap' = r.heap /\ tree' = WithStats(c, r.ptr, i1)
  BY <1>3
<1>5. i1 \in Nat /\ i1 <= tree[c].indx /\ i1 <= LastIndex
  BY <1>2
<1>6. i1 \in Indexes
  BY <1>5, LastIndexIs
<1>7. /\ r.ptr \in Int /\ r.ptr # NULL
      /\ Exchanged(heap, heap', BlockIn(tree, c), BlockOf(r.ptr, i1))
  BY <1>3, <1>4, <1>5, <1>6, StatsGivenUp
<1>8. /\ phase # "cutoff" /\ UNCHANGED <<Text, restoring>> /\ appended' = FALSE /\ grown' = {}
  BY DEF ShrinkStats
<1>9. Cardinality(Children(c)) = 0
  <2>1. ChildrenIn(tree, c) = {}
    BY <1>3, Parts, HighestHasNone
  <2> QED BY <2>1, FS_EmptySet DEF Children, ChildrenIn
<1>10. Cardinality(Children(c)) <= 2 * I2U(i1)
  BY <1>6, <1>9, SizesGrow
<1> QED BY <1>4, <1>6, <1>7, <1>8, <1>10, StatsExchanged

\* Rescale leaves it one state.
LEMMA FreeStatsKeeps == ASSUME IInv, FreeStats PROVE IInv'
<1>1. PICK c \in DOMAIN tree :
        /\ ~Binary(c) /\ tree[c].order = MaxOrder
        /\ heap' = InsertNode(heap, tree[c].stats, tree[c].indx)
        /\ tree' = MadeBinary(c)
  BY DEF FreeStats
<1>2. tree' = WithStats(c, NULL, 0) /\ NULL \in Int /\ 0 \in Indexes
  BY <1>1, LastIndexIs DEF MadeBinary, NULL
<1>3. Exchanged(heap, heap', BlockIn(tree, c), BlockOf(NULL, 0))
  BY <1>1, StatsGivenUp
<1>4. /\ phase # "cutoff" /\ UNCHANGED <<Text, restoring>> /\ appended' = FALSE /\ grown' = {}
  BY DEF FreeStats
<1>5. Cardinality(Children(c)) = 0
  <2>1. ChildrenIn(tree, c) = {}
    BY <1>1, Parts, HighestHasNone
  <2> QED BY <2>1, FS_EmptySet DEF Children, ChildrenIn
<1>6. Cardinality(Children(c)) <= 1
  BY <1>5
<1> QED BY <1>2, <1>3, <1>4, <1>6, StatsExchanged

\* A context that the symbol has moved gives back what it got.
LEMMA UndoKeeps == ASSUME IInv, Undo PROVE IInv'
<1>1. PICK c \in grown :
        /\ grown' = grown \ {c}
        /\ IF tree[c].indx = 0
           THEN /\ heap' = SpecialFreeUnit(heap, tree[c].stats)
                /\ tree' = MadeBinary(c)
           ELSE \E r \in ShrinkUnits(heap, tree[c].stats, tree[c].indx, tree[c].indx - 1) :
                /\ heap' = r.heap
                /\ tree' = WithStats(c, r.ptr, tree[c].indx - 1)
  BY DEF Undo
<1>2. phase # "cutoff" /\ UNCHANGED <<Text, restoring>> /\ appended' = appended
  BY DEF Undo
<1>3. /\ c \in DOMAIN tree /\ grown \subseteq DOMAIN tree
      /\ grown' \subseteq DOMAIN tree /\ grown' \ {c} \subseteq grown /\ c \notin grown'
  BY <1>1 DEF IInv, PhaseInv
<1>4. ~Binary(c) /\ Cardinality(Children(c)) <= Lately(tree, c)
  BY <1>1 DEF IInv, RoomInv, Binary, Children, ChildrenIn
<1>5. /\ tree[c].stats \in Int /\ tree[c].indx \in Indexes /\ Sound(heap) /\ Text \in Int
      /\ BlockIn(tree, c) = Units(tree[c].stats, I2U(tree[c].indx))
      /\ FreshUnits(heap, BlockIn(tree, c))
  BY <1>3, <1>4, Parts, StatsGivenUp
<1>6. CASE tree[c].indx = 0
  <2>1. BlockIn(tree, c) = {tree[c].stats}
    BY <1>5, <1>6, SizesGrow, UnitsOne
  <2>2. Exchanged(heap, heap', BlockIn(tree, c), {})
    BY <1>1, <1>5, <1>6, <2>1, UnitFreed
  <2>3. tree' = WithStats(c, NULL, 0) /\ NULL \in Int /\ 0 \in Indexes
    BY <1>1, <1>6, LastIndexIs DEF MadeBinary, NULL
  <2>4. BlockOf(NULL, 0) = {}
    BY DEF BlockOf
  <2>5. Cardinality(Children(c)) <= 1
    BY <1>4, <1>6 DEF Lately
  <2> QED BY <1>2, <1>3, <2>2, <2>3, <2>4, <2>5, StatsExchanged
<1>7. CASE tree[c].indx # 0
  <2> DEFINE i1 == tree[c].indx - 1
  <2>1. PICK r \in ShrinkUnits(heap, tree[c].stats, tree[c].indx, i1) :
          heap' = r.heap /\ tree' = WithStats(c, r.ptr, i1)
    BY <1>1, <1>7
  <2>2. i1 \in Indexes /\ i1 <= tree[c].indx
    <3>1. tree[c].indx \in Nat /\ tree[c].indx <= LastIndex /\ LastIndex \in Nat
      BY <1>5, LastIndexIs
    <3>2. i1 \in Nat /\ i1 <= LastIndex /\ i1 <= tree[c].indx
      BY <1>7, <3>1
    <3> QED BY <3>2, LastIndexIs
  <2>3. Cardinality(Children(c)) <= 2 * I2U(i1)
    BY <1>4, <1>7 DEF Lately
  <2> HIDE DEF i1
  <2>4. /\ r.ptr \in Int /\ r.ptr # NULL
        /\ Exchanged(heap, heap', BlockIn(tree, c), BlockOf(r.ptr, i1))
    BY <1>3, <1>4, <2>1, <2>2, StatsGivenUp
  <2> QED BY <1>2, <1>3, <2>1, <2>2, <2>3, <2>4, StatsExchanged
<1> QED BY <1>6, <1>7

-------------------------------------------------------------------------------
(***************************************************************************)
(* The beginning of the model.                                             *)
(***************************************************************************)

\* What RestartModel leaves shares out the arena among the root context, its
\* states and the gap.
LEMMA RestartedIs ==
    /\ Sound(Restarted) /\ HeldInv(RootTree) /\ SharesInv(Restarted, RootTree)
    /\ TreeInv(RootTree) /\ RoomInv(RootTree, {})
    /\ AlignOffset \in Int /\ AlignOffset < Restarted.UnitsStart
<1> DEFINE lo == FirstUnit + U2B(MaxUnits)
           states == Units(FirstUnit, MaxUnits)
           middle == Units(lo, RootGap)
           h == Restarted
           t == RootTree
<1>1. /\ FirstUnit \in Int /\ lo \in Int /\ RootContext \in Int
      /\ AlignOffset \in Int /\ AlignOffset < FirstUnit /\ AlignOffset <= FirstUnit
      /\ FirstUnit <= lo /\ RootContext <= ArenaEnd
      /\ RootGap \in Nat /\ RootContext = lo + U2B(RootGap)
      /\ (RootContext - lo) \div UNIT_SIZE = RootGap
      /\ RootUnits \in Nat /\ ArenaEnd = FirstUnit + U2B(RootUnits)
      /\ (ArenaEnd - FirstUnit) \div UNIT_SIZE = RootUnits
      /\ Units(FirstUnit, RootUnits) = states \cup middle \cup {RootContext}
      /\ states \cap middle = {} /\ RootContext \notin states \cup middle
  BY RootArena
<1>2. /\ h.FreeList = [i \in Indexes |-> {}] /\ h.Stamps = [i \in Indexes |-> 0]
      /\ h.UnitsStart = FirstUnit
      /\ h.LoUnit = lo /\ h.HiUnit = RootContext /\ h.GlueCount = 0
  BY DEF Restarted
<1>3. h \in HeapTypes
  <2>1. [i \in Indexes |-> {}] \in Families /\ [i \in Indexes |-> 0] \in [Indexes -> Int]
    BY DEF Families
  <2> QED BY <1>1, <2>1 DEF Restarted, HeapTypes
<1>4. FirstUnit # NULL /\ LastIndex \in Indexes /\ I2U(LastIndex) = MaxUnits
  <2>1. AlignOffset \in Nat \ {0}
    BY SizesAssumption
  <2> QED BY <1>1, <2>1, LastIndexIs DEF NULL, MaxUnits
<1>5. /\ DOMAIN t = {RootContext}
      /\ t[RootContext] = [parent |-> NULL, order |-> 0, stats |-> FirstUnit,
                           indx |-> LastIndex]
  BY DEF RootTree
<1>6. /\ t[RootContext].parent = NULL /\ t[RootContext].stats = FirstUnit
      /\ t[RootContext].indx = LastIndex
  BY <1>5
<1>7. t \in [DOMAIN t -> ContextTypes]
  <2>1. NULL \in Int /\ 0 \in 0..MaxOrder
    BY RestoreAssumption DEF NULL
  <2> QED BY <1>1, <1>4, <2>1 DEF ContextTypes, RootTree
<1> HIDE DEF h, t, lo
<1>8. GapSize(h) = RootGap /\ ArenaSize(h) = RootUnits
  BY <1>1, <1>2 DEF GapSize, ArenaSize
<1>9. Bounds(h)
  BY <1>1, <1>2, <1>8 DEF Bounds
<1>10. Covered(h.FreeList) = {} /\ ListsApart(h.FreeList)
  BY <1>2 DEF Covered, ListsApart
<1>11. Counted(h)
  BY <1>2, FS_EmptySet DEF Counted
<1>12. Space(h) = middle /\ Arena(h) = Units(FirstUnit, RootUnits) /\ GapUnits(h) = middle
  BY <1>2, <1>8, <1>10 DEF Space, Arena, GapUnits
<1> HIDE DEF states, middle
<1>13. h.GlueCount \in 0..GlueReset
  BY <1>2, RestoreAssumption
<1>14. Sound(h)
  BY <1>1, <1>3, <1>9, <1>10, <1>11, <1>12, <1>13 DEF Sound
<1>15. BlockIn(t, RootContext) = states
  BY <1>4, <1>6 DEF BlockIn, BlockOf, states
<1>16. StatsTaken(t) = states /\ Taken(t) = {RootContext} \cup states
  BY <1>5, <1>15 DEF StatsTaken, Taken
<1>17. HeldInv(t)
  BY <1>1, <1>5, <1>7, <1>16 DEF HeldInv
<1>18. SharesInv(h, t)
  BY <1>1, <1>12, <1>16 DEF SharesInv
<1>19. TreeInv(t)
  BY <1>5, <1>6 DEF TreeInv
<1>20. RoomInv(t, {})
  <2>1. RootContext # NULL
    BY <1>5, <1>14, <1>17, <1>18, ContextsAre
  <2>2. ChildrenIn(t, RootContext) = {}
    BY <1>5, <1>6, <2>1 DEF ChildrenIn
  <2>3. Cardinality(ChildrenIn(t, RootContext)) = 0
    BY <2>2, FS_EmptySet
  <2>4. CapacityIn(t, RootContext) \in Nat
    BY <1>5, <1>7, CapacityIs
  <2>5. Cardinality(ChildrenIn(t, RootContext)) <= CapacityIn(t, RootContext)
    BY <2>3, <2>4
  <2> QED BY <1>5, <2>5 DEF RoomInv
<1>21. AlignOffset < h.UnitsStart
  BY <1>1, <1>2
<1> QED BY <1>1, <1>14, <1>17, <1>18, <1>19, <1>20, <1>21 DEF h, t

\* Ppmd8_Init establishes the invariant.
LEMMA InitIInv == ASSUME Init PROVE IInv
<1>1. /\ heap = Restarted /\ Text = AlignOffset /\ appended = FALSE
      /\ tree = RootTree /\ grown = {}
      /\ phase = "coding" /\ stack = <<>> /\ todo = {} /\ fresh = FALSE
  BY DEF Init
<1>2. AlignOffset \in Int /\ AlignOffset < heap.UnitsStart
  BY <1>1, RestartedIs
<1>3. Text \in Int /\ AlignOffset <= Text /\ Text < heap.UnitsStart
  BY <1>1, <1>2
<1>4. TextInv
  BY <1>1, <1>3 DEF TextInv
<1>5. PhaseInv
  BY <1>1 DEF PhaseInv
<1>6. StackInv(tree, stack, todo)
  BY <1>1, NoCalls
<1> QED BY <1>1, <1>4, <1>5, <1>6, RestartedIs DEF IInv

\* RestoreModel begins the model anew.
LEMMA RestartModelKeeps == ASSUME IInv, RestartModel PROVE IInv'
<1>1. /\ phase = "undo" /\ grown = {} /\ heap' = Restarted /\ tree' = RootTree
      /\ phase' = "coding" /\ Text' = Text /\ appended' = appended /\ grown' = {}
      /\ stack' = stack /\ todo' = todo /\ fresh' = fresh
  BY DEF RestartModel
<1>2. stack = <<>> /\ todo = {} /\ fresh \in BOOLEAN /\ Text = AlignOffset /\ ~appended
  BY <1>1 DEF IInv, PhaseInv
<1>3. TextInv'
  <2>1. AlignOffset \in Int /\ AlignOffset <= AlignOffset /\ AlignOffset < heap'.UnitsStart
    <3>1. AlignOffset \in Int /\ AlignOffset < heap'.UnitsStart
      BY <1>1, RestartedIs
    <3> QED BY <3>1
  <2>2. appended \in BOOLEAN
    BY DEF IInv, TextInv
  <2>3. Text' \in Int /\ AlignOffset <= Text' /\ Text' < heap'.UnitsStart
    BY <1>1, <1>2, <2>1
  <2>4. appended' \in BOOLEAN /\ ~appended'
    BY <1>1, <1>2, <2>2
  <2> QED BY <2>3, <2>4 DEF TextInv
<1>4. PhaseInv'
  BY <1>1, <1>2 DEF PhaseInv
<1>5. StackInv(tree', <<>>, {})
  BY NoCalls
<1> QED BY <1>1, <1>2, <1>3, <1>4, <1>5, RestartedIs DEF IInv

-------------------------------------------------------------------------------
(***************************************************************************)
(* The passes of CutOff.                                                   *)
(***************************************************************************)

\* A step of a pass that leaves the text, and the parts of the invariant.
LEMMA CutsOn ==
    ASSUME IInv, phase = "cutoff", UNCHANGED <<Text, appended, grown, phase, fresh>>,
           Sound(heap'), HeldInv(tree'), SharesInv(heap', tree'),
           Text < heap'.UnitsStart, TreeInv(tree'), RoomInv(tree', {}),
           todo' \subseteq DOMAIN tree', StackInv(tree', stack', todo')
    PROVE  IInv'
<1>1. /\ Text' = Text /\ appended' = appended /\ grown' = grown /\ phase' = phase
      /\ fresh' = fresh
  OBVIOUS
<1>2. PhaseInv /\ TextInv
  BY DEF IInv
<1>3. grown = {}
  BY <1>2 DEF PhaseInv
<1>4. TextInv'
  BY <1>1, <1>2 DEF TextInv
<1>5. PhaseInv'
  BY <1>1, <1>2, <1>3 DEF PhaseInv
<1> QED BY <1>1, <1>3, <1>4, <1>5 DEF IInv

\* A pass begins with every context before it.
LEMMA BeginCutOffKeeps == ASSUME IInv, BeginCutOff PROVE IInv'
<1>1. /\ phase = "undo" /\ grown = {} /\ heap' = heap /\ tree' = tree /\ grown' = grown
      /\ Text' = Text /\ appended' = appended /\ stack' = stack
      /\ phase' = "cutoff" /\ todo' = DOMAIN tree /\ fresh' = TRUE
  BY DEF BeginCutOff, BeginPass, model
<1>2. PhaseInv /\ TextInv /\ stack = <<>>
  BY <1>1 DEF IInv, PhaseInv
<1>3. TextInv'
  BY <1>1, <1>2 DEF TextInv
<1>4. PhaseInv'
  BY <1>1 DEF PhaseInv
<1>5. StackInv(tree, <<>>, DOMAIN tree)
  BY NoCalls
<1> QED BY <1>1, <1>2, <1>3, <1>4, <1>5 DEF IInv

\* A pass ends; the free blocks above the text are text, and another begins or
\* the coding goes on.
LEMMA EndPassKeeps == ASSUME IInv, EndPass PROVE IInv'
<1> DEFINE h == ExpandTextArea(heap)
<1>1. /\ phase = "cutoff" /\ stack = <<>> /\ todo = {} /\ tree' = tree /\ grown' = grown
      /\ Text' = Text /\ appended' = appended /\ stack' = stack
      /\ \/ heap' = h /\ phase' = "cutoff" /\ todo' = DOMAIN tree /\ fresh' = FALSE
         \/ heap' = [h EXCEPT !.GlueCount = 0] /\ phase' = "coding" /\ fresh' = FALSE
            /\ todo' = todo
  BY DEF EndPass, BeginPass, model
<1>2. PhaseInv /\ TextInv /\ grown = {}
  BY <1>1 DEF IInv, PhaseInv
<1>3. Exchanged(heap, h, {}, {})
  BY Parts, TextExpanded
<1> HIDE DEF h
<1>4. Exchanged(heap, heap', {}, {})
  <2>1. 0 \in 0..GlueReset
    BY RestoreAssumption
  <2> QED BY <1>1, <1>3, <2>1, GlueCountIsFree
<1>5. Taken(tree) = (Taken(tree) \ {}) \cup {} /\ {} \subseteq Taken(tree)
  OBVIOUS
<1>6. Sound(heap') /\ SharesInv(heap', tree) /\ Text < heap'.UnitsStart
  <2>1. SharesInv(heap', tree)
    BY <1>4, <1>5, Parts, SharesKept
  <2>2. Sound(heap') /\ Text < heap'.UnitsStart
    BY <1>4, Parts DEF Exchanged
  <2> QED BY <2>1, <2>2
<1>7. TextInv'
  BY <1>1, <1>2, <1>6 DEF TextInv
<1>8. PhaseInv'
  BY <1>1, <1>2 DEF PhaseInv
<1>9. StackInv(tree, <<>>, todo')
  BY NoCalls
<1> QED BY <1>1, <1>2, <1>6, <1>7, <1>8, <1>9 DEF IInv

\* A call of CutOff begins, for a context that no call was for.
LEMMA CallBegins ==
    ASSUME NEW t, NEW u, NEW calls, NEW rest, StackInv(t, calls, rest), SameShape(t, u),
           NEW c \in rest, rest \subseteq DOMAIN t, c \in Int,
           \A d \in DOMAIN t : CapacityIn(u, d) = CapacityIn(t, d),
           Cardinality(ChildrenIn(t, c)) \in Nat,
           Cardinality(ChildrenIn(t, c)) <= CapacityIn(t, c)
    PROVE  LET call == [context |-> c, successors |-> Cardinality(ChildrenIn(t, c))] IN
           StackInv(u, <<call>> \o calls, rest \ {c})
<1> DEFINE call == [context |-> c, successors |-> Cardinality(ChildrenIn(t, c))]
           more == <<call>> \o calls
           Calls == [context : Int, successors : Nat]
<1>1. /\ calls \in Seq(Calls)
      /\ \A k \in 1..Len(calls) :
             /\ calls[k].context \in DOMAIN t \ rest
             /\ Cardinality(ChildrenIn(t, calls[k].context)) <= calls[k].successors
             /\ calls[k].successors <= CapacityIn(t, calls[k].context)
      /\ \A j, k \in 1..Len(calls) : calls[j].context = calls[k].context => j = k
  BY DEF StackInv
<1>2. call \in Calls /\ call.context = c
      /\ call.successors = Cardinality(ChildrenIn(t, c))
  OBVIOUS
<1> HIDE DEF call, Calls
<1>3. /\ more \in Seq(Calls) /\ Len(calls) \in Nat /\ Len(more) = Len(calls) + 1
      /\ more[1] = call
      /\ \A k \in 2..Len(calls) + 1 : more[k] = calls[k - 1]
  BY <1>1, <1>2
<1> HIDE DEF more
<1>4. \A k \in 1..Len(more) : k = 1 \/ (k \in 2..Len(calls) + 1 /\ k - 1 \in 1..Len(calls))
  BY <1>3
<1>5. DOMAIN u = DOMAIN t /\ \A d : ChildrenIn(u, d) = ChildrenIn(t, d)
  BY ShapeKept DEF SameShape
<1>6. ASSUME NEW k \in 1..Len(more)
      PROVE  /\ more[k].context \in DOMAIN u \ (rest \ {c})
             /\ Cardinality(ChildrenIn(u, more[k].context)) <= more[k].successors
             /\ more[k].successors <= CapacityIn(u, more[k].context)
  <2>1. CASE k = 1
    <3>1. more[k] = call /\ c \in DOMAIN t
      BY <1>3, <2>1
    <3>2. Cardinality(ChildrenIn(u, c)) <= Cardinality(ChildrenIn(t, c))
      BY <1>5
    <3> QED BY <1>2, <1>5, <3>1, <3>2
  <2>2. CASE k # 1
    <3> DEFINE j == k - 1
    <3>1. j \in 1..Len(calls) /\ more[k] = calls[j]
      BY <1>3, <1>4, <2>2
    <3> HIDE DEF j
    <3>2. /\ calls[j].context \in DOMAIN t \ rest
          /\ Cardinality(ChildrenIn(t, calls[j].context)) <= calls[j].successors
          /\ calls[j].successors <= CapacityIn(t, calls[j].context)
      BY <1>1, <3>1
    <3> QED BY <1>5, <3>1, <3>2
  <2> QED BY <2>1, <2>2
<1>7. ASSUME NEW j \in 1..Len(more), NEW k \in 1..Len(more), more[j].context = more[k].context
      PROVE  j = k
  <2>1. \A i \in 1..Len(calls) : calls[i].context # c
    BY <1>1
  <2>2. CASE j = 1 \/ k = 1
    <3>1. \A i \in 1..Len(more) : i # 1 => more[i].context # c
      BY <1>3, <1>4, <2>1
    <3> QED BY <1>2, <1>3, <1>7, <2>2, <3>1
  <2>3. CASE j # 1 /\ k # 1
    <3>1. j - 1 \in 1..Len(calls) /\ k - 1 \in 1..Len(calls)
          /\ more[j] = calls[j - 1] /\ more[k] = calls[k - 1]
      BY <1>3, <1>4, <2>3
    <3>2. j - 1 = k - 1
      BY <1>1, <1>7, <3>1
    <3>3. j \in Int /\ k \in Int
      OBVIOUS
    <3> QED BY <3>2, <3>3
  <2> QED BY <2>2, <2>3
<1>8. StackInv(u, more, rest \ {c})
  BY <1>3, <1>6, <1>7 DEF StackInv, Calls
<1> QED BY <1>8 DEF more, call

\* CutOff of a context begins.
LEMMA EnterKeeps == ASSUME IInv, NEW c \in todo, Enter(c) PROVE IInv'
<1>1. /\ phase = "cutoff" /\ UNCHANGED <<Text, appended, grown, phase, fresh>>
      /\ stack' = <<[context |-> c, successors |-> Cardinality(Children(c))]>> \o stack
      /\ todo' = todo \ {c}
  BY DEF Enter
<1>2. c \in DOMAIN tree /\ todo \subseteq DOMAIN tree /\ StackInv(tree, stack, todo)
  BY DEF IInv, PhaseInv
<1>3. /\ c \in Int /\ tree[c] \in ContextTypes
      /\ tree[c].stats \in Int /\ tree[c].indx \in Indexes
      /\ Cardinality(ChildrenIn(tree, c)) \in Nat
      /\ Cardinality(ChildrenIn(tree, c)) <= CapacityIn(tree, c)
      /\ RoomInv(tree, {})
  BY <1>2, Parts DEF RoomInv
<1>4. /\ HeldInv(tree') /\ SharesInv(heap', tree') /\ SameShape(tree, tree')
      /\ Sound(heap') /\ Text < heap'.UnitsStart
      /\ \A d \in DOMAIN tree : CapacityIn(tree', d) = CapacityIn(tree, d)
  <2>1. CASE Binary(c)
    <3>1. heap' = heap /\ tree' = tree
      BY <2>1 DEF Enter
    <3>2. SameShape(tree, tree)
      BY DEF SameShape
    <3> QED BY <3>1, <3>2, Parts
  <2>2. CASE ~Binary(c)
    <3> DEFINE i == tree[c].indx
    <3>1. PICK r \in MoveUnitsUp(heap, tree[c].stats, i) :
            heap' = r.heap /\ tree' = WithStats(c, r.ptr, i)
      BY <2>2 DEF Enter
    <3> DEFINE u == [tree EXCEPT ![c].stats = r.ptr, ![c].indx = i]
    <3>2. tree' = u
      BY <3>1 DEF WithStats
    <3>3. /\ BlockIn(tree, c) = Units(tree[c].stats, I2U(i)) /\ i \in Indexes
          /\ FreshUnits(heap, BlockIn(tree, c))
      BY <1>2, <1>3, <2>2, StatsGivenUp
    <3>4. tree[c].stats # NULL
      BY <2>2 DEF Binary
    <3> HIDE DEF i
    <3>5. /\ Exchanged(heap, heap', BlockIn(tree, c), Units(r.ptr, I2U(i)))
          /\ r.ptr \in Int /\ r.ptr # NULL
      BY <1>3, <3>1, <3>3, Parts, UnitsMoved
    <3>6. Exchanged(heap, heap', BlockIn(tree, c), BlockOf(r.ptr, i))
      BY <3>5 DEF BlockOf
    <3>7. /\ HeldInv(u) /\ SharesInv(heap', u) /\ SameShape(tree, u)
          /\ u[c].stats = r.ptr /\ u[c].indx = i
          /\ \A d \in DOMAIN tree \ {c} : u[d] = tree[d]
      <4>1. HeldInv(tree) /\ SharesInv(heap, tree) /\ c \in DOMAIN tree
            /\ r.ptr \in Int /\ i \in Indexes
        BY <1>2, <3>3, <3>5, Parts
      <4> QED BY <3>6, <4>1, BlockExchanged
    <3> HIDE DEF u
    <3>8. ASSUME NEW d \in DOMAIN tree PROVE CapacityIn(u, d) = CapacityIn(tree, d)
      <4>1. CASE d = c
        BY <3>4, <3>5, <3>7, <4>1 DEF CapacityIn, i
      <4>2. CASE d # c
        BY <3>7, <4>2 DEF CapacityIn
      <4> QED BY <4>1, <4>2
    <3>9. Sound(heap') /\ Text < heap'.UnitsStart
      BY <3>5, Parts DEF Exchanged
    <3> QED BY <3>2, <3>7, <3>8, <3>9
  <2> QED BY <2>1, <2>2
<1>5. TreeInv(tree') /\ \A d : ChildrenIn(tree', d) = ChildrenIn(tree, d)
  BY <1>4, Parts, ShapeKept
<1>6. RoomInv(tree', {})
  BY <1>3, <1>4, <1>5 DEF RoomInv, SameShape
<1>7. StackInv(tree', stack', todo')
  <2>1. Children(c) = ChildrenIn(tree, c)
    BY DEF Children, ChildrenIn
  <2> QED BY <1>1, <1>2, <1>3, <1>4, <2>1, CallBegins
<1>8. todo' \subseteq DOMAIN tree'
  BY <1>1, <1>2, <1>4 DEF SameShape
<1> QED BY <1>1, <1>4, <1>5, <1>6, <1>7, <1>8, CutsOn

\* A call ends; the others are for contexts that keep their states, and have no
\* more children than before.
LEMMA CallEnds ==
    ASSUME NEW t, NEW u, NEW calls, NEW rest, StackInv(t, calls, rest), calls # <<>>,
           DOMAIN t \ {calls[1].context} \subseteq DOMAIN u,
           \A d \in DOMAIN t \ {calls[1].context} : CapacityIn(u, d) = CapacityIn(t, d),
           \A d \in DOMAIN t :
               /\ IsFiniteSet(ChildrenIn(t, d))
               /\ ChildrenIn(u, d) \subseteq ChildrenIn(t, d)
    PROVE  StackInv(u, Tail(calls), rest)
<1> DEFINE less == Tail(calls)
           Calls == [context : Int, successors : Nat]
<1>1. /\ calls \in Seq(Calls)
      /\ \A k \in 1..Len(calls) :
             /\ calls[k].context \in DOMAIN t \ rest
             /\ Cardinality(ChildrenIn(t, calls[k].context)) <= calls[k].successors
             /\ calls[k].successors <= CapacityIn(t, calls[k].context)
      /\ \A j, k \in 1..Len(calls) : calls[j].context = calls[k].context => j = k
  BY DEF StackInv
<1> HIDE DEF Calls
<1>2. ASSUME NEW k \in 1..Len(calls) PROVE calls[k].successors \in Nat
  <2>1. calls \in Seq(Calls)
    BY <1>1
  <2>2. calls[k] \in Calls
    BY <2>1
  <2> QED BY <2>2 DEF Calls
<1>3. /\ less \in Seq(Calls) /\ Len(calls) \in Nat \ {0} /\ Len(less) = Len(calls) - 1
      /\ \A k \in 1..Len(calls) - 1 : less[k] = calls[k + 1]
  BY <1>1
<1> HIDE DEF less
<1>4. \A k \in 1..Len(less) :
          /\ k + 1 \in 1..Len(calls) /\ 1 \in 1..Len(calls) /\ k + 1 # 1
          /\ less[k] = calls[k + 1]
  BY <1>3
<1>5. ASSUME NEW k \in 1..Len(less)
      PROVE  /\ less[k].context \in DOMAIN u \ rest
             /\ Cardinality(ChildrenIn(u, less[k].context)) <= less[k].successors
             /\ less[k].successors <= CapacityIn(u, less[k].context)
  <2> DEFINE j == k + 1
             c == calls[j].context
  <2>1. j \in 1..Len(calls) /\ 1 \in 1..Len(calls) /\ j # 1 /\ less[k] = calls[j]
    BY <1>4
  <2> HIDE DEF j
  <2>2. /\ c \in DOMAIN t \ rest
        /\ Cardinality(ChildrenIn(t, c)) <= calls[j].successors
        /\ calls[j].successors <= CapacityIn(t, c)
        /\ c # calls[1].context /\ calls[j].successors \in Nat
    BY <1>1, <1>2, <2>1
  <2> HIDE DEF c
  <2>3. c \in DOMAIN u /\ CapacityIn(u, c) = CapacityIn(t, c)
    BY <2>2
  <2>4. Cardinality(ChildrenIn(u, c)) <= Cardinality(ChildrenIn(t, c))
        /\ Cardinality(ChildrenIn(u, c)) \in Nat /\ Cardinality(ChildrenIn(t, c)) \in Nat
    <3>1. IsFiniteSet(ChildrenIn(t, c)) /\ ChildrenIn(u, c) \in SUBSET ChildrenIn(t, c)
      BY <2>2
    <3> QED BY <3>1, FewerChildren
  <2>5. Cardinality(ChildrenIn(u, c)) <= calls[j].successors
    BY <2>2, <2>4
  <2> QED BY <2>1, <2>2, <2>3, <2>5 DEF c
<1>6. ASSUME NEW j \in 1..Len(less), NEW k \in 1..Len(less), less[j].context = less[k].context
      PROVE  j = k
  <2>1. j + 1 = k + 1
    BY <1>1, <1>4, <1>6
  <2>2. j \in Int /\ k \in Int
    OBVIOUS
  <2> QED BY <2>1, <2>2
<1>7. StackInv(u, less, rest)
  BY <1>3, <1>5, <1>6 DEF StackInv, Calls
<1> QED BY <1>7 DEF less

\* The call for the top of the stack ends with the context cut, or with room for
\* the successors it has.
LEMMA TopReturns ==
    ASSUME IInv, phase = "cutoff", stack # <<>>,
           UNCHANGED <<Text, appended, grown, phase, todo, fresh>>, stack' = Tail(stack),
           Sound(heap'), HeldInv(tree'), SharesInv(heap', tree'),
           Text < heap'.UnitsStart, TreeInv(tree'),
           DOMAIN tree' \subseteq DOMAIN tree, DOMAIN tree \ {Top} \subseteq DOMAIN tree',
           \A d \in DOMAIN tree \ {Top} : tree'[d] = tree[d],
           \A d \in DOMAIN tree : ChildrenIn(tree', d) \subseteq ChildrenIn(tree, d),
           Top \in DOMAIN tree' => Cardinality(ChildrenIn(tree, Top)) <= CapacityIn(tree', Top)
    PROVE  IInv'
<1>1. StackInv(tree, stack, todo) /\ todo \subseteq DOMAIN tree
  BY DEF IInv, PhaseInv
<1>2. Top \in DOMAIN tree \ todo
  <2>1. 1 \in 1..Len(stack)
    BY <1>1 DEF StackInv
  <2> QED BY <1>1, <2>1 DEF StackInv, Top
<1>3. \A d \in DOMAIN tree \ {Top} : CapacityIn(tree', d) = CapacityIn(tree, d)
  BY DEF CapacityIn
<1>4. \A d \in DOMAIN tree :
          /\ IsFiniteSet(ChildrenIn(tree, d)) /\ tree[d] \in ContextTypes
          /\ Cardinality(ChildrenIn(tree, d)) <= CapacityIn(tree, d)
  BY Parts DEF RoomInv
<1>5. StackInv(tree', stack', todo')
  <2>1. StackInv(tree', Tail(stack), todo)
    BY <1>1, <1>3, <1>4, CallEnds DEF Top
  <2> QED BY <2>1
<1>6. RoomInv(tree', {})
  <2>1. ASSUME NEW d \in DOMAIN tree'
        PROVE  Cardinality(ChildrenIn(tree', d)) <= CapacityIn(tree', d)
    <3>1. d \in DOMAIN tree /\ ChildrenIn(tree', d) \in SUBSET ChildrenIn(tree, d)
      OBVIOUS
    <3> DEFINE n == Cardinality(ChildrenIn(tree', d))
               m == Cardinality(ChildrenIn(tree, d))
               k == CapacityIn(tree', d)
    <3>2. n \in Nat /\ m \in Nat /\ n <= m
      BY <1>4, <3>1, FewerChildren
    <3>3. m <= k
      <4>1. CASE d = Top
        BY <4>1
      <4>2. CASE d # Top
        BY <1>3, <1>4, <3>1, <4>2
      <4> QED BY <4>1, <4>2
    <3>4. k \in Nat
      <4>1. tree'[d] \in ContextTypes
        BY DEF HeldInv
      <4> QED BY <4>1, CapacityIs
    <3> HIDE DEF n, m, k
    <3>5. n <= k
      BY <3>2, <3>3, <3>4
    <3> QED BY <3>5 DEF n, k
  <2> QED BY <2>1 DEF RoomInv
<1>7. todo' \subseteq DOMAIN tree'
  BY <1>1, <1>2
<1>8. UNCHANGED <<Text, appended, grown, phase, fresh>>
  OBVIOUS
<1> QED BY <1>5, <1>6, <1>7, <1>8, CutsOn

\* The unit of a context goes, after its states if it has any.
LEMMA ContextFreed ==
    ASSUME IInv, NEW c \in DOMAIN tree
    PROVE  LET freed == IF Binary(c) THEN heap
                        ELSE InsertNode(heap, tree[c].stats, tree[c].indx)
               g == SpecialFreeUnit(freed, c)
               u == Without(c)
           IN  HeldInv(u) /\ SharesInv(g, u) /\ Sound(g) /\ Text < g.UnitsStart
<1> DEFINE freed == IF Binary(c) THEN heap
                    ELSE InsertNode(heap, tree[c].stats, tree[c].indx)
           g == SpecialFreeUnit(freed, c)
           m == IF Binary(c) THEN tree ELSE [tree EXCEPT ![c].stats = NULL, ![c].indx = 0]
           u == [d \in DOMAIN m \ {c} |-> m[d]]
<1>1. HeldInv(tree) /\ SharesInv(heap, tree) /\ Sound(heap) /\ Text < heap.UnitsStart
      /\ Text \in Int /\ c \in Int
  BY Parts
<1>2. /\ HeldInv(m) /\ SharesInv(freed, m) /\ Sound(freed) /\ Text < freed.UnitsStart
      /\ DOMAIN m = DOMAIN tree /\ m[c].stats = NULL
      /\ \A d \in DOMAIN tree \ {c} : m[d] = tree[d]
  <2>1. CASE Binary(c)
    BY <1>1, <2>1 DEF Binary
  <2>2. CASE ~Binary(c)
    <3> DEFINE h == InsertNode(heap, tree[c].stats, tree[c].indx)
               v == [tree EXCEPT ![c].stats = NULL, ![c].indx = 0]
    <3>1. freed = h /\ m = v
      BY <2>2
    <3>2. Exchanged(heap, h, BlockIn(tree, c), BlockOf(NULL, 0))
      BY <2>2, StatsGivenUp
    <3>3. NULL \in Int /\ 0 \in Indexes
      BY LastIndexIs DEF NULL
    <3> HIDE DEF h, freed, m
    <3>4. /\ HeldInv(v) /\ SharesInv(h, v) /\ SameShape(tree, v)
          /\ v[c].stats = NULL
          /\ \A d \in DOMAIN tree \ {c} : v[d] = tree[d]
      <4>1. HeldInv(tree) /\ SharesInv(heap, tree)
        BY <1>1
      <4>2. /\ HeldInv(v) /\ SharesInv(h, v) /\ SameShape(tree, v)
            /\ v[c].stats = NULL /\ v[c].indx = 0
            /\ \A d \in DOMAIN tree \ {c} : v[d] = tree[d]
        BY <3>2, <3>3, <4>1, BlockExchanged
      <4> QED BY <4>2
    <3> HIDE DEF v
    <3>5. Sound(h) /\ Text < h.UnitsStart
      BY <1>1, <3>2 DEF Exchanged
    <3> QED BY <3>1, <3>4, <3>5 DEF SameShape
  <2> QED BY <2>1, <2>2
<1>3. u = Without(c)
  BY <1>2 DEF Without
<1> HIDE DEF m, freed
<1>4. FreshUnits(freed, {c})
  BY <1>2, HeldIsFresh
<1>5. Exchanged(freed, g, {c}, {})
  BY <1>1, <1>2, <1>4, UnitFreed
<1> HIDE DEF g
<1>6. HeldInv(u) /\ SharesInv(g, u)
  BY <1>2, <1>5, ContextRemoved
<1>7. Sound(g) /\ Text < g.UnitsStart
  BY <1>2, <1>5 DEF Exchanged
<1> HIDE DEF u
<1> QED BY <1>3, <1>6, <1>7 DEF g, freed

\* CutOff of a context ends.
LEMMA LeaveKeeps == ASSUME IInv, Leave PROVE IInv'
<1> DEFINE c == Top
           rest == DOMAIN tree \ {c}
           n == Cardinality(ChildrenIn(tree, c))
<1>1. /\ phase = "cutoff" /\ stack # <<>> /\ stack' = Tail(stack)
      /\ UNCHANGED <<Text, appended, grown, phase, todo, fresh>>
      /\ IF c = RootContext
         THEN UNCHANGED <<heap, tree>>
         ELSE \E kept \in Kept(c) :
                  IF Binary(c) THEN LeaveBinary(c, kept) ELSE LeaveStats(c, kept)
  BY DEF Leave
<1>2. c \in DOMAIN tree /\ n <= stack[1].successors
      /\ stack[1].successors \in Nat /\ stack[1].successors <= CapacityIn(tree, c)
  <2>1. StackInv(tree, stack, todo)
    BY DEF IInv
  <2>2. 1 \in 1..Len(stack) /\ stack[1].successors \in Nat
    <3> DEFINE Calls == [context : Int, successors : Nat]
    <3>1. stack \in Seq(Calls)
      BY <2>1 DEF StackInv
    <3> HIDE DEF Calls
    <3>2. 1 \in 1..Len(stack) /\ stack[1] \in Calls
      BY <1>1, <3>1
    <3> QED BY <3>2 DEF Calls
  <2> QED BY <2>1, <2>2 DEF StackInv, Top
<1>3. /\ c \in Int /\ tree[c] \in ContextTypes
      /\ IsFiniteSet(ChildrenIn(tree, c)) /\ n \in Nat /\ n <= CapacityIn(tree, c)
      /\ tree[c].indx \in Indexes
      /\ HeldInv(tree) /\ SharesInv(heap, tree) /\ Sound(heap) /\ Text < heap.UnitsStart
      /\ TreeInv(tree)
  BY <1>2, Parts DEF RoomInv
<1>4. CapacityIn(tree, c) \in Nat /\ Capacity(c) = CapacityIn(tree, c)
      /\ Children(c) = ChildrenIn(tree, c)
  BY <1>2, <1>3, CapacityIs DEF Capacity, CapacityIn, Binary, Children, ChildrenIn
<1>5. ASSUME NEW kept \in Kept(c)
      PROVE  /\ kept \in Nat /\ kept <= CapacityIn(tree, c) /\ n <= kept
             /\ kept = 0 => ChildrenIn(tree, c) = {}
  <2>1. kept \in Nat /\ kept <= CapacityIn(tree, c) /\ n <= kept
    <3>1. CASE tree[c].order = MaxOrder /\ fresh
      <4>1. kept \in 0..CapacityIn(tree, c)
        BY <1>4, <3>1 DEF Kept
      <4>2. ChildrenIn(tree, c) = {}
        BY <1>2, <3>1, Parts, HighestHasNone
      <4>3. n = 0
        BY <4>2, FS_EmptySet
      <4> QED BY <1>4, <4>1, <4>3
    <3>2. CASE ~(tree[c].order = MaxOrder /\ fresh)
      <4>1. kept = stack[1].successors
        BY <3>2 DEF Kept
      <4> QED BY <1>2, <4>1
    <3> QED BY <3>1, <3>2
  <2>2. kept = 0 => n = 0
    <3> HIDE DEF n
    <3> QED BY <1>3, <2>1
  <2>3. n = 0 => ChildrenIn(tree, c) = {}
    BY <1>3, NoChildren
  <2> QED BY <2>1, <2>2, <2>3
<1> HIDE DEF c
<1>6. ASSUME heap' = heap, tree' = tree PROVE IInv'
  <2>1. Sound(heap') /\ HeldInv(tree') /\ SharesInv(heap', tree')
        /\ Text < heap'.UnitsStart /\ TreeInv(tree')
    BY <1>3, <1>6
  <2>2. /\ DOMAIN tree' \subseteq DOMAIN tree /\ DOMAIN tree \ {c} \subseteq DOMAIN tree'
        /\ \A d \in DOMAIN tree \ {c} : tree'[d] = tree[d]
        /\ \A d \in DOMAIN tree : ChildrenIn(tree', d) \subseteq ChildrenIn(tree, d)
        /\ n <= CapacityIn(tree', c)
    BY <1>3, <1>6
  <2> QED BY <1>1, <2>1, <2>2, TopReturns DEF c
<1>7. ASSUME c # RootContext, ChildrenIn(tree, c) = {},
             heap' = SpecialFreeUnit(IF Binary(c) THEN heap
                         ELSE InsertNode(heap, tree[c].stats, tree[c].indx), c),
             tree' = Without(c)
      PROVE  IInv'
  <2> DEFINE u == [d \in DOMAIN tree \ {c} |-> tree[d]]
  <2>1. tree' = u
    BY <1>7 DEF Without
  <2>2. HeldInv(tree') /\ SharesInv(heap', tree') /\ Sound(heap') /\ Text < heap'.UnitsStart
    BY <1>2, <1>7, ContextFreed
  <2>3. /\ TreeInv(u) /\ DOMAIN u = DOMAIN tree \ {c}
        /\ \A d \in DOMAIN u : u[d] = tree[d]
        /\ \A d : ChildrenIn(u, d) \subseteq ChildrenIn(tree, d)
    BY <1>2, <1>3, <1>7, LeafCut
  <2> HIDE DEF u
  <2>4. /\ DOMAIN tree' \subseteq DOMAIN tree /\ DOMAIN tree \ {c} \subseteq DOMAIN tree'
        /\ \A d \in DOMAIN tree \ {c} : tree'[d] = tree[d]
        /\ \A d \in DOMAIN tree : ChildrenIn(tree', d) \subseteq ChildrenIn(tree, d)
        /\ c \notin DOMAIN tree' /\ TreeInv(tree')
    BY <2>1, <2>3
  <2> QED BY <1>1, <2>2, <2>4, TopReturns DEF c
<1>8. ASSUME NEW ptr \in Int, NEW i \in Indexes,
             Exchanged(heap, heap', BlockIn(tree, c), BlockOf(ptr, i)),
             tree' = WithStats(c, ptr, i), n <= (IF ptr = NULL THEN 1 ELSE 2 * I2U(i))
      PROVE  IInv'
  <2> DEFINE u == [tree EXCEPT ![c].stats = ptr, ![c].indx = i]
  <2>1. tree' = u
    BY <1>8 DEF WithStats
  <2>2. HeldInv(tree) /\ SharesInv(heap, tree)
    BY <1>3
  <2>3. /\ HeldInv(u) /\ SharesInv(heap', u) /\ SameShape(tree, u)
        /\ u[c].stats = ptr /\ u[c].indx = i
        /\ \A d \in DOMAIN tree \ {c} : u[d] = tree[d]
    BY <1>2, <1>8, <2>2, BlockExchanged
  <2> HIDE DEF u
  <2>4. Sound(heap') /\ Text < heap'.UnitsStart
    BY <1>3, <1>8 DEF Exchanged
  <2>5. TreeInv(u) /\ (\A d : ChildrenIn(u, d) = ChildrenIn(tree, d)) /\ DOMAIN u = DOMAIN tree
    BY <1>3, <2>3, ShapeKept DEF SameShape
  <2>6. n <= CapacityIn(u, c)
    BY <1>8, <2>3 DEF CapacityIn
  <2>7. /\ DOMAIN tree' \subseteq DOMAIN tree /\ DOMAIN tree \ {c} \subseteq DOMAIN tree'
        /\ \A d \in DOMAIN tree \ {c} : tree'[d] = tree[d]
        /\ \A d \in DOMAIN tree : ChildrenIn(tree', d) \subseteq ChildrenIn(tree, d)
        /\ n <= CapacityIn(tree', c)
        /\ TreeInv(tree') /\ HeldInv(tree') /\ SharesInv(heap', tree')
    BY <2>1, <2>3, <2>5, <2>6
  <2> QED BY <1>1, <2>4, <2>7, TopReturns DEF c
<1>9. CASE c = RootContext
  BY <1>1, <1>6, <1>9
<1>10. CASE c # RootContext
  <2>1. PICK kept \in Kept(c) :
          IF Binary(c) THEN LeaveBinary(c, kept) ELSE LeaveStats(c, kept)
    BY <1>1, <1>10
  <2>2. /\ kept \in Nat /\ kept <= CapacityIn(tree, c) /\ n <= kept
        /\ kept = 0 => ChildrenIn(tree, c) = {}
    BY <1>5
  <2>3. CASE Binary(c)
    <3>1. CASE kept = 1 /\ (Children(c) # {} \/ tree[c].order <= KeepOrder)
      BY <1>6, <2>1, <2>3, <3>1 DEF LeaveBinary
    <3>2. CASE ~(kept = 1 /\ (Children(c) # {} \/ tree[c].order <= KeepOrder))
      <4>1. heap' = SpecialFreeUnit(heap, c) /\ tree' = Without(c)
        BY <2>1, <2>3, <3>2 DEF LeaveBinary
      <4>2. CapacityIn(tree, c) = 1
        BY <2>3 DEF Binary, CapacityIn
      <4>3. kept = 0 \/ kept = 1
        BY <2>2, <4>2
      <4>4. ChildrenIn(tree, c) = {}
        BY <1>4, <2>2, <3>2, <4>3
      <4> QED BY <1>7, <1>10, <2>3, <4>1, <4>4
    <3> QED BY <3>1, <3>2
  <2>4. CASE ~Binary(c)
    <3> DEFINE freed == InsertNode(heap, tree[c].stats, tree[c].indx)
    <3>1. LeaveStats(c, kept)
      BY <2>1, <2>4
    <3>2. CASE kept = 0
      <4>1. heap' = SpecialFreeUnit(freed, c) /\ tree' = Without(c)
        BY <3>1, <3>2 DEF LeaveStats
      <4> QED BY <1>7, <1>10, <2>2, <2>4, <3>2, <4>1
    <3>3. CASE kept = 1
      <4>1. heap' = freed /\ tree' = WithStats(c, NULL, 0)
        BY <3>1, <3>3 DEF LeaveStats, MadeBinary
      <4>2. Exchanged(heap, heap', BlockIn(tree, c), BlockOf(NULL, 0))
        BY <1>2, <2>4, <4>1, StatsGivenUp
      <4>3. n <= 1 /\ NULL \in Int /\ 0 \in Indexes
        BY <2>2, <3>3, LastIndexIs DEF NULL
      <4> QED BY <1>8, <4>1, <4>2, <4>3
    <3>4. CASE kept > 1
      <4> DEFINE i1 == U2I(UnitsFor(kept))
      <4>1. \E r \in ShrinkUnits(heap, tree[c].stats, tree[c].indx, i1) :
                heap' = r.heap /\ tree' = WithStats(c, r.ptr, i1)
        <5>1. kept # 0 /\ kept # 1
          BY <2>2, <3>4
        <5> QED BY <3>1, <3>4, <5>1 DEF LeaveStats
      <4>2. PICK r \in ShrinkUnits(heap, tree[c].stats, tree[c].indx, i1) :
                heap' = r.heap /\ tree' = WithStats(c, r.ptr, i1)
        BY <4>1
      <4>3. kept <= 2 * I2U(tree[c].indx)
        BY <1>2, <1>3, <2>2, <2>4, CapacityIs DEF Binary
      <4>4. i1 \in Indexes /\ i1 <= tree[c].indx /\ kept <= 2 * I2U(i1)
        BY <1>3, <2>2, <3>4, <4>3, KeptFit
      <4> HIDE DEF i1
      <4>5. /\ r.ptr \in Int /\ r.ptr # NULL
            /\ Exchanged(heap, heap', BlockIn(tree, c), BlockOf(r.ptr, i1))
        BY <1>2, <2>4, <4>2, <4>4, StatsGivenUp
      <4>6. n <= 2 * I2U(i1)
        <5>1. I2U(i1) \in Nat /\ n \in Nat
          BY <1>3, <4>4, SizesGrow
        <5> HIDE DEF n
        <5> QED BY <2>2, <4>4, <5>1
      <4> QED BY <1>8, <4>2, <4>4, <4>5, <4>6
    <3>5. kept = 0 \/ kept = 1 \/ kept > 1
      BY <2>2
    <3> QED BY <3>2, <3>3, <3>4, <3>5
  <2> QED BY <2>3, <2>4
<1> QED BY <1>9, <1>10

-------------------------------------------------------------------------------
(***************************************************************************)
(* How many units lists have, and the memory in use.                       *)
(***************************************************************************)

\* A block of n units has n.
LEMMA UnitsCounted ==
    ASSUME NEW at \in Int
    PROVE  \A n \in Nat : IsFiniteSet(Units(at, n)) /\ Cardinality(Units(at, n)) = n
<1> DEFINE S == {n \in Nat : IsFiniteSet(Units(at, n)) /\ Cardinality(Units(at, n)) = n}
<1>1. 0 \in S
  <2>1. Units(at, 0) = {}
    BY UnitsOne
  <2> QED BY <2>1, FS_EmptySet
<1>2. ASSUME NEW n \in S PROVE n + 1 \in S
  <2>1. n \in Nat /\ n \in Int /\ 1 \in Nat /\ IsFiniteSet(Units(at, n))
        /\ Cardinality(Units(at, n)) = n
    OBVIOUS
  <2> DEFINE x == at + U2B(n)
             old == Units(at, n)
             new == Units(at, n + 1)
  <2>2. x \in Int
    <3> DEFINE d == U2B(n)
    <3>1. d \in Int
      BY <2>1, BytesOfUnits
    <3> HIDE DEF d
    <3>2. at + d \in Int
      BY <3>1
    <3> QED BY <3>2 DEF d
  <2>3. new = old \cup Units(x, 1) /\ old \cap Units(x, 1) = {}
    BY <2>1, UnitsJoin
  <2> HIDE DEF x
  <2>4. Units(x, 1) = {x}
    BY <2>2, UnitsOne
  <2> HIDE DEF old, new
  <2>5. new = old \cup {x} /\ x \notin old
    BY <2>3, <2>4
  <2>6. IsFiniteSet(old) /\ Cardinality(old) = n
    BY <2>1 DEF old
  <2>7. IsFiniteSet(new) /\ Cardinality(new) = n + 1
    BY <2>5, <2>6, FS_AddElement
  <2> QED BY <2>1, <2>7 DEF new
<1> HIDE DEF S
<1>3. S = Nat
  BY <1>1, <1>2, AllNumbers DEF S
<1> QED BY <1>3 DEF S

\* The units of the blocks at these nodes, of one size.
OfSize(nodes, nu) == UNION {Units(at, nu) : at \in nodes}

\* Blocks of one size that have nothing in common have as many units as that.
LEMMA SizeCounted ==
    ASSUME NEW nu \in Nat, NEW all \in SUBSET Int,
           \A a, b \in all : a # b => Units(a, nu) \cap Units(b, nu) = {}
    PROVE  \A S \in SUBSET all : IsFiniteSet(S) =>
               /\ IsFiniteSet(OfSize(S, nu))
               /\ Cardinality(OfSize(S, nu)) = Cardinality(S) * nu
<1> DEFINE Right(S) == /\ IsFiniteSet(OfSize(S, nu))
                       /\ Cardinality(OfSize(S, nu)) = Cardinality(S) * nu
           N == {n \in Nat : \A S \in SUBSET all :
                     IsFiniteSet(S) /\ Cardinality(S) = n => Right(S)}
<1>1. 0 \in N
  <2> SUFFICES ASSUME NEW S \in SUBSET all, IsFiniteSet(S), Cardinality(S) = 0 PROVE Right(S)
    OBVIOUS
  <2>1. S = {}
    BY NoChildren
  <2>2. OfSize(S, nu) = {}
    BY <2>1 DEF OfSize
  <2>3. 0 * nu = 0
    OBVIOUS
  <2> QED BY <2>2, <2>3, FS_EmptySet
<1>2. ASSUME NEW n \in N PROVE n + 1 \in N
  <2>1. n \in Nat /\ n + 1 \in Nat
    OBVIOUS
  <2> SUFFICES ASSUME NEW S \in SUBSET all, IsFiniteSet(S), Cardinality(S) = n + 1
               PROVE  Right(S)
    BY <2>1
  <2>2. S # {}
    <3>1. Cardinality(S) # 0
      BY <2>1
    <3> QED BY <3>1, NoChildren
  <2>3. PICK x \in S : TRUE
    BY <2>2
  <2> DEFINE less == S \ {x}
  <2>4. IsFiniteSet(less) /\ Cardinality(less) = Cardinality(S) - 1 /\ less \in SUBSET all
    BY FS_RemoveElement
  <2>5. Cardinality(less) = n
    BY <2>1, <2>4
  <2> HIDE DEF less
  <2>6. Right(less)
    BY <2>4, <2>5
  <2>7. OfSize(S, nu) = OfSize(less, nu) \cup Units(x, nu)
    BY DEF OfSize, less
  <2>8. OfSize(less, nu) \cap Units(x, nu) = {}
    BY DEF OfSize, less
  <2>9. IsFiniteSet(Units(x, nu)) /\ Cardinality(Units(x, nu)) = nu
    BY UnitsCounted
  <2> DEFINE old == OfSize(less, nu)
             new == Units(x, nu)
  <2>10. IsFiniteSet(old) /\ Cardinality(old) = n * nu
    BY <2>5, <2>6
  <2>11. IsFiniteSet(new) /\ Cardinality(new) = nu /\ old \cap new = {}
    BY <2>8, <2>9
  <2> HIDE DEF old, new
  <2>12. IsFiniteSet(old \cup new) /\ Cardinality(old \cup new) = n * nu + nu
    <3>1. IsFiniteSet(old \cup new)
          /\ Cardinality(old \cup new) = Cardinality(old) + Cardinality(new)
      BY <2>10, <2>11, SizesAdd
    <3> QED BY <2>10, <2>11, <3>1
  <2>13. n * nu + nu = (n + 1) * nu
    BY <2>1
  <2> QED BY <2>7, <2>12, <2>13 DEF old, new
<1> HIDE DEF N, Right
<1>3. N = Nat
  BY <1>1, <1>2, AllNumbers DEF N
<1>4. ASSUME NEW S \in SUBSET all, IsFiniteSet(S) PROVE Right(S)
  <2>1. Cardinality(S) \in Nat
    BY <1>4, FS_CardinalityType
  <2> QED BY <1>3, <1>4, <2>1 DEF N
<1> QED BY <1>4 DEF Right

\* The units in the first n lists.
InFirst(lists, n) == UNION {OfSize(lists[i], I2U(i)) : i \in 0..n - 1}

\* One list more has the units of its blocks more.
LEMMA OneListMore ==
    ASSUME NEW h, h \in HeapTypes, Counted(h), ListsApart(h.FreeList), NEW n \in Indexes
    PROVE  LET was == InFirst(h.FreeList, n)
               is == InFirst(h.FreeList, n + 1)
           IN  IsFiniteSet(was) =>
                   /\ IsFiniteSet(is)
                   /\ Cardinality(is) = Cardinality(was) + h.Stamps[n] * I2U(n)
<1> DEFINE lists == h.FreeList
           was == InFirst(lists, n)
           is == InFirst(lists, n + 1)
           new == OfSize(lists[n], I2U(n))
<1>1. lists \in Families /\ n \in Nat /\ I2U(n) \in Nat
  BY LastIndexIs, SizesGrow DEF HeapTypes
<1>2. IsFiniteSet(lists[n]) /\ h.Stamps[n] = Cardinality(lists[n])
  BY DEF Counted
<1>3. lists[n] \in SUBSET Int
  BY <1>1 DEF Families
<1>4. \A a, b \in lists[n] : a # b => Units(a, I2U(n)) \cap Units(b, I2U(n)) = {}
  BY DEF ListsApart
<1>5. IsFiniteSet(new) /\ Cardinality(new) = Cardinality(lists[n]) * I2U(n)
  <2> DEFINE all == lists[n]
             nu == I2U(n)
  <2>1. /\ all \in SUBSET Int /\ nu \in Nat /\ IsFiniteSet(all) /\ all \in SUBSET all
        /\ \A a, b \in all : a # b => Units(a, nu) \cap Units(b, nu) = {}
    BY <1>1, <1>2, <1>3, <1>4
  <2> HIDE DEF all, nu
  <2>2. IsFiniteSet(OfSize(all, nu)) /\ Cardinality(OfSize(all, nu)) = Cardinality(all) * nu
    BY <2>1, SizeCounted
  <2> QED BY <2>2 DEF all, nu
<1>6. is = was \cup new
  <2>1. 0..(n + 1) - 1 = (0..n - 1) \cup {n}
    BY <1>1
  <2> QED BY <2>1 DEF InFirst
<1>7. was \cap new = {}
  <2> SUFFICES ASSUME NEW x \in was, x \in new PROVE FALSE
    OBVIOUS
  <2>1. PICK i \in 0..n - 1 : x \in OfSize(lists[i], I2U(i))
    BY DEF InFirst
  <2>2. i \in Nat /\ i <= LastIndex /\ i # n
    <3>1. i \in Nat /\ i < n
      BY <1>1, <2>1
    <3>2. n <= LastIndex /\ LastIndex \in Nat
      BY LastIndexIs
    <3> QED BY <1>1, <3>1, <3>2
  <2>3. i \in Indexes
    BY <2>2, LastIndexIs
  <2>4. PICK a \in lists[i] : x \in Units(a, I2U(i))
    BY <2>1 DEF OfSize
  <2>5. PICK b \in lists[n] : x \in Units(b, I2U(n))
    BY DEF OfSize
  <2>6. <<i, a>> # <<n, b>>
    BY <2>2
  <2> QED BY <2>3, <2>4, <2>5, <2>6 DEF ListsApart
<1> HIDE DEF was, new, is
<1>8. ASSUME IsFiniteSet(was)
      PROVE  IsFiniteSet(is) /\ Cardinality(is) = Cardinality(was) + h.Stamps[n] * I2U(n)
  BY <1>2, <1>5, <1>6, <1>7, <1>8, SizesAdd
<1> QED BY <1>8 DEF was, is

\* What the loop of GetUsedMemory adds up, list by list, is what the lists cover.
LEMMA FreeCounted ==
    ASSUME NEW h, h \in HeapTypes, Counted(h), ListsApart(h.FreeList)
    PROVE  /\ IsFiniteSet(Covered(h.FreeList))
           /\ GetUsedMemory(h) = Size - (h.HiUnit - h.LoUnit) - (h.UnitsStart - Text)
                                      - U2B(Cardinality(Covered(h.FreeList)))
<1> DEFINE lists == h.FreeList
           Step(f, i) == IF i = 0 THEN 0 ELSE f[i - 1] + h.Stamps[i - 1] * I2U(i - 1)
           F == CHOOSE free : free = [i \in 0..NumIndexes |-> Step(free, i)]
           g == [i \in 0..NumIndexes |-> Cardinality(InFirst(lists, i))]
           S == {n \in Nat : n \in 0..NumIndexes =>
                     IsFiniteSet(InFirst(lists, n)) /\ F[n] = Cardinality(InFirst(lists, n))}
           T == {n \in Nat : n \in 0..NumIndexes => IsFiniteSet(InFirst(lists, n))}
<1>1. NumIndexes \in Nat /\ NumIndexes \in 0..NumIndexes
  BY SizesAssumption
<1>2. InFirst(lists, 0) = {} /\ Cardinality(InFirst(lists, 0)) = 0
      /\ IsFiniteSet(InFirst(lists, 0))
  <2>1. 0..0 - 1 = {}
    OBVIOUS
  <2>2. InFirst(lists, 0) = {}
    BY <2>1 DEF InFirst
  <2> QED BY <2>2, FS_EmptySet
<1>3. ASSUME NEW n \in Nat, n + 1 \in 0..NumIndexes
      PROVE  /\ n \in 0..NumIndexes /\ n \in Indexes
             /\ (n + 1) - 1 = n /\ n + 1 # 0
  BY <1>1, <1>3 DEF Indexes
<1>4. ASSUME NEW n \in Nat, n + 1 \in 0..NumIndexes, IsFiniteSet(InFirst(lists, n))
      PROVE  /\ IsFiniteSet(InFirst(lists, n + 1))
             /\ Cardinality(InFirst(lists, n + 1))
                    = Cardinality(InFirst(lists, n)) + h.Stamps[n] * I2U(n)
  BY <1>3, <1>4, OneListMore
<1>5. T = Nat
  <2>1. 0 \in T
    BY <1>2
  <2>2. ASSUME NEW n \in T PROVE n + 1 \in T
    BY <1>3, <1>4
  <2> HIDE DEF T
  <2> QED BY <2>1, <2>2, AllNumbers DEF T
<1>6. ASSUME NEW i \in 0..NumIndexes, i # 0
      PROVE  /\ i - 1 \in 0..NumIndexes
             /\ Cardinality(InFirst(lists, i))
                    = Cardinality(InFirst(lists, i - 1)) + h.Stamps[i - 1] * I2U(i - 1)
  <2> DEFINE n == i - 1
  <2>1. n \in Nat /\ i = n + 1 /\ n + 1 \in 0..NumIndexes
    BY <1>1, <1>6
  <2> HIDE DEF n
  <2>2. IsFiniteSet(InFirst(lists, n)) /\ n \in 0..NumIndexes
    BY <1>3, <1>5, <2>1
  <2>3. Cardinality(InFirst(lists, n + 1))
            = Cardinality(InFirst(lists, n)) + h.Stamps[n] * I2U(n)
    BY <1>4, <2>1, <2>2
  <2> QED BY <2>1, <2>2, <2>3 DEF n
<1>7. g = [i \in 0..NumIndexes |-> Step(g, i)]
  <2>1. ASSUME NEW i \in 0..NumIndexes PROVE g[i] = Step(g, i)
    <3>1. CASE i = 0
      BY <1>2, <3>1
    <3>2. CASE i # 0
      <4>1. g[i] = Cardinality(InFirst(lists, i))
            /\ g[i - 1] = Cardinality(InFirst(lists, i - 1))
        BY <1>6, <3>2
      <4> QED BY <1>6, <3>2, <4>1
    <3> QED BY <3>1, <3>2
  <2> HIDE DEF Step
  <2>2. g = [i \in 0..NumIndexes |-> g[i]]
    OBVIOUS
  <2> HIDE DEF g
  <2> QED BY <2>1, <2>2
<1>8. F = [i \in 0..NumIndexes |-> Step(F, i)]
  <2> HIDE DEF g, Step
  <2> QED BY <1>7
<1>9. S = Nat
  <2> HIDE DEF F
  <2>1. 0 \in S
    <3>1. F[0] = 0
      BY <1>1, <1>8
    <3> QED BY <1>2, <3>1
  <2>2. ASSUME NEW n \in S PROVE n + 1 \in S
    <3> SUFFICES ASSUME n + 1 \in 0..NumIndexes
                 PROVE  /\ IsFiniteSet(InFirst(lists, n + 1))
                        /\ F[n + 1] = Cardinality(InFirst(lists, n + 1))
      OBVIOUS
    <3>1. n \in Nat /\ n \in 0..NumIndexes /\ (n + 1) - 1 = n /\ n + 1 # 0
      BY <1>3
    <3>2. IsFiniteSet(InFirst(lists, n)) /\ F[n] = Cardinality(InFirst(lists, n))
      BY <3>1
    <3>3. F[n + 1] = F[n] + h.Stamps[n] * I2U(n)
      BY <1>8, <3>1
    <3>4. /\ IsFiniteSet(InFirst(lists, n + 1))
          /\ Cardinality(InFirst(lists, n + 1))
                 = Cardinality(InFirst(lists, n)) + h.Stamps[n] * I2U(n)
      BY <1>4, <3>1, <3>2
    <3> QED BY <3>2, <3>3, <3>4
  <2> HIDE DEF S
  <2> QED BY <2>1, <2>2, AllNumbers DEF S
<1>10. IsFiniteSet(InFirst(lists, NumIndexes))
       /\ F[NumIndexes] = Cardinality(InFirst(lists, NumIndexes))
  BY <1>1, <1>9
<1>11. InFirst(lists, NumIndexes) = Covered(lists)
  BY DEF InFirst, OfSize, Covered, Indexes
<1>12. GetUsedMemory(h) = Size - (h.HiUnit - h.LoUnit) - (h.UnitsStart - Text)
                               - U2B(F[NumIndexes])
  BY DEF GetUsedMemory
<1> HIDE DEF F
<1> QED BY <1>10, <1>11, <1>12

\* The units of the blocks that contexts have, and of those only.
LEMMA HeldIs ==
    ASSUME IInv
    PROVE  /\ \A b, c \in Held : b # c => UnitsOf(b) \cap UnitsOf(c) = {}
           /\ UNION {UnitsOf(b) : b \in Held} = Taken(tree)
<1> DEFINE C == {Block("context", c, 1) : c \in DOMAIN tree}
           S == {Block("stats", tree[c].stats, I2U(tree[c].indx)) :
                    c \in {d \in DOMAIN tree : ~Binary(d)}}
<1>1. /\ DOMAIN tree \subseteq Int /\ DOMAIN tree \cap StatsTaken(tree) = {}
      /\ \A c, d \in DOMAIN tree : c # d => BlockIn(tree, c) \cap BlockIn(tree, d) = {}
  BY DEF IInv, HeldInv
<1>2. Held = C \cup S
  BY DEF Held
<1>3. ASSUME NEW b \in C
      PROVE  \E c \in DOMAIN tree : b = Block("context", c, 1) /\ UnitsOf(b) = {c}
  <2>1. PICK c \in DOMAIN tree : b = Block("context", c, 1)
    OBVIOUS
  <2>2. c \in Int /\ b.at = c /\ b.nu = 1
    BY <1>1, <2>1 DEF Block
  <2>3. UnitsOf(b) = {c}
    BY <2>2, UnitsOne DEF UnitsOf
  <2> QED BY <2>1, <2>3
<1>4. ASSUME NEW c \in DOMAIN tree PROVE \E b \in C : UnitsOf(b) = {c}
  <2> DEFINE b == Block("context", c, 1)
  <2>1. b \in C /\ b.at = c /\ b.nu = 1 /\ c \in Int
    BY <1>1 DEF Block
  <2> HIDE DEF b
  <2>2. UnitsOf(b) = {c}
    BY <2>1, UnitsOne DEF UnitsOf
  <2> QED BY <2>1, <2>2
<1>5. ASSUME NEW b \in S
      PROVE  \E c \in DOMAIN tree :
                 /\ b = Block("stats", tree[c].stats, I2U(tree[c].indx))
                 /\ UnitsOf(b) = BlockIn(tree, c)
  <2>1. PICK c \in {d \in DOMAIN tree : ~Binary(d)} :
          b = Block("stats", tree[c].stats, I2U(tree[c].indx))
    OBVIOUS
  <2>2. b.at = tree[c].stats /\ b.nu = I2U(tree[c].indx) /\ tree[c].stats # NULL
    BY <2>1 DEF Block, Binary
  <2>3. UnitsOf(b) = BlockIn(tree, c)
    BY <2>2 DEF UnitsOf, BlockIn, BlockOf
  <2> QED BY <2>1, <2>3
<1>6. ASSUME NEW c \in DOMAIN tree, BlockIn(tree, c) # {}
      PROVE  \E b \in S : UnitsOf(b) = BlockIn(tree, c)
  <2> DEFINE b == Block("stats", tree[c].stats, I2U(tree[c].indx))
  <2>1. tree[c].stats # NULL
    BY <1>6 DEF BlockIn, BlockOf
  <2>2. b \in S /\ b.at = tree[c].stats /\ b.nu = I2U(tree[c].indx)
    BY <2>1 DEF Block, Binary
  <2> HIDE DEF b
  <2>3. UnitsOf(b) = BlockIn(tree, c)
    BY <2>1, <2>2 DEF UnitsOf, BlockIn, BlockOf
  <2> QED BY <2>2, <2>3
<1> HIDE DEF C, S
<1>7. \A b \in S : UnitsOf(b) \subseteq StatsTaken(tree)
  BY <1>5 DEF StatsTaken
<1>8. ASSUME NEW b \in Held, NEW c \in Held, b # c PROVE UnitsOf(b) \cap UnitsOf(c) = {}
  <2>1. CASE b \in C /\ c \in C
    BY <1>3, <1>8, <2>1
  <2>2. CASE b \in S /\ c \in S
    BY <1>1, <1>5, <1>8, <2>2
  <2>3. CASE b \in C /\ c \in S
    BY <1>1, <1>3, <1>7, <2>3
  <2>4. CASE b \in S /\ c \in C
    BY <1>1, <1>3, <1>7, <2>4
  <2> QED BY <1>2, <2>1, <2>2, <2>3, <2>4
<1>9. UNION {UnitsOf(b) : b \in C} = DOMAIN tree
  BY <1>3, <1>4
<1>10. UNION {UnitsOf(b) : b \in S} = StatsTaken(tree)
  BY <1>5, <1>6 DEF StatsTaken
<1>11. UNION {UnitsOf(b) : b \in Held} = Taken(tree)
  BY <1>2, <1>9, <1>10 DEF Taken
<1> QED BY <1>8, <1>11

-------------------------------------------------------------------------------
(***************************************************************************)
(* What always holds.                                                      *)
(***************************************************************************)

\* Every step keeps the invariant.
LEMMA NextIInv == ASSUME IInv, [Next]_vars PROVE IInv'
<1>1. CASE AppendText
  BY <1>1, AppendTextKeeps
<1>2. CASE RetractText
  BY <1>2, RetractTextKeeps
<1>3. CASE NewContext
  BY <1>3, NewContextKeeps
<1>4. CASE NewStats \/ ExpandStats
  BY <1>4, NewStatsKeeps
<1>5. CASE ShrinkStats
  BY <1>5, ShrinkStatsKeeps
<1>6. CASE FreeStats
  BY <1>6, FreeStatsKeeps
<1>7. CASE Undo
  BY <1>7, UndoKeeps
<1>8. CASE RestartModel
  BY <1>8, RestartModelKeeps
<1>9. CASE BeginCutOff
  BY <1>9, BeginCutOffKeeps
<1>10. CASE \E c \in todo : Enter(c)
  BY <1>10, EnterKeeps
<1>11. CASE Leave
  BY <1>11, LeaveKeeps
<1>12. CASE EndPass
  BY <1>12, EndPassKeeps
<1>13. CASE UNCHANGED vars
  <2>1. /\ heap' = heap /\ Text' = Text /\ appended' = appended /\ tree' = tree
        /\ grown' = grown /\ phase' = phase /\ stack' = stack /\ todo' = todo
        /\ fresh' = fresh
    BY <1>13 DEF vars, model, restoring
  <2>2. TextInv' /\ PhaseInv'
    BY <2>1 DEF IInv, TextInv, PhaseInv
  <2> QED BY <2>1, <2>2 DEF IInv
<1> QED BY <1>1, <1>2, <1>3, <1>4, <1>5, <1>6, <1>7, <1>8, <1>9, <1>10, <1>11, <1>12, <1>13
        DEF Next, RestoreStep

\* The invariant holds in every state the sub-allocator of Ppmd8 and the models
\* that use it can reach, also in the middle of a restoration.
THEOREM IInvAlways == Spec => []IInv
<1>1. Init => IInv
  BY InitIInv
<1>2. IInv /\ [Next]_vars => IInv'
  BY NextIInv
<1> QED BY <1>1, <1>2, PTL DEF Spec

\* The pointers of the allocator keep their order and their bounds, its counters
\* are in range, and every context in use is in the arena.
THEOREM TypesAlways == Spec => []TypeOK
<1>1. ASSUME IInv PROVE TypeOK
  <2>1. /\ heap \in HeapTypes /\ Bounds(heap) /\ heap.GlueCount \in 0..GlueReset
        /\ Counted(heap) /\ Space(heap) \subseteq Arena(heap)
        /\ heap.FreeList \in Families
        /\ heap.UnitsStart \in Int /\ heap.LoUnit \in Int /\ heap.HiUnit \in Int
    BY <1>1 DEF IInv, Sound, HeapTypes
  <2>2. Covered(heap.FreeList) \subseteq Arena(heap) /\ GapUnits(heap) \subseteq Arena(heap)
    BY <2>1 DEF Space
  <2>3. ASSUME NEW i \in Indexes
        PROVE  heap.FreeList[i] \subseteq Addresses /\ heap.Stamps[i] \in 0..Size
    <3>1. heap.FreeList[i] \subseteq Addresses /\ Cardinality(heap.FreeList[i]) \in 0..Size
      BY <2>1, <2>2, ListsFinite
    <3>2. heap.Stamps[i] = Cardinality(heap.FreeList[i])
      BY <2>1 DEF Counted
    <3> QED BY <3>1, <3>2
  <2>4. /\ heap.FreeList \in [Indexes -> SUBSET Addresses]
        /\ heap.Stamps \in [Indexes -> 0..Size]
    <3>1. heap.FreeList \in [Indexes -> SUBSET Int] /\ heap.Stamps \in [Indexes -> Int]
      BY <2>1 DEF HeapTypes, Families
    <3> QED BY <2>3, <3>1
  <2>5. heap.UnitsStart \in Text + 1..ArenaEnd
    <3> DEFINE n == U2B(ArenaSize(heap))
    <3>1. n \in Nat /\ ArenaEnd = heap.UnitsStart + n /\ ArenaEnd \in Int
      <4>1. ArenaSize(heap) \in Nat /\ ArenaEnd = heap.UnitsStart + n
        BY <2>1 DEF Bounds
      <4>2. n \in Nat
        BY <4>1, BytesOfUnits
      <4> HIDE DEF n
      <4>3. ArenaEnd \in Int
        BY ArenaEndIs
      <4> QED BY <4>1, <4>2, <4>3
    <3>2. Text \in Int /\ Text < heap.UnitsStart
      BY <1>1, Parts
    <3> HIDE DEF n
    <3> QED BY <2>1, <3>1, <3>2
  <2>6. /\ heap.LoUnit <= heap.HiUnit
        /\ heap.LoUnit # heap.HiUnit => heap.UnitsStart <= heap.LoUnit
    <3> DEFINE n == U2B(GapSize(heap))
    <3>1. n \in Nat /\ heap.HiUnit = heap.LoUnit + n
      BY <2>1, BytesOfUnits DEF Bounds
    <3>2. heap.LoUnit <= heap.HiUnit
      <4> HIDE DEF n
      <4> QED BY <2>1, <3>1
    <3>3. ASSUME heap.LoUnit # heap.HiUnit PROVE heap.UnitsStart <= heap.LoUnit
      <4>1. GapSize(heap) # 0
        <5>1. ASSUME GapSize(heap) = 0 PROVE FALSE
          <6>1. n = 0
            BY <5>1, BytesOfUnits
          <6> HIDE DEF n
          <6> QED BY <2>1, <3>1, <3>3, <6>1
        <5> QED BY <5>1
      <4>2. GapSize(heap) \in Nat \ {0}
        BY <2>1, <4>1 DEF Bounds
      <4>3. heap.LoUnit \in Arena(heap)
        BY <2>1, <2>2, <4>2, FirstOfUnits DEF GapUnits
      <4>4. ArenaSize(heap) \in Nat
        BY <2>1 DEF Bounds
      <4> QED BY <2>1, <4>3, <4>4, UnitsBetween DEF Arena
    <3> QED BY <3>2, <3>3
  <2>7. /\ DOMAIN tree \subseteq Addresses /\ NULL \notin DOMAIN tree
        /\ \A c \in DOMAIN tree :
               BlockIn(tree, c) \subseteq Addresses /\ tree[c] \in ContextTypes
    BY <1>1, Parts, ContextsAre
  <2>8. ASSUME NEW c \in DOMAIN tree
        PROVE  tree[c] \in [parent : Addresses \cup {NULL}, order : 0..MaxOrder,
                            stats : Addresses \cup {NULL}, indx : Indexes]
    <3>1. tree[c] \in ContextTypes
      BY <2>7
    <3>2. tree[c].parent \in Addresses \cup {NULL}
      BY <1>1, <2>7, Parts DEF TreeInv
    <3>3. tree[c].stats \in Addresses \cup {NULL}
      <4> SUFFICES ASSUME tree[c].stats # NULL PROVE tree[c].stats \in Addresses
        OBVIOUS
      <4>1. tree[c].stats \in Int /\ I2U(tree[c].indx) \in Nat \ {0}
        BY <3>1, CapacityIs DEF ContextTypes
      <4>2. tree[c].stats \in BlockIn(tree, c)
        BY <4>1, FirstOfUnits DEF BlockIn, BlockOf
      <4> QED BY <2>7, <4>2
    <3> QED BY <3>1, <3>2, <3>3 DEF ContextTypes
  <2>9. /\ grown \subseteq DOMAIN tree /\ todo \subseteq DOMAIN tree
        /\ phase \in {"coding", "undo", "cutoff"} /\ fresh \in BOOLEAN
    BY <1>1 DEF IInv, PhaseInv
  <2>10. appended \in BOOLEAN
    BY <1>1 DEF IInv, TextInv
  <2> QED BY <2>1, <2>4, <2>5, <2>6, <2>7, <2>8, <2>9, <2>10 DEF TypeOK
<1> QED BY <1>1, IInvAlways, PTL

\* Every unit above UnitsStart is in use, in the gap, or in one free list, once:
\* nothing that CutOff frees, moves or gives to the text is lost or has two owners.
THEOREM PartitionAlways == Spec => []Partition
<1>1. ASSUME IInv PROVE Partition
  <2> DEFINE F == Lists("free", heap.FreeList)
             H == Held
             taken == Taken(tree)
             free == Covered(heap.FreeList)
             gap == GapUnits(heap)
  <2>1. /\ ListsApart(heap.FreeList)
        /\ taken \cap (free \cup gap) = {} /\ taken \cup (free \cup gap) = Arena(heap)
        /\ free \cap gap = {}
    BY <1>1 DEF IInv, Sound, SharesInv, Space
  <2>2. /\ \A b, c \in F : b # c => UnitsOf(b) \cap UnitsOf(c) = {}
        /\ UNION {UnitsOf(b) : b \in F} = free
    BY <2>1, ListsBlocks
  <2>3. /\ \A b, c \in H : b # c => UnitsOf(b) \cap UnitsOf(c) = {}
        /\ UNION {UnitsOf(b) : b \in H} = taken
    BY <1>1, HeldIs
  <2>4. UnitsOf(Gap) = gap
    BY DEF UnitsOf, Gap, Block, GapUnits, GapSize
  <2>5. AllBlocks = H \cup F \cup {Gap}
    BY DEF AllBlocks
  <2>6. ArenaUnits = Arena(heap)
    BY DEF ArenaUnits, Arena, ArenaSize
  <2> HIDE DEF F, H, taken, free, gap
  <2>7. (\A b \in F : UnitsOf(b) \subseteq free) /\ (\A b \in H : UnitsOf(b) \subseteq taken)
    BY <2>2, <2>3
  <2>8. UNION {UnitsOf(b) : b \in AllBlocks} = ArenaUnits
    <3>1. UNION {UnitsOf(b) : b \in AllBlocks} = taken \cup free \cup gap
      BY <2>2, <2>3, <2>4, <2>5
    <3> QED BY <2>1, <2>6, <3>1
  <2>9. ASSUME NEW b \in AllBlocks, NEW c \in AllBlocks, b # c
        PROVE  UnitsOf(b) \cap UnitsOf(c) = {}
    <3>1. CASE b \in H
      BY <2>1, <2>3, <2>4, <2>5, <2>7, <2>9, <3>1
    <3>2. CASE b \in F
      BY <2>1, <2>2, <2>4, <2>5, <2>7, <2>9, <3>2
    <3>3. CASE b = Gap
      BY <2>1, <2>4, <2>5, <2>7, <2>9, <3>3
    <3> QED BY <2>5, <3>1, <3>2, <3>3
  <2> QED BY <2>8, <2>9 DEF Partition
<1> QED BY <1>1, IInvAlways, PTL

\* Whatever CutOff cuts, moves or makes smaller, no successor points to a context
\* that is no more, and every context has room for the successors it has.
THEOREM NoDanglingAlways == Spec => []NoDangling
<1>1. ASSUME IInv PROVE NoDangling
  <2>1. ASSUME NEW c \in DOMAIN tree
        PROVE  /\ c # RootContext => tree[c].parent \in DOMAIN tree
               /\ Cardinality(Children(c)) <= Capacity(c)
    <3>1. c # RootContext => tree[c].parent \in DOMAIN tree
      BY <1>1 DEF IInv, TreeInv
    <3>2. Children(c) = ChildrenIn(tree, c) /\ Capacity(c) = CapacityIn(tree, c)
      BY DEF Children, ChildrenIn, Capacity, CapacityIn, Binary
    <3>3. Cardinality(ChildrenIn(tree, c)) <= CapacityIn(tree, c)
      BY <1>1 DEF IInv, RoomInv
    <3> QED BY <3>1, <3>2, <3>3
  <2> QED BY <2>1 DEF NoDangling
<1> QED BY <1>1, IInvAlways, PTL

\* What GetUsedMemory computes from the counters of the lists, by which
\* RestoreModel decides what to do and when to stop, is what contexts, states and
\* text take.
THEOREM UsedMemoryAlwaysExact == Spec => []UsedMemoryExact
<1>1. ASSUME IInv PROVE UsedMemoryExact
  <2> DEFINE taken == Taken(tree)
             free == Covered(heap.FreeList)
             gap == GapUnits(heap)
             arena == Arena(heap)
  <2>1. /\ heap \in HeapTypes /\ Bounds(heap) /\ Counted(heap) /\ ListsApart(heap.FreeList)
        /\ free \cap gap = {} /\ taken \cap (free \cup gap) = {}
        /\ taken \cup (free \cup gap) = arena
        /\ heap.UnitsStart \in Int /\ heap.LoUnit \in Int /\ heap.HiUnit \in Int
        /\ GapSize(heap) \in Nat /\ ArenaSize(heap) \in Nat
    BY <1>1 DEF IInv, Sound, SharesInv, Space, HeapTypes, Bounds
  <2>2. UnitsHeld = taken
    BY <1>1, HeldIs DEF UnitsHeld
  <2>3. IsFiniteSet(free)
        /\ GetUsedMemory(heap) = Size - (heap.HiUnit - heap.LoUnit) - (heap.UnitsStart - Text)
                                      - U2B(Cardinality(free))
    BY <2>1, FreeCounted
  <2>4. IsFiniteSet(gap) /\ Cardinality(gap) = GapSize(heap)
    BY <2>1, UnitsCounted DEF GapUnits
  <2>5. IsFiniteSet(arena) /\ Cardinality(arena) = ArenaSize(heap)
    BY <2>1, UnitsCounted DEF Arena
  <2>6. IsFiniteSet(taken)
    BY <2>1, <2>5, FS_Subset
  <2> HIDE DEF taken, free, gap, arena
  <2>7. /\ IsFiniteSet(free \cup gap)
        /\ Cardinality(free \cup gap) = Cardinality(free) + Cardinality(gap)
        /\ Cardinality(free) \in Nat
    BY <2>1, <2>3, <2>4, SizesAdd
  <2>8. /\ Cardinality(taken \cup (free \cup gap)) = Cardinality(taken) + Cardinality(free \cup gap)
        /\ Cardinality(taken) \in Nat
    BY <2>1, <2>6, <2>7, SizesAdd
  <2> DEFINE t == Cardinality(taken)
             f == Cardinality(free)
             g == GapSize(heap)
             a == ArenaSize(heap)
  <2>9. a = t + (f + g) /\ t \in Int /\ f \in Int /\ g \in Int
    <3>1. a = Cardinality(arena) /\ arena = taken \cup (free \cup gap)
      BY <2>1, <2>5
    <3>2. a = t + Cardinality(free \cup gap)
      BY <3>1, <2>8
    <3>3. Cardinality(free \cup gap) = f + g
      BY <2>4, <2>7
    <3>4. t \in Nat /\ f \in Nat /\ g \in Nat
      BY <2>1, <2>7, <2>8
    <3> HIDE DEF t, f, g, a
    <3> QED BY <3>2, <3>3, <3>4
  <2>10. U2B(a) = U2B(t) + (U2B(f) + U2B(g))
         /\ U2B(t) \in Int /\ U2B(f) \in Int /\ U2B(g) \in Int
    <3> HIDE DEF t, f, g, a
    <3>1. f + g \in Int
      BY <2>9
    <3>2. U2B(t + (f + g)) = U2B(t) + U2B(f + g) /\ U2B(f + g) = U2B(f) + U2B(g)
      BY <2>9, <3>1, BytesOfUnits
    <3>3. U2B(t) \in Int /\ U2B(f) \in Int /\ U2B(g) \in Int
      BY <2>9, BytesOfUnits
    <3> QED BY <2>9, <3>2, <3>3
  <2>11. heap.HiUnit = heap.LoUnit + U2B(g) /\ ArenaEnd = heap.UnitsStart + U2B(a)
    BY <2>1 DEF Bounds
  <2>12. Text \in Int /\ Size \in Int /\ AlignOffset \in Int /\ ArenaEnd = AlignOffset + Size
    BY <1>1, Parts, SizesAssumption DEF ArenaEnd
  <2> DEFINE tb == U2B(t)
             fb == U2B(f)
             gb == U2B(g)
             ab == U2B(a)
             used == GetUsedMemory(heap)
             start == heap.UnitsStart
             lo == heap.LoUnit
             hi == heap.HiUnit
  <2>13. /\ ab = tb + (fb + gb) /\ tb \in Int /\ fb \in Int /\ gb \in Int
         /\ hi = lo + gb /\ ArenaEnd = start + ab
         /\ start \in Int /\ lo \in Int
         /\ used = Size - (hi - lo) - (start - Text) - fb
    BY <2>1, <2>3, <2>10, <2>11
  <2> HIDE DEF tb, fb, gb, ab, used, start, lo, hi, t, f, g, a
  <2>14. used = tb + (Text - AlignOffset)
    BY <2>12, <2>13
  <2> QED BY <2>2, <2>14 DEF UsedMemoryExact, used, tb, t
<1> QED BY <1>1, IInvAlways, PTL

===============================================================================
