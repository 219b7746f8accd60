-------------------------- MODULE SubAllocatorProofs --------------------------
(***************************************************************************)
(* What holds of SubAllocator.tla for an arena, units and tables of every  *)
(* size: its memory stays partitioned, whatever the context model takes    *)
(* and gives back and whatever is glued; and it implements MemoryPool.tla. *)
(***************************************************************************)
EXTENDS SubAllocator, UnitSizesProofs

-------------------------------------------------------------------------------
(***************************************************************************)
(* The inductive invariant.  Partition speaks of blocks; here the same is  *)
(* said of the free lists, the gap and the two kinds of memory in use,     *)
(* with what makes an arena of whole units of them.                        *)
(***************************************************************************)

HeapTypes ==
    [FreeList : Families, UnitsStart : Int, LoUnit : Int, HiUnit : Int,
     GlueCount : Int]

Bounds(h) ==
    /\ AlignOffset <= h.UnitsStart /\ h.UnitsStart <= h.LoUnit
    /\ h.HiUnit <= ArenaEnd
    /\ GapSize(h) \in Nat /\ h.HiUnit = h.LoUnit + U2B(GapSize(h))
    /\ ArenaSize(h) \in Nat /\ ArenaEnd = h.UnitsStart + U2B(ArenaSize(h))

Sound(h) ==
    /\ h \in HeapTypes /\ h.GlueCount \in 0..GlueReset
    /\ Bounds(h)
    /\ ListsApart(h.FreeList)
    /\ Covered(h.FreeList) \cap GapUnits(h) = {}
    /\ Space(h) \subseteq Arena(h)

Taken == contexts \cup Covered(stats)

HeldInv ==
    /\ contexts \subseteq Int /\ stats \in Families
    /\ ListsApart(stats)
    /\ contexts \cap Covered(stats) = {}

SharesInv ==
    /\ Taken \cap Space(heap) = {}
    /\ Taken \cup Space(heap) = Arena(heap)

TextInv ==
    /\ Text \in Int /\ AlignOffset <= Text /\ Text < heap.UnitsStart
    /\ appended \in BOOLEAN /\ (appended => AlignOffset < Text)

IInv == Sound(heap) /\ HeldInv /\ SharesInv /\ TextInv

-------------------------------------------------------------------------------
(***************************************************************************)
(* Of arenas and gaps.                                                     *)
(***************************************************************************)

\* Everything in the arena is an address between AlignOffset and its end.
LEMMA ArenaBetween ==
    ASSUME NEW h, h \in HeapTypes, Bounds(h), NEW x \in Arena(h)
    PROVE  x \in AlignOffset..ArenaEnd - 1
<1>1. h.UnitsStart \in Int /\ ArenaSize(h) \in Nat /\ AlignOffset <= h.UnitsStart
      /\ ArenaEnd = h.UnitsStart + U2B(ArenaSize(h))
  BY DEF HeapTypes, Bounds
<1>2. x \in Int /\ h.UnitsStart <= x /\ x + UNIT_SIZE <= ArenaEnd
  BY <1>1, UnitsBetween DEF Arena
<1>3. UNIT_SIZE \in Nat \ {0} /\ ArenaEnd \in Nat /\ AlignOffset \in Nat
  BY UnitSizeIs, ArenaEndIs
<1> QED BY <1>1, <1>2, <1>3

\* A heap with other lists is sound when they are.
LEMMA NewLists ==
    ASSUME NEW h, Sound(h), NEW g \in HeapTypes, g.GlueCount \in 0..GlueReset,
           g.UnitsStart = h.UnitsStart, g.LoUnit = h.LoUnit, g.HiUnit = h.HiUnit,
           ListsApart(g.FreeList),
           Covered(g.FreeList) \cap GapUnits(h) = {},
           Covered(g.FreeList) \subseteq Arena(h)
    PROVE  /\ Sound(g) /\ Arena(g) = Arena(h)
           /\ Space(g) = Covered(g.FreeList) \cup GapUnits(h)
<1>1. GapSize(g) = GapSize(h) /\ ArenaSize(g) = ArenaSize(h)
  BY DEF GapSize, ArenaSize
<1>2. Arena(g) = Arena(h) /\ GapUnits(g) = GapUnits(h)
  BY <1>1 DEF Arena, GapUnits
<1>3. Bounds(h) /\ Space(h) \subseteq Arena(h)
  BY DEF Sound
<1>4. Bounds(g)
  BY <1>1, <1>3 DEF Bounds
<1>5. GapUnits(h) \subseteq Arena(h)
  BY <1>3 DEF Space
<1>6. Space(g) = Covered(g.FreeList) \cup GapUnits(h)
  BY <1>2 DEF Space
<1> QED BY <1>2, <1>4, <1>5, <1>6 DEF Sound

-------------------------------------------------------------------------------
(***************************************************************************)
(* The operations of the free lists.                                       *)
(***************************************************************************)

\* Units that nobody else has can be put into the lists.
FreshUnits(h, units) == units \cap Space(h) = {} /\ units \subseteq Arena(h)

\* The heap g is h with these units given back.
Gained(h, g, units) ==
    /\ Sound(g) /\ Arena(g) = Arena(h) /\ g.UnitsStart = h.UnitsStart
    /\ g.GlueCount = h.GlueCount
    /\ Space(g) = Space(h) \cup units

\* A sound heap that puts blocks of fresh units into its lists stays sound, and
\* its free space grows by just those units.
LEMMA ListsGain ==
    ASSUME NEW h, Sound(h), NEW more \in Families, ListsApart(more),
           FreshUnits(h, Covered(more)),
           NEW g, g = [h EXCEPT !.FreeList = Joined(@, more)]
    PROVE  Gained(h, g, Covered(more))
<1>1. h \in HeapTypes /\ h.FreeList \in Families /\ h.GlueCount \in 0..GlueReset
      /\ ListsApart(h.FreeList)
      /\ Covered(h.FreeList) \cap GapUnits(h) = {} /\ Space(h) \subseteq Arena(h)
  BY DEF Sound, HeapTypes
<1> DEFINE both == Joined(h.FreeList, more)
<1>2. Covered(more) \cap Covered(h.FreeList) = {} /\ Covered(more) \cap GapUnits(h) = {}
      /\ Covered(more) \subseteq Arena(h) /\ Covered(h.FreeList) \subseteq Arena(h)
  BY <1>1 DEF FreshUnits, Space
<1>3. /\ both \in Families /\ Covered(both) = Covered(h.FreeList) \cup Covered(more)
      /\ ListsApart(both)
  BY <1>1, <1>2, ListsJoin
<1> HIDE DEF both
<1>4. g = [h EXCEPT !.FreeList = both]
  BY DEF both
<1>5. /\ g \in HeapTypes /\ g.GlueCount = h.GlueCount /\ g.FreeList = both
      /\ g.UnitsStart = h.UnitsStart /\ g.LoUnit = h.LoUnit /\ g.HiUnit = h.HiUnit
  BY <1>1, <1>3, <1>4 DEF HeapTypes
<1>6. Covered(both) \cap GapUnits(h) = {} /\ Covered(both) \subseteq Arena(h)
  BY <1>1, <1>2, <1>3
<1>7. Sound(g) /\ Arena(g) = Arena(h) /\ Space(g) = Covered(both) \cup GapUnits(h)
  BY <1>1, <1>3, <1>5, <1>6, NewLists
<1>8. Space(g) = Space(h) \cup Covered(more)
  BY <1>3, <1>7 DEF Space
<1> QED BY <1>5, <1>7, <1>8 DEF Gained

\* InsertNode gives the heap the units of the node.
LEMMA NodeInserted ==
    ASSUME NEW h, Sound(h), NEW i \in Indexes, NEW node \in Int,
           FreshUnits(h, Units(node, I2U(i)))
    PROVE  Gained(h, InsertNode(h, node, i), Units(node, I2U(i)))
<1> DEFINE more == Single(i, node)
<1>1. more \in Families /\ ListsApart(more) /\ Covered(more) = Units(node, I2U(i))
  BY SingleIs
<1>2. h \in HeapTypes /\ h.FreeList \in [Indexes -> SUBSET Int]
  BY DEF Sound, HeapTypes, Families
<1>3. [h.FreeList EXCEPT ![i] = @ \cup {node}] = Joined(h.FreeList, more)
  BY <1>2 DEF Joined, Single
<1>4. InsertNode(h, node, i) = [h EXCEPT !.FreeList = [h.FreeList EXCEPT ![i] = @ \cup {node}]]
  BY <1>2 DEF InsertNode, HeapTypes
<1> HIDE DEF more
<1>5. InsertNode(h, node, i) = [h EXCEPT !.FreeList = Joined(@, more)]
  BY <1>3, <1>4
<1>6. FreshUnits(h, Covered(more))
  BY <1>1
<1>7. Gained(h, InsertNode(h, node, i), Covered(more))
  BY <1>1, <1>5, <1>6, ListsGain
<1> QED BY <1>1, <1>7

\* The loop that returns a remainder of any size gives the heap those units.
LEMMA UnitsInserted ==
    ASSUME NEW h, Sound(h), NEW ptr \in Int, NEW nu \in Nat \ {0},
           FreshUnits(h, Units(ptr, nu))
    PROVE  Gained(h, InsertUnits(h, ptr, nu), Units(ptr, nu))
<1> DEFINE more == NodesLists(ptr, nu)
<1>1. more \in Families /\ ListsApart(more) /\ Covered(more) = Units(ptr, nu)
  BY NodesTile
<1>2. InsertUnits(h, ptr, nu) = [h EXCEPT !.FreeList = Joined(@, more)]
  BY DEF InsertUnits, Joined, NodesLists
<1> HIDE DEF more
<1>3. FreshUnits(h, Covered(more))
  BY <1>1
<1>4. Gained(h, InsertUnits(h, ptr, nu), Covered(more))
  BY <1>1, <1>2, <1>3, ListsGain
<1> QED BY <1>1, <1>4

\* The block ptr of nu units has left the heap h; what is left is g.
Left(h, g, ptr, nu) ==
    /\ Sound(g) /\ Arena(g) = Arena(h) /\ g.UnitsStart = h.UnitsStart
    /\ ptr \in Int
    /\ Units(ptr, nu) \cap Space(g) = {}
    /\ Units(ptr, nu) \cup Space(g) = Space(h)

\* RemoveNode takes the units of one node out of the heap.
LEMMA NodeRemoved ==
    ASSUME NEW h, Sound(h), NEW i \in Indexes, NEW r \in RemoveNode(h, i)
    PROVE  Left(h, r.heap, r.ptr, I2U(i)) /\ r.heap.GlueCount = h.GlueCount
           /\ r.ptr \in h.FreeList[i]
<1>1. PICK node \in h.FreeList[i] :
          r = Result(node, [h EXCEPT !.FreeList[i] = @ \ {node}])
  BY DEF RemoveNode
<1>2. h \in HeapTypes /\ h.FreeList \in Families /\ h.GlueCount \in 0..GlueReset
      /\ ListsApart(h.FreeList)
      /\ Covered(h.FreeList) \cap GapUnits(h) = {} /\ Space(h) \subseteq Arena(h)
  BY DEF Sound, HeapTypes
<1> DEFINE less == [h.FreeList EXCEPT ![i] = @ \ {node}]
<1>3. [h EXCEPT !.FreeList[i] = @ \ {node}] = [h EXCEPT !.FreeList = less]
  BY <1>2 DEF HeapTypes
<1>4. /\ less \in Families /\ ListsApart(less)
      /\ Covered(less) = Covered(h.FreeList) \ Units(node, I2U(i))
      /\ Units(node, I2U(i)) \subseteq Covered(h.FreeList)
  BY <1>2, ListsRemove
<1>5. node \in Int
  BY <1>2, NodesAreUnits
<1> HIDE DEF less
<1> DEFINE g == [h EXCEPT !.FreeList = less]
<1>6. /\ g \in HeapTypes /\ g.GlueCount = h.GlueCount /\ g.FreeList = less
      /\ g.UnitsStart = h.UnitsStart /\ g.LoUnit = h.LoUnit /\ g.HiUnit = h.HiUnit
  BY <1>2, <1>4 DEF HeapTypes
<1>7. r.ptr = node /\ r.heap = g
  BY <1>1, <1>3 DEF Result
<1> HIDE DEF g
<1>8. Covered(less) \cap GapUnits(h) = {} /\ Covered(less) \subseteq Arena(h)
  BY <1>2, <1>4 DEF Space
<1>9. Sound(g) /\ Arena(g) = Arena(h) /\ Space(g) = Covered(less) \cup GapUnits(h)
  BY <1>2, <1>4, <1>6, <1>8, NewLists
<1>10. Units(node, I2U(i)) \cap Space(g) = {}
  BY <1>2, <1>4, <1>9
<1>11. Units(node, I2U(i)) \cup Space(g) = Space(h)
  BY <1>4, <1>9 DEF Space
<1> QED BY <1>5, <1>6, <1>7, <1>9, <1>10, <1>11 DEF Left

\* SplitBlock gives back what is behind the smaller block.
LEMMA BlockSplit ==
    ASSUME NEW h, Sound(h), NEW ptr \in Int, NEW i0 \in Indexes, NEW i1 \in Indexes,
           i1 < i0, FreshUnits(h, Units(ptr, I2U(i0)))
    PROVE  LET g == SplitBlock(h, ptr, i0, i1) IN
           /\ Sound(g) /\ Arena(g) = Arena(h) /\ g.UnitsStart = h.UnitsStart
           /\ g.GlueCount = h.GlueCount
           /\ Units(ptr, I2U(i1)) \cap Space(g) = {}
           /\ Units(ptr, I2U(i1)) \cup Space(g) = Space(h) \cup Units(ptr, I2U(i0))
<1> DEFINE front == Units(ptr, I2U(i1))
           rest == I2U(i0) - I2U(i1)
           behind == ptr + U2B(I2U(i1))
           back == Units(behind, rest)
           g == SplitBlock(h, ptr, i0, i1)
<1>1. I2U(i0) \in Nat \ {0} /\ I2U(i1) \in Nat \ {0} /\ I2U(i1) < I2U(i0)
  BY SizesGrow
<1>2. rest \in Nat \ {0} /\ rest \in Nat /\ I2U(i1) + rest = I2U(i0) /\ I2U(i1) \in Nat
  BY <1>1
<1>3. behind \in Int
  <2>1. U2B(I2U(i1)) \in Int
    BY <1>2, BytesOfUnits
  <2> QED BY <2>1
<1>4. g = InsertUnits(h, behind, rest)
  BY DEF SplitBlock
<1> HIDE DEF g, rest
<1>5. Units(ptr, I2U(i0)) = front \cup back /\ front \cap back = {}
  BY <1>2, UnitsJoin
<1> HIDE DEF behind, back, front
<1>6. back \cap Space(h) = {} /\ back \subseteq Arena(h)
  BY <1>5 DEF FreshUnits
<1>7. FreshUnits(h, Units(behind, rest))
  BY <1>6 DEF FreshUnits, back
<1>8. Gained(h, g, back)
  BY <1>2, <1>3, <1>4, <1>7, UnitsInserted DEF back
<1>9. front \cap Space(h) = {}
  BY <1>5 DEF FreshUnits
<1>10. /\ Sound(g) /\ Arena(g) = Arena(h) /\ g.UnitsStart = h.UnitsStart
       /\ g.GlueCount = h.GlueCount /\ Space(g) = Space(h) \cup back
  BY <1>8 DEF Gained
<1>11. front \cap Space(g) = {} /\ front \cup Space(g) = Space(h) \cup Units(ptr, I2U(i0))
  BY <1>5, <1>9, <1>10
<1> QED BY <1>10, <1>11 DEF g, front

-------------------------------------------------------------------------------
(***************************************************************************)
(* Gluing.                                                                 *)
(***************************************************************************)

\* The run of a kept node goes on over the free units behind it, up to the next
\* kept node or the first unit that is not free.
LEMMA ExtentIs ==
    ASSUME NEW units \in SUBSET (AlignOffset..ArenaEnd - 1),
           NEW kept \in SUBSET units, NEW node \in kept
    PROVE  LET n == Extent(node, kept, units) IN
           /\ n \in 1..Size /\ n \in Nat \ {0}
           /\ RunEnds(node, kept, units, n)
           /\ \A m \in 1..n - 1 : node + U2B(m) \in units \ kept
<1> DEFINE Ends == {n \in Nat \ {0} : RunEnds(node, kept, units, n)}
<1>1. /\ node \in Int /\ AlignOffset <= node /\ Size \in Nat /\ AlignOffset \in Nat \ {0}
      /\ node < ArenaEnd /\ ArenaEnd = AlignOffset + Size
  BY SizesAssumption DEF ArenaEnd
<1>2. Size \in Nat \ {0}
  BY <1>1
<1>3. Size \in Ends
  <2>1. U2B(Size) \in Nat /\ Size <= U2B(Size)
    BY <1>2, BytesOfUnits
  <2>2. node + U2B(Size) >= ArenaEnd /\ ArenaEnd \in Int /\ node + U2B(Size) \in Int
    BY <1>1, <2>1
  <2>3. node + U2B(Size) \notin AlignOffset..ArenaEnd - 1
    BY <1>1, <2>2
  <2>4. node + U2B(Size) \notin units
    BY <2>3
  <2> QED BY <1>2, <2>4 DEF RunEnds
<1>4. Ends \in SUBSET Nat /\ Ends # {}
  BY <1>3
<1>5. PICK n \in Ends : \A k \in Ends : n <= k
  BY <1>4, LeastNumber
<1>6. n \in Nat \ {0} /\ n <= Size /\ n \in 1..Size /\ RunEnds(node, kept, units, n)
  BY <1>2, <1>3, <1>5
<1>7. ASSUME NEW m \in 1..n - 1 PROVE node + U2B(m) \in units \ kept
  <2>1. m \in Nat \ {0} /\ ~(n <= m)
    BY <1>6
  <2>2. m \notin Ends
    BY <1>5, <2>1
  <2> QED BY <2>1, <2>2 DEF RunEnds
<1> HIDE DEF Ends
<1> DEFINE Is(k) == /\ node + U2B(k) \in kept \/ node + U2B(k) \notin units
                    /\ \A m \in 1..k - 1 : node + U2B(m) \in units \ kept
<1>8. \E k \in 1..Size : Is(k)
  BY <1>6, <1>7 DEF RunEnds
<1> HIDE DEF Is
<1>9. Extent(node, kept, units) = CHOOSE k \in 1..Size : Is(k)
  BY DEF Extent, Is
<1> DEFINE e == Extent(node, kept, units)
<1>10. e \in 1..Size /\ Is(e)
  BY <1>8, <1>9
<1> HIDE DEF e
<1>11. e \in Nat \ {0}
  BY <1>1, <1>10
<1> QED BY <1>10, <1>11 DEF e, Is, RunEnds

\* The nodes a gluing keeps: those that begin a run, and those behind a run that
\* has become too long.
KeptOf(lists, kept) ==
    LET units == Covered(lists)
        ext(x) == Extent(x, kept, units)
    IN  /\ kept \subseteq units
        /\ \A i \in Indexes : \A node \in lists[i] :
               node - UNIT_SIZE \notin units => node \in kept
        /\ \A x \in kept : x + U2B(ext(x)) \in kept =>
               ext(x) + ext(x + U2B(ext(x))) >= MaxNU

\* The lists after a gluing are the runs from the nodes kept, cut to size.
GluedTo(h, g, kept) ==
    /\ KeptOf(h.FreeList, kept)
    /\ g = [h EXCEPT !.FreeList = RunsLists(kept,
                         [x \in kept |-> Extent(x, kept, Covered(h.FreeList))]),
                     !.GlueCount = GlueReset]

\* GlueFreeBlocks keeps some of the free nodes and cuts the run of each into blocks.
LEMMA GluedIs ==
    ASSUME NEW h, Sound(h), NEW g \in GlueFreeBlocks(h)
    PROVE  \E kept : GluedTo(h, g, kept)
<1> DEFINE units == FreeUnits(h)
<1>1. PICK kept \in Gluings(FreeNodes(h), units) :
          g = [h EXCEPT !.FreeList = [i \in Indexes |->
                            UNION {NodesOf(x, Extent(x, kept, units), i) : x \in kept}],
                        !.GlueCount = GlueReset]
  BY DEF GlueFreeBlocks
<1>2. h.FreeList \in Families /\ units = Covered(h.FreeList)
  BY DEF Sound, HeapTypes, FreeUnits, Covered
<1>3. FreeNodes(h) \subseteq units
  <2>1. ASSUME NEW i \in Indexes, NEW node \in h.FreeList[i] PROVE node \in units
    BY <1>2, NodesAreUnits
  <2> HIDE DEF units
  <2> QED BY <2>1 DEF FreeNodes
<1>4. \A i \in Indexes : h.FreeList[i] \subseteq FreeNodes(h)
  BY DEF FreeNodes
<1> HIDE DEF units
<1>5. /\ kept \subseteq FreeNodes(h)
      /\ \A node \in FreeNodes(h) : node - UNIT_SIZE \notin units => node \in kept
      /\ \A x \in kept :
             x + U2B(Extent(x, kept, units)) \in kept =>
                 Extent(x, kept, units)
                 + Extent(x + U2B(Extent(x, kept, units)), kept, units) >= MaxNU
  BY <1>1 DEF Gluings
<1>6. [i \in Indexes |-> UNION {NodesOf(x, Extent(x, kept, units), i) : x \in kept}]
      = RunsLists(kept, [x \in kept |-> Extent(x, kept, units)])
  BY DEF RunsLists
<1>7. g = [h EXCEPT !.FreeList = RunsLists(kept, [x \in kept |-> Extent(x, kept, units)]),
                    !.GlueCount = GlueReset]
  BY <1>1, <1>6
<1>8. KeptOf(h.FreeList, kept)
  BY <1>2, <1>3, <1>4, <1>5 DEF KeptOf
<1> QED BY <1>2, <1>7, <1>8 DEF GluedTo

\* Gluing neither loses nor doubles a free unit.
LEMMA Glued ==
    ASSUME NEW h, Sound(h), NEW g \in GlueFreeBlocks(h)
    PROVE  /\ Sound(g) /\ Arena(g) = Arena(h) /\ Space(g) = Space(h)
           /\ g.UnitsStart = h.UnitsStart /\ g.GlueCount = GlueReset
<1>1. PICK kept : GluedTo(h, g, kept)
  BY GluedIs
<1> DEFINE units == Covered(h.FreeList)
           extent == [x \in kept |-> Extent(x, kept, units)]
           lists == RunsLists(kept, extent)
<1>2. h \in HeapTypes /\ h.FreeList \in Families /\ Bounds(h)
      /\ Covered(h.FreeList) \cap GapUnits(h) = {} /\ Space(h) \subseteq Arena(h)
  BY DEF Sound, HeapTypes
<1>3. units \subseteq Arena(h)
  BY <1>2 DEF Space
<1>4. units \subseteq AlignOffset..ArenaEnd - 1
  BY <1>2, <1>3, ArenaBetween
<1>5. /\ g = [h EXCEPT !.FreeList = lists, !.GlueCount = GlueReset]
      /\ kept \subseteq units
      /\ \A i \in Indexes : \A node \in h.FreeList[i] :
             node - UNIT_SIZE \notin units => node \in kept
  BY <1>1 DEF GluedTo, KeptOf
<1>6. kept \in SUBSET units /\ extent \in [kept -> Nat \ {0}]
      /\ AreRuns(units, kept, extent)
  <2> HIDE DEF units
  <2>1. units \in SUBSET (AlignOffset..ArenaEnd - 1) /\ kept \in SUBSET units
    BY <1>4, <1>5
  <2>2. ASSUME NEW x \in kept
        PROVE  /\ Extent(x, kept, units) \in Nat \ {0}
               /\ RunEnds(x, kept, units, Extent(x, kept, units))
               /\ \A m \in 1..Extent(x, kept, units) - 1 : x + U2B(m) \in units \ kept
    BY <2>1, ExtentIs
  <2> QED BY <2>1, <2>2 DEF AreRuns
<1> HIDE DEF extent
<1>9. lists \in Families /\ ListsApart(lists) /\ Covered(lists) = units
  BY <1>2, <1>4, <1>5, <1>6, RunsGlued
<1> HIDE DEF lists
<1>10. GlueReset \in Int /\ GlueReset \in 0..GlueReset
  BY GlueAssumption
<1>11. /\ g \in HeapTypes /\ g.GlueCount = GlueReset /\ g.FreeList = lists
       /\ g.UnitsStart = h.UnitsStart /\ g.LoUnit = h.LoUnit /\ g.HiUnit = h.HiUnit
  BY <1>2, <1>5, <1>9, <1>10 DEF HeapTypes
<1>12. Sound(g) /\ Arena(g) = Arena(h) /\ Space(g) = Covered(g.FreeList) \cup GapUnits(h)
  BY <1>2, <1>3, <1>9, <1>10, <1>11, NewLists
<1> QED BY <1>9, <1>11, <1>12 DEF Space

-------------------------------------------------------------------------------
(***************************************************************************)
(* Allocation.                                                             *)
(***************************************************************************)

\* The request is served from space in the arena, or from what the arena grows
\* downwards by; the text is not reached.
Served(h, r, nu) ==
    /\ Sound(r.heap) /\ Arena(h) \subseteq Arena(r.heap)
    /\ Text < r.heap.UnitsStart
    /\ r.ptr # NULL =>
           /\ r.ptr \in Int
           /\ Units(r.ptr, nu) \cap Space(r.heap) = {}
           /\ Units(r.ptr, nu) \cup Space(r.heap)
                  = Space(h) \cup (Arena(r.heap) \ Arena(h))

\* A block that left the heap is one an allocation may return.
LEMMA LeftServes ==
    ASSUME NEW h, NEW r, NEW nu, Text < h.UnitsStart, Left(h, r.heap, r.ptr, nu)
    PROVE  Served(h, r, nu)
<1>1. /\ Sound(r.heap) /\ Arena(r.heap) = Arena(h) /\ r.heap.UnitsStart = h.UnitsStart
      /\ r.ptr \in Int /\ Units(r.ptr, nu) \cap Space(r.heap) = {}
      /\ Units(r.ptr, nu) \cup Space(r.heap) = Space(h)
  BY DEF Left
<1>2. Arena(r.heap) \ Arena(h) = {}
  BY <1>1
<1> QED BY <1>1, <1>2 DEF Served

\* The arena grows downwards.
LEMMA FromText ==
    ASSUME NEW h, Sound(h), Text \in Int, AlignOffset <= Text, Text < h.UnitsStart,
           h.GlueCount # 0, NEW indx \in Indexes, NEW r \in TakeFromText(h, indx)
    PROVE  Served(h, r, I2U(indx))
<1> DEFINE nu == I2U(indx)
           bytes == U2B(nu)
           less == [h EXCEPT !.GlueCount = @ - 1]
<1>1. nu \in Nat /\ bytes \in Int /\ bytes \in Nat
  BY SizesGrow, BytesOfUnits
<1>2. /\ h \in HeapTypes /\ Bounds(h) /\ h.GlueCount \in 0..GlueReset
      /\ ListsApart(h.FreeList) /\ Covered(h.FreeList) \cap GapUnits(h) = {}
      /\ Space(h) \subseteq Arena(h)
  BY DEF Sound
<1>3. /\ GlueReset \in Nat /\ AlignOffset \in Nat /\ h.GlueCount \in Int
      /\ h.UnitsStart \in Int /\ h.LoUnit \in Int /\ h.HiUnit \in Int
  BY <1>2, GlueAssumption, SizesAssumption DEF HeapTypes
<1>4. h.GlueCount - 1 \in 0..GlueReset /\ h.GlueCount - 1 \in Int
  BY <1>2, <1>3
<1>5. r = IF h.UnitsStart - Text > bytes
          THEN Result(h.UnitsStart - bytes, [less EXCEPT !.UnitsStart = @ - bytes])
          ELSE Result(NULL, less)
  BY DEF TakeFromText
<1>6. CASE ~(h.UnitsStart - Text > bytes)
  <2> HIDE DEF bytes, nu
  <2>1. r.ptr = NULL /\ r.heap = less
    BY <1>5, <1>6 DEF Result
  <2>2. /\ less \in HeapTypes /\ less.GlueCount \in 0..GlueReset
        /\ less.UnitsStart = h.UnitsStart /\ less.LoUnit = h.LoUnit
        /\ less.HiUnit = h.HiUnit /\ less.FreeList = h.FreeList
    BY <1>2, <1>4 DEF HeapTypes
  <2> HIDE DEF less
  <2>3. Covered(h.FreeList) \subseteq Arena(h)
    BY <1>2 DEF Space
  <2>4. Sound(less) /\ Arena(less) = Arena(h)
    BY <1>2, <2>2, <2>3, NewLists
  <2> QED BY <2>1, <2>2, <2>4 DEF Served
<1>7. CASE h.UnitsStart - Text > bytes
  <2> DEFINE start == h.UnitsStart - bytes
             g == [less EXCEPT !.UnitsStart = start]
             size == nu + ArenaSize(h)
  <2>1. r.ptr = start /\ r.heap = g
    BY <1>5, <1>7 DEF Result
  <2>2. start \in Int /\ Text < start /\ AlignOffset <= start /\ start <= h.UnitsStart
        /\ start + bytes = h.UnitsStart
    BY <1>1, <1>3, <1>7
  <2> HIDE DEF start
  <2>3. /\ g \in HeapTypes /\ g.GlueCount = h.GlueCount - 1
        /\ g.UnitsStart = start /\ g.LoUnit = h.LoUnit
        /\ g.HiUnit = h.HiUnit /\ g.FreeList = h.FreeList
    BY <1>2, <1>4, <2>2 DEF HeapTypes
  <2> HIDE DEF g, less
  <2>4. GapSize(g) = GapSize(h) /\ GapUnits(g) = GapUnits(h) /\ Space(g) = Space(h)
    BY <2>3 DEF GapSize, GapUnits, Space
  <2>5. ArenaSize(h) \in Nat /\ ArenaEnd = h.UnitsStart + U2B(ArenaSize(h))
        /\ h.UnitsStart <= h.LoUnit /\ h.HiUnit <= ArenaEnd
        /\ GapSize(h) \in Nat /\ h.HiUnit = h.LoUnit + U2B(GapSize(h))
    BY <1>2 DEF Bounds
  <2>6. size \in Nat /\ U2B(size) = bytes + U2B(ArenaSize(h))
    <3>1. size \in Nat /\ nu \in Int /\ ArenaSize(h) \in Int
      BY <1>1, <2>5
    <3>2. U2B(nu + ArenaSize(h)) = U2B(nu) + U2B(ArenaSize(h))
      BY <3>1, BytesOfUnits
    <3> QED BY <3>1, <3>2
  <2>7. ArenaEnd = start + U2B(size)
    <3>1. U2B(ArenaSize(h)) \in Int
      BY <2>5, BytesOfUnits
    <3> DEFINE a == U2B(ArenaSize(h))
               c == U2B(size)
    <3>2. a \in Int /\ c = bytes + a /\ ArenaEnd = h.UnitsStart + a
      BY <2>5, <2>6, <3>1
    <3> HIDE DEF a, c, bytes
    <3>3. ArenaEnd = start + c
      BY <1>1, <2>2, <3>2
    <3> QED BY <3>3 DEF c
  <2>8. ArenaSize(g) = size
    <3> DEFINE c == U2B(size)
    <3>1. c \in Int /\ ArenaEnd = start + c /\ c \div UNIT_SIZE = size
      BY <2>6, <2>7, BytesOfUnits, WholeUnits
    <3> HIDE DEF c, size
    <3>2. ArenaEnd - start = c
      BY <2>2, <3>1
    <3> QED BY <2>3, <3>1, <3>2 DEF ArenaSize
  <2>9. /\ Arena(g) = Units(start, nu) \cup Arena(h)
        /\ Units(start, nu) \cap Arena(h) = {}
    <3>1. /\ Units(start, nu + ArenaSize(h))
                 = Units(start, nu) \cup Units(start + bytes, ArenaSize(h))
          /\ Units(start, nu) \cap Units(start + bytes, ArenaSize(h)) = {}
      BY <1>1, <2>2, <2>5, UnitsJoin
    <3> HIDE DEF nu, bytes
    <3>2. Arena(h) = Units(start + bytes, ArenaSize(h))
      BY <2>2 DEF Arena
    <3>3. Arena(g) = Units(start, nu + ArenaSize(h))
      BY <2>3, <2>8 DEF Arena
    <3> QED BY <3>1, <3>2, <3>3
  <2> HIDE DEF size, nu, bytes
  <2>10. Bounds(g)
    <3>1. start <= h.LoUnit
      BY <1>3, <2>2, <2>5
    <3> QED BY <2>2, <2>3, <2>4, <2>5, <2>6, <2>7, <2>8, <3>1 DEF Bounds
  <2>11. Sound(g)
    BY <1>2, <1>4, <2>3, <2>4, <2>9, <2>10 DEF Sound
  <2>12. Units(start, nu) \cap Space(g) = {}
    BY <1>2, <2>4, <2>9
  <2>13. Units(start, nu) \cup Space(g) = Space(h) \cup (Arena(g) \ Arena(h))
    BY <2>4, <2>9
  <2> QED BY <2>1, <2>2, <2>3, <2>9, <2>11, <2>12, <2>13 DEF Served, nu
<1> QED BY <1>6, <1>7

\* Blocks are taken from either end of the gap.
LEMMA GapCut ==
    ASSUME NEW h, Sound(h), NEW m \in Nat, NEW n \in Nat, GapSize(h) = m + n
    PROVE  LET cut == h.LoUnit + U2B(m) IN
           /\ Left(h, [h EXCEPT !.LoUnit = cut], h.LoUnit, m)
           /\ Left(h, [h EXCEPT !.HiUnit = cut], cut, n)
<1> DEFINE lo == h.LoUnit
           cut == lo + U2B(m)
           lower == Units(lo, m)
           upper == Units(cut, n)
           free == Covered(h.FreeList)
           above == [h EXCEPT !.LoUnit = cut]
           below == [h EXCEPT !.HiUnit = cut]
<1>1. /\ h \in HeapTypes /\ Bounds(h) /\ h.GlueCount \in 0..GlueReset
      /\ ListsApart(h.FreeList) /\ free \cap GapUnits(h) = {}
      /\ free \cup GapUnits(h) \subseteq Arena(h)
      /\ Space(h) = free \cup GapUnits(h)
  BY DEF Sound, Space
<1>2. /\ AlignOffset <= h.UnitsStart /\ h.UnitsStart <= lo /\ h.HiUnit <= ArenaEnd
      /\ h.HiUnit = lo + U2B(GapSize(h))
      /\ ArenaSize(h) \in Nat /\ ArenaEnd = h.UnitsStart + U2B(ArenaSize(h))
      /\ lo \in Int /\ h.UnitsStart \in Int /\ h.HiUnit \in Int
  BY <1>1 DEF Bounds, HeapTypes
<1>3. /\ U2B(m) \in Nat /\ U2B(n) \in Nat /\ U2B(m + n) = U2B(m) + U2B(n)
      /\ U2B(m) \div UNIT_SIZE = m /\ U2B(n) \div UNIT_SIZE = n
  <2>1. m \in Int /\ n \in Int
    OBVIOUS
  <2> QED BY <2>1, BytesOfUnits, WholeUnits
<1>4. GapUnits(h) = lower \cup upper /\ lower \cap upper = {}
  <2>1. lo \in Int
    BY <1>2
  <2> HIDE DEF lo
  <2>2. Units(lo, m + n) = lower \cup upper /\ lower \cap upper = {}
    BY <2>1, UnitsJoin
  <2> HIDE DEF lower, upper
  <2> QED BY <2>2 DEF GapUnits, lo
<1>5. /\ cut \in Int /\ lo <= cut /\ h.HiUnit = cut + U2B(n)
      /\ h.UnitsStart <= cut /\ cut <= ArenaEnd
      /\ cut - lo = U2B(m) /\ h.HiUnit - cut = U2B(n)
  <2> DEFINE a == U2B(m)
             b == U2B(n)
             c == U2B(m + n)
  <2>1. a \in Nat /\ b \in Nat /\ c = a + b /\ h.HiUnit = lo + c /\ cut = lo + a
        /\ ArenaEnd \in Nat
    BY <1>2, <1>3, ArenaEndIs
  <2> HIDE DEF a, b, c, cut, lo
  <2>2. /\ cut \in Int /\ lo <= cut /\ h.HiUnit = cut + b
        /\ h.UnitsStart <= cut /\ cut <= ArenaEnd
        /\ cut - lo = a /\ h.HiUnit - cut = b
    BY <1>2, <2>1
  <2> QED BY <2>2 DEF a, b
<1> HIDE DEF cut
<1>6. /\ above \in HeapTypes /\ above.LoUnit = cut /\ above.HiUnit = h.HiUnit
      /\ above.UnitsStart = h.UnitsStart /\ above.FreeList = h.FreeList
      /\ above.GlueCount = h.GlueCount
  BY <1>1, <1>5 DEF HeapTypes
<1>7. /\ below \in HeapTypes /\ below.LoUnit = h.LoUnit /\ below.HiUnit = cut
      /\ below.UnitsStart = h.UnitsStart /\ below.FreeList = h.FreeList
      /\ below.GlueCount = h.GlueCount
  BY <1>1, <1>5 DEF HeapTypes
<1> HIDE DEF above, below, lo
<1>8. /\ GapSize(above) = n /\ GapUnits(above) = upper
      /\ ArenaSize(above) = ArenaSize(h) /\ Arena(above) = Arena(h)
      /\ Space(above) = free \cup upper
  <2>1. GapSize(above) = n /\ ArenaSize(above) = ArenaSize(h)
    BY <1>3, <1>5, <1>6 DEF GapSize, ArenaSize
  <2> QED BY <1>6, <2>1 DEF GapUnits, Arena, Space
<1>9. /\ GapSize(below) = m /\ GapUnits(below) = lower
      /\ ArenaSize(below) = ArenaSize(h) /\ Arena(below) = Arena(h)
      /\ Space(below) = free \cup lower
  <2>1. GapSize(below) = m /\ ArenaSize(below) = ArenaSize(h)
    BY <1>3, <1>5, <1>7 DEF GapSize, ArenaSize, lo
  <2> QED BY <1>7, <2>1 DEF GapUnits, Arena, Space, lo
<1> HIDE DEF lower, upper, free
<1>10. Bounds(above)
  BY <1>2, <1>5, <1>6, <1>8 DEF Bounds
<1>11. Bounds(below)
  BY <1>2, <1>5, <1>7, <1>9 DEF Bounds, lo, cut
<1>12. Sound(above)
  <2>1. free \cap upper = {} /\ free \cup upper \subseteq Arena(h)
    BY <1>1, <1>4
  <2>2. Covered(above.FreeList) = free
    BY <1>6 DEF free
  <2> QED BY <1>1, <1>6, <1>8, <1>10, <2>1, <2>2 DEF Sound
<1>13. Sound(below)
  <2>1. free \cap lower = {} /\ free \cup lower \subseteq Arena(h)
    BY <1>1, <1>4
  <2>2. Covered(below.FreeList) = free
    BY <1>7 DEF free
  <2> QED BY <1>1, <1>7, <1>9, <1>11, <2>1, <2>2 DEF Sound
<1>14. lower \cap Space(above) = {} /\ lower \cup Space(above) = Space(h)
  BY <1>1, <1>4, <1>8
<1>15. upper \cap Space(below) = {} /\ upper \cup Space(below) = Space(h)
  BY <1>1, <1>4, <1>9
<1>16. Left(h, above, lo, m)
  BY <1>2, <1>6, <1>8, <1>12, <1>14 DEF Left, lower
<1>17. Left(h, below, cut, n)
  BY <1>5, <1>7, <1>9, <1>13, <1>15 DEF Left, upper
<1> QED BY <1>16, <1>17 DEF above, below, lo, cut

\* A node of a free list is never NULL.
LEMMA NodesNotNull ==
    ASSUME NEW h, Sound(h), NEW i \in Indexes, NEW node \in h.FreeList[i]
    PROVE  node # NULL
<1>1. h \in HeapTypes /\ Bounds(h) /\ h.FreeList \in Families /\ Space(h) \subseteq Arena(h)
  BY DEF Sound, HeapTypes
<1>2. node \in Arena(h)
  BY <1>1, NodesAreUnits DEF Space
<1>3. node \in AlignOffset..ArenaEnd - 1
  BY <1>1, <1>2, ArenaBetween
<1> QED BY <1>3, ArenaEndIs DEF NULL

\* The next larger block is cut, or the arena grows; there is nothing larger in
\* the lists when that fails.
LEMMA FromLarger ==
    ASSUME NEW h, Sound(h), Text \in Int, AlignOffset <= Text, Text < h.UnitsStart,
           h.GlueCount # 0, NEW indx \in Indexes, NEW r \in TakeFromLarger(h, indx)
    PROVE  /\ Served(h, r, I2U(indx))
           /\ r.ptr = NULL => \A i \in Indexes : indx < i => h.FreeList[i] = {}
<1> DEFINE larger == {i \in indx + 1..LastIndex : h.FreeList[i] # {}}
           next == CHOOSE i \in larger : \A j \in larger : i <= j
<1>1. indx \in Nat /\ LastIndex \in Nat
  BY LastIndexIs
<1>2. CASE larger = {}
  <2>1. r \in TakeFromText(h, indx)
    BY <1>2 DEF TakeFromLarger
  <2>2. Served(h, r, I2U(indx))
    BY <2>1, FromText
  <2>3. ASSUME NEW i \in Indexes, indx < i PROVE h.FreeList[i] = {}
    <3>1. i \in Nat /\ i <= LastIndex
      BY LastIndexIs
    <3>2. i \in indx + 1..LastIndex
      BY <1>1, <2>3, <3>1
    <3> QED BY <1>2, <3>2
  <2> QED BY <2>2, <2>3
<1>3. CASE larger # {}
  <2>1. larger \in SUBSET Nat
    BY <1>1
  <2>2. \E i \in larger : \A j \in larger : i <= j
    BY <1>3, <2>1, LeastNumber
  <2>3. next \in larger
    BY <2>2
  <2>4. next \in Indexes /\ indx < next
    <3>1. next \in Nat /\ indx < next /\ next <= LastIndex
      BY <1>1, <2>3
    <3> QED BY <3>1, LastIndexIs
  <2>5. PICK q \in RemoveNode(h, next) :
            r = Result(q.ptr, SplitBlock(q.heap, q.ptr, next, indx))
    BY <1>3 DEF TakeFromLarger
  <2> HIDE DEF next, larger
  <2>6. Left(h, q.heap, q.ptr, I2U(next)) /\ q.ptr \in h.FreeList[next]
    BY <2>4, NodeRemoved
  <2>7. q.ptr # NULL
    BY <2>4, <2>6, NodesNotNull
  <2> DEFINE block == Units(q.ptr, I2U(next))
             g == SplitBlock(q.heap, q.ptr, next, indx)
  <2>8. /\ Sound(q.heap) /\ Arena(q.heap) = Arena(h) /\ q.heap.UnitsStart = h.UnitsStart
        /\ q.ptr \in Int /\ block \cap Space(q.heap) = {}
        /\ block \cup Space(q.heap) = Space(h)
    BY <2>6 DEF Left
  <2>9. block \subseteq Arena(q.heap)
    BY <2>8 DEF Sound
  <2>10. FreshUnits(q.heap, block)
    BY <2>8, <2>9 DEF FreshUnits
  <2> HIDE DEF g
  <2>11. /\ Sound(g) /\ Arena(g) = Arena(q.heap) /\ g.UnitsStart = q.heap.UnitsStart
         /\ Units(q.ptr, I2U(indx)) \cap Space(g) = {}
         /\ Units(q.ptr, I2U(indx)) \cup Space(g) = Space(q.heap) \cup block
    BY <2>4, <2>8, <2>10, BlockSplit DEF g
  <2>12. r.ptr = q.ptr /\ r.heap = g
    BY <2>5 DEF Result, g
  <2>13. Left(h, r.heap, r.ptr, I2U(indx))
    BY <2>8, <2>11, <2>12 DEF Left
  <2>14. Served(h, r, I2U(indx))
    BY <2>13, LeftServes
  <2> QED BY <2>7, <2>12, <2>14
<1> QED BY <1>2, <1>3

\* The free blocks have been glued for a request, and there was still nothing.
GluedInVain(h, indx) ==
    h.GlueCount = 0 =>
        \E g \in GlueFreeBlocks(h) :
            \A i \in Indexes : indx <= i => g.FreeList[i] = {}

\* AllocUnitsRare returns units nobody uses, or NULL, and NULL only when a gluing
\* just before found no run of the size.
LEMMA Rare ==
    ASSUME NEW h, Sound(h), Text \in Int, AlignOffset <= Text, Text < h.UnitsStart,
           NEW indx \in Indexes, NEW r \in AllocUnitsRare(h, indx)
    PROVE  /\ Served(h, r, I2U(indx))
           /\ r.ptr = NULL => GluedInVain(h, indx)
<1>1. CASE h.GlueCount # 0
  <2>1. r \in TakeFromLarger(h, indx)
    BY <1>1 DEF AllocUnitsRare
  <2> QED BY <1>1, <2>1, FromLarger DEF GluedInVain
<1>2. CASE h.GlueCount = 0
  <2>1. PICK g \in GlueFreeBlocks(h) :
            r \in IF g.FreeList[indx] # {} THEN RemoveNode(g, indx)
                  ELSE TakeFromLarger(g, indx)
    BY <1>2 DEF AllocUnitsRare
  <2>2. /\ Sound(g) /\ Arena(g) = Arena(h) /\ Space(g) = Space(h)
        /\ g.UnitsStart = h.UnitsStart /\ g.GlueCount = GlueReset
    BY Glued
  <2>3. g.GlueCount # 0
    BY <2>2, GlueAssumption
  <2>4. Served(g, r, I2U(indx)) => Served(h, r, I2U(indx))
    BY <2>2 DEF Served
  <2>5. CASE g.FreeList[indx] # {}
    <3>1. r \in RemoveNode(g, indx)
      BY <2>1, <2>5
    <3>2. Left(g, r.heap, r.ptr, I2U(indx)) /\ r.ptr \in g.FreeList[indx]
      BY <2>2, <3>1, NodeRemoved
    <3>3. r.ptr # NULL
      BY <2>2, <3>2, NodesNotNull
    <3>4. Served(g, r, I2U(indx))
      BY <2>2, <3>2, LeftServes
    <3> QED BY <2>4, <3>3, <3>4
  <2>6. CASE g.FreeList[indx] = {}
    <3>1. r \in TakeFromLarger(g, indx)
      BY <2>1, <2>6
    <3>2. /\ Served(g, r, I2U(indx))
          /\ r.ptr = NULL => \A i \in Indexes : indx < i => g.FreeList[i] = {}
      BY <2>2, <2>3, <3>1, FromLarger
    <3>3. ASSUME r.ptr = NULL, NEW i \in Indexes, indx <= i PROVE g.FreeList[i] = {}
      <4>1. indx = i \/ indx < i
        BY <3>3, LastIndexIs
      <4> QED BY <2>6, <3>2, <3>3, <4>1
    <3> QED BY <2>4, <3>2, <3>3 DEF GluedInVain
  <2> QED BY <2>5, <2>6
<1> QED BY <1>1, <1>2

\* The same of AllocUnits, with its list and its gap.
LEMMA UnitsAllocated ==
    ASSUME NEW h, Sound(h), Text \in Int, AlignOffset <= Text, Text < h.UnitsStart,
           NEW indx \in Indexes, NEW r \in AllocUnits(h, indx)
    PROVE  /\ Served(h, r, I2U(indx))
           /\ r.ptr = NULL => GluedInVain(h, indx)
<1> DEFINE nu == I2U(indx)
           bytes == U2B(nu)
<1>1. CASE h.FreeList[indx] # {}
  <2>1. r \in RemoveNode(h, indx)
    BY <1>1 DEF AllocUnits
  <2>2. Left(h, r.heap, r.ptr, nu) /\ r.ptr \in h.FreeList[indx]
    BY <2>1, NodeRemoved
  <2>3. r.ptr # NULL
    BY <2>2, NodesNotNull
  <2> QED BY <2>2, <2>3, LeftServes
<1>2. CASE h.FreeList[indx] = {} /\ bytes <= h.HiUnit - h.LoUnit
  <2>1. r = Result(h.LoUnit, [h EXCEPT !.LoUnit = @ + bytes])
    BY <1>2 DEF AllocUnits
  <2>2. /\ h \in HeapTypes /\ h.LoUnit \in Int /\ h.HiUnit \in Int /\ h.UnitsStart \in Int
        /\ AlignOffset <= h.UnitsStart /\ h.UnitsStart <= h.LoUnit
        /\ GapSize(h) \in Nat /\ h.HiUnit = h.LoUnit + U2B(GapSize(h))
    BY DEF Sound, Bounds, HeapTypes
  <2>3. nu \in Nat /\ nu \in Int /\ GapSize(h) \in Int
    BY <2>2, SizesGrow
  <2>4. nu <= GapSize(h)
    <3>1. U2B(GapSize(h)) \in Int /\ bytes \in Int /\ UNIT_SIZE \in Nat \ {0}
      BY <2>3, BytesOfUnits, UnitSizeIs
    <3>2. GapSize(h) < nu => U2B(GapSize(h)) + UNIT_SIZE <= bytes
      BY <2>3, BytesOfUnits
    <3> DEFINE c == U2B(GapSize(h))
    <3>3. c \in Int /\ h.HiUnit = h.LoUnit + c /\ (GapSize(h) < nu => c + UNIT_SIZE <= bytes)
      BY <2>2, <3>1, <3>2
    <3> HIDE DEF c, bytes, nu
    <3>4. ~(GapSize(h) < nu)
      BY <1>2, <2>2, <3>1, <3>3
    <3> QED BY <2>3, <3>4
  <2> DEFINE rest == GapSize(h) - nu
  <2>5. rest \in Nat /\ GapSize(h) = nu + rest
    BY <2>3, <2>4
  <2> HIDE DEF rest, nu
  <2>6. Left(h, [h EXCEPT !.LoUnit = h.LoUnit + U2B(nu)], h.LoUnit, nu)
    BY <2>3, <2>5, GapCut
  <2>7. r.ptr = h.LoUnit /\ r.heap = [h EXCEPT !.LoUnit = h.LoUnit + U2B(nu)]
    BY <2>1 DEF Result
  <2>8. r.ptr # NULL
    BY <2>2, <2>7, ArenaEndIs DEF NULL
  <2>9. Served(h, r, nu)
    BY <2>6, <2>7, LeftServes
  <2> QED BY <2>8, <2>9 DEF nu
<1>3. CASE h.FreeList[indx] = {} /\ ~(bytes <= h.HiUnit - h.LoUnit)
  <2>1. r \in AllocUnitsRare(h, indx)
    BY <1>3 DEF AllocUnits
  <2> QED BY <2>1, Rare
<1> QED BY <1>1, <1>2, <1>3

\* The same of the allocation in CreateSuccessors, with the top of the gap.
LEMMA ContextAllocated ==
    ASSUME NEW h, Sound(h), Text \in Int, AlignOffset <= Text, Text < h.UnitsStart,
           NEW r \in AllocContext(h)
    PROVE  /\ Served(h, r, 1)
           /\ r.ptr = NULL => GluedInVain(h, 0)
<1>1. 0 \in Indexes /\ I2U(0) = 1
  BY SizesGrow, LastIndexIs
<1>2. CASE h.HiUnit # h.LoUnit
  <2>1. r = Result(h.HiUnit - UNIT_SIZE, [h EXCEPT !.HiUnit = h.HiUnit - UNIT_SIZE])
    BY <1>2 DEF AllocContext
  <2>2. /\ h \in HeapTypes /\ h.LoUnit \in Int /\ h.HiUnit \in Int /\ h.UnitsStart \in Int
        /\ AlignOffset <= h.UnitsStart /\ h.UnitsStart <= h.LoUnit
        /\ GapSize(h) \in Nat /\ h.HiUnit = h.LoUnit + U2B(GapSize(h))
    BY DEF Sound, Bounds, HeapTypes
  <2>3. GapSize(h) # 0
    <3>1. U2B(0) = 0
      BY BytesOfUnits
    <3>2. GapSize(h) = 0 => h.HiUnit = h.LoUnit
      BY <2>2, <3>1
    <3> QED BY <1>2, <3>2
  <2> DEFINE m == GapSize(h) - 1
  <2>4. m \in Nat /\ GapSize(h) = m + 1 /\ m \in Int /\ 1 \in Int
    BY <2>2, <2>3
  <2> HIDE DEF m
  <2>5. U2B(m + 1) = U2B(m) + UNIT_SIZE /\ U2B(m) \in Nat /\ UNIT_SIZE \in Int
    BY <2>4, BytesOfUnits, UnitSizeIs
  <2> DEFINE c == U2B(m)
             d == U2B(m + 1)
  <2>6. d = c + UNIT_SIZE /\ c \in Nat /\ h.HiUnit = h.LoUnit + d
    BY <2>2, <2>4, <2>5
  <2> HIDE DEF c, d
  <2>7. h.HiUnit - UNIT_SIZE = h.LoUnit + c
    BY <2>2, <2>5, <2>6
  <2>8. h.LoUnit + c \in Int /\ h.LoUnit + c # 0
    BY <2>2, <2>6, ArenaEndIs
  <2>9. Left(h, [h EXCEPT !.HiUnit = h.LoUnit + c], h.LoUnit + c, 1)
    BY <2>4, GapCut DEF c
  <2>10. r.ptr = h.LoUnit + c /\ r.heap = [h EXCEPT !.HiUnit = h.LoUnit + c]
    BY <2>1, <2>7 DEF Result
  <2>11. Served(h, r, 1)
    BY <2>9, <2>10, LeftServes
  <2> QED BY <2>8, <2>10, <2>11 DEF NULL
<1>3. CASE h.HiUnit = h.LoUnit /\ h.FreeList[0] # {}
  <2>1. r \in RemoveNode(h, 0)
    BY <1>3 DEF AllocContext
  <2>2. Left(h, r.heap, r.ptr, 1) /\ r.ptr \in h.FreeList[0]
    BY <1>1, <2>1, NodeRemoved
  <2>3. r.ptr # NULL
    BY <1>1, <2>2, NodesNotNull
  <2> QED BY <2>2, <2>3, LeftServes
<1>4. CASE h.HiUnit = h.LoUnit /\ h.FreeList[0] = {}
  <2>1. r \in AllocUnitsRare(h, 0)
    BY <1>4 DEF AllocContext
  <2> QED BY <1>1, <2>1, Rare
<1> QED BY <1>2, <1>3, <1>4

\* A block for a smaller one: the rest of it, or all of it when the lists have a
\* block of the smaller size, is free again.
LEMMA UnitsShrunk ==
    ASSUME NEW h, Sound(h), NEW oldPtr \in Int, NEW i0 \in Indexes, NEW i1 \in Indexes,
           i1 < i0, FreshUnits(h, Units(oldPtr, I2U(i0))),
           NEW r \in ShrinkUnits(h, oldPtr, i0, i1)
    PROVE  /\ Sound(r.heap) /\ Arena(r.heap) = Arena(h)
           /\ r.heap.UnitsStart = h.UnitsStart /\ r.ptr \in Int
           /\ Units(r.ptr, I2U(i1)) \cap Space(r.heap) = {}
           /\ Units(r.ptr, I2U(i1)) \cup Space(r.heap)
                  = Space(h) \cup Units(oldPtr, I2U(i0))
           /\ \/ r.ptr = oldPtr
              \/ Units(r.ptr, I2U(i1)) \cap Units(oldPtr, I2U(i0)) = {}
<1> DEFINE old == Units(oldPtr, I2U(i0))
<1>1. CASE h.FreeList[i1] # {}
  <2>1. PICK q \in RemoveNode(h, i1) : r = Result(q.ptr, InsertNode(q.heap, oldPtr, i0))
    BY <1>1 DEF ShrinkUnits
  <2>2. Left(h, q.heap, q.ptr, I2U(i1))
    BY NodeRemoved
  <2> DEFINE new == Units(q.ptr, I2U(i1))
             g == InsertNode(q.heap, oldPtr, i0)
  <2>3. /\ Sound(q.heap) /\ Arena(q.heap) = Arena(h) /\ q.heap.UnitsStart = h.UnitsStart
        /\ q.ptr \in Int /\ new \cap Space(q.heap) = {}
        /\ new \cup Space(q.heap) = Space(h)
    BY <2>2 DEF Left
  <2>4. old \cap Space(h) = {} /\ old \subseteq Arena(h)
    BY DEF FreshUnits
  <2>5. FreshUnits(q.heap, old)
    BY <2>3, <2>4 DEF FreshUnits
  <2>6. Gained(q.heap, g, old)
    BY <2>3, <2>5, NodeInserted
  <2> HIDE DEF g, new, old
  <2>7. /\ Sound(g) /\ Arena(g) = Arena(q.heap) /\ g.UnitsStart = q.heap.UnitsStart
        /\ Space(g) = Space(q.heap) \cup old
    BY <2>6 DEF Gained
  <2>8. new \cap Space(g) = {} /\ new \cup Space(g) = Space(h) \cup old
        /\ new \cap old = {}
    BY <2>3, <2>4, <2>7
  <2>9. r.ptr = q.ptr /\ r.heap = g
    BY <2>1 DEF Result, g
  <2> QED BY <2>3, <2>7, <2>8, <2>9 DEF new, old
<1>2. CASE h.FreeList[i1] = {}
  <2> DEFINE g == SplitBlock(h, oldPtr, i0, i1)
  <2>1. r = Result(oldPtr, g)
    BY <1>2 DEF ShrinkUnits
  <2>2. /\ Sound(g) /\ Arena(g) = Arena(h) /\ g.UnitsStart = h.UnitsStart
        /\ Units(oldPtr, I2U(i1)) \cap Space(g) = {}
        /\ Units(oldPtr, I2U(i1)) \cup Space(g) = Space(h) \cup old
    BY BlockSplit
  <2> HIDE DEF g
  <2>3. r.ptr = oldPtr /\ r.heap = g
    BY <2>1 DEF Result
  <2> QED BY <2>2, <2>3
<1> QED BY <1>1, <1>2

-------------------------------------------------------------------------------
(***************************************************************************)
(* A model begun anew.                                                     *)
(***************************************************************************)

\* RestartModel shares out the arena as the invariant says.
LEMMA RestartedIs ==
    /\ Sound(Restarted)
    /\ {RootContext} \subseteq Int /\ RootStats \in Families /\ ListsApart(RootStats)
    /\ {RootContext} \cap Covered(RootStats) = {}
    /\ ({RootContext} \cup Covered(RootStats)) \cap Space(Restarted) = {}
    /\ ({RootContext} \cup Covered(RootStats)) \cup Space(Restarted) = Arena(Restarted)
    /\ AlignOffset \in Int /\ AlignOffset < Restarted.UnitsStart
<1> DEFINE lo == FirstUnit + U2B(MaxUnits)
           states == Units(FirstUnit, MaxUnits)
           middle == Units(lo, RootGap)
           h == Restarted
<1>1. /\ FirstUnit \in Int /\ lo \in Int /\ RootContext \in Int
      /\ AlignOffset \in Int /\ AlignOffset < FirstUnit /\ AlignOffset <= FirstUnit
      /\ FirstUnit <= lo /\ RootContext <= ArenaEnd
      /\ RootGap \in Nat /\ RootContext = lo + U2B(RootGap)
      /\ (RootContext - lo) \div UNIT_SIZE = RootGap
      /\ RootUnits \in Nat /\ ArenaEnd = FirstUnit + U2B(RootUnits)
      /\ (ArenaEnd - FirstUnit) \div UNIT_SIZE = RootUnits
      /\ Units(FirstUnit, RootUnits) = states \cup middle \cup {RootContext}
      /\ states \cap middle = {} /\ RootContext \notin states \cup middle
  BY RootArena
<1>2. /\ h.FreeList = [i \in Indexes |-> {}] /\ h.UnitsStart = FirstUnit
      /\ h.LoUnit = lo /\ h.HiUnit = RootContext /\ h.GlueCount = 0
  BY DEF Restarted
<1>3. h \in HeapTypes
  <2>1. [i \in Indexes |-> {}] \in Families
    BY DEF Families
  <2> QED BY <1>1, <2>1 DEF Restarted, HeapTypes
<1>4. RootStats \in Families /\ ListsApart(RootStats) /\ Covered(RootStats) = states
  <2>1. RootStats = Single(LastIndex, FirstUnit)
    BY DEF RootStats, Single
  <2>2. LastIndex \in Indexes /\ I2U(LastIndex) = MaxUnits
    BY LastIndexIs DEF MaxUnits
  <2> QED BY <1>1, <2>1, <2>2, SingleIs
<1> HIDE DEF h, lo
<1>5. GapSize(h) = RootGap /\ ArenaSize(h) = RootUnits
  BY <1>1, <1>2 DEF GapSize, ArenaSize
<1>6. Bounds(h)
  BY <1>1, <1>2, <1>5 DEF Bounds
<1>7. Covered(h.FreeList) = {} /\ ListsApart(h.FreeList)
  BY <1>2 DEF Covered, ListsApart
<1>8. Space(h) = middle /\ Arena(h) = Units(FirstUnit, RootUnits) /\ GapUnits(h) = middle
  BY <1>2, <1>5, <1>7 DEF Space, Arena, GapUnits
<1> HIDE DEF states, middle
<1>9. h.GlueCount \in 0..GlueReset
  BY <1>2, GlueAssumption
<1>10. Sound(h)
  BY <1>1, <1>3, <1>6, <1>7, <1>8, <1>9 DEF Sound
<1>11. ({RootContext} \cup states) \cap middle = {} /\ {RootContext} \cap states = {}
       /\ ({RootContext} \cup states) \cup middle = Arena(h) /\ {RootContext} \subseteq Int
  BY <1>1, <1>8
<1>12. AlignOffset \in Int /\ AlignOffset < h.UnitsStart
  BY <1>1, <1>2
<1> QED BY <1>4, <1>8, <1>10, <1>11, <1>12 DEF h

-------------------------------------------------------------------------------
(***************************************************************************)
(* Every step keeps the invariant.                                         *)
(***************************************************************************)

\* Ppmd7_Init establishes the invariant.
LEMMA InitIInv == ASSUME Init PROVE IInv
<1>1. /\ heap = Restarted /\ Text = AlignOffset /\ appended = FALSE
      /\ contexts = {RootContext} /\ stats = RootStats
  BY DEF Init
<1>2. Taken = {RootContext} \cup Covered(RootStats)
  BY <1>1 DEF Taken
<1>3. Sound(heap) /\ HeldInv
  BY <1>1, RestartedIs DEF HeldInv
<1>4. SharesInv
  BY <1>1, <1>2, RestartedIs DEF SharesInv
<1>5. TextInv
  <2>1. Text \in Int /\ AlignOffset <= Text /\ Text < heap.UnitsStart
    BY <1>1, RestartedIs
  <2>2. appended \in BOOLEAN /\ ~appended
    BY <1>1
  <2> QED BY <2>1, <2>2 DEF TextInv
<1> QED BY <1>3, <1>4, <1>5 DEF IInv

\* So does RestartModel, from any state.
LEMMA RestartIInv == ASSUME RestartModel PROVE IInv'
<1>1. /\ heap' = Restarted /\ Text' = AlignOffset /\ appended' = FALSE
      /\ contexts' = {RootContext} /\ stats' = RootStats
  BY DEF RestartModel
<1>2. Taken' = {RootContext} \cup Covered(RootStats)
  BY <1>1 DEF Taken
<1>3. Sound(heap') /\ HeldInv'
  BY <1>1, RestartedIs DEF HeldInv
<1>4. Space(heap') = Space(Restarted) /\ Arena(heap') = Arena(Restarted)
  BY <1>1
<1>5. SharesInv'
  BY <1>2, <1>4, RestartedIs DEF SharesInv
<1>6. TextInv'
  <2>1. AlignOffset \in Int /\ AlignOffset <= AlignOffset
        /\ AlignOffset < Restarted.UnitsStart
    BY RestartedIs
  <2>2. Text' \in Int /\ AlignOffset <= Text' /\ Text' < (heap').UnitsStart
    BY <1>1, <2>1
  <2>3. appended' \in BOOLEAN /\ ~appended'
    BY <1>1
  <2> QED BY <2>2, <2>3 DEF TextInv
<1> QED BY <1>3, <1>5, <1>6 DEF IInv

\* What the actions know of the memory before them.
LEMMA BeforeStep ==
    ASSUME IInv
    PROVE  /\ Sound(heap) /\ Text \in Int /\ AlignOffset <= Text /\ Text < heap.UnitsStart
           /\ contexts \subseteq Int /\ stats \in Families /\ ListsApart(stats)
           /\ contexts \cap Covered(stats) = {}
           /\ Taken = contexts \cup Covered(stats)
           /\ Taken \cap Space(heap) = {} /\ Taken \cup Space(heap) = Arena(heap)
  BY DEF IInv, HeldInv, SharesInv, TextInv, Taken

\* What was served is neither in use nor in the space that is left.
LEMMA ServedApart ==
    ASSUME IInv, NEW r, NEW nu, Served(heap, r, nu), r.ptr # NULL
    PROVE  /\ Units(r.ptr, nu) \cap Taken = {}
           /\ (Taken \cup Units(r.ptr, nu)) \cap Space(r.heap) = {}
           /\ (Taken \cup Units(r.ptr, nu)) \cup Space(r.heap) = Arena(r.heap)
           /\ Taken \subseteq Arena(r.heap)
<1> DEFINE new == Units(r.ptr, nu)
           rest == Space(r.heap)
           arena == Arena(r.heap)
<1>1. /\ Arena(heap) \subseteq arena /\ new \cap rest = {}
      /\ new \cup rest = Space(heap) \cup (arena \ Arena(heap))
  BY DEF Served
<1>2. Taken \cap Space(heap) = {} /\ Taken \cup Space(heap) = Arena(heap)
  BY BeforeStep
<1> HIDE DEF new, rest, arena
<1>3. /\ new \cap Taken = {} /\ (Taken \cup new) \cap rest = {}
      /\ (Taken \cup new) \cup rest = arena /\ Taken \subseteq arena
  BY <1>1, <1>2
<1> QED BY <1>3 DEF new, rest, arena

\* The text is left alone, or its last byte can no longer be taken back.
LEMMA TextStays ==
    ASSUME IInv, Text' = Text, appended' = appended \/ appended' = FALSE,
           Text < (heap').UnitsStart
    PROVE  TextInv'
<1>1. /\ Text \in Int /\ AlignOffset <= Text
      /\ appended \in BOOLEAN /\ (appended => AlignOffset < Text)
  BY DEF IInv, TextInv
<1>2. Text' \in Int /\ AlignOffset <= Text' /\ Text' < (heap').UnitsStart
  BY <1>1
<1>3. appended' \in BOOLEAN /\ (appended' => appended)
  <2>1. CASE appended' = appended
    BY <1>1, <2>1
  <2>2. CASE appended' = FALSE
    BY <2>2
  <2> QED BY <2>1, <2>2
<1>4. appended' => AlignOffset < Text'
  BY <1>1, <1>3
<1> QED BY <1>2, <1>3, <1>4 DEF TextInv

\* A block added to lists, which all its units are new to.
LEMMA ListsInsert ==
    ASSUME NEW lists \in Families, ListsApart(lists), NEW i \in Indexes, NEW at \in Int,
           Units(at, I2U(i)) \cap Covered(lists) = {}
    PROVE  LET more == [lists EXCEPT ![i] = @ \cup {at}] IN
           /\ more \in Families /\ ListsApart(more)
           /\ Covered(more) = Covered(lists) \cup Units(at, I2U(i))
<1> DEFINE one == Single(i, at)
<1>1. one \in Families /\ ListsApart(one) /\ Covered(one) = Units(at, I2U(i))
  BY SingleIs
<1>2. [lists EXCEPT ![i] = @ \cup {at}] = Joined(lists, one)
  BY DEF Joined, Single, Families
<1> HIDE DEF one
<1>3. Covered(lists) \cap Covered(one) = {}
  BY <1>1
<1> QED BY <1>1, <1>2, <1>3, ListsJoin

\* A symbol written to the text area, or taken back.
LEMMA TextMoves ==
    ASSUME IInv, AppendText \/ RetractText PROVE IInv'
<1>1. CASE AppendText /\ Text + 1 >= heap.UnitsStart
  <2>1. RestartModel
    BY <1>1 DEF AppendText
  <2> QED BY <2>1, RestartIInv
<1>2. CASE AppendText /\ ~(Text + 1 >= heap.UnitsStart)
  <2>1. /\ Text' = Text + 1 /\ appended' = TRUE /\ heap' = heap
        /\ contexts' = contexts /\ stats' = stats
    BY <1>2 DEF AppendText, client
  <2>2. heap.UnitsStart \in Int /\ AlignOffset \in Int /\ Text \in Int /\ AlignOffset <= Text
    BY BeforeStep, ArenaEndIs DEF Sound, HeapTypes
  <2>3. Text + 1 \in Int /\ AlignOffset <= Text + 1 /\ AlignOffset < Text + 1
        /\ Text + 1 < heap.UnitsStart
    BY <1>2, <2>2
  <2>4. TextInv'
    BY <2>1, <2>3 DEF TextInv
  <2>5. Taken' = Taken
    BY <2>1 DEF Taken
  <2> QED BY <2>1, <2>4, <2>5 DEF IInv, HeldInv, SharesInv
<1>3. CASE RetractText
  <2>1. /\ appended /\ Text' = Text - 1 /\ appended' = FALSE /\ heap' = heap
        /\ contexts' = contexts /\ stats' = stats
    BY <1>3 DEF RetractText, client
  <2>2. heap.UnitsStart \in Int /\ AlignOffset \in Int /\ Text \in Int /\ AlignOffset < Text
        /\ Text < heap.UnitsStart
    BY <2>1, BeforeStep, ArenaEndIs DEF Sound, HeapTypes, IInv, TextInv
  <2>3. Text - 1 \in Int /\ AlignOffset <= Text - 1 /\ Text - 1 < heap.UnitsStart
    BY <2>2
  <2>4. TextInv'
    BY <2>1, <2>3 DEF TextInv
  <2>5. Taken' = Taken
    BY <2>1 DEF Taken
  <2> QED BY <2>1, <2>4, <2>5 DEF IInv, HeldInv, SharesInv
<1> QED BY <1>1, <1>2, <1>3

\* CreateSuccessors keeps the invariant.
LEMMA NewContextStep ==
    ASSUME IInv, NewContext PROVE IInv'
<1>1. PICK r \in AllocContext(heap) :
          \/ r.ptr = NULL /\ OutOfMemory(0)
          \/ /\ r.ptr # NULL /\ heap' = r.heap /\ contexts' = contexts \cup {r.ptr}
             /\ UNCHANGED <<Text, appended, stats>>
  BY DEF NewContext
<1>2. CASE OutOfMemory(0)
  BY <1>2, RestartIInv DEF OutOfMemory
<1>3. CASE r.ptr # NULL /\ heap' = r.heap /\ contexts' = contexts \cup {r.ptr}
           /\ UNCHANGED <<Text, appended, stats>>
  <2>1. Served(heap, r, 1)
    BY BeforeStep, ContextAllocated
  <2>2. r.ptr \in Int /\ Sound(r.heap) /\ Text < r.heap.UnitsStart
    BY <1>3, <2>1 DEF Served
  <2>3. Units(r.ptr, 1) = {r.ptr}
    BY <2>2, UnitsOne
  <2>4. /\ {r.ptr} \cap Taken = {}
        /\ (Taken \cup {r.ptr}) \cap Space(r.heap) = {}
        /\ (Taken \cup {r.ptr}) \cup Space(r.heap) = Arena(r.heap)
    BY <1>3, <2>1, <2>3, ServedApart
  <2>5. Taken' = Taken \cup {r.ptr}
    BY <1>3 DEF Taken
  <2>6. SharesInv'
    BY <1>3, <2>4, <2>5 DEF SharesInv
  <2>7. HeldInv'
    BY <1>3, <2>2, <2>4, BeforeStep DEF HeldInv
  <2>8. TextInv'
    BY <1>3, <2>2, TextStays
  <2> QED BY <1>3, <2>2, <2>6, <2>7, <2>8 DEF IInv
<1> QED BY <1>1, <1>2, <1>3

\* UpdateModel keeps it when a context of one symbol gets an array of states.
LEMMA NewStatsStep ==
    ASSUME IInv, NewStats PROVE IInv'
<1>1. PICK r \in AllocUnits(heap, 0) :
          \/ r.ptr = NULL /\ OutOfMemory(0)
          \/ /\ r.ptr # NULL /\ heap' = r.heap
             /\ stats' = [stats EXCEPT ![0] = @ \cup {r.ptr}]
             /\ appended' = FALSE /\ UNCHANGED <<Text, contexts>>
  BY DEF NewStats
<1>2. CASE OutOfMemory(0)
  BY <1>2, RestartIInv DEF OutOfMemory
<1>3. CASE r.ptr # NULL /\ heap' = r.heap
           /\ stats' = [stats EXCEPT ![0] = @ \cup {r.ptr}]
           /\ appended' = FALSE /\ UNCHANGED <<Text, contexts>>
  <2> DEFINE new == Units(r.ptr, I2U(0))
  <2>1. Served(heap, r, I2U(0)) /\ 0 \in Indexes
    BY BeforeStep, UnitsAllocated, LastIndexIs
  <2>2. r.ptr \in Int /\ Sound(r.heap) /\ Text < r.heap.UnitsStart
    BY <1>3, <2>1 DEF Served
  <2>3. /\ new \cap Taken = {}
        /\ (Taken \cup new) \cap Space(r.heap) = {}
        /\ (Taken \cup new) \cup Space(r.heap) = Arena(r.heap)
    BY <1>3, <2>1, ServedApart
  <2>4. new \cap Covered(stats) = {} /\ new \cap contexts = {}
    BY <2>3, BeforeStep
  <2>5. /\ stats' \in Families /\ ListsApart(stats')
        /\ Covered(stats') = Covered(stats) \cup new
    BY <1>3, <2>1, <2>2, <2>4, BeforeStep, ListsInsert
  <2> HIDE DEF new
  <2>6. Taken' = Taken \cup new
    BY <1>3, <2>5 DEF Taken
  <2>7. SharesInv'
    BY <1>3, <2>3, <2>6 DEF SharesInv
  <2>8. HeldInv'
    BY <1>3, <2>4, <2>5, BeforeStep DEF HeldInv
  <2>9. TextInv'
    BY <1>3, <2>2, TextStays
  <2> QED BY <1>3, <2>2, <2>7, <2>8, <2>9 DEF IInv
<1> QED BY <1>1, <1>2, <1>3

\* An array of states in use: what is left of the states without it.
LEMMA OldStats ==
    ASSUME IInv, NEW i \in Indexes, NEW oldPtr \in stats[i]
    PROVE  LET less == [stats EXCEPT ![i] = @ \ {oldPtr}]
               old == Units(oldPtr, I2U(i))
           IN  /\ oldPtr \in Int /\ FreshUnits(heap, old) /\ old \subseteq Taken
               /\ less \in Families /\ ListsApart(less)
               /\ Covered(less) \cap old = {} /\ Covered(less) \cup old = Covered(stats)
               /\ old \cap contexts = {}
<1> DEFINE less == [stats EXCEPT ![i] = @ \ {oldPtr}]
           old == Units(oldPtr, I2U(i))
<1>1. /\ less \in Families /\ ListsApart(less)
      /\ Covered(less) = Covered(stats) \ old /\ old \subseteq Covered(stats)
  BY BeforeStep, ListsRemove
<1>2. oldPtr \in Int
  BY BeforeStep DEF Families
<1> HIDE DEF less, old
<1>3. Covered(less) \cap old = {} /\ Covered(less) \cup old = Covered(stats)
  BY <1>1
<1>4. old \subseteq Taken /\ old \cap contexts = {}
  BY <1>1, BeforeStep
<1>5. FreshUnits(heap, old)
  BY <1>4, BeforeStep DEF FreshUnits
<1> QED BY <1>1, <1>2, <1>3, <1>4, <1>5 DEF less, old

\* UpdateModel keeps it when the array has to be moved to a larger block.
LEMMA ExpandStatsStep ==
    ASSUME IInv, ExpandStats PROVE IInv'
<1>1. PICK i \in Indexes \ {LastIndex} : \E oldPtr \in stats[i], r \in AllocUnits(heap, i + 1) :
          \/ r.ptr = NULL /\ OutOfMemory(i + 1)
          \/ /\ r.ptr # NULL /\ heap' = InsertNode(r.heap, oldPtr, i)
             /\ stats' = [stats EXCEPT ![i] = @ \ {oldPtr}, ![i + 1] = @ \cup {r.ptr}]
             /\ appended' = FALSE /\ UNCHANGED <<Text, contexts>>
  BY DEF ExpandStats
<1>2. PICK oldPtr \in stats[i], r \in AllocUnits(heap, i + 1) :
          \/ r.ptr = NULL /\ OutOfMemory(i + 1)
          \/ /\ r.ptr # NULL /\ heap' = InsertNode(r.heap, oldPtr, i)
             /\ stats' = [stats EXCEPT ![i] = @ \ {oldPtr}, ![i + 1] = @ \cup {r.ptr}]
             /\ appended' = FALSE /\ UNCHANGED <<Text, contexts>>
  BY <1>1
<1>3. CASE OutOfMemory(i + 1)
  BY <1>3, RestartIInv DEF OutOfMemory
<1>4. CASE r.ptr # NULL /\ heap' = InsertNode(r.heap, oldPtr, i)
           /\ stats' = [stats EXCEPT ![i] = @ \ {oldPtr}, ![i + 1] = @ \cup {r.ptr}]
           /\ appended' = FALSE /\ UNCHANGED <<Text, contexts>>
  <2> DEFINE new == Units(r.ptr, I2U(i + 1))
             old == Units(oldPtr, I2U(i))
             less == [stats EXCEPT ![i] = @ \ {oldPtr}]
  <2>1. i + 1 \in Indexes
    <3>1. i \in Nat /\ LastIndex \in Nat /\ i <= LastIndex /\ i # LastIndex
      BY LastIndexIs
    <3>2. i + 1 \in Nat /\ i + 1 <= LastIndex
      BY <3>1
    <3> QED BY <3>2, LastIndexIs
  <2>2. Served(heap, r, I2U(i + 1))
    BY <2>1, BeforeStep, UnitsAllocated
  <2>3. r.ptr \in Int /\ Sound(r.heap) /\ Text < r.heap.UnitsStart
    BY <1>4, <2>2 DEF Served
  <2>4. /\ new \cap Taken = {} /\ (Taken \cup new) \cap Space(r.heap) = {}
        /\ (Taken \cup new) \cup Space(r.heap) = Arena(r.heap)
        /\ Taken \subseteq Arena(r.heap)
    BY <1>4, <2>2, ServedApart
  <2>5. /\ oldPtr \in Int /\ old \subseteq Taken /\ less \in Families /\ ListsApart(less)
        /\ Covered(less) \cap old = {} /\ Covered(less) \cup old = Covered(stats)
        /\ old \cap contexts = {}
    BY OldStats
  <2>6. stats' = [less EXCEPT ![i + 1] = @ \cup {r.ptr}]
    <3>1. i # i + 1
      BY LastIndexIs
    <3>2. less[i + 1] = stats[i + 1]
      BY <2>1, <3>1, BeforeStep DEF Families
    <3> QED BY <1>4, <3>2
  <2> HIDE DEF less
  <2>7. FreshUnits(r.heap, old)
    BY <2>4, <2>5 DEF FreshUnits
  <2>8. Gained(r.heap, heap', old)
    BY <1>4, <2>3, <2>5, <2>7, NodeInserted
  <2>9. new \cap Covered(less) = {} /\ new \cap contexts = {}
    BY <2>4, <2>5, BeforeStep
  <2>10. /\ stats' \in Families /\ ListsApart(stats')
         /\ Covered(stats') = Covered(less) \cup new
    BY <2>1, <2>3, <2>5, <2>6, <2>9, ListsInsert
  <2> HIDE DEF new, old
  <2>11. /\ Sound(heap') /\ Arena(heap') = Arena(r.heap)
         /\ (heap').UnitsStart = r.heap.UnitsStart
         /\ Space(heap') = Space(r.heap) \cup old
    BY <2>8 DEF Gained
  <2>12. Taken' = contexts \cup Covered(less) \cup new
    BY <1>4, <2>10 DEF Taken
  <2>13. Taken = contexts \cup Covered(less) \cup old
    BY <2>5 DEF Taken
  <2>14. SharesInv'
    <3>1. Taken' \cap Space(heap') = {}
      BY <2>4, <2>5, <2>11, <2>12, <2>13
    <3>2. Taken' \cup Space(heap') = Arena(heap')
      BY <2>4, <2>11, <2>12, <2>13
    <3> QED BY <3>1, <3>2 DEF SharesInv
  <2>15. HeldInv'
    <3>1. contexts' \cap Covered(stats') = {}
      BY <1>4, <2>5, <2>9, <2>10, BeforeStep
    <3> QED BY <1>4, <2>10, <3>1, BeforeStep DEF HeldInv
  <2>16. TextInv'
    BY <1>4, <2>3, <2>11, TextStays
  <2> QED BY <2>11, <2>14, <2>15, <2>16 DEF IInv
<1> QED BY <1>2, <1>3, <1>4

\* Rescale keeps it when ShrinkUnits moves or splits an array.
LEMMA ShrinkStatsStep ==
    ASSUME IInv, ShrinkStats PROVE IInv'
<1>1. PICK i0 \in Indexes : \E i1 \in 0..i0 - 1, oldPtr \in stats[i0] :
          \E r \in ShrinkUnits(heap, oldPtr, i0, i1) :
              /\ heap' = r.heap
              /\ stats' = [stats EXCEPT ![i0] = @ \ {oldPtr}, ![i1] = @ \cup {r.ptr}]
              /\ appended' = FALSE /\ UNCHANGED <<Text, contexts>>
  BY DEF ShrinkStats
<1>2. PICK i1 \in 0..i0 - 1, oldPtr \in stats[i0] :
          \E r \in ShrinkUnits(heap, oldPtr, i0, i1) :
              /\ heap' = r.heap
              /\ stats' = [stats EXCEPT ![i0] = @ \ {oldPtr}, ![i1] = @ \cup {r.ptr}]
              /\ appended' = FALSE /\ UNCHANGED <<Text, contexts>>
  BY <1>1
<1>3. PICK r \in ShrinkUnits(heap, oldPtr, i0, i1) :
              /\ heap' = r.heap
              /\ stats' = [stats EXCEPT ![i0] = @ \ {oldPtr}, ![i1] = @ \cup {r.ptr}]
              /\ appended' = FALSE /\ UNCHANGED <<Text, contexts>>
  BY <1>2
<1> DEFINE new == Units(r.ptr, I2U(i1))
           old == Units(oldPtr, I2U(i0))
           less == [stats EXCEPT ![i0] = @ \ {oldPtr}]
<1>4. i1 \in Indexes /\ i1 < i0
  <2>1. i0 \in Nat /\ i0 <= LastIndex /\ LastIndex \in Nat
    BY LastIndexIs
  <2>2. i1 \in Nat /\ i1 < i0 /\ i1 <= LastIndex
    BY <2>1
  <2> QED BY <2>2, LastIndexIs
<1>5. /\ oldPtr \in Int /\ FreshUnits(heap, old) /\ old \subseteq Taken
      /\ less \in Families /\ ListsApart(less)
      /\ Covered(less) \cap old = {} /\ Covered(less) \cup old = Covered(stats)
      /\ old \cap contexts = {}
  BY OldStats
<1>6. /\ Sound(r.heap) /\ Arena(r.heap) = Arena(heap)
      /\ r.heap.UnitsStart = heap.UnitsStart /\ r.ptr \in Int
      /\ new \cap Space(r.heap) = {}
      /\ new \cup Space(r.heap) = Space(heap) \cup old
  BY <1>4, <1>5, BeforeStep, UnitsShrunk
<1>7. stats' = [less EXCEPT ![i1] = @ \cup {r.ptr}]
  <2>1. i0 # i1
    BY <1>4, LastIndexIs
  <2>2. less[i1] = stats[i1]
    BY <1>4, <2>1, BeforeStep DEF Families
  <2> QED BY <1>3, <2>2
<1> HIDE DEF less
<1>8. new \cap Covered(less) = {} /\ new \cap contexts = {}
  <2>1. Covered(less) \cap Space(heap) = {} /\ contexts \cap Space(heap) = {}
    BY <1>5, BeforeStep
  <2> QED BY <1>5, <1>6, <2>1
<1>9. /\ stats' \in Families /\ ListsApart(stats')
      /\ Covered(stats') = Covered(less) \cup new
  BY <1>4, <1>5, <1>6, <1>7, <1>8, ListsInsert
<1> HIDE DEF new, old
<1>10. Taken' = contexts \cup Covered(less) \cup new
  BY <1>3, <1>9 DEF Taken
<1>11. Taken = contexts \cup Covered(less) \cup old
  BY <1>5 DEF Taken
<1>12. SharesInv'
  <2>1. Taken \cap Space(heap) = {} /\ Taken \cup Space(heap) = Arena(heap)
    BY BeforeStep
  <2>2. Taken' \cap Space(r.heap) = {}
    BY <1>5, <1>6, <1>10, <1>11, <2>1
  <2>3. Taken' \cup Space(r.heap) = Arena(heap)
    BY <1>6, <1>10, <1>11, <2>1
  <2> QED BY <1>3, <1>6, <2>2, <2>3 DEF SharesInv
<1>13. HeldInv'
  <2>1. contexts' \cap Covered(stats') = {}
    BY <1>3, <1>5, <1>8, <1>9, BeforeStep
  <2> QED BY <1>3, <1>9, <2>1, BeforeStep DEF HeldInv
<1>14. TextInv'
  <2>1. Text < (heap').UnitsStart
    BY <1>3, <1>6, BeforeStep
  <2> QED BY <1>3, <2>1, TextStays
<1> QED BY <1>3, <1>6, <1>12, <1>13, <1>14 DEF IInv

\* Rescale keeps it when the array of a context with one symbol left is freed.
LEMMA FreeStatsStep ==
    ASSUME IInv, FreeStats PROVE IInv'
<1>1. PICK i \in Indexes : \E oldPtr \in stats[i] :
          /\ heap' = InsertNode(heap, oldPtr, i)
          /\ stats' = [stats EXCEPT ![i] = @ \ {oldPtr}]
          /\ appended' = FALSE /\ UNCHANGED <<Text, contexts>>
  BY DEF FreeStats
<1>2. PICK oldPtr \in stats[i] :
          /\ heap' = InsertNode(heap, oldPtr, i)
          /\ stats' = [stats EXCEPT ![i] = @ \ {oldPtr}]
          /\ appended' = FALSE /\ UNCHANGED <<Text, contexts>>
  BY <1>1
<1> DEFINE old == Units(oldPtr, I2U(i))
<1>3. /\ oldPtr \in Int /\ FreshUnits(heap, old) /\ old \subseteq Taken
      /\ stats' \in Families /\ ListsApart(stats')
      /\ Covered(stats') \cap old = {} /\ Covered(stats') \cup old = Covered(stats)
      /\ old \cap contexts = {}
  BY <1>2, OldStats
<1>4. Gained(heap, heap', old)
  BY <1>2, <1>3, BeforeStep, NodeInserted
<1> HIDE DEF old
<1>5. /\ Sound(heap') /\ Arena(heap') = Arena(heap)
      /\ (heap').UnitsStart = heap.UnitsStart
      /\ Space(heap') = Space(heap) \cup old
  BY <1>4 DEF Gained
<1>6. Taken' = contexts \cup Covered(stats') /\ Taken = contexts \cup Covered(stats') \cup old
  BY <1>2, <1>3 DEF Taken
<1>7. SharesInv'
  <2>1. Taken \cap Space(heap) = {} /\ Taken \cup Space(heap) = Arena(heap)
    BY BeforeStep
  <2>2. Taken' \cap Space(heap') = {}
    BY <1>3, <1>5, <1>6, <2>1
  <2>3. Taken' \cup Space(heap') = Arena(heap')
    BY <1>5, <1>6, <2>1
  <2> QED BY <2>2, <2>3 DEF SharesInv
<1>8. HeldInv'
  <2>1. contexts' \cap Covered(stats') = {}
    BY <1>2, <1>3, BeforeStep
  <2> QED BY <1>2, <1>3, <2>1, BeforeStep DEF HeldInv
<1>9. TextInv'
  <2>1. Text < (heap').UnitsStart
    BY <1>5, BeforeStep
  <2> QED BY <1>2, <2>1, TextStays
<1> QED BY <1>5, <1>7, <1>8, <1>9 DEF IInv

\* IInv is inductive.
LEMMA NextIInv ==
    ASSUME IInv, [Next]_vars PROVE IInv'
<1>1. CASE AppendText \/ RetractText
  BY <1>1, TextMoves
<1>2. CASE NewContext
  BY <1>2, NewContextStep
<1>3. CASE NewStats
  BY <1>3, NewStatsStep
<1>4. CASE ExpandStats
  BY <1>4, ExpandStatsStep
<1>5. CASE ShrinkStats
  BY <1>5, ShrinkStatsStep
<1>6. CASE FreeStats
  BY <1>6, FreeStatsStep
<1>7. CASE UNCHANGED vars
  <2>1. /\ heap' = heap /\ Text' = Text /\ appended' = appended
        /\ contexts' = contexts /\ stats' = stats
    BY <1>7 DEF vars, client
  <2>2. Taken' = Taken
    BY <2>1 DEF Taken
  <2> QED BY <2>1, <2>2 DEF IInv, HeldInv, SharesInv, TextInv
<1> QED BY <1>1, <1>2, <1>3, <1>4, <1>5, <1>6, <1>7 DEF Next

\* The memory is always shared out as IInv says.
THEOREM IInvAlways == Spec => []IInv
<1>1. Init => IInv
  BY InitIInv
<1>2. IInv /\ [Next]_vars => IInv'
  BY NextIInv
<1> QED BY <1>1, <1>2, PTL DEF Spec

-------------------------------------------------------------------------------
(***************************************************************************)
(* The invariants of SubAllocator.tla.                                     *)
(***************************************************************************)

\* The nodes of lists in the arena are addresses in it.
LEMMA NodesInArena ==
    ASSUME Sound(heap), NEW lists \in Families, Covered(lists) \subseteq Arena(heap)
    PROVE  lists \in [Indexes -> SUBSET (AlignOffset..ArenaEnd - 1)]
<1>1. heap \in HeapTypes /\ Bounds(heap)
  BY DEF Sound
<1>2. ASSUME NEW i \in Indexes, NEW at \in lists[i]
      PROVE  at \in AlignOffset..ArenaEnd - 1
  <2>1. at \in Covered(lists)
    BY NodesAreUnits
  <2> QED BY <1>1, <2>1, ArenaBetween
<1> QED BY <1>2 DEF Families

\* A request that cannot be served is of a size there is, and gluing has not
\* helped.
LEMMA FailedIs ==
    ASSUME IInv, Next
    PROVE  \/ failed' = -1
           \/ failed' \in Indexes /\ GluedInVain(heap, failed')
<1>1. CASE NewContext
  <2>1. PICK r \in AllocContext(heap) :
            failed' = -1 \/ (r.ptr = NULL /\ failed' = 0)
    BY <1>1 DEF NewContext, OutOfMemory
  <2>2. r.ptr = NULL => GluedInVain(heap, 0)
    BY BeforeStep, ContextAllocated
  <2>3. 0 \in Indexes
    BY LastIndexIs
  <2> QED BY <2>1, <2>2, <2>3
<1>2. CASE NewStats
  <2>1. PICK r \in AllocUnits(heap, 0) :
            failed' = -1 \/ (r.ptr = NULL /\ failed' = 0)
    BY <1>2 DEF NewStats, OutOfMemory
  <2>2. 0 \in Indexes
    BY LastIndexIs
  <2>3. r.ptr = NULL => GluedInVain(heap, 0)
    BY <2>2, BeforeStep, UnitsAllocated
  <2> QED BY <2>1, <2>2, <2>3
<1>3. CASE ExpandStats
  <2>1. PICK i \in Indexes \ {LastIndex} : \E r \in AllocUnits(heap, i + 1) :
            failed' = -1 \/ (r.ptr = NULL /\ failed' = i + 1)
    BY <1>3 DEF ExpandStats, OutOfMemory
  <2>2. i + 1 \in Indexes
    <3>1. i \in Nat /\ LastIndex \in Nat /\ i <= LastIndex /\ i # LastIndex
      BY LastIndexIs
    <3>2. i + 1 \in Nat /\ i + 1 <= LastIndex
      BY <3>1
    <3> QED BY <3>2, LastIndexIs
  <2>3. \A r \in AllocUnits(heap, i + 1) : r.ptr = NULL => GluedInVain(heap, i + 1)
    BY <2>2, BeforeStep, UnitsAllocated
  <2> QED BY <2>1, <2>2, <2>3
<1>4. CASE AppendText \/ RetractText \/ ShrinkStats \/ FreeStats
  BY <1>4 DEF AppendText, RetractText, ShrinkStats, FreeStats
<1> QED BY <1>1, <1>2, <1>3, <1>4 DEF Next

\* failed names the list index of the allocation that began the model anew.
LEMMA FailedAlways == Spec => [](failed \in Indexes \cup {-1})
<1>1. Init => failed \in Indexes \cup {-1}
  BY DEF Init
<1>2. IInv /\ failed \in Indexes \cup {-1} /\ [Next]_vars
      => (failed \in Indexes \cup {-1})'
  BY FailedIs DEF vars
<1> QED BY <1>1, <1>2, IInvAlways, PTL DEF Spec

\* The pointers of the allocator keep their order and their bounds, and
\* everything on its lists and in use lies in the arena.
THEOREM TypesAlways == Spec => []TypeOK
<1>1. ASSUME IInv, failed \in Indexes \cup {-1} PROVE TypeOK
  <2>1. /\ heap \in HeapTypes /\ Bounds(heap) /\ heap.GlueCount \in 0..GlueReset
        /\ heap.FreeList \in Families /\ stats \in Families
        /\ Covered(heap.FreeList) \subseteq Arena(heap)
        /\ Covered(stats) \subseteq Arena(heap) /\ contexts \subseteq Arena(heap)
    BY <1>1, BeforeStep DEF Sound, HeapTypes, Space
  <2>2. /\ heap.FreeList \in [Indexes -> SUBSET (AlignOffset..ArenaEnd - 1)]
        /\ stats \in [Indexes -> SUBSET (AlignOffset..ArenaEnd - 1)]
    BY <1>1, <2>1, BeforeStep, NodesInArena
  <2>3. contexts \subseteq AlignOffset..ArenaEnd - 1
    BY <2>1, ArenaBetween
  <2>4. /\ heap.UnitsStart \in Int /\ heap.LoUnit \in Int /\ heap.HiUnit \in Int
        /\ AlignOffset \in Int /\ ArenaEnd \in Int
        /\ AlignOffset <= heap.UnitsStart /\ heap.UnitsStart <= heap.LoUnit
        /\ heap.HiUnit <= ArenaEnd
    BY <2>1, ArenaEndIs DEF HeapTypes, Bounds
  <2>5. heap.LoUnit <= heap.HiUnit
    <3> DEFINE c == U2B(GapSize(heap))
    <3>1. c \in Nat /\ heap.HiUnit = heap.LoUnit + c
      BY <2>1, BytesOfUnits DEF Bounds
    <3> HIDE DEF c
    <3> QED BY <2>4, <3>1
  <2>6. /\ heap.UnitsStart \in AlignOffset..ArenaEnd
        /\ heap.LoUnit \in heap.UnitsStart..heap.HiUnit
    BY <2>4, <2>5
  <2>7. Text \in Int /\ AlignOffset <= Text /\ Text < heap.UnitsStart
    BY <1>1, BeforeStep
  <2>8. Text \in AlignOffset..ArenaEnd
    BY <2>4, <2>6, <2>7
  <2>9. appended \in BOOLEAN
    BY <1>1 DEF IInv, TextInv
  <2> QED BY <1>1, <2>1, <2>2, <2>3, <2>4, <2>6, <2>8, <2>9 DEF TypeOK
<1> QED BY <1>1, IInvAlways, FailedAlways, PTL

\* The text never reaches the units, although both move.
THEOREM TextAlwaysApart == Spec => []TextApart
<1>1. IInv => TextApart
  BY DEF IInv, TextInv, TextApart
<1> QED BY <1>1, IInvAlways, PTL

\* No unit above UnitsStart is lost or has two owners: neither what the context
\* model holds nor what waits to be handed out is ever in anything else.
THEOREM PartitionAlways == Spec => []Partition
<1>1. ASSUME IInv PROVE Partition
  <2> DEFINE S == Lists("stats", stats)
             F == Lists("free", heap.FreeList)
             C == {[owner |-> "context", at |-> at, nu |-> 1] : at \in contexts}
  <2>1. /\ ListsApart(stats) /\ ListsApart(heap.FreeList)
        /\ contexts \subseteq Int /\ contexts \cap Covered(stats) = {}
        /\ (contexts \cup Covered(stats)) \cap Space(heap) = {}
        /\ contexts \cup Covered(stats) \cup Space(heap) = Arena(heap)
        /\ Space(heap) = Covered(heap.FreeList) \cup GapUnits(heap)
        /\ Covered(heap.FreeList) \cap GapUnits(heap) = {}
    BY <1>1, BeforeStep DEF Sound, Space
  <2>2. /\ \A b, c \in S : b # c => UnitsOf(b) \cap UnitsOf(c) = {}
        /\ UNION {UnitsOf(b) : b \in S} = Covered(stats)
    BY <2>1, ListsBlocks
  <2>3. /\ \A b, c \in F : b # c => UnitsOf(b) \cap UnitsOf(c) = {}
        /\ UNION {UnitsOf(b) : b \in F} = Covered(heap.FreeList)
    BY <2>1, ListsBlocks
  <2>4. /\ \A b, c \in C : b # c => UnitsOf(b) \cap UnitsOf(c) = {}
        /\ UNION {UnitsOf(b) : b \in C} = contexts
    <3>1. ASSUME NEW b \in C
          PROVE  \E at \in contexts :
                     b = [owner |-> "context", at |-> at, nu |-> 1] /\ UnitsOf(b) = {at}
      <4>1. PICK at \in contexts : b = [owner |-> "context", at |-> at, nu |-> 1]
        OBVIOUS
      <4>2. at \in Int /\ b.at = at /\ b.nu = 1
        BY <2>1, <4>1
      <4>3. UnitsOf(b) = {at}
        BY <4>2, UnitsOne DEF UnitsOf
      <4> QED BY <4>1, <4>3
    <3>2. ASSUME NEW at \in contexts PROVE \E b \in C : UnitsOf(b) = {at}
      <4> DEFINE b == [owner |-> "context", at |-> at, nu |-> 1]
      <4>1. b \in C /\ b.at = at /\ b.nu = 1 /\ at \in Int
        BY <2>1
      <4> HIDE DEF b
      <4>2. UnitsOf(b) = {at}
        BY <4>1, UnitsOne DEF UnitsOf
      <4> QED BY <4>1, <4>2
    <3> HIDE DEF C
    <3>3. \A b, c \in C : b # c => UnitsOf(b) \cap UnitsOf(c) = {}
      BY <3>1
    <3>4. UNION {UnitsOf(b) : b \in C} = contexts
      BY <3>1, <3>2
    <3> QED BY <3>3, <3>4
  <2>5. UnitsOf(Gap) = GapUnits(heap)
    BY DEF UnitsOf, Gap, GapUnits, GapSize
  <2>6. AllBlocks = S \cup C \cup F \cup {Gap}
    BY DEF AllBlocks, Held
  <2>7. ArenaUnits = Arena(heap)
    BY DEF ArenaUnits, Arena, ArenaSize
  <2> HIDE DEF S, F, C
  <2>8. /\ \A b \in S : UnitsOf(b) \subseteq Covered(stats)
        /\ \A b \in F : UnitsOf(b) \subseteq Covered(heap.FreeList)
        /\ \A b \in C : UnitsOf(b) \subseteq contexts
    BY <2>2, <2>3, <2>4
  <2> DEFINE s == Covered(stats)
             f == Covered(heap.FreeList)
             g == GapUnits(heap)
  <2>9. s \cap f = {} /\ s \cap g = {} /\ contexts \cap f = {} /\ contexts \cap g = {}
        /\ contexts \cap s = {} /\ f \cap g = {}
    BY <2>1
  <2>10. UNION {UnitsOf(b) : b \in AllBlocks} = ArenaUnits
    <3>1. UNION {UnitsOf(b) : b \in AllBlocks} = s \cup contexts \cup f \cup g
      BY <2>2, <2>3, <2>4, <2>5, <2>6
    <3> QED BY <2>1, <2>7, <3>1
  <2> HIDE DEF s, f, g
  <2>11. ASSUME NEW b \in AllBlocks, NEW c \in AllBlocks, b # c
         PROVE  UnitsOf(b) \cap UnitsOf(c) = {}
    <3>1. CASE b \in S
      BY <2>2, <2>5, <2>6, <2>8, <2>9, <2>11, <3>1 DEF s, f, g
    <3>2. CASE b \in C
      BY <2>4, <2>5, <2>6, <2>8, <2>9, <2>11, <3>2 DEF s, f, g
    <3>3. CASE b \in F
      BY <2>3, <2>5, <2>6, <2>8, <2>9, <2>11, <3>3 DEF s, f, g
    <3>4. CASE b = Gap
      BY <2>5, <2>6, <2>8, <2>9, <2>11, <3>4 DEF s, f, g
    <3> QED BY <2>6, <3>1, <3>2, <3>3, <3>4
  <2> QED BY <2>10, <2>11 DEF Partition
<1> QED BY <1>1, IInvAlways, PTL

-------------------------------------------------------------------------------
(***************************************************************************)
(* What gluing is for.                                                     *)
(***************************************************************************)

\* Where the free units would serve a request, one of the runs to be glued would.
LEMMA LongRun ==
    ASSUME NEW lists \in Families, Covered(lists) \subseteq AlignOffset..ArenaEnd - 1,
           NEW kept, KeptOf(lists, kept),
           NEW nu \in 1..MaxUnits,
           NEW unit \in Covered(lists), Units(unit, nu) \subseteq Covered(lists)
    PROVE  \E x \in kept : Extent(x, kept, Covered(lists)) >= nu
<1> DEFINE units == Covered(lists)
           ext(x) == Extent(x, kept, units)
<1>1. /\ kept \in SUBSET units
      /\ \A i \in Indexes : \A node \in lists[i] :
             node - UNIT_SIZE \notin units => node \in kept
      /\ \A x \in kept : x + U2B(ext(x)) \in kept =>
             ext(x) + ext(x + U2B(ext(x))) >= MaxNU
  BY DEF KeptOf
<1>2. UNION {Units(x, ext(x)) : x \in kept} = units
  <2> DEFINE extent == [x \in kept |-> ext(x)]
  <2>1. extent \in [kept -> Nat \ {0}] /\ AreRuns(units, kept, extent)
    <3> HIDE DEF units
    <3>1. units \in SUBSET (AlignOffset..ArenaEnd - 1) /\ kept \in SUBSET units
      BY <1>1 DEF units
    <3>2. ASSUME NEW x \in kept
          PROVE  /\ ext(x) \in Nat \ {0} /\ RunEnds(x, kept, units, ext(x))
                 /\ \A m \in 1..ext(x) - 1 : x + U2B(m) \in units \ kept
      BY <3>1, ExtentIs
    <3> QED BY <3>2 DEF AreRuns
  <2>2. \A x \in kept : extent[x] = ext(x)
    OBVIOUS
  <2> HIDE DEF extent
  <2>3. UNION {Units(x, extent[x]) : x \in kept} = units
    BY <1>1, <2>1, RunsCover
  <2> QED BY <2>2, <2>3
<1>3. PICK x \in kept : unit \in Units(x, ext(x))
  BY <1>2
<1>4. ASSUME NEW y \in kept
      PROVE  y \in Int /\ ext(y) \in Nat \ {0} /\ RunEnds(y, kept, units, ext(y))
  BY <1>1, ExtentIs
<1> DEFINE n == ext(x)
           next == x + U2B(n)
<1>5. PICK d \in 0..n - 1 : unit = x + U2B(d)
  BY <1>3 DEF Units
<1>6. nu \in Nat /\ n \in Nat /\ d \in Nat /\ d < n /\ x \in Int /\ MaxUnits \in Nat
      /\ nu <= MaxUnits /\ unit \in Int
  BY <1>4, MaxUnitsIs
<1>7. CASE d + nu <= n
  <2>1. ext(x) >= nu
    BY <1>6, <1>7
  <2> QED BY <2>1
<1>8. CASE ~(d + nu <= n)
  <2> DEFINE e == n - d
  <2>1. e \in 0..nu - 1 /\ e \in Int /\ d \in Int /\ n = d + e
    BY <1>6, <1>8
  <2> HIDE DEF e, n
  <2>2. U2B(d + e) = U2B(d) + U2B(e) /\ U2B(d) \in Int /\ U2B(e) \in Int
    BY <2>1, BytesOfUnits
  <2>3. next = unit + U2B(e)
    BY <1>5, <1>6, <2>1, <2>2
  <2>4. next \in units
    BY <2>1, <2>3 DEF Units
  <2>5. next \in kept
    BY <1>4, <2>4 DEF RunEnds, n
  <2>6. n + ext(next) >= MaxNU
    BY <1>1, <2>5 DEF n
  <2>7. ext(next) \in Nat
    BY <1>4, <2>5
  <2>8. MaxNU \in Nat /\ MaxNU >= 2 * MaxUnits
    BY GlueAssumption
  <2> DEFINE m == ext(next)
  <2>9. n + m >= MaxNU /\ m \in Nat
    BY <2>6, <2>7
  <2> HIDE DEF m, next
  <2>10. n >= nu \/ m >= nu
    BY <1>6, <2>8, <2>9
  <2> QED BY <2>5, <2>10 DEF m, n
<1> QED BY <1>7, <1>8

\* When a gluing found nothing for a list index, no free units in a row are
\* as many as its size.
LEMMA VainMeansNone ==
    ASSUME NEW h, Sound(h), h.GlueCount = 0, NEW indx \in Indexes, GluedInVain(h, indx),
           NEW unit \in FreeUnits(h), Units(unit, I2U(indx)) \subseteq FreeUnits(h)
    PROVE  FALSE
<1>1. PICK g \in GlueFreeBlocks(h) :
          \A i \in Indexes : indx <= i => g.FreeList[i] = {}
  BY DEF GluedInVain
<1>2. PICK kept : GluedTo(h, g, kept)
  BY GluedIs
<1> DEFINE units == Covered(h.FreeList)
           ext(x) == Extent(x, kept, units)
           lists == RunsLists(kept, [x \in kept |-> ext(x)])
<1>3. h \in HeapTypes /\ h.FreeList \in Families /\ Bounds(h) /\ Space(h) \subseteq Arena(h)
  BY DEF Sound, HeapTypes
<1>4. FreeUnits(h) = units
  BY DEF FreeUnits, Covered
<1> HIDE DEF units
<1>5. units \in SUBSET (AlignOffset..ArenaEnd - 1)
  <2>1. units \subseteq Arena(h)
    BY <1>3 DEF units, Space
  <2> QED BY <1>3, <2>1, ArenaBetween
<1>6. I2U(indx) \in 1..MaxUnits /\ KeptOf(h.FreeList, kept)
  BY <1>2, SizesGrow, MaxUnitsIs DEF GluedTo
<1>7. PICK x \in kept : ext(x) >= I2U(indx)
  BY <1>3, <1>4, <1>5, <1>6, LongRun DEF units
<1>8. ext(x) \in Nat \ {0} /\ x \in kept
  <2>1. kept \in SUBSET units
    BY <1>6 DEF KeptOf, units
  <2> QED BY <1>5, <2>1, ExtentIs
<1>9. PICK p \in Pieces(ext(x)) : p.indx \in Indexes /\ indx <= p.indx
  BY <1>6, <1>7, <1>8, RunHasPiece
<1>10. x + U2B(p.at) \in NodesOf(x, ext(x), p.indx)
  BY DEF NodesOf
<1>11. g.FreeList = lists
  BY <1>2, <1>3 DEF GluedTo, HeapTypes, units
<1>12. lists[p.indx] = UNION {NodesOf(y, ext(y), p.indx) : y \in kept}
  BY <1>9 DEF RunsLists
<1>13. x + U2B(p.at) \in lists[p.indx]
  BY <1>10, <1>12
<1> QED BY <1>1, <1>9, <1>11, <1>13

\* The model is begun anew only if gluing could not have helped: no run of free
\* units, across however many blocks, was long enough.
THEOREM GluingFindsRuns == Spec => GlueFindsRun
<1>1. IInv /\ [Next]_vars =>
          [failed' # -1 /\ heap.GlueCount = 0 =>
               \A unit \in FreeUnits(heap) :
                   ~(Units(unit, I2U(failed')) \subseteq FreeUnits(heap))]_vars
  <2> SUFFICES ASSUME IInv, Next, failed' # -1, heap.GlueCount = 0,
                      NEW unit \in FreeUnits(heap),
                      Units(unit, I2U(failed')) \subseteq FreeUnits(heap)
               PROVE  FALSE
    OBVIOUS
  <2>1. failed' \in Indexes /\ GluedInVain(heap, failed')
    BY FailedIs
  <2>2. Sound(heap)
    BY BeforeStep
  <2> QED BY <2>1, <2>2, VainMeansNone
<1> QED BY <1>1, IInvAlways, PTL DEF Spec, GlueFindsRun

-------------------------------------------------------------------------------
(***************************************************************************)
(* SubAllocator.tla implements MemoryPool.tla: what the context model      *)
(* holds never overlaps and the text does not run into it, for every size  *)
(* of the arena.  The pool is the client's view; free lists, the gap and   *)
(* gluing are not in it.                                                   *)
(***************************************************************************)

\* The blocks in use, as the pool has them.
Context(at) == [at |-> at, nu |-> 1]
Array(i, at) == [at |-> at, nu |-> I2U(i)]

HeldOf(cs, lists) ==
    {Context(at) : at \in cs}
    \cup UNION {{Array(i, at) : at \in lists[i]} : i \in Indexes}

\* What is held: a unit for each context, a block for each array of states.
LEMMA HeldBy ==
    ASSUME NEW cs, NEW lists, NEW b
    PROVE  b \in HeldOf(cs, lists) <=>
               \/ \E at \in cs : b = Context(at)
               \/ \E i \in Indexes : \E at \in lists[i] : b = Array(i, at)
  BY DEF HeldOf

\* The refinement mapping of SubAllocator.tla.
Owned(cs, lists) ==
    Lists("stats", lists) \cup {[owner |-> "context", at |-> at, nu |-> 1] : at \in cs}

\* The refinement mapping of SubAllocator.tla, by its members.
LEMMA MappedIs ==
    ASSUME NEW cs, NEW lists
    PROVE  {[at |-> b.at, nu |-> b.nu] : b \in Owned(cs, lists)} = HeldOf(cs, lists)
<1> DEFINE mapped == {[at |-> b.at, nu |-> b.nu] : b \in Owned(cs, lists)}
<1>1. ASSUME NEW x \in mapped PROVE x \in HeldOf(cs, lists)
  <2>1. PICK b \in Owned(cs, lists) : x = [at |-> b.at, nu |-> b.nu]
    OBVIOUS
  <2>2. CASE b \in Lists("stats", lists)
    <3>1. PICK i \in Indexes : \E at \in lists[i] :
              b = [owner |-> "stats", at |-> at, nu |-> I2U(i)]
      BY <2>2 DEF Lists
    <3>2. PICK at \in lists[i] : b = [owner |-> "stats", at |-> at, nu |-> I2U(i)]
      BY <3>1
    <3>3. x = Array(i, at)
      BY <2>1, <3>2 DEF Array
    <3> QED BY <3>2, <3>3, HeldBy
  <2>3. CASE b \in {[owner |-> "context", at |-> at, nu |-> 1] : at \in cs}
    <3>1. PICK at \in cs : b = [owner |-> "context", at |-> at, nu |-> 1]
      BY <2>3
    <3>2. x = Context(at)
      BY <2>1, <3>1 DEF Context
    <3> QED BY <3>2, HeldBy
  <2> QED BY <2>2, <2>3 DEF Owned
<1>2. ASSUME NEW at \in cs PROVE Context(at) \in mapped
  <2> DEFINE b == [owner |-> "context", at |-> at, nu |-> 1]
  <2>1. b \in Owned(cs, lists) /\ Context(at) = [at |-> b.at, nu |-> b.nu]
    BY DEF Owned, Context
  <2> QED BY <2>1
<1>3. ASSUME NEW i \in Indexes, NEW at \in lists[i] PROVE Array(i, at) \in mapped
  <2> DEFINE b == [owner |-> "stats", at |-> at, nu |-> I2U(i)]
  <2>1. b \in Owned(cs, lists) /\ Array(i, at) = [at |-> b.at, nu |-> b.nu]
    BY DEF Owned, Lists, Array
  <2> QED BY <2>1
<1> HIDE DEF mapped
<1>4. ASSUME NEW x \in HeldOf(cs, lists) PROVE x \in mapped
  BY <1>2, <1>3, HeldBy
<1> QED BY <1>1, <1>4 DEF mapped

\* A block put into the arrays, or taken out of them.
LEMMA HeldMore ==
    ASSUME NEW cs, NEW lists \in Families, NEW i \in Indexes, NEW at \in Int
    PROVE  HeldOf(cs, [lists EXCEPT ![i] = @ \cup {at}])
               = HeldOf(cs, lists) \cup {Array(i, at)}
<1> DEFINE more == [lists EXCEPT ![i] = @ \cup {at}]
<1>1. \A j \in Indexes : more[j] = IF j = i THEN lists[i] \cup {at} ELSE lists[j]
  BY DEF Families
<1> HIDE DEF more
<1>2. ASSUME NEW b
      PROVE  b \in HeldOf(cs, more) <=> b \in HeldOf(cs, lists) \/ b = Array(i, at)
  BY <1>1, HeldBy
<1> QED BY <1>2 DEF more

\* Releasing an array takes its block, and no other, from what is held.
LEMMA HeldLess ==
    ASSUME NEW cs, NEW lists \in Families, NEW i \in Indexes, NEW at \in lists[i]
    PROVE  HeldOf(cs, [lists EXCEPT ![i] = @ \ {at}]) \cup {Array(i, at)}
               = HeldOf(cs, lists)
<1> DEFINE less == [lists EXCEPT ![i] = @ \ {at}]
<1>1. \A j \in Indexes : less[j] = IF j = i THEN lists[i] \ {at} ELSE lists[j]
  BY DEF Families
<1> HIDE DEF less
<1>2. ASSUME NEW b
      PROVE  b \in HeldOf(cs, lists) <=> b \in HeldOf(cs, less) \/ b = Array(i, at)
  BY <1>1, HeldBy
<1> QED BY <1>2 DEF less

\* The units of what is held.
LEMMA HeldUnits ==
    ASSUME NEW cs \in SUBSET Int, NEW lists \in Families, NEW b \in HeldOf(cs, lists)
    PROVE  /\ b.at \in Int /\ b.nu \in Nat \ {0} /\ b.at \in UnitsOf(b)
           /\ UnitsOf(b) \subseteq cs \cup Covered(lists)
<1>1. CASE \E at \in cs : b = Context(at)
  <2>1. PICK at \in cs : b = Context(at)
    BY <1>1
  <2>2. b.at = at /\ b.nu = 1 /\ at \in Int
    BY <2>1 DEF Context
  <2>3. UnitsOf(b) = {at}
    BY <2>2, UnitsOne DEF UnitsOf
  <2> QED BY <2>2, <2>3
<1>2. CASE \E i \in Indexes : \E at \in lists[i] : b = Array(i, at)
  <2>1. PICK i \in Indexes : \E at \in lists[i] : b = Array(i, at)
    BY <1>2
  <2>2. PICK at \in lists[i] : b = Array(i, at)
    BY <2>1
  <2>3. b.at = at /\ b.nu = I2U(i) /\ at \in Int /\ I2U(i) \in Nat \ {0}
    BY <2>2, SizesGrow DEF Array, Families
  <2>4. UnitsOf(b) = Units(at, I2U(i)) /\ at \in Units(at, I2U(i))
    BY <2>3, FirstOfUnits DEF UnitsOf
  <2>5. UnitsOf(b) \subseteq Covered(lists)
    BY <2>4, NodesAreUnits
  <2> QED BY <2>3, <2>4, <2>5
<1>3. \/ \E at \in cs : b = Context(at)
      \/ \E i \in Indexes : \E at \in lists[i] : b = Array(i, at)
  BY DEF HeldOf
<1> QED BY <1>1, <1>2, <1>3

\* Blocks of the arena with no unit in common do not overlap in any byte.
LEMMA ApartByUnits ==
    ASSUME NEW h, h \in HeapTypes, Bounds(h),
           NEW a \in Int, NEW m \in Nat \ {0}, NEW b \in Int, NEW n \in Nat \ {0},
           Units(a, m) \subseteq Arena(h), Units(b, n) \subseteq Arena(h),
           Units(a, m) \cap Units(b, n) = {}
    PROVE  a + U2B(m) <= b \/ b + U2B(n) <= a
<1>1. a \in Units(a, m) /\ b \in Units(b, n)
  BY FirstOfUnits
<1>2. PICK j \in 0..ArenaSize(h) - 1 : a = h.UnitsStart + U2B(j)
  BY <1>1 DEF Arena, Units
<1>3. PICK k \in 0..ArenaSize(h) - 1 : b = h.UnitsStart + U2B(k)
  BY <1>1 DEF Arena, Units
<1>4. j \in Int /\ k \in Int /\ h.UnitsStart \in Int
  BY DEF Bounds, HeapTypes
<1> DEFINE start == h.UnitsStart
<1> HIDE DEF start
<1>5. ASSUME NEW x \in Int, NEW y \in Int, NEW l \in Nat \ {0}, x <= y,
             start + U2B(y) \notin Units(start + U2B(x), l)
      PROVE  (start + U2B(x)) + U2B(l) <= start + U2B(y)
  <2> DEFINE d == y - x
  <2>1. d \in Nat /\ d \in Int /\ y = x + d /\ l \in Int
    BY <1>5
  <2> HIDE DEF d
  <2>2. U2B(x + d) = U2B(x) + U2B(d) /\ U2B(x) \in Int /\ U2B(d) \in Int /\ U2B(l) \in Int
    BY <2>1, BytesOfUnits
  <2>3. start \in Int
    BY <1>4 DEF start
  <2>4. start + U2B(y) = (start + U2B(x)) + U2B(d)
    BY <2>1, <2>2, <2>3
  <2>5. d \notin 0..l - 1
    BY <1>5, <2>4 DEF Units
  <2>6. l <= d
    BY <2>1, <2>5
  <2>7. U2B(l) <= U2B(d)
    <3>1. CASE l = d
      BY <2>2, <3>1
    <3>2. CASE l < d
      <4>1. U2B(l) + UNIT_SIZE <= U2B(d) /\ UNIT_SIZE \in Nat
        BY <2>1, <3>2, BytesOfUnits, UnitSizeIs
      <4> QED BY <2>2, <4>1
    <3> QED BY <2>1, <2>6, <3>1, <3>2
  <2> DEFINE u == U2B(x)
             v == U2B(d)
             w == U2B(l)
  <2>8. u \in Int /\ v \in Int /\ w \in Int /\ w <= v
    BY <2>2, <2>7
  <2> HIDE DEF u, v, w
  <2>9. (start + u) + w <= (start + u) + v
    BY <2>3, <2>8
  <2> QED BY <2>4, <2>9 DEF u, v, w
<1>6. CASE j <= k
  <2>1. b \notin Units(a, m)
    BY <1>1
  <2> QED BY <1>2, <1>3, <1>4, <1>5, <1>6, <2>1 DEF start
<1>7. CASE k <= j
  <2>1. a \notin Units(b, n)
    BY <1>1
  <2> QED BY <1>2, <1>3, <1>4, <1>5, <1>7, <2>1 DEF start
<1> QED BY <1>4, <1>6, <1>7

\* A block of the arena that has no unit of the others has a place in the pool.
LEMMA FitsByUnits ==
    ASSUME NEW h, h \in HeapTypes, Bounds(h), Text \in Int, Text < h.UnitsStart,
           NEW b, b.at \in Int, b.nu \in Nat \ {0}, UnitsOf(b) \subseteq Arena(h),
           NEW others, \A c \in others : /\ c.at \in Int /\ c.nu \in Nat \ {0}
                                         /\ UnitsOf(c) \subseteq Arena(h)
                                         /\ UnitsOf(b) \cap UnitsOf(c) = {}
    PROVE  Pool!Fits(b, others) /\ b.at \in AlignOffset..ArenaEnd - 1
<1>1. b.at \in UnitsOf(b)
  BY FirstOfUnits DEF UnitsOf
<1>2. b.at \in Arena(h) /\ b.at \in AlignOffset..ArenaEnd - 1
  BY <1>1, ArenaBetween
<1>3. h.UnitsStart \in Int /\ ArenaSize(h) \in Nat
  BY DEF HeapTypes, Bounds
<1>4. h.UnitsStart <= b.at
  BY <1>2, <1>3, UnitsBetween DEF Arena
<1>5. Text <= b.at
  BY <1>3, <1>4
<1>6. ASSUME NEW c \in others PROVE Pool!Apart(b, c)
  <2>1. b.at + U2B(b.nu) <= c.at \/ c.at + U2B(c.nu) <= b.at
    BY ApartByUnits DEF UnitsOf
  <2> QED BY <2>1 DEF Pool!Apart, Pool!End, U2B
<1> QED BY <1>2, <1>5, <1>6 DEF Pool!Fits

-------------------------------------------------------------------------------
(***************************************************************************)
(* The steps.                                                              *)
(***************************************************************************)

Mapped == {[at |-> b.at, nu |-> b.nu] : b \in Held}

\* The mapped variable of the pool, before and after a step.
LEMMA MappedHeld ==
    /\ Mapped = HeldOf(contexts, stats)
    /\ Mapped' = HeldOf(contexts', stats')
<1>1. Held = Owned(contexts, stats) /\ Held' = Owned(contexts', stats')
  BY DEF Held, Owned
<1>2. Mapped = HeldOf(contexts, stats)
  BY <1>1, MappedIs DEF Mapped
<1>3. Mapped' = {[at |-> b.at, nu |-> b.nu] : b \in Owned(contexts', stats')}
  BY <1>1 DEF Mapped
<1> QED BY <1>2, <1>3, MappedIs

\* Blocks in use lie inside the units in use.
LEMMA HeldInArena ==
    ASSUME IInv, NEW b \in HeldOf(contexts, stats)
    PROVE  /\ b.at \in Int /\ b.nu \in Nat \ {0} /\ b.at \in UnitsOf(b)
           /\ UnitsOf(b) \subseteq Taken
  BY BeforeStep, HeldUnits

\* One block more, from memory nobody held.
LEMMA Takes ==
    ASSUME IInv, NEW g, g \in HeapTypes, Bounds(g), Text < g.UnitsStart,
           Taken \subseteq Arena(g),
           NEW at \in Int, NEW i \in Indexes,
           Units(at, I2U(i)) \subseteq Arena(g), Units(at, I2U(i)) \cap Taken = {},
           HeldOf(contexts', stats') = HeldOf(contexts, stats) \cup {Array(i, at)},
           Text' = Text
    PROVE  Pool!Take
<1> DEFINE b == Array(i, at)
           A == HeldOf(contexts, stats)
           B == HeldOf(contexts', stats')
<1>1. b.at = at /\ b.nu = I2U(i) /\ I2U(i) \in Nat \ {0} /\ b = [at |-> at, nu |-> I2U(i)]
  BY SizesGrow DEF Array
<1>2. UnitsOf(b) = Units(at, I2U(i)) /\ b.at \in UnitsOf(b)
  BY <1>1, FirstOfUnits DEF UnitsOf
<1> HIDE DEF b
<1>3. \A c \in A : /\ c.at \in Int /\ c.nu \in Nat \ {0}
                   /\ UnitsOf(c) \subseteq Arena(g) /\ UnitsOf(b) \cap UnitsOf(c) = {}
  BY <1>2, HeldInArena
<1>4. b \notin A
  BY <1>2, <1>3
<1>5. Text \in Int
  BY BeforeStep
<1>6. Pool!Fits(b, A) /\ b.at \in AlignOffset..ArenaEnd - 1
  BY <1>1, <1>2, <1>3, <1>5, FitsByUnits
<1>7. b \in Pool!Blocks
  BY <1>1, <1>6 DEF Pool!Blocks
<1>8. B = A \cup {b} /\ A = Mapped /\ B = Mapped'
  BY MappedHeld DEF b
<1> HIDE DEF A, B
<1>9. Mapped \subseteq Mapped' /\ Mapped' \ Mapped = {b}
  BY <1>4, <1>8
<1>10. \E x \in Mapped' \ Mapped :
           /\ Mapped' \ Mapped = {x} /\ x \in Pool!Blocks /\ Pool!Fits(x, Mapped)
  BY <1>6, <1>7, <1>8, <1>9
<1> QED BY <1>9, <1>10 DEF Pool!Take, Pool!New, Mapped

\* A block for another one.
LEMMA Replaces ==
    ASSUME IInv, NEW g, g \in HeapTypes, Bounds(g), Text < g.UnitsStart,
           Taken \subseteq Arena(g),
           NEW at \in Int, NEW i \in Indexes, NEW from \in Int, NEW j \in Indexes, i # j,
           NEW rest, rest \cup {Array(j, from)} = HeldOf(contexts, stats),
           HeldOf(contexts', stats') = rest \cup {Array(i, at)},
           Units(at, I2U(i)) \subseteq Arena(g),
           \A c \in rest : /\ UnitsOf(c) \cap Units(at, I2U(i)) = {}
                           /\ UnitsOf(c) \cap Units(from, I2U(j)) = {},
           \/ at = from /\ i < j
           \/ Units(at, I2U(i)) \cap Units(from, I2U(j)) = {},
           Text' = Text
    PROVE  Pool!Replace
<1> DEFINE b == Array(i, at)
           old == Array(j, from)
           A == HeldOf(contexts, stats)
           B == HeldOf(contexts', stats')
<1>1. /\ b.at = at /\ b.nu = I2U(i) /\ I2U(i) \in Nat \ {0} /\ b = [at |-> at, nu |-> I2U(i)]
      /\ old.at = from /\ old.nu = I2U(j) /\ I2U(j) \in Nat \ {0}
  BY SizesGrow DEF Array
<1>2. /\ UnitsOf(b) = Units(at, I2U(i)) /\ at \in UnitsOf(b)
      /\ UnitsOf(old) = Units(from, I2U(j)) /\ from \in UnitsOf(old)
  BY <1>1, FirstOfUnits DEF UnitsOf
<1>3. I2U(i) # I2U(j) /\ (i < j => I2U(i) <= I2U(j))
  <2>1. i < j \/ j < i
    BY LastIndexIs
  <2>2. (i < j => I2U(i) < I2U(j)) /\ (j < i => I2U(j) < I2U(i))
    BY SizesGrow
  <2> QED BY <1>1, <2>1, <2>2
<1>4. b # old
  BY <1>1, <1>3
<1> HIDE DEF b, old
<1>5. rest \subseteq A /\ old \in A
  BY DEF old
<1>6. \A c \in A : /\ c.at \in Int /\ c.nu \in Nat \ {0} /\ c.at \in UnitsOf(c)
                   /\ UnitsOf(c) \subseteq Arena(g)
  BY HeldInArena
<1>7. b \notin rest /\ old \notin rest
  BY <1>1, <1>2, <1>5, <1>6
<1>8. Text \in Int
  BY BeforeStep
<1>9. Pool!Fits(b, rest) /\ b.at \in AlignOffset..ArenaEnd - 1
  <2>1. \A c \in rest : UnitsOf(b) \cap UnitsOf(c) = {}
    BY <1>2
  <2> QED BY <1>1, <1>2, <1>5, <1>6, <1>8, <2>1, FitsByUnits
<1>10. b \in Pool!Blocks
  BY <1>1, <1>9 DEF Pool!Blocks
<1>11. (b.at = old.at /\ b.nu <= old.nu) \/ Pool!Apart(b, old)
  <2>1. CASE at = from /\ i < j
    BY <1>1, <1>3, <2>1
  <2>2. CASE Units(at, I2U(i)) \cap Units(from, I2U(j)) = {}
    <3>1. \A c \in {old} : /\ c.at \in Int /\ c.nu \in Nat \ {0}
                           /\ UnitsOf(c) \subseteq Arena(g)
                           /\ UnitsOf(b) \cap UnitsOf(c) = {}
      BY <1>2, <1>5, <1>6, <2>2
    <3>2. Pool!Fits(b, {old})
      BY <1>1, <1>2, <1>8, <3>1, FitsByUnits
    <3> QED BY <3>2 DEF Pool!Fits
  <2> QED BY <2>1, <2>2
<1>12. A = rest \cup {old} /\ B = rest \cup {b} /\ A = Mapped /\ B = Mapped'
  BY MappedHeld DEF b, old
<1> HIDE DEF A, B
<1>13. /\ Mapped' \ Mapped = {b} /\ Mapped \ Mapped' = {old} /\ Mapped \ {old} = rest
  BY <1>4, <1>7, <1>12
<1>14. \E x \in Mapped' \ Mapped, y \in Mapped \ Mapped' :
           /\ Mapped' \ Mapped = {x} /\ Mapped \ Mapped' = {y} /\ x \in Pool!Blocks
           /\ Pool!Fits(x, Mapped \ {y})
           /\ \/ x.at = y.at /\ x.nu <= y.nu
              \/ Pool!Apart(x, y)
  BY <1>9, <1>10, <1>11, <1>13
<1> QED BY <1>14 DEF Pool!Replace, Pool!New, Pool!Old, Mapped

\* After RestartModel the root context and its 256 states are held.
LEMMA RootHeld ==
    HeldOf({RootContext}, RootStats)
        = {[at |-> RootContext, nu |-> 1], [at |-> FirstUnit, nu |-> MaxUnits]}
<1>1. LastIndex \in Indexes /\ I2U(LastIndex) = MaxUnits
  BY LastIndexIs DEF MaxUnits
<1>2. \A i \in Indexes : RootStats[i] = IF i = LastIndex THEN {FirstUnit} ELSE {}
  BY DEF RootStats
<1>3. ASSUME NEW b
      PROVE  b \in HeldOf({RootContext}, RootStats) <=>
                 b = Context(RootContext) \/ b = Array(LastIndex, FirstUnit)
  BY <1>1, <1>2, HeldBy
<1>4. Array(LastIndex, FirstUnit) = [at |-> FirstUnit, nu |-> MaxUnits]
      /\ Context(RootContext) = [at |-> RootContext, nu |-> 1]
  BY <1>1 DEF Array, Context
<1> QED BY <1>3, <1>4

\* RestartModel is the reset of the pool.
LEMMA RestartResets == ASSUME RestartModel PROVE Pool!Reset
<1>1. Text' = AlignOffset /\ contexts' = {RootContext} /\ stats' = RootStats
  BY DEF RestartModel
<1>2. Mapped' = {[at |-> RootContext, nu |-> 1], [at |-> FirstUnit, nu |-> MaxUnits]}
  BY <1>1, RootHeld, MappedHeld
<1> QED BY <1>1, <1>2 DEF Pool!Reset, Mapped

\* A symbol written to the text area moves the text of the pool or resets it.
LEMMA TextMovesPool ==
    ASSUME IInv, AppendText \/ RetractText PROVE Pool!MoveText \/ Pool!Reset
<1>1. CASE AppendText /\ Text + 1 >= heap.UnitsStart
  <2>1. RestartModel
    BY <1>1 DEF AppendText
  <2> QED BY <2>1, RestartResets
<1>2. ASSUME Text' \in {Text - 1, Text + 1, AlignOffset}, Text' \in Int,
             Text' <= heap.UnitsStart,
             contexts' = contexts, stats' = stats
      PROVE  Pool!MoveText
  <2>1. Mapped' = Mapped
    BY <1>2, MappedHeld
  <2>2. ASSUME NEW b \in Mapped PROVE Text' <= b.at
    <3>1. b.at \in Int /\ b.at \in Taken /\ Taken \subseteq Arena(heap)
      BY MappedHeld, HeldInArena, BeforeStep
    <3>2. heap.UnitsStart \in Int /\ ArenaSize(heap) \in Nat
      BY BeforeStep DEF Sound, HeapTypes, Bounds
    <3>3. heap.UnitsStart <= b.at
      BY <3>1, <3>2, UnitsBetween DEF Arena
    <3> DEFINE t == Text'
    <3>4. t \in Int /\ t <= heap.UnitsStart
      BY <1>2
    <3> HIDE DEF t
    <3>5. t <= b.at
      BY <3>1, <3>2, <3>3, <3>4
    <3> QED BY <3>5 DEF t
  <2> QED BY <1>2, <2>1, <2>2 DEF Pool!MoveText, Mapped
<1>3. heap.UnitsStart \in Int /\ Text \in Int /\ Text < heap.UnitsStart
  BY BeforeStep DEF Sound, HeapTypes
<1>4. CASE AppendText /\ ~(Text + 1 >= heap.UnitsStart)
  <2>1. Text' = Text + 1 /\ contexts' = contexts /\ stats' = stats
    BY <1>4 DEF AppendText, client
  <2>2. Text + 1 \in Int /\ Text + 1 <= heap.UnitsStart
    BY <1>3, <1>4
  <2>3. Text' \in {Text - 1, Text + 1, AlignOffset} /\ Text' \in Int /\ Text' <= heap.UnitsStart
    BY <2>1, <2>2
  <2> QED BY <1>2, <2>1, <2>3
<1>5. CASE RetractText
  <2>1. Text' = Text - 1 /\ contexts' = contexts /\ stats' = stats
    BY <1>5 DEF RetractText, client
  <2>2. Text - 1 \in Int /\ Text - 1 <= heap.UnitsStart
    BY <1>3
  <2>3. Text' \in {Text - 1, Text + 1, AlignOffset} /\ Text' \in Int /\ Text' <= heap.UnitsStart
    BY <2>1, <2>2
  <2> QED BY <1>2, <2>1, <2>3
<1> QED BY <1>1, <1>4, <1>5

\* CreateSuccessors takes a block from the pool or resets it.
LEMMA NewContextTakes ==
    ASSUME IInv, NewContext PROVE Pool!Take \/ Pool!Reset
<1>1. PICK r \in AllocContext(heap) :
          \/ r.ptr = NULL /\ OutOfMemory(0)
          \/ /\ r.ptr # NULL /\ heap' = r.heap /\ contexts' = contexts \cup {r.ptr}
             /\ UNCHANGED <<Text, appended, stats>>
  BY DEF NewContext
<1>2. CASE OutOfMemory(0)
  BY <1>2, RestartResets DEF OutOfMemory
<1>3. CASE r.ptr # NULL /\ heap' = r.heap /\ contexts' = contexts \cup {r.ptr}
           /\ UNCHANGED <<Text, appended, stats>>
  <2>1. Served(heap, r, 1) /\ 0 \in Indexes /\ I2U(0) = 1
    BY BeforeStep, ContextAllocated, LastIndexIs, SizesGrow
  <2>2. r.ptr \in Int /\ r.heap \in HeapTypes /\ Bounds(r.heap) /\ Text < r.heap.UnitsStart
    BY <1>3, <2>1 DEF Served, Sound
  <2>3. /\ Units(r.ptr, 1) \cap Taken = {} /\ Taken \subseteq Arena(r.heap)
        /\ Units(r.ptr, 1) \subseteq Arena(r.heap)
    BY <1>3, <2>1, ServedApart
  <2>4. Array(0, r.ptr) = Context(r.ptr)
    BY <2>1 DEF Array, Context
  <2>5. ASSUME NEW b
        PROVE  b \in HeldOf(contexts', stats') <=>
                   b \in HeldOf(contexts, stats) \/ b = Array(0, r.ptr)
    <3>1. \A at : at \in contexts' <=> at \in contexts \/ at = r.ptr
      BY <1>3
    <3>2. stats' = stats
      BY <1>3
    <3> QED BY <2>4, <3>1, <3>2, HeldBy
  <2>6. HeldOf(contexts', stats') = HeldOf(contexts, stats) \cup {Array(0, r.ptr)}
    BY <2>5
  <2> QED BY <1>3, <2>1, <2>2, <2>3, <2>6, Takes
<1> QED BY <1>1, <1>2, <1>3

\* A new array of states is a block taken from the pool, or a reset.
LEMMA NewStatsTakes ==
    ASSUME IInv, NewStats PROVE Pool!Take \/ Pool!Reset
<1>1. PICK r \in AllocUnits(heap, 0) :
          \/ r.ptr = NULL /\ OutOfMemory(0)
          \/ /\ r.ptr # NULL /\ heap' = r.heap
             /\ stats' = [stats EXCEPT ![0] = @ \cup {r.ptr}]
             /\ appended' = FALSE /\ UNCHANGED <<Text, contexts>>
  BY DEF NewStats
<1>2. CASE OutOfMemory(0)
  BY <1>2, RestartResets DEF OutOfMemory
<1>3. CASE r.ptr # NULL /\ heap' = r.heap
           /\ stats' = [stats EXCEPT ![0] = @ \cup {r.ptr}]
           /\ appended' = FALSE /\ UNCHANGED <<Text, contexts>>
  <2>1. Served(heap, r, I2U(0)) /\ 0 \in Indexes
    BY BeforeStep, UnitsAllocated, LastIndexIs
  <2>2. r.ptr \in Int /\ r.heap \in HeapTypes /\ Bounds(r.heap) /\ Text < r.heap.UnitsStart
    BY <1>3, <2>1 DEF Served, Sound
  <2>3. /\ Units(r.ptr, I2U(0)) \cap Taken = {} /\ Taken \subseteq Arena(r.heap)
        /\ Units(r.ptr, I2U(0)) \subseteq Arena(r.heap)
    BY <1>3, <2>1, ServedApart
  <2>4. HeldOf(contexts', stats') = HeldOf(contexts, stats) \cup {Array(0, r.ptr)}
    <3>1. stats \in Families
      BY BeforeStep
    <3>2. HeldOf(contexts, [stats EXCEPT ![0] = @ \cup {r.ptr}])
              = HeldOf(contexts, stats) \cup {Array(0, r.ptr)}
      BY <2>1, <2>2, <3>1, HeldMore
    <3> QED BY <1>3, <3>2
  <2> QED BY <1>3, <2>1, <2>2, <2>3, <2>4, Takes
<1> QED BY <1>1, <1>2, <1>3

\* What is held but for one array of states.
LEMMA HeldBut ==
    ASSUME IInv, NEW j \in Indexes, NEW from \in stats[j]
    PROVE  LET less == [stats EXCEPT ![j] = @ \ {from}] IN
           /\ HeldOf(contexts, less) \cup {Array(j, from)} = HeldOf(contexts, stats)
           /\ \A c \in HeldOf(contexts, less) :
                  /\ UnitsOf(c) \subseteq Taken
                  /\ UnitsOf(c) \cap Units(from, I2U(j)) = {}
<1> DEFINE less == [stats EXCEPT ![j] = @ \ {from}]
           old == Units(from, I2U(j))
<1>1. stats \in Families /\ contexts \in SUBSET Int /\ Taken = contexts \cup Covered(stats)
  BY BeforeStep
<1>2. HeldOf(contexts, less) \cup {Array(j, from)} = HeldOf(contexts, stats)
  BY <1>1, HeldLess
<1>3. /\ less \in Families /\ Covered(less) \cap old = {}
      /\ Covered(less) \cup old = Covered(stats) /\ old \cap contexts = {}
  BY OldStats
<1> HIDE DEF less, old
<1>4. ASSUME NEW c \in HeldOf(contexts, less)
      PROVE  UnitsOf(c) \subseteq Taken /\ UnitsOf(c) \cap old = {}
  <2>1. UnitsOf(c) \subseteq contexts \cup Covered(less)
    BY <1>1, <1>3, HeldUnits
  <2> QED BY <1>1, <1>3, <2>1
<1> QED BY <1>2, <1>4 DEF less, old

\* An array that is moved to a larger block replaces one block by another.
LEMMA ExpandStatsReplaces ==
    ASSUME IInv, ExpandStats PROVE Pool!Replace \/ Pool!Reset
<1>1. PICK j \in Indexes \ {LastIndex} : \E from \in stats[j], r \in AllocUnits(heap, j + 1) :
          \/ r.ptr = NULL /\ OutOfMemory(j + 1)
          \/ /\ r.ptr # NULL
             /\ stats' = [stats EXCEPT ![j] = @ \ {from}, ![j + 1] = @ \cup {r.ptr}]
             /\ UNCHANGED <<Text, contexts>>
  BY DEF ExpandStats
<1>2. PICK from \in stats[j], r \in AllocUnits(heap, j + 1) :
          \/ r.ptr = NULL /\ OutOfMemory(j + 1)
          \/ /\ r.ptr # NULL
             /\ stats' = [stats EXCEPT ![j] = @ \ {from}, ![j + 1] = @ \cup {r.ptr}]
             /\ UNCHANGED <<Text, contexts>>
  BY <1>1
<1>3. CASE OutOfMemory(j + 1)
  BY <1>3, RestartResets DEF OutOfMemory
<1>4. CASE r.ptr # NULL
           /\ stats' = [stats EXCEPT ![j] = @ \ {from}, ![j + 1] = @ \cup {r.ptr}]
           /\ UNCHANGED <<Text, contexts>>
  <2> DEFINE i == j + 1
             less == [stats EXCEPT ![j] = @ \ {from}]
             new == Units(r.ptr, I2U(i))
             old == Units(from, I2U(j))
             rest == HeldOf(contexts, less)
  <2>1. i \in Indexes /\ i # j
    <3>1. j \in Nat /\ LastIndex \in Nat /\ j <= LastIndex /\ j # LastIndex
      BY LastIndexIs
    <3>2. i \in Nat /\ i <= LastIndex /\ i # j
      BY <3>1
    <3> QED BY <3>2, LastIndexIs
  <2>2. Served(heap, r, I2U(i))
    BY <2>1, BeforeStep, UnitsAllocated
  <2>3. r.ptr \in Int /\ r.heap \in HeapTypes /\ Bounds(r.heap) /\ Text < r.heap.UnitsStart
    BY <1>4, <2>2 DEF Served, Sound
  <2>4. new \cap Taken = {} /\ Taken \subseteq Arena(r.heap) /\ new \subseteq Arena(r.heap)
    BY <1>4, <2>2, ServedApart
  <2>5. from \in Int /\ old \subseteq Taken /\ less \in Families
    BY OldStats
  <2>6. /\ rest \cup {Array(j, from)} = HeldOf(contexts, stats)
        /\ \A c \in rest : UnitsOf(c) \subseteq Taken /\ UnitsOf(c) \cap old = {}
    BY HeldBut
  <2>7. stats' = [less EXCEPT ![i] = @ \cup {r.ptr}]
    <3>1. less[i] = stats[i]
      BY <2>1, BeforeStep DEF Families
    <3> QED BY <1>4, <3>1
  <2> HIDE DEF less, i
  <2>8. HeldOf(contexts', stats') = rest \cup {Array(i, r.ptr)}
    <3>1. HeldOf(contexts, [less EXCEPT ![i] = @ \cup {r.ptr}]) = rest \cup {Array(i, r.ptr)}
      <4>1. less \in Families /\ i \in Indexes /\ r.ptr \in Int
        BY <2>1, <2>3, <2>5
      <4> HIDE DEF rest
      <4>2. HeldOf(contexts, [less EXCEPT ![i] = @ \cup {r.ptr}])
                = HeldOf(contexts, less) \cup {Array(i, r.ptr)}
        BY <4>1, HeldMore
      <4> QED BY <4>2 DEF rest
    <3>2. contexts' = contexts
      BY <1>4
    <3> QED BY <2>7, <3>1, <3>2
  <2>9. new \cap old = {} /\ \A c \in rest : UnitsOf(c) \cap new = {} /\ UnitsOf(c) \cap old = {}
    BY <2>4, <2>5, <2>6
  <2> HIDE DEF rest
  <2> QED BY <1>4, <2>1, <2>3, <2>4, <2>5, <2>6, <2>8, <2>9, Replaces
<1> QED BY <1>2, <1>3, <1>4

\* ShrinkUnits replaces a block by a smaller one, which may be a part of it.
LEMMA ShrinkStatsReplaces ==
    ASSUME IInv, ShrinkStats PROVE Pool!Replace
<1>1. PICK j \in Indexes : \E i \in 0..j - 1, from \in stats[j] :
          \E r \in ShrinkUnits(heap, from, j, i) :
              /\ heap' = r.heap
              /\ stats' = [stats EXCEPT ![j] = @ \ {from}, ![i] = @ \cup {r.ptr}]
              /\ UNCHANGED <<Text, contexts>>
  BY DEF ShrinkStats
<1>a. \A i \in 0..j - 1 : i \in Indexes /\ i < j /\ i # j
  <2>1. j \in Nat /\ j <= LastIndex /\ LastIndex \in Nat
    BY LastIndexIs
  <2> QED BY <2>1, LastIndexIs
<1>2. PICK i \in Indexes, from \in stats[j] :
          \E r \in ShrinkUnits(heap, from, j, i) :
              /\ i < j /\ i # j
              /\ heap' = r.heap
              /\ stats' = [stats EXCEPT ![j] = @ \ {from}, ![i] = @ \cup {r.ptr}]
              /\ UNCHANGED <<Text, contexts>>
  BY <1>1, <1>a
<1>3. PICK r \in ShrinkUnits(heap, from, j, i) :
              /\ i < j /\ i # j
              /\ heap' = r.heap
              /\ stats' = [stats EXCEPT ![j] = @ \ {from}, ![i] = @ \cup {r.ptr}]
              /\ UNCHANGED <<Text, contexts>>
  BY <1>2
<1> DEFINE less == [stats EXCEPT ![j] = @ \ {from}]
           new == Units(r.ptr, I2U(i))
           old == Units(from, I2U(j))
           rest == HeldOf(contexts, less)
<1>4. i \in Indexes /\ i < j /\ i # j
  BY <1>3
<1>5. from \in Int /\ FreshUnits(heap, old) /\ old \subseteq Taken /\ less \in Families
  BY OldStats
<1>6. /\ heap \in HeapTypes /\ Bounds(heap) /\ Text < heap.UnitsStart
      /\ Taken \subseteq Arena(heap) /\ Taken \cap Space(heap) = {}
      /\ Space(heap) \subseteq Arena(heap) /\ Sound(heap)
  BY BeforeStep DEF Sound
<1>7. /\ r.ptr \in Int
      /\ new \cup Space(r.heap) = Space(heap) \cup old
      /\ r.ptr = from \/ new \cap old = {}
  BY <1>4, <1>5, <1>6, UnitsShrunk
<1>8. /\ rest \cup {Array(j, from)} = HeldOf(contexts, stats)
      /\ \A c \in rest : UnitsOf(c) \subseteq Taken /\ UnitsOf(c) \cap old = {}
  BY HeldBut
<1>9. stats' = [less EXCEPT ![i] = @ \cup {r.ptr}]
  <2>1. less[i] = stats[i]
    BY <1>4, BeforeStep DEF Families
  <2> QED BY <1>3, <2>1
<1> HIDE DEF less
<1>10. HeldOf(contexts', stats') = rest \cup {Array(i, r.ptr)}
  <2>0. i \in Indexes /\ r.ptr \in Int /\ less \in Families
    BY <1>4, <1>5, <1>7
  <2>1. HeldOf(contexts, [less EXCEPT ![i] = @ \cup {r.ptr}]) = rest \cup {Array(i, r.ptr)}
    BY <2>0, HeldMore
  <2> QED BY <1>3, <1>9, <2>1
<1>11. /\ \A c \in rest : UnitsOf(c) \cap new = {} /\ UnitsOf(c) \cap old = {}
       /\ new \subseteq Arena(heap)
  BY <1>5, <1>6, <1>7, <1>8
<1> HIDE DEF rest
<1>12. (r.ptr = from /\ i < j) \/ new \cap old = {}
  BY <1>4, <1>7
<1> QED BY <1>3, <1>4, <1>5, <1>6, <1>7, <1>8, <1>10, <1>11, <1>12, Replaces

\* A released array is given back to the pool.
LEMMA FreeStatsGives ==
    ASSUME IInv, FreeStats PROVE Pool!Give
<1>1. PICK j \in Indexes : \E from \in stats[j] :
          stats' = [stats EXCEPT ![j] = @ \ {from}] /\ UNCHANGED <<Text, contexts>>
  BY DEF FreeStats
<1>2. PICK from \in stats[j] :
          stats' = [stats EXCEPT ![j] = @ \ {from}] /\ UNCHANGED <<Text, contexts>>
  BY <1>1
<1>3. HeldOf(contexts, [stats EXCEPT ![j] = @ \ {from}]) \cup {Array(j, from)}
          = HeldOf(contexts, stats)
  BY HeldBut
<1>4. HeldOf(contexts', stats') \subseteq HeldOf(contexts, stats)
  BY <1>2, <1>3
<1>5. Mapped' \subseteq Mapped
  BY <1>4, MappedHeld
<1> QED BY <1>2, <1>5 DEF Pool!Give, Mapped

\* The sub-allocator of PPMd7 gives the context model what MemoryPool.tla
\* promises: each step maps to a step of the pool or leaves it alone.
THEOREM RefinesPool == Spec => ImplementsPool
<1>1. Init => Pool!Init
  <2> SUFFICES ASSUME Init PROVE Pool!Init
    OBVIOUS
  <2>1. contexts = {RootContext} /\ stats = RootStats /\ Text = AlignOffset
    BY DEF Init
  <2>2. Mapped = {[at |-> RootContext, nu |-> 1], [at |-> FirstUnit, nu |-> MaxUnits]}
    BY <2>1, RootHeld, MappedHeld
  <2> QED BY <2>1, <2>2 DEF Pool!Init, Mapped
<1>2. IInv /\ [Next]_vars => [Pool!Next]_(Pool!vars)
  <2> SUFFICES ASSUME IInv, [Next]_vars PROVE [Pool!Next]_(Pool!vars)
    OBVIOUS
  <2>1. CASE AppendText \/ RetractText
    BY <2>1, TextMovesPool DEF Pool!Next
  <2>2. CASE NewContext
    BY <2>2, NewContextTakes DEF Pool!Next
  <2>3. CASE NewStats
    BY <2>3, NewStatsTakes DEF Pool!Next
  <2>4. CASE ExpandStats
    BY <2>4, ExpandStatsReplaces DEF Pool!Next
  <2>5. CASE ShrinkStats
    BY <2>5, ShrinkStatsReplaces DEF Pool!Next
  <2>6. CASE FreeStats
    BY <2>6, FreeStatsGives DEF Pool!Next
  <2>7. CASE UNCHANGED vars
    <3>1. Text' = Text /\ contexts' = contexts /\ stats' = stats
      BY <2>7 DEF vars, client
    <3>2. Mapped' = Mapped
      BY <3>1, MappedHeld
    <3> QED BY <3>1, <3>2 DEF Pool!vars, Mapped
  <2> QED BY <2>1, <2>2, <2>3, <2>4, <2>5, <2>6, <2>7 DEF Next
<1> QED BY <1>1, <1>2, IInvAlways, PTL DEF Spec, ImplementsPool, Pool!Spec
===============================================================================
