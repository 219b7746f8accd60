----------------------------- MODULE SubAllocator -----------------------------
(***************************************************************************)
(* The memory of the PPMd7 model, lib/ppmd/Ppmd7.c.  One arena holds       *)
(*                                                                         *)
(*   Text ->             UnitsStart      LoUnit -> <- HiUnit         end   *)
(*   | text |   unused   | units ...     |   gap   |    units ...    |     *)
(*                                                                         *)
(* The text grows upwards; blocks of units are taken from free lists, one  *)
(* for each of NumIndexes sizes, from both ends of the gap, or downwards   *)
(* from UnitsStart.  When the lists have nothing to offer, adjacent free   *)
(* blocks are glued, now and then; and when that does not help the whole   *)
(* model is begun anew.                                                    *)
(*                                                                         *)
(* The record heap has the fields of CPpmd7 that keep the memory; pointers *)
(* are offsets from Base.  A free list is the set of its nodes: which of   *)
(* them is taken (in C the last one put in) is left open, and with it the  *)
(* order in which blocks are glued.                                        *)
(*                                                                         *)
(* The client is the context model, of which only the memory it holds is   *)
(* kept: contexts, of one unit, and arrays of states, of 2 states a unit.  *)
(***************************************************************************)
EXTENDS UnitSizes, FiniteSets

CONSTANTS
    MaxNU,          \* no block is glued to this many units (0x10000)
    GlueReset       \* gluings are this many failures apart (255)

VARIABLES
    heap,           \* the allocator, see Restarted
    Text,           \* where the next byte of text goes
    appended,       \* that byte can still be taken back
    contexts,       \* contexts in use
    stats,          \* arrays of states in use, by index of their size
    failed          \* history: the index that could not be served, or -1

client == <<contexts, stats>>
vars == <<heap, Text, appended, client, failed>>

ASSUME GlueAssumption ==
    /\ MaxNU \in Nat /\ MaxNU >= 2 * MaxUnits
    /\ GlueReset \in Nat \ {0}

-------------------------------------------------------------------------------
(***************************************************************************)
(* Free lists.  An allocation returns a set of possible results, pairs of  *)
(* a pointer and the heap that is left.                                    *)
(***************************************************************************)

InsertNode(h, node, i) == [h EXCEPT !.FreeList[i] = @ \cup {node}]

Result(ptr, h) == [ptr |-> ptr, heap |-> h]

RemoveNode(h, i) ==
    {Result(node, [h EXCEPT !.FreeList[i] = @ \ {node}]) : node \in h.FreeList[i]}

InsertUnits(h, ptr, nu) ==
    [h EXCEPT !.FreeList = [i \in Indexes |-> @[i] \cup NodesOf(ptr, nu, i)]]

\* A fault: the tail is taken from the front of the block.
SplitBlockAtFront(h, ptr, oldIndx, newIndx) ==
    InsertUnits(h, ptr, I2U(oldIndx) - I2U(newIndx))

SplitBlock(h, ptr, oldIndx, newIndx) ==
    InsertUnits(h, ptr + U2B(I2U(newIndx)), I2U(oldIndx) - I2U(newIndx))

\* Units from node to the next one kept, or to the end of the free units.  The
\* stamp at LoUnit ends them at the gap.
Extent(node, kept, units) ==
    CHOOSE n \in 1..Size :
        LET end(m) == node + U2B(m) IN
        /\ end(n) \in kept \/ end(n) \notin units
        /\ \A m \in 1..n - 1 : end(m) \in units \ kept

\* A fault: the nodes do not get their stamp of 0.
GluingsNone(nodes, units) == {nodes}

\* A node is swallowed by the free block that ends where it begins, unless
\* the two are too large; which two that concerns depends on the order.
Gluings(nodes, units) ==
    {kept \in SUBSET nodes :
        /\ \A node \in nodes : node - UNIT_SIZE \notin units => node \in kept
        /\ \A node \in kept :
              LET n == Extent(node, kept, units)
                  next == node + U2B(n)
              IN  /\ n < MaxNU
                  /\ next \in kept => n + Extent(next, kept, units) >= MaxNU}

GlueFreeBlocks(h) ==
    LET units == FreeUnits(h)
        glued(kept) == [i \in Indexes |->
            UNION {NodesOf(node, Extent(node, kept, units), i) : node \in kept}]
    IN  {[h EXCEPT !.FreeList = glued(kept), !.GlueCount = GlueReset] :
            kept \in Gluings(FreeNodes(h), units)}

-------------------------------------------------------------------------------
(***************************************************************************)
(* Allocation.                                                             *)
(***************************************************************************)

\* A fault: the last byte is taken from the text, too.
TakeFromTextAll(h, indx) ==
    LET numBytes == U2B(I2U(indx))
        g == [h EXCEPT !.GlueCount = @ - 1]
    IN  IF h.UnitsStart - Text >= numBytes
        THEN {Result(h.UnitsStart - numBytes,
                     [g EXCEPT !.UnitsStart = @ - numBytes])}
        ELSE {Result(NULL, g)}

TakeFromText(h, indx) ==
    LET numBytes == U2B(I2U(indx))
        g == [h EXCEPT !.GlueCount = @ - 1]
    IN  IF h.UnitsStart - Text > numBytes
        THEN {Result(h.UnitsStart - numBytes,
                     [g EXCEPT !.UnitsStart = @ - numBytes])}
        ELSE {Result(NULL, g)}

TakeFromLarger(h, indx) ==
    LET larger == {i \in indx + 1..LastIndex : h.FreeList[i] # {}}
        next == CHOOSE i \in larger : \A j \in larger : i <= j
    IN  IF larger = {}
        THEN TakeFromText(h, indx)
        ELSE {Result(r.ptr, SplitBlock(r.heap, r.ptr, next, indx)) :
                 r \in RemoveNode(h, next)}

\* A fault: the free blocks are never glued.
AllocUnitsRareUnglued(h, indx) == TakeFromLarger(h, indx)

AllocUnitsRare(h, indx) ==
    IF h.GlueCount # 0
    THEN TakeFromLarger(h, indx)
    ELSE UNION {IF g.FreeList[indx] # {} THEN RemoveNode(g, indx)
                ELSE TakeFromLarger(g, indx) : g \in GlueFreeBlocks(h)}

AllocUnits(h, indx) ==
    LET numBytes == U2B(I2U(indx)) IN
    IF h.FreeList[indx] # {} THEN RemoveNode(h, indx)
    ELSE IF numBytes <= h.HiUnit - h.LoUnit
    THEN {Result(h.LoUnit, [h EXCEPT !.LoUnit = @ + numBytes])}
    ELSE AllocUnitsRare(h, indx)

AllocContext(h) ==
    IF h.HiUnit # h.LoUnit
    THEN {Result(h.HiUnit - UNIT_SIZE, [h EXCEPT !.HiUnit = @ - UNIT_SIZE])}
    ELSE IF h.FreeList[0] # {} THEN RemoveNode(h, 0)
    ELSE AllocUnitsRare(h, 0)

\* For i1 < i0.
ShrinkUnits(h, oldPtr, i0, i1) ==
    IF h.FreeList[i1] # {}
    THEN {Result(r.ptr, InsertNode(r.heap, oldPtr, i0)) : r \in RemoveNode(h, i1)}
    ELSE {Result(oldPtr, SplitBlock(h, oldPtr, i0, i1))}

-------------------------------------------------------------------------------
(***************************************************************************)
(* The context model.  When there is no memory it is begun anew.           *)
(***************************************************************************)

\* With the root context and its 256 states.
Restarted ==
    [FreeList |-> [i \in Indexes |-> {}],
     UnitsStart |-> FirstUnit,
     LoUnit |-> FirstUnit + U2B(MaxUnits),
     HiUnit |-> RootContext,
     GlueCount |-> 0]

Init ==
    /\ heap = Restarted
    /\ Text = AlignOffset /\ appended = FALSE
    /\ contexts = {RootContext} /\ stats = RootStats
    /\ failed = -1

RestartModel ==
    /\ heap' = Restarted
    /\ Text' = AlignOffset /\ appended' = FALSE
    /\ contexts' = {RootContext} /\ stats' = RootStats

OutOfMemory(indx) == RestartModel /\ failed' = indx

\* UpdateModel: the symbol is put behind the text.
AppendText ==
    /\ IF Text + 1 >= heap.UnitsStart
       THEN RestartModel
       ELSE /\ Text' = Text + 1
            /\ appended' = TRUE
            /\ UNCHANGED <<heap, client>>
    /\ failed' = -1

\* It was not needed after all.
RetractText ==
    /\ appended
    /\ Text' = Text - 1
    /\ appended' = FALSE
    /\ failed' = -1
    /\ UNCHANGED <<heap, client>>

\* CreateSuccessors: a context of one state.
NewContext ==
    \E r \in AllocContext(heap) :
        \/ r.ptr = NULL /\ OutOfMemory(0)
        \/ /\ r.ptr # NULL
           /\ heap' = r.heap
           /\ contexts' = contexts \cup {r.ptr}
           /\ failed' = -1
           /\ UNCHANGED <<Text, appended, stats>>

\* UpdateModel: a context gets its second state.
NewStats ==
    /\ Cardinality(UNION {stats[i] : i \in Indexes}) < Cardinality(contexts)
    /\ \E r \in AllocUnits(heap, 0) :
        \/ r.ptr = NULL /\ OutOfMemory(0)
        \/ /\ r.ptr # NULL
           /\ heap' = r.heap
           /\ stats' = [stats EXCEPT ![0] = @ \cup {r.ptr}]
           /\ appended' = FALSE /\ failed' = -1
           /\ UNCHANGED <<Text, contexts>>

\* UpdateModel: a full array of states moves to the next larger size.
ExpandStats ==
    \E i \in Indexes \ {LastIndex} : \E oldPtr \in stats[i], r \in AllocUnits(heap, i + 1) :
        \/ r.ptr = NULL /\ OutOfMemory(i + 1)
        \/ /\ r.ptr # NULL
           /\ heap' = InsertNode(r.heap, oldPtr, i)
           /\ stats' = [stats EXCEPT ![i] = @ \ {oldPtr},
                                     ![i + 1] = @ \cup {r.ptr}]
           /\ appended' = FALSE /\ failed' = -1
           /\ UNCHANGED <<Text, contexts>>

\* Rescale: states of frequency 0 are dropped...
ShrinkStats ==
    \E i0 \in Indexes : \E i1 \in 0..i0 - 1, oldPtr \in stats[i0] :
        \E r \in ShrinkUnits(heap, oldPtr, i0, i1) :
            /\ heap' = r.heap
            /\ stats' = [stats EXCEPT ![i0] = @ \ {oldPtr},
                                      ![i1] = @ \cup {r.ptr}]
            /\ appended' = FALSE /\ failed' = -1
            /\ UNCHANGED <<Text, contexts>>

\* ... and the last one moves into the context.
FreeStats ==
    \E i \in Indexes : \E oldPtr \in stats[i] :
        /\ heap' = InsertNode(heap, oldPtr, i)
        /\ stats' = [stats EXCEPT ![i] = @ \ {oldPtr}]
        /\ appended' = FALSE /\ failed' = -1
        /\ UNCHANGED <<Text, contexts>>

Next ==
    \/ AppendText \/ RetractText
    \/ NewContext \/ NewStats \/ ExpandStats \/ ShrinkStats \/ FreeStats

Spec == Init /\ [][Next]_vars

-------------------------------------------------------------------------------
(***************************************************************************)
(* Properties.                                                             *)
(***************************************************************************)

\* The fields of CPpmd7 and the memory in use.
TypeOK ==
    /\ heap.FreeList \in [Indexes -> SUBSET (AlignOffset..ArenaEnd - 1)]
    /\ heap.GlueCount \in 0..GlueReset
    /\ heap.UnitsStart \in AlignOffset..ArenaEnd
    /\ heap.LoUnit \in heap.UnitsStart..heap.HiUnit
    /\ heap.HiUnit <= ArenaEnd
    /\ Text \in AlignOffset..ArenaEnd /\ appended \in BOOLEAN
    /\ contexts \subseteq AlignOffset..ArenaEnd - 1
    /\ stats \in [Indexes -> SUBSET (AlignOffset..ArenaEnd - 1)]
    /\ failed \in Indexes \cup {-1}

Held ==
    Lists("stats", stats)
    \cup {[owner |-> "context", at |-> at, nu |-> 1] : at \in contexts}

Gap ==
    [owner |-> "gap", at |-> heap.LoUnit,
     nu |-> (heap.HiUnit - heap.LoUnit) \div UNIT_SIZE]

AllBlocks == Held \cup Lists("free", heap.FreeList) \cup {Gap}

ArenaUnits == Units(heap.UnitsStart, (ArenaEnd - heap.UnitsStart) \div UNIT_SIZE)

\* Every unit above UnitsStart is in use, in the gap, or in one free list:
\* exactly one of them and once.  A unit in two blocks would be damaged much
\* later by a context that has nothing to do with it; a unit in none is lost.
Partition ==
    /\ \A b, c \in AllBlocks : b # c => UnitsOf(b) \cap UnitsOf(c) = {}
    /\ UNION {UnitsOf(b) : b \in AllBlocks} = ArenaUnits

\* *p->Text++ writes below the units: the text never reaches them, although
\* both it and UnitsStart move.
TextApart == Text < heap.UnitsStart

\* When the model is begun anew although the free blocks were glued for this
\* very allocation, then no adjacent free units would have served it.
GlueFindsRun ==
    [][failed' # -1 /\ heap.GlueCount = 0 =>
           \A unit \in FreeUnits(heap) :
               ~(Units(unit, I2U(failed')) \subseteq FreeUnits(heap))]_vars

\* What the context model relies on, see MemoryPool.tla.
Pool == INSTANCE MemoryPool WITH
    Addresses <- AlignOffset..ArenaEnd - 1,
    BlockSizes <- {I2U(i) : i \in Indexes},
    UnitSize <- UNIT_SIZE,
    Root <- {[at |-> RootContext, nu |-> 1], [at |-> FirstUnit, nu |-> MaxUnits]},
    Bottom <- AlignOffset,
    held <- {[at |-> b.at, nu |-> b.nu] : b \in Held},
    text <- Text

\* The allocator serves every request from memory nobody holds.
ImplementsPool == Pool!Spec
===============================================================================
