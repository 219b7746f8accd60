----------------------------- MODULE SubAllocator8 -----------------------------
(***************************************************************************)
(* The memory of the PPMd8 model, lib/ppmd/Ppmd8.c.  The arena is that of  *)
(* Ppmd7 (SubAllocator.tla): text from below, units above UnitsStart, a    *)
(* gap between LoUnit and HiUnit.  Three things are new.                   *)
(*   - Stamps counts the nodes of every free list, so that the memory in   *)
(*     use can be computed without walking them.                           *)
(*   - Free blocks at UnitsStart go back to the text: SpecialFreeUnit,     *)
(*     MoveUnitsUp and ExpandTextArea move UnitsStart up.                  *)
(*   - When memory runs out the model need not be begun anew: RestoreModel *)
(*     cuts leaves off the tree of contexts, pass after pass, until a      *)
(*     quarter of the arena is free.                                       *)
(*                                                                         *)
(* The contexts are kept with what decides who owns which memory: the      *)
(* context whose state has this one for successor (parent), the order, and *)
(* the block of states, if there is more than one.  A state whose          *)
(* successor is text has no other trace here.  Contexts of the highest     *)
(* order have each other for successors; CutOff does not follow these      *)
(* links, so that without them the contexts form a tree.                   *)
(***************************************************************************)
EXTENDS UnitSizes, FiniteSets, Sequences

CONSTANTS
    GlueReset,      \* gluings are this many failures apart (1 << 13)
    MaxOrder,       \* order of the longest contexts
    KeepOrder,      \* O_BOUND: up to it a context of one state survives its successor (9)
    MoveReach,      \* blocks are moved up from this many bytes (16 * 1024)
    Restart         \* RestoreMethod is PPMD8_RESTORE_METHOD_RESTART

VARIABLES
    heap,           \* the allocator, see Restarted
    Text,           \* where the next byte of text goes
    appended,       \* that byte can still be taken back
    tree,           \* the contexts in use
    grown,          \* contexts whose states the symbol under way has moved
    phase,          \* "coding", or the part of RestoreModel that is under way
    stack,          \* the calls of CutOff under way, innermost first
    todo,           \* contexts this pass of CutOff has not come to
    fresh           \* it is the first pass

model == <<tree, grown>>
restoring == <<phase, stack, todo, fresh>>
vars == <<heap, Text, appended, model, restoring>>

ASSUME RestoreAssumption ==
    /\ GlueReset \in Nat \ {0} /\ MaxOrder \in Nat \ {0} /\ KeepOrder \in Nat
    /\ MoveReach \in Nat /\ Restart \in BOOLEAN

-------------------------------------------------------------------------------
(***************************************************************************)
(* Free lists.  An allocation returns a set of possible results, pairs of  *)
(* a pointer and the heap that is left.                                    *)
(***************************************************************************)

InsertNode(h, node, i) ==
    [h EXCEPT !.FreeList[i] = @ \cup {node}, !.Stamps[i] = @ + 1]

Result(ptr, h) == [ptr |-> ptr, heap |-> h]

RemoveNode(h, i) ==
    {Result(node, [h EXCEPT !.FreeList[i] = @ \ {node}, !.Stamps[i] = @ - 1]) :
        node \in h.FreeList[i]}

\* A fault: the nodes are not counted.
InsertUnitsUncounted(h, ptr, nu) ==
    [h EXCEPT !.FreeList = [i \in Indexes |-> @[i] \cup NodesOf(ptr, nu, i)]]

InsertUnits(h, ptr, nu) ==
    [h EXCEPT
        !.FreeList = [i \in Indexes |-> @[i] \cup NodesOf(ptr, nu, i)],
        !.Stamps = [i \in Indexes |-> @[i] + Cardinality(NodesOf(ptr, nu, i))]]

SplitBlock(h, ptr, oldIndx, newIndx) ==
    InsertUnits(h, ptr + U2B(I2U(newIndx)), I2U(oldIndx) - I2U(newIndx))

\* Free units in a row from at.  The stamp at LoUnit ends them at the gap.
FreeRun(at, units) ==
    CHOOSE n \in 0..Size : /\ at + U2B(n) \notin units
                           /\ \A m \in 0..n - 1 : at + U2B(m) \in units

\* Whatever the order of the lists, runs of free blocks become one block.
GlueFreeBlocks(h) ==
    LET units == FreeUnits(h)
        runs == {node \in FreeNodes(h) : node - UNIT_SIZE \notin units}
        glued == [i \in Indexes |->
            UNION {NodesOf(node, FreeRun(node, units), i) : node \in runs}]
    IN  [h EXCEPT !.FreeList = glued,
                  !.Stamps = [i \in Indexes |-> Cardinality(glued[i])],
                  !.GlueCount = GlueReset]

-------------------------------------------------------------------------------
(***************************************************************************)
(* Allocation and release.                                                 *)
(***************************************************************************)

\* A fault: the last byte is taken from the text, too.
TakeFromTextAll(h, indx) ==
    LET numBytes == U2B(I2U(indx))
        g == [h EXCEPT !.GlueCount = @ - 1]
    IN  IF h.UnitsStart - Text >= numBytes
        THEN {Result(h.UnitsStart - numBytes,
                     [g EXCEPT !.UnitsStart = @ - numBytes])}
        ELSE {Result(NULL, g)}

TakeFromText(h, indx) ==
    LET numBytes == U2B(I2U(indx))
        g == [h EXCEPT !.GlueCount = @ - 1]
    IN  IF h.UnitsStart - Text > numBytes
        THEN {Result(h.UnitsStart - numBytes,
                     [g EXCEPT !.UnitsStart = @ - numBytes])}
        ELSE {Result(NULL, g)}

TakeFromLarger(h, indx) ==
    LET larger == {i \in indx + 1..LastIndex : h.FreeList[i] # {}}
        next == CHOOSE i \in larger : \A j \in larger : i <= j
    IN  IF larger = {}
        THEN TakeFromText(h, indx)
        ELSE {Result(r.ptr, SplitBlock(r.heap, r.ptr, next, indx)) :
                 r \in RemoveNode(h, next)}

AllocUnitsRare(h, indx) ==
    LET g == IF h.GlueCount = 0 THEN GlueFreeBlocks(h) ELSE h
    IN  IF h.GlueCount = 0 /\ g.FreeList[indx] # {}
        THEN RemoveNode(g, indx)
        ELSE TakeFromLarger(g, indx)

AllocUnits(h, indx) ==
    LET numBytes == U2B(I2U(indx)) IN
    IF h.FreeList[indx] # {} THEN RemoveNode(h, indx)
    ELSE IF numBytes <= h.HiUnit - h.LoUnit
    THEN {Result(h.LoUnit, [h EXCEPT !.LoUnit = @ + numBytes])}
    ELSE AllocUnitsRare(h, indx)

AllocContext(h) ==
    IF h.HiUnit # h.LoUnit
    THEN {Result(h.HiUnit - UNIT_SIZE, [h EXCEPT !.HiUnit = @ - UNIT_SIZE])}
    ELSE IF h.FreeList[0] # {} THEN RemoveNode(h, 0)
    ELSE AllocUnitsRare(h, 0)

ShrinkUnits(h, oldPtr, i0, i1) ==
    IF i0 = i1 THEN {Result(oldPtr, h)}
    ELSE IF h.FreeList[i1] # {}
    THEN {Result(r.ptr, InsertNode(r.heap, oldPtr, i0)) : r \in RemoveNode(h, i1)}
    ELSE {Result(oldPtr, SplitBlock(h, oldPtr, i0, i1))}

SpecialFreeUnit(h, ptr) ==
    IF ptr = h.UnitsStart
    THEN [h EXCEPT !.UnitsStart = @ + UNIT_SIZE]
    ELSE InsertNode(h, ptr, 0)

\* A fault: the free block stays in its list.
MoveUnitsUpKeepsNode(h, oldPtr, indx) ==
    {Result(node, InsertNode(h, oldPtr, indx)) :
        node \in {n \in h.FreeList[indx] : n > oldPtr}}
    \cup {Result(oldPtr, h)}

\* The first free block of the size is used if it is above this one.
MoveUnitsUp(h, oldPtr, indx) ==
    IF oldPtr > h.UnitsStart + MoveReach \/ h.FreeList[indx] = {}
    THEN {Result(oldPtr, h)}
    ELSE {IF oldPtr > r.ptr
          THEN Result(oldPtr, h)
          ELSE Result(r.ptr,
                      IF oldPtr # h.UnitsStart
                      THEN InsertNode(r.heap, oldPtr, indx)
                      ELSE [r.heap EXCEPT !.UnitsStart = @ + U2B(I2U(indx))]) :
          r \in RemoveNode(h, indx)}

\* A fault: the blocks stay in their lists.
ExpandTextAreaKept(h) ==
    [h EXCEPT !.UnitsStart = @ + U2B(FreeRun(@, FreeUnits(h)))]

\* The free blocks at UnitsStart are given to the text.
ExpandTextArea(h) ==
    LET end == h.UnitsStart + U2B(FreeRun(h.UnitsStart, FreeUnits(h)))
        left == [i \in Indexes |-> {node \in h.FreeList[i] : node >= end}]
    IN  [h EXCEPT !.UnitsStart = end,
                  !.FreeList = left,
                  !.Stamps = [i \in Indexes |->
                      @[i] - Cardinality(h.FreeList[i] \ left[i])]]

\* The arena without the gap, the room for text and the free lists.
GetUsedMemory(h) ==
    LET free[i \in 0..NumIndexes] ==
            IF i = 0 THEN 0 ELSE free[i - 1] + h.Stamps[i - 1] * I2U(i - 1)
    IN  Size - (h.HiUnit - h.LoUnit) - (h.UnitsStart - Text) - U2B(free[NumIndexes])

-------------------------------------------------------------------------------
(***************************************************************************)
(* The tree of contexts.                                                   *)
(***************************************************************************)

Context(parent, order) ==
    [parent |-> parent, order |-> order, stats |-> NULL, indx |-> 0]

Binary(c) == tree[c].stats = NULL

\* States there are at most; units that many states take.
Capacity(c) == IF Binary(c) THEN 1 ELSE 2 * I2U(tree[c].indx)
UnitsFor(states) == (states + 1) \div 2

Children(c) == {d \in DOMAIN tree : tree[d].parent = c}

WithStats(c, ptr, i) == [tree EXCEPT ![c].stats = ptr, ![c].indx = i]
MadeBinary(c) == WithStats(c, NULL, 0)
Without(c) == [d \in DOMAIN tree \ {c} |-> tree[d]]

-------------------------------------------------------------------------------
(***************************************************************************)
(* The model while symbols are coded.                                      *)
(***************************************************************************)

\* With the root context and its 256 states.
Restarted ==
    [FreeList |-> [i \in Indexes |-> {}],
     Stamps |-> [i \in Indexes |-> 0],
     UnitsStart |-> FirstUnit,
     LoUnit |-> FirstUnit + U2B(MaxUnits),
     HiUnit |-> RootContext,
     GlueCount |-> 0]

RootTree ==
    [c \in {RootContext} |->
        [parent |-> NULL, order |-> 0, stats |-> FirstUnit, indx |-> LastIndex]]

Init ==
    /\ heap = Restarted
    /\ Text = AlignOffset /\ appended = FALSE
    /\ tree = RootTree /\ grown = {}
    /\ phase = "coding" /\ stack = <<>> /\ todo = {} /\ fresh = FALSE

\* RestoreModel begins; the symbol has moved the states of the contexts in undo.
BeginRestore(undo) ==
    /\ phase' = "undo"
    /\ Text' = AlignOffset /\ appended' = FALSE
    /\ grown' = undo
    /\ UNCHANGED <<tree, stack, todo, fresh>>

\* UpdateModel: the symbol is put behind the text.
AppendText ==
    /\ phase = "coding"
    /\ IF Text + 1 >= heap.UnitsStart
       THEN BeginRestore({})
       ELSE /\ Text' = Text + 1
            /\ appended' = TRUE
            /\ grown' = {}
            /\ UNCHANGED <<tree, restoring>>
    /\ UNCHANGED heap

\* It was not needed after all.
RetractText ==
    /\ phase = "coding" /\ appended
    /\ Text' = Text - 1
    /\ appended' = FALSE
    /\ UNCHANGED <<heap, model, restoring>>

\* CreateSuccessors: a state whose successor was text gets a context of one
\* state.  Before them come the contexts that this symbol moves.
NewContext ==
    /\ phase = "coding"
    /\ \E c \in DOMAIN tree, r \in AllocContext(heap) :
        /\ tree[c].order < MaxOrder
        /\ Cardinality(Children(c)) < Capacity(c)
        /\ heap' = r.heap
        /\ \/ r.ptr = NULL /\ BeginRestore({})
           \/ /\ r.ptr # NULL
              /\ tree' = [d \in DOMAIN tree \cup {r.ptr} |->
                    IF d = r.ptr THEN Context(c, tree[c].order + 1) ELSE tree[d]]
              /\ grown' = {}
              /\ UNCHANGED <<Text, appended, restoring>>

\* UpdateModel: a context gets its second state, or a full block of states
\* moves to the next larger size.
Grow(c, i) ==
    \E r \in AllocUnits(heap, i) :
        \/ /\ r.ptr = NULL
           /\ heap' = r.heap
           /\ BeginRestore(grown)
        \/ /\ r.ptr # NULL
           /\ heap' = IF Binary(c) THEN r.heap
                      ELSE InsertNode(r.heap, tree[c].stats, tree[c].indx)
           /\ tree' = WithStats(c, r.ptr, i)
           /\ grown' = grown \cup {c}
           /\ appended' = FALSE
           /\ UNCHANGED <<Text, restoring>>

NewStats ==
    /\ phase = "coding"
    /\ \E c \in DOMAIN tree \ grown : Binary(c) /\ Grow(c, 0)

ExpandStats ==
    /\ phase = "coding"
    /\ \E c \in DOMAIN tree \ grown :
        ~Binary(c) /\ tree[c].indx # LastIndex /\ Grow(c, tree[c].indx + 1)

\* Rescale: states of frequency 0 are dropped, in contexts of the highest order
\* only (adder); the last one moves into the context.
ShrinkStats ==
    /\ phase = "coding"
    /\ \E c \in DOMAIN tree : \E i1 \in 0..tree[c].indx - 1 :
        /\ ~Binary(c) /\ tree[c].order = MaxOrder
        /\ \E r \in ShrinkUnits(heap, tree[c].stats, tree[c].indx, i1) :
              /\ heap' = r.heap
              /\ tree' = WithStats(c, r.ptr, i1)
    /\ grown' = {} /\ appended' = FALSE
    /\ UNCHANGED <<Text, restoring>>

FreeStats ==
    /\ phase = "coding"
    /\ \E c \in DOMAIN tree :
        /\ ~Binary(c) /\ tree[c].order = MaxOrder
        /\ heap' = InsertNode(heap, tree[c].stats, tree[c].indx)
        /\ tree' = MadeBinary(c)
    /\ grown' = {} /\ appended' = FALSE
    /\ UNCHANGED <<Text, restoring>>

-------------------------------------------------------------------------------
(***************************************************************************)
(* RestoreModel.                                                           *)
(***************************************************************************)

\* The contexts that got the symbol lose it again.
Undo ==
    /\ phase = "undo"
    /\ \E c \in grown :
        /\ grown' = grown \ {c}
        /\ IF tree[c].indx = 0
           THEN /\ heap' = SpecialFreeUnit(heap, tree[c].stats)
                /\ tree' = MadeBinary(c)
           ELSE \E r \in ShrinkUnits(heap, tree[c].stats, tree[c].indx, tree[c].indx - 1) :
                /\ heap' = r.heap
                /\ tree' = WithStats(c, r.ptr, tree[c].indx - 1)
    /\ UNCHANGED <<Text, appended, restoring>>

RestartModel ==
    /\ phase = "undo" /\ grown = {}
    /\ Restart \/ GetUsedMemory(heap) < Size \div 2
    /\ heap' = Restarted
    /\ tree' = RootTree
    /\ phase' = "coding"
    /\ UNCHANGED <<Text, appended, grown, stack, todo, fresh>>

BeginPass(first) ==
    /\ phase' = "cutoff"
    /\ todo' = DOMAIN tree
    /\ fresh' = first

BeginCutOff ==
    /\ phase = "undo" /\ grown = {}
    /\ ~Restart /\ GetUsedMemory(heap) >= Size \div 2
    /\ BeginPass(TRUE)
    /\ UNCHANGED <<heap, Text, appended, model, stack>>

Top == stack[1].context

\* CutOff of a context: its states move up, then come their successors.
Enter(c) ==
    /\ phase = "cutoff" /\ c \in todo
    /\ IF stack = <<>> THEN c = RootContext ELSE tree[c].parent = Top
    /\ IF Binary(c)
       THEN UNCHANGED <<heap, tree>>
       ELSE \E r \in MoveUnitsUp(heap, tree[c].stats, tree[c].indx) :
                /\ heap' = r.heap
                /\ tree' = WithStats(c, r.ptr, tree[c].indx)
    /\ stack' = <<[context |-> c, successors |-> Cardinality(Children(c))]>> \o stack
    /\ todo' = todo \ {c}
    /\ UNCHANGED <<Text, appended, grown, phase, fresh>>

\* A fault: the loop over the states stops before the first.
KeptButFirst(c) ==
    IF tree[c].order = MaxOrder /\ fresh
    THEN 0..Capacity(c)
    ELSE {IF stack[1].successors = 0 THEN 0 ELSE stack[1].successors - 1}

\* The states of c whose successors were contexts when it was entered; the
\* first pass also finds, and cuts, the links of the highest order.
Kept(c) ==
    IF tree[c].order = MaxOrder /\ fresh
    THEN 0..Capacity(c)
    ELSE {stack[1].successors}

\* A fault: low orders are spared even when they have no successor.
LeaveBinarySparing(c, kept) ==
    IF tree[c].order <= KeepOrder \/ Children(c) # {}
    THEN UNCHANGED <<heap, tree>>
    ELSE /\ heap' = SpecialFreeUnit(heap, c)
         /\ tree' = Without(c)

LeaveBinary(c, kept) ==
    IF kept = 1 /\ (Children(c) # {} \/ tree[c].order <= KeepOrder)
    THEN UNCHANGED <<heap, tree>>
    ELSE /\ heap' = SpecialFreeUnit(heap, c)
         /\ tree' = Without(c)

LeaveStats(c, kept) ==
    LET freed == InsertNode(heap, tree[c].stats, tree[c].indx) IN
    CASE kept = 0 ->
            /\ heap' = SpecialFreeUnit(freed, c)
            /\ tree' = Without(c)
      [] kept = 1 ->
            /\ heap' = freed
            /\ tree' = MadeBinary(c)
      [] kept > 1 ->
            \E r \in ShrinkUnits(heap, tree[c].stats, tree[c].indx, U2I(UnitsFor(kept))) :
                /\ heap' = r.heap
                /\ tree' = WithStats(c, r.ptr, U2I(UnitsFor(kept)))

Leave ==
    /\ phase = "cutoff" /\ stack # <<>>
    /\ \A d \in todo : tree[d].parent # Top
    /\ IF Top = RootContext
       THEN UNCHANGED <<heap, tree>>
       ELSE \E kept \in Kept(Top) :
                IF Binary(Top) THEN LeaveBinary(Top, kept) ELSE LeaveStats(Top, kept)
    /\ stack' = Tail(stack)
    /\ UNCHANGED <<Text, appended, grown, phase, todo, fresh>>

\* Used memory above which another pass is made.
Enough == 3 * (Size \div 4)

EndPass ==
    /\ phase = "cutoff" /\ stack = <<>> /\ todo = {}
    /\ LET h == ExpandTextArea(heap) IN
       IF GetUsedMemory(h) > Enough
       THEN heap' = h /\ BeginPass(FALSE)
       ELSE /\ heap' = [h EXCEPT !.GlueCount = 0]
            /\ phase' = "coding" /\ fresh' = FALSE
            /\ UNCHANGED todo
    /\ UNCHANGED <<Text, appended, model, stack>>

RestoreStep ==
    \/ Undo \/ RestartModel \/ BeginCutOff
    \/ (\E c \in todo : Enter(c)) \/ Leave \/ EndPass

Next ==
    \/ AppendText \/ RetractText
    \/ NewContext \/ NewStats \/ ExpandStats \/ ShrinkStats \/ FreeStats
    \/ RestoreStep

Spec == Init /\ [][Next]_vars

\* RestoreModel is called by the thread that codes a symbol and does not wait.
FairSpec == Spec /\ WF_vars(RestoreStep)

-------------------------------------------------------------------------------
(***************************************************************************)
(* Properties.                                                             *)
(***************************************************************************)

Addresses == AlignOffset..ArenaEnd - 1

\* The fields of CPpmd8 and the contexts in use.
TypeOK ==
    /\ heap.FreeList \in [Indexes -> SUBSET Addresses]
    /\ heap.Stamps \in [Indexes -> 0..Size]
    /\ heap.GlueCount \in 0..GlueReset
    /\ heap.UnitsStart \in Text + 1..ArenaEnd
    /\ heap.LoUnit <= heap.HiUnit
    /\ heap.LoUnit # heap.HiUnit => heap.UnitsStart <= heap.LoUnit
    /\ DOMAIN tree \subseteq Addresses
    /\ \A c \in DOMAIN tree :
          tree[c] \in [parent : Addresses \cup {NULL}, order : 0..MaxOrder,
                       stats : Addresses \cup {NULL}, indx : Indexes]
    /\ grown \subseteq DOMAIN tree /\ todo \subseteq DOMAIN tree
    /\ phase \in {"coding", "undo", "cutoff"}
    /\ appended \in BOOLEAN /\ fresh \in BOOLEAN

Block(owner, at, nu) == [owner |-> owner, at |-> at, nu |-> nu]

Held ==
    {Block("context", c, 1) : c \in DOMAIN tree}
    \cup {Block("stats", tree[c].stats, I2U(tree[c].indx)) :
             c \in {d \in DOMAIN tree : ~Binary(d)}}

Gap == Block("gap", heap.LoUnit, (heap.HiUnit - heap.LoUnit) \div UNIT_SIZE)

AllBlocks == Held \cup Lists("free", heap.FreeList) \cup {Gap}

ArenaUnits == Units(heap.UnitsStart, (ArenaEnd - heap.UnitsStart) \div UNIT_SIZE)

\* Every unit above UnitsStart is in use, in the gap, or in one free list, once,
\* also in the middle of a restoration: a free block that UnitsStart has passed
\* but a list still holds would be handed out again under the text.
Partition ==
    /\ \A b, c \in AllBlocks : b # c => UnitsOf(b) \cap UnitsOf(c) = {}
    /\ UNION {UnitsOf(b) : b \in AllBlocks} = ArenaUnits

UnitsHeld == UNION {UnitsOf(b) : b \in Held}

\* The number RestoreModel bases its decisions on, which it computes from the
\* counters of the lists, is what the contexts, their states and the text take.
UsedMemoryExact ==
    GetUsedMemory(heap) = U2B(Cardinality(UnitsHeld)) + (Text - AlignOffset)

\* No successor points to a context that CutOff has freed, and no context
\* keeps a block of states too small for the successors it has.
NoDangling ==
    \A c \in DOMAIN tree :
        /\ c # RootContext => tree[c].parent \in DOMAIN tree
        /\ Cardinality(Children(c)) <= Capacity(c)

\* RestoreModel ends: passes that cut nothing do not go on for ever.
RestoreEnds == phase # "coding" ~> phase = "coding"

\* What the context model relies on, see MemoryPool.tla.
Pool == INSTANCE MemoryPool WITH
    Addresses <- Addresses,
    BlockSizes <- {I2U(i) : i \in Indexes},
    UnitSize <- UNIT_SIZE,
    Root <- {[at |-> RootContext, nu |-> 1], [at |-> FirstUnit, nu |-> MaxUnits]},
    Bottom <- AlignOffset,
    held <- {[at |-> b.at, nu |-> b.nu] : b \in Held},
    text <- Text

\* The contexts and their states never share memory, whatever is moved.
ImplementsPool == Pool!Spec
===============================================================================
