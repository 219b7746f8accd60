---------------------------- MODULE ContextModel8 -----------------------------
(***************************************************************************)
(* The model of PPMd8 (src/lib/ppmd/Ppmd8.c) on a ContextTree, with        *)
(* restore method RESTART: it begins anew when memory runs out.  (What     *)
(* CUT_OFF does instead is in SubAllocator8.)  A context also has flags:   *)
(* 4 once it was rescaled, 8 for a high symbol in it, 16 for a high symbol *)
(* before it.                                                              *)
(***************************************************************************)
EXTENDS ContextCounts

Restart(maxOrder, units) ==
    Restarted([stats |-> RootStats, summ |-> Len(RootStats) + 1, suffix |-> NULL,
               flags |-> {}], maxOrder, units)

\* RestoreModel: what it does to the contexts ends with RestartModel, which
\* does not touch InitEsc.
RestoreModel(m) == [Restart(m.MaxOrder, m.Units) EXCEPT !.InitEsc = m.InitEsc]

\* No state.
Nowhere == << >>

-------------------------------------------------------------------------------
(***************************************************************************)
(* CreateSuccessors: contexts for a successor that is still in the text,   *)
(* one for every suffix whose state has the same successor.  s1 is the     *)
(* state in the suffix of c when the caller has it already, or Nowhere.       *)
(***************************************************************************)

StateOf(m, c, sym) == IF NumStats(m, c) = 1 THEN 1 ELSE PlaceOf(Stats(m, c), sym)

RECURSIVE UpStates(_, _, _, _)
UpStates(m, c, s1, states) ==
    IF Suffix(m, c) = NULL
    THEN [m |-> m, states |-> states, base |-> c]
    ELSE LET d  == Suffix(m, c)
             i  == StateOf(m, d, FoundState(m).sym)
             at == IF s1 # Nowhere THEN s1 ELSE <<d, i>>
             m1 == IF s1 # Nowhere THEN m ELSE Passed(m, d, i)
             s  == Stats(m, d)[at[2]]
         IN  IF s.succ # FoundState(m).succ
             THEN [m |-> m1, states |-> states, base |-> s.succ]
             ELSE UpStates(m1, d, Nowhere, Append(states, at))

\* The model and the last context made; no context when memory runs out.
\* found is what UpStates has found.
NewContexts(found) ==
    LET fs     == FoundState(found.m)
        sym    == found.m.text[fs.succ]
        st     == [sym |-> sym, freq |-> InheritedFreq8(found.m, found.base, sym),
                   succ |-> fs.succ + 1]
        flags  == HighFlag(16, fs.sym) \union HighFlag(8, sym)
        Child(r, at) ==
            IF r.c = NULL \/ ~CanAllocate(r.m, 1)
            THEN [r EXCEPT !.c = NULL]
            ELSE [m |-> WithChild(r.m, at, [stats |-> <<st>>, summ |-> 0, suffix |-> r.c,
                                            flags |-> flags]),
                  c |-> TextSize + Len(r.m.ctx) + 1]
    IN  FoldLeft(Child, [m |-> found.m, c |-> found.base], Reverse(found.states))

CreateSuccessors(m, skip, s1, c) ==
    NewContexts(UpStates(m, c, s1, IF skip THEN << >> ELSE <<m.found>>))

-------------------------------------------------------------------------------
(***************************************************************************)
(* ReduceOrder: the found state has no successor, so the suffixes are      *)
(* searched for one; all that have none get the place in the text.         *)
(***************************************************************************)
RECURSIVE SearchSuffixes(_, _, _)
SearchSuffixes(m, s1, c) ==
    IF Suffix(m, c) = NULL
    THEN [m |-> m, c |-> c, at |-> Nowhere]
    ELSE LET d  == Suffix(m, c)
             i  == StateOf(m, d, FoundState(m).sym)
             at == IF s1 # Nowhere THEN s1 ELSE <<d, i>>
             m1 == IF s1 # Nowhere THEN m ELSE Searched(m, d, i)
         IN  IF Stats(m, d)[at[2]].succ # NULL
             THEN [m |-> m1, c |-> d, at |-> at]
             ELSE SearchSuffixes([SetSuccessor(m1, at, Len(m.text) + 1) EXCEPT
                                     !.OrderFall = @ + 1], Nowhere, d)

\* The state at which the search has ended gets a context for its successor.
BranchMade(m, made, at) == SetSuccessor([made.m EXCEPT !.found = m.found], at, made.c)

BranchAt(m, found) ==
    IF Stats(found.m, found.at[1])[found.at[2]].succ > Len(m.text) + 1
    THEN found.m
    ELSE BranchMade(m, CreateSuccessors([found.m EXCEPT !.found = found.at],
                                        FALSE, Nowhere, found.c), found.at)

\* c is that context.  At the top the byte of the text is not needed.
ReducedTo(m, m1, c) ==
    [m |-> IF m1.OrderFall = 1 /\ m.Min = m.Max
           THEN [SetSuccessor(m1, m.found, c) EXCEPT !.text = Front(@)]
           ELSE m1,
     c |-> c]

Reduced(m, found) ==
    LET m1 == BranchAt(m, found) IN
    IF found.at = Nowhere
    THEN [m |-> found.m, c |-> found.c]
    ELSE ReducedTo(m, m1, Stats(m1, found.at[1])[found.at[2]].succ)

\* The model and a context; none when CreateSuccessors fails.
ReduceOrder(m, s1) ==
    LET upBranch == Len(m.text) + 1 IN
    Reduced(m, SearchSuffixes([SetSuccessor(m, m.found, upBranch) EXCEPT !.OrderFall = @ + 1],
                              s1, m.Min))

-------------------------------------------------------------------------------
(***************************************************************************)
(* UpdateModel.                                                            *)
(***************************************************************************)

\* The symbol is added to every context from c up to MinContext.
RECURSIVE AddSymbol(_, _, _, _, _, _)
AddSymbol(m, c, f, ns, s0, ends) ==
    IF c = m.Min
    THEN [m EXCEPT !.Max = ends.min, !.Min = ends.min]
    ELSE IF ~CanExpand(m, c)
         THEN RestoreModel(m)
         ELSE AddSymbol(WithNewState8(m, c, f, ns, s0, ends.successor),
                        Suffix(m, c), f, ns, s0, ends)

\* UpdateModel once fSuccessor is a context; f is what the found state was.
FinishUpdate(m0, fSuccessor, f, successor) ==
    LET m   == [m0 EXCEPT !.OrderFall = @ - 1]
        ns  == NumStats(m, m.Min) - 1
        s0  == SummFreq(m, m.Min) - ns - f.freq
        top == m.OrderFall = 0
        m1  == IF top /\ m.Max # m.Min THEN [m EXCEPT !.text = Front(@)] ELSE m
    IN  AddSymbol(m1, m.Max, f, ns, s0,
                  [min |-> fSuccessor, successor |-> IF top THEN fSuccessor ELSE successor])

\* At full order the context made for the successor is the next one.
AtFullOrder(m, made) ==
    IF made.c = NULL
    THEN RestoreModel(m)
    ELSE [SetSuccessor(made.m, m.found, made.c) EXCEPT !.Max = made.c]

\* A context for the successor of f; the symbol is in the text already.
Successor(m, f, s1) ==
    CASE f.succ = NULL -> ReduceOrder(m, s1)
      [] f.succ \in 1..TextSize -> CreateSuccessors(m, FALSE, s1, m.Min)
      [] OTHER -> [m |-> m, c |-> f.succ]

BelowFullOrder(m, next, f) ==
    LET Text == Len(m.text) + 1 IN
    IF Text > TextSize \/ next.c = NULL
    THEN RestoreModel(m)
    ELSE FinishUpdate(next.m, next.c, f, Text)

\* UpdateModel after the suffix is updated; s1 is the state found there.
UpdateFrom(m, f, s1) ==
    LET m1 == [m EXCEPT !.text = Append(@, f.sym)] IN
    IF m.OrderFall = 0 /\ f.succ # NULL
    THEN AtFullOrder(m, CreateSuccessors(m, TRUE, s1, m.Min))
    ELSE BelowFullOrder(m1, Successor(m1, f, s1), f)

UpdateModel(m) ==
    LET f  == FoundState(m)
        c  == Suffix(m, m.Min)
        m1 == UpdateSuffix(m)
    IN  UpdateFrom(m1, f, IF CountsInSuffix(m) THEN <<c, StateOf(m1, c, f.sym)>> ELSE Nowhere)

-------------------------------------------------------------------------------
(***************************************************************************)
(* Where the probabilities come from.                                      *)
(***************************************************************************)

\* The first index at which NS2Indx exceeds n.
IndexAbove(n) == CHOOSE i \in 1..260 : NS2Indx(5, i) > n /\ NS2Indx(5, i - 1) <= n

\* Ppmd8_GetBinSumm: the entry for MinContext, which has one state.
BinIndex(m) ==
    <<NS2Indx(5, Stats(m, m.Min)[1].freq - 1),
      m.PrevSuccess + NS2BSIndx(NumStats(m, Suffix(m, m.Min))),
      Flags(m, m.Min), m.RunLength < 0>>

BinProb(m, key) == Entry(m.BinSumm, key, InitProb(key[2], IndexAbove(key[1]) + 1))

\* Ppmd8_MakeEscFreq: the entry of See for MinContext after a context of
\* numMasked symbols.
SeeIndex(m, numMasked) ==
    LET n == NumStats(m, m.Min) IN
    IF n = Cardinality(Symbols)
    THEN << >>
    ELSE <<NS2Indx(5, n + 1) - 3, SummFreq(m, m.Min) > 11 * n,
           2 * (n - 1) < NumStats(m, Suffix(m, m.Min)) + numMasked - 2, Flags(m, m.Min)>>

InitSee(key) == [Summ |-> (2 * (IndexAbove(key[1] + 3) - 3) + 5) * 8, Shift |-> 3, Count |-> 7]

MakeEscFreq(m, numMasked) ==
    LET key == SeeIndex(m, numMasked) IN
    EscFreq(m, key, Entry(m.See, key, InitSee(key)))

-------------------------------------------------------------------------------
(***************************************************************************)
(* The updates after a symbol, one for each way it was coded.              *)
(***************************************************************************)
ToMax(m) == [m EXCEPT !.Min = m.Max]

NextContext(m) ==
    LET c == FoundState(m).succ IN
    IF m.OrderFall = 0 /\ c > TextSize
    THEN [m EXCEPT !.Min = c, !.Max = c]
    ELSE ToMax(UpdateModel(m))

Update1(m) == NextContext(CountedUp8(m))

Update1_0(m) ==
    LET success == Bool(2 * FoundState(m).freq >= SummFreq(m, m.Min)) IN
    NextContext(Rescaled8(
        [Counted(m) EXCEPT !.PrevSuccess = success, !.RunLength = @ + success]))

UpdateBin(m) ==
    NextContext([AddFreq(m, m.found, Bool(FoundState(m).freq < 196)) EXCEPT
                    !.PrevSuccess = 1, !.RunLength = @ + 1])

Update2(m) ==
    ToMax(UpdateModel([Rescaled8(Counted(m)) EXCEPT !.RunLength = InitRL(m.MaxOrder)]))
===============================================================================
