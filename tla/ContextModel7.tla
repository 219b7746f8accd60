---------------------------- MODULE ContextModel7 -----------------------------
(***************************************************************************)
(* The model of PPMd7 (src/lib/ppmd/Ppmd7.c) on a ContextTree: how it      *)
(* starts, what every coded symbol changes in it, and where it takes its   *)
(* probabilities from.                                                     *)
(***************************************************************************)
EXTENDS ContextCounts

Restart(maxOrder, units) == Restarted(RootContext, maxOrder, units)

\* InitEsc and HiBitsFlag are not touched by RestartModel.
RestartModel(m) == [Restart(m.MaxOrder, m.Units) EXCEPT !.InitEsc = m.InitEsc,
                                                        !.HiBitsFlag = m.HiBitsFlag]

-------------------------------------------------------------------------------
(***************************************************************************)
(* CreateSuccessors: contexts for a successor that is still in the text,   *)
(* one for every suffix whose state has the same successor.                *)
(***************************************************************************)

\* The states of the found symbol in the suffixes of c that still have the
\* successor up, and the context to hang the new ones below.
RECURSIVE UpStates(_, _, _)
UpStates(m, c, up) ==
    IF Suffix(m, c) = NULL
    THEN [states |-> << >>, base |-> c]
    ELSE LET d  == Suffix(m, c)
             i  == IF NumStats(m, d) # 1 THEN PlaceOf(Stats(m, d), FoundState(m).sym) ELSE 1
             s  == Stats(m, d)[i]
             up2 == UpStates(m, d, up)
         IN  IF s.succ # up
             THEN [states |-> << >>, base |-> s.succ]
             ELSE [up2 EXCEPT !.states = <<<<d, i>>>> \o @]

\* The model and the last context made; no context when memory runs out.
CreateSuccessors(m, skip) ==
    LET up     == FoundState(m).succ
        found  == UpStates(m, m.Min, up)
        states == (IF skip THEN << >> ELSE <<m.found>>) \o found.states
        sym    == m.text[up]
        st     == [sym |-> sym, freq |-> InheritedFreq7(m, found.base, sym), succ |-> up + 1]
        Child(r, at) ==
            IF r.c = NULL \/ ~CanAllocate(r.m, 1)
            THEN [r EXCEPT !.c = NULL]
            ELSE [m |-> WithChild(r.m, at, [stats |-> <<st>>, summ |-> 0, suffix |-> r.c]),
                  c |-> TextSize + Len(r.m.ctx) + 1]
    IN  FoldLeft(Child, [m |-> m, c |-> found.base], Reverse(states))

-------------------------------------------------------------------------------
(***************************************************************************)
(* UpdateModel.                                                            *)
(***************************************************************************)

\* The symbol is added to every context from c up to MinContext.
RECURSIVE AddSymbol(_, _, _, _, _, _)
AddSymbol(m, c, fs, ns, s0, ends) ==
    IF c = m.Min
    THEN [m EXCEPT !.Max = ends.min, !.Min = ends.min]
    ELSE IF ~CanExpand(m, c)
         THEN RestartModel(m)
         ELSE AddSymbol(WithNewState7(m, c, fs, ns, s0, ends.successor),
                        Suffix(m, c), fs, ns, s0, ends)

\* A fault: the new states point into the text at full order too.
FinishUpdateRaw(m, fSuccessor) ==
    LET fs == FoundState(m)
        ns == NumStats(m, m.Min)
        s0 == SummFreq(m, m.Min) - ns - (fs.freq - 1)
    IN  AddSymbol(m, m.Max, fs, ns, s0, [min |-> fSuccessor, successor |-> Len(m.text) + 1])

\* UpdateModel with the symbol written to the text and fSuccessor a context.
FinishUpdate(m, fSuccessor) ==
    LET fs   == FoundState(m)
        ns   == NumStats(m, m.Min)
        s0   == SummFreq(m, m.Min) - ns - (fs.freq - 1)
    IN  AddSymbol(m, m.Max, fs, ns, s0,
                  [min |-> fSuccessor,
                   successor |-> IF m.OrderFall = 0 THEN fSuccessor ELSE Len(m.text) + 1])

\* `if (--p->OrderFall == 0)`: the context has its full order, and the byte
\* of the text is not needed unless contexts were passed on the way.
LowerOrder(m, fSuccessor) ==
    LET fell == [m EXCEPT !.OrderFall = @ - 1] IN
    IF fell.OrderFall # 0 \/ m.Max = m.Min
    THEN FinishUpdate(fell, fSuccessor)
    ELSE FinishUpdate([fell EXCEPT !.text = Front(@)], fSuccessor)

\* At full order the context made for the successor is the next one.
AtFullOrder(m, made) ==
    IF made.c = NULL
    THEN RestartModel(m)
    ELSE SetSuccessor([made.m EXCEPT !.Min = made.c, !.Max = made.c], m.found, made.c)

BelowFullOrder(m, made) ==
    IF made.c = NULL THEN RestartModel(m) ELSE LowerOrder(made.m, made.c)

\* Below full order, once the symbol is in the text.
UpdateWithText(m, fSuccessor) ==
    LET Text == Len(m.text) + 1 IN
    CASE Text > TextSize -> RestartModel(m)
      [] Text <= TextSize /\ fSuccessor = NULL ->
            FinishUpdate(SetSuccessor(m, m.found, Text), m.Min)
      [] Text <= TextSize /\ fSuccessor \in 1..Text ->
            BelowFullOrder(m, CreateSuccessors(m, FALSE))
      [] OTHER -> LowerOrder(m, fSuccessor)

UpdateModel(m) ==
    LET fs == FoundState(m)
        m1 == UpdateSuffix(m)
    IN  IF m.OrderFall = 0
        THEN AtFullOrder(m, CreateSuccessors(m1, TRUE))
        ELSE UpdateWithText([m1 EXCEPT !.text = Append(@, fs.sym)], fs.succ)

-------------------------------------------------------------------------------
(***************************************************************************)
(* Where the probabilities come from.                                      *)
(***************************************************************************)
HB2Flag(sym) == IF sym < HiSymbol THEN 0 ELSE 8

WithHiBits(m) == [m EXCEPT !.HiBitsFlag = HB2Flag(FoundState(m).sym)]

\* Ppmd7_GetBinSumm: the entry for MinContext, which has one state.
BinIndex(m) ==
    LET one == Stats(m, m.Min)[1] IN
    <<one.freq, m.PrevSuccess + NS2BSIndx(NumStats(m, Suffix(m, m.Min))),
      HB2Flag(FoundState(m).sym), HB2Flag(one.sym), m.RunLength < 0>>

BinProb(m, key) == Entry(m.BinSumm, key, InitProb(key[2], key[1] + 1))

\* Ppmd7_MakeEscFreq: the entry of See for MinContext with numMasked symbols
\* masked.
SeeIndex(m, numMasked) ==
    LET n == NumStats(m, m.Min)
        nonMasked == n - numMasked
    IN  IF n = Cardinality(Symbols)
        THEN << >>
        ELSE <<NS2Indx(3, nonMasked - 1), nonMasked < NumStats(m, Suffix(m, m.Min)) - n,
               SummFreq(m, m.Min) < 11 * n, numMasked > nonMasked, m.HiBitsFlag>>

InitSee(key) == [Summ |-> (5 * key[1] + 10) * 8, Shift |-> 3, Count |-> 4]

MakeEscFreq(m, numMasked) ==
    LET key == SeeIndex(m, numMasked) IN
    EscFreq(m, key, Entry(m.See, key, InitSee(key)))

-------------------------------------------------------------------------------
(***************************************************************************)
(* The updates after a symbol, one for each way it was coded.              *)
(***************************************************************************)
NextContext(m) ==
    LET c == FoundState(m).succ IN
    IF m.OrderFall = 0 /\ c > Len(m.text) + 1
    THEN [m EXCEPT !.Min = c, !.Max = c]
    ELSE UpdateModel(m)

Update1(m) == NextContext(CountedUp7(m))

Update1_0(m) ==
    LET success == Bool(2 * FoundState(m).freq > SummFreq(m, m.Min)) IN
    NextContext(Rescaled7(
        [Counted(m) EXCEPT !.PrevSuccess = success, !.RunLength = @ + success]))

UpdateBin(m) ==
    NextContext([AddFreq(m, m.found, Bool(FoundState(m).freq < 128)) EXCEPT
                    !.PrevSuccess = 1, !.RunLength = @ + 1])

Update2(m) ==
    UpdateModel([Rescaled7(Counted(m)) EXCEPT !.RunLength = InitRL(m.MaxOrder)])
===============================================================================
