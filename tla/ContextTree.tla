----------------------------- MODULE ContextTree ------------------------------
(***************************************************************************)
(* The tree of contexts that the models of PPMd7 and PPMd8 are made of     *)
(* (src/lib/ppmd/Ppmd7.c, Ppmd8.c), and the operations that both have in   *)
(* the same form.  The encoder and the decoder each have a model, a        *)
(* record m:                                                               *)
(*                                                                         *)
(*   ctx        the contexts; their memory is the matter of SubAllocator   *)
(*   text       the text area, from its start to the pointer Text          *)
(*   Min, Max   MinContext and MaxContext                                  *)
(*   found      FoundState: the context it lies in and its place there     *)
(*   BinSumm, See   the tables of probabilities, entry by entry as used    *)
(*   OrderFall, InitEsc, PrevSuccess, HiBitsFlag, RunLength   as there     *)
(*   MaxOrder, Units   the parameters: max_order, and the units that the   *)
(*              allocator can hand out before it fails                     *)
(*                                                                         *)
(* A context has stats, the sequence of its states (symbol, frequency,     *)
(* successor), summ, which is SummFreq, and suffix; in PPMd8 also flags.   *)
(* Addresses are numbers: 0 is the null pointer, a number up to TextSize   *)
(* an address in the text, TextSize + i the i-th context.  A successor in  *)
(* the text ("raw") stands for a context that was not made yet.            *)
(***************************************************************************)
EXTENDS Integers, Sequences, SequencesExt, FiniteSetsExt

CONSTANTS
    Symbols,        \* 0..255 in the code, 0..n here
    HiSymbol,       \* the first symbol that counts as high: 0x40 in the code
    MAX_FREQ,       \* 124 in the code
    TextSize,       \* the bytes between the start of the text and UnitsStart
    PPMD_INT_BITS   \* 7 in the code

NULL == 0
PPMD_PERIOD_BITS == 7
PPMD_BIN_SCALE == 2^(PPMD_INT_BITS + PPMD_PERIOD_BITS)

Bool(b) == IF b THEN 1 ELSE 0
UInt16(n) == n % 65536

-------------------------------------------------------------------------------
(***************************************************************************)
(* Contexts and states.                                                    *)
(***************************************************************************)
Stats(m, c)    == m.ctx[c - TextSize].stats
NumStats(m, c) == Len(Stats(m, c))
SummFreq(m, c) == m.ctx[c - TextSize].summ
Suffix(m, c)   == m.ctx[c - TextSize].suffix
Contexts(m)    == {TextSize + i : i \in 1..Len(m.ctx)}
FoundState(m)  == Stats(m, m.found[1])[m.found[2]]

SumFreq(stats) == FoldLeft(LAMBDA n, s : n + s.freq, 0, stats)
FreqBefore(stats, i) == SumFreq(SubSeq(stats, 1, i - 1))
SymbolsOf(stats) == {stats[i].sym : i \in DOMAIN stats}

\* The place of a symbol that the search loops expect to find.
PlaceOf(stats, sym) == CHOOSE i \in DOMAIN stats : stats[i].sym = sym

WithStats(m, c, stats) == [m EXCEPT !.ctx[c - TextSize].stats = stats]
AddSumm(m, c, n) == [m EXCEPT !.ctx[c - TextSize].summ = UInt16(@ + n)]
AddFreq(m, at, n) == [m EXCEPT !.ctx[at[1] - TextSize].stats[at[2]].freq = @ + n]
SetSuccessor(m, at, a) == [m EXCEPT !.ctx[at[1] - TextSize].stats[at[2]].succ = a]
Swapped(stats, i) == [stats EXCEPT ![i] = stats[i - 1], ![i - 1] = stats[i]]

\* What the allocator has given out, and whether it can give n units more.
UnitsUsed(m) ==
    FoldLeft(LAMBDA n, c : n + 1 + (IF Len(c.stats) = 1 THEN 0
                                    ELSE (Len(c.stats) + 1) \div 2), 0, m.ctx)
CanAllocate(m, n) == UnitsUsed(m) + n <= m.Units

-------------------------------------------------------------------------------
(***************************************************************************)
(* What RestartModel sets: the root context with every symbol once.        *)
(***************************************************************************)
InitRL(maxOrder) == -(IF maxOrder < 12 THEN maxOrder ELSE 12) - 1

RootStats == [i \in 1..Cardinality(Symbols) |-> [sym |-> i - 1, freq |-> 1, succ |-> NULL]]

RootContext == [stats |-> RootStats, summ |-> Len(RootStats) + 1, suffix |-> NULL]

Restarted(root, maxOrder, units) ==
    [ctx |-> <<root>>, text |-> << >>,
     Min |-> TextSize + 1, Max |-> TextSize + 1, found |-> <<TextSize + 1, 1>>,
     BinSumm |-> << >>, See |-> << >>,
     OrderFall |-> maxOrder, MaxOrder |-> maxOrder, Units |-> units, InitEsc |-> 0,
     PrevSuccess |-> 0, HiBitsFlag |-> 0, RunLength |-> InitRL(maxOrder)]

-------------------------------------------------------------------------------
(***************************************************************************)
(* Parts of UpdateModel and of Rescale.                                    *)
(***************************************************************************)

\* The context c1 below others, made the successor of the state `at`.
WithChild(m, at, c1) ==
    SetSuccessor([m EXCEPT !.ctx = Append(@, c1)], at, TextSize + Len(m.ctx) + 1)

\* UpdateModel: the found symbol counts in the suffix of MinContext too, and
\* may move one place to the front there.
CountsInSuffix(m) == FoundState(m).freq < MAX_FREQ \div 4 /\ Suffix(m, m.Min) # NULL

UpdateSuffix(m) ==
    LET c  == Suffix(m, m.Min)
        i  == PlaceOf(Stats(m, c), FoundState(m).sym)
        up == i # 1 /\ Stats(m, c)[i].freq >= Stats(m, c)[i - 1].freq
        j  == IF up THEN i - 1 ELSE i
        m1 == IF up THEN WithStats(m, c, Swapped(Stats(m, c), i)) ELSE m
    IN  CASE ~CountsInSuffix(m) -> m
          [] CountsInSuffix(m) /\ NumStats(m, c) = 1 ->
                AddFreq(m, <<c, 1>>, Bool(Stats(m, c)[1].freq < 32))
          [] OTHER ->
                IF Stats(m1, c)[j].freq < MAX_FREQ - 9
                THEN AddSumm(AddFreq(m1, <<c, j>>, 2), c, 2)
                ELSE m1

\* Whether context c can have one state more: in the half unit that is free,
\* in a block one unit larger, or in its first block.
CanExpand(m, c) ==
    LET n == NumStats(m, c) IN
    \/ n # 1 /\ n % 2 = 1
    \/ CanAllocate(m, n \div 2 + 1)

\* The frequency of a lone state that gets company.
SharedFreq(f) == IF f < MAX_FREQ \div 4 - 1 THEN 2 * f ELSE MAX_FREQ - 4

\* The part of the escape's share of SummFreq that a rescaling leaves: half of
\* it, rounded up, so that it does not vanish.

\* A fault: rounded down.
EscapeShareDown(escFreq) == escFreq \div 2

EscapeShare(escFreq) == escFreq - escFreq \div 2

\* The loop of Rescale: every frequency is halved, the found one moved to the
\* front, and states rise past those with less.
Inserted(sorted, s) ==
    LET k == Cardinality({i \in DOMAIN sorted : sorted[i].freq >= s.freq}) IN
    InsertAt(sorted, k + 1, s)

Halved(stats, found, adder) ==
    LET Half(s) == [s EXCEPT !.freq = (@ + adder) \div 2]
    IN  FoldLeft(LAMBDA q, s : Inserted(q, Half(s)),
                 <<Half([stats[found] EXCEPT !.freq = @ + 4])>>, RemoveAt(stats, found))

-------------------------------------------------------------------------------
(***************************************************************************)
(* The probabilities of an escape.                                         *)
(***************************************************************************)
\* The table NS2Indx: the first entries one by one, then groups of one, two,
\* three...
NS2Indx(first, i) ==
    IF i < first THEN i
    ELSE first - 1 + Max({j \in 1..(i + 1) : first + (j * (j - 1)) \div 2 <= i})

\* NS2BSIndx for a context of n states.
NS2BSIndx(n) == CASE n = 1 -> 0 [] n = 2 -> 2 [] n \in 3..11 -> 4 [] n > 11 -> 6

kInitBinEsc == <<15581, 7999, 22975, 18675, 25761, 23228, 26162, 24657>>
kExpEscape == <<25, 14, 9, 7, 5, 5, 4, 4, 4, 3, 3, 3, 2, 2, 2, 2>>

PPMD_GET_MEAN(p) == (p + 32) \div 128
PPMD_UPDATE_PROB_0(p) == UInt16(p + 2^PPMD_INT_BITS - PPMD_GET_MEAN(p))
PPMD_UPDATE_PROB_1(p) == UInt16(p - PPMD_GET_MEAN(p))

\* The first value of an entry: kInitBinEsc[k], in the scale of 14 bits, by n.
InitProb(k, n) == PPMD_BIN_SCALE - (kInitBinEsc[k + 1] \div 2^(7 - PPMD_INT_BITS)) \div n

ExpEscape(prob) == kExpEscape[(16 * prob) \div PPMD_BIN_SCALE + 1]

Entry(table, key, default) == IF key \in DOMAIN table THEN table[key] ELSE default
Put(table, key, value) == [k \in DOMAIN table \union {key} |->
                              IF k = key THEN value ELSE table[k]]

\* The entry of See is used for an escape: the key << >> is DummySee, which
\* nothing changes.
EscFreq(m, key, see) ==
    LET r == see.Summ \div 2^see.Shift IN
    IF key = << >>
    THEN [m |-> m, key |-> key, escFreq |-> 1]
    ELSE [m |-> [m EXCEPT !.See = Put(@, key, [see EXCEPT !.Summ = @ - r])],
          key |-> key, escFreq |-> r + Bool(r = 0)]

\* The two ways in which an entry learns: an escape, or a symbol was found.
SeeEscaped(m, key, n) ==
    IF key = << >> THEN m
    ELSE [m EXCEPT !.See[key].Summ = UInt16(@ + n)]

Ppmd_See_Update(m, key) ==
    IF key = << >> THEN m
    ELSE LET see == m.See[key] IN
         IF see.Shift >= PPMD_PERIOD_BITS THEN m
         ELSE IF see.Count # 1 THEN [m EXCEPT !.See[key].Count = @ - 1]
         ELSE [m EXCEPT !.See[key] =
                  [Summ |-> UInt16(2 * see.Summ), Shift |-> see.Shift + 1,
                   Count |-> (3 * 2^see.Shift) % 256]]

-------------------------------------------------------------------------------
(***************************************************************************)
(* What coding a symbol does to the model, whichever direction it goes.    *)
(***************************************************************************)
Counted(m) == AddSumm(AddFreq(m, m.found, 4), m.Min, 4)

\* The state of the symbol in MinContext becomes FoundState.
Found(m, sym) == [m EXCEPT !.found = <<m.Min, PlaceOf(Stats(m, m.Min), sym)>>]

Unmasked(m, mask) == SelectSeq(Stats(m, m.Min), LAMBDA s : s.sym \notin mask)

\* The first place up to which the frequencies exceed count.
PlaceAt(stats, count) == Min({i \in DOMAIN stats : FreqBefore(stats, i + 1) > count})
===============================================================================
