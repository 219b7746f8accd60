---------------------------- MODULE ContextCounts -----------------------------
(***************************************************************************)
(* The counts of a context: the frequencies of its states and their sum    *)
(* SummFreq, in which the escape has a share (src/lib/ppmd/Ppmd7.c,        *)
(* Ppmd8.c).  What the two models do here is of one form, with numbers of  *)
(* their own; where they differ the operators of PPMd7 end in 7 and those  *)
(* of PPMd8 in 8.                                                          *)
(***************************************************************************)
EXTENDS ContextTree

-------------------------------------------------------------------------------
(***************************************************************************)
(* The flags of a context of PPMd8.                                        *)
(***************************************************************************)
Flags(m, c) == m.ctx[c - TextSize].flags

HighFlag(flag, sym) == IF sym >= HiSymbol THEN {flag} ELSE {}

HighIn(stats) == UNION {HighFlag(8, stats[i].sym) : i \in DOMAIN stats}

-------------------------------------------------------------------------------
(***************************************************************************)
(* CreateSuccessors: the frequency a symbol starts with in a context below *)
(* c, and, in PPMd8, a state that is passed on the way counts once more.   *)
(***************************************************************************)
InheritedFreq7(m, c, sym) ==
    IF NumStats(m, c) = 1
    THEN Stats(m, c)[1].freq
    ELSE LET cf == Stats(m, c)[PlaceOf(Stats(m, c), sym)].freq - 1
             s0 == SummFreq(m, c) - NumStats(m, c) - cf
         IN  1 + IF 2 * cf <= s0
                 THEN Bool(5 * cf > s0)
                 ELSE (2 * cf + 3 * s0 - 1) \div (2 * s0)

InheritedFreq8(m, c, sym) ==
    IF NumStats(m, c) = 1
    THEN Stats(m, c)[1].freq
    ELSE LET cf == Stats(m, c)[PlaceOf(Stats(m, c), sym)].freq - 1
             s0 == SummFreq(m, c) - (NumStats(m, c) - 1) - cf
         IN  1 + IF 2 * cf <= s0
                 THEN Bool(5 * cf > s0)
                 ELSE (cf + 2 * s0 - 3) \div s0

Passed(m, c, i) ==
    LET f == Stats(m, c)[i].freq IN
    IF NumStats(m, c) # 1
    THEN IF f < MAX_FREQ - 9 THEN AddSumm(AddFreq(m, <<c, i>>, 1), c, 1) ELSE m
    ELSE AddFreq(m, <<c, i>>, Bool(NumStats(m, Suffix(m, c)) = 1 /\ f < 24))

\* The same for a state that ReduceOrder comes by.
Searched(m, c, i) ==
    LET f == Stats(m, c)[i].freq IN
    IF NumStats(m, c) # 1
    THEN IF f < MAX_FREQ - 9 THEN AddSumm(AddFreq(m, <<c, i>>, 2), c, 2) ELSE m
    ELSE AddFreq(m, <<c, i>>, Bool(f < 32))

-------------------------------------------------------------------------------
(***************************************************************************)
(* UpdateModel: a new state for a symbol in context c.                     *)
(***************************************************************************)

\* Room for one more state: a larger block, or the first one.
Expand7(m, c, ns) ==
    LET ns1 == NumStats(m, c)
        f1  == SharedFreq(Stats(m, c)[1].freq)
    IN  IF ns1 # 1
        THEN AddSumm(m, c, Bool(2 * ns1 < ns)
                           + 2 * Bool(4 * ns1 <= ns /\ SummFreq(m, c) <= 8 * ns1))
        ELSE [m EXCEPT !.ctx[c - TextSize] =
                [@ EXCEPT !.stats[1].freq = f1, !.summ = f1 + m.InitEsc + Bool(ns > 3)]]

Expand8(m, c, ns) ==
    LET ns1 == NumStats(m, c) - 1
        f1  == SharedFreq(Stats(m, c)[1].freq)
    IN  IF ns1 # 0
        THEN AddSumm(m, c, Bool(3 * ns1 + 1 < ns))
        ELSE [m EXCEPT !.ctx[c - TextSize] =
                [@ EXCEPT !.stats[1].freq = f1, !.summ = f1 + m.InitEsc + Bool(ns > 2)]]

\* The frequency of a new symbol in a context with the sum summ, and by how
\* much the sum grows.
NewFreq7(fFreq, s0, summ) ==
    LET cf == 2 * fFreq * (summ + 6)
        sf == s0 + summ
        n  == 4 + Bool(cf >= 9 * sf) + Bool(cf >= 12 * sf) + Bool(cf >= 15 * sf)
    IN  IF cf < 6 * sf
        THEN [freq |-> 1 + Bool(cf > sf) + Bool(cf >= 4 * sf), summ |-> 3]
        ELSE [freq |-> n, summ |-> n]

NewFreq8(fFreq, s0, summ) ==
    LET cf == 2 * fFreq * (summ + 6)
        sf == s0 + summ
        n  == 4 + Bool(cf > 9 * sf) + Bool(cf > 12 * sf) + Bool(cf > 15 * sf)
    IN  IF cf < 6 * sf
        THEN [freq |-> 1 + Bool(cf > sf) + Bool(cf >= 4 * sf), summ |-> 4]
        ELSE [freq |-> n, summ |-> n]

\* The state of the symbol of fs joins the others, with the frequency new.
Joined(m, c, fs, new, successor) ==
    AddSumm(WithStats(m, c, Append(Stats(m, c), [sym |-> fs.sym, freq |-> new.freq,
                                                 succ |-> successor])),
            c, new.summ)

WithNewState7(m, c, fs, ns, s0, successor) ==
    LET m1 == Expand7(m, c, ns)
    IN  Joined(m1, c, fs, NewFreq7(fs.freq, s0, SummFreq(m1, c)), successor)

WithNewState8(m, c, fs, ns, s0, successor) ==
    LET m1 == Expand8(m, c, ns)
    IN  [Joined(m1, c, fs, NewFreq8(fs.freq, s0, SummFreq(m1, c)), successor) EXCEPT
            !.ctx[c - TextSize].flags = @ \union HighFlag(8, fs.sym)]

-------------------------------------------------------------------------------
(***************************************************************************)
(* Rescale: all frequencies of MinContext are halved; at full order, where *)
(* nothing lies below, a symbol whose frequency becomes 0 goes.            *)
(***************************************************************************)

\* A fault: frequencies become 0 below full order too.
NoAdder(m) == 0

Adder(m) == Bool(m.OrderFall # 0)

\* The states after halving, without those at the end that have nothing left;
\* how many these are; and the sum, with what is left of the escape's share.
Halving(stats, summ, found, adder) ==
    LET all     == Halved(stats, found, adder)
        gone    == Cardinality({i \in DOMAIN all : all[i].freq = 0})
        escFreq == summ - SumFreq(stats) + gone
    IN  [left |-> SubSeq(all, 1, Len(all) - gone), gone |-> gone, escFreq |-> escFreq,
         summ |-> UInt16(SumFreq(all) + EscapeShare(escFreq))]

\* `do { Freq -= Freq >> 1; escFreq >>= 1; } while (escFreq > 1)`.
LoneFreq7(freq, escFreq) ==
    LET lone[e \in 0..escFreq] ==
            LET f == IF e \div 2 > 1 THEN lone[e \div 2] ELSE freq IN f - f \div 2
    IN  lone[escFreq]

LoneFreq8(freq, escFreq) ==
    IF (2 * freq + escFreq - 1) \div escFreq > MAX_FREQ \div 3
    THEN MAX_FREQ \div 3
    ELSE (2 * freq + escFreq - 1) \div escFreq

Rescale7(m) ==
    LET c == m.Min
        h == Halving(Stats(m, c), SummFreq(m, c), m.found[2], Adder(m))
        lone == <<[h.left[1] EXCEPT !.freq = LoneFreq7(@, h.escFreq)]>>
    IN  [m EXCEPT !.found = <<c, 1>>,
            !.ctx[c - TextSize] = IF h.gone # 0 /\ Len(h.left) = 1
                                  THEN [@ EXCEPT !.stats = lone, !.summ = 0]
                                  ELSE [@ EXCEPT !.stats = h.left, !.summ = h.summ]]

Rescale8(m) ==
    LET c == m.Min
        h == Halving(Stats(m, c), SummFreq(m, c), m.found[2], Adder(m))
        lone  == <<[h.left[1] EXCEPT !.freq = LoneFreq8(@, h.escFreq)]>>
        flags == IF h.gone = 0 THEN Flags(m, c)
                 ELSE (Flags(m, c) \ {8}) \union HighIn(h.left)
    IN  [m EXCEPT !.found = <<c, 1>>,
            !.ctx[c - TextSize] =
                IF h.gone # 0 /\ Len(h.left) = 1
                THEN [@ EXCEPT !.stats = lone, !.summ = 0,
                               !.flags = (Flags(m, c) \intersect {16}) \union HighIn(h.left)]
                ELSE [@ EXCEPT !.stats = h.left, !.summ = h.summ,
                               !.flags = flags \union {4}]]

Rescaled7(m) == IF FoundState(m).freq > MAX_FREQ THEN Rescale7(m) ELSE m
Rescaled8(m) == IF FoundState(m).freq > MAX_FREQ THEN Rescale8(m) ELSE m

\* Update1: the found state, which is not the first, counts, and changes places
\* with the one before it if it has more now.
Rises(m) ==
    LET st == Stats(m, m.Min) IN st[m.found[2]].freq > st[m.found[2] - 1].freq

Risen(m) == [WithStats(m, m.Min, Swapped(Stats(m, m.Min), m.found[2])) EXCEPT !.found[2] = @ - 1]

CountedUp7(m) == LET m1 == Counted(m) IN IF Rises(m1) THEN Rescaled7(Risen(m1)) ELSE m1
CountedUp8(m) == LET m1 == Counted(m) IN IF Rises(m1) THEN Rescaled8(Risen(m1)) ELSE m1

-------------------------------------------------------------------------------
(***************************************************************************)
(* What the counts have to be.                                             *)
(***************************************************************************)

\* Bytes hold the frequencies, and two bytes hold SummFreq.
ASSUME CountsAssumption ==
    /\ IsFiniteSet(Symbols) /\ Symbols = 0..(Cardinality(Symbols) - 1) /\ 0 \in Symbols
    /\ TextSize \in Nat
    /\ MAX_FREQ \in 8..246
    /\ Cardinality(Symbols) * (MAX_FREQ + 11) + 30 < 65536

\* The escape's share of SummFreq in a context of n states: its first value,
\* what each new state may add to it, and what the states that Rescale takes
\* away leave behind.
ShareLimit(n) == 6 * Cardinality(Symbols) + 20 + 5 * n

\* SummFreq exceeds the sum of the frequencies, which are at least 1 and at
\* most MAX_FREQ, by a share that is not beyond all bounds.
HasRoom(stats, summ) ==
    /\ SumFreq(stats) < summ /\ summ <= SumFreq(stats) + ShareLimit(Len(stats))
    /\ \A i \in 1..Len(stats) : stats[i].freq \in 1..MAX_FREQ

\* A state that is alone in its context has no sum, and may count further.
Roomy(m) == \A c \in Contexts(m) :
    /\ NumStats(m, c) \in 1..Cardinality(Symbols)
    /\ IF NumStats(m, c) = 1
       THEN Stats(m, c)[1].freq \in 1..255
       ELSE HasRoom(Stats(m, c), SummFreq(m, c))
===============================================================================
