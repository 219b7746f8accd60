----------------------------- MODULE SymbolCoder ------------------------------
(***************************************************************************)
(* One symbol through a model and a range coder, in either direction: the  *)
(* form that Ppmd7_EncodeSymbol and Ppmd8_EncodeSymbol share, and with     *)
(* them Ppmd7_DecodeSymbol and Ppmd8_DecodeSymbol (src/lib/ppmd/           *)
(* Ppmd7Enc.c, Ppmd8Enc.c, Ppmd7Dec.c, Ppmd8Dec.c).  The symbol is looked  *)
(* for in MinContext and then, after an escape, in the suffixes that have  *)
(* more symbols than were tried already.  What the two variants do to the  *)
(* model and to the range coder is taken from the modules of each.         *)
(***************************************************************************)
EXTENDS ContextCounts

CONSTANTS
    Base, kBot, BitTotal    \* of the range coders

VARIABLE variant            \* "ppmd7" or "ppmd8"

M7 == INSTANCE ContextModel7
M8 == INSTANCE ContextModel8
R7 == INSTANCE RangeCoder7
R8 == INSTANCE RangeCoder8

Is7 == variant = "ppmd7"

EndMark == -1
DataError == -2

-------------------------------------------------------------------------------
(***************************************************************************)
(* The operations of each variant.                                         *)
(***************************************************************************)
NewModel(order, units) ==
    IF Is7 THEN M7!Restart(order, units) ELSE M8!Restart(order, units)

Update1_0(m) == IF Is7 THEN M7!Update1_0(m) ELSE M8!Update1_0(m)
Update1(m)   == IF Is7 THEN M7!Update1(m) ELSE M8!Update1(m)
Update2(m)   == IF Is7 THEN M7!Update2(m) ELSE M8!Update2(m)
UpdateBin(m) == IF Is7 THEN M7!UpdateBin(m) ELSE M8!UpdateBin(m)

\* PPMd8 keeps the flags in its contexts and has no HiBitsFlag.
WithHiBits(m) == IF Is7 THEN M7!WithHiBits(m) ELSE m

BinIndex(m)     == IF Is7 THEN M7!BinIndex(m) ELSE M8!BinIndex(m)
BinProb(m, key) == IF Is7 THEN M7!BinProb(m, key) ELSE M8!BinProb(m, key)

MakeEscFreq(m, numMasked) ==
    IF Is7 THEN M7!MakeEscFreq(m, numMasked) ELSE M8!MakeEscFreq(m, numMasked)

RangeEnc_Init == IF Is7 THEN R7!RangeEnc_Init ELSE R8!RangeEnc_Init

RangeEnc_Encode(rc, start, size, total) ==
    IF Is7 THEN R7!RangeEnc_Encode(rc, start, size, total)
           ELSE R8!RangeEnc_Encode(rc, start, size, total)

RangeEnc_EncodeBit_0(rc, size0) ==
    IF Is7 THEN R7!RangeEnc_EncodeBit_0(rc, size0) ELSE R8!RangeEnc_EncodeBit_0(rc, size0)

RangeEnc_EncodeBit_1(rc, size0) ==
    IF Is7 THEN R7!RangeEnc_EncodeBit_1(rc, size0) ELSE R8!RangeEnc_EncodeBit_1(rc, size0)

RangeEnc_FlushData(rc) ==
    IF Is7 THEN R7!RangeEnc_FlushData(rc) ELSE R8!RangeEnc_FlushData(rc)

RangeDec_Init(input) == IF Is7 THEN R7!RangeDec_Init(input) ELSE R8!RangeDec_Init(input)

Range_GetThreshold(rd, total) ==
    IF Is7 THEN R7!Range_GetThreshold(rd, total) ELSE R8!RangeDec_GetThreshold(rd, total)

Range_Decode(rd, input, start, size, total) ==
    IF Is7 THEN R7!Range_Decode(rd, input, start, size, total)
           ELSE R8!RangeDec_Decode(rd, input, start, size, total)

DecodedBit(rd, size0) ==
    IF Is7 THEN R7!DecodedBit(rd, size0) ELSE R8!DecodedBit(rd, size0)

Range_DecodeBit(rd, input, size0) ==
    IF Is7 THEN R7!Range_DecodeBit(rd, input, size0) ELSE R8!Range_DecodeBit(rd, input, size0)

-------------------------------------------------------------------------------
(***************************************************************************)
(* What both directions share.                                             *)
(***************************************************************************)

\* No state was found in MinContext, which has several.
EscapeFrom(m) ==
    [WithHiBits(m) EXCEPT !.PrevSuccess = 0]

\* The suffix to go on with: one that has more symbols than are masked.
RECURSIVE Descend(_, _)
Descend(m, numMasked) ==
    LET c  == Suffix(m, m.Min)
        m1 == [m EXCEPT !.OrderFall = @ + 1]
    IN  IF c = NULL THEN [m |-> m1, ended |-> TRUE]
        ELSE IF NumStats(m, c) = numMasked
        THEN Descend([m1 EXCEPT !.Min = c], numMasked)
        ELSE [m |-> [m1 EXCEPT !.Min = c], ended |-> FALSE]

\* MinContext has one state, and key is the entry of its probability: what
\* coding the bit does to the model.
BinFound(m, key) ==
    UpdateBin([m EXCEPT !.BinSumm = Put(@, key, PPMD_UPDATE_PROB_0(BinProb(m, key))),
                        !.found = <<m.Min, 1>>])

BinEscaped(m, key) ==
    LET prob == PPMD_UPDATE_PROB_1(BinProb(m, key)) IN
    [m EXCEPT !.BinSumm = Put(@, key, prob), !.PrevSuccess = 0,
              !.InitEsc = ExpEscape(prob)]

-------------------------------------------------------------------------------
(***************************************************************************)
(* Encoding: the model and the range coder after it.                       *)
(***************************************************************************)
RECURSIVE EncodeEscaped(_, _, _, _)
EncodeEscaped(m, rc, sym, mask) ==
    LET down  == Descend(m, NumStats(m, m.Min))
        esc   == MakeEscFreq(down.m, NumStats(m, m.Min))
        ps    == Unmasked(esc.m, mask)
        sum   == SumFreq(ps)
        i     == PlaceOf(ps, sym)
        total == sum + esc.escFreq
    IN  IF down.ended
        THEN [m |-> down.m, rc |-> rc]
        ELSE IF sym \in SymbolsOf(ps)
        THEN [m  |-> Update2(Found(Ppmd_See_Update(esc.m, esc.key), sym)),
              rc |-> RangeEnc_Encode(rc, FreqBefore(ps, i), ps[i].freq, total)]
        ELSE EncodeEscaped(SeeEscaped(esc.m, esc.key, total),
                           RangeEnc_Encode(rc, sum, esc.escFreq, total),
                           sym, mask \union SymbolsOf(ps))

EncodeInStats(m, rc, sym) ==
    LET stats == Stats(m, m.Min)
        summ  == SummFreq(m, m.Min)
        i     == PlaceOf(stats, sym)
        sum   == SumFreq(stats)
    IN  IF sym \in SymbolsOf(stats)
        THEN [m  |-> IF i = 1 THEN Update1_0(Found(m, sym))
                     ELSE Update1(Found([m EXCEPT !.PrevSuccess = 0], sym)),
              rc |-> RangeEnc_Encode(rc, FreqBefore(stats, i), stats[i].freq, summ)]
        ELSE EncodeEscaped(EscapeFrom(m), RangeEnc_Encode(rc, sum, summ - sum, summ),
                           sym, SymbolsOf(stats))

EncodeBinary(m0, rc, sym) ==
    LET m    == WithHiBits(m0)
        key  == BinIndex(m0)
        one  == Stats(m, m.Min)[1].sym
    IN  IF sym = one
        THEN [m |-> BinFound(m, key), rc |-> RangeEnc_EncodeBit_0(rc, BinProb(m, key))]
        ELSE EncodeEscaped(BinEscaped(m, key), RangeEnc_EncodeBit_1(rc, BinProb(m, key)),
                           sym, {one})

EncodeSymbol(m, rc, sym) ==
    IF NumStats(m, m.Min) # 1 THEN EncodeInStats(m, rc, sym) ELSE EncodeBinary(m, rc, sym)

-------------------------------------------------------------------------------
(***************************************************************************)
(* Decoding: the symbol, EndMark, or DataError for a threshold that no     *)
(* encoder leaves; and the model and the range coder after it.             *)
(***************************************************************************)
RECURSIVE DecodeEscaped(_, _, _, _)
DecodeEscaped(m, rd, input, mask) ==
    LET down  == Descend(m, NumStats(m, m.Min))
        esc   == MakeEscFreq(down.m, NumStats(m, m.Min))
        ps    == Unmasked(esc.m, mask)
        hiCnt == SumFreq(ps)
        freqSum == esc.escFreq + hiCnt
        count == Range_GetThreshold(rd, freqSum)
        i     == PlaceAt(ps, count)
    IN  CASE down.ended -> [m |-> down.m, rd |-> rd, sym |-> EndMark]
          [] ~down.ended /\ count < hiCnt ->
                [m   |-> Update2(Found(Ppmd_See_Update(esc.m, esc.key), ps[i].sym)),
                 rd  |-> Range_Decode(rd, input, FreqBefore(ps, i), ps[i].freq, freqSum),
                 sym |-> ps[i].sym]
          [] ~down.ended /\ count >= freqSum -> [m |-> esc.m, rd |-> rd, sym |-> DataError]
          [] OTHER ->
                DecodeEscaped(SeeEscaped(esc.m, esc.key, freqSum),
                              Range_Decode(rd, input, hiCnt, freqSum - hiCnt, freqSum),
                              input, mask \union SymbolsOf(ps))

DecodeInStats(m, rd, input) ==
    LET stats == Stats(m, m.Min)
        summ  == SummFreq(m, m.Min)
        hiCnt == SumFreq(stats)
        count == Range_GetThreshold(rd, summ)
        i     == PlaceAt(stats, count)
        m1    == [m EXCEPT !.PrevSuccess = 0]
    IN  CASE count < hiCnt ->
                [m   |-> IF i = 1 THEN Update1_0(Found(m, stats[i].sym))
                         ELSE Update1(Found(m1, stats[i].sym)),
                 rd  |-> Range_Decode(rd, input, FreqBefore(stats, i), stats[i].freq, summ),
                 sym |-> stats[i].sym]
          [] count >= summ -> [m |-> m1, rd |-> rd, sym |-> DataError]
          [] OTHER ->
                DecodeEscaped(EscapeFrom(m),
                              Range_Decode(rd, input, hiCnt, summ - hiCnt, summ),
                              input, SymbolsOf(stats))

DecodeBinary(m0, rd, input) ==
    LET m    == WithHiBits(m0)
        key  == BinIndex(m0)
        one  == Stats(m, m.Min)[1].sym
        prob == BinProb(m, key)
        next == Range_DecodeBit(rd, input, prob)
    IN  IF DecodedBit(rd, prob) = 0
        THEN [m |-> BinFound(m, key), rd |-> next, sym |-> one]
        ELSE DecodeEscaped(BinEscaped(m, key), next, input, {one})

DecodeSymbol(m, rd, input) ==
    IF NumStats(m, m.Min) # 1 THEN DecodeInStats(m, rd, input) ELSE DecodeBinary(m, rd, input)
===============================================================================
