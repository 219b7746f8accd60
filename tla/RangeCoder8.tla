----------------------------- MODULE RangeCoder8 ------------------------------
(***************************************************************************)
(* The carryless range coder of PPMd8 (src/lib/ppmd/Ppmd8Enc.c,            *)
(* Ppmd8Dec.c).  It writes the top digit of Low as soon as Low and         *)
(* Low + Range agree on it; when they do not and Range becomes too small,  *)
(* it gives up the part of the interval above the next multiple of kBot,   *)
(* so that no carry can come.  The decoder does the same to its own Low    *)
(* and Range.  Digits have 8 bits in the code: Base is 256 and kBot 2^15.  *)
(***************************************************************************)
EXTENDS Integers, Sequences

\* CodersAssumption in Codec.tla says what is assumed of them.
CONSTANTS
    Base,       \* the number of digits
    kBot,       \* the least Range that is coded with
    BitTotal    \* PPMD_BIN_SCALE, 2^14 in the code

Top  == Base * Base * Base       \* kTop, 2^24
Full == Base * Top               \* 2^32, the first value UInt32 cannot hold

-------------------------------------------------------------------------------
(***************************************************************************)
(* Both directions.                                                        *)
(***************************************************************************)

\* `(Low ^ (Low + Range)) < kTop`: the same top digit, in UInt32.
SameTop(c) == c.Low \div Top = ((c.Low + c.Range) % Full) \div Top

Narrow(c) == c.Range < kBot

\* A fault: a narrow interval stays as it is.
CutNothing(c) == c

\* `Range = (0 - Low) & (kBot - 1)`, when the top digits differ.
Cut(c) == IF SameTop(c) THEN c ELSE [c EXCEPT !.Range = (0 - c.Low) % kBot]

\* The coder after one digit was passed on.
ShiftOut(c) == [c EXCEPT !.Range = (@ * Base) % Full, !.Low = (@ * Base) % Full]

\* The three ways in which a symbol or a bit narrows the interval.
Part(c, start, size, total) ==
    LET r == c.Range \div total IN
    [c EXCEPT !.Low = (@ + start * r) % Full, !.Range = r * size]

-------------------------------------------------------------------------------
(***************************************************************************)
(* The encoder: Low and Range of CPpmd8, and the digits it has written.    *)
(***************************************************************************)
RangeEnc_Init == [Low |-> 0, Range |-> Full - 1, out |-> << >>]

EncTurn(rc) ==
    IF SameTop(rc) \/ Narrow(rc)
    THEN LET c == Cut(rc) IN [ShiftOut(c) EXCEPT !.out = Append(@, rc.Low \div Top)]
    ELSE rc

\* The loop of RangeEnc_Normalize.  Five turns are enough: a Range of at least
\* 1 is not below kBot after two, and one that was cut, to at least 1, is not
\* below Top after three more.
RangeEnc_Normalize(rc) == EncTurn(EncTurn(EncTurn(EncTurn(EncTurn(rc)))))

RangeEnc_Encode(rc, start, size, total) == RangeEnc_Normalize(Part(rc, start, size, total))
RangeEnc_EncodeBit_0(rc, size0) == RangeEnc_Encode(rc, 0, size0, BitTotal)
RangeEnc_EncodeBit_1(rc, size0) == RangeEnc_Encode(rc, size0, BitTotal - size0, BitTotal)

RangeEnc_FlushData(rc) ==
    [rc EXCEPT !.out = @ \o <<rc.Low \div Top, (rc.Low \div (Base * Base)) % Base,
                              (rc.Low \div Base) % Base, rc.Low % Base>>]

-------------------------------------------------------------------------------
(***************************************************************************)
(* The decoder: Code is the value read so far less Low.  A digit past the  *)
(* end of the input reads as 0 here, and pos tells that it happened.       *)
(***************************************************************************)
Digit(input, i) == IF i <= Len(input) THEN input[i] ELSE 0

\* None stands for the False that RangeDec_Init returns.
None == [Low |-> 0, Range |-> 0, Code |-> 0, pos |-> 0]

RangeDec_Init(input) ==
    LET D(i) == Digit(input, i)
        code == ((D(1) * Base + D(2)) * Base + D(3)) * Base + D(4)
    IN  IF code < Full - 1
        THEN [Low |-> 0, Range |-> Full - 1, Code |-> code, pos |-> 4]
        ELSE None

DecTurn(rd, input) ==
    IF SameTop(rd) \/ Narrow(rd)
    THEN LET c == Cut(rd)
         IN  [ShiftOut(c) EXCEPT !.pos = @ + 1,
                 !.Code = (@ * Base + Digit(input, rd.pos + 1)) % Full]
    ELSE rd

RangeDec_GetThreshold(rd, total) == rd.Code \div (rd.Range \div total)

\* RangeDec_Decode after the division of Range by total.
RangeDec_Decode(rd, input, start, size, total) ==
    LET c == [Part(rd, start, size, total) EXCEPT
                 !.Code = @ - start * (rd.Range \div total)]
        Turn(d) == DecTurn(d, input)
    IN  Turn(Turn(Turn(Turn(Turn(c)))))

\* A bit is coded as a symbol of BitTotal.
DecodedBit(rd, size0) == IF RangeDec_GetThreshold(rd, BitTotal) < size0 THEN 0 ELSE 1

Range_DecodeBit(rd, input, size0) ==
    LET bit == DecodedBit(rd, size0) IN
    RangeDec_Decode(rd, input, bit * size0,
                    IF bit = 0 THEN size0 ELSE BitTotal - size0, BitTotal)
===============================================================================
