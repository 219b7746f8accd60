----------------------------- MODULE RangeCoder7 ------------------------------
(***************************************************************************)
(* The range coder of PPMd7 (src/lib/ppmd/Ppmd7Enc.c, Ppmd7Dec.c).  The    *)
(* encoder narrows an interval Low .. Low + Range and writes its leading   *)
(* digits; a digit that a carry may still change is held back in Cache,    *)
(* with the run of largest digits behind it counted in CacheSize.  The     *)
(* code works with digits of 8 bits, so Base is 256 there; Base, and the   *)
(* BitTotal of 2^14 by which a bit is coded, are parameters here.          *)
(***************************************************************************)
EXTENDS Integers, Sequences

\* CodersAssumption in Codec.tla says what is assumed of them.
CONSTANTS
    Base,       \* the number of digits: 256 in the code
    BitTotal    \* PPMD_BIN_SCALE, 2^14 in the code

Top  == Base * Base * Base       \* kTopValue, 2^24
Full == Base * Top               \* 2^32, the first value UInt32 cannot hold
LastDigit == Base - 1            \* 0xFF

-------------------------------------------------------------------------------
(***************************************************************************)
(* The encoder: a record of the fields of CPpmd7z_RangeEnc, with out for   *)
(* the digits given to IByteOut_Write.                                     *)
(***************************************************************************)
RangeEnc_Init == [Low |-> 0, Range |-> Full - 1, Cache |-> 0, CacheSize |-> 1,
                  out |-> << >>]

Carry(rc) == rc.Low \div Full

\* Whether the top digit of Low is settled: a carry has come, or none can.
Settled(rc) == rc.Low % Full < LastDigit * Top \/ Carry(rc) # 0

\* A fault: the carry goes no further than the first digit.
EmittedCarryStops(rc) ==
    [i \in 1..rc.CacheSize |-> IF i = 1 THEN (rc.Cache + Carry(rc)) % Base ELSE LastDigit]

Emitted(rc) == [i \in 1..rc.CacheSize |->
                    ((IF i = 1 THEN rc.Cache ELSE LastDigit) + Carry(rc)) % Base]

RangeEnc_ShiftLow(rc) ==
    LET low == (rc.Low % Top) * Base IN
    IF Settled(rc)
    THEN [rc EXCEPT !.Low = low, !.out = @ \o Emitted(rc), !.CacheSize = 1,
                    !.Cache = (rc.Low % Full) \div Top]
    ELSE [rc EXCEPT !.Low = low, !.CacheSize = @ + 1]

\* `while (Range < kTopValue)`: a Range of at least 1 needs at most three turns.
EncShift(rc) == IF rc.Range < Top
                THEN RangeEnc_ShiftLow([rc EXCEPT !.Range = @ * Base])
                ELSE rc

EncNormalize(rc) == EncShift(EncShift(EncShift(rc)))

RangeEnc_Encode(rc, start, size, total) ==
    LET r == rc.Range \div total IN
    EncNormalize([rc EXCEPT !.Low = @ + start * r, !.Range = r * size])

RangeEnc_EncodeBit_0(rc, size0) ==
    EncNormalize([rc EXCEPT !.Range = (@ \div BitTotal) * size0])

RangeEnc_EncodeBit_1(rc, size0) ==
    LET newBound == (rc.Range \div BitTotal) * size0 IN
    EncNormalize([rc EXCEPT !.Low = @ + newBound, !.Range = @ - newBound])

\* A fault: the cached digit is forgotten.
FlushFour(rc) ==
    LET S(r) == RangeEnc_ShiftLow(r) IN S(S(S(S(rc))))

RangeEnc_FlushData(rc) ==
    LET S(r) == RangeEnc_ShiftLow(r) IN S(S(S(S(S(rc)))))

-------------------------------------------------------------------------------
(***************************************************************************)
(* The decoder: Code is the value read so far, less the Low of the         *)
(* encoder; pos counts the digits taken from the Reader.  A digit past the *)
(* end of the input reads as 0 here, and pos tells that it happened.       *)
(***************************************************************************)
Digit(input, i) == IF i <= Len(input) THEN input[i] ELSE 0

\* None stands for the False that RangeDec_Init returns.
None == [Range |-> 0, Code |-> 0, pos |-> 0]

RangeDec_Init(input) ==
    LET D(i) == Digit(input, i)
        code == ((D(2) * Base + D(3)) * Base + D(4)) * Base + D(5)
    IN  IF Digit(input, 1) = 0 /\ code < Full - 1
        THEN [Range |-> Full - 1, Code |-> code, pos |-> 5]
        ELSE None

DecShift(rd, input) ==
    IF rd.Range < Top
    THEN [Range |-> rd.Range * Base, pos |-> rd.pos + 1,
          Code |-> (rd.Code * Base + Digit(input, rd.pos + 1)) % Full]
    ELSE rd

\* The decoder shifts twice at most, where the encoder loops.
Range_Normalize(rd, input) == DecShift(DecShift(rd, input), input)

Range_GetThreshold(rd, total) == rd.Code \div (rd.Range \div total)

\* Range_Decode after the Range_GetThreshold that divided Range by total.
Range_Decode(rd, input, start, size, total) ==
    LET r == rd.Range \div total IN
    Range_Normalize([rd EXCEPT !.Code = @ - start * r, !.Range = r * size], input)

BitBound(rd, size0) == (rd.Range \div BitTotal) * size0

DecodedBit(rd, size0) == IF rd.Code < BitBound(rd, size0) THEN 0 ELSE 1

Range_DecodeBit(rd, input, size0) ==
    LET newBound == BitBound(rd, size0) IN
    Range_Normalize(
        IF DecodedBit(rd, size0) = 0
        THEN [rd EXCEPT !.Range = newBound]
        ELSE [rd EXCEPT !.Code = @ - newBound, !.Range = @ - newBound], input)
===============================================================================
