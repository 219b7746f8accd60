-------------------------------- MODULE Codec ---------------------------------
(***************************************************************************)
(* Text to bytes and back, for both variants: the encoder codes what up to *)
(* MaxCalls calls of encode() pass it, then an end mark or none, and       *)
(* flushes; a decoder starts on the bytes.  Each has a model of its own    *)
(* and one end of the range coder, and nothing but the bytes passes        *)
(* between them: the text comes back only when the decoder's model takes   *)
(* the same steps as the encoder's did.                                    *)
(***************************************************************************)
EXTENDS SymbolCoder

CONSTANTS
    Variants,   \* "ppmd7", "ppmd8"
    Orders,     \* values of max_order
    Memories,   \* units of memory for the model
    Data,       \* arguments of encode()
    MaxCalls    \* the calls of encode() at most

\* kBot divides the weight of the top digit, so that a cut range ends below the
\* next multiple of it; a bit is coded with the scale of its probability.
ASSUME CodersAssumption ==
    /\ Base \in Nat /\ Base > 1 /\ kBot \in Nat /\ kBot > 0
    /\ R8!Top % kBot = 0 /\ kBot * Base <= R8!Top
    /\ BitTotal = PPMD_BIN_SCALE

VARIABLES
    text,       \* what was encoded so far
    calls,      \* the calls of encode() so far
    marked,     \* whether the end mark follows it
    enc, rc,    \* the encoder's model and range coder
    bytes,      \* what the flush left; the decoder's input
    dec, rd,    \* the decoder's model and range coder
    out         \* what was decoded so far

vars == <<variant, text, calls, marked, enc, rc, bytes, dec, rd, out>>

\* A component that is not at work.
Off == << >>

-------------------------------------------------------------------------------
Init ==
    /\ variant \in Variants
    /\ text = << >> /\ calls = 0 /\ marked = FALSE
    /\ \E order \in Orders, units \in Memories : enc = NewModel(order, units)
    /\ rc = RangeEnc_Init
    /\ bytes = << >> /\ dec = Off /\ rd = Off /\ out = << >>

\* A call of encode().
Encode == \E data \in Data :
    /\ enc # Off /\ calls < MaxCalls
    /\ \E e \in {FoldLeft(LAMBDA r, sym : EncodeSymbol(r.m, r.rc, sym),
                          [m |-> enc, rc |-> rc], data)} :
            enc' = e.m /\ rc' = e.rc
    /\ text' = text \o data /\ calls' = calls + 1
    /\ UNCHANGED <<variant, marked, bytes, dec, rd, out>>

\* flush(), with or without an end mark; a decoder starts on the bytes.
Flush == \E mark \in BOOLEAN :
    /\ enc # Off
    /\ marked' = mark
    /\ bytes' = RangeEnc_FlushData(IF mark THEN EncodeSymbol(enc, rc, EndMark).rc
                                    ELSE rc).out
    /\ rd' = RangeDec_Init(bytes')
    /\ dec' = NewModel(enc.MaxOrder, enc.Units)
    /\ enc' = Off /\ rc' = Off
    /\ UNCHANGED <<variant, text, calls, out>>

\* One turn of the decoder's loop: up to the end mark or, without one, as
\* many symbols as the client asks for.
Decode ==
    /\ dec # Off /\ (marked \/ Len(out) < Len(text))
    /\ \E d \in {DecodeSymbol(dec, rd, bytes)} :
            /\ dec' = IF d.sym \in Symbols THEN d.m ELSE Off
            /\ rd' = d.rd
            /\ out' = Append(out, d.sym)
    /\ UNCHANGED <<variant, text, calls, marked, enc, rc, bytes>>

Next == Encode \/ Flush \/ Decode

Spec == Init /\ [][Next]_vars

-------------------------------------------------------------------------------
(***************************************************************************)
(* Properties.                                                             *)
(***************************************************************************)
Message == IF marked THEN Append(text, EndMark) ELSE text

\* What comes out is what went in, symbol by symbol, and the end mark where
\* there is one: the decoder's model took every step the encoder's took.
RoundTrip == rd # Off => rd.Range # 0 /\ IsPrefix(out, Message)

\* The decoder takes the last byte with the last symbol, never one more: the
\* stream after it is not touched.  Ppmd7 then has Code = 0, the test of
\* Ppmd7z_RangeDec_IsFinishedOK.
ConsumesAll == rd # Off =>
    /\ rd.pos <= Len(bytes)
    /\ out = Message => /\ rd.pos = Len(bytes)
                        /\ rd.Code = 0

\* Between symbols the encoder's interval is wide enough for the next one and
\* does not overflow: in PPMd7 a carry never meets a largest digit in Cache,
\* in PPMd8 there is no carry.
IntervalKept == rc # Off =>
    IF Is7
    THEN rc.Range >= R7!Top /\ (rc.Cache = Base - 1 => rc.Low + rc.Range <= R7!Full)
    ELSE rc.Range >= kBot /\ rc.Low + rc.Range <= R8!Full

\* The models at work.
Models == {m \in {enc, dec} : m # Off}

\* A context has no symbol that its suffix lacks, and the root has all: the
\* search loops run without a bound, and escapes count masked symbols by
\* NumStats alone.
Nested == \A m \in Models : \A c \in Contexts(m) :
    IF Suffix(m, c) = NULL
    THEN SymbolsOf(Stats(m, c)) = Symbols
    ELSE SymbolsOf(Stats(m, c)) \subseteq SymbolsOf(Stats(m, Suffix(m, c)))

\* An escape always has room: SummFreq exceeds the sum of the frequencies, by
\* a share that stays bounded, and these are at least 1 and at most MAX_FREQ.
EscapeRoom == \A m \in Models : Roomy(m)

\* Only the root has symbols without a successor.  A successor in the text is
\* the place behind the symbol it belongs to, and the successor of a symbol in
\* the suffix of a context is its successor there or that context's suffix.
SuccessorsTell == \A m \in Models : \A c \in Contexts(m) : \A i \in 1..NumStats(m, c) :
    LET s == Stats(m, c)[i]
        d == Suffix(m, c)
        u == Stats(m, d)[PlaceOf(Stats(m, d), s.sym)].succ
    IN  CASE s.succ = NULL -> d = NULL
          [] s.succ \in 1..TextSize ->
                s.succ - 1 \in DOMAIN m.text /\ m.text[s.succ - 1] = s.sym
          [] OTHER -> d = NULL \/ u \in {s.succ, Suffix(m, s.succ)}
===============================================================================
