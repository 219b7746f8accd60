---------------------------- MODULE StreamDecoder ----------------------------
(***************************************************************************)
(* The decode methods of the C extension, Ppmd7Decoder_decode and          *)
(* Ppmd8Decoder_decode in ext/_ppmdmodule.c, with the block list they      *)
(* collect their output in (lib/buffer/blockoutput.h).                     *)
(*                                                                         *)
(* A call gives the decoder what is left of the input of earlier calls,    *)
(* then its own data; it calls Ppmd7T_decode, the coroutine of             *)
(* DecodeHandoff.tla, until it has `length` bytes or the decoder asks for  *)
(* more input, growing the output between two calls of it; and it keeps a  *)
(* copy of the bytes the decoder did not read.                             *)
(*                                                                         *)
(* The bytes of the compressed stream are numbered 1, 2, 3... in the order *)
(* in which the client feeds them, 0 is memory nobody wrote.  Which bytes  *)
(* a symbol takes is left open.  The client keeps to the protocol of the   *)
(* documentation and the tests, see Protocol.                              *)
(***************************************************************************)
EXTENDS Integers, Sequences

CONSTANTS
    Variants,       \* the decoders looked at, of "ppmd7" and "ppmd8"
    DataSizes,      \* the numbers of bytes a call brings
    Lengths,        \* the length arguments, -1 for no limit
    HeaderSize,     \* bytes the first call must bring (5)
    BlockSizes,     \* BUFFER_BLOCK_SIZE
    IntMax,         \* INT_MAX
    AllocMayFail,   \* whether an allocation may fail
    MaxFed,         \* bound: bytes fed in all
    MaxStored       \* bound: bytes the decoder stores in one call

ASSUME ParametersAssumption ==
    /\ Variants \subseteq {"ppmd7", "ppmd8"}
    /\ DataSizes \subseteq Nat
    /\ Lengths \subseteq Int
    /\ HeaderSize \in Nat \ {0}
    /\ BlockSizes \in Seq(Nat \ {0}) /\ BlockSizes # << >>
    /\ IntMax \in Nat /\ \A n \in Lengths : n < IntMax
    /\ AllocMayFail \in BOOLEAN
    /\ MaxFed \in Nat /\ MaxStored \in Nat

VARIABLES
    variant,        \* the class of the object
    phase, inSize, inPos, outSize, outPos, quota, count, ret,
                    \* the decoder and its buffers, see DecodeHandoff
    inBytes,        \* what in->src points to
    input_buffer, in_begin, in_end,
                    \* unread bytes of earlier calls, where they begin and end
    inited2, eof, needs_input,
    blocks, allocated,
                    \* sizes of the output blocks, and their sum
    pc,             \* where the method is, see Steps
    length, use_input_buffer, remains,
                    \* its argument and locals
    outcome,        \* how the last call ended: "none", "bytes" or "error"
    delivered,      \* the size of the bytes object it returned
    fed, consumed, stored
                    \* history: bytes fed, bytes read or given up, and bytes
                    \* the decoder stored in this call

decoder == <<phase, inSize, inPos, outSize, outPos, quota, count, ret>>
input == <<inBytes, input_buffer, in_begin, in_end, use_input_buffer>>
object == <<variant, inited2, eof, needs_input>>
output == <<blocks, allocated>>
history == <<fed, consumed, stored>>
vars == <<decoder, input, object, output, pc, length, remains, outcome,
          delivered, history>>

Handoff == INSTANCE DecodeHandoff WITH
    InSizes <- 0..MaxFed,
    OutSizes <- 0..MaxStored,
    Lengths <- Lengths

\* "idle": no call.  "output": the input is prepared.  "init": so is the
\* output.  "call": about to call the decoder.  "run": inside of it.
\* "returned": back with a result.  "leave": out of the loop.  "dropped": the
\* object was deallocated.
Steps == {"idle", "output", "init", "call", "run", "returned", "leave",
          "dropped"}

Init ==
    /\ variant \in Variants
    /\ Handoff!Init
    /\ inBytes = << >>
    /\ input_buffer = << >> /\ in_begin = 0 /\ in_end = 0
    /\ inited2 = FALSE /\ eof = FALSE /\ needs_input = TRUE
    /\ blocks = << >> /\ allocated = 0
    /\ pc = "idle"
    /\ length = 0 /\ use_input_buffer = FALSE /\ remains = 0
    /\ outcome = "none" /\ delivered = 0
    /\ fed = 0 /\ consumed = 0 /\ stored = 0

\* Failing leaves the object unlocked and returns no bytes.  What the caller
\* had fed is not offered to the decoder again.
Raise ==
    /\ pc' = "idle"
    /\ outcome' = "error"
    /\ delivered' = 0

(***************************************************************************)
(* Preparing the input.                                                    *)
(***************************************************************************)

\* Bytes the decoder has not read yet, as they lie in input_buffer.
Unread == SubSeq(input_buffer, in_begin + 1, in_end)

\* The bytes of this call.
Data(n) == [i \in 1..n |-> fed + i]

\* memcpy to the beginning of buffer: what lies behind stays.
Overwrite(buffer, bytes, at) ==
    [i \in DOMAIN buffer |->
        IF i > at /\ i <= at + Len(bytes) THEN bytes[i - at] ELSE buffer[i]]

\* Make room behind the unread bytes: in a larger buffer, by moving them to
\* the front, or not at all.
MakeRoom(n) ==
    LET used_now == in_end - in_begin
        avail_now == Len(input_buffer) - in_end
        avail_total == Len(input_buffer) - used_now
    IN  IF avail_total < n
        THEN [buffer |-> Unread \o [i \in 1..n |-> 0], begin |-> 0]
        ELSE IF avail_now < n
        THEN [buffer |-> Overwrite(input_buffer, Unread, 0), begin |-> 0]
        ELSE [buffer |-> input_buffer, begin |-> in_begin]

NoUnread == in_begin = in_end

(***************************************************************************)
(* Faults: mistakes in the code that the properties must not let pass.     *)
(* They are not part of the specification.                                 *)
(***************************************************************************)

\* b'' starts again at the front of input_buffer.
UseUnreadFromStart(n) ==
    /\ ~NoUnread /\ n = 0
    /\ use_input_buffer' = TRUE
    /\ inBytes' = SubSeq(input_buffer, 1, in_end - in_begin)
    /\ UNCHANGED <<input_buffer, in_begin, in_end>>

-------------------------------------------------------------------------------

\* The data of the call is used in place.
UseData(n) ==
    /\ NoUnread
    /\ use_input_buffer' = FALSE
    /\ inBytes' = Data(n)
    /\ UNCHANGED <<input_buffer, in_begin, in_end>>

\* No data: go on with the unread bytes.
UseUnread(n) ==
    /\ ~NoUnread /\ n = 0
    /\ use_input_buffer' = TRUE
    /\ inBytes' = Unread
    /\ UNCHANGED <<input_buffer, in_begin, in_end>>

\* The data goes behind the unread bytes.
AppendData(n) ==
    /\ ~NoUnread /\ n > 0
    /\ use_input_buffer' = TRUE
    /\ LET room == MakeRoom(n)
           end == room.begin + (in_end - in_begin)
           buffer == Overwrite(room.buffer, Data(n), end)
       IN  /\ input_buffer' = buffer
           /\ in_begin' = room.begin
           /\ in_end' = end + n
           /\ inBytes' = SubSeq(buffer, room.begin + 1, end + n)

(***************************************************************************)
(* More faults, in what comes after the input is prepared.                 *)
(***************************************************************************)

\* The buffer of an earlier call is used again, large enough or not.
StoreUnreadReusing(bytes) == Overwrite(input_buffer, bytes, 0)

\* The first block does not regard max_length.
FirstBlockFixed == BlockSizes[1]

\* The fast path for one block, although that block is not full.
ResultSizeFirstBlock ==
    IF Len(blocks) = 1 \/ (Len(blocks) = 2 /\ outPos = 0)
    THEN blocks[1]
    ELSE allocated - (outSize - outPos)

\* Input is only asked for when nothing came out.
NeedsInput7WithoutOutput(end) == inPos = inSize /\ ~end /\ stored = 0

\* Lines 1285-1287 are missing.
NeedsInput8Kept(end) ==
    IF inPos # inSize \/ ret = Handoff!EndOfStream THEN FALSE
    ELSE needs_input

\* Line 1308 is missing.
NeedsInput8OnResult(end) ==
    ret # Handoff!EndOfStream /\ (ret = 0 \/ needs_input)

\* A result of 0 is taken for a reason to go on.
LoopEndsOnError == ret < 0 \/ remains' = 0

-------------------------------------------------------------------------------
(***************************************************************************)
(* The steps of a call.                                                    *)
(***************************************************************************)

\* What a client does: it stops at the end of the stream, it brings data when
\* it was asked for some, and it asks for at least one byte.
Protocol(n, len) ==
    /\ ~eof
    /\ needs_input => n > 0
    /\ len # 0

\* Lines 411-415: a stream starts with a header, and its first data holds it.
RejectShort(n) ==
    /\ pc = "idle" /\ Protocol(n, 1)
    /\ ~inited2 /\ n < HeaderSize
    /\ Raise
    /\ UNCHANGED <<decoder, input, object, output, length, remains, history>>

PrepareInput(n, len) ==
    /\ pc = "idle" /\ Protocol(n, len)
    /\ inited2 \/ n >= HeaderSize
    /\ fed + n <= MaxFed
    /\ UseData(n) \/ UseUnread(n) \/ AppendData(n)
    /\ Handoff!Feed(Len(inBytes'))
    /\ length' = len
    /\ remains' = IF len >= 0 THEN len ELSE IntMax
    /\ fed' = fed + n
    /\ stored' = 0
    /\ outcome' = "none" /\ delivered' = 0
    /\ pc' = "output"
    /\ UNCHANGED <<object, output, consumed>>

\* PyMem_Malloc of a larger input_buffer fails: the data is not taken.
PrepareInputFails(n) ==
    /\ pc = "idle" /\ Protocol(n, 1)
    /\ AllocMayFail
    /\ ~NoUnread /\ Len(input_buffer) - (in_end - in_begin) < n
    /\ Raise
    /\ UNCHANGED <<decoder, input, object, output, length, remains, history>>

FirstBlock ==
    IF length >= 0 /\ length < BlockSizes[1] THEN length ELSE BlockSizes[1]

\* OutputBuffer_InitAndGrow.
InitOutput ==
    /\ pc = "output"
    /\ Handoff!Offer(FirstBlock)
    /\ blocks' = <<FirstBlock>>
    /\ allocated' = FirstBlock
    /\ pc' = IF inited2 THEN "call" ELSE "init"
    /\ UNCHANGED <<input, object, length, remains, outcome, delivered, history>>

\* Data that was appended to input_buffer stays there, data used in place is
\* gone.
InitOutputFails ==
    /\ pc = "output"
    /\ AllocMayFail
    /\ Raise
    /\ consumed' = IF use_input_buffer THEN consumed ELSE fed
    /\ UNCHANGED <<decoder, input, object, output, length, remains, fed, stored>>

\* Ppmd7z_RangeDec_Init reads five bytes, Ppmd8_RangeDec_Init four, both on the
\* calling thread.
HeaderReads == IF variant = "ppmd7" THEN HeaderSize ELSE HeaderSize - 1

InitRange ==
    /\ pc = "init"
    /\ inPos' = HeaderReads
    /\ consumed' = consumed + HeaderReads
    /\ inited2' = TRUE
    /\ pc' = "call"
    /\ UNCHANGED <<phase, inSize, outSize, outPos, quota, count, ret, input,
                   variant, eof, needs_input, output, length, remains, outcome,
                   delivered, fed, stored>>

\* Not the header of a stream; the next call starts from its own data.
InitRangeFails ==
    /\ pc = "init"
    /\ inPos' \in {1, HeaderReads}
    /\ consumed' = fed
    /\ Raise
    /\ UNCHANGED <<phase, inSize, outSize, outPos, quota, count, ret, input,
                   object, output, length, remains, fed, stored>>

CallDecoder ==
    /\ pc = "call"
    /\ Handoff!Start(remains) \/ Handoff!Resume
    /\ pc' = "run"
    /\ UNCHANGED <<input, object, output, length, remains, outcome, delivered,
                   history>>

(***************************************************************************)
(* The decoder at work (DecodeHandoff.tla).                                *)
(***************************************************************************)

DecoderReads ==
    /\ pc = "run"
    /\ Handoff!Take
    /\ consumed' = consumed + 1
    /\ UNCHANGED <<input, object, output, pc, length, remains, outcome,
                   delivered, fed, stored>>

DecoderStores ==
    /\ pc = "run" /\ stored < MaxStored
    /\ Handoff!Store
    /\ stored' = stored + 1
    /\ UNCHANGED <<input, object, output, pc, length, remains, outcome,
                   delivered, fed, consumed>>

DecoderReturns ==
    /\ pc = "run"
    /\ \/ Handoff!Starve
       \/ \E r \in {Handoff!EndOfStream, Handoff!Corrupted, count} :
              Handoff!Finish(r)
    /\ pc' = "returned"
    /\ UNCHANGED <<input, object, output, length, remains, outcome, delivered,
                   history>>

(***************************************************************************)
(* After the decoder has returned.                                         *)
(***************************************************************************)

\* Lines 526-532.
LoopEnds == ret <= 0 \/ remains' = 0

SubtractResult == remains' = IF ret > 0 THEN remains - ret ELSE remains

LeaveLoop ==
    /\ pc = "returned"
    /\ SubtractResult
    /\ LoopEnds
    /\ pc' = "leave"
    /\ UNCHANGED <<decoder, input, object, output, length, outcome, delivered,
                   history>>

\* There is room left: call the decoder for the rest.
CallAgain ==
    /\ pc = "returned"
    /\ SubtractResult
    /\ ~LoopEnds
    /\ outPos # outSize
    /\ pc' = "call"
    /\ UNCHANGED <<decoder, input, object, output, length, outcome, delivered,
                   history>>

Rest == length - allocated

NextBlock ==
    LET size == BlockSizes[IF Len(blocks) < Len(BlockSizes)
                           THEN Len(blocks) + 1 ELSE Len(BlockSizes)]
    IN  IF length >= 0 /\ size > Rest THEN Rest ELSE size

\* OutputBuffer_Grow.
Grow ==
    /\ pc = "returned"
    /\ SubtractResult
    /\ ~LoopEnds
    /\ outPos = outSize
    /\ Handoff!Offer(NextBlock)
    /\ blocks' = Append(blocks, NextBlock)
    /\ allocated' = allocated + NextBlock
    /\ pc' = "call"
    /\ UNCHANGED <<input, object, length, outcome, delivered, history>>

\* The label error: the object is of no use any more.
Fail ==
    /\ eof' = TRUE /\ needs_input' = FALSE
    /\ in_begin' = 0 /\ in_end' = 0
    /\ consumed' = fed
    /\ Raise
    /\ UNCHANGED <<decoder, inBytes, use_input_buffer, variant, inited2, output,
                   length, fed, stored>>

GrowFails ==
    /\ pc = "returned"
    /\ AllocMayFail
    /\ SubtractResult
    /\ ~LoopEnds
    /\ outPos = outSize
    /\ UNCHANGED input_buffer
    /\ Fail

CorruptedInput ==
    /\ pc = "leave"
    /\ ret = Handoff!Corrupted
    /\ UNCHANGED <<remains, input_buffer>>
    /\ Fail

\* OutputBuffer_Finish: the size of the bytes object.
ResultSize ==
    IF \/ Len(blocks) = 1 /\ outPos = outSize
       \/ Len(blocks) = 2 /\ outPos = 0
    THEN blocks[1]
    ELSE allocated - (outSize - outPos)

\* Ppmd7, lines 558-571: needs_input follows from what was read.
NeedsInput7(end) == inPos = inSize /\ ~end

\* Ppmd8, lines 1285-1308: from the result, unless input is left.
NeedsInput8(end) ==
    IF inPos # inSize \/ ret = Handoff!EndOfStream THEN FALSE
    ELSE ret = 0 \/ needs_input

\* Ppmd7 takes Code = 0 for the end, whatever the decoder returned; Code is
\* not modelled and may be anything.
SetFlags ==
    \E codeIsZero \in BOOLEAN :
        LET end == \/ eof
                   \/ ret = Handoff!EndOfStream
                   \/ variant = "ppmd7" /\ codeIsZero
        IN  /\ eof' = end
            /\ needs_input' = IF variant = "ppmd7" THEN NeedsInput7(end)
                              ELSE NeedsInput8(end)

\* A new buffer, or the one there is when it is large enough.
StoreUnread(bytes) ==
    IF Len(input_buffer) < Len(bytes) THEN bytes
    ELSE Overwrite(input_buffer, bytes, 0)

KeepUnread ==
    IF inPos = inSize
    THEN IF use_input_buffer
         THEN in_begin' = 0 /\ in_end' = 0 /\ UNCHANGED input_buffer
         ELSE UNCHANGED <<input_buffer, in_begin, in_end>>
    ELSE IF use_input_buffer
         THEN /\ in_begin' = in_begin + inPos
              /\ UNCHANGED <<input_buffer, in_end>>
         ELSE LET rest == SubSeq(inBytes, inPos + 1, inSize)
              IN  /\ input_buffer' = StoreUnread(rest)
                  /\ in_begin' = 0
                  /\ in_end' = Len(rest)

\* The last block of a call; when there is no memory for the bytes object the
\* call raises, although everything else is done as ever.
Deliver ==
    /\ pc = "leave"
    /\ ret # Handoff!Corrupted
    /\ SetFlags
    /\ KeepUnread
    /\ pc' = "idle"
    /\ \/ outcome' = "bytes" /\ delivered' = ResultSize
       \/ AllocMayFail /\ outcome' = "error" /\ delivered' = 0
    /\ UNCHANGED <<decoder, inBytes, use_input_buffer, variant, inited2, output,
                   length, remains, history>>

\* PyMem_Malloc of a first or a larger input_buffer fails.
KeepUnreadFails ==
    /\ pc = "leave"
    /\ AllocMayFail
    /\ ret # Handoff!Corrupted
    /\ inPos # inSize /\ ~use_input_buffer
    /\ Len(input_buffer) < inSize - inPos
    /\ input_buffer' = << >>
    /\ UNCHANGED remains
    /\ Fail

\* Ppmd7Decoder_dealloc.
Dealloc ==
    /\ pc = "idle"
    /\ Handoff!Close
    /\ pc' = "dropped"
    /\ UNCHANGED <<input, object, output, length, remains, outcome, delivered,
                   history>>

-------------------------------------------------------------------------------

CallBegins ==
    \/ \E n \in DataSizes, len \in Lengths : PrepareInput(n, len)
    \/ \E n \in DataSizes : RejectShort(n)
    \/ \E n \in DataSizes : PrepareInputFails(n)

MethodStep ==
    \/ InitOutput \/ InitOutputFails
    \/ InitRange \/ InitRangeFails
    \/ CallDecoder
    \/ LeaveLoop \/ CallAgain \/ Grow \/ GrowFails
    \/ CorruptedInput \/ Deliver \/ KeepUnreadFails

DecoderStep == DecoderReads \/ DecoderStores \/ DecoderReturns

\* The object is gone.
Dropped == pc = "dropped" /\ UNCHANGED vars

Next == CallBegins \/ MethodStep \/ DecoderStep \/ Dealloc \/ Dropped

\* The method runs once it was called, and a call of the decoder returns: that
\* is CallReturns of ThreadDecoder.tla.
Fairness == WF_vars(MethodStep) /\ WF_vars(DecoderStep)

Spec == Init /\ [][Next]_vars
FairSpec == Spec /\ Fairness

-------------------------------------------------------------------------------
(***************************************************************************)
(* Properties.                                                             *)
(***************************************************************************)

\* Every variable holds a value of its C type, and the positions in
\* input_buffer are in order.
TypeOK ==
    /\ Len(inBytes) >= inPos /\ inPos \in Nat
    /\ in_begin \in Nat /\ in_end \in in_begin..Len(input_buffer)
    /\ inited2 \in BOOLEAN /\ eof \in BOOLEAN /\ needs_input \in BOOLEAN
    /\ use_input_buffer \in BOOLEAN
    /\ pc \in Steps
    /\ outcome \in {"none", "bytes", "error"} /\ delivered \in Nat
    /\ \A i \in DOMAIN blocks : blocks[i] \in Nat
    /\ allocated \in Nat

Inside == pc \in {"call", "run", "returned", "leave"}

From(first) == [i \in 1..(fed - first) |-> first + i]

\* The decoder gets every byte once and in the order it was fed, whichever
\* buffer it comes from: what it has not read is what it reads next.
BytesInOrder ==
    IF Inside THEN SubSeq(inBytes, inPos + 1, inSize) = From(consumed)
    ELSE pc = "idle" => Unread = From(consumed)

\* The bytes object holds what the decoder stored in this call, no byte less
\* and none of the uninitialised bytes of a block.
NothingLost == outcome = "bytes" => delivered = stored

\* No call returns more than it was asked for, although a resumed decoder goes
\* by the length of an earlier call: the blocks hold it back.
WithinLength == outcome = "bytes" /\ length >= 0 => delivered <= length

\* What ThreadDecoder.tla calls ResumeContract, and the Reader takes for
\* granted.
ResumeSafe ==
    pc = "call" /\ phase = "starved" => inPos < inSize /\ outPos < outSize

\* A decoder that waits for input says so.
StarvedAsksForInput == pc = "idle" /\ phase = "starved" /\ ~eof => needs_input

\* ppmd8.rst: when needs_input is true, all input data is exhausted.
NeedsInputMeansExhausted == pc = "idle" /\ needs_input => NoUnread

\* A call ends, although the number the loop counts down by is not what the
\* decoder stored since it last counted (_ppmdmodule.c, line 529).
CallEnds == pc # "idle" ~> pc \in {"idle", "dropped"}

(***************************************************************************)
(* What the documentation says and the code does not do.                   *)
(***************************************************************************)

\* ppmd7.rst, line 49, and ppmd8.rst, line 60: less than `length` bytes are
\* returned only "because size of input data is not enough to decode".
ShortMeansExhausted ==
    pc = "idle" /\ outcome = "bytes" /\ delivered < length /\ ~eof => NoUnread

\* blockoutput.h, lines 160-162: assert(rest > 0) in OutputBuffer_Grow.
GrowHasRest ==
    [][pc = "returned" /\ Len(blocks') > Len(blocks) /\ length >= 0 =>
           Rest > 0]_vars
===============================================================================
