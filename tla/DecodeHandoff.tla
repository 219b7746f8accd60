---------------------------- MODULE DecodeHandoff ----------------------------
(***************************************************************************)
(* What the threaded decoder of lib/buffer/ThreadDecoder.c promises the    *)
(* code that calls it, with the thread, the mutex and the condition        *)
(* variables taken away: Ppmd7T_decode and Ppmd8T_decode behave as a       *)
(* coroutine.  The client and the decoder own the two buffers in turn; a   *)
(* decoder that runs out of input in the middle of a symbol is suspended   *)
(* there, and the next call resumes it where it stopped.                   *)
(*                                                                         *)
(* Two facts of the C code that its signature does not show are part of    *)
(* the promise, because the callers depend on them (StreamDecoder.tla):    *)
(*   - a resumed decoder keeps the max_length of the call that STARTED it  *)
(*     (quota), the length of the resuming call is ignored;                *)
(*   - the length it finally returns counts every byte stored since it was *)
(*     started, those of earlier calls included (count).                   *)
(***************************************************************************)
EXTENDS Integers

CONSTANTS
    InSizes,    \* the sizes an input buffer may be given, naturals
    OutSizes,   \* the sizes an output buffer may be given, naturals
    Lengths     \* the max_length arguments of a call, integers

\* PPMD_RESULT_EOF and PPMD_RESULT_ERROR, as the decoder returns them.
EndOfStream == -1
Corrupted == -2

VARIABLES
    phase,             \* who owns the buffers, see Phases
    inSize, inPos,     \* the InBuffer
    outSize, outPos,   \* the OutBuffer
    quota,             \* max_length of the call that started the decoder
    count,             \* bytes the decoder stored since it was started
    ret                \* what the last call returned

vars == <<phase, inSize, inPos, outSize, outPos, quota, count, ret>>

\* "ready": the client owns the buffers, no decoding is under way.
\* "starved": the client owns them, a decoding waits for input.
\* "running": a call is in progress, the decoder owns them.
\* "resumed": so it is, and the decoder is to fetch the byte it waited for.
\* "closed": the decoder was freed; nothing is said of the buffers any more.
Phases == {"ready", "starved", "running", "resumed", "closed"}

ClientOwns == phase \in {"ready", "starved"}

Init ==
    /\ phase = "ready"
    /\ inSize = 0 /\ inPos = 0
    /\ outSize = 0 /\ outPos = 0
    /\ quota = 0 /\ count = 0 /\ ret = 0

(***************************************************************************)
(* The client's steps.                                                     *)
(***************************************************************************)

Feed(n) ==
    /\ ClientOwns
    /\ inSize' = n
    /\ inPos' = 0
    /\ UNCHANGED <<phase, outSize, outPos, quota, count, ret>>

Offer(n) ==
    /\ ClientOwns
    /\ outSize' = n
    /\ outPos' = 0
    /\ UNCHANGED <<phase, inSize, inPos, quota, count, ret>>

Start(length) ==
    /\ phase = "ready"
    /\ phase' = "running"
    /\ quota' = length
    /\ count' = 0
    /\ UNCHANGED <<inSize, inPos, outSize, outPos, ret>>

\* A suspended decoder is only resumed with something to read and room to
\* store: it looks at neither before it goes on.
Resume ==
    /\ phase = "starved"
    /\ inPos < inSize
    /\ outPos < outSize
    /\ phase' = "resumed"
    /\ UNCHANGED <<inSize, inPos, outSize, outPos, quota, count, ret>>

Close ==
    /\ ClientOwns
    /\ phase' = "closed"
    /\ inSize' = 0 /\ inPos' = 0
    /\ outSize' = 0 /\ outPos' = 0
    /\ quota' = 0 /\ count' = 0 /\ ret' = 0

(***************************************************************************)
(* The decoder's steps.                                                    *)
(***************************************************************************)

\* A symbol is only begun when the quota and the buffer have room for it, and
\* only in the middle of a symbol is input read, or missed.
HasRoom == count < quota /\ outPos < outSize

Take ==
    /\ phase \in {"running", "resumed"}
    /\ HasRoom
    /\ inPos < inSize
    /\ inPos' = inPos + 1
    /\ phase' = "running"
    /\ UNCHANGED <<inSize, outSize, outPos, quota, count, ret>>

Store ==
    /\ phase = "running"
    /\ HasRoom
    /\ outPos' = outPos + 1
    /\ count' = count + 1
    /\ UNCHANGED <<phase, inSize, inPos, outSize, quota, ret>>

Starve ==
    /\ phase = "running"
    /\ HasRoom
    /\ inPos = inSize
    /\ phase' = "starved"
    /\ ret' = 0
    /\ UNCHANGED <<inSize, inPos, outSize, outPos, quota, count>>

\* The decoder stops for one of four reasons: the length asked for, a full
\* output buffer, the end of the stream, an impossible symbol.  The last two
\* are found while a symbol is decoded.
Finish(r) ==
    /\ phase = "running"
    /\ \/ HasRoom /\ r \in {EndOfStream, Corrupted}
       \/ ~HasRoom /\ r = count
    /\ phase' = "ready"
    /\ ret' = r
    /\ quota' = 0 /\ count' = 0
    /\ UNCHANGED <<inSize, inPos, outSize, outPos>>

Next ==
    \/ \E n \in InSizes : Feed(n)
    \/ \E n \in OutSizes : Offer(n)
    \/ \E n \in Lengths : Start(n)
    \/ Resume
    \/ Close
    \/ Take
    \/ Store
    \/ Starve
    \/ \E r \in {EndOfStream, Corrupted, count} : Finish(r)

Spec == Init /\ [][Next]_vars
===============================================================================
