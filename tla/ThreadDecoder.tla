---------------------------- MODULE ThreadDecoder ----------------------------
(***************************************************************************)
(* lib/buffer/ThreadDecoder.c: a PPMd decoder that pulls its input through *)
(* a callback is turned into one that can be fed piecemeal by running it   *)
(* in a POSIX thread of its own.  Two threads share an InBuffer, an        *)
(* OutBuffer and two flags:                                                *)
(*                                                                         *)
(*   the worker      Ppmd7T_decode_run, Ppmd_thread_Reader                 *)
(*   the controller  Ppmd7T_decode, Ppmd7T_Free: the thread of the caller  *)
(*                                                                         *)
(* Ppmd8T_* are copies of Ppmd7T_* that differ in the type of the decoder. *)
(*                                                                         *)
(* Granularity.  One action is one critical section of tc->mutex, or one   *)
(* access to shared memory outside of it.  No critical section blocks in   *)
(* the middle except in pthread_cond_wait, so nobody holds the mutex       *)
(* between two actions, with one exception: a thread cancelled inside      *)
(* pthread_cond_wait comes back owning it (mutex = "worker") and must run  *)
(* the cleanup handler that unlocks it.                                    *)
(*                                                                         *)
(* DecodeSymbol (Ppmd7Dec.c, Ppmd8Dec.c) is any number of Reader calls, at *)
(* most MaxReads, followed by a byte, an end mark or an error.             *)
(***************************************************************************)
EXTENDS Integers

CONSTANTS
    InSizes,        \* sizes of the input buffers the client provides
    OutSizes,       \* sizes of the output buffers the client provides
    Lengths,        \* max_length arguments
    MaxReads,       \* bound: Reader calls of one DecodeSymbol
    CreateMayFail   \* whether pthread_create may fail

ASSUME SizesAssumption ==
    /\ InSizes \subseteq Nat
    /\ OutSizes \subseteq Nat
    /\ Lengths \subseteq Int

ASSUME BoundsAssumption ==
    /\ MaxReads \in Nat
    /\ CreateMayFail \in BOOLEAN

VARIABLES
    inSize, inPos,      \* threadInfo->in
    outSize, outPos,    \* threadInfo->out
    max_length,         \* threadInfo->max_length
    result,             \* threadInfo->result
    empty, finished,    \* the flags of ppmd_thread_control_t
    mutex,              \* "free", or "worker" (see Granularity)
    cancelled,          \* pthread_cancel was called for the worker
    wpc,                \* where the worker is, see WorkerStates
    wmax, wi, wres,     \* its locals max_length, i and result
    reads,              \* Reader calls of the symbol being decoded
    cpc,                \* where the controller is, see ControllerStates
    exited,             \* the local of that name in Ppmd7T_decode
    ret,                \* what the last Ppmd7T_decode returned
    fresh               \* history: bytes stored since the last call began

buffers == <<inSize, inPos, outSize, outPos>>
control == <<max_length, result, empty, finished, mutex, cancelled>>
worker == <<wpc, wmax, wi, wres, reads>>
controller == <<cpc, exited, ret>>
vars == <<buffers, control, worker, controller, fresh>>

EndOfStream == -1       \* PPMD_RESULT_EOF
Corrupted == -2         \* PPMD_RESULT_ERROR

\* "start": created, has not taken the mutex yet.  "loop": at the while of
\* decode_run.  "symbol": inside DecodeSymbol.  "wait", "woken": inside
\* pthread_cond_wait(notEmpty), still blocked or about to return.  "read",
\* "refill": in Reader, about to fetch a byte, without or after a wait.  "put":
\* has a byte to store.  "exit": at the label exit.  "cleanup": cancelled,
\* unwinding.  "done": terminated.
WorkerStates == {"none", "start", "loop", "symbol", "wait", "woken", "read",
                 "refill", "put", "exit", "cleanup", "done"}

\* "idle": the client runs, no call is in progress.  "enter", "lock", "wait",
\* "awake", "join": inside Ppmd7T_decode.  "cancel", "reap": inside
\* Ppmd7T_Free.  "freed": after it.
CallStates == {"enter", "lock", "wait", "awake", "join"}
ClosingStates == {"cancel", "reap", "freed"}
ControllerStates == {"idle"} \cup CallStates \cup ClosingStates

InCall == cpc \in CallStates
Closing == cpc \in ClosingStates
Unlocked == mutex = "free"

\* The worker is inside Reader, blocked or told to go on.
Parked == wpc \in {"wait", "woken"}

Init ==
    /\ inSize = 0 /\ inPos = 0
    /\ outSize = 0 /\ outPos = 0
    /\ max_length = 0 /\ result = 0
    /\ empty = FALSE /\ finished = TRUE
    /\ mutex = "free" /\ cancelled = FALSE
    /\ wpc = "none" /\ wmax = 0 /\ wi = 0 /\ wres = 0 /\ reads = 0
    /\ cpc = "idle" /\ exited = TRUE /\ ret = 0
    /\ fresh = 0

\* pthread_cond_broadcast(&notEmpty)
WakeWorker == wpc' = IF wpc = "wait" THEN "woken" ELSE wpc

\* pthread_cond_broadcast(&inEmpty)
WakeController == cpc' = IF cpc = "wait" THEN "awake" ELSE cpc

\* What the Reader takes for granted when it goes on after a wait: it fetches
\* src[pos++], and decode_run stores the symbol, without another test.  The
\* callers must see to it (StreamDecoder.tla models one of them).
ResumeContract == finished \/ (inPos < inSize /\ outPos < outSize)

(***************************************************************************)
(* Faults: what the code below would be with one mistake in it.  They are  *)
(* not part of the specification; each property is checked to fail when    *)
(* one of them takes the place of the action it is named after.            *)
(***************************************************************************)

\* src[pos--]
FetchByteBackwards ==
    /\ wpc \in {"read", "refill"}
    /\ inPos' = inPos - 1
    /\ reads' = reads + 1
    /\ wpc' = "symbol"
    /\ UNCHANGED <<inSize, outSize, outPos, control, wmax, wi, wres,
                   controller, fresh>>

\* No while around pthread_cond_wait.
WaitReturnsUnchecked ==
    /\ wpc = "woken"
    /\ Unlocked
    /\ wpc' = "refill"
    /\ UNCHANGED <<buffers, control, wmax, wi, wres, reads, controller, fresh>>

\* The timeout is taken for the signal.
ReturnOnTimeout ==
    /\ cpc = "awake" /\ ~finished
    /\ Unlocked
    /\ ret' = 0
    /\ cpc' = "idle"
    /\ UNCHANGED <<buffers, control, worker, exited, fresh>>

\* No test for a full output buffer.
NextSymbolUnchecked ==
    /\ wpc = "loop"
    /\ wi < wmax
    /\ reads' = 0
    /\ wpc' = "symbol"
    /\ UNCHANGED <<buffers, control, wmax, wi, wres, controller, fresh>>

\* The flag is not cleared before the worker is woken.
RestartKeepsEmpty ==
    /\ cpc = "enter" /\ ~exited
    /\ Unlocked
    /\ WakeWorker
    /\ cpc' = "lock"
    /\ UNCHANGED <<buffers, control, wmax, wi, wres, reads, exited, ret, fresh>>

\* A decoder that waits for input is taken for one that has ended.
EnterDecodeRelaunches(length) ==
    /\ cpc = "idle"
    /\ Unlocked
    /\ ResumeContract
    /\ max_length' = length
    /\ result' = 0
    /\ exited' = (finished \/ empty)
    /\ fresh' = 0
    /\ cpc' = "enter"
    /\ UNCHANGED <<buffers, empty, finished, mutex, cancelled, worker, ret>>

\* No i++.
PutByteUncounted ==
    /\ wpc = "put"
    /\ Unlocked
    /\ outPos' = outPos + 1
    /\ fresh' = fresh + 1
    /\ wpc' = "loop"
    /\ UNCHANGED <<inSize, inPos, outSize, control, wmax, wi, wres, reads,
                   controller>>

\* No cleanup handler.
CleanupKeepsLock ==
    /\ wpc = "cleanup"
    /\ wpc' = "done"
    /\ UNCHANGED <<buffers, control, wmax, wi, wres, reads, controller, fresh>>

\* The loop stops when the input looks used up, as the comment of lines
\* 114-120 warns against.
LoopEndsOnEmptyInput ==
    /\ wpc = "loop"
    /\ wi >= wmax \/ outPos = outSize \/ inPos = inSize
    /\ wres' = wi
    /\ wpc' = "exit"
    /\ UNCHANGED <<buffers, control, wmax, wi, reads, controller, fresh>>

\* pthread_cond_wait in the place of ppmd_timedwait.
TimeoutNever == FALSE

\* The worker is woken and joined, but not cancelled.
FreeCancelForgotten ==
    /\ cpc = "cancel"
    /\ cpc' = "reap"
    /\ UNCHANGED <<buffers, control, worker, exited, ret, fresh>>

(***************************************************************************)
(* The client between two calls: it points the buffers at new memory.      *)
(***************************************************************************)

SetInput(n) ==
    /\ cpc = "idle"
    /\ inSize' = n
    /\ inPos' = 0
    /\ UNCHANGED <<outSize, outPos, control, worker, controller, fresh>>

SetOutput(n) ==
    /\ cpc = "idle"
    /\ outSize' = n
    /\ outPos' = 0
    /\ UNCHANGED <<inSize, inPos, control, worker, controller, fresh>>

(***************************************************************************)
(* Ppmd7T_decode.                                                          *)
(***************************************************************************)

\* The first critical section: the parameters, and whether a worker exists.
EnterDecode(length) ==
    /\ cpc = "idle"
    /\ Unlocked
    /\ ResumeContract
    /\ max_length' = length
    /\ result' = 0
    /\ exited' = finished
    /\ fresh' = 0
    /\ cpc' = "enter"
    /\ UNCHANGED <<buffers, empty, finished, mutex, cancelled, worker, ret>>

Launch ==
    /\ cpc = "enter" /\ exited
    /\ Unlocked
    /\ finished' = FALSE
    /\ \/ wpc' = "start"
       \/ CreateMayFail /\ wpc' = wpc      \* the error code is ignored
    /\ cpc' = "lock"
    /\ UNCHANGED <<buffers, max_length, result, empty, mutex, cancelled,
                   wmax, wi, wres, reads, exited, ret, fresh>>

Restart ==
    /\ cpc = "enter" /\ ~exited
    /\ Unlocked
    /\ empty' = FALSE
    /\ WakeWorker
    /\ cpc' = "lock"
    /\ UNCHANGED <<buffers, max_length, result, finished, mutex, cancelled,
                   wmax, wi, wres, reads, exited, ret, fresh>>

\* The mutex was released since: a broadcast of the worker in between is lost.
BeginWait ==
    /\ cpc = "lock"
    /\ Unlocked
    /\ cpc' = "wait"
    /\ UNCHANGED <<buffers, control, worker, exited, ret, fresh>>

\* pthread_cond_timedwait returns: 50 microseconds have passed.
Timeout ==
    /\ cpc = "wait"
    /\ cpc' = "awake"
    /\ UNCHANGED <<buffers, control, worker, exited, ret, fresh>>

\* Back from the wait with the mutex; empty is tested before finished.
ReturnStarved ==
    /\ cpc = "awake" /\ empty
    /\ Unlocked
    /\ ret' = 0
    /\ cpc' = "idle"
    /\ UNCHANGED <<buffers, control, worker, exited, fresh>>

LeaveLoop ==
    /\ cpc = "awake" /\ ~empty /\ finished
    /\ Unlocked
    /\ cpc' = "join"
    /\ UNCHANGED <<buffers, control, worker, exited, ret, fresh>>

WaitAgain ==
    /\ cpc = "awake" /\ ~empty /\ ~finished
    /\ Unlocked
    /\ cpc' = "wait"
    /\ UNCHANGED <<buffers, control, worker, exited, ret, fresh>>

\* pthread_join: the worker's locals went with its stack.
WorkerGone ==
    /\ wpc' = "none"
    /\ wmax' = 0 /\ wi' = 0 /\ wres' = 0 /\ reads' = 0

ReturnFinished ==
    /\ cpc = "join" /\ wpc = "done"
    /\ WorkerGone
    /\ ret' = result
    /\ cpc' = "idle"
    /\ UNCHANGED <<buffers, control, exited, fresh>>

(***************************************************************************)
(* Ppmd7T_Free, called when the decoder object is deallocated.             *)
(***************************************************************************)

\* No worker exists: nothing to do but to destroy the mutex.
FreeFinished ==
    /\ cpc = "idle" /\ finished
    /\ cpc' = "freed"
    /\ UNCHANGED <<buffers, control, worker, exited, ret, fresh>>

\* The worker is told to go on, although there is nothing for it to read.
FreeWake ==
    /\ cpc = "idle" /\ ~finished
    /\ Unlocked
    /\ empty' = FALSE
    /\ WakeWorker
    /\ cpc' = "cancel"
    /\ UNCHANGED <<buffers, max_length, result, finished, mutex, cancelled,
                   wmax, wi, wres, reads, exited, ret, fresh>>

FreeCancel ==
    /\ cpc = "cancel"
    /\ cancelled' = TRUE
    /\ cpc' = "reap"
    /\ UNCHANGED <<buffers, max_length, result, empty, finished, mutex,
                   worker, exited, ret, fresh>>

FreeJoin ==
    /\ cpc = "reap" /\ wpc = "done"
    /\ WorkerGone
    /\ finished' = TRUE
    /\ cpc' = "freed"
    /\ UNCHANGED <<buffers, max_length, result, empty, mutex, cancelled,
                   exited, ret, fresh>>

(***************************************************************************)
(* Ppmd7T_decode_run.                                                      *)
(***************************************************************************)

\* The only time the worker looks at threadInfo->max_length.
Begin ==
    /\ wpc = "start"
    /\ Unlocked
    /\ finished' = FALSE
    /\ wmax' = max_length
    /\ wi' = 0
    /\ wpc' = "loop"
    /\ UNCHANGED <<buffers, max_length, result, empty, mutex, cancelled, wres,
                   reads, controller, fresh>>

\* The loop condition and the test for a full buffer, without the mutex.
NextSymbol ==
    /\ wpc = "loop"
    /\ wi < wmax /\ outPos # outSize
    /\ reads' = 0
    /\ wpc' = "symbol"
    /\ UNCHANGED <<buffers, control, wmax, wi, wres, controller, fresh>>

LoopEnds ==
    /\ wpc = "loop"
    /\ wi >= wmax \/ outPos = outSize
    /\ wres' = wi
    /\ wpc' = "exit"
    /\ UNCHANGED <<buffers, control, wmax, wi, reads, controller, fresh>>

\* DecodeSymbol returns a byte.
SymbolDecoded ==
    /\ wpc = "symbol"
    /\ wpc' = "put"
    /\ UNCHANGED <<buffers, control, wmax, wi, wres, reads, controller, fresh>>

\* DecodeSymbol returns -1 or -2.
SymbolFails ==
    /\ wpc = "symbol"
    /\ \E r \in {EndOfStream, Corrupted} : wres' = r
    /\ wpc' = "exit"
    /\ UNCHANGED <<buffers, control, wmax, wi, reads, controller, fresh>>

PutByte ==
    /\ wpc = "put"
    /\ Unlocked
    /\ outPos' = outPos + 1
    /\ fresh' = fresh + 1
    /\ wi' = wi + 1
    /\ wpc' = "loop"
    /\ UNCHANGED <<inSize, inPos, outSize, control, wmax, wres, reads,
                   controller>>

Exit ==
    /\ wpc = "exit"
    /\ Unlocked
    /\ result' = wres
    /\ finished' = TRUE
    /\ WakeController
    /\ wpc' = "done"
    /\ UNCHANGED <<buffers, max_length, empty, mutex, cancelled, wmax, wi,
                   wres, reads, exited, ret, fresh>>

(***************************************************************************)
(* Ppmd_thread_Reader, called from inside DecodeSymbol.                    *)
(***************************************************************************)

\* The test pos == size is made without the mutex.
ReaderHasInput ==
    /\ wpc = "symbol" /\ reads < MaxReads
    /\ inPos # inSize
    /\ wpc' = "read"
    /\ UNCHANGED <<buffers, control, wmax, wi, wres, reads, controller, fresh>>

\* Sets the flag, tells the controller, and goes to sleep.
ReaderStarves ==
    /\ wpc = "symbol" /\ reads < MaxReads
    /\ inPos = inSize
    /\ Unlocked
    /\ empty' = TRUE
    /\ WakeController
    /\ wpc' = "wait"
    /\ UNCHANGED <<buffers, max_length, result, finished, mutex, cancelled,
                   wmax, wi, wres, reads, exited, ret, fresh>>

\* pthread_cond_wait may return without a broadcast.
SpuriousWakeup ==
    /\ wpc = "wait"
    /\ wpc' = "woken"
    /\ UNCHANGED <<buffers, control, wmax, wi, wres, reads, controller, fresh>>

\* Back from the wait with the mutex: while (tc->empty).
WaitReturns ==
    /\ wpc = "woken"
    /\ Unlocked
    /\ wpc' = IF empty THEN "wait" ELSE "refill"
    /\ UNCHANGED <<buffers, control, wmax, wi, wres, reads, controller, fresh>>

\* return src[pos++]
FetchByte ==
    /\ wpc \in {"read", "refill"}
    /\ inPos' = inPos + 1
    /\ reads' = reads + 1
    /\ wpc' = "symbol"
    /\ UNCHANGED <<inSize, outSize, outPos, control, wmax, wi, wres,
                   controller, fresh>>

\* The only cancellation point.  A thread that was already told to go on may
\* be cancelled there or return: both are allowed.
Cancel ==
    /\ Parked /\ cancelled
    /\ Unlocked
    /\ mutex' = "worker"
    /\ wpc' = "cleanup"
    /\ UNCHANGED <<buffers, max_length, result, empty, finished, cancelled,
                   wmax, wi, wres, reads, controller, fresh>>

\* The handler pushed by pthread_cleanup_push.
Cleanup ==
    /\ wpc = "cleanup"
    /\ mutex' = "free"
    /\ wpc' = "done"
    /\ UNCHANGED <<buffers, max_length, result, empty, finished, cancelled,
                   wmax, wi, wres, reads, controller, fresh>>

(***************************************************************************)
(* The specification.                                                      *)
(***************************************************************************)

ClientStep ==
    \/ \E n \in InSizes : SetInput(n)
    \/ \E n \in OutSizes : SetOutput(n)
    \/ \E n \in Lengths : EnterDecode(n)
    \/ FreeFinished
    \/ FreeWake

\* What a call, once made, does by itself.
CallStep ==
    \/ Launch \/ Restart \/ BeginWait \/ Timeout
    \/ ReturnStarved \/ LeaveLoop \/ WaitAgain \/ ReturnFinished
    \/ FreeCancel \/ FreeJoin

WorkerStep ==
    \/ Begin \/ NextSymbol \/ LoopEnds \/ SymbolDecoded \/ SymbolFails
    \/ PutByte \/ Exit
    \/ ReaderHasInput \/ ReaderStarves \/ WaitReturns \/ FetchByte
    \/ Cancel \/ Cleanup

\* The object is gone.
Freed == cpc = "freed" /\ UNCHANGED vars

Next == ClientStep \/ CallStep \/ WorkerStep \/ SpuriousWakeup \/ Freed

\* The scheduler runs both threads, the clock of the timed wait advances, and a
\* cancellation request is acted upon by a thread at a cancellation point.
\* Nothing is assumed of the client, nor of spurious wakeups.
Fairness == WF_vars(CallStep) /\ WF_vars(WorkerStep) /\ WF_vars(Cancel)

Spec == Init /\ [][Next]_vars
FairSpec == Spec /\ Fairness

-------------------------------------------------------------------------------
(***************************************************************************)
(* Properties.                                                             *)
(***************************************************************************)

\* Every variable holds a value of its C type.
TypeOK ==
    /\ inSize \in Nat /\ inPos \in Nat
    /\ outSize \in Nat /\ outPos \in Nat
    /\ max_length \in Int /\ result \in Int
    /\ empty \in BOOLEAN /\ finished \in BOOLEAN
    /\ mutex \in {"free", "worker"} /\ cancelled \in BOOLEAN
    /\ wpc \in WorkerStates
    /\ wmax \in Int /\ wi \in Nat /\ wres \in Int /\ reads \in Nat
    /\ cpc \in ControllerStates
    /\ exited \in BOOLEAN /\ ret \in Int
    /\ fresh \in Nat

\* Between two calls the client may move, free and refill both buffers, so no
\* worker may be running then: either there is none, or it sleeps inside
\* Reader (Ppmd_thread_Reader, lines 70-80) and empty keeps it there, spurious
\* wakeups included.
IdleOwnership ==
    cpc = "idle" =>
        \/ finished /\ wpc = "none"
        \/ ~finished /\ Parked /\ empty

\* The other side of it, seen from the memory: the worker moves a position
\* only inside a call, or while Ppmd7T_Free waits for it to end.
QuietBetweenCalls ==
    [][(inPos' > inPos \/ outPos' > outPos) => InCall \/ Closing]_vars

\* Reader does not test pos again after a wait and decode_run not the room
\* after a symbol; as long as the decoder is in use neither leaves the buffer.
InBounds == ~Closing => inPos <= inSize /\ outPos <= outSize

\* The early 0 of Ppmd7T_decode (label inempty) is not a guess: whenever it is
\* returned the input is used up and the worker sleeps where it needs more.
StarvedMeansExhausted ==
    [][cpc = "awake" /\ cpc' = "idle" => inPos = inSize /\ Parked]_vars

\* handle is overwritten by pthread_create: that must not happen while the
\* thread it names still runs, it could never be joined.
OneWorker == [][wpc' = "start" /\ wpc # "start" => wpc = "none"]_vars

\* The length a call returns is what it stored when it started the worker
\* itself, and never less than what it stored.
ReturnCoversStored ==
    [][cpc = "join" /\ cpc' = "idle" /\ ret' >= 0 =>
           /\ fresh <= ret'
           /\ exited => ret' = fresh]_vars

\* The mutex and the conditions are destroyed only when nobody can use them
\* any more: no thread is left and the mutex is not held (Ppmd7T_Free,
\* lines 206-211; the cleanup handler of lines 74-79 is what makes it so).
FreeIsClean == cpc = "freed" => wpc = "none" /\ Unlocked

\* The coroutine the callers see.  The buffers are mapped to empty ones once
\* Ppmd7T_Free has begun: DecodeHandoff promises nothing about them any more.
Refilling == wpc = "refill" \/ (Parked /\ (cpc = "enter" \/ ~empty))

HandoffPhase ==
    IF InCall THEN IF Refilling THEN "resumed" ELSE "running"
    ELSE IF Closing THEN "closed"
    ELSE IF finished THEN "ready" ELSE "starved"

HandoffQuota ==
    IF Closing \/ (cpc = "idle" /\ finished) THEN 0
    ELSE IF wpc \in {"none", "start"} THEN max_length
    ELSE wmax

UntilClosing(value) == IF Closing THEN 0 ELSE value

Handoff == INSTANCE DecodeHandoff WITH
    phase <- HandoffPhase,
    inSize <- UntilClosing(inSize),
    inPos <- UntilClosing(inPos),
    outSize <- UntilClosing(outSize),
    outPos <- UntilClosing(outPos),
    quota <- HandoffQuota,
    count <- UntilClosing(wi),
    ret <- UntilClosing(ret)

\* ThreadDecoder implements DecodeHandoff: every step of the two threads is a
\* step of the coroutine or leaves it unchanged.
ImplementsHandoff == Handoff!Spec

\* A call comes back, starved or finished.  The signals alone do not bring it
\* back: a broadcast between BeginWait and the unlock before it is lost, and
\* it is the timeout of ppmd_timedwait that finds the flag.  Only a call whose
\* pthread_create failed stays: no worker is there to set either flag.
NoWorker == wpc = "none" /\ ~finished
CallReturns == InCall ~> (cpc = "idle" \/ NoWorker)

\* Deallocating a decoder comes to an end, however its worker was stopped.
FreeCompletes == Closing ~> cpc = "freed"

(***************************************************************************)
(* What the sources say and the code does not do.                          *)
(***************************************************************************)

\* ThreadDecoder.c, line 138: "when success return produced size".
ReturnedProducedSize ==
    [][cpc = "join" /\ cpc' = "idle" /\ ret' >= 0 => ret' = fresh]_vars

\* Buffer.h, line 14: "Necessarily 0 <= pos <= size", without exception.
PosWithinSize == inPos <= inSize
===============================================================================
