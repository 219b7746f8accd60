---------------------------- MODULE StreamEncoder -----------------------------
(***************************************************************************)
(* The encoder objects of the C extension (src/ext/_ppmdmodule.c): encode  *)
(* and flush of Ppmd7Encoder and Ppmd8Encoder, called by several Python    *)
(* threads, with the lock of the object, the output blocks                 *)
(* (src/lib/buffer/blockoutput.h) and the callback Writer                  *)
(* (src/lib/buffer/Buffer.c) that every byte of the coder goes through.    *)
(* An allocation may fail wherever one is made.                            *)
(*                                                                         *)
(* The coder is abstract here (Codec.tla has it): a symbol makes it        *)
(* produce some bytes, which are numbered as they come.  A method holds    *)
(* the GIL but for EncodeSymbol in encode, so that all it does between two *)
(* symbols is one step, and all of flush is one.                           *)
(***************************************************************************)
EXTENDS Integers, Sequences

CONSTANTS
    Threads,        \* Python threads
    NoThread,       \* no thread: before the first call
    Lengths,        \* lengths of the data given to encode()
    SymbolBytes,    \* how many bytes a symbol may make the coder produce
    FlushBytes,     \* how many bytes flush() may make it produce
    Blocks,         \* BUFFER_BLOCK_SIZE: the sizes of the output blocks
    MaxCalls        \* a bound on the calls

ASSUME ThreadsAssumption == NoThread \notin Threads

\* Data of 2^32 bytes or more is left out: the loop of encode() counts in UInt32,
\* and would code it for ever.
\* The first block has room for what flush() writes: 32 KB in the code.
ASSUME SizesAssumption ==
    /\ Lengths \subseteq Nat /\ SymbolBytes \subseteq Nat
    /\ FlushBytes \subseteq 0..Blocks[1]
    /\ Blocks \in Seq(Nat \ {0}) /\ Blocks # << >>

VARIABLES
    lock,       \* how often the object's lock can be acquired: 1 when free
    stream,     \* the thread whose writer rangeEnc->Stream points to
    pc,         \* where each thread is
    left,       \* symbols its encode() has still to code
    pending,    \* bytes its symbol has still to write
    size,       \* allocated: the bytes in the output blocks of its call
    count,      \* the number of these blocks
    out,        \* what the blocks hold
    produced,   \* bytes the coder has produced
    results,    \* what the calls returned, in the order in which they ended
    calls,      \* the calls so far
    told,       \* a call raised after the coder had gone on
    overrun,    \* a symbol produced more bytes than there was room for
    misused,    \* flush() was called with arguments it does not take
    alive       \* the object exists

blocks == <<size, count, out>>
history == <<calls, told, overrun, misused, alive>>
vars == <<lock, stream, pc, left, pending, blocks, produced, results, history>>

\* "idle": in no method.  "encode", "flush": at ACQUIRE_LOCK.  "loop": at the
\* for of encode.  "symbol": inside EncodeSymbol, without the GIL.
Places == {"idle", "encode", "flush", "loop", "symbol"}

Init ==
    /\ lock = 1 /\ stream = NoThread
    /\ pc = [t \in Threads |-> "idle"]
    /\ left = [t \in Threads |-> 0] /\ pending = [t \in Threads |-> 0]
    /\ size = [t \in Threads |-> 0] /\ count = [t \in Threads |-> 0]
    /\ out = [t \in Threads |-> << >>]
    /\ produced = 0 /\ results = << >> /\ calls = 0
    /\ told = FALSE /\ overrun = FALSE /\ misused = FALSE /\ alive = TRUE

Inside(t) == pc[t] \in {"loop", "symbol"}
Room(t) == size[t] - Len(out[t])
BlockSize(n) == Blocks[IF n <= Len(Blocks) THEN n ELSE Len(Blocks)]

-------------------------------------------------------------------------------
(***************************************************************************)
(* Calls.  Arguments are parsed before the lock is taken.                  *)
(***************************************************************************)
Call(t, place, n) ==
    /\ alive /\ pc[t] = "idle" /\ calls < MaxCalls
    /\ calls' = calls + 1
    /\ pc' = [pc EXCEPT ![t] = place]
    /\ left' = [left EXCEPT ![t] = n]
    /\ UNCHANGED <<lock, stream, pending, blocks, produced, results, told, overrun,
                   misused, alive>>

\* An argument that cannot be parsed: flush() goes to its error path and
\* releases the lock, which it does not hold (a semaphore, which then counts one
\* more).
WrongFlush(t) ==
    /\ alive /\ pc[t] = "idle" /\ calls < MaxCalls
    /\ calls' = calls + 1
    /\ lock' = lock + 1
    /\ misused' = TRUE
    /\ UNCHANGED <<stream, pc, left, pending, blocks, produced, results, told, overrun, alive>>

Release(t) ==
    /\ lock' = lock + 1
    /\ pc' = [pc EXCEPT ![t] = "idle"]
    /\ size' = [size EXCEPT ![t] = 0] /\ count' = [count EXCEPT ![t] = 0]
    /\ out' = [out EXCEPT ![t] = << >>]
    /\ left' = [left EXCEPT ![t] = 0]

\* The object is freed when no call and no reference is left.
Dealloc ==
    /\ alive /\ \A t \in Threads : pc[t] = "idle"
    /\ alive' = FALSE
    /\ UNCHANGED <<lock, stream, pc, left, pending, blocks, produced, results, calls,
                   told, overrun, misused>>

-------------------------------------------------------------------------------
(***************************************************************************)
(* encode().                                                               *)
(***************************************************************************)

\* Mutant: the lock is never taken.
BeginEncodeUnlocked(t) ==
    /\ pc[t] = "encode"
    /\ stream' = t
    /\ size' = [size EXCEPT ![t] = Blocks[1]] /\ count' = [count EXCEPT ![t] = 1]
    /\ pc' = [pc EXCEPT ![t] = "loop"]
    /\ UNCHANGED <<lock, left, pending, out, produced, results, history>>

\* The lock is acquired, and OutputBuffer_InitAndGrow gives the first block.
BeginEncode(t) ==
    /\ pc[t] = "encode" /\ lock > 0
    /\ lock' = lock - 1
    /\ stream' = t
    /\ size' = [size EXCEPT ![t] = Blocks[1]] /\ count' = [count EXCEPT ![t] = 1]
    /\ pc' = [pc EXCEPT ![t] = "loop"]
    /\ UNCHANGED <<left, pending, out, produced, results, history>>

\* Mutant: the error path for a first block returns with the lock.
BeginFailsLocked(t) ==
    /\ pc[t] \in {"encode", "flush"} /\ lock > 0
    /\ lock' = lock - 1
    /\ pc' = [pc EXCEPT ![t] = "idle"]
    /\ left' = [left EXCEPT ![t] = 0]
    /\ UNCHANGED <<stream, pending, blocks, produced, results, history>>

\* No memory for the first block: the method raises, nothing was coded.  It
\* holds the GIL from the acquisition to the release.
BeginFails(t) ==
    /\ pc[t] \in {"encode", "flush"} /\ lock > 0
    /\ pc' = [pc EXCEPT ![t] = "idle"]
    /\ left' = [left EXCEPT ![t] = 0]
    /\ UNCHANGED <<lock, stream, pending, blocks, produced, results, history>>

\* The GIL is released, and EncodeSymbol decides what the coder produces.
NextSymbol(t) == \E n \in SymbolBytes :
    /\ pc[t] = "loop" /\ left[t] > 0
    /\ pending' = [pending EXCEPT ![t] = n]
    /\ pc' = [pc EXCEPT ![t] = "symbol"]
    /\ UNCHANGED <<lock, stream, left, blocks, produced, results, history>>

\* Writer: a byte for which the block has no room is dropped.  (A writer whose
\* call has ended has no block any more.)
Write(t) ==
    /\ pc[t] = "symbol" /\ pending[t] > 0
    /\ pending' = [pending EXCEPT ![t] = @ - 1]
    /\ produced' = produced + 1
    /\ IF Room(stream) > 0
       THEN /\ out' = [out EXCEPT ![stream] = Append(@, produced + 1)]
            /\ UNCHANGED overrun
       ELSE /\ overrun' = TRUE
            /\ UNCHANGED out
    /\ UNCHANGED <<lock, stream, pc, left, size, count, results, calls, told, misused, alive>>

\* Mutant: the new block takes the place of the full one.
SymbolCodedReplacing(t) ==
    /\ pc[t] = "symbol" /\ pending[t] = 0
    /\ pc' = [pc EXCEPT ![t] = "loop"]
    /\ left' = [left EXCEPT ![t] = @ - 1]
    /\ LET full == Room(t) = 0 IN
       /\ size' = [size EXCEPT ![t] = IF full THEN BlockSize(count[t] + 1) ELSE @]
       /\ count' = [count EXCEPT ![t] = IF full THEN @ + 1 ELSE @]
       /\ out' = [out EXCEPT ![t] = IF full THEN << >> ELSE @]
    /\ UNCHANGED <<lock, stream, pending, produced, results, history>>

\* Back with the GIL: a block that is full gets a successor.
SymbolCoded(t) ==
    /\ pc[t] = "symbol" /\ pending[t] = 0
    /\ pc' = [pc EXCEPT ![t] = "loop"]
    /\ left' = [left EXCEPT ![t] = @ - 1]
    /\ LET full == Room(t) = 0 IN
       /\ size' = [size EXCEPT ![t] = IF full THEN @ + BlockSize(count[t] + 1) ELSE @]
       /\ count' = [count EXCEPT ![t] = IF full THEN @ + 1 ELSE @]
    /\ UNCHANGED <<lock, stream, pending, out, produced, results, history>>

\* Mutant: the error path of the loop returns with the lock.
GrowFailsLocked(t) ==
    /\ pc[t] = "symbol" /\ pending[t] = 0 /\ Room(t) = 0
    /\ pc' = [pc EXCEPT ![t] = "idle"]
    /\ size' = [size EXCEPT ![t] = 0] /\ count' = [count EXCEPT ![t] = 0]
    /\ out' = [out EXCEPT ![t] = << >>] /\ left' = [left EXCEPT ![t] = 0]
    /\ told' = TRUE
    /\ UNCHANGED <<lock, stream, pending, produced, results, calls, overrun, misused, alive>>

\* No memory for it: the method raises, and what the call has coded is lost.
GrowFails(t) ==
    /\ pc[t] = "symbol" /\ pending[t] = 0 /\ Room(t) = 0
    /\ Release(t)
    /\ told' = TRUE
    /\ UNCHANGED <<stream, pending, produced, results, calls, overrun, misused, alive>>

\* OutputBuffer_Finish: the bytes of the first block when they are all, or a
\* bytes object for all blocks, which may not be had.
FinishEncode(t) ==
    /\ pc[t] = "loop" /\ left[t] = 0
    /\ Release(t)
    /\ results' = results \o out[t]
    /\ UNCHANGED <<stream, pending, produced, history>>

OneBlock(t) ==
    \/ count[t] = 1 /\ Room(t) = 0
    \/ count[t] = 2 /\ Len(out[t]) = Blocks[1]

FinishFails(t) ==
    /\ pc[t] = "loop" /\ left[t] = 0 /\ ~OneBlock(t)
    /\ Release(t)
    /\ told' = TRUE
    /\ UNCHANGED <<stream, pending, produced, results, calls, overrun, misused, alive>>

-------------------------------------------------------------------------------
(***************************************************************************)
(* flush(): the end mark, when there is one, and what the coder holds back *)
(* go to a first block, which is never grown.  `flushed` is tested, but    *)
(* nothing sets it.                                                        *)
(***************************************************************************)
Flush(t) == \E n \in FlushBytes :
    /\ pc[t] = "flush" /\ lock > 0
    /\ stream' = t
    /\ produced' = produced + n
    /\ \/ results' = results \o [i \in 1..n |-> produced + i] /\ UNCHANGED told
       \/ n # Blocks[1] /\ told' = TRUE /\ UNCHANGED results   \* Finish fails
    /\ pc' = [pc EXCEPT ![t] = "idle"]
    /\ UNCHANGED <<lock, left, pending, blocks, calls, overrun, misused, alive>>

-------------------------------------------------------------------------------
\* What a method does once it is called.
MethodStep(t) ==
    \/ BeginEncode(t) \/ BeginFails(t) \/ NextSymbol(t) \/ Write(t)
    \/ SymbolCoded(t) \/ GrowFails(t) \/ FinishEncode(t) \/ FinishFails(t)
    \/ Flush(t)

ClientStep(t) ==
    \/ \E n \in Lengths : Call(t, "encode", n)
    \/ Call(t, "flush", 0)
    \/ WrongFlush(t)

\* The object is gone.
Gone == ~alive /\ UNCHANGED vars

Next == (\E t \in Threads : MethodStep(t) \/ ClientStep(t)) \/ Dealloc \/ Gone

\* A thread in a method is scheduled, with the GIL where it needs it.  The lock
\* of the object is not fair: it is the number of calls that is bounded.
Fairness == \A t \in Threads : WF_vars(MethodStep(t))

Spec == Init /\ [][Next]_vars
FairSpec == Spec /\ Fairness

-------------------------------------------------------------------------------
(***************************************************************************)
(* Properties.                                                             *)
(***************************************************************************)

Types ==
    /\ lock \in Nat /\ stream \in Threads \cup {NoThread}
    /\ pc \in [Threads -> Places] /\ left \in [Threads -> Nat] /\ pending \in [Threads -> Nat]
    /\ size \in [Threads -> Nat] /\ count \in [Threads -> Nat] /\ out \in [Threads -> Seq(Nat)]
    /\ produced \in Nat /\ results \in Seq(Nat) /\ calls \in Nat
    /\ told \in BOOLEAN /\ overrun \in BOOLEAN /\ misused \in BOOLEAN /\ alive \in BOOLEAN

Only(t) == Inside(t) /\ \A u \in Threads \ {t} : ~Inside(u)

LockTells ==
    \/ lock = 1 /\ \A t \in Threads : ~Inside(t)
    \/ lock = 0 /\ \E t \in Threads : Only(t)

\* Types, and what the lock says of the threads: while flush() is called as it
\* should be, nobody is inside when it is free, and one thread when it is taken.
TypeOK == Types /\ (~misused => LockTells)

Ascending(s) == \A i, j \in 1..Len(s) : i < j => s[i] < s[j]

\* What the calls return, put together in the order in which they end, are
\* bytes of one stream in its order: symbols of two threads never mix, and a
\* call that raised leaves nothing behind that a later one returns.
BytesInOrder == ~misused =>
    /\ Ascending(results)
    /\ \A t \in Threads : Inside(t) => Ascending(results \o out[t])

\* Every byte the coder has produced is in a result, or in the blocks of the
\* call that goes on.
AllKept ==
    /\ (\A t \in Threads : ~Inside(t)) => Len(results) = produced
    /\ \A t \in Threads : Inside(t) => Len(results) + Len(out[t]) = produced

\* A byte is lost only when a call has raised or a symbol found no room: on no
\* other path do growing, finishing, an empty call or the next caller lose one.
LostOnlyWhen == ~misused /\ ~told /\ ~overrun => AllKept

\* Every call returns, whatever allocation fails in it and in the others: no path
\* out of a method keeps the lock that the next call waits for.
CallsReturn == \A t \in Threads : (pc[t] # "idle") ~> (pc[t] = "idle" \/ misused)

(***************************************************************************)
(* What the documentation says and the code does not do.                   *)
(***************************************************************************)

\* docs/ppmd8.rst, lines 20-25: the data returned by encode() "should be
\* concatenated to the output produced by any preceding calls", and is then
\* the stream.
NothingLost == ~misused /\ ~told => AllKept
===============================================================================
