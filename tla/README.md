# TLA+ models of pyppmd

pyppmd is a Python binding of the PPMd7 (variant H) and PPMd8 (variant I)
compressors.  Two things make it hard.  The decoder of 7-Zip pulls its input
through a callback, while a Python decoder is *pushed* its input in pieces:
pyppmd bridges the two with a thread per decoder.  And the compressor is adaptive:
encoder and decoder keep a model each, in one hand-managed arena, and the text
comes back only as long as the two models take the same steps.  This directory
models both, from the thread up to the methods of the Python objects and from
the arena up to the bytes.  Source paths below are relative to the repository.

## 1. Inventory

| Component | State it keeps | Operations | Model |
|---|---|---|---|
| Threaded decoder, `src/lib/buffer/ThreadDecoder.c` | flags `empty`, `finished`; mutex, two conditions; `max_length`, `result`; the in- and out-buffer | `Ppmd7T_decode`, `Ppmd7T_Free` (caller), `Ppmd7T_decode_run`, `Ppmd_thread_Reader` (worker); the same for `Ppmd8T` | `DecodeHandoff`, `ThreadDecoder`, `ThreadDecoderProofs` |
| Decode methods, `src/ext/_ppmdmodule.c` | `input_buffer`, `in_begin`, `in_end`, `inited2`, `eof`, `needs_input` | `decode(data, length)`, dealloc | `StreamDecoder`, `MCStreamDecoder`, `StreamDecoderProofs`; not the constructors and `unused_data` |
| Encoders, `src/ext/_ppmdmodule.c` | lock, `flushed`, the writer of the coder | `encode(data)`, `flush(endmark)`, dealloc | `StreamEncoder`, `MCStreamEncoder`, `StreamEncoderProofs`; not the constructors |
| Byte callbacks, `src/lib/buffer/Buffer.c` | `pos` of a buffer | `Writer`, `Reader` | `Writer` in `StreamEncoder`; `Reader` serves the CFFI binding only |
| Block output list, `src/lib/buffer/blockoutput.h` | block list, `allocated`, `max_length` | `InitAndGrow`, `Grow`, `Finish`, `OnError` | in `StreamDecoder` and `StreamEncoder` |
| Context models, `Ppmd7.c`, `Ppmd8.c` | contexts, statistics, escape estimators, `OrderFall`, `RunLength`, ... | `UpdateModel`, `CreateSuccessors`, `Rescale`, `ReduceOrder`, `MakeEscFreq`, `Update1`, ... | `ContextTree`, `ContextCounts`, `ContextModel7`, `ContextModel8`, `ContextCountsProofs` |
| Their memory, `Ppmd7.c`, `Ppmd8.c` | the arena, free lists, stamps, text area | `AllocUnits`, `ShrinkUnits`, `GlueFreeBlocks`, `ExpandTextArea`, `CutOff`, `RestoreModel`, ... | `UnitSizes`, `SubAllocator`, `SubAllocator8`, `MemoryPool`, `UnitSizesProofs`, `SubAllocatorProofs`, `SubAllocator8Proofs` |
| Range coders and symbol loops, `Ppmd7Enc.c`, `Ppmd7Dec.c`, `Ppmd8Enc.c`, `Ppmd8Dec.c` | `Low`, `Range`, `Code`, `Cache`, `CacheSize` | `Encode`, `Decode`, `ShiftLow`, `FlushData`, `RangeDec_Init`, `EncodeSymbol`, `DecodeSymbol` | `RangeCoder7`, `RangeCoder8`, `SymbolCoder`, `Codec`, `RangeCoderProofs` |
| CFFI binding, `src/pyppmd/cffi/cffi_ppmd.py` | Python copies of the same | `encode`, `flush`, `decode`, `__exit__` | not modelled |
| High-level API, `src/pyppmd/__init__.py` | `eof`, `needs_input` of `PpmdDecompressor` | `compress`, `decompress`, `flush` | not modelled |
| `win_pthreads.h`, `ffi_build.py` | - | - | not modelled: vendored; no behaviour |

How they interact.  The decode method points `in` at bytes and `out` at a block,
and calls `Ppmd7T_decode`, which creates a worker or wakes the one that sleeps.
The worker decodes symbols; for every byte of input it calls
`Ppmd_thread_Reader`, which hands out the next byte of `in` or, when there is
none, sets `empty`, broadcasts, and sleeps in `pthread_cond_wait`.  The caller
polls the two flags with a 50 microsecond timed wait.  A 0 means "starved: the
worker sleeps in the middle of a symbol", -1 the end, -2 corruption, any other
value that the worker ended.  The encode method needs no thread: it points the
coder's writer at a block and encodes symbol by symbol, growing its blocks
between two of them.  `EncodeSymbol` and `DecodeSymbol` walk from the context of
highest order down its suffixes, narrow an interval of the range coder by the
frequencies they find there, and update the model, which takes memory from the
arena and, when there is none left, begins anew or (PPMd8, cut-off method)
prunes the tree of contexts.

What is hard here: the buffers are read and written without the mutex, so all
rests on who runs when; signals are lost and only the timeout finds the flag;
spurious wakeups; a resumed worker goes by the `max_length` of an older call and
counts from then; `Ppmd7T_Free` cancels a thread that may own the mutex; every
allocation in a method may fail half-way; the encoder gives up the GIL for every
symbol; the arena has no redundancy, so that a unit lost or handed out twice
shows as damaged output much later; encoder and decoder must restart, rescale
and cut their intervals at the same symbols.  `PROJECT.json` lists these hazards
line by line with the properties that watch them.

## 2. The modules

**`DecodeHandoff`** - what `Ppmd7T_decode` promises, as a coroutine: the client
and the decoder own the buffers in turn (`phase`).  It keeps two facts the C
signature hides: a resumed decoder has the *quota* of the call that started it,
and finally returns the *count* of all bytes since then.

**`ThreadDecoder`** - the two threads.  `wpc` is the place in
`Ppmd7T_decode_run` / `Ppmd_thread_Reader`, `cpc` the place in `Ppmd7T_decode` /
`Ppmd7T_Free`; `wmax`, `wi`, `wres` are the worker's locals.  An action is a
critical section of the mutex or one access outside of it, so the unlocked test
`pos == size`, the unlocked `src[pos++]` and the unlocked test of a full buffer
interleave with everything.  A wait is two actions: going to sleep (with the
mutex released) and coming back (`WaitReturns`, `ReturnStarved`, `LeaveLoop`,
`WaitAgain`).  A worker cancelled in `pthread_cond_wait` owns the mutex until
`Cleanup`.  `DecodeSymbol` is at most `MaxReads` calls of the Reader and then a
byte, an end mark or an error.  `Ppmd8T_*` is the same code.
The worker calls the Reader only with `src` in one piece; memory contents are
not modelled here.

`EnterDecode` has one guard that is not in the code, `ResumeContract`: a
suspended decoder is resumed only with a byte to read and room for a byte.  The
Reader (`src[pos++]` after the wait) takes that for granted; that the callers
keep it is `ResumeSafe` of `StreamDecoder`, for the calls described there.

**`StreamDecoder`** - `Ppmd7Decoder_decode` and `Ppmd8Decoder_decode`
(`variant`), from the argument test to the label `success`, with
`DecodeHandoff` in the place of the threads (its actions are conjoined, so
whatever `ThreadDecoder` does is covered by the refinement).  Bytes of the
compressed stream are numbered in the order they are fed, so that a wrong copy
or offset is visible.  Each allocation that may fail has an action of its own
(`PrepareInputFails`, `InitOutputFails`, `GrowFails`, `KeepUnreadFails`, the
second outcome of `Deliver`).  Block contents are not modelled, only sizes.  The
object's lock makes calls of one object sequential; the GIL is released only
around `Ppmd7T_decode`, under that lock.

`Protocol` is what the client does: it stops at `eof`, brings data when
`needs_input` is true (`docs/ppmd8.rst`, lines 56-58), and asks for at least one
byte.  `decode(b"", n)` of a starved decoder and `decode(data, 0)` are outside of
it: both would resume a suspended worker without input or without room.
It is an assumption on the client, not a translation of code.  Ppmd7 also sets
`eof` when `Code` is 0, which can happen in the middle of a stream; the client
then stops, and `StarvedAsksForInput` is about calls that leave `eof` unset, so
that no property covers what such a stream still held.

**`MemoryPool`** - what the context model expects of its memory: the blocks it
holds never overlap and its text stays below them, whatever is allocated, moved
or given back.

**`SubAllocator`** - how `Ppmd7.c` keeps that: free lists by size, a gap between
`LoUnit` and `HiUnit`, the text area below `UnitsStart`, and `GlueFreeBlocks`,
which joins adjacent free blocks.  `heap` has the fields of `CPpmd7` under their
names.  An allocation is an operator that yields the possible results, because a
free list is modelled as the *set* of its nodes: the code takes the one put in
last, the model any of them, and so the order in which blocks are glued is left
open as well (`Gluings` takes every outcome that the size limit allows).  The
client is the context model: `AppendText`, `RetractText`, `NewStats` and
`ExpandStats` are the parts of `UpdateModel` that touch the memory, `NewContext`
is the loop of `CreateSuccessors`, `ShrinkStats` and `FreeStats` are `Rescale`.
An allocation that fails begins the model anew, at once, as all callers do.
What leads the code to one of them - frequencies, orders, symbols - is left out,
so the model allows more sequences than the code.  Two things are assumed: a
block in use does not look free to `GlueFreeBlocks` (its first two bytes are
`NumStats` of a context, or a symbol and a frequency, which are not 0), and the
copies of `MyMem12Cpy` are made before the old block is written to.

**`SubAllocator8`** - the same for `Ppmd8.c`, with what is new there: `Stamps`
counts the nodes of each list (`GetUsedMemory` computes from it), free blocks at
`UnitsStart` go back to the text (`SpecialFreeUnit`, `MoveUnitsUp`,
`ExpandTextArea`), and `RestoreModel` cuts the tree.  Here the contexts have an
identity: `tree` keeps for each its order, the context whose state points to it,
and its block of states, because `CutOff` frees memory by walking them.  The
recursion of `CutOff` is the variable `stack`, one call a frame; `RestoreStep` is
one step of it.  Which states a pass keeps depends on frequencies and is left
open.  That `CutOff` frees and moves nothing beyond what it visits, and that no
state points at freed memory between its steps, is `NoDangling`.

**`UnitSizes`** - the arithmetic of units and list indexes both allocators share.

**`ContextTree`**, **`ContextCounts`**, **`ContextModel7`**, **`ContextModel8`** - the models
themselves, as functions on a record `m` with the fields of `CPpmd7` and `CPpmd8`
under their names.  A context is named by its symbols (the string it stands for),
its suffix is that name without the first; memory is counted in units and bytes of
text, without addresses, so that running out of either happens at the symbol
where it happens in the code.  `ContextTree` has what both variants share -
successors as a context or a place in the text, `CreateSuccessors` up to the
allocation, the tables of `RestartModel`, `See`.  `ContextCounts` has the
frequencies and their sum: `Rescale`, what a new symbol starts with and what a
context that gets one is added to, where the two variants follow one form with
numbers of their own (the operators end in 7 and 8).  It has no `RECURSIVE`
operators, so that it can be proved about.  The other two have the functions
that walk the tree: `UpdateModel`, `ReduceOrder`, `MakeEscFreq`.
`UInt16` and byte fields wrap where the code's do.  `ContextModel8` has the restore
method `RESTART`; what `CutOff` and `Refresh` do to frequencies is not modelled.

**`RangeCoder7`**, **`RangeCoder8`** - the two coders in both directions, with
digits to a `Base`.  PPMd7's holds back a digit and a run of largest digits until a
carry is decided; PPMd8's has no carry, and cuts its range when `Low` and
`Low + Range` disagree on the top digit for too long.

**`SymbolCoder`** (with `variant` for the choice between the modules of PPMd7 and
PPMd8, which it instantiates) - `EncodeSymbol` and `DecodeSymbol`: the search through a context, the escape, the
masked search in the suffixes.

**`Codec`** - the composition, and a machine of three actions: `Encode` (a call of
`encode()`), `Flush`, and `Decode` (one symbol).  The encoder's record and the
decoder's share nothing but the bytes.

**`StreamEncoder`** - `encode` and `flush` as several threads call them.  All
that a method does with the GIL between two symbols is one action; `EncodeSymbol`
runs without it, a byte at a time (`Write`).  The coder's bytes are numbered as it
produces them, so that a lost or misplaced one is visible.  `stream` is the
writer `rangeEnc->Stream` points to, which is in the block of one call.  `flush`
holds the GIL from end to end and is one action.  Its error path for arguments
that cannot be parsed releases the lock it has not taken: `WrongFlush` does that,
and from then on (`misused`) two threads may be inside at once and race in the
model of the coder; the properties speak of the behaviours without it.  Data of
4 GiB and more, which the `UInt32` loop counter of `encode` never passes, is left
out by `SizesAssumption`.

**`ThreadDecoderProofs`**, **`StreamDecoderProofs`**, **`StreamEncoderProofs`**,
**`UnitSizesProofs`**, **`SubAllocatorProofs`**, **`SubAllocator8Proofs`**,
**`ContextCountsProofs`**, **`RangeCoderProofs`** - section 5.

Definitions marked as a fault or a mutant are the same code with one mistake, from
which the properties are checked to tell it apart.  They are no part of a
specification.

## 3. What the runs check

| Run | Module | Shows |
|---|---|---|
| `thread_decoder` | `ThreadDecoder` | who owns the buffers (`IdleOwnership`, `QuietBetweenCalls`), positions inside the buffers until Free (`InBounds`), a starved return is one (`StarvedMeansExhausted`), one worker (`OneWorker`), what the result counts (`ReturnCoversStored`), the mutex is destroyed unlocked and unused (`FreeIsClean`), the refinement of `DecodeHandoff`, and that every Free ends and every call returns unless `pthread_create` failed (`FreeCompletes`, `CallReturns`) |
| `stream_decoder` | `MCStreamDecoder` | bytes reach the decoder once and in order (`BytesInOrder`), the bytes object is what was stored (`NothingLost`) and not above `length` (`WithinLength`), `needs_input` asks exactly when it has to (`StarvedAsksForInput`, `NeedsInputMeansExhausted`), `ResumeSafe`, and the loop of the method ends (`CallEnds`) |
| `stream_encoder` | `MCStreamEncoder` | one thread is inside at a time and only with the lock (`TypeOK`), results in the order of the calls are the coder's bytes in theirs (`BytesInOrder`), no byte is lost unless a call raised or a symbol overflowed its block (`LostOnlyWhen`), no error path keeps the lock (`CallsReturn`) |
| `codec` | `MCCodec` | the text comes back (`RoundTrip`) from exactly the bytes written (`ConsumesAll`); the coder's interval stays one the decoder can follow (`IntervalKept`); every symbol of a context is in its suffix (`Nested`); an escape always has an interval, and its share of `SummFreq` stays bounded (`EscapeRoom`); successors point at the context or text they stand for (`SuccessorsTell`) |
| `sub_allocator` | `SubAllocator` | every unit is in use, in the gap or in one free list, once (`Partition`); the text never reaches the units (`TextApart`); a model is begun anew right after a gluing only if no adjacent free units would have served (`GlueFindsRun`); the refinement of `MemoryPool` (`ImplementsPool`) |
| `sub_allocator8` | `SubAllocator8` | the same of PPMd8, while contexts are cut off, moved and freed; the memory in use is computed exactly (`UsedMemoryExact`), nothing points at freed memory (`NoDangling`), `RestoreModel` ends (`RestoreEnds`) |
| `thread_result` | `ThreadDecoder` | **violated**: "when success return produced size" (`ThreadDecoder.c`, line 138) |
| `thread_free_overread` | `ThreadDecoder` | **violated**: "Necessarily 0 <= pos <= size" (`Buffer.h`, line 14), while Free stops a starved worker |
| `stream_short` | `MCStreamDecoder` | **violated**: less than `length` is returned only for want of input (`docs/ppmd7.rst` 49, `docs/ppmd8.rst` 60) |
| `stream_grow` | `MCStreamDecoder` | **violated**: `assert(rest > 0)` (`blockoutput.h`, line 162) |
| `cutoff_minimum` | `SubAllocator8` | **violated**: `RestoreEnds` in an arena that the root context fills to more than three quarters, as a `mem_size` from 2048 to 2063 does |
| `encoder_loss` | `MCStreamEncoder` | **violated**: what `encode()` returns is the compressed data (`docs/ppmd8.rst` 20-22); a symbol of two bytes loses one at the end of a block |

`thread_result`, `stream_short` and `stream_grow` have one cause: `i` in `Ppmd7T_decode_run`
and `max_length` survive a starvation, so the caller subtracts bytes it has
already counted in an earlier call (`_ppmdmodule.c`, line 529).  `remains` reaches zero too soon
(a short return with input left) or goes below zero (an output block of no bytes,
with asserts off).  `WithinLength`, `NothingLost` and `CallEnds` show that nothing worse follows:
the block list, not the count, decides what is returned.

### Bounds, and why they are enough

- `ThreadDecoder`: inputs of 0 to 2 bytes, outputs of 1 or 2, lengths 0, 2, 3,
  `MaxReads` 2.  A symbol can starve before its first byte and between two; the
  loop can end by the length (2 < 3) or by a full buffer (1, 2); a length of 0
  ends at once; a resumed call can bring enough or starve again.  The flags and
  the program counters, not the sizes, carry the behaviour, and section 5 removes
  the bound on sizes, lengths and reads for the safety properties.
- `CreateMayFail` is TRUE in `thread_decoder`: the return code of
  `pthread_create` is ignored and a call whose worker was not created never
  returns.  `CallReturns` excludes that case by name (`NoWorker`).
- `StreamDecoder`: `HeaderSize` 5 is scaled to 2 (the first data must hold the
  header, and PPMd8 reads one byte less than it asks for); `BlockSizes` is
  `<<2, 1>>`, so lengths below, at and above the first block occur and a length
  of 3 needs a second block; `MaxFed` 7 gives a first call, an appended one
  that fits behind the unread bytes, one that needs them moved, and one that needs a larger
  buffer; `MaxStored` 3 fills a length of 3 and bounds calls without a length;
  `IntMax` only has to exceed what is stored.  Section 5 proves all but `CallEnds`
  for every value of these.
- `SubAllocator`: three sizes (1, 2 and 4 units) in the place of 38; the size
  function of `Ppmd7_Construct` with a period of 2 in the place of 4 still has a
  size whose successor is two units larger, so that a remainder of 3 units
  needs two blocks.  An arena of 21 bytes with units of 2 leaves 8 units and 5 bytes of text: the
  root's four units can be split, shrunk, freed and glued, and a few units come
  from the text area.  `GlueReset` 1 in the place of 255 makes gluing alternate
  with failures; `MaxNU` 8 is reached only by gluing.  Section 5 proves the same
  for any number of sizes, any period, arena and unit.
- `SubAllocator8`: the same sizes in 22 bytes, contexts up to order 2, `KeepOrder`
  1 (`O_BOUND`, 9 in the code), so that there are contexts on both sides of it.
  `MoveReach` 8 bytes (16 KB in the code) lets blocks at `UnitsStart` be moved and
  others not.  With longer contexts an arena that leaves those of the highest order a
  block for `ShrinkStats` to shrink is beyond TLC.  `cutoff_minimum` has 19 bytes, of which the root needs
  more than three quarters.  The proofs of section 5 have no such bounds: they cover the
  block that TLC cannot reach.
- `Codec`: three symbols of 256, of which one has the high bit; digits to the base
  64 and `kBot` 2^11 keep the products within TLC's 32-bit integers; a period of 3
  bits in the place of 7 (`PPMD_INT_BITS`) gives probabilities with the same
  rounding.  `MAX_FREQ` is 12 in the place of 124, so that a run of one symbol
  rescales; 12 bytes of text and 10 units of memory run out within a few symbols,
  40 units do not.  The text of 21 symbols in `MCCodec` makes a rescale remove some
  symbols of a context and keep others.  The run reaches carries, a held-back run
  of largest digits, the cut of PPMd8's range, both kinds of rescale, failing
  allocations, and a full text area.  It does not reach three branches: the search of
  `ReduceOrder` that finds a state with a successor above one without (after a
  restart only the root lacks some, which `SuccessorsTell` states, so the branch
  waits for `CutOff`), an escape estimator that lengthens its period (it takes
  dozens of escapes in one class), and `DataError` (damaged input only).
- `StreamEncoder`: blocks of 3 and 2 bytes in the place of 32 KB and more, symbols of
  0 to 2 bytes, so that a block is left with room for less than a symbol, filled
  exactly, and grown; 3 calls of two threads give two calls at once and one after.
  Sizes, threads and calls are unbounded in section 5.

### Fairness

`thread_decoder`: weak fairness of `CallStep` and `WorkerStep` says that both
threads are scheduled and that the clock of the timed wait advances; weak
fairness of `Cancel` that a thread at a cancellation point with a request
pending acts on it, as POSIX demands.  Nothing is assumed of the client and of
spurious wakeups.  `CallReturns` fails when the timeout is taken out, which
is why it is there.  `stream_decoder` assumes that the method runs and that the
decoder makes a step, which is what `CallReturns` shows for the threads; with `length = -1`
the end of a call comes from the finite input and from `MaxStored`, that is
from the end of the stream and of memory.  `sub_allocator8` assumes that
`RestoreModel`, once begun, goes on: it is one thread in one function.
`stream_encoder` assumes that a thread in a method is scheduled, with the GIL
where it needs it.  It does not assume that the object's lock is fair; with a
bounded number of calls a waiting thread is passed only so often.

## 4. The findings

`PROJECT.json` lists them with their lines, each with a run whose counterexample
is the story: `ReturnedProducedSize`, `PosWithinSize`, `ShortMeansExhausted`,
`GrowHasRest`, `RestoreEnds` (in `cutoff_minimum`) and `NothingLost` (of
`StreamEncoder`).  Three more were read off the code and need no model: `flushed`
is tested but never set, `encode()` never releases its `Py_buffer`, and its loop
counter is too narrow for 4 GiB.

## 5. What is proved

### The threads

`ThreadDecoderProofs` proves, for all `InSizes`, `OutSizes` (sets of naturals),
`Lengths` (a set of integers), `MaxReads` and `CreateMayFail`, from
`SizesAssumption` and `BoundsAssumption` alone:

| Theorem | Property |
|---|---|
| `TypeCorrect` | `TypeOK` |
| `ClientOwnsBuffers` | `IdleOwnership` |
| `BufferBounds` | `InBounds` |
| `CleanFree` | `FreeIsClean` |
| `Quiet` | `QuietBetweenCalls` |
| `StarvedReturn` | `StarvedMeansExhausted` |
| `SingleWorker` | `OneWorker` |
| `ReturnedLength` | `ReturnCoversStored` |
| `Refinement` | `ImplementsHandoff` |

The argument.  None of the invariants is inductive.  `IInv` adds to `TypeOK`:
`LockInv`, that the mutex is only ever held across steps by a cancelled worker
on its way out; `ControlInv`, which pairs of `cpc` and `wpc` meet and what the
flags say then - its core is that `empty` is true exactly while the worker
sleeps and has not been told otherwise, so that a stale flag cannot exist;
`RoomInv`, that a byte to fetch or to store has its place; and `CountInv`, what
`wi` and `fresh` count.  Each part is preserved by its own lemma, one step per
action (`TypeStep`, `LockStep`, `ControlStep`, `RoomStep`, `CountStep`);
`Invariance` combines them.  The action properties and the refinement follow
from `IInv` and the definition of the step: `ClientRefines` and `HiddenSteps`
and `DecoderRefines` map each action to a step of `DecodeHandoff` or to a
stutter, under the mapping stated in `ThreadDecoder` (`HandoffPhase`,
`HandoffQuota`, `UntilClosing`).

### The encoder

`StreamEncoderProofs` proves, for any set of threads, any lengths, symbol and
flush sizes, blocks and number of calls, from `SizesAssumption` and
`ThreadsAssumption`:

| Theorem | Property |
|---|---|
| `TypeCorrect` | `TypeOK`, mutual exclusion included |
| `Order` | `BytesInOrder` |
| `Kept` | `LostOnlyWhen` |

`TypeOK` needs only that whoever codes a symbol has one left (`Coding`).  The
order of the bytes is not inductive: a byte could be put behind a younger one, or
into the block of a call that has ended.  `OrderInv` says that neither can be: all
bytes returned or held are at most `produced`, the writer of the coder is that of
the thread inside, and a thread outside holds no bytes.  `LostOnlyWhen` is then
preserved with these.  `AppendNext` and `AppendRun` are the two facts about
sequences; the steps that touch neither bytes nor the threads inside go through
`OrderFrame` and `LostFrame`.

### The decode methods

`StreamDecoderProofs` proves, for any sizes of data and of output blocks, any
lengths, header size and `IntMax`, from `ParametersAssumption`:

| Theorem | Property |
|---|---|
| `TypesAlways` | `TypeOK` |
| `BytesAlwaysInOrder` | `BytesInOrder` |
| `NothingEverLost` | `NothingLost` |
| `AlwaysWithinLength` | `WithinLength` |
| `ResumesSafely` | `ResumeSafe` |
| `StarvedAlwaysAsks` | `StarvedAsksForInput` |
| `NeedsInputMeansAlwaysExhausted` | `NeedsInputMeansExhausted` |

`BytesInOrder` looks at one byte, the next to be read; to hold again a step later it
needs all of them.  `InputInv` says that the bytes prepared for a call are exactly
those fed and not consumed, in order, and that between calls `input_buffer` holds the
same between `in_begin` and `in_end`; `MakeRoom` and `Overwrite` have lemmas that
say where the old bytes and the new ones then lie (`RoomIsMade`,
`OverwriteWrites`).  `OutputInv` says that `allocated` less the room left in the last
block is what was stored, and what the sizes of the first two blocks tell of it, which
is what `OutputBuffer_Finish` goes by when it takes a block as the result.
`PhaseInv` says when a decoder can be suspended at all: after the header, with
all input read and, between calls, with `needs_input` set.  `ResumeSafe` follows
from that and `Protocol`; it is the guard `ResumeContract` that the proofs about the threads
take as given, so the two arguments meet here.

### Sizes and blocks

`UnitSizesProofs` holds what both allocators rest on, from `SizesAssumption`,
`RoomAssumption` and `SplitAssumption`: the sizes grow with their index and
`Units2Indx` finds the smallest that is large enough (`SizesGrow`, `SmallestSize`);
a run of units cut into blocks, as `SplitBlock`, `InsertUnits` and the last part of
`GlueFreeBlocks` do it, is covered by them without overlap (`PiecesTile`, `NodesTile`,
`RunsTile`); gluing keeps the units (`RunsGlued`); the arena of `RestartModel` has the
parts it should have (`RootArena`).  `RoomAssumption` says that the root context and
its states fit, which `PPMD7_MIN_MEM_SIZE` sees to; `SplitAssumption` says
that what is left of a block cut to the next smaller size has a list of its own, which
the code takes for granted when it puts it in list `nu - k - 1`: with 38 sizes
that differ by at most four units it is a matter of three cases.

### The memory of PPMd7

`SubAllocatorProofs`, from those and `GlueAssumption`, for any arena, units and
number of sizes:

| Theorem | Property |
|---|---|
| `TypesAlways` | `TypeOK` |
| `TextAlwaysApart` | `TextApart` |
| `PartitionAlways` | `Partition` |
| `GluingFindsRuns` | `GlueFindsRun` |
| `RefinesPool` | `ImplementsPool` |

`Partition` speaks of blocks, and a block is cut, joined and handed on; the proof speaks
of units.  `IInv` says that the free lists do not overlap, with each other or
with the gap (`Sound`), that contexts and states do not (`HeldInv`), and that
what is free and what is taken are disjoint and together the arena
(`SharesInv`).  Every operation of the allocator is then a lemma of one form: it takes units out
of the free ones, or puts units back that were not in it, and leaves a sound
heap (`Gained`, `Left`).  A step of the context model combines a few of these with the
same change of its own memory.  `TextInv` keeps the text below `UnitsStart`.

`GlueFindsRun` is an action property: when an allocation gives up, right after
gluing, no run of adjacent free units is as long as the request.  It is proved from what
the gluings can yield, not from the invariant alone.

`RefinesPool` shows that each step is one of `MemoryPool` or a stutter under
the mapping stated in `SubAllocator`: free lists, gap and gluing are hidden, and what the
client sees is blocks that never overlap above a text that never meets them.

### The memory of PPMd8

`SubAllocator8Proofs`, from the same assumptions on sizes and `RestoreAssumption`,
for any orders, `MoveReach` and both restore methods (`Restart`):

| Theorem | Property |
|---|---|
| `TypesAlways` | `TypeOK` |
| `PartitionAlways` | `Partition` |
| `NoDanglingAlways` | `NoDangling` |
| `UsedMemoryAlwaysExact` | `UsedMemoryExact` |

The heap is treated as PPMd7's, with two differences.  The arena shrinks at its lower
end: `SpecialFreeUnit` and `ExpandTextArea` hand units to the text, so that the
lemmas follow `Arena(heap)` through each of them.  And `Stamps` must count the
nodes of the lists (`Counted`): with it and the finiteness of the lists,
`UsedMemoryAlwaysExact` compares the sum that `GetUsedMemory` computes with
the number of units taken (`UnitsCounted`, `SizeCounted`, `FreeCounted`).

The contexts bring four more parts, because `RestoreModel` stops in the middle of
what `NoDangling` is about:

- `TreeInv`: parents are contexts in use, one order below.
- `RoomInv`: a context has no more successors than its block of states has room for.
  This alone is not inductive: `NewStats` enlarges the block of one context after another
  for one symbol, and when memory runs out in between, `Undo` (the loop at the start of
  `RestoreModel`, for contexts down from `c1`) makes those already
  enlarged smaller again.  For them (`grown`) the number of successors is still what the
  smaller block allowed (`Lately`).
- `StackInv`: the calls of `CutOff` under way are for different contexts, none of which
  will be entered again, and none has more successors in the tree than its frame still
  knows of.  A call that returns, with its context freed, moved or made smaller, then
  takes with it nothing that another call needs.
- `PhaseInv`: which of these variables mean something when.

There is one lemma a step (`AppendTextKeeps` ... `LeaveKeeps`, `EndPassKeeps`),
and `NextIInv` combines them.  `Leave` is the longest: the six ways `CutOff` can return, each
an exchange of units between heap and contexts, a change of the tree and a
shorter stack.

TLC checks the invariants of these sections, too, on the instances of section 3: 142,244 states of
`SubAllocator`, 179,398 of `SubAllocator8`.

### The counts of the contexts

`ContextCountsProofs`, about the operators of `ContextCounts` and `ContextTree`, for
any alphabet and any `MAX_FREQ` from 8 to 246 whose sums fit two bytes
(`CountsAssumption`; the code's 256 symbols and 124 do).  `EscapeRoom` of the run
`codec` is `Roomy` in both models: in a context with several states `SummFreq`
exceeds the sum of the frequencies, by at most `ShareLimit`, and each frequency is in
`1..MAX_FREQ`; a state that is alone has its frequency in a byte.  `Ppmd7.c` and
`Ppmd8.c` change these numbers in a dozen places and check them in none.  Each place
keeps `Roomy`, in PPMd7 and in PPMd8:

| Theorem | Where |
|---|---|
| `RestartKeepsRoom` | `RestartModel` |
| `CountingKeepsRoom7`, `CountingKeepsRoom8` | `Update1_0`, `Update2`, with `Rescale` |
| `CountingUpKeepsRoom7`, `CountingUpKeepsRoom8` | `Update1`, with the exchange of two states and `Rescale` |
| `LoneCountKeepsRoom` | `UpdateBin` |
| `SuffixKeepsRoom` | `UpdateModel`: the symbol counts in the suffix too |
| `NewStateKeepsRoom7`, `NewStateKeepsRoom8` | `UpdateModel`: a context gets a new state, its second or a later one |
| `PassingKeepsRoom`, `SearchingKeepsRoom` | `CreateSuccessors` and `ReduceOrder` of PPMd8: the states on the way |
| `InheritedFits7`, `InheritedFits8` | `CreateSuccessors`: what a symbol starts with is in `1..255`, and is not divided by zero |
| `ChildKeepsRoom` | `CreateSuccessors`: a new context |

That `SummFreq` exceeds the sum is not enough to be kept: it is a `UInt16`, and an
escape's share that grew with every new state and every rescaling would wrap it.  Hence
the upper bound.  A new state adds at most 5 to the share; `Rescale` halves it, after
adding one for each state that goes, so that the states that are left and
those that went pay for it together (`ShareLeft`).  The sum is then at most
256 * 124 and the share at most 2836, and nothing that is added to
`SummFreq` wraps it.

`Rescale` sorts while it halves.  `SortedTo` is the invariant of that loop: the
states so far are those of the original, halved, in falling order; so what has become
0 is at the end, where the code looks for it (`ZerosLast`).  A frequency becomes 0 only
without the adder, at full order, and never the first: `Kept` in the conclusion of
the counting theorems says that below full order no symbol goes, which is one half of what
`Nested` needs.  Update1 of the code rescales only when two states have changed places;
`NotRisenFits` shows that without an exchange nothing has passed `MAX_FREQ`.

The hypotheses are those of the calls: `FoundState` is a state of `MinContext`, a
context that is to get a symbol has not all of them, the symbol is found in the suffix.
They follow from the shape of the tree, which `Nested` and `SuccessorsTell` check; put
in front of the operations as assertions, they held at every call of the run `codec`.
`InitEsc \in 1..25`, for a context that gets its second state, is there because a
symbol is new in such a context only after an escape from it, which sets `InitEsc` from
`kExpEscape`.  The totals of `EncodeSymbol` after an escape, which are estimates,
are not part of this.

### The range coders

`RangeCoderProofs`, about the operators of `RangeCoder7` and `RangeCoder8`, for any
number of digits, any frequencies and, where there is an input, any input:

| PPMd7 | PPMd8 | What |
|---|---|---|
| `IntervalStays7`, `BitsStay7`, `CarryFits` | `IntervalStays8`, `BitsStay8` | the encoder's interval stays wide enough; a carry always has room in `Cache`, or there is none |
| `DecoderFollows7`, `BitsFollow7` | `DecoderFollows8` | the decoder keeps the encoder's interval and reads four digits ahead of it |
| `SymbolComesBack7`, `BitComesBack7` | `SymbolComesBack8`, `BitComesBack8` | a symbol or bit is decoded as it was encoded |
| `Begins7`, `BeginningComesBack7` | `Begins8`, `BeginningComesBack8` | `RangeDec_Init` |
| `FlushTells7` | `FlushTells8` | `FlushData` |

These are the properties `IntervalKept`, `RoundTrip` and `ConsumesAll` of `Codec`, one
step at a time.  The argument goes backwards through the text.  `At7(rc, input, o)` says
that the input begins with the digits `rc` has written, that the digits held back follow,
with or without the carry that is still to come, and that the four digits then are `o`
above `Low`; `At8` is the same without the digits held back.  After `FlushData` that
holds with `o = 0`.  If it holds after a symbol, `SymbolComesBack` says that it
held before the symbol, with an `o` in that symbol's part of the interval, and that a decoder
whose `Code` is that `o` finds the symbol and goes on with the `o` after it.
`BeginningComesBack` gives the decoder its first `Code`.  To chain these
steps over a text takes an induction over its length, and that
both sides use the same frequencies is a matter of the context models: both are
left to the run `codec`.

The parts that need an argument.  In PPMd7 the interval may reach beyond 2^32, but not
when the digit held back is the largest (`Open7`); `ShiftNumbers` shows that a shift
preserves this in each of its cases.  After a total of at most 2^16, `Range` is at least
2^8, which is why the decoder can do with two turns where the encoder loops
(`NormalizeTogether`).  In PPMd8 an interval that ends at 2^32 lies in the last 2^24
(`Open8`): a cut leaves it so.  The comparison of the top digits wraps there, and
`SameIs` shows that it still tells what it should.  `Stage` measures the loop; it
ends after three turns (`NormalizeIs8`).

The hypotheses.  `Digital` and `Bottom` are `CodersAssumption` of `Codec`.  A total is at most
`Base * Base` (2^16) for the decoder of PPMd7, 2^24 for its encoder, and at most `kBot`
(2^15) for PPMd8; `BitTotal` is 2^14.  The coders rely on these and check none.  For a
symbol found in its context the total of PPMd7 is `SummFreq`, a `UInt16` that does not
wrap (see above).  For one found
after an escape it is an estimate plus the frequencies that are left; and what keeps
the totals of PPMd8 below 2^15 is the rescaling of frequencies above 124.  Both
are the context model's affair and not part of these proofs: the run `codec` checks the
consequence, `IntervalKept`, on the totals that the models produce.

### Only model-checked

Liveness, which is out of the prover's reach, as is ENABLED: `CallReturns`,
`FreeCompletes`, `CallEnds`, `RestoreEnds`, `CallsReturn`.

`Codec`: all of its properties as properties of its behaviours.  The context models and
`SymbolCoder` are recursive over symbols and suffixes (`RECURSIVE` operators), which keeps
theorems out of the modules that use them.  `RangeCoderProofs` proves the steps that
`IntervalKept`, `RoundTrip` and `ConsumesAll` are made of, and `ContextCountsProofs` the
steps of `EscapeRoom`.  That `UpdateModel` and the symbol loops put these steps together as the
code does, each with its hypotheses true, is what the run shows.  `Nested` and
`SuccessorsTell` are about the shape of the tree, of which nothing is proved.

Induction over data is out of reach only in the form of the library's induction theorems, which
take an operator as a parameter.  Where a recursive *function* has to be reasoned about -
`Indx2Units`, the sum of `GetUsedMemory` - `UnitSizesProofs` goes by
the least number of a set (`LeastNumber`, `AllNumbers`), which follows from `WFMin`.

## 6. Not modelled, and the plan

Not modelled: Python's reference counts and exceptions as objects, the contents
of output blocks, object construction with its error paths, the attribute
`unused_data`, what `CutOff` and `Refresh` do to frequencies, Windows threads
(`win_pthreads.h`), the CFFI binding and the high-level API.  PPMd8's method
`FREEZE` is not compiled.

Next, in this order:

1. `CffiDecoder`: the decode methods of `cffi_ppmd.py` over `DecodeHandoff`, with
   the Python lock released around the C call; the stale values of
   `needs_input` and the exception paths that keep the lock.
2. Construction and destruction of the extension's objects with every allocation
   failing.
3. `Decompressor`: `PpmdDecompressor` over a decoder, its own `eof` and
   `needs_input`.
