------------------------- MODULE ThreadDecoderProofs -------------------------
(***************************************************************************)
(* Proofs about ThreadDecoder.tla, for every choice of its constants.      *)
(*                                                                         *)
(* The inductive invariant is the conjunction of TypeOK with four parts,   *)
(* each of which uses the ones before it:                                  *)
(*   LockInv     who holds the mutex, and when a worker can be cancelled   *)
(*   ControlInv  what the two flags and the two program counters say about *)
(*               each other                                                *)
(*   RoomInv     what the worker knows of the buffers at each point        *)
(*   CountInv    what the worker's counter and its result count            *)
(***************************************************************************)
EXTENDS ThreadDecoder, TLAPS

LockInv ==
    /\ mutex = "worker" <=> wpc = "cleanup"
    /\ wpc = "cleanup" => cancelled
    /\ cancelled => Closing

\* A call past its first two critical sections, before the join.
Waiting == cpc \in {"lock", "wait", "awake"}

ControlInv ==
    /\ cpc \in {"idle", "enter"} =>
           \/ finished /\ ~empty /\ wpc = "none"
           \/ ~finished /\ empty /\ Parked
    /\ cpc = "enter" => exited = finished
    /\ Waiting =>
           /\ empty => Parked
           /\ finished <=> wpc = "done"
    /\ cpc = "join" => finished /\ ~empty /\ wpc = "done"
    /\ cpc = "freed" => wpc = "none"

RoomInv ==
    /\ InBounds
    /\ cpc = "enter" /\ ~finished => inPos < inSize /\ outPos < outSize
    /\ InCall /\ wpc \in {"read", "refill"} => inPos < inSize
    /\ InCall /\ (Parked \/ wpc \in {"symbol", "read", "refill", "put"}) =>
           outPos < outSize
    /\ InCall /\ Parked /\ ~empty => inPos < inSize
    /\ Waiting /\ Parked /\ empty => inPos = inSize

\* What decode_run may return when it stops at wi bytes.
ResultOf(r) ==
    \/ r \in {EndOfStream, Corrupted} /\ wi < wmax /\ outPos < outSize
    \/ r = wi /\ (wi >= wmax \/ outPos = outSize)

CountInv ==
    /\ wpc \in {"none", "start"} => wi = 0
    /\ Parked \/ wpc \in {"symbol", "read", "refill", "put"} => wi < wmax
    /\ InCall /\ wpc = "exit" => ResultOf(wres)
    /\ InCall /\ wpc = "done" => ResultOf(result)
    /\ cpc = "enter" => fresh = 0
    /\ Waiting \/ cpc = "join" => fresh <= wi /\ (exited => fresh = wi)

IInv == TypeOK /\ LockInv /\ ControlInv /\ RoomInv /\ CountInv

\* Every step keeps the types.
LEMMA TypeStep ==
    ASSUME TypeOK, [Next]_vars PROVE TypeOK'
<1> USE SizesAssumption
<1> USE DEF buffers, control, worker, controller, TypeOK,
           WorkerStates, CallStates, ClosingStates, ControllerStates,
           EndOfStream, Corrupted
<1>1. CASE \E n \in InSizes : SetInput(n)
  BY <1>1 DEF SetInput
<1>2. CASE \E n \in OutSizes : SetOutput(n)
  BY <1>2 DEF SetOutput
<1>3. CASE \E n \in Lengths : EnterDecode(n)
  BY <1>3 DEF EnterDecode, ResumeContract
<1>4. CASE FreeFinished
  BY <1>4 DEF FreeFinished
<1>5. CASE FreeWake
  BY <1>5 DEF FreeWake, WakeWorker
<1>6. CASE Launch
  BY <1>6 DEF Launch
<1>7. CASE Restart
  BY <1>7 DEF Restart, WakeWorker
<1>8. CASE BeginWait
  BY <1>8 DEF BeginWait
<1>9. CASE Timeout
  BY <1>9 DEF Timeout
<1>10. CASE ReturnStarved
  BY <1>10 DEF ReturnStarved
<1>11. CASE LeaveLoop
  BY <1>11 DEF LeaveLoop
<1>12. CASE WaitAgain
  BY <1>12 DEF WaitAgain
<1>13. CASE ReturnFinished
  BY <1>13 DEF ReturnFinished, WorkerGone
<1>14. CASE FreeCancel
  BY <1>14 DEF FreeCancel
<1>15. CASE FreeJoin
  BY <1>15 DEF FreeJoin, WorkerGone
<1>16. CASE Begin
  BY <1>16 DEF Begin
<1>17. CASE NextSymbol
  BY <1>17 DEF NextSymbol
<1>18. CASE LoopEnds
  BY <1>18 DEF LoopEnds
<1>19. CASE SymbolDecoded
  BY <1>19 DEF SymbolDecoded
<1>20. CASE SymbolFails
  BY <1>20 DEF SymbolFails
<1>21. CASE PutByte
  BY <1>21 DEF PutByte
<1>22. CASE Exit
  BY <1>22 DEF Exit, WakeController
<1>23. CASE ReaderHasInput
  BY <1>23 DEF ReaderHasInput
<1>24. CASE ReaderStarves
  BY <1>24 DEF ReaderStarves, WakeController
<1>25. CASE WaitReturns
  BY <1>25 DEF WaitReturns
<1>26. CASE FetchByte
  BY <1>26 DEF FetchByte
<1>27. CASE Cancel
  BY <1>27 DEF Cancel
<1>28. CASE Cleanup
  BY <1>28 DEF Cleanup
<1>29. CASE SpuriousWakeup
  BY <1>29 DEF SpuriousWakeup
<1>30. CASE Freed
  BY <1>30 DEF Freed, vars
<1>31. CASE UNCHANGED vars
  BY <1>31 DEF vars
<1> QED
  BY <1>1, <1>2, <1>3, <1>4, <1>5, <1>6, <1>7, <1>8, <1>9, <1>10, <1>11,
     <1>12, <1>13, <1>14, <1>15, <1>16, <1>17, <1>18, <1>19, <1>20, <1>21,
     <1>22, <1>23, <1>24, <1>25, <1>26, <1>27, <1>28, <1>29, <1>30, <1>31 DEF
     Next, ClientStep, CallStep, WorkerStep

\* Every step keeps LockInv: a worker is cancelled only by Ppmd7T_Free, and it
\* holds the mutex only while it unwinds.
LEMMA LockStep ==
    ASSUME LockInv, [Next]_vars PROVE LockInv'
<1> USE DEF buffers, control, worker, controller, LockInv, Unlocked, Parked,
           Closing, ClosingStates
<1>1. CASE \E n \in InSizes : SetInput(n)
  BY <1>1 DEF SetInput
<1>2. CASE \E n \in OutSizes : SetOutput(n)
  BY <1>2 DEF SetOutput
<1>3. CASE \E n \in Lengths : EnterDecode(n)
  BY <1>3 DEF EnterDecode, ResumeContract
<1>4. CASE FreeFinished
  BY <1>4 DEF FreeFinished
<1>5. CASE FreeWake
  BY <1>5 DEF FreeWake, WakeWorker
<1>6. CASE Launch
  BY <1>6 DEF Launch
<1>7. CASE Restart
  BY <1>7 DEF Restart, WakeWorker
<1>8. CASE BeginWait
  BY <1>8 DEF BeginWait
<1>9. CASE Timeout
  BY <1>9 DEF Timeout
<1>10. CASE ReturnStarved
  BY <1>10 DEF ReturnStarved
<1>11. CASE LeaveLoop
  BY <1>11 DEF LeaveLoop
<1>12. CASE WaitAgain
  BY <1>12 DEF WaitAgain
<1>13. CASE ReturnFinished
  BY <1>13 DEF ReturnFinished, WorkerGone
<1>14. CASE FreeCancel
  BY <1>14 DEF FreeCancel
<1>15. CASE FreeJoin
  BY <1>15 DEF FreeJoin, WorkerGone
<1>16. CASE Begin
  BY <1>16 DEF Begin
<1>17. CASE NextSymbol
  BY <1>17 DEF NextSymbol
<1>18. CASE LoopEnds
  BY <1>18 DEF LoopEnds
<1>19. CASE SymbolDecoded
  BY <1>19 DEF SymbolDecoded
<1>20. CASE SymbolFails
  BY <1>20 DEF SymbolFails
<1>21. CASE PutByte
  BY <1>21 DEF PutByte
<1>22. CASE Exit
  BY <1>22 DEF Exit, WakeController
<1>23. CASE ReaderHasInput
  BY <1>23 DEF ReaderHasInput
<1>24. CASE ReaderStarves
  BY <1>24 DEF ReaderStarves, WakeController
<1>25. CASE WaitReturns
  BY <1>25 DEF WaitReturns
<1>26. CASE FetchByte
  BY <1>26 DEF FetchByte
<1>27. CASE Cancel
  BY <1>27 DEF Cancel
<1>28. CASE Cleanup
  BY <1>28 DEF Cleanup
<1>29. CASE SpuriousWakeup
  BY <1>29 DEF SpuriousWakeup
<1>30. CASE Freed
  BY <1>30 DEF Freed, vars
<1>31. CASE UNCHANGED vars
  BY <1>31 DEF vars
<1> QED
  BY <1>1, <1>2, <1>3, <1>4, <1>5, <1>6, <1>7, <1>8, <1>9, <1>10, <1>11,
     <1>12, <1>13, <1>14, <1>15, <1>16, <1>17, <1>18, <1>19, <1>20, <1>21,
     <1>22, <1>23, <1>24, <1>25, <1>26, <1>27, <1>28, <1>29, <1>30, <1>31 DEF
     Next, ClientStep, CallStep, WorkerStep

\* Every step keeps ControlInv.
LEMMA ControlStep ==
    ASSUME LockInv, ControlInv, [Next]_vars PROVE ControlInv'
<1> USE DEF buffers, control, worker, controller, LockInv, ControlInv, Unlocked,
           Parked, Waiting, Closing, ClosingStates
<1>1. CASE \E n \in InSizes : SetInput(n)
  BY <1>1 DEF SetInput
<1>2. CASE \E n \in OutSizes : SetOutput(n)
  BY <1>2 DEF SetOutput
<1>3. CASE \E n \in Lengths : EnterDecode(n)
  BY <1>3 DEF EnterDecode, ResumeContract
<1>4. CASE FreeFinished
  BY <1>4 DEF FreeFinished
<1>5. CASE FreeWake
  BY <1>5 DEF FreeWake, WakeWorker
<1>6. CASE Launch
  BY <1>6 DEF Launch
<1>7. CASE Restart
  BY <1>7 DEF Restart, WakeWorker
<1>8. CASE BeginWait
  BY <1>8 DEF BeginWait
<1>9. CASE Timeout
  BY <1>9 DEF Timeout
<1>10. CASE ReturnStarved
  BY <1>10 DEF ReturnStarved
<1>11. CASE LeaveLoop
  BY <1>11 DEF LeaveLoop
<1>12. CASE WaitAgain
  BY <1>12 DEF WaitAgain
<1>13. CASE ReturnFinished
  BY <1>13 DEF ReturnFinished, WorkerGone
<1>14. CASE FreeCancel
  BY <1>14 DEF FreeCancel
<1>15. CASE FreeJoin
  BY <1>15 DEF FreeJoin, WorkerGone
<1>16. CASE Begin
  BY <1>16 DEF Begin
<1>17. CASE NextSymbol
  BY <1>17 DEF NextSymbol
<1>18. CASE LoopEnds
  BY <1>18 DEF LoopEnds
<1>19. CASE SymbolDecoded
  BY <1>19 DEF SymbolDecoded
<1>20. CASE SymbolFails
  BY <1>20 DEF SymbolFails
<1>21. CASE PutByte
  BY <1>21 DEF PutByte
<1>22. CASE Exit
  BY <1>22 DEF Exit, WakeController
<1>23. CASE ReaderHasInput
  BY <1>23 DEF ReaderHasInput
<1>24. CASE ReaderStarves
  BY <1>24 DEF ReaderStarves, WakeController
<1>25. CASE WaitReturns
  BY <1>25 DEF WaitReturns
<1>26. CASE FetchByte
  BY <1>26 DEF FetchByte
<1>27. CASE Cancel
  BY <1>27 DEF Cancel
<1>28. CASE Cleanup
  BY <1>28 DEF Cleanup
<1>29. CASE SpuriousWakeup
  BY <1>29 DEF SpuriousWakeup
<1>30. CASE Freed
  BY <1>30 DEF Freed, vars
<1>31. CASE UNCHANGED vars
  BY <1>31 DEF vars
<1> QED
  BY <1>1, <1>2, <1>3, <1>4, <1>5, <1>6, <1>7, <1>8, <1>9, <1>10, <1>11,
     <1>12, <1>13, <1>14, <1>15, <1>16, <1>17, <1>18, <1>19, <1>20, <1>21,
     <1>22, <1>23, <1>24, <1>25, <1>26, <1>27, <1>28, <1>29, <1>30, <1>31 DEF
     Next, ClientStep, CallStep, WorkerStep

\* Every step keeps RoomInv.  The sizes are those of the client's choice, and
\* ResumeContract is what a woken worker relies on.
LEMMA RoomStep ==
    ASSUME TypeOK, LockInv, ControlInv, RoomInv, [Next]_vars PROVE RoomInv'
<1> USE SizesAssumption
<1> USE DEF buffers, control, worker, controller, TypeOK, LockInv, ControlInv,
           RoomInv, InBounds, Unlocked, Parked, Waiting, InCall, Closing,
           CallStates, ClosingStates
<1>1. CASE \E n \in InSizes : SetInput(n)
  BY <1>1 DEF SetInput
<1>2. CASE \E n \in OutSizes : SetOutput(n)
  BY <1>2 DEF SetOutput
<1>3. CASE \E n \in Lengths : EnterDecode(n)
  BY <1>3 DEF EnterDecode, ResumeContract
<1>4. CASE FreeFinished
  BY <1>4 DEF FreeFinished
<1>5. CASE FreeWake
  BY <1>5 DEF FreeWake, WakeWorker
<1>6. CASE Launch
  BY <1>6 DEF Launch
<1>7. CASE Restart
  BY <1>7 DEF Restart, WakeWorker
<1>8. CASE BeginWait
  BY <1>8 DEF BeginWait
<1>9. CASE Timeout
  BY <1>9 DEF Timeout
<1>10. CASE ReturnStarved
  BY <1>10 DEF ReturnStarved
<1>11. CASE LeaveLoop
  BY <1>11 DEF LeaveLoop
<1>12. CASE WaitAgain
  BY <1>12 DEF WaitAgain
<1>13. CASE ReturnFinished
  BY <1>13 DEF ReturnFinished, WorkerGone
<1>14. CASE FreeCancel
  BY <1>14 DEF FreeCancel
<1>15. CASE FreeJoin
  BY <1>15 DEF FreeJoin, WorkerGone
<1>16. CASE Begin
  BY <1>16 DEF Begin
<1>17. CASE NextSymbol
  BY <1>17 DEF NextSymbol
<1>18. CASE LoopEnds
  BY <1>18 DEF LoopEnds
<1>19. CASE SymbolDecoded
  BY <1>19 DEF SymbolDecoded
<1>20. CASE SymbolFails
  BY <1>20 DEF SymbolFails
<1>21. CASE PutByte
  <2>1. wpc' = "loop" /\ outPos' = outPos + 1 /\ outSize' = outSize
    BY <1>21 DEF PutByte
  <2>2. inPos' = inPos /\ inSize' = inSize /\ cpc' = cpc
    BY <1>21 DEF PutByte
  <2>3. ~Closing => InCall
    BY <1>21 DEF PutByte, ControllerStates
  <2>4. InCall => outPos < outSize
    BY <1>21 DEF PutByte
  <2>5. InBounds'
    BY <2>1, <2>2, <2>3, <2>4
  <2> QED
    BY <1>21, <2>1, <2>2, <2>5 DEF PutByte
<1>22. CASE Exit
  BY <1>22 DEF Exit, WakeController
<1>23. CASE ReaderHasInput
  BY <1>23 DEF ReaderHasInput
<1>24. CASE ReaderStarves
  BY <1>24 DEF ReaderStarves, WakeController
<1>25. CASE WaitReturns
  BY <1>25 DEF WaitReturns
<1>26. CASE FetchByte
  <2>1. wpc' = "symbol" /\ inPos' = inPos + 1 /\ inSize' = inSize
    BY <1>26 DEF FetchByte
  <2>2. outPos' = outPos /\ outSize' = outSize /\ cpc' = cpc
    BY <1>26 DEF FetchByte
  <2>3. ~Closing => InCall
    BY <1>26 DEF FetchByte, ControllerStates
  <2>4. InCall => inPos < inSize /\ outPos < outSize
    BY <1>26 DEF FetchByte
  <2>5. InBounds'
    BY <2>1, <2>2, <2>3, <2>4
  <2> QED
    BY <1>26, <2>1, <2>2, <2>4, <2>5 DEF FetchByte
<1>27. CASE Cancel
  BY <1>27 DEF Cancel
<1>28. CASE Cleanup
  BY <1>28 DEF Cleanup
<1>29. CASE SpuriousWakeup
  BY <1>29 DEF SpuriousWakeup
<1>30. CASE Freed
  BY <1>30 DEF Freed, vars
<1>31. CASE UNCHANGED vars
  BY <1>31 DEF vars
<1> QED
  BY <1>1, <1>2, <1>3, <1>4, <1>5, <1>6, <1>7, <1>8, <1>9, <1>10, <1>11,
     <1>12, <1>13, <1>14, <1>15, <1>16, <1>17, <1>18, <1>19, <1>20, <1>21,
     <1>22, <1>23, <1>24, <1>25, <1>26, <1>27, <1>28, <1>29, <1>30, <1>31 DEF
     Next, ClientStep, CallStep, WorkerStep

\* Every step keeps CountInv.
LEMMA CountStep ==
    ASSUME TypeOK, LockInv, ControlInv, RoomInv, CountInv, [Next]_vars PROVE CountInv'
<1> USE SizesAssumption
<1> USE DEF buffers, control, worker, controller, TypeOK, LockInv, ControlInv,
           RoomInv, CountInv, ResultOf, Unlocked, Parked, Waiting, InCall, Closing,
           CallStates, ClosingStates, EndOfStream, Corrupted
<1>1. CASE \E n \in InSizes : SetInput(n)
  BY <1>1 DEF SetInput
<1>2. CASE \E n \in OutSizes : SetOutput(n)
  BY <1>2 DEF SetOutput
<1>3. CASE \E n \in Lengths : EnterDecode(n)
  BY <1>3 DEF EnterDecode, ResumeContract
<1>4. CASE FreeFinished
  BY <1>4 DEF FreeFinished
<1>5. CASE FreeWake
  BY <1>5 DEF FreeWake, WakeWorker
<1>6. CASE Launch
  <2>1. wi = 0 /\ wi' = wi /\ fresh = 0 /\ fresh' = fresh /\ cpc' = "lock"
    BY <1>6 DEF Launch
  <2>2. wpc = "none" /\ wpc' \in {"none", "start"}
    BY <1>6 DEF Launch
  <2> QED
    BY <2>1, <2>2
<1>7. CASE Restart
  BY <1>7 DEF Restart, WakeWorker
<1>8. CASE BeginWait
  BY <1>8 DEF BeginWait
<1>9. CASE Timeout
  BY <1>9 DEF Timeout
<1>10. CASE ReturnStarved
  BY <1>10 DEF ReturnStarved
<1>11. CASE LeaveLoop
  BY <1>11 DEF LeaveLoop
<1>12. CASE WaitAgain
  BY <1>12 DEF WaitAgain
<1>13. CASE ReturnFinished
  BY <1>13 DEF ReturnFinished, WorkerGone
<1>14. CASE FreeCancel
  BY <1>14 DEF FreeCancel
<1>15. CASE FreeJoin
  BY <1>15 DEF FreeJoin, WorkerGone
<1>16. CASE Begin
  BY <1>16 DEF Begin
<1>17. CASE NextSymbol
  BY <1>17 DEF NextSymbol
<1>18. CASE LoopEnds
  BY <1>18 DEF LoopEnds
<1>19. CASE SymbolDecoded
  BY <1>19 DEF SymbolDecoded
<1>20. CASE SymbolFails
  BY <1>20 DEF SymbolFails
<1>21. CASE PutByte
  BY <1>21 DEF PutByte
<1>22. CASE Exit
  BY <1>22 DEF Exit, WakeController
<1>23. CASE ReaderHasInput
  BY <1>23 DEF ReaderHasInput
<1>24. CASE ReaderStarves
  BY <1>24 DEF ReaderStarves, WakeController
<1>25. CASE WaitReturns
  BY <1>25 DEF WaitReturns
<1>26. CASE FetchByte
  BY <1>26 DEF FetchByte
<1>27. CASE Cancel
  BY <1>27 DEF Cancel
<1>28. CASE Cleanup
  BY <1>28 DEF Cleanup
<1>29. CASE SpuriousWakeup
  BY <1>29 DEF SpuriousWakeup
<1>30. CASE Freed
  BY <1>30 DEF Freed, vars
<1>31. CASE UNCHANGED vars
  BY <1>31 DEF vars
<1> QED
  BY <1>1, <1>2, <1>3, <1>4, <1>5, <1>6, <1>7, <1>8, <1>9, <1>10, <1>11,
     <1>12, <1>13, <1>14, <1>15, <1>16, <1>17, <1>18, <1>19, <1>20, <1>21,
     <1>22, <1>23, <1>24, <1>25, <1>26, <1>27, <1>28, <1>29, <1>30, <1>31 DEF
     Next, ClientStep, CallStep, WorkerStep

\* The initial states satisfy the invariant.
LEMMA InitInv == Init => IInv
<1> SUFFICES ASSUME Init PROVE IInv
  OBVIOUS
<1> USE DEF Init
<1>1. TypeOK
  <2>1. wpc \in WorkerStates /\ cpc \in ControllerStates
    BY DEF WorkerStates, ControllerStates
  <2>2. /\ empty \in BOOLEAN /\ finished \in BOOLEAN
        /\ cancelled \in BOOLEAN /\ exited \in BOOLEAN
    OBVIOUS
  <2>3. /\ inSize \in Nat /\ inPos \in Nat /\ outSize \in Nat /\ outPos \in Nat
        /\ max_length \in Int /\ result \in Int /\ wmax \in Int /\ wi \in Nat
        /\ wres \in Int /\ reads \in Nat /\ ret \in Int /\ fresh \in Nat
    OBVIOUS
  <2> QED
    BY <2>1, <2>2, <2>3 DEF TypeOK
<1>2. LockInv /\ ControlInv
  BY DEF LockInv, ControlInv, Waiting, Closing, ClosingStates
<1>3. RoomInv
  BY DEF RoomInv, InBounds, InCall, Closing, Waiting, CallStates, ClosingStates
<1>4. CountInv
  BY DEF CountInv, InCall, Waiting, Parked, CallStates
<1> QED
  BY <1>1, <1>2, <1>3, <1>4 DEF IInv

\* Every reachable state satisfies the invariant.
THEOREM Invariance == Spec => []IInv
<1>1. IInv /\ [Next]_vars => IInv'
  BY TypeStep, LockStep, ControlStep, RoomStep, CountStep DEF IInv
<1> QED
  BY InitInv, <1>1, PTL DEF Spec

\* Every variable keeps its type, whatever sizes and lengths the client uses.
THEOREM TypeCorrect == Spec => []TypeOK
  BY Invariance, PTL DEF IInv

\* Between calls no worker can run: the client may change both buffers.
THEOREM ClientOwnsBuffers == Spec => []IdleOwnership
<1>1. IInv => IdleOwnership
  BY DEF IInv, ControlInv, IdleOwnership
<1> QED
  BY Invariance, <1>1, PTL

\* Until Ppmd7T_Free the worker stays inside both buffers.
THEOREM BufferBounds == Spec => []InBounds
<1>1. IInv => InBounds
  BY DEF IInv, RoomInv
<1> QED
  BY Invariance, <1>1, PTL

\* When Ppmd7T_Free destroys the mutex, it is free and no worker is left.
THEOREM CleanFree == Spec => []FreeIsClean
<1>1. IInv => FreeIsClean
  BY DEF IInv, TypeOK, ControlInv, LockInv, FreeIsClean, Unlocked
<1> QED
  BY Invariance, <1>1, PTL

\* The worker moves the buffers' positions only inside a call or under
\* Ppmd7T_Free.
THEOREM Quiet == Spec => QuietBetweenCalls
<1>1. IInv /\ [Next]_vars =>
        [(inPos' > inPos \/ outPos' > outPos) => InCall \/ Closing]_vars
  <2> SUFFICES ASSUME IInv, Next, inPos' > inPos \/ outPos' > outPos
               PROVE  InCall \/ Closing
    OBVIOUS
  <2> USE DEF IInv, TypeOK, buffers, control, worker, controller, vars
  <2>1. CASE wpc \in {"put", "read", "refill"}
    BY <2>1 DEF ControlInv, InCall, Closing, Parked, ControllerStates
  <2>2. CASE ~(wpc \in {"put", "read", "refill"})
    <3>1. inPos' = inPos \/ inPos' = 0
      BY <2>2 DEF Next, ClientStep, CallStep, WorkerStep, SetInput, SetOutput, EnterDecode, FreeFinished,
         FreeWake, Launch, Restart, BeginWait, Timeout, ReturnStarved, LeaveLoop,
         WaitAgain, ReturnFinished, FreeCancel, FreeJoin, Begin, NextSymbol,
         LoopEnds, SymbolDecoded, SymbolFails, PutByte, Exit, ReaderHasInput,
         ReaderStarves, WaitReturns, FetchByte, Cancel, Cleanup, SpuriousWakeup,
         Freed, WorkerGone, WakeWorker, WakeController
    <3>2. outPos' = outPos \/ outPos' = 0
      BY <2>2 DEF Next, ClientStep, CallStep, WorkerStep, SetInput, SetOutput, EnterDecode, FreeFinished,
         FreeWake, Launch, Restart, BeginWait, Timeout, ReturnStarved, LeaveLoop,
         WaitAgain, ReturnFinished, FreeCancel, FreeJoin, Begin, NextSymbol,
         LoopEnds, SymbolDecoded, SymbolFails, PutByte, Exit, ReaderHasInput,
         ReaderStarves, WaitReturns, FetchByte, Cancel, Cleanup, SpuriousWakeup,
         Freed, WorkerGone, WakeWorker, WakeController
    <3> QED
      BY <3>1, <3>2
  <2> QED
    BY <2>1, <2>2
<1> QED
  BY Invariance, <1>1, PTL DEF Spec, QuietBetweenCalls

\* When Ppmd7T_decode returns early, the input is used up and the worker
\* waits for more.
THEOREM StarvedReturn == Spec => StarvedMeansExhausted
<1>1. IInv /\ [Next]_vars =>
        [cpc = "awake" /\ cpc' = "idle" => inPos = inSize /\ Parked]_vars
  <2> SUFFICES ASSUME IInv, Next, cpc = "awake", cpc' = "idle"
               PROVE  inPos = inSize /\ Parked
    OBVIOUS
  <2> USE DEF buffers, control, worker, controller
  <2>1. empty
    BY DEF Next, ClientStep, CallStep, WorkerStep, SetInput, SetOutput, EnterDecode, FreeFinished,
         FreeWake, Launch, Restart, BeginWait, Timeout, ReturnStarved, LeaveLoop,
         WaitAgain, ReturnFinished, FreeCancel, FreeJoin, Begin, NextSymbol,
         LoopEnds, SymbolDecoded, SymbolFails, PutByte, Exit, ReaderHasInput,
         ReaderStarves, WaitReturns, FetchByte, Cancel, Cleanup, SpuriousWakeup,
         Freed, WorkerGone, WakeWorker, WakeController, vars
  <2>2. Parked
    BY <2>1 DEF IInv, ControlInv, Waiting
  <2> QED
    BY <2>1, <2>2 DEF IInv, RoomInv, Waiting
<1> QED
  BY Invariance, <1>1, PTL DEF Spec, StarvedMeansExhausted

\* A thread is created only when there is none: its handle is never lost.
THEOREM SingleWorker == Spec => OneWorker
<1>1. IInv /\ [Next]_vars =>
        [wpc' = "start" /\ wpc # "start" => wpc = "none"]_vars
  <2> SUFFICES ASSUME IInv, Next, wpc' = "start", wpc # "start"
               PROVE  wpc = "none"
    OBVIOUS
  <2> USE DEF buffers, control, worker, controller
  <2>1. Launch
    BY DEF Next, ClientStep, CallStep, WorkerStep, SetInput, SetOutput, EnterDecode, FreeFinished,
         FreeWake, Launch, Restart, BeginWait, Timeout, ReturnStarved, LeaveLoop,
         WaitAgain, ReturnFinished, FreeCancel, FreeJoin, Begin, NextSymbol,
         LoopEnds, SymbolDecoded, SymbolFails, PutByte, Exit, ReaderHasInput,
         ReaderStarves, WaitReturns, FetchByte, Cancel, Cleanup, SpuriousWakeup,
         Freed, WorkerGone, WakeWorker, WakeController, vars
  <2> QED
    BY <2>1 DEF Launch, IInv, ControlInv
<1> QED
  BY Invariance, <1>1, PTL DEF Spec, OneWorker

\* A call returns at least the number of bytes it stored, and exactly that
\* when it started the worker itself.
THEOREM ReturnedLength == Spec => ReturnCoversStored
<1>1. IInv /\ [Next]_vars =>
        [cpc = "join" /\ cpc' = "idle" /\ ret' >= 0 =>
             /\ fresh <= ret'
             /\ exited => ret' = fresh]_vars
  <2> SUFFICES ASSUME IInv, Next, cpc = "join", cpc' = "idle", ret' >= 0
               PROVE  fresh <= ret' /\ (exited => ret' = fresh)
    OBVIOUS
  <2> USE DEF buffers, control, worker, controller
  <2>1. ret' = result /\ wpc = "done"
    BY DEF Next, ClientStep, CallStep, WorkerStep, SetInput, SetOutput, EnterDecode, FreeFinished,
         FreeWake, Launch, Restart, BeginWait, Timeout, ReturnStarved, LeaveLoop,
         WaitAgain, ReturnFinished, FreeCancel, FreeJoin, Begin, NextSymbol,
         LoopEnds, SymbolDecoded, SymbolFails, PutByte, Exit, ReaderHasInput,
         ReaderStarves, WaitReturns, FetchByte, Cancel, Cleanup, SpuriousWakeup,
         Freed, WorkerGone, WakeWorker, WakeController, vars
  <2>2. result = wi
    BY <2>1 DEF IInv, CountInv, ResultOf, InCall, CallStates, EndOfStream,
                Corrupted
  <2> QED
    BY <2>1, <2>2 DEF IInv, CountInv
<1> QED
  BY Invariance, <1>1, PTL DEF Spec, ReturnCoversStored
-------------------------------------------------------------------------------
(***************************************************************************)
(* ThreadDecoder implements DecodeHandoff.                                 *)
(***************************************************************************)

\* What the client does between two calls it does to the coroutine too.
LEMMA ClientRefines ==
    ASSUME IInv, ClientStep PROVE Handoff!Next
<1> USE DEF buffers, control, worker, controller, IInv, ControlInv, Parked,
            Refilling, HandoffPhase, HandoffQuota, UntilClosing, InCall, Closing, CallStates, ClosingStates
<1>1. ASSUME NEW n \in InSizes, SetInput(n) PROVE Handoff!Feed(n)
  BY <1>1 DEF SetInput, Handoff!Feed, Handoff!ClientOwns
<1>2. ASSUME NEW n \in OutSizes, SetOutput(n) PROVE Handoff!Offer(n)
  BY <1>2 DEF SetOutput, Handoff!Offer, Handoff!ClientOwns
<1>3. ASSUME NEW n \in Lengths, EnterDecode(n)
      PROVE  Handoff!Start(n) \/ Handoff!Resume
  <2>1. CASE finished
    BY <1>3, <2>1 DEF EnterDecode, Handoff!Start, CountInv
  <2>2. CASE ~finished
    BY <1>3, <2>2 DEF EnterDecode, ResumeContract, Handoff!Resume
  <2> QED
    BY <2>1, <2>2
<1>4. ASSUME FreeFinished \/ FreeWake PROVE Handoff!Close
  BY <1>4 DEF FreeFinished, FreeWake, Handoff!Close, Handoff!ClientOwns
<1> QED
  BY <1>1, <1>2, <1>3, <1>4 DEF ClientStep, Handoff!Next

\* The steps the coroutine does not see.
HiddenStep ==
    \/ Launch \/ Restart \/ BeginWait \/ Timeout \/ LeaveLoop \/ WaitAgain
    \/ FreeCancel \/ FreeJoin
    \/ Begin \/ NextSymbol \/ LoopEnds \/ SymbolDecoded \/ SymbolFails \/ Exit
    \/ ReaderHasInput \/ ReaderStarves \/ WaitReturns \/ Cancel \/ Cleanup
    \/ SpuriousWakeup \/ Freed

\* They change nothing of what the coroutine is made of.
LEMMA HiddenSteps ==
    ASSUME IInv, HiddenStep
    PROVE  UNCHANGED Handoff!vars
<1> USE DEF buffers, control, worker, controller, IInv, ControlInv, LockInv, Parked, Waiting,
            Parked, Refilling, HandoffPhase, HandoffQuota, UntilClosing,
            InCall, Closing, CallStates, ClosingStates, Handoff!vars
<1>1. CASE Launch
  BY <1>1 DEF Launch
<1>2. CASE Restart
  BY <1>2 DEF Restart, WakeWorker
<1>3. CASE BeginWait
  BY <1>3 DEF BeginWait
<1>4. CASE Timeout
  BY <1>4 DEF Timeout
<1>5. CASE LeaveLoop
  BY <1>5 DEF LeaveLoop
<1>6. CASE WaitAgain
  BY <1>6 DEF WaitAgain
<1>7. CASE FreeCancel
  BY <1>7 DEF FreeCancel
<1>8. CASE FreeJoin
  BY <1>8 DEF FreeJoin, WorkerGone
<1>9. CASE Begin
  BY <1>9 DEF Begin, CountInv, TypeOK, ControllerStates
<1>10. CASE NextSymbol
  BY <1>10 DEF NextSymbol
<1>11. CASE LoopEnds
  BY <1>11 DEF LoopEnds
<1>12. CASE SymbolDecoded
  BY <1>12 DEF SymbolDecoded
<1>13. CASE SymbolFails
  BY <1>13 DEF SymbolFails
<1>14. CASE Exit
  <2>1. cpc # "idle" /\ cpc \in ControllerStates
    BY <1>14 DEF Exit, TypeOK
  <2>2. InCall' = InCall /\ Closing' = Closing /\ cpc' # "idle"
    BY <1>14, <2>1 DEF Exit, WakeController
  <2>3. UNCHANGED <<buffers, max_length, wmax, wi, ret>>
    BY <1>14 DEF Exit
  <2>4. ~(wpc \in {"none", "start"}) /\ ~(wpc' \in {"none", "start"})
    BY <1>14 DEF Exit
  <2>5. ~Refilling /\ ~Refilling'
    BY <1>14 DEF Exit
  <2>6. HandoffPhase' = HandoffPhase
    BY <2>1, <2>2, <2>5 DEF ControllerStates
  <2>7. HandoffQuota' = HandoffQuota
    BY <2>1, <2>2, <2>3, <2>4
  <2> QED
    BY <2>2, <2>3, <2>6, <2>7
<1>15. CASE ReaderHasInput
  BY <1>15 DEF ReaderHasInput
<1>16. CASE ReaderStarves
  BY <1>16 DEF ReaderStarves, WakeController
<1>17. CASE WaitReturns
  BY <1>17 DEF WaitReturns
<1>18. CASE Cancel
  BY <1>18 DEF Cancel
<1>19. CASE Cleanup
  BY <1>19 DEF Cleanup
<1>20. CASE SpuriousWakeup
  BY <1>20 DEF SpuriousWakeup
<1>21. CASE Freed
  BY <1>21 DEF Freed, vars
<1> QED
  BY <1>1, <1>2, <1>3, <1>4, <1>5, <1>6, <1>7, <1>8, <1>9, <1>10, <1>11,
     <1>12, <1>13, <1>14, <1>15, <1>16, <1>17, <1>18, <1>19, <1>20, <1>21 DEF HiddenStep

\* The steps the coroutine sees, and what it sees of them.
LEMMA DecoderRefines ==
    ASSUME IInv,
           ReturnStarved \/ ReturnFinished \/ PutByte \/ FetchByte
    PROVE  Handoff!Next \/ UNCHANGED Handoff!vars
<1> USE DEF buffers, control, worker, controller, IInv, TypeOK, ControlInv, LockInv, Waiting,
            Parked, Refilling, HandoffPhase, HandoffQuota, UntilClosing,
            InCall, Closing, CallStates, ClosingStates, ControllerStates
<1>1. ASSUME ReturnStarved PROVE Handoff!Starve
  BY <1>1 DEF ReturnStarved, RoomInv, CountInv, Parked, Handoff!Starve,
              Handoff!HasRoom
<1>2. ASSUME ReturnFinished PROVE Handoff!Finish(result)
  <2>1. ResultOf(result)
    BY <1>2 DEF ReturnFinished, CountInv
  <2> QED
    BY <1>2, <2>1 DEF ReturnFinished, WorkerGone, ResultOf, EndOfStream,
       Corrupted, RoomInv, InBounds, Handoff!Finish, Handoff!HasRoom,
       Handoff!EndOfStream, Handoff!Corrupted
<1>3. ASSUME PutByte PROVE Handoff!Store \/ UNCHANGED Handoff!vars
  <2>1. CASE Closing
    BY <1>3, <2>1 DEF PutByte, Handoff!vars
  <2>2. CASE ~Closing
    BY <1>3, <2>2 DEF PutByte, Parked, RoomInv, CountInv, Handoff!Store,
                      Handoff!HasRoom
  <2> QED
    BY <2>1, <2>2
<1>4. ASSUME FetchByte PROVE Handoff!Take \/ UNCHANGED Handoff!vars
  <2>1. CASE Closing
    BY <1>4, <2>1 DEF FetchByte, Handoff!vars
  <2>2. CASE ~Closing
    BY <1>4, <2>2 DEF FetchByte, Parked, RoomInv, CountInv, Handoff!Take,
                      Handoff!HasRoom
  <2> QED
    BY <2>1, <2>2
<1>5. Handoff!Finish(result) => Handoff!Next
  BY DEF Handoff!Finish, Handoff!Next
<1> QED
  BY <1>1, <1>2, <1>3, <1>4, <1>5 DEF Handoff!Next

\* The two threads, their mutex and their conditions are a correct
\* implementation of the coroutine.
THEOREM Refinement == Spec => ImplementsHandoff
<1>1. Init => Handoff!Init
  BY DEF Init, Handoff!Init, HandoffPhase, HandoffQuota, UntilClosing, InCall,
         Closing, CallStates, ClosingStates
<1>2. IInv /\ [Next]_vars => [Handoff!Next]_(Handoff!vars)
  <2> SUFFICES ASSUME IInv, [Next]_vars
               PROVE  [Handoff!Next]_(Handoff!vars)
    OBVIOUS
  <2>1. CASE Next
    BY <2>1, ClientRefines, HiddenSteps, DecoderRefines
    DEF Next, CallStep, WorkerStep, HiddenStep
  <2>2. CASE UNCHANGED vars
    BY <2>2 DEF vars, buffers, control, worker, controller, Parked,
                Refilling, HandoffPhase, HandoffQuota, UntilClosing, InCall, Closing, Handoff!vars
  <2> QED
    BY <2>1, <2>2
<1> QED
  BY Invariance, <1>1, <1>2, PTL DEF Spec, ImplementsHandoff, Handoff!Spec
===============================================================================
