------------------------ MODULE StreamEncoderProofs -------------------------
(***************************************************************************)
(* Proofs about StreamEncoder.tla, for any threads, data and blocks.       *)
(*                                                                         *)
(* The inductive invariant adds to the properties that a symbol is left    *)
(* for whoever codes one, that the writer of the coder is that of the call *)
(* inside, that a call outside has no bytes, and that no byte returned or  *)
(* held is younger than the last one produced.                             *)
(***************************************************************************)
EXTENDS StreamEncoder, TLAPS

UpTo(s, n) == \A i \in 1..Len(s) : s[i] <= n

Coding == \A t \in Threads : pc[t] = "symbol" => left[t] > 0

TypeInv == TypeOK /\ Coding

Dated(s, n) == Ascending(s) /\ UpTo(s, n)

OrderInv ==
    /\ \A t \in Threads : Inside(t) => stream = t
    /\ \A t \in Threads : ~Inside(t) => out[t] = << >>
    /\ Dated(results, produced)
    /\ \A t \in Threads : Dated(results \o out[t], produced)

IInv == TypeInv /\ (~misused => OrderInv) /\ LostOnlyWhen

-------------------------------------------------------------------------------
(***************************************************************************)
(* Sequences of the bytes.                                                 *)
(***************************************************************************)

\* A byte younger than all of a sequence keeps it in order at its end.
LEMMA AppendNext ==
    ASSUME NEW s \in Seq(Nat), NEW n \in Nat, Ascending(s), UpTo(s, n)
    PROVE  Ascending(Append(s, n + 1)) /\ UpTo(Append(s, n + 1), n + 1)
  BY DEF Ascending, UpTo

\* And so does a run of them.
LEMMA AppendRun ==
    ASSUME NEW s \in Seq(Nat), NEW n \in Nat, NEW k \in Nat, Ascending(s), UpTo(s, n)
    PROVE  LET r == s \o [i \in 1..k |-> n + i] IN
           r \in Seq(Nat) /\ Len(r) = Len(s) + k /\ Ascending(r) /\ UpTo(r, n + k)
<1> DEFINE run == [i \in 1..k |-> n + i]
           r == s \o run
<1>1. run \in Seq(Nat) /\ Len(run) = k
  OBVIOUS
<1>2. r \in Seq(Nat) /\ Len(r) = Len(s) + k
  BY <1>1
<1>3. \A i \in 1..Len(r) : r[i] = IF i <= Len(s) THEN s[i] ELSE n + (i - Len(s))
  BY <1>1, <1>2
<1> HIDE DEF run, r
<1>4. Ascending(r)
  <2> SUFFICES ASSUME NEW i \in 1..Len(r), NEW j \in 1..Len(r), i < j PROVE r[i] < r[j]
    BY DEF Ascending
  <2> i \in Int /\ j \in Int /\ Len(s) \in Nat /\ s \in [1..Len(s) -> Nat]
    BY <1>2
  <2>1. CASE j <= Len(s)
    BY <2>1, <1>2, <1>3 DEF Ascending
  <2>2. CASE i <= Len(s) /\ j > Len(s)
    <3>1. s[i] <= n /\ s[i] \in Nat
      BY <2>2 DEF UpTo
    <3> QED BY <3>1, <2>2, <1>2, <1>3
  <2>3. CASE i > Len(s)
    BY <2>3, <1>2, <1>3
  <2> QED BY <2>1, <2>2, <2>3
<1>5. UpTo(r, n + k)
  <2> SUFFICES ASSUME NEW i \in 1..Len(r) PROVE r[i] <= n + k
    BY DEF UpTo
  <2> i \in Int /\ Len(s) \in Nat /\ s \in [1..Len(s) -> Nat]
    BY <1>2
  <2>1. CASE i <= Len(s)
    <3>1. s[i] <= n /\ s[i] \in Nat
      BY <2>1 DEF UpTo
    <3> QED BY <3>1, <2>1, <1>3
  <2>2. CASE i > Len(s)
    BY <2>2, <1>2, <1>3
  <2> QED BY <2>1, <2>2
<1> QED BY <1>2, <1>4, <1>5 DEF r, run

-------------------------------------------------------------------------------
(***************************************************************************)
(* Types and the lock.                                                     *)
(***************************************************************************)

\* The sizes of the output blocks are numbers.
LEMMA BlockSizeNat ==
    ASSUME NEW n \in Nat \ {0} PROVE BlockSize(n) \in Nat
  BY SizesAssumption DEF BlockSize

\* A lock that was taken as it should is held by the one thread inside.
LEMMA Alone ==
    ASSUME LockTells, NEW t \in Threads, Inside(t)
    PROVE  lock = 0 /\ \A u \in Threads \ {t} : ~Inside(u)
  BY DEF LockTells, Only

\* An encoder just constructed has the types.
LEMMA TypeInit == Init => TypeInv
<1> SUFFICES ASSUME Init PROVE TypeInv
  OBVIOUS
<1>1. Types
  <2>1. pc \in [Threads -> Places]
    BY DEF Init, Places
  <2>2. left \in [Threads -> Nat] /\ pending \in [Threads -> Nat]
    BY DEF Init
  <2>3. size \in [Threads -> Nat] /\ count \in [Threads -> Nat]
    BY DEF Init
  <2>4. out \in [Threads -> Seq(Nat)] /\ results \in Seq(Nat)
    BY DEF Init
  <2> QED BY <2>1, <2>2, <2>3, <2>4 DEF Init, Types
<1>2. Coding
  BY DEF Init, Coding
<1>3. LockTells
  BY DEF Init, LockTells, Inside
<1> QED BY <1>1, <1>2, <1>3 DEF TypeInv, TypeOK

\* Every way out of encode() gives the lock back.
LEMMA ReleaseKeepsTypes ==
    ASSUME Types, Coding, NEW t \in Threads, Release(t),
           results' \in Seq(Nat), told' \in BOOLEAN,
           UNCHANGED <<stream, pending, produced, calls, overrun, misused, alive>>
    PROVE  Types' /\ Coding'
<1>1. Coding'
  BY DEF Coding, Types, Release
<1>2. pc' \in [Threads -> Places]
  BY DEF Types, Release, Places
<1>3. lock' \in Nat /\ left' \in [Threads -> Nat]
  BY DEF Types, Release
<1>4. size' \in [Threads -> Nat] /\ count' \in [Threads -> Nat] /\ out' \in [Threads -> Seq(Nat)]
  BY DEF Types, Release
<1> QED BY <1>1, <1>2, <1>3, <1>4 DEF Types

\* Every step keeps the types of the variables.
LEMMA TypesStep ==
    ASSUME Types, Coding, [Next]_vars PROVE Types' /\ Coding'
<1> USE SizesAssumption DEF blocks, history
<1>1. CASE UNCHANGED vars
  BY <1>1 DEF vars, Types, Coding
<1>2. ASSUME NEW t \in Threads, NEW place \in {"encode", "flush"}, NEW n \in Nat,
             Call(t, place, n)
      PROVE  Types' /\ Coding'
  <2>1. Coding'
    BY <1>2 DEF Call, Coding, Types
  <2>2. pc' \in [Threads -> Places]
    BY <1>2 DEF Call, Types, Places
  <2>3. left' \in [Threads -> Nat] /\ calls' \in Nat
    BY <1>2 DEF Call, Types
  <2> QED BY <1>2, <2>1, <2>2, <2>3 DEF Call, Types
<1>3. ASSUME NEW t \in Threads, WrongFlush(t) PROVE Types' /\ Coding'
  <2>1. Coding'
    BY <1>3 DEF WrongFlush, Coding
  <2>2. lock' \in Nat /\ calls' \in Nat /\ misused' \in BOOLEAN
    BY <1>3 DEF WrongFlush, Types
  <2> QED BY <1>3, <2>1, <2>2 DEF WrongFlush, Types
<1>4. CASE Dealloc
  BY <1>4 DEF Dealloc, Types, Coding
<1>5. ASSUME NEW t \in Threads, BeginEncode(t) PROVE Types' /\ Coding'
  <2>1. Coding'
    BY <1>5 DEF BeginEncode, Coding, Types
  <2>2. pc' \in [Threads -> Places]
    BY <1>5 DEF BeginEncode, Types, Places
  <2>3. size' \in [Threads -> Nat] /\ count' \in [Threads -> Nat] /\ lock' \in Nat
    BY <1>5 DEF BeginEncode, Types
  <2> QED BY <1>5, <2>1, <2>2, <2>3 DEF BeginEncode, Types
<1>6. ASSUME NEW t \in Threads, BeginFails(t) PROVE Types' /\ Coding'
  <2>1. Coding'
    BY <1>6 DEF BeginFails, Coding, Types
  <2>2. pc' \in [Threads -> Places]
    BY <1>6 DEF BeginFails, Types, Places
  <2> QED BY <1>6, <2>1, <2>2 DEF BeginFails, Types
<1>7. ASSUME NEW t \in Threads, NextSymbol(t) PROVE Types' /\ Coding'
  <2>1. Coding'
    BY <1>7 DEF NextSymbol, Coding, Types
  <2>2. pc' \in [Threads -> Places]
    BY <1>7 DEF NextSymbol, Types, Places
  <2>3. pending' \in [Threads -> Nat]
    BY <1>7 DEF NextSymbol, Types
  <2> QED BY <1>7, <2>1, <2>2, <2>3 DEF NextSymbol, Types
<1>8. ASSUME NEW t \in Threads, Write(t) PROVE Types' /\ Coding'
  <2>1. Coding'
    BY <1>8 DEF Write, Coding
  <2>2. out' \in [Threads -> Seq(Nat)]
    <3>1. CASE Room(stream) > 0 /\ stream \in Threads
      <4>1. Append(out[stream], produced + 1) \in Seq(Nat)
        BY <3>1 DEF Types
      <4> QED BY <1>8, <3>1, <4>1 DEF Write, Types
    <3>2. CASE Room(stream) > 0 /\ stream \notin Threads
      BY <1>8, <3>2 DEF Write, Types
    <3>3. CASE ~(Room(stream) > 0)
      BY <1>8, <3>3 DEF Write, Types
    <3> QED BY <3>1, <3>2, <3>3
  <2>3. overrun' \in BOOLEAN
    BY <1>8 DEF Write, Types
  <2>4. pending' \in [Threads -> Nat]
    <3>1. pending \in [Threads -> Nat]
      BY DEF Types
    <3>2. pending[t] > 0 /\ pending' = [pending EXCEPT ![t] = pending[t] - 1]
      BY <1>8 DEF Write
    <3>3. pending[t] - 1 \in Nat
      BY <3>1, <3>2
    <3> QED BY <3>1, <3>2, <3>3
  <2>5. produced' \in Nat
    BY <1>8 DEF Write, Types
  <2> QED BY <1>8, <2>1, <2>2, <2>3, <2>4, <2>5 DEF Write, Types
<1>9. ASSUME NEW t \in Threads, SymbolCoded(t) PROVE Types' /\ Coding'
  <2>1. Coding' /\ left' \in [Threads -> Nat]
    <3>1. left[t] - 1 \in Nat
      BY <1>9 DEF SymbolCoded, Coding, Types
    <3>2. left' = [left EXCEPT ![t] = left[t] - 1] /\ pc' = [pc EXCEPT ![t] = "loop"]
      BY <1>9 DEF SymbolCoded
    <3>3. left \in [Threads -> Nat] /\ pc \in [Threads -> Places]
      BY DEF Types
    <3>4. left' \in [Threads -> Nat]
      BY <3>1, <3>2, <3>3
    <3>5. Coding'
      BY <3>2, <3>3 DEF Coding
    <3> QED BY <3>4, <3>5
  <2>2. pc' \in [Threads -> Places]
    BY <1>9 DEF SymbolCoded, Types, Places
  <2>3. size' \in [Threads -> Nat] /\ count' \in [Threads -> Nat]
    <3>1. count[t] \in Nat /\ size[t] \in Nat
      BY DEF Types
    <3>2. BlockSize(count[t] + 1) \in Nat
      BY <3>1, BlockSizeNat
    <3> DEFINE grown == size[t] + BlockSize(count[t] + 1)
    <3>3. grown \in Nat
      BY <3>1, <3>2
    <3>4. size' = [size EXCEPT ![t] = IF Room(t) = 0 THEN grown ELSE size[t]]
      BY <1>9 DEF SymbolCoded
    <3>5. count' = [count EXCEPT ![t] = IF Room(t) = 0 THEN count[t] + 1 ELSE count[t]]
      BY <1>9 DEF SymbolCoded
    <3>6. size \in [Threads -> Nat] /\ count \in [Threads -> Nat]
      BY DEF Types
    <3> HIDE DEF grown
    <3>7. size' \in [Threads -> Nat]
      BY <3>1, <3>3, <3>4, <3>6
    <3>8. count' \in [Threads -> Nat]
      BY <3>1, <3>5, <3>6
    <3> QED BY <3>7, <3>8
  <2> QED BY <1>9, <2>1, <2>2, <2>3 DEF SymbolCoded, Types
<1>10. ASSUME NEW t \in Threads, GrowFails(t) PROVE Types' /\ Coding'
  BY <1>10, ReleaseKeepsTypes DEF GrowFails, Types
<1>11. ASSUME NEW t \in Threads, FinishEncode(t) PROVE Types' /\ Coding'
  <2>1. results' \in Seq(Nat)
    BY <1>11 DEF FinishEncode, Types
  <2> QED BY <1>11, <2>1, ReleaseKeepsTypes DEF FinishEncode, Types
<1>12. ASSUME NEW t \in Threads, FinishFails(t) PROVE Types' /\ Coding'
  BY <1>12, ReleaseKeepsTypes DEF FinishFails, Types
<1>13. ASSUME NEW t \in Threads, Flush(t) PROVE Types' /\ Coding'
  <2>1. PICK n \in FlushBytes : Flush(t)!(n)
    BY <1>13 DEF Flush
  <2>2. n \in Nat
    OBVIOUS
  <2>3. Coding'
    BY <2>1 DEF Coding, Types
  <2>4. results' \in Seq(Nat)
    <3> DEFINE run == [i \in 1..n |-> produced + i]
    <3>1. run \in Seq(Nat)
      BY <2>2 DEF Types
    <3>2. results' = results \o run \/ results' = results
      BY <2>1
    <3>3. results \in Seq(Nat)
      BY DEF Types
    <3> HIDE DEF run
    <3>4. CASE results' = results \o run
      BY <3>1, <3>3, <3>4
    <3> QED BY <3>2, <3>3, <3>4
  <2>5. told' \in BOOLEAN
    <3>1. told' = told \/ told' = TRUE
      BY <2>1
    <3> QED BY <3>1 DEF Types
  <2>6. produced' \in Nat
    BY <2>1, <2>2 DEF Types
  <2>7. pc' \in [Threads -> Places]
    BY <2>1 DEF Types, Places
  <2> QED BY <2>1, <2>3, <2>4, <2>5, <2>6, <2>7 DEF Types
<1> QED
  BY <1>1, <1>2, <1>3, <1>4, <1>5, <1>6, <1>7, <1>8, <1>9, <1>10, <1>11, <1>12, <1>13
  DEF Next, MethodStep, ClientStep, Gone

\* The lock and the threads inside change together.
LEMMA LockStep ==
    ASSUME Types, ~misused => LockTells, [Next]_vars, ~misused' PROVE LockTells'
<1> USE DEF blocks, history
<1>1. ASSUME UNCHANGED lock, UNCHANGED misused, \A u \in Threads : Inside(u)' <=> Inside(u)
      PROVE  LockTells'
  BY <1>1 DEF LockTells, Only
<1>2. CASE UNCHANGED vars
  BY <1>1, <1>2 DEF vars, Inside
<1>3. ASSUME NEW t \in Threads, NEW place \in {"encode", "flush"}, NEW n, Call(t, place, n)
      PROVE  LockTells'
  BY <1>1, <1>3 DEF Call, Inside, Types
<1>4. ASSUME NEW t \in Threads, WrongFlush(t) PROVE LockTells'
  BY <1>4 DEF WrongFlush
<1>5. CASE Dealloc
  BY <1>1, <1>5 DEF Dealloc, Inside
<1>6. ASSUME NEW t \in Threads, BeginEncode(t) PROVE LockTells'
  <2>1. lock = 1 /\ \A u \in Threads : ~Inside(u)
    BY <1>6 DEF BeginEncode, LockTells
  <2>2. lock' = 0 /\ Inside(t)' /\ \A u \in Threads \ {t} : ~Inside(u)'
    BY <1>6, <2>1 DEF BeginEncode, Inside, Types
  <2> QED BY <2>2 DEF LockTells, Only
<1>7. ASSUME NEW t \in Threads, BeginFails(t) PROVE LockTells'
  BY <1>1, <1>7 DEF BeginFails, Inside, Types
<1>8. ASSUME NEW t \in Threads, NextSymbol(t) PROVE LockTells'
  BY <1>1, <1>8 DEF NextSymbol, Inside, Types
<1>9. ASSUME NEW t \in Threads, Write(t) PROVE LockTells'
  BY <1>1, <1>9 DEF Write, Inside
<1>10. ASSUME NEW t \in Threads, SymbolCoded(t) PROVE LockTells'
  BY <1>1, <1>10 DEF SymbolCoded, Inside, Types
<1>11. ASSUME NEW t \in Threads, Inside(t), Release(t), UNCHANGED misused PROVE LockTells'
  <2>1. lock = 0 /\ \A u \in Threads \ {t} : ~Inside(u)
    BY <1>11, Alone
  <2>2. lock' = 1 /\ \A u \in Threads : ~Inside(u)'
    BY <1>11, <2>1 DEF Release, Inside, Types
  <2> QED BY <2>2 DEF LockTells
<1>12. ASSUME NEW t \in Threads, GrowFails(t) \/ FinishEncode(t) \/ FinishFails(t)
       PROVE  LockTells'
  BY <1>11, <1>12 DEF GrowFails, FinishEncode, FinishFails, Inside
<1>13. ASSUME NEW t \in Threads, Flush(t) PROVE LockTells'
  BY <1>1, <1>13 DEF Flush, Inside, Types
<1> QED
  BY <1>2, <1>3, <1>4, <1>5, <1>6, <1>7, <1>8, <1>9, <1>10, <1>12, <1>13
  DEF Next, MethodStep, ClientStep, Gone

\* Every step keeps TypeInv.
LEMMA TypeStep ==
    ASSUME TypeInv, [Next]_vars PROVE TypeInv'
  BY TypesStep, LockStep DEF TypeInv, TypeOK

\* The types of StreamEncoder.tla, and that one thread at most is between
\* ACQUIRE_LOCK and RELEASE_LOCK of encode().
THEOREM TypeCorrect == Spec => []TypeOK
<1>1. Init => TypeInv
  BY TypeInit
<1>2. TypeInv /\ [Next]_vars => TypeInv'
  BY TypeStep
<1>3. TypeInv => TypeOK
  BY DEF TypeInv
<1> QED BY <1>1, <1>2, <1>3, PTL DEF Spec

-------------------------------------------------------------------------------
(***************************************************************************)
(* The order of the bytes.                                                 *)
(***************************************************************************)

\* Bytes numbered up to n are numbered up to any later count.
LEMMA LaterDate ==
    ASSUME NEW s \in Seq(Nat), NEW n \in Nat, NEW k \in Nat, Dated(s, n)
    PROVE  Dated(s, n + k)
<1> SUFFICES ASSUME NEW i \in 1..Len(s) PROVE s[i] <= n + k
  BY DEF Dated, UpTo
<1>1. s[i] <= n /\ s[i] \in Nat
  BY DEF Dated, UpTo
<1> QED BY <1>1

\* A step that leaves the bytes and the threads inside alone.
LEMMA OrderFrame ==
    ASSUME OrderInv, UNCHANGED <<stream, out, produced, results>>,
           \A u \in Threads : Inside(u)' <=> Inside(u)
    PROVE  OrderInv'
  BY DEF OrderInv

\* A call that ends, whatever it returns of its bytes.
LEMMA OrderRelease ==
    ASSUME TypeInv, LockTells, OrderInv, NEW t \in Threads, Inside(t), Release(t),
           results' = results \/ results' = results \o out[t],
           UNCHANGED <<stream, produced>>
    PROVE  OrderInv'
<1>1. \A u \in Threads \ {t} : ~Inside(u)
  BY Alone
<1>2. \A u \in Threads : ~Inside(u)' /\ out'[u] = << >>
  BY <1>1 DEF Release, Inside, OrderInv, TypeInv, TypeOK, Types
<1>3. results' \in Seq(Nat) /\ Dated(results', produced)
  <2>1. results \in Seq(Nat) /\ out[t] \in Seq(Nat)
    BY DEF TypeInv, TypeOK, Types
  <2>2. results \o out[t] \in Seq(Nat)
    BY <2>1
  <2> QED BY <2>1, <2>2 DEF OrderInv
<1>4. results' \o << >> = results'
  BY <1>3
<1> QED BY <1>2, <1>3, <1>4 DEF OrderInv

\* The byte that Writer puts into the block of the call inside.
LEMMA OrderWrite ==
    ASSUME TypeInv, LockTells, OrderInv, NEW t \in Threads, Write(t) PROVE OrderInv'
<1>1. stream = t /\ Inside(t)
  BY DEF Write, Inside, OrderInv
<1>2. \A u \in Threads \ {t} : ~Inside(u) /\ out[u] = << >>
  BY <1>1, Alone DEF OrderInv
<1>3. \A u \in Threads : Inside(u)' <=> Inside(u)
  BY DEF Write, Inside
<1>4. produced \in Nat /\ produced' = produced + 1 /\ results' = results /\ stream' = stream
  BY DEF Write, TypeInv, TypeOK, Types
<1>5. results \in Seq(Nat) /\ \A u \in Threads : out[u] \in Seq(Nat) /\ results \o out[u] \in Seq(Nat)
  BY DEF TypeInv, TypeOK, Types
<1>6. Dated(results, produced')
  BY <1>4, <1>5, LaterDate DEF OrderInv
<1>7. \A u \in Threads : Dated(results \o out[u], produced')
  BY <1>4, <1>5, LaterDate DEF OrderInv
<1>8. CASE Room(t) > 0
  <2>1. \A u \in Threads : out'[u] = IF u = t THEN Append(out[t], produced + 1) ELSE out[u]
    BY <1>1, <1>8 DEF Write, TypeInv, TypeOK, Types
  <2>2. results \o Append(out[t], produced + 1) = Append(results \o out[t], produced + 1)
    BY <1>4, <1>5
  <2>3. Dated(Append(results \o out[t], produced + 1), produced + 1)
    BY <1>4, <1>5, AppendNext DEF OrderInv, Dated
  <2>4. \A u \in Threads : Dated(results \o out'[u], produced')
    BY <1>4, <1>7, <2>1, <2>2, <2>3
  <2> QED BY <1>1, <1>2, <1>3, <1>4, <1>6, <2>1, <2>4 DEF OrderInv
<1>9. CASE ~(Room(t) > 0)
  <2>1. out' = out
    BY <1>1, <1>9 DEF Write
  <2> QED BY <1>1, <1>2, <1>3, <1>4, <1>6, <1>7, <2>1 DEF OrderInv
<1> QED BY <1>8, <1>9

\* What flush() returns comes after all that was returned.
LEMMA OrderFlush ==
    ASSUME TypeInv, LockTells, OrderInv, NEW t \in Threads, Flush(t) PROVE OrderInv'
<1>1. \A u \in Threads : ~Inside(u) /\ out[u] = << >>
  BY DEF Flush, LockTells, OrderInv
<1>2. \A u \in Threads : ~Inside(u)' /\ out'[u] = << >>
  BY <1>1 DEF Flush, blocks, Inside, TypeInv, TypeOK, Types
<1>3. PICK n \in FlushBytes : Flush(t)!(n)
  BY DEF Flush
<1>4. n \in Nat /\ produced \in Nat /\ results \in Seq(Nat) /\ Dated(results, produced)
  BY SizesAssumption DEF TypeInv, TypeOK, Types, OrderInv
<1>5. results' \in Seq(Nat) /\ Dated(results', produced + n)
  <2>1. CASE results' = results \o [i \in 1..n |-> produced + i]
    BY <1>4, <2>1, AppendRun DEF Dated
  <2>2. CASE results' = results
    BY <1>4, <2>2, LaterDate
  <2> QED BY <1>3, <2>1, <2>2
<1>6. results' \o << >> = results' /\ produced' = produced + n
  BY <1>3, <1>5
<1> QED BY <1>2, <1>5, <1>6 DEF OrderInv

\* Every step keeps the order of the bytes.
LEMMA OrderStep ==
    ASSUME TypeInv, ~misused => OrderInv, [Next]_vars, ~misused' PROVE OrderInv'
<1> USE DEF blocks, history
<1>0. ~misused => LockTells
  BY DEF TypeInv, TypeOK
<1>1. CASE UNCHANGED vars
  BY <1>1, OrderFrame DEF vars, Inside
<1>2. ASSUME NEW t \in Threads, NEW place \in {"encode", "flush"}, NEW n, Call(t, place, n)
      PROVE  OrderInv'
  BY <1>2, OrderFrame DEF Call, Inside, TypeInv, TypeOK, Types
<1>3. ASSUME NEW t \in Threads, WrongFlush(t) PROVE OrderInv'
  BY <1>3 DEF WrongFlush
<1>4. CASE Dealloc
  BY <1>4, OrderFrame DEF Dealloc, Inside
<1>5. ASSUME NEW t \in Threads, BeginEncode(t) PROVE OrderInv'
  <2>1. \A u \in Threads : ~Inside(u)
    BY <1>0, <1>5 DEF BeginEncode, LockTells
  <2>2. \A u \in Threads \ {t} : ~Inside(u)'
    BY <1>5, <2>1 DEF BeginEncode, Inside, TypeInv, TypeOK, Types
  <2> QED BY <1>5, <2>1, <2>2 DEF BeginEncode, OrderInv
<1>6. ASSUME NEW t \in Threads, BeginFails(t) PROVE OrderInv'
  BY <1>6, OrderFrame DEF BeginFails, Inside, TypeInv, TypeOK, Types
<1>7. ASSUME NEW t \in Threads, NextSymbol(t) PROVE OrderInv'
  BY <1>7, OrderFrame DEF NextSymbol, Inside, TypeInv, TypeOK, Types
<1>8. ASSUME NEW t \in Threads, Write(t) PROVE OrderInv'
  BY <1>0, <1>8, OrderWrite DEF Write
<1>9. ASSUME NEW t \in Threads, SymbolCoded(t) PROVE OrderInv'
  BY <1>9, OrderFrame DEF SymbolCoded, Inside, TypeInv, TypeOK, Types
<1>10. ASSUME NEW t \in Threads, GrowFails(t) \/ FinishEncode(t) \/ FinishFails(t)
       PROVE  OrderInv'
  BY <1>0, <1>10, OrderRelease DEF GrowFails, FinishEncode, FinishFails, Inside
<1>11. ASSUME NEW t \in Threads, Flush(t) PROVE OrderInv'
  <2>1. ~misused
    BY <1>11 DEF Flush
  <2> QED BY <1>0, <1>11, <2>1, OrderFlush
<1> QED
  BY <1>1, <1>2, <1>3, <1>4, <1>5, <1>6, <1>7, <1>8, <1>9, <1>10, <1>11
  DEF Next, MethodStep, ClientStep, Gone

\* With no byte produced yet the order holds.
LEMMA OrderInit == ASSUME Init PROVE OrderInv
<1>1. \A t \in Threads : ~Inside(t) /\ out[t] = << >>
  BY DEF Init, Inside
<1>2. results = << >> /\ << >> \o << >> = << >> /\ Len(<< >>) = 0
  BY DEF Init
<1>3. Dated(<< >>, produced)
  BY DEF Dated, Ascending, UpTo
<1> QED BY <1>1, <1>2, <1>3 DEF OrderInv

\* What encode() and flush() return, in the order in which the calls end, is in
\* the order of the coder: for any threads, data, blocks and failing allocations.
THEOREM Order == Spec => []BytesInOrder
<1> DEFINE Inv == TypeInv /\ (~misused => OrderInv)
<1>1. Init => Inv
  BY TypeInit, OrderInit
<1>2. Inv /\ [Next]_vars => Inv'
  BY TypeStep, OrderStep
<1>3. Inv => BytesInOrder
  BY DEF OrderInv, Dated, BytesInOrder
<1> QED BY <1>1, <1>2, <1>3, PTL DEF Spec

-------------------------------------------------------------------------------
(***************************************************************************)
(* No byte lost.                                                           *)
(***************************************************************************)

\* A step that touches no byte and no result and lets nobody in or out.
LEMMA LostFrame ==
    ASSUME AllKept, UNCHANGED <<out, produced, results>>,
           \A u \in Threads : Inside(u)' <=> Inside(u)
    PROVE  AllKept'
  BY DEF AllKept

\* Every step keeps LostOnlyWhen.
LEMMA LostStep ==
    ASSUME IInv, [Next]_vars, ~misused', ~told', ~overrun' PROVE AllKept'
<1> USE DEF blocks, history
<1>1. Types /\ (~misused => LockTells /\ OrderInv)
  BY DEF IInv, TypeInv, TypeOK
<1>2. ~misused /\ ~told /\ ~overrun => AllKept
  BY DEF IInv, LostOnlyWhen
<1>3. CASE UNCHANGED vars
  BY <1>2, <1>3, LostFrame DEF vars, Inside
<1>4. ASSUME NEW t \in Threads, NEW place \in {"encode", "flush"}, NEW n, Call(t, place, n)
      PROVE  AllKept'
  BY <1>1, <1>2, <1>4, LostFrame DEF Call, Inside, Types
<1>5. ASSUME NEW t \in Threads, WrongFlush(t) PROVE AllKept'
  BY <1>5 DEF WrongFlush
<1>6. CASE Dealloc
  BY <1>2, <1>6, LostFrame DEF Dealloc, Inside
<1>7. ASSUME NEW t \in Threads, BeginEncode(t) PROVE AllKept'
  <2>1. \A u \in Threads : ~Inside(u) /\ out[u] = << >>
    BY <1>1, <1>7 DEF BeginEncode, LockTells, OrderInv
  <2>2. Inside(t)' /\ \A u \in Threads \ {t} : ~Inside(u)'
    BY <1>1, <1>7, <2>1 DEF BeginEncode, Inside, Types
  <2>3. Len(results) = produced
    BY <1>2, <1>7, <2>1 DEF BeginEncode, AllKept
  <2>4. Len(out[t]) = 0 /\ Len(results) \in Nat
    BY <1>1, <2>1 DEF Types
  <2>5. Len(results') + Len(out'[t]) = produced'
    <3>1. Len(results) + Len(out[t]) = produced
      BY <2>3, <2>4
    <3> QED BY <1>7, <3>1 DEF BeginEncode
  <2> QED BY <2>2, <2>5 DEF AllKept
<1>8. ASSUME NEW t \in Threads, BeginFails(t) PROVE AllKept'
  BY <1>1, <1>2, <1>8, LostFrame DEF BeginFails, Inside, Types
<1>9. ASSUME NEW t \in Threads, NextSymbol(t) PROVE AllKept'
  BY <1>1, <1>2, <1>9, LostFrame DEF NextSymbol, Inside, Types
<1>10. ASSUME NEW t \in Threads, Write(t) PROVE AllKept'
  <2>1. Inside(t) /\ stream = t /\ LockTells
    BY <1>1, <1>10 DEF Write, Inside, OrderInv
  <2>2. \A u \in Threads \ {t} : ~Inside(u)'
    BY <1>10, <2>1, Alone DEF Write, Inside
  <2>3. Inside(t)' /\ results' = results /\ produced' = produced + 1
    BY <1>10, <2>1 DEF Write, Inside
  <2>4. out'[t] = Append(out[t], produced + 1)
    BY <1>1, <1>10, <2>1 DEF Write, Types
  <2>5. Len(results) + Len(out[t]) = produced
    BY <1>2, <1>10, <2>1 DEF Write, AllKept
  <2>6. Len(out'[t]) = Len(out[t]) + 1 /\ Len(out[t]) \in Nat /\ Len(results) \in Nat
    BY <1>1, <2>4 DEF Types
  <2>7. Len(results') + Len(out'[t]) = produced'
    BY <2>3, <2>5, <2>6
  <2> QED BY <2>2, <2>3, <2>7 DEF AllKept
<1>11. ASSUME NEW t \in Threads, SymbolCoded(t) PROVE AllKept'
  BY <1>1, <1>2, <1>11, LostFrame DEF SymbolCoded, Inside, Types
<1>12. ASSUME NEW t \in Threads, GrowFails(t) \/ FinishFails(t) PROVE AllKept'
  BY <1>12 DEF GrowFails, FinishFails
<1>13. ASSUME NEW t \in Threads, FinishEncode(t) PROVE AllKept'
  <2>1. Inside(t) /\ LockTells
    BY <1>1, <1>13 DEF FinishEncode, Inside
  <2>2. \A u \in Threads : ~Inside(u)'
    BY <1>1, <1>13, <2>1, Alone DEF FinishEncode, Release, Inside, Types
  <2>3. Len(results) + Len(out[t]) = produced
    BY <1>2, <1>13, <2>1 DEF FinishEncode, AllKept
  <2>4. Len(results') = produced'
    BY <1>1, <1>13, <2>3 DEF FinishEncode, Types
  <2> QED BY <2>2, <2>4 DEF AllKept
<1>14. ASSUME NEW t \in Threads, Flush(t) PROVE AllKept'
  <2>1. ~misused
    BY <1>14 DEF Flush
  <2>2. \A u \in Threads : ~Inside(u)'
    BY <1>1, <1>14, <2>1 DEF Flush, LockTells, Inside, Types
  <2>3. PICK n \in FlushBytes : Flush(t)!(n)
    BY <1>14 DEF Flush
  <2>4. ~told /\ ~overrun /\ results' = results \o [i \in 1..n |-> produced + i]
    <3> DEFINE returned == results \o [i \in 1..n |-> produced + i]
    <3>1. (results' = returned /\ told' = told) \/ told' = TRUE
      BY <2>3
    <3>2. overrun' = overrun
      BY <2>3
    <3> HIDE DEF returned
    <3>3. ~told /\ ~overrun /\ results' = returned
      BY <3>1, <3>2
    <3> QED BY <3>3 DEF returned
  <2>5. n \in Nat /\ produced \in Nat /\ results \in Seq(Nat) /\ Dated(results, produced)
    BY <1>1, <2>1, SizesAssumption DEF Types, OrderInv
  <2>6. Len(results') = Len(results) + n
    BY <2>4, <2>5, AppendRun DEF Dated
  <2>7. Len(results) = produced
    BY <1>1, <1>2, <1>14, <2>1, <2>4 DEF Flush, AllKept, LockTells
  <2> QED BY <2>2, <2>3, <2>6, <2>7 DEF AllKept
<1> QED
  BY <1>3, <1>4, <1>5, <1>6, <1>7, <1>8, <1>9, <1>10, <1>11, <1>12, <1>13, <1>14
  DEF Next, MethodStep, ClientStep, Gone

\* A byte of the coder is lost only when a call raised, or when a symbol produced
\* more than the block of the call had room for: whatever the sizes of blocks.
THEOREM Kept == Spec => []LostOnlyWhen
<1>1. Init => IInv
  <2> SUFFICES ASSUME Init PROVE IInv
    OBVIOUS
  <2>1. OrderInv
    BY OrderInit
  <2>2. Len(results) = produced /\ \A t \in Threads : ~Inside(t)
    BY DEF Init, Inside
  <2> QED BY <2>1, <2>2, TypeInit DEF IInv, LostOnlyWhen, AllKept
<1>2. IInv /\ [Next]_vars => IInv'
  <2> SUFFICES ASSUME IInv, [Next]_vars PROVE IInv'
    OBVIOUS
  <2>1. TypeInv'
    BY TypeStep DEF IInv
  <2>2. ~misused' => OrderInv'
    BY OrderStep DEF IInv
  <2>3. LostOnlyWhen'
    BY LostStep DEF LostOnlyWhen
  <2> QED BY <2>1, <2>2, <2>3 DEF IInv
<1>3. IInv => LostOnlyWhen
  BY DEF IInv
<1> QED BY <1>1, <1>2, <1>3, PTL DEF Spec
===============================================================================
