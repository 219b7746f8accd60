------------------------- MODULE StreamDecoderProofs -------------------------
(***************************************************************************)
(* Proofs about StreamDecoder.tla, for any sizes of data, blocks and       *)
(* header and any lengths.                                                 *)
(*                                                                         *)
(* The inductive invariant adds to the properties                          *)
(*   - what a call knows of the input it prepared: which bytes, in which   *)
(*     of the two places, and that they are those input_buffer holds;      *)
(*   - how much of the blocks is filled, and what the sizes of the first   *)
(*     two tell of the rest;                                               *)
(*   - when the decoder can be suspended at all: after the header, and     *)
(*     with all input read, which is why the client brings some.           *)
(***************************************************************************)
EXTENDS StreamDecoder, TLAPS

InCall == pc \in {"output", "init", "call", "run", "returned", "leave"}

HasOutput == InCall /\ pc # "output"

Types ==
    /\ phase \in Handoff!Phases
    /\ inSize \in Nat /\ inPos \in Nat /\ inPos <= inSize
    /\ outSize \in Nat /\ outPos \in Nat /\ outPos <= outSize
    /\ quota \in Int /\ count \in Nat /\ ret \in Int
    /\ inBytes \in Seq(Nat) /\ input_buffer \in Seq(Nat)
    /\ in_begin \in Nat /\ in_end \in Nat
    /\ in_begin <= in_end /\ in_end <= Len(input_buffer)
    /\ inited2 \in BOOLEAN /\ eof \in BOOLEAN /\ needs_input \in BOOLEAN
    /\ blocks \in Seq(Nat) /\ allocated \in Nat
    /\ pc \in Steps
    /\ length \in Int /\ use_input_buffer \in BOOLEAN /\ remains \in Int
    /\ outcome \in {"none", "bytes", "error"} /\ delivered \in Nat
    /\ fed \in Nat /\ consumed \in Nat /\ stored \in Nat

\* s holds, from behind `first` to `last`, the bytes not consumed yet.
Holds(s, first, last) ==
    /\ last - first = fed - consumed
    /\ \A i \in 1..(last - first) : s[first + i] = consumed + i

InputInv ==
    /\ pc # "dropped" => Len(inBytes) = inSize
    /\ InCall => Holds(inBytes, inPos, inSize)
    /\ pc = "idle" => Holds(input_buffer, in_begin, in_end)
    /\ InCall /\ ~use_input_buffer => NoUnread
    /\ InCall /\ use_input_buffer =>
           /\ in_end - in_begin = inSize
           /\ \A i \in 1..inSize : inBytes[i] = input_buffer[in_begin + i]
    /\ ~inited2 => NoUnread
    /\ InCall /\ ~inited2 => ~use_input_buffer
    /\ pc \in {"output", "init"} => inPos = 0
    /\ pc \in {"output", "init"} /\ ~inited2 => inSize >= HeaderSize
    /\ pc = "idle" /\ needs_input => NoUnread
    /\ InCall /\ use_input_buffer => ~needs_input

OutputInv ==
    /\ InCall => length # 0 /\ outcome = "none"
    /\ pc = "output" => stored = 0
    /\ HasOutput =>
           /\ Len(blocks) > 0
           /\ stored = allocated - (outSize - outPos)
           /\ Len(blocks) = 1 => allocated = blocks[1]
           /\ Len(blocks) = 2 => allocated = blocks[1] + outSize
           /\ length > 0 => allocated <= length
    /\ NothingLost
    /\ WithinLength

PhaseInv ==
    /\ pc = "run" <=> phase \in {"running", "resumed"}
    /\ pc = "dropped" <=> phase = "closed"
    /\ pc = "dropped" => inPos = 0
    /\ pc = "init" => ~inited2
    /\ Inside => inited2
    /\ ~inited2 => phase \in {"ready", "closed"}
    /\ InCall => ~eof
    /\ pc \in {"returned", "leave"} /\ phase = "starved" =>
           ret = 0 /\ inPos = inSize
    /\ pc = "output" /\ phase = "starved" => 0 < inSize
    /\ ResumeSafe
    /\ pc \in {"idle", "output"} /\ phase = "starved" /\ ~eof => needs_input

IInv == Types /\ InputInv /\ OutputInv /\ PhaseInv

-------------------------------------------------------------------------------
(***************************************************************************)
(* Sequences of bytes, and sizes.                                          *)
(***************************************************************************)

\* A piece of a buffer.
LEMMA PieceOf ==
    ASSUME NEW s \in Seq(Nat), NEW a \in Nat, NEW b \in Nat, a <= b, b <= Len(s)
    PROVE  LET p == SubSeq(s, a + 1, b) IN
           /\ p \in Seq(Nat) /\ Len(p) = b - a
           /\ \A i \in 1..(b - a) : p[i] = s[a + i]
  OBVIOUS

\* Length and items of a concatenation.
LEMMA JoinOf ==
    ASSUME NEW s \in Seq(Nat), NEW t \in Seq(Nat)
    PROVE  /\ s \o t \in Seq(Nat) /\ Len(s \o t) = Len(s) + Len(t)
           /\ \A i \in 1..Len(s) : (s \o t)[i] = s[i]
  OBVIOUS

\* memcpy into a buffer with room for the bytes writes there and only there.
LEMMA OverwriteWrites ==
    ASSUME NEW s \in Seq(Nat), NEW t \in Seq(Nat), NEW at \in Nat,
           at + Len(t) <= Len(s)
    PROVE  LET w == Overwrite(s, t, at) IN
           /\ w \in Seq(Nat) /\ Len(w) = Len(s)
           /\ \A i \in 1..Len(s) :
                  w[i] = IF i > at /\ i <= at + Len(t) THEN t[i - at] ELSE s[i]
<1>1. \A i \in 1..Len(s) : i > at /\ i <= at + Len(t) => t[i - at] \in Nat
  OBVIOUS
<1>2. DOMAIN s = 1..Len(s) /\ \A i \in 1..Len(s) : s[i] \in Nat
  OBVIOUS
<1> QED BY <1>1, <1>2 DEF Overwrite

\* The bytes of a call.
LEMMA DataBytes ==
    ASSUME NEW n \in Nat, fed \in Nat
    PROVE  /\ Data(n) \in Seq(Nat) /\ Len(Data(n)) = n
           /\ \A i \in 1..n : Data(n)[i] = fed + i
  BY DEF Data

\* Room behind the unread bytes, which are still there.
LEMMA RoomIsMade ==
    ASSUME input_buffer \in Seq(Nat), in_begin \in Nat, in_end \in Nat,
           in_begin <= in_end, in_end <= Len(input_buffer), NEW n \in Nat
    PROVE  LET room == MakeRoom(n) IN
           /\ room.buffer \in Seq(Nat) /\ room.begin \in Nat
           /\ room.begin + (in_end - in_begin) + n <= Len(room.buffer)
           /\ \A i \in 1..(in_end - in_begin) :
                  room.buffer[room.begin + i] = input_buffer[in_begin + i]
<1> DEFINE used == in_end - in_begin
           avail_now == Len(input_buffer) - in_end
           avail_total == Len(input_buffer) - used
<1>1. /\ Unread \in Seq(Nat) /\ Len(Unread) = used /\ used \in Nat
      /\ \A i \in 1..used : Unread[i] = input_buffer[in_begin + i]
  <2>1. used \in Nat
    OBVIOUS
  <2>2. /\ Unread \in Seq(Nat) /\ Len(Unread) = used
        /\ \A i \in 1..used : Unread[i] = input_buffer[in_begin + i]
    BY PieceOf, Zenon DEF Unread
  <2> QED BY <2>1, <2>2
<1>2. CASE avail_total < n
  <2> DEFINE zeros == [i \in 1..n |-> 0]
             larger == Unread \o zeros
  <2>1. MakeRoom(n) = [buffer |-> larger, begin |-> 0]
    BY <1>2 DEF MakeRoom
  <2>2. zeros \in Seq(Nat) /\ Len(zeros) = n
    OBVIOUS
  <2> HIDE DEF zeros, used
  <2>3. /\ larger \in Seq(Nat) /\ Len(larger) = Len(Unread) + Len(zeros)
        /\ \A i \in 1..Len(Unread) : larger[i] = Unread[i]
    BY <1>1, <2>2, JoinOf
  <2> HIDE DEF larger
  <2>4. \A i \in 1..used : larger[0 + i] = input_buffer[in_begin + i]
    BY <1>1, <2>3
  <2>5. 0 + used + n <= Len(larger)
    BY <1>1, <2>2, <2>3
  <2> QED BY <2>1, <2>3, <2>4, <2>5 DEF used
<1>3. CASE avail_total >= n /\ avail_now < n
  <2>1. MakeRoom(n) = [buffer |-> Overwrite(input_buffer, Unread, 0), begin |-> 0]
    BY <1>3 DEF MakeRoom
  <2> DEFINE w == Overwrite(input_buffer, Unread, 0)
  <2>2. /\ w \in Seq(Nat) /\ Len(w) = Len(input_buffer)
        /\ \A i \in 1..Len(input_buffer) :
               w[i] = IF i > 0 /\ i <= 0 + Len(Unread) THEN Unread[i - 0]
                      ELSE input_buffer[i]
    BY <1>1, OverwriteWrites
  <2> HIDE DEF w, used
  <2>3. ASSUME NEW i \in 1..used PROVE w[0 + i] = input_buffer[in_begin + i]
    <3>1. i \in 1..Len(input_buffer) /\ i > 0 /\ i <= 0 + Len(Unread)
      BY <1>1 DEF used
    <3>2. w[i] = Unread[i - 0]
      BY <2>2, <3>1
    <3>3. i - 0 = i /\ 0 + i = i
      BY <1>1
    <3> QED BY <1>1, <3>2, <3>3
  <2>4. MakeRoom(n) = [buffer |-> w, begin |-> 0]
    BY <2>1 DEF w
  <2>5. 0 + used + n <= Len(w)
    BY <1>1, <1>3, <2>2 DEF used
  <2> QED BY <2>2, <2>3, <2>4, <2>5 DEF used
<1>4. CASE avail_total >= n /\ avail_now >= n
  BY <1>1, <1>4 DEF MakeRoom
<1> QED BY <1>1, <1>2, <1>3, <1>4

\* OutputBuffer_InitAndGrow and OutputBuffer_Grow choose a size within what is
\* left of max_length, the first not zero.
LEMMA BlockSizesNat ==
    ASSUME blocks \in Seq(Nat)
    PROVE  /\ BlockSizes[1] \in Nat \ {0}
           /\ BlockSizes[IF Len(blocks) < Len(BlockSizes)
                         THEN Len(blocks) + 1 ELSE Len(BlockSizes)] \in Nat \ {0}
  BY ParametersAssumption

\* OutputBuffer_InitAndGrow begins with a block that is not empty and not above length.
LEMMA FirstBlockSize ==
    ASSUME blocks \in Seq(Nat), length \in Int, length # 0
    PROVE  FirstBlock \in Nat \ {0} /\ (length > 0 => FirstBlock <= length)
  BY BlockSizesNat DEF FirstBlock

\* OutputBuffer_Grow adds no more than is left of length.
LEMMA NextBlockSize ==
    ASSUME blocks \in Seq(Nat), length \in Int, length # 0, allocated \in Nat,
           length > 0 => allocated <= length
    PROVE  NextBlock \in Nat /\ (length > 0 => allocated + NextBlock <= length)
  BY BlockSizesNat DEF NextBlock, Rest

\* OutputBuffer_Finish, whichever way it takes, cuts the blocks where the
\* decoder stopped.
LEMMA ResultIsStored ==
    ASSUME Types, OutputInv, pc = "leave" PROVE ResultSize = stored
<1>1. blocks[1] \in Nat
  <2>1. blocks \in Seq(Nat)
    BY DEF Types
  <2>2. Len(blocks) >= 1
    BY DEF OutputInv, HasOutput, InCall
  <2> QED BY <2>1, <2>2
<1>2. /\ stored = allocated - (outSize - outPos)
      /\ Len(blocks) = 1 => allocated = blocks[1]
      /\ Len(blocks) = 2 => allocated = blocks[1] + outSize
  BY DEF OutputInv, HasOutput, InCall
<1>3. allocated \in Nat /\ outSize \in Nat /\ outPos \in Nat
  BY DEF Types
<1>4. CASE Len(blocks) = 1 /\ outPos = outSize
  BY <1>1, <1>2, <1>3, <1>4 DEF ResultSize
<1>5. CASE Len(blocks) = 2 /\ outPos = 0
  BY <1>1, <1>2, <1>3, <1>5 DEF ResultSize
<1> QED BY <1>2, <1>4, <1>5 DEF ResultSize

\* The unread bytes of a call that used its data in place.
LEMMA UnreadStored ==
    ASSUME input_buffer \in Seq(Nat), NEW t \in Seq(Nat)
    PROVE  /\ StoreUnread(t) \in Seq(Nat) /\ Len(t) <= Len(StoreUnread(t))
           /\ \A i \in 1..Len(t) : StoreUnread(t)[i] = t[i]
<1>1. CASE Len(input_buffer) < Len(t)
  BY <1>1 DEF StoreUnread
<1>2. CASE Len(input_buffer) >= Len(t)
  <2> DEFINE w == Overwrite(input_buffer, t, 0)
  <2>1. StoreUnread(t) = w
    BY <1>2 DEF StoreUnread
  <2>2. PICK at \in Nat : at = 0
    OBVIOUS
  <2>3. /\ w \in Seq(Nat) /\ Len(w) = Len(input_buffer)
        /\ \A i \in 1..Len(input_buffer) :
               w[i] = IF i > at /\ i <= at + Len(t) THEN t[i - at]
                      ELSE input_buffer[i]
    <3>1. at + Len(t) <= Len(input_buffer) /\ w = Overwrite(input_buffer, t, at)
      BY <1>2, <2>2
    <3> HIDE DEF w
    <3> QED BY <3>1, OverwriteWrites
  <2> HIDE DEF w
  <2>4. ASSUME NEW i \in 1..Len(t) PROVE w[i] = t[i]
    <3>1. i \in 1..Len(input_buffer) /\ i > at /\ i <= at + Len(t) /\ i - at = i
      BY <1>2, <2>2
    <3> QED BY <2>3, <3>1
  <2> QED BY <1>2, <2>1, <2>3, <2>4
<1>3. Len(input_buffer) < Len(t) \/ Len(input_buffer) >= Len(t)
  OBVIOUS
<1> QED BY <1>1, <1>2, <1>3, Zenon

\* w is the buffer s with the bytes of t behind the first `used` of the piece
\* that begins at b, and p is that piece of w.
Behind(w, p, s, b, used, t) ==
    /\ w \in Seq(Nat) /\ Len(w) = Len(s)
    /\ \A i \in 1..used : w[b + i] = s[b + i]
    /\ \A i \in 1..Len(t) : w[b + used + i] = t[i]
    /\ p \in Seq(Nat) /\ Len(p) = used + Len(t)
    /\ \A i \in 1..(used + Len(t)) : p[i] = w[b + i]

\* Bytes written behind the first `used` of a piece of a buffer.
LEMMA WrittenBehind ==
    ASSUME NEW s \in Seq(Nat), NEW b \in Nat, NEW used \in Nat,
           NEW t \in Seq(Nat), b + used + Len(t) <= Len(s)
    PROVE  Behind(Overwrite(s, t, b + used),
                  SubSeq(Overwrite(s, t, b + used), b + 1, b + used + Len(t)),
                  s, b, used, t)
<1> DEFINE at == b + used
           w == Overwrite(s, t, at)
           last == at + Len(t)
           p == SubSeq(w, b + 1, last)
<1>1. /\ at \in Nat /\ at = b + used /\ Len(t) \in Nat /\ at + Len(t) <= Len(s)
      /\ last \in Nat /\ last = at + Len(t) /\ b <= last /\ last - b = used + Len(t)
  OBVIOUS
<1> HIDE DEF at, last
<1>2. /\ w \in Seq(Nat) /\ Len(w) = Len(s)
      /\ \A i \in 1..Len(s) :
             w[i] = IF i > at /\ i <= at + Len(t) THEN t[i - at] ELSE s[i]
  BY <1>1, OverwriteWrites
<1> HIDE DEF w
<1>3. ASSUME NEW i \in 1..used PROVE w[b + i] = s[b + i]
  <2>1. b + i \in 1..Len(s) /\ ~(b + i > at)
    BY <1>1
  <2> QED BY <2>1, <1>2
<1>4. ASSUME NEW i \in 1..Len(t) PROVE w[at + i] = t[i]
  <2>1. /\ at + i \in 1..Len(s) /\ at + i > at /\ at + i <= at + Len(t)
        /\ (at + i) - at = i
    BY <1>1
  <2> QED BY <2>1, <1>2
<1>5. /\ p \in Seq(Nat) /\ Len(p) = last - b
      /\ \A i \in 1..(last - b) : p[i] = w[b + i]
  <2>1. b \in Nat /\ last \in Nat /\ b <= last /\ last <= Len(w)
    BY <1>1, <1>2
  <2> QED BY <1>2, <2>1, PieceOf, Zenon
<1> HIDE DEF p
<1>6. Len(p) = used + Len(t) /\ \A i \in 1..(used + Len(t)) : p[i] = w[b + i]
  BY <1>1, <1>5
<1>7. \A i \in 1..Len(t) : w[b + used + i] = t[i]
  BY <1>1, <1>4
<1>8. Behind(w, p, s, b, used, t)
  BY <1>2, <1>3, <1>5, <1>6, <1>7 DEF Behind
<1> QED BY <1>8 DEF w, p, at, last

\* Whatever way the input is prepared, the decoder gets the unread bytes of
\* earlier calls and behind them those of this one.
LEMMA PreparedInput ==
    ASSUME Types, Holds(input_buffer, in_begin, in_end), NEW n \in Nat,
           UseData(n) \/ UseUnread(n) \/ AppendData(n)
    PROVE  /\ inBytes' \in Seq(Nat) /\ Len(inBytes') = fed + n - consumed
           /\ \A i \in 1..(fed + n - consumed) : inBytes'[i] = consumed + i
           /\ input_buffer' \in Seq(Nat) /\ in_begin' \in Nat /\ in_end' \in Nat
           /\ in_begin' <= in_end' /\ in_end' <= Len(input_buffer')
           /\ use_input_buffer' \in BOOLEAN
           /\ ~use_input_buffer' => NoUnread /\ in_begin' = in_end'
           /\ use_input_buffer' =>
                  /\ ~NoUnread
                  /\ in_end' - in_begin' = fed + n - consumed
                  /\ \A i \in 1..(fed + n - consumed) :
                         inBytes'[i] = input_buffer'[in_begin' + i]
<1> DEFINE used == in_end - in_begin
           total == fed + n - consumed
<1>1. /\ input_buffer \in Seq(Nat) /\ in_begin \in Nat /\ in_end \in Nat
      /\ in_begin <= in_end /\ in_end <= Len(input_buffer)
      /\ fed \in Nat /\ consumed \in Nat
  BY DEF Types
<1>2. used \in Nat /\ used = fed - consumed /\ in_begin + used = in_end
  BY <1>1 DEF Holds
<1>3. \A i \in 1..used : input_buffer[in_begin + i] = consumed + i
  BY DEF Holds
<1>4. total \in Nat /\ total = used + n
  BY <1>1, <1>2
<1>5. NoUnread <=> used = 0
  BY <1>1 DEF NoUnread
<1>6. /\ Data(n) \in Seq(Nat) /\ Len(Data(n)) = n
      /\ \A i \in 1..n : Data(n)[i] = fed + i
  BY <1>1, DataBytes
<1> HIDE DEF used, total
<1>7. CASE UseData(n)
  <2>1. /\ NoUnread /\ use_input_buffer' = FALSE /\ inBytes' = Data(n)
        /\ input_buffer' = input_buffer /\ in_begin' = in_begin /\ in_end' = in_end
    BY <1>7 DEF UseData
  <2>2. used = 0 /\ fed = consumed /\ in_begin = in_end /\ total = n
    BY <2>1, <1>1, <1>2, <1>4, <1>5 DEF NoUnread
  <2> QED BY <1>1, <1>6, <2>1, <2>2 DEF total
<1>8. CASE UseUnread(n)
  <2>1. /\ Unread \in Seq(Nat) /\ Len(Unread) = used
        /\ \A i \in 1..used : Unread[i] = input_buffer[in_begin + i]
    BY <1>1, PieceOf, Zenon DEF Unread, used
  <2>2. /\ ~NoUnread /\ n = 0 /\ use_input_buffer' = TRUE /\ inBytes' = Unread
        /\ input_buffer' = input_buffer /\ in_begin' = in_begin /\ in_end' = in_end
    BY <1>8 DEF UseUnread
  <2>3. total = used
    BY <1>2, <1>4, <2>2
  <2> QED BY <1>1, <1>2, <1>3, <2>1, <2>2, <2>3 DEF used, total
<1>9. CASE AppendData(n)
  <2> DEFINE room == MakeRoom(n)
             begin == room.begin
             place == room.buffer
             end == begin + used
             data == Data(n)
             buffer == Overwrite(place, data, begin + used)
             piece == SubSeq(buffer, begin + 1, begin + used + Len(data))
  <2>1. /\ input_buffer' = buffer /\ in_begin' = begin /\ in_end' = end + n
        /\ inBytes' = piece /\ use_input_buffer' = TRUE /\ ~NoUnread
    BY <1>6, <1>9 DEF AppendData, used
  <2>2. /\ place \in Seq(Nat) /\ begin \in Nat
        /\ begin + used + n <= Len(place)
        /\ \A i \in 1..used : place[begin + i] = input_buffer[in_begin + i]
    BY <1>1, RoomIsMade DEF used
  <2>3. data \in Seq(Nat) /\ Len(data) = n /\ \A i \in 1..n : data[i] = fed + i
    BY <1>6
  <2> HIDE DEF room, begin, place, data
  <2>4. /\ place \in Seq(Nat) /\ begin \in Nat /\ used \in Nat /\ data \in Seq(Nat)
        /\ begin + used + Len(data) <= Len(place)
    BY <1>2, <2>2, <2>3
  <2>5. /\ buffer \in Seq(Nat) /\ Len(buffer) = Len(place)
        /\ \A i \in 1..used : buffer[begin + i] = place[begin + i]
        /\ \A i \in 1..Len(data) : buffer[begin + used + i] = data[i]
        /\ piece \in Seq(Nat) /\ Len(piece) = used + Len(data)
        /\ \A i \in 1..(used + Len(data)) : piece[i] = buffer[begin + i]
    <3>1. Behind(buffer, piece, place, begin, used, data)
      BY <2>4, WrittenBehind, Zenon
    <3> HIDE DEF buffer, piece
    <3> QED BY <3>1 DEF Behind
  <2> HIDE DEF buffer, piece
  <2>6. ASSUME NEW i \in 1..(used + n) PROVE buffer[begin + i] = consumed + i
    <3>1. CASE i <= used
      BY <1>2, <1>3, <2>2, <2>5, <3>1
    <3>2. CASE i > used
      <4>1. i - used \in 1..n /\ begin + used + (i - used) = begin + i
        <5>1. used \in Nat /\ begin \in Nat
          BY <1>2, <2>2
        <5> QED BY <3>2, <5>1
      <4>2. buffer[begin + i] = fed + (i - used)
        BY <2>3, <2>5, <4>1
      <4> QED BY <1>1, <1>2, <4>2
    <3> QED BY <1>2, <3>1, <3>2
  <2>7. /\ end + n \in Nat /\ begin <= end + n /\ end + n <= Len(buffer)
        /\ (end + n) - begin = used + n
    BY <1>2, <2>2, <2>5
  <2> QED BY <1>4, <2>1, <2>2, <2>3, <2>5, <2>6, <2>7 DEF total
<1> QED BY <1>7, <1>8, <1>9

-------------------------------------------------------------------------------
(***************************************************************************)
(* The invariant at the beginning, and the types.                          *)
(***************************************************************************)

\* A decoder just constructed satisfies the invariant.
LEMMA InitIInv == Init => IInv
<1> SUFFICES ASSUME Init PROVE IInv
  OBVIOUS
<1> USE DEF Init, Handoff!Init
<1>1. Types
  <2>1. << >> \in Seq(Nat) /\ Len(<< >>) = 0
    OBVIOUS
  <2>2. inBytes \in Seq(Nat) /\ blocks \in Seq(Nat) /\ input_buffer \in Seq(Nat)
        /\ Len(input_buffer) = 0
    BY <2>1
  <2>3. /\ inited2 \in BOOLEAN /\ eof \in BOOLEAN /\ needs_input \in BOOLEAN
        /\ use_input_buffer \in BOOLEAN
    OBVIOUS
  <2>4. phase \in Handoff!Phases /\ pc \in Steps
    BY DEF Handoff!Phases, Steps
  <2> QED BY <2>2, <2>3, <2>4 DEF Types
<1>2. InputInv
  BY DEF InputInv, InCall, Holds, NoUnread
<1>3. OutputInv
  BY DEF OutputInv, InCall, HasOutput, NothingLost, WithinLength
<1>4. PhaseInv
  BY DEF PhaseInv, InCall, Inside, ResumeSafe
<1> QED BY <1>1, <1>2, <1>3, <1>4 DEF IInv

\* The header fits into the input of the first call.
LEMMA HeaderFits ==
    ASSUME Types, InputInv, PhaseInv, pc = "init"
    PROVE  /\ HeaderReads \in Nat /\ HeaderReads <= inSize /\ 1 <= inSize
           /\ inPos = 0
  BY ParametersAssumption DEF Types, InputInv, PhaseInv, HeaderReads

\* So are the types of an object that is of no use any more.
LEMMA FailTypes ==
    ASSUME Types, Fail, input_buffer' \in Seq(Nat), remains' \in Int
    PROVE  Types'
<1>1. Len(input_buffer') \in Nat
  OBVIOUS
<1>2. eof' \in BOOLEAN /\ needs_input' \in BOOLEAN
  BY DEF Fail
<1> QED BY <1>1, <1>2 DEF Types, Fail, Raise, Steps, decoder, output

\* Every step keeps the types.
LEMMA TypesStep ==
    ASSUME IInv, Next PROVE Types'
<1> USE DEF IInv, input, object, output, history, decoder
<1>1. ASSUME NEW n \in DataSizes, NEW len \in Lengths, PrepareInput(n, len)
      PROVE  Types'
  <2>1. n \in Nat /\ len \in Int /\ IntMax \in Int
    BY ParametersAssumption
  <2>2. Holds(input_buffer, in_begin, in_end)
    BY <1>1 DEF PrepareInput, InputInv
  <2>3. /\ inBytes' \in Seq(Nat)
        /\ input_buffer' \in Seq(Nat) /\ in_begin' \in Nat /\ in_end' \in Nat
        /\ in_begin' <= in_end' /\ in_end' <= Len(input_buffer')
        /\ use_input_buffer' \in BOOLEAN
    BY <1>1, <2>1, <2>2, PreparedInput DEF PrepareInput
  <2> QED
    BY <1>1, <2>1, <2>3 DEF PrepareInput, Handoff!Feed, Types, Steps
<1>2. ASSUME NEW n \in DataSizes, RejectShort(n) PROVE Types'
  BY <1>2 DEF RejectShort, Raise, Types, Steps
<1>3. ASSUME NEW n \in DataSizes, PrepareInputFails(n) PROVE Types'
  BY <1>3 DEF PrepareInputFails, Raise, Types, Steps
<1>4. CASE InitOutput
  <2>1. FirstBlock \in Nat
    BY <1>4, FirstBlockSize DEF InitOutput, OutputInv, InCall, Types
  <2> QED BY <1>4, <2>1 DEF InitOutput, Handoff!Offer, Types, Steps
<1>5. CASE InitOutputFails
  BY <1>5 DEF InitOutputFails, Raise, Types, Steps
<1>6. CASE InitRange
  BY <1>6, HeaderFits DEF InitRange, Types, Steps
<1>7. CASE InitRangeFails
  BY <1>7, HeaderFits DEF InitRangeFails, Raise, Types, Steps
<1>8. CASE CallDecoder
  <2>1. pc' \in Steps
    BY <1>8 DEF CallDecoder, Steps
  <2>2. CASE Handoff!Start(remains)
    BY <1>8, <2>1, <2>2 DEF CallDecoder, Handoff!Start, Handoff!Phases, Types
  <2>3. CASE Handoff!Resume
    BY <1>8, <2>1, <2>3 DEF CallDecoder, Handoff!Resume, Handoff!Phases, Types
  <2> QED BY <1>8, <2>2, <2>3 DEF CallDecoder
<1>9. CASE LeaveLoop
  BY <1>9 DEF LeaveLoop, SubtractResult, Types, Steps
<1>10. CASE CallAgain
  BY <1>10 DEF CallAgain, SubtractResult, Types, Steps
<1>11. CASE Grow
  <2>1. NextBlock \in Nat
    BY <1>11, NextBlockSize DEF Grow, OutputInv, HasOutput, InCall, Types
  <2> QED BY <1>11, <2>1 DEF Grow, SubtractResult, Handoff!Offer, Types, Steps
<1>12. CASE GrowFails
  BY <1>12, FailTypes DEF GrowFails, SubtractResult, Types
<1>13. CASE CorruptedInput
  BY <1>13, FailTypes DEF CorruptedInput, Types
<1>14. CASE Deliver
  <2>1. eof' \in BOOLEAN /\ needs_input' \in BOOLEAN
    BY <1>14 DEF Deliver, SetFlags, NeedsInput7, NeedsInput8, Types
  <2>2. delivered' \in Nat /\ outcome' \in {"none", "bytes", "error"}
    BY <1>14, ResultIsStored DEF Deliver, Types
  <2>3. /\ input_buffer' \in Seq(Nat) /\ in_begin' \in Nat /\ in_end' \in Nat
        /\ in_begin' <= in_end' /\ in_end' <= Len(input_buffer')
    <3> USE <1>14 DEF Deliver, KeepUnread
    <3>0. CASE inPos = inSize
      BY <3>0 DEF Types
    <3>1. CASE inPos # inSize /\ use_input_buffer
      <4>1. in_end - in_begin = inSize
        BY <3>1 DEF InputInv, InCall
      <4>2. /\ input_buffer' = input_buffer /\ in_begin' = in_begin + inPos
            /\ in_end' = in_end
        BY <3>1
      <4> QED BY <4>1, <4>2 DEF Types
    <3>2. CASE inPos # inSize /\ ~use_input_buffer
      <4> DEFINE rest == SubSeq(inBytes, inPos + 1, inSize)
      <4>1. rest \in Seq(Nat)
        <5>1. /\ inBytes \in Seq(Nat) /\ inPos \in Nat /\ inSize \in Nat
              /\ inPos <= inSize /\ inSize <= Len(inBytes)
          <6>1. pc # "dropped"
            BY <1>14 DEF Deliver
          <6>2. Len(inBytes) = inSize
            BY <6>1 DEF InputInv
          <6> QED BY <6>2 DEF Types
        <5> QED BY <5>1, PieceOf, Zenon
      <4>2. input_buffer' = StoreUnread(rest) /\ in_begin' = 0 /\ in_end' = Len(rest)
        BY <1>14, <3>2 DEF Deliver, KeepUnread
      <4> HIDE DEF rest
      <4> QED BY <4>1, <4>2, UnreadStored DEF Types
    <3> QED BY <3>0, <3>1, <3>2
  <2> QED BY <1>14, <2>1, <2>2, <2>3 DEF Deliver, Types, Steps
<1>15. CASE KeepUnreadFails
  BY <1>15, FailTypes DEF KeepUnreadFails, Types
<1>16. CASE DecoderReads
  BY <1>16 DEF DecoderReads, Handoff!Take, Handoff!Phases, Types, Steps
<1>17. CASE DecoderStores
  BY <1>17 DEF DecoderStores, Handoff!Store, Handoff!HasRoom, Types, Steps
<1>18. CASE DecoderReturns
  <2>1. pc' \in Steps
    BY <1>18 DEF DecoderReturns, Steps
  <2>2. CASE Handoff!Starve
    BY <1>18, <2>1, <2>2 DEF DecoderReturns, Handoff!Starve, Handoff!Phases, Types
  <2>3. ASSUME NEW r \in {Handoff!EndOfStream, Handoff!Corrupted, count},
               Handoff!Finish(r)
        PROVE  Types'
    <3>1. r \in Int
      BY DEF Handoff!EndOfStream, Handoff!Corrupted, Types
    <3> QED BY <1>18, <2>1, <2>3, <3>1 DEF DecoderReturns, Handoff!Finish,
                                           Handoff!Phases, Types
  <2> QED BY <1>18, <2>2, <2>3 DEF DecoderReturns
<1>19. CASE Dealloc
  BY <1>19 DEF Dealloc, Handoff!Close, Handoff!Phases, Types, Steps
<1>20. CASE Dropped
  BY <1>20 DEF Dropped, vars, Types
<1> QED
  BY <1>1, <1>2, <1>3, <1>4, <1>5, <1>6, <1>7, <1>8, <1>9, <1>10, <1>11, <1>12,
     <1>13, <1>14, <1>15, <1>16, <1>17, <1>18, <1>19, <1>20
     DEF Next, CallBegins, MethodStep, DecoderStep

-------------------------------------------------------------------------------
(***************************************************************************)
(* The output: what the blocks hold is what the decoder stored.            *)
(***************************************************************************)

\* Every step keeps the sizes of the blocks and what is stored in them in tune.
LEMMA OutputStep ==
    ASSUME IInv, Types', Next PROVE OutputInv'
<1> USE DEF IInv, input, object, output, history, decoder
<1>1. ASSUME NEW n \in DataSizes, NEW len \in Lengths, PrepareInput(n, len)
      PROVE  OutputInv'
  BY <1>1 DEF PrepareInput, Protocol, Handoff!Feed, OutputInv, HasOutput, InCall, NothingLost, WithinLength, Types
<1>2. ASSUME NEW n \in DataSizes, RejectShort(n) PROVE OutputInv'
  BY <1>2 DEF RejectShort, Raise, OutputInv, HasOutput, InCall, NothingLost, WithinLength, Types
<1>3. ASSUME NEW n \in DataSizes, PrepareInputFails(n) PROVE OutputInv'
  BY <1>3 DEF PrepareInputFails, Raise, OutputInv, HasOutput, InCall, NothingLost, WithinLength, Types
<1>4. CASE InitOutput
  <2>1. /\ FirstBlock \in Nat \ {0} /\ (length > 0 => FirstBlock <= length)
        /\ pc = "output" /\ length # 0 /\ stored = 0 /\ outcome = "none"
    BY <1>4, FirstBlockSize DEF InitOutput, OutputInv, InCall, Types
  <2>2. /\ outSize' = FirstBlock /\ outPos' = 0 /\ allocated' = FirstBlock
        /\ blocks' = <<FirstBlock>> /\ pc' \in {"call", "init"}
        /\ UNCHANGED <<length, stored, outcome>>
    BY <1>4 DEF InitOutput, Handoff!Offer
  <2>3. Len(blocks') = 1 /\ blocks'[1] = FirstBlock
    BY <2>2
  <2> QED BY <2>1, <2>2, <2>3 DEF OutputInv, HasOutput, InCall, NothingLost, WithinLength
<1>5. CASE InitOutputFails
  BY <1>5 DEF InitOutputFails, Raise, OutputInv, HasOutput, InCall, NothingLost, WithinLength, Types
<1>6. CASE InitRange
  BY <1>6 DEF InitRange, OutputInv, HasOutput, InCall, NothingLost, WithinLength, Types
<1>7. CASE InitRangeFails
  BY <1>7 DEF InitRangeFails, Raise, OutputInv, HasOutput, InCall, NothingLost, WithinLength, Types
<1>8. CASE CallDecoder
  BY <1>8 DEF CallDecoder, Handoff!Start, Handoff!Resume, OutputInv, HasOutput, InCall, NothingLost, WithinLength, Types
<1>9. CASE LeaveLoop
  BY <1>9 DEF LeaveLoop, SubtractResult, OutputInv, HasOutput, InCall, NothingLost, WithinLength, Types
<1>10. CASE CallAgain
  BY <1>10 DEF CallAgain, SubtractResult, LoopEnds, OutputInv, HasOutput, InCall, NothingLost, WithinLength, Types
<1>11. CASE Grow
  <2>1. /\ NextBlock \in Nat /\ (length > 0 => allocated + NextBlock <= length)
        /\ Len(blocks) > 0 /\ length # 0 /\ outcome = "none"
        /\ Len(blocks) = 1 => allocated = blocks[1]
        /\ stored = allocated - (outSize - outPos)
    BY <1>11, NextBlockSize DEF Grow, OutputInv, HasOutput, InCall, Types
  <2>2. /\ outSize' = NextBlock /\ outPos' = 0 /\ allocated' = allocated + NextBlock
        /\ blocks' = Append(blocks, NextBlock) /\ pc' = "call" /\ outPos = outSize
        /\ UNCHANGED <<length, stored, outcome>>
    BY <1>11 DEF Grow, Handoff!Offer, history
  <2>3. blocks \in Seq(Nat) /\ allocated \in Nat /\ outSize \in Nat
    BY DEF Types
  <2>4. Len(blocks') = Len(blocks) + 1 /\ blocks'[1] = blocks[1]
    BY <2>1, <2>2, <2>3
  <2>5. stored' = allocated' - (outSize' - outPos')
    BY <2>1, <2>2, <2>3
  <2>6. Len(blocks') > 0 /\ Len(blocks') # 1
        /\ (Len(blocks') = 2 => allocated' = blocks'[1] + outSize')
    <3>1. Len(blocks) \in Nat /\ Len(blocks) > 0 /\ Len(blocks') = Len(blocks) + 1
      <4>1. Len(blocks) \in Nat
        BY <2>3
      <4> QED BY <4>1, <2>1, <2>4
    <3>2. Len(blocks') > 0 /\ Len(blocks') # 1
          /\ (Len(blocks') = 2 => Len(blocks) = 1)
      <4> DEFINE before == Len(blocks)
                 after == Len(blocks')
      <4>1. before \in Nat /\ before > 0 /\ after = before + 1
        BY <3>1
      <4> HIDE DEF before, after
      <4>2. after > 0 /\ after # 1 /\ (after = 2 => before = 1)
        BY <4>1
      <4> QED BY <4>2 DEF before, after
    <3>3. Len(blocks) = 1 => allocated' = blocks'[1] + outSize'
      BY <2>1, <2>2, <2>4
    <3> QED BY <3>2, <3>3
  <2>7. length' > 0 => allocated' <= length'
    BY <2>1, <2>2
  <2>8. NothingLost' /\ WithinLength'
    BY <2>1, <2>2 DEF NothingLost, WithinLength
  <2>9. length' # 0 /\ outcome' = "none" /\ pc' # "output"
    BY <2>1, <2>2
  <2> HIDE DEF IInv
  <2> QED BY <2>5, <2>6, <2>7, <2>8, <2>9 DEF OutputInv
<1>12. CASE GrowFails
  BY <1>12 DEF GrowFails, Fail, Raise, OutputInv, HasOutput, InCall, NothingLost, WithinLength, Types
<1>13. CASE CorruptedInput
  BY <1>13 DEF CorruptedInput, Fail, Raise, OutputInv, HasOutput, InCall, NothingLost, WithinLength, Types
<1>14. CASE Deliver
  <2>1. /\ ResultSize = stored /\ stored = allocated - (outSize - outPos)
        /\ length # 0 /\ (length > 0 => allocated <= length)
    BY <1>14, ResultIsStored DEF Deliver, OutputInv, HasOutput, InCall
  <2>2. pc' = "idle" /\ UNCHANGED <<length, stored>>
        /\ (outcome' = "bytes" => delivered' = ResultSize)
    BY <1>14 DEF Deliver
  <2> QED BY <2>1, <2>2 DEF OutputInv, HasOutput, InCall, NothingLost, WithinLength, Types
<1>15. CASE KeepUnreadFails
  BY <1>15 DEF KeepUnreadFails, Fail, Raise, OutputInv, HasOutput, InCall, NothingLost, WithinLength, Types
<1>16. CASE DecoderReads
  BY <1>16 DEF DecoderReads, Handoff!Take, OutputInv, HasOutput, InCall, NothingLost, WithinLength, Types
<1>17. CASE DecoderStores
  BY <1>17 DEF DecoderStores, Handoff!Store, Handoff!HasRoom, OutputInv, HasOutput, InCall, NothingLost, WithinLength, Types
<1>18. CASE DecoderReturns
  BY <1>18 DEF DecoderReturns, Handoff!Starve, Handoff!Finish, OutputInv, HasOutput, InCall, NothingLost, WithinLength, Types
<1>19. CASE Dealloc
  BY <1>19 DEF Dealloc, Handoff!Close, OutputInv, HasOutput, InCall, NothingLost, WithinLength, Types
<1>20. CASE Dropped
  BY <1>20 DEF Dropped, vars, OutputInv, HasOutput, InCall, NothingLost, WithinLength, Types
<1> QED
  BY <1>1, <1>2, <1>3, <1>4, <1>5, <1>6, <1>7, <1>8, <1>9, <1>10, <1>11, <1>12,
     <1>13, <1>14, <1>15, <1>16, <1>17, <1>18, <1>19, <1>20
     DEF Next, CallBegins, MethodStep, DecoderStep

-------------------------------------------------------------------------------
(***************************************************************************)
(* The decoder between the calls.                                          *)
(***************************************************************************)

\* A decoder is suspended with nothing to read, and resumed with something.
LEMMA PhaseStep ==
    ASSUME IInv, Types', Next PROVE PhaseInv'
<1> USE DEF IInv, input, object, output, history, decoder
<1>1. ASSUME NEW n \in DataSizes, NEW len \in Lengths, PrepareInput(n, len)
      PROVE  PhaseInv'
  <2>1. n \in Nat /\ fed - consumed \in Nat
    BY <1>1, ParametersAssumption DEF PrepareInput, InputInv, Holds, Types
  <2>2. Len(inBytes') = fed + n - consumed
    BY <1>1, <2>1, PreparedInput DEF PrepareInput, InputInv
  <2>3. inSize' = fed + n - consumed /\ pc' = "output" /\ pc = "idle" /\ ~eof
        /\ (needs_input => n > 0)
        /\ UNCHANGED <<phase, inited2, eof, needs_input>>
    BY <1>1, <2>2 DEF PrepareInput, Protocol, Handoff!Feed
  <2>4. needs_input => 0 < inSize'
    BY <2>1, <2>3 DEF Types
  <2> QED BY <2>3, <2>4 DEF PhaseInv, InCall, Inside, ResumeSafe, Types
<1>2. ASSUME NEW n \in DataSizes, RejectShort(n) PROVE PhaseInv'
  BY <1>2 DEF RejectShort, Raise, PhaseInv, InCall, Inside, ResumeSafe, Types
<1>3. ASSUME NEW n \in DataSizes, PrepareInputFails(n) PROVE PhaseInv'
  BY <1>3 DEF PrepareInputFails, Raise, PhaseInv, InCall, Inside, ResumeSafe, Types
<1>4. CASE InitOutput
  <2>1. FirstBlock \in Nat \ {0} /\ inPos = 0 /\ pc = "output"
    BY <1>4, FirstBlockSize DEF InitOutput, OutputInv, InputInv, InCall, Types
  <2>2. outPos' < outSize'
    BY <1>4, <2>1 DEF InitOutput, Handoff!Offer
  <2>3. /\ pc' = IF inited2 THEN "call" ELSE "init"
        /\ UNCHANGED <<phase, inited2, eof, needs_input, inSize, inPos, ret>>
    BY <1>4 DEF InitOutput, Handoff!Offer
  <2> QED BY <2>1, <2>2, <2>3 DEF PhaseInv, InCall, Inside, ResumeSafe
<1>5. CASE InitOutputFails
  BY <1>5 DEF InitOutputFails, Raise, PhaseInv, InCall, Inside, ResumeSafe, Types
<1>6. CASE InitRange
  BY <1>6 DEF InitRange, PhaseInv, InCall, Inside, ResumeSafe, Types
<1>7. CASE InitRangeFails
  BY <1>7 DEF InitRangeFails, Raise, PhaseInv, InCall, Inside, ResumeSafe, Types
<1>8. CASE CallDecoder
  BY <1>8 DEF CallDecoder, Handoff!Start, Handoff!Resume, PhaseInv, InCall, Inside, ResumeSafe, Types
<1>9. CASE LeaveLoop
  BY <1>9 DEF LeaveLoop, SubtractResult, PhaseInv, InCall, Inside, ResumeSafe, Types
<1>10. CASE CallAgain
  BY <1>10 DEF CallAgain, SubtractResult, LoopEnds, PhaseInv, InCall, Inside, ResumeSafe, Types
<1>11. CASE Grow
  BY <1>11 DEF Grow, SubtractResult, LoopEnds, Handoff!Offer, PhaseInv, InCall, Inside, ResumeSafe, Types
<1>12. CASE GrowFails
  BY <1>12 DEF GrowFails, Fail, Raise, PhaseInv, InCall, Inside, ResumeSafe, Types
<1>13. CASE CorruptedInput
  BY <1>13 DEF CorruptedInput, Fail, Raise, PhaseInv, InCall, Inside, ResumeSafe, Types
<1>14. CASE Deliver
  <2>1. pc = "leave" /\ pc' = "idle" /\ UNCHANGED <<phase, inited2, inPos, inSize, ret>>
    BY <1>14 DEF Deliver
  <2>2. phase = "starved" /\ ~eof' => needs_input'
    <3> SUFFICES ASSUME phase = "starved", ~eof' PROVE needs_input'
      OBVIOUS
    <3>1. ret = 0 /\ inPos = inSize
      BY <2>1 DEF PhaseInv
    <3>2. needs_input' = IF variant = "ppmd7" THEN NeedsInput7(eof')
                         ELSE NeedsInput8(eof')
      BY <1>14 DEF Deliver, SetFlags
    <3>3. NeedsInput7(eof') /\ NeedsInput8(eof')
      BY <3>1 DEF NeedsInput7, NeedsInput8, Handoff!EndOfStream
    <3> QED BY <3>2, <3>3
  <2> QED BY <2>1, <2>2 DEF PhaseInv, InCall, Inside, ResumeSafe
<1>15. CASE KeepUnreadFails
  BY <1>15 DEF KeepUnreadFails, Fail, Raise, PhaseInv, InCall, Inside, ResumeSafe, Types
<1>16. CASE DecoderReads
  BY <1>16 DEF DecoderReads, Handoff!Take, PhaseInv, InCall, Inside, ResumeSafe, Types
<1>17. CASE DecoderStores
  BY <1>17 DEF DecoderStores, Handoff!Store, Handoff!HasRoom, PhaseInv, InCall, Inside, ResumeSafe, Types
<1>18. CASE DecoderReturns
  BY <1>18 DEF DecoderReturns, Handoff!Starve, Handoff!Finish, PhaseInv, InCall, Inside, ResumeSafe, Types
<1>19. CASE Dealloc
  BY <1>19 DEF Dealloc, Handoff!Close, PhaseInv, InCall, Inside, ResumeSafe, Types
<1>20. CASE Dropped
  BY <1>20 DEF Dropped, vars, PhaseInv, InCall, Inside, ResumeSafe, Types
<1> QED
  BY <1>1, <1>2, <1>3, <1>4, <1>5, <1>6, <1>7, <1>8, <1>9, <1>10, <1>11, <1>12,
     <1>13, <1>14, <1>15, <1>16, <1>17, <1>18, <1>19, <1>20
     DEF Next, CallBegins, MethodStep, DecoderStep

-------------------------------------------------------------------------------
(***************************************************************************)
(* The input: what the decoder has not read is what it reads next.         *)
(***************************************************************************)

\* Bytes read from the front leave the others in place.
LEMMA HoldsBehind ==
    ASSUME Holds(inBytes, inPos, inSize), NEW n \in Nat, inPos + n <= inSize,
           inPos \in Nat, inSize \in Nat, fed \in Nat, consumed \in Nat,
           inPos' = inPos + n, consumed' = consumed + n,
           UNCHANGED <<inBytes, inSize, fed>>
    PROVE  Holds(inBytes, inPos, inSize)'
<1>1. inSize' - inPos' = fed' - consumed'
  BY DEF Holds
<1>2. ASSUME NEW i \in 1..(inSize' - inPos')
      PROVE  inBytes'[inPos' + i] = consumed' + i
  <2>1. n + i \in 1..(inSize - inPos) /\ inPos + (n + i) = inPos' + i
        /\ consumed + (n + i) = consumed' + i
    OBVIOUS
  <2>2. inBytes[inPos + (n + i)] = consumed + (n + i)
    BY <2>1 DEF Holds
  <2> QED BY <2>1, <2>2
<1> QED BY <1>1, <1>2 DEF Holds

\* An object that is of no use any more owes nothing.
LEMMA FailInput ==
    ASSUME Types, InputInv, PhaseInv, Fail, pc # "dropped" PROVE InputInv'
<1>1. /\ pc' = "idle" /\ in_begin' = 0 /\ in_end' = 0 /\ consumed' = fed
      /\ needs_input' = FALSE /\ UNCHANGED <<fed, inBytes, inSize, inited2>>
  BY DEF Fail, Raise, decoder
<1> QED BY <1>1 DEF InputInv, InCall, Holds, NoUnread, Types

\* Every step keeps the bytes that were not read where the next step finds
\* them.
LEMMA InputStep ==
    ASSUME IInv, Types', Next PROVE InputInv'
<1> USE DEF IInv, input, object, output, history, decoder
<1>1. ASSUME NEW n \in DataSizes, NEW len \in Lengths, PrepareInput(n, len)
      PROVE  InputInv'
  <2>1. /\ Holds(input_buffer, in_begin, in_end) /\ pc = "idle" /\ pc' = "output"
        /\ (needs_input => NoUnread) /\ (~inited2 => NoUnread)
        /\ (~inited2 => n >= HeaderSize)
        /\ inPos' = 0 /\ inSize' = Len(inBytes') /\ fed' = fed + n
        /\ UNCHANGED <<consumed, inited2, needs_input>>
    BY <1>1 DEF PrepareInput, InputInv, Handoff!Feed
  <2>2. n \in Nat /\ HeaderSize \in Nat
    BY ParametersAssumption
  <2> DEFINE total == fed + n - consumed
  <2>3. /\ Len(inBytes') = total
        /\ \A i \in 1..total : inBytes'[i] = consumed + i
        /\ ~use_input_buffer' => NoUnread /\ in_begin' = in_end'
        /\ use_input_buffer' =>
               /\ ~NoUnread
               /\ in_end' - in_begin' = total
               /\ \A i \in 1..total : inBytes'[i] = input_buffer'[in_begin' + i]
    BY <1>1, <2>1, <2>2, PreparedInput DEF PrepareInput
  <2>4. NoUnread => total = n
    BY <2>1, <2>2 DEF Types, Holds, NoUnread
  <2>5. total \in Int /\ total = fed' - consumed' /\ total - 0 = total
    BY <2>1, <2>2 DEF Types
  <2>6. \A i \in 1..total : 0 + i = i
    BY <2>5
  <2> HIDE DEF total
  <2>7. inSize' = total /\ inPos' = 0
    BY <2>1, <2>3
  <2>8. Holds(inBytes, inPos, inSize)'
    BY <2>1, <2>3, <2>5, <2>6, <2>7 DEF Holds
  <2>9. ~inited2' => NoUnread' /\ ~use_input_buffer' /\ inSize' >= HeaderSize
    BY <2>1, <2>2, <2>3, <2>4, <2>7 DEF NoUnread
  <2>10. use_input_buffer' => ~needs_input'
    BY <2>1, <2>3
  <2> HIDE DEF IInv
  <2> QED
    BY <2>1, <2>3, <2>7, <2>8, <2>9, <2>10 DEF InputInv, InCall, NoUnread
<1>2. ASSUME NEW n \in DataSizes, RejectShort(n) PROVE InputInv'
  BY <1>2 DEF RejectShort, Raise, InputInv, InCall, Holds, NoUnread
<1>3. ASSUME NEW n \in DataSizes, PrepareInputFails(n) PROVE InputInv'
  BY <1>3 DEF PrepareInputFails, Raise, InputInv, InCall, Holds, NoUnread
<1>4. CASE InitOutput
  BY <1>4 DEF InitOutput, Handoff!Offer, InputInv, InCall, Holds, NoUnread
<1>5. CASE InitOutputFails
  <2>1. /\ pc = "output" /\ pc' = "idle" /\ inPos = 0
        /\ consumed' = IF use_input_buffer THEN consumed ELSE fed
        /\ UNCHANGED <<fed, input, object, inSize, inPos>>
    BY <1>5 DEF InitOutputFails, Raise, InputInv
  <2>2. CASE use_input_buffer
    <3>1. /\ in_end - in_begin = inSize /\ inSize - 0 = inSize
          /\ \A i \in 1..inSize : 0 + i = i
      BY <2>1, <2>2 DEF InputInv, InCall, Types
    <3>2. Holds(input_buffer, in_begin, in_end)
      BY <2>1, <2>2, <3>1 DEF InputInv, InCall, Holds
    <3> QED BY <2>1, <2>2, <3>2 DEF InputInv, InCall, Holds, NoUnread
  <2>3. CASE ~use_input_buffer
    BY <2>1, <2>3 DEF InputInv, InCall, Holds, NoUnread, Types
  <2> QED BY <2>2, <2>3
<1>6. CASE InitRange
  <2>1. /\ HeaderReads \in Nat /\ inPos + HeaderReads <= inSize /\ inPos = 0
        /\ pc = "init" /\ pc' = "call"
        /\ inPos' = inPos + HeaderReads /\ consumed' = consumed + HeaderReads
        /\ inited2' = TRUE /\ UNCHANGED <<input, needs_input, inSize, fed>>
    BY <1>6, HeaderFits DEF InitRange, Types
  <2>2. Holds(inBytes, inPos, inSize)'
    BY <2>1, HoldsBehind DEF InputInv, InCall, Types
  <2> QED BY <2>1, <2>2 DEF InputInv, InCall, NoUnread
<1>7. CASE InitRangeFails
  <2>1. /\ pc = "init" /\ pc' = "idle" /\ consumed' = fed /\ ~inited2
        /\ UNCHANGED <<input, object, inSize, fed>>
    BY <1>7 DEF InitRangeFails, Raise, PhaseInv
  <2> QED BY <2>1 DEF InputInv, InCall, Holds, NoUnread, Types
<1>8. CASE CallDecoder
  BY <1>8 DEF CallDecoder, Handoff!Start, Handoff!Resume, InputInv, InCall, Holds, NoUnread
<1>9. CASE LeaveLoop
  BY <1>9 DEF LeaveLoop, InputInv, InCall, Holds, NoUnread
<1>10. CASE CallAgain
  BY <1>10 DEF CallAgain, InputInv, InCall, Holds, NoUnread
<1>11. CASE Grow
  BY <1>11 DEF Grow, Handoff!Offer, InputInv, InCall, Holds, NoUnread
<1>12. CASE GrowFails
  BY <1>12, FailInput DEF GrowFails
<1>13. CASE CorruptedInput
  BY <1>13, FailInput DEF CorruptedInput
<1>14. CASE Deliver
  <2>1. /\ pc = "leave" /\ pc' = "idle" /\ inited2
        /\ UNCHANGED <<inBytes, inSize, fed, consumed, inPos, inited2>>
    BY <1>14 DEF Deliver, PhaseInv, Inside
  <2>2. /\ Holds(inBytes, inPos, inSize) /\ Len(inBytes) = inSize
        /\ ~use_input_buffer => NoUnread
        /\ use_input_buffer =>
               /\ in_end - in_begin = inSize
               /\ \A i \in 1..inSize : inBytes[i] = input_buffer[in_begin + i]
    BY <2>1 DEF InputInv, InCall
  <2>3. needs_input' => inPos = inSize
    BY <1>14 DEF Deliver, SetFlags, NeedsInput7, NeedsInput8
  <2>4. CASE inPos = inSize
    <3>1. fed = consumed /\ in_begin' = in_end'
      BY <1>14, <2>2, <2>4 DEF Deliver, KeepUnread, Holds, NoUnread, Types
    <3>2. in_end' - in_begin' = 0 /\ fed' - consumed' = 0
      <4>1. fed \in Int /\ in_end' \in Int
        BY DEF Types
      <4>2. \A n \in Int : n - n = 0
        OBVIOUS
      <4> QED BY <2>1, <3>1, <4>1, <4>2
    <3>3. Holds(input_buffer, in_begin, in_end)'
      BY <3>2 DEF Holds
    <3> QED BY <2>1, <2>2, <3>1, <3>3 DEF InputInv, InCall, NoUnread
  <2>5. CASE inPos # inSize /\ use_input_buffer
    <3>1. /\ input_buffer' = input_buffer /\ in_begin' = in_begin + inPos
          /\ in_end' = in_end
      BY <1>14, <2>5 DEF Deliver, KeepUnread
    <3>2. in_end' - in_begin' = inSize - inPos /\ inSize - inPos = fed - consumed
      BY <2>2, <2>5, <3>1 DEF Types, Holds
    <3>3. ASSUME NEW i \in 1..(inSize - inPos)
          PROVE  input_buffer'[in_begin' + i] = consumed + i
      <4>1. inPos + i \in 1..inSize /\ in_begin + (inPos + i) = in_begin' + i
        BY <3>1 DEF Types
      <4>2. inBytes[inPos + i] = consumed + i
        BY <2>2 DEF Holds
      <4> QED BY <2>2, <2>5, <3>1, <4>1, <4>2
    <3>4. Holds(input_buffer, in_begin, in_end)'
      BY <2>1, <3>2, <3>3 DEF Holds
    <3> QED BY <2>1, <2>2, <2>3, <2>5, <3>4 DEF InputInv, InCall
  <2>6. CASE inPos # inSize /\ ~use_input_buffer
    <3> DEFINE rest == SubSeq(inBytes, inPos + 1, inSize)
    <3>1. /\ rest \in Seq(Nat) /\ Len(rest) = inSize - inPos
          /\ \A i \in 1..(inSize - inPos) : rest[i] = inBytes[inPos + i]
      <4>1. /\ inBytes \in Seq(Nat) /\ inPos \in Nat /\ inSize \in Nat
            /\ inPos <= inSize /\ inSize <= Len(inBytes)
        BY <2>2 DEF Types
      <4> QED BY <4>1, PieceOf
    <3>2. input_buffer' = StoreUnread(rest) /\ in_begin' = 0 /\ in_end' = Len(rest)
      BY <1>14, <2>6 DEF Deliver, KeepUnread
    <3> HIDE DEF rest
    <3>3. \A i \in 1..Len(rest) : input_buffer'[i] = rest[i]
      BY <3>1, <3>2, UnreadStored DEF Types
    <3>4. /\ in_end' - in_begin' = inSize - inPos
          /\ inSize - inPos = fed - consumed /\ inSize - inPos \in Int
      BY <2>2, <3>1, <3>2 DEF Types, Holds
    <3>5. ASSUME NEW i \in 1..(inSize - inPos)
          PROVE  input_buffer'[in_begin' + i] = consumed + i
      <4>1. in_begin' + i = i
        BY <3>2, <3>4
      <4>2. inBytes[inPos + i] = consumed + i
        BY <2>2 DEF Holds
      <4> QED BY <3>1, <3>3, <4>1, <4>2
    <3>6. Holds(input_buffer, in_begin, in_end)'
      BY <2>1, <3>4, <3>5 DEF Holds
    <3> QED BY <2>1, <2>2, <2>3, <2>6, <3>6 DEF InputInv, InCall
  <2> QED BY <2>4, <2>5, <2>6
<1>15. CASE KeepUnreadFails
  BY <1>15, FailInput DEF KeepUnreadFails
<1>16. CASE DecoderReads
  <2>1. /\ inPos + 1 <= inSize /\ pc = "run" /\ pc' = "run"
        /\ inPos' = inPos + 1 /\ consumed' = consumed + 1
        /\ UNCHANGED <<input, inited2, needs_input, inSize, fed>>
    BY <1>16 DEF DecoderReads, Handoff!Take, Types
  <2>2. Holds(inBytes, inPos, inSize)'
    BY <2>1, HoldsBehind DEF InputInv, InCall, Types
  <2> QED BY <2>1, <2>2 DEF InputInv, InCall, NoUnread
<1>17. CASE DecoderStores
  BY <1>17 DEF DecoderStores, Handoff!Store, InputInv, InCall, Holds, NoUnread
<1>18. CASE DecoderReturns
  BY <1>18 DEF DecoderReturns, Handoff!Starve, Handoff!Finish, InputInv, InCall, Holds, NoUnread
<1>19. CASE Dealloc
  BY <1>19 DEF Dealloc, Handoff!Close, InputInv, InCall, Holds, NoUnread
<1>20. CASE Dropped
  BY <1>20 DEF Dropped, vars, InputInv, InCall, Holds, NoUnread
<1> QED
  BY <1>1, <1>2, <1>3, <1>4, <1>5, <1>6, <1>7, <1>8, <1>9, <1>10, <1>11, <1>12,
     <1>13, <1>14, <1>15, <1>16, <1>17, <1>18, <1>19, <1>20
     DEF Next, CallBegins, MethodStep, DecoderStep

-------------------------------------------------------------------------------
(***************************************************************************)
(* The theorems.                                                           *)
(***************************************************************************)

\* A step of the specification keeps all of the invariant.
LEMMA StepIInv == IInv /\ [Next]_vars => IInv'
<1> SUFFICES ASSUME IInv, [Next]_vars PROVE IInv'
  OBVIOUS
<1>1. CASE Next
  BY <1>1, TypesStep, InputStep, OutputStep, PhaseStep DEF IInv
<1>2. CASE UNCHANGED vars
  BY <1>2 DEF vars, decoder, input, object, output, history, IInv, Types, InputInv,
              OutputInv, PhaseInv, InCall, HasOutput, Inside, Holds, NoUnread,
              NothingLost, WithinLength, ResumeSafe
<1> QED BY <1>1, <1>2

\* Reachable states satisfy the invariant, whatever the sizes.
THEOREM IInvAlways == Spec => []IInv
  BY InitIInv, StepIInv, PTL DEF Spec

\* A piece that holds the bytes not consumed is the sequence of them.
LEMMA PieceIsFrom ==
    ASSUME NEW s \in Seq(Nat), NEW a \in Nat, NEW b \in Nat, a <= b, b <= Len(s),
           fed \in Nat, consumed \in Nat, Holds(s, a, b)
    PROVE  SubSeq(s, a + 1, b) = From(consumed)
<1> DEFINE piece == SubSeq(s, a + 1, b)
<1>1. /\ piece \in Seq(Nat) /\ Len(piece) = b - a
      /\ \A i \in 1..(b - a) : piece[i] = s[a + i]
  BY PieceOf
<1>2. From(consumed) = [i \in 1..(b - a) |-> consumed + i]
  BY DEF From, Holds
<1>3. DOMAIN piece = 1..(b - a) /\ \A i \in 1..(b - a) : piece[i] = consumed + i
  BY <1>1 DEF Holds
<1>4. piece = [i \in 1..(b - a) |-> piece[i]]
  BY <1>1
<1> HIDE DEF piece
<1>5. piece = From(consumed)
  BY <1>2, <1>3, <1>4
<1> QED BY <1>5 DEF piece

\* The invariant contains the types.
LEMMA IInvTypes == IInv => TypeOK
<1> SUFFICES ASSUME IInv PROVE TypeOK
  OBVIOUS
<1>1. Len(inBytes) >= inPos
  <2>1. CASE pc # "dropped"
    BY <2>1 DEF IInv, Types, InputInv
  <2>2. CASE pc = "dropped"
    <3>1. inPos = 0
      BY <2>2 DEF IInv, PhaseInv
    <3> QED BY <3>1 DEF IInv, Types
  <2> QED BY <2>1, <2>2
<1>2. in_end \in in_begin..Len(input_buffer)
  BY DEF IInv, Types
<1>3. \A i \in DOMAIN blocks : blocks[i] \in Nat
  BY DEF IInv, Types
<1> QED BY <1>1, <1>2, <1>3 DEF IInv, Types, TypeOK

\* Every variable of the decode method holds a value of its C type and the
\* positions in input_buffer stay in order, for any data and block sizes.
THEOREM TypesAlways == Spec => []TypeOK
  BY IInvAlways, IInvTypes, PTL

\* The decoder gets every byte fed to the object once and in order, out of the
\* caller's data and out of input_buffer alike (_ppmdmodule.c, lines 425-489 and
\* 573-615), for any sizes.
THEOREM BytesAlwaysInOrder == Spec => []BytesInOrder
<1>1. IInv => BytesInOrder
  <2> SUFFICES ASSUME IInv PROVE BytesInOrder
    OBVIOUS
  <2>1. CASE Inside
    <3>1. /\ inBytes \in Seq(Nat) /\ inPos \in Nat /\ inSize \in Nat /\ inPos <= inSize
          /\ inSize <= Len(inBytes) /\ fed \in Nat /\ consumed \in Nat
          /\ Holds(inBytes, inPos, inSize)
      BY <2>1 DEF IInv, Types, InputInv, InCall, Inside
    <3> QED BY <2>1, <3>1, PieceIsFrom DEF BytesInOrder
  <2>2. CASE ~Inside /\ pc = "idle"
    <3>1. /\ input_buffer \in Seq(Nat) /\ in_begin \in Nat /\ in_end \in Nat
          /\ in_begin <= in_end /\ in_end <= Len(input_buffer)
          /\ fed \in Nat /\ consumed \in Nat
          /\ Holds(input_buffer, in_begin, in_end)
      BY <2>2 DEF IInv, Types, InputInv
    <3> QED BY <2>2, <3>1, PieceIsFrom DEF BytesInOrder, Unread
  <2> QED BY <2>1, <2>2 DEF BytesInOrder
<1> QED BY <1>1, IInvAlways, PTL

\* The bytes object of a call holds exactly what the decoder stored in it, for
\* any sizes of the blocks and however many there are.
THEOREM NothingEverLost == Spec => []NothingLost
<1>1. IInv => NothingLost
  BY DEF IInv, OutputInv
<1> QED BY <1>1, IInvAlways, PTL

\* No call returns more than its max_length, also when it resumes the decoder
\* another call had started with another length.
THEOREM AlwaysWithinLength == Spec => []WithinLength
<1>1. IInv => WithinLength
  BY DEF IInv, OutputInv
<1> QED BY <1>1, IInvAlways, PTL

\* A suspended decoder is resumed with something to read and room to store:
\* the decode methods keep what the threaded decoder asks of its caller.
THEOREM ResumesSafely == Spec => []ResumeSafe
<1>1. IInv => ResumeSafe
  BY DEF IInv, PhaseInv
<1> QED BY <1>1, IInvAlways, PTL

\* Between two calls a suspended decoder shows as needs_input.
THEOREM StarvedAlwaysAsks == Spec => []StarvedAsksForInput
<1>1. IInv => StarvedAsksForInput
  BY DEF IInv, PhaseInv, StarvedAsksForInput
<1> QED BY <1>1, IInvAlways, PTL

\* A decoder that asks for input has used up what it was given.
THEOREM NeedsInputMeansAlwaysExhausted == Spec => []NeedsInputMeansExhausted
<1>1. IInv => NeedsInputMeansExhausted
  BY DEF IInv, InputInv, NeedsInputMeansExhausted
<1> QED BY <1>1, IInvAlways, PTL
===============================================================================
