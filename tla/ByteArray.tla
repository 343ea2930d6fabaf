------------------------------ MODULE ByteArray ------------------------------
(***************************************************************************)
(* ByteArray (bytearray.cc): a chain of blocks with one cursor, integers   *)
(* of fixed and of variable length, strings, and the buffers SocketStream  *)
(* receives into and sends from.  `flat` is what all that stands for: one  *)
(* array of bytes.                                                         *)
(*                                                                         *)
(* Widths are parameters: a byte has GroupBits + 1 bits (8), an integer    *)
(* Width of them (16, 32 or 64).                                           *)
(***************************************************************************)
EXTENDS Integers, Sequences, SequencesExt

CONSTANTS
  BaseSizes,        \* the sizes a block may have
  GroupBits, Width,
  Ints,             \* the integers that are written
  MaxString,        \* bound: the longest string
  MaxCapacity       \* bound: how far the array is written

VARIABLES
  ba,               \* the ByteArray: its members, and the blocks of the chain
  flat,             \* the bytes; Junk where none was written
  items             \* what was written and is still whole, by position

Junk == -1
None == [p \in {} |-> 0]
Larger(m, n) == IF m > n THEN m ELSE n

Byte == 2^(GroupBits + 1)

\* m_baseSize, which never changes.
BaseSize == ba.m_baseSize
NewBlock(size) == [o \in 1..size |-> Junk]

\* m_cur is the number of a block, and 0 for nullptr; `fault` is the operation
\* that followed one.
NewArray(base_size) ==
  [m_baseSize |-> base_size, chain |-> <<NewBlock(base_size)>>, m_cur |-> 1,
   m_position |-> 0, m_capacity |-> base_size, m_size |-> 0, m_endian |-> "big",
   fault |-> "none"]

Init == ba \in {NewArray(base_size) : base_size \in BaseSizes} /\ flat = <<>> /\ items = None

-----------------------------------------------------------------------------
(* Integers as bytes. *)

EncodeZigzag(v) == IF v < 0 THEN (((-v) % 2^Width) * 2 - 1) % 2^Width ELSE (v * 2) % 2^Width

Signed(u) == IF u >= 2^(Width - 1) THEN u - 2^Width ELSE u

\* (v >> 1) ^ -(v & 1)
DecodeZigzag(u) == Signed(IF u % 2 = 1 THEN 2^Width - 1 - (u \div 2) ELSE u \div 2)

\* Mutant: the loop ends one too late, `value > 0x80`.
RECURSIVE VarintStrict(_)
VarintStrict(u) ==
  IF u > 2^GroupBits
  THEN <<(u % 2^GroupBits) + 2^GroupBits>> \o VarintStrict(u \div 2^GroupBits)
  ELSE <<u % Byte>>

\* The loop of writeUint32() and writeUint64().
RECURSIVE Varint(_)
Varint(u) ==
  IF u >= 2^GroupBits
  THEN <<(u % 2^GroupBits) + 2^GroupBits>> \o Varint(u \div 2^GroupBits)
  ELSE <<u>>

\* Little endian, as the machine has them; byteswap() otherwise.
Native(u) == [i \in 1..(Width \div (GroupBits + 1)) |-> (u \div Byte^(i - 1)) % Byte]
Fixed(u, endian) == IF endian = "little" THEN Native(u) ELSE Reverse(Native(u))
OfNative(bytes) == FoldRight(LAMBDA b, u : b + u * Byte, bytes, 0)
OfFixed(bytes, endian) == OfNative(IF endian = "little" THEN bytes ELSE Reverse(bytes))

-----------------------------------------------------------------------------
(* The loops over the blocks. *)

getReadSize(b) == b.m_size - b.m_position
Succ(b, k) == IF k < Len(b.chain) THEN k + 1 ELSE 0

Places(k, npos, size) == [i \in 1..size |-> <<k, npos + i>>]
Fault(op) == [places |-> <<>>, cur |-> 0, fault |-> op]

\* read(), write(), getReadBuffers() and getWriteBuffers() go over `size` bytes
\* from offset npos of block k: the places, and the block where they end.
RECURSIVE Walk(_, _, _, _, _)
Walk(b, k, npos, size, op) ==
  LET ncap == BaseSize - npos
      rest == Walk(b, Succ(b, k), 0, size - ncap, op) IN
  IF k = 0 THEN Fault(op)
  ELSE IF ncap >= size
  THEN [places |-> Places(k, npos, size), fault |-> b.fault,
        cur |-> IF npos + size = BaseSize THEN Succ(b, k) ELSE k]
  ELSE [rest EXCEPT !.places = Places(k, npos, ncap) \o @]

WalkOf(b, size, op) == Walk(b, b.m_cur, b.m_position % BaseSize, size, op)

At(b, places) == [i \in 1..Len(places) |-> b.chain[places[i][1]][places[i][2]]]

\* The chain with the bytes at the first of these places.
Put(chain, places, bytes) ==
  [k \in 1..Len(chain) |-> [o \in 1..Len(chain[k]) |->
     LET here == {i \in (1..Len(bytes)) \intersect DOMAIN places : places[i] = <<k, o>>} IN
     IF here = {} THEN chain[k][o] ELSE bytes[CHOOSE i \in here : TRUE]]]

addCapacity(b, size) ==
  LET old_cap == b.m_capacity - b.m_position
      count == IF old_cap >= size THEN 0 ELSE (size - old_cap + BaseSize - 1) \div BaseSize IN
  [b EXCEPT !.chain = @ \o [i \in 1..count |-> NewBlock(BaseSize)],
            !.m_capacity = @ + count * BaseSize,
            !.m_cur = IF count > 0 /\ old_cap = 0 THEN Len(b.chain) + 1 ELSE @]

write(b, bytes) ==
  LET grown == addCapacity(b, Len(bytes))
      walk == WalkOf(grown, Len(bytes), "write") IN
  IF bytes = <<>> THEN b
  ELSE [grown EXCEPT !.chain = Put(@, walk.places, bytes), !.m_cur = walk.cur,
                     !.m_position = @ + Len(walk.places),
                     !.m_size = Larger(@, b.m_position + Len(walk.places)),
                     !.fault = walk.fault]

\* It throws when there is not enough to read, before anything has changed.
read(b, size) ==
  LET walk == WalkOf(b, size, IF size = 0 THEN "read nothing" ELSE "read") IN
  IF size > getReadSize(b) THEN [ba |-> b, bytes |-> <<>>, thrown |-> TRUE]
  ELSE [ba |-> [b EXCEPT !.m_cur = walk.cur, !.m_position = @ + Len(walk.places),
                         !.fault = walk.fault],
        bytes |-> At(b, walk.places), thrown |-> FALSE]

\* The loop of readUint32() and readUint64() from round i on.
RECURSIVE ReadVarint(_, _, _)
ReadVarint(b, i, result) ==
  LET one == read(b, 1)
      sum == (result + (one.bytes[1] % 2^GroupBits) * 2^i) % 2^Width IN
  IF i >= Width THEN [ba |-> b, value |-> result, thrown |-> FALSE]
  ELSE IF one.thrown THEN [ba |-> b, value |-> result, thrown |-> TRUE]
  ELSE IF one.bytes[1] < 2^GroupBits THEN [ba |-> one.ba, value |-> sum, thrown |-> FALSE]
  ELSE ReadVarint(one.ba, i + GroupBits, sum)

ReadFixed(b) ==
  LET all == read(b, Width \div (GroupBits + 1)) IN
  [ba |-> all.ba, value |-> OfFixed(all.bytes, b.m_endian), thrown |-> all.thrown]

\* Mutant: the cursor stays on a block that ends at the position.
RECURSIVE SeekStays(_, _, _)
SeekStays(b, k, val) == IF val > BaseSize THEN SeekStays(b, Succ(b, k), val - BaseSize) ELSE k

\* The loop of setPosition().
RECURSIVE Seek(_, _, _)
Seek(b, k, val) ==
  IF val > BaseSize THEN Seek(b, Succ(b, k), val - BaseSize)
  ELSE IF val = BaseSize THEN Succ(b, k) ELSE k

setPosition(b, val) ==
  IF val > b.m_capacity THEN b
  ELSE [b EXCEPT !.m_position = val, !.m_size = Larger(@, val), !.m_cur = Seek(b, 1, val)]

\* readFromFile(): a block at a time.
RECURSIVE FromFile(_, _)
FromFile(b, bytes) ==
  IF Len(bytes) < BaseSize THEN write(b, bytes)
  ELSE FromFile(write(b, SubSeq(bytes, 1, BaseSize)), SubSeq(bytes, BaseSize + 1, Len(bytes)))

\* The loop of writeToFile() from block k on.
RECURSIVE FilePlaces(_, _, _, _)
FilePlaces(b, k, pos, size) ==
  LET diff == pos % BaseSize
      len == (IF size > BaseSize THEN BaseSize ELSE size) - diff IN
  IF size <= 0 THEN <<>>
  ELSE Places(k, diff, len) \o FilePlaces(b, Succ(b, k), pos + len, size - len)

-----------------------------------------------------------------------------
(* Integers and strings, by how their value or length is written.          *)

Encode(form, endian, u) == IF form = "varint" THEN Varint(u) ELSE Fixed(u, endian)
Code(item) == IF item.form = "varint" THEN EncodeZigzag(item.value) ELSE item.value % 2^Width
Text(n) == [i \in 1..n |-> 1]

WriteItem(b, item) ==
  IF item.kind = "string"
  THEN write(write(b, Encode(item.form, b.m_endian, item.value)), Text(item.value))
  ELSE write(b, Encode(item.form, b.m_endian, Code(item)))

ReadNumber(b, form) == IF form = "varint" THEN ReadVarint(b, 0, 0) ELSE ReadFixed(b)

ReadInt(b, form) ==
  LET number == ReadNumber(b, form) IN
  [number EXCEPT !.value = IF form = "varint" THEN DecodeZigzag(@) ELSE Signed(@)]

\* The position stays after the length when the rest is not there.
ReadString(b, form) ==
  LET length == ReadNumber(b, form)
      text == read(length.ba, length.value) IN
  IF length.thrown THEN [ba |-> length.ba, value |-> <<>>, thrown |-> TRUE]
  ELSE [ba |-> text.ba, value |-> text.bytes, thrown |-> text.thrown]

-----------------------------------------------------------------------------
(* What they do to the array they stand for. *)

FlatWrite(bytes) ==
  [p \in 1..Larger(Len(flat), ba.m_position + Len(bytes)) |->
     IF p > ba.m_position /\ p <= ba.m_position + Len(bytes)
     THEN bytes[p - ba.m_position] ELSE flat[p]]
Bytes(item) ==
  Encode(item.form, item.endian, IF item.kind = "string" THEN item.value ELSE Code(item))
    \o (IF item.kind = "string" THEN Text(item.value) ELSE <<>>)

\* The items that a write of n bytes at the position leaves whole.
Kept(n) ==
  [p \in {q \in DOMAIN items : q + Len(Bytes(items[q])) <= ba.m_position
                               \/ q >= ba.m_position + n} |-> items[p]]

Room(n) == ba.fault = "none" /\ ba.m_position + n <= MaxCapacity

\* Nothing from the position on is uninitialised memory.
AllWritten == \A p \in (ba.m_position + 1)..ba.m_size : flat[p] # Junk

Forms == {"varint", "fixed"}
\* A varint has no byte order.
Order(form) == IF form = "fixed" THEN ba.m_endian ELSE "none"
Items ==
  {[kind |-> "int", form |-> f, endian |-> Order(f), value |-> v] : f \in Forms, v \in Ints}
    \union {[kind |-> "string", form |-> f, endian |-> Order(f), value |-> n] :
              f \in Forms, n \in 0..MaxString}

-----------------------------------------------------------------------------
(* The operations. *)

\* writeFint8() ... writeStringVint()
Write(item) ==
  \E bytes \in {Bytes(item)} :
    /\ Room(Len(bytes))
    /\ ba' = WriteItem(ba, item)
    /\ flat' = FlatWrite(bytes)
    /\ items' = ba.m_position :> item @@ Kept(Len(bytes))

\* readFint8() ... readUint64(); they may throw in the middle of a number.
TakeInt(form) ==
  /\ ba.fault = "none" /\ AllWritten
  /\ ba' = ReadInt(ba, form).ba
  /\ UNCHANGED <<flat, items>>

\* readStringF16() ... readStringVint()
TakeString(form) ==
  /\ ba.fault = "none" /\ AllWritten
  /\ ba' = ReadString(ba, form).ba
  /\ UNCHANGED <<flat, items>>

\* What is between the size and the new position becomes part of the array.
Position(val) ==
  /\ ba.fault = "none"
  /\ ba' = setPosition(ba, val)
  /\ flat' = [p \in 1..ba'.m_size |-> IF p <= Len(flat) THEN flat[p] ELSE Junk]
  /\ UNCHANGED items

\* SocketStream::read(): recv() fills the first `got` bytes of buffers for
\* `length`; none when it fails.
Receive(length, got) ==
  LET grown == addCapacity(ba, length)
      walk == WalkOf(grown, length, "receive")
      filled == [grown EXCEPT !.chain = Put(@, walk.places, Text(got)), !.fault = walk.fault] IN
  /\ Room(length)
  /\ ba' = IF got > 0 THEN setPosition(filled, ba.m_position + got) ELSE filled
  /\ flat' = FlatWrite(Text(got))
  /\ items' = Kept(got)

\* SocketStream::write(): send() takes the first `took` bytes of the buffers.
Send(took) ==
  /\ ba.fault = "none" /\ took <= getReadSize(ba)
  /\ ba' = setPosition(ba, ba.m_position + took)
  /\ UNCHANGED <<flat, items>>

ReadFile(bytes) ==
  /\ Room(Len(bytes))
  /\ ba' = FromFile(ba, bytes)
  /\ flat' = FlatWrite(bytes)
  /\ items' = Kept(Len(bytes))

\* The first block keeps its bytes.
clear ==
  /\ ba.fault = "none"
  /\ ba' = [ba EXCEPT !.m_position = 0, !.m_size = 0, !.m_capacity = BaseSize,
                      !.m_cur = 1, !.chain = <<@[1]>>]
  /\ flat' = <<>> /\ items' = None

setIsLittleEndian(val) ==
  /\ ba.fault = "none"
  /\ ba' = [ba EXCEPT !.m_endian = IF val THEN "little" ELSE "big"]
  /\ UNCHANGED <<flat, items>>

Next ==
  \/ \E item \in Items : Write(item)
  \/ \E form \in Forms : TakeInt(form) \/ TakeString(form)
  \/ \E val \in 0..ba.m_capacity : Position(val)
  \/ \E length \in 1..(BaseSize + 1) : \E got \in 0..length : Receive(length, got)
  \/ \E took \in 1..BaseSize : Send(took)
  \/ \E n \in 1..(BaseSize + 1) : ReadFile(Text(n))
  \/ clear
  \/ \E val \in BOOLEAN : setIsLittleEndian(val)

Spec == Init /\ [][Next]_<<ba, flat, items>>

-----------------------------------------------------------------------------
(* Properties. *)

\* The cursor is on the block that holds the position, nullptr exactly at the
\* end of the last one, and sizes agree with the chain, whichever of write(),
\* read(), setPosition(), addCapacity() and clear() came last and however the
\* ends of their data fall on the ends of blocks.
CursorExact ==
  /\ ba.m_position <= ba.m_size /\ ba.m_size <= ba.m_capacity
  /\ ba.m_capacity = Len(ba.chain) * BaseSize
  /\ ba.fault = "none" =>
       ba.m_cur = IF ba.m_position = ba.m_capacity THEN 0 ELSE ba.m_position \div BaseSize + 1

Agree(bytes) == \A i \in 1..Len(bytes) : flat[ba.m_position + i] \in {bytes[i], Junk}

\* read(), toString() and getReadBuffers(), and from the start of a block
\* writeToFile(), go over exactly the bytes from the position on.
ReadsExact ==
  ba.fault = "none" =>
    /\ \A size \in 1..getReadSize(ba) :
         LET all == read(ba, size) IN Len(all.bytes) = size /\ Agree(all.bytes)
    /\ ba.m_position % BaseSize = 0 =>
         LET places == FilePlaces(ba, ba.m_cur, ba.m_position, getReadSize(ba)) IN
         Len(places) = getReadSize(ba) /\ Agree(At(ba, places))

\* What was written and not overwritten since is read back at its place, in the
\* byte order it was written in, and the position is then where it ended,
\* whatever blocks it lies across.  No null pointer is followed, except by the
\* read of zero bytes for an empty string that ends with the last block.
ItemsReadBack ==
  ba.fault = "none" =>
    \A p \in DOMAIN items :
      LET item == items[p]
          there == [setPosition(ba, p) EXCEPT !.m_endian = item.endian]
          end == p + Len(Bytes(item))
          string == item.kind = "string"
          back == IF string THEN ReadString(there, item.form) ELSE ReadInt(there, item.form) IN
      /\ ~back.thrown /\ back.ba.m_position = end
      /\ back.value = IF string THEN Text(item.value) ELSE item.value
      /\ back.ba.fault = "none" \/ (string /\ item.value = 0 /\ end = ba.m_capacity)

\* The one operation that follows a null pointer is a read of no bytes, such as
\* that of an empty string, at the end of the last block.
OnlyEmptyReadsFault ==
  ba.fault # "none" => ba.fault = "read nothing" /\ ba.m_position = ba.m_capacity
=============================================================================
