------------------------------- MODULE Buffer -------------------------------
(***************************************************************************)
(* The buffer of Buffer.h: an array with room for a prefix, then the bytes *)
(* that can be read (from readerIndex to writerIndex), then room to write. *)
(* Indexes count from 0, as in the code.  Every operation of the class but *)
(* swap is an action; the descriptor of readFd is a stream into which a    *)
(* peer writes.                                                            *)
(*                                                                         *)
(* What the callers owe, from the assertions: no more is retrieved than    *)
(* there is, and no more is prepended than there is room for.              *)
(*                                                                         *)
(* shrink moves the bytes to the front of a smaller array but leaves the   *)
(* indexes.  If something was retrieved or prepended before, writerIndex   *)
(* may then be beyond the end of the array, where writableBytes wraps      *)
(* around and append finds room that does not exist.  What the program     *)
(* does once it has reached beyond the array (overrun) is undefined: the   *)
(* model stops there.                                                      *)
(***************************************************************************)
EXTENDS Naturals, Sequences

CONSTANTS Byte,          (* the values of a byte                           *)
          Zero,          (* the value that a new element of a vector has   *)
          Chunk,         (* the strings of bytes that somebody writes      *)
          kCheapPrepend, (* the room for a prefix, 8 in the code           *)
          kInitialSize,  (* 1024 in the code                               *)
          ExtraSize,     (* the size of extrabuf, 65536 in the code        *)
          Reserves,      (* the arguments of shrink                        *)
          SizeT,         (* how many values a size_t has, 2^64             *)
          MaxSize,       (* bound: the size of the array                   *)
          MaxIncoming    (* bound: what a peer has written and nobody read *)

ASSUME BufferAssumption ==
  /\ Zero \in Byte
  /\ Chunk \subseteq Seq(Byte) \ {<<>>}
  /\ kCheapPrepend \in Nat /\ kInitialSize \in Nat /\ ExtraSize \in Nat
  /\ Reserves \subseteq Nat
  /\ MaxSize \in Nat /\ kCheapPrepend + kInitialSize <= MaxSize
  /\ MaxIncoming \in Nat
  /\ \A c \in Chunk : Len(c) <= MaxSize
  /\ SizeT \in Nat /\ 2 * MaxSize < SizeT

VARIABLES b,             (* the Buffer: its bytes, size and indexes        *)
          incoming,      (* the bytes that wait in the descriptor          *)
          overrun        (* a copy reached beyond the end of the array     *)

vars == <<b, incoming, overrun>>

Array(n) == [0 .. n - 1 -> Byte]

Zeros(n) == [i \in 0 .. n - 1 |-> Zero]

Init == /\ b = [at |-> Zeros(kCheapPrepend + kInitialSize),
                size |-> kCheapPrepend + kInitialSize,
                readerIndex |-> kCheapPrepend,
                writerIndex |-> kCheapPrepend]
        /\ incoming = <<>>
        /\ overrun = FALSE

(* The indexes are in the array. *)
Inside(x) == x.writerIndex <= x.size

ReadableBytes(x) == x.writerIndex - x.readerIndex
WritableBytes(x) == IF Inside(x) THEN x.size - x.writerIndex
                                 ELSE SizeT - (x.writerIndex - x.size)
PrependableBytes(x) == x.readerIndex

(* The bytes that can be read, as retrieveAsString returns them. *)
Contents(x) == [i \in 1 .. ReadableBytes(x) |-> x.at[x.readerIndex + i - 1]]

(* All bytes that can be read are in the array. *)
ContentsInside(x) == Inside(x) \/ ReadableBytes(x) = 0

(* The array f of n bytes after std::copy has put d at index k. *)
Copied(f, n, k, d) ==
  [i \in 0 .. n - 1 |-> IF i \in k .. k + Len(d) - 1 THEN d[i - k + 1] ELSE f[i]]

-----------------------------------------------------------------------------
(* Making room.                                                            *)

(* Mutants of TooSmall: the room for the prefix is forgotten; no bytes are *)
(* ever moved.                                                             *)
TooSmall_Prefix(x, len) == WritableBytes(x) + PrependableBytes(x) < len
TooSmall_Always(x, len) == TRUE

(* Whether bytes that were retrieved leave too little room for len more. *)
TooSmall(x, len) == WritableBytes(x) + PrependableBytes(x) < len + kCheapPrepend

Resized(x, n) ==
  [x EXCEPT !.at = [i \in 0 .. n - 1 |-> IF i < x.size THEN x.at[i] ELSE Zero],
            !.size = n]

(* Mutant of MovedToFront: writerIndex stays behind the moved bytes. *)
MovedToFront_Writer(x) ==
  [x EXCEPT !.at = Copied(x.at, x.size, kCheapPrepend, Contents(x)),
            !.readerIndex = kCheapPrepend]

MovedToFront(x) ==
  [x EXCEPT !.at = Copied(x.at, x.size, kCheapPrepend, Contents(x)),
            !.readerIndex = kCheapPrepend,
            !.writerIndex = kCheapPrepend + ReadableBytes(x)]

MadeSpace(x, len) == IF TooSmall(x, len) THEN Resized(x, x.writerIndex + len)
                                         ELSE MovedToFront(x)

EnsuredWritable(x, len) == IF WritableBytes(x) < len THEN MadeSpace(x, len) ELSE x

HasWritten(x, len) == [x EXCEPT !.writerIndex = @ + len]

Written(x, d) == HasWritten([x EXCEPT !.at = Copied(@, x.size, x.writerIndex, d)], Len(d))

Appended(x, d) == Written(EnsuredWritable(x, Len(d)), d)

-----------------------------------------------------------------------------
(* The operations.                                                         *)

(* The buffer becomes x; it does so as long as the program is defined. *)
Becomes(x) == ~overrun /\ b' = x /\ UNCHANGED overrun

Overruns == ~overrun /\ overrun' = TRUE /\ UNCHANGED b

(* There is room for len more bytes. *)
HasRoom(x, len) == x.writerIndex + len <= x.size

AppendBytes(d) == /\ Appended(b, d).size <= MaxSize
                  /\ IF HasRoom(EnsuredWritable(b, Len(d)), Len(d))
                     THEN Becomes(Appended(b, d))
                     ELSE Overruns
                  /\ UNCHANGED incoming

Prepended(x, d) ==
  [x EXCEPT !.readerIndex = @ - Len(d),
            !.at = Copied(@, x.size, x.readerIndex - Len(d), d)]

Prepend(d) == /\ Len(d) <= PrependableBytes(b)
              /\ IF b.readerIndex <= b.size THEN Becomes(Prepended(b, d)) ELSE Overruns
              /\ UNCHANGED incoming

(* retrieve, and retrieveUntil, that calls it *)
Retrieve(len) == /\ len <= ReadableBytes(b)
                 /\ Becomes([b EXCEPT !.readerIndex = @ + len])
                 /\ UNCHANGED incoming

(* Mutant of Cleared: readerIndex stays. *)
Cleared_Writer(x) == [x EXCEPT !.writerIndex = kCheapPrepend]

Cleared(x) == [x EXCEPT !.readerIndex = kCheapPrepend,
                        !.writerIndex = kCheapPrepend]

RetrieveAll == Becomes(Cleared(b)) /\ UNCHANGED incoming

(* It copies the bytes into a string first. *)
RetrieveAsString == /\ IF ContentsInside(b) THEN Becomes(Cleared(b)) ELSE Overruns
                    /\ UNCHANGED incoming

(* A new array of n bytes takes the place of the old; the indexes stay. *)
Shrunk(x, n) ==
  [x EXCEPT !.at = Copied(Zeros(n), n, kCheapPrepend, Contents(x)),
            !.size = n]

Shrink(reserve) ==
  LET n == kCheapPrepend + ReadableBytes(b) + reserve
  IN  /\ n <= MaxSize
      /\ IF ContentsInside(b) THEN Becomes(Shrunk(b, n)) ELSE Overruns
      /\ UNCHANGED incoming

(* A peer writes to the descriptor. *)
Arrive(d) == /\ ~overrun
             /\ Len(incoming) + Len(d) <= MaxIncoming
             /\ incoming' = incoming \o d
             /\ UNCHANGED <<b, overrun>>

(* Mutant of Received: what did not fit is appended from the beginning. *)
Received_Again(x, s) ==
  LET writable == WritableBytes(x)
  IN  IF Len(s) <= writable
      THEN Written(x, s)
      ELSE Appended(Written(x, SubSeq(s, 1, writable)), SubSeq(s, 1, Len(s) - writable))

(* The buffer after readv has stored s into the room to write and, what    *)
(* did not fit there, into extrabuf.                                       *)
Received(x, s) ==
  LET writable == WritableBytes(x)
  IN  IF Len(s) <= writable
      THEN Written(x, s)
      ELSE Appended(Written(x, SubSeq(s, 1, writable)), SubSeq(s, writable + 1, Len(s)))

(* readv takes n bytes, as many as are there and fit, or fewer; nothing    *)
(* changes if it fails or takes none.  It fails (EINVAL) if the room to    *)
(* write is a number that has wrapped around.                              *)
ReadFd == \E n \in 1 .. Len(incoming) :
            /\ Inside(b)
            /\ n <= WritableBytes(b) + ExtraSize
            /\ Received(b, SubSeq(incoming, 1, n)).size <= MaxSize
            /\ Becomes(Received(b, SubSeq(incoming, 1, n)))
            /\ incoming' = SubSeq(incoming, n + 1, Len(incoming))

Next == \/ \E d \in Chunk : AppendBytes(d) \/ Prepend(d) \/ Arrive(d)
        \/ \E len \in 0 .. MaxSize : Retrieve(len)
        \/ RetrieveAll
        \/ RetrieveAsString
        \/ \E reserve \in Reserves : Shrink(reserve)
        \/ ReadFd

Spec == Init /\ [][Next]_vars

-----------------------------------------------------------------------------
(* Properties.                                                             *)

(* The array has the size it says, and the reader is not behind the        *)
(* writer: readableBytes (Buffer.h:41-44) never wraps around.              *)
TypeOK == /\ b.size \in kCheapPrepend .. MaxSize
          /\ b.at \in Array(b.size)
          /\ b.readerIndex \in Nat
          /\ b.writerIndex \in 0 .. MaxSize
          /\ b.readerIndex <= b.writerIndex
          /\ incoming \in Seq(Byte)
          /\ overrun \in BOOLEAN

(* Something was retrieved or prepended and not yet moved back when shrink *)
(* is called.                                                              *)
ShrinksLate == b.readerIndex # kCheapPrepend /\ \E reserve \in Reserves : Shrink(reserve)

(* Only such a call of shrink puts an index outside of the array, and no   *)
(* operation reads or writes there before (Buffer.h:80-137, 163-181).      *)
LeavesOnlyByShrink ==
  [][Inside(b) => ~overrun' /\ (Inside(b') \/ ShrinksLate)]_vars

(* The assertions of ensureWritableBytes and makeSpace (Buffer.h:113, 172, *)
(* 179): whatever length is asked for, there is then room for it, what     *)
(* could be read can still be read, and bytes are moved only to the front. *)
SpaceIsMade ==
  Inside(b) =>
    \A len \in 1 .. MaxSize :
      LET x == EnsuredWritable(b, len)
      IN  /\ HasRoom(x, len)
          /\ Contents(x) = Contents(b)
          /\ x.readerIndex # b.readerIndex => kCheapPrepend < b.readerIndex

(* ensureWritableBytes gives room for the length it is called with         *)
(* (Buffer.h:113).  It does not after a late shrink.                       *)
RoomEnsured ==
  \A len \in 1 .. MaxSize : HasRoom(EnsuredWritable(b, len), len)

(* The array grows only as far as its contents need: to no more than twice *)
(* what it then holds and the room for the prefix (makeSpace moves the     *)
(* bytes whenever that is enough, Buffer.h:165).                           *)
GrowsByNeed ==
  [][b'.size > b.size
       => \/ b'.size <= kCheapPrepend + 2 * ReadableBytes(b')
          \/ \E reserve \in Reserves : Shrink(reserve)]_vars

(* The buffer is a queue of bytes that loses, repeats and reorders none,   *)
(* but for what a late shrink does and what follows outside of the array.  *)
Q == INSTANCE ByteQueue WITH queue <- Contents(b)
ImplementsByteQueue ==
  Q!Init /\ [][Inside(b) /\ ~ShrinksLate => [Q!Next]_(Q!vars)]_vars
=============================================================================
