--------------------------- MODULE Buffer_proofs ---------------------------
(***************************************************************************)
(* Proofs about module Buffer, for every size of the array and of its      *)
(* parts.  The operations are pure functions of a buffer: for each of them *)
(* a lemma says that it returns a buffer, what that holds and how large it *)
(* is.  The invariant and the refinement then take one step per action.    *)
(***************************************************************************)
EXTENDS Buffer, SequenceTheorems, TLAPS

(* A record that can be the state of a Buffer, whether or not the indexes  *)
(* are in the array.                                                       *)
HasShape(x) == /\ x = [at |-> x.at, size |-> x.size, readerIndex |-> x.readerIndex,
                       writerIndex |-> x.writerIndex]
               /\ x.size \in Nat
               /\ x.at \in Array(x.size)
               /\ x.readerIndex \in Nat
               /\ x.writerIndex \in Nat
               /\ x.readerIndex <= x.writerIndex

(* One whose indexes are. *)
IsBuffer(x) == HasShape(x) /\ Inside(x)

(* The array is never smaller than the room for the prefix: retrieveAll    *)
(* puts both indexes behind that, and heals what shrink did.               *)
IInv == /\ HasShape(b)
        /\ kCheapPrepend <= b.size
        /\ b.size <= MaxSize
        /\ b.writerIndex <= MaxSize
        /\ incoming \in Seq(Byte)
        /\ overrun \in BOOLEAN

-----------------------------------------------------------------------------
(* Lemmas about the operators.                                             *)

(* std::copy stores bytes in an array of bytes. *)
LEMMA CopiedType ==
  ASSUME NEW n \in Nat, NEW f \in Array(n), NEW k \in Nat, NEW d \in Seq(Byte)
  PROVE  /\ Copied(f, n, k, d) \in Array(n)
         /\ \A i \in 0 .. n - 1 :
              Copied(f, n, k, d)[i]
                = IF i \in k .. k + Len(d) - 1 THEN d[i - k + 1] ELSE f[i]
<1>1. Len(d) \in Nat /\ \A j \in 1 .. Len(d) : d[j] \in Byte
  BY LenProperties, ElementOfSeq
<1>2. ASSUME NEW i \in 0 .. n - 1, i \in k .. k + Len(d) - 1
      PROVE  d[i - k + 1] \in Byte
  <2>1. i - k + 1 \in 1 .. Len(d)
    BY <1>1, <1>2
  <2> QED  BY <1>1, <2>1
<1>3. \A i \in 0 .. n - 1 : f[i] \in Byte
  BY DEF Array
<1> QED  BY <1>2, <1>3 DEF Copied, Array

(* What can be read is a string of bytes. *)
LEMMA ContentsType ==
  ASSUME NEW x, IsBuffer(x)
  PROVE  /\ ReadableBytes(x) \in Nat
         /\ Contents(x) \in Seq(Byte)
         /\ Len(Contents(x)) = ReadableBytes(x)
         /\ \A i \in 1 .. ReadableBytes(x) : Contents(x)[i] = x.at[x.readerIndex + i - 1]
<1> DEFINE n == ReadableBytes(x)
<1>1. n \in Nat
  BY DEF IsBuffer, HasShape, Inside, ReadableBytes
<1>2. ASSUME NEW i \in 1 .. n
      PROVE  x.at[x.readerIndex + i - 1] \in Byte
  <2>1. x.readerIndex + i - 1 \in 0 .. x.size - 1
    BY DEF IsBuffer, HasShape, Inside, ReadableBytes
  <2> QED  BY <2>1 DEF IsBuffer, HasShape, Inside, Array
<1>3. Contents(x) \in [1 .. n -> Byte]
  BY <1>2 DEF Contents
<1>4. Contents(x) \in Seq(Byte)
  BY <1>1, <1>3, SeqDef
<1>5. Len(Contents(x)) = n
  BY <1>1, <1>3, <1>4, LenProperties
<1> QED  BY <1>1, <1>4, <1>5 DEF Contents

(* Two buffers hold the same if their bytes are the same, one by one. *)
LEMMA SameContents ==
  ASSUME NEW x, NEW s \in Seq(Byte), IsBuffer(x), ReadableBytes(x) = Len(s),
         \A i \in 1 .. Len(s) : x.at[x.readerIndex + i - 1] = s[i]
  PROVE  Contents(x) = s
<1>1. Contents(x) \in Seq(Byte) /\ Len(Contents(x)) = Len(s)
  BY ContentsType
<1>2. \A i \in 1 .. Len(Contents(x)) : Contents(x)[i] = s[i]
  BY ContentsType
<1> QED  BY <1>1, <1>2, SeqEqual

(* What is copied behind the bytes of a buffer and counted as written is   *)
(* read after them.                                                        *)
LEMMA WrittenHolds ==
  ASSUME NEW x, NEW d \in Seq(Byte), IsBuffer(x), Len(d) <= WritableBytes(x)
  PROVE  /\ IsBuffer(Written(x, d))
         /\ Written(x, d).size = x.size
         /\ Written(x, d).writerIndex = x.writerIndex + Len(d)
         /\ Written(x, d).readerIndex = x.readerIndex
         /\ Contents(Written(x, d)) = Contents(x) \o d
<1> DEFINE y == Written(x, d)
           f == Copied(x.at, x.size, x.writerIndex, d)
<1> HIDE DEF f
<1>1. Len(d) \in Nat
  BY LenProperties
<1>2. y = [at |-> f, size |-> x.size, readerIndex |-> x.readerIndex,
           writerIndex |-> x.writerIndex + Len(d)]
  <2>1. x = [at |-> x.at, size |-> x.size, readerIndex |-> x.readerIndex,
             writerIndex |-> x.writerIndex]
    BY DEF IsBuffer, HasShape, Inside
  <2>2. [x EXCEPT !.at = f] = [at |-> f, size |-> x.size, readerIndex |-> x.readerIndex,
                               writerIndex |-> x.writerIndex]
    BY <2>1
  <2>3. y = [[x EXCEPT !.at = f] EXCEPT !.writerIndex = @ + Len(d)]
    BY DEF Written, HasWritten, f
  <2> QED  BY <2>2, <2>3
<1>3. y.at = f /\ y.size = x.size /\ y.readerIndex = x.readerIndex
      /\ y.writerIndex = x.writerIndex + Len(d)
  BY <1>2
<1>4. /\ f \in Array(x.size)
      /\ \A i \in 0 .. x.size - 1 :
           f[i] = IF i \in x.writerIndex .. x.writerIndex + Len(d) - 1
                  THEN d[i - x.writerIndex + 1] ELSE x.at[i]
  BY CopiedType DEF IsBuffer, HasShape, Inside, f
<1>5. IsBuffer(y)
  <2>1. y = [at |-> y.at, size |-> y.size, readerIndex |-> y.readerIndex,
             writerIndex |-> y.writerIndex]
    BY <1>2
  <2>2. /\ y.size \in Nat /\ y.at \in Array(y.size) /\ y.readerIndex \in Nat
        /\ y.writerIndex \in Nat /\ y.readerIndex <= y.writerIndex
        /\ y.writerIndex <= y.size
    BY <1>1, <1>3, <1>4 DEF IsBuffer, HasShape, Inside, WritableBytes
  <2> HIDE DEF y
  <2> QED  BY <2>1, <2>2 DEF IsBuffer, HasShape, Inside
<1>6. Contents(y) = Contents(x) \o d
  <2> DEFINE s == Contents(x) \o d
             m == ReadableBytes(x)
  <2>1. /\ m \in Nat /\ Contents(x) \in Seq(Byte) /\ Len(Contents(x)) = m
        /\ \A i \in 1 .. m : Contents(x)[i] = x.at[x.readerIndex + i - 1]
    BY ContentsType
  <2>2. /\ s \in Seq(Byte) /\ Len(s) = m + Len(d)
        /\ \A i \in 1 .. m + Len(d) : s[i] = IF i <= m THEN Contents(x)[i] ELSE d[i - m]
    <3>1. /\ s \in Seq(Byte) /\ Len(s) = Len(Contents(x)) + Len(d)
          /\ \A i \in 1 .. Len(Contents(x)) + Len(d) :
               s[i] = IF i <= Len(Contents(x)) THEN Contents(x)[i]
                                               ELSE d[i - Len(Contents(x))]
      <4> HIDE DEF m
      <4> QED  BY <2>1, ConcatProperties, Zenon
    <3> QED  BY <2>1, <3>1
  <2>3. ReadableBytes(y) = Len(s)
    BY <1>1, <1>3, <2>2 DEF ReadableBytes, IsBuffer, HasShape, Inside
  <2>4. ASSUME NEW i \in 1 .. Len(s)
        PROVE  y.at[y.readerIndex + i - 1] = s[i]
    <3> DEFINE j == x.readerIndex + i - 1
    <3>1. /\ j \in 0 .. x.size - 1
          /\ j \in x.writerIndex .. x.writerIndex + Len(d) - 1 <=> i > m
          /\ j - x.writerIndex + 1 = i - m
      BY <1>1, <2>2 DEF IsBuffer, HasShape, Inside, ReadableBytes, WritableBytes
    <3>2. CASE i > m
      <4>1. f[j] = d[i - m]
        BY <1>4, <3>1, <3>2
      <4>2. s[i] = d[i - m]
        BY <1>1, <2>1, <2>2, <3>2
      <4> QED  BY <1>3, <4>1, <4>2
    <3>3. CASE i <= m
      <4>1. f[j] = x.at[j]
        BY <1>4, <3>1, <3>3, <2>1
      <4>2. s[i] = x.at[j]
        BY <1>1, <2>1, <2>2, <3>3
      <4> QED  BY <1>3, <4>1, <4>2
    <3> QED  BY <2>1, <3>2, <3>3
  <2> HIDE DEF s, y
  <2>5. Contents(y) = s
    BY <1>5, <2>2, <2>3, <2>4, SameContents
  <2> QED  BY <2>5 DEF s
<1> HIDE DEF y
<1> QED  BY <1>3, <1>5, <1>6 DEF y

(* Two buffers that hold the same bytes have the same contents. *)
LEMMA SameBytes ==
  ASSUME NEW x, NEW y, IsBuffer(x), IsBuffer(y), ReadableBytes(y) = ReadableBytes(x),
         \A i \in 1 .. ReadableBytes(x) :
           y.at[y.readerIndex + i - 1] = x.at[x.readerIndex + i - 1]
  PROVE  Contents(y) = Contents(x)
<1> DEFINE s == Contents(x)
<1>1. /\ s \in Seq(Byte) /\ Len(s) = ReadableBytes(x)
      /\ \A i \in 1 .. Len(s) : y.at[y.readerIndex + i - 1] = s[i]
  BY ContentsType
<1> HIDE DEF s
<1>2. Contents(y) = s
  BY <1>1, SameContents
<1> QED  BY <1>2 DEF s

(* A larger array holds what the smaller one held. *)
LEMMA ResizedHolds ==
  ASSUME NEW x, NEW n \in Nat, IsBuffer(x), x.size <= n
  PROVE  /\ IsBuffer(Resized(x, n))
         /\ Resized(x, n).size = n
         /\ Resized(x, n).readerIndex = x.readerIndex
         /\ Resized(x, n).writerIndex = x.writerIndex
         /\ Contents(Resized(x, n)) = Contents(x)
<1> DEFINE y == Resized(x, n)
           f == [i \in 0 .. n - 1 |-> IF i < x.size THEN x.at[i] ELSE Zero]
<1>1. y = [at |-> f, size |-> n, readerIndex |-> x.readerIndex,
           writerIndex |-> x.writerIndex]
  <2> HIDE DEF f
  <2>1. x = [at |-> x.at, size |-> x.size, readerIndex |-> x.readerIndex,
             writerIndex |-> x.writerIndex]
    BY DEF IsBuffer, HasShape, Inside
  <2>2. y = [x EXCEPT !.at = f, !.size = n]
    BY DEF Resized, f
  <2> QED  BY <2>1, <2>2
<1>2. /\ f \in Array(n)
      /\ \A i \in 0 .. x.size - 1 : f[i] = x.at[i]
  BY BufferAssumption DEF IsBuffer, HasShape, Inside, Array
<1> HIDE DEF f
<1>3. y.at = f /\ y.size = n /\ y.readerIndex = x.readerIndex
      /\ y.writerIndex = x.writerIndex
      /\ y = [at |-> y.at, size |-> y.size, readerIndex |-> y.readerIndex,
              writerIndex |-> y.writerIndex]
  BY <1>1
<1> HIDE DEF y
<1>4. IsBuffer(y)
  BY <1>2, <1>3 DEF IsBuffer, HasShape, Inside
<1>5. ReadableBytes(y) = ReadableBytes(x)
  BY <1>3 DEF ReadableBytes
<1>6. ASSUME NEW i \in 1 .. ReadableBytes(x)
      PROVE  y.at[y.readerIndex + i - 1] = x.at[x.readerIndex + i - 1]
  <2>1. x.readerIndex + i - 1 \in 0 .. x.size - 1
    BY DEF IsBuffer, HasShape, Inside, ReadableBytes
  <2> QED  BY <1>2, <1>3, <2>1
<1>7. Contents(y) = Contents(x)
  BY <1>4, <1>5, <1>6, SameBytes
<1> QED  BY <1>3, <1>4, <1>7 DEF y

(* What std::copy has put into an array is there.                          *)
LEMMA CopiedBytes ==
  ASSUME NEW n \in Nat, NEW f \in Array(n), NEW k \in Nat, NEW x, IsBuffer(x)
  PROVE  LET g == Copied(f, n, k, Contents(x))
         IN  /\ g \in Array(n)
             /\ \A i \in 0 .. n - 1 :
                  i \in k .. k + ReadableBytes(x) - 1 => g[i] = Contents(x)[i - k + 1]
<1> DEFINE d == Contents(x)
<1>1. d \in Seq(Byte) /\ Len(d) = ReadableBytes(x)
  BY ContentsType
<1> HIDE DEF d
<1>2. Copied(f, n, k, d) \in Array(n)
  BY <1>1, CopiedType
<1>3. ASSUME NEW i \in 0 .. n - 1, i \in k .. k + Len(d) - 1
      PROVE  Copied(f, n, k, d)[i] = d[i - k + 1]
  BY <1>3 DEF Copied
<1> QED  BY <1>1, <1>2, <1>3 DEF d

(* Bytes that are copied to a new place, with both indexes, are the same   *)
(* bytes: this is makeSpace, and shrink, whose array is a new one.         *)
LEMMA CopyHolds ==
  ASSUME NEW x, IsBuffer(x), NEW y, NEW n \in Nat, NEW f \in Array(n), NEW k \in Nat,
         k + ReadableBytes(x) <= n,
         y = [at |-> Copied(f, n, k, Contents(x)), size |-> n, readerIndex |-> k,
              writerIndex |-> k + ReadableBytes(x)]
  PROVE  IsBuffer(y) /\ Contents(y) = Contents(x)
<1> DEFINE g == Copied(f, n, k, Contents(x))
           m == ReadableBytes(x)
<1>1. /\ m \in Nat /\ Contents(x) \in Seq(Byte) /\ Len(Contents(x)) = m
      /\ \A i \in 1 .. m : Contents(x)[i] = x.at[x.readerIndex + i - 1]
  BY ContentsType
<1>2. /\ g \in Array(n)
      /\ \A i \in 0 .. n - 1 : i \in k .. k + m - 1 => g[i] = Contents(x)[i - k + 1]
  BY CopiedBytes
<1> HIDE DEF g
<1>3. y.at = g /\ y.size = n /\ y.readerIndex = k /\ y.writerIndex = k + m
      /\ y = [at |-> y.at, size |-> y.size, readerIndex |-> y.readerIndex,
              writerIndex |-> y.writerIndex]
  BY DEF g
<1> HIDE DEF m
<1>4. IsBuffer(y)
  BY <1>1, <1>2, <1>3 DEF IsBuffer, HasShape, Inside, m
<1>5. ReadableBytes(y) = m
  BY <1>1, <1>3 DEF ReadableBytes
<1>6. ASSUME NEW i \in 1 .. m
      PROVE  y.at[y.readerIndex + i - 1] = x.at[x.readerIndex + i - 1]
  <2>1. /\ k + i - 1 \in 0 .. n - 1
        /\ k + i - 1 \in k .. k + m - 1
        /\ (k + i - 1) - k + 1 = i
    BY <1>1 DEF m
  <2>2. g[k + i - 1] = Contents(x)[i]
    BY <1>2, <2>1
  <2> QED  BY <1>1, <1>3, <2>2
<1> QED  BY <1>4, <1>5, <1>6, SameBytes DEF m

(* makeSpace makes the space that is asked for and loses nothing; it makes *)
(* the array larger only if what was retrieved leaves too little room.     *)
LEMMA MadeSpaceHolds ==
  ASSUME NEW x, NEW len \in Nat, IsBuffer(x), WritableBytes(x) < len
  PROVE  LET y == MadeSpace(x, len)
         IN  /\ IsBuffer(y)
             /\ Contents(y) = Contents(x)
             /\ ReadableBytes(y) = ReadableBytes(x)
             /\ len <= WritableBytes(y)
             /\ y.readerIndex # x.readerIndex => kCheapPrepend < x.readerIndex
             /\ x.size <= y.size
             /\ \/ y.size = x.size
                \/ y.size <= kCheapPrepend + ReadableBytes(x) + 2 * len
<1> DEFINE y == MadeSpace(x, len)
<1>1. CASE TooSmall(x, len)
  <2> DEFINE n == x.writerIndex + len
  <2>1. n \in Nat /\ x.size <= n
    BY DEF IsBuffer, HasShape, Inside, WritableBytes
  <2>2. y = Resized(x, n)
    BY <1>1 DEF MadeSpace
  <2>3. n <= kCheapPrepend + ReadableBytes(x) + 2 * len
    BY <1>1, BufferAssumption
    DEF TooSmall, IsBuffer, HasShape, Inside, WritableBytes, PrependableBytes, ReadableBytes
  <2> HIDE DEF n, y
  <2>4. /\ IsBuffer(y) /\ y.size = n /\ y.readerIndex = x.readerIndex
        /\ y.writerIndex = x.writerIndex /\ Contents(y) = Contents(x)
    BY <2>1, <2>2, ResizedHolds
  <2>5. ReadableBytes(y) = ReadableBytes(x) /\ len <= WritableBytes(y)
    BY <2>4 DEF ReadableBytes, WritableBytes, IsBuffer, HasShape, Inside, n
  <2> QED  BY <2>1, <2>3, <2>4, <2>5 DEF y
<1>2. CASE ~TooSmall(x, len)
  <2>1. /\ kCheapPrepend \in Nat
        /\ kCheapPrepend < x.readerIndex
        /\ kCheapPrepend + ReadableBytes(x) + len <= x.size
    BY <1>2, BufferAssumption
    DEF TooSmall, IsBuffer, HasShape, Inside, WritableBytes, PrependableBytes, ReadableBytes
  <2> DEFINE f == Copied(x.at, x.size, kCheapPrepend, Contents(x))
             w == kCheapPrepend + ReadableBytes(x)
  <2>2. y = [at |-> f, size |-> x.size, readerIndex |-> kCheapPrepend, writerIndex |-> w]
    <3> HIDE DEF f, w
    <3>1. x = [at |-> x.at, size |-> x.size, readerIndex |-> x.readerIndex,
               writerIndex |-> x.writerIndex]
      BY DEF IsBuffer, HasShape, Inside
    <3>2. y = [x EXCEPT !.at = f, !.readerIndex = kCheapPrepend, !.writerIndex = w]
      BY <1>2 DEF MadeSpace, MovedToFront, f, w
    <3> QED  BY <3>1, <3>2
  <2>3. /\ x.size \in Nat /\ x.at \in Array(x.size) /\ ReadableBytes(x) \in Nat
        /\ kCheapPrepend + ReadableBytes(x) <= x.size
    BY <2>1 DEF IsBuffer, HasShape, Inside, ReadableBytes
  <2> HIDE DEF y
  <2>4. IsBuffer(y) /\ Contents(y) = Contents(x)
    BY <2>1, <2>2, <2>3, CopyHolds
  <2> HIDE DEF f
  <2>5. /\ y.size = x.size /\ x.size <= y.size
        /\ ReadableBytes(y) = ReadableBytes(x) /\ len <= WritableBytes(y)
    BY <2>1, <2>2, <2>3 DEF ReadableBytes, WritableBytes, IsBuffer, HasShape, Inside
  <2> QED  BY <2>1, <2>4, <2>5 DEF y
<1> QED  BY <1>1, <1>2

(* The same of ensureWritableBytes, that calls it if there is a need. *)
LEMMA EnsuredHolds ==
  ASSUME NEW x, NEW len \in Nat, IsBuffer(x)
  PROVE  LET y == EnsuredWritable(x, len)
         IN  /\ IsBuffer(y)
             /\ Contents(y) = Contents(x)
             /\ ReadableBytes(y) = ReadableBytes(x)
             /\ len <= WritableBytes(y)
             /\ y.readerIndex # x.readerIndex => kCheapPrepend < x.readerIndex
             /\ x.size <= y.size
             /\ \/ y.size = x.size
                \/ y.size <= kCheapPrepend + ReadableBytes(x) + 2 * len
<1>1. CASE WritableBytes(x) < len
  BY <1>1, MadeSpaceHolds DEF EnsuredWritable
<1>2. CASE ~(WritableBytes(x) < len)
  <2>1. WritableBytes(x) \in Nat /\ x.size <= x.size
    BY DEF IsBuffer, HasShape, Inside, WritableBytes
  <2> QED  BY <1>2, <2>1 DEF EnsuredWritable
<1> QED  BY <1>1, <1>2

(* append adds d to the contents. *)
LEMMA AppendedHolds ==
  ASSUME NEW x, NEW d \in Seq(Byte), IsBuffer(x)
  PROVE  LET y == Appended(x, d)
         IN  /\ IsBuffer(y)
             /\ Contents(y) = Contents(x) \o d
             /\ ReadableBytes(y) = ReadableBytes(x) + Len(d)
             /\ x.size <= y.size
             /\ y.size = x.size \/ y.size <= kCheapPrepend + 2 * ReadableBytes(y)
<1> DEFINE z == EnsuredWritable(x, Len(d))
           y == Written(z, d)
<1>1. Len(d) \in Nat /\ ReadableBytes(x) \in Nat
  BY LenProperties, ContentsType
<1>2. /\ IsBuffer(z)
      /\ Contents(z) = Contents(x)
      /\ ReadableBytes(z) = ReadableBytes(x)
      /\ Len(d) <= WritableBytes(z)
      /\ x.size <= z.size
      /\ z.size = x.size \/ z.size <= kCheapPrepend + ReadableBytes(x) + 2 * Len(d)
  BY <1>1, EnsuredHolds
<1> HIDE DEF z
<1>3. /\ IsBuffer(y) /\ y.size = z.size /\ y.writerIndex = z.writerIndex + Len(d)
      /\ y.readerIndex = z.readerIndex /\ Contents(y) = Contents(z) \o d
  BY <1>2, WrittenHolds
<1> HIDE DEF y
<1>4. ReadableBytes(y) = ReadableBytes(x) + Len(d)
  BY <1>1, <1>2, <1>3 DEF ReadableBytes, IsBuffer, HasShape, Inside
<1>5. y.size = x.size \/ y.size <= kCheapPrepend + 2 * ReadableBytes(y)
  <2>1. z.size \in Nat
    BY <1>2 DEF IsBuffer, HasShape, Inside
  <2> QED  BY <1>1, <1>2, <1>3, <1>4, <2>1, BufferAssumption
<1> QED  BY <1>2, <1>3, <1>4, <1>5 DEF y, z, Appended

(* readFd adds to the contents all that readv took, whichever of the two   *)
(* places it was stored in.                                                *)
LEMMA ReceivedHolds ==
  ASSUME NEW x, NEW s \in Seq(Byte), IsBuffer(x)
  PROVE  LET y == Received(x, s)
         IN  /\ IsBuffer(y)
             /\ Contents(y) = Contents(x) \o s
             /\ x.size <= y.size
             /\ y.size = x.size \/ y.size <= kCheapPrepend + 2 * ReadableBytes(y)
<1> DEFINE w == WritableBytes(x)
<1>1. w \in Nat /\ Len(s) \in Nat
  BY LenProperties DEF IsBuffer, HasShape, Inside, WritableBytes
<1>2. CASE Len(s) <= w
  <2>1. Received(x, s) = Written(x, s)
    BY <1>2 DEF Received
  <2>2. x.size <= x.size
    BY DEF IsBuffer, HasShape, Inside
  <2> QED  BY <1>2, <2>1, <2>2, WrittenHolds
<1>3. CASE w < Len(s)
  <2> DEFINE s1 == SubSeq(s, 1, w)
             s2 == SubSeq(s, w + 1, Len(s))
             z  == Written(x, s1)
             y  == Appended(z, s2)
  <2>1. /\ s1 \in Seq(Byte) /\ Len(s1) = w /\ s2 \in Seq(Byte)
        /\ s = s1 \o s2
    <3>1. s1 \in Seq(Byte) /\ Len(s1) = w /\ s2 \in Seq(Byte)
      BY <1>1, <1>3, SubSeqProperties
    <3>2. s1 \o s2 = SubSeq(s, 1, Len(s))
      BY <1>1, <1>3, ConcatAdjacentSubSeq
    <3>3. SubSeq(s, 1, Len(s)) = s
      BY SubSeqFull
    <3> QED  BY <3>1, <3>2, <3>3
  <2>2. Received(x, s) = y
    BY <1>1, <1>3 DEF Received
  <2> HIDE DEF s1, s2
  <2>3. IsBuffer(z) /\ z.size = x.size /\ Contents(z) = Contents(x) \o s1
    BY <1>1, <2>1, WrittenHolds
  <2> HIDE DEF z
  <2>4. /\ IsBuffer(y) /\ Contents(y) = Contents(z) \o s2
        /\ z.size <= y.size
        /\ y.size = z.size \/ y.size <= kCheapPrepend + 2 * ReadableBytes(y)
    BY <2>1, <2>3, AppendedHolds
  <2>5. (Contents(x) \o s1) \o s2 = Contents(x) \o s
    BY <2>1, ContentsType, ConcatAssociative
  <2> HIDE DEF y
  <2> QED  BY <2>2, <2>3, <2>4, <2>5
<1> QED  BY <1>1, <1>2, <1>3

(* prepend puts d in front of the contents. *)
LEMMA PrependedHolds ==
  ASSUME NEW x, NEW d \in Seq(Byte), IsBuffer(x), Len(d) <= PrependableBytes(x)
  PROVE  LET y == Prepended(x, d)
         IN  /\ IsBuffer(y)
             /\ y.size = x.size
             /\ Contents(y) = d \o Contents(x)
<1> DEFINE k == x.readerIndex - Len(d)
           f == Copied(x.at, x.size, k, d)
           y == Prepended(x, d)
           m == ReadableBytes(x)
<1>1. Len(d) \in Nat /\ k \in Nat /\ k + Len(d) = x.readerIndex
  BY LenProperties DEF IsBuffer, HasShape, Inside, PrependableBytes
<1>2. y = [at |-> f, size |-> x.size, readerIndex |-> k, writerIndex |-> x.writerIndex]
  <2> HIDE DEF f, k
  <2>1. x = [at |-> x.at, size |-> x.size, readerIndex |-> x.readerIndex,
             writerIndex |-> x.writerIndex]
    BY DEF IsBuffer, HasShape, Inside
  <2>2. y = [x EXCEPT !.readerIndex = k, !.at = f]
    BY DEF Prepended, f, k
  <2> QED  BY <2>1, <2>2
<1>3. /\ f \in Array(x.size)
      /\ \A i \in 0 .. x.size - 1 :
           f[i] = IF i \in k .. k + Len(d) - 1 THEN d[i - k + 1] ELSE x.at[i]
  <2> HIDE DEF k
  <2> DEFINE n == x.size
             a == x.at
  <2>1. n \in Nat /\ a \in Array(n)
    BY DEF IsBuffer, HasShape, Inside
  <2> HIDE DEF n, a
  <2>2. /\ Copied(a, n, k, d) \in Array(n)
        /\ \A i \in 0 .. n - 1 :
             Copied(a, n, k, d)[i] = IF i \in k .. k + Len(d) - 1 THEN d[i - k + 1] ELSE a[i]
    BY <1>1, <2>1, CopiedType
  <2> QED  BY <2>2 DEF n, a
<1> HIDE DEF f
<1>4. /\ y.at = f /\ y.size = x.size /\ y.readerIndex = k /\ y.writerIndex = x.writerIndex
      /\ y = [at |-> y.at, size |-> y.size, readerIndex |-> y.readerIndex,
              writerIndex |-> y.writerIndex]
  BY <1>2
<1> HIDE DEF y, k
<1>5. IsBuffer(y)
  <2>1. k <= x.writerIndex
    BY <1>1 DEF IsBuffer, HasShape, Inside
  <2> QED  BY <1>1, <1>3, <1>4, <2>1 DEF IsBuffer, HasShape, Inside
<1>6. /\ m \in Nat /\ Contents(x) \in Seq(Byte) /\ Len(Contents(x)) = m
      /\ \A i \in 1 .. m : Contents(x)[i] = x.at[x.readerIndex + i - 1]
  BY ContentsType
<1>7. Contents(y) = d \o Contents(x)
  <2> DEFINE s == d \o Contents(x)
  <2>1. /\ s \in Seq(Byte) /\ Len(s) = Len(d) + m
        /\ \A i \in 1 .. Len(d) + m :
             s[i] = IF i <= Len(d) THEN d[i] ELSE Contents(x)[i - Len(d)]
    <3>1. /\ s \in Seq(Byte) /\ Len(s) = Len(d) + Len(Contents(x))
          /\ \A i \in 1 .. Len(d) + Len(Contents(x)) :
               s[i] = IF i <= Len(d) THEN d[i] ELSE Contents(x)[i - Len(d)]
      BY <1>6, ConcatProperties, Zenon
    <3> HIDE DEF s, m
    <3> QED  BY <1>6, <3>1
  <2> HIDE DEF s
  <2>2. ReadableBytes(y) = Len(s)
    <3>1. x.readerIndex \in Nat /\ x.writerIndex \in Nat
      BY DEF IsBuffer, HasShape, Inside
    <3> QED  BY <1>1, <1>4, <2>1, <3>1 DEF ReadableBytes
  <2>3. ASSUME NEW i \in 1 .. Len(s)
        PROVE  y.at[y.readerIndex + i - 1] = s[i]
    <3> DEFINE j == k + i - 1
    <3>1. j \in 0 .. x.size - 1
      <4>1. /\ x.readerIndex \in Nat /\ x.writerIndex \in Nat /\ x.size \in Nat
            /\ x.writerIndex <= x.size
        BY DEF IsBuffer, HasShape, Inside
      <4> QED  BY <1>1, <2>1, <4>1 DEF ReadableBytes
    <3>2. CASE i <= Len(d)
      <4>1. j \in k .. k + Len(d) - 1 /\ j - k + 1 = i
        BY <1>1, <1>6, <2>1, <3>2
      <4>2. f[j] = d[i]
        BY <1>3, <3>1, <4>1
      <4>3. s[i] = d[i]
        BY <1>1, <1>6, <2>1, <3>2
      <4> QED  BY <1>4, <4>2, <4>3
    <3>3. CASE Len(d) < i
      <4>1. j \notin k .. k + Len(d) - 1 /\ j = x.readerIndex + (i - Len(d)) - 1
            /\ i - Len(d) \in 1 .. m
        <5> HIDE DEF m
        <5> QED  BY <1>1, <1>6, <2>1, <3>3
      <4>2. f[j] = x.at[j]
        BY <1>3, <3>1, <4>1
      <4>3. s[i] = Contents(x)[i - Len(d)]
        <5> HIDE DEF m
        <5> QED  BY <1>1, <1>6, <2>1, <3>3
      <4>4. Contents(x)[i - Len(d)] = x.at[j]
        <5> HIDE DEF m, j
        <5> QED  BY <1>6, <4>1
      <4> QED  BY <1>4, <4>2, <4>3, <4>4
    <3> QED  BY <1>1, <2>1, <1>6, <3>2, <3>3
  <2>4. Contents(y) = s
    BY <1>5, <2>1, <2>2, <2>3, SameContents
  <2> QED  BY <2>4 DEF s
<1> QED  BY <1>4, <1>5, <1>7 DEF y

(* retrieve takes the first n bytes away. *)
LEMMA RetrievedHolds ==
  ASSUME NEW x, NEW n \in Nat, IsBuffer(x), n <= ReadableBytes(x)
  PROVE  LET y == [x EXCEPT !.readerIndex = @ + n]
         IN  /\ IsBuffer(y)
             /\ y.size = x.size
             /\ Contents(y) = SubSeq(Contents(x), n + 1, Len(Contents(x)))
<1> DEFINE y == [x EXCEPT !.readerIndex = @ + n]
           m == ReadableBytes(x)
           s == SubSeq(Contents(x), n + 1, Len(Contents(x)))
<1>1. /\ m \in Nat /\ n <= m /\ Contents(x) \in Seq(Byte) /\ Len(Contents(x)) = m
      /\ \A i \in 1 .. m : Contents(x)[i] = x.at[x.readerIndex + i - 1]
  BY ContentsType
<1>2. y = [at |-> x.at, size |-> x.size, readerIndex |-> x.readerIndex + n,
           writerIndex |-> x.writerIndex]
  BY DEF IsBuffer, HasShape, Inside
<1>3. /\ y.at = x.at /\ y.size = x.size /\ y.readerIndex = x.readerIndex + n
      /\ y.writerIndex = x.writerIndex
      /\ y = [at |-> y.at, size |-> y.size, readerIndex |-> y.readerIndex,
              writerIndex |-> y.writerIndex]
  BY <1>2
<1> HIDE DEF y
<1>4. /\ x.readerIndex \in Nat /\ x.writerIndex \in Nat /\ x.size \in Nat
      /\ x.readerIndex + n <= x.writerIndex /\ x.writerIndex <= x.size
      /\ x.at \in Array(x.size)
  BY DEF IsBuffer, HasShape, Inside, ReadableBytes
<1>5. IsBuffer(y)
  BY <1>3, <1>4 DEF IsBuffer, HasShape, Inside
<1>6. /\ s \in Seq(Byte) /\ Len(s) = m - n
      /\ \A i \in 1 .. m - n : s[i] = Contents(x)[n + i]
  <2> HIDE DEF m
  <2>1. \A i \in n + 1 .. Len(Contents(x)) : Contents(x)[i] \in Byte
    BY <1>1, ElementOfSeq
  <2>2. /\ s \in Seq(Byte)
        /\ Len(s) = IF n + 1 <= m THEN m - (n + 1) + 1 ELSE 0
        /\ \A i \in 1 .. m - (n + 1) + 1 : s[i] = Contents(x)[n + 1 + i - 1]
    BY <1>1, <2>1, SubSeqProperties
  <2>3. m - (n + 1) + 1 = m - n /\ n <= m
    BY <1>1 DEF m
  <2>4. \A i \in 1 .. m - n : n + 1 + i - 1 = n + i
    BY <1>1
  <2> HIDE DEF s
  <2> QED  BY <1>1, <2>2, <2>3, <2>4
<1> HIDE DEF s
<1>7. ReadableBytes(y) = Len(s)
  BY <1>3, <1>4, <1>6 DEF ReadableBytes
<1>8. ASSUME NEW i \in 1 .. Len(s)
      PROVE  y.at[y.readerIndex + i - 1] = s[i]
  <2> HIDE DEF m
  <2>1. /\ i \in 1 .. m - n
        /\ n + i \in 1 .. m
        /\ x.readerIndex + (n + i) - 1 = (x.readerIndex + n) + i - 1
    <3>1. Len(s) = m - n /\ m \in Nat /\ n <= m /\ x.readerIndex \in Nat
      BY <1>1, <1>4, <1>6
    <3>2. i \in 1 .. m - n
      BY <3>1
    <3> QED  BY <3>1, <3>2
  <2>2. Contents(x)[n + i] = x.at[(x.readerIndex + n) + i - 1]
    BY <1>1, <2>1
  <2> QED  BY <1>3, <1>6, <2>1, <2>2
<1>9. Contents(y) = s
  BY <1>5, <1>6, <1>7, <1>8, SameContents
<1> QED  BY <1>3, <1>5, <1>9 DEF y, s

(* shrink keeps the contents if nothing has been retrieved or prepended. *)
LEMMA ShrunkHolds ==
  ASSUME NEW x, NEW n \in Nat, IsBuffer(x), x.readerIndex = kCheapPrepend,
         kCheapPrepend + ReadableBytes(x) <= n
  PROVE  LET y == Shrunk(x, n)
         IN  IsBuffer(y) /\ y.size = n /\ Contents(y) = Contents(x)
<1> DEFINE y == Shrunk(x, n)
           z == Zeros(n)
           f == Copied(z, n, kCheapPrepend, Contents(x))
<1>1. z \in Array(n) /\ kCheapPrepend \in Nat
  BY BufferAssumption DEF Array, Zeros
<1>2. y = [at |-> f, size |-> n, readerIndex |-> kCheapPrepend,
           writerIndex |-> kCheapPrepend + ReadableBytes(x)]
  <2> HIDE DEF f
  <2>1. x = [at |-> x.at, size |-> x.size, readerIndex |-> x.readerIndex,
             writerIndex |-> x.writerIndex]
    BY DEF IsBuffer, HasShape, Inside
  <2>2. y = [x EXCEPT !.at = f, !.size = n]
    BY DEF Shrunk, f
  <2>3. x.writerIndex = kCheapPrepend + ReadableBytes(x)
    BY <1>1 DEF IsBuffer, HasShape, Inside, ReadableBytes
  <2> QED  BY <2>1, <2>2, <2>3
<1> HIDE DEF y, z
<1>3. IsBuffer(y) /\ Contents(y) = Contents(x)
  BY <1>1, <1>2, CopyHolds
<1>4. y.size = n
  BY <1>2
<1> QED  BY <1>3, <1>4 DEF y

(* What shrink does to the indexes is nothing, whatever they are.          *)
LEMMA ShrunkShape ==
  ASSUME NEW x, NEW n \in Nat, HasShape(x), ContentsInside(x)
  PROVE  LET y == Shrunk(x, n)
         IN  /\ HasShape(y) /\ y.size = n
             /\ y.readerIndex = x.readerIndex /\ y.writerIndex = x.writerIndex
<1> DEFINE y == Shrunk(x, n)
           z == Zeros(n)
           d == Contents(x)
           f == Copied(z, n, kCheapPrepend, d)
<1>1. z \in Array(n) /\ kCheapPrepend \in Nat
  BY BufferAssumption DEF Array, Zeros
<1>2. d \in Seq(Byte)
  <2>1. CASE Inside(x)
    BY <2>1, ContentsType DEF IsBuffer
  <2>2. CASE ReadableBytes(x) = 0
    <3>1. d \in [1 .. 0 -> Byte]
      BY <2>2 DEF Contents
    <3> QED  BY <3>1, SeqDef
  <2> QED  BY <2>1, <2>2 DEF ContentsInside
<1> HIDE DEF z, d
<1>3. f \in Array(n)
  BY <1>1, <1>2, CopiedType
<1>4. y = [x EXCEPT !.at = f, !.size = n]
  BY DEF Shrunk, f, z, d
<1> HIDE DEF f
<1>5. y = [at |-> f, size |-> n, readerIndex |-> x.readerIndex,
           writerIndex |-> x.writerIndex]
  <2>1. x = [at |-> x.at, size |-> x.size, readerIndex |-> x.readerIndex,
             writerIndex |-> x.writerIndex]
    BY DEF HasShape
  <2> QED  BY <1>4, <2>1
<1> HIDE DEF y
<1> QED  BY <1>3, <1>5 DEF HasShape, y

(* Nor does prepend do anything to the array but store the bytes.          *)
LEMMA PrependedShape ==
  ASSUME NEW x, NEW d \in Seq(Byte), HasShape(x), Len(d) <= PrependableBytes(x)
  PROVE  LET y == Prepended(x, d)
         IN  HasShape(y) /\ y.size = x.size /\ y.writerIndex = x.writerIndex
<1> DEFINE k == x.readerIndex - Len(d)
           f == Copied(x.at, x.size, k, d)
           y == Prepended(x, d)
<1>1. Len(d) \in Nat /\ k \in Nat /\ k <= x.writerIndex
  BY LenProperties DEF HasShape, PrependableBytes
<1>2. y = [x EXCEPT !.readerIndex = k, !.at = f]
  BY DEF Prepended
<1>3. f \in Array(x.size)
  BY <1>1, CopiedType DEF HasShape
<1> HIDE DEF f, k, y
<1>4. y = [at |-> f, size |-> x.size, readerIndex |-> k, writerIndex |-> x.writerIndex]
  <2>1. x = [at |-> x.at, size |-> x.size, readerIndex |-> x.readerIndex,
             writerIndex |-> x.writerIndex]
    BY DEF HasShape
  <2> QED  BY <1>2, <2>1
<1> QED  BY <1>1, <1>3, <1>4 DEF HasShape, y

-----------------------------------------------------------------------------
(* The invariant, and what each action does while the indexes are in the   *)
(* array.                                                                  *)

(* A new buffer is empty. *)
LEMMA InitIInv == Init => IInv /\ Inside(b) /\ Contents(b) = <<>>
<1> SUFFICES ASSUME Init PROVE IInv /\ Inside(b) /\ Contents(b) = <<>>
  OBVIOUS
<1> DEFINE n == kCheapPrepend + kInitialSize
           z == Zeros(n)
<1>1. n \in Nat /\ z \in Array(n) /\ kCheapPrepend \in Nat /\ kCheapPrepend <= n
  BY BufferAssumption DEF Array, Zeros
<1>2. b = [at |-> z, size |-> n, readerIndex |-> kCheapPrepend,
           writerIndex |-> kCheapPrepend]
  BY DEF Init
<1> HIDE DEF z, n
<1>3. IsBuffer(b)
  BY <1>1, <1>2 DEF IsBuffer, HasShape, Inside
<1>4. /\ kCheapPrepend <= b.size /\ b.size <= MaxSize /\ b.writerIndex <= MaxSize
      /\ incoming \in Seq(Byte) /\ overrun \in BOOLEAN
  <2>1. n <= MaxSize /\ b.size = n /\ b.writerIndex = kCheapPrepend
    BY <1>2, BufferAssumption DEF n
  <2>2. incoming \in Seq(Byte) /\ overrun \in BOOLEAN
    BY EmptySeq DEF Init
  <2> QED  BY <1>1, <2>1, <2>2, BufferAssumption
<1>5. ReadableBytes(b) = 0
  BY <1>1, <1>2 DEF ReadableBytes
<1>6. Contents(b) = <<>>
  BY <1>3, <1>5, ContentsType, EmptySeq
<1> QED  BY <1>3, <1>4, <1>6 DEF IInv, IsBuffer

(* What the invariant says of the bytes in the array. *)
LEMMA InsideIsBuffer ==
  ASSUME IInv, Inside(b)
  PROVE  IsBuffer(b)
BY DEF IInv, IsBuffer

(* A buffer whose array is not too large nor too small is in the           *)
(* invariant.                                                              *)
LEMMA BufferIInv ==
  ASSUME IsBuffer(b'), kCheapPrepend <= b'.size, b'.size <= MaxSize,
         incoming' \in Seq(Byte), overrun' = FALSE
  PROVE  IInv' /\ Inside(b') /\ Contents(b)' = Contents(b')
<1>1. HasShape(b') /\ Inside(b')
  BY DEF IsBuffer
<1>2. b'.writerIndex <= MaxSize
  BY <1>1, BufferAssumption DEF HasShape, Inside
<1> QED  BY <1>1, <1>2 DEF IInv, HasShape, Inside, Contents, ReadableBytes

(* Every action keeps the invariant and, while the indexes are in the      *)
(* array, does to the contents what the queue of bytes does.               *)
LEMMA AppendStep ==
  ASSUME IInv, Inside(b), NEW d \in Chunk, AppendBytes(d)
  PROVE  /\ IInv' /\ Inside(b') /\ ~overrun'
         /\ Contents(b)' = Contents(b) \o d
         /\ b'.size = b.size \/ b'.size <= kCheapPrepend + 2 * ReadableBytes(b')
<1>1. d \in Seq(Byte) /\ IsBuffer(b) /\ Len(d) \in Nat
  BY BufferAssumption, InsideIsBuffer, LenProperties
<1>2. HasRoom(EnsuredWritable(b, Len(d)), Len(d))
  <2> DEFINE x == EnsuredWritable(b, Len(d))
  <2>1. IsBuffer(x) /\ Len(d) <= WritableBytes(x)
    BY <1>1, EnsuredHolds
  <2> HIDE DEF x
  <2>2. HasRoom(x, Len(d))
    BY <1>1, <2>1 DEF HasRoom, WritableBytes, IsBuffer, HasShape, Inside
  <2> QED  BY <2>2 DEF x
<1>3. /\ b' = Appended(b, d) /\ b'.size <= MaxSize
      /\ incoming' = incoming /\ overrun' = FALSE
  BY <1>2 DEF AppendBytes, Becomes, IInv
<1>4. /\ IsBuffer(b') /\ Contents(b') = Contents(b) \o d
      /\ b.size <= b'.size
      /\ b'.size = b.size \/ b'.size <= kCheapPrepend + 2 * ReadableBytes(b')
  BY <1>1, <1>3, AppendedHolds
<1>5. kCheapPrepend <= b'.size
  BY <1>4, BufferAssumption DEF IInv, IsBuffer, HasShape
<1> QED  BY <1>3, <1>4, <1>5, BufferIInv DEF IInv

(* prepend, likewise. *)
LEMMA PrependStep ==
  ASSUME IInv, Inside(b), NEW d \in Chunk, Prepend(d)
  PROVE  /\ IInv' /\ Inside(b') /\ ~overrun'
         /\ Contents(b)' = d \o Contents(b) /\ b'.size = b.size
<1>1. d \in Seq(Byte) /\ IsBuffer(b)
  BY BufferAssumption, InsideIsBuffer
<1>2. b.readerIndex <= b.size
  BY <1>1 DEF IsBuffer, HasShape, Inside
<1>3. /\ b' = Prepended(b, d) /\ Len(d) <= PrependableBytes(b)
      /\ incoming' = incoming /\ overrun' = FALSE
  BY <1>2 DEF Prepend, Becomes, IInv
<1>4. IsBuffer(b') /\ b'.size = b.size /\ Contents(b') = d \o Contents(b)
  BY <1>1, <1>3, PrependedHolds
<1> QED  BY <1>3, <1>4, BufferIInv DEF IInv

(* retrieve, likewise. *)
LEMMA RetrieveStep ==
  ASSUME IInv, Inside(b), NEW n \in Nat, Retrieve(n)
  PROVE  /\ IInv' /\ Inside(b') /\ ~overrun' /\ b'.size = b.size
         /\ Contents(b)' = SubSeq(Contents(b), n + 1, Len(Contents(b)))
<1>1. /\ b' = [b EXCEPT !.readerIndex = @ + n] /\ n <= ReadableBytes(b)
      /\ incoming' = incoming /\ overrun' = FALSE
  BY DEF Retrieve, Becomes, IInv
<1>2. /\ IsBuffer(b') /\ b'.size = b.size
      /\ Contents(b') = SubSeq(Contents(b), n + 1, Len(Contents(b)))
  BY <1>1, InsideIsBuffer, RetrievedHolds
<1> QED  BY <1>1, <1>2, BufferIInv DEF IInv

(* retrieveAll brings the indexes back, wherever they were, and leaves no  *)
(* contents.                                                               *)
LEMMA ClearedStep ==
  ASSUME IInv, Becomes(Cleared(b)), UNCHANGED incoming
  PROVE  /\ IInv' /\ Inside(b') /\ ~overrun' /\ b'.size = b.size
         /\ Contents(b)' = <<>>
<1>1. /\ b = [at |-> b.at, size |-> b.size, readerIndex |-> b.readerIndex,
              writerIndex |-> b.writerIndex]
      /\ b.size \in Nat /\ b.at \in Array(b.size)
      /\ kCheapPrepend <= b.size /\ b.size <= MaxSize
  BY DEF IInv, HasShape
<1>2. b' = [at |-> b.at, size |-> b.size, readerIndex |-> kCheapPrepend,
            writerIndex |-> kCheapPrepend]
  BY <1>1 DEF Becomes, Cleared
<1>3. incoming' = incoming /\ incoming \in Seq(Byte) /\ overrun' = FALSE
  BY DEF Becomes, IInv
<1>4. IsBuffer(b') /\ ReadableBytes(b') = 0 /\ b'.size = b.size
  BY <1>1, <1>2, BufferAssumption DEF IsBuffer, HasShape, Inside, ReadableBytes
<1>5. Contents(b') = <<>>
  BY <1>4, ContentsType, EmptySeq
<1> QED  BY <1>1, <1>3, <1>4, <1>5, BufferIInv

(* retrieveAsString does the same while the indexes are in the array. *)
LEMMA AsStringStep ==
  ASSUME Inside(b), RetrieveAsString
  PROVE  Becomes(Cleared(b)) /\ UNCHANGED incoming
BY DEF RetrieveAsString, ContentsInside

(* shrink keeps the contents if it is not late. *)
LEMMA ShrinkStep ==
  ASSUME IInv, Inside(b), NEW reserve \in Reserves, Shrink(reserve),
         b.readerIndex = kCheapPrepend
  PROVE  IInv' /\ Inside(b') /\ ~overrun' /\ Contents(b)' = Contents(b)
<1> DEFINE n == kCheapPrepend + ReadableBytes(b) + reserve
<1>1. /\ n \in Nat /\ kCheapPrepend <= n /\ kCheapPrepend + ReadableBytes(b) <= n
      /\ n <= MaxSize
  BY BufferAssumption DEF IInv, HasShape, ReadableBytes, Shrink
<1>2. b' = Shrunk(b, n) /\ incoming' = incoming /\ overrun' = FALSE
  BY DEF Shrink, Becomes, ContentsInside, IInv
<1> HIDE DEF n
<1>3. IsBuffer(b') /\ b'.size = n /\ Contents(b') = Contents(b)
  BY <1>1, <1>2, InsideIsBuffer, ShrunkHolds
<1> QED  BY <1>1, <1>2, <1>3, BufferIInv DEF IInv

(* Late, it keeps the invariant, and where the indexes are in the array it *)
(* copies nothing from beyond.                                             *)
LEMMA ShrinkIInv ==
  ASSUME IInv, NEW reserve \in Reserves, Shrink(reserve)
  PROVE  IInv' /\ (Inside(b) => ~overrun')
<1> DEFINE n == kCheapPrepend + ReadableBytes(b) + reserve
<1>1. n \in Nat /\ kCheapPrepend <= n /\ n <= MaxSize
  BY BufferAssumption DEF IInv, HasShape, ReadableBytes, Shrink
<1>2. CASE ContentsInside(b)
  <2>1. b' = Shrunk(b, n) /\ incoming' = incoming /\ overrun' = FALSE
    BY <1>2 DEF Shrink, Becomes, IInv
  <2> HIDE DEF n
  <2>2. HasShape(b') /\ b'.size = n /\ b'.writerIndex = b.writerIndex
    BY <1>1, <1>2, <2>1, ShrunkShape DEF IInv
  <2> QED  BY <1>1, <2>1, <2>2 DEF IInv, HasShape
<1>3. CASE ~ContentsInside(b)
  BY <1>3 DEF Shrink, Overruns, IInv, HasShape, ContentsInside
<1> QED  BY <1>2, <1>3

(* What a peer writes waits in the descriptor. *)
LEMMA ArriveStep ==
  ASSUME IInv, NEW d \in Chunk, Arrive(d)
  PROVE  IInv' /\ b' = b /\ ~overrun'
<1>1. d \in Seq(Byte)
  BY BufferAssumption
<1>2. incoming \o d \in Seq(Byte)
  BY <1>1, ConcatProperties DEF IInv
<1> QED  BY <1>2 DEF IInv, Arrive, HasShape

(* readFd moves what readv took from the descriptor to the contents. *)
LEMMA ReadFdStep ==
  ASSUME IInv, ReadFd
  PROVE  /\ IInv' /\ Inside(b') /\ ~overrun'
         /\ \E n \in 1 .. Len(incoming) :
              /\ Contents(b)' = Contents(b) \o SubSeq(incoming, 1, n)
              /\ incoming' = SubSeq(incoming, n + 1, Len(incoming))
         /\ b'.size = b.size \/ b'.size <= kCheapPrepend + 2 * ReadableBytes(b')
<1>1. PICK n \in 1 .. Len(incoming) :
        /\ b' = Received(b, SubSeq(incoming, 1, n)) /\ b'.size <= MaxSize
        /\ incoming' = SubSeq(incoming, n + 1, Len(incoming))
        /\ overrun' = FALSE
  BY DEF ReadFd, Becomes, IInv
<1> DEFINE s == SubSeq(incoming, 1, n)
<1>2. s \in Seq(Byte) /\ incoming' \in Seq(Byte)
  <2>1. incoming \in Seq(Byte) /\ Len(incoming) \in Nat
    BY LenProperties DEF IInv
  <2>2. \A i \in 1 .. Len(incoming) : incoming[i] \in Byte
    BY <2>1, ElementOfSeq
  <2>3. s \in Seq(Byte)
    BY <2>1, <2>2, SubSeqProperties
  <2>4. SubSeq(incoming, n + 1, Len(incoming)) \in Seq(Byte)
    BY <2>1, <2>2, SubSeqProperties
  <2> QED  BY <1>1, <2>3, <2>4
<1> HIDE DEF s
<1>3. IsBuffer(b)
  BY InsideIsBuffer DEF ReadFd
<1>4. /\ IsBuffer(b') /\ Contents(b') = Contents(b) \o s
      /\ b.size <= b'.size
      /\ b'.size = b.size \/ b'.size <= kCheapPrepend + 2 * ReadableBytes(b')
  BY <1>1, <1>2, <1>3, ReceivedHolds DEF s
<1>5. kCheapPrepend <= b'.size
  BY <1>4, BufferAssumption DEF IInv, IsBuffer, HasShape
<1>6. IInv' /\ Inside(b') /\ Contents(b)' = Contents(b')
  BY <1>1, <1>2, <1>4, <1>5, BufferIInv
<1> QED  BY <1>1, <1>4, <1>6 DEF s

-----------------------------------------------------------------------------
(* Beyond the array.                                                       *)

(* There the room to write is a huge number, and nothing is appended.      *)
LEMMA AppendOutside ==
  ASSUME IInv, ~Inside(b), NEW d \in Chunk, AppendBytes(d)
  PROVE  IInv' /\ b' = b
<1>1. Len(d) \in Nat /\ Len(d) <= MaxSize
  BY BufferAssumption, LenProperties
<1>2. EnsuredWritable(b, Len(d)) = b
  BY <1>1, BufferAssumption DEF EnsuredWritable, WritableBytes, Inside, IInv, HasShape
<1>3. ~HasRoom(b, Len(d))
  BY <1>1 DEF HasRoom, Inside, IInv, HasShape
<1> QED  BY <1>2, <1>3 DEF AppendBytes, Overruns, IInv, HasShape

(* prepend and retrieve move readerIndex only. *)
LEMMA PrependOutside ==
  ASSUME IInv, NEW d \in Chunk, Prepend(d)
  PROVE  IInv' /\ b'.size = b.size
<1>1. d \in Seq(Byte)
  BY BufferAssumption
<1>2. CASE b.readerIndex <= b.size
  <2>1. /\ b' = Prepended(b, d) /\ Len(d) <= PrependableBytes(b)
        /\ UNCHANGED <<incoming, overrun>>
    BY <1>2 DEF Prepend, Becomes
  <2>2. HasShape(b') /\ b'.size = b.size /\ b'.writerIndex = b.writerIndex
    BY <1>1, <2>1, PrependedShape DEF IInv
  <2> QED  BY <2>1, <2>2 DEF IInv, HasShape
<1>3. CASE ~(b.readerIndex <= b.size)
  BY <1>3 DEF Prepend, Overruns, IInv, HasShape
<1> QED  BY <1>2, <1>3

LEMMA RetrieveOutside ==
  ASSUME IInv, NEW n \in Nat, Retrieve(n)
  PROVE  IInv' /\ b'.size = b.size
<1>1. /\ b = [at |-> b.at, size |-> b.size, readerIndex |-> b.readerIndex,
              writerIndex |-> b.writerIndex]
      /\ b.readerIndex \in Nat /\ b.writerIndex \in Nat
  BY DEF IInv, HasShape
<1>2. b' = [at |-> b.at, size |-> b.size, readerIndex |-> b.readerIndex + n,
            writerIndex |-> b.writerIndex]
  BY <1>1 DEF Retrieve, Becomes
<1>3. n <= b.writerIndex - b.readerIndex
  BY DEF Retrieve, ReadableBytes
<1> QED  BY <1>1, <1>2, <1>3 DEF IInv, HasShape, Retrieve, Becomes

(* retrieveAsString ends the program or clears the buffer. *)
LEMMA AsStringIInv ==
  ASSUME IInv, RetrieveAsString
  PROVE  IInv' /\ b'.size = b.size
<1>1. CASE ContentsInside(b)
  BY <1>1, ClearedStep DEF RetrieveAsString
<1>2. CASE ~ContentsInside(b)
  BY <1>2 DEF RetrieveAsString, Overruns, IInv, HasShape
<1> QED  BY <1>1, <1>2

(* The invariant is inductive. *)
LEMMA NextIInv == IInv /\ [Next]_vars => IInv'
<1> SUFFICES ASSUME IInv, [Next]_vars PROVE IInv'
  OBVIOUS
<1>1. ASSUME NEW d \in Chunk, AppendBytes(d) PROVE IInv'
  BY <1>1, AppendStep, AppendOutside
<1>2. ASSUME NEW d \in Chunk, Prepend(d) PROVE IInv'
  BY <1>2, PrependOutside
<1>3. ASSUME NEW d \in Chunk, Arrive(d) PROVE IInv'
  BY <1>3, ArriveStep
<1>4. ASSUME NEW len \in 0 .. MaxSize, Retrieve(len) PROVE IInv'
  BY <1>4, RetrieveOutside
<1>5. CASE RetrieveAll
  BY <1>5, ClearedStep DEF RetrieveAll
<1>6. CASE RetrieveAsString
  BY <1>6, AsStringIInv
<1>7. ASSUME NEW reserve \in Reserves, Shrink(reserve) PROVE IInv'
  BY <1>7, ShrinkIInv
<1>8. CASE ReadFd
  BY <1>8, ReadFdStep
<1>9. CASE UNCHANGED vars
  BY <1>9 DEF vars, IInv, HasShape
<1> QED  BY <1>1, <1>2, <1>3, <1>4, <1>5, <1>6, <1>7, <1>8, <1>9 DEF Next

(* The invariant holds in every state. *)
THEOREM Invariance == Spec => []IInv
<1>1. Init => IInv
  BY InitIInv
<1> QED  BY <1>1, NextIInv, PTL DEF Spec

-----------------------------------------------------------------------------
(* The properties.                                                         *)

(* The reader never passes the writer, also after a late shrink: what      *)
(* readableBytes computes (Buffer.h:41-44) is a number of bytes.           *)
THEOREM TypeCorrect == Spec => []TypeOK
<1>1. IInv => TypeOK
  BY BufferAssumption DEF IInv, HasShape, TypeOK
<1> QED  BY <1>1, Invariance, PTL

(* While the indexes are in the array, the assertions of                   *)
(* ensureWritableBytes and makeSpace hold for whatever length is asked for *)
(* (Buffer.h:113, 172, 179).                                               *)
THEOREM SpaceAlwaysMade == Spec => []SpaceIsMade
<1>1. IInv => SpaceIsMade
  <2> SUFFICES ASSUME IInv, Inside(b), NEW len \in 1 .. MaxSize
               PROVE  LET x == EnsuredWritable(b, len)
                      IN  /\ HasRoom(x, len)
                          /\ Contents(x) = Contents(b)
                          /\ x.readerIndex # b.readerIndex => kCheapPrepend < b.readerIndex
    BY DEF SpaceIsMade
  <2> DEFINE x == EnsuredWritable(b, len)
  <2>1. /\ len \in Nat /\ IsBuffer(x) /\ Contents(x) = Contents(b)
        /\ len <= WritableBytes(x)
        /\ x.readerIndex # b.readerIndex => kCheapPrepend < b.readerIndex
    BY EnsuredHolds, InsideIsBuffer
  <2> HIDE DEF x
  <2>2. HasRoom(x, len)
    BY <2>1 DEF HasRoom, WritableBytes, IsBuffer, HasShape, Inside
  <2> QED  BY <2>1, <2>2 DEF x
<1> QED  BY <1>1, Invariance, PTL

(* What a step that is not a late shrink does while the indexes are in the *)
(* array: they stay there, and nothing beyond is touched.                  *)
LEMMA StaysInside ==
  ASSUME IInv, Inside(b), Next, ~ShrinksLate
  PROVE  Inside(b') /\ ~overrun'
<1>1. ASSUME NEW d \in Chunk, AppendBytes(d) PROVE Inside(b') /\ ~overrun'
  BY <1>1, AppendStep
<1>2. ASSUME NEW d \in Chunk, Prepend(d) PROVE Inside(b') /\ ~overrun'
  BY <1>2, PrependStep
<1>3. ASSUME NEW d \in Chunk, Arrive(d) PROVE Inside(b') /\ ~overrun'
  BY <1>3, ArriveStep
<1>4. ASSUME NEW len \in 0 .. MaxSize, Retrieve(len) PROVE Inside(b') /\ ~overrun'
  BY <1>4, RetrieveStep
<1>5. CASE RetrieveAll
  BY <1>5, ClearedStep DEF RetrieveAll
<1>6. CASE RetrieveAsString
  BY <1>6, AsStringStep, ClearedStep
<1>7. ASSUME NEW reserve \in Reserves, Shrink(reserve) PROVE Inside(b') /\ ~overrun'
  BY <1>7, ShrinkStep DEF ShrinksLate
<1>8. CASE ReadFd
  BY <1>8, ReadFdStep
<1> QED  BY <1>1, <1>2, <1>3, <1>4, <1>5, <1>6, <1>7, <1>8 DEF Next

(* Only a late shrink puts an index outside of the array, and nothing      *)
(* outside of it is read or written before (Buffer.h:139-144).             *)
THEOREM OnlyShrinkLeaves == Spec => LeavesOnlyByShrink
<1> DEFINE A == Inside(b) => ~overrun' /\ (Inside(b') \/ ShrinksLate)
<1>1. IInv /\ [Next]_vars => [A]_vars
  <2> SUFFICES ASSUME IInv, Next, Inside(b)
               PROVE  ~overrun' /\ (Inside(b') \/ ShrinksLate)
    OBVIOUS
  <2>1. CASE ShrinksLate
    <3>1. PICK reserve \in Reserves : Shrink(reserve)
      BY <2>1 DEF ShrinksLate
    <3> QED  BY <2>1, <3>1, ShrinkIInv
  <2>2. CASE ~ShrinksLate
    BY <2>2, StaysInside
  <2> QED  BY <2>1, <2>2
<1> QED  BY <1>1, Invariance, PTL DEF Spec, LeavesOnlyByShrink

(* The array grows only as far as its contents need (Buffer.h:165). *)
THEOREM GrowsAsNeeded == Spec => GrowsByNeed
<1> DEFINE Needed == b'.size > b.size
                       => \/ b'.size <= kCheapPrepend + 2 * ReadableBytes(b')
                          \/ \E reserve \in Reserves : Shrink(reserve)
<1>1. IInv /\ [Next]_vars => [Needed]_vars
  <2> SUFFICES ASSUME IInv, Next, b'.size > b.size,
                      ~ \E reserve \in Reserves : Shrink(reserve)
               PROVE  b'.size <= kCheapPrepend + 2 * ReadableBytes(b')
    OBVIOUS
  <2>1. b.size \in Nat /\ b'.size # b.size
    BY DEF IInv, HasShape
  <2>2. ASSUME NEW d \in Chunk, AppendBytes(d)
        PROVE  b'.size <= kCheapPrepend + 2 * ReadableBytes(b')
    BY <2>1, <2>2, AppendStep, AppendOutside
  <2>3. ASSUME NEW d \in Chunk, Prepend(d) PROVE FALSE
    BY <2>1, <2>3, PrependOutside
  <2>4. ASSUME NEW d \in Chunk, Arrive(d) PROVE FALSE
    BY <2>1, <2>4, ArriveStep
  <2>5. ASSUME NEW len \in 0 .. MaxSize, Retrieve(len) PROVE FALSE
    BY <2>1, <2>5, RetrieveOutside
  <2>6. ~ RetrieveAll /\ ~ RetrieveAsString
    BY <2>1, ClearedStep, AsStringIInv DEF RetrieveAll
  <2>7. CASE ReadFd
    BY <2>1, <2>7, ReadFdStep
  <2> QED  BY <2>2, <2>3, <2>4, <2>5, <2>6, <2>7 DEF Next
<1> QED  BY <1>1, Invariance, PTL DEF Spec, GrowsByNeed

(* Every other step of the buffer is a step of the queue of bytes, or      *)
(* none.                                                                   *)
LEMMA StepRefines ==
  ASSUME IInv, Inside(b), ~ShrinksLate, Next
  PROVE  [Q!Next]_(Q!vars)
<1> DEFINE q == Contents(b)
<1>1. q \in Seq(Byte) /\ Len(q) \in Nat /\ Len(q) = ReadableBytes(b)
  BY ContentsType, InsideIsBuffer
<1>2. ASSUME NEW d \in Chunk, AppendBytes(d) PROVE Q!Put(d)
  <2>1. Contents(b)' = Contents(b) \o d /\ incoming' = incoming
    BY <1>2, AppendStep DEF AppendBytes
  <2> QED  BY <2>1 DEF Q!Put
<1>3. ASSUME NEW d \in Chunk, Prepend(d) PROVE Q!PutFront(d)
  <2>1. Contents(b)' = d \o Contents(b) /\ incoming' = incoming
    BY <1>3, PrependStep DEF Prepend
  <2> QED  BY <2>1 DEF Q!PutFront
<1>4. ASSUME NEW d \in Chunk, Arrive(d) PROVE Q!Arrive(d)
  BY <1>4 DEF Arrive, Q!Arrive, Contents, ReadableBytes
<1>5. ASSUME NEW len \in 0 .. MaxSize, Retrieve(len)
      PROVE  Q!Take(len) /\ len <= Len(q)
  <2>1. Contents(b)' = SubSeq(Contents(b), len + 1, Len(Contents(b)))
    BY <1>5, RetrieveStep
  <2>2. incoming' = incoming /\ len <= Len(q)
    BY <1>1, <1>5 DEF Retrieve
  <2> QED  BY <2>1, <2>2 DEF Q!Take, Q!Rest
<1>6. ASSUME NEW len \in 0 .. MaxSize, Retrieve(len)
      PROVE  [Q!Next]_(Q!vars)
  <2>1. CASE len = 0
    <3>1. Contents(b)' = Contents(b)
      BY <1>1, <1>5, <1>6, <2>1, SubSeqFull DEF Q!Take, Q!Rest
    <3> QED  BY <1>6, <3>1 DEF Q!vars, Retrieve
  <2>2. CASE len # 0
    <3>1. len \in 1 .. Len(q)
      BY <1>1, <1>5, <1>6, <2>2
    <3> QED  BY <1>5, <1>6, <3>1 DEF Q!Next
  <2> QED  BY <2>1, <2>2
<1>7. CASE RetrieveAll \/ RetrieveAsString
  <2>1. Contents(b)' = <<>> /\ incoming' = incoming
    BY <1>7, AsStringStep, ClearedStep DEF RetrieveAll
  <2>2. CASE Len(q) = 0
    <3>1. Contents(b) = <<>>
      BY <1>1, <2>2, EmptySeq
    <3> QED  BY <2>1, <3>1 DEF Q!vars
  <2>3. CASE Len(q) # 0
    <3>1. SubSeq(q, Len(q) + 1, Len(q)) = <<>>
      BY <1>1, SubSeqEmpty
    <3>2. Q!Take(Len(q)) /\ Len(q) \in 1 .. Len(q)
      BY <1>1, <2>1, <2>3, <3>1 DEF Q!Take, Q!Rest
    <3> QED  BY <3>2 DEF Q!Next
  <2> QED  BY <2>2, <2>3
<1>8. ASSUME NEW reserve \in Reserves, Shrink(reserve)
      PROVE  UNCHANGED Q!vars
  <2>1. Contents(b)' = Contents(b) /\ incoming' = incoming
    BY <1>8, ShrinkStep DEF Shrink, ShrinksLate
  <2> QED  BY <2>1 DEF Q!vars
<1>9. CASE ReadFd
  <2>1. PICK n \in 1 .. Len(incoming) :
          /\ Contents(b)' = Contents(b) \o SubSeq(incoming, 1, n)
          /\ incoming' = SubSeq(incoming, n + 1, Len(incoming))
    BY <1>9, ReadFdStep
  <2>2. Q!Receive(n)
    BY <2>1 DEF Q!Receive, Q!Rest
  <2> QED  BY <2>2 DEF Q!Next
<1> QED
  BY <1>2, <1>3, <1>4, <1>6, <1>7, <1>8, <1>9 DEF Next, Q!Next

(* The buffer is a queue of bytes as long as shrink is not called late     *)
(* (Buffer.h:64-144, Buffer.cpp:10-34).                                    *)
THEOREM Refinement == Spec => ImplementsByteQueue
<1>1. Init => Q!Init
  BY InitIInv DEF Init, Q!Init
<1>2. IInv /\ [Next]_vars => [Inside(b) /\ ~ShrinksLate => [Q!Next]_(Q!vars)]_vars
  BY StepRefines
<1> QED  BY <1>1, <1>2, Invariance, PTL DEF Spec, ImplementsByteQueue
=============================================================================
