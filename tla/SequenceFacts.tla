--------------------------- MODULE SequenceFacts ---------------------------
(***************************************************************************)
(* Facts about sequences that the proofs share: lists in which nothing     *)
(* occurs twice (call stacks, pools, queues), and the operators that add   *)
(* to them and take from them.                                             *)
(***************************************************************************)
EXTENDS SequencesExt, SequenceTheorems, WellFoundedInduction, TLAPS

Distinct(s) == \A i, j \in 1 .. Len(s) : s[i] = s[j] => i = j

(* The elements of a sequence are those at its positions. *)
LEMMA InToSet ==
  ASSUME NEW S, NEW s \in Seq(S), NEW x
  PROVE  x \in ToSet(s) <=> \E i \in 1 .. Len(s) : s[i] = x
BY LenProperties DEF ToSet

(* Nothing is in the empty list. *)
LEMMA EmptyList == Len(<<>>) = 0 /\ ToSet(<<>>) = {} /\ Distinct(<<>>)
<1>1. Len(<<>>) = 0
  BY EmptySeq
<1>2. ToSet(<<>>) = {}
  BY DEF ToSet
<1> QED  BY <1>1, <1>2 DEF Distinct

(* The routine below the top of a call stack of two. *)
LEMMA FrontOfTwo ==
  ASSUME NEW S, NEW a \in S, NEW b \in S
  PROVE  Front(<<a, b>>) = <<a>>
<1>1. Front(<<a, b>>) = SubSeq(<<a, b>>, 1, 1)
  BY DEF Front
<1>2. /\ SubSeq(<<a, b>>, 1, 1) \in Seq(S) /\ Len(SubSeq(<<a, b>>, 1, 1)) = 1
      /\ SubSeq(<<a, b>>, 1, 1)[1] = a
  OBVIOUS
<1>3. <<a>> \in Seq(S) /\ Len(<<a>>) = 1 /\ <<a>>[1] = a
  OBVIOUS
<1> QED  BY <1>1, <1>2, <1>3, SeqEqual

(* Short sequences: the call stacks. *)
LEMMA Short ==
  ASSUME NEW S, NEW a \in S, NEW b \in S
  PROVE  /\ ToSet(<<>>) = {} /\ ToSet(<<a>>) = {a} /\ ToSet(<<a, b>>) = {a, b}
         /\ Last(<<a>>) = a /\ Last(<<a, b>>) = b
         /\ Front(<<a>>) = <<>> /\ Front(<<a, b>>) = <<a>>
         /\ Append(<<>>, a) = <<a>> /\ Append(<<a>>, b) = <<a, b>>
         /\ <<a>> # <<>> /\ <<a, b>> # <<>>
         /\ <<>> \in Seq(S) /\ <<a>> \in Seq(S) /\ <<a, b>> \in Seq(S)
<1>1. ToSet(<<>>) = {}
  BY DEF ToSet
<1>2. ToSet(<<a>>) = {a}
  BY DEF ToSet
<1>3. ToSet(<<a, b>>) = {a, b}
  BY DEF ToSet
<1>4. Last(<<a>>) = a /\ Last(<<a, b>>) = b
  BY DEF Last
<1>5. Front(<<a>>) = <<>>
  BY DEF Front
<1>6. Front(<<a, b>>) = <<a>>
  BY FrontOfTwo
<1>7. Append(<<>>, a) = <<a>> /\ Append(<<a>>, b) = <<a, b>>
  <2>1. /\ Append(<<>>, a) \in Seq(S) /\ Len(Append(<<>>, a)) = 1 /\ Append(<<>>, a)[1] = a
        /\ Append(<<a>>, b) \in Seq(S) /\ Len(Append(<<a>>, b)) = 2
        /\ Append(<<a>>, b)[1] = a /\ Append(<<a>>, b)[2] = b
    OBVIOUS
  <2>2. /\ <<a>> \in Seq(S) /\ Len(<<a>>) = 1 /\ <<a>>[1] = a
        /\ <<a, b>> \in Seq(S) /\ Len(<<a, b>>) = 2 /\ <<a, b>>[1] = a /\ <<a, b>>[2] = b
    OBVIOUS
  <2>3. Append(<<>>, a) = <<a>>
    BY <2>1, <2>2, SeqEqual
  <2>4. Append(<<a>>, b) = <<a, b>>
    <3>1. \A i \in 1 .. 2 : Append(<<a>>, b)[i] = <<a, b>>[i]
      BY <2>1, <2>2
    <3> QED  BY <2>1, <2>2, <3>1, SeqEqual
  <2> QED  BY <2>3, <2>4
<1>8. /\ <<a>> # <<>> /\ <<a, b>> # <<>>
      /\ <<>> \in Seq(S) /\ <<a>> \in Seq(S) /\ <<a, b>> \in Seq(S)
  OBVIOUS
<1> QED  BY <1>1, <1>2, <1>3, <1>4, <1>5, <1>6, <1>7, <1>8

(* Append adds an element. *)
LEMMA Appended ==
  ASSUME NEW S, NEW s \in Seq(S), NEW x \in S
  PROVE  /\ Append(s, x) \in Seq(S)
         /\ \A y : y \in ToSet(Append(s, x)) <=> y \in ToSet(s) \/ y = x
         /\ Distinct(s) /\ x \notin ToSet(s) => Distinct(Append(s, x))
<1> DEFINE t == Append(s, x)
<1>1. /\ t \in Seq(S) /\ Len(t) = Len(s) + 1 /\ Len(s) \in Nat
      /\ \A i \in 1 .. Len(s) : t[i] = s[i]
      /\ t[Len(s) + 1] = x
  BY AppendProperties, LenProperties
<1> HIDE DEF t
<1>2. ASSUME NEW y PROVE y \in ToSet(t) <=> y \in ToSet(s) \/ y = x
  <2>1. y \in ToSet(s) <=> \E i \in 1 .. Len(s) : s[i] = y
    BY InToSet
  <2>2. y \in ToSet(t) <=> \E i \in 1 .. Len(t) : t[i] = y
    BY <1>1, InToSet
  <2>3. \A i : i \in 1 .. Len(t) <=> i \in 1 .. Len(s) \/ i = Len(s) + 1
    BY <1>1
  <2> QED  BY <1>1, <2>1, <2>2, <2>3
<1>3. ASSUME Distinct(s), x \notin ToSet(s) PROVE Distinct(t)
  <2>1. \A i \in 1 .. Len(s) : s[i] # x
    BY <1>3, InToSet
  <2> QED  BY <1>1, <1>3, <2>1 DEF Distinct
<1> QED  BY <1>1, <1>2, <1>3 DEF t

(* Front takes the last element away. *)
LEMMA FrontTaken ==
  ASSUME NEW S, NEW s \in Seq(S), s # <<>>, Distinct(s)
  PROVE  /\ Front(s) \in Seq(S) /\ Last(s) \in S /\ Last(s) \in ToSet(s)
         /\ Distinct(Front(s))
         /\ \A y : y \in ToSet(Front(s)) <=> y \in ToSet(s) /\ y # Last(s)
<1>1. PICK n \in Nat : Len(s) = n + 1
  <2>1. Len(s) \in Nat /\ Len(s) # 0
    BY EmptySeq, LenProperties
  <2> QED  BY <2>1
<1> DEFINE t == Front(s)
<1>2. t \in Seq(S) /\ Len(t) = n /\ \A i \in 1 .. n : t[i] = s[i]
  BY <1>1 DEF Front
<1>3. Last(s) = s[n + 1] /\ Last(s) \in S
  BY <1>1, ElementOfSeq DEF Last
<1> HIDE DEF t
<1>4. Last(s) \in ToSet(s)
  BY <1>1, <1>3, InToSet
<1>5. Distinct(t)
  BY <1>1, <1>2 DEF Distinct
<1>6. ASSUME NEW y PROVE y \in ToSet(t) <=> y \in ToSet(s) /\ y # Last(s)
  <2>1. y \in ToSet(s) <=> \E i \in 1 .. Len(s) : s[i] = y
    BY InToSet
  <2>2. y \in ToSet(t) <=> \E i \in 1 .. Len(t) : t[i] = y
    BY <1>2, InToSet
  <2>3. \A i : i \in 1 .. n + 1 <=> i \in 1 .. n \/ i = n + 1
    OBVIOUS
  <2>4. \A i \in 1 .. n : s[i] # s[n + 1]
    BY <1>1 DEF Distinct
  <2> QED  BY <1>1, <1>2, <1>3, <2>1, <2>2, <2>3, <2>4
<1> QED  BY <1>2, <1>3, <1>4, <1>5, <1>6 DEF t

(* Tail takes the first element away. *)
LEMMA TailTaken ==
  ASSUME NEW S, NEW s \in Seq(S), s # <<>>, Distinct(s)
  PROVE  /\ Tail(s) \in Seq(S) /\ Head(s) \in S /\ Head(s) \in ToSet(s)
         /\ Distinct(Tail(s))
         /\ \A y : y \in ToSet(Tail(s)) <=> y \in ToSet(s) /\ y # Head(s)
<1> DEFINE t == Tail(s)
<1>1. /\ t \in Seq(S) /\ Len(t) = Len(s) - 1 /\ Len(s) \in Nat \ {0}
      /\ \A i \in 1 .. Len(t) : t[i] = s[i + 1]
      /\ Head(s) = s[1] /\ Head(s) \in S
  <2>1. Len(s) \in Nat /\ Len(s) # 0
    BY EmptySeq, LenProperties
  <2>2. t \in Seq(S) /\ Len(t) = Len(s) - 1 /\ \A i \in 1 .. Len(t) : t[i] = s[i + 1]
    BY <2>1, HeadTailProperties
  <2> QED  BY <2>1, <2>2, ElementOfSeq
<1> HIDE DEF t
<1>2. Head(s) \in ToSet(s)
  BY <1>1, InToSet
<1>3. Distinct(t)
  BY <1>1 DEF Distinct
<1>4. ASSUME NEW y PROVE y \in ToSet(t) <=> y \in ToSet(s) /\ y # Head(s)
  <2>1. y \in ToSet(s) <=> \E i \in 1 .. Len(s) : s[i] = y
    BY InToSet
  <2>2. y \in ToSet(t) <=> \E i \in 1 .. Len(t) : t[i] = y
    BY <1>1, InToSet
  <2>3. \A i \in 1 .. Len(s) : i # 1 => i - 1 \in 1 .. Len(t) /\ (i - 1) + 1 = i
    BY <1>1
  <2>4. \A i \in 1 .. Len(t) : i + 1 \in 1 .. Len(s) /\ i + 1 # 1
    BY <1>1
  <2>5. \A i \in 1 .. Len(s) : s[i] = s[1] => i = 1
    BY <1>1 DEF Distinct
  <2>6. y \in ToSet(t) => y \in ToSet(s) /\ y # Head(s)
    BY <1>1, <2>1, <2>2, <2>4, <2>5
  <2>7. y \in ToSet(s) /\ y # Head(s) => y \in ToSet(t)
    BY <1>1, <2>1, <2>2, <2>3
  <2> QED  BY <2>6, <2>7
<1> QED  BY <1>1, <1>2, <1>3, <1>4 DEF t

-----------------------------------------------------------------------------
(* The call stack with a routine that was resumed by a routine. *)
LEMMA ShortThree ==
  ASSUME NEW S, NEW a \in S, NEW b \in S, NEW c \in S
  PROVE  /\ ToSet(<<a, b, c>>) = {a, b, c} /\ Last(<<a, b, c>>) = c
         /\ Front(<<a, b, c>>) = <<a, b>> /\ Append(<<a, b>>, c) = <<a, b, c>>
         /\ <<a, b, c>> \in Seq(S) /\ Len(<<a, b, c>>) = 3
<1>1. ToSet(<<a, b, c>>) = {a, b, c}
  BY DEF ToSet
<1>2. Last(<<a, b, c>>) = c /\ <<a, b, c>> \in Seq(S) /\ Len(<<a, b, c>>) = 3
  BY DEF Last
<1>3. Front(<<a, b, c>>) = <<a, b>>
  <2>1. Front(<<a, b, c>>) = SubSeq(<<a, b, c>>, 1, 2)
    BY DEF Front
  <2>2. /\ SubSeq(<<a, b, c>>, 1, 2) \in Seq(S) /\ Len(SubSeq(<<a, b, c>>, 1, 2)) = 2
        /\ SubSeq(<<a, b, c>>, 1, 2)[1] = a /\ SubSeq(<<a, b, c>>, 1, 2)[2] = b
    OBVIOUS
  <2>3. <<a, b>> \in Seq(S) /\ Len(<<a, b>>) = 2 /\ <<a, b>>[1] = a /\ <<a, b>>[2] = b
    OBVIOUS
  <2>4. \A i \in 1 .. 2 : SubSeq(<<a, b, c>>, 1, 2)[i] = <<a, b>>[i]
    BY <2>2, <2>3
  <2> QED  BY <2>1, <2>2, <2>3, <2>4, SeqEqual
<1>4. Append(<<a, b>>, c) = <<a, b, c>>
  <2>1. /\ Append(<<a, b>>, c) \in Seq(S) /\ Len(Append(<<a, b>>, c)) = 3
        /\ Append(<<a, b>>, c)[1] = a /\ Append(<<a, b>>, c)[2] = b /\ Append(<<a, b>>, c)[3] = c
    OBVIOUS
  <2>2. /\ <<a, b, c>> \in Seq(S) /\ Len(<<a, b, c>>) = 3
        /\ <<a, b, c>>[1] = a /\ <<a, b, c>>[2] = b /\ <<a, b, c>>[3] = c
    OBVIOUS
  <2>3. \A i \in 1 .. 3 : Append(<<a, b>>, c)[i] = <<a, b, c>>[i]
    BY <2>1, <2>2
  <2> QED  BY <2>1, <2>2, <2>3, SeqEqual
<1> QED  BY <1>1, <1>2, <1>3, <1>4

(* A concatenation has the elements of both parts; nothing occurs twice in *)
(* it if nothing does in either part and they have nothing in common.      *)
LEMMA Concatenated ==
  ASSUME NEW S, NEW s \in Seq(S), NEW t \in Seq(S)
  PROVE  /\ s \o t \in Seq(S)
         /\ \A x : x \in ToSet(s \o t) <=> x \in ToSet(s) \/ x \in ToSet(t)
         /\ Distinct(s \o t) <=> /\ Distinct(s) /\ Distinct(t)
                                 /\ \A x \in ToSet(s) : x \notin ToSet(t)
<1> DEFINE u == s \o t
           m == Len(s)
           n == Len(t)
<1>1. /\ u \in Seq(S) /\ Len(u) = m + n /\ m \in Nat /\ n \in Nat
      /\ \A i \in 1 .. m : u[i] = s[i]
      /\ \A i \in 1 .. n : u[i + m] = t[i]
  BY ConcatProperties, LenProperties
<1> HIDE DEF u
<1>2. \A i \in 1 .. Len(u) : i \in 1 .. m \/ (i - m \in 1 .. n /\ (i - m) + m = i)
  BY <1>1
<1>3. \A i \in 1 .. m : i \in 1 .. Len(u)
  BY <1>1
<1>4. \A i \in 1 .. n : i + m \in 1 .. Len(u)
  BY <1>1
<1>5. ASSUME NEW x PROVE x \in ToSet(u) <=> x \in ToSet(s) \/ x \in ToSet(t)
  <2>1. /\ x \in ToSet(u) <=> \E i \in 1 .. Len(u) : u[i] = x
        /\ x \in ToSet(s) <=> \E i \in 1 .. m : s[i] = x
        /\ x \in ToSet(t) <=> \E i \in 1 .. n : t[i] = x
    BY <1>1, InToSet
  <2>2. x \in ToSet(u) => x \in ToSet(s) \/ x \in ToSet(t)
    BY <1>1, <1>2, <2>1
  <2>3. x \in ToSet(s) => x \in ToSet(u)
    BY <1>1, <1>3, <2>1
  <2>4. x \in ToSet(t) => x \in ToSet(u)
    BY <1>1, <1>4, <2>1
  <2> QED  BY <2>2, <2>3, <2>4
<1>6. ASSUME Distinct(u)
      PROVE  Distinct(s) /\ Distinct(t) /\ \A x \in ToSet(s) : x \notin ToSet(t)
  <2>1. Distinct(s)
    BY <1>1, <1>3, <1>6 DEF Distinct
  <2>2. Distinct(t)
    <3> SUFFICES ASSUME NEW i \in 1 .. n, NEW j \in 1 .. n, t[i] = t[j] PROVE i = j
      BY DEF Distinct
    <3>1. i + m = j + m
      BY <1>1, <1>4, <1>6 DEF Distinct
    <3> QED  BY <1>1, <3>1
  <2>3. ASSUME NEW i \in 1 .. m, NEW j \in 1 .. n, s[i] = t[j] PROVE FALSE
    <3>1. i = j + m
      BY <1>1, <1>3, <1>4, <1>6, <2>3 DEF Distinct
    <3> QED  BY <1>1, <3>1
  <2>4. ASSUME NEW x, x \in ToSet(s), x \in ToSet(t) PROVE FALSE
    <3>1. PICK i \in 1 .. m : s[i] = x
      BY <2>4, InToSet
    <3>2. PICK j \in 1 .. n : t[j] = x
      BY <2>4, InToSet
    <3> QED  BY <2>3, <3>1, <3>2
  <2> QED  BY <2>1, <2>2, <2>4
<1>7. ASSUME Distinct(s), Distinct(t), \A x \in ToSet(s) : x \notin ToSet(t)
      PROVE  Distinct(u)
  <2>1. \A i \in 1 .. m, j \in 1 .. n : s[i] # t[j]
    <3> SUFFICES ASSUME NEW i \in 1 .. m, NEW j \in 1 .. n PROVE s[i] # t[j]
      OBVIOUS
    <3>1. s[i] \in ToSet(s) /\ t[j] \in ToSet(t)
      BY InToSet
    <3> QED  BY <1>7, <3>1
  <2> SUFFICES ASSUME NEW i \in 1 .. Len(u), NEW j \in 1 .. Len(u), u[i] = u[j] PROVE i = j
    BY DEF Distinct
  <2>2. CASE i \in 1 .. m /\ j \in 1 .. m
    BY <1>1, <1>7, <2>2 DEF Distinct
  <2>3. CASE i \in 1 .. m /\ j \notin 1 .. m
    <3>1. j - m \in 1 .. n /\ t[j - m] = u[j] /\ s[i] = u[i]
      BY <1>1, <1>2, <2>3
    <3> QED  BY <2>1, <2>3, <3>1
  <2>4. CASE i \notin 1 .. m /\ j \in 1 .. m
    <3>1. i - m \in 1 .. n /\ t[i - m] = u[i] /\ s[j] = u[j]
      BY <1>1, <1>2, <2>4
    <3> QED  BY <2>1, <2>4, <3>1
  <2>5. CASE i \notin 1 .. m /\ j \notin 1 .. m
    <3>1. i - m \in 1 .. n /\ j - m \in 1 .. n /\ t[i - m] = u[i] /\ t[j - m] = u[j]
      BY <1>1, <1>2, <2>5
    <3>2. i - m = j - m
      BY <1>7, <3>1 DEF Distinct
    <3> QED  BY <1>1, <3>2
  <2> QED  BY <2>2, <2>3, <2>4, <2>5
<1> QED  BY <1>1, <1>5, <1>6, <1>7 DEF u

(* A sequence is what precedes and what follows any place in it. *)
LEMMA Divided ==
  ASSUME NEW S, NEW s \in Seq(S), NEW n \in 0 .. Len(s)
  PROVE  /\ SubSeq(s, 1, n) \in Seq(S) /\ SubSeq(s, n + 1, Len(s)) \in Seq(S)
         /\ SubSeq(s, 1, n) \o SubSeq(s, n + 1, Len(s)) = s
<1>1. Len(s) \in Nat /\ n \in Int /\ n + 1 \in Int /\ \A i \in 1 .. Len(s) : s[i] \in S
  BY LenProperties, ElementOfSeq
<1>2. SubSeq(s, 1, n) \in Seq(S)
  <2>1. \A i \in 1 .. n : s[i] \in S
    BY <1>1
  <2> QED  BY <1>1, <2>1, SubSeqProperties
<1>3. SubSeq(s, n + 1, Len(s)) \in Seq(S)
  <2>1. \A i \in n + 1 .. Len(s) : s[i] \in S
    BY <1>1
  <2> QED  BY <1>1, <2>1, SubSeqProperties
<1>4. SubSeq(s, 1, n) \o SubSeq(s, n + 1, Len(s)) = SubSeq(s, 1, Len(s))
  <2>1. 1 \in 1 .. Len(s) + 1 /\ n \in 1 - 1 .. Len(s) /\ Len(s) \in n .. Len(s)
    BY <1>1
  <2> QED  BY <2>1, ConcatAdjacentSubSeq
<1> QED  BY <1>2, <1>3, <1>4, SubSeqFull

(* A set of numbers that is not empty has a least element. *)
LEMMA LeastNumber ==
  ASSUME NEW T \in SUBSET Nat, T # {}
  PROVE  \E n \in T : \A m \in T : n <= m
<1>1. PICK n \in T : \A m \in T : ~ (<<m, n>> \in OpToRel(<, Nat))
  BY NatLessThanWellFounded, WFMin
<1>2. \A m \in T : m < n => <<m, n>> \in OpToRel(<, Nat)
  BY DEF OpToRel
<1>3. \A m \in T : ~(m < n)
  BY <1>1, <1>2, Zenon
<1> QED  BY <1>3

(* RemoveFirst takes an element out of a list that has it at most once. *)
LEMMA Removed ==
  ASSUME NEW S, NEW s \in Seq(S), Distinct(s), NEW x
  PROVE  /\ RemoveFirst(s, x) \in Seq(S)
         /\ Distinct(RemoveFirst(s, x))
         /\ \A y : y \in ToSet(RemoveFirst(s, x)) <=> y \in ToSet(s) /\ y # x
<1>1. CASE x \notin ToSet(s)
  <2>1. ~ \E i \in 1 .. Len(s) : s[i] = x
    BY <1>1, InToSet
  <2>2. RemoveFirst(s, x) = s
    BY <2>1 DEF RemoveFirst
  <2> QED  BY <1>1, <2>2
<1>2. CASE x \in ToSet(s)
  <2> DEFINE I == {i \in 1 .. Len(s) : s[i] = x}
  <2>1. \E i \in 1 .. Len(s) : s[i] = x
    BY <1>2, InToSet
  <2>2. I \in SUBSET Nat /\ I # {}
    BY <2>1, LenProperties
  <2>3. SelectInSeq(s, LAMBDA v : v = x) \in I
    BY <2>2, LeastNumber DEF SelectInSeq, Min
  <2>4. PICK k \in I : RemoveFirst(s, x) = RemoveAt(s, k)
    BY <2>1, <2>3 DEF RemoveFirst
  <2> DEFINE a == SubSeq(s, 1, k - 1)
             b == SubSeq(s, k + 1, Len(s))
             c == SubSeq(s, k, Len(s))
  <2>5. k \in 1 .. Len(s) /\ s[k] = x /\ Len(s) \in Nat /\ x \in S
    BY ElementOfSeq, LenProperties
  <2>6. a \in Seq(S) /\ c \in Seq(S) /\ a \o c = s
    <3>1. k - 1 \in 0 .. Len(s) /\ (k - 1) + 1 = k
      BY <2>5
    <3> QED  BY <3>1, Divided
  <2>7. Head(c) = x /\ Tail(c) = b /\ c # <<>>
    <3>1. Len(s) \in k .. Len(s)
      BY <2>5
    <3>2. Head(c) = x /\ Tail(c) = b
      BY <2>5, <3>1, HeadTailOfSubSeq
    <3>3. c # <<>>
      <4>1. \A i \in k .. Len(s) : s[i] \in S
        BY <2>5, ElementOfSeq
      <4>2. Len(c) = Len(s) - k + 1
        BY <2>5, <4>1, SubSeqProperties
      <4> QED  BY <2>5, <4>2
    <3> QED  BY <3>2, <3>3
  <2>8. RemoveFirst(s, x) = a \o b
    BY <2>4 DEF RemoveAt
  <2> HIDE DEF a, b, c
  <2>9. /\ Distinct(a) /\ Distinct(c)
        /\ \A y : y \in ToSet(s) <=> y \in ToSet(a) \/ y \in ToSet(c)
        /\ \A y \in ToSet(a) : y \notin ToSet(c)
    BY <2>6, Concatenated
  <2>10. /\ b \in Seq(S) /\ Distinct(b) /\ x \in ToSet(c)
         /\ \A y : y \in ToSet(b) <=> y \in ToSet(c) /\ y # x
    BY <2>6, <2>7, <2>9, TailTaken
  <2>11. /\ a \o b \in Seq(S)
         /\ \A y : y \in ToSet(a \o b) <=> y \in ToSet(a) \/ y \in ToSet(b)
         /\ Distinct(a \o b)
    BY <2>6, <2>9, <2>10, Concatenated
  <2>12. \A y : y \in ToSet(a \o b) <=> y \in ToSet(s) /\ y # x
    BY <2>9, <2>10, <2>11
  <2> QED  BY <2>8, <2>11, <2>12
<1> QED  BY <1>1, <1>2

(* A sequence with an element in front of it. *)
LEMMA Prefixed ==
  ASSUME NEW S, NEW a \in S, NEW s \in Seq(S)
  PROVE  /\ <<a>> \o s \in Seq(S) /\ <<a>> \o s # <<>>
         /\ Head(<<a>> \o s) = a /\ Tail(<<a>> \o s) = s
         /\ \A x \in S : <<a>> \o Append(s, x) = Append(<<a>> \o s, x)
         /\ \A y : y \in ToSet(<<a>> \o s) <=> y = a \/ y \in ToSet(s)
         /\ s # <<>> => <<Head(s)>> \o Tail(s) = s
<1> DEFINE t == <<a>> \o s
<1>1. <<a>> \in Seq(S) /\ Len(<<a>>) = 1 /\ <<a>>[1] = a /\ Len(s) \in Nat
  BY LenProperties
<1>2. /\ t \in Seq(S) /\ Len(t) = Len(s) + 1
      /\ \A i \in 1 .. Len(s) + 1 : t[i] = IF i <= 1 THEN a ELSE s[i - 1]
  BY <1>1, ConcatProperties
<1> HIDE DEF t
<1>3. t # <<>>
  BY <1>1, <1>2, EmptySeq
<1>4. Head(t) = a
  BY <1>1, <1>2
<1>5. Tail(t) = s
  <2>1. /\ Tail(t) \in Seq(S) /\ Len(Tail(t)) = Len(s)
        /\ \A i \in 1 .. Len(Tail(t)) : Tail(t)[i] = t[i + 1]
    BY <1>1, <1>2, <1>3, HeadTailProperties
  <2>2. \A i \in 1 .. Len(s) : i + 1 \in 1 .. Len(s) + 1 /\ ~(i + 1 <= 1) /\ (i + 1) - 1 = i
    BY <1>1
  <2>3. \A i \in 1 .. Len(Tail(t)) : Tail(t)[i] = s[i]
    BY <1>2, <2>1, <2>2
  <2> QED  BY <2>1, <2>3, SeqEqual
<1>6. ASSUME NEW x \in S PROVE <<a>> \o Append(s, x) = Append(t, x)
  <2>1. Append(s, x) = s \o <<x>> /\ Append(t, x) = t \o <<x>> /\ <<x>> \in Seq(S)
    BY <1>2, AppendIsConcat
  <2> QED  BY <1>1, <2>1, ConcatAssociative DEF t
<1>7. \A y : y \in ToSet(t) <=> y = a \/ y \in ToSet(s)
  BY <1>1, Concatenated, Short DEF t
<1>8. ASSUME s # <<>> PROVE <<Head(s)>> \o Tail(s) = s
  <2>1. /\ Head(s) \in S /\ Tail(s) \in Seq(S) /\ Len(Tail(s)) = Len(s) - 1 /\ Head(s) = s[1]
        /\ \A i \in 1 .. Len(Tail(s)) : Tail(s)[i] = s[i + 1]
    BY <1>8, HeadTailProperties
  <2>2. <<Head(s)>> \in Seq(S) /\ Len(<<Head(s)>>) = 1 /\ <<Head(s)>>[1] = s[1]
    BY <2>1
  <2> DEFINE u == <<Head(s)>> \o Tail(s)
  <2>3. /\ u \in Seq(S) /\ Len(u) = Len(s)
        /\ \A i \in 1 .. Len(s) : u[i] = IF i <= 1 THEN <<Head(s)>>[i] ELSE Tail(s)[i - 1]
    BY <1>1, <2>1, <2>2, ConcatProperties
  <2> HIDE DEF u
  <2>4. \A i \in 1 .. Len(u) : u[i] = s[i]
    <3> SUFFICES ASSUME NEW i \in 1 .. Len(u) PROVE u[i] = s[i]
      OBVIOUS
    <3>1. CASE i = 1
      BY <2>2, <2>3, <3>1
    <3>2. CASE i # 1
      <4>1. i - 1 \in 1 .. Len(Tail(s)) /\ (i - 1) + 1 = i
        BY <1>1, <2>1, <2>3, <3>2
      <4>2. u[i] = Tail(s)[i - 1]
        BY <1>1, <2>3, <3>2
      <4> QED  BY <2>1, <4>1, <4>2
    <3> QED  BY <3>1, <3>2
  <2>5. u = s
    BY <2>3, <2>4, SeqEqual
  <2> QED  BY <2>5 DEF u
<1> QED  BY <1>2, <1>3, <1>4, <1>5, <1>6, <1>7, <1>8 DEF t
=============================================================================
