----------------------------- MODULE ByteQueue -----------------------------
(***************************************************************************)
(* What a Buffer promises: the bytes put into it come out once each and in *)
(* order, and what it receives of a descriptor is what the descriptor had, *)
(* without a gap.  Nothing is said here of indexes or of space.            *)
(***************************************************************************)
EXTENDS Naturals, Sequences

CONSTANT Chunk        (* the strings of bytes that somebody writes         *)

VARIABLES queue,      (* the bytes that can be taken                       *)
          incoming    (* the bytes that wait in the descriptor             *)

vars == <<queue, incoming>>

Init == /\ queue = <<>>
        /\ incoming = <<>>

Rest(s, n) == SubSeq(s, n + 1, Len(s))

Put(d) == /\ queue' = queue \o d
          /\ UNCHANGED incoming

PutFront(d) == /\ queue' = d \o queue
               /\ UNCHANGED incoming

Take(n) == /\ queue' = Rest(queue, n)
           /\ UNCHANGED incoming

Arrive(d) == /\ incoming' = incoming \o d
             /\ UNCHANGED queue

Receive(n) == /\ queue' = queue \o SubSeq(incoming, 1, n)
              /\ incoming' = Rest(incoming, n)

Next == \/ \E d \in Chunk : Put(d) \/ PutFront(d) \/ Arrive(d)
        \/ \E n \in 1 .. Len(queue) : Take(n)
        \/ \E n \in 1 .. Len(incoming) : Receive(n)

Spec == Init /\ [][Next]_vars
=============================================================================
