----------------------------- MODULE WorkerPool -----------------------------
(***************************************************************************)
(* What the echo server promises its clients: connections are taken in the *)
(* order in which they arrive; each is served by one worker, that serves   *)
(* nobody else until the client is done, or is turned away if every worker *)
(* is serving somebody.  Nothing is said here of coroutines, descriptors,  *)
(* events or timers.                                                       *)
(***************************************************************************)
EXTENDS Naturals, Sequences, FiniteSets

CONSTANTS Worker,    (* the workers                                        *)
          Conn,      (* the connections                                    *)
          NoConn     (* an idle worker serves no connection                *)

VARIABLES queue,     (* the connections that have not been taken           *)
          serves,    (* the connection of each worker                      *)
          done,      (* those of them whose client has finished            *)
          gone       (* the connections served or turned away              *)

vars == <<queue, serves, done, gone>>

Init == /\ queue = <<>>
        /\ serves = [w \in Worker |-> NoConn]
        /\ done = {}
        /\ gone = {}

Known(c) == \/ c \in gone
            \/ \E i \in 1 .. Len(queue) : queue[i] = c
            \/ \E w \in Worker : serves[w] = c

Arrive(c) == /\ ~Known(c)
             /\ queue' = Append(queue, c)
             /\ UNCHANGED <<serves, done, gone>>

Done(c) == /\ c \notin done
           /\ done' = done \cup {c}
           /\ UNCHANGED <<queue, serves, gone>>

Take(w) == /\ queue # <<>>
           /\ serves[w] = NoConn
           /\ serves' = [serves EXCEPT ![w] = Head(queue)]
           /\ queue' = Tail(queue)
           /\ UNCHANGED <<done, gone>>

TurnAway == /\ queue # <<>>
            /\ \A w \in Worker : serves[w] # NoConn
            /\ gone' = gone \cup {Head(queue)}
            /\ queue' = Tail(queue)
            /\ done' = done \ {Head(queue)}
            /\ UNCHANGED serves

Release(w) == /\ serves[w] \in done
              /\ gone' = gone \cup {serves[w]}
              /\ serves' = [serves EXCEPT ![w] = NoConn]
              /\ done' = done \ {serves[w]}
              /\ UNCHANGED queue

Accept == TurnAway \/ \E w \in Worker : Take(w)

Next == \/ \E c \in Conn : Arrive(c) \/ Done(c)
        \/ Accept
        \/ \E w \in Worker : Release(w)

Safety == Init /\ [][Next]_vars
Spec == Safety /\ WF_vars(Accept) /\ \A w \in Worker : WF_vars(Release(w))
=============================================================================
