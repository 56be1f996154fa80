----------------------------- MODULE MCTimeHeap -----------------------------
(* Two routines whose waits overlap, and four Timer addresses. *)
EXTENDS TimeHeap, TLC
CONSTANTS r1, r2, t1, t2, t3, t4
MCRoutines == {r1, r2}
MCTimers == {t1, t2, t3, t4}
MCDelays == {1, 3}
MCFewTimers == {t1, t2, t3}
MCSymmetry == Permutations(MCRoutines) \cup Permutations(MCTimers)
=============================================================================
