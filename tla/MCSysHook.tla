------------------------------ MODULE MCSysHook -----------------------------
(* Three threads and a descriptor that they close and open again; a        *)
(* message has up to three bytes, of which the kernel takes two at a time. *)
EXTENDS SysHook
CONSTANTS t1, t2, t3, fd1
MCThreads == {t1, t2, t3}
MCFds == {fd1}
=============================================================================
