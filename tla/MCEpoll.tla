------------------------------ MODULE MCEpoll ------------------------------
(* Three channels share two descriptors. *)
EXTENDS Epoll
CONSTANTS c1, c2, c3, fd1, fd2
MCChannels == {c1, c2, c3}
MCFds == {fd1, fd2}
=============================================================================
