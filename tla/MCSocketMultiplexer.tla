------------------------- MODULE MCSocketMultiplexer -------------------------
(* SocketMultiplexer with callers, sockets and jobs that are alike.        *)
EXTENDS SocketMultiplexer, TLC

Symmetry == Permutations(Caller) \cup Permutations(Socket)
=============================================================================
