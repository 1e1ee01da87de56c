---------------------------- MODULE PolledSockets ----------------------------
(***************************************************************************)
(* The sockets that the multiplexer polls, and no job.  The sockets name   *)
(* them and the multiplexer does, so that both can be spoken of at once.   *)
(***************************************************************************)
CONSTANTS Socket, NULL
==============================================================================
