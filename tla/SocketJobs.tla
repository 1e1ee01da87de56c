------------------------------ MODULE SocketJobs ------------------------------
(***************************************************************************)
(* What every socket shares: the main thread, which is the user of all of  *)
(* them and can be at one thing only, and the multiplexer's jobs.  The     *)
(* multiplexer is JobTable, which SocketMultiplexer implements.            *)
(***************************************************************************)
EXTENDS PolledSockets

VARIABLES
    main,       \* where the main thread is
    job, polled, busy

\* What a job asks poll for, and which of the socket's methods it runs.
Interest == [kind : {"connecting", "connected", "listening"}, read : BOOLEAN, write : BOOLEAN]

Table == INSTANCE JobTable WITH Job <- Interest

tableVars == <<job, polled, busy>>
===============================================================================
