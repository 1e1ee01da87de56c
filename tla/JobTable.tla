------------------------------- MODULE JobTable -------------------------------
(***************************************************************************)
(* What the users of CSocketMultiplexer may rely on: a socket has one job  *)
(* or none; the service thread takes the table for a round, in which it    *)
(* polls every socket for what its job asks for and runs each job at most  *)
(* once; nobody else changes a job during a round; and a job is run with   *)
(* what poll said of that job's socket, never of another's.                *)
(***************************************************************************)
CONSTANTS Socket, Job, NULL

VARIABLES
    job,        \* the job of each socket, NULL if it has none
    polled,     \* the jobs of this round that are still to be run
    busy        \* a round is going on

tableVars == <<job, polled, busy>>

NoJobs == [s \in Socket |-> NULL]

TableInit == job = NoJobs /\ polled = NoJobs /\ busy = FALSE

\* addSocket and removeSocket, at the moment they have the list.
SetJob(s, j) ==
    /\ ~busy
    /\ job' = [job EXCEPT ![s] = j]
    /\ UNCHANGED <<polled, busy>>

BeginRound == ~busy /\ busy' = TRUE /\ polled' = job /\ UNCHANGED job

\* The job is run and returns j: itself, another, or NULL.
Run(s, j) ==
    /\ busy /\ polled[s] # NULL /\ job[s] = polled[s]
    /\ job' = [job EXCEPT ![s] = j]
    /\ polled' = [polled EXCEPT ![s] = NULL]
    /\ UNCHANGED busy

\* Poll found nothing, or was broken off for a caller.
NothingFound == busy /\ polled' = NoJobs /\ UNCHANGED <<job, busy>>

EndRound == busy /\ polled = NoJobs /\ busy' = FALSE /\ UNCHANGED <<job, polled>>

TableNext ==
    \/ BeginRound \/ NothingFound \/ EndRound
    \/ \E s \in Socket, j \in Job \cup {NULL} : SetJob(s, j) \/ Run(s, j)

TableSpec == TableInit /\ [][TableNext]_tableVars
===============================================================================
