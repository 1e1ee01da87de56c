-------------------------- MODULE SocketMultiplexer --------------------------
(***************************************************************************)
(* CSocketMultiplexer: one service thread polls the sockets and runs their *)
(* jobs, other threads add and remove jobs.  The thread that polls keeps   *)
(* the job list locked, so a caller first takes the lock on that lock      *)
(* (lockJobListLock), which keeps the service thread from locking the list *)
(* again, then wakes it from poll, then waits for the list.                *)
(*                                                                         *)
(* A step is what is done under m_mutex, or between two uses of it.  The   *)
(* list is only read and written with its lock held, so a cursor is an     *)
(* index.  A job's run is the socket's: it returns itself, another job or  *)
(* NULL.  The destructor cancels the service thread, which notices between *)
(* two rounds, while it waits, or by the signal that breaks off a poll.    *)
(***************************************************************************)
EXTENDS PolledSockets, Naturals, Sequences, FiniteSets

CONSTANTS
    Caller,     \* the threads that call addSocket and removeSocket
    Service,    \* m_thread
    Job,        \* what a job may ask poll for
    MaxCalls    \* bound on the calls

Thread == Caller \cup {Service}

ASSUME MultiplexerAssumption ==
    /\ Service \notin Caller
    /\ NULL \notin Job /\ NULL \notin Thread
    /\ MaxCalls \in Nat

VARIABLES
    jobs,             \* m_socketJobs: nodes [socket, job], the job may be NULL
    map,              \* m_socketJobMap: where a socket's node is, 0 if nowhere
    update,           \* m_update
    jobListLocker,    \* m_jobListLock and m_jobListLocker
    lockLocker,       \* m_jobListLockLocked and m_jobListLockLocker
    jobsReady,        \* m_jobsReady
    asleepOnLockLock, asleepOnList, asleepOnReady, \* who waits on the condition
                      \* variables m_jobListLockLocked, m_jobListLock, m_jobsReady
    pipe,             \* the service thread has a pipe that poll watches
    unblocked,        \* something is in it
    pfds,             \* what is polled, as the nodes it was collected from
    ready,            \* m_revents: which of pfds have something
    position, entry,  \* serviceThread's jobCursor and i
    destructor,       \* ~CSocketMultiplexer: "no", "cancelled", "waiting" or "done"
    pc, call, calls

list == <<jobs, map, update>>
locks == <<jobListLocker, lockLocker, jobsReady>>
sleep == <<asleepOnLockLock, asleepOnList, asleepOnReady>>
pollVars == <<pipe, unblocked, pfds, ready, position, entry>>
calling == <<call, calls, destructor>>
muxVars == <<list, locks, sleep, pollVars, calling, pc>>

NoCall == [socket |-> NULL, job |-> NULL]
Sockets(nodes) == [i \in DOMAIN nodes |-> nodes[i].socket]

\* The walk over the list that collects the nodes to be polled.
WithJob(nodes) ==
    LET collected[n \in 0..Len(nodes)] ==
            IF n = 0 THEN <<>>
            ELSE IF nodes[n].job = NULL THEN collected[n - 1]
            ELSE Append(collected[n - 1], nodes[n])
    IN  collected[Len(nodes)]

Mapped == {s \in Socket : map[s] # 0}

MuxInit ==
    /\ jobs = <<>> /\ map = [s \in Socket |-> 0] /\ update = FALSE
    /\ jobListLocker = NULL /\ lockLocker = NULL /\ jobsReady = FALSE
    /\ asleepOnLockLock = {} /\ asleepOnList = {} /\ asleepOnReady = {}
    /\ pipe = FALSE /\ unblocked = FALSE /\ pfds = <<>> /\ ready = {} /\ position = 0 /\ entry = 0
    /\ pc = [t \in Thread |-> IF t = Service THEN "top" ELSE "idle"]
    /\ destructor = "no"
    /\ call = [t \in Caller |-> NoCall]
    /\ calls = 0

Goto(t, next) == pc' = [pc EXCEPT ![t] = next]

-----------------------------------------------------------------------------
(***************************************************************************)
(* The locks.  A thread that finds a lock taken sleeps until it is told    *)
(* that the lock is free, and looks again.                                 *)
(***************************************************************************)
LockMayBeTaken == TRUE
LockIsFree == lockLocker = NULL

lockJobListLock(t) ==
    /\ pc[t] = "lockLock" /\ t \notin asleepOnLockLock
    /\ IF LockIsFree
       THEN /\ lockLocker' = t
            /\ Goto(t, IF t = Service THEN "lockList" ELSE "unblock")
            /\ UNCHANGED asleepOnLockLock
       ELSE /\ asleepOnLockLock' = asleepOnLockLock \cup {t}
            /\ UNCHANGED <<lockLocker, pc>>
    /\ UNCHANGED <<list, jobListLocker, jobsReady, asleepOnList, asleepOnReady,
                   pollVars, calling>>

ListMayBeTaken == TRUE
ListIsFree == jobListLocker = NULL

lockJobList(t) ==
    /\ pc[t] = "lockList" /\ t \notin asleepOnList
    /\ IF ListIsFree
       THEN /\ jobListLocker' = t
            /\ lockLocker' = NULL
            /\ asleepOnLockLock' = {}
            /\ Goto(t, IF t = Service THEN "collect" ELSE "edit")
            /\ UNCHANGED asleepOnList
       ELSE /\ asleepOnList' = asleepOnList \cup {t}
            /\ UNCHANGED <<jobListLocker, lockLocker, asleepOnLockLock, pc>>
    /\ UNCHANGED <<list, jobsReady, asleepOnReady, pollVars, calling>>

\* The service thread is told when there are jobs again.
TellService == IF jobsReady # (Mapped # {}) THEN {} ELSE asleepOnReady

unlockJobList(t) ==
    /\ pc[t] = "unlock"
    /\ jobListLocker' = NULL
    /\ \/ asleepOnList = {} /\ asleepOnList' = {}
       \/ \E w \in asleepOnList : asleepOnList' = asleepOnList \ {w}
    /\ jobsReady' = (Mapped # {})
    /\ asleepOnReady' = TellService
    /\ Goto(t, IF t = Service THEN "top" ELSE "idle")
    /\ call' = IF t = Service THEN call ELSE [call EXCEPT ![t] = NoCall]
    /\ UNCHANGED <<list, lockLocker, asleepOnLockLock, pollVars, calls, destructor>>

\* A wait is given up after a tenth of a second; the thread then looks again.
Wakes(t) ==
    /\ t \in asleepOnLockLock \cup asleepOnList \cup asleepOnReady
    /\ asleepOnLockLock' = asleepOnLockLock \ {t}
    /\ asleepOnList' = asleepOnList \ {t}
    /\ asleepOnReady' = asleepOnReady \ {t}
    /\ UNCHANGED <<list, locks, pollVars, calling, pc>>

-----------------------------------------------------------------------------
(***************************************************************************)
(* addSocket and removeSocket; a job of NULL stands for removeSocket.      *)
(***************************************************************************)
Calls(t, s, job) ==
    /\ pc[t] = "idle"
    /\ calls < MaxCalls /\ calls' = calls + 1
    /\ call' = [call EXCEPT ![t] = [socket |-> s, job |-> job]]
    /\ Goto(t, "lockLock")
    /\ destructor = "no"
    /\ UNCHANGED <<list, locks, sleep, pollVars, destructor>>

\* A thread makes its pipe when it polls for the first time.  Without one the
\* caller writes to a pipe of its own, which nobody watches.
StaysBlocked == unblocked
Unblocked == pipe

unblockPollSocket(t) ==
    /\ pc[t] = "unblock"
    /\ unblocked' = Unblocked
    /\ Goto(t, "lockList")
    /\ UNCHANGED <<list, locks, sleep, pipe, pfds, ready, position, entry, calling>>

AtEnd == Len(jobs) + 1

\* A new node goes to the end, where it does not disturb the order of pfds.
Insert(s, job) ==
    /\ jobs' = Append(jobs, [socket |-> s, job |-> job])
    /\ map' = [map EXCEPT ![s] = AtEnd]
    /\ update' = TRUE

Replace(s, job) ==
    /\ jobs' = [jobs EXCEPT ![map[s]].job = job]
    /\ update' = TRUE
    /\ UNCHANGED map

AddAnother(s, job) == Insert(s, job)
Add(s, job) == IF map[s] = 0 THEN Insert(s, job) ELSE Replace(s, job)

RemoveQuietly(s) ==
    /\ jobs' = IF map[s] = 0 THEN jobs ELSE [jobs EXCEPT ![map[s]].job = NULL]
    /\ UNCHANGED <<map, update>>

\* The node stays, without a job.
Remove(s) ==
    IF map[s] # 0 /\ jobs[map[s]].job # NULL THEN Replace(s, NULL)
    ELSE UNCHANGED list

Edit(t) ==
    /\ t \in Caller /\ pc[t] = "edit"
    /\ IF call[t].job = NULL THEN Remove(call[t].socket) ELSE Add(call[t].socket, call[t].job)
    /\ Goto(t, "unlock")
    /\ UNCHANGED <<locks, sleep, pollVars, calling>>

-----------------------------------------------------------------------------
(***************************************************************************)
(* serviceThread.                                                          *)
(***************************************************************************)
Cancelled == destructor # "no"

\* testCancel, and wait, which tests it as well, however it ends
TestCancel ==
    /\ pc[Service] = "top" \/ (pc[Service] = "wait" /\ ~jobsReady /\ Cancelled)
    /\ Goto(Service, IF Cancelled THEN "dead" ELSE "wait")
    /\ asleepOnReady' = {}
    /\ UNCHANGED <<list, locks, asleepOnLockLock, asleepOnList, pollVars, calling>>

WaitForJobs ==
    /\ pc[Service] = "wait" /\ Service \notin asleepOnReady
    /\ IF jobsReady THEN Goto(Service, "lockLock") /\ UNCHANGED asleepOnReady
       ELSE ~Cancelled /\ asleepOnReady' = {Service} /\ UNCHANGED pc
    /\ UNCHANGED <<list, locks, asleepOnLockLock, asleepOnList, pollVars, calling>>

Collect ==
    /\ pc[Service] = "collect"
    /\ pfds' = IF update THEN WithJob(jobs) ELSE pfds
    /\ update' = FALSE
    /\ Goto(Service, "poll")
    /\ UNCHANGED <<jobs, map, locks, sleep, pipe, unblocked, ready, position, entry,
                   calling>>

EnterPoll ==
    /\ pc[Service] = "poll" /\ pfds # <<>>
    /\ pipe' = TRUE
    /\ Goto(Service, "polling")
    /\ UNCHANGED <<list, locks, sleep, unblocked, pfds, ready, position, entry, calling>>

\* Poll returns with the sockets that have something; the pipe is emptied and
\* does not count.
PollReturns(found) ==
    /\ pc[Service] = "polling"
    /\ unblocked' = FALSE
    /\ ready' = found
    /\ position' = 1 /\ entry' = 1
    /\ Goto(Service, IF found = {} THEN "purge" ELSE "run")
    /\ UNCHANGED <<list, locks, sleep, pipe, pfds, calling>>

SocketsReady == \E found \in SUBSET DOMAIN pfds : found # {} /\ PollReturns(found)
PollUnblocked == unblocked /\ PollReturns({})

\* An error, or a signal that is not about this thread.
PollFails ==
    /\ pc[Service] = "polling"
    /\ position' = 1 /\ entry' = 1
    /\ Goto(Service, "purge")
    /\ UNCHANGED <<list, locks, sleep, pipe, unblocked, pfds, ready, calling>>

NothingToPoll ==
    /\ pc[Service] = "poll" /\ pfds = <<>>
    /\ Goto(Service, "purge")
    /\ UNCHANGED <<list, locks, sleep, pollVars, calling>>

\* One job is run.  It returns itself when its socket has nothing.
RunJob ==
    /\ pc[Service] = "run"
    /\ entry <= Len(pfds) /\ position <= Len(jobs)
    /\ jobs[position].job # NULL
    /\ \E job \in IF entry \in ready THEN Job \cup {NULL} ELSE {jobs[position].job} :
          IF job # jobs[position].job
          THEN /\ jobs' = [jobs EXCEPT ![position].job = job]
               /\ update' = TRUE
          ELSE UNCHANGED <<jobs, update>>
    /\ entry' = entry + 1 /\ position' = position + 1
    /\ UNCHANGED <<map, locks, sleep, pipe, unblocked, pfds, ready, pc, calling>>

SkipNode ==
    /\ pc[Service] = "run"
    /\ entry <= Len(pfds) /\ position <= Len(jobs)
    /\ jobs[position].job = NULL
    /\ position' = position + 1
    /\ UNCHANGED <<list, locks, sleep, pipe, unblocked, pfds, ready, entry, pc, calling>>

RunEnds ==
    /\ pc[Service] = "run"
    /\ entry > Len(pfds) \/ position > Len(jobs)
    /\ Goto(Service, "purge")
    /\ ready' = {} /\ position' = 0 /\ entry' = 0
    /\ UNCHANGED <<list, locks, sleep, pipe, unblocked, pfds, calling>>

\* A socket without a job leaves the map.  Its node stays in the list.
Purge ==
    /\ pc[Service] = "purge"
    /\ LET gone == {s \in Mapped : jobs[map[s]].job = NULL} IN
          /\ map' = [s \in Socket |-> IF s \in gone THEN 0 ELSE map[s]]
          /\ update' = (update \/ gone # {})
    /\ Goto(Service, "unlock")
    /\ UNCHANGED <<jobs, locks, sleep, pollVars, calling>>

-----------------------------------------------------------------------------
(***************************************************************************)
(* The destructor, when nobody calls any more: cancel, whose signal breaks *)
(* off a poll if it comes in time, unblockPollSocket, and wait.            *)
(***************************************************************************)
Cancel ==
    /\ destructor = "no" /\ \A t \in Caller : pc[t] = "idle"
    /\ destructor' = "cancelled"
    /\ \/ UNCHANGED pc
       \/ pc[Service] = "polling" /\ Goto(Service, "killed")
    /\ UNCHANGED <<list, locks, sleep, pollVars, call, calls>>

UnblockService ==
    /\ destructor = "cancelled" /\ destructor' = "waiting"
    /\ unblocked' = Unblocked
    /\ UNCHANGED <<list, locks, sleep, pipe, pfds, ready, position, entry, pc, call, calls>>

ThreadEnded ==
    /\ destructor = "waiting" /\ pc[Service] \in {"dead", "killed"}
    /\ destructor' = "done"
    /\ UNCHANGED <<list, locks, sleep, pollVars, pc, call, calls>>

Destructor == UnblockService \/ ThreadEnded

-----------------------------------------------------------------------------
Locking(t) == lockJobListLock(t) \/ lockJobList(t) \/ unlockJobList(t)
Call(t) == unblockPollSocket(t) \/ Edit(t)
RunRounds ==
    \/ TestCancel \/ WaitForJobs \/ Collect \/ NothingToPoll \/ EnterPoll \/ PollUnblocked
    \/ RunJob \/ SkipNode \/ RunEnds \/ Purge

MuxNext ==
    \/ \E t \in Thread : Locking(t) \/ Wakes(t)
    \/ \E t \in Caller : Call(t)
    \/ \E t \in Caller, s \in Socket, job \in Job \cup {NULL} : Calls(t, s, job)
    \/ RunRounds
    \/ SocketsReady \/ PollFails
    \/ Cancel \/ Destructor

MuxSpec == MuxInit /\ [][MuxNext]_muxVars

\* Threads are scheduled; nothing says that a socket ever has something.
MuxFairSpec ==
    /\ MuxSpec
    /\ \A t \in Thread : WF_muxVars(Locking(t))
    /\ \A t \in Caller : WF_muxVars(Call(t))
    /\ WF_muxVars(RunRounds) /\ WF_muxVars(Destructor)

-----------------------------------------------------------------------------
Node == [socket : Socket, job : Job \cup {NULL}]

MuxTypeOK ==
    /\ jobs \in Seq(Node) /\ pfds \in Seq(Node)
    /\ map \in [Socket -> 0..Len(jobs)]
    /\ update \in BOOLEAN /\ jobsReady \in BOOLEAN /\ pipe \in BOOLEAN /\ unblocked \in BOOLEAN
    /\ jobListLocker \in Thread \cup {NULL} /\ lockLocker \in Thread \cup {NULL}
    /\ asleepOnLockLock \subseteq Thread /\ asleepOnList \subseteq Thread
    /\ asleepOnReady \subseteq {Service}
    /\ ready \subseteq DOMAIN pfds
    /\ position \in 0..Len(jobs) + 1 /\ entry \in 0..Len(pfds) + 1
    /\ pc \in [Thread -> {"idle", "top", "wait", "lockLock", "unblock", "lockList", "edit",
                          "collect", "poll", "polling", "run", "purge", "unlock",
                          "dead", "killed"}]
    /\ destructor \in {"no", "cancelled", "waiting", "done"}
    /\ call \in [Caller -> [socket : Socket \cup {NULL}, job : Job \cup {NULL}]]
    /\ calls \in 0..MaxCalls

\* Only one thread is at the job list, from the time it has the lock until it
\* gives it back: no job is run, and no list is walked, while a caller deletes
\* or inserts one.
OneAtTheList ==
    \A t \in Thread :
        pc[t] \in {"edit", "collect", "poll", "polling", "run", "purge", "unlock"} => jobListLocker = t

\* SocketMultiplexer.h:85-87: "once it returns, only the calling thread will
\* be able to lock the job list after any current lock is released".
OnlyTheLockerGetsIt ==
    [][\A t \in Thread :
           lockLocker = t /\ jobListLocker' # jobListLocker
               => jobListLocker' \in {t, NULL}]_muxVars

\* SocketMultiplexer.cpp:94-96 and 128-130: the jobs still to be run are, in
\* their order, those that the rest of pfds was made from, so that what poll
\* says of a socket goes to the job of that socket.
PollMatchesJobs ==
    /\ pc[Service] \in {"poll", "polling"} => pfds = WithJob(jobs)
    /\ pc[Service] = "run" =>
          WithJob(SubSeq(jobs, position, Len(jobs))) = SubSeq(pfds, entry, Len(pfds))

\* A socket has at most one job, and the map knows where it is: a socket that
\* was removed and is added again before the service thread came by too.
OneJobPerSocket ==
    \A i \in DOMAIN jobs : jobs[i].job # NULL => map[jobs[i].socket] = i

\* The service thread does not sleep while there are sockets: no wake-up is lost.
AsleepWithoutSockets ==
    asleepOnReady # {} /\ jobListLocker = NULL => Mapped = {}

\* The nodes that poll spoke of and whose jobs were not run yet.
StillToRun ==
    CASE pc[Service] \in {"poll", "polling"} -> pfds
      [] pc[Service] = "run" -> SubSeq(pfds, entry, Len(pfds))
      [] OTHER -> <<>>

JobOf == [s \in Socket |-> IF map[s] = 0 THEN NULL ELSE jobs[map[s]].job]

PolledJobOf ==
    IF pc[Service] = "collect" THEN JobOf
    ELSE [s \in Socket |->
             IF \E i \in DOMAIN StillToRun : StillToRun[i].socket = s
             THEN StillToRun[CHOOSE i \in DOMAIN StillToRun : StillToRun[i].socket = s].job
             ELSE NULL]

\* The two locks, the list with its removed nodes, the map and the cached poll
\* array together are a table of jobs that is nobody else's during a round.
MuxTable == INSTANCE JobTable WITH
    job <- JobOf, polled <- PolledJobOf, busy <- jobListLocker = Service

\* The multiplexer implements JobTable: it runs a job with what poll said of that
\* job's socket, at most once a round, and no addSocket or removeSocket changes a
\* job between the poll and the run.
TableSpec == MuxTable!TableSpec

\* A caller that has the lock on the lock gets the list, however silent the
\* sockets are, if the service thread has polled before.
LockerGetsTheList ==
    \A t \in Caller : pc[t] = "unblock" /\ pipe ~> jobListLocker = t

\* The destructor returns, if the service thread has polled before it is woken:
\* wherever the cancellation finds it, and whether or not the signal comes in time.
DestructorReturns == (destructor = "cancelled" /\ pipe) ~> (destructor = "done")

\* Nobody who needs the service thread to move on waits for it for ever.
ServiceYields == LockerGetsTheList /\ DestructorReturns

\* SocketMultiplexer.cpp:84: "break thread out of poll".  The caller that
\* waits for the list has woken the service thread.  It has not if it called
\* before the first poll had made the pipe.
BrokenOutOfPoll ==
    \A t \in Caller :
        lockLocker = t /\ pc[t] = "lockList" /\ pc[Service] = "polling" => unblocked

\* The list of jobs, the map into it, the cached poll array and the wake-ups fit
\* each other, through edits while the service thread is between two rounds.
ListFits == MuxTypeOK /\ PollMatchesJobs /\ OneJobPerSocket /\ AsleepWithoutSockets
=============================================================================
