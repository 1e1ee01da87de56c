--------------------------- MODULE Sockets_proofs ---------------------------
(***************************************************************************)
(* Proofs about the multiplexer (SocketMultiplexer), for any number of     *)
(* threads, sockets and calls, and about the sockets that it serves        *)
(* (Sockets), for any number of bytes and connections.                     *)
(*                                                                         *)
(* The multiplexer: first the two locks (LockInv).  Then what the list of  *)
(* jobs, the map, the poll array, the cursors and the wake-ups have to do  *)
(* with each other (Parts), which needs induction over the list, since the *)
(* poll array is made by a walk over it.  Last, that all this together is  *)
(* a JobTable, which is all that the sockets know of it.                   *)
(*                                                                         *)
(* The sockets: whatever a socket waits for is polled, or is about to be   *)
(* (SocketsArePolled), and no input or output is forgotten in the buffers  *)
(* (NothingIsLost).  The inductive invariant says what a job that was made *)
(* a moment ago still gets right when it is set.                           *)
(***************************************************************************)
EXTENDS SocketMultiplexer, Sockets, SequenceTheorems, WellFoundedInduction, TLAPS

\* Where a thread is while it has the list, and while it has the lock on it.  A
\* service thread that was cancelled in its poll never gives the list back.
AtTheList == {"edit", "collect", "poll", "polling", "run", "purge", "unlock", "killed"}
BeforeTheList == {"unblock", "lockList"}

Place == {"idle", "top", "wait", "lockLock", "dead"} \cup BeforeTheList \cup AtTheList

\* A thread is at the list iff it has the list, and on its way to it iff it has
\* the lock on the lock: neither is lost, or given back by somebody else.
LockInv ==
    /\ pc \in [Thread -> Place]
    /\ jobListLocker \in Thread \cup {NULL}
    /\ lockLocker \in Thread \cup {NULL}
    /\ \A t \in Thread : jobListLocker = t <=> pc[t] \in AtTheList
    /\ \A t \in Thread : lockLocker = t <=> pc[t] \in BeforeTheList

LEMMA LockInit == MuxInit => LockInv
BY MultiplexerAssumption
   DEF MuxInit, LockInv, Place, AtTheList, BeforeTheList, Thread

\* What a step must do to keep the locks: it moves one thread, and a lock is
\* taken from nobody or given back by that thread.
LEMMA MoveKeepsLocks ==
    ASSUME LockInv, NEW t \in Thread, NEW place \in Place,
           pc' = [pc EXCEPT ![t] = place],
           place \in AtTheList <=> jobListLocker' = t,
           place \in BeforeTheList <=> lockLocker' = t,
           \/ jobListLocker' = jobListLocker
           \/ jobListLocker = NULL /\ jobListLocker' = t
           \/ jobListLocker = t /\ jobListLocker' = NULL,
           \/ lockLocker' = lockLocker
           \/ lockLocker = NULL /\ lockLocker' = t
           \/ lockLocker = t /\ lockLocker' = NULL
    PROVE  LockInv'
<1>1. NULL \notin Thread
  BY MultiplexerAssumption
<1>2. \A u \in Thread : pc'[u] = IF u = t THEN place ELSE pc[u]
  BY DEF LockInv
<1>3. pc' \in [Thread -> Place]
  BY DEF LockInv
<1>4. \A u \in Thread : jobListLocker' = u <=> pc'[u] \in AtTheList
  BY <1>1, <1>2 DEF LockInv
<1>5. \A u \in Thread : lockLocker' = u <=> pc'[u] \in BeforeTheList
  BY <1>1, <1>2 DEF LockInv
<1> QED
  BY <1>3, <1>4, <1>5 DEF LockInv

\* The steps that take neither lock and move one thread in its own part.
LEMMA QuietMove ==
    ASSUME LockInv, NEW t \in Thread, NEW place \in Place,
           pc' = [pc EXCEPT ![t] = place], UNCHANGED <<jobListLocker, lockLocker>>,
           place \in AtTheList <=> pc[t] \in AtTheList,
           place \in BeforeTheList <=> pc[t] \in BeforeTheList
    PROVE  LockInv'
BY MoveKeepsLocks DEF LockInv

LEMMA StayKeepsLocks ==
    ASSUME LockInv, UNCHANGED <<pc, jobListLocker, lockLocker>>
    PROVE  LockInv'
BY DEF LockInv

LEMMA LockingKeepsLocks ==
    ASSUME LockInv, NEW t \in Thread, Locking(t)
    PROVE  LockInv'
<1>1. CASE lockJobListLock(t)
  <2>1. CASE lockLocker # NULL
    BY <1>1, <2>1, StayKeepsLocks DEF lockJobListLock, LockIsFree
  <2>2. CASE lockLocker = NULL
    <3> DEFINE place == IF t = Service THEN "lockList" ELSE "unblock"
    <3>1. place \in BeforeTheList /\ place \notin AtTheList /\ place \in Place
      BY DEF BeforeTheList, AtTheList, Place
    <3>2. pc' = [pc EXCEPT ![t] = place] /\ lockLocker' = t
          /\ jobListLocker' = jobListLocker
      BY <1>1, <2>2 DEF lockJobListLock, LockIsFree, Goto
    <3>3. jobListLocker # t
      BY <1>1 DEF lockJobListLock, LockInv, AtTheList
    <3> HIDE DEF place
    <3> QED
      BY <2>2, <3>1, <3>2, <3>3, MoveKeepsLocks
  <2> QED
    BY <2>1, <2>2
<1>2. CASE lockJobList(t)
  <2>1. CASE jobListLocker # NULL
    BY <1>2, <2>1, StayKeepsLocks DEF lockJobList, ListIsFree
  <2>2. CASE jobListLocker = NULL
    <3> DEFINE place == IF t = Service THEN "collect" ELSE "edit"
    <3>1. place \in AtTheList /\ place \notin BeforeTheList /\ place \in Place
      BY DEF BeforeTheList, AtTheList, Place
    <3>2. pc' = [pc EXCEPT ![t] = place] /\ lockLocker' = NULL /\ jobListLocker' = t
      BY <1>2, <2>2 DEF lockJobList, ListIsFree, Goto
    <3>3. lockLocker = t
      BY <1>2 DEF lockJobList, LockInv, BeforeTheList
    <3>4. lockLocker' # t
      BY <3>2, MultiplexerAssumption
    <3> HIDE DEF place
    <3> QED
      BY <2>2, <3>1, <3>2, <3>3, <3>4, MoveKeepsLocks
  <2> QED
    BY <2>1, <2>2
<1>3. CASE unlockJobList(t)
  <2> DEFINE place == IF t = Service THEN "top" ELSE "idle"
  <2>1. place \in Place /\ place \notin AtTheList /\ place \notin BeforeTheList
    BY DEF Place, AtTheList, BeforeTheList
  <2>2. pc' = [pc EXCEPT ![t] = place] /\ jobListLocker' = NULL
        /\ lockLocker' = lockLocker
    BY <1>3 DEF unlockJobList, Goto
  <2>3. jobListLocker = t /\ lockLocker # t
    BY <1>3 DEF unlockJobList, LockInv, AtTheList, BeforeTheList
  <2>4. jobListLocker' # t
    BY <2>2, MultiplexerAssumption
  <2> HIDE DEF place
  <2> QED
    BY <2>1, <2>2, <2>3, <2>4, MoveKeepsLocks
<1> QED
  BY <1>1, <1>2, <1>3 DEF Locking

LEMMA CallerKeepsLocks ==
    ASSUME LockInv, NEW t \in Caller,
           \/ Call(t)
           \/ \E s \in Socket, new \in Job \cup {NULL} : Calls(t, s, new)
    PROVE  LockInv'
<1> t \in Thread
  BY DEF Thread
<1>1. CASE unblockPollSocket(t)
  BY <1>1, QuietMove
     DEF unblockPollSocket, Goto, locks, Place, AtTheList, BeforeTheList
<1>2. CASE Edit(t)
  BY <1>2, QuietMove DEF Edit, Goto, locks, Place, AtTheList, BeforeTheList
<1>3. ASSUME NEW s \in Socket, NEW new \in Job \cup {NULL}, Calls(t, s, new)
      PROVE  LockInv'
  BY <1>3, QuietMove DEF Calls, Goto, locks, Place, AtTheList, BeforeTheList
<1> QED
  BY <1>1, <1>2, <1>3 DEF Call

LEMMA ServiceKeepsLocks ==
    ASSUME LockInv, RunRounds \/ SocketsReady \/ PollFails
    PROVE  LockInv'
<1> Service \in Thread
  BY DEF Thread
<1>1. CASE WaitForJobs
  <2>1. CASE jobsReady
    BY <1>1, <2>1, QuietMove
       DEF WaitForJobs, Goto, locks, Place, AtTheList, BeforeTheList
  <2>2. CASE ~jobsReady
    BY <1>1, <2>2, StayKeepsLocks DEF WaitForJobs, locks
  <2> QED
    BY <2>1, <2>2
<1>2. CASE Collect \/ NothingToPoll \/ EnterPoll
  BY <1>2, QuietMove
     DEF Collect, NothingToPoll, EnterPoll, Goto, locks, Place, AtTheList, BeforeTheList
<1>3. ASSUME NEW found, PollReturns(found) PROVE LockInv'
  <2> DEFINE place == IF found = {} THEN "purge" ELSE "run"
  <2>1. place \in AtTheList /\ place \in Place /\ place \notin BeforeTheList
    BY DEF Place, AtTheList, BeforeTheList
  <2>2. pc' = [pc EXCEPT ![Service] = place] /\ UNCHANGED <<jobListLocker, lockLocker>>
    BY <1>3 DEF PollReturns, Goto, locks
  <2>3. pc[Service] \in AtTheList /\ pc[Service] \notin BeforeTheList
    BY <1>3 DEF PollReturns, AtTheList, BeforeTheList
  <2> HIDE DEF place
  <2> QED
    BY <2>1, <2>2, <2>3, QuietMove
<1>4. CASE RunJob \/ SkipNode
  BY <1>4, StayKeepsLocks DEF RunJob, SkipNode, locks
<1>5. CASE RunEnds \/ Purge
  BY <1>5, QuietMove
     DEF RunEnds, Purge, Goto, locks, Place, AtTheList, BeforeTheList
<1>6. CASE TestCancel
  <2> DEFINE place == IF Cancelled THEN "dead" ELSE "wait"
  <2>1. place \in Place /\ place \notin AtTheList /\ place \notin BeforeTheList
    BY DEF Place, AtTheList, BeforeTheList
  <2>2. pc' = [pc EXCEPT ![Service] = place] /\ UNCHANGED <<jobListLocker, lockLocker>>
    BY <1>6 DEF TestCancel, Goto, locks
  <2>3. pc[Service] \notin AtTheList /\ pc[Service] \notin BeforeTheList
    BY <1>6 DEF TestCancel, AtTheList, BeforeTheList
  <2> HIDE DEF place
  <2> QED
    BY <2>1, <2>2, <2>3, QuietMove
<1>7. CASE PollFails
  BY <1>7, QuietMove DEF PollFails, Goto, locks, Place, AtTheList, BeforeTheList
<1> QED
  BY <1>1, <1>2, <1>3, <1>4, <1>5, <1>6, <1>7 DEF RunRounds, SocketsReady, PollUnblocked

\* The destructor takes no lock; the poll it may break off had the list.
LEMMA DestructorKeepsLocks ==
    ASSUME LockInv, Cancel \/ Destructor
    PROVE  LockInv'
<1> Service \in Thread
  BY DEF Thread
<1>1. CASE Cancel
  <2>1. CASE UNCHANGED pc
    BY <1>1, <2>1, StayKeepsLocks DEF Cancel, locks
  <2>2. CASE pc[Service] = "polling" /\ Goto(Service, "killed")
    BY <1>1, <2>2, QuietMove DEF Cancel, Goto, locks, Place, AtTheList, BeforeTheList
  <2> QED
    BY <1>1, <2>1, <2>2 DEF Cancel
<1>2. CASE Destructor
  BY <1>2, StayKeepsLocks DEF Destructor, UnblockService, ThreadEnded, locks
<1> QED
  BY <1>1, <1>2

LEMMA LockStep == LockInv /\ [MuxNext]_muxVars => LockInv'
<1> SUFFICES ASSUME LockInv, [MuxNext]_muxVars PROVE LockInv'
  OBVIOUS
<1>1. CASE \E t \in Thread : Locking(t)
  BY <1>1, LockingKeepsLocks
<1>2. CASE \E t \in Caller : Call(t)
  BY <1>2, CallerKeepsLocks
<1>3. CASE \E t \in Caller, s \in Socket, new \in Job \cup {NULL} : Calls(t, s, new)
  BY <1>3, CallerKeepsLocks
<1>4. CASE RunRounds \/ SocketsReady \/ PollFails
  BY <1>4, ServiceKeepsLocks
<1>5. CASE Cancel \/ Destructor
  BY <1>5, DestructorKeepsLocks
<1>6. CASE \E t \in Thread : Wakes(t)
  BY <1>6, StayKeepsLocks DEF Wakes, locks
<1>7. CASE UNCHANGED muxVars
  BY <1>7, StayKeepsLocks DEF muxVars, locks
<1> QED
  BY <1>1, <1>2, <1>3, <1>4, <1>5, <1>6, <1>7 DEF MuxNext

\* The two locks of lockJobListLock and lockJobList are owned by exactly the
\* threads that are between taking them and giving them back.
THEOREM LocksAreOwned == MuxSpec => []LockInv
BY LockInit, LockStep, PTL DEF MuxSpec

\* addSocket, removeSocket and the service thread: only one thread is at the
\* job list, from lockJobList to unlockJobList, however many there are.
THEOREM ListIsExclusive == MuxSpec => []OneAtTheList
<1>1. LockInv => OneAtTheList
  BY DEF LockInv, OneAtTheList, AtTheList
<1> QED
  BY <1>1, LocksAreOwned, PTL

\* lockJobListLock keeps what its comment says: whoever has the lock on the lock
\* is the next to have the list.
THEOREM LockerIsNext == MuxSpec => OnlyTheLockerGetsIt
<1>1. ASSUME LockInv, MuxNext, NEW t \in Thread, lockLocker = t,
             jobListLocker' # jobListLocker
      PROVE  jobListLocker' \in {t, NULL}
  <2>1. ASSUME NEW u \in Thread, lockJobList(u) PROVE jobListLocker' \in {t, NULL}
    <3>1. lockLocker = u
      BY <1>1, <2>1 DEF lockJobList, LockInv, BeforeTheList
    <3>2. jobListLocker' = u
      BY <1>1, <2>1 DEF lockJobList
    <3> QED
      BY <1>1, <3>1, <3>2
  <2>2. ASSUME NEW u \in Thread, lockJobListLock(u) \/ unlockJobList(u)
        PROVE  jobListLocker' \in {t, NULL}
    BY <1>1, <2>2 DEF lockJobListLock, unlockJobList
  <2>3. CASE \E u \in Caller : Call(u)
    BY <1>1, <2>3 DEF Call, unblockPollSocket, Edit, locks
  <2>4. CASE \E u \in Caller, s \in Socket, new \in Job \cup {NULL} : Calls(u, s, new)
    BY <1>1, <2>4 DEF Calls, locks
  <2>5. CASE RunRounds \/ SocketsReady \/ PollFails
    BY <1>1, <2>5 DEF RunRounds, SocketsReady, PollFails, TestCancel, WaitForJobs, Collect,
       NothingToPoll, EnterPoll, PollUnblocked, PollReturns, RunJob, SkipNode, RunEnds, Purge, locks
  <2>6. CASE \/ Cancel \/ Destructor
             \/ \E u \in Thread : Wakes(u)
    BY <1>1, <2>6 DEF Cancel, Destructor, UnblockService, ThreadEnded, Wakes, locks
  <2> QED
    BY <1>1, <2>1, <2>2, <2>3, <2>4, <2>5, <2>6 DEF MuxNext, Locking
<1>2. LockInv /\ [MuxNext]_muxVars
          => [\A t \in Thread :
                  lockLocker = t /\ jobListLocker' # jobListLocker
                      => jobListLocker' \in {t, NULL}]_muxVars
  BY <1>1
<1> QED
  BY <1>2, LocksAreOwned, PTL DEF MuxSpec, OnlyTheLockerGetsIt

-----------------------------------------------------------------------------
(***************************************************************************)
(* Induction.  A set of natural numbers has a least element, because < is  *)
(* well founded; from it, induction over numbers and over sequences, for a *)
(* set instead of a predicate.                                             *)
(***************************************************************************)
LEMMA LeastNat ==
    ASSUME NEW T \in SUBSET Nat, T # {}
    PROVE  \E n \in T : \A m \in T : n <= m
<1>1. IsWellFoundedOn(OpToRel(<, Nat), Nat)
  BY NatLessThanWellFounded
<1>2. PICK n \in T : \A m \in T : ~(<<m, n>> \in OpToRel(<, Nat))
  BY <1>1, WFMin
<1>3. \A m \in T : ~(m < n)
  BY <1>2 DEF OpToRel
<1> QED
  BY <1>3

LEMMA SetInduction ==
    ASSUME NEW I, 0 \in I, \A n \in Nat : n \in I => n + 1 \in I
    PROVE  Nat \subseteq I
<1> SUFFICES ASSUME Nat \ I # {} PROVE FALSE
  OBVIOUS
<1>1. PICK n \in Nat \ I : \A m \in Nat \ I : n <= m
  BY LeastNat
<1>2. n # 0 /\ n - 1 \in Nat /\ n - 1 \in I
  BY <1>1
<1>3. (n - 1) + 1 \in I
  BY <1>2
<1> QED
  BY <1>1, <1>3

LEMMA SeqInduction ==
    ASSUME NEW S, NEW I, <<>> \in I,
           \A s \in Seq(S), e \in S : s \in I => Append(s, e) \in I
    PROVE  Seq(S) \subseteq I
<1> DEFINE L == {n \in Nat : \A s \in Seq(S) : Len(s) = n => s \in I}
<1>1. 0 \in L
  <2>1. \A s \in Seq(S) : Len(s) = 0 => s = <<>>
    BY EmptySeq
  <2> QED
    BY <2>1
<1>2. ASSUME NEW n \in Nat, n \in L PROVE n + 1 \in L
  <2> SUFFICES ASSUME NEW s \in Seq(S), Len(s) = n + 1 PROVE s \in I
    OBVIOUS
  <2>1. s # <<>>
    OBVIOUS
  <2>2. PICK t \in Seq(S), e \in S : s = Append(t, e)
    BY <2>1, SequenceEmptyOrAppend
  <2>3. Len(t) = n
    BY <2>2, AppendProperties, LenProperties
  <2> QED
    BY <1>2, <2>2, <2>3
<1> HIDE DEF L
<1>3. Nat \subseteq L
  BY <1>1, <1>2, SetInduction
<1> QED
  BY <1>3, LenProperties DEF L

(***************************************************************************)
(* WithJob.  The recursive function in it exists; then what it does with   *)
(* one node more at the end, and at the front.                             *)
(***************************************************************************)
\* c holds what is collected from the first n nodes, for n up to m.
Walk(nodes, m, c) ==
    c = [n \in 0..m |->
            IF n = 0 THEN <<>>
            ELSE IF nodes[n].job = NULL THEN c[n - 1]
            ELSE Append(c[n - 1], nodes[n])]

LEMMA WalkExists ==
    ASSUME NEW nodes
    PROVE  \A m \in Nat : \E c : Walk(nodes, m, c)
<1> DEFINE I == {m \in Nat : \E c : Walk(nodes, m, c)}
<1>1. 0 \in I
  <2>1. Walk(nodes, 0, [n \in 0..0 |-> <<>>])
    BY DEF Walk
  <2> QED
    BY <2>1
<1>2. ASSUME NEW m \in Nat, m \in I PROVE m + 1 \in I
  <2>1. PICK c : Walk(nodes, m, c)
    BY <1>2
  <2> DEFINE place == IF nodes[m + 1].job = NULL THEN c[m] ELSE Append(c[m], nodes[m + 1])
             d == [n \in 0..m + 1 |-> IF n = m + 1 THEN place ELSE c[n]]
  <2>2. \A n \in 0..m : d[n] = c[n]
    OBVIOUS
  <2>3. ASSUME NEW n \in 0..m + 1 PROVE d[n] = IF n = 0 THEN <<>>
            ELSE IF nodes[n].job = NULL THEN d[n - 1]
            ELSE Append(d[n - 1], nodes[n])
    <3>1. CASE n = m + 1
      <4>1. d[n] = place /\ d[n - 1] = c[m]
        BY <3>1
      <4> QED
        BY <3>1, <4>1
    <3>2. CASE n # m + 1
      <4>1. n \in 0..m /\ (n # 0 => n - 1 \in 0..m)
        BY <3>2
      <4>2. d[n] = c[n] /\ (n # 0 => d[n - 1] = c[n - 1])
        BY <4>1, <2>2
      <4> HIDE DEF d
      <4> QED
        BY <2>1, <4>1, <4>2 DEF Walk
    <3> QED
      BY <3>1, <3>2
  <2>4. Walk(nodes, m + 1, d)
    BY <2>3 DEF Walk
  <2> QED
    BY <2>4
<1> HIDE DEF I
<1>3. Nat \subseteq I
  BY <1>1, <1>2, SetInduction
<1> QED
  BY <1>3 DEF I

LEMMA WithJobWalk == ASSUME NEW nodes, Len(nodes) \in Nat
  PROVE \E c : Walk(nodes, Len(nodes), c) /\ WithJob(nodes) = c[Len(nodes)]
<1>0. \E c : Walk(nodes, Len(nodes), c)
  BY WalkExists
<1> DEFINE chosen == CHOOSE c : Walk(nodes, Len(nodes), c)
<1>1. Walk(nodes, Len(nodes), chosen)
  BY <1>0
<1>2. WithJob(nodes) = chosen[Len(nodes)]
  BY DEF WithJob, Walk
<1> QED
  BY <1>1, <1>2

Agree(s, t, m) == \A i \in 1..m : s[i] = t[i]

LEMMA WalksAgree ==
    ASSUME NEW s, NEW t, NEW c, NEW d, NEW m \in Nat, NEW n \in Nat,
           Walk(s, m, c), Walk(t, n, d), m <= n, Agree(s, t, m)
    PROVE  c[m] = d[m]
<1> DEFINE I == {k \in Nat : k <= m => c[k] = d[k]}
<1>1. 0 \in I
  BY DEF Walk
<1>2. ASSUME NEW k \in Nat, k \in I PROVE k + 1 \in I
  <2> SUFFICES ASSUME k + 1 <= m PROVE c[k + 1] = d[k + 1]
    OBVIOUS
  <2>1. c[k] = d[k] /\ s[k + 1] = t[k + 1] /\ k + 1 # 0 /\ (k + 1) - 1 = k
        /\ k + 1 \in 0..m /\ k + 1 \in 0..n
    BY <1>2 DEF Agree
  <2>2. c[k + 1] = (IF s[k + 1].job = NULL THEN c[k] ELSE Append(c[k], s[k + 1]))
    BY <2>1 DEF Walk
  <2>3. d[k + 1] = (IF t[k + 1].job = NULL THEN d[k] ELSE Append(d[k], t[k + 1]))
    BY <2>1 DEF Walk
  <2> QED
    BY <2>1, <2>2, <2>3
<1> HIDE DEF I
<1>3. Nat \subseteq I
  BY <1>1, <1>2, SetInduction
<1>4. m \in I
  BY <1>3
<1> QED
  BY <1>4 DEF I

LEMMA WithJobEmpty == WithJob(<<>>) = <<>>
<1>1. Len(<<>>) = 0
  OBVIOUS
<1>2. PICK c : Walk(<<>>, 0, c) /\ WithJob(<<>>) = c[0]
  BY <1>1, WithJobWalk
<1> QED
  BY <1>2 DEF Walk

LEMMA WalkOn ==
    ASSUME NEW s, NEW t, NEW n \in Nat, NEW c, NEW d,
           Walk(s, n, c), Walk(t, n + 1, d), Agree(s, t, n)
    PROVE  d[n + 1] = IF t[n + 1].job = NULL THEN c[n] ELSE Append(c[n], t[n + 1])
<1>1. n + 1 \in Nat /\ n <= n + 1 /\ n + 1 # 0 /\ (n + 1) - 1 = n /\ n + 1 \in 0..n + 1
  OBVIOUS
<1>2. c[n] = d[n]
  BY <1>1, WalksAgree
<1> QED
  BY <1>1, <1>2 DEF Walk

LEMMA WithJobAppend ==
    ASSUME NEW nodes \in Seq(Node), NEW e \in Node
    PROVE  WithJob(Append(nodes, e))
             = IF e.job = NULL THEN WithJob(nodes) ELSE Append(WithJob(nodes), e)
<1> DEFINE more == Append(nodes, e)
<1>1. Len(nodes) \in Nat /\ Len(more) = Len(nodes) + 1 /\ more[Len(nodes) + 1] = e
  BY AppendProperties
<1>2. Agree(nodes, more, Len(nodes))
  BY AppendProperties DEF Agree
<1> HIDE DEF more
<1>3. PICK c : Walk(nodes, Len(nodes), c) /\ WithJob(nodes) = c[Len(nodes)]
  BY <1>1, WithJobWalk
<1>4. PICK d : Walk(more, Len(nodes) + 1, d) /\ WithJob(more) = d[Len(nodes) + 1]
  BY <1>1, WithJobWalk
<1>5. d[Len(nodes) + 1] = IF more[Len(nodes) + 1].job = NULL THEN c[Len(nodes)]
                          ELSE Append(c[Len(nodes)], more[Len(nodes) + 1])
  BY <1>1, <1>2, <1>3, <1>4, WalkOn
<1> QED
  BY <1>1, <1>3, <1>4, <1>5 DEF more

LEMMA WithJobType == \A nodes \in Seq(Node) : WithJob(nodes) \in Seq(Node)
<1> DEFINE I == {nodes \in Seq(Node) : WithJob(nodes) \in Seq(Node)}
<1>1. <<>> \in I
  <2>1. <<>> \in Seq(Node)
    OBVIOUS
  <2> QED
    BY <2>1, WithJobEmpty
<1>2. ASSUME NEW s \in Seq(Node), NEW e \in Node, s \in I PROVE Append(s, e) \in I
  <2>1. WithJob(Append(s, e)) \in Seq(Node)
    BY <1>2, WithJobAppend
  <2> QED
    BY <2>1
<1> HIDE DEF I
<1>3. Seq(Node) \subseteq I
  BY <1>1, <1>2, SeqInduction
<1> QED
  BY <1>3 DEF I

LEMMA WithJobFront ==
    ASSUME NEW e \in Node
    PROVE  \A nodes \in Seq(Node) :
              WithJob(<<e>> \o nodes)
                = IF e.job = NULL THEN WithJob(nodes) ELSE <<e>> \o WithJob(nodes)
<1> DEFINE Goal(nodes) == WithJob(<<e>> \o nodes)
                = IF e.job = NULL THEN WithJob(nodes) ELSE <<e>> \o WithJob(nodes)
           I == {nodes \in Seq(Node) : Goal(nodes)}
<1>1. Goal(<<>>)
  <2>1. <<e>> \o <<>> = Append(<<>>, e) /\ <<>> \in Seq(Node)
    OBVIOUS
  <2>2. WithJob(Append(<<>>, e)) = IF e.job = NULL THEN <<>> ELSE Append(<<>>, e)
    BY <2>1, WithJobAppend, WithJobEmpty
  <2> QED
    BY <2>1, <2>2, WithJobEmpty
<1>2. ASSUME NEW s \in Seq(Node), NEW f \in Node, Goal(s) PROVE Goal(Append(s, f))
  <2>1. <<e>> \o Append(s, f) = Append(<<e>> \o s, f) /\ <<e>> \o s \in Seq(Node)
    OBVIOUS
  <2>2. WithJob(<<e>> \o Append(s, f))
          = IF f.job = NULL THEN WithJob(<<e>> \o s) ELSE Append(WithJob(<<e>> \o s), f)
    BY <2>1, WithJobAppend
  <2>3. WithJob(Append(s, f)) = IF f.job = NULL THEN WithJob(s) ELSE Append(WithJob(s), f)
    BY WithJobAppend
  <2>4. WithJob(s) \in Seq(Node)
    BY WithJobType
  <2>5. <<e>> \o Append(WithJob(s), f) = Append(<<e>> \o WithJob(s), f)
    BY <2>4
  <2> QED
    BY <1>2, <2>2, <2>3, <2>5
<1> HIDE DEF Goal
<1>3. <<>> \in I /\ \A s \in Seq(Node), f \in Node : s \in I => Append(s, f) \in I
  BY <1>1, <1>2
<1> HIDE DEF I
<1>4. Seq(Node) \subseteq I
  BY <1>3, SeqInduction
<1> QED
  BY <1>4 DEF I, Goal

\* What is collected is the nodes that have a job.
LEMMA WithJobNodes ==
    \A nodes \in Seq(Node) :
        {WithJob(nodes)[i] : i \in DOMAIN WithJob(nodes)}
          = {node \in {nodes[i] : i \in DOMAIN nodes} : node.job # NULL}
<1> DEFINE Nodes(s) == {s[i] : i \in DOMAIN s}
           Goal(s) == Nodes(WithJob(s)) = {node \in Nodes(s) : node.job # NULL}
           I == {nodes \in Seq(Node) : Goal(nodes)}
<1>1. Goal(<<>>)
  BY WithJobEmpty
<1>2. ASSUME NEW s \in Seq(Node), NEW f \in Node PROVE Nodes(Append(s, f)) = Nodes(s) \cup {f}
  <2>1. DOMAIN Append(s, f) = DOMAIN s \cup {Len(s) + 1}
    BY AppendProperties, LenProperties
  <2>2. DOMAIN s = 1..Len(s)
    BY LenProperties
  <2> QED
    BY <2>1, <2>2, AppendProperties
<1>3. ASSUME NEW s \in Seq(Node), NEW f \in Node, Goal(s) PROVE Goal(Append(s, f))
  <2>1. Nodes(Append(s, f)) = Nodes(s) \cup {f}
    BY <1>2
  <2>2. CASE f.job = NULL
    <3>1. WithJob(Append(s, f)) = WithJob(s)
      BY <2>2, WithJobAppend
    <3> HIDE DEF Nodes
    <3> QED
      BY <1>3, <2>1, <2>2, <3>1
  <2>3. CASE f.job # NULL
    <3>1. WithJob(Append(s, f)) = Append(WithJob(s), f) /\ WithJob(s) \in Seq(Node)
      BY <2>3, WithJobAppend, WithJobType
    <3>2. Nodes(WithJob(Append(s, f))) = Nodes(WithJob(s)) \cup {f}
      BY <1>2, <3>1
    <3> HIDE DEF Nodes
    <3> QED
      BY <1>3, <2>1, <2>3, <3>2
  <2> QED
    BY <2>2, <2>3
<1> HIDE DEF Goal
<1>4. <<>> \in I /\ \A s \in Seq(Node), f \in Node : s \in I => Append(s, f) \in I
  BY <1>1, <1>3
<1> HIDE DEF I
<1>5. Seq(Node) \subseteq I
  BY <1>4, SeqInduction
<1> QED
  BY <1>5 DEF I, Goal

-----------------------------------------------------------------------------
LEMMA NodeOf ==
    ASSUME NEW nodes \in Seq(Node), NEW i \in DOMAIN nodes
    PROVE  /\ nodes[i] \in Node
           /\ nodes[i].socket \in Socket /\ nodes[i].job \in Job \cup {NULL}
<1>1. nodes[i] \in Node
  BY LenProperties
<1> QED
  BY <1>1 DEF Node

\* A node's job is replaced and everything else stays.
LEMMA SetJobOfNode ==
    ASSUME NEW nodes \in Seq(Node), NEW i \in DOMAIN nodes, NEW new \in Job \cup {NULL}
    PROVE  LET after == [nodes EXCEPT ![i].job = new] IN
           /\ after \in Seq(Node) /\ Len(after) = Len(nodes) /\ DOMAIN after = DOMAIN nodes
           /\ after[i] = [socket |-> nodes[i].socket, job |-> new]
           /\ \A j \in DOMAIN nodes : j # i => after[j] = nodes[j]
<1> DEFINE node == [nodes[i] EXCEPT !.job = new]
           after == [nodes EXCEPT ![i].job = new]
<1>1. after = [nodes EXCEPT ![i] = node]
  OBVIOUS
<1>2. DOMAIN nodes = 1..Len(nodes) /\ nodes[i] \in Node
  BY LenProperties
<1>3. node \in Node /\ node = [socket |-> nodes[i].socket, job |-> new]
  BY <1>2 DEF Node
<1> HIDE DEF node
<1>4. /\ [nodes EXCEPT ![i] = node] \in Seq(Node)
      /\ Len([nodes EXCEPT ![i] = node]) = Len(nodes)
      /\ \A j \in 1..Len(nodes) : [nodes EXCEPT ![i] = node][j] = IF j = i THEN node ELSE nodes[j]
  BY <1>2, <1>3, ExceptSeq
<1>5. DOMAIN [nodes EXCEPT ![i] = node] = 1..Len(nodes)
  BY <1>4, LenProperties
<1> QED
  BY <1>1, <1>2, <1>3, <1>4, <1>5

\* The list and the map: the map points to a socket's own node.
Cells ==
    /\ jobs \in Seq(Node)
    /\ map \in [Socket -> 0..Len(jobs)]
    /\ \A s \in Socket : map[s] # 0 => jobs[map[s]].socket = s
    /\ OneJobPerSocket

\* The poll array is up to date unless m_update says that it is not.
Cache ==
    /\ pfds \in Seq(Node) /\ update \in BOOLEAN
    /\ ~update => pfds = WithJob(jobs)
    /\ pc[Service] \in {"poll", "polling"} => ~update

\* The two cursors move together through the nodes that are still to be run.
Cursors ==
    /\ position \in 0..Len(jobs) + 1 /\ entry \in 0..Len(pfds) + 1
    /\ ready \subseteq DOMAIN pfds
    /\ pc[Service] = "run" =>
          /\ position # 0 /\ entry # 0
          /\ WithJob(SubSeq(jobs, position, Len(jobs))) = SubSeq(pfds, entry, Len(pfds))
    /\ pc[Service] # "run" => position <= 1 /\ entry <= 1 /\ ready = {}

\* Who is asleep for want of jobs was asleep when the list was last given back,
\* and then there were none.
Waking ==
    /\ asleepOnLockLock \subseteq Thread /\ asleepOnList \subseteq Thread
    /\ asleepOnReady \subseteq {Service} /\ jobsReady \in BOOLEAN
    /\ asleepOnReady # {} => ~jobsReady
    /\ jobListLocker = NULL => jobsReady = (Mapped # {})

\* A call on its way to the list is about a socket.
CallsFit ==
    /\ pipe \in BOOLEAN /\ unblocked \in BOOLEAN
    /\ destructor \in {"no", "cancelled", "waiting", "done"}
    /\ call \in [Caller -> [socket : Socket \cup {NULL}, job : Job \cup {NULL}]]
    /\ calls \in 0..MaxCalls
    /\ \A t \in Caller :
          pc[t] \in {"lockLock", "unblock", "lockList", "edit"} => call[t].socket \in Socket

Parts == Cells /\ Cache /\ Cursors /\ Waking /\ CallsFit
Inv == LockInv /\ Parts

LEMMA CellsStay ==
    ASSUME Cells, UNCHANGED <<jobs, map>>
    PROVE  Cells'
BY DEF Cells, OneJobPerSocket

\* Insert puts a job at the end for a socket that has no node in the map.
LEMMA InsertKeepsCells ==
    ASSUME Cells, NEW s \in Socket, NEW new \in Job, map[s] = 0, Insert(s, new)
    PROVE  Cells'
<1> DEFINE node == [socket |-> s, job |-> new]
<1>1. node \in Node /\ jobs' = Append(jobs, node) /\ jobs \in Seq(Node)
  BY DEF Insert, Node, Cells
<1>2. /\ jobs' \in Seq(Node) /\ Len(jobs') = Len(jobs) + 1 /\ Len(jobs) \in Nat
      /\ \A i \in 1..Len(jobs) : jobs'[i] = jobs[i]
      /\ jobs'[Len(jobs) + 1] = node
  BY <1>1, AppendProperties
<1>3. DOMAIN jobs = 1..Len(jobs) /\ DOMAIN jobs' = 1..Len(jobs) + 1
  BY <1>1, <1>2, LenProperties
<1>4. map' = [map EXCEPT ![s] = Len(jobs) + 1] /\ map \in [Socket -> 0..Len(jobs)]
  BY DEF Insert, AtEnd, Cells
<1>5. map' \in [Socket -> 0..Len(jobs')]
  BY <1>2, <1>4
<1>6. ASSUME NEW u \in Socket, map'[u] # 0 PROVE jobs'[map'[u]].socket = u
  <2>1. CASE u = s
    BY <1>2, <1>4, <2>1
  <2>2. CASE u # s
    BY <1>2, <1>4, <1>6, <2>2 DEF Cells
  <2> QED
    BY <2>1, <2>2
<1>7. ASSUME NEW i \in DOMAIN jobs', jobs'[i].job # NULL PROVE map'[jobs'[i].socket] = i
  <2>1. CASE i = Len(jobs) + 1
    BY <1>2, <1>4, <2>1
  <2>2. CASE i # Len(jobs) + 1
    <3>1. i \in DOMAIN jobs /\ jobs'[i] = jobs[i] /\ i # 0
      BY <1>2, <1>3, <2>2
    <3>2. map[jobs[i].socket] = i /\ jobs[i].socket \in Socket
      BY <1>1, <1>7, <3>1, NodeOf DEF Cells, OneJobPerSocket
    <3> QED
      BY <1>4, <3>1, <3>2
  <2> QED
    BY <2>1, <2>2
<1> QED
  BY <1>2, <1>5, <1>6, <1>7 DEF Cells, OneJobPerSocket

\* A node that the map points to, or that has a job, gets another job or none.
LEMMA NodeKeepsCells ==
    ASSUME Cells, NEW i \in DOMAIN jobs, NEW new \in Job \cup {NULL},
           jobs' = [jobs EXCEPT ![i].job = new], map' = map,
           map[jobs[i].socket] = i
    PROVE  Cells'
<1>1. /\ jobs' \in Seq(Node) /\ Len(jobs') = Len(jobs) /\ DOMAIN jobs' = DOMAIN jobs
      /\ jobs'[i] = [socket |-> jobs[i].socket, job |-> new]
      /\ \A j \in DOMAIN jobs : j # i => jobs'[j] = jobs[j]
  BY SetJobOfNode DEF Cells
<1>2. \A j \in DOMAIN jobs : jobs'[j].socket = jobs[j].socket
  BY <1>1
<1>3. DOMAIN jobs = 1..Len(jobs) /\ Len(jobs) \in Nat
  BY LenProperties DEF Cells
<1>4. \A s \in Socket : map'[s] # 0 => jobs'[map'[s]].socket = s
  BY <1>2, <1>3 DEF Cells
<1>5. OneJobPerSocket'
  BY <1>1, <1>2 DEF OneJobPerSocket, Cells
<1> QED
  BY <1>1, <1>4, <1>5 DEF Cells

LEMMA ReplaceKeepsCells ==
    ASSUME Cells, NEW s \in Socket, NEW new \in Job \cup {NULL}, map[s] # 0, Replace(s, new)
    PROVE  Cells'
<1>1. map[s] \in DOMAIN jobs
  BY LenProperties DEF Cells
<1>2. jobs[map[s]].socket = s
  BY DEF Cells
<1> QED
  BY <1>1, <1>2, NodeKeepsCells DEF Replace

LEMMA EditKeepsCells ==
    ASSUME Parts, NEW t \in Caller, Edit(t)
    PROVE  Cells'
<1> DEFINE s == call[t].socket
           new == call[t].job
<1>1. s \in Socket /\ new \in Job \cup {NULL} /\ Cells
  BY DEF Edit, Parts, CallsFit
<1>2. CASE new = NULL /\ ~(map[s] # 0 /\ jobs[map[s]].job # NULL)
  BY <1>1, <1>2, CellsStay DEF Edit, Remove, list
<1>3. CASE new = NULL /\ map[s] # 0 /\ jobs[map[s]].job # NULL
  <2>1. Replace(s, NULL)
    BY <1>3 DEF Edit, Remove
  <2> HIDE DEF s, new
  <2> QED
    BY <1>1, <1>3, <2>1, ReplaceKeepsCells
<1>4. CASE new # NULL /\ map[s] = 0
  <2>1. Insert(s, new)
    BY <1>4 DEF Edit, Add
  <2> HIDE DEF s, new
  <2> QED
    BY <1>1, <1>4, <2>1, InsertKeepsCells
<1>5. CASE new # NULL /\ map[s] # 0
  <2>1. Replace(s, new)
    BY <1>5 DEF Edit, Add
  <2> HIDE DEF s, new
  <2> QED
    BY <1>1, <1>5, <2>1, ReplaceKeepsCells
<1> QED
  BY <1>2, <1>3, <1>4, <1>5

\* The job that is run answers with any job: its node has it from then on.
LEMMA RunJobKeepsCells ==
    ASSUME Parts, RunJob
    PROVE  Cells'
<1>1. Cells /\ position \in DOMAIN jobs
  BY LenProperties DEF Parts, Cells, Cursors, RunJob
<1>2. map[jobs[position].socket] = position
  BY <1>1 DEF RunJob, Cells, OneJobPerSocket
<1>3. jobs[position] \in Node
  BY <1>1 DEF Cells
<1>4. PICK new \in Job \cup {NULL} :
           jobs' = jobs \/ jobs' = [jobs EXCEPT ![position].job = new]
  BY <1>3 DEF RunJob, Node
<1> QED
  BY <1>1, <1>2, <1>4, NodeKeepsCells, CellsStay DEF RunJob

LEMMA PurgeKeepsCells ==
    ASSUME Parts, Purge
    PROVE  Cells'
<1>1. PICK gone \in SUBSET Socket :
           /\ gone = {s \in Mapped : jobs[map[s]].job = NULL}
           /\ map' = [s \in Socket |-> IF s \in gone THEN 0 ELSE map[s]]
  BY DEF Purge, Mapped
<1>2. Cells /\ jobs' = jobs
  BY DEF Purge, Parts
<1>3. map' \in [Socket -> 0..Len(jobs')]
  BY <1>1, <1>2, LenProperties DEF Cells
<1>4. \A s \in Socket : map'[s] # 0 => jobs'[map'[s]].socket = s
  BY <1>1, <1>2 DEF Cells
<1>5. ASSUME NEW i \in DOMAIN jobs', jobs'[i].job # NULL PROVE map'[jobs'[i].socket] = i
  <2>1. map[jobs[i].socket] = i /\ jobs[i].socket \in Socket
    BY <1>2, <1>5, NodeOf DEF Cells, OneJobPerSocket
  <2>2. jobs[i].socket \notin gone
    BY <1>1, <1>2, <1>5, <2>1
  <2> QED
    BY <1>1, <1>2, <2>1, <2>2
<1> QED
  BY <1>2, <1>3, <1>4, <1>5 DEF Cells, OneJobPerSocket

\* The steps that leave the list alone.
Calling ==
    \/ \E t \in Thread : Locking(t) \/ Wakes(t)
    \/ \E t \in Caller : unblockPollSocket(t)
    \/ \E t \in Caller, s \in Socket, new \in Job \cup {NULL} : Calls(t, s, new)
    \/ Cancel \/ Destructor
Polling ==
    \/ TestCancel \/ WaitForJobs \/ Collect \/ NothingToPoll \/ EnterPoll \/ PollUnblocked
    \/ SkipNode \/ RunEnds \/ SocketsReady \/ PollFails
Editing == \E t \in Caller : Edit(t)

LEMMA Steps == MuxNext => Calling \/ Polling \/ Editing \/ RunJob \/ Purge
BY DEF MuxNext, Calling, Polling, Editing, RunRounds, Call

LEMMA CellsStep ==
    ASSUME Inv, MuxNext
    PROVE  Cells'
<1>1. CASE Calling
  <2>1. UNCHANGED list
    BY <1>1 DEF Calling, Locking, lockJobListLock, lockJobList, unlockJobList, Wakes,
       unblockPollSocket, Calls, Cancel, Destructor, UnblockService, ThreadEnded
  <2> QED
    BY <2>1, CellsStay DEF Inv, Parts, list
<1>2. CASE Polling
  <2>1. UNCHANGED <<jobs, map>>
    BY <1>2 DEF Polling, TestCancel, WaitForJobs, Collect, NothingToPoll, EnterPoll,
       PollUnblocked, PollReturns, SkipNode, RunEnds, SocketsReady, PollFails, list
  <2> QED
    BY <2>1, CellsStay DEF Inv, Parts
<1>3. CASE Editing
  BY <1>3, EditKeepsCells DEF Editing, Inv
<1>4. CASE RunJob
  BY <1>4, RunJobKeepsCells DEF Inv
<1>5. CASE Purge
  BY <1>5, PurgeKeepsCells DEF Inv
<1> QED
  BY <1>1, <1>2, <1>3, <1>4, <1>5, Steps

-----------------------------------------------------------------------------
LEMMA CacheStays ==
    ASSUME Cache, UNCHANGED <<jobs, pfds, update>>,
           pc'[Service] \in {"poll", "polling"} => pc[Service] \in {"poll", "polling"}
    PROVE  Cache'
BY DEF Cache

LEMMA CursorsStay ==
    ASSUME Cursors, UNCHANGED <<jobs, pfds, position, entry, ready>>,
           pc'[Service] = "run" <=> pc[Service] = "run"
    PROVE  Cursors'
BY DEF Cursors

\* A step of another thread, or of the service thread to where it does not poll.
LEMMA CallingStays ==
    ASSUME LockInv, Calling
    PROVE  /\ UNCHANGED <<list, pfds, position, entry, ready>>
           /\ pc'[Service] \in {"poll", "polling"} => pc[Service] \in {"poll", "polling"}
           /\ pc'[Service] = "run" <=> pc[Service] = "run"
<1> pc \in [Thread -> Place] /\ Service \in Thread /\ Caller \subseteq Thread
  BY DEF LockInv, Thread
<1>1. ASSUME NEW t \in Thread, Locking(t) \/ Wakes(t)
      PROVE  /\ UNCHANGED <<list, pollVars>>
             /\ \/ UNCHANGED pc
                \/ \E place \in Place \ {"poll", "polling", "run"} :
                      pc' = [pc EXCEPT ![t] = place] /\ pc[t] # "run"
  BY <1>1 DEF Locking, lockJobListLock, lockJobList, unlockJobList, Wakes, Goto, Place,
     AtTheList, BeforeTheList
<1>2. ASSUME NEW t \in Caller, unblockPollSocket(t)
      PROVE  /\ UNCHANGED <<list, pfds, position, entry, ready>>
             /\ pc' = [pc EXCEPT ![t] = "lockList"] /\ pc[t] # "run"
  BY <1>2 DEF unblockPollSocket, Goto
<1>3. ASSUME NEW t \in Caller, NEW s \in Socket, NEW new \in Job \cup {NULL}, Calls(t, s, new)
      PROVE  UNCHANGED <<list, pollVars>> /\ pc' = [pc EXCEPT ![t] = "lockLock"] /\ pc[t] # "run"
  BY <1>3 DEF Calls, Goto
<1>4. CASE Cancel \/ Destructor
  BY <1>4 DEF Cancel, Destructor, UnblockService, ThreadEnded, Goto, pollVars
<1> QED
  BY <1>1, <1>2, <1>3, <1>4 DEF Calling, pollVars

\* While a caller edits the list, the service thread is not at it.
LEMMA EditFinds ==
    ASSUME LockInv, Parts, NEW t \in Caller, Edit(t)
    PROVE  /\ pc'[Service] = pc[Service] /\ pc[Service] \notin AtTheList
           /\ jobs' # jobs => update'
           /\ update' = update \/ update'
           /\ Len(jobs) <= Len(jobs') /\ Len(jobs) \in Nat /\ Len(jobs') \in Nat
<1> t \in Thread /\ Service \in Thread /\ t # Service
  BY MultiplexerAssumption DEF Thread
<1>1. jobListLocker = t
  BY DEF LockInv, Edit, AtTheList
<1>2. pc'[Service] = pc[Service] /\ pc[Service] \notin AtTheList
  BY <1>1 DEF Edit, Goto, LockInv
<1>3. \/ UNCHANGED list
      \/ \E s \in Socket, new \in Job \cup {NULL} : Replace(s, new) /\ map[s] # 0
      \/ \E s \in Socket, new \in Job \cup {NULL} : Insert(s, new)
  BY DEF Edit, Add, Remove, Parts, CallsFit
<1>4. jobs \in Seq(Node) /\ Len(jobs) \in Nat
  BY LenProperties DEF Parts, Cells
<1>5. Len(jobs) <= Len(jobs') /\ Len(jobs') \in Nat
  <2>1. ASSUME NEW s \in Socket, NEW new \in Job \cup {NULL}, Replace(s, new), map[s] # 0
        PROVE  Len(jobs') = Len(jobs)
    <3>1. map[s] \in DOMAIN jobs
      BY <1>4, <2>1, LenProperties DEF Parts, Cells
    <3> QED
      BY <1>4, <2>1, <3>1, SetJobOfNode DEF Replace
  <2>2. ASSUME NEW s \in Socket, NEW new \in Job \cup {NULL}, Insert(s, new)
        PROVE  Len(jobs') = Len(jobs) + 1
    <3>1. [socket |-> s, job |-> new] \in Node
      BY DEF Node
    <3> QED
      BY <1>4, <2>2, <3>1, AppendProperties DEF Insert
  <2> QED
    BY <1>3, <1>4, <2>1, <2>2 DEF list
<1> QED
  BY <1>2, <1>3, <1>4, <1>5 DEF Replace, Insert, list

LEMMA CacheStep ==
    ASSUME Inv, MuxNext
    PROVE  Cache'
<1> LockInv /\ Parts /\ Cache /\ pc \in [Thread -> Place] /\ Service \in Thread
  BY DEF Inv, Parts, LockInv, Thread
<1>1. CASE Calling
  BY <1>1, CallingStays, CacheStays DEF list
<1>2. CASE Editing
  <2>1. PICK t \in Caller : Edit(t)
    BY <1>2 DEF Editing
  <2>2. pc'[Service] \notin {"poll", "polling"} /\ (jobs' # jobs => update')
        /\ (update' = update \/ update')
    BY <2>1, EditFinds DEF AtTheList
  <2>3. pfds' = pfds
    BY <2>1 DEF Edit, pollVars
  <2>4. update' \in BOOLEAN
    BY <2>1 DEF Edit, Add, Remove, Insert, Replace, list, Cache
  <2> QED
    BY <2>2, <2>3, <2>4 DEF Cache
<1>3. CASE RunJob
  <2>1. pfds' = pfds /\ pc' = pc /\ pc[Service] = "run"
        /\ ((jobs' = jobs /\ update' = update) \/ update' = TRUE)
    BY <1>3 DEF RunJob
  <2> QED
    BY <2>1 DEF Cache
<1>4. CASE Purge
  <2>1. pfds' = pfds /\ jobs' = jobs /\ pc'[Service] = "unlock"
        /\ update' \in BOOLEAN /\ (update => update')
    BY <1>4 DEF Purge, pollVars, Goto, Cache
  <2> QED
    BY <2>1 DEF Cache
<1>5. CASE Collect
  <2>1. pfds' = WithJob(jobs) /\ update' = FALSE /\ jobs' = jobs
    BY <1>5 DEF Collect, Cache
  <2>2. WithJob(jobs) \in Seq(Node)
    BY WithJobType DEF Parts, Cells
  <2> QED
    BY <2>1, <2>2 DEF Cache
<1>6. CASE Polling /\ ~Collect
  <2>1. /\ UNCHANGED <<jobs, pfds, update>>
        /\ pc'[Service] \in {"poll", "polling"} => pc[Service] \in {"poll", "polling"}
    BY <1>6 DEF Polling, TestCancel, WaitForJobs, NothingToPoll, EnterPoll,
       PollUnblocked, PollReturns, SkipNode, RunEnds, SocketsReady, PollFails, list, pollVars, Goto
  <2> QED
    BY <2>1, CacheStays
<1> QED
  BY <1>1, <1>2, <1>3, <1>4, <1>5, <1>6, Steps

LEMMA SameRest ==
    ASSUME NEW S, NEW a \in S, NEW b \in S, NEW s \in Seq(S), NEW t \in Seq(S),
           <<a>> \o s = <<b>> \o t
    PROVE  s = t
<1>1. /\ Len(<<a>> \o s) = Len(s) + 1 /\ Len(<<b>> \o t) = Len(t) + 1
      /\ \A i \in 1..Len(s) : (<<a>> \o s)[i + 1] = s[i]
      /\ \A i \in 1..Len(t) : (<<b>> \o t)[i + 1] = t[i]
  OBVIOUS
<1> QED
  BY <1>1, SeqEqual, LenProperties

\* One node less to walk over: what the rest of the list gives loses its head if
\* the node had a job.
LEMMA WalkOneNode ==
    ASSUME NEW nodes \in Seq(Node), NEW n \in 1..Len(nodes)
    PROVE  WithJob(SubSeq(nodes, n, Len(nodes)))
             = IF nodes[n].job = NULL THEN WithJob(SubSeq(nodes, n + 1, Len(nodes)))
               ELSE <<nodes[n]>> \o WithJob(SubSeq(nodes, n + 1, Len(nodes)))
<1>1. SubSeq(nodes, n, Len(nodes)) = <<nodes[n]>> \o SubSeq(nodes, n + 1, Len(nodes))
  BY SubSeqRecursiveFirst, LenProperties
<1>2. nodes[n] \in Node
  BY LenProperties
<1>3. SubSeq(nodes, n + 1, Len(nodes)) \in Seq(Node)
  <2>1. n + 1 \in Int /\ Len(nodes) \in Int /\ \A i \in n + 1..Len(nodes) : nodes[i] \in Node
    BY LenProperties
  <2> QED
    BY <2>1, SubSeqProperties
<1> QED
  BY <1>1, <1>2, <1>3, WithJobFront

LEMMA CursorsStep ==
    ASSUME Inv, MuxNext
    PROVE  Cursors'
<1> LockInv /\ Parts /\ Cells /\ Cache /\ Cursors
    /\ pc \in [Thread -> Place] /\ Service \in Thread
  BY DEF Inv, Parts, LockInv, Thread
<1> jobs \in Seq(Node) /\ pfds \in Seq(Node)
  BY DEF Cells, Cache
<1>0. Len(jobs) \in Nat /\ Len(pfds) \in Nat
      /\ DOMAIN jobs = 1..Len(jobs) /\ DOMAIN pfds = 1..Len(pfds)
  BY LenProperties
<1>1. CASE Calling
  BY <1>1, CallingStays, CursorsStay DEF list
<1>2. CASE Editing
  <2>1. PICK t \in Caller : Edit(t)
    BY <1>2 DEF Editing
  <2>2. pc'[Service] # "run" /\ pc[Service] # "run" /\ Len(jobs) <= Len(jobs')
        /\ Len(jobs') \in Nat
    BY <2>1, EditFinds DEF AtTheList
  <2>3. UNCHANGED <<pfds, position, entry, ready>>
    BY <2>1 DEF Edit, pollVars
  <2> QED
    BY <1>0, <2>2, <2>3 DEF Cursors
<1>3. CASE RunJob
  <2>1. /\ position \in 1..Len(jobs) /\ entry \in 1..Len(pfds)
        /\ jobs[position].job # NULL
        /\ WithJob(SubSeq(jobs, position, Len(jobs))) = SubSeq(pfds, entry, Len(pfds))
    BY <1>0, <1>3 DEF RunJob, Cursors
  <2>2. /\ jobs' \in Seq(Node) /\ Len(jobs') = Len(jobs)
        /\ \A i \in 1..Len(jobs) : i # position => jobs'[i] = jobs[i]
    <3>1. jobs[position].job \in Job \cup {NULL}
      BY <1>0, <2>1, NodeOf
    <3>2. PICK new \in Job \cup {NULL} :
               jobs' = jobs \/ jobs' = [jobs EXCEPT ![position].job = new]
      BY <1>3, <3>1 DEF RunJob
    <3>3. CASE jobs' = jobs
      BY <3>3
    <3>4. CASE jobs' = [jobs EXCEPT ![position].job = new]
      <4>1. position \in DOMAIN jobs
        BY <1>0, <2>1
      <4> QED
        BY <1>0, <3>4, <4>1, SetJobOfNode
    <3> QED
      BY <3>2, <3>3, <3>4
  <2>3. SubSeq(jobs', position + 1, Len(jobs')) = SubSeq(jobs, position + 1, Len(jobs))
    BY <1>0, <2>1, <2>2
  <2>4. SubSeq(pfds, entry, Len(pfds)) = <<pfds[entry]>> \o SubSeq(pfds, entry + 1, Len(pfds))
    BY <1>0, <2>1, SubSeqRecursiveFirst
  <2>5. WithJob(SubSeq(jobs, position, Len(jobs)))
          = <<jobs[position]>> \o WithJob(SubSeq(jobs, position + 1, Len(jobs)))
    BY <2>1, WalkOneNode
  <2>6. WithJob(SubSeq(jobs, position + 1, Len(jobs))) = SubSeq(pfds, entry + 1, Len(pfds))
    <3>1. jobs[position] \in Node /\ pfds[entry] \in Node
      BY <1>0, <2>1, NodeOf
    <3>2. SubSeq(pfds, entry + 1, Len(pfds)) \in Seq(Node)
      BY <1>0, <2>1, SubSeqProperties
    <3>3. WithJob(SubSeq(jobs, position + 1, Len(jobs))) \in Seq(Node)
      <4>1. SubSeq(jobs, position + 1, Len(jobs)) \in Seq(Node)
        BY <1>0, <2>1, SubSeqProperties
      <4> QED
        BY <4>1, WithJobType
    <3>4. <<jobs[position]>> \o WithJob(SubSeq(jobs, position + 1, Len(jobs)))
            = <<pfds[entry]>> \o SubSeq(pfds, entry + 1, Len(pfds))
      BY <2>1, <2>4, <2>5
    <3> QED
      BY <3>1, <3>2, <3>3, <3>4, SameRest
  <2>7. /\ position' = position + 1 /\ entry' = entry + 1 /\ pfds' = pfds
        /\ ready' = ready /\ pc'[Service] = "run"
    BY <1>3 DEF RunJob
  <2>8. WithJob(SubSeq(jobs', position', Len(jobs'))) = SubSeq(pfds', entry', Len(pfds'))
    BY <2>3, <2>6, <2>7
  <2> QED
    BY <1>0, <2>1, <2>2, <2>7, <2>8 DEF Cursors
<1>4. CASE SkipNode
  <2>1. /\ position \in 1..Len(jobs) /\ jobs[position].job = NULL
        /\ WithJob(SubSeq(jobs, position, Len(jobs))) = SubSeq(pfds, entry, Len(pfds))
    BY <1>0, <1>4 DEF SkipNode, Cursors
  <2>2. WithJob(SubSeq(jobs, position, Len(jobs)))
          = WithJob(SubSeq(jobs, position + 1, Len(jobs)))
    BY <2>1, WalkOneNode
  <2>3. /\ position' = position + 1 /\ pc'[Service] = "run"
        /\ UNCHANGED <<jobs, pfds, entry, ready>>
    BY <1>4 DEF SkipNode, list
  <2> QED
    BY <1>0, <1>4, <2>1, <2>2, <2>3 DEF Cursors, SkipNode
<1>5. CASE SocketsReady \/ PollUnblocked
  <2>1. PICK found \in SUBSET DOMAIN pfds : PollReturns(found)
    BY <1>5 DEF SocketsReady, PollUnblocked
  <2>2. /\ pc[Service] = "polling" /\ pc'[Service] = (IF found = {} THEN "purge" ELSE "run")
        /\ UNCHANGED <<jobs, pfds>> /\ ready' = found /\ position' = 1 /\ entry' = 1
    BY <2>1 DEF PollReturns, Goto, list
  <2>3. WithJob(SubSeq(jobs, 1, Len(jobs))) = SubSeq(pfds, 1, Len(pfds))
    <3>1. pfds = WithJob(jobs)
      BY <2>2 DEF Cache
    <3> QED
      BY <3>1, SubSeqFull
  <2> QED
    BY <1>0, <2>2, <2>3 DEF Cursors
<1>6. CASE Collect
  <2>1. /\ position <= 1 /\ entry <= 1 /\ ready = {}
        /\ UNCHANGED <<jobs, position, entry, ready>> /\ pc'[Service] = "poll"
    BY <1>6 DEF Collect, Cursors, Goto
  <2>2. Len(pfds') \in Nat
    BY CacheStep, LenProperties DEF Cache
  <2> QED
    BY <1>0, <2>1, <2>2 DEF Cursors
<1>7. CASE PollFails
  BY <1>0, <1>7 DEF PollFails, Cursors, Goto, list
<1>8. CASE RunEnds
  BY <1>0, <1>8 DEF RunEnds, Cursors, Goto, list
<1>9. CASE TestCancel \/ WaitForJobs \/ NothingToPoll \/ EnterPoll \/ Purge
  <2>1. /\ UNCHANGED <<jobs, pfds, position, entry, ready>>
        /\ pc'[Service] = "run" <=> pc[Service] = "run"
    BY <1>9 DEF TestCancel, WaitForJobs, NothingToPoll, EnterPoll, Purge, Goto, list, pollVars
  <2> QED
    BY <2>1, CursorsStay
<1> QED
  BY <1>1, <1>2, <1>3, <1>4, <1>5, <1>6, <1>7, <1>8, <1>9, Steps DEF Polling

-----------------------------------------------------------------------------
LEMMA WakingStays ==
    ASSUME Waking, UNCHANGED <<asleepOnLockLock, asleepOnList, asleepOnReady, jobsReady>>,
           jobListLocker' = NULL => jobListLocker = NULL /\ Mapped' = Mapped
    PROVE  Waking'
BY DEF Waking

LEMMA WakingStep ==
    ASSUME Inv, MuxNext
    PROVE  Waking'
<1> LockInv /\ Waking /\ Service \in Thread /\ Caller \subseteq Thread /\ NULL \notin Thread
  BY MultiplexerAssumption DEF Inv, Parts, Thread
<1>1. ASSUME NEW t \in Thread, lockJobListLock(t) PROVE Waking'
  BY <1>1 DEF lockJobListLock, list, Waking, Mapped
<1>2. ASSUME NEW t \in Thread, lockJobList(t) PROVE Waking'
  BY <1>2 DEF lockJobList, ListIsFree, list, Waking, Mapped
<1>3. ASSUME NEW t \in Thread, unlockJobList(t) PROVE Waking'
  BY <1>3 DEF unlockJobList, TellService, list, Waking, Mapped
<1>4. ASSUME NEW t \in Thread, Wakes(t) PROVE Waking'
  BY <1>4 DEF Wakes, list, locks, Waking, Mapped
<1>5. ASSUME NEW t \in Caller, Edit(t) PROVE Waking'
  <2>1. jobListLocker' # NULL
    BY <1>5 DEF Edit, locks, LockInv, AtTheList
  <2> QED
    BY <1>5, <2>1, WakingStays DEF Edit, locks, sleep
<1>6. CASE Purge
  <2>1. jobListLocker' # NULL
    BY <1>6 DEF Purge, locks, LockInv, AtTheList
  <2> QED
    BY <1>6, <2>1, WakingStays DEF Purge, locks, sleep
<1>7. CASE TestCancel \/ WaitForJobs
  BY <1>7 DEF TestCancel, WaitForJobs, list, locks, Waking, Mapped
<1>8. CASE \/ Collect \/ NothingToPoll \/ EnterPoll \/ PollUnblocked
           \/ SkipNode \/ RunEnds \/ SocketsReady \/ PollFails \/ RunJob
           \/ \E t \in Caller : unblockPollSocket(t)
           \/ \E t \in Caller, s \in Socket, new \in Job \cup {NULL} : Calls(t, s, new)
           \/ Cancel \/ Destructor
  <2>1. UNCHANGED <<map, locks, sleep>>
    BY <1>8 DEF Collect, NothingToPoll, EnterPoll, PollUnblocked, PollReturns, SkipNode,
       RunEnds, SocketsReady, PollFails, RunJob, unblockPollSocket, Calls, Cancel, Destructor,
       UnblockService, ThreadEnded, list
  <2> QED
    BY <2>1, WakingStays DEF locks, sleep, Mapped
<1> QED
  BY <1>1, <1>2, <1>3, <1>4, <1>5, <1>6, <1>7, <1>8, Steps DEF Calling, Polling, Editing, Locking

LEMMA CallsFitStays ==
    ASSUME CallsFit, UNCHANGED <<call, calls>>,
           pipe' \in BOOLEAN, unblocked' \in BOOLEAN,
           destructor' \in {"no", "cancelled", "waiting", "done"},
           \A t \in Caller : pc'[t] = pc[t]
    PROVE  CallsFit'
BY DEF CallsFit

LEMMA CallsFitStep ==
    ASSUME Inv, MuxNext
    PROVE  CallsFit'
<1> CallsFit /\ Service \in Thread /\ Service \notin Caller /\ Caller \subseteq Thread
    /\ pc \in [Thread -> Place] /\ MaxCalls \in Nat
  BY MultiplexerAssumption DEF Inv, Parts, LockInv, Thread
<1>1. ASSUME NEW t \in Thread, lockJobListLock(t) \/ lockJobList(t) \/ Wakes(t) PROVE CallsFit'
  <2>1. /\ UNCHANGED <<pollVars, calling>>
        /\ \/ pc' = pc
           \/ \E place : pc' = [pc EXCEPT ![t] = place] /\ pc[t] \in {"lockLock", "lockList"}
    BY <1>1 DEF lockJobListLock, lockJobList, Wakes, Goto
  <2> QED
    BY <2>1 DEF CallsFit, pollVars, calling
<1>2. ASSUME NEW t \in Thread, unlockJobList(t) PROVE CallsFit'
  <2>1. /\ UNCHANGED <<pollVars, calls, destructor>>
        /\ pc' = [pc EXCEPT ![t] = IF t = Service THEN "top" ELSE "idle"]
        /\ call' = IF t = Service THEN call ELSE [call EXCEPT ![t] = NoCall]
    BY <1>2 DEF unlockJobList, Goto
  <2>2. NoCall \in [socket : Socket \cup {NULL}, job : Job \cup {NULL}]
    BY DEF NoCall
  <2>3. \A u \in Caller : pc'[u] \in {"lockLock", "unblock", "lockList", "edit"}
                              => u # t /\ pc'[u] = pc[u]
    BY <2>1
  <2> QED
    BY <2>1, <2>2, <2>3 DEF CallsFit, pollVars
<1>3. ASSUME NEW t \in Caller, unblockPollSocket(t) \/ Edit(t) PROVE CallsFit'
  <2>1. /\ UNCHANGED <<pipe, calling>> /\ unblocked' \in BOOLEAN
        /\ \E place : pc' = [pc EXCEPT ![t] = place] /\ pc[t] \in {"unblock", "edit"}
    BY <1>3 DEF unblockPollSocket, Edit, Goto, pollVars, Unblocked, CallsFit
  <2> QED
    BY <2>1 DEF CallsFit, calling
<1>4. ASSUME NEW t \in Caller, NEW s \in Socket, NEW new \in Job \cup {NULL}, Calls(t, s, new)
      PROVE  CallsFit'
  BY <1>4 DEF Calls, Goto, CallsFit, pollVars
<1>5. CASE Cancel \/ Destructor
  <2>1. /\ UNCHANGED <<call, calls>> /\ pipe' \in BOOLEAN /\ unblocked' \in BOOLEAN
        /\ destructor' \in {"no", "cancelled", "waiting", "done"}
        /\ \A t \in Caller : pc'[t] = pc[t]
    BY <1>5 DEF Cancel, Destructor, UnblockService, ThreadEnded, Unblocked, Goto, CallsFit, pollVars
  <2> QED
    BY <2>1, CallsFitStays
<1>6. CASE Polling \/ RunJob \/ Purge
  <2>1. UNCHANGED calling /\ \A t \in Caller : pc'[t] = pc[t]
    BY <1>6 DEF Polling, TestCancel, WaitForJobs, Collect, NothingToPoll, EnterPoll, PollUnblocked,
       PollReturns, SkipNode, RunEnds, SocketsReady, PollFails, RunJob, Purge, Goto
  <2>2. pipe' \in BOOLEAN /\ unblocked' \in BOOLEAN
    BY <1>6 DEF Polling, TestCancel, WaitForJobs, Collect, NothingToPoll, EnterPoll, PollUnblocked,
       PollReturns, SkipNode, RunEnds, SocketsReady, PollFails, RunJob, Purge, pollVars, CallsFit
  <2> QED
    BY <2>1, <2>2, CallsFitStays DEF calling, CallsFit
<1> QED
  BY <1>1, <1>2, <1>3, <1>4, <1>5, <1>6, Steps DEF Calling, Editing, Locking

LEMMA InvInit == MuxInit => Inv
<1> SUFFICES ASSUME MuxInit PROVE Inv
  OBVIOUS
<1>1. LockInv
  BY LockInit
<1>2. Cells
  BY DEF MuxInit, Cells, OneJobPerSocket
<1>3. Cache
  <2>1. jobs = <<>> /\ pfds = <<>> /\ update = FALSE
    BY DEF MuxInit
  <2>2. WithJob(jobs) = <<>> /\ <<>> \in Seq(Node)
    BY <2>1, WithJobEmpty
  <2> QED
    BY <2>1, <2>2 DEF Cache
<1>4. Cursors
  BY DEF MuxInit, Cursors, Thread
<1>5. Waking
  BY DEF MuxInit, Waking, Mapped
<1>6. CallsFit
  <2>1. \A t \in Caller : pc[t] = "idle"
    BY MultiplexerAssumption DEF MuxInit, Thread
  <2>2. NoCall \in [socket : Socket \cup {NULL}, job : Job \cup {NULL}]
    BY DEF NoCall
  <2>3. call \in [Caller -> [socket : Socket \cup {NULL}, job : Job \cup {NULL}]]
    BY <2>2 DEF MuxInit
  <2>4. calls = 0 /\ 0 \in 0..MaxCalls /\ pipe = FALSE /\ unblocked = FALSE /\ destructor = "no"
    BY MultiplexerAssumption DEF MuxInit
  <2> QED
    BY <2>1, <2>3, <2>4 DEF CallsFit
<1> QED
  BY <1>1, <1>2, <1>3, <1>4, <1>5, <1>6 DEF Inv, Parts

LEMMA InvStep == Inv /\ [MuxNext]_muxVars => Inv'
<1> SUFFICES ASSUME Inv, [MuxNext]_muxVars PROVE Inv'
  OBVIOUS
<1>1. LockInv'
  BY LockStep DEF Inv
<1>2. CASE MuxNext
  BY <1>1, <1>2, CellsStep, CacheStep, CursorsStep, WakingStep, CallsFitStep DEF Inv, Parts
<1>3. CASE UNCHANGED muxVars
  <2>1. UNCHANGED <<list, locks, sleep, pollVars, calling, pc>>
    BY <1>3 DEF muxVars
  <2>2. Cells'
    BY <2>1, CellsStay DEF Inv, Parts, list
  <2>3. Cache' /\ Cursors'
    BY <2>1, CacheStays, CursorsStay DEF Inv, Parts, list, pollVars
  <2>4. Waking'
    BY <2>1, WakingStays DEF Inv, Parts, list, locks, sleep, Mapped
  <2>5. CallsFit'
    BY <2>1, CallsFitStays DEF Inv, Parts, CallsFit, pollVars, calling
  <2> QED
    BY <1>1, <2>2, <2>3, <2>4, <2>5 DEF Inv, Parts
<1> QED
  BY <1>2, <1>3

LEMMA InvHolds == MuxSpec => []Inv
BY InvInit, InvStep, PTL DEF MuxSpec

\* CSocketMultiplexer's list of jobs, the map into it, the cached poll array with
\* its two cursors and the wake-ups of the service thread fit each other, for any
\* number of callers, sockets and calls: what poll says of a socket goes to the job
\* of that socket, and the service thread never sleeps over a job.
THEOREM TheListFits == MuxSpec => []ListFits
<1>1. Inv => ListFits
  <2> SUFFICES ASSUME Inv PROVE ListFits
    OBVIOUS
  <2>1. MuxTypeOK
    BY DEF Inv, Parts, LockInv, Cells, Cache, Cursors, Waking, CallsFit, MuxTypeOK, Place,
       AtTheList, BeforeTheList
  <2>2. PollMatchesJobs
    BY DEF Inv, Parts, Cache, Cursors, PollMatchesJobs
  <2>3. OneJobPerSocket /\ AsleepWithoutSockets
    BY DEF Inv, Parts, Cells, Waking, AsleepWithoutSockets
  <2> QED
    BY <2>1, <2>2, <2>3 DEF ListFits
<1> QED
  BY <1>1, InvHolds, PTL

-----------------------------------------------------------------------------
(***************************************************************************)
(* The multiplexer implements JobTable.                                    *)
(***************************************************************************)
\* From which node on the jobs are still to be run, when some are.
From == IF pc[Service] = "run" THEN position ELSE 1

\* What JobTable calls polled: the jobs, in a round, of the nodes from there on.
PolledIs ==
    PolledJobOf =
        [s \in Socket |->
            IF /\ pc[Service] \in {"collect", "poll", "polling", "run"}
               /\ map[s] # 0 /\ map[s] >= From
            THEN jobs[map[s]].job ELSE NULL]

\* The nodes that are still to be run are those of the list, from the job cursor
\* on, that have a job.
LEMMA StillToRunNodes ==
    ASSUME Inv, pc[Service] \in {"poll", "polling", "run"}
    PROVE  {StillToRun[i] : i \in DOMAIN StillToRun}
             = {node \in {jobs[k] : k \in From..Len(jobs)} : node.job # NULL}
<1> Cells /\ Cache /\ Cursors /\ jobs \in Seq(Node) /\ Len(jobs) \in Nat
  BY LenProperties DEF Inv, Parts, Cells
<1>1. From \in 1..Len(jobs) + 1
  BY DEF From, Cursors
<1>2. StillToRun = WithJob(SubSeq(jobs, From, Len(jobs)))
  <2>1. CASE pc[Service] \in {"poll", "polling"}
    BY <2>1, SubSeqFull DEF StillToRun, From, Cache
  <2>2. CASE pc[Service] = "run"
    BY <2>2 DEF StillToRun, From, Cursors
  <2> QED
    BY <2>1, <2>2
<1> DEFINE rest == SubSeq(jobs, From, Len(jobs))
<1>3. /\ rest \in Seq(Node) /\ DOMAIN rest = 1..Len(jobs) - From + 1
      /\ \A i \in 1..Len(jobs) - From + 1 : rest[i] = jobs[From + i - 1]
  <2>1. \A i \in From..Len(jobs) : jobs[i] \in Node
    BY <1>1, LenProperties
  <2>2. /\ rest \in Seq(Node) /\ Len(rest) = IF From <= Len(jobs) THEN Len(jobs) - From + 1 ELSE 0
        /\ \A i \in 1..Len(jobs) - From + 1 : rest[i] = jobs[From + i - 1]
    BY <1>1, <2>1, SubSeqProperties
  <2> QED
    BY <1>1, <2>2, LenProperties
<1>4. {rest[i] : i \in DOMAIN rest} = {jobs[k] : k \in From..Len(jobs)}
  <2>1. ASSUME NEW k \in From..Len(jobs)
        PROVE  k - From + 1 \in DOMAIN rest /\ jobs[k] = rest[k - From + 1]
    BY <1>1, <1>3, <2>1
  <2>2. ASSUME NEW i \in DOMAIN rest
        PROVE  From + i - 1 \in From..Len(jobs) /\ rest[i] = jobs[From + i - 1]
    BY <1>1, <1>3, <2>2
  <2> HIDE DEF rest
  <2> QED
    BY <2>1, <2>2
<1> HIDE DEF rest
<1>5. {WithJob(rest)[i] : i \in DOMAIN WithJob(rest)}
        = {node \in {rest[i] : i \in DOMAIN rest} : node.job # NULL}
  BY <1>3, WithJobNodes
<1>6. StillToRun = WithJob(rest)
  BY <1>2 DEF rest
<1> QED
  BY <1>4, <1>5, <1>6

LEMMA PolledFits ==
    ASSUME Inv
    PROVE  PolledIs
<1> Cells /\ Cache /\ Cursors /\ jobs \in Seq(Node) /\ Len(jobs) \in Nat
    /\ DOMAIN jobs = 1..Len(jobs) /\ map \in [Socket -> 0..Len(jobs)]
  BY LenProperties DEF Inv, Parts, Cells
<1>1. CASE pc[Service] = "collect"
  BY <1>1 DEF PolledIs, PolledJobOf, JobOf, From
<1>2. CASE pc[Service] \notin {"collect", "poll", "polling", "run"}
  <2>1. StillToRun = <<>> /\ DOMAIN <<>> = {}
    BY <1>2 DEF StillToRun
  <2> QED
    BY <1>2, <2>1 DEF PolledIs, PolledJobOf
<1>3. CASE pc[Service] \in {"poll", "polling", "run"}
  <2> DEFINE toRun == {jobs[k] : k \in From..Len(jobs)}
             i(s) == CHOOSE i \in DOMAIN StillToRun : StillToRun[i].socket = s
  <2>1. From \in 1..Len(jobs) + 1
    BY <1>3 DEF From, Cursors
  <2>2. {StillToRun[j] : j \in DOMAIN StillToRun} = {node \in toRun : node.job # NULL}
    BY <1>3, StillToRunNodes
  <2>3. ASSUME NEW s \in Socket
        PROVE  (IF \E j \in DOMAIN StillToRun : StillToRun[j].socket = s
                THEN StillToRun[i(s)].job ELSE NULL)
                 = (IF map[s] # 0 /\ map[s] >= From THEN jobs[map[s]].job ELSE NULL)
    <3>1. CASE \E j \in DOMAIN StillToRun : StillToRun[j].socket = s
      <4>1. i(s) \in DOMAIN StillToRun /\ StillToRun[i(s)].socket = s
        BY <3>1
      <4>2. StillToRun[i(s)] \in {node \in toRun : node.job # NULL}
        BY <2>2, <4>1
      <4>3. PICK k \in From..Len(jobs) : StillToRun[i(s)] = jobs[k] /\ jobs[k].job # NULL
        BY <4>2
      <4>4. map[s] = k
        BY <2>1, <4>1, <4>3 DEF Cells, OneJobPerSocket
      <4> QED
        BY <2>1, <3>1, <4>3, <4>4
    <3>2. CASE ~\E j \in DOMAIN StillToRun : StillToRun[j].socket = s
      <4>1. SUFFICES ASSUME map[s] # 0, map[s] >= From, jobs[map[s]].job # NULL
                     PROVE  FALSE
        BY <3>2
      <4>2. map[s] \in From..Len(jobs) /\ jobs[map[s]].socket = s
        BY <2>1, <4>1 DEF Cells
      <4>3. jobs[map[s]] \in {node \in toRun : node.job # NULL}
        BY <4>1, <4>2
      <4> QED
        BY <2>2, <3>2, <4>2, <4>3
    <3> QED
      BY <3>1, <3>2
  <2> QED
    BY <1>3, <2>3 DEF PolledIs, PolledJobOf
<1> QED
  BY <1>1, <1>2, <1>3

-----------------------------------------------------------------------------
InRound == {"collect", "poll", "polling", "run"}

LEMMA NotPolling == Inv /\ pc[Service] \notin InRound => PolledJobOf = MuxTable!NoJobs
BY PolledFits DEF PolledIs, InRound, MuxTable!NoJobs

\* A step that neither begins a round, nor goes on with one, nor ends it.
LEMMA MuxTableStays ==
    ASSUME Inv, Inv', UNCHANGED <<jobs, map>>,
           jobListLocker' = Service <=> jobListLocker = Service,
           \/ pc[Service] \notin InRound /\ pc'[Service] \notin InRound
           \/ pc[Service] \in InRound /\ pc'[Service] \in InRound /\ From' = From
    PROVE  UNCHANGED MuxTable!tableVars
<1>1. PolledIs /\ PolledIs'
  BY PolledFits, PTL
<1>2. JobOf' = JobOf
  BY DEF JobOf
<1>3. PolledJobOf' = PolledJobOf
  BY <1>1 DEF PolledIs, InRound
<1> QED
  BY <1>2, <1>3 DEF MuxTable!tableVars

LEMMA OneJobChanges ==
    ASSUME NEW s \in Socket, NEW j,
           \A u \in Socket :
              (IF map'[u] = 0 THEN NULL ELSE jobs'[map'[u]].job)
                = IF u = s THEN j ELSE IF map[u] = 0 THEN NULL ELSE jobs[map[u]].job
    PROVE  JobOf' = [JobOf EXCEPT ![s] = j]
BY DEF JobOf

\* A caller that has the list changes one job, and no round is going on.
LEMMA EditSetsJob ==
    ASSUME Inv, Inv', NEW t \in Caller, Edit(t)
    PROVE  \E s \in Socket, j \in Job \cup {NULL} : MuxTable!SetJob(s, j)
<1> DEFINE s == call[t].socket
           j == call[t].job
<1> t \in Thread /\ t # Service /\ Cells
  BY MultiplexerAssumption DEF Thread, Inv, Parts
<1>1. s \in Socket /\ j \in Job \cup {NULL}
  BY DEF Edit, Inv, Parts, CallsFit
<1>2. jobListLocker = t /\ jobListLocker' = t
  BY DEF Inv, LockInv, Edit, AtTheList, locks
<1>3. pc[Service] \notin InRound /\ (pc[Service] \notin InRound)'
  BY EditFinds DEF Inv, AtTheList, InRound
<1>4. PolledJobOf' = PolledJobOf
  <2>1. PolledJobOf = MuxTable!NoJobs /\ (PolledJobOf = MuxTable!NoJobs)'
    BY <1>3, NotPolling, PTL
  <2> QED
    BY <2>1 DEF MuxTable!NoJobs
<1> HIDE DEF s, j
<1>5. JobOf' = [JobOf EXCEPT ![s] = j]
  <2>1. CASE j = NULL /\ ~(map[s] # 0 /\ jobs[map[s]].job # NULL)
    <3>1. UNCHANGED list
      BY <2>1 DEF Edit, Remove, s, j
    <3> QED
      BY <1>1, <2>1, <3>1, OneJobChanges DEF list
  <2>2. CASE map[s] # 0 /\ Replace(s, j)
    <3>1. map[s] \in DOMAIN jobs /\ jobs \in Seq(Node)
      BY <1>1, <2>2, LenProperties DEF Cells
    <3>2. /\ jobs'[map[s]] = [socket |-> jobs[map[s]].socket, job |-> j]
          /\ \A i \in DOMAIN jobs : i # map[s] => jobs'[i] = jobs[i]
      BY <1>1, <2>2, <3>1, SetJobOfNode DEF Replace
    <3>3. \A u \in Socket : map[u] # 0 /\ u # s => map[u] # map[s] /\ map[u] \in DOMAIN jobs
      BY <1>1, <2>2, <3>1, LenProperties DEF Cells
    <3> QED
      BY <1>1, <2>2, <3>2, <3>3, OneJobChanges DEF Replace
  <2>3. CASE map[s] = 0 /\ Insert(s, j) /\ j # NULL
    <3>1. [socket |-> s, job |-> j] \in Node /\ jobs \in Seq(Node) /\ Len(jobs) \in Nat
      BY <1>1, LenProperties DEF Node, Cells
    <3>2. /\ \A i \in 1..Len(jobs) : jobs'[i] = jobs[i]
          /\ jobs'[Len(jobs) + 1] = [socket |-> s, job |-> j]
      BY <2>3, <3>1, AppendProperties DEF Insert
    <3>3. map' = [map EXCEPT ![s] = Len(jobs) + 1] /\ map \in [Socket -> 0..Len(jobs)]
      BY <2>3 DEF Insert, AtEnd, Cells
    <3>4. \A u \in Socket :
              (IF map'[u] = 0 THEN NULL ELSE jobs'[map'[u]].job)
                = IF u = s THEN j ELSE IF map[u] = 0 THEN NULL ELSE jobs[map[u]].job
      BY <1>1, <2>3, <3>1, <3>2, <3>3
    <3> QED
      BY <1>1, <3>4, OneJobChanges
  <2>4. \/ j = NULL /\ ~(map[s] # 0 /\ jobs[map[s]].job # NULL)
        \/ map[s] # 0 /\ Replace(s, j)
        \/ map[s] = 0 /\ Insert(s, j) /\ j # NULL
    BY DEF Edit, Add, Remove, s, j
  <2> QED
    BY <2>1, <2>2, <2>3, <2>4
<1> QED
  BY <1>1, <1>2, <1>4, <1>5 DEF MuxTable!SetJob

\* The job that is run is the one that was polled, and it is not run again.
LEMMA RunJobRuns ==
    ASSUME Inv, Inv', RunJob
    PROVE  \E s \in Socket, j \in Job \cup {NULL} : MuxTable!Run(s, j)
<1> Cells /\ Cursors /\ jobs \in Seq(Node) /\ Len(jobs) \in Nat /\ DOMAIN jobs = 1..Len(jobs)
    /\ map \in [Socket -> 0..Len(jobs)] /\ Service \in Thread
  BY LenProperties DEF Inv, Parts, Cells, Thread
<1>1. PolledIs /\ PolledIs'
  BY PolledFits, PTL
<1>2. pc[Service] = "run" /\ pc'[Service] = "run" /\ position' = position + 1 /\ map' = map
  BY DEF RunJob
<1>3. position \in 1..Len(jobs) /\ From = position /\ From' = position + 1
  BY <1>2 DEF From, Cursors, RunJob
<1> DEFINE s == jobs[position].socket
<1>4. s \in Socket /\ jobs[position].job \in Job /\ map[s] = position
  BY <1>3, NodeOf DEF RunJob, Cells, OneJobPerSocket
<1>5. PICK j \in Job \cup {NULL} :
          /\ jobs'[position] = [socket |-> s, job |-> j]
          /\ \A i \in DOMAIN jobs : i # position => jobs'[i] = jobs[i]
  <2>1. PICK j \in Job \cup {NULL} :
            \/ jobs' = [jobs EXCEPT ![position].job = j]
            \/ jobs' = jobs /\ j = jobs[position].job
    BY <1>4 DEF RunJob
  <2>2. CASE jobs' = [jobs EXCEPT ![position].job = j]
    BY <1>3, <2>2, SetJobOfNode
  <2>3. CASE jobs' = jobs /\ j = jobs[position].job
    <3>1. jobs[position] \in Node
      BY <1>3, NodeOf
    <3>2. jobs[position] = [socket |-> s, job |-> j]
      BY <2>3, <3>1 DEF Node
    <3> QED
      BY <2>3, <3>2
  <2> QED
    BY <2>1, <2>2, <2>3
<1>6. \A u \in Socket : map[u] # 0 /\ u # s => map[u] # position /\ map[u] \in DOMAIN jobs
  BY DEF Cells
<1> HIDE DEF s
<1>7. JobOf' = [JobOf EXCEPT ![s] = j]
  <2>1. \A u \in Socket :
            (IF map'[u] = 0 THEN NULL ELSE jobs'[map'[u]].job)
              = IF u = s THEN j ELSE IF map[u] = 0 THEN NULL ELSE jobs[map[u]].job
    BY <1>2, <1>3, <1>4, <1>5, <1>6
  <2> QED
    BY <1>4, <2>1, OneJobChanges
<1>8. PolledJobOf' = [PolledJobOf EXCEPT ![s] = NULL]
  <2>1. ASSUME NEW u \in Socket
        PROVE  PolledJobOf'[u] = IF u = s THEN NULL ELSE PolledJobOf[u]
    BY <1>1, <1>2, <1>3, <1>4, <1>5, <1>6 DEF PolledIs
  <2> QED
    BY <1>1, <2>1 DEF PolledIs
<1>9. PolledJobOf[s] = jobs[position].job /\ JobOf[s] = jobs[position].job
  BY <1>1, <1>2, <1>3, <1>4 DEF PolledIs, JobOf
<1>10. jobListLocker = Service /\ jobListLocker' = Service
  BY <1>2 DEF Inv, LockInv, AtTheList, RunJob, locks
<1> QED
  BY <1>4, <1>7, <1>8, <1>9, <1>10, MultiplexerAssumption DEF MuxTable!Run

\* The service thread is done with what poll said: it found nothing, it was broken
\* off, or the jobs were all run.
LEMMA RoundIsOver ==
    ASSUME Inv, Inv', UNCHANGED <<jobs, map, jobListLocker>>,
           pc[Service] \in AtTheList, (pc[Service] \notin InRound)'
    PROVE  MuxTable!NothingFound
<1>1. jobListLocker = Service
  BY DEF Inv, LockInv, Thread
<1>2. (PolledJobOf = MuxTable!NoJobs)'
  BY NotPolling, PTL
<1> QED
  BY <1>1, <1>2 DEF MuxTable!NothingFound, MuxTable!NoJobs, JobOf

LEMMA TableNextOf ==
    ASSUME \/ MuxTable!BeginRound \/ MuxTable!NothingFound \/ MuxTable!EndRound
           \/ \E s \in Socket, j \in Job \cup {NULL} : MuxTable!SetJob(s, j) \/ MuxTable!Run(s, j)
    PROVE  MuxTable!TableNext
BY DEF MuxTable!TableNext

LEMMA LockingMapsToTable ==
    ASSUME Inv, Inv', NEW t \in Thread, Locking(t)
    PROVE  [MuxTable!TableNext]_(MuxTable!tableVars)
<1> pc \in [Thread -> Place] /\ Service \in Thread /\ NULL \notin Thread
  BY MultiplexerAssumption DEF Inv, LockInv, Thread
<1>1. UNCHANGED <<jobs, map>>
  BY DEF Locking, lockJobListLock, lockJobList, unlockJobList, list
<1>2. CASE lockJobListLock(t) \/ t # Service
  <2>1. /\ jobListLocker' = Service <=> jobListLocker = Service
        /\ \/ pc[Service] = pc'[Service] /\ From' = From
           \/ pc[Service] \notin InRound /\ pc'[Service] \notin InRound
    BY <1>2 DEF Locking, lockJobListLock, lockJobList, unlockJobList, Goto, Inv, LockInv,
       AtTheList, InRound, From, pollVars
  <2> QED
    BY <1>1, <2>1, MuxTableStays
<1>3. CASE t = Service /\ lockJobList(t)
  <2>1. CASE ListIsFree
    <3>1. jobListLocker = NULL /\ jobListLocker' = Service /\ pc'[Service] = "collect"
      BY <1>3, <2>1 DEF lockJobList, ListIsFree, Goto
    <3>2. PolledIs'
      BY PolledFits, PTL
    <3>3. PolledJobOf' = JobOf /\ JobOf' = JobOf
      <4>1. \A s \in Socket : map[s] # 0 => map[s] >= 1
        BY DEF Inv, Parts, Cells
      <4> QED
        BY <1>1, <3>1, <3>2, <4>1 DEF PolledIs, JobOf, From
    <3>4. MuxTable!BeginRound
      BY <3>1, <3>3 DEF MuxTable!BeginRound
    <3> QED
      BY <3>4, TableNextOf
  <2>2. CASE ~ListIsFree
    BY <1>1, <1>3, <2>2, MuxTableStays DEF lockJobList, From, pollVars, InRound
  <2> QED
    BY <2>1, <2>2
<1>4. CASE t = Service /\ unlockJobList(t)
  <2>1. jobListLocker = Service /\ jobListLocker' = NULL /\ pc[Service] = "unlock"
        /\ (pc[Service] \notin InRound)'
    BY <1>4 DEF unlockJobList, Inv, LockInv, AtTheList, Goto, InRound
  <2>2. PolledJobOf = MuxTable!NoJobs /\ (PolledJobOf = MuxTable!NoJobs)'
    <3>1. pc[Service] \notin InRound
      BY <2>1 DEF InRound
    <3> QED
      BY <2>1, <3>1, NotPolling, PTL
  <2>3. MuxTable!EndRound
    BY <1>1, <2>1, <2>2 DEF MuxTable!EndRound, MuxTable!NoJobs, JobOf
  <2> QED
    BY <2>3, TableNextOf
<1> QED
  BY <1>2, <1>3, <1>4 DEF Locking

LEMMA PollingMapsToTable ==
    ASSUME Inv, Inv', Polling
    PROVE  [MuxTable!TableNext]_(MuxTable!tableVars)
<1> pc \in [Thread -> Place] /\ Service \in Thread /\ NULL \notin Thread
  BY MultiplexerAssumption DEF Inv, LockInv, Thread
<1>1. UNCHANGED <<jobs, map, jobListLocker>>
  BY DEF Polling, TestCancel, WaitForJobs, Collect, NothingToPoll, EnterPoll, PollUnblocked,
     PollReturns, SkipNode, RunEnds, SocketsReady, PollFails, list, locks
<1>2. CASE TestCancel \/ WaitForJobs
  <2>1. pc[Service] \notin InRound /\ pc'[Service] \notin InRound
    BY <1>2 DEF TestCancel, WaitForJobs, Goto, InRound
  <2> QED
    BY <1>1, <2>1, MuxTableStays
<1>3. CASE Collect \/ EnterPoll
  <2>1. pc[Service] \in InRound /\ pc'[Service] \in InRound /\ From' = From
    BY <1>3 DEF Collect, EnterPoll, Goto, InRound, From
  <2> QED
    BY <1>1, <2>1, MuxTableStays
<1>4. ASSUME NEW found, PollReturns(found), found # {} PROVE UNCHANGED MuxTable!tableVars
  <2>1. pc[Service] \in InRound /\ pc'[Service] \in InRound /\ From' = From
    BY <1>4 DEF PollReturns, Goto, InRound, From
  <2> QED
    BY <1>1, <2>1, MuxTableStays
<1>5. CASE PollReturns({}) \/ PollFails \/ NothingToPoll \/ RunEnds
  <2>1. pc[Service] \in AtTheList /\ (pc[Service] \notin InRound)'
    BY <1>5 DEF PollReturns, PollFails, NothingToPoll, RunEnds, Goto, InRound, AtTheList
  <2>2. MuxTable!NothingFound
    BY <1>1, <2>1, RoundIsOver
  <2> QED
    BY <2>2, TableNextOf
<1>6. CASE SkipNode
  <2>1. PolledIs /\ PolledIs'
    BY PolledFits, PTL
  <2>2. /\ pc[Service] = "run" /\ pc'[Service] = "run" /\ From = position
        /\ From' = position + 1 /\ jobs[position].job = NULL
    BY <1>6 DEF SkipNode, From
  <2>3. \A s \in Socket :
            (IF map[s] # 0 /\ map[s] >= position THEN jobs[map[s]].job ELSE NULL)
              = IF map[s] # 0 /\ map[s] >= position + 1 THEN jobs[map[s]].job ELSE NULL
    <3>1. map \in [Socket -> 0..Len(jobs)] /\ Len(jobs) \in Nat /\ position \in Nat
      BY LenProperties DEF Inv, Parts, Cells, Cursors
    <3> QED
      BY <2>2, <3>1
  <2>4. PolledJobOf' = PolledJobOf
    BY <1>1, <2>1, <2>2, <2>3 DEF PolledIs
  <2> QED
    BY <1>1, <2>4 DEF MuxTable!tableVars, JobOf
<1> QED
  BY <1>2, <1>3, <1>4, <1>5, <1>6 DEF Polling, SocketsReady, PollUnblocked

LEMMA PurgeMapsToTable ==
    ASSUME Inv, Inv', Purge
    PROVE  UNCHANGED MuxTable!tableVars
<1> pc \in [Thread -> Place] /\ Service \in Thread
  BY DEF Inv, LockInv, Thread
<1>1. pc[Service] \notin InRound /\ (pc[Service] \notin InRound)'
  BY DEF Purge, Goto, InRound
<1>2. PolledJobOf = MuxTable!NoJobs /\ (PolledJobOf = MuxTable!NoJobs)'
  BY <1>1, NotPolling, PTL
<1>3. JobOf' = JobOf
  BY DEF Purge, JobOf, Mapped
<1> QED
  BY <1>2, <1>3 DEF MuxTable!tableVars, MuxTable!NoJobs, Purge, locks

LEMMA StepMapsToTable == Inv /\ Inv' /\ [MuxNext]_muxVars => [MuxTable!TableNext]_(MuxTable!tableVars)
<1> SUFFICES ASSUME Inv, Inv', [MuxNext]_muxVars PROVE [MuxTable!TableNext]_(MuxTable!tableVars)
  OBVIOUS
<1> pc \in [Thread -> Place] /\ Service \in Thread
  BY DEF Inv, LockInv, Thread
<1>1. CASE \E t \in Thread : Locking(t)
  BY <1>1, LockingMapsToTable
<1>2. CASE Polling
  BY <1>2, PollingMapsToTable
<1>3. CASE Editing
  <2>1. \E s \in Socket, j \in Job \cup {NULL} : MuxTable!SetJob(s, j)
    BY <1>3, EditSetsJob DEF Editing
  <2> QED
    BY <2>1, TableNextOf
<1>4. CASE RunJob
  <2>1. \E s \in Socket, j \in Job \cup {NULL} : MuxTable!Run(s, j)
    BY <1>4, RunJobRuns
  <2> QED
    BY <2>1, TableNextOf
<1>5. CASE Purge
  BY <1>5, PurgeMapsToTable
<1>6. CASE Cancel /\ pc' # pc
  <2>1. UNCHANGED <<jobs, map, jobListLocker>> /\ pc[Service] \in AtTheList
        /\ (pc[Service] \notin InRound)'
    BY <1>6 DEF Cancel, Goto, list, locks, AtTheList, InRound
  <2>2. MuxTable!NothingFound
    BY <2>1, RoundIsOver
  <2> QED
    BY <2>2, TableNextOf
<1>7. CASE \/ Cancel /\ pc' = pc
           \/ Destructor \/ UNCHANGED muxVars
           \/ \E t \in Thread : Wakes(t)
           \/ \E t \in Caller : unblockPollSocket(t)
           \/ \E t \in Caller, s \in Socket, new \in Job \cup {NULL} : Calls(t, s, new)
  <2>1. UNCHANGED <<jobs, map, jobListLocker>> /\ pc'[Service] = pc[Service] /\ From' = From
    BY <1>7, MultiplexerAssumption
       DEF Cancel, Destructor, UnblockService, ThreadEnded, Wakes, unblockPollSocket, Calls, Goto,
       list, locks, pollVars, muxVars, From, Thread
  <2> QED
    BY <2>1, MuxTableStays
<1> QED
  BY <1>1, <1>2, <1>3, <1>4, <1>5, <1>6, <1>7, Steps DEF Calling

LEMMA InitMapsToTable == MuxInit => MuxTable!TableInit
<1> SUFFICES ASSUME MuxInit PROVE MuxTable!TableInit
  OBVIOUS
<1>1. pc[Service] \notin InRound
  BY DEF MuxInit, InRound, Thread
<1>2. PolledJobOf = MuxTable!NoJobs
  BY <1>1, InvInit, NotPolling
<1>3. JobOf = MuxTable!NoJobs
  BY DEF MuxInit, JobOf, MuxTable!NoJobs
<1>4. jobListLocker # Service
  BY MultiplexerAssumption DEF MuxInit, Thread
<1> QED
  BY <1>2, <1>3, <1>4 DEF MuxTable!TableInit

\* CSocketMultiplexer implements JobTable: the two locks, the list with its removed
\* nodes, the map and the cached poll array are, to the sockets, a table of jobs.  In
\* a round a job is run at most once, with what poll said of its own socket, and no
\* addSocket or removeSocket changes a job between the poll and the run.
THEOREM MultiplexerIsJobTable == MuxSpec => TableSpec
BY InitMapsToTable, StepMapsToTable, InvHolds, PTL DEF MuxSpec, TableSpec, MuxTable!TableSpec

-----------------------------------------------------------------------------
(***************************************************************************)
(* The sockets.                                                            *)
(***************************************************************************)
Fields ==
    [open : BOOLEAN, connected : BOOLEAN, readable : BOOLEAN, writable : BOOLEAN,
     input : Nat, output : Nat, flushed : BOOLEAN, events : Seq(Events), renew : BOOLEAN]

States == {"none", "connecting", "refused", "up", "gone", "reset"}
Places == {"idle", "look", "make", "setJob", "reading", "flush", "close", "dropListener",
           "aborted"}
JobOrNone == Interest \cup {NULL}

DataTypes ==
    /\ sock \in Fields /\ ~sock.renew
    /\ peer \in States /\ main \in Places
    /\ arrived \in Nat /\ sent \in 0..MaxSent /\ written \in 0..MaxWritten
    /\ told \in BOOLEAN /\ next \in JobOrNone

TableTypes ==
    job \in [Socket -> JobOrNone] /\ polled \in [Socket -> JobOrNone] /\ busy \in BOOLEAN

ListenTypes ==
    /\ listening \in {"new", "open", "closed"} /\ owed \in BOOLEAN /\ deaf \in BOOLEAN
    /\ stuck \in BOOLEAN
    /\ backlog \in Nat /\ connections \in 0..MaxConnections /\ connecting \in {0, 1}

\* Bytes and connections are counted once.
DataBounds == sock.input + arrived <= sent /\ sock.output <= written
ListenBounds == backlog <= connections /\ connecting <= connections

\* The table: a round holds no job that the socket has not got.
TableFits ==
    /\ ~busy => \A s \in Socket : polled[s] = NULL
    /\ \A s \in Socket : polled[s] # NULL => job[s] = polled[s]

\* What holds of the fields whatever the threads do: a socket is connected, or
\* it waits to be, or it neither reads nor writes; no bytes come after the end.
Waits(k) == ~k.connected /\ k.writable
Has(q, event) == \E i \in DOMAIN q : q[i] = event
EndIsLast(q) ==
    \A i, j \in DOMAIN q : q[i] = "inputShutdown" /\ i < j => q[j] # "inputReady"
FieldsFit(k) ==
    /\ k.flushed <=> k.output = 0
    /\ ~k.connected => ~k.readable
    /\ Waits(k) => k.events = <<>>
    /\ EndIsLast(k.events)
    /\ Has(k.events, "inputShutdown") => ~k.readable

\* A socket that was never connected has nobody who was told that it is.
Told == Waits(sock) => ~told

\* A closed socket has nothing.
ClosedHasNothing ==
    ~sock.open =>
        /\ sock = NoSocket /\ peer = "none" /\ told = FALSE /\ job[Me] = NULL
        /\ main \in {"idle", "dropListener", "aborted"}

\* The job that is being made asks for what the socket waits for: only the main
\* thread makes it wait for more.
NextFits ==
    /\ main \notin {"make", "setJob"} => next = NULL
    /\ main = "make" => next # NULL
    /\ next # NULL => (next.kind = "connecting" <=> Waits(sock)) /\ next.kind # "listening"
    /\ main = "setJob" /\ sock.connected =>
          /\ HasOutput(sock) => next # NULL /\ next.write
          /\ sock.readable => next # NULL /\ next.read

\* A socket that waits to be connected is not served before it has its first job.
JobFits ==
    /\ MainMakesJob /\ Waits(sock) => job[Me] = NULL
    /\ job[Me] # NULL => (job[Me].kind = "connecting" <=> Waits(sock)) /\ job[Me].kind # "listening"

\* The listener has a job, an event for it, or a new job to come: one of them.
ListenerFits ==
    /\ owed => listening = "open" /\ main # "dropListener" /\ connecting = 0 /\ job[Listener] = NULL
    /\ connecting # 0 => job[Listener] = NULL /\ listening = "open"
    /\ listening # "open" => job[Listener] = NULL /\ backlog = 0
    /\ main = "dropListener" => listening = "open"
    /\ job[Listener] # NULL => job[Listener] = ListenJob

TInv == TableTypes /\ TableFits

DInv ==
    /\ DataTypes /\ DataBounds /\ FieldsFit(sock) /\ Told /\ ClosedHasNothing
    /\ NextFits /\ JobFits
    /\ OutputIsPolled /\ InputIsPolled /\ InputIsAnnounced

LInv == ListenTypes /\ ListenBounds /\ ListenerFits /\ ListenerIsPolled

IInv == TInv /\ DInv /\ LInv

-----------------------------------------------------------------------------
(***************************************************************************)
(* Queues of events.                                                       *)
(***************************************************************************)
\* An event that is posted is the last one.
LEMMA AppendHas ==
    ASSUME NEW S, NEW q \in Seq(S), NEW e \in S, NEW x
    PROVE  /\ Append(q, e) \in Seq(S) /\ Append(q, e) # <<>>
           /\ Has(Append(q, e), x) <=> Has(q, x) \/ e = x
<1>1. /\ Append(q, e) \in Seq(S) /\ Len(Append(q, e)) = Len(q) + 1
      /\ \A i \in 1..Len(q) : Append(q, e)[i] = q[i]
      /\ Append(q, e)[Len(q) + 1] = e
      /\ DOMAIN Append(q, e) = 1..(Len(q) + 1) /\ DOMAIN q = 1..Len(q) /\ Len(q) \in Nat
  OBVIOUS
<1>2. Append(q, e) # <<>>
  <2>1. Len(Append(q, e)) # 0
    BY <1>1
  <2>2. Len(<<>>) = 0
    OBVIOUS
  <2> QED
    BY <2>1, <2>2, Zenon
<1>3. Has(Append(q, e), x) <=> Has(q, x) \/ e = x
  BY <1>1 DEF Has
<1> QED
  BY <1>1, <1>2, <1>3

\* inputReady is not posted after inputShutdown.
LEMMA AppendKeepsEnd ==
    ASSUME NEW S, NEW q \in Seq(S), NEW e \in S, EndIsLast(q),
           e = "inputReady" => ~Has(q, "inputShutdown")
    PROVE  EndIsLast(Append(q, e))
<1>1. /\ Append(q, e) \in Seq(S) /\ Len(Append(q, e)) = Len(q) + 1
      /\ \A i \in 1..Len(q) : Append(q, e)[i] = q[i]
      /\ Append(q, e)[Len(q) + 1] = e
      /\ DOMAIN Append(q, e) = 1..(Len(q) + 1) /\ DOMAIN q = 1..Len(q) /\ Len(q) \in Nat
  OBVIOUS
<1> SUFFICES ASSUME NEW i \in 1..(Len(q) + 1), NEW j \in 1..(Len(q) + 1),
                    Append(q, e)[i] = "inputShutdown", i < j
             PROVE  Append(q, e)[j] # "inputReady"
  BY <1>1 DEF EndIsLast
<1>2. i \in 1..Len(q) /\ q[i] = "inputShutdown" /\ Has(q, "inputShutdown")
  BY <1>1 DEF Has
<1>3. CASE j = Len(q) + 1
  BY <1>1, <1>2, <1>3
<1>4. CASE j \in 1..Len(q)
  BY <1>1, <1>2, <1>4 DEF EndIsLast
<1> QED
  BY <1>1, <1>3, <1>4

\* The first event is taken.
LEMMA TailHas ==
    ASSUME NEW S, NEW q \in Seq(S), q # <<>>, EndIsLast(q), NEW x
    PROVE  /\ Tail(q) \in Seq(S) /\ EndIsLast(Tail(q))
           /\ Has(q, x) <=> Head(q) = x \/ Has(Tail(q), x)
<1>1. /\ Tail(q) \in Seq(S) /\ Len(q) \in Nat /\ Len(q) # 0 /\ Len(Tail(q)) = Len(q) - 1
      /\ \A i \in 1..(Len(q) - 1) : Tail(q)[i] = q[i + 1]
      /\ DOMAIN Tail(q) = 1..(Len(q) - 1) /\ DOMAIN q = 1..Len(q) /\ Head(q) = q[1]
  OBVIOUS
<1>2. EndIsLast(Tail(q))
  <2> SUFFICES ASSUME NEW i \in 1..(Len(q) - 1), NEW j \in 1..(Len(q) - 1),
                      Tail(q)[i] = "inputShutdown", i < j
               PROVE  Tail(q)[j] # "inputReady"
    BY <1>1 DEF EndIsLast
  <2>1. /\ i + 1 \in DOMAIN q /\ j + 1 \in DOMAIN q /\ i + 1 < j + 1
        /\ q[i + 1] = "inputShutdown" /\ Tail(q)[j] = q[j + 1]
    BY <1>1
  <2> QED
    BY <2>1 DEF EndIsLast
<1>3. ASSUME Has(q, x), Head(q) # x PROVE Has(Tail(q), x)
  <2>1. PICK i \in DOMAIN q : q[i] = x
    BY <1>3 DEF Has
  <2>2. i - 1 \in DOMAIN Tail(q) /\ Tail(q)[i - 1] = x
    BY <1>1, <1>3, <2>1
  <2> QED
    BY <2>2 DEF Has
<1>4. Head(q) = x => Has(q, x)
  BY <1>1 DEF Has
<1>5. ASSUME Has(Tail(q), x) PROVE Has(q, x)
  <2>1. PICK i \in DOMAIN Tail(q) : Tail(q)[i] = x
    BY <1>5 DEF Has
  <2>2. i + 1 \in DOMAIN q /\ q[i + 1] = x
    BY <1>1, <2>1
  <2> QED
    BY <2>2 DEF Has
<1> QED
  BY <1>1, <1>2, <1>3, <1>4, <1>5

\* No events: nothing is out of order.
LEMMA NoEvents ==
    /\ \A x : ~Has(<<>>, x)
    /\ EndIsLast(<<>>) /\ \A S : <<>> \in Seq(S)
BY DEF Has, EndIsLast

-----------------------------------------------------------------------------
(***************************************************************************)
(* The fields.                                                             *)
(***************************************************************************)
\* What the service thread makes of the fields s of a socket that does not wait
\* to be connected: nothing is opened again, and no inputReady is taken back.
Later(s, k) ==
    /\ k \in Fields /\ k.open = s.open /\ FieldsFit(k) /\ ~Waits(k)
    /\ k.connected => s.connected
    /\ k.readable => s.readable
    /\ k.writable => s.writable
    /\ k.output <= s.output
    /\ Has(s.events, "inputReady") => Has(k.events, "inputReady")

\* An event is added, and the rest stays.
LEMMA PostFits ==
    ASSUME NEW k \in Fields, NEW e \in Events, FieldsFit(k), ~Waits(k),
           e \notin {"inputReady", "inputShutdown"}
    PROVE  Later(k, Post(k, e)) /\ Post(k, e).input = k.input /\ Post(k, e).renew = k.renew
<1>1. /\ k.events \in Seq(Events) /\ Append(k.events, e) \in Seq(Events)
      /\ EndIsLast(Append(k.events, e))
      /\ Has(k.events, "inputReady") => Has(Append(k.events, e), "inputReady")
      /\ Has(Append(k.events, e), "inputShutdown") => Has(k.events, "inputShutdown")
  <2>1. k.events \in Seq(Events) /\ EndIsLast(k.events)
    BY DEF Fields, FieldsFit
  <2> QED
    BY <2>1, AppendHas, AppendKeepsEnd
<1>2. /\ Post(k, e) \in Fields /\ Post(k, e).events = Append(k.events, e)
      /\ Post(k, e).open = k.open /\ Post(k, e).connected = k.connected
      /\ Post(k, e).readable = k.readable /\ Post(k, e).writable = k.writable
      /\ Post(k, e).input = k.input /\ Post(k, e).output = k.output
      /\ Post(k, e).flushed = k.flushed /\ Post(k, e).renew = k.renew
  BY <1>1 DEF Post, Fields
<1>3. FieldsFit(Post(k, e)) /\ ~Waits(Post(k, e))
  BY <1>1, <1>2 DEF FieldsFit, Waits
<1>4. k.output <= k.output
  BY DEF Fields
<1> QED
  BY <1>1, <1>2, <1>3, <1>4 DEF Later

\* The end of the output, and of both.
LEMMA EndFits ==
    ASSUME NEW k \in Fields, FieldsFit(k), ~Waits(k)
    PROVE  /\ Later(k, OnOutputShutdown(k)) /\ Later(k, OnDisconnected(k))
           /\ OnOutputShutdown(k).input = k.input /\ OnDisconnected(k).input = 0
           /\ OnOutputShutdown(k).renew = k.renew /\ OnDisconnected(k).renew = k.renew
           /\ ~OnOutputShutdown(k).writable
<1> DEFINE d == OnDisconnected(k)
           o == OnOutputShutdown(k)
           i == OnInputShutdown(k)
           p == OnOutputShutdown(i)
<1>1. /\ o \in Fields /\ o.open = k.open /\ o.connected = k.connected /\ o.readable = k.readable
      /\ ~o.writable /\ o.input = k.input /\ o.output = 0 /\ o.flushed = TRUE
      /\ o.events = k.events /\ o.renew = k.renew
  BY DEF OnOutputShutdown, Fields
<1>2. /\ i \in Fields /\ i.open = k.open /\ i.connected = k.connected /\ ~i.readable
      /\ i.writable = k.writable /\ i.input = 0 /\ i.output = k.output /\ i.flushed = k.flushed
      /\ i.events = k.events /\ i.renew = k.renew
  BY DEF OnInputShutdown, Fields
<1>3. /\ p \in Fields /\ p.open = i.open /\ p.connected = i.connected /\ p.readable = i.readable
      /\ ~p.writable /\ p.input = i.input /\ p.output = 0 /\ p.flushed = TRUE
      /\ p.events = i.events /\ p.renew = i.renew
  BY <1>2 DEF OnOutputShutdown, Fields
<1>4. d = [p EXCEPT !.connected = FALSE]
  BY DEF OnDisconnected
<1> HIDE DEF d, o, i, p
<1>5. /\ d \in Fields /\ d.open = p.open /\ ~d.connected /\ d.readable = p.readable
      /\ d.writable = p.writable /\ d.input = p.input /\ d.output = 0 /\ d.flushed = TRUE
      /\ d.events = p.events /\ d.renew = p.renew
  BY <1>3, <1>4 DEF Fields
<1>6. k.output \in Nat /\ k.connected \in BOOLEAN /\ k.readable \in BOOLEAN
  BY DEF Fields
<1>7. Later(k, o)
  BY <1>1, <1>6 DEF Later, FieldsFit, Waits
<1>8. Later(k, d)
  BY <1>2, <1>3, <1>5, <1>6 DEF Later, FieldsFit, Waits
<1> QED
  BY <1>1, <1>2, <1>3, <1>5, <1>7, <1>8 DEF d, o

\* One after the other.
LEMMA LaterLater ==
    ASSUME NEW s \in Fields, NEW k \in Fields, NEW m, Later(s, k), Later(k, m)
    PROVE  Later(s, m)
<1>1. m \in Fields /\ m.output <= k.output /\ k.output <= s.output
  BY DEF Later
<1>2. m.output <= s.output
  BY <1>1 DEF Fields
<1> QED
  BY <1>2 DEF Later

\* The same fields, later.
LEMMA LaterSame ==
    ASSUME NEW k \in Fields, FieldsFit(k), ~Waits(k)
    PROVE  Later(k, k)
<1>1. k.output <= k.output
  BY DEF Fields
<1> QED
  BY <1>1 DEF Later

\* A new job is wanted, or not.
LEMMA RenewFits ==
    ASSUME NEW k \in Fields, FieldsFit(k), ~Waits(k), NEW r \in BOOLEAN,
           NEW m, m = [k EXCEPT !.renew = r]
    PROVE  Later(k, m) /\ m.input = k.input /\ m.renew = r
<1>1. k.output <= k.output
  BY DEF Fields
<1>2. /\ m \in Fields /\ m.open = k.open /\ m.connected = k.connected /\ m.readable = k.readable
      /\ m.writable = k.writable /\ m.input = k.input /\ m.output = k.output
      /\ m.flushed = k.flushed /\ m.events = k.events /\ m.renew = r
  BY DEF Fields
<1> QED
  BY <1>1, <1>2 DEF Later, FieldsFit, Waits

\* A socket that neither reads nor writes is no longer connected.
LEMMA DisconnectFits ==
    ASSUME NEW k \in Fields, FieldsFit(k), ~k.readable, ~k.writable,
           NEW m, m = [k EXCEPT !.connected = FALSE]
    PROVE  Later(k, m) /\ m.input = k.input /\ m.renew = k.renew
<1>1. k.output <= k.output
  BY DEF Fields
<1>2. /\ m \in Fields /\ m.open = k.open /\ ~m.connected /\ m.readable = k.readable
      /\ m.writable = k.writable /\ m.input = k.input /\ m.output = k.output
      /\ m.flushed = k.flushed /\ m.events = k.events /\ m.renew = k.renew
  BY DEF Fields
<1> QED
  BY <1>1, <1>2 DEF Later, FieldsFit, Waits

\* A write empties the buffer, or a part of it.
LEMMA TakenFits ==
    ASSUME NEW k \in Fields, FieldsFit(k), ~Waits(k), NEW n \in 0..k.output, NEW m,
           \/ m = [k EXCEPT !.output = 0, !.flushed = TRUE, !.renew = TRUE]
           \/ ~(n > 0 /\ n = k.output) /\ m = [k EXCEPT !.output = @ - n]
    PROVE  Later(k, m) /\ m.input = k.input
<1>1. k.output \in Nat /\ k.output - n \in Nat
  BY DEF Fields
<1>2. /\ m \in Fields /\ m.open = k.open /\ m.connected = k.connected /\ m.readable = k.readable
      /\ m.writable = k.writable /\ m.input = k.input
      /\ m.events = k.events
      /\ m.output <= k.output
      /\ m.flushed <=> m.output = 0
  <2>1. CASE m = [k EXCEPT !.output = 0, !.flushed = TRUE, !.renew = TRUE]
    <3>1. /\ m \in Fields /\ m.open = k.open /\ m.connected = k.connected
          /\ m.readable = k.readable /\ m.writable = k.writable /\ m.input = k.input
          /\ m.events = k.events /\ m.output = 0 /\ m.flushed = TRUE
      BY <2>1 DEF Fields
    <3> QED
      BY <1>1, <3>1
  <2>2. CASE ~(n > 0 /\ n = k.output) /\ m = [k EXCEPT !.output = @ - n]
    <3>1. /\ m \in Fields /\ m.open = k.open /\ m.connected = k.connected
          /\ m.readable = k.readable /\ m.writable = k.writable /\ m.input = k.input
          /\ m.events = k.events /\ m.output = k.output - n /\ m.flushed = k.flushed
      BY <1>1, <2>2 DEF Fields
    <3>2. k.flushed <=> k.output = 0
      BY DEF FieldsFit
    <3> QED
      BY <1>1, <2>2, <3>1, <3>2
  <2> QED
    BY <2>1, <2>2
<1> QED
  BY <1>2 DEF Later, FieldsFit, Waits

\* serviceConnected writes: whatever becomes of it.
LEMMA AfterWriteFits ==
    ASSUME NEW k \in Fields, FieldsFit(k), ~Waits(k), NEW result \in WriteResults(k)
    PROVE  Later(k, AfterWrite(k, result)) /\ AfterWrite(k, result).input <= k.input
<1>0. k.input \in Nat
  BY DEF Fields
<1>1. /\ result.how \in {"shutdown", "disconnected", "error", "taken"}
      /\ result.how = "taken" => result.n \in 0..k.output
  BY DEF WriteResults
<1> DEFINE o == OnOutputShutdown(k)
           d == OnDisconnected(k)
<1>2. /\ Later(k, o) /\ o.input = k.input /\ ~o.writable
      /\ Later(k, d) /\ d.input = 0
  BY EndFits
<1>3. o \in Fields /\ FieldsFit(o) /\ ~Waits(o) /\ d \in Fields /\ FieldsFit(d) /\ ~Waits(d)
  BY <1>2 DEF Later
<1> DEFINE shut == Post(o, "outputShutdown")
           last == Post(shut, "disconnected")
           failed == Post(d, "outputError")
<1> HIDE DEF o, d
<1>4. Later(o, shut) /\ shut.input = o.input
  BY <1>3, PostFits DEF Events, Ends
<1>5. /\ shut \in Fields /\ FieldsFit(shut) /\ ~Waits(shut) /\ Later(k, shut)
      /\ shut.input = k.input /\ ~shut.writable
  <2>1. Later(k, shut)
    BY <1>2, <1>3, <1>4, LaterLater DEF Later
  <2> QED
    BY <1>2, <1>4, <2>1 DEF Later
<1> HIDE DEF shut
<1>6. CASE result.how = "shutdown"
  <2>1. CASE ~shut.readable /\ shut.input = 0
    <3>1. Later(shut, last) /\ last.input = shut.input
      BY <1>5, PostFits DEF Events, Ends
    <3>2. last \in Fields /\ FieldsFit(last) /\ ~Waits(last) /\ ~last.readable /\ ~last.writable
      BY <1>5, <2>1, <3>1 DEF Later
    <3> DEFINE m == [last EXCEPT !.connected = FALSE]
               r == [m EXCEPT !.renew = TRUE]
    <3> HIDE DEF last
    <3>3. Later(last, m) /\ m.input = last.input
      BY <3>2, DisconnectFits
    <3>4. m \in Fields /\ FieldsFit(m) /\ ~Waits(m)
      BY <3>3 DEF Later
    <3>5. [last EXCEPT !.connected = FALSE, !.renew = TRUE] = r
      BY <3>2 DEF Fields
    <3> HIDE DEF m
    <3>6. Later(m, r) /\ r.input = m.input
      BY <3>4, RenewFits
    <3>7. Later(k, r)
      <4>1. Later(k, last)
        BY <1>5, <3>1, <3>2, LaterLater
      <4>2. Later(k, m)
        BY <3>2, <3>3, <4>1, LaterLater
      <4> QED
        BY <3>4, <3>6, <4>2, LaterLater
    <3>8. AfterWrite(k, result) = r
      BY <1>6, <2>1, <3>5 DEF AfterWrite, shut, last, o
    <3>9. r.input = k.input
      BY <1>5, <3>1, <3>3, <3>6
    <3> QED
      BY <1>0, <3>7, <3>8, <3>9
  <2>2. CASE ~(~shut.readable /\ shut.input = 0)
    <3> DEFINE r == [shut EXCEPT !.renew = TRUE]
    <3>1. Later(shut, r) /\ r.input = shut.input
      BY <1>5, RenewFits
    <3>2. AfterWrite(k, result) = r
      BY <1>6, <2>2 DEF AfterWrite, shut, o
    <3> HIDE DEF r
    <3>3. Later(k, r)
      BY <1>5, <3>1, LaterLater
    <3> QED
      BY <1>0, <1>5, <3>1, <3>2, <3>3
  <2> QED
    BY <2>1, <2>2
<1>7. ASSUME NEW x \in Fields, Later(k, x), x.input = 0
      PROVE  /\ Later(k, [Post(x, "disconnected") EXCEPT !.renew = TRUE])
             /\ [Post(x, "disconnected") EXCEPT !.renew = TRUE].input = 0
  <2>1. FieldsFit(x) /\ ~Waits(x)
    BY <1>7 DEF Later
  <2>2. Later(x, Post(x, "disconnected")) /\ Post(x, "disconnected").input = 0
    BY <1>7, <2>1, PostFits DEF Events, Ends
  <2> DEFINE y == Post(x, "disconnected")
             r == [y EXCEPT !.renew = TRUE]
  <2>3. y \in Fields /\ FieldsFit(y) /\ ~Waits(y) /\ y.input = 0
    BY <2>2 DEF Later
  <2> HIDE DEF y
  <2>4. Later(y, r) /\ r.input = y.input
    BY <2>3, RenewFits
  <2>5. Later(k, y)
    BY <1>7, <2>2, <2>3, LaterLater DEF y
  <2>6. Later(k, r)
    BY <2>3, <2>4, <2>5, LaterLater
  <2> QED
    BY <2>3, <2>4, <2>6 DEF y
<1>8. CASE result.how = "disconnected"
  <2>1. AfterWrite(k, result) = [Post(d, "disconnected") EXCEPT !.renew = TRUE]
    BY <1>8 DEF AfterWrite, d
  <2> QED
    BY <1>0, <1>2, <1>3, <1>7, <2>1
<1>9. CASE result.how = "error"
  <2>1. AfterWrite(k, result) = [Post(failed, "disconnected") EXCEPT !.renew = TRUE]
    BY <1>9 DEF AfterWrite, d
  <2>2. Later(d, failed) /\ failed.input = 0
    BY <1>2, <1>3, PostFits DEF Events, Ends
  <2>3. failed \in Fields /\ Later(k, failed)
    BY <1>2, <1>3, <2>2, LaterLater DEF Later
  <2> HIDE DEF failed
  <2> QED
    BY <1>0, <1>7, <2>1, <2>2, <2>3
<1>10. CASE result.how = "taken"
  <2>1. \/ AfterWrite(k, result) = [k EXCEPT !.output = 0, !.flushed = TRUE, !.renew = TRUE]
        \/ /\ ~(result.n > 0 /\ result.n = k.output)
           /\ AfterWrite(k, result) = [k EXCEPT !.output = @ - result.n]
    BY <1>10 DEF AfterWrite
  <2>2. PICK n \in 0..k.output : n = result.n
    BY <1>1, <1>10
  <2>3. Later(k, AfterWrite(k, result)) /\ AfterWrite(k, result).input = k.input
    BY <2>1, <2>2, TakenFits
  <2> QED
    BY <1>0, <2>3
<1> QED
  BY <1>1, <1>6, <1>8, <1>9, <1>10

\* What a read takes from the kernel has not been in the buffer before, and an
\* event tells of it if the buffer was empty.
LEMMA AfterReadFits ==
    ASSUME NEW k \in Fields, FieldsFit(k), ~Waits(k), k.readable, arrived \in Nat,
           NEW result \in ReadResults
    PROVE  /\ Later(k, AfterRead(k, result)) /\ AfterRead(k, result).input <= k.input + arrived
           /\ peer # "reset" /\ k.input = 0 /\ AfterRead(k, result).input > 0
                => Has(AfterRead(k, result).events, "inputReady")
<1>0. k.input \in Nat /\ k.output \in Nat /\ k.output <= k.output
  BY DEF Fields
<1>1. /\ result \in {"bytes", "end", "disconnected", "error", "cut"}
      /\ result = "cut" => peer = "reset"
  BY DEF ReadResults
<1>2. CASE result \in {"bytes", "cut"}
  <2> DEFINE g == [k EXCEPT !.input = @ + arrived]
             t == Post(g, "inputReady")
  <2>1. /\ g \in Fields /\ g.open = k.open /\ g.connected = k.connected /\ g.readable = k.readable
        /\ g.writable = k.writable /\ g.input = k.input + arrived /\ g.output = k.output
        /\ g.flushed = k.flushed /\ g.events = k.events /\ g.renew = k.renew
    <3>1. PICK n \in Nat : n = k.input + arrived
      BY <1>0
    <3>2. g = [k EXCEPT !.input = n]
      BY <3>1
    <3> QED
      BY <3>1, <3>2 DEF Fields
  <2> HIDE DEF g
  <2>2. Later(k, g)
    BY <1>0, <2>1 DEF Later, FieldsFit, Waits
  <2>3. /\ t \in Fields /\ t.events = Append(g.events, "inputReady")
        /\ t.open = g.open /\ t.connected = g.connected
        /\ t.readable = g.readable /\ t.writable = g.writable
        /\ t.input = g.input /\ t.output = g.output
        /\ t.flushed = g.flushed /\ t.renew = g.renew
    <3>1. Append(g.events, "inputReady") \in Seq(Events)
      BY <2>1 DEF Fields, Events
    <3> QED
      BY <2>1, <3>1 DEF Post, Fields
  <2>4. /\ EndIsLast(t.events) /\ Has(t.events, "inputReady")
        /\ Has(t.events, "inputShutdown") => Has(g.events, "inputShutdown")
    <3>1. g.events \in Seq(Events) /\ EndIsLast(g.events) /\ ~Has(g.events, "inputShutdown")
      BY <2>1 DEF Fields, FieldsFit
    <3>2. "inputReady" \in Events
      BY DEF Events
    <3>3. EndIsLast(Append(g.events, "inputReady"))
      BY <3>1, <3>2, AppendKeepsEnd
    <3>4. \A x : Has(Append(g.events, "inputReady"), x) <=> Has(g.events, x) \/ "inputReady" = x
      BY <3>1, <3>2, AppendHas
    <3> QED
      BY <2>3, <3>3, <3>4
  <2> HIDE DEF t
  <2>5. Later(k, t)
    BY <1>0, <2>1, <2>3, <2>4 DEF Later, FieldsFit, Waits
  <2>6. AfterRead(k, result) = g \/ AfterRead(k, result) = t
    BY <1>2 DEF AfterRead, g, t
  <2>7. result = "bytes" /\ k.input = 0 => AfterRead(k, result) = t
    BY DEF AfterRead, g, t, WasInputEmpty
  <2>8. g.input <= k.input + arrived /\ t.input <= k.input + arrived
    BY <1>0, <2>1, <2>3
  <2> QED
    BY <1>1, <1>2, <2>2, <2>4, <2>5, <2>6, <2>7, <2>8
<1>3. CASE result = "end"
  <2> DEFINE shut == Post(k, "inputShutdown")
             u == [shut EXCEPT !.readable = FALSE]
             last == Post(shut, "disconnected")
             v == Post(u, "disconnected")
             w == [v EXCEPT !.connected = FALSE]
  <2>1. /\ shut \in Fields /\ shut.events = Append(k.events, "inputShutdown")
        /\ shut.open = k.open /\ shut.connected = k.connected
        /\ shut.readable = k.readable /\ shut.writable = k.writable
        /\ shut.input = k.input /\ shut.output = k.output
        /\ shut.flushed = k.flushed /\ shut.renew = k.renew
    <3>1. Append(k.events, "inputShutdown") \in Seq(Events)
      BY DEF Fields, Events, Ends
    <3> QED
      BY <3>1 DEF Post, Fields
  <2>2. /\ EndIsLast(shut.events)
        /\ Has(k.events, "inputReady") => Has(shut.events, "inputReady")
    <3>1. k.events \in Seq(Events) /\ EndIsLast(k.events)
      BY DEF Fields, FieldsFit
    <3>2. "inputShutdown" \in Events
      BY DEF Events, Ends
    <3>3. EndIsLast(Append(k.events, "inputShutdown"))
      BY <3>1, <3>2, AppendKeepsEnd
    <3>4. \A x : Has(Append(k.events, "inputShutdown"), x) <=> Has(k.events, x) \/ "inputShutdown" = x
      BY <3>1, <3>2, AppendHas
    <3> QED
      BY <2>1, <3>3, <3>4
  <2> HIDE DEF shut
  <2>3. /\ u \in Fields /\ u.open = k.open /\ u.connected = k.connected /\ ~u.readable
        /\ u.writable = k.writable /\ u.input = k.input /\ u.output = k.output
        /\ u.flushed = k.flushed /\ u.events = shut.events /\ u.renew = k.renew
    BY <2>1 DEF Fields
  <2> HIDE DEF u
  <2>4. Later(k, u) /\ FieldsFit(u) /\ ~Waits(u)
    BY <1>0, <2>2, <2>3 DEF Later, FieldsFit, Waits
  <2>5. Later(u, v) /\ v.input = u.input /\ v.renew = u.renew
    BY <2>3, <2>4, PostFits DEF Events, Ends
  <2>6. v \in Fields /\ FieldsFit(v) /\ ~Waits(v) /\ ~v.readable /\ (~u.writable => ~v.writable)
    BY <2>3, <2>5 DEF Later
  <2>7. Later(k, v)
    BY <2>3, <2>4, <2>5, LaterLater
  <2>8. ASSUME ~shut.writable
        PROVE  [[last EXCEPT !.connected = FALSE] EXCEPT !.readable = FALSE, !.renew = TRUE]
                    = [w EXCEPT !.renew = TRUE]
    <3>1. shut.events \in Seq(Events) /\ Append(shut.events, "disconnected") \in Seq(Events)
      BY <2>1 DEF Fields, Events, Ends
    <3> QED
      BY <2>1, <3>1 DEF Fields, Post, u
  <2> HIDE DEF v
  <2>9. CASE ~shut.writable /\ shut.input = 0
    <3>1. Later(v, w) /\ w.input = v.input /\ w.renew = v.renew
      BY <2>1, <2>3, <2>6, <2>9, DisconnectFits
    <3>2. w \in Fields /\ FieldsFit(w) /\ ~Waits(w)
      BY <3>1 DEF Later
    <3>3. Later(k, w)
      BY <2>6, <2>7, <3>1, LaterLater
    <3> DEFINE r == [w EXCEPT !.renew = TRUE]
    <3>4. AfterRead(k, result) = r
      BY <1>3, <2>8, <2>9 DEF AfterRead, shut
    <3> HIDE DEF w
    <3>5. Later(w, r) /\ r.input = w.input
      BY <3>2, RenewFits
    <3> HIDE DEF r
    <3>6. Later(k, r)
      BY <3>2, <3>3, <3>5, LaterLater
    <3>7. r.input = k.input
      BY <2>3, <2>5, <3>1, <3>5
    <3> QED
      BY <1>0, <3>4, <3>6, <3>7
  <2>10. CASE ~(~shut.writable /\ shut.input = 0)
    <3> DEFINE r == [u EXCEPT !.renew = TRUE]
    <3>1. AfterRead(k, result) = r
      <4>1. AfterRead(k, result) = [shut EXCEPT !.readable = FALSE, !.renew = TRUE]
        BY <1>3, <2>10 DEF AfterRead, shut
      <4> QED
        BY <2>1, <4>1 DEF Fields, u
    <3>2. Later(u, r) /\ r.input = u.input
      BY <2>3, <2>4, RenewFits
    <3> HIDE DEF r
    <3>3. Later(k, r)
      BY <2>3, <2>4, <3>2, LaterLater
    <3> QED
      BY <1>0, <2>3, <3>1, <3>2, <3>3
  <2> QED
    BY <2>9, <2>10
<1>4. CASE result = "disconnected"
  <2> DEFINE p == Post(k, "disconnected")
             d == OnDisconnected(p)
             r == [d EXCEPT !.renew = TRUE]
  <2>1. Later(k, p)
    BY PostFits DEF Events, Ends
  <2>2. p \in Fields /\ FieldsFit(p) /\ ~Waits(p)
    BY <2>1 DEF Later
  <2> HIDE DEF p
  <2>3. Later(p, d) /\ d.input = 0
    BY <2>2, EndFits
  <2>4. d \in Fields /\ FieldsFit(d) /\ ~Waits(d) /\ Later(k, d)
    BY <2>1, <2>2, <2>3, LaterLater DEF Later
  <2>5. AfterRead(k, result) = r
    BY <1>4 DEF AfterRead, p
  <2> HIDE DEF d
  <2>6. Later(d, r) /\ r.input = d.input
    BY <2>4, RenewFits
  <2> HIDE DEF r
  <2>7. Later(k, r)
    BY <2>4, <2>6, LaterLater
  <2> QED
    BY <1>0, <2>3, <2>5, <2>6, <2>7
<1>5. CASE result = "error"
  <2>1. AfterRead(k, result) = k
    BY <1>5 DEF AfterRead
  <2> QED
    BY <1>0, <2>1, LaterSame
<1> QED
  BY <1>1, <1>2, <1>3, <1>4, <1>5

\* serviceConnected, whatever it comes to.
LEMMA ServiceConnectedFits ==
    ASSUME NEW s \in Fields, FieldsFit(s), ~Waits(s), arrived \in Nat,
           NEW found, NEW k \in ServiceConnected(s, found)
    PROVE  /\ Later(s, k) /\ k.input <= s.input + arrived
           /\ peer # "reset" /\ (s.input > 0 => Has(s.events, "inputReady") \/ main = "reading")
                => (k.input > 0 => Has(k.events, "inputReady") \/ main = "reading")
<1>0. s.input \in Nat
  BY DEF Fields
<1>1. CASE found.error
  <2> DEFINE p == Post(s, "disconnected")
             d == OnDisconnected(p)
             r == [d EXCEPT !.renew = TRUE]
  <2>1. Later(s, p)
    BY PostFits DEF Events, Ends
  <2>2. p \in Fields /\ FieldsFit(p) /\ ~Waits(p)
    BY <2>1 DEF Later
  <2>5. k = r
    BY <1>1 DEF ServiceConnected
  <2> HIDE DEF p
  <2>3. Later(p, d) /\ d.input = 0
    BY <2>2, EndFits
  <2>4. d \in Fields /\ FieldsFit(d) /\ ~Waits(d) /\ Later(s, d)
    BY <2>1, <2>2, <2>3, LaterLater DEF Later
  <2> HIDE DEF d
  <2>6. Later(d, r) /\ r.input = d.input
    BY <2>4, RenewFits
  <2> HIDE DEF r
  <2>7. Later(s, r)
    BY <2>4, <2>6, LaterLater
  <2> QED
    BY <1>0, <2>3, <2>5, <2>6, <2>7
<1>2. CASE ~found.error
  <2>1. PICK w \in Written(s, found) :
           \/ found.read /\ w.readable /\ k \in {AfterRead(w, result) : result \in ReadResults}
           \/ k = w
    BY <1>2 DEF ServiceConnected
  <2>2. Later(s, w) /\ w.input <= s.input
    <3>1. CASE found.write
      <4>1. PICK result \in WriteResults(s) : w = AfterWrite(s, result)
        BY <3>1, <2>1 DEF Written
      <4> QED
        BY <4>1, AfterWriteFits
    <3>2. CASE ~found.write
      <4>1. w = s
        BY <3>2, <2>1 DEF Written
      <4> QED
        BY <1>0, <4>1, LaterSame
    <3> QED
      BY <3>1, <3>2
  <2>3. /\ w \in Fields /\ FieldsFit(w) /\ ~Waits(w) /\ w.input \in Nat
        /\ Has(s.events, "inputReady") => Has(w.events, "inputReady")
    BY <2>2 DEF Later, Fields
  <2>4. CASE k = w
    BY <1>0, <2>2, <2>3, <2>4
  <2>5. CASE w.readable /\ k \in {AfterRead(w, result) : result \in ReadResults}
    <3>1. PICK result \in ReadResults : k = AfterRead(w, result)
      BY <2>5
    <3>2. /\ Later(w, k) /\ k.input <= w.input + arrived
          /\ peer # "reset" /\ w.input = 0 /\ k.input > 0 => Has(k.events, "inputReady")
      BY <2>3, <2>5, <3>1, AfterReadFits
    <3>3. Later(s, k) /\ k.input \in Nat
      <4>1. Later(s, k)
        BY <2>2, <2>3, <3>2, LaterLater
      <4> QED
        BY <4>1 DEF Later, Fields
    <3>4. k.input <= s.input + arrived
      BY <1>0, <2>2, <2>3, <3>2, <3>3
    <3>5. Has(w.events, "inputReady") => Has(k.events, "inputReady")
      BY <3>2 DEF Later
    <3>6. ASSUME peer # "reset", s.input > 0 => Has(s.events, "inputReady") \/ main = "reading",
                 k.input > 0
          PROVE  Has(k.events, "inputReady") \/ main = "reading"
      <4>1. CASE w.input = 0
        BY <3>2, <3>6, <4>1
      <4>2. CASE w.input > 0
        <5>1. s.input > 0
          BY <1>0, <2>2, <2>3, <4>2
        <5> QED
          BY <2>3, <3>5, <3>6, <5>1
      <4> QED
        BY <2>3, <4>1, <4>2
    <3> QED
      BY <3>3, <3>4, <3>6
  <2> QED
    BY <2>1, <2>4, <2>5
<1> QED
  BY <1>1, <1>2

-----------------------------------------------------------------------------
(***************************************************************************)
(* The table.                                                              *)
(***************************************************************************)
\* addSocket and removeSocket change one job, between two rounds.
LEMMA SetJobFits ==
    ASSUME TInv, NEW s \in Socket, NEW j \in JobOrNone, Table!SetJob(s, j)
    PROVE  TInv' /\ job'[s] = j /\ \A t \in Socket \ {s} : job'[t] = job[t]
BY DEF TInv, TableTypes, TableFits, Table!SetJob

\* A job that is run was polled, and is replaced by the one it returns.
LEMMA RunFits ==
    ASSUME TInv, NEW s \in Socket, NEW j \in JobOrNone, Table!Run(s, j)
    PROVE  TInv' /\ job'[s] = j /\ \A t \in Socket \ {s} : job'[t] = job[t]
<1>1. NULL \in JobOrNone
  BY DEF JobOrNone
<1>2. job' = [job EXCEPT ![s] = j] /\ polled' = [polled EXCEPT ![s] = NULL] /\ busy /\ busy' = busy
  BY DEF Table!Run
<1>3. TableTypes'
  BY <1>1, <1>2 DEF TInv, TableTypes
<1>4. TableFits'
  BY <1>2 DEF TInv, TableTypes, TableFits
<1> QED
  BY <1>2, <1>3, <1>4 DEF TInv, TableTypes

\* A round changes no job.
LEMMA RoundFits ==
    ASSUME TInv, Table!BeginRound \/ Table!NothingFound \/ Table!EndRound
    PROVE  TInv' /\ job' = job
<1>1. CASE Table!BeginRound
  BY <1>1 DEF TInv, TableTypes, TableFits, Table!BeginRound
<1>2. CASE Table!NothingFound
  <2>1. NULL \in JobOrNone
    BY DEF JobOrNone
  <2> QED
    BY <1>2, <2>1 DEF TInv, TableTypes, TableFits, Table!NothingFound, Table!NoJobs
<1>3. CASE Table!EndRound
  BY <1>3 DEF TInv, TableTypes, TableFits, Table!EndRound, Table!NoJobs
<1> QED
  BY <1>1, <1>2, <1>3

\* The table stays.
LEMMA TableStays ==
    ASSUME TInv, UNCHANGED tableVars
    PROVE  TInv' /\ job' = job
BY DEF TInv, TableTypes, TableFits, tableVars

-----------------------------------------------------------------------------
(***************************************************************************)
(* What the steps of one socket leave of the other.                        *)
(***************************************************************************)
\* A step of the data socket does not touch the listener.
LEMMA ListenerStays ==
    ASSUME LInv, UNCHANGED listenVars, job'[Listener] = job[Listener],
           main' = "dropListener" <=> main = "dropListener"
    PROVE  LInv'
BY DEF LInv, ListenTypes, ListenBounds, ListenerFits, ListenerIsPolled, listenVars

\* Nor a step of the listener the data socket; the main thread is at most busy
\* with the listener's end.
LEMMA DataStays ==
    ASSUME DInv, UNCHANGED dataVars, job'[Me] = job[Me],
           \/ main' = main
           \/ main \in {"idle", "dropListener"} /\ main' \in {"idle", "dropListener", "aborted"}
    PROVE  DInv'
<1>1. DataTypes' /\ DataBounds' /\ FieldsFit(sock)' /\ Told'
  BY DEF DInv, DataTypes, DataBounds, FieldsFit, Told, dataVars, Waits, EndIsLast, Has, Places
<1>2. ClosedHasNothing' /\ NextFits'
  BY DEF DInv, ClosedHasNothing, NextFits, dataVars, Waits, HasOutput
<1>3. JobFits' /\ OutputIsPolled' /\ InputIsPolled' /\ InputIsAnnounced'
  BY DEF DInv, JobFits, OutputIsPolled, InputIsPolled, InputIsAnnounced, MainMakesJob, dataVars,
         Waits, HasOutput
<1> QED
  BY <1>1, <1>2, <1>3 DEF DInv

-----------------------------------------------------------------------------
(***************************************************************************)
(* The steps of the main thread at the data socket.                        *)
(***************************************************************************)
\* A socket is made: accepted, connected at once, or waiting to be.
LEMMA NewFits ==
    /\ OnConnected([NoSocket EXCEPT !.open = TRUE]) =
          [NoSocket EXCEPT !.open = TRUE, !.connected = TRUE, !.readable = TRUE, !.writable = TRUE]
    /\ Post(OnConnected([NoSocket EXCEPT !.open = TRUE]), "connected") =
          [NoSocket EXCEPT !.open = TRUE, !.connected = TRUE, !.readable = TRUE, !.writable = TRUE,
                           !.events = <<"connected">>]
    /\ NoSocket \in Fields /\ EndIsLast(<<"connected">>) /\ ~Has(<<"connected">>, "inputShutdown")
<1>1. <<>> \in Seq(Events) /\ Append(<<>>, "connected") = <<"connected">>
  OBVIOUS
<1>2. EndIsLast(<<"connected">>) /\ ~Has(<<"connected">>, "inputShutdown")
  BY DEF EndIsLast, Has
<1> QED
  BY <1>1, <1>2 DEF NoSocket, OnConnected, Post, Fields

LEMMA OpenKeeps ==
    ASSUME DInv, TInv, NEW k, UserIdle, ~sock.open, sock' = k,
           k \in Fields, k.open, ~k.renew, k.input = 0, k.output = 0, FieldsFit(k),
           peer' \in States, arrived' = 0, sent' = 0, written' = 0,
           main' = "look" \/ (main' = "close" /\ ~k.connected /\ ~k.writable),
           told' \in BOOLEAN, Waits(k) => ~told', next' = next
    PROVE  DInv'
<1>1. job' = job /\ job[Me] = NULL /\ main = "idle" /\ next = NULL
  BY DEF UserIdle, tableVars, DInv, ClosedHasNothing, NextFits
<1>2. DataTypes' /\ DataBounds'
  BY <1>1, DataAssumption DEF DataTypes, DataBounds, Places, JobOrNone
<1>3. FieldsFit(sock)' /\ Told' /\ ClosedHasNothing' /\ NextFits' /\ JobFits'
  BY <1>1 DEF FieldsFit, Told, ClosedHasNothing, NextFits, JobFits, Waits, Has, EndIsLast
<1>4. OutputIsPolled' /\ InputIsPolled' /\ InputIsAnnounced'
  BY <1>1 DEF OutputIsPolled, InputIsPolled, InputIsAnnounced, MainMakesJob, HasOutput
<1> QED
  BY <1>2, <1>3, <1>4 DEF DInv

LEMMA AcceptedKeeps ==
    ASSUME DInv, TInv, Accepted
    PROVE  DInv'
<1> DEFINE k == [NoSocket EXCEPT !.open = TRUE, !.connected = TRUE, !.readable = TRUE, !.writable = TRUE]
<1>1. sock' = k /\ UserIdle /\ ~sock.open /\ peer' = "up" /\ arrived' = 0 /\ sent' = 0
      /\ written' = 0 /\ main' = "look" /\ told' = TRUE /\ next' = next
  BY NewFits DEF Accepted
<1>2. k \in Fields /\ k.open /\ k.connected /\ ~k.renew /\ k.input = 0 /\ k.output = 0
      /\ k.flushed /\ k.events = <<>>
  BY NewFits DEF NoSocket, Fields
<1>3. FieldsFit(k) /\ ~Waits(k)
  BY <1>2, NoEvents DEF FieldsFit, Waits
<1> HIDE DEF k
<1> QED
  BY <1>1, <1>2, <1>3, OpenKeeps DEF States

LEMMA ConnectKeeps ==
    ASSUME DInv, TInv, Connect
    PROVE  DInv'
<1>1. UserIdle /\ ~sock.open /\ arrived' = 0 /\ sent' = 0
      /\ written' = 0 /\ told' = FALSE /\ next' = next
  BY DEF Connect
<1>2. CASE /\ sock' = Post(OnConnected([NoSocket EXCEPT !.open = TRUE]), "connected") /\ peer' = "up"
           /\ main' = "look"
  <2> DEFINE k == [NoSocket EXCEPT !.open = TRUE, !.connected = TRUE, !.readable = TRUE,
                                   !.writable = TRUE, !.events = <<"connected">>]
  <2>1. sock' = k
    BY <1>2, NewFits
  <2>2. <<"connected">> \in Seq(Events)
    BY DEF Events
  <2>3. k \in Fields /\ k.open /\ k.connected /\ ~k.renew /\ k.input = 0 /\ k.output = 0
        /\ k.flushed /\ k.events = <<"connected">>
    BY <2>2, NewFits DEF NoSocket, Fields
  <2>4. FieldsFit(k) /\ ~Waits(k)
    BY <2>3, NewFits DEF FieldsFit, Waits
  <2> HIDE DEF k
  <2> QED
    BY <1>1, <1>2, <2>1, <2>3, <2>4, OpenKeeps DEF States
<1>3. CASE /\ sock' = [NoSocket EXCEPT !.open = TRUE, !.writable = TRUE] /\ peer' = "connecting"
           /\ main' = "look"
  <2> DEFINE k == [NoSocket EXCEPT !.open = TRUE, !.writable = TRUE]
  <2>3. k \in Fields /\ k.open /\ ~k.readable /\ ~k.renew /\ k.input = 0 /\ k.output = 0
        /\ k.flushed /\ k.events = <<>>
    BY NewFits DEF NoSocket, Fields
  <2>4. FieldsFit(k)
    BY <2>3, NoEvents DEF FieldsFit, Waits
  <2> HIDE DEF k
  <2> QED
    BY <1>1, <1>3, <2>3, <2>4, OpenKeeps DEF States, k
<1>4. CASE sock' = [NoSocket EXCEPT !.open = TRUE] /\ peer' = "none" /\ main' = "close"
  <2> DEFINE k == [NoSocket EXCEPT !.open = TRUE]
  <2>3. k \in Fields /\ k.open /\ ~k.connected /\ ~k.readable /\ ~k.writable /\ ~k.renew
        /\ k.input = 0 /\ k.output = 0 /\ k.flushed /\ k.events = <<>>
    BY NewFits DEF NoSocket, Fields
  <2>4. FieldsFit(k) /\ ~Waits(k)
    BY <2>3, NoEvents DEF FieldsFit, Waits
  <2>5. sock' = k
    BY <1>4
  <2> HIDE DEF k
  <2> QED
    BY <1>1, <1>4, <2>3, <2>4, <2>5, OpenKeeps DEF States
<1> QED
  BY <1>2, <1>3, <1>4 DEF Connect

\* The user, told that the socket is connected, writes.
LEMMA WriteKeeps ==
    ASSUME DInv, TInv, Write
    PROVE  DInv' /\ main' # "dropListener" /\ main = "idle"
<1>1. /\ job' = job /\ main = "idle" /\ told /\ written < MaxWritten /\ written' = written + 1
      /\ peer' = peer /\ arrived' = arrived /\ sent' = sent /\ told' = told /\ next' = next
  BY DEF Write, UserIdle, tableVars, Env
<1>2. /\ ~Waits(sock) /\ sock \in Fields /\ FieldsFit(sock) /\ sock.open /\ next = NULL
      /\ sock.output \in Nat /\ sock.input \in Nat /\ sock.writable \in BOOLEAN
  BY <1>1 DEF DInv, Told, DataTypes, Fields, ClosedHasNothing, NextFits
<1>3. CASE ~sock.writable
  <2>1. sock' = Post(sock, "outputError") /\ main' = main
    BY <1>3 DEF Write
  <2>2. Later(sock, sock') /\ sock'.input = sock.input /\ sock'.renew = sock.renew
    BY <1>2, <2>1, PostFits DEF Events, Ends
  <2>3. sock'.output \in Nat /\ sock' \in Fields
    BY <2>2 DEF Later, Fields
  <2>4. DataTypes' /\ DataBounds'
    BY <1>1, <1>2, <2>1, <2>2, <2>3, DataAssumption DEF DInv, DataTypes, DataBounds, Later
  <2>5. FieldsFit(sock)' /\ Told' /\ ClosedHasNothing' /\ NextFits'
    <3>1. FieldsFit(sock')
      BY <2>2 DEF Later
    <3>2. FieldsFit(sock)'
      BY <3>1 DEF FieldsFit, Waits, Has, EndIsLast
    <3> QED
      BY <1>1, <1>2, <2>1, <2>2, <3>2 DEF Later, Told, ClosedHasNothing, NextFits, DInv, Waits
  <2>6. JobFits' /\ OutputIsPolled' /\ InputIsPolled'
    BY <1>1, <1>2, <1>3, <2>1, <2>2 DEF Later, DInv, JobFits, OutputIsPolled, InputIsPolled,
       MainMakesJob, HasOutput, Waits
  <2>7. InputIsAnnounced'
    BY <1>1, <2>1, <2>2 DEF Later, DInv, InputIsAnnounced, Has
  <2> QED
    BY <1>1, <2>1, <2>4, <2>5, <2>6, <2>7 DEF DInv
<1>4. CASE sock.writable
  <2>1. PICK n \in Nat : n = sock.output + 1
    BY <1>2
  <2>2. /\ sock' = [sock EXCEPT !.output = n, !.flushed = FALSE]
        /\ main' = IF WasEmpty THEN "look" ELSE "idle"
    BY <1>4, <2>1 DEF Write
  <2>3. /\ sock' \in Fields /\ sock'.open = sock.open /\ sock'.connected = sock.connected
        /\ sock'.readable = sock.readable /\ sock'.writable = sock.writable
        /\ sock'.input = sock.input /\ sock'.output = n /\ sock'.flushed = FALSE
        /\ sock'.events = sock.events /\ sock'.renew = sock.renew
    BY <1>2, <2>1, <2>2 DEF Fields
  <2>4. DataTypes' /\ DataBounds'
    BY <1>1, <1>2, <2>1, <2>2, <2>3, DataAssumption DEF DInv, DataTypes, DataBounds, Places
  <2>5. FieldsFit(sock)' /\ Told' /\ ClosedHasNothing' /\ NextFits'
    BY <1>1, <1>2, <2>1, <2>2, <2>3 DEF FieldsFit, Has, EndIsLast, Waits, Told, ClosedHasNothing, NextFits, DInv
  <2>6. JobFits' /\ OutputIsPolled' /\ InputIsPolled'
    BY <1>1, <1>2, <1>4, <2>1, <2>2, <2>3 DEF DInv, JobFits, OutputIsPolled, InputIsPolled,
       MainMakesJob, HasOutput, Waits, WasEmpty
  <2>7. InputIsAnnounced'
    BY <1>1, <2>2, <2>3 DEF DInv, InputIsAnnounced
  <2> QED
    BY <1>1, <2>2, <2>4, <2>5, <2>6, <2>7 DEF DInv
<1> QED
  BY <1>2, <1>3, <1>4

\* The first look at the fields, and the second.
LEMMA JobForFits ==
    ASSUME NEW k \in Fields, NEW kind \in {"connecting", "connected"}
    PROVE  /\ JobFor(kind, k) \in Interest /\ JobFor(kind, k) # NULL
           /\ JobFor(kind, k).kind = kind /\ JobFor(kind, k).read = k.readable
           /\ kind = "connected" => JobFor(kind, k).write = HasOutput(k)
<1>1. k.readable \in BOOLEAN /\ k.writable \in BOOLEAN /\ HasOutput(k) \in BOOLEAN
  BY DEF Fields, HasOutput
<1> DEFINE w == IF kind = "connected" THEN HasOutput(k) ELSE k.writable
<1>2. w \in BOOLEAN
  BY <1>1
<1>3. JobFor(kind, k) = [kind |-> kind, read |-> k.readable, write |-> w]
  BY DEF JobFor
<1>4. kind = "connected" => w = HasOutput(k)
  OBVIOUS
<1> HIDE DEF w
<1>5. /\ JobFor(kind, k) \in Interest
      /\ JobFor(kind, k).kind = kind /\ JobFor(kind, k).read = k.readable
      /\ JobFor(kind, k).write = w
  BY <1>1, <1>2, <1>3 DEF Interest
<1> QED
  BY <1>4, <1>5, DataAssumption

LEMMA LookForJobKeeps ==
    ASSUME DInv, TInv, LookForJob
    PROVE  DInv' /\ main' # "dropListener" /\ main = "look"
<1>1. /\ job' = job /\ main = "look" /\ sock' = sock /\ peer' = peer /\ arrived' = arrived
      /\ sent' = sent /\ written' = written /\ told' = told
  BY DEF LookForJob, tableVars, Env
<1>2. sock \in Fields /\ sock.open /\ FieldsFit(sock)
  BY <1>1 DEF DInv, DataTypes, ClosedHasNothing
<1>3. CASE NoInterest(sock)
  <2>1. next' = NULL /\ main' = "setJob"
    BY <1>3 DEF LookForJob
  <2>2. ~Waits(sock) /\ (sock.connected => ~sock.readable /\ ~HasOutput(sock))
    BY <1>2, <1>3 DEF NoInterest, Waits, FieldsFit
  <2>3. DataTypes' /\ DataBounds' /\ FieldsFit(sock)' /\ Told'
    BY <1>1, <2>1 DEF DInv, DataTypes, DataBounds, FieldsFit, Told, Waits, Has, EndIsLast, Places, JobOrNone
  <2>4. ClosedHasNothing' /\ NextFits' /\ JobFits'
    BY <1>1, <1>2, <2>1, <2>2 DEF DInv, ClosedHasNothing, NextFits, JobFits, Waits, HasOutput, MainMakesJob
  <2>5. OutputIsPolled' /\ InputIsPolled' /\ InputIsAnnounced'
    BY <1>1, <1>2, <2>1, <2>2 DEF DInv, OutputIsPolled, InputIsPolled, InputIsAnnounced, HasOutput, MainMakesJob
  <2> QED
    BY <1>1, <2>1, <2>3, <2>4, <2>5 DEF DInv
<1>4. CASE ~NoInterest(sock)
  <2>1. next' = JobFor(Kind(sock), sock) /\ main' = "make"
    BY <1>4 DEF LookForJob
  <2>2. Kind(sock) \in {"connecting", "connected"} /\ (Kind(sock) = "connecting" <=> Waits(sock))
    BY <1>2, <1>4 DEF NoInterest, Waits, FieldsFit, Kind
  <2>3. /\ next' \in Interest /\ next' # NULL /\ next'.kind \in {"connecting", "connected"}
        /\ next'.kind = "connecting" <=> Waits(sock)
    BY <1>2, <2>1, <2>2, JobForFits
  <2>4. DataTypes' /\ DataBounds' /\ FieldsFit(sock)' /\ Told'
    BY <1>1, <2>1, <2>3 DEF DInv, DataTypes, DataBounds, FieldsFit, Told, Waits, Has, EndIsLast, Places, JobOrNone
  <2>5. ClosedHasNothing' /\ NextFits' /\ JobFits'
    BY <1>1, <1>2, <2>1, <2>3 DEF DInv, ClosedHasNothing, NextFits, JobFits, Waits, HasOutput, MainMakesJob
  <2>6. OutputIsPolled' /\ InputIsPolled' /\ InputIsAnnounced'
    BY <1>1, <1>2, <2>1, <2>3 DEF DInv, OutputIsPolled, InputIsPolled, InputIsAnnounced, HasOutput, MainMakesJob
  <2> QED
    BY <1>1, <2>1, <2>4, <2>5, <2>6 DEF DInv
<1> QED
  BY <1>3, <1>4

LEMMA MakeJobKeeps ==
    ASSUME DInv, TInv, MakeJob
    PROVE  DInv' /\ main' # "dropListener" /\ main = "make"
<1>1. /\ job' = job /\ main = "make" /\ sock' = sock /\ peer' = peer /\ arrived' = arrived
      /\ sent' = sent /\ written' = written /\ told' = told
      /\ next' = JobFor(next.kind, sock) /\ main' = "setJob"
  BY DEF MakeJob, tableVars, Env
<1>2. sock \in Fields /\ sock.open /\ FieldsFit(sock)
  BY <1>1 DEF DInv, DataTypes, ClosedHasNothing
<1>3. /\ next # NULL /\ next \in Interest /\ next.kind \in {"connecting", "connected"}
      /\ next.kind = "connecting" <=> Waits(sock)
  BY <1>1 DEF DInv, NextFits, DataTypes, JobOrNone, Interest
<1>4. /\ next' \in Interest /\ next' # NULL /\ next'.kind = next.kind
      /\ next'.read = sock.readable /\ (next.kind = "connected" => next'.write = HasOutput(sock))
  BY <1>1, <1>2, <1>3, JobForFits
<1>5. sock.connected => next.kind = "connected"
  BY <1>3 DEF Waits
<1>6. DataTypes' /\ DataBounds' /\ FieldsFit(sock)' /\ Told'
  BY <1>1, <1>4 DEF DInv, DataTypes, DataBounds, FieldsFit, Told, Waits, Has, EndIsLast, Places, JobOrNone
<1>7. ClosedHasNothing' /\ NextFits' /\ JobFits'
  BY <1>1, <1>2, <1>3, <1>4, <1>5 DEF DInv, ClosedHasNothing, NextFits, JobFits, Waits, HasOutput, MainMakesJob
<1>8. OutputIsPolled' /\ InputIsPolled' /\ InputIsAnnounced'
  BY <1>1, <1>4 DEF DInv, OutputIsPolled, InputIsPolled, InputIsAnnounced, HasOutput, MainMakesJob
<1> QED
  BY <1>1, <1>6, <1>7, <1>8 DEF DInv

LEMMA SetJobKeeps ==
    ASSUME DInv, TInv, SetJob
    PROVE  /\ DInv' /\ main' # "dropListener" /\ main = "setJob"
           /\ TInv' /\ job'[Listener] = job[Listener]
<1>1. /\ main = "setJob" /\ Table!SetJob(Me, next) /\ sock' = sock /\ peer' = peer
      /\ arrived' = arrived /\ sent' = sent /\ written' = written /\ told' = told
      /\ next' = NULL /\ main' = "idle"
  BY DEF SetJob, Env
<1>2. /\ sock \in Fields /\ sock.open /\ FieldsFit(sock) /\ next \in JobOrNone
      /\ Me \in Socket /\ Listener \in Socket \ {Me}
  BY <1>1, DataAssumption, ListenAssumption, SocketsAssumption DEF DInv, DataTypes, ClosedHasNothing
<1>3. TInv' /\ job'[Me] = next /\ job'[Listener] = job[Listener]
  BY <1>1, <1>2, SetJobFits
<1>4. DataTypes' /\ DataBounds' /\ FieldsFit(sock)' /\ Told'
  BY <1>1 DEF DInv, DataTypes, DataBounds, FieldsFit, Told, Waits, Has, EndIsLast, Places, JobOrNone
<1>5. ClosedHasNothing' /\ NextFits' /\ JobFits'
  BY <1>1, <1>2, <1>3 DEF DInv, ClosedHasNothing, NextFits, JobFits, Waits, HasOutput, MainMakesJob
<1>6. OutputIsPolled' /\ InputIsPolled' /\ InputIsAnnounced'
  BY <1>1, <1>3 DEF DInv, OutputIsPolled, InputIsPolled, InputIsAnnounced, HasOutput, MainMakesJob, NextFits
<1> QED
  BY <1>1, <1>3, <1>4, <1>5, <1>6 DEF DInv

\* The user reads until the buffer is empty.
LEMMA ReadKeeps ==
    ASSUME DInv, TInv, Read
    PROVE  DInv' /\ main' # "dropListener" /\ main = "reading"
<1>1. /\ job' = job /\ main = "reading" /\ peer' = peer /\ arrived' = arrived
      /\ sent' = sent /\ written' = written /\ told' = told /\ next' = next
  BY DEF Read, tableVars, Env
<1>2. /\ sock \in Fields /\ sock.open /\ FieldsFit(sock) /\ sock.input \in Nat /\ next = NULL
      /\ sock.writable \in BOOLEAN /\ ~sock.renew
  BY <1>1 DEF DInv, DataTypes, ClosedHasNothing, Fields, NextFits
<1>3. CASE sock.input = 0 /\ main' = "idle" /\ sock' = sock
  <2>1. DataTypes' /\ DataBounds' /\ FieldsFit(sock)' /\ Told'
    BY <1>1, <1>3 DEF DInv, DataTypes, DataBounds, FieldsFit, Told, Waits, Has, EndIsLast, Places
  <2>2. ClosedHasNothing' /\ NextFits' /\ JobFits'
    BY <1>1, <1>2, <1>3 DEF DInv, ClosedHasNothing, NextFits, JobFits, Waits, HasOutput, MainMakesJob
  <2>3. OutputIsPolled' /\ InputIsPolled' /\ InputIsAnnounced'
    BY <1>1, <1>3 DEF DInv, OutputIsPolled, InputIsPolled, InputIsAnnounced, HasOutput, MainMakesJob
  <2> QED
    BY <1>1, <1>3, <2>1, <2>2, <2>3 DEF DInv
<1>4. CASE main' = main /\ \E n \in 1..sock.input :
             LET k == [sock EXCEPT !.input = @ - n] IN
                sock' = IF DrainedByRead(k)
                        THEN [Post(k, "disconnected") EXCEPT !.connected = FALSE] ELSE k
  <2>1. PICK n \in 1..sock.input :
             LET k == [sock EXCEPT !.input = @ - n] IN
                sock' = IF DrainedByRead(k)
                        THEN [Post(k, "disconnected") EXCEPT !.connected = FALSE] ELSE k
    BY <1>4
  <2>2. PICK m \in Nat : m = sock.input - n /\ m <= sock.input
    BY <1>2
  <2> DEFINE k == [sock EXCEPT !.input = m]
             p == Post(k, "disconnected")
  <2>3. sock' = IF DrainedByRead(k) THEN [p EXCEPT !.connected = FALSE] ELSE k
    BY <2>1, <2>2
  <2>4. /\ k \in Fields /\ k.open = sock.open /\ k.connected = sock.connected
        /\ k.readable = sock.readable /\ k.writable = sock.writable
        /\ k.input = m /\ k.output = sock.output /\ k.flushed = sock.flushed
        /\ k.events = sock.events /\ k.renew = sock.renew
    BY <1>2, <2>2 DEF Fields
  <2> HIDE DEF k
  <2>5. FieldsFit(k) /\ (Waits(k) <=> Waits(sock))
    BY <1>2, <2>4 DEF FieldsFit, Waits
  <2>6. /\ sock' \in Fields /\ sock'.open = sock.open /\ (sock'.connected => sock.connected)
        /\ sock'.readable = sock.readable /\ sock'.writable = sock.writable
        /\ sock'.input = m /\ sock'.output = sock.output /\ sock'.renew = sock.renew
        /\ FieldsFit(sock') /\ (Waits(sock') <=> Waits(sock))
    <3>1. CASE DrainedByRead(k)
      <4>1. ~k.readable /\ ~k.writable /\ ~Waits(k)
        BY <3>1 DEF DrainedByRead, Waits
      <4>2. /\ p \in Fields /\ FieldsFit(p) /\ ~p.readable /\ ~p.writable /\ p.open = k.open
            /\ p.connected = k.connected /\ p.readable = k.readable /\ p.writable = k.writable
            /\ p.input = k.input /\ p.output = k.output /\ p.renew = k.renew
        <5>1. Later(k, p) /\ p.input = k.input /\ p.renew = k.renew
          BY <2>4, <2>5, <4>1, PostFits DEF Events, Ends
        <5>2. /\ p.connected = k.connected /\ p.readable = k.readable /\ p.writable = k.writable
              /\ p.output = k.output
          BY <2>4 DEF Post, Fields
        <5> QED
          BY <4>1, <5>1, <5>2 DEF Later
      <4> HIDE DEF p
      <4>3. sock' = [p EXCEPT !.connected = FALSE]
        BY <2>3, <3>1
      <4>4. Later(p, sock') /\ sock'.input = p.input /\ sock'.renew = p.renew
        BY <4>2, <4>3, DisconnectFits
      <4>5. sock'.readable = p.readable /\ sock'.writable = p.writable /\ sock'.output = p.output
            /\ ~sock'.connected
        BY <4>2, <4>3 DEF Fields
      <4> QED
        BY <2>4, <2>5, <4>1, <4>2, <4>4, <4>5 DEF Later
    <3>2. CASE ~DrainedByRead(k)
      BY <2>3, <2>4, <2>5, <3>2
    <3> QED
      BY <3>1, <3>2
  <2>7. DataTypes' /\ DataBounds'
    BY <1>1, <1>2, <1>4, <2>2, <2>6 DEF DInv, DataTypes, DataBounds
  <2>8. FieldsFit(sock)' /\ Told' /\ ClosedHasNothing' /\ NextFits' /\ JobFits'
    <3>1. FieldsFit(sock)'
      BY <2>6 DEF FieldsFit, Waits, Has, EndIsLast
    <3> QED
      BY <1>1, <1>2, <1>4, <2>6, <3>1 DEF DInv, Told, ClosedHasNothing, NextFits, JobFits, Waits,
         HasOutput, MainMakesJob
  <2>9. OutputIsPolled' /\ InputIsPolled' /\ InputIsAnnounced'
    BY <1>1, <1>4, <2>6 DEF DInv, OutputIsPolled, InputIsPolled, InputIsAnnounced, HasOutput, MainMakesJob
  <2> QED
    BY <1>1, <1>4, <2>7, <2>8, <2>9 DEF DInv
<1> QED
  BY <1>3, <1>4 DEF Read

\* The main thread waits for the peer, or for the table, and comes back.
LEMMA MainMoves ==
    ASSUME DInv, TInv, job' = job, UNCHANGED dataVars,
           main \in {"idle", "flush"}, main' \in {"idle", "flush", "close"}, sock.open
    PROVE  DInv'
<1>1. DataTypes' /\ DataBounds' /\ FieldsFit(sock)' /\ Told'
  BY DEF DInv, DataTypes, DataBounds, FieldsFit, Told, dataVars, Waits, EndIsLast, Has, Places
<1>2. ClosedHasNothing' /\ NextFits'
  BY DEF DInv, ClosedHasNothing, NextFits, dataVars, Waits, HasOutput
<1>3. JobFits' /\ OutputIsPolled' /\ InputIsPolled' /\ InputIsAnnounced'
  BY DEF DInv, JobFits, OutputIsPolled, InputIsPolled, InputIsAnnounced, MainMakesJob, dataVars,
         Waits, HasOutput
<1> QED
  BY <1>1, <1>2, <1>3 DEF DInv

LEMMA FlushKeeps ==
    ASSUME DInv, TInv, Flush \/ Flushed \/ Close
    PROVE  /\ DInv' /\ UNCHANGED tableVars /\ main # "dropListener" /\ main' # "dropListener"
<1>1. /\ UNCHANGED tableVars /\ UNCHANGED dataVars
      /\ main \in {"idle", "flush"} /\ main' \in {"idle", "flush", "close"}
      /\ main = "flush" \/ told \/ sock.open
  BY DEF Flush, Flushed, Close, UserIdle, CloseAtOnce
<1>2. sock.open
  BY <1>1 DEF DInv, ClosedHasNothing
<1>3. job' = job
  BY <1>1 DEF tableVars
<1> QED
  BY <1>1, <1>2, <1>3, MainMoves

\* close takes the job away and leaves nothing.
LEMMA ClosedKeeps ==
    ASSUME DInv, TInv, Closed
    PROVE  /\ DInv' /\ main' # "dropListener" /\ main = "close"
           /\ TInv' /\ job'[Listener] = job[Listener]
<1>1. /\ main = "close" /\ Table!SetJob(Me, NULL) /\ sock' = NoSocket /\ peer' = "none"
      /\ arrived' = 0 /\ sent' = 0 /\ written' = 0 /\ told' = FALSE
      /\ next' = next /\ main' = "idle"
  BY DEF Closed, RemoveFirst
<1>2. Me \in Socket /\ Listener \in Socket \ {Me} /\ NULL \in JobOrNone
  BY DataAssumption, ListenAssumption, SocketsAssumption DEF JobOrNone
<1>3. TInv' /\ job'[Me] = NULL /\ job'[Listener] = job[Listener]
  BY <1>1, <1>2, SetJobFits
<1>4. /\ NoSocket \in Fields /\ ~NoSocket.open /\ ~NoSocket.connected /\ ~NoSocket.readable
      /\ ~NoSocket.writable /\ NoSocket.input = 0 /\ NoSocket.output = 0 /\ NoSocket.flushed
      /\ NoSocket.events = <<>> /\ ~NoSocket.renew
  BY NewFits DEF NoSocket
<1>5. next = NULL
  BY <1>1 DEF DInv, NextFits
<1>6. DataTypes' /\ DataBounds' /\ Told'
  <2>1. 0 \in 0..MaxSent /\ 0 \in 0..MaxWritten
    BY DataAssumption
  <2>2. DataTypes'
    BY <1>1, <1>2, <1>4, <1>5, <2>1 DEF DataTypes, Places, States
  <2>3. DataBounds'
    BY <1>1, <1>4 DEF DataBounds
  <2> QED
    BY <1>1, <1>4, <2>2, <2>3 DEF Told, Waits
<1>7. FieldsFit(sock)'
  <2>1. FieldsFit(NoSocket)
    BY <1>4, NoEvents DEF FieldsFit, Waits
  <2> QED
    BY <1>1, <2>1 DEF FieldsFit, Waits, Has, EndIsLast
<1>8. ClosedHasNothing' /\ NextFits' /\ JobFits'
  BY <1>1, <1>3, <1>4, <1>5 DEF ClosedHasNothing, NextFits, JobFits, Waits
<1>9. OutputIsPolled' /\ InputIsPolled' /\ InputIsAnnounced'
  BY <1>1, <1>4 DEF OutputIsPolled, InputIsPolled, InputIsAnnounced
<1> QED
  BY <1>1, <1>3, <1>6, <1>7, <1>8, <1>9 DEF DInv

\* An event is handled: input is read, an end closes the socket.
LEMMA HandleKeeps ==
    ASSUME DInv, TInv, Handle
    PROVE  DInv' /\ main' # "dropListener" /\ main = "idle"
<1>1. /\ job' = job /\ main = "idle" /\ sock.events # <<>>
      /\ sock' = [sock EXCEPT !.events = Tail(@)]
      /\ told' = (told \/ Head(sock.events) = "connected")
      /\ peer' = peer /\ arrived' = arrived /\ sent' = sent /\ written' = written /\ next' = next
      /\ main' \in {"idle", "reading", "close"}
      /\ Head(sock.events) = "inputReady" => main' = "reading"
  BY DEF Handle, UserIdle, tableVars, Env, Ends
<1>2. /\ sock \in Fields /\ FieldsFit(sock) /\ next = NULL /\ ~sock.renew
      /\ sock.events \in Seq(Events) /\ EndIsLast(sock.events)
  BY <1>1 DEF DInv, DataTypes, Fields, NextFits, FieldsFit
<1>3. sock.open /\ ~Waits(sock)
  <2>1. ~sock.open => sock.events = <<>>
    BY DEF DInv, ClosedHasNothing, NoSocket
  <2> QED
    BY <1>1, <1>2, <2>1 DEF FieldsFit, DInv, DataTypes, Fields
<1>4. /\ Tail(sock.events) \in Seq(Events) /\ EndIsLast(Tail(sock.events))
      /\ \A x : Has(sock.events, x) <=> Head(sock.events) = x \/ Has(Tail(sock.events), x)
  BY <1>1, <1>2, TailHas
<1>5. /\ sock' \in Fields /\ sock'.open = sock.open /\ sock'.connected = sock.connected
      /\ sock'.readable = sock.readable /\ sock'.writable = sock.writable
      /\ sock'.input = sock.input /\ sock'.output = sock.output /\ sock'.flushed = sock.flushed
      /\ sock'.events = Tail(sock.events) /\ sock'.renew = sock.renew
  BY <1>1, <1>2, <1>4 DEF Fields
<1>6. DataTypes' /\ DataBounds' /\ Told'
  BY <1>1, <1>2, <1>3, <1>5 DEF DInv, DataTypes, DataBounds, Told, Waits, Places
<1>7. FieldsFit(sock)'
  <2>1. FieldsFit(sock')
    BY <1>2, <1>3, <1>4, <1>5 DEF FieldsFit, Waits
  <2> QED
    BY <2>1 DEF FieldsFit, Waits, Has, EndIsLast
<1>8. ClosedHasNothing' /\ NextFits' /\ JobFits'
  BY <1>1, <1>2, <1>3, <1>5 DEF DInv, ClosedHasNothing, NextFits, JobFits, Waits, MainMakesJob, HasOutput
<1>9. OutputIsPolled' /\ InputIsPolled'
  BY <1>1, <1>5 DEF DInv, OutputIsPolled, InputIsPolled, MainMakesJob, HasOutput
<1>10. InputIsAnnounced'
  <2>1. sock.input > 0 /\ peer # "reset" => Has(sock.events, "inputReady")
    BY <1>1 DEF DInv, InputIsAnnounced, Has
  <2>2. sock'.input > 0 /\ peer' # "reset" => main' = "reading" \/ Has(sock'.events, "inputReady")
    BY <1>1, <1>4, <1>5, <2>1
  <2> QED
    BY <2>2 DEF InputIsAnnounced, Has
<1> QED
  BY <1>1, <1>6, <1>7, <1>8, <1>9, <1>10 DEF DInv

\* The other end sends, goes, or answers.
LEMMA PeerKeeps ==
    ASSUME DInv, TInv, Peer
    PROVE  DInv' /\ UNCHANGED tableVars /\ main' = main
<1>1. /\ UNCHANGED tableVars /\ main' = main /\ sock' = sock /\ written' = written
      /\ told' = told /\ next' = next /\ job' = job
  BY DEF Peer, tableVars
<1>2. /\ peer' \in States /\ arrived' \in Nat /\ sent' \in 0..MaxSent
      /\ sock.input + arrived' <= sent' /\ peer # "none" /\ (peer = "reset" => peer' = "reset")
  <2>1. /\ sock.input \in Nat /\ arrived \in Nat /\ sent \in 0..MaxSent /\ MaxSent \in Nat
        /\ sock.input + arrived <= sent
    BY DataAssumption DEF DInv, DataTypes, DataBounds, Fields
  <2> QED
    BY <2>1 DEF Peer, States
<1>3. DataTypes' /\ DataBounds' /\ FieldsFit(sock)' /\ Told'
  BY <1>1, <1>2 DEF DInv, DataTypes, DataBounds, FieldsFit, Told, Waits, EndIsLast, Has
<1>4. ClosedHasNothing' /\ NextFits'
  BY <1>1, <1>2 DEF DInv, ClosedHasNothing, NextFits, Waits, HasOutput
<1>5. JobFits' /\ OutputIsPolled' /\ InputIsPolled' /\ InputIsAnnounced'
  BY <1>1, <1>2 DEF DInv, JobFits, OutputIsPolled, InputIsPolled, InputIsAnnounced, MainMakesJob,
     Waits, HasOutput
<1> QED
  BY <1>1, <1>3, <1>4, <1>5 DEF DInv

-----------------------------------------------------------------------------
(***************************************************************************)
(* The service thread runs the job of the data socket.                     *)
(***************************************************************************)
\* A job that is made from the fields asks for what they wait for.
LEMMA NewJobFits ==
    ASSUME NEW k \in Fields, k.open, FieldsFit(k), ~Waits(k)
    PROVE  /\ NewJob(k) \in JobOrNone
           /\ NewJob(k) # NULL => NewJob(k).kind = "connected"
           /\ k.connected /\ HasOutput(k) => NewJob(k) # NULL /\ NewJob(k).write
           /\ k.connected /\ k.readable => NewJob(k) # NULL /\ NewJob(k).read
<1>1. CASE NoInterest(k)
  <2>1. NewJob(k) = NULL
    BY <1>1 DEF NewJob
  <2> QED
    BY <1>1, <2>1 DEF NoInterest, JobOrNone
<1>2. CASE ~NoInterest(k)
  <2>1. k.connected
    BY <1>2 DEF NoInterest, Waits, FieldsFit
  <2>2. NewJob(k) = JobFor("connected", k)
    BY <1>2, <2>1 DEF NewJob, Kind
  <2> QED
    BY <2>2, JobForFits DEF JobOrNone
<1> QED
  BY <1>1, <1>2

\* The fields change to k and the job with them: a new one, or the old one if
\* nothing that it depends on has changed.
LEMMA ServedKeeps ==
    ASSUME DInv, TInv, sock.open, NEW k \in Fields, FieldsFit(k), ~Waits(k), k.open,
           k.input <= sock.input + arrived, k.output <= sock.output,
           peer # "reset" /\ k.input > 0 => Has(k.events, "inputReady") \/ main = "reading",
           job[Me] # NULL,
           \/ ~Waits(sock) /\ Later(sock, k)
           \/ Waits(sock) /\ k.renew,
           sock' = [k EXCEPT !.renew = FALSE],
           job'[Me] = Renewed(k),
           arrived' = IF k.input > sock.input THEN 0 ELSE arrived,
           UNCHANGED <<peer, sent, written, told, main, next>>
    PROVE  DInv'
<1>1. /\ sock' \in Fields /\ sock'.open /\ sock'.connected = k.connected
      /\ sock'.readable = k.readable /\ sock'.writable = k.writable
      /\ sock'.input = k.input /\ sock'.output = k.output /\ sock'.flushed = k.flushed
      /\ sock'.events = k.events /\ ~sock'.renew
  BY DEF Fields
<1>2. /\ sock.input \in Nat /\ arrived \in Nat /\ k.input \in Nat /\ k.output \in Nat
      /\ sent \in Nat /\ written \in Nat /\ sock.output \in Nat
      /\ sock.input + arrived <= sent /\ sock.output <= written
  BY DataAssumption DEF DInv, DataTypes, DataBounds, Fields
<1>3. DataTypes' /\ DataBounds'
  BY <1>1, <1>2 DEF DInv, DataTypes, DataBounds
<1>4. FieldsFit(sock)' /\ Told'
  <2>1. FieldsFit(sock')
    BY <1>1 DEF FieldsFit, Waits
  <2>2. FieldsFit(sock)'
    BY <2>1 DEF FieldsFit, Waits, Has, EndIsLast
  <2> QED
    BY <1>1, <2>2 DEF Told, Waits
<1>5. ~Waits(sock') /\ (HasOutput(sock') <=> HasOutput(k))
  BY <1>1 DEF Waits, HasOutput
<1>6. /\ job'[Me] \in JobOrNone
      /\ job'[Me] # NULL => job'[Me].kind = "connected"
      /\ k.connected /\ HasOutput(k) =>
            \/ job'[Me] # NULL /\ job'[Me].write
            \/ Later(sock, k) /\ job'[Me] = job[Me]
      /\ k.connected /\ k.readable =>
            \/ job'[Me] # NULL /\ job'[Me].read
            \/ Later(sock, k) /\ job'[Me] = job[Me]
  <2>1. CASE k.renew
    <3>1. job'[Me] = NewJob(k)
      BY <2>1 DEF Renewed
    <3> QED
      BY <3>1, NewJobFits
  <2>2. CASE ~k.renew
    <3>1. job'[Me] = job[Me] /\ ~Waits(sock) /\ Later(sock, k)
      BY <2>2 DEF Renewed
    <3>2. job[Me] \in Interest /\ job[Me].kind = "connected"
      BY <3>1, DataAssumption DEF DInv, JobFits, TInv, TableTypes, JobOrNone, Interest
    <3> QED
      BY <3>1, <3>2 DEF JobOrNone
  <2> QED
    BY <2>1, <2>2
<1>7. Waits(sock) => ~MainMakesJob /\ next = NULL
  BY DEF DInv, JobFits, NextFits, MainMakesJob
<1>8. Later(sock, k) =>
         /\ k.connected => sock.connected
         /\ k.readable => sock.readable
         /\ HasOutput(k) => HasOutput(sock)
  BY <1>2 DEF Later, HasOutput
<1>9. ClosedHasNothing' /\ JobFits'
  BY <1>1, <1>5, <1>6 DEF ClosedHasNothing, JobFits
<1>10. NextFits'
  BY <1>1, <1>5, <1>7, <1>8 DEF DInv, NextFits, MainMakesJob
<1>11. OutputIsPolled'
  BY <1>1, <1>5, <1>6, <1>8 DEF DInv, OutputIsPolled, MainMakesJob
<1>12. InputIsPolled'
  BY <1>1, <1>5, <1>6, <1>8 DEF DInv, InputIsPolled, MainMakesJob
<1>13. InputIsAnnounced'
  BY <1>1 DEF InputIsAnnounced, Has
<1> QED
  BY <1>3, <1>4, <1>9, <1>10, <1>11, <1>12, <1>13 DEF DInv

\* serviceConnecting: the connection is there, or it has failed.
LEMMA ServiceConnectingFits ==
    ASSUME DInv, sock.open, Waits(sock), NEW found, NEW k, k = ServiceConnecting(sock, found)
    PROVE  /\ k \in Fields /\ k.open /\ FieldsFit(k) /\ k.input <= sock.input /\ k.output <= sock.output
           /\ k = sock \/ (k.renew /\ ~Waits(k))
<1>1. /\ sock \in Fields /\ FieldsFit(sock) /\ sock.events = <<>> /\ ~sock.connected
      /\ sock.writable /\ ~sock.readable
      /\ sock.input \in Nat /\ sock.output \in Nat /\ ~sock.renew
  BY DEF DInv, DataTypes, FieldsFit, Waits, Fields
<1>2. ASSUME NEW e \in {"connected", "connectionFailed"}
      PROVE  /\ Post(sock, e) = [sock EXCEPT !.events = <<e>>]
             /\ Post(sock, e) \in Fields /\ EndIsLast(<<e>>) /\ ~Has(<<e>>, "inputShutdown")
  <2>1. Append(sock.events, e) = <<e>> /\ <<e>> \in Seq(Events)
    BY <1>1 DEF Events, Ends
  <2>2. EndIsLast(<<e>>) /\ ~Has(<<e>>, "inputShutdown")
    BY DEF EndIsLast, Has
  <2> QED
    BY <1>1, <2>1, <2>2 DEF Post, Fields
<1>3. CASE peer \in {"refused", "reset"}
  <2> DEFINE p == Post(sock, "connectionFailed")
             i == OnInputShutdown(p)
             o == OnOutputShutdown(i)
  <2>1. k = [[o EXCEPT !.connected = FALSE] EXCEPT !.renew = TRUE]
    BY <1>3 DEF ServiceConnecting, OnDisconnected
  <2>2. /\ p \in Fields /\ p.open /\ p.events = <<"connectionFailed">> /\ p.input = sock.input
        /\ p.output = sock.output
    BY <1>1, <1>2 DEF Fields
  <2> HIDE DEF p
  <2>3. /\ i \in Fields /\ i.open /\ i.events = <<"connectionFailed">> /\ i.input = 0
        /\ i.output = sock.output /\ ~i.readable
    BY <2>2 DEF OnInputShutdown, Fields
  <2> HIDE DEF i
  <2>4. /\ o \in Fields /\ o.open /\ o.events = <<"connectionFailed">> /\ o.input = 0
        /\ o.output = 0 /\ ~o.readable /\ ~o.writable /\ o.flushed = TRUE
    BY <2>3 DEF OnOutputShutdown, Fields
  <2> HIDE DEF o
  <2>5. /\ k \in Fields /\ k.open /\ k.events = <<"connectionFailed">> /\ k.input = 0
        /\ k.output = 0 /\ ~k.readable /\ ~k.writable /\ k.flushed = TRUE /\ ~k.connected /\ k.renew
    BY <2>1, <2>4 DEF Fields
  <2>6. EndIsLast(k.events) /\ ~Has(k.events, "inputShutdown")
    BY <1>2, <2>5
  <2> QED
    BY <1>1, <2>5, <2>6 DEF FieldsFit, Waits
<1>4. CASE peer \notin {"refused", "reset"} /\ found.write
  <2> DEFINE p == Post(sock, "connected")
             o == OnConnected(p)
  <2>1. k = [o EXCEPT !.renew = TRUE]
    BY <1>4 DEF ServiceConnecting
  <2>2. /\ p \in Fields /\ p.open /\ p.events = <<"connected">> /\ p.input = sock.input
        /\ p.output = sock.output /\ p.flushed = sock.flushed
    BY <1>1, <1>2 DEF Fields
  <2> HIDE DEF p
  <2>3. /\ o \in Fields /\ o.open /\ o.events = <<"connected">> /\ o.input = sock.input
        /\ o.output = sock.output /\ o.flushed = sock.flushed /\ o.connected
    BY <2>2 DEF OnConnected, Fields
  <2> HIDE DEF o
  <2>4. /\ k \in Fields /\ k.open /\ k.events = <<"connected">> /\ k.input = sock.input
        /\ k.output = sock.output /\ k.flushed = sock.flushed /\ k.connected /\ k.renew
    BY <2>1, <2>3 DEF Fields
  <2>5. EndIsLast(k.events) /\ ~Has(k.events, "inputShutdown")
    BY <1>2, <2>4
  <2> QED
    BY <1>1, <2>4, <2>5 DEF FieldsFit, Waits
<1>5. CASE peer \notin {"refused", "reset"} /\ ~found.write
  <2>1. k = sock
    BY <1>5 DEF ServiceConnecting
  <2>2. sock.input <= sock.input /\ sock.output <= sock.output
    BY <1>1
  <2>3. FieldsFit(k) /\ k.open
    BY <1>1, <2>1, Zenon
  <2>4. k \in Fields /\ k.input <= sock.input /\ k.output <= sock.output
    BY <1>1, <2>1, <2>2, Zenon
  <2> QED
    BY <2>1, <2>3, <2>4
<1> QED
  BY <1>3, <1>4, <1>5

LEMMA ServeDataKeeps ==
    ASSUME DInv, TInv, ServeData
    PROVE  DInv' /\ TInv' /\ job'[Listener] = job[Listener] /\ main' = main
<1>1. PICK found \in PollFinds(polled[Me]) : Serve(found)
  BY DEF ServeData
<1>2. polled[Me] # NULL /\ Me \in Socket /\ Listener \in Socket \ {Me}
  BY DataAssumption, ListenAssumption, SocketsAssumption DEF ServeData
<1>3. job[Me] = polled[Me] /\ job[Me] # NULL /\ job[Me] \in JobOrNone
  BY <1>2 DEF TInv, TableTypes, TableFits
<1>4. /\ sock.open /\ sock \in Fields /\ FieldsFit(sock) /\ arrived \in Nat /\ ~sock.renew
      /\ job[Me].kind = "connecting" <=> Waits(sock)
  BY <1>3 DEF DInv, ClosedHasNothing, DataTypes, JobFits
<1>5. PICK k \in IF polled[Me].kind = "connecting" THEN {ServiceConnecting(sock, found)}
                 ELSE ServiceConnected(sock, found) :
        /\ sock' = [k EXCEPT !.renew = FALSE]
        /\ Table!Run(Me, Renewed(k))
        /\ arrived' = IF k.input > sock.input THEN 0 ELSE arrived
        /\ UNCHANGED <<peer, sent, written, told, main, next>>
  BY <1>1 DEF Serve
<1>6. ASSUME Renewed(k) \in JobOrNone
      PROVE  TInv' /\ job'[Me] = Renewed(k) /\ job'[Listener] = job[Listener] /\ main' = main
  BY <1>2, <1>5, <1>6, RunFits
<1>7. CASE Waits(sock)
  <2>1. k = ServiceConnecting(sock, found)
    BY <1>3, <1>4, <1>5, <1>7
  <2>2. /\ k \in Fields /\ k.open /\ FieldsFit(k) /\ k.input <= sock.input /\ k.output <= sock.output
        /\ k = sock \/ (k.renew /\ ~Waits(k))
    BY <1>4, <1>7, <2>1, ServiceConnectingFits
  <2>3. CASE k = sock
    <3>1. Renewed(k) = job[Me] /\ sock' = sock
      BY <1>4, <1>5, <2>3 DEF Renewed, Fields
    <3>2. TInv' /\ job'[Me] = job[Me] /\ job'[Listener] = job[Listener] /\ main' = main
      BY <1>3, <1>6, <3>1
    <3>3. UNCHANGED dataVars
      <4>1. ~(sock.input > sock.input)
        BY <1>4 DEF Fields
      <4> QED
        BY <1>5, <2>3, <3>1, <4>1 DEF dataVars
    <3> QED
      BY <3>2, <3>3, DataStays
  <2>4. CASE k.renew /\ ~Waits(k)
    <3>1. Renewed(k) = NewJob(k) /\ NewJob(k) \in JobOrNone
      BY <2>2, <2>4, NewJobFits DEF Renewed
    <3>2. TInv' /\ job'[Me] = Renewed(k) /\ job'[Listener] = job[Listener] /\ main' = main
      BY <1>6, <3>1
    <3>3. k.input <= sock.input + arrived
      BY <1>4, <2>2 DEF Fields
    <3>4. sock.events = <<>>
      BY <1>4, <1>7 DEF FieldsFit
    <3>5. peer # "reset" /\ k.input > 0 => Has(k.events, "inputReady") \/ main = "reading"
      <4>1. sock.input > 0 /\ peer # "reset" => main = "reading"
        BY <3>4 DEF DInv, InputIsAnnounced
      <4>2. k.input > 0 => sock.input > 0
        BY <1>4, <2>2 DEF Fields
      <4> QED
        BY <4>1, <4>2
    <3>6. DInv'
      BY <1>3, <1>4, <1>5, <1>7, <2>2, <2>4, <3>2, <3>3, <3>5, ServedKeeps
    <3> QED
      BY <3>2, <3>6
  <2> QED
    BY <2>2, <2>3, <2>4
<1>8. CASE ~Waits(sock)
  <2>1. k \in ServiceConnected(sock, found)
    BY <1>3, <1>4, <1>5, <1>8
  <2>2. /\ Later(sock, k) /\ k.input <= sock.input + arrived
        /\ peer # "reset" /\ (sock.input > 0 => Has(sock.events, "inputReady") \/ main = "reading")
              => (k.input > 0 => Has(k.events, "inputReady") \/ main = "reading")
    BY <1>4, <1>8, <2>1, ServiceConnectedFits
  <2>3. k \in Fields /\ FieldsFit(k) /\ ~Waits(k) /\ k.open /\ k.output <= sock.output
    BY <1>4, <2>2 DEF Later
  <2>4. peer # "reset" => (sock.input > 0 => Has(sock.events, "inputReady") \/ main = "reading")
    BY DEF DInv, InputIsAnnounced, Has
  <2>5. peer # "reset" /\ k.input > 0 => Has(k.events, "inputReady") \/ main = "reading"
    BY <2>2, <2>4
  <2>6. Renewed(k) \in JobOrNone
    BY <1>3, <2>3, NewJobFits DEF Renewed
  <2>7. TInv' /\ job'[Me] = Renewed(k) /\ job'[Listener] = job[Listener] /\ main' = main
    BY <1>6, <2>6
  <2>8. DInv'
    BY <1>3, <1>4, <1>5, <1>8, <2>2, <2>3, <2>5, <2>7, ServedKeeps
  <2> QED
    BY <2>7, <2>8
<1> QED
  BY <1>7, <1>8

-----------------------------------------------------------------------------
(***************************************************************************)
(* The steps of the listening socket.                                      *)
(***************************************************************************)
\* The listener's own steps that leave the table alone.
LEMMA ListenKeeps ==
    ASSUME LInv,
           \/ Bind \/ AcceptFailed \/ AcceptFindsNothing \/ DropListener
           \/ ConnectionComes \/ ConnectionGone \/ ServeListenError
    PROVE  /\ LInv' /\ UNCHANGED tableVars
           /\ main' = main \/ (main = "idle" /\ main' \in {"dropListener", "aborted"})
<1>1. MaxConnections \in Nat
  BY ListenAssumption
<1>2. CASE Bind
  BY <1>1, <1>2 DEF LInv, ListenTypes, ListenBounds, ListenerFits, ListenerIsPolled, Bind, ListenIdle,
     tableVars
<1>3. CASE AcceptFailed
  BY <1>1, <1>3 DEF LInv, ListenTypes, ListenBounds, ListenerFits, ListenerIsPolled, AcceptFailed,
     ListenIdle, tableVars
<1>4. CASE DropListener
  BY <1>1, <1>4 DEF LInv, ListenTypes, ListenBounds, ListenerFits, ListenerIsPolled, DropListener,
     ListenIdle, tableVars, listenVars
<1>5. CASE ConnectionComes
  BY <1>1, <1>5 DEF LInv, ListenTypes, ListenBounds, ListenerFits, ListenerIsPolled, ConnectionComes,
     tableVars
<1>6. CASE ServeListenError
  BY <1>1, <1>6 DEF LInv, ListenTypes, ListenBounds, ListenerFits, ListenerIsPolled, ServeListenError,
     tableVars
<1>7. CASE AcceptFindsNothing
  BY <1>1, <1>7 DEF LInv, ListenTypes, ListenBounds, ListenerFits, ListenerIsPolled, AcceptFindsNothing,
     ListenIdle, tableVars, listenVars
<1>8. CASE ConnectionGone
  BY <1>1, <1>8 DEF LInv, ListenTypes, ListenBounds, ListenerFits, ListenerIsPolled, ConnectionGone,
     tableVars
<1> QED
  BY <1>2, <1>3, <1>4, <1>5, <1>6, <1>7, <1>8

\* The listener gets its job, or loses it.
LEMMA ListenJobKeeps ==
    ASSUME LInv, TInv, AddListener \/ ListenerDropped \/ ServeListening
    PROVE  /\ LInv' /\ TInv' /\ job'[Me] = job[Me]
           /\ main' = main \/ (main = "dropListener" /\ main' = "idle")
<1>1. Listener \in Socket /\ Me \in Socket \ {Listener} /\ MaxConnections \in Nat
  BY DataAssumption, ListenAssumption, SocketsAssumption
<1>2. NULL \in JobOrNone /\ ListenJob \in JobOrNone /\ ListenJob # NULL
  <2>1. ListenJob \in Interest
    BY DEF Interest, ListenJob
  <2> QED
    BY <2>1, DataAssumption DEF JobOrNone
<1>3. CASE AddListener
  <2>1. Table!SetJob(Listener, ListenJob)
    BY <1>3 DEF AddListener
  <2>2. TInv' /\ job'[Listener] = ListenJob /\ job'[Me] = job[Me]
    BY <1>1, <1>2, <2>1, SetJobFits
  <2> QED
    BY <1>1, <1>2, <1>3, <2>2 DEF LInv, ListenTypes, ListenBounds, ListenerFits, ListenerIsPolled,
       AddListener
<1>4. CASE ListenerDropped
  <2>1. Table!SetJob(Listener, NULL)
    BY <1>4 DEF ListenerDropped, RemoveListener
  <2>2. TInv' /\ job'[Listener] = NULL /\ job'[Me] = job[Me]
    BY <1>1, <1>2, <2>1, SetJobFits
  <2> QED
    BY <1>1, <1>4, <2>2 DEF LInv, ListenTypes, ListenBounds, ListenerFits, ListenerIsPolled,
       ListenerDropped
<1>5. CASE ServeListening
  <2>1. Table!Run(Listener, NULL) /\ job[Listener] # NULL
    BY <1>5 DEF ServeListening, Table!Run
  <2>2. TInv' /\ job'[Listener] = NULL /\ job'[Me] = job[Me]
    BY <1>1, <1>2, <2>1, RunFits
  <2> QED
    BY <1>1, <1>5, <2>1, <2>2 DEF LInv, ListenTypes, ListenBounds, ListenerFits, ListenerIsPolled,
       ServeListening
<1> QED
  BY <1>3, <1>4, <1>5

\* accept, of both sockets.
LEMMA AcceptKeeps ==
    ASSUME IInv, Accept
    PROVE  IInv'
<1>1. DInv'
  BY AcceptedKeeps DEF Accept, IInv
<1>2. UNCHANGED tableVars /\ main' = "look" /\ main = "idle"
  BY DEF Accept, Accepted, UserIdle
<1>3. TInv' /\ job' = job
  BY <1>2, TableStays DEF IInv
<1>4. LInv'
  BY <1>2, <1>3, ListenAssumption DEF IInv, LInv, ListenTypes, ListenBounds, ListenerFits,
     ListenerIsPolled, Accept, AcceptTakes, ListenIdle
<1> QED
  BY <1>1, <1>3, <1>4 DEF IInv

-----------------------------------------------------------------------------
(***************************************************************************)
(* The theorems.                                                           *)
(***************************************************************************)
LEMMA InitInv == Init => IInv
<1> SUFFICES ASSUME Init PROVE IInv
  OBVIOUS
<1>1. NULL \in JobOrNone /\ Me \in Socket /\ Listener \in Socket /\ MaxSent \in Nat
      /\ MaxWritten \in Nat /\ MaxConnections \in Nat
  BY DataAssumption, ListenAssumption DEF JobOrNone
<1>2. /\ sock = NoSocket /\ peer = "none" /\ arrived = 0 /\ sent = 0 /\ written = 0
      /\ told = FALSE /\ next = NULL /\ main = "idle"
      /\ job = [s \in Socket |-> NULL] /\ polled = [s \in Socket |-> NULL] /\ busy = FALSE
  BY DEF Init, DataInit, Table!TableInit, Table!NoJobs
<1>3. TInv
  BY <1>1, <1>2 DEF TInv, TableTypes, TableFits
<1>4. /\ NoSocket \in Fields /\ ~NoSocket.open /\ ~NoSocket.connected /\ ~NoSocket.readable
      /\ ~NoSocket.writable /\ NoSocket.input = 0 /\ NoSocket.output = 0 /\ NoSocket.flushed
      /\ NoSocket.events = <<>> /\ ~NoSocket.renew
  BY NewFits DEF NoSocket
<1>5. DataTypes /\ DataBounds /\ Told
  <2>1. 0 \in 0..MaxSent /\ 0 \in 0..MaxWritten
    BY <1>1
  <2>2. DataTypes
    BY <1>1, <1>2, <1>4, <2>1 DEF DataTypes, Places, States
  <2> QED
    BY <1>2, <1>4, <2>2 DEF DataBounds, Told, Waits
<1>6. FieldsFit(sock)
  BY <1>2, <1>4, NoEvents DEF FieldsFit, Waits
<1>7. ClosedHasNothing /\ NextFits /\ JobFits
  BY <1>1, <1>2, <1>4 DEF ClosedHasNothing, NextFits, JobFits, Waits
<1>8. OutputIsPolled /\ InputIsPolled /\ InputIsAnnounced
  BY <1>2, <1>4 DEF OutputIsPolled, InputIsPolled, InputIsAnnounced
<1>9. LInv
  <2>1. /\ listening = "new" /\ backlog = 0 /\ connections = 0 /\ connecting = 0
        /\ owed = FALSE /\ deaf = FALSE /\ stuck = FALSE
    BY DEF Init, ListenInit
  <2>2. job[Listener] = NULL /\ 0 \in 0..MaxConnections
    BY <1>1, <1>2
  <2>3. ListenTypes /\ ListenBounds
    <3>1. 0 \in Nat /\ 0 \in {0, 1} /\ 0 <= 0
      OBVIOUS
    <3>2. backlog \in Nat /\ connections \in 0..MaxConnections /\ connecting \in {0, 1}
      BY <2>1, <2>2, <3>1, Zenon
    <3>3. backlog <= connections /\ connecting <= connections
      BY <2>1, <3>1, Zenon
    <3> QED
      BY <2>1, <3>2, <3>3, Zenon DEF ListenTypes, ListenBounds
  <2>4. ListenerFits /\ ListenerIsPolled
    BY <1>2, <2>1, <2>2 DEF ListenerFits, ListenerIsPolled
  <2> QED
    BY <2>3, <2>4 DEF LInv
<1> QED
  BY <1>3, <1>5, <1>6, <1>7, <1>8, <1>9 DEF IInv, DInv

LEMMA DataKeeps ==
    ASSUME IInv, Data, UNCHANGED listenVars
    PROVE  IInv'
<1>1. ASSUME DInv', TInv', job'[Listener] = job[Listener],
             main' = "dropListener" <=> main = "dropListener"
      PROVE  IInv'
  BY <1>1, ListenerStays DEF IInv
<1>2. ASSUME DInv', UNCHANGED tableVars, main' = "dropListener" <=> main = "dropListener"
      PROVE  IInv'
  BY <1>1, <1>2, TableStays DEF IInv
<1>3. CASE AsClient \/ Write
  <2>1. CASE AsClient
    <3>1. Connect /\ UserIdle /\ main' \in {"look", "close"}
      BY <2>1 DEF AsClient, Connect
    <3>2. UNCHANGED tableVars /\ main = "idle"
      BY <3>1 DEF UserIdle
    <3>3. DInv'
      BY <3>1, ConnectKeeps DEF IInv
    <3> QED
      BY <1>2, <3>1, <3>2, <3>3
  <2>2. CASE Write
    <3>1. DInv' /\ main' # "dropListener" /\ main = "idle"
      BY <2>2, WriteKeeps DEF IInv
    <3>2. UNCHANGED tableVars
      BY <2>2 DEF Write, UserIdle
    <3> QED
      BY <1>2, <3>1, <3>2
  <2> QED
    BY <1>3, <2>1, <2>2
<1>4. CASE Flush \/ Flushed \/ Close
  BY <1>2, <1>4, FlushKeeps DEF IInv
<1>5. CASE Handle
  <2>1. DInv' /\ main' # "dropListener" /\ main = "idle"
    BY <1>5, HandleKeeps DEF IInv
  <2>2. UNCHANGED tableVars
    BY <1>5 DEF Handle, UserIdle
  <2> QED
    BY <1>2, <2>1, <2>2
<1>6. CASE LookForJob
  <2>1. DInv' /\ main' # "dropListener" /\ main = "look"
    BY <1>6, LookForJobKeeps DEF IInv
  <2>2. UNCHANGED tableVars
    BY <1>6 DEF LookForJob
  <2> QED
    BY <1>2, <2>1, <2>2
<1>7. CASE MakeJob
  <2>1. DInv' /\ main' # "dropListener" /\ main = "make"
    BY <1>7, MakeJobKeeps DEF IInv
  <2>2. UNCHANGED tableVars
    BY <1>7 DEF MakeJob
  <2> QED
    BY <1>2, <2>1, <2>2
<1>8. CASE Read
  <2>1. DInv' /\ main' # "dropListener" /\ main = "reading"
    BY <1>8, ReadKeeps DEF IInv
  <2>2. UNCHANGED tableVars
    BY <1>8 DEF Read
  <2> QED
    BY <1>2, <2>1, <2>2
<1>9. CASE SetJob
  <2>1. /\ DInv' /\ main' # "dropListener" /\ main = "setJob"
        /\ TInv' /\ job'[Listener] = job[Listener]
    BY <1>9, SetJobKeeps DEF IInv
  <2> QED
    BY <1>1, <2>1
<1>10. CASE Closed
  <2>1. /\ DInv' /\ main' # "dropListener" /\ main = "close"
        /\ TInv' /\ job'[Listener] = job[Listener]
    BY <1>10, ClosedKeeps DEF IInv
  <2> QED
    BY <1>1, <2>1
<1>11. CASE Peer
  BY <1>2, <1>11, PeerKeeps DEF IInv
<1>12. CASE ServeData
  BY <1>1, <1>12, ServeDataKeeps DEF IInv
<1> QED
  BY <1>3, <1>4, <1>5, <1>6, <1>7, <1>8, <1>9, <1>10, <1>11, <1>12
     DEF Data, DataUser, User, MainGoesOn, MainHasTable, ServeSocket

LEMMA StepInv == IInv /\ [Next]_vars => IInv'
<1> SUFFICES ASSUME IInv, [Next]_vars PROVE IInv'
  OBVIOUS
<1>1. CASE Data /\ UNCHANGED listenVars
  BY <1>1, DataKeeps
<1>2. CASE Listen /\ UNCHANGED dataVars
  <2>1. CASE \/ Bind \/ AcceptFailed \/ AcceptFindsNothing \/ DropListener
             \/ ConnectionComes \/ ConnectionGone \/ ServeListenError
    <3>1. /\ LInv' /\ UNCHANGED tableVars
          /\ main' = main \/ (main = "idle" /\ main' \in {"dropListener", "aborted"})
      BY <2>1, ListenKeeps DEF IInv
    <3>2. TInv' /\ job' = job
      BY <3>1, TableStays DEF IInv
    <3>3. DInv'
      BY <1>2, <3>1, <3>2, DataStays DEF IInv
    <3> QED
      BY <3>1, <3>2, <3>3 DEF IInv
  <2>2. CASE AddListener \/ ListenerDropped \/ ServeListening
    <3>1. /\ LInv' /\ TInv' /\ job'[Me] = job[Me]
          /\ main' = main \/ (main = "dropListener" /\ main' = "idle")
      BY <2>2, ListenJobKeeps DEF IInv
    <3>2. DInv'
      BY <1>2, <3>1, DataStays DEF IInv
    <3> QED
      BY <3>1, <3>2 DEF IInv
  <2> QED
    BY <1>2, <2>1, <2>2 DEF Listen, AsServer
<1>3. CASE Accept
  BY <1>3, AcceptKeeps
<1>4. CASE Round
  <2>1. UNCHANGED <<dataVars, main, listenVars>>
    BY <1>4 DEF Round
  <2>2. TInv' /\ job' = job
    BY <1>4, RoundFits DEF Round, IInv
  <2>3. DInv' /\ LInv'
    BY <2>1, <2>2, DataStays, ListenerStays DEF IInv
  <2> QED
    BY <2>2, <2>3 DEF IInv
<1>5. CASE UNCHANGED vars
  <2>1. UNCHANGED <<dataVars, main, listenVars>> /\ UNCHANGED tableVars
    BY <1>5 DEF vars
  <2>2. TInv' /\ job' = job
    BY <2>1, TableStays DEF IInv
  <2>3. DInv' /\ LInv'
    BY <2>1, <2>2, DataStays, ListenerStays DEF IInv
  <2> QED
    BY <2>2, <2>3 DEF IInv
<1> QED
  BY <1>1, <1>2, <1>3, <1>4, <1>5 DEF Next

LEMMA AlwaysInv == Spec => []IInv
BY InitInv, StepInv, PTL DEF Spec

\* SocketsArePolled for any bounds: output, input and connections are waited for
\* by the jobs of the table, and a closed socket is not, however newJob, which
\* looks at the fields twice without the mutex, comes between the service
\* thread's runs (TCPSocket.cpp:180, 392; TCPListenSocket.cpp:134).
THEOREM SocketsAreAlwaysPolled == Spec => []SocketsArePolled
<1>1. IInv => SocketsArePolled
  <2> SUFFICES ASSUME IInv PROVE SocketsArePolled
    OBVIOUS
  <2>1. /\ sock \in Fields /\ ~sock.renew /\ sock.input \in Nat /\ sock.output \in Nat
        /\ MaxSent \in Nat /\ MaxWritten \in Nat /\ MaxConnections \in Nat
    BY DataAssumption, ListenAssumption DEF IInv, DInv, DataTypes, Fields
  <2>2. sock.input \in 0..MaxSent /\ sock.output \in 0..MaxWritten /\ arrived \in 0..MaxSent
    BY <2>1 DEF IInv, DInv, DataTypes, DataBounds
  <2>3. backlog \in 0..MaxConnections /\ connecting \in 0..MaxConnections
    BY <2>1 DEF IInv, LInv, ListenTypes, ListenBounds
  <2>4. sock \in [open : BOOLEAN, connected : BOOLEAN, readable : BOOLEAN, writable : BOOLEAN,
                 input : 0..MaxSent, output : 0..MaxWritten, flushed : BOOLEAN,
                 events : Seq(Events), renew : {FALSE}]
    BY <2>1, <2>2 DEF Fields
  <2>5. TypeOK
    BY <2>2, <2>3, <2>4 DEF TypeOK, IInv, DInv, LInv, TInv, DataTypes, ListenTypes, TableTypes, States,
       Places, JobOrNone
  <2>6. ClosedIsNotPolled
    <3>1. Me \in Socket /\ Listener \in Socket
      BY DataAssumption, ListenAssumption
    <3> QED
      BY <3>1 DEF ClosedIsNotPolled, IInv, DInv, LInv, TInv, TableFits, ClosedHasNothing, ListenerFits
  <2> QED
    BY <2>5, <2>6 DEF SocketsArePolled, IInv, DInv, LInv
<1> QED
  BY <1>1, AlwaysInv, PTL

\* NothingIsLost for any bounds: input has an event, the end of it is the last
\* that is told, and flush is told of every path that empties the output buffer
\* (TCPSocket.cpp:523, 529, 479).
THEOREM NothingIsEverLost == Spec => []NothingIsLost
<1>1. IInv => NothingIsLost
  <2> SUFFICES ASSUME IInv PROVE NothingIsLost
    OBVIOUS
  <2>1. InputIsAnnounced /\ FlushedMeansSent
    BY DEF IInv, DInv, FieldsFit, FlushedMeansSent
  <2>2. NothingLeftBehind
    <3> SUFFICES ASSUME main = "idle", sock.events # <<>>, Head(sock.events) = "inputShutdown",
                        peer # "reset", sock.input # 0
                 PROVE  FALSE
      BY DEF NothingLeftBehind
    <3>1. sock.events \in Seq(Events) /\ sock.input > 0 /\ EndIsLast(sock.events)
      BY DEF IInv, DInv, DataTypes, Fields, FieldsFit
    <3>2. PICK i \in DOMAIN sock.events : sock.events[i] = "inputReady"
      BY <3>1 DEF IInv, DInv, InputIsAnnounced
    <3>3. 1 \in DOMAIN sock.events /\ sock.events[1] = "inputShutdown" /\ (i = 1 \/ 1 < i)
      BY <3>1, <3>2
    <3> QED
      BY <3>1, <3>2, <3>3 DEF EndIsLast
  <2> QED
    BY <2>1, <2>2 DEF NothingIsLost
<1> QED
  BY <1>1, AlwaysInv, PTL
=============================================================================
