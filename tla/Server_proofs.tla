--------------------------- MODULE Server_proofs ---------------------------
(***************************************************************************)
(* Proofs about Server, for any set of names, proxies and configurations.  *)
(* The types, the cursor and the indexes come first; then the gate, the    *)
(* lock and the end of the server, each on the results before it.          *)
(***************************************************************************)
EXTENDS Server, FiniteSetTheorems, TLAPS

-----------------------------------------------------------------------------
(***************************************************************************)
(* The gate: every operator of SwitchGate returns a gate.                  *)
(***************************************************************************)
LEMMA StopSwitchType ==
    ASSUME NEW g \in G!Gate
    PROVE  /\ G!StopSwitchWait(g) \in G!Gate
           /\ G!StopSwitchTwoTap(g) \in G!Gate
           /\ G!StopSwitch(g) \in G!Gate
BY DEF G!Gate, G!StopSwitchWait, G!StopSwitchTwoTap, G!StopSwitch

LEMMA NoSwitchType ==
    ASSUME NEW g \in G!Gate, NEW inner \in BOOLEAN
    PROVE  G!NoSwitch(g, inner) \in G!Gate
<1>1. G!ArmSwitchTwoTap(g, inner) \in G!Gate
  BY StopSwitchType DEF G!Gate, G!ArmSwitchTwoTap
<1> QED
  BY <1>1, StopSwitchType DEF G!NoSwitch

LEMMA RememberType ==
    ASSUME NEW g \in G!Gate, NEW dir \in Direction, NEW dst \in Screen,
           NEW opt \in G!GateOptions
    PROVE  G!Remember(g, dir, dst, opt) \in G!Gate
<1> DEFINE g1 == G!RememberTarget(g, dir, dst)
           g2 == IF opt.tap /\ ~G!SecondTap(g, dir, opt)
                 THEN G!StartSwitchTwoTap(g1) ELSE g1
<1>1. g1 \in G!Gate
  BY DEF G!Gate, G!RememberTarget
<1>2. g2 \in G!Gate
  <2> HIDE DEF g1
  <2> QED BY <1>1 DEF G!Gate, G!StartSwitchTwoTap
<1>3. G!StartSwitchWait(g2) \in G!Gate
  <2> HIDE DEF g2
  <2> QED BY <1>2 DEF G!Gate, G!StartSwitchWait
<1> QED
  BY <1>2, <1>3 DEF G!Remember

LEMMA IsSwitchOkayType ==
    ASSUME NEW g \in G!Gate, NEW dir \in Direction,
           NEW dst \in Screen \cup {NoScreen},
           NEW opt \in G!GateOptions, NEW push
    PROVE  /\ G!IsSwitchOkay(g, dir, dst, opt, push).gate \in G!Gate
           /\ G!IsSwitchOkay(g, dir, dst, opt, push).ok => dst \in Screen
<1>1. CASE dst = NoScreen
  BY <1>1, StopSwitchType DEF G!IsSwitchOkay
<1>2. CASE dst # NoScreen
  <2>1. dst \in Screen
    BY <1>2
  <2>2. G!Remember(g, dir, dst, opt) \in G!Gate
    BY <2>1, RememberType
  <2> QED
    BY <1>2, <2>1, <2>2, StopSwitchType DEF G!IsSwitchOkay
<1> QED
  BY <1>1, <1>2

(***************************************************************************)
(* The search for a neighbour ends on the map or at no cell at all.        *)
(***************************************************************************)
LEMMA NeighborCellType ==
    ASSUME NEW c, NEW from, NEW dir, NEW connected
    PROVE  /\ NeighborCell(c, from, dir, connected) \in Cell \cup {NoCell}
           /\ NeighborCell(c, from, dir, connected) # NoCell
                => NeighborCell(c, from, dir, connected)[1] \in connected
BY DEF NeighborCell

LEMMA LandingCellType ==
    ASSUME NEW c, NEW from, NEW dir, NEW connected, NEW far
    PROVE  /\ LandingCell(c, from, dir, connected, far) \in Cell \cup {NoCell}
           /\ LandingCell(c, from, dir, connected, far) # NoCell
                => LandingCell(c, from, dir, connected, far)[1] \in connected
BY NeighborCellType DEF LandingCell

LEMMA MapToNeighborType ==
    ASSUME clients \in [Name -> Screen \cup {NoScreen}],
           NEW dir, NEW lane, NEW far
    PROVE  MapToNeighbor(dir, lane, far) \in Screen \cup {NoScreen}
<1> DEFINE cell == LandingCell(config, <<NameOf(active), lane>>, dir,
                               ConnectedNames, far)
<1>1. cell \in Cell \cup {NoCell}
  BY LandingCellType
<1>2. cell # NoCell => cell[1] \in Name
  BY <1>1 DEF Cell
<1> QED
  BY <1>2 DEF MapToNeighbor

-----------------------------------------------------------------------------
(***************************************************************************)
(* Type correctness.  The steps shared by several actions come first.      *)
(***************************************************************************)
LEMMA SwitchScreenType ==
    ASSUME TypeOK, NEW dst, NEW g \in G!Gate, NEW refuses \in BOOLEAN,
           SwitchScreen(dst, g, refuses)
    PROVE  /\ active' \in Screen
           /\ gate' \in G!Gate
           /\ seqNum' \in 0 .. MaxSeq
           /\ entered' \in [Screen -> BOOLEAN]
           /\ fault' \in {"none", "deleted", "assert", "hang"}
<1>1. CASE Exists(dst) /\ Exists(active) /\ gate' = G!StopSwitch(g)
           /\ UNCHANGED fault /\ UNCHANGED <<active, seqNum, entered>>
  BY <1>1, StopSwitchType DEF TypeOK
<1>2. CASE Exists(dst) /\ gate' = G!StopSwitch(g) /\ UNCHANGED fault
           /\ seqNum < MaxSeq /\ active' = dst /\ seqNum' = seqNum + 1
           /\ entered' = [entered EXCEPT ![active] = FALSE, ![dst] = TRUE]
  <2>1. dst \in Screen
    BY <1>2 DEF Exists, Screen
  <2>2. seqNum' \in 0 .. MaxSeq
    BY <1>2, ServerAssumption DEF TypeOK
  <2> QED
    BY <1>2, <2>1, <2>2, StopSwitchType DEF TypeOK
<1>3. CASE fault' \in {"assert", "deleted"} /\ UNCHANGED cursor
  BY <1>3 DEF TypeOK, cursor
<1> QED
  BY <1>1, <1>2, <1>3 DEF SwitchScreen

LEMMA ForceLeaveType ==
    ASSUME TypeOK, NEW gone, ForceLeave(gone)
    PROVE  /\ activeSaver' \in Screen \cup {NoScreen}
           /\ active' \in Screen
           /\ seqNum' \in 0 .. MaxSeq
           /\ entered' \in [Screen -> BOOLEAN]
           /\ fault' \in {"none", "deleted", "assert", "hang"}
BY DEF TypeOK, ForceLeave, ActiveAfterLeave, Screen

LEMMA GateAfterLeaveType ==
    ASSUME TypeOK, NEW gone
    PROVE  GateAfterLeave(gone) \in G!Gate
BY StopSwitchType DEF TypeOK, GateAfterLeave

LEMMA CloseClientsType ==
    ASSUME TypeOK, NEW gone \in SUBSET Proxy, NEW c, CloseClients(gone, c)
    PROVE  /\ clients' \in [Name -> Screen \cup {NoScreen}]
           /\ clientSet' \in SUBSET Screen
           /\ oldClients' \in SUBSET Proxy
           /\ activeSaver' \in Screen \cup {NoScreen}
           /\ active' \in Screen
           /\ seqNum' \in 0 .. MaxSeq
           /\ entered' \in [Screen -> BOOLEAN]
           /\ fault' \in {"none", "deleted", "assert", "hang"}
BY ForceLeaveType DEF TypeOK, CloseClients, RemoveClients, Unlisted

LEMMA ProcessOptionsType ==
    ASSUME NEW c \in Configurations, NEW old \in G!GateOptions
    PROVE  ProcessOptions(c, old) \in G!GateOptions
BY ServerAssumption DEF ProcessOptions, Setting, G!GateOptions, Configuration

LEMMA FailType ==
    ASSUME TypeOK, NEW why \in {"deleted", "assert", "hang"}, Fail(why)
    PROVE  TypeOK'
BY DEF TypeOK, Fail, objects, cursor, setup, server

LEMMA SecondariesType ==
    ASSUME TypeOK, NEW c
    PROVE  Secondaries \in SUBSET Proxy /\ Dropped(c) \in SUBSET Proxy
BY DEF TypeOK, Secondaries, Dropped, ConnectedNames, Screen

LEMMA InitType == Init => TypeOK
<1> SUFFICES ASSUME Init PROVE TypeOK
  OBVIOUS
<1>1. NoOptions \in G!GateOptions
  BY DEF NoOptions, G!GateOptions
<1>2. options \in G!GateOptions
  BY <1>1, ProcessOptionsType DEF Init
<1>3. gate \in G!Gate
  BY DEF Init, G!Idle, G!Gate
<1>4. 0 \in 0 .. MaxSeq
  BY ServerAssumption
<1> QED
  BY <1>2, <1>3, <1>4, ServerAssumption DEF Init, TypeOK, Screen

LEMMA CrossEdgeType ==
    ASSUME TypeOK, NEW dir \in Direction, NEW lane \in Lane, NEW far,
           NEW push, NEW fails \in BOOLEAN,
           CrossEdge(dir, lane, far, push, fails)
    PROVE  TypeOK'
<1> DEFINE dst == MapToNeighbor(dir, lane, far)
           try == G!IsSwitchOkay(gate, dir, dst, options, push)
<1>1. dst \in Screen \cup {NoScreen}
  BY MapToNeighborType DEF TypeOK
<1>2. try.gate \in G!Gate
  <2> HIDE DEF dst
  <2> QED BY <1>1, IsSwitchOkayType DEF TypeOK
<1> HIDE DEF dst, try
<1>3. CASE Fail("deleted") \/ Fail("hang")
  BY <1>3, FailType
<1>4. CASE /\ gate' \in {G!StopSwitch(gate), try.gate}
           /\ UNCHANGED <<objects, active, seqNum, entered, setup, server,
                          activeSaver, saverOn, fault>>
  <2>1. gate' \in G!Gate
    BY <1>2, <1>4, StopSwitchType DEF TypeOK
  <2> QED
    BY <1>4, <2>1 DEF TypeOK, objects, setup, server
<1>5. CASE /\ SwitchScreen(dst, try.gate, fails)
           /\ UNCHANGED <<objects, setup, server, activeSaver, saverOn>>
  <2>1. /\ active' \in Screen
        /\ gate' \in G!Gate
        /\ seqNum' \in 0 .. MaxSeq
        /\ entered' \in [Screen -> BOOLEAN]
        /\ fault' \in {"none", "deleted", "assert", "hang"}
    BY <1>2, <1>5, SwitchScreenType
  <2> QED
    BY <1>5, <2>1 DEF TypeOK, objects, setup, server
<1> QED
  BY <1>3, <1>4, <1>5 DEF CrossEdge, dst, try

LEMMA MotionType == TypeOK /\ Motion => TypeOK'
<1> SUFFICES ASSUME TypeOK, Motion PROVE TypeOK'
  OBVIOUS
<1>1. ASSUME NEW inner \in BOOLEAN, MoveOnPrimary(inner)
      PROVE  TypeOK'
  <2>1. gate' \in G!Gate
    BY <1>1, NoSwitchType DEF TypeOK, MoveOnPrimary
  <2> QED
    BY <1>1, <2>1 DEF TypeOK, MoveOnPrimary, objects, setup, server
<1>2. ASSUME NEW e, NEW inner \in BOOLEAN, MoveOnSecondary(e, inner)
      PROVE  TypeOK'
  <2>1. CASE Fail("deleted")
    BY <2>1, FailType
  <2>2. CASE /\ gate' = IF ClearsWait(e) THEN G!NoSwitch(gate, inner) ELSE gate
             /\ UNCHANGED <<objects, active, seqNum, entered, setup, server,
                            activeSaver, saverOn, fault>>
    <3>1. gate' \in G!Gate
      BY <2>2, NoSwitchType DEF TypeOK
    <3> QED
      BY <2>2, <3>1 DEF TypeOK, objects, setup, server
  <2> QED
    BY <1>2, <2>1, <2>2 DEF MoveOnSecondary
<1>3. Optional("leavefails") \subseteq BOOLEAN
  BY DEF Optional
<1> QED
  BY <1>1, <1>2, <1>3, CrossEdgeType DEF Motion

\* A step that only switches screens keeps the types.
LEMMA JustSwitchesType ==
    ASSUME TypeOK, NEW dst, NEW fails \in BOOLEAN,
           SwitchScreen(dst, gate, fails),
           UNCHANGED <<objects, setup, server>>,
           activeSaver' \in Screen \cup {NoScreen}, saverOn' \in BOOLEAN
    PROVE  TypeOK'
<1>1. /\ active' \in Screen
      /\ gate' \in G!Gate
      /\ seqNum' \in 0 .. MaxSeq
      /\ entered' \in [Screen -> BOOLEAN]
      /\ fault' \in {"none", "deleted", "assert", "hang"}
  BY SwitchScreenType DEF TypeOK
<1> QED
  BY <1>1 DEF TypeOK, objects, setup, server

LEMMA HotKeyType == TypeOK /\ HotKey => TypeOK'
<1> SUFFICES ASSUME TypeOK, HotKey PROVE TypeOK'
  OBVIOUS
<1>1. ASSUME NEW n \in Name, NEW fails \in BOOLEAN, SwitchToScreen(n, fails)
      PROVE  TypeOK'
  <2>1. activeSaver' \in Screen \cup {NoScreen} /\ saverOn' \in BOOLEAN
    BY <1>1 DEF TypeOK, SwitchToScreen
  <2> QED
    BY <1>1, <2>1, JustSwitchesType DEF SwitchToScreen
<1>2. ASSUME NEW dir, NEW lane, NEW fails \in BOOLEAN,
             SwitchInDirection(dir, lane, fails)
      PROVE  TypeOK'
  <2>1. CASE Fail("deleted") \/ Fail("hang")
    BY <2>1, FailType
  <2>2. ASSUME NEW dst, SwitchScreen(dst, gate, fails),
               UNCHANGED <<objects, setup, server, activeSaver, saverOn>>
        PROVE  TypeOK'
    <3>1. activeSaver' \in Screen \cup {NoScreen} /\ saverOn' \in BOOLEAN
      BY <2>2 DEF TypeOK
    <3> QED
      BY <2>2, <3>1, JustSwitchesType
  <2> QED
    BY <1>2, <2>1, <2>2 DEF SwitchInDirection
<1>3. Optional("leavefails") \subseteq BOOLEAN
  BY DEF Optional
<1> QED
  BY <1>1, <1>2, <1>3 DEF HotKey

LEMMA TimerType == TypeOK /\ Timer => TypeOK'
<1> SUFFICES ASSUME TypeOK, Timer PROVE TypeOK'
  OBVIOUS
<1>1. ASSUME NEW drag, NEW fails \in BOOLEAN, SwitchWaitTimeout(drag, fails)
      PROVE  TypeOK'
  <2>1. CASE IsLockedToScreen(drag)
    <3>1. G!StopSwitch(gate) \in G!Gate
      BY StopSwitchType DEF TypeOK
    <3> QED
      BY <1>1, <2>1, <3>1 DEF SwitchWaitTimeout, TypeOK, objects, setup, server
  <2>2. CASE ~IsLockedToScreen(drag)
    <3>1. activeSaver' \in Screen \cup {NoScreen} /\ saverOn' \in BOOLEAN
      BY <1>1 DEF TypeOK, SwitchWaitTimeout
    <3> QED
      BY <1>1, <2>2, <3>1, JustSwitchesType DEF SwitchWaitTimeout
  <2> QED
    BY <2>1, <2>2
<1>2. ASSUME DoubleTapExpires PROVE TypeOK'
  <2>1. gate' \in G!Gate
    BY <1>2 DEF DoubleTapExpires, TypeOK, G!Gate
  <2> QED
    BY <1>2, <2>1 DEF DoubleTapExpires, TypeOK, objects, setup, server
<1>3. ASSUME NEW p \in Proxy, ClientCloseTimeout(p) PROVE TypeOK'
  <2>1. CASE Fail("deleted")
    BY <2>1, FailType
  <2>2. CASE phase # "deleted"
    BY <1>3, <2>2 DEF ClientCloseTimeout, Announce, AllGone, TypeOK, cursor, setup
  <2> QED
    BY <1>3, <2>1, <2>2 DEF ClientCloseTimeout
<1>4. Optional("leavefails") \subseteq BOOLEAN
  BY DEF Optional
<1> QED
  BY <1>1, <1>2, <1>3, <1>4 DEF Timer

LEMMA SaverType == TypeOK /\ Saver => TypeOK'
<1> SUFFICES ASSUME TypeOK, Saver PROVE TypeOK'
  OBVIOUS
<1>1. ASSUME UNCHANGED <<objects, setup, server>>,
             activeSaver' \in Screen \cup {NoScreen}, saverOn' \in BOOLEAN,
             UNCHANGED cursor, fault' \in {fault, "deleted"}
      PROVE  TypeOK'
  BY <1>1 DEF TypeOK, objects, setup, server, cursor
<1>2. CASE ScreensaverActivated
  <2>1. activeSaver' \in Screen \cup {NoScreen} /\ saverOn' \in BOOLEAN
    BY <1>2 DEF TypeOK, ScreensaverActivated
  <2>2. CASE SwitchScreen(Primary, gate, FALSE)
    BY <1>2, <2>1, <2>2, JustSwitchesType DEF ScreensaverActivated
  <2> QED
    BY <1>1, <1>2, <2>1, <2>2 DEF ScreensaverActivated, JumpForSaver
<1>3. ASSUME NEW fails \in BOOLEAN, ScreensaverDeactivated(fails)
      PROVE  TypeOK'
  <2>1. activeSaver' \in Screen \cup {NoScreen} /\ saverOn' \in BOOLEAN
    BY <1>3 DEF TypeOK, ScreensaverDeactivated
  <2>2. CASE SwitchScreen(activeSaver, gate, fails)
    BY <1>3, <2>1, <2>2, JustSwitchesType DEF ScreensaverDeactivated
  <2> QED
    BY <1>1, <1>3, <2>1, <2>2 DEF ScreensaverDeactivated
<1>4. Optional("leavefails") \subseteq BOOLEAN
  BY DEF Optional
<1> QED
  BY <1>2, <1>3, <1>4 DEF Saver

LEMMA ConnectionType == TypeOK /\ Connection => TypeOK'
<1> SUFFICES ASSUME TypeOK, NEW p \in Proxy,
                    AdoptClient(p) \/ ClientDisconnected(p)
             PROVE  TypeOK'
  BY DEF Connection
<1>1. CASE AdoptClient(p)
  <2> DEFINE name == config.canon[RawNameOf[p]]
  <2>1. CASE name = NoName \/ clients[name] # NoScreen
    <3>1. CloseClients({p}, config)
      BY <1>1, <2>1 DEF AdoptClient
    <3> QED
      BY <1>1, <3>1, CloseClientsType DEF AdoptClient, TypeOK, setup, server
  <2>2. CASE ~(name = NoName \/ clients[name] # NoScreen)
    BY <1>1, <2>2 DEF AdoptClient, TypeOK, setup, server, Screen
  <2> QED
    BY <2>1, <2>2
<1>2. CASE ClientDisconnected(p)
  <2>1. CASE Fail("deleted")
    BY <2>1, FailType
  <2>2. CASE phase # "deleted"
    <3>1. /\ clients' \in [Name -> Screen \cup {NoScreen}]
          /\ clientSet' \in SUBSET Screen
      BY <1>2, <2>2 DEF ClientDisconnected, RemoveClients, Unlisted, TypeOK
    <3>2. /\ activeSaver' \in Screen \cup {NoScreen}
          /\ active' \in Screen
          /\ gate' \in G!Gate
          /\ seqNum' \in 0 .. MaxSeq
          /\ entered' \in [Screen -> BOOLEAN]
          /\ fault' \in {"none", "deleted", "assert", "hang"}
      <4>1. CASE ForceLeave({p}) /\ gate' = GateAfterLeave({p})
        BY <4>1, ForceLeaveType, GateAfterLeaveType
      <4>2. CASE UNCHANGED <<cursor, activeSaver, fault>>
        BY <4>2 DEF TypeOK, cursor
      <4> QED
        BY <1>2, <2>2, <4>1, <4>2 DEF ClientDisconnected
    <3> QED
      BY <1>2, <2>2, <3>1, <3>2
         DEF ClientDisconnected, Announce, AllGone, TypeOK, setup
  <2> QED
    BY <1>2, <2>1, <2>2 DEF ClientDisconnected
<1> QED
  BY <1>1, <1>2

LEMMA ControlType == TypeOK /\ Control => TypeOK'
<1> SUFFICES ASSUME TypeOK, Control PROVE TypeOK'
  OBVIOUS
<1>1. ASSUME LockCursorToScreen PROVE TypeOK'
  BY <1>1 DEF LockCursorToScreen, TypeOK, objects, cursor, server
<1>2. ASSUME NEW c \in Configurations, SetConfig(c) PROVE TypeOK'
  <2>1. CASE Fail("deleted")
    BY <2>1, FailType
  <2>3. CASE RefuseConfig(c)
    BY <2>3 DEF RefuseConfig, TypeOK, objects, cursor, server
  <2>2. CASE RelayToAll /\ IsScreen(c, PrimaryName)
    <3>0. ~RefuseConfig(c)
      BY <2>2 DEF RefuseConfig
    <3>1. Dropped(c) \in SUBSET Proxy /\ CloseClients(Dropped(c), c)
      BY <1>2, <2>2, <3>0, SecondariesType DEF SetConfig
    <3>2. gate' \in G!Gate
      <4>1. GateAfterLeave(Dropped(c)) \in G!Gate
        BY GateAfterLeaveType
      <4> QED
        BY <1>2, <2>2, <3>0, <4>1, StopSwitchType DEF SetConfig, GateAfterOptions
    <3>3. options' \in G!GateOptions
      BY <1>2, <2>2, <3>0, ProcessOptionsType DEF SetConfig, TypeOK
    <3> QED
      BY <1>2, <2>2, <3>0, <3>1, <3>2, <3>3, CloseClientsType
         DEF SetConfig, TypeOK, server
  <2> QED
    BY <1>2, <2>1, <2>2, <2>3 DEF SetConfig
<1>3. ASSUME NEW next \in {"running", "closing", "deleted"}, Disconnect(next)
      PROVE  TypeOK'
  <2>1. Secondaries \in SUBSET Proxy /\ CloseClients(Secondaries, config)
    BY <1>3, SecondariesType DEF Disconnect
  <2>2. gate' \in G!Gate
    BY <1>3, GateAfterLeaveType DEF Disconnect
  <2> QED
    BY <1>3, <2>1, <2>2, CloseClientsType DEF Disconnect, TypeOK, setup
<1>4. ASSUME ForceReconnect \/ StopServer PROVE TypeOK'
  BY <1>3, <1>4, FailType DEF ForceReconnect, StopServer, TypeOK
<1>5. ASSUME DeleteServer PROVE TypeOK'
  <2>1. gate' \in G!Gate
    BY <1>5, StopSwitchType DEF DeleteServer, TypeOK
  <2> QED
    BY <1>5, <2>1 DEF DeleteServer, TypeOK, setup, Unlisted
<1> QED
  BY <1>1, <1>2, <1>4, <1>5 DEF Control

LEMMA TypeStep == TypeOK /\ [Next]_vars => TypeOK'
<1>1. TypeOK /\ Next => TypeOK'
  BY MotionType, HotKeyType, TimerType, SaverType, ConnectionType, ControlType
     DEF Next
<1>2. TypeOK /\ UNCHANGED vars => TypeOK'
  BY DEF TypeOK, vars, objects, cursor, setup, server
<1> QED
  BY <1>1, <1>2

\* The state of CServer keeps its types: m_active is never NULL, the gate is
\* always one that the private methods can handle.
THEOREM TypeCorrect == Spec => []TypeOK
BY InitType, TypeStep, PTL DEF Spec

-----------------------------------------------------------------------------
(***************************************************************************)
(* The cursor.  What follows is about servers without aliases, switch      *)
(* delay and input that arrives while the screen saver runs: each of the   *)
(* three breaks a property below, as the runs show for the first two.      *)
(***************************************************************************)
NoAliases ==
    \A c \in Configurations : \A r \in RawName : c.canon[r] \in {r, NoName}

NoDelay == \A c \in Configurations : c.delay # "on"

Orderly == NoAliases /\ NoDelay /\ SaverExclusive

AbstractStep == [Cursor!Next]_<<clientSet \cup {Primary}, active>>

LEMMA NameStays ==
    ASSUME Orderly, NEW c \in Configurations, NEW p \in Proxy
    PROVE  NameNow(c, RawNameOf[p]) = RawNameOf[p]
BY ServerAssumption DEF Orderly, NoAliases, NameNow

\* Without the delay no operator of the gate starts the timer.
LEMMA GateNeverWaits ==
    ASSUME NEW g \in G!Gate, ~g.wait
    PROVE  /\ ~G!StopSwitch(g).wait
           /\ ~G!StopSwitchTwoTap(g).wait
           /\ ~G!StopSwitchWait(g).wait
           /\ \A inner : ~G!NoSwitch(g, inner).wait
           /\ \A dir, dst, opt, push :
                  ~opt.wait => ~G!IsSwitchOkay(g, dir, dst, opt, push).gate.wait
<1>1. /\ ~G!StopSwitchWait(g).wait
      /\ ~G!StopSwitchTwoTap(g).wait
      /\ ~G!StopSwitch(g).wait
  BY DEF G!Gate, G!StopSwitchWait, G!StopSwitchTwoTap, G!StopSwitch
<1>2. ASSUME NEW inner PROVE ~G!NoSwitch(g, inner).wait
  <2>1. G!ArmSwitchTwoTap(g, inner) \in G!Gate
    BY StopSwitchType DEF G!Gate, G!ArmSwitchTwoTap
  <2> QED
    BY <2>1 DEF G!NoSwitch, G!StopSwitchWait, G!Gate
<1>3. ASSUME NEW dir, NEW dst, NEW opt, NEW push, ~opt.wait
      PROVE  ~G!IsSwitchOkay(g, dir, dst, opt, push).gate.wait
  <2> DEFINE g1 == G!RememberTarget(g, dir, dst)
             g2 == G!Remember(g, dir, dst, opt)
  <2>1. /\ ~g1.wait
        /\ g1 = [screen |-> g1.screen, dir |-> g1.dir, wait |-> g1.wait,
                 tap |-> g1.tap, late |-> g1.late]
    BY DEF G!RememberTarget, G!Gate
  <2>2. /\ ~g2.wait
        /\ g2 = [screen |-> g2.screen, dir |-> g2.dir, wait |-> g2.wait,
                 tap |-> g2.tap, late |-> g2.late]
    <3> HIDE DEF g1
    <3> QED BY <1>3, <2>1 DEF G!Remember, G!StartSwitchTwoTap, g1
  <2>3. ~G!StopSwitch(g2).wait
    <3> HIDE DEF g2
    <3> QED BY <2>2 DEF G!StopSwitch, G!StopSwitchWait, G!StopSwitchTwoTap
  <2> QED
    BY <1>1, <2>2, <2>3 DEF G!IsSwitchOkay
<1> QED
  BY <1>1, <1>2, <1>3

LEMMA ConnectedAreListed ==
    ASSUME TypeOK, CursorParts, NEW n \in ConnectedNames
    PROVE  clients[n] \in clientSet /\ Exists(clients[n])
BY DEF TypeOK, CursorParts, ListedExist, IndexesMirror, ConnectedNames,
       Exists, Screen

LEMMA ListedScreensExist ==
    ASSUME TypeOK, CursorParts
    PROVE  /\ \A s \in clientSet : Exists(s)
           /\ RelayToAll
           /\ Exists(active)
BY ConnectedAreListed
   DEF TypeOK, CursorParts, ListedExist, EnteredFollowsActive, Exists, Screen,
       RelayToAll

\* A switch between connected screens, in whatever handler.
LEMMA SwitchKeepsCursor ==
    ASSUME TypeOK, CursorParts,
           NEW dst \in clientSet, NEW g \in G!Gate, ~g.wait, NEW refuses,
           SwitchScreen(dst, g, refuses),
           UNCHANGED <<objects, setup, server>>,
           activeSaver' \in clientSet \cup {NoScreen},
           activeSaver' # NoScreen => saverOn',
           saverOn' => dst = Primary /\ ~refuses
    PROVE  CursorInv' /\ AbstractStep
<1>1. Exists(dst) /\ Exists(active) /\ active \in clientSet
  BY ListedScreensExist DEF CursorParts, EnteredFollowsActive
<1>2. dst # active => EntersAndLeaves(dst)
  BY DEF CursorParts, EnteredFollowsActive, ListedExist, EntersAndLeaves
<1>3. /\ gate' = G!StopSwitch(g) /\ UNCHANGED fault
      /\ \/ /\ dst = active \/ (active = Primary /\ refuses)
            /\ UNCHANGED <<active, seqNum, entered>>
         \/ /\ dst # active
            /\ active' = dst
            /\ entered' = [entered EXCEPT ![active] = FALSE, ![dst] = TRUE]
  BY <1>1, <1>2 DEF SwitchScreen
<1>4. ~gate'.wait /\ ~options'.wait
  BY <1>3, GateNeverWaits DEF CursorParts, setup
<1>5. ListedExist' /\ IndexesMirror'
  BY DEF CursorParts, ListedExist, IndexesMirror, objects
<1>6. EnteredFollowsActive'
  <2>1. CASE UNCHANGED <<active, seqNum, entered>>
    BY <2>1 DEF CursorParts, EnteredFollowsActive, objects
  <2>2. CASE /\ dst # active /\ active' = dst
             /\ entered' = [entered EXCEPT ![active] = FALSE, ![dst] = TRUE]
    <3>1. active \in Screen /\ dst \in Screen /\ entered \in [Screen -> BOOLEAN]
      BY <1>1 DEF TypeOK
    <3>2. \A s \in Screen :
              entered'[s] = IF s = dst THEN TRUE
                            ELSE IF s = active THEN FALSE ELSE entered[s]
      BY <2>2, <3>1
    <3>3. clientSet' = clientSet /\ proxy' = proxy /\ clientSet \subseteq Screen
      BY DEF objects, TypeOK
    <3>4. active' \in clientSet'
      BY <2>2, <3>3
    <3>5. \A s \in clientSet' : entered'[s] <=> s = active'
      BY <2>2, <3>2, <3>3 DEF CursorParts, EnteredFollowsActive
    <3>6. ASSUME NEW p \in Proxy, proxy'[p] = "fresh" PROVE ~entered'[p]
      <4>1. p \in Screen /\ p \notin {dst, active}
        BY <1>1, <3>3, <3>6, ServerAssumption DEF Exists, Screen
      <4> QED
        BY <3>2, <3>3, <3>6, <4>1 DEF CursorParts, EnteredFollowsActive
    <3> QED
      BY <3>4, <3>5, <3>6 DEF EnteredFollowsActive
  <2> QED
    BY <1>3, <2>1, <2>2
<1>7. SaverAtHome'
  BY <1>3 DEF CursorParts, SaverAtHome, objects
<1>8. AbstractStep
  BY <1>1, <1>3 DEF AbstractStep, Cursor!Next, Cursor!Move, objects
<1> QED
  BY <1>3, <1>4, <1>5, <1>6, <1>7, <1>8 DEF CursorInv, CursorParts

\* A step that changes nothing that the cursor properties speak about.
LEMMA QuietStep ==
    ASSUME TypeOK, CursorParts,
           UNCHANGED <<objects, active, entered, options, activeSaver, saverOn>>,
           ~gate'.wait, fault' \in {fault, "hang"}
    PROVE  CursorInv' /\ AbstractStep
BY DEF CursorInv, CursorParts, ListedExist, IndexesMirror, SaverAtHome,
       EnteredFollowsActive, objects, AbstractStep

LEMMA HangIsQuiet ==
    ASSUME TypeOK, CursorParts, Fail("hang")
    PROVE  CursorInv' /\ AbstractStep
<1>1. /\ UNCHANGED <<objects, active, entered, options, activeSaver, saverOn>>
      /\ ~gate'.wait /\ fault' \in {fault, "hang"}
  BY DEF Fail, cursor, setup, CursorParts
<1> QED
  BY <1>1, QuietStep

LEMMA MotionKeepsCursor ==
    ASSUME Orderly, TypeOK, phase # "deleted", CursorParts, Motion
    PROVE  CursorInv' /\ AbstractStep
<1>1. ASSUME NEW g \in G!Gate, ~g.wait, gate' = g,
             UNCHANGED <<objects, active, seqNum, entered, setup, server,
                         activeSaver, saverOn, fault>>
      PROVE  CursorInv' /\ AbstractStep
  BY <1>1, QuietStep DEF setup
<1>2. ASSUME NEW inner \in BOOLEAN, MoveOnPrimary(inner)
      PROVE  CursorInv' /\ AbstractStep
  <2>1. G!NoSwitch(gate, inner) \in G!Gate /\ ~G!NoSwitch(gate, inner).wait
    BY NoSwitchType, GateNeverWaits DEF TypeOK, CursorParts
  <2> QED
    BY <1>1, <1>2, <2>1 DEF MoveOnPrimary
<1>3. ASSUME NEW e, NEW inner \in BOOLEAN, MoveOnSecondary(e, inner)
      PROVE  CursorInv' /\ AbstractStep
  <2>1. G!NoSwitch(gate, inner) \in G!Gate /\ ~G!NoSwitch(gate, inner).wait
    BY NoSwitchType, GateNeverWaits DEF TypeOK, CursorParts
  <2>2. gate \in G!Gate /\ ~gate.wait /\ Exists(active)
    BY ListedScreensExist DEF TypeOK, CursorParts
  <2> QED
    BY <1>1, <1>3, <2>1, <2>2 DEF MoveOnSecondary
<1>4. ASSUME ~saverOn, NEW dir \in Direction, NEW lane \in Lane, NEW far,
             NEW push, NEW fails, CrossEdge(dir, lane, far, push, fails)
      PROVE  CursorInv' /\ AbstractStep
  <2> DEFINE dst == MapToNeighbor(dir, lane, far)
             try == G!IsSwitchOkay(gate, dir, dst, options, push)
  <2>1. dst \in clientSet \cup {NoScreen}
    <3> DEFINE cell == LandingCell(config, <<NameOf(active), lane>>, dir,
                                   ConnectedNames, far)
    <3>1. cell # NoCell => cell[1] \in ConnectedNames
      BY LandingCellType
    <3> HIDE DEF cell
    <3>2. dst = IF cell = NoCell THEN NoScreen ELSE clients[cell[1]]
      BY DEF MapToNeighbor, cell
    <3> QED
      BY <3>1, <3>2, ConnectedAreListed
  <2> HIDE DEF dst
  <2>2. /\ try.gate \in G!Gate /\ ~try.gate.wait
        /\ G!StopSwitch(gate) \in G!Gate /\ ~G!StopSwitch(gate).wait
        /\ try.ok => dst \in clientSet
    <3>1. dst \in Screen \cup {NoScreen}
      BY <2>1 DEF TypeOK
    <3> QED
      BY <2>1, <3>1, IsSwitchOkayType, GateNeverWaits, StopSwitchType,
         ServerAssumption DEF TypeOK, CursorParts
  <2> HIDE DEF try
  <2>3. Exists(active)
    BY ListedScreensExist
  <2>4. CASE /\ try.ok /\ SwitchScreen(dst, try.gate, fails)
             /\ UNCHANGED <<objects, setup, server, activeSaver, saverOn>>
    BY <1>4, <2>2, <2>4, SwitchKeepsCursor DEF CursorParts, SaverAtHome
  <2> QED
    BY <1>1, <1>4, <2>2, <2>3, <2>4, HangIsQuiet DEF CrossEdge, dst, try
<1> QED
  BY <1>2, <1>3, <1>4 DEF Motion, Orderly, InputAllowed

LEMMA HotKeyKeepsCursor ==
    ASSUME Orderly, TypeOK, phase # "deleted", CursorParts, HotKey
    PROVE  CursorInv' /\ AbstractStep
<1>1. ASSUME ~saverOn, NEW n \in ConnectedNames, NEW fails,
             SwitchScreen(clients[n], gate, fails),
             UNCHANGED <<objects, setup, server, activeSaver, saverOn>>
      PROVE  CursorInv' /\ AbstractStep
  <2>1. clients[n] \in clientSet
    BY ConnectedAreListed
  <2>2. gate \in G!Gate /\ ~gate.wait
    BY DEF TypeOK, CursorParts
  <2> QED
    BY <1>1, <2>1, <2>2, SwitchKeepsCursor DEF CursorParts, SaverAtHome
<1>2. ASSUME NEW n \in Name, NEW fails, SwitchToScreen(n, fails)
      PROVE  CursorInv' /\ AbstractStep
  BY <1>1, <1>2 DEF SwitchToScreen, ConnectedNames, InputAllowed, Orderly
<1>3. ASSUME NEW dir, NEW lane, NEW fails, SwitchInDirection(dir, lane, fails)
      PROVE  CursorInv' /\ AbstractStep
  <2> DEFINE cell == NeighborCell(config, <<NameOf(active), lane>>, dir,
                                  ConnectedNames)
  <2>1. cell # NoCell => cell[1] \in ConnectedNames
    BY NeighborCellType
  <2> HIDE DEF cell
  <2> QED
    BY <1>1, <1>3, <2>1, HangIsQuiet, ListedScreensExist
       DEF SwitchInDirection, InputAllowed, Orderly, cell
<1> QED
  BY <1>2, <1>3 DEF HotKey

LEMMA TimerKeepsCursor ==
    ASSUME Orderly, TypeOK, phase # "deleted", CursorParts, Timer
    PROVE  CursorInv' /\ AbstractStep
<1>1. ASSUME NEW drag, NEW fails, SwitchWaitTimeout(drag, fails)
      PROVE  FALSE
  BY <1>1 DEF SwitchWaitTimeout, CursorParts
<1>2. CASE DoubleTapExpires
  <2>1. ~gate'.wait
    BY <1>2 DEF DoubleTapExpires, CursorParts, TypeOK, G!Gate
  <2> QED
    BY <1>2, <2>1, QuietStep DEF DoubleTapExpires, setup
<1>3. ASSUME NEW p \in Proxy, ClientCloseTimeout(p)
      PROVE  CursorInv' /\ AbstractStep
  <2>1. /\ p \in oldClients /\ oldClients' = oldClients \ {p}
        /\ proxy' = [proxy EXCEPT ![p] = "deleted"]
        /\ UNCHANGED <<clients, clientSet, cursor, setup, phase,
                       activeSaver, saverOn, fault>>
    BY <1>3 DEF ClientCloseTimeout
  <2>2. ListedExist'
    BY <2>1, ServerAssumption DEF TypeOK, CursorParts, ListedExist, Screen
  <2>3. EnteredFollowsActive'
    BY <2>1 DEF TypeOK, CursorParts, EnteredFollowsActive, cursor
  <2> QED
    BY <2>1, <2>2, <2>3
       DEF CursorInv, CursorParts, IndexesMirror, SaverAtHome, AbstractStep,
           cursor, setup
<1> QED
  BY <1>1, <1>2, <1>3 DEF Timer

LEMMA SaverKeepsCursor ==
    ASSUME Orderly, TypeOK, phase # "deleted", CursorParts, Saver
    PROVE  CursorInv' /\ AbstractStep
<1>1. RelayToAll /\ gate \in G!Gate /\ ~gate.wait
  BY ListedScreensExist DEF TypeOK, CursorParts
<1>2. ASSUME UNCHANGED <<objects, setup, server, cursor, fault>>,
             activeSaver' \in clientSet \cup {NoScreen},
             activeSaver' # NoScreen => saverOn',
             saverOn' => active = Primary
      PROVE  CursorInv' /\ AbstractStep
  BY <1>2
     DEF CursorInv, CursorParts, ListedExist, IndexesMirror, SaverAtHome,
         EnteredFollowsActive, objects, cursor, setup, AbstractStep
<1>3. CASE ScreensaverActivated
  <2>1. /\ activeSaver' \in clientSet \cup {NoScreen}
        /\ saverOn' /\ Primary \in clientSet
    BY <1>3 DEF ScreensaverActivated, CursorParts, EnteredFollowsActive,
                ListedExist
  <2> QED
    BY <1>1, <1>2, <1>3, <2>1, SwitchKeepsCursor
       DEF ScreensaverActivated, JumpForSaver
<1>4. ASSUME NEW fails, ScreensaverDeactivated(fails)
      PROVE  CursorInv' /\ AbstractStep
  <2>1. activeSaver' = NoScreen /\ ~saverOn'
    BY <1>4 DEF ScreensaverDeactivated
  <2>2. activeSaver \notin {NoScreen, Primary} => activeSaver \in clientSet
    BY DEF CursorParts, SaverAtHome
  <2> QED
    BY <1>1, <1>2, <1>4, <2>1, <2>2, SwitchKeepsCursor
       DEF ScreensaverDeactivated
<1> QED
  BY <1>3, <1>4 DEF Saver

\* removeClient keeps the two indexes in step.
LEMMA RemoveKeepsIndexes ==
    ASSUME Orderly, TypeOK, CursorParts,
           NEW gone \in SUBSET Proxy, NEW c \in Configurations,
           RemoveClients(gone, c)
    PROVE  IndexesMirror' /\ clientSet' = clientSet \ gone
<1> DEFINE names == {RawNameOf[p] : p \in gone \cap clientSet}
<1>1. names = {NameNow(c, RawNameOf[p]) : p \in gone \cap clientSet}
  BY NameStays
<1>2. \A n \in Name :
          clients'[n] = IF n \in names THEN NoScreen ELSE clients[n]
  BY <1>1 DEF RemoveClients, Unlisted
<1>3. clientSet' = clientSet \ gone
  BY DEF RemoveClients
<1>4. \A p \in gone \cap clientSet :
          /\ p # Primary /\ RawNameOf[p] \in Name
          /\ clients[RawNameOf[p]] = p
  BY ServerAssumption DEF CursorParts, IndexesMirror
<1>5. clients'[PrimaryName] = Primary
  <2>1. PrimaryName \notin names
    BY <1>4 DEF CursorParts, IndexesMirror
  <2> QED
    BY <1>2, <2>1, ServerAssumption DEF CursorParts, IndexesMirror
<1>6. ASSUME NEW n \in Name, clients'[n] \notin {NoScreen, Primary}
      PROVE  clients'[n] \in clientSet' /\ RawNameOf[clients'[n]] = n
  <2>1. n \notin names /\ clients'[n] = clients[n]
    BY <1>2, <1>6
  <2>2. clients[n] \in clientSet /\ RawNameOf[clients[n]] = n
    BY <1>6, <2>1 DEF CursorParts, IndexesMirror
  <2>3. clients[n] \notin gone
    BY <2>1, <2>2
  <2> QED
    BY <1>3, <2>1, <2>2, <2>3
<1>7. ASSUME NEW s \in clientSet' \ {Primary}
      PROVE  RawNameOf[s] \in Name /\ clients'[RawNameOf[s]] = s
  <2>1. /\ s \in clientSet \ {Primary} /\ s \notin gone
        /\ RawNameOf[s] \in Name /\ clients[RawNameOf[s]] = s
    BY <1>3, <1>7 DEF CursorParts, IndexesMirror
  <2>2. RawNameOf[s] \notin names
    BY <1>4, <2>1
  <2> QED
    BY <1>2, <2>1, <2>2
<1> QED
  BY <1>3, <1>5, <1>6, <1>7 DEF IndexesMirror

\* forceLeaveClient gives the cursor to a screen that stays.
LEMMA ForceLeaveKeepsCursor ==
    ASSUME TypeOK, CursorParts,
           NEW gone \in SUBSET Proxy, ForceLeave(gone),
           clientSet' = clientSet \ gone, saverOn' = saverOn,
           \A p \in Proxy : proxy'[p] = "fresh" => proxy[p] = "fresh"
    PROVE  /\ EnteredFollowsActive' /\ SaverAtHome' /\ fault' = fault
           /\ AbstractStep
<1>1. Primary \notin gone /\ Primary \in clientSet
  BY ServerAssumption DEF CursorParts, ListedExist
<1>2. \/ /\ active \in gone /\ activeSaver = NoScreen /\ active' = Primary
         /\ entered' = [entered EXCEPT ![Primary] = TRUE]
         /\ fault' = fault
      \/ /\ active \notin gone /\ active' = active
         /\ entered' = entered /\ fault' = fault
  <2>1. activeSaver # NoScreen => active = Primary
    BY DEF CursorParts, SaverAtHome
  <2>2. active \in gone => active # Primary /\ ~entered[Primary]
    BY <1>1 DEF CursorParts, EnteredFollowsActive
  <2> QED
    BY <1>1, <2>1, <2>2
       DEF ForceLeave, EntersPrimary, ActiveAfterLeave, Holder
<1>3. \A s \in Screen : s # Primary => entered'[s] = entered[s]
  BY <1>2 DEF TypeOK
<1>4. EnteredFollowsActive'
  <2>1. active' \in clientSet'
    BY <1>1, <1>2 DEF CursorParts, EnteredFollowsActive
  <2>2. ASSUME NEW s \in clientSet' PROVE entered'[s] <=> s = active'
    <3>1. s \in clientSet /\ s \notin gone /\ s \in Screen
      BY <2>2 DEF TypeOK
    <3>2. entered[s] <=> s = active
      BY <3>1 DEF CursorParts, EnteredFollowsActive
    <3> QED
      BY <1>2, <1>3, <3>1, <3>2 DEF TypeOK
  <2>3. \A p \in Proxy : proxy'[p] = "fresh" => ~entered'[p]
    BY <1>3, ServerAssumption DEF CursorParts, EnteredFollowsActive, Screen
  <2> QED
    BY <2>1, <2>2, <2>3 DEF EnteredFollowsActive
<1>5. SaverAtHome'
  BY <1>2 DEF ForceLeave, CursorParts, SaverAtHome
<1>6. AbstractStep
  <2>1. clientSet' \cup {Primary} = (clientSet \cup {Primary}) \ gone
    BY <1>1
  <2>2. active' = IF active \in gone THEN Primary ELSE active
    BY <1>2
  <2>3. Cursor!Disconnect(gone)
    BY <2>1, <2>2 DEF Cursor!Disconnect
  <2> QED
    BY <2>3 DEF AbstractStep, Cursor!Next
<1> QED
  BY <1>2, <1>4, <1>5, <1>6

\* closeClients, whichever clients are to go.
LEMMA CloseKeepsCursor ==
    ASSUME Orderly, TypeOK, CursorParts,
           NEW gone \in SUBSET Proxy, NEW c \in Configurations,
           CloseClients(gone, c), saverOn' = saverOn,
           \A p \in gone : proxy'[p] = "open",
           \A p \in Proxy : p \notin gone => proxy'[p] = proxy[p],
           ~gate'.wait, ~options'.wait
    PROVE  CursorInv' /\ AbstractStep
<1>1. IndexesMirror' /\ clientSet' = clientSet \ gone
  BY RemoveKeepsIndexes DEF CloseClients
<1>2. \A p \in Proxy : proxy'[p] = "fresh" => proxy[p] = "fresh"
  BY ServerAssumption
<1>3. /\ EnteredFollowsActive' /\ SaverAtHome' /\ fault' = fault
      /\ AbstractStep
  BY <1>1, <1>2, ForceLeaveKeepsCursor DEF CloseClients
<1>4. ListedExist'
  <2>1. oldClients' = oldClients \cup gone
    BY DEF CloseClients
  <2>2. Primary \in clientSet'
    BY <1>1, ServerAssumption DEF CursorParts, ListedExist
  <2>3. \A s \in clientSet' \ {Primary} : proxy'[s] = "open"
    BY <1>1 DEF CursorParts, ListedExist, TypeOK, Screen
  <2>4. \A p \in oldClients' : proxy'[p] = "open" /\ p \notin clientSet'
    BY <1>1, <2>1 DEF CursorParts, ListedExist, TypeOK
  <2> QED
    BY <2>2, <2>3, <2>4 DEF ListedExist
<1> QED
  BY <1>1, <1>3, <1>4 DEF CursorInv, CursorParts

LEMMA GateAfterLeaveNeverWaits ==
    ASSUME TypeOK, CursorParts, NEW gone
    PROVE  GateAfterLeave(gone) \in G!Gate /\ ~GateAfterLeave(gone).wait
BY GateAfterLeaveType, GateNeverWaits DEF TypeOK, CursorParts, GateAfterLeave

LEMMA ConnectionKeepsCursor ==
    ASSUME Orderly, TypeOK, phase # "deleted", CursorParts, Connection
    PROVE  CursorInv' /\ AbstractStep
<1> SUFFICES ASSUME NEW p \in Proxy, AdoptClient(p) \/ ClientDisconnected(p)
             PROVE  CursorInv' /\ AbstractStep
  BY DEF Connection
<1>1. CASE AdoptClient(p)
  <2> DEFINE name == config.canon[RawNameOf[p]]
  <2>1. /\ proxy[p] = "fresh" /\ p \notin clientSet /\ p # active
        /\ ~entered[p] /\ p # Primary
    BY <1>1, ServerAssumption
       DEF AdoptClient, CursorParts, ListedExist, EnteredFollowsActive
  <2>2. /\ proxy' = [proxy EXCEPT ![p] = "open"]
        /\ UNCHANGED <<gate, setup, server, saverOn>>
        /\ ~gate'.wait /\ ~options'.wait
    BY <1>1 DEF AdoptClient, CursorParts, setup
  <2>3. CASE CloseClients({p}, config)
    <3>1. \A q \in {p} : proxy'[q] = "open"
      BY <2>2 DEF TypeOK
    <3>2. \A q \in Proxy : q \notin {p} => proxy'[q] = proxy[q]
      BY <2>2 DEF TypeOK
    <3>3. config \in Configurations /\ {p} \in SUBSET Proxy
      BY DEF TypeOK
    <3> QED
      BY <2>2, <2>3, <3>1, <3>2, <3>3, CloseKeepsCursor
  <2>4. CASE /\ name # NoName /\ clients[name] = NoScreen
             /\ clients' = [clients EXCEPT ![name] = p]
             /\ clientSet' = clientSet \cup {p}
             /\ UNCHANGED <<oldClients, active, seqNum, entered,
                            activeSaver, fault>>
    <3>1. name = RawNameOf[p] /\ name \in Name
      BY <2>4, ServerAssumption DEF TypeOK, Orderly, NoAliases, Configuration
    <3> HIDE DEF name
    <3>2. \A n \in Name : clients'[n] = IF n = name THEN p ELSE clients[n]
      BY <2>4 DEF TypeOK
    <3>3. ListedExist'
      <4>1. \A q \in Proxy : proxy'[q] = IF q = p THEN "open" ELSE proxy[q]
        BY <2>2 DEF TypeOK
      <4> QED
        BY <2>1, <2>4, <4>1 DEF CursorParts, ListedExist, TypeOK, Screen
    <3>4. IndexesMirror'
      <4>1. name # PrimaryName
        BY <2>4, ServerAssumption DEF CursorParts, IndexesMirror, Screen
      <4>2. clients'[PrimaryName] = Primary
        BY <3>2, <4>1, ServerAssumption DEF CursorParts, IndexesMirror
      <4>3. ASSUME NEW n \in Name, clients'[n] \notin {NoScreen, Primary}
            PROVE  clients'[n] \in clientSet' /\ RawNameOf[clients'[n]] = n
        BY <2>4, <3>1, <3>2, <4>3 DEF CursorParts, IndexesMirror
      <4>4. ASSUME NEW s \in clientSet' \ {Primary}
            PROVE  RawNameOf[s] \in Name /\ clients'[RawNameOf[s]] = s
        <5>1. CASE s = p
          BY <3>1, <3>2, <5>1
        <5>2. CASE s # p
          <6>1. s \in clientSet \ {Primary} /\ s \in Screen
            BY <2>4, <4>4, <5>2 DEF TypeOK
          <6>2. RawNameOf[s] \in Name /\ clients[RawNameOf[s]] = s
            BY <6>1 DEF CursorParts, IndexesMirror
          <6>3. RawNameOf[s] # name
            BY <2>4, <6>1, <6>2, ServerAssumption
          <6> QED
            BY <3>2, <6>2, <6>3
        <5> QED
          BY <5>1, <5>2
      <4> QED
        BY <4>2, <4>3, <4>4 DEF IndexesMirror
    <3>5. EnteredFollowsActive'
      BY <2>1, <2>2, <2>4 DEF CursorParts, EnteredFollowsActive, TypeOK
    <3>6. SaverAtHome' /\ fault' \notin {"deleted", "assert"}
      BY <2>2, <2>4 DEF CursorParts, SaverAtHome
    <3>7. AbstractStep
      <4>1. p \notin clientSet \cup {Primary}
        BY <2>1
      <4>2. clientSet' \cup {Primary} = (clientSet \cup {Primary}) \cup {p}
        BY <2>4
      <4>3. Cursor!Connect(p)
        BY <2>4, <4>1, <4>2 DEF Cursor!Connect
      <4> QED
        BY <4>3 DEF AbstractStep, Cursor!Next
    <3> QED
      BY <2>2, <3>3, <3>4, <3>5, <3>6, <3>7 DEF CursorInv, CursorParts
  <2> QED
    BY <1>1, <2>3, <2>4 DEF AdoptClient
<1>2. CASE ClientDisconnected(p)
  <2>1. /\ proxy[p] = "open"
        /\ proxy' = [proxy EXCEPT ![p] = "deleted"]
        /\ oldClients' = oldClients \ {p}
        /\ RemoveClients({p}, config)
        /\ UNCHANGED <<setup, phase, saverOn>>
    BY <1>2 DEF ClientDisconnected
  <2>2. IndexesMirror' /\ clientSet' = clientSet \ {p}
    BY <2>1, RemoveKeepsIndexes DEF TypeOK
  <2>3. \A q \in Proxy : proxy'[q] = IF q = p THEN "deleted" ELSE proxy[q]
    BY <2>1 DEF TypeOK
  <2>4. ListedExist'
    <3>1. Primary \in clientSet'
      BY <2>2, ServerAssumption DEF CursorParts, ListedExist
    <3>2. \A s \in clientSet' \ {Primary} : proxy'[s] = "open"
      BY <2>2, <2>3 DEF CursorParts, ListedExist, TypeOK, Screen
    <3>3. \A q \in oldClients' : proxy'[q] = "open" /\ q \notin clientSet'
      BY <2>1, <2>2, <2>3 DEF CursorParts, ListedExist, TypeOK
    <3> QED
      BY <3>1, <3>2, <3>3 DEF ListedExist
  <2>5. CASE p \in clientSet
    <3>1. ForceLeave({p}) /\ gate' = GateAfterLeave({p})
      BY <1>2, <2>5 DEF ClientDisconnected
    <3>2. /\ EnteredFollowsActive' /\ SaverAtHome' /\ fault' = fault
          /\ AbstractStep
      BY <2>1, <2>2, <2>3, <3>1, ForceLeaveKeepsCursor
    <3> QED
      BY <2>1, <2>2, <2>4, <3>1, <3>2, GateAfterLeaveNeverWaits
         DEF CursorInv, CursorParts, setup
  <2>6. CASE p \notin clientSet
    <3>1. UNCHANGED <<cursor, activeSaver, fault>> /\ clientSet' = clientSet
      BY <1>2, <2>2, <2>6 DEF ClientDisconnected
    <3>2. EnteredFollowsActive' /\ SaverAtHome'
      BY <2>1, <2>3, <3>1
         DEF CursorParts, EnteredFollowsActive, SaverAtHome, cursor
    <3> QED
      BY <2>1, <2>2, <2>4, <3>1, <3>2
         DEF CursorInv, CursorParts, setup, cursor, AbstractStep
  <2> QED
    BY <2>5, <2>6
<1> QED
  BY <1>1, <1>2

LEMMA ControlKeepsCursor ==
    ASSUME Orderly, TypeOK, phase # "deleted", CursorParts, Control
    PROVE  CursorInv' /\ AbstractStep
<1>1. CASE LockCursorToScreen
  <2>1. ~gate'.wait
    BY <1>1 DEF LockCursorToScreen, CursorParts, cursor
  <2> QED
    BY <1>1, <2>1, QuietStep DEF LockCursorToScreen, cursor
<1>2. ASSUME NEW gone \in SUBSET Proxy, NEW c \in Configurations,
             gone \subseteq clientSet,
             CloseClients(gone, c), UNCHANGED <<proxy, saverOn>>,
             ~gate'.wait, ~options'.wait
      PROVE  CursorInv' /\ AbstractStep
  <2>1. \A p \in gone : proxy'[p] = "open"
    BY <1>2, ServerAssumption DEF CursorParts, ListedExist
  <2> QED
    BY <1>2, <2>1, CloseKeepsCursor
<1>3. \A n \in ConnectedNames : clients[n] \in clientSet
  BY ConnectedAreListed
<1>4. ASSUME NEW c \in Configurations, SetConfig(c)
      PROVE  CursorInv' /\ AbstractStep
  <2>5. CASE RefuseConfig(c)
    <3>1. ~gate'.wait
      BY <2>5 DEF RefuseConfig, CursorParts, cursor
    <3> QED
      BY <2>5, <3>1, QuietStep DEF RefuseConfig, cursor
  <2>6. SUFFICES ASSUME ~RefuseConfig(c) PROVE CursorInv' /\ AbstractStep
    BY <2>5
  <2>1. /\ CloseClients(Dropped(c), c)
        /\ gate' = GateAfterOptions(c, GateAfterLeave(Dropped(c)))
        /\ options' = ProcessOptions(c, options)
        /\ UNCHANGED <<proxy, saverOn>>
    BY <1>4, <2>6, ListedScreensExist DEF SetConfig
  <2>2. Dropped(c) \in SUBSET Proxy /\ Dropped(c) \subseteq clientSet
    BY <1>3, SecondariesType DEF Dropped
  <2>3. ~options'.wait
    BY <2>1, ServerAssumption
       DEF ProcessOptions, Setting, Orderly, NoDelay, CursorParts, Configuration
  <2>4. ~gate'.wait
    <3> DEFINE g == GateAfterLeave(Dropped(c))
               g1 == IF c.delay = "absent" THEN g ELSE G!StopSwitchWait(g)
    <3>1. g \in G!Gate /\ ~g.wait
      BY GateAfterLeaveNeverWaits
    <3> HIDE DEF g
    <3>2. g1 \in G!Gate /\ ~g1.wait
      BY <3>1, StopSwitchType, GateNeverWaits
    <3>3. gate' = IF c.doubleTap = "absent" THEN g1 ELSE G!StopSwitchTwoTap(g1)
      BY <2>1 DEF GateAfterOptions, g
    <3> HIDE DEF g1
    <3> QED
      BY <3>2, <3>3, GateNeverWaits
  <2> QED
    BY <1>2, <2>1, <2>2, <2>3, <2>4
<1>5. ASSUME NEW next, Disconnect(next)
      PROVE  CursorInv' /\ AbstractStep
  <2>1. Secondaries \in SUBSET Proxy /\ Secondaries \subseteq clientSet
    BY <1>3, SecondariesType DEF Secondaries
  <2>2. ~gate'.wait /\ ~options'.wait
    BY <1>5, GateAfterLeaveNeverWaits DEF Disconnect, setup, CursorParts
  <2> QED
    BY <1>2, <1>5, <2>1, <2>2 DEF Disconnect, TypeOK
<1>6. CASE ForceReconnect \/ StopServer
  BY <1>5, <1>6, ListedScreensExist DEF ForceReconnect, StopServer
<1>7. CASE DeleteServer
  <2>1. clientSet' \cup {Primary} = clientSet \cup {Primary}
    BY <1>7 DEF DeleteServer
  <2> QED
    BY <1>7, <2>1 DEF DeleteServer, CursorInv, AbstractStep
<1> QED
  BY <1>1, <1>4, <1>6, <1>7 DEF Control

LEMMA CursorInit == Orderly /\ Init => CursorInv
<1> SUFFICES ASSUME Orderly, Init PROVE CursorInv
  OBVIOUS
<1>1. ListedExist /\ IndexesMirror
  BY ServerAssumption DEF Init, ListedExist, IndexesMirror
<1>2. EnteredFollowsActive /\ SaverAtHome
  BY ServerAssumption DEF Init, EnteredFollowsActive, SaverAtHome, Screen
<1>3. ~options.wait
  BY DEF Init, ProcessOptions, Setting, NoOptions, Orderly, NoDelay
<1>4. ~gate.wait /\ fault = "none"
  BY DEF Init, G!Idle
<1> QED
  BY <1>1, <1>2, <1>3, <1>4 DEF CursorInv, CursorParts

\* Nothing happens to the cursor once the server is deleted.
LEMMA DeletedServerRests ==
    ASSUME phase = "deleted", Next
    PROVE  phase' = "deleted" /\ UNCHANGED <<clientSet, active>>
BY DEF Next, Motion, HotKey, Timer, Saver, Connection, Control, InputAllowed,
       MoveOnPrimary, MoveOnSecondary, SwitchToScreen, SwitchInDirection,
       SwitchWaitTimeout, DoubleTapExpires, ClientCloseTimeout,
       ScreensaverActivated, ScreensaverDeactivated, AdoptClient,
       ClientDisconnected, LockCursorToScreen, SetConfig, ForceReconnect,
       StopServer, DeleteServer, Fail, objects, cursor, server

LEMMA CursorStep ==
    ASSUME Orderly
    PROVE  TypeOK /\ CursorInv /\ [Next]_vars => CursorInv' /\ AbstractStep
<1> SUFFICES ASSUME TypeOK, CursorInv, [Next]_vars
             PROVE  CursorInv' /\ AbstractStep
  OBVIOUS
<1>1. CASE phase # "deleted" /\ Next
  BY <1>1, MotionKeepsCursor, HotKeyKeepsCursor, TimerKeepsCursor,
     SaverKeepsCursor, ConnectionKeepsCursor, ControlKeepsCursor
     DEF Next, CursorInv
<1>2. CASE phase = "deleted" /\ Next
  BY <1>2, DeletedServerRests DEF CursorInv, AbstractStep
<1>3. CASE UNCHANGED vars
  BY <1>3
     DEF vars, objects, cursor, setup, server, CursorInv, CursorParts,
         ListedExist, IndexesMirror, EnteredFollowsActive, SaverAtHome,
         AbstractStep
<1> QED
  BY <1>1, <1>2, <1>3

\* What all handlers keep while there is a server: the indexes mirror each
\* other and list only screens that exist, the active screen is the one that
\* was entered, the saver holds it at home, and no switch waits in the gate.
THEOREM CursorInvariant ==
    ASSUME Orderly
    PROVE  Spec => []CursorInv
BY CursorInit, CursorStep, TypeCorrect, PTL DEF Spec

\* Whatever clients come, go, are replaced, dropped or closed: the screen that
\* has the cursor is one of those that are connected.
THEOREM CursorStaysConnected ==
    ASSUME Orderly
    PROVE  Spec => []ActiveIsConnected
<1>1. CursorInv => ActiveIsConnected
  BY DEF CursorInv, CursorParts, EnteredFollowsActive, ActiveIsConnected
<1> QED
  BY <1>1, CursorInvariant, PTL

\* Enter and leave are balanced: exactly the active screen is entered.
THEOREM EntersAreBalanced ==
    ASSUME Orderly
    PROVE  Spec => []OneScreenEntered
<1>1. CursorInv => OneScreenEntered
  BY DEF CursorInv, CursorParts, EnteredFollowsActive, OneScreenEntered
<1> QED
  BY <1>1, CursorInvariant, PTL

\* The name index and the client set list the same clients, across reloads.
THEOREM IndexesAlwaysAgree ==
    ASSUME Orderly
    PROVE  Spec => []IndexesAgree
<1>1. TypeOK /\ CursorInv => IndexesAgree
  <2> SUFFICES ASSUME TypeOK, phase # "deleted", CursorParts
               PROVE  {clients[n] : n \in ConnectedNames} = clientSet
    BY DEF CursorInv, IndexesAgree
  <2>1. ASSUME NEW n \in ConnectedNames PROVE clients[n] \in clientSet
    BY ConnectedAreListed
  <2>2. ASSUME NEW s \in clientSet
        PROVE  \E n \in ConnectedNames : clients[n] = s
    <3>1. s # NoScreen
      BY ServerAssumption DEF TypeOK
    <3>2. CASE s = Primary
      BY <3>1, <3>2, ServerAssumption
         DEF CursorParts, IndexesMirror, ConnectedNames
    <3>3. CASE s # Primary
      BY <3>1, <3>3 DEF CursorParts, IndexesMirror, ConnectedNames
    <3> QED
      BY <3>2, <3>3
  <2> QED
    BY <2>1, <2>2
<1> QED
  BY <1>1, CursorInvariant, TypeCorrect, PTL

\* The screen saver finds the cursor at home, and leaves it there.
THEOREM SaverStaysHome ==
    ASSUME Orderly
    PROVE  Spec => [](phase # "deleted" => SaverHasPrimary)
<1>1. CursorInv => (phase # "deleted" => SaverHasPrimary)
  BY DEF CursorInv, CursorParts, SaverAtHome, SaverHasPrimary
<1> QED
  BY <1>1, CursorInvariant, PTL

\* While there is a server, no handler touches a deleted client and no screen
\* is entered or left twice in a row.
THEOREM HandlersAreSafe ==
    ASSUME Orderly
    PROVE  Spec => [](NoUseAfterDelete /\ (phase # "deleted" => AssertionsHold))
<1>1. CursorInv => NoUseAfterDelete /\ (phase # "deleted" => AssertionsHold)
  BY DEF CursorInv, CursorParts, NoUseAfterDelete, AssertionsHold
<1> QED
  BY <1>1, CursorInvariant, PTL

\* While there is a server its state fits: types, asserts, screen saver.
THEOREM StateAlwaysFits ==
    ASSUME Orderly
    PROVE  Spec => [](phase # "deleted" => StateFits)
<1>1. TypeOK /\ CursorInv => (phase # "deleted" => StateFits)
  BY DEF CursorInv, CursorParts, SaverAtHome, SaverHasPrimary, AssertionsHold, StateFits
<1> QED
  BY <1>1, CursorInvariant, TypeCorrect, PTL

\* CServer implements CursorOwner: every handler moves the cursor among the
\* connected screens, or connects one, or takes some away, and nothing else.
THEOREM CursorIsOwned ==
    ASSUME Orderly
    PROVE  Spec => CursorSpec
<1>1. Init => Cursor!Init
  BY DEF Init, Cursor!Init
<1>2. TypeOK /\ CursorInv /\ [Next]_vars
          => [Cursor!Next]_<<clientSet \cup {Primary}, active>>
  BY CursorStep DEF AbstractStep
<1> QED
  BY <1>1, <1>2, TypeCorrect, CursorInvariant, PTL
     DEF Spec, CursorSpec, Cursor!Spec

-----------------------------------------------------------------------------
(***************************************************************************)
(* The gate and the options, for every server: with aliases, delays, and   *)
(* input while the screen saver runs.                                      *)
(***************************************************************************)
Follows(g, opt) ==
    /\ g.wait => g.screen # NoScreen /\ opt.wait
    /\ g.tap # "off" => g.screen # NoScreen /\ opt.tap

LEMMA StoppingFollows ==
    ASSUME NEW g \in G!Gate, NEW opt, Follows(g, opt)
    PROVE  /\ Follows(G!StopSwitchWait(g), opt)
           /\ Follows(G!StopSwitchTwoTap(g), opt)
           /\ Follows(G!StopSwitch(g), opt)
BY DEF Follows, G!Gate, G!StopSwitchWait, G!StopSwitchTwoTap, G!StopSwitch

LEMMA NoSwitchFollows ==
    ASSUME NEW g \in G!Gate, NEW opt, NEW inner \in BOOLEAN, Follows(g, opt)
    PROVE  Follows(G!NoSwitch(g, inner), opt)
<1> DEFINE armed == G!ArmSwitchTwoTap(g, inner)
<1>1. armed \in G!Gate /\ Follows(armed, opt)
  BY StoppingFollows, StopSwitchType DEF G!Gate, G!ArmSwitchTwoTap, Follows
<1> HIDE DEF armed
<1>2. Follows(G!StopSwitchWait(armed), opt)
  BY <1>1, StoppingFollows
<1> QED
  BY <1>2 DEF G!NoSwitch, armed

LEMMA RememberFollows ==
    ASSUME NEW g \in G!Gate, NEW dir \in Direction, NEW dst \in Screen,
           NEW opt \in G!GateOptions, Follows(g, opt)
    PROVE  Follows(G!Remember(g, dir, dst, opt), opt)
<1> DEFINE g1 == G!RememberTarget(g, dir, dst)
           g2 == IF opt.tap /\ ~G!SecondTap(g, dir, opt)
                 THEN G!StartSwitchTwoTap(g1) ELSE g1
<1>1. g1 \in G!Gate /\ g1.screen # NoScreen /\ Follows(g1, opt)
  <2>1. dst # NoScreen
    BY ServerAssumption
  <2>2. CASE G!IsNewDirection(g, dir) \/ g.screen = NoScreen
    BY <2>1, <2>2 DEF G!Gate, G!RememberTarget, Follows
  <2>3. CASE ~(G!IsNewDirection(g, dir) \/ g.screen = NoScreen)
    BY <2>3 DEF G!RememberTarget
  <2> QED
    BY <2>2, <2>3
<1>2. g2 \in G!Gate /\ g2.screen # NoScreen /\ Follows(g2, opt)
  <2> HIDE DEF g1
  <2> QED BY <1>1 DEF G!Gate, G!StartSwitchTwoTap, Follows
<1>3. opt.wait => Follows(G!StartSwitchWait(g2), opt)
  <2> HIDE DEF g2
  <2> QED BY <1>2 DEF G!Gate, G!StartSwitchWait, Follows
<1> HIDE DEF g2
<1>4. \/ G!Remember(g, dir, dst, opt) = g2
      \/ opt.wait /\ G!Remember(g, dir, dst, opt) = G!StartSwitchWait(g2)
  <2> DEFINE starts == /\ opt.wait /\ ~G!SecondTap(g, dir, opt)
                       /\ G!IsNewDirection(g, dir) \/ ~g.wait
  <2>1. G!Remember(g, dir, dst, opt) = IF starts THEN G!StartSwitchWait(g2) ELSE g2
    BY DEF G!Remember, g2
  <2>2. CASE starts
    BY <2>1, <2>2
  <2>3. CASE ~starts
    BY <2>1, <2>3
  <2> QED
    BY <2>2, <2>3
<1> QED
  BY <1>2, <1>3, <1>4

LEMMA SwitchOkayFollows ==
    ASSUME NEW g \in G!Gate, NEW dir \in Direction,
           NEW dst \in Screen \cup {NoScreen},
           NEW opt \in G!GateOptions, NEW push, Follows(g, opt)
    PROVE  Follows(G!IsSwitchOkay(g, dir, dst, opt, push).gate, opt)
<1>1. CASE dst = NoScreen
  BY <1>1, StoppingFollows DEF G!IsSwitchOkay
<1>2. CASE dst # NoScreen
  <2> DEFINE after == G!Remember(g, dir, dst, opt)
  <2>1. dst \in Screen
    BY <1>2
  <2>2. after \in G!Gate /\ Follows(after, opt)
    BY <2>1, RememberType, RememberFollows
  <2> HIDE DEF after
  <2>3. Follows(G!StopSwitch(after), opt)
    BY <2>2, StoppingFollows
  <2> QED
    BY <1>2, <2>2, <2>3 DEF G!IsSwitchOkay, after
<1> QED
  BY <1>1, <1>2

LEMMA SwitchScreenFollows ==
    ASSUME NEW dst, NEW g \in G!Gate, NEW refuses,
           Follows(g, options), Follows(gate, options),
           SwitchScreen(dst, g, refuses)
    PROVE  Follows(gate', options)
<1>1. gate' = G!StopSwitch(g) \/ UNCHANGED gate
  BY DEF SwitchScreen, cursor
<1> QED
  BY <1>1, StoppingFollows

LEMMA LeavingFollows ==
    ASSUME gate \in G!Gate, Follows(gate, options), NEW gone
    PROVE  Follows(GateAfterLeave(gone), options)
BY StoppingFollows DEF GateAfterLeave

\* What a reload turns off it also stops, and what it does not mention goes on.
LEMMA ReloadFollows ==
    ASSUME NEW c \in Configurations, NEW g \in G!Gate, NEW opt \in G!GateOptions,
           Follows(g, opt)
    PROVE  Follows(GateAfterOptions(c, g), ProcessOptions(c, opt))
<1> DEFINE new == ProcessOptions(c, opt)
           g1 == IF c.delay = "absent" THEN g ELSE G!StopSwitchWait(g)
<1>1. /\ c.delay = "absent" => new.wait = opt.wait
      /\ c.doubleTap = "absent" => new.tap = opt.tap
  BY DEF ProcessOptions, Setting
<1> HIDE DEF new
<1>2. /\ g1 \in G!Gate
      /\ g1.wait => g1.screen # NoScreen /\ new.wait
      /\ g1.tap = g.tap /\ g1.screen = g.screen
  BY <1>1, StopSwitchType DEF Follows, G!Gate, G!StopSwitchWait
<1> HIDE DEF g1
<1>3. CASE c.doubleTap = "absent"
  BY <1>1, <1>2, <1>3 DEF Follows, GateAfterOptions, g1, new
<1>4. CASE c.doubleTap # "absent"
  <2>1. Follows(G!StopSwitchTwoTap(g1), new)
    BY <1>2 DEF Follows, G!Gate, G!StopSwitchTwoTap
  <2> QED
    BY <1>4, <2>1 DEF GateAfterOptions, g1, new
<1> QED
  BY <1>3, <1>4

LEMMA GateStep == TypeOK /\ GateFollowsOptions /\ [Next]_vars => GateFollowsOptions'
<1> SUFFICES ASSUME TypeOK, Follows(gate, options), [Next]_vars
             PROVE  Follows(gate', options')
  BY DEF GateFollowsOptions, Follows
<1>1. gate \in G!Gate /\ options \in G!GateOptions
  BY DEF TypeOK
<1>2. ASSUME UNCHANGED <<gate, options>>
      PROVE  Follows(gate', options')
  BY <1>2
<1>3. ASSUME NEW why, Fail(why)
      PROVE  Follows(gate', options')
  BY <1>2, <1>3 DEF Fail, cursor, setup
<1>4. ASSUME NEW dst, NEW fails, SwitchScreen(dst, gate, fails), UNCHANGED options
      PROVE  Follows(gate', options')
  BY <1>1, <1>4, SwitchScreenFollows
<1>5. CASE Motion
  <2>1. ASSUME NEW inner \in BOOLEAN, MoveOnPrimary(inner)
        PROVE  Follows(gate', options')
    BY <1>1, <2>1, NoSwitchFollows DEF MoveOnPrimary, setup
  <2>2. ASSUME NEW e, NEW inner \in BOOLEAN, MoveOnSecondary(e, inner)
        PROVE  Follows(gate', options')
    BY <1>1, <1>3, <2>2, NoSwitchFollows DEF MoveOnSecondary, setup
  <2>3. ASSUME NEW dir \in Direction, NEW lane, NEW far, NEW fails, NEW push,
               CrossEdge(dir, lane, far, push, fails)
        PROVE  Follows(gate', options')
    <3> DEFINE dst == MapToNeighbor(dir, lane, far)
               try == G!IsSwitchOkay(gate, dir, dst, options, push)
    <3>1. dst \in Screen \cup {NoScreen}
      BY MapToNeighborType DEF TypeOK
    <3> HIDE DEF dst
    <3>2. try.gate \in G!Gate /\ Follows(try.gate, options)
      BY <1>1, <3>1, IsSwitchOkayType, SwitchOkayFollows
    <3> HIDE DEF try
    <3>3. CASE gate' \in {G!StopSwitch(gate), try.gate} /\ UNCHANGED setup
      BY <1>1, <3>2, <3>3, StoppingFollows DEF setup
    <3>4. CASE SwitchScreen(dst, try.gate, fails) /\ UNCHANGED setup
      <4>1. Follows(gate', options)
        BY <3>2, <3>4, SwitchScreenFollows
      <4> QED
        BY <3>4, <4>1 DEF setup
    <3> QED
      BY <1>3, <2>3, <3>3, <3>4 DEF CrossEdge, try, dst
  <2> QED
    BY <1>5, <2>1, <2>2, <2>3 DEF Motion
<1>6. CASE HotKey
  <2>1. ASSUME NEW n \in Name, NEW fails, SwitchToScreen(n, fails)
        PROVE  Follows(gate', options')
    BY <1>4, <2>1 DEF SwitchToScreen, setup
  <2>2. ASSUME NEW dir, NEW lane, NEW fails, SwitchInDirection(dir, lane, fails)
        PROVE  Follows(gate', options')
    BY <1>3, <1>4, <2>2 DEF SwitchInDirection, setup
  <2> QED
    BY <1>6, <2>1, <2>2 DEF HotKey
<1>7. CASE Timer
  <2>1. ASSUME NEW drag, NEW fails, SwitchWaitTimeout(drag, fails)
        PROVE  Follows(gate', options')
    <3>1. CASE gate' = G!StopSwitch(gate) /\ UNCHANGED setup
      BY <1>1, <3>1, StoppingFollows DEF setup
    <3> QED
      BY <1>4, <2>1, <3>1 DEF SwitchWaitTimeout, setup
  <2>2. CASE DoubleTapExpires
    BY <1>1, <2>2 DEF DoubleTapExpires, setup, Follows, G!Gate
  <2>3. ASSUME NEW p \in Proxy, ClientCloseTimeout(p)
        PROVE  Follows(gate', options')
    BY <1>2, <1>3, <2>3 DEF ClientCloseTimeout, setup, cursor
  <2> QED
    BY <1>7, <2>1, <2>2, <2>3 DEF Timer
<1>8. CASE Saver
  <2>1. CASE ScreensaverActivated
    BY <1>2, <1>4, <2>1 DEF ScreensaverActivated, JumpForSaver, setup, cursor
  <2>2. ASSUME NEW fails, ScreensaverDeactivated(fails)
        PROVE  Follows(gate', options')
    BY <1>2, <1>4, <2>2 DEF ScreensaverDeactivated, setup, cursor
  <2> QED
    BY <1>8, <2>1, <2>2 DEF Saver
<1>9. CASE Connection
  <2> SUFFICES ASSUME NEW p \in Proxy, AdoptClient(p) \/ ClientDisconnected(p)
               PROVE  Follows(gate', options')
    BY <1>9 DEF Connection
  <2>1. CASE AdoptClient(p)
    BY <1>2, <2>1 DEF AdoptClient, setup
  <2>2. CASE ClientDisconnected(p)
    <3>1. CASE gate' = GateAfterLeave({p}) /\ UNCHANGED setup
      BY <1>1, <3>1, LeavingFollows DEF setup
    <3> QED
      BY <1>2, <1>3, <2>2, <3>1 DEF ClientDisconnected, setup, cursor
  <2> QED
    BY <2>1, <2>2
<1>10. CASE Control
  <2>1. CASE LockCursorToScreen
    BY <1>2, <2>1 DEF LockCursorToScreen, cursor
  <2>2. ASSUME NEW c \in Configurations, SetConfig(c)
        PROVE  Follows(gate', options')
    <3> DEFINE left == GateAfterLeave(Dropped(c))
    <3>1. left \in G!Gate /\ Follows(left, options)
      BY <1>1, GateAfterLeaveType, LeavingFollows
    <3> HIDE DEF left
    <3>2. Follows(GateAfterOptions(c, left), ProcessOptions(c, options))
      BY <1>1, <3>1, ReloadFollows
    <3>3. CASE RefuseConfig(c)
      BY <1>1, <3>3 DEF RefuseConfig, cursor
    <3> QED
      BY <1>3, <2>2, <3>2, <3>3 DEF SetConfig, left
  <2>3. ASSUME NEW next, Disconnect(next)
        PROVE  Follows(gate', options')
    BY <1>1, <2>3, LeavingFollows DEF Disconnect, setup
  <2>4. CASE ForceReconnect \/ StopServer
    BY <1>3, <2>3, <2>4 DEF ForceReconnect, StopServer
  <2>5. CASE DeleteServer
    BY <1>1, <2>5, StoppingFollows DEF DeleteServer, setup
  <2> QED
    BY <1>10, <2>1, <2>2, <2>4, <2>5 DEF Control
<1>11. CASE UNCHANGED vars
  BY <1>2, <1>11 DEF vars, cursor, setup
<1> QED
  BY <1>5, <1>6, <1>7, <1>8, <1>9, <1>10, <1>11 DEF Next

\* Whatever is pending in the gate has a target and an option that makes it
\* wait: isSwitchOkay starts nothing else, and processOptions stops what a
\* reload turns off.
THEOREM GateAlwaysFollows == Spec => []GateFollowsOptions
<1>1. Init => GateFollowsOptions
  BY DEF Init, G!Idle, GateFollowsOptions
<1> QED
  BY <1>1, GateStep, TypeCorrect, PTL DEF Spec

-----------------------------------------------------------------------------
(***************************************************************************)
(* The lock, for every server without hotkeys on which no input arrives    *)
(* while the screen saver runs; aliases and delays do no harm.  What the   *)
(* lock rests on: while the saver remembers a screen to go back to, the    *)
(* cursor is at home and nothing waits to take it away.                    *)
(***************************************************************************)
Aside == activeSaver \notin {NoScreen, Primary}

SaverAside ==
    /\ activeSaver # NoScreen => saverOn
    /\ NoFault /\ Aside => active = Primary /\ ~gate.wait

LockStep ==
    locked /\ active' # active => active \notin clientSet' \/ saverOn' # saverOn

LEMMA StoppingWaits ==
    ASSUME NEW g \in G!Gate
    PROVE  /\ G!StopSwitch(g).wait => g.wait /\ g.screen = NoScreen
           /\ G!StopSwitchTwoTap(g).wait => g.wait
           /\ ~G!StopSwitchWait(g).wait
BY DEF G!Gate, G!StopSwitchWait, G!StopSwitchTwoTap, G!StopSwitch

\* isSwitchOkay says yes only to a cursor that is not locked.
LEMMA OkayIsUnlocked ==
    ASSUME NEW g, NEW dir, NEW dst, NEW opt, NEW push,
           G!IsSwitchOkay(g, dir, dst, opt, push).ok
    PROVE  ~push.locked
<1>1. CASE dst = NoScreen
  BY <1>1 DEF G!IsSwitchOkay
<1>2. CASE dst # NoScreen /\ G!Refused(g, dir, opt, push)
  BY <1>2 DEF G!IsSwitchOkay
<1>3. CASE dst # NoScreen /\ ~G!Refused(g, dir, opt, push)
  <2>1. ~G!MustWait(g, dir, opt)
    BY <1>3 DEF G!IsSwitchOkay
  <2> QED
    BY <1>3, <2>1 DEF G!Refused
<1> QED
  BY <1>1, <1>2, <1>3

\* A screen that is closed has lost the cursor; nobody else has.
LEMMA LeavingLocks ==
    ASSUME NoFault, SaverAside, NEW gone \in SUBSET Proxy, ForceLeave(gone),
           clientSet' = clientSet \ gone, saverOn' = saverOn,
           gate'.wait => gate.wait
    PROVE  SaverAside' /\ LockStep
<1>1. Primary \notin gone /\ NoScreen \notin gone
  BY ServerAssumption DEF Screen
<1>2. CASE activeSaver = NoScreen
  <2>1. activeSaver' = NoScreen /\ (active' # active => active \in gone)
    BY <1>1, <1>2 DEF ForceLeave, ActiveAfterLeave, Holder
  <2> QED
    BY <2>1 DEF SaverAside, Aside, LockStep
<1>3. CASE activeSaver \in gone
  <2>1. active = Primary
    BY <1>1, <1>3 DEF SaverAside, Aside
  <2>2. activeSaver' = NoScreen /\ active' = active
    BY <1>1, <1>3, <2>1 DEF ForceLeave, ActiveAfterLeave, Holder
  <2> QED
    BY <2>2 DEF SaverAside, Aside, LockStep
<1>4. CASE activeSaver # NoScreen /\ activeSaver \notin gone
  <2>1. UNCHANGED <<activeSaver, active>>
    BY <1>4 DEF ForceLeave, ActiveAfterLeave, Holder
  <2> QED
    BY <2>1 DEF SaverAside, Aside, LockStep
<1> QED
  BY <1>2, <1>3, <1>4

LEMMA GateAfterLeaveWaits ==
    ASSUME TypeOK, NEW gone
    PROVE  GateAfterLeave(gone) \in G!Gate /\ (GateAfterLeave(gone).wait => gate.wait)
BY GateAfterLeaveType, StoppingWaits DEF TypeOK, GateAfterLeave

LEMMA ReloadWaits ==
    ASSUME NEW c, NEW g \in G!Gate
    PROVE  GateAfterOptions(c, g).wait => g.wait
<1> DEFINE g1 == IF c.delay = "absent" THEN g ELSE G!StopSwitchWait(g)
<1>1. g1 \in G!Gate /\ (g1.wait => g.wait)
  BY StopSwitchType, StoppingWaits
<1> HIDE DEF g1
<1> QED
  BY <1>1, StoppingWaits DEF GateAfterOptions, g1

LEMMA LockSteps ==
    ASSUME TypeOK, GateFollowsOptions, SaverAside, SaverExclusive,
           "hotkey" \notin Feature, Next
    PROVE  SaverAside' /\ LockStep
<1> DEFINE Goal == SaverAside' /\ LockStep
<1>1. NoFault /\ gate \in G!Gate /\ (Aside => active = Primary /\ ~gate.wait)
      /\ (activeSaver # NoScreen => saverOn)
  BY DEF Next, TypeOK, SaverAside
<1>2. ASSUME UNCHANGED <<active, activeSaver, saverOn>>, Aside => ~gate'.wait
      PROVE  Goal
  BY <1>1, <1>2 DEF SaverAside, Aside, LockStep
<1>3. ASSUME NEW why \in {"deleted", "assert", "hang"}, Fail(why)
      PROVE  Goal
  <2>1. UNCHANGED <<active, activeSaver, saverOn>> /\ ~NoFault'
    BY <1>3 DEF Fail, cursor, NoFault
  <2> QED
    BY <1>1, <2>1 DEF SaverAside, LockStep
<1>4. ASSUME ~locked, ~Aside, UNCHANGED <<activeSaver, saverOn>>
      PROVE  Goal
  BY <1>1, <1>4 DEF SaverAside, Aside, LockStep
<1>5. ASSUME InputAllowed PROVE ~Aside
  BY <1>1, <1>5 DEF InputAllowed, Aside
<1>6. CASE Motion
  <2>1. ASSUME NEW inner \in BOOLEAN, MoveOnPrimary(inner)
        PROVE  Goal
    BY <1>2, <1>5, <2>1 DEF MoveOnPrimary
  <2>2. ASSUME NEW e, NEW inner \in BOOLEAN, MoveOnSecondary(e, inner)
        PROVE  Goal
    BY <1>2, <1>3, <1>5, <2>2 DEF MoveOnSecondary
  <2>3. ASSUME InputAllowed, NEW dir, NEW lane, NEW far, NEW fails, NEW push,
               locked => push.locked, CrossEdge(dir, lane, far, push, fails)
        PROVE  Goal
    <3> DEFINE dst == MapToNeighbor(dir, lane, far)
               try == G!IsSwitchOkay(gate, dir, dst, options, push)
    <3>1. try.ok => ~locked
      BY <2>3, OkayIsUnlocked
    <3> HIDE DEF dst, try
    <3>2. CASE try.ok /\ UNCHANGED <<activeSaver, saverOn>>
      BY <1>4, <1>5, <2>3, <3>1, <3>2
    <3>3. CASE UNCHANGED <<active, activeSaver, saverOn>>
      BY <1>2, <1>5, <2>3, <3>3
    <3>4. CASE Fail("deleted") \/ Fail("hang")
      BY <1>3, <3>4
    <3> QED
      BY <2>3, <3>2, <3>3, <3>4 DEF CrossEdge, try, dst
  <2> QED
    BY <1>6, <2>1, <2>2, <2>3 DEF Motion, IsLockedToScreen
<1>7. CASE HotKey
  BY <1>7 DEF HotKey, SwitchToScreen, SwitchInDirection
<1>8. CASE Timer
  <2>1. ASSUME NEW drag, NEW fails, SwitchWaitTimeout(drag, fails)
        PROVE  Goal
    <3>1. ~Aside /\ UNCHANGED <<activeSaver, saverOn>>
      BY <1>1, <2>1 DEF SwitchWaitTimeout
    <3>2. CASE IsLockedToScreen(drag)
      BY <1>2, <2>1, <3>1, <3>2 DEF SwitchWaitTimeout
    <3>3. CASE ~IsLockedToScreen(drag)
      BY <1>4, <3>1, <3>3 DEF IsLockedToScreen
    <3> QED
      BY <3>2, <3>3
  <2>2. CASE DoubleTapExpires
    <3>1. gate'.wait = gate.wait
      BY <1>1, <2>2 DEF DoubleTapExpires, G!Gate
    <3> QED
      BY <1>1, <1>2, <2>2, <3>1 DEF DoubleTapExpires
  <2>3. ASSUME NEW p \in Proxy, ClientCloseTimeout(p)
        PROVE  Goal
    BY <1>1, <1>2, <1>3, <2>3 DEF ClientCloseTimeout, cursor
  <2> QED
    BY <1>8, <2>1, <2>2, <2>3 DEF Timer
<1>9. CASE Saver
  <2>1. CASE ScreensaverActivated
    <3>1. LockStep /\ saverOn'
      BY <2>1 DEF ScreensaverActivated, LockStep
    <3>2. CASE active = Primary
      BY <2>1, <3>1, <3>2 DEF ScreensaverActivated, SaverAside, Aside
    <3>3. CASE fault' \in {"deleted", "assert"}
      BY <3>1, <3>3 DEF SaverAside, NoFault
    <3>4. CASE active # Primary /\ SwitchScreen(Primary, gate, FALSE)
               /\ fault' \notin {"deleted", "assert"}
      <4>1. active' = Primary /\ gate' = G!StopSwitch(gate)
        BY <3>4 DEF SwitchScreen
      <4>2. ~gate'.wait
        BY <1>1, <4>1, StoppingWaits DEF GateFollowsOptions
      <4> QED
        BY <3>1, <4>1, <4>2 DEF SaverAside
    <3> QED
      BY <2>1, <3>2, <3>3, <3>4 DEF ScreensaverActivated, JumpForSaver
  <2>2. ASSUME NEW fails, ScreensaverDeactivated(fails)
        PROVE  Goal
    BY <2>2 DEF ScreensaverDeactivated, SaverAside, Aside, LockStep
  <2> QED
    BY <1>9, <2>1, <2>2 DEF Saver
<1>10. ASSUME NEW gone \in SUBSET Proxy, NEW c, CloseClients(gone, c), saverOn' = saverOn,
              gate'.wait => gate.wait
       PROVE  Goal
  BY <1>1, <1>10, LeavingLocks DEF CloseClients, RemoveClients
<1>11. CASE Connection
  <2> SUFFICES ASSUME NEW p \in Proxy, AdoptClient(p) \/ ClientDisconnected(p)
               PROVE  Goal
    BY <1>11 DEF Connection
  <2>1. CASE AdoptClient(p)
    <3>1. CASE CloseClients({p}, config)
      BY <1>10, <2>1, <3>1 DEF AdoptClient
    <3> QED
      BY <1>1, <1>2, <2>1, <3>1 DEF AdoptClient
  <2>2. CASE ClientDisconnected(p)
    <3>1. CASE Fail("deleted")
      BY <1>3, <3>1
    <3>2. CASE phase # "deleted" /\ p \in clientSet
      <4>1. /\ RemoveClients({p}, config) /\ ForceLeave({p}) /\ saverOn' = saverOn
            /\ gate' = GateAfterLeave({p})
        BY <2>2, <3>2 DEF ClientDisconnected
      <4>2. gate'.wait => gate.wait
        BY <4>1, GateAfterLeaveWaits
      <4> QED
        BY <1>1, <4>1, <4>2, LeavingLocks DEF RemoveClients
    <3>3. CASE phase # "deleted" /\ p \notin clientSet
      BY <1>1, <1>2, <2>2, <3>3 DEF ClientDisconnected, cursor
    <3> QED
      BY <2>2, <3>1, <3>2, <3>3 DEF ClientDisconnected
  <2> QED
    BY <2>1, <2>2
<1>12. CASE Control
  <2>1. CASE LockCursorToScreen
    BY <1>1, <1>2, <2>1 DEF LockCursorToScreen, cursor
  <2>2. ASSUME NEW c \in Configurations, SetConfig(c)
        PROVE  Goal
    <3>1. CASE Fail("deleted")
      BY <1>3, <3>1
    <3>3. CASE RefuseConfig(c)
      BY <1>1, <1>2, <3>3 DEF RefuseConfig, cursor
    <3>2. CASE RelayToAll /\ ~RefuseConfig(c)
      <4>1. /\ Dropped(c) \in SUBSET Proxy /\ CloseClients(Dropped(c), c)
            /\ saverOn' = saverOn
        BY <2>2, <3>2, SecondariesType DEF SetConfig
      <4>2. gate'.wait => gate.wait
        BY <2>2, <3>2, GateAfterLeaveWaits, ReloadWaits DEF SetConfig
      <4> QED
        BY <1>10, <4>1, <4>2
    <3> QED
      BY <2>2, <3>1, <3>2, <3>3 DEF SetConfig
  <2>3. ASSUME NEW next, Disconnect(next)
        PROVE  Goal
    BY <1>10, <2>3, SecondariesType, GateAfterLeaveWaits DEF Disconnect
  <2>4. CASE ForceReconnect \/ StopServer
    BY <1>3, <2>3, <2>4 DEF ForceReconnect, StopServer
  <2>5. CASE DeleteServer
    BY <1>1, <1>2, <2>5, StoppingWaits DEF DeleteServer
  <2> QED
    BY <1>12, <2>1, <2>2, <2>4, <2>5 DEF Control
<1> QED
  BY <1>6, <1>7, <1>8, <1>9, <1>11, <1>12 DEF Next

\* A locked cursor leaves a connected screen only for the screen saver, for
\* any screens, aliases and delays: the motion and the timeout of a pending
\* switch ask for the lock when they switch, and a client that goes while the
\* saver runs leaves a cursor at home where it is.
THEOREM LockAlwaysHolds ==
    ASSUME SaverExclusive, "hotkey" \notin Feature
    PROVE  Spec => LockHolds
<1>1. Init => SaverAside
  BY DEF Init, SaverAside, Aside
<1>2. TypeOK /\ GateFollowsOptions /\ SaverAside /\ [Next]_vars => SaverAside'
  <2>1. CASE UNCHANGED vars
    BY <2>1 DEF vars, cursor, SaverAside, Aside, NoFault
  <2> QED
    BY <2>1, LockSteps
<1>3. TypeOK /\ GateFollowsOptions /\ SaverAside /\ [Next]_vars
      => [locked /\ active' # active
             => active \notin clientSet' \/ saverOn' # saverOn]_vars
  BY LockSteps DEF LockStep
<1> QED
  BY <1>1, <1>2, <1>3, TypeCorrect, GateAlwaysFollows, PTL DEF Spec, LockHolds

-----------------------------------------------------------------------------
(***************************************************************************)
(* The end of the server.  The primary is listed under its own name and no *)
(* other, so that m_clients.size() == 1 says that no client is left.       *)
(***************************************************************************)
OnlyPrimary ==
    phase # "deleted" => \A n \in Name : clients[n] = Primary => n = PrimaryName

LEMMA PointerKeepsLists ==
    ASSUME Motion \/ HotKey
    PROVE  UNCHANGED <<clients, oldClients, phase, noClients>>
<1>1. CASE Motion
  <2>1. ASSUME NEW inner, MoveOnPrimary(inner)
        PROVE  UNCHANGED <<clients, oldClients, phase, noClients>>
    BY <2>1 DEF MoveOnPrimary, objects, server
  <2>2. ASSUME NEW e, NEW inner, MoveOnSecondary(e, inner)
        PROVE  UNCHANGED <<clients, oldClients, phase, noClients>>
    BY <2>2 DEF MoveOnSecondary, Fail, objects, server
  <2>3. ASSUME NEW dir, NEW lane, NEW far, NEW push, NEW fails,
               CrossEdge(dir, lane, far, push, fails)
        PROVE  UNCHANGED <<clients, oldClients, phase, noClients>>
    BY <2>3 DEF CrossEdge, Fail, objects, server
  <2> QED
    BY <1>1, <2>1, <2>2, <2>3 DEF Motion
<1>2. ASSUME NEW n, NEW fails, SwitchToScreen(n, fails)
      PROVE  UNCHANGED <<clients, oldClients, phase, noClients>>
  BY <1>2 DEF SwitchToScreen, objects, server
<1>3. ASSUME NEW dir, NEW lane, NEW fails, SwitchInDirection(dir, lane, fails)
      PROVE  UNCHANGED <<clients, oldClients, phase, noClients>>
  BY <1>3 DEF SwitchInDirection, Fail, objects, server
<1> QED
  BY <1>1, <1>2, <1>3 DEF HotKey

LEMMA ListedOnce ==
    ASSUME TypeOK, OnlyPrimary, Next
    PROVE  OnlyPrimary'
<1> SUFFICES ASSUME phase' # "deleted" PROVE OnlyPrimary'
  BY DEF OnlyPrimary
<1>1. Primary # NoScreen /\ \A p \in Proxy : p # Primary
  BY ServerAssumption DEF Screen
<1>2. ASSUME \A n \in Name : clients'[n] = Primary => clients[n] = Primary,
             phase # "deleted"
      PROVE  OnlyPrimary'
  BY <1>2 DEF OnlyPrimary
<1>3. ASSUME UNCHANGED <<clients, phase>> PROVE OnlyPrimary'
  BY <1>3 DEF OnlyPrimary
<1>4. ASSUME NEW gone, NEW c, RemoveClients(gone, c), phase # "deleted" PROVE OnlyPrimary'
  BY <1>1, <1>2, <1>4 DEF RemoveClients, Unlisted
<1>5. CASE Motion \/ HotKey
  BY <1>3, <1>5, PointerKeepsLists
<1>6. CASE Timer \/ Saver
  BY <1>3, <1>6
     DEF Timer, SwitchWaitTimeout, DoubleTapExpires, ClientCloseTimeout, Saver,
         ScreensaverActivated, ScreensaverDeactivated, Fail, objects, server
<1>7. ASSUME NEW p \in Proxy, AdoptClient(p) PROVE OnlyPrimary'
  <2> DEFINE name == config.canon[RawNameOf[p]]
  <2>1. CASE CloseClients({p}, config)
    BY <1>4, <1>7, <2>1 DEF AdoptClient, CloseClients
  <2>2. CASE clients' = [clients EXCEPT ![name] = p]
    <3>1. \A n \in Name : clients'[n] = clients[n] \/ clients'[n] = p
      BY <2>2 DEF TypeOK
    <3> QED
      BY <1>1, <1>2, <1>7, <3>1 DEF AdoptClient
  <2> QED
    BY <1>7, <2>1, <2>2 DEF AdoptClient
<1>8. ASSUME NEW p \in Proxy, ClientDisconnected(p) PROVE OnlyPrimary'
  BY <1>3, <1>4, <1>8 DEF ClientDisconnected, Fail, objects, server
<1>9. CASE Control
  <2>1. ASSUME NEW c \in Configurations, SetConfig(c) PROVE OnlyPrimary'
    BY <1>3, <1>4, <2>1 DEF SetConfig, RefuseConfig, CloseClients, Fail, objects, server
  <2>2. CASE ForceReconnect \/ StopServer
    BY <1>3, <1>4, <2>2
       DEF ForceReconnect, StopServer, Disconnect, CloseClients, Fail, objects, server
  <2> QED
    BY <1>3, <1>9, <2>1, <2>2 DEF Control, LockCursorToScreen, DeleteServer, objects, server
<1> QED
  BY <1>5, <1>6, <1>7, <1>8, <1>9 DEF Next, Connection

LEMMA NobodyLeft ==
    ASSUME CursorInv', OnlyPrimary', phase' # "deleted", Secondaries' = {}
    PROVE  Cardinality({n \in Name : clients'[n] # NoScreen}) = 1
<1>1. PrimaryName \in Name /\ clients'[PrimaryName] = Primary /\ Primary # NoScreen
  BY ServerAssumption DEF CursorInv, CursorParts, IndexesMirror, Screen
<1>2. {n \in Name : clients'[n] # NoScreen} = {PrimaryName}
  BY <1>1 DEF Secondaries, ConnectedNames, OnlyPrimary
<1> QED
  BY <1>2, FS_Singleton

LEMMA CloseStep ==
    ASSUME TypeOK, CursorInv, CloseIsAnnounced,
           TypeOK', CursorInv', OnlyPrimary', Next
    PROVE  CloseIsAnnounced'
<1> SUFFICES ASSUME phase' = "closing", Secondaries' = {}, oldClients' = {}
             PROVE  noClients'
  BY DEF CloseIsAnnounced
<1>1. ASSUME UNCHANGED <<clients, oldClients, phase, noClients>> PROVE noClients'
  BY <1>1 DEF CloseIsAnnounced, Secondaries, ConnectedNames
<1>2. ASSUME Announce, UNCHANGED phase PROVE noClients'
  <2>1. AllGone
    BY NobodyLeft DEF AllGone
  <2> QED
    BY <1>2, <2>1 DEF Announce
<1>3. CASE Motion \/ HotKey
  BY <1>1, <1>3, PointerKeepsLists
<1>4. CASE Timer \/ Saver
  BY <1>1, <1>2, <1>4
     DEF Timer, SwitchWaitTimeout, DoubleTapExpires, ClientCloseTimeout, Saver,
         ScreensaverActivated, ScreensaverDeactivated, Fail, objects, server
<1>5. CASE Connection
  BY <1>1, <1>2, <1>5
     DEF Connection, AdoptClient, ClientDisconnected, Fail, objects, server
<1>6. CASE Control
  <2>1. ASSUME NEW c \in Configurations, SetConfig(c) PROVE noClients'
    <3>1. CASE Fail("deleted")
      BY <1>1, <3>1 DEF Fail, objects, server
    <3>3. CASE RefuseConfig(c)
      BY <1>1, <3>3 DEF RefuseConfig, objects, server
    <3>2. CASE CloseClients(Dropped(c), c) /\ UNCHANGED server
      <4>1. Dropped(c) = {} /\ UNCHANGED oldClients
        BY <3>2 DEF CloseClients
      <4>2. UNCHANGED clients
        BY <3>2, <4>1 DEF CloseClients, RemoveClients, Unlisted, TypeOK
      <4> QED
        BY <1>1, <3>2, <4>1, <4>2 DEF server
    <3> QED
      BY <2>1, <3>1, <3>2, <3>3 DEF SetConfig
  <2>2. ASSUME NEW next, Disconnect(next) PROVE noClients'
    <3>1. next = "closing" /\ oldClients = {} /\ Secondaries = {}
      BY <2>2 DEF Disconnect, CloseClients
    <3> QED
      BY <2>2, <3>1 DEF Disconnect
  <2>3. CASE ForceReconnect \/ StopServer
    BY <1>1, <2>2, <2>3 DEF ForceReconnect, StopServer, Fail, objects, server
  <2>4. CASE LockCursorToScreen
    BY <1>1, <2>4 DEF LockCursorToScreen, objects, server
  <2>5. CASE DeleteServer
    BY <2>5 DEF DeleteServer
  <2> QED
    BY <1>6, <2>1, <2>3, <2>4, <2>5 DEF Control
<1> QED
  BY <1>3, <1>4, <1>5, <1>6 DEF Next

\* When the server closes and nobody is left to wait for, closeServer has been
\* told: the one who leaves last says so, whether it disconnects or its five
\* seconds pass, and if nobody was there to leave then disconnect does.
THEOREM CloseAlwaysAnnounced ==
    ASSUME Orderly
    PROVE  Spec => []CloseIsAnnounced
<1>1. Init => OnlyPrimary /\ CloseIsAnnounced
  BY ServerAssumption DEF Init, OnlyPrimary, CloseIsAnnounced, Screen
<1>2. TypeOK /\ OnlyPrimary /\ [Next]_vars => OnlyPrimary'
  <2>1. CASE UNCHANGED vars
    BY <2>1 DEF vars, objects, server, OnlyPrimary
  <2> QED
    BY <2>1, ListedOnce
<1>3. /\ TypeOK /\ CursorInv /\ CloseIsAnnounced /\ [Next]_vars
      /\ TypeOK' /\ CursorInv' /\ OnlyPrimary'
      => CloseIsAnnounced'
  <2>1. CASE UNCHANGED vars
    BY <2>1 DEF vars, objects, server, CloseIsAnnounced, Secondaries, ConnectedNames
  <2> QED
    BY <2>1, CloseStep
<1> QED
  BY <1>1, <1>2, <1>3, TypeCorrect, CursorInvariant, PTL DEF Spec

=============================================================================
