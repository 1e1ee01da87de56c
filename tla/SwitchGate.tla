----------------------------- MODULE SwitchGate -----------------------------
(***************************************************************************)
(* How CServer decides, when the cursor pushes against an edge, whether to *)
(* switch now, later or never: the switch delay, the double tap, locked    *)
(* corners, the lock and the modifiers.  The fields m_switchScreen,        *)
(* m_switchDir, m_switchWaitTimer and m_switchTwoTap* are one record, and   *)
(* the private methods are operators on it.                                *)
(***************************************************************************)
CONSTANTS Screen, NoScreen, Edges

Gate ==
    [screen : Screen \cup {NoScreen},   \* m_switchScreen
     dir    : Edges \cup {"none"},      \* m_switchDir
     wait   : BOOLEAN,                  \* m_switchWaitTimer # NULL
     tap    : {"off", "engaged", "armed"},
     late   : BOOLEAN]                  \* the tap timer is past its delay

GateOptions == [wait : BOOLEAN, tap : BOOLEAN, relative : BOOLEAN,
                modifier : BOOLEAN]

Idle == [screen |-> NoScreen, dir |-> "none", wait |-> FALSE,
         tap |-> "off", late |-> FALSE]

StopSwitchWait(g) == [g EXCEPT !.wait = FALSE]

StopSwitchTwoTap(g) == [g EXCEPT !.tap = "off", !.late = FALSE]

StopSwitch(g) ==
    IF g.screen = NoScreen THEN g
    ELSE [StopSwitchWait(StopSwitchTwoTap(g)) EXCEPT
              !.screen = NoScreen, !.dir = "none"]

StartSwitchWait(g) == [g EXCEPT !.wait = TRUE]

StartSwitchTwoTap(g) == [g EXCEPT !.tap = "engaged", !.late = FALSE]

\* armSwitchTwoTap; "inner" stands for: outside the tap zone and both of the
\* last two motions away from the edge that was tapped.
ArmSwitchTwoTap(g, inner) ==
    IF g.tap # "off" /\ g.late THEN StopSwitchTwoTap(g)
    ELSE IF g.tap = "engaged" /\ inner THEN [g EXCEPT !.tap = "armed"]
    ELSE g

NoSwitch(g, inner) == StopSwitchWait(ArmSwitchTwoTap(g, inner))

(***************************************************************************)
(* isSwitchOkay: the cursor pushes in direction dir towards dst.  push has *)
(* the fields corner (in a locked corner), locked (isLockedToScreen) and   *)
(* modifier (the needed modifiers are on).  The result says whether to     *)
(* switch now, and the new gate.                                           *)
(***************************************************************************)
Push == [corner : BOOLEAN, locked : BOOLEAN, modifier : BOOLEAN]

IsNewDirection(g, dir) == dir # g.dir

RememberTarget(g, dir, dst) ==
    IF IsNewDirection(g, dir) \/ g.screen = NoScreen
    THEN [g EXCEPT !.dir = dir, !.screen = dst] ELSE g

SecondTap(g, dir, opt) ==
    /\ opt.tap
    /\ ~IsNewDirection(g, dir)
    /\ g.tap = "armed" /\ ~g.late

\* Neither the double tap nor the delay lets the switch happen now.
MustWait(g, dir, opt) == (opt.tap \/ opt.wait) /\ ~SecondTap(g, dir, opt)

Remember(g, dir, dst, opt) ==
    LET g1 == RememberTarget(g, dir, dst)
        g2 == IF opt.tap /\ ~SecondTap(g, dir, opt)
              THEN StartSwitchTwoTap(g1) ELSE g1
    IN  IF /\ opt.wait /\ ~SecondTap(g, dir, opt)
           /\ IsNewDirection(g, dir) \/ ~g.wait
        THEN StartSwitchWait(g2) ELSE g2

Refused(g, dir, opt, push) ==
    \/ push.corner
    \/ /\ ~MustWait(g, dir, opt)
       /\ push.locked \/ (opt.modifier /\ ~push.modifier)

IsSwitchOkay(g, dir, dst, opt, push) ==
    IF dst = NoScreen THEN [ok |-> FALSE, gate |-> StopSwitch(g)]
    ELSE LET after == Remember(g, dir, dst, opt)
         IN  IF Refused(g, dir, opt, push)
             THEN [ok |-> FALSE, gate |-> StopSwitch(after)]
             ELSE [ok |-> ~MustWait(g, dir, opt), gate |-> after]
=============================================================================
