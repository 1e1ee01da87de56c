---------------------------- MODULE CursorOwner ----------------------------
(***************************************************************************)
(* What CServer promises about the cursor: there is a set of connected     *)
(* screens, the primary always among them, and exactly one of them has the *)
(* cursor.  The cursor moves to a connected screen while the set stays as  *)
(* it is; a screen that goes away hands the cursor, if it has it, to the   *)
(* primary, and nothing else about a coming or going screen moves it.      *)
(***************************************************************************)
CONSTANTS Proxy, Primary

VARIABLES screens, owner

Init == screens = {Primary} /\ owner = Primary

Move ==
    /\ owner' \in screens
    /\ UNCHANGED screens

Connect(s) ==
    /\ s \notin screens
    /\ screens' = screens \cup {s}
    /\ UNCHANGED owner

Disconnect(gone) ==
    /\ screens' = screens \ gone
    /\ owner' = IF owner \in gone THEN Primary ELSE owner

Next ==
    \/ Move
    \/ \E s \in Proxy : Connect(s)
    \/ \E gone \in SUBSET Proxy : Disconnect(gone)

Spec == Init /\ [][Next]_<<screens, owner>>
=============================================================================
