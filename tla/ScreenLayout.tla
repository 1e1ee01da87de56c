---------------------------- MODULE ScreenLayout ----------------------------
(***************************************************************************)
(* The part of a server configuration that the cursor's path depends on    *)
(* (CConfig): which screen names exist, which raw client names are aliases *)
(* of them, and what lies beyond each edge of each screen.                 *)
(*                                                                         *)
(* An edge may be shared out among several neighbours by intervals of its  *)
(* length.  The fraction along an edge, a float in the code, is abstracted *)
(* to a lane; a link takes a lane of one edge to a lane of a neighbour.    *)
(***************************************************************************)
EXTENDS Naturals, FiniteSets

CONSTANTS
    Name,       \* canonical screen names, the primary's among them
    RawName,    \* names clients announce: canonical names and aliases
    NoName,     \* the empty CString
    Lane,       \* positions along an edge
    Direction   \* the edges in use, a subset of kLeft .. kBottom

ASSUME LayoutAssumption ==
    /\ Name \subseteq RawName
    /\ NoName \notin RawName
    /\ IsFiniteSet(Name) /\ IsFiniteSet(Lane)
    /\ Direction \subseteq {"kLeft", "kRight", "kTop", "kBottom"}

Cell == Name \X Lane        \* a place on the edge of a screen
NoCell == <<NoName>>        \* nothing is linked there

Presence == {"absent", "off", "on"}   \* a global option in the file, if any

\* What a configuration file says, as far as CServer reads it.
Configuration ==
    [link     : [Name \X Direction \X Lane -> Cell \cup {NoCell}],
     canon    : [RawName -> Name \cup {NoName}],
     delay    : Presence,      \* switchDelay
     doubleTap: Presence,      \* switchDoubleTap
     relative : Presence,      \* relativeMouseMoves
     modifier : BOOLEAN]       \* switchNeedsShift / Control / Alt

IsScreen(c, raw) == c.canon[raw] # NoName

IsCanonicalName(c, name) == c.canon[name] = name

\* CServer::getName: the canonical name now, or the raw one if it has none.
NameNow(c, raw) == IF c.canon[raw] = NoName THEN raw ELSE c.canon[raw]

(***************************************************************************)
(* CServer::getNeighbor follows links in one direction, past every screen  *)
(* that is not connected.  After as many hops as there are cells it is     *)
(* either at a connected screen, off the map, or going round in a circle.  *)
(***************************************************************************)
Hops == 0 .. Cardinality(Cell)

Stops(cell, connected) == cell = NoCell \/ cell[1] \in connected

SearchPath(c, from, dir, connected) ==
    LET path[k \in Hops] ==
            IF k = 0 THEN c.link[from[1], dir, from[2]]
            ELSE LET cell == path[k-1]
                 IN  IF Stops(cell, connected)
                     THEN cell ELSE c.link[cell[1], dir, cell[2]]
    IN  path

SearchEnd(c, from, dir, connected) ==
    SearchPath(c, from, dir, connected)[Cardinality(Cell)]

\* The search for a neighbour never ends.
SearchHangs(c, from, dir, connected) ==
    ~Stops(SearchEnd(c, from, dir, connected), connected)

\* The cell the search finds, NoCell if there is no neighbour.
NeighborCell(c, from, dir, connected) ==
    LET end == SearchEnd(c, from, dir, connected)
    IN  IF end \in Cell /\ end[1] \in connected THEN end ELSE NoCell

(***************************************************************************)
(* CServer::mapToNeighbor goes on to the next neighbour while the motion   *)
(* overshoots the screen it found, and stays on the last one there is.     *)
(* Overshooting is an input; one extra screen stands for any number.       *)
(***************************************************************************)
LandingCell(c, from, dir, connected, overshoots) ==
    LET first == NeighborCell(c, from, dir, connected)
        next  == NeighborCell(c, first, dir, connected)
    IN  IF first # NoCell /\ overshoots /\ next # NoCell THEN next ELSE first

\* The search on from the screen that it found may not end either.
LandingHangs(c, from, dir, connected, overshoots) ==
    LET first == NeighborCell(c, from, dir, connected)
    IN  \/ SearchHangs(c, from, dir, connected)
        \/ overshoots /\ first # NoCell /\ SearchHangs(c, first, dir, connected)
=============================================================================
