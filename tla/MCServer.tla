----------------------------- MODULE MCServer ------------------------------
(***************************************************************************)
(* Instances of Server for TLC: a primary, at most three connections, two  *)
(* of them under the same name, and the configurations that the runs use.  *)
(***************************************************************************)
EXTENDS Server

CONSTANTS p1, p2, p3

Map(dirs, f(_, _)) ==
    [x \in Name \X dirs \X Lane |->
        IF f(x[1], x[2]) = NoName THEN NoCell ELSE <<f(x[1], x[2]), x[3]>>]

Plain(link, canon) ==
    [link |-> link, canon |-> canon, delay |-> "off", doubleTap |-> "off",
     relative |-> "off", modifier |-> FALSE]

Same == [r \in RawName |-> IF r \in Name THEN r ELSE NoName]

\* server - a - b in a row, from left to right.
RowNeighbor(n, d) ==
    IF d = "kRight"
    THEN IF n = "server" THEN "a" ELSE IF n = "a" THEN "b" ELSE NoName
    ELSE IF n = "b" THEN "a" ELSE IF n = "a" THEN "server" ELSE NoName

Row == Plain(Map(Direction, RowNeighbor), Same)

MCRawNameOf == [p \in Proxy |-> IF p = p3 THEN "b" ELSE "a"]

\* The same row with a dropped from the file, b next to the server.
ShortNeighbor(n, d) ==
    IF d = "kRight" THEN IF n = "server" THEN "b" ELSE NoName
    ELSE IF n = "b" THEN "server" ELSE NoName

Without(canon, raw) == [canon EXCEPT ![raw] = NoName]

ShortRow == Plain(Map(Direction, ShortNeighbor), Without(Same, "a"))

\* A file without the server: it is read, and then refused.
PairNeighbor(n, d) ==
    IF n = "a" /\ d = "kRight" THEN "b"
    ELSE IF n = "b" /\ d = "kLeft" THEN "a" ELSE NoName

Headless == Plain(Map(Direction, PairNeighbor), Without(Same, "server"))

\* a and b lead to each other on the right: a circle without the server.
CircleNeighbor(n, d) ==
    IF d = "kRight" THEN IF n = "a" THEN "b" ELSE "a"
    ELSE RowNeighbor(n, d)

\* p1 announces the alias a2 of a; a reload drops a and its alias.
AliasOf == [r \in RawName |-> IF r = "a2" THEN "a" ELSE r]

Delayed(c) == [c EXCEPT !.delay = "on"]
DoubleTapped(c) == [c EXCEPT !.doubleTap = "on"]
Guarded(c) == [c EXCEPT !.modifier = TRUE]
Silent(c) == [c EXCEPT !.delay = "absent", !.doubleTap = "absent"]

RowOnly == {Row}
Reloads == {Row, ShortRow, Headless}
WithAlias == Plain(Map(Direction, RowNeighbor), AliasOf)
GateConfigurations ==
    {Row, Delayed(WithAlias), DoubleTapped(Row), DoubleTapped(Delayed(Row)),
     Guarded(Silent(Row)), [Delayed(Row) EXCEPT !.relative = "on"],
     Plain(Map(Direction, CircleNeighbor), AliasOf)}
CircleOnly == {Plain(Map(Direction, CircleNeighbor), Same)}
DelayedOnly == {Delayed(Row)}
Aliases == {WithAlias, Plain(Map(Direction, ShortNeighbor), Without(Same, "a"))}
AliasRawNameOf == [p \in Proxy |-> IF p = p1 THEN "a2" ELSE "b"]
=============================================================================
