-------------------------------- MODULE MCRooms -------------------------------
\* Rooms with two browsers, one of them with two tabs.
EXTENDS Rooms

CONSTANTS x, y, b, x1, x2, y1

\* Browser x has two connections.
TwoTabs == [s \in Sockets |-> IF s \in {x1, x2} THEN x ELSE y]
===============================================================================
