------------------------------- MODULE MCProgress -------------------------------
(* A table of a bot and two humans; a second bot may take over a seat. *)
EXTENDS RoomProgress
CONSTANTS h1, h2, b1, b2
Orders == {<<b1, h1, h2>>}
===============================================================================
