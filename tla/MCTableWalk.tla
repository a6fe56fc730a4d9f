---------------------------- MODULE MCTableWalk ----------------------------
(***************************************************************************)
(* Instances of TableWalk for TLC: the two columns of a forwarding table,  *)
(* port and status, read in two contexts at once.                          *)
(***************************************************************************)
EXTENDS TableWalk

PortAndStatus == <<1, 2>>

\* Both columns whole, a hole in the second, no first one.
SmallTables == {<<{1, 2}, {1, 2}>>, <<{1, 2}, {2}>>, <<{}, {1, 2}>>}

\* Two forwarding tables, or one beside a lookup table, which is not capped.
BothOrOne == {{1, 2}, {1}}
=============================================================================
