------------------------- MODULE MCDetachedServe -------------------------
(***************************************************************************)
(* A root, two pids and two commands that run side by side; restarts of    *)
(* the machine that take half the slack, so that a record may be within it *)
(* or beyond it; one pid taken by an unrelated process.                    *)
(***************************************************************************)
EXTENDS DetachedServe, TLC

CONSTANTS p1, p2, c1, c2, c3

MCPids == {p1, p2}
TwoCommands == {c1, c2}
ThreeCommands == {c1, c2, c3}
AllOperations == {"detach", "stop", "list"}

Symmetry == Permutations(MCPids) \cup Permutations(ThreeCommands)
=============================================================================
