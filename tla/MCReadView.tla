----------------------------- MODULE MCReadView -----------------------------
(***************************************************************************)
(* The two halves of read-view.ts.  A script of a run either reads the     *)
(* served root or writes to its overlay here: no state of one half is      *)
(* state of the other (the budgets have counters of their own), so that    *)
(* the half a run does not use stays as it began.                          *)
(*                                                                         *)
(* Three reads, two at a time, of a file of up to two chunks, of which the *)
(* run may read three chunks in all; one edit of the host.  A path in the  *)
(* served root and one below a directory of it, files of up to two units,  *)
(* three units and two entries to write, of the three there could be; two  *)
(* edits of the host, one before a call and one after it.                  *)
(***************************************************************************)
EXTENDS ReadBudget, OverlayView, TLC

CONSTANTS top, inner, dir

VARIABLE half    \* the half the script uses

MCSymmetry == Permutations(Reads) \cup Permutations(Files)
MCAbove == [p \in Paths |-> IF p = inner THEN {dir} ELSE {}]

NothingThere == [p \in Paths |-> Nothing]
NothingToRead == [i \in Inodes |-> 0]

MCInit ==
  /\ Init
  /\ OverlayInit
  /\ \/ half = "reads" /\ served = NothingThere
     \/ half = "writes" /\ size = NothingToRead

MCNext ==
  /\ \/ half = "reads" /\ Next /\ UNCHANGED overlayVars
     \/ half = "writes" /\ OverlayNext /\ UNCHANGED vars
  /\ UNCHANGED half

MCSpec == MCInit /\ [][MCNext]_<<half, vars, overlayVars>>
=============================================================================
