--------------------------- MODULE MCPullTransfer ---------------------------
(***************************************************************************)
(* Small instances of PullTransfer: no file at all, a file of two chunks,  *)
(* and two files of which the first or the last is empty.                  *)
(***************************************************************************)
EXTENDS PullTransfer

MCManifests == {<< >>, <<2>>, <<1, 0>>, <<0, 1>>}
=============================================================================
