--------------------------- MODULE MCMaterialize ---------------------------
(***************************************************************************)
(* Two pulls to the same destination, two directories deep: one receives a *)
(* directory with a directory and a file in it, the other a file.          *)
(***************************************************************************)
EXTENDS Materialize

CONSTANTS c1, c2

MCNames == {"a", "b", "x", "s", "f", "payload"}

MCDest == [c \in Clients |-> <<"a", "b", "x">>]

MCManifest ==
  [c \in Clients |->
     IF c = c1
     THEN [directory |-> TRUE,
           entries |-> <<[directory |-> TRUE, path |-> <<"s">>],
                         [directory |-> FALSE, path |-> <<"s", "f">>]>>]
     ELSE [directory |-> FALSE,
           entries |-> <<[directory |-> FALSE, path |-> << >>]>>]]
=============================================================================
