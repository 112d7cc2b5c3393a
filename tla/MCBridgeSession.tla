-------------------------- MODULE MCBridgeSession --------------------------
(***************************************************************************)
(* Two commands at two workers, or one command that may connect twice.  A  *)
(* window of one frame makes the request block.                            *)
(***************************************************************************)
EXTENDS BridgeSession, TLC

CONSTANTS c1, c2

TwoClients == {c1, c2}
OneClient == {c1}
Both == {"run", "pull"}
Symmetry == Permutations(TwoClients)

MCOutputs == {<< >>, <<"stdout", "stderr">>}
OneOutput == {<<"stdout">>}
=============================================================================
