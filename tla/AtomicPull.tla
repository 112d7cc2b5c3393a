----------------------------- MODULE AtomicPull -----------------------------
(***************************************************************************)
(* What one `dumbridge pull' promises about its destination path, whatever *)
(* happens to the source, the connection and the two processes:            *)
(*                                                                         *)
(*   - the destination appears in one step, whole, and holds exactly the   *)
(*     content the bridge planned;                                         *)
(*   - it appears only after the bridge verified that its source still is  *)
(*     what was planned;                                                   *)
(*   - a destination somebody else made is never replaced;                 *)
(*   - success is reported only for a destination that was published.      *)
(*                                                                         *)
(* The converse of the last line is not promised: a deadline or a Ctrl-C   *)
(* that strikes between the publication and the report makes the client    *)
(* report a failure although the destination is there.                     *)
(***************************************************************************)
EXTENDS PullWire

VARIABLES
  manifest,   \* what the bridge planned
  verified,   \* the bridge re-checked its source after streaming it
  dest,       \* the destination path: its state and the files below it
  result      \* what the pull reported

abstractVars == <<manifest, verified, dest, result>>

\* The content a faithful copy of the manifest m has, file by file.
PlannedContent(m) ==
  [i \in 1..Len(m) |-> [k \in 1..m[i] |-> "planned"]]

Absent  == [state |-> "absent", files |-> << >>]
Foreign == [state |-> "foreign", files |-> << >>]

Init ==
  /\ manifest \in Manifest
  /\ verified = FALSE
  /\ dest \in {Absent, Foreign}
  /\ result = "none"

VerifySource ==
  /\ verified' = TRUE
  /\ UNCHANGED <<manifest, dest, result>>

\* Another program creates something at the destination path.
Interfere ==
  /\ dest = Absent
  /\ dest' = Foreign
  /\ UNCHANGED <<manifest, verified, result>>

Publish ==
  /\ verified
  /\ result = "none"
  /\ dest = Absent
  /\ dest' = [state |-> "published", files |-> PlannedContent(manifest)]
  /\ UNCHANGED <<manifest, verified, result>>

Succeed ==
  /\ result = "none"
  /\ dest.state = "published"
  /\ result' = "success"
  /\ UNCHANGED <<manifest, verified, dest>>

Fail ==
  /\ result = "none"
  /\ result' = "failure"
  /\ UNCHANGED <<manifest, verified, dest>>

Next == VerifySource \/ Interfere \/ Publish \/ Succeed \/ Fail

Spec == Init /\ [][Next]_abstractVars
=============================================================================
