-------------------------- MODULE StampedSnapshot --------------------------
(***************************************************************************)
(* What a prepared pull promises about a tree that nobody locks: objects   *)
(* that others change at any moment are looked at one after the other,     *)
(* each with a stamp, and afterwards the stamps are compared again.  When  *)
(* none differs, everything that was seen is the content of one instant.   *)
(* PullSource implements this module.                                      *)
(***************************************************************************)
EXTENDS Naturals

CONSTANTS Objects,      \* what is looked at
          Values,       \* what can be seen of one that exists
          Absent        \* the value of an object that does not exist

VARIABLES value,        \* what each object is at this moment
          stamp,        \* its stamp; 0 for an object that does not exist
          clock,        \* no stamp is beyond it
          fine,         \* the host gives every change a stamp of its own
          copy,         \* what was seen of each object ...
          copied,       \* ... and its stamp at that moment
          observed,     \* the objects seen
          checked,      \* those whose stamp was compared again
          began,        \* what every object was when the comparison began
          stage         \* "observe", "check", "confirmed" or "failed"

world == <<value, stamp, clock, fine>>
vars == <<value, stamp, clock, fine, copy, copied, observed, checked, began, stage>>

Shown == Values \cup {Absent}
Nothing == [o \in Objects |-> Absent]

Init ==
  /\ value \in [Objects -> Shown]
  /\ stamp \in [Objects -> Nat]
  /\ clock \in Nat
  /\ \A o \in Objects : stamp[o] <= clock /\ (stamp[o] = 0 <=> value[o] = Absent)
  /\ fine \in BOOLEAN
  /\ copy = Nothing /\ copied = [o \in Objects |-> 0]
  /\ observed = {} /\ checked = {}
  /\ began = Nothing
  /\ stage = "observe"

\* Others change any of the objects at once.
Change ==
  /\ value' \in [Objects -> Shown]
  /\ stamp' \in [Objects -> Nat]
  /\ clock' \in Nat /\ clock <= clock'
  /\ \A o \in Objects :
       /\ stamp'[o] <= clock'
       /\ stamp'[o] = 0 <=> value'[o] = Absent
       /\ \/ stamp'[o] = stamp[o] /\ (fine => value'[o] = value[o])
          \/ stamp'[o] > clock
          \/ stamp'[o] = 0
  /\ UNCHANGED <<fine, copy, copied, observed, checked, began, stage>>

\* An object is seen; where stamps are coarse it may be seen half changed.
Observe(o) ==
  /\ stage = "observe"
  /\ stamp[o] # 0
  /\ copied' = [copied EXCEPT ![o] = stamp[o]]
  /\ copy' \in [Objects -> Shown]
  /\ \A other \in Objects \ {o} : copy'[other] = copy[other]
  /\ fine => copy'[o] = value[o]
  /\ observed' = observed \cup {o}
  /\ UNCHANGED <<checked, began, stage>> /\ UNCHANGED world

Begin ==
  /\ stage = "observe"
  /\ stage' = "check"
  /\ began' = value
  /\ UNCHANGED <<copy, copied, observed, checked>> /\ UNCHANGED world

Check(o) ==
  /\ stage = "check"
  /\ o \in observed
  /\ stamp[o] = copied[o]
  /\ checked' = checked \cup {o}
  /\ UNCHANGED <<copy, copied, observed, began, stage>> /\ UNCHANGED world

Confirm ==
  /\ stage = "check"
  /\ checked = observed
  /\ stage' = "confirmed"
  /\ UNCHANGED <<copy, copied, observed, checked, began>> /\ UNCHANGED world

\* What was seen is dropped.
Fail ==
  /\ stage \in {"observe", "check"}
  /\ stage' = "failed"
  /\ copy' = Nothing /\ copied' = [o \in Objects |-> 0]
  /\ observed' = {} /\ checked' = {}
  /\ UNCHANGED began /\ UNCHANGED world

Next == Change \/ Begin \/ Confirm \/ Fail \/ \E o \in Objects : Observe(o) \/ Check(o)

Spec == Init /\ [][Next]_vars

(***************************************************************************)
(* Where every change has a stamp of its own, a confirmed observation is   *)
(* what the objects were, all at once, when the comparison began.          *)
(***************************************************************************)
IsSnapshot ==
  fine /\ stage = "confirmed" => \A o \in observed : copy[o] = began[o]
=============================================================================
