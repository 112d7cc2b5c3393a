---------------------------- MODULE Materialize ----------------------------
(***************************************************************************)
(* How pulls of one machine make their destinations: materialize.ts and    *)
(* atomic-publish.ts, one step per call to the file system.  PullTransfer  *)
(* follows one pull and sees its destination as one variable; here several *)
(* pulls (separate `dumbridge pull' processes) and other programs work on  *)
(* the same tree, and every call of one may fall between two calls of      *)
(* another:                                                                *)
(*                                                                         *)
(*   inspect   lstat of the destination                                    *)
(*   find      findMissingParents, one lstat per ancestor, upwards         *)
(*   make      createMissingParents, one mkdir per ancestor, downwards     *)
(*   check     ... its lstat of a parent somebody else made meanwhile      *)
(*   temp      mkdtemp of the stage beside the destination                 *)
(*   payload   populateStage: the staged directory                         *)
(*   entry     ... the directory of the next entry, or the commit          *)
(*   write     ... the file of that entry                                  *)
(*   unstage   rm -r of the stage                                          *)
(*   rmdirs    removeEmptyParents, one rmdir per parent made, upwards      *)
(*                                                                         *)
(* Names are not followed character by character: a path is the sequence   *)
(* of its components below a directory that always exists, << >>.  Other   *)
(* programs make files and directories in the tree and remove none.        *)
(***************************************************************************)
EXTENDS Naturals, Sequences, FiniteSets

CONSTANTS
  Clients,       \* the pulls; each stands for the name mkdtemp gives its stage
  Names,         \* the names in destinations and manifests
  Dest,          \* the destination of each pull
  Manifest,      \* what each pull receives: a directory or not, the entries
  Other,         \* every other program
  MaxFaults,     \* bound: calls that fail for a reason of the host's own
  MaxOutside     \* bound: files and directories other programs make

Parent(p) == SubSeq(p, 1, Len(p) - 1)
Below(p, q) == Len(p) =< Len(q) /\ SubSeq(q, 1, Len(p)) = p  \* q is p or in it

ASSUME DestAssumption ==
  Dest \in [Clients -> Seq(Names)] /\ \A c \in Clients : Len(Dest[c]) > 0

ASSUME ManifestAssumption ==
  \A c \in Clients :
    /\ Manifest[c].directory \in BOOLEAN
    /\ Manifest[c].entries \in Seq([directory : BOOLEAN, path : Seq(Names)])

\* mkdtemp makes names that nothing else has.
ASSUME NamesAssumption ==
  "payload" \in Names /\ Clients \cap Names = {} /\ Other \notin Clients

ASSUME BoundAssumption == MaxFaults \in Nat /\ MaxOutside \in Nat

\* Every prefix of a destination: its ancestors and the destination itself.
TreePaths == UNION {{SubSeq(Dest[c], 1, n) : n \in 1..Len(Dest[c])} : c \in Clients}

\* mkdtemp gives every pull a name of its own in its destination's directory.
Stage(c) == Append(Parent(Dest[c]), c)
Payload(c) == Append(Stage(c), "payload")
Entries(c) == Manifest[c].entries
Target(c, i) == Payload(c) \o Entries(c)[i].path

Root == << >>
NoCall == [path |-> Root, deep |-> FALSE]
Ended == {"success", "failure"}

VARIABLES
  node,        \* what is in the tree: path -> kind, and who made it
  pc,          \* the step of each pull
  missing,     \* findMissingParents: ancestors it found missing, top first
  created,     \* createMissingParents: those this pull made itself
  at,          \* populateStage: the entry it is at
  published,   \* the pull's commit moved its payload to the destination
  cancelled,   \* the pull was interrupted
  late,        \* a mkdir issued before the interruption, still under way
  unclean,     \* pulls whose clean-up failed, or was followed by a late mkdir
  faults,      \* calls that failed for a reason of the host's own
  outside      \* what other programs made during the run

vars == <<node, pc, missing, created, at, published, cancelled, late,
          unclean, faults, outside>>

Dir(c) == [kind |-> "dir", by |-> c]
File(c) == [kind |-> "file", by |-> c]

Trees ==
  {t \in UNION {[S \cup {Root} -> {Dir(Other), File(Other)}] : S \in SUBSET TreePaths} :
     /\ t[Root] = Dir(Other)
     /\ \A p \in DOMAIN t : \A n \in 1..(Len(p) - 1) :
          LET q == SubSeq(p, 1, n) IN q \in DOMAIN t /\ t[q] = Dir(Other)}

Init ==
  /\ node \in Trees
  /\ pc = [c \in Clients |-> "inspect"]
  /\ missing = [c \in Clients |-> << >>]
  /\ created = [c \in Clients |-> << >>]
  /\ at = [c \in Clients |-> 1]
  /\ published = [c \in Clients |-> FALSE]
  /\ cancelled = [c \in Clients |-> FALSE]
  /\ late = [c \in Clients |-> NoCall]
  /\ unclean = {}
  /\ faults = 0
  /\ outside = 0

(***************************************************************************)
(* The calls: the answer the program branches on, and the tree afterwards. *)
(***************************************************************************)
UnderFile(p) ==
  \E n \in 0..(Len(p) - 1) :
    LET q == SubSeq(p, 1, n) IN q \in DOMAIN node /\ node[q].kind = "file"

Lstat(p) ==
  IF UnderFile(p) THEN "ENOTDIR"
  ELSE IF p \in DOMAIN node THEN node[p].kind ELSE "ENOENT"

Mkdir(p) ==
  IF UnderFile(p) THEN "ENOTDIR"
  ELSE IF p \in DOMAIN node THEN "EEXIST"
  ELSE IF Parent(p) \notin DOMAIN node THEN "ENOENT" ELSE "ok"

Rmdir(p) ==
  IF UnderFile(p) THEN "ENOTDIR"
  ELSE IF p \notin DOMAIN node THEN "ENOENT"
  ELSE IF node[p].kind = "file" THEN "ENOTDIR"
  ELSE IF \E q \in DOMAIN node \ {p} : Below(p, q) THEN "ENOTEMPTY" ELSE "ok"

With(p, n) == [q \in DOMAIN node \cup {p} |-> IF q = p THEN n ELSE node[q]]
Without(p) == [q \in {q \in DOMAIN node : ~Below(p, q)} |-> node[q]]

\* mkdir with `recursive': every directory of the path that is not there.
MkdirAll(c, p) ==
  IF UnderFile(p) THEN node
  ELSE [q \in DOMAIN node \cup {SubSeq(p, 1, n) : n \in 1..Len(p)} |->
          IF q \in DOMAIN node THEN node[q] ELSE Dir(c)]

\* What a mkdir of the pull does when it is carried out at last.
Carry(c, call) ==
  IF call.deep THEN MkdirAll(c, call.path)
  ELSE IF Mkdir(call.path) = "ok" THEN With(call.path, Dir(c)) ELSE node

\* The rename that never replaces: the payload and all below it move.
InPlaceOf(p, r, q) == r \o SubSeq(q, Len(p) + 1, Len(q))   \* q below p, taken below r

Moved(c) ==
  LET moving == {q \in DOMAIN node : Below(Payload(c), q)}
      staying == DOMAIN node \ moving
  IN  [p \in staying \cup {InPlaceOf(Payload(c), Dest[c], q) : q \in moving} |->
         IF p \in staying THEN node[p] ELSE node[InPlaceOf(Dest[c], Payload(c), p)]]

(***************************************************************************)
(* Where a pull goes when the call it is at fails, and when it finishes.   *)
(***************************************************************************)
Goto(c, step) == pc' = [pc EXCEPT ![c] = step]

\* acquireUseRelease, twice nested: what was acquired is released again.
Fail(c) ==
  Goto(c, CASE pc[c] \in {"inspect", "find", "rmdirs"}  -> "failure"
            [] pc[c] \in {"make", "check", "temp"}      -> "rmdirs"
            [] pc[c] \in {"payload", "entry", "write"}  -> "unstage"
            [] OTHER -> IF published[c] /\ ~cancelled[c] THEN "success" ELSE "rmdirs")

PcSame == UNCHANGED <<missing, created, at, published, cancelled, late,
                      unclean, faults, outside>>

\* destinationExists.
InspectDestination(c) ==
  /\ pc[c] = "inspect"
  /\ IF Lstat(Dest[c]) = "ENOENT" THEN Goto(c, "find") ELSE Fail(c)
  /\ UNCHANGED node /\ PcSame

\* One lstat of findMissingParents.  << >> always exists.
FindMissingParent(c) ==
  LET p == Parent(IF missing[c] = << >> THEN Dest[c] ELSE Head(missing[c]))
  IN  /\ pc[c] = "find"
      /\ \/ /\ Lstat(p) = "ENOENT"
            /\ missing' = [missing EXCEPT ![c] = <<p>> \o @]
            /\ UNCHANGED pc
         \/ /\ Lstat(p) \in {"dir", "file"}
            /\ Goto(c, "make")
            /\ UNCHANGED missing
         \/ /\ Lstat(p) = "ENOTDIR"
            /\ Fail(c)
            /\ UNCHANGED missing
      /\ UNCHANGED <<node, created, at, published, cancelled, late, unclean,
                     faults, outside>>

\* One mkdir of createMissingParents.
CreateParent(c) ==
  LET p == Head(missing[c])
  IN  /\ pc[c] = "make"
      /\ missing[c] # << >>
      /\ \/ /\ Mkdir(p) = "ok"
            /\ node' = With(p, Dir(c))
            /\ created' = [created EXCEPT ![c] = Append(@, p)]
            /\ missing' = [missing EXCEPT ![c] = Tail(@)]
            /\ UNCHANGED pc
         \/ /\ Mkdir(p) = "EEXIST"
            /\ Goto(c, "check")
            /\ UNCHANGED <<node, created, missing>>
         \/ /\ Mkdir(p) \in {"ENOENT", "ENOTDIR"}
            /\ Fail(c)
            /\ UNCHANGED <<node, created, missing>>
      /\ UNCHANGED <<at, published, cancelled, late, unclean, faults, outside>>

\* ... its lstat of the parent that was there: a directory will do.
CheckParent(c) ==
  /\ pc[c] = "check"
  /\ IF Lstat(Head(missing[c])) = "dir"
     THEN Goto(c, "make") /\ missing' = [missing EXCEPT ![c] = Tail(@)]
     ELSE Fail(c) /\ UNCHANGED missing
  /\ UNCHANGED <<node, created, at, published, cancelled, late, unclean,
                 faults, outside>>

\* prepareDestination could not be interrupted: an interruption that came
\* meanwhile takes effect now.
ParentsReady(c) ==
  /\ pc[c] = "make"
  /\ missing[c] = << >>
  /\ Goto(c, IF cancelled[c] THEN "rmdirs" ELSE "temp")
  /\ UNCHANGED node /\ PcSame

\* mkdtemp, which cannot be interrupted either.
CreateStage(c) ==
  /\ pc[c] = "temp"
  /\ \/ /\ Mkdir(Stage(c)) = "ok"
        /\ node' = With(Stage(c), Dir(c))
        /\ Goto(c, IF cancelled[c] THEN "unstage"
                   ELSE IF Manifest[c].directory THEN "payload" ELSE "entry")
     \/ /\ Mkdir(Stage(c)) # "ok"
        /\ Fail(c)
        /\ UNCHANGED node
  /\ PcSame

\* The mkdir populateStage waits for at this step.
PopulateCall(c) ==
  CASE pc[c] = "payload" -> [path |-> Payload(c), deep |-> FALSE]
    [] pc[c] = "entry" /\ at[c] =< Len(Entries(c)) ->
         IF Entries(c)[at[c]].directory
         THEN [path |-> Target(c, at[c]), deep |-> FALSE]
         ELSE [path |-> Parent(Target(c, at[c])), deep |-> TRUE]
    [] OTHER -> NoCall

\* populateStage: the staged directory, a directory of the manifest, or the
\* directory a file of it goes to.
StageDirectory(c) ==
  LET call == PopulateCall(c)
  IN  /\ call # NoCall
      /\ node' = Carry(c, call)
      /\ IF call.path \in DOMAIN node' /\ (call.deep \/ call.path \notin DOMAIN node)
         THEN /\ Goto(c, IF call.deep THEN "write" ELSE "entry")
              /\ at' = [at EXCEPT ![c] = IF call.deep \/ pc[c] = "payload" THEN @ ELSE @ + 1]
         ELSE Fail(c) /\ UNCHANGED at
      /\ UNCHANGED <<missing, created, published, cancelled, late, unclean,
                     faults, outside>>

\* writeEntry: open with `wx', stream, check length and digest, close.  A
\* stream that fails or does not match leaves the file to the clean-up.
WriteEntry(c) ==
  /\ pc[c] = "write"
  /\ \/ /\ Mkdir(Target(c, at[c])) = "ok"
        /\ node' = With(Target(c, at[c]), File(c))
        /\ \/ Goto(c, "entry") /\ at' = [at EXCEPT ![c] = @ + 1]
           \/ Fail(c) /\ UNCHANGED at
     \/ /\ Mkdir(Target(c, at[c])) # "ok"
        /\ Fail(c)
        /\ UNCHANGED <<node, at>>
  /\ UNCHANGED <<missing, created, published, cancelled, late, unclean,
                 faults, outside>>

\* Mutant: a rename that replaces a file or a directory that is there.
CommitReplacing(c) ==
  /\ pc[c] = "entry"
  /\ at[c] > Len(Entries(c))
  /\ node' = LET moved == Moved(c)
             IN  [p \in {p \in DOMAIN moved : Below(Dest[c], p) => moved[p].by = c} |->
                    moved[p]]
  /\ published' = [published EXCEPT ![c] = TRUE]
  /\ Goto(c, "unstage")
  /\ UNCHANGED <<missing, created, at, cancelled, late, unclean, faults, outside>>

\* publishPathNoReplace, a synchronous call.
CommitPath(c) ==
  /\ pc[c] = "entry"
  /\ at[c] > Len(Entries(c))
  /\ \/ /\ Mkdir(Dest[c]) = "ok"
        /\ node' = Moved(c)
        /\ published' = [published EXCEPT ![c] = TRUE]
     \/ /\ Mkdir(Dest[c]) # "ok"
        /\ UNCHANGED <<node, published>>
  /\ Goto(c, "unstage")
  /\ UNCHANGED <<missing, created, at, cancelled, late, unclean, faults, outside>>

\* rm -r of the stage, which cannot be interrupted: after a success an
\* interruption that came meanwhile takes effect now, and the release of the
\* parents sees a failure.
RemoveStage(c) ==
  /\ pc[c] = "unstage"
  /\ node' = Without(Stage(c))
  /\ Goto(c, IF published[c] /\ ~cancelled[c] THEN "success" ELSE "rmdirs")
  /\ PcSame

\* Mutant: the parents are removed with what is in them.
RemoveParentAndAll(c) ==
  LET n == Len(created[c])
      p == created[c][n]
  IN  /\ pc[c] = "rmdirs"
      /\ n > 0
      /\ node' = Without(p)
      /\ created' = [created EXCEPT ![c] = SubSeq(@, 1, n - 1)]
      /\ UNCHANGED <<pc, missing, at, published, cancelled, late, unclean,
                     faults, outside>>

\* Mutant: the parents are removed in the order they were made.
RemoveParentDownwards(c) ==
  LET p == Head(created[c])
  IN  /\ pc[c] = "rmdirs"
      /\ created[c] # << >>
      /\ IF Rmdir(p) = "ok" THEN node' = Without(p) ELSE UNCHANGED node
      /\ created' = [created EXCEPT ![c] = Tail(@)]
      /\ UNCHANGED <<pc, missing, at, published, cancelled, late, unclean,
                     faults, outside>>

\* One rmdir of removeEmptyParents.
RemoveParent(c) ==
  LET n == Len(created[c])
      p == created[c][n]
  IN  /\ pc[c] = "rmdirs"
      /\ n > 0
      /\ \/ /\ Rmdir(p) = "ok"
            /\ node' = Without(p)
         \/ /\ Rmdir(p) \in {"ENOENT", "ENOTEMPTY"}
            /\ UNCHANGED node
      /\ created' = [created EXCEPT ![c] = SubSeq(@, 1, n - 1)]
      /\ UNCHANGED <<pc, missing, at, published, cancelled, late, unclean,
                     faults, outside>>

\* A parent that another program replaced by a file is an error: the rest of
\* the parents stay.
ParentsRemoved(c) ==
  /\ pc[c] = "rmdirs"
  /\ \/ created[c] = << >>
     \/ created[c] # << >> /\ Rmdir(created[c][Len(created[c])]) = "ENOTDIR"
  /\ Goto(c, "failure")
  /\ UNCHANGED node /\ PcSame

(***************************************************************************)
(* What happens to a pull: a call fails, the pull is interrupted.          *)
(***************************************************************************)
\* A call fails for a reason of the host's own.  A failing rm or rmdir ends
\* the clean-up it belongs to.
HostFails(c) ==
  /\ faults < MaxFaults
  /\ pc[c] \notin Ended
  /\ pc[c] = "make" => missing[c] # << >>
  /\ pc[c] = "rmdirs" => created[c] # << >>
  /\ Fail(c)
  /\ faults' = faults + 1
  /\ unclean' = IF pc[c] \in {"unstage", "rmdirs"} THEN unclean \cup {c} ELSE unclean
  /\ UNCHANGED <<node, missing, created, at, published, cancelled, late, outside>>

\* The fiber of the pull is interrupted.  Where it can be, it leaves the
\* call it waits for at once, and a mkdir may still be carried out; the open
\* of a staged file is awaited.  Elsewhere the interruption is remembered.
Interrupt(c) ==
  /\ pc[c] \notin Ended
  /\ ~cancelled[c]
  /\ cancelled' = [cancelled EXCEPT ![c] = TRUE]
  /\ IF pc[c] \in {"inspect", "payload", "entry", "write"}
     THEN Fail(c) ELSE UNCHANGED pc
  /\ \E call \in {NoCall, PopulateCall(c)} : late' = [late EXCEPT ![c] = call]
  /\ \/ UNCHANGED node
     \/ /\ pc[c] = "write"
        /\ Mkdir(Target(c, at[c])) = "ok"
        /\ node' = With(Target(c, at[c]), File(c))
  /\ UNCHANGED <<missing, created, at, published, unclean, faults, outside>>

\* The abandoned mkdir is carried out.
LateMkdir(c) ==
  /\ late[c] # NoCall
  /\ late' = [late EXCEPT ![c] = NoCall]
  /\ node' = Carry(c, late[c])
  /\ unclean' = IF pc[c] # "unstage" /\ node' # node THEN unclean \cup {c} ELSE unclean
  /\ UNCHANGED <<pc, missing, created, at, published, cancelled, faults, outside>>

\* Another program makes a file or a directory where pulls work.
Outside(p, kind) ==
  /\ outside < MaxOutside
  /\ Mkdir(p) = "ok"
  /\ node' = With(p, [kind |-> kind, by |-> Other])
  /\ outside' = outside + 1
  /\ UNCHANGED <<pc, missing, created, at, published, cancelled, late, unclean,
                 faults>>

Step(c) ==
  \/ InspectDestination(c) \/ FindMissingParent(c) \/ CreateParent(c)
  \/ CheckParent(c) \/ ParentsReady(c) \/ CreateStage(c) \/ StageDirectory(c)
  \/ WriteEntry(c) \/ CommitPath(c) \/ RemoveStage(c) \/ RemoveParent(c)
  \/ ParentsRemoved(c) \/ HostFails(c) \/ Interrupt(c) \/ LateMkdir(c)

Next ==
  \/ \E c \in Clients : Step(c)
  \/ \E p \in TreePaths, kind \in {"dir", "file"} : Outside(p, kind)

Spec == Init /\ [][Next]_vars

-----------------------------------------------------------------------------
\* Once the rename of a pull succeeded, its destination holds every entry of
\* its manifest, made by that pull, for good: no other pull replaces it or
\* writes into it, and no clean-up (another pull's, or its own after a late
\* interruption) takes it away with the parents it lies in.  And the report
\* tells: success only for a destination that was published, and a failure
\* for one that was only if the pull was interrupted; an error of the
\* clean-up after the commit turns no success into a failure.
PublicationIsWhole ==
  \A c \in Clients :
    /\ published[c] =>
         \A i \in 1..Len(Entries(c)) :
           LET p == Dest[c] \o Entries(c)[i].path
           IN  /\ p \in DOMAIN node
               /\ node[p] = IF Entries(c)[i].directory THEN Dir(c) ELSE File(c)
    /\ pc[c] = "success" => published[c]
    /\ pc[c] = "failure" /\ ~cancelled[c] => ~published[c]

\* A pull that d may have had something of in p while others removed theirs.
HasWorkedIn(d, p) ==
  /\ Below(p, Parent(Dest[d]))
  /\ pc[d] \notin {"inspect", "find", "make", "check"}

\* Whatever failed or interrupted it, a pull that ended leaves no stage, and
\* one that failed leaves nothing else it made either: in a parent of its own
\* that is still there lies something of somebody else, or another pull had
\* come as far as its stage in it.  Excepted are a clean-up call that failed
\* and a mkdir that was carried out after the clean-up.
CleanedUp ==
  \A c \in Clients : pc[c] \in Ended /\ c \notin unclean /\ late[c] = NoCall =>
    /\ \A p \in DOMAIN node : ~Below(Stage(c), p)
    /\ pc[c] = "failure" /\ ~published[c] =>
         \A p \in DOMAIN node : node[p].by = c =>
           \/ \E q \in DOMAIN node : Below(p, q) /\ node[q].by # c
           \/ \E d \in Clients \ {c} : HasWorkedIn(d, p)

\* No step of a pull removes, replaces or changes what another program made,
\* be it the destination, a parent or something put into a parent this pull
\* made and is about to remove.
OthersAreKept ==
  [][\A p \in DOMAIN node : node[p].by = Other =>
       p \in DOMAIN node' /\ node'[p] = node[p]]_vars

=============================================================================
