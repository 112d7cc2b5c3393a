----------------------------- MODULE PullSource -----------------------------
(***************************************************************************)
(* The bridge's side of a pull below the wire: the walk that plans what is *)
(* sent, the scans that send it and the second walk that verifies it, call *)
(* by call to the host, over a tree that other programs change between any *)
(* two calls (preparePull of the package pull-transfer and the pull view   *)
(* of the served root).                                                    *)
(*                                                                         *)
(* A path is the sequence of its names below the requested path, which is  *)
(* <<>>.  lstat of a path is one step: the code looks at each component in *)
(* turn, but a component that is gone or replaced makes the last one so    *)
(* too.  A file is read one unit at a time.                                *)
(***************************************************************************)
EXTENDS PullManifest

CONSTANTS Inodes,             \* objects of the host
          Units,              \* what a file is made of
          MaxFileUnits,       \* bound: the length of a file in the model
          Trees,              \* the trees a pull may start from, and the bound of each
                              \* on how often it is changed or the request aborted
          None

VARIABLES names,              \* Paths -> Inodes or None
          inode,              \* Inodes -> kind, stamp, data
          unused,             \* objects that others may still create
          rootCurrent,        \* the served root is still the one that was opened
          clock, fine, changes, bound,
          phase,              \* "plan", "stream", "verify", "verified", "failed"
          call,               \* the call under way and what it has gathered
          todo,               \* tasks still ahead, in order
          planned,            \* Paths -> revision and content as planned, or None
          discovered, rechecked, total,
          sent,               \* Paths -> bytes yielded to the session
          signal,             \* the request was aborted
          verdict,
          checked, began      \* history: revisions compared again; the tree at that start

host == <<names, inode, unused, rootCurrent, clock, fine, changes, bound>>
books == <<todo, planned, discovered, rechecked, total, sent>>
history == <<checked, began>>
vars == <<names, inode, unused, rootCurrent, clock, fine, changes, bound, phase, call, todo, planned,
          discovered, rechecked, total, sent, signal, verdict, checked, began>>

Root == <<>>
Components(p) == {SubSeq(p, 1, n) : n \in 0..Len(p)}
ASSUME PathsAssumption == Root \in Paths /\ \A p \in Paths : Components(p) \subseteq Paths

Kinds == {"file", "directory", "other"}
Nodes == [kind : Kinds \cup {"none"}, stamp : Nat, data : Seq(Units)]
Revisions == [ino : Inodes, kind : Kinds, stamp : Nat, size : Nat]
Views == [kind : Kinds, data : Seq(Units), children : SUBSET Paths]
Plans == [rev : Revisions, kind : {"file", "directory"}, data : Seq(Units), children : SUBSET Paths]
ASSUME NoneAssumption == None \notin Inodes \cup Revisions \cup Views \cup Plans
ASSUME MaxFileUnitsAssumption == MaxFileUnits \in Nat

\* Every object is at one path, below a directory.
ASSUME TreesAssumption ==
  \A t \in Trees :
    /\ t.names \in [Paths -> Inodes \cup {None}]
    /\ t.inode \in [Inodes -> Nodes]
    /\ \A p, q \in Paths : t.names[p] = t.names[q] => p = q \/ t.names[p] = None
    /\ \A p \in Paths : t.names[p] # None =>
         /\ t.inode[t.names[p]].kind \in Kinds /\ t.inode[t.names[p]].stamp = 1
         /\ t.inode[t.names[p]].kind # "file" => t.inode[t.names[p]].data = <<>>
         /\ p # Root => /\ t.names[Front(p)] # None
                       /\ t.inode[t.names[Front(p)]].kind = "directory"

Children(p) == {q \in Paths : q # Root /\ Front(q) = p /\ names[q] # None}
Node(p) == inode[names[p]]
Fingerprint(i) ==
  [ino |-> i, kind |-> inode[i].kind, stamp |-> inode[i].stamp, size |-> Len(inode[i].data)]

Contents == UNION {[1..n -> Units] : n \in 0..MaxFileUnits}

\* What a path shows: its kind, and its bytes or its children.
Shown(p) ==
  IF names[p] = None THEN None
  ELSE [kind |-> Node(p).kind, data |-> Node(p).data,
        children |-> IF Node(p).kind = "directory" THEN Children(p) ELSE {}]

Rest == [at |-> "next", path |-> Root, pass |-> "plan", rev |-> None, seen |-> {}, due |-> {},
         bytes |-> <<>>, piece |-> <<>>, handle |-> None, guard |-> <<>>]
\* A guarded call starts with a look at every component of its path.
Call(step, p, pass, rev) ==
  [Rest EXCEPT !.at = step, !.path = p, !.pass = pass, !.rev = rev,
               !.guard = [q \in Components(p) |-> names[q]]]
Task(pass, p) == [pass |-> pass, path |-> p]
Tasks(pass, ps) == LET s == InOrder(ps) IN [n \in DOMAIN s |-> Task(pass, s[n])]

Init ==
  /\ \E t \in Trees :
       /\ names = t.names
       /\ inode = t.inode
       /\ bound = t.bound
       /\ unused = {i \in Inodes : \A p \in Paths : t.names[p] # i}
  /\ rootCurrent = TRUE
  /\ clock = 1 /\ changes = 0
  /\ fine \in BOOLEAN
  /\ phase = "plan"
  /\ call = Call("inspect", Root, "plan", None)
  /\ todo = <<>>
  /\ planned = [p \in Paths |-> None]
  /\ discovered = 0 /\ rechecked = 0 /\ total = 0
  /\ sent = [p \in Paths |-> <<>>]
  /\ signal = FALSE
  /\ verdict = "none"
  /\ checked = {}
  /\ began = [p \in Paths |-> None]
-----------------------------------------------------------------------------
\* Outside: other programs.  A change stamps what it touches anew; where the
\* stamps of the host are coarse, the stamp may stay.
Stamps(old) == IF fine THEN {clock + 1} ELSE {old, clock + 1}

Changing ==
  /\ phase \notin {"verified", "failed"}
  /\ changes < bound
  /\ changes' = changes + 1
  /\ UNCHANGED <<fine, bound, phase, call, signal, verdict>> /\ UNCHANGED books /\ UNCHANGED history

\* The directory that holds p has changed; the served root itself is not modelled.
Touched(p, nodes) ==
  IF p = Root THEN inode' = nodes /\ clock' = clock + 1
  ELSE /\ \E s \in Stamps(Node(Front(p)).stamp) :
            inode' = [nodes EXCEPT ![names[Front(p)]].stamp = s]
       /\ clock' = clock + 1

Write(p) ==
  /\ Changing
  /\ names[p] # None /\ Node(p).kind = "file"
  /\ \E data \in Contents \ {Node(p).data} :
     \E s \in Stamps(Node(p).stamp) :
       inode' = [inode EXCEPT ![names[p]].data = data, ![names[p]].stamp = s]
  /\ clock' = clock + 1
  /\ UNCHANGED <<names, unused, rootCurrent>>

\* Removed, or moved away with what is below.
Unlink(p) ==
  /\ Changing
  /\ names[p] # None
  /\ names' = [q \in Paths |-> IF p \in Components(q) THEN None ELSE names[q]]
  /\ Touched(p, inode)
  /\ UNCHANGED <<unused, rootCurrent>>

\* Created, or put in the place of something that has nothing below it.
Create(p) ==
  /\ Changing
  /\ p # Root => names[Front(p)] # None /\ Node(Front(p)).kind = "directory"
  /\ Children(p) = {}
  /\ \E i \in unused, kind \in {"file", "directory", "other"},
        data \in {<<>>} \cup [1..1 -> Units] :
       /\ (kind = "file") = (data # <<>>)
       /\ names' = [names EXCEPT ![p] = i]
       /\ unused' = unused \ {i}
       /\ Touched(p, [inode EXCEPT ![i] = [kind |-> kind, stamp |-> clock + 1, data |-> data]])
  /\ UNCHANGED rootCurrent

MoveRoot ==
  /\ Changing
  /\ rootCurrent
  /\ rootCurrent' = FALSE
  /\ UNCHANGED <<names, inode, unused, clock>>

Abort ==
  /\ phase \notin {"verified", "failed"}
  /\ ~signal
  /\ changes < bound /\ changes' = changes + 1
  /\ signal' = TRUE
  /\ UNCHANGED <<names, inode, unused, rootCurrent, clock, fine, bound, phase, call, verdict>>
  /\ UNCHANGED books /\ UNCHANGED history
-----------------------------------------------------------------------------
\* The guards of a call: the path must resolve through the same objects at its
\* end as at its start, below the same served root.
GuardHolds == rootCurrent /\ \A p \in DOMAIN call.guard : names[p] = call.guard[p]
Listing == call.at \in {"readdir", "closedir", "unwindListing"}

\* A variant that leaves an open handle behind.
ThrowAtOnce(v) ==
  /\ verdict' = v
  /\ phase' = "failed" /\ call' = [Rest EXCEPT !.handle = call.handle]
  /\ UNCHANGED <<signal>> /\ UNCHANGED host /\ UNCHANGED books /\ UNCHANGED history

\* A throw out of the call.  An open handle is closed first; the guard of a
\* listing looks at its path only after that.
Throw(v) ==
  /\ verdict' = IF GuardHolds \/ Listing THEN v ELSE "rootChanged"
  /\ IF call.handle = None THEN phase' = "failed" /\ call' = Rest
     ELSE phase' = phase /\ call' = [call EXCEPT !.at = IF Listing THEN "unwindListing" ELSE "unwind"]
  /\ UNCHANGED <<signal>> /\ UNCHANGED host /\ UNCHANGED books /\ UNCHANGED history

GoOn(c) == call' = c /\ UNCHANGED <<phase, signal, verdict>> /\ UNCHANGED host
Step(from, to) ==
  /\ call.at = from
  /\ GoOn([call EXCEPT !.at = to]) /\ UNCHANGED books /\ UNCHANGED history

\* The steps that lstat the path, and those of them that end a guarded call.
Looking == {"inspect", "list", "relist", "scan", "lstat", "again", "verifyDirectory", "verifyFile"}
Ending == {"inspect", "relist", "again", "verifyDirectory", "verifyFile"}
\* A variant that compares no revision.
ProblemNow ==
  IF signal THEN "aborted"
  ELSE IF names[call.path] = None THEN IF call.rev = None THEN "notFound" ELSE "changed"
  ELSE "none"
Problem ==
  IF signal THEN "aborted"
  ELSE IF names[call.path] = None THEN IF call.rev = None THEN "notFound" ELSE "changed"
  ELSE IF call.rev # None /\ Fingerprint(names[call.path]) # call.rev THEN "changed"
  ELSE "none"
At(step) == call.at = step /\ Problem = "none" /\ (step \in Ending => GuardHolds)

InspectFails ==
  /\ call.at \in Looking
  /\ \/ Problem # "none" /\ Throw(Problem)
     \/ Problem = "none" /\ call.at \in Ending /\ ~GuardHolds /\ Throw("rootChanged")

\* Any call to the host may fail for a reason of its own.
HostFails ==
  /\ call.at \in Looking \cup {"opendir", "readdir", "open", "before", "read", "after"}
  /\ Throw(IF signal THEN "aborted" ELSE "io")
CloseFails ==
  /\ call.at \in {"closedir", "close"}
  /\ verdict' = IF GuardHolds \/ ~Listing THEN IF signal THEN "aborted" ELSE "io" ELSE "rootChanged"
  /\ phase' = "failed" /\ call' = Rest
  /\ UNCHANGED <<signal>> /\ UNCHANGED host /\ UNCHANGED books /\ UNCHANGED history
Unwind ==
  /\ call.at \in {"unwind", "unwindListing"}
  /\ verdict' = IF Listing /\ ~GuardHolds THEN "rootChanged" ELSE verdict
  /\ phase' = "failed" /\ call' = Rest
  /\ UNCHANGED <<signal>> /\ UNCHANGED host /\ UNCHANGED books /\ UNCHANGED history
-----------------------------------------------------------------------------
\* Planning: what the requested path, or a child, is.
Inspect ==
  /\ At("inspect")
  /\ LET p == call.path  kind == Node(p).kind IN
     CASE kind = "other" -> Throw("type")
       [] kind = "directory" ->
            /\ GoOn(Call("list", p, "plan", Fingerprint(names[p])))
            /\ UNCHANGED books /\ UNCHANGED history
       [] kind = "file" ->
            IF Len(Node(p).data) > MaxFile \/ total + Len(Node(p).data) > MaxTotal THEN Throw("limit")
            ELSE IF p = Root /\ discovered + 1 > MaxEntries THEN Throw("limit")
            ELSE /\ GoOn(Call("scan", p, "plan", None))
                 /\ discovered' = IF p = Root THEN discovered + 1 ELSE discovered
                 /\ UNCHANGED <<todo, planned, rechecked, total, sent>> /\ UNCHANGED history

\* A listing: lstat, opendir, one read per name, close, lstat again.
List ==
  /\ At("list")
  /\ IF Node(call.path).kind # "directory" THEN Throw("type")
     ELSE /\ GoOn([call EXCEPT !.at = "opendir", !.rev = Fingerprint(names[call.path])])
          /\ UNCHANGED books /\ UNCHANGED history
OpenDirectory ==
  /\ call.at = "opendir"
  /\ IF names[call.path] = None \/ (names[call.path] # None /\ Node(call.path).kind # "directory")
     THEN Throw(IF call.pass = "plan" THEN "changed" ELSE "notFound")
     ELSE /\ GoOn([call EXCEPT !.at = "readdir", !.handle = names[call.path],
                               !.due = Children(call.path)])
          /\ UNCHANGED books /\ UNCHANGED history

\* A variant with one counter for both listings of a directory.
ReadNameCounted ==
  /\ call.at = "readdir"
  /\ \E p \in call.due \cup Children(call.path) :
       /\ p \notin call.seen
       /\ IF discovered + 1 > MaxEntries THEN Throw("limit")
          ELSE /\ GoOn([call EXCEPT !.seen = @ \cup {p}])
               /\ discovered' = discovered + 1
               /\ UNCHANGED <<todo, planned, rechecked, total, sent>> /\ UNCHANGED history

\* A name that came after opendir may be returned or not, one that went as well.
ReadName ==
  /\ call.at = "readdir"
  /\ \E p \in call.due \cup (IF names[call.path] = call.handle THEN Children(call.path) ELSE {}) :
       /\ p \notin call.seen
       /\ LET again == call.pass = "recheck"
              count == (IF again THEN rechecked ELSE discovered) + 1
          IN IF signal THEN Throw("aborted")
             ELSE IF count > MaxEntries THEN Throw("limit")
             ELSE /\ GoOn([call EXCEPT !.seen = @ \cup {p}])
                  /\ discovered' = IF again THEN discovered ELSE count
                  /\ rechecked' = IF again THEN count ELSE rechecked
                  /\ UNCHANGED <<todo, planned, total, sent>> /\ UNCHANGED history
EndOfNames ==
  /\ call.at = "readdir"
  /\ \A p \in call.due \ call.seen : names[p] = None \/ names[call.path] # call.handle
  /\ IF signal THEN Throw("aborted") ELSE Step("readdir", "closedir")
CloseDirectory ==
  /\ call.at = "closedir"
  /\ GoOn([call EXCEPT !.at = "relist", !.handle = None])
  /\ UNCHANGED books /\ UNCHANGED history

\* The listing is the directory's: planned, or compared with what was planned.
Relist ==
  /\ At("relist")
  /\ LET p == call.path IN
     IF call.pass = "plan"
     THEN /\ GoOn(Rest)
          /\ planned' = [planned EXCEPT ![p] = [rev |-> call.rev, kind |-> "directory",
                                                data |-> <<>>, children |-> call.seen]]
          /\ todo' = Tasks("plan", call.seen) \o todo
          /\ UNCHANGED <<discovered, rechecked, total, sent>> /\ UNCHANGED history
     ELSE IF call.seen # planned[p].children THEN Throw("changed")
     ELSE /\ GoOn(Call("verifyDirectory", p, call.pass, planned[p].rev))
          /\ UNCHANGED books /\ UNCHANGED history
-----------------------------------------------------------------------------
\* A scan: lstat, open, then for every read lstat, fstat, read, fstat, lstat.
Scan ==
  /\ At("scan")
  /\ LET file == Node(call.path) IN
     IF file.kind # "file" THEN Throw("type")
     ELSE IF Len(file.data) > MaxFile THEN Throw("limit")
     ELSE /\ GoOn([call EXCEPT !.at = "open", !.rev = Fingerprint(names[call.path])])
          /\ UNCHANGED books /\ UNCHANGED history
OpenFile ==
  /\ call.at = "open"
  /\ IF names[call.path] = None THEN Throw(IF call.pass = "stream" THEN "changed" ELSE "notFound")
     ELSE /\ GoOn([call EXCEPT !.at = "opened", !.handle = names[call.path]])
          /\ UNCHANGED books /\ UNCHANGED history
Opened ==
  /\ call.at = "opened"
  /\ IF ~GuardHolds \/ signal THEN Throw("aborted")
     ELSE /\ GoOn([call EXCEPT !.at = "lstat"]) /\ UNCHANGED books /\ UNCHANGED history
Lstat ==
  /\ At("lstat")
  /\ GoOn([call EXCEPT !.at = "before"]) /\ UNCHANGED books /\ UNCHANGED history
Fstat(from, to) ==
  /\ call.at = from
  /\ IF Fingerprint(call.handle) # call.rev THEN Throw("changed") ELSE Step(from, to)
Before == Fstat("before", "read")
Read ==
  /\ call.at = "read"
  /\ LET data == inode[call.handle].data  n == Len(call.bytes) + 1 IN
     GoOn([call EXCEPT !.at = "after", !.piece = IF n \in DOMAIN data THEN <<data[n]>> ELSE <<>>])
  /\ UNCHANGED books /\ UNCHANGED history
After == Fstat("after", "again")

\* What was read is kept, and yielded when the file is being sent.
Again ==
  /\ At("again") /\ call.piece # <<>>
  /\ LET p == call.path  bytes == call.bytes \o call.piece IN
     IF Len(bytes) > MaxFile THEN Throw("limit")
     ELSE IF call.pass = "stream" /\ Len(bytes) > Len(planned[p].data) THEN Throw("changed")
     ELSE /\ GoOn([call EXCEPT !.at = "lstat", !.bytes = bytes, !.piece = <<>>,
                               !.guard = [q \in Components(p) |-> names[q]]])
          /\ sent' = IF call.pass = "stream" THEN [sent EXCEPT ![p] = bytes] ELSE sent
          /\ UNCHANGED <<todo, planned, discovered, rechecked, total>> /\ UNCHANGED history
EndOfFile ==
  /\ At("again") /\ call.piece = <<>>
  /\ IF \/ Len(call.bytes) # call.rev.size
        \/ call.pass = "stream" /\ call.bytes # planned[call.path].data
     THEN Throw("changed") ELSE Step("again", "close")
CloseFile ==
  /\ call.at = "close"
  /\ LET p == call.path  sum == total + Len(call.bytes) IN
     IF call.pass = "stream" THEN GoOn(Rest) /\ UNCHANGED books /\ UNCHANGED history
     ELSE IF sum > MaxTotal
     THEN /\ verdict' = "limit" /\ phase' = "failed" /\ call' = Rest
          /\ UNCHANGED signal /\ UNCHANGED host /\ UNCHANGED books /\ UNCHANGED history
     ELSE /\ GoOn(Rest)
          /\ planned' = [planned EXCEPT ![p] = [rev |-> call.rev, kind |-> "file",
                                                data |-> call.bytes, children |-> {}]]
          /\ total' = sum
          /\ UNCHANGED <<todo, discovered, rechecked, sent>> /\ UNCHANGED history
-----------------------------------------------------------------------------
\* A variant that does not descend.
VerifyDirectoryAlone ==
  /\ At("verifyDirectory")
  /\ checked' = checked \cup {call.path}
  /\ GoOn(Rest)
  /\ UNCHANGED <<todo, planned, discovered, rechecked, total, sent, began>>

\* Verification: the revisions of the plan are compared again.
VerifyDirectory ==
  /\ At("verifyDirectory")
  /\ LET p == call.path IN
     /\ todo' = IF call.pass = "verify"
                THEN Tasks("verify", planned[p].children) \o <<Task("recheck", p)>> \o todo
                ELSE todo
     /\ checked' = checked \cup {p}
  /\ GoOn(Rest)
  /\ UNCHANGED <<planned, discovered, rechecked, total, sent, began>>
VerifyFile ==
  /\ At("verifyFile")
  /\ LET size == Len(Node(call.path).data) IN
     IF size > MaxFile \/ total + size > MaxTotal THEN Throw("limit")
     ELSE /\ total' = total + size
          /\ checked' = checked \cup {call.path}
          /\ GoOn(Rest)
          /\ UNCHANGED <<todo, planned, discovered, rechecked, sent, began>>

\* The next task of the walk, the transmission or the verification.
NextTask ==
  /\ phase \in {"plan", "stream", "verify"} /\ call.at = "next" /\ todo # <<>>
  /\ LET t == Head(todo)
         p == t.path
     IN /\ ~signal
        /\ t.pass = "plan" => Canonical(p)
        /\ GoOn(CASE t.pass = "plan" -> Call("inspect", p, "plan", None)
                  [] t.pass = "stream" -> Call("scan", p, "stream", planned[p].rev)
                  [] t.pass = "recheck" -> Call("list", p, "recheck", None)
                  [] t.pass = "verify" ->
                       IF planned[p].kind = "file"
                       THEN Call("verifyFile", p, "verify", planned[p].rev)
                       ELSE Call("list", p, "verify", None))
  /\ todo' = Tail(todo)
  /\ UNCHANGED <<planned, discovered, rechecked, total, sent>> /\ UNCHANGED history

\* The manifest: the entries in the order of their paths.
PlannedPaths == {p \in Paths : planned[p] # None}
RootKind == planned[Root].kind
Manifest ==
  LET s == InOrder(IF RootKind = "file" THEN {Root} ELSE PlannedPaths \ {Root}) IN
  [kind |-> RootKind, name |-> <<Name>>, totalBytes |-> total,
   entries |-> [n \in DOMAIN s |->
     [path |-> IF RootKind = "file" THEN <<Name>> ELSE s[n], kind |-> planned[s[n]].kind,
      size |-> Len(planned[s[n]].data)]]]
PlannedBytes == SumOf([p \in PlannedPaths |-> Len(planned[p].data)])

PathFails ==
  /\ phase = "plan" /\ call.at = "next" /\ todo # <<>> /\ ~signal
  /\ ~Canonical(Head(todo).path)
  /\ verdict' = "path" /\ phase' = "failed" /\ call' = Rest
  /\ UNCHANGED <<signal>> /\ UNCHANGED host /\ UNCHANGED books /\ UNCHANGED history
PhaseFails ==
  /\ phase \in {"plan", "stream", "verify"} /\ call.at = "next"
  /\ signal \/ (todo = <<>> /\ (~rootCurrent \/ (phase = "verify" /\ total # PlannedBytes)))
  /\ verdict' = IF phase = "verify" /\ todo = <<>> /\ total # PlannedBytes THEN "changed"
                ELSE IF signal THEN "aborted" ELSE "rootChanged"
  /\ phase' = "failed" /\ call' = Rest
  /\ UNCHANGED <<signal>> /\ UNCHANGED host /\ UNCHANGED books /\ UNCHANGED history
Prepared ==
  /\ phase = "plan" /\ call.at = "next" /\ todo = <<>> /\ ~signal /\ rootCurrent
  /\ phase' = "stream"
  /\ todo' = Tasks("stream", {p \in PlannedPaths : planned[p].kind = "file"})
  /\ UNCHANGED <<call, planned, discovered, rechecked, total, sent, signal, verdict>>
  /\ UNCHANGED host /\ UNCHANGED history
BeginVerify ==
  /\ phase = "stream" /\ call.at = "next" /\ todo = <<>> /\ ~signal /\ rootCurrent
  /\ phase' = "verify"
  /\ todo' = <<Task("verify", Root)>>
  /\ discovered' = IF RootKind = "file" THEN 1 ELSE 0
  /\ rechecked' = 0 /\ total' = 0
  /\ began' = [p \in Paths |-> Shown(p)]
  /\ UNCHANGED <<call, planned, sent, signal, verdict, checked>> /\ UNCHANGED host
Verified ==
  /\ phase = "verify" /\ call.at = "next" /\ todo = <<>> /\ ~signal /\ rootCurrent
  /\ total = PlannedBytes
  /\ phase' = "verified"
  /\ UNCHANGED <<call, signal, verdict>> /\ UNCHANGED host /\ UNCHANGED books /\ UNCHANGED history

Outside == Abort \/ MoveRoot \/ \E p \in Paths : Write(p) \/ Unlink(p) \/ Create(p)
Bridge ==
  \/ InspectFails \/ HostFails \/ CloseFails \/ Unwind
  \/ Inspect \/ List \/ OpenDirectory \/ ReadName \/ EndOfNames \/ CloseDirectory \/ Relist
  \/ Scan \/ OpenFile \/ Opened \/ Lstat \/ Before \/ Read \/ After \/ Again \/ EndOfFile \/ CloseFile
  \/ VerifyDirectory \/ VerifyFile
  \/ NextTask \/ PathFails \/ PhaseFails \/ Prepared \/ BeginVerify \/ Verified
Next == Bridge \/ Outside
Spec == Init /\ [][Next]_vars
-----------------------------------------------------------------------------
(***************************************************************************)
(* A verified pull is the tree of one instant.  Where the host gives every *)
(* change a stamp of its own, the manifest and the bytes that were sent    *)
(* are what the requested path showed when verification began, whatever    *)
(* other programs did before, between and after the calls of the walk.     *)
(* And even where stamps are coarse, the bytes that were sent are those    *)
(* the manifest names: a file that changed unseen after it was planned is  *)
(* told by its digest.                                                     *)
(***************************************************************************)
VerifiedIsSnapshot ==
  /\ fine /\ phase = "verified" =>
       /\ PlannedPaths = {p \in Paths : began[p] # None}
       /\ \A p \in PlannedPaths :
            /\ planned[p].kind = began[p].kind
            /\ planned[p].children = began[p].children
            /\ planned[p].kind = "file" => sent[p] = began[p].data
  /\ phase \in {"verify", "verified"} =>
       \A p \in PlannedPaths : planned[p].kind = "file" => sent[p] = planned[p].data

(***************************************************************************)
(* Nobody is told that the source changed, or is over a limit, when it is  *)
(* not: a tree that rests is pulled exactly when it is within the limits   *)
(* and made of files and directories with canonical names, in spite of its *)
(* directories being listed and counted three times.                       *)
(***************************************************************************)
Present == {p \in Paths : names[p] # None}
Admissible ==
  /\ Present # {}
  /\ \A p \in Present : Node(p).kind # "other" /\ Canonical(p) /\ Len(Node(p).data) <= MaxFile
  /\ Cardinality(Present) <= MaxEntries + (IF Node(Root).kind = "directory" THEN 1 ELSE 0)
  /\ SumOf([p \in Present |-> Len(Node(p).data)]) <= MaxTotal
RestingTreeIsPulled ==
  changes = 0 =>
    /\ phase = "verified" => Admissible
    /\ phase = "failed" => ~Admissible \/ verdict = "io"
    /\ verdict # "changed" /\ verdict # "rootChanged"

(***************************************************************************)
(* The receiver accepts every manifest the bridge plans, and of those that *)
(* differ from it in their entries, totals, kind or name exactly the ones  *)
(* that describe a tree within the limits.                                 *)
(***************************************************************************)
PlanIsAccepted ==
  phase = "stream" /\ call.at = "next" /\ checked = {} =>
    /\ Violation(Manifest) = "none"
    /\ \A m \in Others(Manifest) : Violation(m) = "none" <=> DescribesTree(m)

(***************************************************************************)
(* No handle outlives its call, however the call ends.                     *)
(***************************************************************************)
HandlesAreClosed ==
  (phase \in {"verified", "failed"} \/ call.at = "next") => call.handle = None
-----------------------------------------------------------------------------
\* How the two walks are one observation of StampedSnapshot: a path is seen when
\* its listing, or its last read, has found the revision unchanged.
Scanned == IF call.at = "close" /\ call.pass = "plan" THEN {call.path} ELSE {}
Seen == IF phase = "failed" THEN {} ELSE PlannedPaths \cup Scanned
Copy(p) ==
  IF p \in Scanned THEN [kind |-> "file", data |-> call.bytes, children |-> {}]
  ELSE IF p \in Seen
  THEN [kind |-> planned[p].kind, data |-> planned[p].data, children |-> planned[p].children]
  ELSE None
Snapshot == INSTANCE StampedSnapshot WITH
  Objects <- Paths,
  Values <- Views,
  Absent <- None,
  value <- [p \in Paths |-> Shown(p)],
  stamp <- [p \in Paths |-> IF names[p] = None THEN 0 ELSE Node(p).stamp],
  copy <- [p \in Paths |-> Copy(p)],
  copied <- [p \in Paths |-> IF p \in Scanned THEN call.rev.stamp
                             ELSE IF p \in Seen THEN planned[p].rev.stamp ELSE 0],
  observed <- Seen,
  checked <- IF phase = "failed" THEN {} ELSE checked,
  stage <- CASE phase \in {"plan", "stream"} -> "observe"
             [] phase = "verify" -> "check"
             [] phase = "verified" -> "confirmed"
             [] OTHER -> "failed"

(***************************************************************************)
(* The pull implements StampedSnapshot, whose confirmed observations are   *)
(* those of one instant.                                                   *)
(***************************************************************************)
ImplementsSnapshot == Snapshot!Spec
=============================================================================
