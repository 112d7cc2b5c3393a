---------------------------- MODULE OverlayView ----------------------------
(***************************************************************************)
(* What the script of one `dumbridge run' writes: the other half of        *)
(* read-view.ts.  The shell's OverlayFs (a library) keeps written entries  *)
(* in memory and remembers the removed ones; RequestBudgetOverlayFs        *)
(* charges each write to two budgets of the run before it passes it on,    *)
(* and keeps two sets of its own, overlayFilePaths and tombstonePaths, by  *)
(* which readFileBuffer later decides whether to read the host or the      *)
(* overlay.  The two books have to agree for as long as the script runs.   *)
(*                                                                         *)
(* A script makes one call at a time.  writeFile, mkdir and rm decide and  *)
(* take effect at one point.  appendFile, chmod, utimes and link first ask *)
(* what is at the path, charge for that, and then await the library, which *)
(* takes what it finds: two actions, and the host, which is live, can be   *)
(* edited between them.  cp and mv are made of the others by the library.  *)
(***************************************************************************)
EXTENDS Naturals, FiniteSets

CONSTANTS
  Paths,         \* the paths the script writes to
  Above,         \* the directories above each, the served root excluded
  MaxOverlay,    \* maxOverlayBytes
  MaxEntries,    \* maxOverlayEntries
  MaxFile,       \* bound: size of a file, and of what is written at once
  MaxChanges     \* bound: edits of the host while the script runs

ASSUME OverlayAssumption ==
  MaxOverlay \in Nat /\ MaxEntries \in Nat /\ MaxFile \in Nat /\ MaxChanges \in Nat
ASSUME AboveAssumption == \A p \in Paths : IsFiniteSet(Above[p])

VARIABLES
  served,        \* path -> what the served root has there
  memory,        \* OverlayFs: written entries, path -> what it is
  deleted,       \* OverlayFs: removed paths
  filePaths,     \* overlayFilePaths
  tombstones,    \* tombstonePaths
  charged,       \* chargedEntryPaths
  entries,       \* overlayEntries
  bytes,         \* overlayBytes
  limit,         \* limitExceeded, of the overlay's two budgets
  call,          \* the call that awaits the library, and what its stat saw
  changes,
  grown,         \* history: how much the host grew where a call did not look
  misjudged      \* history: files whose attributes a call changed that had
                 \* seen no file there

books == <<filePaths, tombstones>>
budgets == <<charged, entries, bytes, limit>>
overlayVars == <<served, memory, deleted, books, budgets, call, changes, grown, misjudged>>

Nothing == [kind |-> "nothing", size |-> 0]
Dir == [kind |-> "dir", size |-> 0]
File(n) == [kind |-> "file", size |-> n]
Objects == {Nothing, Dir} \cup {File(n) : n \in 0..MaxFile}

Idle == [op |-> "none"]

OverlayInit ==
  /\ served \in [Paths -> Objects]
  /\ memory = << >>
  /\ deleted = {}
  /\ filePaths = {}
  /\ tombstones = {}
  /\ charged = {}
  /\ entries = 0
  /\ bytes = 0
  /\ limit = "none"
  /\ call = Idle
  /\ changes = 0
  /\ grown = 0
  /\ misjudged = {}

\* The overlay as the library sees it.
View(p) ==
  IF p \in DOMAIN memory THEN memory[p]
  ELSE IF p \in deleted THEN Nothing ELSE served[p]

\* What the overlay would take into memory to change a file of the host.
HostBytes(p) ==
  IF p \in filePaths \/ View(p).kind # "file" THEN 0 ELSE View(p).size

(***************************************************************************)
(* The budgets.  An exceeded limit stays, and refuses every later call.    *)
(***************************************************************************)
Fresh(ps) == ps \ charged

\* chargeEntries and reserve, in this order: the entries stay charged when
\* the bytes do not fit.
Charge(ps, n) ==
  LET fitting == entries + Cardinality(Fresh(ps)) =< MaxEntries
  IN  /\ call = Idle /\ limit = "none"
      /\ charged' = IF fitting THEN charged \cup ps ELSE charged
      /\ entries' = IF fitting THEN entries + Cardinality(Fresh(ps)) ELSE entries
      /\ bytes' = IF fitting /\ bytes + n =< MaxOverlay THEN bytes + n ELSE bytes
      /\ limit' = IF ~fitting THEN "overlay-entries"
                  ELSE IF bytes + n > MaxOverlay THEN "overlay" ELSE "none"

\* What the library does when it lets the call pass: p has x in memory.
Keep(p, x) ==
  /\ memory' = [q \in DOMAIN memory \cup {p} |-> IF q = p THEN x ELSE memory[q]]
  /\ deleted' = deleted \ {p}

\* A call that was refused after the charge: by a budget, or by the library,
\* for what stands at the path or for a reason not modelled (a directory
\* above that is missing, a file too large to take into memory).
Refused == UNCHANGED <<memory, deleted, books, misjudged>>
Passed == limit' = "none"

(***************************************************************************)
(* The calls that take nothing from the host.                              *)
(***************************************************************************)
WithAbove(p) == {p} \cup Above[p]

WriteFile(p, n) ==
  /\ Charge(WithAbove(p), n)
  /\ \/ /\ Passed /\ View(p).kind # "dir"
        /\ Keep(p, File(n))
        /\ filePaths' = filePaths \cup {p}
        /\ tombstones' = tombstones \ {p}
        /\ UNCHANGED misjudged
     \/ Refused
  /\ UNCHANGED <<served, call, changes, grown>>

Mkdir(p) ==
  /\ Charge(WithAbove(p), 0)
  /\ \/ /\ Passed /\ View(p) = Nothing
        /\ Keep(p, Dir)
        /\ tombstones' = tombstones \ {p}
        /\ UNCHANGED <<filePaths, misjudged>>
     \/ Refused
  /\ UNCHANGED <<served, call, changes, grown>>

\* Mutant of rm: the overlay's file is forgotten, the host's comes back.
Unmark(p) ==
  /\ filePaths' = filePaths \ {p}
  /\ UNCHANGED tombstones

Bury(p) ==
  /\ filePaths' = filePaths \ {p}
  /\ tombstones' = tombstones \cup {p}

\* rm, one path: the library asks for each entry of a directory in turn.  A
\* forced rm that finds nothing removes nothing, and is entered all the same.
Remove(p) ==
  /\ Charge({p}, 0)
  /\ \/ /\ Passed
        /\ \/ /\ View(p) # Nothing
              /\ memory' = [q \in DOMAIN memory \ {p} |-> memory[q]]
              /\ deleted' = deleted \cup {p}
           \/ View(p) = Nothing /\ UNCHANGED <<memory, deleted>>
        /\ Bury(p)
        /\ UNCHANGED misjudged
     \/ Refused
  /\ UNCHANGED <<served, call, changes, grown>>

(***************************************************************************)
(* The calls that may take a file of the host into memory.  Each begins    *)
(* with what a stat sees, and the charge for it; a charge that does not    *)
(* fit ends the call.                                                      *)
(***************************************************************************)
Await(c) ==
  /\ call' = IF Passed THEN c ELSE Idle
  /\ UNCHANGED <<served, memory, deleted, books, changes, grown, misjudged>>

\* Mutant: only what the script appends is charged.
MaterializedFree(p) == 0

\* appendFile does not look where one of the program's books knows the path.
Materialized(p) == IF p \in filePaths \cup tombstones THEN 0 ELSE View(p).size

AppendFile(p, n) ==
  /\ Charge(WithAbove(p), Materialized(p) + n)
  /\ Await([op |-> "append", from |-> p, to |-> p, more |-> n])

\* chmod and utimes: a file of the host moves into memory with its content.
SetAttributes(p) ==
  /\ View(p) # Nothing
  /\ Charge({p}, IF p \in filePaths THEN 0 ELSE View(p).size)
  /\ Await([op |-> "attributes", from |-> p, to |-> p, seen |-> View(p).kind])

\* link: the new name gets the content, and is charged for it.
Link(p, q) ==
  /\ View(p) # Nothing
  /\ Charge(WithAbove(q), View(p).size)
  /\ Await([op |-> "link", from |-> p, to |-> q])

\* The library's part of a call, with what is there by now.
Takes(op, x) == call.op = op /\ Keep(call.to, x) /\ call' = Idle

Appended ==
  /\ Takes("append", File(View(call.to).size + call.more))
  /\ View(call.to).kind # "dir"
  /\ filePaths' = filePaths \cup {call.to}
  /\ tombstones' = tombstones \ {call.to}
  /\ UNCHANGED <<served, budgets, changes, grown, misjudged>>

\* The program goes by what its stat saw: a file that took a directory's place
\* in between is in memory, and not in filePaths.
AttributesSet ==
  LET p == call.to
  IN  /\ Takes("attributes", View(p))
      /\ View(p) # Nothing
      /\ filePaths' = IF call.seen = "file" THEN filePaths \cup {p} ELSE filePaths
      /\ misjudged' = IF View(p).kind = "file" /\ call.seen # "file"
                      THEN misjudged \cup {p} ELSE misjudged
      /\ UNCHANGED <<served, tombstones, budgets, changes, grown>>

Linked ==
  /\ Takes("link", View(call.from))
  /\ View(call.from).kind = "file" /\ View(call.to) = Nothing
  /\ filePaths' = filePaths \cup {call.to}
  /\ UNCHANGED <<served, tombstones, budgets, changes, grown, misjudged>>

CallRefused ==
  /\ call # Idle /\ call' = Idle
  /\ Refused
  /\ UNCHANGED <<served, budgets, changes, grown>>

(***************************************************************************)
(* The user changes the served root.  What a file grows by is not charged  *)
(* to a call that has looked already and awaits the library, nor to an     *)
(* append after a forced rm that found nothing, which does not look.       *)
(***************************************************************************)
FromHost(p) == p \notin DOMAIN memory \cup deleted
Awaited(p) == call # Idle /\ call.from = p /\ FromHost(p)
Unlooked(p) == p \in tombstones /\ FromHost(p)

Change(p, x) ==
  LET growth == IF x.size > served[p].size THEN x.size - served[p].size ELSE 0
  IN  /\ changes < MaxChanges
      /\ served[p] # x
      /\ served' = [served EXCEPT ![p] = x]
      /\ changes' = changes + 1
      /\ grown' = grown + (IF Awaited(p) THEN growth ELSE 0)
                        + (IF Unlooked(p) THEN growth ELSE 0)
      /\ UNCHANGED <<memory, deleted, books, budgets, call, misjudged>>

OverlayNext ==
  \/ \E p \in Paths :
       \/ \E n \in 0..MaxFile : WriteFile(p, n) \/ AppendFile(p, n)
       \/ Mkdir(p) \/ Remove(p) \/ SetAttributes(p)
       \/ \E q \in Paths \ {p} : Link(p, q)
       \/ \E x \in Objects : Change(p, x)
  \/ Appended \/ AttributesSet \/ Linked \/ CallRefused

OverlaySpec == OverlayInit /\ [][OverlayNext]_overlayVars

-----------------------------------------------------------------------------
\* readFileBuffer: a path neither book knows is read from the host.
ReadFromHost(p) == p \notin filePaths \cup tombstones
Read(p) == IF ReadFromHost(p) THEN served[p] ELSE View(p)

\* A script reads what the library's books say is there: what it wrote, nothing
\* where it removed, and the live host where it left things alone, also after
\* calls that were refused, that found nothing, and that the host was edited
\* under.  There are two exceptions, and the property allows no third.  Where
\* the script made a directory, or changed the attributes of one, the program's
\* books have no entry, and the host is read: after rm p, mkdir p, a file that
\* was removed can be read again.  And a file whose attributes were changed by
\* a call that had seen a directory there is read from the host.
BooksAgree ==
  \A p \in Paths :
    Read(p) # View(p) => \/ p \in DOMAIN memory /\ memory[p] = Dir
                         \/ p \in misjudged

\* The units in memory, each one a place in what is kept for a path.
InMemory == UNION {{p} \X (1..memory[p].size) : p \in DOMAIN memory}

\* The memory a run can make the bridge hold is paid for, and within the two
\* budgets: every byte in it was charged, also those that came from the host
\* (append, chmod, link), except what a file of the host grew by after the call
\* that takes it had looked, or at a path where a forced rm found nothing; and
\* so was every entry, the removed ones included.
MemoryIsCharged ==
  /\ Cardinality(InMemory) =< bytes + grown
  /\ bytes =< MaxOverlay
  /\ DOMAIN memory \cup deleted \subseteq charged
  /\ entries = Cardinality(charged) /\ entries =< MaxEntries
=============================================================================
