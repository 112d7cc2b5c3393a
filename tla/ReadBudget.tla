----------------------------- MODULE ReadBudget -----------------------------
(***************************************************************************)
(* The files one `dumbridge run' reads from the served root: read-view.ts, *)
(* with the path guard of served-root.ts around each read and the verdict  *)
(* of SafeShell.execute over all of them.  The commands of a script read   *)
(* concurrently; each read runs from one await to the next:                *)
(*                                                                         *)
(*   ready   not started                                                   *)
(*   lstat   waits for the lstat of the leaf                               *)
(*   open    has reserved its bytes and a slot, waits for the open         *)
(*   fstat   waits for the stat of the opened file                         *)
(*   chunk   waits for the next 64 KiB                                     *)
(*   probe   has them all, waits for one byte more                         *)
(*   close   waits for the close of the handle                             *)
(*   done    settled, with the content or with an error                    *)
(*                                                                         *)
(* Every await ends with the request's own checks: cancelled, a source     *)
(* that changed, a limit exceeded.  The host goes on editing meanwhile: a  *)
(* file grows, shrinks, is replaced by another one, and the served root    *)
(* itself may be moved.  One unit of size is one chunk.                    *)
(***************************************************************************)
EXTENDS Naturals, FiniteSets

CONSTANTS
  Reads,        \* the reads of the script
  Files,        \* the paths it reads
  MaxRead,      \* maxFileReadBytes: what one run may read in total
  MaxSlots,     \* maxConcurrentHostReads
  MaxSize,      \* bound: size of a host file
  MaxEdits      \* bound: edits of the host while the script runs

ASSUME BoundAssumption ==
  MaxRead \in Nat /\ MaxSlots \in Nat /\ MaxSize \in Nat /\ MaxEdits \in Nat

\* A script is finite, and so is what it names.
ASSUME ScriptAssumption == IsFiniteSet(Reads) /\ IsFiniteSet(Files)

Inodes == 1..(Cardinality(Files) + MaxEdits)

VARIABLES
  at,           \* path -> the inode it names
  size,         \* inode -> its size
  rootSame,     \* the served root is still the directory it was
  edits,        \* edits made so far
  pc,           \* read -> its step
  path,         \* read -> the path it reads
  guard,        \* read -> the inode the path guard saw before it started
  leaf,         \* read -> the inode its lstat found
  inode,        \* read -> the inode it opened
  handle,       \* read -> none, open, closed; lost: open and forgotten
  expected,     \* read -> the size of the buffer it fills
  offset,       \* read -> how much of it is filled
  reserved,     \* read -> what it reserved of the run's budget
  hasSlot,      \* read -> it counts as an active host read
  outcome,      \* read -> content, or how it failed: refused, source, error
  readBytes,    \* the budget used up
  activeReads,  \* the slots in use
  stopped,      \* the request's flags: cancelled, source, limit
  verdict       \* what SafeShell.execute answers

host == <<at, size, rootSame, edits>>
locals == <<path, guard, leaf, inode, expected, offset>>
vars == <<host, pc, locals, handle, reserved, hasSlot, outcome, readBytes,
          activeReads, stopped, verdict>>

NoInode == 0
Settled(r) == pc[r] = "done"
Failed(r) == pc[r] \in {"close", "done"} /\ outcome[r] # "content"

Init ==
  /\ at \in {f \in [Files -> 1..Cardinality(Files)] :
               \A a, b \in Files : a # b => f[a] # f[b]}
  /\ size \in {f \in [Inodes -> 0..MaxSize] :
                 \A i \in Inodes : i > Cardinality(Files) => f[i] = 0}
  /\ rootSame = TRUE
  /\ edits = 0
  /\ pc = [r \in Reads |-> "ready"]
  /\ path \in [Reads -> Files]
  /\ guard = [r \in Reads |-> NoInode]
  /\ leaf = [r \in Reads |-> NoInode]
  /\ inode = [r \in Reads |-> NoInode]
  /\ handle = [r \in Reads |-> "none"]
  /\ expected = [r \in Reads |-> 0]
  /\ offset = [r \in Reads |-> 0]
  /\ reserved = [r \in Reads |-> 0]
  /\ hasSlot = [r \in Reads |-> FALSE]
  /\ outcome = [r \in Reads |-> "none"]
  /\ readBytes = 0
  /\ activeReads = 0
  /\ stopped = {}
  /\ verdict = "none"

\* Mutant: a file that cannot be read keeps its reservation.
AlwaysKeeps(how, flags) == TRUE

(***************************************************************************)
(* How a read fails.  "refused": assertRequestOpen throws, or the read     *)
(* meets a limit; "source": its file became shorter; "error": its file     *)
(* cannot be read.  The catch of readHostFile gives the reservation back,  *)
(* but not on a limit and not after the cancellation.                      *)
(***************************************************************************)
KeepsReservation(how, flags) ==
  \/ flags # {}
  \/ "cancelled" \in stopped
  \/ how = "refused" /\ "source" \notin stopped

\* `used' is the budget and `held' the read's part of it at the throw.
Throw(r, how, used, held, flags) ==
  /\ outcome' = [outcome EXCEPT ![r] = how]
  /\ pc' = [pc EXCEPT ![r] = "close"]
  /\ stopped' = stopped \cup flags
  /\ readBytes' = IF KeepsReservation(how, flags) THEN used ELSE used - held
  /\ reserved' = [reserved EXCEPT ![r] = held]

Continue(r, step) ==
  /\ stopped = {}
  /\ pc' = [pc EXCEPT ![r] = step]
  /\ UNCHANGED <<outcome, stopped>>

\* The call r waits for fails, or returns to a request that is not open.
ReturnsInVain(r) ==
  \/ Throw(r, "error", readBytes, reserved[r], {})
  \/ stopped # {} /\ Throw(r, "refused", readBytes, reserved[r], {})

BudgetSame == UNCHANGED <<readBytes, reserved>>

\* readGuarded: the request is checked, then the root; the guard remembers
\* what the path names now.
StartRead(r) ==
  /\ pc[r] = "ready"
  /\ verdict = "none"
  /\ \/ /\ stopped = {} /\ rootSame
        /\ Continue(r, "lstat")
        /\ guard' = [guard EXCEPT ![r] = at[path[r]]]
     \/ /\ stopped # {} \/ ~rootSame
        /\ pc' = [pc EXCEPT ![r] = "done"]
        /\ outcome' = [outcome EXCEPT ![r] = "refused"]
        /\ stopped' = IF stopped = {} THEN {"source"} ELSE stopped
        /\ UNCHANGED guard
  /\ BudgetSame
  /\ UNCHANGED <<host, path, leaf, inode, expected, offset, handle, hasSlot,
                 activeReads, verdict>>

FitsBudget(r, bytes) == bytes =< reserved[r] + (MaxRead - readBytes)

\* lstatLeafIdentity returns: the bytes are reserved before the file is
\* opened, then the slot.  Without a slot the reservation stays.
LstatReturns(r) ==
  LET bytes == size[at[path[r]]]
      fits  == FitsBudget(r, bytes)
      slot  == activeReads < MaxSlots
  IN  /\ pc[r] = "lstat"
      /\ \/ /\ ReturnsInVain(r)
            /\ UNCHANGED <<leaf, hasSlot, activeReads>>
         \/ /\ fits /\ slot
            /\ Continue(r, "open")
            /\ readBytes' = readBytes + bytes
            /\ reserved' = [reserved EXCEPT ![r] = bytes]
            /\ leaf' = [leaf EXCEPT ![r] = at[path[r]]]
            /\ hasSlot' = [hasSlot EXCEPT ![r] = TRUE]
            /\ activeReads' = activeReads + 1
         \/ /\ stopped = {}
            /\ ~(fits /\ slot)
            /\ IF fits THEN Throw(r, "refused", readBytes + bytes, bytes, {"limit"})
                       ELSE Throw(r, "refused", readBytes, 0, {"limit"})
            /\ UNCHANGED <<leaf, hasSlot, activeReads>>
      /\ UNCHANGED <<host, path, guard, inode, expected, offset, handle, verdict>>

\* open returns.  When the request was stopped meanwhile, the handle it
\* returned is assigned to nothing, and nothing closes it.
OpenReturns(r) ==
  /\ pc[r] = "open"
  /\ \/ /\ Throw(r, "error", readBytes, reserved[r], {})
        /\ UNCHANGED <<handle, inode>>
     \/ /\ stopped # {}
        /\ Throw(r, "refused", readBytes, reserved[r], {})
        /\ handle' = [handle EXCEPT ![r] = "lost"]
        /\ UNCHANGED inode
     \/ /\ Continue(r, "fstat")
        /\ handle' = [handle EXCEPT ![r] = "open"]
        /\ inode' = [inode EXCEPT ![r] = at[path[r]]]
        /\ BudgetSame
  /\ UNCHANGED <<host, path, guard, leaf, expected, offset, hasSlot,
                 activeReads, verdict>>

\* verifyOpenedLeaf and retrueReadReservation: another file is an error
\* (ESTALE); of the same file the size counts that it has now.
FstatReturns(r) ==
  LET bytes == size[inode[r]]
  IN  /\ pc[r] = "fstat"
      /\ \/ /\ ReturnsInVain(r)
            /\ UNCHANGED expected
         \/ /\ inode[r] = leaf[r]
            /\ FitsBudget(r, bytes)
            /\ Continue(r, IF bytes = 0 THEN "probe" ELSE "chunk")
            /\ readBytes' = (readBytes + bytes) - reserved[r]
            /\ reserved' = [reserved EXCEPT ![r] = bytes]
            /\ expected' = [expected EXCEPT ![r] = bytes]
         \/ /\ inode[r] = leaf[r]
            /\ ~FitsBudget(r, bytes)
            /\ stopped = {}
            /\ Throw(r, "refused", readBytes, reserved[r], {"limit"})
            /\ UNCHANGED expected
      /\ UNCHANGED <<host, path, guard, leaf, inode, offset, handle, hasSlot,
                     activeReads, verdict>>

\* The end of the file before the buffer is full: the source changed.
\* Mutant first: what was read is returned, in the buffer of the full size.
EndsWithBuffer(r) ==
  /\ outcome' = [outcome EXCEPT ![r] = "content"]
  /\ pc' = [pc EXCEPT ![r] = "close"]
  /\ BudgetSame
  /\ UNCHANGED stopped

EndsShort(r) == Throw(r, "source", readBytes, reserved[r], {})

\* One chunk of readVerifiedContent.
ChunkReturns(r) ==
  /\ pc[r] = "chunk"
  /\ \/ /\ ReturnsInVain(r)
        /\ UNCHANGED offset
     \/ /\ offset[r] < size[inode[r]]
        /\ Continue(r, IF offset[r] + 1 = expected[r] THEN "probe" ELSE "chunk")
        /\ offset' = [offset EXCEPT ![r] = @ + 1]
        /\ BudgetSame
     \/ /\ offset[r] >= size[inode[r]]
        /\ stopped = {}
        /\ EndsShort(r)
        /\ UNCHANGED offset
  /\ UNCHANGED <<host, path, guard, leaf, inode, expected, handle, hasSlot,
                 activeReads, verdict>>

\* The byte after the last: a file that grew exceeds what was reserved.
ProbeReturns(r) ==
  /\ pc[r] = "probe"
  /\ \/ ReturnsInVain(r)
     \/ /\ size[inode[r]] > offset[r]
        /\ stopped = {}
        /\ Throw(r, "refused", readBytes, reserved[r], {"limit"})
     \/ /\ size[inode[r]] =< offset[r]
        /\ stopped = {}
        /\ outcome' = [outcome EXCEPT ![r] = "content"]
        /\ pc' = [pc EXCEPT ![r] = "close"]
        /\ BudgetSame
        /\ UNCHANGED stopped
  /\ UNCHANGED <<host, locals, handle, hasSlot, activeReads, verdict>>

\* The locals of the read go out of scope, but what its content is made of.
Forget(r) ==
  /\ guard' = [guard EXCEPT ![r] = NoInode]
  /\ leaf' = [leaf EXCEPT ![r] = NoInode]
  /\ inode' = [inode EXCEPT ![r] = NoInode]
  /\ UNCHANGED <<path, expected, offset>>

\* Mutant first: a read without content keeps its slot.
SlotKept(r) == IF hasSlot[r] /\ outcome[r] = "content" THEN 1 ELSE 0

\* The finally of readHostFile: the handle it has is closed, the slot goes
\* back.
HandleClosed(h) == IF h = "open" THEN "closed" ELSE h
SlotGivenBack(r) == IF hasSlot[r] THEN 1 ELSE 0

\* Mutant: only the guard's own finding is remembered.
GuardFoundChange(r) == ~rootSame \/ at[path[r]] # guard[r]

\* whileGuarded: a file that changed under the read is remembered for the
\* whole request.
SourceChanged(r) ==
  \/ ~rootSame
  \/ at[path[r]] # guard[r]
  \/ outcome[r] = "source"

\* ... then the checks around it: whileRequestOpen once more when there is
\* content, the path guard in any case.
CloseReturns(r) ==
  /\ pc[r] = "close"
  /\ pc' = [pc EXCEPT ![r] = "done"]
  /\ handle' = [handle EXCEPT ![r] = HandleClosed(@)]
  /\ hasSlot' = [hasSlot EXCEPT ![r] = FALSE]
  /\ activeReads' = activeReads - SlotGivenBack(r)
  /\ outcome' = [outcome EXCEPT ![r] =
       IF SourceChanged(r) \/ @ = "source" \/ (@ = "content" /\ stopped # {})
       THEN "refused" ELSE @]
  /\ stopped' = IF SourceChanged(r) THEN stopped \cup {"source"} ELSE stopped
  /\ Forget(r)
  /\ BudgetSame
  /\ UNCHANGED <<host, verdict>>

(***************************************************************************)
(* The run.  The script ends when it has what it waits for: all its reads, *)
(* or, where a command gives up on the first error, one that failed.       *)
(***************************************************************************)
ScriptEnds ==
  /\ verdict = "none"
  /\ \/ \A r \in Reads : pc[r] \in {"ready", "done"}
     \/ \E r \in Reads : Settled(r) /\ outcome[r] # "content"
  /\ verdict' = IF "source" \in stopped \/ ~rootSame THEN "source"
                ELSE IF "limit" \in stopped THEN "limit" ELSE "success"
  /\ UNCHANGED <<host, pc, locals, handle, reserved, hasSlot, outcome,
                 readBytes, activeReads, stopped>>

\* The request is interrupted: its deadline, or the end of the serve.
Cancel ==
  /\ verdict = "none"
  /\ verdict' = "interrupted"
  /\ stopped' = stopped \cup {"cancelled"}
  /\ UNCHANGED <<host, pc, locals, handle, reserved, hasSlot, outcome,
                 readBytes, activeReads>>

\* The user goes on working in the served root.
Edit ==
  /\ edits < MaxEdits
  /\ edits' = edits + 1
  /\ \/ /\ \E f \in Files, n \in 0..MaxSize :
             n # size[at[f]] /\ size' = [size EXCEPT ![at[f]] = n]
        /\ UNCHANGED <<at, rootSame>>
     \/ /\ \E f \in Files, n \in 0..MaxSize :
             LET fresh == Cardinality(Files) + edits'
             IN  /\ at' = [at EXCEPT ![f] = fresh]
                 /\ size' = [size EXCEPT ![fresh] = n]
        /\ UNCHANGED rootSame
     \/ /\ rootSame /\ rootSame' = FALSE
        /\ UNCHANGED <<at, size>>
  /\ UNCHANGED <<pc, locals, handle, reserved, hasSlot, outcome, readBytes,
                 activeReads, stopped, verdict>>

Next ==
  \/ \E r \in Reads :
       \/ StartRead(r) \/ LstatReturns(r) \/ OpenReturns(r) \/ FstatReturns(r)
       \/ ChunkReturns(r) \/ ProbeReturns(r) \/ CloseReturns(r)
  \/ ScriptEnds \/ Cancel \/ Edit

Spec == Init /\ [][Next]_vars

-----------------------------------------------------------------------------
\* The bytes of the budget that a read still has.
Holds(r) == IF Failed(r) THEN 0 ELSE reserved[r]
Spent == UNION {{r} \X (1..Holds(r)) : r \in Reads}

\* The run reads no more than its budget.  While the request is open, the
\* budget used is what the reads under way have reserved and what the
\* finished ones returned, no more and no less: a read that failed, or whose
\* file changed its size between the lstat and the open, leaves nothing
\* behind that another read would miss.
BudgetIsAccounted ==
  /\ readBytes \in 0..MaxRead
  /\ stopped = {} => readBytes = Cardinality(Spent)

\* However a read ends, its slot is free for another and its file is closed:
\* the slots in use are those of reads under way.  The exception is a file
\* whose open returned after the request had been stopped.
ResourcesAreReturned ==
  /\ activeReads <= MaxSlots
  /\ activeReads = Cardinality({r \in Reads : hasSlot[r]})
  /\ \A r \in Reads : Settled(r) => ~hasSlot[r] /\ handle[r] # "open"
  /\ \A r \in Reads : handle[r] = "lost" => stopped # {}

\* Content a command gets is whole: the buffer (allocated uninitialised) is
\* filled to its end, and paid for in full.
ContentIsWhole ==
  \A r \in Reads : outcome[r] = "content" =>
    offset[r] = expected[r] /\ reserved[r] = expected[r]

\* The verdict `success' is given only when no read that settled before was
\* refused, by a limit or for a source that changed: a command that hides
\* the error of a read from the script's exit code does not hide it from
\* the caller.
RefusalReachesVerdict ==
  [][verdict = "none" /\ verdict' = "success" =>
       \A r \in Reads : Settled(r) => outcome[r] \in {"content", "error"}]_vars
=============================================================================
