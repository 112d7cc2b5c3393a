--------------------------- MODULE DetachedServe ---------------------------
(***************************************************************************)
(* Detached serves (apps/dumbridge/src/bridge/detached-serve.ts): several  *)
(* dumbridge commands, each a process of its own, start, stop and list     *)
(* bridge processes that run without a terminal.  Nothing but the          *)
(* operating system coordinates them: the process table, one record file   *)
(* per served root in the state directory, and the wall clock.             *)
(*                                                                         *)
(* A step is one system call: a file is read, removed, created or filled,  *)
(* a pid is probed or signalled.  Processes may die and their pids be      *)
(* reused, the machine may restart, a command may be interrupted or killed *)
(* between any two steps, and any file operation may fail.                 *)
(***************************************************************************)
EXTENDS Integers, FiniteSets

CONSTANTS
  Commands,     \* invocations of serve --detach, --stop and --status
  Operations,   \* the operations they may ask for
  RootCount,    \* served roots, numbered in the order of their record files
  Pids,
  Nobody,       \* no command, no pid
  BootSlack,    \* bootTimeMs may be wrong by this much (a minute)
  DownTime,     \* how long a restart of the machine takes
  MaxInFlight,  \* bound: commands that run at the same time
  LastRestart,  \* bound: the machine restarts no later than this
  MaxReuse      \* bound: pids that unrelated processes take

ASSUME CommandsAssumption == Nobody \notin Commands \cup Pids
ASSUME OperationsAssumption == Operations \subseteq {"detach", "stop", "list"}
ASSUME RootCountAssumption == RootCount \in Nat \ {0}
ASSUME ClockAssumption == BootSlack \in Nat /\ DownTime \in Nat

VARIABLES
  os,       \* the process table
  files,    \* the record files of the state directory
  command,  \* where each command is in its function
  now,      \* Date.now()
  boot,     \* the time of the last start of the machine
  reused,   \* pids taken by unrelated processes so far
  everServe,\* pids that were a bridge process since the last restart
  overlapped \* history: a command began while another was running

vars == <<os, files, command, now, boot, reused, everServe, overlapped>>

Roots == 1..RootCount
Legacy == RootCount + 1          \* detached-serve.json sorts after the others
Files == 1..Legacy
AnyRoot == 0                     \* serve --stop and --status without a root
-----------------------------------------------------------------------------
(* Processes.  A bridge process remembers the command that spawned it.     *)
Free == [kind |-> "free"]
Serve(c, root) ==
  [kind |-> "serve", by |-> c, root |-> root, signalled |-> FALSE]
Others == {[kind |-> "other", signalled |-> s] : s \in BOOLEAN}
            \cup {[kind |-> "foreign"]}      \* of another user

IsServe(p) == os[p].kind = "serve"

(* process.kill(pid, 0): a process of another user cannot be probed.       *)
IsAlive(p) == os[p].kind \in {"serve", "other"}

Signal(p) ==
  os' = IF IsAlive(p) THEN [os EXCEPT ![p].signalled = TRUE] ELSE os

(* The process c spawned, as long as it lives.                             *)
OwnServe(c) == {p \in Pids : IsServe(p) /\ os[p].by = c}

(* child.kill goes through the handle of the child, never to a reused pid. *)
SignalChild(c) ==
  os' = [p \in Pids |-> IF p \in OwnServe(c)
                          THEN [os[p] EXCEPT !.signalled = TRUE] ELSE os[p]]
-----------------------------------------------------------------------------
(* Record files.  A file that was created and not filled yet decodes as    *)
(* unreadable; it remembers whose write is pending.                        *)
Absent == [type |-> "absent"]
Unreadable(c) == [type |-> "unreadable", by |-> c]
Record(p, root, time) ==
  [type |-> "record", pid |-> p, root |-> root, started |-> time]

IsRecord(stored) == stored.type = "record"

SameRecord(left, right) ==
  left.pid = right.pid /\ left.started = right.started

Unchanged(current, seen) ==
  \/ current.type = "unreadable" /\ seen.type = "unreadable"
  \/ IsRecord(current) /\ IsRecord(seen) /\ SameRecord(current, seen)

(* A variant without the boot time.                                        *)
RecordIsLiveIgnoringBoot(stored) == IsRecord(stored) /\ IsAlive(stored.pid)

(* A variant that applies the slack in the wrong direction.                *)
RecordIsLiveWithoutSlack(stored) ==
  /\ IsRecord(stored)
  /\ stored.started >= boot + BootSlack
  /\ IsAlive(stored.pid)

(* Written since the machine started, give or take the slack, and its pid  *)
(* alive.  A restart may take less time than the slack.                    *)
RecordIsLive(stored) ==
  /\ IsRecord(stored)
  /\ stored.started >= boot - BootSlack
  /\ IsAlive(stored.pid)
-----------------------------------------------------------------------------
(* Commands.  unread: files to read; entries: records read and not         *)
(* examined yet; live: records whose process is alive; target: the bridge  *)
(* that serve --stop signalled, told apart by who spawned it.              *)
NewCommand == [op |-> "none", root |-> AnyRoot, pc |-> "idle", unread |-> {},
               entries |-> {}, live |-> {}, key |-> FALSE, pid |-> Nobody,
               target |-> {}, result |-> "none"]

At(c, pc) == command[c].pc = pc
Running(c) == command[c].pc \notin {"idle", "done"}

Goto(c, pc) == command' = [command EXCEPT ![c].pc = pc]
Finished(c, result) ==
  [NewCommand EXCEPT !.op = command[c].op, !.target = command[c].target,
                     !.pc = "done", !.result = result]
Return(c, result) == command' = [command EXCEPT ![c] = Finished(c, result)]

Entry(f, stored) == [file |-> f, stored |-> stored]

(* The entries are examined in the order of their files.                   *)
IsFirst(c, e) ==
  e \in command[c].entries /\ \A d \in command[c].entries : e.file <= d.file

Init ==
  /\ os \in [Pids -> {Free} \cup {Serve(Nobody, r) : r \in Roots}]
  /\ \A p, q \in Pids : IsServe(p) /\ IsServe(q) => p = q
  /\ files = [f \in Files |->
       IF f = Legacy /\ \E p \in Pids : IsServe(p)
         THEN LET p == CHOOSE q \in Pids : IsServe(q)
              IN  Record(p, os[p].root, 0)
         ELSE Absent]
  /\ command = [c \in Commands |-> NewCommand]
  /\ now = 1 /\ boot = 0 /\ reused = 0
  /\ everServe = {p \in Pids : IsServe(p)}
  /\ overlapped = FALSE

OsUnchanged == UNCHANGED <<now, boot, reused, everServe, overlapped>>
OnlyCommand == UNCHANGED <<os, files>> /\ OsUnchanged
-----------------------------------------------------------------------------
(* What each function reads: detachServe and stopDetachedServe with a root *)
(* the root's file, then the legacy one; without a root every record file  *)
(* readdir returns, in any order.                                          *)
Begin(c) ==
  /\ At(c, "idle")
  /\ Cardinality({d \in Commands : Running(d)}) < MaxInFlight
  /\ \E op \in Operations, root \in Roots \cup {AnyRoot} :
       /\ op = "detach" => root # AnyRoot
       /\ op = "list" => root = AnyRoot
       /\ command' = [command EXCEPT ![c].op = op, ![c].root = root, ![c].pc = "read",
            ![c].unread = IF root = AnyRoot THEN {f \in Files : files[f] # Absent}
                          ELSE {root, Legacy}]
  /\ overlapped' = (overlapped \/ \E d \in Commands : Running(d))
  /\ UNCHANGED <<os, files, now, boot, reused, everServe>>

(* recordEntriesForRoot takes the legacy record for its own root, or when  *)
(* it cannot be decoded.                                                   *)
Concerns(c, f, stored) ==
  /\ stored # Absent
  /\ command[c].root = AnyRoot \/ f # Legacy \/ ~IsRecord(stored)
       \/ stored.root = command[c].root

ReadRecord(c) ==
  /\ At(c, "read")
  /\ \E f \in command[c].unread :
       /\ command[c].root = AnyRoot \/ f # Legacy \/ command[c].unread = {Legacy}
       /\ command' = [command EXCEPT
            ![c].unread = @ \ {f},
            ![c].entries = IF Concerns(c, f, files[f])
                             THEN @ \cup {Entry(f, files[f])} ELSE @]
  /\ OnlyCommand

AllRead(c) ==
  /\ At(c, "read") /\ command[c].unread = {}
  /\ IF command[c].op = "stop" /\ command[c].entries = {}
       THEN Return(c, "not-running") ELSE Goto(c, "examine")
  /\ OnlyCommand
-----------------------------------------------------------------------------
(* The loop over the entries; e is the first of those that are left.       *)
FoundLive(c, e) ==
  /\ At(c, "examine") /\ RecordIsLive(e.stored)
  /\ IF command[c].op = "detach"
       THEN Return(c, "already-running")
       ELSE command' = [command EXCEPT ![c].live = @ \cup {e}, ![c].entries = @ \ {e}]
  /\ OnlyCommand

SkipUnreadable(c, e) ==
  /\ At(c, "examine") /\ command[c].op = "list" /\ ~IsRecord(e.stored)
  /\ command' = [command EXCEPT ![c].entries = @ \ {e}]
  /\ OnlyCommand

FoundStale(c, e) ==
  /\ At(c, "examine") /\ ~RecordIsLive(e.stored)
  /\ command[c].op = "list" => IsRecord(e.stored)
  /\ Goto(c, "reread")
  /\ OnlyCommand

(* removeRecordIfUnchanged: one read, and then the removal, by name.       *)
AfterRemoval(c, e) ==
  IF command[c].op = "stop" /\ command[c].pid # Nobody
    THEN Return(c, "stopped")
    ELSE command' = [command EXCEPT ![c].pc = "examine", ![c].entries = @ \ {e}]

RereadRecord(c, e) ==
  /\ At(c, "reread")
  /\ IF Unchanged(files[e.file], e.stored) THEN Goto(c, "remove") ELSE AfterRemoval(c, e)
  /\ OnlyCommand

RemoveRecord(c, e) ==
  /\ At(c, "remove")
  /\ files' = [files EXCEPT ![e.file] = Absent]
  /\ AfterRemoval(c, e)
  /\ UNCHANGED os /\ OsUnchanged

ExamineEntry(c) ==
  \E e \in command[c].entries :
    /\ IsFirst(c, e)
    /\ \/ FoundLive(c, e) \/ SkipUnreadable(c, e) \/ FoundStale(c, e)
       \/ RereadRecord(c, e) \/ RemoveRecord(c, e)

AllExamined(c) ==
  /\ At(c, "examine") /\ command[c].entries = {}
  /\ \/ command[c].op = "detach" /\ Goto(c, "spawn")
     \/ command[c].op = "list" /\ Return(c, "listed")
     \/ /\ command[c].op = "stop" /\ command[c].live = {}
        /\ Return(c, "stale-record-removed")
     \/ /\ command[c].op = "stop" /\ Cardinality(command[c].live) > 1
        /\ Return(c, "multiple-running")
     \/ /\ command[c].op = "stop"
        /\ \E only \in command[c].live :
             /\ command[c].live = {only}
             /\ command' = [command EXCEPT ![c].pc = "terminate", ![c].entries = {only},
                              ![c].pid = only.stored.pid]
  /\ OnlyCommand
-----------------------------------------------------------------------------
(* spawnDetachedServe: the child prints its key and the command takes it,  *)
(* unless the child exits first or thirty seconds pass.                    *)

(* fork and exec; the child listens before it prints anything.             *)
Spawn(c) ==
  /\ At(c, "spawn")
  /\ \E p \in Pids :
       /\ os[p] = Free
       /\ os' = [os EXCEPT ![p] = Serve(c, command[c].root)]
       /\ everServe' = everServe \cup {p}
       /\ command' = [command EXCEPT ![c].pc = "startup", ![c].pid = p]
  /\ UNCHANGED <<files, now, boot, reused, overlapped>>

SpawnFails(c) ==
  /\ At(c, "spawn")
  /\ Return(c, "startup-failed")
  /\ OnlyCommand

PrintKey(c) ==
  /\ At(c, "startup") /\ OwnServe(c) # {} /\ ~command[c].key
  /\ command' = [command EXCEPT ![c].key = TRUE]
  /\ OnlyCommand

TakeKey(c) ==
  /\ At(c, "startup") /\ command[c].key
  /\ Goto(c, "create")
  /\ OnlyCommand

(* The child's output ended without a key.                                 *)
ChildCloses(c) ==
  /\ At(c, "startup") /\ OwnServe(c) = {} /\ ~command[c].key
  /\ Return(c, "startup-failed")
  /\ OnlyCommand

StartupDeadline(c) ==
  /\ At(c, "startup")
  /\ Return(c, "startup-failed")
  /\ SignalChild(c)
  /\ UNCHANGED files /\ OsUnchanged

(* writeRecord: flag "wx" creates the file or finds it taken; its content  *)
(* follows in a second call, and lands nowhere if the file has been        *)
(* removed meanwhile.  When writing fails, detachServe terminates the pid. *)
CreateRecord(c) ==
  /\ At(c, "create") /\ files[command[c].root] = Absent
  /\ files' = [files EXCEPT ![command[c].root] = Unreadable(c)]
  /\ Goto(c, "fill")
  /\ UNCHANGED os /\ OsUnchanged

(* A variant that leaves the bridge it spawned running.                    *)
RecordTakenButServing(c) ==
  /\ At(c, "create") /\ files[command[c].root] # Absent
  /\ Return(c, "already-running")
  /\ UNCHANGED <<os, files>> /\ OsUnchanged

RecordTaken(c) ==
  /\ At(c, "create") /\ files[command[c].root] # Absent
  /\ Return(c, "already-running")
  /\ Signal(command[c].pid)
  /\ UNCHANGED files /\ OsUnchanged

FillRecord(c) ==
  /\ At(c, "fill")
  /\ LET root == command[c].root IN
       files' = IF files[root] = Unreadable(c)
                  THEN [files EXCEPT ![root] = Record(command[c].pid, root, now)]
                  ELSE files
  /\ now' = now + 1
  /\ Return(c, "started")
  /\ UNCHANGED <<os, boot, reused, everServe, overlapped>>
-----------------------------------------------------------------------------
(* stopDetachedServe: signal the one live record's pid, poll it for ten    *)
(* seconds, and remove the record.                                         *)
Terminate(c) ==
  /\ At(c, "terminate")
  /\ IF os[command[c].pid].kind = "foreign"
       THEN Return(c, "terminate-failed") /\ UNCHANGED os
       ELSE /\ command' = [command EXCEPT ![c].pc = "wait",
                 ![c].target = {os[p].by : p \in {q \in Pids :
                                  q = command[c].pid /\ IsServe(q)}}]
            /\ Signal(command[c].pid)
  /\ UNCHANGED files /\ OsUnchanged

(* A variant that does not wait for the exit.                              *)
ExitAssumed(c) ==
  /\ At(c, "wait")
  /\ Goto(c, "reread")
  /\ OnlyCommand

ExitSeen(c) ==
  /\ At(c, "wait") /\ ~IsAlive(command[c].pid)
  /\ Goto(c, "reread")
  /\ OnlyCommand

(* A variant without the ten-second limit.                                 *)
StopTimesOutNever(c) == FALSE /\ UNCHANGED vars

StopTimesOut(c) ==
  /\ At(c, "wait") /\ IsAlive(command[c].pid)
  /\ Return(c, "stop-timeout")
  /\ OnlyCommand

(* Any file operation may fail with another error than the ones the code   *)
(* expects; a file already created stays behind.                           *)
FileOperationFails(c) ==
  /\ command[c].pc \in {"read", "reread", "remove", "create", "fill"}
  /\ Return(c, "state-io")
  /\ IF command[c].pc \in {"create", "fill"}
       THEN Signal(command[c].pid) ELSE UNCHANGED os
  /\ UNCHANGED files /\ OsUnchanged

CommandStep(c) ==
  \/ ReadRecord(c) \/ AllRead(c) \/ ExamineEntry(c) \/ AllExamined(c)
  \/ Spawn(c) \/ SpawnFails(c) \/ PrintKey(c) \/ TakeKey(c) \/ ChildCloses(c)
  \/ StartupDeadline(c) \/ CreateRecord(c) \/ RecordTaken(c) \/ FillRecord(c)
  \/ Terminate(c) \/ ExitSeen(c) \/ StopTimesOut(c) \/ FileOperationFails(c)
-----------------------------------------------------------------------------
(* The environment.  Interrupting a command aborts its spawn, which        *)
(* signals the child; killing it does not.                                 *)
Interrupt(c) ==
  /\ Running(c)
  /\ Return(c, "gone")
  /\ IF At(c, "startup") THEN SignalChild(c) ELSE UNCHANGED os
  /\ UNCHANGED files /\ OsUnchanged

Kill(c) ==
  /\ Running(c)
  /\ Return(c, "gone")
  /\ OnlyCommand

ProcessExits(p) ==
  /\ os[p] # Free
  /\ os' = [os EXCEPT ![p] = Free]
  /\ UNCHANGED <<files, command>> /\ OsUnchanged

PidReused(p) ==
  /\ os[p] = Free /\ reused < MaxReuse
  /\ \E other \in {o \in Others : o.kind = "other" => ~o.signalled} :
       os' = [os EXCEPT ![p] = other]
  /\ reused' = reused + 1
  /\ UNCHANGED <<files, command, now, boot, everServe, overlapped>>

Restart ==
  /\ now + DownTime <= LastRestart
  /\ now' = now + DownTime
  /\ boot' = now'
  /\ os' = [p \in Pids |-> Free]
  /\ command' = [c \in Commands |->
       IF Running(c) THEN Finished(c, "gone") ELSE command[c]]
  /\ everServe' = {}
  /\ UNCHANGED <<files, reused, overlapped>>

Next ==
  \/ \E c \in Commands : Begin(c) \/ CommandStep(c) \/ Interrupt(c) \/ Kill(c)
  \/ \E p \in Pids : ProcessExits(p) \/ PidReused(p)
  \/ Restart

(* A command that runs goes on running: Effect's fiber is always scheduled *)
(* and its timers fire.  Nothing is assumed of the other processes: a      *)
(* bridge need not print its key, and need not obey SIGTERM.               *)
Spec == Init /\ [][Next]_vars
FairSpec == Spec /\ \A c \in Commands : WF_vars(CommandStep(c))
-----------------------------------------------------------------------------
(* A process whose detach told the user its key, or that an earlier        *)
(* version of dumbridge started, and that nobody asked to end.             *)
Announced(p) ==
  /\ IsServe(p) /\ ~os[p].signalled
  /\ os[p].by # Nobody => command[os[p].by].result = "started"

(* "Several may run at once, at most one per served root" (CONTEXT.md):    *)
(* no two announced bridges share a root.                                  *)
AtMostOnePerRoot ==
  \A p, q \in Pids :
    Announced(p) /\ Announced(q) /\ os[p].root = os[q].root => p = q

(* Commands that run one after the other, and are killed at any point, see *)
(* to it that no two announced bridges share a root and that each is named *)
(* by a record of its root: serve --status shows it, and serve --stop can  *)
(* end it and revoke its key.                                              *)
AnnouncedIsRecorded ==
  ~overlapped =>
    /\ AtMostOnePerRoot
    /\ \A p \in Pids : Announced(p) =>
         \E f \in Files : /\ IsRecord(files[f])
                          /\ files[f].pid = p /\ files[f].root = os[p].root

(* A detach that reports an error has ended the bridge it spawned, or has  *)
(* signalled it: no key that was never shown stays valid.                  *)
FailedDetachEndsItsServe ==
  \A c \in Commands :
    command[c].op = "detach" /\ command[c].result \notin {"none", "started", "gone"}
      => \A p \in OwnServe(c) : os[p].signalled

(* serve --stop says "stopped" only when the bridge it signalled has gone, *)
(* whatever became of its record and of its pid meanwhile.                 *)
StoppedHasExited ==
  \A c \in Commands : command[c].result = "stopped" =>
    \A p \in Pids : IsServe(p) => os[p].by \notin command[c].target

(* The record serve --stop acts on is older than the machine's start, but  *)
(* within the slack: recordIsLive cannot tell it from a record of now.     *)
ActsInSlack(p) ==
  \E c \in Commands : At(c, "terminate") /\ \E e \in command[c].entries :
    e.stored.pid = p /\ boot - BootSlack <= e.stored.started /\ e.stored.started < boot

(* Of the pids that were no bridge's since the machine started, only one   *)
(* named by a record from the last BootSlack before that start is ever     *)
(* signalled, and only by serve --stop: an older record never leads to an  *)
(* unrelated process that got its pid, and a failing detach never does.    *)
(* After a quick restart a record within the slack does (detached-serve.ts *)
(* :284): the code accepts that, and so does this property.                *)
SignalsOnlyServePids ==
  [][\A p \in Pids :
       IsAlive(p) /\ ~os[p].signalled /\ os'[p].kind = os[p].kind
         /\ os'[p].signalled => p \in everServe \/ ActsInSlack(p)]_vars

(* Every command ends, whatever the other processes do: one that stops a   *)
(* bridge that ignores SIGTERM reports a timeout, one whose bridge never   *)
(* prints its key gives up.                                                *)
CommandsEnd == \A c \in Commands : Running(c) ~> At(c, "done")
=============================================================================
