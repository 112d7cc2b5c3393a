------------------------ MODULE DetachedServeProofs ------------------------
(***************************************************************************)
(* Proofs about DetachedServe, for any number of commands, pids and served *)
(* roots.                                                                  *)
(*                                                                         *)
(* Five facts carry them.  A record that was written since the machine     *)
(* started names a pid that was a bridge's since then (Fits); a command    *)
(* that spawned a process holds such a pid, and serve --stop one that a    *)
(* record within the slack names (Knows).  A command has spawned one       *)
(* process at the most, and knows it until it is done (Owns).  The bridge  *)
(* that serve --stop signalled is the only one its spawner will ever have  *)
(* (Hits).  And a command that runs alone has read the files as they still *)
(* are, so that what it removes names no announced bridge (Alone).         *)
(***************************************************************************)
EXTENDS DetachedServe, TLAPS

-----------------------------------------------------------------------------
(* Types.                                                                  *)
Spawners == Commands \cup {Nobody}
ServeState ==
  [kind : {"serve"}, by : Spawners, root : Roots, signalled : BOOLEAN]
Processes == {Free} \cup Others \cup ServeState

RecordState == [type : {"record"}, pid : Pids, root : Roots, started : Int]
Unreadables == [type : {"unreadable"}, by : Commands]
Entries == [file : Files, stored : Unreadables \cup RecordState]

Places == {"idle", "read", "examine", "reread", "remove", "spawn", "startup", "create", "fill",
           "terminate", "wait", "done"}
Results == {"none", "not-running", "already-running", "stopped", "listed",
            "stale-record-removed", "multiple-running", "startup-failed", "started",
            "terminate-failed", "stop-timeout", "state-io", "gone"}
CommandState ==
  [op : {"none", "detach", "stop", "list"}, root : Roots \cup {AnyRoot}, pc : Places,
   unread : SUBSET Files, entries : SUBSET Entries, live : SUBSET Entries, key : BOOLEAN,
   pid : Pids \cup {Nobody}, target : SUBSET Spawners, result : Results]

TypeOK ==
  /\ os \in [Pids -> Processes]
  /\ files \in [Files -> {Absent} \cup Unreadables \cup RecordState]
  /\ command \in [Commands -> CommandState]
  /\ now \in Int /\ boot \in Int /\ boot <= now
  /\ everServe \subseteq Pids
  /\ overlapped \in BOOLEAN

-----------------------------------------------------------------------------
(* Where a command is in its function: r is its record.                    *)
HasChild == {"startup", "create", "fill"}
IsStopping(r) == r.op = "stop" /\ r.pid # Nobody
Place(r) ==
  /\ r.pc = "idle" => r = NewCommand
  /\ r.result # "none" <=> r.pc = "done"
  /\ r.op = "detach" /\ r.pc # "done" => r.root # AnyRoot
  /\ r.unread # {} => r.pc = "read"
  /\ r.pc \in {"read", "done"} => r.live = {}
  /\ r.pc = "done" => r.entries = {}
  /\ r.pc \in {"read", "examine", "spawn", "done"} => r.pid = Nobody
  /\ r.pc = "spawn" => r.op = "detach"
  /\ r.pc \in HasChild => r.op = "detach" /\ r.pid # Nobody
  /\ r.pc \in {"terminate", "wait"} => IsStopping(r)
  /\ r.pc \in {"reread", "remove"} /\ r.pid # Nobody => IsStopping(r)
  /\ IsStopping(r) =>
       \E only : r.entries = {only} /\ IsRecord(only.stored) /\ only.stored.pid = r.pid

-----------------------------------------------------------------------------
(* Records and pids.                                                       *)
Recent(stored) == stored.started >= boot
\* What recordIsLive asks of the time.
InSlack(stored) == stored.started >= boot - BootSlack
Fits(stored) ==
  IsRecord(stored) =>
    stored.started < now /\ (Recent(stored) => stored.pid \in everServe)
Knows(r) ==
  /\ r.pid # Nobody => IF r.pc \in HasChild THEN r.pid \in everServe
                       ELSE \A e \in r.entries : InSlack(e.stored)
  /\ \A e \in r.entries \cup r.live : Fits(e.stored)
  /\ \A e \in r.live : IsRecord(e.stored) /\ InSlack(e.stored)
Records ==
  /\ \A f \in Files : Fits(files[f])
  /\ \A c \in Commands : Knows(command[c])

-----------------------------------------------------------------------------
(* Bridge processes and the commands that spawned them.                    *)
\* Process o, at pid p, was spawned by the command whose record is r.
Owns(r, p, o) ==
  /\ r.op = "detach"
  /\ \/ r.pc \in HasChild /\ r.pid = p /\ r.root = o.root
     \/ r.pc = "done" /\ (r.result \in {"started", "gone"} \/ o.signalled)
Serves ==
  /\ \A p \in Pids : IsServe(p) =>
       /\ p \in everServe
       /\ os[p].by # Nobody => Owns(command[os[p].by], p, os[p])
  /\ \A p, q \in Pids : IsServe(p) /\ IsServe(q) /\ os[p].by = os[q].by => p = q

-----------------------------------------------------------------------------
(* What serve --stop signalled.                                            *)
HitsGone(r) == r.result = "stopped" \/ (r.pc \in {"reread", "remove"} /\ IsStopping(r))
Hits(r) ==
  /\ \A b \in r.target : b # Nobody => command[b].pc \in HasChild \cup {"done"}
  /\ \A p \in Pids : IsServe(p) /\ os[p].by \in r.target =>
       /\ r.pc = "wait" => p = r.pid
       /\ ~HitsGone(r)
Targets == \A c \in Commands : Hits(command[c])

-----------------------------------------------------------------------------
(* Commands that run one after the other.                                  *)
\* A record of the bridge at p that serve --detach would find to be live.
Names(stored, p) ==
  IsRecord(stored) /\ stored.pid = p /\ stored.root = os[p].root /\ Recent(stored)

Looks == {"read", "examine", "reread", "remove"}
\* What the command that runs knows of the files, and of the announced bridges of
\* the root it wants to serve.
Reads(r) ==
  /\ \A e \in r.entries \cup r.live : files[e.file] = e.stored
  /\ ~IsStopping(r) => r.entries \cap r.live = {}
  /\ r.pc \in {"reread", "remove"} =>
       \A e \in r.entries : (\A d \in r.entries : e.file <= d.file) =>
         \A p \in Pids : Announced(p) => ~Names(e.stored, p)
  /\ r.op = "detach" =>
       \A p \in Pids : Announced(p) /\ os[p].root = r.root =>
         /\ r.pc \in Looks
         /\ \E f \in {r.root, Legacy} :
              Names(files[f], p) /\ (f \in r.unread \/ Entry(f, files[f]) \in r.entries)
Alone ==
  /\ \A c, d \in Commands : Running(c) /\ Running(d) => c = d
  /\ \A p \in Pids : Announced(p) =>
       \E f \in {os[p].root, Legacy} : Names(files[f], p)
  /\ AtMostOnePerRoot
  /\ \A c \in Commands : Running(c) =>
       /\ Reads(command[c])
       /\ At(c, "fill") => files[command[c].root] = Unreadable(c)

IInv ==
  /\ TypeOK
  /\ \A c \in Commands : Place(command[c])
  /\ Records
  /\ Serves
  /\ Targets
  /\ ~overlapped => Alone

-----------------------------------------------------------------------------
(* Steps.                                                                  *)
Becomes(c, r) == command' = [command EXCEPT ![c] = r]

\* No process becomes a bridge process, and none forgets a signal.
NoNewServe ==
  /\ os' \in [Pids -> Processes]
  /\ \A p \in Pids : IsServe(p)' =>
       /\ IsServe(p) /\ os'[p].by = os[p].by /\ os'[p].root = os[p].root
       /\ os[p].signalled => os'[p].signalled

Clocks == UNCHANGED <<now, boot, everServe, overlapped>>

\* The kinds of processes, told apart.
LEMMA ProcessKinds ==
  ASSUME NEW o \in Processes
  PROVE  /\ o.kind \in {"free", "serve", "other", "foreign"}
         /\ o.kind = "serve" <=> o \in ServeState
         /\ o.kind = "other" => o.signalled \in BOOLEAN
         /\ Free.kind = "free"
BY DEF Processes, Free, Others, ServeState

\* A process that is signalled stays what it is.
LEMMA SignalledProcess ==
  ASSUME NEW o \in Processes, o.kind \in {"serve", "other"}
  PROVE  /\ [o EXCEPT !.signalled = TRUE] \in Processes
         /\ [o EXCEPT !.signalled = TRUE].kind = o.kind
         /\ [o EXCEPT !.signalled = TRUE].signalled
         /\ o.kind = "serve" => /\ [o EXCEPT !.signalled = TRUE].by = o.by
                                /\ [o EXCEPT !.signalled = TRUE].root = o.root
<1>1. CASE o.kind = "serve"
  <2>1. o \in ServeState
    BY <1>1, ProcessKinds
  <2>2. [o EXCEPT !.signalled = TRUE] \in ServeState
    BY <2>1 DEF ServeState
  <2>3. QED
    BY <1>1, <2>1, <2>2 DEF ServeState, Processes
<1>2. CASE o.kind = "other"
  <2> DEFINE T == [kind : {"other"}, signalled : BOOLEAN]
  <2>1. o \in T
    BY <1>2 DEF Processes, Free, Others, ServeState
  <2>2. /\ [o EXCEPT !.signalled = TRUE] \in T
        /\ [o EXCEPT !.signalled = TRUE].signalled
    BY <2>1
  <2>3. T \subseteq Others
    BY DEF Others
  <2>4. QED
    BY <1>2, <2>2, <2>3 DEF Processes
<1>3. QED
  BY <1>1, <1>2

\* process.kill of one pid.
LEMMA SignalOne ==
  ASSUME TypeOK, NEW p \in Pids, Signal(p)
  PROVE  /\ NoNewServe
         /\ IsServe(p) => os'[p].signalled
         /\ \A q \in Pids : os'[q] = os[q] \/ (q = p /\ IsAlive(p))
<1>1. CASE IsAlive(p)
  <2>1. os' = [os EXCEPT ![p] = [os[p] EXCEPT !.signalled = TRUE]] /\ os[p] \in Processes
    BY <1>1 DEF Signal, TypeOK
  <2>2. os'[p] = [os[p] EXCEPT !.signalled = TRUE]
    BY <2>1 DEF TypeOK
  <2>3. /\ os'[p] \in Processes /\ os'[p].kind = os[p].kind /\ os'[p].signalled
        /\ IsServe(p) => os'[p].by = os[p].by /\ os'[p].root = os[p].root
    BY <1>1, <2>1, <2>2, SignalledProcess DEF IsAlive, IsServe
  <2>4. \A q \in Pids \ {p} : os'[q] = os[q]
    BY <2>1 DEF TypeOK
  <2>5. QED
    BY <1>1, <2>1, <2>3, <2>4 DEF NoNewServe, IsServe, TypeOK
<1>2. CASE ~IsAlive(p)
  BY <1>2 DEF Signal, NoNewServe, IsAlive, IsServe, TypeOK
<1>3. QED
  BY <1>1, <1>2

\* child.kill.
LEMMA SignalOwn ==
  ASSUME TypeOK, NEW c \in Commands, SignalChild(c)
  PROVE  /\ NoNewServe
         /\ \A p \in OwnServe(c) : os'[p].signalled
         /\ \A p \in Pids : os'[p] = os[p] \/ p \in OwnServe(c)
<1>1. ASSUME NEW p \in Pids, p \in OwnServe(c)
      PROVE  /\ os'[p] \in Processes /\ IsServe(p)' /\ os'[p].signalled
             /\ IsServe(p) /\ os'[p].by = os[p].by /\ os'[p].root = os[p].root
  <2>1. os'[p] = [os[p] EXCEPT !.signalled = TRUE] /\ os[p] \in Processes
    BY <1>1 DEF SignalChild, TypeOK
  <2>2. IsServe(p)
    BY <1>1 DEF OwnServe
  <2>3. QED
    BY <2>1, <2>2, SignalledProcess DEF IsServe
<1>2. ASSUME NEW p \in Pids, p \notin OwnServe(c)
      PROVE  os'[p] = os[p]
  BY <1>2 DEF SignalChild
<1>3. NoNewServe
  <2>1. os' \in [Pids -> Processes]
    <3>1. \A p \in Pids : os'[p] \in Processes
      BY <1>1, <1>2 DEF TypeOK
    <3>2. QED
      BY <3>1 DEF SignalChild
  <2>2. QED
    BY <1>1, <1>2, <2>1 DEF NoNewServe, IsServe
<1>4. QED
  BY <1>1, <1>2, <1>3 DEF OwnServe

\* A command that is done holds nothing but what it asked for, and what it signalled.
LEMMA FinishedIs ==
  ASSUME TypeOK, NEW c \in Commands, NEW result \in Results
  PROVE  LET r == Finished(c, result) IN
         /\ r \in CommandState /\ r.op = command[c].op /\ r.target = command[c].target
         /\ r.pc = "done" /\ r.result = result /\ r.pid = Nobody
         /\ r.entries = {} /\ r.live = {} /\ r.unread = {}
<1>1. /\ NewCommand \in CommandState /\ NewCommand.pid = Nobody /\ NewCommand.unread = {}
      /\ NewCommand.entries = {} /\ NewCommand.live = {}
  BY DEF NewCommand, CommandState, Places, Results, AnyRoot
<1>2. /\ command[c].op \in {"none", "detach", "stop", "list"}
      /\ command[c].target \in SUBSET Spawners
  BY DEF TypeOK, CommandState
<1>3. "done" \in Places
  BY DEF Places
<1>4. Finished(c, result) \in CommandState
  BY <1>1, <1>2, <1>3 DEF Finished, CommandState
<1>5. QED
  BY <1>1, <1>4 DEF Finished, CommandState

-----------------------------------------------------------------------------
(* A step of one command, under which no bridge process begins.            *)
Main ==
  /\ TypeOK
  /\ \A c \in Commands : Place(command[c])
  /\ Records
  /\ Serves
  /\ Targets

\* The pids and records that r holds are some of those that q holds.
KnowsLess(r, q) ==
  /\ r.pid \in {Nobody, q.pid}
  /\ r.pid # Nobody => (r.pc \in HasChild <=> q.pc \in HasChild)
  /\ r.entries \subseteq q.entries /\ r.live \subseteq q.live
\* r has hit what q has hit.
HitsSame(r, q) ==
  /\ r.target = q.target
  /\ r.pc = "wait" => q.pc = "wait" /\ r.pid = q.pid
  /\ HitsGone(r) => HitsGone(q)
  /\ q.pc \in HasChild \cup {"done"} => r.pc \in HasChild \cup {"done"}

\* What a command knows, it goes on knowing while the machine runs.
LEMMA KnowledgeStays ==
  ASSUME TypeOK, Records, now <= now', now' \in Int, UNCHANGED boot,
         everServe \subseteq everServe'
  PROVE  /\ \A stored \in {Absent} \cup Unreadables \cup RecordState :
              Fits(stored) => Fits(stored)'
         /\ \A q \in CommandState : Knows(q) => Knows(q)'
         /\ \A r, q \in CommandState : Knows(q) /\ KnowsLess(r, q) => Knows(r)'
<1>1. ASSUME NEW stored \in {Absent} \cup Unreadables \cup RecordState, Fits(stored)
      PROVE  Fits(stored)'
  BY <1>1 DEF Fits, Recent, IsRecord, TypeOK, Absent, Unreadables, RecordState
<1>2. ASSUME NEW q \in CommandState, Knows(q), NEW r \in CommandState, KnowsLess(r, q)
      PROVE  Knows(r)'
  <2>1. r.pid # Nobody => IF r.pc \in HasChild THEN r.pid \in everServe'
                          ELSE \A e \in r.entries : InSlack(e.stored)'
    BY <1>2 DEF Knows, KnowsLess, InSlack
  <2>2. \A e \in r.entries \cup r.live : Fits(e.stored)'
    BY <1>1, <1>2 DEF Knows, KnowsLess, CommandState, Entries
  <2>3. \A e \in r.live : IsRecord(e.stored) /\ InSlack(e.stored)'
    BY <1>2 DEF Knows, KnowsLess, InSlack
  <2>4. QED
    BY <2>1, <2>2, <2>3 DEF Knows
<1>3. \A q \in CommandState : KnowsLess(q, q)
  BY DEF KnowsLess
<1>4. QED
  BY <1>1, <1>2, <1>3

\* One command takes a step, and the rest of the invariant stays.
LEMMA OneCommand ==
  ASSUME Main, NoNewServe, NEW c \in Commands, NEW r \in CommandState, Becomes(c, r),
         Place(r), HitsSame(r, command[c]) \/ Hits(r)',
         KnowsLess(r, command[c]) \/ Knows(r)',
         now <= now', now' \in Int, UNCHANGED <<boot, everServe>>, overlapped' \in BOOLEAN,
         files' \in [Files -> {Absent} \cup Unreadables \cup RecordState],
         \A f \in Files : files'[f] = files[f] \/ Fits(files[f])',
         command[c].pc \in HasChild \cup {"done"} => r.pc \in HasChild \cup {"done"},
         \A p \in OwnServe(c) : IsServe(p)' => Owns(r, p, os'[p])
  PROVE  Main'
<1>1. /\ command'[c] = r
      /\ \A d \in Commands \ {c} : command'[d] = command[d]
      /\ command' \in [Commands -> CommandState]
  BY DEF Becomes, Main, TypeOK
<1>2. TypeOK'
  BY <1>1 DEF Main, TypeOK, NoNewServe
<1>3. \A d \in Commands : Place(command'[d])
  BY <1>1 DEF Main
<1>4. Records'
  <2>1. \A f \in Files : Fits(files[f])'
    BY KnowledgeStays DEF Main, Records, TypeOK
  <2>2. \A d \in Commands : Knows(command[d])'
    BY <1>1, KnowledgeStays DEF Main, Records, TypeOK
  <2>3. QED
    BY <2>1, <2>2 DEF Records
<1>5. Serves'
  <2>1. ASSUME NEW p \in Pids, IsServe(p)'
        PROVE  /\ p \in everServe'
               /\ os'[p].by # Nobody => Owns(command'[os'[p].by], p, os'[p])
    <3>1. /\ IsServe(p) /\ os'[p].by = os[p].by /\ os'[p].root = os[p].root
          /\ os[p].signalled => os'[p].signalled
          /\ os[p].by \in Spawners
      BY <2>1, ProcessKinds DEF NoNewServe, Main, TypeOK, IsServe, ServeState
    <3>2. p \in everServe'
      BY <3>1 DEF Main, Serves
    <3>3. ASSUME os'[p].by # Nobody PROVE Owns(command'[os'[p].by], p, os'[p])
      <4>1. CASE os'[p].by = c
        BY <1>1, <2>1, <3>1, <4>1 DEF OwnServe
      <4>2. CASE os'[p].by # c
        <5>1. Owns(command[os[p].by], p, os[p]) /\ command'[os[p].by] = command[os[p].by]
          BY <1>1, <3>1, <3>3, <4>2 DEF Main, Serves, Spawners
        <5>2. QED
          BY <3>1, <5>1 DEF Owns
      <4>3. QED
        BY <4>1, <4>2
    <3>4. QED
      BY <3>2, <3>3
  <2>2. \A p, q \in Pids : IsServe(p)' /\ IsServe(q)' /\ os'[p].by = os'[q].by => p = q
    BY DEF NoNewServe, Main, Serves
  <2>3. QED
    BY <2>1, <2>2 DEF Serves, IsServe
<1>6. \A b \in Commands : command[b].pc \in HasChild \cup {"done"} =>
                            command'[b].pc \in HasChild \cup {"done"}
  BY <1>1
<1>7. ASSUME NEW d \in Commands, NEW q \in CommandState, q = command[d],
             NEW n \in CommandState, HitsSame(n, q)
      PROVE  Hits(n)'
  <2>1. Hits(q) /\ q.target \subseteq Spawners
    BY <1>7 DEF Main, Targets, CommandState
  <2>2. \A b \in n.target : b # Nobody => command'[b].pc \in HasChild \cup {"done"}
    BY <1>6, <1>7, <2>1 DEF HitsSame, Hits, Spawners
  <2>3. ASSUME NEW p \in Pids, IsServe(p)', os'[p].by \in n.target
        PROVE  (n.pc = "wait" => p = n.pid) /\ ~HitsGone(n)
    BY <1>7, <2>1, <2>3 DEF HitsSame, Hits, NoNewServe
  <2>4. QED
    BY <2>2, <2>3 DEF Hits, IsServe
<1>8. Targets'
  <2>1. \A d \in Commands \ {c} : HitsSame(command[d], command[d])
    BY DEF HitsSame
  <2>2. QED
    BY <1>1, <1>7, <2>1 DEF Targets, Main, TypeOK
<1>9. QED
  BY <1>2, <1>3, <1>4, <1>5, <1>8 DEF Main

-----------------------------------------------------------------------------
(* Commands that run one after the other, under such a step.               *)

\* Only a command that has started a bridge announces one.
LEMMA AnnouncedBefore ==
  ASSUME TypeOK, NoNewServe, NEW c \in Commands, NEW r \in CommandState, Becomes(c, r),
         r.result # "started"
  PROVE  \A p \in Pids : Announced(p)' => Announced(p) /\ os'[p].root = os[p].root
<1> SUFFICES ASSUME NEW p \in Pids, Announced(p)'
             PROVE  Announced(p) /\ os'[p].root = os[p].root
  OBVIOUS
<1>1. /\ IsServe(p)' /\ ~os'[p].signalled
      /\ os'[p].by # Nobody => command'[os'[p].by].result = "started"
  BY DEF Announced, IsServe
<1>2. /\ IsServe(p) /\ os'[p].by = os[p].by /\ os'[p].root = os[p].root
      /\ os[p].signalled => os'[p].signalled
  BY <1>1 DEF NoNewServe
<1>3. os[p] \in ServeState
  BY <1>2, ProcessKinds DEF IsServe, TypeOK
<1>4. ~os[p].signalled
  BY <1>1, <1>2
<1>5. ASSUME os[p].by # Nobody PROVE command[os[p].by].result = "started"
  <2>1. os[p].by \in Commands /\ command'[os[p].by].result = "started"
    BY <1>1, <1>2, <1>3, <1>5 DEF ServeState, Spawners
  <2>2. command'[c] = r /\ \A d \in Commands \ {c} : command'[d] = command[d]
    BY DEF Becomes, TypeOK
  <2>3. QED
    BY <2>1, <2>2
<1>6. QED
  BY <1>2, <1>4, <1>5 DEF Announced

\* The command that runs alone goes on running, or is done, and no file that names an
\* announced bridge is touched.
LEMMA AloneStays ==
  ASSUME TypeOK, Alone, NoNewServe, NEW c \in Commands,
         \A d \in Commands : Running(d) => d = c,
         NEW r \in CommandState, Becomes(c, r), r.result # "started", UNCHANGED boot,
         \A p \in Pids : Announced(p) =>
           \A f \in Files : Names(files[f], p) => files'[f] = files[f],
         r.pc \notin {"idle", "done"} =>
           Reads(r)' /\ (r.pc = "fill" => files'[r.root] = Unreadable(c))
  PROVE  Alone'
<1>1. command'[c] = r /\ \A d \in Commands \ {c} : command'[d] = command[d]
  BY DEF Becomes, TypeOK
<1>2. \A d \in Commands : Running(d)' => d = c
  BY <1>1 DEF Running, Alone
<1>3. \A p \in Pids : Announced(p)' => Announced(p) /\ os'[p].root = os[p].root
  BY AnnouncedBefore
<1>4. ASSUME NEW p \in Pids, Announced(p)'
      PROVE  \E f \in {os'[p].root, Legacy} : Names(files[f], p)'
  <2>1. PICK f \in {os[p].root, Legacy} : Names(files[f], p)
    BY <1>3, <1>4 DEF Alone
  <2>2. f \in Files
    <3>1. os[p] \in ServeState
      BY <1>3, <1>4, ProcessKinds DEF Announced, IsServe, TypeOK
    <3>2. QED
      BY <3>1, RootCountAssumption DEF ServeState, Roots, Files, Legacy
  <2>3. files'[f] = files[f] /\ os'[p].root = os[p].root
    BY <1>3, <1>4, <2>1, <2>2
  <2>4. Names(files[f], p)'
    BY <2>1, <2>3 DEF Names, Recent, IsRecord
  <2>5. QED
    BY <2>3, <2>4
<1>5. AtMostOnePerRoot'
  BY <1>3 DEF Alone, AtMostOnePerRoot
<1>6. \A d \in Commands : Running(d)' =>
        Reads(command[d])' /\ (At(d, "fill")' => files'[command'[d].root] = Unreadable(d))
  BY <1>1, <1>2 DEF Running, At
<1>7. QED
  BY <1>2, <1>4, <1>5, <1>6 DEF Alone, At

\* A command that runs and has spawned nothing yet owns no process.
LEMMA NoChild ==
  ASSUME Main, NEW c \in Commands, Running(c)
  PROVE  \A p \in OwnServe(c) : /\ command[c].op = "detach"
                                /\ command[c].pc \in HasChild /\ command[c].pid = p
                                /\ command[c].root = os[p].root
BY CommandsAssumption DEF OwnServe, Main, Serves, Owns, Running
-----------------------------------------------------------------------------
(* A command that ends without a bridge of its own to announce.            *)
FilesGoOn ==
  /\ files' \in [Files -> {Absent} \cup Unreadables \cup RecordState]
  /\ \A f \in Files : files'[f] = files[f] \/ files'[f] = Absent
NamingFilesStay ==
  \A p \in Pids : Announced(p) => \A f \in Files : Names(files[f], p) => files'[f] = files[f]

\* The command gives up, or has stopped a bridge; if it was not interrupted, it has
\* signalled the bridge it spawned.
LEMMA Ends ==
  ASSUME IInv, NoNewServe, FilesGoOn, Clocks, NEW c \in Commands, Running(c),
         NEW result \in Results \ {"none", "started"}, Return(c, result),
         result = "stopped" => HitsGone(command[c]),
         result # "gone" => \A p \in OwnServe(c) : IsServe(p)' => os'[p].signalled,
         ~overlapped => NamingFilesStay
  PROVE  IInv'
<1> DEFINE q == command[c]
           r == Finished(c, result)
<1>1. /\ q \in CommandState /\ Main /\ (~overlapped => Alone)
      /\ now \in Int /\ overlapped' = overlapped
  BY DEF IInv, Main, TypeOK, Clocks
<1>2. /\ r \in CommandState /\ Becomes(c, r) /\ r.op = q.op /\ r.target = q.target
      /\ r.pc = "done" /\ r.result = result /\ r.pid = Nobody
      /\ r.entries = {} /\ r.live = {} /\ r.unread = {}
  <2>1. Becomes(c, r)
    BY DEF Return, Becomes
  <2>2. QED
    BY <1>1, <2>1, FinishedIs DEF Main
<1>3. Place(r)
  BY <1>2 DEF Place, IsStopping, HasChild, NewCommand
<1>4. HitsSame(r, q)
  BY <1>2 DEF HitsSame, HitsGone, IsStopping
<1>5. KnowsLess(r, q)
  BY <1>2 DEF KnowsLess
<1>6. \A f \in Files : files'[f] = files[f] \/ Fits(files[f])'
  BY DEF FilesGoOn, Fits, IsRecord, Absent
<1>7. \A p \in OwnServe(c) : IsServe(p)' => Owns(r, p, os'[p])
  <2>1. \A p \in OwnServe(c) : q.op = "detach"
    BY <1>1, NoChild
  <2>2. QED
    BY <1>2, <2>1 DEF Owns
<1>8. r.pc \in HasChild \cup {"done"}
  BY <1>2
<1> HIDE DEF q, r
<1>9. /\ now <= now' /\ now' \in Int /\ UNCHANGED <<boot, everServe, overlapped>>
      /\ overlapped' \in BOOLEAN
  BY <1>1 DEF Clocks, TypeOK, Main
<1>10. Main'
  BY <1>1, <1>2, <1>3, <1>4, <1>5, <1>6, <1>7, <1>8, <1>9, OneCommand DEF q, FilesGoOn
<1>11. ~overlapped' => Alone'
  <2>1. Alone => \A d \in Commands : Running(d) => d = c
    BY DEF Alone
  <2>2. QED
    BY <1>1, <1>2, <1>9, <2>1, AloneStays DEF Main, NamingFilesStay
<1>12. QED
  BY <1>10, <1>11 DEF Main, IInv

\* Nothing is touched but the command.
LEMMA NothingTouched ==
  ASSUME TypeOK, UNCHANGED files
  PROVE  /\ FilesGoOn /\ NamingFilesStay
         /\ UNCHANGED os =>
              NoNewServe /\ \A p \in Pids : os'[p].signalled = os[p].signalled
BY DEF TypeOK, FilesGoOn, NamingFilesStay, NoNewServe, IsServe

\* Each way a command gives up keeps the invariant.
LEMMA GivingUp ==
  ASSUME IInv, NEW c \in Commands, UNCHANGED files, OsUnchanged,
         \/ /\ UNCHANGED os /\ Running(c)
            /\ command[c].pc \notin HasChild
            /\ \E result \in Results \ {"none", "started", "stopped"} : Return(c, result)
         \/ ChildCloses(c) \/ StartupDeadline(c) \/ RecordTaken(c)
         \/ FileOperationFails(c) \/ Interrupt(c) \/ Kill(c)
         \/ UNCHANGED os /\ Running(c) /\ HitsGone(command[c]) /\ Return(c, "stopped")
  PROVE  IInv'
<1>1. Main /\ TypeOK /\ FilesGoOn /\ NamingFilesStay /\ Clocks
  BY NothingTouched DEF IInv, Main, OsUnchanged, Clocks
<1>2. UNCHANGED os => NoNewServe
  BY <1>1, NothingTouched
<1>3. ASSUME UNCHANGED os, Running(c), command[c].pc \notin HasChild,
             NEW result \in Results \ {"none", "started", "stopped"}, Return(c, result)
      PROVE  IInv'
  <2>1. OwnServe(c) = {}
    BY <1>1, <1>3, NoChild
  <2>2. QED
    BY <1>1, <1>2, <1>3, <2>1, Ends
<1>4. CASE ChildCloses(c)
  <2>1. /\ UNCHANGED os /\ Running(c) /\ OwnServe(c) = {}
        /\ Return(c, "startup-failed")
    BY <1>4 DEF ChildCloses, OnlyCommand, At, Running
  <2>2. QED
    BY <1>1, <1>2, <2>1, Ends DEF Results
<1>5. CASE StartupDeadline(c)
  <2>1. SignalChild(c) /\ Running(c) /\ Return(c, "startup-failed")
    BY <1>5 DEF StartupDeadline, At, Running
  <2>2. QED
    BY <1>1, <2>1, SignalOwn, Ends DEF Results
<1>6. ASSUME Running(c), command[c].pc \in {"create", "fill"}, Signal(command[c].pid),
             NEW result \in {"already-running", "state-io"}, Return(c, result)
      PROVE  IInv'
  <2>1. command[c].pid \in Pids
    BY <1>1, <1>6 DEF Main, Place, HasChild, TypeOK, CommandState
  <2>2. /\ NoNewServe
        /\ IsServe(command[c].pid) => os'[command[c].pid].signalled
    BY <1>1, <1>6, <2>1, SignalOne
  <2>3. \A p \in OwnServe(c) : os'[p].signalled
    BY <1>1, <1>6, <2>2, NoChild DEF OwnServe
  <2>4. QED
    BY <1>1, <1>6, <2>2, <2>3, Ends DEF Results
<1>7. CASE RecordTaken(c)
  BY <1>6, <1>7 DEF RecordTaken, At, Running
<1>8. CASE FileOperationFails(c)
  <2>1. Running(c) /\ Return(c, "state-io")
    BY <1>8 DEF FileOperationFails, Running
  <2>2. CASE command[c].pc \in {"create", "fill"}
    BY <1>6, <1>8, <2>1, <2>2 DEF FileOperationFails
  <2>3. CASE command[c].pc \notin {"create", "fill"}
    BY <1>3, <1>8, <2>1, <2>3 DEF FileOperationFails, HasChild, Results
  <2>4. QED
    BY <2>2, <2>3
<1>9. CASE Interrupt(c)
  <2>1. Running(c) /\ Return(c, "gone") /\ (SignalChild(c) \/ UNCHANGED os)
    BY <1>9 DEF Interrupt
  <2>2. QED
    BY <1>1, <1>2, <2>1, SignalOwn, Ends DEF Results
<1>10. CASE Kill(c)
  <2>1. Running(c) /\ Return(c, "gone") /\ UNCHANGED os
    BY <1>10 DEF Kill, OnlyCommand
  <2>2. QED
    BY <1>1, <1>2, <2>1, Ends DEF Results
<1>11. ASSUME UNCHANGED os, Running(c), HitsGone(command[c]), Return(c, "stopped")
       PROVE  IInv'
  <2>1. OwnServe(c) = {}
    BY <1>1, <1>11, NoChild DEF HitsGone, HasChild, Main, Place, Running
  <2>2. QED
    BY <1>1, <1>2, <1>11, <2>1, Ends DEF Results
<1>12. QED
  BY <1>3, <1>4, <1>5, <1>7, <1>8, <1>9, <1>10, <1>11
-----------------------------------------------------------------------------
(* A command that goes on, and neither spawns nor signals anything.        *)

\* r is where the command that was at q goes.
GoesTo(r, q) ==
  /\ r.op = q.op /\ r.root = q.root /\ r.result = q.result
  /\ r.pc \notin {"idle", "done"}
  /\ q.pc \in HasChild => r.pc \in HasChild /\ r.pid = q.pid
  /\ r.target = q.target
  /\ r.pc = "wait" => q.pc = "wait" /\ r.pid = q.pid

\* A command that goes on keeps the invariant, when what it knows of the files is still so.
LEMMA GoesOn ==
  ASSUME IInv, NEW c \in Commands, Running(c), NEW r \in CommandState, Becomes(c, r),
         FilesGoOn \/ files' \in [Files -> {Absent} \cup Unreadables \cup RecordState],
         \A f \in Files : files'[f] = files[f] \/ ~IsRecord(files'[f]),
         UNCHANGED os, OsUnchanged, Place(r), GoesTo(r, command[c]),
         KnowsLess(r, command[c]) \/ Knows(r),
         HitsGone(r) => HitsGone(command[c]) \/ Hits(r),
         ~overlapped => /\ NamingFilesStay
                        /\ Reads(r)'
                        /\ r.pc = "fill" => files'[r.root] = Unreadable(c)
  PROVE  IInv'
<1> DEFINE q == command[c]
<1>1. /\ q \in CommandState /\ Main /\ TypeOK /\ Place(q) /\ (~overlapped => Alone)
      /\ now <= now' /\ now' \in Int /\ UNCHANGED <<boot, everServe, overlapped>>
      /\ overlapped' \in BOOLEAN
  BY DEF IInv, Main, TypeOK, OsUnchanged
<1>2. NoNewServe
  BY <1>1 DEF NoNewServe, TypeOK, IsServe
<1>3. \A f \in Files : files'[f] = files[f] \/ Fits(files[f])'
  BY DEF Fits, IsRecord
<1>4. Knows(r) => Knows(r)'
  BY <1>1, KnowledgeStays DEF Main
<1>5. q.pc \in HasChild \cup {"done"} => r.pc \in HasChild \cup {"done"}
  BY DEF GoesTo, Running
<1>6. \A p \in OwnServe(c) : IsServe(p)' => Owns(r, p, os'[p])
  <2>1. \A p \in OwnServe(c) : /\ q.op = "detach" /\ q.pc \in HasChild
                               /\ q.pid = p /\ q.root = os[p].root
    BY <1>1, NoChild
  <2>2. QED
    BY <2>1 DEF Owns, GoesTo
<1>7. r.target \subseteq Spawners /\ (Hits(r) => Hits(r)')
  <2>1. r.target \subseteq Spawners
    BY DEF CommandState
  <2>2. \A b \in Commands : command[b].pc \in HasChild \cup {"done"} =>
                              command'[b].pc \in HasChild \cup {"done"}
    BY <1>1, <1>5 DEF Becomes, TypeOK
  <2>3. QED
    BY <2>1, <2>2 DEF Hits, Spawners, IsServe
<1>8. HitsSame(r, q) \/ Hits(r)'
  BY <1>5, <1>7 DEF HitsSame, GoesTo
<1> HIDE DEF q
<1>9. Main'
  BY <1>1, <1>2, <1>3, <1>4, <1>5, <1>6, <1>8, OneCommand DEF q, FilesGoOn
<1>10. r.result # "started"
  BY <1>1 DEF GoesTo, Place, Running, q
<1>11. ~overlapped' => Alone'
  <2>1. Alone => \A d \in Commands : Running(d) => d = c
    BY DEF Alone
  <2>2. QED
    BY <1>1, <1>2, <1>10, <2>1, AloneStays DEF NamingFilesStay
<1>12. QED
  BY <1>9, <1>11 DEF Main, IInv

\* The same when nothing but the command changes; what it knows of the files must hold
\* before the step.
LEMMA Looking ==
  ASSUME IInv, NEW c \in Commands, Running(c), NEW r \in CommandState, Becomes(c, r),
         OnlyCommand, Place(r), GoesTo(r, command[c]),
         KnowsLess(r, command[c]) \/ Knows(r),
         HitsGone(r) => HitsGone(command[c]) \/ Hits(r),
         r.pc # "fill",
         Alone => Reads(r)
  PROVE  IInv'
<1>1. TypeOK /\ Place(command[c]) /\ (~overlapped => Alone)
  BY DEF IInv
<1>2. UNCHANGED <<os, files, boot>> /\ OsUnchanged
  BY DEF OnlyCommand, OsUnchanged
<1>3. NoNewServe /\ FilesGoOn /\ NamingFilesStay
  BY <1>1, <1>2, NothingTouched
<1>4. r.result # "started"
  BY <1>1 DEF GoesTo, Place, Running
<1>5. \A p \in Pids : Announced(p)' => Announced(p)
  BY <1>1, <1>3, <1>4, AnnouncedBefore
<1>6. Reads(r) => Reads(r)'
  BY <1>2, <1>5 DEF Reads, Names, Recent, IsRecord
<1>7. QED
  BY <1>1, <1>2, <1>3, <1>6, GoesOn DEF FilesGoOn
-----------------------------------------------------------------------------
(* Reading and examining the records.                                      *)

\* A command that begins has everything still to read.
LEMMA BeginKeeps ==
  ASSUME IInv, NEW c \in Commands, Begin(c)
  PROVE  IInv'
<1>1. PICK op \in Operations, root \in Roots \cup {AnyRoot} :
        /\ op = "detach" => root # AnyRoot
        /\ command' = [command EXCEPT ![c].op = op, ![c].root = root, ![c].pc = "read",
             ![c].unread = IF root = AnyRoot THEN {f \in Files : files[f] # Absent}
                           ELSE {root, Legacy}]
  BY DEF Begin
<1> DEFINE unread == IF root = AnyRoot THEN {f \in Files : files[f] # Absent}
                     ELSE {root, Legacy}
           q == command[c]
<1>2. /\ TypeOK /\ Main /\ q = NewCommand /\ At(c, "idle") /\ UNCHANGED <<os, files, boot>>
      /\ UNCHANGED <<now, everServe>> /\ (~overlapped => Alone)
  BY DEF Begin, IInv, Main, At, Place
<1>3. PICK r : /\ r = [q EXCEPT !.op = op, !.root = root, !.pc = "read", !.unread = unread]
               /\ q \in CommandState /\ Becomes(c, r)
  BY <1>1, <1>2 DEF TypeOK, Becomes
<1>4. unread \subseteq Files /\ op \in {"none", "detach", "stop", "list"}
  BY OperationsAssumption, RootCountAssumption DEF Roots, Files, Legacy
<1> HIDE DEF unread
<1>5. /\ r \in CommandState /\ r.op = op /\ r.root = root /\ r.pc = "read" /\ r.unread = unread
      /\ r.entries = {} /\ r.live = {} /\ r.pid = Nobody /\ r.target = {} /\ r.result = "none"
  <2>1. r \in CommandState
    BY <1>3, <1>4 DEF CommandState, Places
  <2>2. /\ q.entries = {} /\ q.live = {} /\ q.pid = Nobody /\ q.target = {}
        /\ q.result = "none"
    BY <1>2 DEF NewCommand
  <2>3. QED
    BY <1>3, <2>1, <2>2 DEF CommandState
<1> HIDE DEF q
<1>6. Place(r)
  BY <1>1, <1>5 DEF Place, IsStopping, HasChild
<1>7. NoNewServe /\ FilesGoOn /\ \A p \in OwnServe(c) : FALSE
  <2>1. \A p \in OwnServe(c) : FALSE
    BY <1>2, CommandsAssumption DEF OwnServe, Main, Serves, Owns, HasChild, At
  <2>2. QED
    BY <1>2, <2>1, NothingTouched
<1>8. Main'
  <2>1. Hits(r)'
    BY <1>5 DEF Hits, HitsGone, IsStopping
  <2>2. Knows(r)'
    BY <1>5 DEF Knows
  <2>3. command[c].pc \notin HasChild \cup {"done"}
    BY <1>2 DEF At, HasChild
  <2>4. overlapped' \in BOOLEAN
    BY DEF Begin
  <2>5. now <= now' /\ now' \in Int /\ UNCHANGED <<boot, everServe>>
    BY <1>2 DEF TypeOK
  <2>6. /\ files' \in [Files -> {Absent} \cup Unreadables \cup RecordState]
        /\ \A f \in Files : files'[f] = files[f]
    BY <1>2, <1>7 DEF FilesGoOn
  <2>7. QED
    BY <1>2, <1>3, <1>5, <1>6, <1>7, <2>1, <2>2, <2>3, <2>4, <2>5, <2>6, OneCommand
<1>9. ASSUME ~overlapped' PROVE Alone'
  <2>1. ~overlapped /\ \A d \in Commands : ~Running(d)
    BY <1>9 DEF Begin
  <2>2. ASSUME NEW p \in Pids, Announced(p), os[p].root = root
        PROVE  \E f \in {root, Legacy} : Names(files[f], p) /\ f \in unread
    <3>1. \E f \in {root, Legacy} : Names(files[f], p)
      BY <1>2, <2>1, <2>2 DEF Alone
    <3>2. os[p] \in ServeState
      BY <1>2, <2>2, ProcessKinds DEF Announced, IsServe, TypeOK
    <3>3. root # AnyRoot
      BY <2>2, <3>2 DEF ServeState, Roots, AnyRoot
    <3>4. QED
      BY <3>1, <3>3 DEF unread
  <2>3. Reads(r)
    BY <1>5, <2>2 DEF Reads, Looks, IsStopping
  <2>4. \A p \in Pids : Announced(p)' => Announced(p)
    BY <1>2, <1>3, <1>5, <1>7, AnnouncedBefore
  <2>5. Reads(r)'
    BY <1>2, <2>3, <2>4 DEF Reads, Names, Recent, IsRecord
  <2>6. NamingFilesStay
    BY <1>2 DEF NamingFilesStay
  <2>7. QED
    BY <1>2, <1>3, <1>5, <1>7, <2>1, <2>5, <2>6, AloneStays DEF NamingFilesStay
<1>10. QED
  BY <1>8, <1>9 DEF Main, IInv

\* Reading a file keeps the invariant: what names an announced bridge becomes an entry.
LEMMA ReadRecordKeeps ==
  ASSUME IInv, NEW c \in Commands, ReadRecord(c)
  PROVE  IInv'
<1> DEFINE q == command[c]
<1>1. /\ TypeOK /\ q \in CommandState /\ Place(q) /\ Knows(q) /\ q.pc = "read"
      /\ Running(c) /\ OnlyCommand /\ (~overlapped => Alone)
  BY DEF IInv, TypeOK, Records, ReadRecord, At, Running
<1>2. PICK f \in q.unread :
        /\ q.root = AnyRoot \/ f # Legacy \/ q.unread = {Legacy}
        /\ command' = [command EXCEPT
             ![c].unread = @ \ {f},
             ![c].entries = IF Concerns(c, f, files[f])
                              THEN @ \cup {Entry(f, files[f])} ELSE @]
  BY DEF ReadRecord
<1> DEFINE entries == IF Concerns(c, f, files[f]) THEN q.entries \cup {Entry(f, files[f])}
                                                   ELSE q.entries
<1>3. /\ f \in Files /\ (Concerns(c, f, files[f]) => Entry(f, files[f]) \in Entries)
      /\ Fits(files[f])
  BY <1>1 DEF CommandState, TypeOK, Concerns, Entry, Entries, IInv, Records
<1>4. entries \subseteq Entries /\ \A e \in entries : Fits(e.stored)
  BY <1>1, <1>3 DEF CommandState, Knows, Entry
<1>5. PICK r : /\ r = [q EXCEPT !.unread = q.unread \ {f}, !.entries = entries]
               /\ Becomes(c, r)
  BY <1>1, <1>2 DEF TypeOK, Becomes
<1>6. /\ entries = {} \/ q.entries \subseteq entries
      /\ \A e \in entries : e \in q.entries \/ (e = Entry(f, files[f]))
      /\ Concerns(c, f, files[f]) => Entry(f, files[f]) \in entries
  OBVIOUS
<1> HIDE DEF entries
<1>7. /\ r \in CommandState /\ r.op = q.op /\ r.root = q.root /\ r.pc = "read"
      /\ r.unread = q.unread \ {f} /\ r.entries = entries /\ r.live = {} /\ r.pid = Nobody
      /\ r.target = q.target /\ r.result = q.result
  BY <1>1, <1>4, <1>5 DEF CommandState, Place
<1> HIDE DEF q
<1>8. Place(r)
  BY <1>1, <1>7 DEF Place, IsStopping, HasChild
<1>9. GoesTo(r, q) /\ ~HitsGone(r)
  BY <1>1, <1>7 DEF GoesTo, HasChild, HitsGone, IsStopping, Place
<1>10. Knows(r)
  BY <1>4, <1>7 DEF Knows
<1>11. ASSUME Alone PROVE Reads(r)
  <2>1. Reads(q)
    BY <1>1, <1>11 DEF Alone, q
  <2>2. \A e \in r.entries \cup r.live : files[e.file] = e.stored
    BY <1>6, <1>7, <2>1 DEF Reads, Entry
  <2>3. ASSUME r.op = "detach", NEW p \in Pids, Announced(p), os[p].root = r.root
        PROVE  \E g \in {r.root, Legacy} :
                 Names(files[g], p) /\ (g \in r.unread \/ Entry(g, files[g]) \in r.entries)
    <3>1. PICK g \in {q.root, Legacy} :
            Names(files[g], p) /\ (g \in q.unread \/ Entry(g, files[g]) \in q.entries)
      BY <1>7, <2>1, <2>3 DEF Reads
    <3>2. CASE g = f
      <4>1. Concerns(c, f, files[f])
        BY <1>7, <2>3, <3>1, <3>2 DEF Concerns, Names, q, IsRecord, Absent
      <4>2. QED
        BY <1>6, <1>7, <3>1, <3>2, <4>1
    <3>3. CASE g # f
      <4>1. Entry(g, files[g]) \in q.entries => q.entries \subseteq entries
        BY DEF entries
      <4>2. QED
        BY <1>7, <3>1, <3>3, <4>1
    <3>4. QED
      BY <3>2, <3>3
  <2>4. QED
    BY <1>7, <2>2, <2>3 DEF Reads, Looks, IsStopping
<1>12. QED
  BY <1>1, <1>5, <1>7, <1>8, <1>9, <1>10, <1>11, Looking DEF q

\* What follows of a command that examines its first entry.
LEMMA Examining ==
  ASSUME IInv, NEW c \in Commands, NEW e \in command[c].entries
  PROVE  /\ TypeOK /\ command[c] \in CommandState /\ Place(command[c]) /\ Knows(command[c])
         /\ e \in Entries /\ (IsRecord(e.stored) => e.stored \in RecordState)
         /\ RecordIsLive(e.stored) => IsAlive(e.stored.pid) /\ InSlack(e.stored)
         /\ ~RecordIsLive(e.stored) =>
              \A p \in Pids : Announced(p) => ~Names(e.stored, p)
<1>1. /\ TypeOK /\ command[c] \in CommandState /\ Place(command[c]) /\ Knows(command[c])
  BY DEF IInv, TypeOK, Records
<1>2. e \in Entries
  BY <1>1 DEF CommandState
<1>3. IsRecord(e.stored) => e.stored \in RecordState
  BY <1>2 DEF Entries, Unreadables, RecordState, IsRecord
<1>4. RecordIsLive(e.stored) => IsAlive(e.stored.pid) /\ InSlack(e.stored)
  BY DEF RecordIsLive, InSlack
<1>5. ~RecordIsLive(e.stored) => \A p \in Pids : Announced(p) => ~Names(e.stored, p)
  <2>1. IsRecord(e.stored) /\ Recent(e.stored) => e.stored.started >= boot - BootSlack
    BY <1>1, <1>3, ClockAssumption DEF Recent, TypeOK, RecordState
  <2>2. QED
    BY <2>1 DEF RecordIsLive, Names, Announced, IsAlive, IsServe
<1>6. QED
  BY <1>1, <1>2, <1>3, <1>4, <1>5

\* A live record ends a detach, and is kept for a stop.
LEMMA FoundLiveKeeps ==
  ASSUME IInv, NEW c \in Commands, NEW e \in command[c].entries, FoundLive(c, e)
  PROVE  IInv'
<1> DEFINE q == command[c]
<1>1. /\ TypeOK /\ q \in CommandState /\ Place(q) /\ Knows(q) /\ q.pc = "examine"
      /\ Running(c) /\ OnlyCommand /\ e \in Entries
      /\ IsRecord(e.stored) /\ InSlack(e.stored)
  BY Examining DEF FoundLive, At, Running, RecordIsLive
<1>2. CASE q.op = "detach"
  <2>1. Return(c, "already-running")
    BY <1>2 DEF FoundLive
  <2>2. QED
    BY <1>1, <2>1, GivingUp DEF OnlyCommand, Results, HasChild
<1>3. CASE q.op # "detach"
  <2>1. PICK r : /\ r = [q EXCEPT !.live = q.live \cup {e}, !.entries = q.entries \ {e}]
                 /\ Becomes(c, r)
    BY <1>1, <1>3 DEF FoundLive, TypeOK, Becomes
  <2>2. /\ r \in CommandState /\ r.op = q.op /\ r.root = q.root /\ r.pc = q.pc
        /\ r.unread = q.unread /\ r.entries = q.entries \ {e} /\ r.live = q.live \cup {e}
        /\ r.pid = q.pid /\ r.target = q.target /\ r.result = q.result
    BY <1>1, <2>1 DEF CommandState
  <2> HIDE DEF q
  <2>3. /\ Place(r) /\ GoesTo(r, q) /\ ~HitsGone(r)
        /\ Knows(r)
    <3>1. Place(r) /\ GoesTo(r, q) /\ ~HitsGone(r)
      BY <1>1, <2>2 DEF Place, GoesTo, HasChild, HitsGone, IsStopping
    <3>2. \A d \in r.entries \cup r.live : d \in q.entries \cup q.live
      BY <2>2 DEF q
    <3>3. Knows(r)
      BY <1>1, <2>2, <3>2 DEF Knows
    <3>4. QED
      BY <3>1, <3>3
  <2>4. ASSUME Alone PROVE Reads(r)
    <3>1. Reads(q) /\ ~IsStopping(q)
      BY <1>1, <2>4 DEF Alone, Place, IsStopping, q
    <3>2. e \in q.entries
      BY DEF q
    <3>3. QED
      BY <1>1, <1>3, <2>2, <3>1, <3>2 DEF Reads, IsStopping
  <2>5. QED
    BY <1>1, <2>1, <2>2, <2>3, <2>4, Looking DEF q
<1>4. QED
  BY <1>2, <1>3

\* Skipping a file that cannot be decoded keeps the invariant.
LEMMA SkipUnreadableKeeps ==
  ASSUME IInv, NEW c \in Commands, NEW e \in command[c].entries, SkipUnreadable(c, e)
  PROVE  IInv'
<1> DEFINE q == command[c]
<1>1. /\ TypeOK /\ q \in CommandState /\ Place(q) /\ Knows(q) /\ q.pc = "examine"
      /\ Running(c) /\ OnlyCommand /\ q.op = "list"
  BY Examining DEF SkipUnreadable, At, Running
<1>2. PICK r : /\ r = [q EXCEPT !.entries = q.entries \ {e}]
               /\ Becomes(c, r)
  BY <1>1 DEF SkipUnreadable, TypeOK, Becomes
<1>3. /\ r \in CommandState /\ r.op = q.op /\ r.root = q.root /\ r.pc = q.pc
      /\ r.unread = q.unread /\ r.entries = q.entries \ {e} /\ r.live = q.live
      /\ r.pid = q.pid /\ r.target = q.target /\ r.result = q.result
  BY <1>1, <1>2 DEF CommandState
<1> HIDE DEF q
<1>4. Place(r) /\ GoesTo(r, q) /\ ~HitsGone(r) /\ Knows(r)
  BY <1>1, <1>3 DEF Place, GoesTo, HasChild, HitsGone, IsStopping, Knows
<1>5. ASSUME Alone PROVE Reads(r)
  <2>1. Reads(q)
    BY <1>1, <1>5 DEF Alone, q
  <2>2. QED
    BY <1>1, <1>3, <2>1 DEF Reads, IsStopping
<1>6. QED
  BY <1>1, <1>2, <1>3, <1>4, <1>5, Looking DEF q

\* Only the place changes.
LEMMA Moving ==
  ASSUME IInv, NEW c \in Commands, Running(c), NEW pc \in Places, Goto(c, pc), OnlyCommand,
         pc \notin {"idle", "done", "read", "fill", "terminate", "wait"},
         pc = "spawn" => command[c].pc = "examine" /\ command[c].op = "detach"
                           /\ command[c].entries = {},
         pc \in HasChild <=> command[c].pc \in HasChild,
         pc = "examine" => command[c].pc = "read" /\ command[c].unread = {},
         command[c].pc = "read" => command[c].unread = {},
         pc \in {"reread", "remove"} =>
           /\ command[c].pc \in {"examine", "reread", "wait"}
           /\ command[c].pc = "wait" => Hits([command[c] EXCEPT !.pc = pc])
           /\ \A e \in command[c].entries : IsFirst(c, e) /\ Alone =>
                \A p \in Pids : Announced(p) => ~Names(e.stored, p)
  PROVE  IInv'
<1> DEFINE q == command[c]
<1>1. TypeOK /\ q \in CommandState /\ Place(q) /\ Knows(q) /\ q.pc \notin {"idle", "done"}
  BY DEF IInv, TypeOK, Records, Running
<1>2. PICK r : r = [q EXCEPT !.pc = pc] /\ Becomes(c, r)
  BY <1>1 DEF Goto, TypeOK, Becomes
<1>3. /\ r \in CommandState /\ r.op = q.op /\ r.root = q.root /\ r.pc = pc
      /\ r.unread = q.unread /\ r.entries = q.entries /\ r.live = q.live
      /\ r.pid = q.pid /\ r.target = q.target /\ r.result = q.result
  BY <1>1, <1>2 DEF CommandState
<1>4. HitsGone(r) => HitsGone(q) \/ Hits(r)
  BY <1>1, <1>2, <1>3 DEF HitsGone, IsStopping, Place, Places
<1>5. \A e \in q.entries : (\A d \in q.entries : e.file <= d.file) => IsFirst(c, e)
  BY DEF IsFirst
<1>6. ASSUME Alone PROVE Reads(r)
  <2>1. Reads(q)
    BY <1>1, <1>6 DEF Alone
  <2>2. \A e \in r.entries \cup r.live : files[e.file] = e.stored
    BY <1>3, <2>1 DEF Reads
  <2>3. ~IsStopping(r) => r.entries \cap r.live = {}
    BY <1>3, <2>1 DEF Reads, IsStopping
  <2>4. r.pc \in {"reread", "remove"} =>
          \A e \in r.entries : (\A d \in r.entries : e.file <= d.file) =>
            \A p \in Pids : Announced(p) => ~Names(e.stored, p)
    BY <1>3, <1>5, <1>6
  <2>5. ASSUME r.op = "detach", NEW p \in Pids, Announced(p), os[p].root = r.root
        PROVE  /\ r.pc \in Looks
               /\ \E f \in {r.root, Legacy} :
                    Names(files[f], p) /\ (f \in r.unread \/ Entry(f, files[f]) \in r.entries)
    <3>1. /\ q.pc \in Looks
          /\ \E f \in {r.root, Legacy} :
               Names(files[f], p) /\ (f \in r.unread \/ Entry(f, files[f]) \in r.entries)
      BY <1>3, <2>1, <2>5 DEF Reads
    <3>2. QED
      BY <1>1, <1>3, <3>1 DEF Looks, Places, HasChild, Place
  <2>6. QED
    BY <2>2, <2>3, <2>4, <2>5 DEF Reads
<1> HIDE DEF q
<1>7. Place(r)
  BY <1>1, <1>3 DEF Place, IsStopping, HasChild, q
<1>8. GoesTo(r, q) /\ KnowsLess(r, q)
  BY <1>3 DEF GoesTo, KnowsLess, q
<1>9. QED
  BY <1>2, <1>3, <1>4, <1>6, <1>7, <1>8, Looking DEF q

\* The entry examined is the only first one, for a command that runs alone.
LEMMA OneFirst ==
  ASSUME IInv, Alone, NEW c \in Commands, Running(c),
         NEW e \in command[c].entries, IsFirst(c, e)
  PROVE  \A d \in command[c].entries : IsFirst(c, d) => d = e
<1>1. command[c] \in CommandState /\ Reads(command[c])
  BY DEF IInv, TypeOK, Alone
<1>2. ASSUME NEW d \in command[c].entries, IsFirst(c, d) PROVE d = e
  <2>1. /\ d \in Entries /\ e \in Entries
        /\ files[d.file] = d.stored /\ files[e.file] = e.stored
    BY <1>1, <1>2 DEF CommandState, Reads
  <2>2. d.file <= e.file /\ e.file <= d.file
    BY <1>2 DEF IsFirst
  <2>3. d.file = e.file
    BY <2>1, <2>2, RootCountAssumption DEF Entries, Files, Legacy
  <2>4. QED
    BY <2>1, <2>3 DEF Entries
<1>3. QED
  BY <1>2

\* A record that is found stale names no announced bridge.
LEMMA FoundStaleKeeps ==
  ASSUME IInv, NEW c \in Commands, NEW e \in command[c].entries, IsFirst(c, e), FoundStale(c, e)
  PROVE  IInv'
<1>1. /\ TypeOK /\ Place(command[c]) /\ command[c].pc = "examine" /\ Running(c)
      /\ Goto(c, "reread") /\ OnlyCommand /\ ~RecordIsLive(e.stored)
  BY Examining DEF FoundStale, At, Running
<1>2. Alone => \A d \in command[c].entries : IsFirst(c, d) => d = e
  BY <1>1, OneFirst
<1>3. \A p \in Pids : Announced(p) => ~Names(e.stored, p)
  BY <1>1, Examining
<1>4. QED
  BY <1>1, <1>2, <1>3, Moving DEF Places, HasChild

\* The record is not removed, or has been.
LEMMA AfterRemovalIs ==
  ASSUME IInv, NEW c \in Commands, NEW e \in command[c].entries,
         command[c].pc \in {"reread", "remove"}, AfterRemoval(c, e)
  PROVE  \/ HitsGone(command[c]) /\ Return(c, "stopped")
         \/ /\ ~IsStopping(command[c])
            /\ \E r \in CommandState :
                 /\ Becomes(c, r) /\ r.op = command[c].op /\ r.root = command[c].root
                 /\ r.pc = "examine" /\ r.unread = {} /\ r.entries = command[c].entries \ {e}
                 /\ r.live = command[c].live /\ r.pid = Nobody
                 /\ r.target = command[c].target /\ r.result = "none"
                 /\ Place(r) /\ GoesTo(r, command[c]) /\ KnowsLess(r, command[c])
                 /\ ~HitsGone(r)
<1> DEFINE q == command[c]
<1>1. TypeOK /\ q \in CommandState /\ Place(q)
  BY Examining
<1>2. CASE IsStopping(q)
  BY <1>2 DEF AfterRemoval, HitsGone, IsStopping
<1>3. CASE ~IsStopping(q)
  <2>1. command' = [command EXCEPT ![c].pc = "examine", ![c].entries = @ \ {e}]
    BY <1>3 DEF AfterRemoval, IsStopping
  <2>2. PICK r : /\ r = [q EXCEPT !.pc = "examine", !.entries = q.entries \ {e}]
                 /\ Becomes(c, r)
    BY <1>1, <2>1 DEF TypeOK, Becomes
  <2>3. /\ r \in CommandState /\ r.op = q.op /\ r.root = q.root /\ r.pc = "examine"
        /\ r.unread = q.unread /\ r.entries = q.entries \ {e} /\ r.live = q.live
        /\ r.pid = q.pid /\ r.target = q.target /\ r.result = q.result
    BY <1>1, <2>2 DEF CommandState, Places
  <2> HIDE DEF q
  <2>4. q.pc \in {"reread", "remove"} /\ q.pid = Nobody /\ q.unread = {} /\ q.result = "none"
    BY <1>1, <1>3 DEF Place, q
  <2>5. Place(r) /\ GoesTo(r, q) /\ KnowsLess(r, q) /\ ~HitsGone(r)
    BY <1>1, <2>3, <2>4 DEF Place, GoesTo, HasChild, HitsGone, IsStopping, KnowsLess
  <2>6. QED
    BY <1>3, <2>2, <2>3, <2>4, <2>5 DEF q
<1>4. QED
  BY <1>2, <1>3

\* The second look at the file keeps the invariant.
LEMMA RereadRecordKeeps ==
  ASSUME IInv, NEW c \in Commands, NEW e \in command[c].entries, IsFirst(c, e),
         RereadRecord(c, e)
  PROVE  IInv'
<1> DEFINE q == command[c]
<1>1. /\ TypeOK /\ q \in CommandState /\ Place(q) /\ q.pc = "reread" /\ Running(c)
      /\ OnlyCommand
  BY Examining DEF RereadRecord, At, Running
<1>2. Alone => \A d \in q.entries : IsFirst(c, d) =>
                 \A p \in Pids : Announced(p) => ~Names(d.stored, p)
  BY <1>1 DEF Alone, Reads, IsFirst
<1>3. CASE Goto(c, "remove")
  BY <1>1, <1>2, <1>3, Moving DEF Places, HasChild
<1>4. CASE AfterRemoval(c, e)
  <2>1. CASE HitsGone(q) /\ Return(c, "stopped")
    BY <1>1, <2>1, GivingUp DEF OnlyCommand
  <2>2. ASSUME NEW r \in CommandState, Becomes(c, r), r.op = q.op, r.root = q.root,
               r.pc = "examine", r.unread = {}, r.entries = q.entries \ {e}, r.live = q.live,
               r.pid = Nobody, Place(r), GoesTo(r, q), KnowsLess(r, q), ~HitsGone(r),
               ~IsStopping(q)
        PROVE  IInv'
    <3>1. ASSUME Alone PROVE Reads(r)
      <4>1. Reads(q)
        BY <1>1, <3>1 DEF Alone
      <4>2. ASSUME r.op = "detach", NEW p \in Pids, Announced(p), os[p].root = r.root
            PROVE  \E f \in {r.root, Legacy} :
                     Names(files[f], p) /\ Entry(f, files[f]) \in r.entries
        <5>1. PICK f \in {r.root, Legacy} :
                Names(files[f], p) /\ Entry(f, files[f]) \in q.entries
          BY <1>1, <2>2, <4>1, <4>2 DEF Reads, Place
        <5>2. Entry(f, files[f]) # e
          BY <1>2, <3>1, <4>2, <5>1 DEF Entry
        <5>3. QED
          BY <2>2, <5>1, <5>2
      <4>3. QED
        BY <2>2, <4>1, <4>2 DEF Reads, Looks
    <3>2. QED
      BY <1>1, <2>2, <3>1, Looking
  <2>3. QED
    BY <1>1, <1>4, <2>1, <2>2, AfterRemovalIs
<1>5. QED
  BY <1>3, <1>4 DEF RereadRecord

\* The file that is removed names no announced bridge, and no other entry is read from it.
LEMMA RemoveRecordKeeps ==
  ASSUME IInv, NEW c \in Commands, NEW e \in command[c].entries, IsFirst(c, e),
         RemoveRecord(c, e)
  PROVE  IInv'
<1> DEFINE q == command[c]
<1>1. /\ TypeOK /\ q \in CommandState /\ Place(q) /\ q.pc = "remove" /\ Running(c)
      /\ UNCHANGED os /\ OsUnchanged /\ e \in Entries /\ e.file \in Files
      /\ (~overlapped => Alone)
  BY Examining DEF RemoveRecord, At, Running, Entries, IInv
<1>2. files' = [files EXCEPT ![e.file] = Absent] /\ AfterRemoval(c, e)
  BY DEF RemoveRecord
<1>3. FilesGoOn /\ files'[e.file] = Absent /\ \A f \in Files \ {e.file} : files'[f] = files[f]
  BY <1>1, <1>2 DEF FilesGoOn, TypeOK
<1>4. ASSUME Alone
      PROVE  /\ Reads(q) /\ files[e.file] = e.stored
             /\ \A p \in Pids : Announced(p) => ~Names(files[e.file], p)
  BY <1>1, <1>4 DEF Alone, Reads, IsFirst
<1>5. ~overlapped => NamingFilesStay
  BY <1>1, <1>3, <1>4 DEF NamingFilesStay
<1>6. NoNewServe
  BY <1>1 DEF TypeOK, NoNewServe, IsServe
<1>7. CASE HitsGone(q) /\ Return(c, "stopped")
  <2>1. OwnServe(c) = {}
    BY <1>1, NoChild DEF IInv, Main, HasChild
  <2>2. Clocks
    BY <1>1 DEF OsUnchanged, Clocks
  <2>3. QED
    BY <1>1, <1>3, <1>5, <1>6, <1>7, <2>1, <2>2, Ends DEF Results
<1>8. ASSUME NEW r \in CommandState, Becomes(c, r), r.op = q.op, r.root = q.root,
             r.pc = "examine", r.unread = {}, r.entries = q.entries \ {e}, r.live = q.live,
             r.pid = Nobody, r.result = "none", Place(r), GoesTo(r, q), KnowsLess(r, q),
             ~HitsGone(r), ~IsStopping(q)
      PROVE  IInv'
  <2>1. ASSUME Alone PROVE Reads(r)'
    <3>1. Reads(q)
      BY <1>4, <2>1
    <3>2. ASSUME NEW d \in r.entries \cup r.live
          PROVE  files'[d.file] = d.stored
      <4>1. files[d.file] = d.stored /\ d # e /\ d \in Entries
        BY <1>1, <1>8, <3>1, <3>2 DEF Reads, CommandState
      <4>2. d.file # e.file
        BY <1>1, <1>4, <2>1, <4>1 DEF Entries
      <4>3. QED
        BY <1>3, <4>1, <4>2 DEF Entries
    <3>3. \A p \in Pids : Announced(p)' => Announced(p)
      BY <1>1, <1>6, <1>8, AnnouncedBefore
    <3>4. ASSUME r.op = "detach", NEW p \in Pids, Announced(p)', os'[p].root = r.root
          PROVE  \E f \in {r.root, Legacy} : /\ Names(files[f], p)'
                                             /\ Entry(f, files'[f]) \in r.entries
      <4>1. PICK f \in {r.root, Legacy} : Names(files[f], p) /\ Entry(f, files[f]) \in q.entries
        BY <1>1, <1>8, <3>1, <3>3, <3>4 DEF Reads, Place
      <4>2. Entry(f, files[f]) \in Entries
        BY <1>1, <4>1 DEF CommandState
      <4>3. f \in Files /\ f # e.file
        BY <1>4, <2>1, <3>3, <3>4, <4>1, <4>2 DEF Entry, Entries
      <4>4. files'[f] = files[f] /\ Entry(f, files[f]) # e
        BY <1>3, <4>3 DEF Entry
      <4>5. Names(files[f], p)'
        BY <1>1, <4>1, <4>4 DEF Names, Recent, IsRecord, OsUnchanged
      <4>6. QED
        BY <1>8, <4>1, <4>4, <4>5
    <3>5. r.entries \cap r.live = {}
      BY <1>8, <3>1 DEF Reads
    <3>6. QED
      BY <1>8, <3>2, <3>4, <3>5 DEF Reads, Looks
  <2>2. \A f \in Files : files'[f] = files[f] \/ ~IsRecord(files'[f])
    BY <1>3 DEF IsRecord, Absent
  <2>3. QED
    BY <1>1, <1>3, <1>5, <1>8, <2>1, <2>2, GoesOn
<1>9. QED
  BY <1>1, <1>2, <1>7, <1>8, AfterRemovalIs

\* Each step that examines an entry keeps the invariant.
LEMMA ExamineEntryKeeps ==
  ASSUME IInv, NEW c \in Commands, ExamineEntry(c)
  PROVE  IInv'
BY FoundLiveKeeps, SkipUnreadableKeeps, FoundStaleKeeps, RereadRecordKeeps, RemoveRecordKeeps
   DEF ExamineEntry

\* The end of the reading keeps the invariant.
LEMMA AllReadKeeps ==
  ASSUME IInv, NEW c \in Commands, AllRead(c)
  PROVE  IInv'
<1>1. Running(c) /\ command[c].pc = "read" /\ command[c].unread = {} /\ OnlyCommand
  BY DEF AllRead, At, Running
<1>2. CASE Return(c, "not-running")
  BY <1>1, <1>2, GivingUp DEF OnlyCommand, HasChild, Results
<1>3. CASE Goto(c, "examine")
  BY <1>1, <1>3, Moving DEF Places, HasChild
<1>4. QED
  BY <1>2, <1>3 DEF AllRead

\* The end of the examination keeps the invariant: what serve --stop will signal is the
\* pid of the one live record.
LEMMA AllExaminedKeeps ==
  ASSUME IInv, NEW c \in Commands, AllExamined(c)
  PROVE  IInv'
<1> DEFINE q == command[c]
<1>1. /\ TypeOK /\ q \in CommandState /\ Place(q) /\ Knows(q) /\ Running(c) /\ OnlyCommand
      /\ q.pc = "examine" /\ q.entries = {} /\ q.unread = {}
  BY DEF IInv, TypeOK, Records, AllExamined, At, Running, Place
<1>2. ASSUME NEW result \in {"listed", "stale-record-removed", "multiple-running"},
             Return(c, result)
      PROVE  IInv'
  BY <1>1, <1>2, GivingUp DEF OnlyCommand, HasChild, Results
<1>3. CASE q.op = "detach" /\ Goto(c, "spawn")
  BY <1>1, <1>3, Moving DEF Places, HasChild
<1>4. ASSUME q.op = "stop", NEW only \in q.live, q.live = {only},
             command' = [command EXCEPT ![c].pc = "terminate", ![c].entries = {only},
                           ![c].pid = only.stored.pid]
      PROVE  IInv'
  <2>1. only \in Entries /\ IsRecord(only.stored) /\ InSlack(only.stored)
    BY <1>1, <1>4 DEF Knows, CommandState
  <2>2. only.stored \in RecordState /\ only.stored.pid \in Pids
    BY <2>1 DEF Entries, Unreadables, RecordState, IsRecord
  <2>3. PICK r : /\ r = [q EXCEPT !.pc = "terminate", !.entries = {only},
                           !.pid = only.stored.pid]
                 /\ Becomes(c, r)
    BY <1>1, <1>4 DEF TypeOK, Becomes
  <2>4. /\ r \in CommandState /\ r.op = q.op /\ r.root = q.root /\ r.pc = "terminate"
        /\ r.unread = q.unread /\ r.entries = {only} /\ r.live = q.live
        /\ r.pid = only.stored.pid /\ r.target = q.target /\ r.result = q.result
    BY <1>1, <2>1, <2>2, <2>3 DEF CommandState, Places
  <2> HIDE DEF q
  <2>5. Place(r)
    BY <1>1, <1>4, <2>1, <2>2, <2>4, CommandsAssumption DEF Place, IsStopping, HasChild
  <2>6. GoesTo(r, q) /\ ~HitsGone(r)
    BY <1>1, <2>4 DEF GoesTo, HasChild, HitsGone, Place
  <2>7. Knows(r)
    BY <1>1, <1>4, <2>1, <2>4 DEF Knows, HasChild
  <2>8. ASSUME Alone PROVE Reads(r)
    <3>1. Reads(q)
      BY <1>1, <2>8 DEF Alone, q
    <3>2. r.op # "detach" /\ IsStopping(r)
      BY <1>4, <2>2, <2>4, CommandsAssumption DEF IsStopping, q
    <3>3. QED
      BY <1>4, <2>4, <3>1, <3>2 DEF Reads
  <2>9. QED
    BY <1>1, <2>3, <2>4, <2>5, <2>6, <2>7, <2>8, Looking DEF q
<1>5. QED
  BY <1>2, <1>3, <1>4 DEF AllExamined
-----------------------------------------------------------------------------
(* Spawning a bridge and recording it.                                     *)

\* The new process is the only one its spawner has, and announces nothing yet.
LEMMA SpawnKeeps ==
  ASSUME IInv, NEW c \in Commands, Spawn(c)
  PROVE  IInv'
<1> DEFINE q == command[c]
<1>1. /\ TypeOK /\ Main /\ q \in CommandState /\ Place(q) /\ q.pc = "spawn" /\ Running(c)
      /\ q.op = "detach" /\ q.root \in Roots /\ q.result = "none"
      /\ UNCHANGED <<files, now, boot, overlapped>>
  BY DEF IInv, Main, TypeOK, Place, Spawn, At, Running, CommandState
<1>2. PICK pid \in Pids :
        /\ os[pid] = Free
        /\ os' = [os EXCEPT ![pid] = Serve(c, command[c].root)]
        /\ everServe' = everServe \cup {pid}
        /\ command' = [command EXCEPT ![c].pc = "startup", ![c].pid = pid]
  BY DEF Spawn
<1>3. PICK r : r = [q EXCEPT !.pc = "startup", !.pid = pid] /\ Becomes(c, r)
  BY <1>1, <1>2 DEF TypeOK, Becomes
<1>4. /\ r \in CommandState /\ r.op = q.op /\ r.root = q.root /\ r.pc = "startup"
      /\ r.unread = q.unread /\ r.entries = q.entries /\ r.live = q.live
      /\ r.pid = pid /\ r.target = q.target /\ r.result = q.result
  BY <1>1, <1>3 DEF CommandState, Places
<1>5. /\ command'[c] = r /\ \A d \in Commands \ {c} : command'[d] = command[d]
      /\ command' \in [Commands -> CommandState]
  BY <1>1, <1>3, <1>4 DEF Becomes, TypeOK
<1>6. /\ os'[pid] = Serve(c, q.root) /\ os'[pid] \in ServeState
      /\ \A p \in Pids \ {pid} : os'[p] = os[p]
  BY <1>1, <1>2 DEF TypeOK, Serve, ServeState, Spawners
<1>7. /\ os'[pid].kind = "serve" /\ os'[pid].by = c /\ os'[pid].root = q.root
      /\ ~os'[pid].signalled /\ ~IsServe(pid)
  BY <1>2, <1>6, ProcessKinds DEF Serve, IsServe, Free
<1> HIDE DEF q
<1>8. TypeOK'
  <2>1. os' \in [Pids -> Processes]
    BY <1>1, <1>2, <1>6 DEF TypeOK, Processes, q
  <2>2. QED
    BY <1>1, <1>2, <1>5, <2>1 DEF TypeOK
<1>9. \A d \in Commands : Place(command'[d])
  <2>1. Place(r)
    BY <1>1, <1>2, <1>4, CommandsAssumption DEF Place, IsStopping, HasChild
  <2>2. QED
    BY <1>1, <1>5, <2>1 DEF Main
<1>10. Records'
  <2>1. now <= now' /\ now' \in Int /\ everServe \subseteq everServe'
    BY <1>1, <1>2 DEF TypeOK
  <2>2. \A f \in Files : Fits(files[f])'
    BY <1>1, <2>1, KnowledgeStays DEF Main, Records, TypeOK
  <2>3. Knows(q)
    BY <1>1 DEF Main, Records, q
  <2>4. \A d \in Commands \ {c} : Knows(command[d])'
    BY <1>1, <1>5, <2>1, KnowledgeStays DEF Main, Records, TypeOK
  <2>5. Knows(command[c])'
    <3>1. \A stored \in {Absent} \cup Unreadables \cup RecordState :
            Fits(stored) => Fits(stored)'
      BY <1>1, <2>1, KnowledgeStays DEF Main
    <3>2. \A e \in r.entries \cup r.live : Fits(e.stored)'
      BY <1>1, <1>4, <2>3, <3>1 DEF Knows, CommandState, Entries
    <3>3. \A e \in r.live : IsRecord(e.stored) /\ InSlack(e.stored)'
      BY <1>1, <1>4, <2>1, <2>3 DEF Knows, InSlack
    <3>4. r.pid \in everServe' /\ r.pc \in HasChild
      BY <1>2, <1>4 DEF HasChild
    <3>5. Knows(r)'
      BY <3>2, <3>3, <3>4 DEF Knows
    <3>6. QED
      BY <1>5, <3>5 DEF Knows
  <2>6. QED
    BY <2>2, <2>4, <2>5 DEF Records
<1>11. \A p \in Pids : IsServe(p) => os[p].by # c
  BY <1>1, CommandsAssumption DEF Main, Serves, Owns, HasChild, q
<1>12. \A p \in Pids : IsServe(p)' => p = pid \/ (p # pid /\ IsServe(p) /\ os'[p] = os[p])
  BY <1>6 DEF IsServe
<1>13. Serves'
  <2>1. ASSUME NEW p \in Pids, IsServe(p)'
        PROVE  /\ p \in everServe'
               /\ os'[p].by # Nobody => Owns(command'[os'[p].by], p, os'[p])
    <3>1. CASE p = pid
      <4>1. Owns(r, pid, os'[pid]) /\ pid \in everServe'
        BY <1>1, <1>2, <1>4, <1>7 DEF Owns, HasChild
      <4>2. QED
        BY <1>5, <1>7, <3>1, <4>1
    <3>2. CASE p # pid
      <4>1. IsServe(p) /\ os'[p] = os[p] /\ os[p].by # c /\ os[p].by \in Spawners
        BY <1>1, <1>11, <1>12, <2>1, <3>2, ProcessKinds DEF IsServe, TypeOK, ServeState
      <4>2. QED
        BY <1>1, <1>2, <1>5, <4>1 DEF Main, Serves, Spawners
    <3>3. QED
      BY <3>1, <3>2
  <2>2. \A p, s \in Pids : IsServe(p)' /\ IsServe(s)' /\ os'[p].by = os'[s].by => p = s
    BY <1>1, <1>7, <1>11, <1>12 DEF Main, Serves
  <2>3. QED
    BY <2>1, <2>2 DEF Serves, IsServe
<1>14. Targets'
  <2>1. ASSUME NEW d \in Commands
        PROVE  /\ c \notin command[d].target /\ command[d].target \subseteq Spawners
               /\ Hits(command[d])
    BY <1>1, CommandsAssumption DEF Main, Targets, Hits, HasChild, TypeOK, CommandState, q
  <2>2. ASSUME NEW d \in Commands, NEW n \in CommandState, n.target = command[d].target,
               n.pc = "wait" => command[d].pc = "wait" /\ n.pid = command[d].pid,
               HitsGone(n) => HitsGone(command[d])
        PROVE  Hits(n)'
    <3>1. \A b \in n.target : b # Nobody => command'[b].pc \in HasChild \cup {"done"}
      BY <1>5, <2>1, <2>2 DEF Hits, Spawners
    <3>2. \A p \in Pids : IsServe(p)' /\ os'[p].by \in n.target =>
             (n.pc = "wait" => p = n.pid) /\ ~HitsGone(n)
      BY <1>7, <1>12, <2>1, <2>2 DEF Hits
    <3>3. QED
      BY <3>1, <3>2 DEF Hits, IsServe
  <2>3. ~HitsGone(r)
    BY <1>1, <1>4 DEF HitsGone
  <2>4. Hits(r)'
    BY <1>4, <2>2, <2>3 DEF q
  <2>5. \A d \in Commands \ {c} : Hits(command[d])'
    BY <1>1, <1>5, <2>2 DEF TypeOK
  <2>6. QED
    BY <1>5, <2>4, <2>5 DEF Targets
<1>15. ASSUME ~overlapped' PROVE Alone'
  <2>1. Alone
    BY <1>1, <1>15 DEF IInv
  <2>2. \A d \in Commands : Running(d)' => d = c
    BY <1>1, <1>5, <2>1 DEF Alone, Running
  <2>3. \A p \in Pids : Announced(p)' => Announced(p) /\ os'[p] = os[p]
    <3>1. ASSUME NEW p \in Pids, Announced(p)'
          PROVE  Announced(p) /\ os'[p] = os[p]
      <4>1. /\ IsServe(p)' /\ ~os'[p].signalled
            /\ os'[p].by # Nobody => command'[os'[p].by].result = "started"
        BY <3>1 DEF Announced, IsServe
      <4>2. p # pid
        BY <1>1, <1>4, <1>5, <1>7, <4>1, CommandsAssumption
      <4>3. IsServe(p) /\ os'[p] = os[p] /\ os[p].by \in Spawners /\ os[p].by # c
        BY <1>1, <1>11, <1>12, <4>1, <4>2, ProcessKinds DEF IsServe, TypeOK, ServeState
      <4>4. QED
        BY <1>5, <4>1, <4>3 DEF Announced, Spawners
    <3>2. QED
      BY <3>1
  <2>4. \A p \in Pids : Announced(p)' =>
          \E f \in {os'[p].root, Legacy} : Names(files[f], p)'
    BY <1>1, <2>1, <2>3 DEF Alone, Names, Recent, IsRecord
  <2>5. AtMostOnePerRoot'
    BY <2>1, <2>3 DEF Alone, AtMostOnePerRoot
  <2>6. Reads(r)'
    <3>1. Reads(q)
      BY <1>1, <2>1 DEF Alone, q
    <3>2. \A p \in Pids : Announced(p) => os[p].root # q.root
      BY <1>1, <3>1 DEF Reads, Looks
    <3>3. QED
      BY <1>1, <1>4, <2>3, <3>1, <3>2 DEF Reads, IsStopping
  <2>7. QED
    BY <1>4, <1>5, <2>2, <2>4, <2>5, <2>6 DEF Alone, At
<1>16. QED
  BY <1>8, <1>9, <1>10, <1>13, <1>14, <1>15 DEF IInv

\* Waiting for the key keeps the invariant.
LEMMA KeyKeeps ==
  ASSUME IInv, NEW c \in Commands, PrintKey(c) \/ TakeKey(c)
  PROVE  IInv'
<1> DEFINE q == command[c]
<1>1. TypeOK /\ q \in CommandState /\ Place(q) /\ Running(c) /\ OnlyCommand /\ q.pc = "startup"
  BY DEF IInv, TypeOK, PrintKey, TakeKey, At, Running
<1>2. CASE TakeKey(c)
  <2>1. Goto(c, "create")
    BY <1>2 DEF TakeKey
  <2>2. QED
    BY <1>1, <2>1, Moving DEF Places, HasChild
<1>3. CASE PrintKey(c)
  <2>1. PICK r : r = [q EXCEPT !.key = TRUE] /\ Becomes(c, r)
    BY <1>1, <1>3 DEF PrintKey, TypeOK, Becomes
  <2>2. /\ r \in CommandState /\ r.op = q.op /\ r.root = q.root /\ r.pc = q.pc
        /\ r.unread = q.unread /\ r.entries = q.entries /\ r.live = q.live
        /\ r.pid = q.pid /\ r.target = q.target /\ r.result = q.result
    BY <1>1, <2>1 DEF CommandState
  <2> HIDE DEF q
  <2>3. Place(r) /\ GoesTo(r, q) /\ KnowsLess(r, q) /\ ~HitsGone(r)
    BY <1>1, <2>2 DEF Place, GoesTo, KnowsLess, HasChild, HitsGone, IsStopping
  <2>4. ASSUME Alone PROVE Reads(r)
    <3>1. Reads(q)
      BY <1>1, <2>4 DEF Alone, q
    <3>2. QED
      BY <1>1, <2>2, <3>1 DEF Reads, IsStopping
  <2>5. QED
    BY <1>1, <2>1, <2>2, <2>3, <2>4, Looking DEF q
<1>4. QED
  BY <1>2, <1>3

\* The file that is created names nothing.
LEMMA CreateRecordKeeps ==
  ASSUME IInv, NEW c \in Commands, CreateRecord(c)
  PROVE  IInv'
<1> DEFINE q == command[c]
<1>1. /\ TypeOK /\ q \in CommandState /\ Place(q) /\ Running(c) /\ q.pc = "create"
      /\ UNCHANGED os /\ OsUnchanged /\ (~overlapped => Alone)
      /\ files[q.root] = Absent /\ files' = [files EXCEPT ![q.root] = Unreadable(c)]
      /\ Goto(c, "fill")
  BY DEF IInv, TypeOK, CreateRecord, At, Running
<1>2. q.root \in Files /\ q.op = "detach"
  BY <1>1, RootCountAssumption DEF Place, HasChild, CommandState, Roots, Files, Legacy
<1>3. /\ files' \in [Files -> {Absent} \cup Unreadables \cup RecordState]
      /\ files'[q.root] = Unreadable(c)
      /\ \A f \in Files \ {q.root} : files'[f] = files[f]
  <2>1. Unreadable(c) \in Unreadables
    BY DEF Unreadable, Unreadables
  <2>2. QED
    BY <1>1, <1>2, <2>1 DEF TypeOK
<1>4. /\ \A f \in Files : files'[f] = files[f] \/ ~IsRecord(files'[f])
      /\ NamingFilesStay
  BY <1>1, <1>2, <1>3 DEF NamingFilesStay, Names, IsRecord, Unreadable, Absent
<1>5. PICK r : r = [q EXCEPT !.pc = "fill"] /\ Becomes(c, r)
  BY <1>1 DEF Goto, TypeOK, Becomes
<1>6. /\ r \in CommandState /\ r.op = q.op /\ r.root = q.root /\ r.pc = "fill"
      /\ r.unread = q.unread /\ r.entries = q.entries /\ r.live = q.live
      /\ r.pid = q.pid /\ r.target = q.target /\ r.result = q.result
  BY <1>1, <1>5 DEF CommandState, Places
<1> HIDE DEF q
<1>7. Place(r) /\ GoesTo(r, q) /\ KnowsLess(r, q) /\ ~HitsGone(r)
  BY <1>1, <1>6 DEF Place, GoesTo, KnowsLess, HasChild, HitsGone, IsStopping
<1>8. ASSUME Alone PROVE Reads(r)'
  <2>1. Reads(q)
    BY <1>1, <1>8 DEF Alone, q
  <2>2. ASSUME NEW d \in r.entries \cup r.live
        PROVE  files'[d.file] = d.stored
    <3>1. files[d.file] = d.stored /\ d \in Entries
      BY <1>1, <1>6, <2>1, <2>2 DEF Reads, CommandState
    <3>2. d.file # q.root /\ d.file \in Files
      BY <1>1, <3>1 DEF Entries, Absent, Unreadables, RecordState
    <3>3. QED
      BY <1>3, <3>1, <3>2
  <2>3. NoNewServe
    BY <1>1 DEF TypeOK, NoNewServe, IsServe
  <2>4. r.result # "started"
    BY <1>1, <1>6 DEF Place
  <2>5. \A p \in Pids : Announced(p)' => Announced(p) /\ os'[p].root = os[p].root
    BY <1>1, <1>5, <1>6, <2>3, <2>4, AnnouncedBefore
  <2>6. \A p \in Pids : Announced(p) => os[p].root # q.root
    BY <1>1, <1>2, <2>1 DEF Reads, Looks
  <2>7. ~IsStopping(r) => r.entries \cap r.live = {}
    BY <1>6, <2>1 DEF Reads, IsStopping
  <2>8. QED
    BY <1>6, <2>2, <2>5, <2>6, <2>7 DEF Reads
<1>9. r.pc = "fill" => files'[r.root] = Unreadable(c)
  BY <1>3, <1>6
<1>10. QED
  BY <1>1, <1>3, <1>4, <1>5, <1>6, <1>7, <1>8, <1>9, GoesOn DEF q

\* The record that is written names the bridge that was spawned, and has its root; the
\* bridge is announced by the same step.
LEMMA FillRecordKeeps ==
  ASSUME IInv, NEW c \in Commands, FillRecord(c)
  PROVE  IInv'
<1> DEFINE q == command[c]
           r == Finished(c, "started")
<1> PICK root : root = q.root
  OBVIOUS
<1>1. /\ TypeOK /\ Main /\ q \in CommandState /\ Place(q) /\ Running(c) /\ q.pc = "fill"
      /\ Knows(q) /\ UNCHANGED <<os, boot, everServe, overlapped>> /\ now' = now + 1
      /\ Return(c, "started") /\ (~overlapped => Alone)
      /\ q.op = "detach" /\ q.pid \in Pids /\ root \in Roots /\ root \in Files
      /\ now \in Int /\ boot \in Int /\ boot <= now
  <2>1. TypeOK /\ q \in CommandState /\ Place(q) /\ q.pc = "fill"
    BY DEF IInv, TypeOK, FillRecord, At
  <2>2. q.op = "detach" /\ q.pid \in Pids /\ root \in Roots
    BY <2>1 DEF Place, HasChild, CommandState
  <2>3. root \in Files
    BY <2>2, RootCountAssumption DEF Roots, Files, Legacy
  <2>4. QED
    BY <2>1, <2>2, <2>3 DEF IInv, Main, TypeOK, Records, FillRecord, Running
<1>2. /\ r \in CommandState /\ Becomes(c, r) /\ r.op = q.op /\ r.target = q.target
      /\ r.pc = "done" /\ r.result = "started" /\ r.pid = Nobody
      /\ r.entries = {} /\ r.live = {} /\ r.unread = {}
  <2>1. Becomes(c, r)
    BY <1>1 DEF Return, Becomes
  <2>2. QED
    BY <1>1, <2>1, FinishedIs DEF Results
<1> HIDE DEF r
<1>3. /\ command'[c] = r /\ \A d \in Commands \ {c} : command'[d] = command[d]
  BY <1>1, <1>2 DEF Becomes, TypeOK
<1>4. Place(r) /\ HitsSame(r, q) /\ KnowsLess(r, q)
  BY <1>2 DEF Place, HitsSame, HitsGone, KnowsLess, HasChild, IsStopping, NewCommand
<1> DEFINE written == Record(q.pid, root, now)
<1>5. /\ written \in RecordState /\ IsRecord(written) /\ written.pid = q.pid
      /\ written.root = root /\ written.started = now
  BY <1>1 DEF Record, RecordState, IsRecord
<1>6. /\ files' \in [Files -> {Absent} \cup Unreadables \cup RecordState]
      /\ \A f \in Files \ {root} : files'[f] = files[f]
      /\ files'[root] = files[root] \/ files'[root] = written
      /\ files[root] = Unreadable(c) => files'[root] = written
  BY <1>1, <1>5 DEF FillRecord, TypeOK
<1> HIDE DEF written
<1>7. \A f \in Files : files'[f] = files[f] \/ Fits(files[f])'
  <2>1. q.pid \in everServe'
    BY <1>1, CommandsAssumption DEF Knows, HasChild
  <2>2. QED
    BY <1>1, <1>5, <1>6, <2>1 DEF Fits
<1>8. \A p \in OwnServe(c) : p = q.pid /\ root = os[p].root
  BY <1>1, NoChild
<1> HIDE DEF q
<1>9. NoNewServe
  BY <1>1 DEF TypeOK, NoNewServe, IsServe
<1>10. Main'
  <2>1. \A p \in OwnServe(c) : IsServe(p)' => Owns(r, p, os'[p])
    BY <1>1, <1>2 DEF Owns
  <2>2. now <= now' /\ now' \in Int /\ overlapped' \in BOOLEAN
    BY <1>1 DEF TypeOK
  <2>3. r.pc \in HasChild \cup {"done"}
    BY <1>2
  <2>4. QED
    BY <1>1, <1>2, <1>4, <1>6, <1>7, <1>9, <2>1, <2>2, <2>3, OneCommand DEF q
<1>11. ASSUME ~overlapped' PROVE Alone'
  <2>1. /\ Alone /\ Reads(q) /\ files[root] = Unreadable(c)
        /\ \A d \in Commands : ~Running(d)'
    BY <1>1, <1>2, <1>3, <1>11 DEF Alone, Running, At, q
  <2>2. files'[root] = written
    BY <1>6, <2>1
  <2>3. ASSUME NEW p \in Pids, Announced(p)'
        PROVE  IF os[p].by = c THEN p = q.pid /\ os[p].root = root ELSE Announced(p)
    <3>1. /\ IsServe(p) /\ ~os[p].signalled /\ os[p].by \in Spawners
          /\ os[p].by # Nobody => command'[os[p].by].result = "started"
      BY <1>1, <2>3, ProcessKinds DEF Announced, IsServe, TypeOK, ServeState
    <3>2. CASE os[p].by = c
      BY <1>8, <3>1, <3>2 DEF OwnServe
    <3>3. CASE os[p].by # c
      BY <1>3, <3>1, <3>3 DEF Announced, Spawners
    <3>4. QED
      BY <3>2, <3>3
  <2>4. \A p \in Pids : Announced(p) => os[p].root # root
    BY <1>1, <2>1 DEF Reads, Looks, q
  <2>5. ASSUME NEW p \in Pids, Announced(p)'
        PROVE  \E f \in {os'[p].root, Legacy} : Names(files[f], p)'
    <3>1. CASE os[p].by = c
      <4>1. p = q.pid /\ os[p].root = root
        BY <2>3, <2>5, <3>1
      <4>2. written.started >= boot
        BY <1>1, <1>5
      <4>3. Names(files[root], p)'
        BY <1>1, <1>5, <2>2, <4>1, <4>2 DEF Names, Recent, IsRecord
      <4>4. QED
        BY <1>1, <4>1, <4>3
    <3>2. CASE os[p].by # c
      <4>1. Announced(p)
        BY <2>3, <2>5, <3>2
      <4>2. PICK f \in {os[p].root, Legacy} : Names(files[f], p)
        BY <2>1, <4>1 DEF Alone
      <4>3. f \in Files
        <5>1. os[p] \in ServeState
          BY <1>1, <4>1, ProcessKinds DEF Announced, IsServe, TypeOK
        <5>2. QED
          BY <5>1, RootCountAssumption DEF ServeState, Roots, Files, Legacy
      <4>4. f # root
        BY <2>1, <4>2 DEF Names, IsRecord, Unreadable
      <4>5. Names(files[f], p)'
        BY <1>1, <1>6, <4>2, <4>3, <4>4 DEF Names, Recent, IsRecord
      <4>6. QED
        BY <1>1, <4>5
    <3>3. QED
      BY <3>1, <3>2
  <2>6. AtMostOnePerRoot'
    <3>1. ASSUME NEW p \in Pids, NEW s \in Pids, Announced(p)', Announced(s)',
                 os[p].root = os[s].root
          PROVE  p = s
      BY <2>1, <2>3, <2>4, <3>1 DEF Alone, AtMostOnePerRoot
    <3>2. QED
      BY <1>1, <3>1 DEF AtMostOnePerRoot
  <2>7. QED
    BY <2>1, <2>5, <2>6 DEF Alone
<1>12. QED
  BY <1>10, <1>11 DEF Main, IInv
-----------------------------------------------------------------------------
(* Stopping a bridge.                                                      *)

\* The process that serve --stop signals is the only one its spawner will ever have.
LEMMA TerminateKeeps ==
  ASSUME IInv, NEW c \in Commands, Terminate(c)
  PROVE  IInv'
<1> DEFINE q == command[c]
<1>1. /\ TypeOK /\ Main /\ q \in CommandState /\ Place(q) /\ Running(c) /\ q.pc = "terminate"
      /\ UNCHANGED files /\ OsUnchanged /\ (~overlapped => Alone)
      /\ q.op = "stop" /\ q.pid \in Pids /\ q.result = "none" /\ q.unread = {}
  <2>1. TypeOK /\ Main /\ q \in CommandState /\ Place(q) /\ q.pc = "terminate"
    BY DEF IInv, Main, TypeOK, Terminate, At
  <2>2. q.op = "stop" /\ q.pid \in Pids
    BY <2>1 DEF Place, IsStopping, CommandState
  <2>3. QED
    BY <2>1, <2>2 DEF IInv, Terminate, Running, Place
<1>2. CASE Return(c, "terminate-failed") /\ UNCHANGED os
  BY <1>1, <1>2, GivingUp DEF HasChild, Results
<1>3. ASSUME Signal(q.pid),
             command' = [command EXCEPT ![c].pc = "wait",
               ![c].target = {os[p].by : p \in {x \in Pids : x = command[c].pid /\ IsServe(x)}}]
      PROVE  IInv'
  <2> DEFINE target == {os[p].by : p \in {x \in Pids : x = command[c].pid /\ IsServe(x)}}
  <2>1. \A b \in target : b = os[q.pid].by /\ IsServe(q.pid) /\ b \in Spawners
    BY <1>1, ProcessKinds DEF IsServe, TypeOK, ServeState
  <2>2. PICK r : r = [q EXCEPT !.pc = "wait", !.target = target] /\ Becomes(c, r)
    BY <1>1, <1>3 DEF TypeOK, Becomes
  <2>3. target \subseteq Spawners
    BY <2>1
  <2> HIDE DEF target
  <2>4. /\ r \in CommandState /\ r.op = q.op /\ r.root = q.root /\ r.pc = "wait"
        /\ r.unread = q.unread /\ r.entries = q.entries /\ r.live = q.live
        /\ r.pid = q.pid /\ r.target = target /\ r.result = q.result
    BY <1>1, <2>2, <2>3 DEF CommandState, Places
  <2>5. NoNewServe
    BY <1>1, <1>3, SignalOne
  <2> HIDE DEF q
  <2>6. Place(r) /\ KnowsLess(r, q)
    BY <1>1, <2>4 DEF Place, KnowsLess, HasChild, IsStopping
  <2>7. Hits(r)'
    <3>1. ASSUME NEW b \in r.target, b # Nobody
          PROVE  command'[b].pc \in HasChild \cup {"done"}
      <4>1. b = os[q.pid].by /\ IsServe(q.pid) /\ b \in Commands
        BY <2>1, <2>4, <3>1 DEF Spawners
      <4>2. command[b].pc \in HasChild \cup {"done"}
        BY <1>1, <3>1, <4>1 DEF Main, Serves, Owns
      <4>3. b # c
        BY <1>1, <4>2 DEF HasChild, q
      <4>4. command'[b] = command[b]
        BY <1>1, <2>2, <4>1, <4>3 DEF Becomes, TypeOK
      <4>5. QED
        BY <4>2, <4>4
    <3>2. ASSUME NEW p \in Pids, IsServe(p)', os'[p].by \in r.target
          PROVE  p = r.pid
      <4>1. IsServe(p) /\ os'[p].by = os[p].by
        BY <2>5, <3>2 DEF NoNewServe
      <4>2. IsServe(q.pid) /\ os[p].by = os[q.pid].by
        BY <2>1, <2>4, <3>2, <4>1
      <4>3. QED
        BY <1>1, <2>4, <4>1, <4>2 DEF Main, Serves
    <3>3. ~HitsGone(r)
      BY <1>1, <2>4 DEF HitsGone
    <3>4. QED
      BY <3>1, <3>2, <3>3 DEF Hits, IsServe
  <2>8. Main'
    <3>1. OwnServe(c) = {}
      BY <1>1, NoChild DEF q
    <3>2. /\ now <= now' /\ now' \in Int /\ overlapped' \in BOOLEAN
          /\ UNCHANGED <<boot, everServe>>
      BY <1>1 DEF TypeOK, OsUnchanged
    <3>3. files' \in [Files -> {Absent} \cup Unreadables \cup RecordState]
      BY <1>1 DEF TypeOK
    <3>4. q.pc \notin HasChild \cup {"done"}
      BY <1>1 DEF HasChild
    <3>5. QED
      BY <1>1, <2>2, <2>4, <2>5, <2>6, <2>7, <3>1, <3>2, <3>3, <3>4, OneCommand DEF q
  <2>9. ASSUME ~overlapped' PROVE Alone'
    <3>1. Alone /\ Reads(q) /\ (\A d \in Commands : Running(d) => d = c) /\ UNCHANGED boot
      BY <1>1, <2>9 DEF Alone, OsUnchanged, q
    <3>2. \A p \in Pids : Announced(p)' => Announced(p)
      BY <1>1, <2>2, <2>4, <2>5, AnnouncedBefore
    <3>3. Reads(r)'
      BY <1>1, <2>4, <3>1, <3>2 DEF Reads, IsStopping
    <3>4. QED
      BY <1>1, <2>2, <2>4, <2>5, <3>1, <3>3, AloneStays
  <2>10. QED
    BY <2>8, <2>9 DEF Main, IInv
<1>4. QED
  BY <1>2, <1>3 DEF Terminate

\* The wait for the exit keeps the invariant: once the pid is not a bridge's, the one
\* process it signalled has gone.
LEMMA WaitKeeps ==
  ASSUME IInv, NEW c \in Commands, ExitSeen(c) \/ StopTimesOut(c)
  PROVE  IInv'
<1> DEFINE q == command[c]
<1>1. /\ TypeOK /\ q \in CommandState /\ Place(q) /\ Running(c) /\ OnlyCommand /\ q.pc = "wait"
      /\ Hits(q)
  BY DEF IInv, TypeOK, Targets, ExitSeen, StopTimesOut, At, Running
<1>2. CASE StopTimesOut(c)
  BY <1>1, <1>2, GivingUp DEF StopTimesOut, OnlyCommand, HasChild, Results
<1>3. CASE ExitSeen(c)
  <2>1. Goto(c, "reread") /\ ~IsAlive(q.pid)
    BY <1>3 DEF ExitSeen
  <2>2. \A p \in Pids : IsServe(p) => os[p].by \notin q.target
    BY <1>1, <2>1 DEF Hits, IsAlive, IsServe
  <2>3. Hits([q EXCEPT !.pc = "reread"])
    <3> DEFINE r == [q EXCEPT !.pc = "reread"]
    <3>1. r.target = q.target /\ r.pc = "reread"
      BY <1>1 DEF CommandState
    <3> HIDE DEF r
    <3>2. Hits(r)
      BY <1>1, <2>2, <3>1 DEF Hits
    <3>3. QED
      BY <3>2 DEF r
  <2>4. \A e \in q.entries : \A p \in Pids : Announced(p) => ~Names(e.stored, p)
    BY <1>1, <2>1 DEF Place, IsStopping, Names, Announced, IsAlive, IsServe
  <2>5. QED
    BY <1>1, <2>1, <2>3, <2>4, Moving DEF Places, HasChild
<1>4. QED
  BY <1>2, <1>3

\* Every step of a command keeps the invariant.
LEMMA CommandKeeps ==
  ASSUME IInv, NEW c \in Commands,
         Begin(c) \/ CommandStep(c) \/ Interrupt(c) \/ Kill(c)
  PROVE  IInv'
<1>1. CASE \/ ChildCloses(c) \/ StartupDeadline(c) \/ RecordTaken(c) \/ FileOperationFails(c)
           \/ Interrupt(c) \/ Kill(c)
  <2>1. UNCHANGED files /\ OsUnchanged
    BY <1>1 DEF ChildCloses, StartupDeadline, RecordTaken, FileOperationFails, Interrupt, Kill,
                OnlyCommand
  <2>2. QED
    BY <1>1, <2>1, GivingUp
<1>2. CASE SpawnFails(c)
  <2>1. /\ OnlyCommand /\ Running(c) /\ command[c].pc \notin HasChild
        /\ Return(c, "startup-failed")
    BY <1>2 DEF SpawnFails, At, Running, HasChild
  <2>2. QED
    BY <2>1, GivingUp DEF OnlyCommand, Results
<1>3. QED
  BY <1>1, <1>2, BeginKeeps, ReadRecordKeeps, AllReadKeeps, ExamineEntryKeeps, AllExaminedKeeps,
     SpawnKeeps, KeyKeeps, CreateRecordKeeps, FillRecordKeeps, TerminateKeeps, WaitKeeps
     DEF CommandStep
-----------------------------------------------------------------------------
(* The other processes, and the machine.                                   *)

\* A process that is no bridge comes or goes, or a bridge exits, or nothing changes.
LEMMA EnvironmentKeeps ==
  ASSUME IInv, NoNewServe, UNCHANGED <<files, command, now, boot, everServe, overlapped>>
  PROVE  IInv'
<1>1. /\ TypeOK /\ Records /\ Serves /\ Targets /\ \A c \in Commands : Place(command[c])
      /\ (~overlapped => Alone)
  BY DEF IInv
<1>2. TypeOK'
  BY <1>1 DEF TypeOK, NoNewServe
<1>3. Records'
  BY <1>1 DEF Records, Knows, Fits, Recent, InSlack, IsRecord
<1>4. Serves'
  <2>1. ASSUME NEW p \in Pids, IsServe(p)'
        PROVE  /\ p \in everServe'
               /\ os'[p].by # Nobody => Owns(command'[os'[p].by], p, os'[p])
    BY <1>1, <2>1 DEF NoNewServe, Serves, Owns
  <2>2. \A p, s \in Pids : IsServe(p)' /\ IsServe(s)' /\ os'[p].by = os'[s].by => p = s
    BY <1>1 DEF NoNewServe, Serves
  <2>3. QED
    BY <2>1, <2>2 DEF Serves, IsServe
<1>5. Targets'
  BY <1>1 DEF Targets, Hits, NoNewServe, IsServe
<1>6. ASSUME ~overlapped' PROVE Alone'
  <2>1. Alone
    BY <1>1, <1>6
  <2>2. \A p \in Pids : Announced(p)' => Announced(p) /\ os'[p].root = os[p].root
    BY DEF Announced, NoNewServe, IsServe
  <2>3. \A c \in Commands : Running(c)' <=> Running(c)
    BY DEF Running
  <2>4. \A p \in Pids : Announced(p)' =>
          \E f \in {os'[p].root, Legacy} : Names(files[f], p)'
    BY <2>1, <2>2 DEF Alone, Names, Recent, IsRecord
  <2>5. AtMostOnePerRoot'
    BY <2>1, <2>2 DEF Alone, AtMostOnePerRoot
  <2>6. ASSUME NEW c \in Commands, Running(c) PROVE Reads(command[c])'
    <3>1. Reads(command[c])
      BY <2>1, <2>6 DEF Alone
    <3>2. ASSUME NEW e, NEW p \in Pids, Announced(p)', ~Names(e.stored, p)
          PROVE  ~Names(e.stored, p)'
      BY <2>2, <3>2 DEF Names, Recent, IsRecord
    <3>3. ASSUME NEW p \in Pids, Announced(p)', NEW f, Names(files[f], p)
          PROVE  Names(files[f], p)'
      BY <2>2, <3>3 DEF Names, Recent, IsRecord
    <3>4. QED
      BY <2>2, <3>1, <3>2, <3>3 DEF Reads, IsStopping
  <2>7. QED
    BY <2>1, <2>3, <2>4, <2>5, <2>6 DEF Alone, At
<1>7. QED
  BY <1>1, <1>2, <1>3, <1>4, <1>5, <1>6 DEF IInv

\* A pid that is taken or given back keeps the invariant.
LEMMA ProcessKeeps ==
  ASSUME IInv, NEW p \in Pids, ProcessExits(p) \/ PidReused(p)
  PROVE  IInv'
<1>1. TypeOK
  BY DEF IInv
<1>2. PICK o \in {Free} \cup Others : os' = [os EXCEPT ![p] = o]
  BY DEF ProcessExits, PidReused
<1>3. o \in Processes /\ o.kind # "serve"
  BY <1>2 DEF Processes, Free, Others
<1>4. NoNewServe
  <2>1. os'[p] = o /\ \A s \in Pids \ {p} : os'[s] = os[s]
    BY <1>1, <1>2 DEF TypeOK
  <2>2. os' \in [Pids -> Processes]
    BY <1>1, <1>2, <1>3 DEF TypeOK
  <2>3. QED
    BY <1>3, <2>1, <2>2 DEF NoNewServe, IsServe
<1>5. UNCHANGED <<files, command, now, boot, everServe, overlapped>>
  BY DEF ProcessExits, PidReused, OsUnchanged
<1>6. QED
  BY <1>4, <1>5, EnvironmentKeeps

\* A restart leaves no process, and no record that counts as recent.
LEMMA RestartKeeps ==
  ASSUME IInv, Restart
  PROVE  IInv'
<1>1. /\ TypeOK /\ Records /\ Targets /\ \A c \in Commands : Place(command[c])
  BY DEF IInv
<1>2. /\ now' = now + DownTime /\ boot' = now + DownTime /\ os' = [p \in Pids |-> Free]
      /\ everServe' = {} /\ UNCHANGED <<files, overlapped>>
      /\ now \in Int /\ boot \in Int /\ DownTime \in Nat
  BY <1>1, ClockAssumption DEF Restart, TypeOK
<1>3. ASSUME NEW c \in Commands
      PROVE  /\ command'[c] \in CommandState /\ Place(command'[c])
             /\ command'[c].pc \in {"idle", "done"} /\ command'[c].pid = Nobody
             /\ command'[c].entries = {} /\ command'[c].live = {}
             /\ command'[c].target = command[c].target
             /\ command[c].pc \in HasChild \cup {"done"} => command'[c].pc = "done"
             /\ ~HitsGone(command'[c]) \/ HitsGone(command[c])
  <2>1. NewCommand.pid = Nobody /\ NewCommand.entries = {} /\ NewCommand.live = {}
    BY DEF NewCommand
  <2>2. command[c] \in CommandState /\ Place(command[c])
    BY <1>1 DEF TypeOK
  <2>3. CASE Running(c)
    <3>1. command'[c] = Finished(c, "gone")
      BY <2>3 DEF Restart
    <3>2. /\ command'[c] \in CommandState
          /\ command'[c].pc = "done" /\ command'[c].result = "gone"
          /\ command'[c].pid = Nobody /\ command'[c].entries = {} /\ command'[c].live = {}
          /\ command'[c].unread = {} /\ command'[c].target = command[c].target
      BY <1>1, <3>1, FinishedIs DEF Results
    <3>3. Place(command'[c]) /\ ~HitsGone(command'[c])
      BY <3>2 DEF Place, HasChild, IsStopping, HitsGone
    <3>4. QED
      BY <3>2, <3>3
  <2>4. CASE ~Running(c)
    <3>1. command'[c] = command[c]
      BY <2>4 DEF Restart
    <3>2. command[c].pc \in {"idle", "done"}
      BY <2>4 DEF Running
    <3>3. command[c].pid = Nobody /\ command[c].entries = {} /\ command[c].live = {}
      BY <2>1, <2>2, <3>2 DEF Place
    <3>4. QED
      BY <2>2, <3>1, <3>2, <3>3 DEF HasChild
  <2>5. QED
    BY <2>3, <2>4
<1>4. \A p \in Pids : ~IsServe(p)'
  BY <1>2, ProcessKinds DEF IsServe, Free
<1>5. TypeOK'
  <2>1. command' \in [Commands -> CommandState]
    BY <1>3 DEF Restart
  <2>2. os' \in [Pids -> Processes]
    BY <1>2 DEF Processes
  <2>3. QED
    BY <1>1, <1>2, <2>1, <2>2 DEF TypeOK
<1>6. Records'
  <2>1. ASSUME NEW f \in Files PROVE Fits(files[f])'
    <3>1. Fits(files[f]) /\ files[f] \in {Absent} \cup Unreadables \cup RecordState
      BY <1>1 DEF Records, TypeOK
    <3>2. ASSUME IsRecord(files[f])
          PROVE  files[f].started < now' /\ ~(files[f].started >= boot')
      <4>1. files[f].started \in Int /\ files[f].started < now
        BY <3>1, <3>2 DEF Fits, IsRecord, Absent, Unreadables, RecordState
      <4>2. QED
        BY <1>2, <4>1
    <3>3. QED
      BY <1>2, <3>2 DEF Fits, Recent, IsRecord
  <2>2. \A c \in Commands : Knows(command[c])'
    BY <1>3 DEF Knows
  <2>3. QED
    BY <2>1, <2>2 DEF Records
<1>7. Serves'
  BY <1>4 DEF Serves, IsServe
<1>8. Targets'
  <2>1. ASSUME NEW c \in Commands, NEW b \in command'[c].target, b # Nobody
        PROVE  command'[b].pc \in HasChild \cup {"done"}
    <3>1. b \in command[c].target /\ b \in Commands
      BY <1>1, <1>3, <2>1 DEF TypeOK, CommandState, Spawners
    <3>2. command[b].pc \in HasChild \cup {"done"}
      BY <1>1, <2>1, <3>1 DEF Targets, Hits
    <3>3. QED
      BY <1>3, <3>1, <3>2
  <2>2. QED
    BY <1>4, <2>1 DEF Targets, Hits, IsServe
<1>9. Alone'
  <2>1. \A p \in Pids : ~Announced(p)'
    BY <1>4 DEF Announced, IsServe
  <2>2. \A c \in Commands : ~Running(c)'
    BY <1>3 DEF Running
  <2>3. QED
    BY <2>1, <2>2 DEF Alone, AtMostOnePerRoot
<1>10. QED
  BY <1>3, <1>5, <1>6, <1>7, <1>8, <1>9 DEF IInv

-----------------------------------------------------------------------------
(* The initial states.  At most one bridge runs, started by a version of   *)
(* dumbridge that kept one record for all the roots.                       *)
LEMMA InitHolds ==
  ASSUME Init
  PROVE  IInv
<1>1. /\ os \in [Pids -> {Free} \cup {Serve(Nobody, r) : r \in Roots}]
      /\ \A p, q \in Pids : IsServe(p) /\ IsServe(q) => p = q
      /\ command = [c \in Commands |-> NewCommand]
      /\ now = 1 /\ boot = 0 /\ everServe = {p \in Pids : IsServe(p)} /\ overlapped = FALSE
  BY DEF Init
<1>2. NewCommand \in CommandState /\ Place(NewCommand) /\ Knows(NewCommand) /\ Hits(NewCommand)
  BY DEF NewCommand, CommandState, Places, Results, AnyRoot, Place, HasChild, IsStopping, Knows,
         Hits, HitsGone
<1>3. \A r \in Roots : Serve(Nobody, r) \in ServeState
  BY DEF Serve, ServeState, Spawners
<1>4. os \in [Pids -> Processes]
  BY <1>1, <1>3 DEF Processes
<1>5. ASSUME NEW p \in Pids, IsServe(p)
      PROVE  os[p].by = Nobody /\ ~os[p].signalled /\ os[p].root \in Roots
  BY <1>1, <1>5 DEF IsServe, Serve, Free
<1>6. \A f \in Files : files[f] = Absent \/
        \E p \in Pids : IsServe(p) /\ f = Legacy /\ files[f] = Record(p, os[p].root, 0)
  BY DEF Init
<1>7. \A p \in Pids : IsServe(p) => files[Legacy] = Record(p, os[p].root, 0)
  <2>1. Legacy \in Files
    BY RootCountAssumption DEF Legacy, Files
  <2>2. ASSUME NEW p \in Pids, IsServe(p)
        PROVE  files[Legacy] = Record(p, os[p].root, 0)
    <3>1. (CHOOSE q \in Pids : IsServe(q)) = p
      BY <1>1, <2>2
    <3>2. QED
      BY <2>1, <2>2, <3>1 DEF Init
  <2>3. QED
    BY <2>2
<1>8. ASSUME NEW p \in Pids, IsServe(p)
      PROVE  LET stored == Record(p, os[p].root, 0)
             IN  /\ stored \in RecordState /\ IsRecord(stored)
                 /\ stored.pid = p /\ stored.root = os[p].root /\ stored.started = 0
  BY <1>5, <1>8 DEF Record, RecordState, IsRecord
<1>9. TypeOK
  <2>1. files \in [Files -> {Absent} \cup Unreadables \cup RecordState]
    <3>1. \A f \in Files : files[f] \in {Absent} \cup RecordState
      BY <1>5, <1>6, <1>8
    <3>2. \E body : files = [f \in Files |-> body[f]]
      BY DEF Init
    <3>3. QED
      BY <3>1, <3>2
  <2>2. command \in [Commands -> CommandState]
    BY <1>1, <1>2
  <2>3. now \in Int /\ boot \in Int /\ boot <= now /\ everServe \subseteq Pids
    BY <1>1
  <2>4. QED
    BY <1>1, <1>4, <2>1, <2>2, <2>3 DEF TypeOK
<1>10. Records
  <2>1. \A f \in Files : Fits(files[f])
    <3>1. Fits(Absent)
      BY DEF Fits, IsRecord, Absent
    <3>2. \A p \in Pids : IsServe(p) => Fits(Record(p, os[p].root, 0))
      BY <1>1, <1>5, <1>8 DEF Fits
    <3>3. QED
      BY <1>6, <3>1, <3>2
  <2>2. QED
    BY <1>1, <1>2, <2>1 DEF Records
<1>11. Serves
  BY <1>1, <1>5 DEF Serves
<1>12. Targets
  BY <1>1, <1>2 DEF Targets
<1>13. Alone
  <2>1. \A c \in Commands : ~Running(c)
    BY <1>1 DEF Running, NewCommand
  <2>2. \A p \in Pids : Announced(p) => Names(files[Legacy], p)
    BY <1>1, <1>5, <1>7, <1>8 DEF Announced, Names, Recent
  <2>3. AtMostOnePerRoot
    BY <1>1 DEF AtMostOnePerRoot, Announced
  <2>4. QED
    BY <2>1, <2>2, <2>3 DEF Alone
<1>14. QED
  BY <1>1, <1>2, <1>9, <1>10, <1>11, <1>12, <1>13 DEF IInv

-----------------------------------------------------------------------------
(* The theorems.                                                           *)

\* Every step keeps the invariant.
LEMMA StepKeeps ==
  ASSUME IInv, [Next]_vars
  PROVE  IInv'
<1>1. CASE UNCHANGED vars
  <2>1. NoNewServe
    BY <1>1 DEF vars, IInv, TypeOK, NoNewServe, IsServe
  <2>2. QED
    BY <1>1, <2>1, EnvironmentKeeps DEF vars
<1>2. QED
  BY <1>1, CommandKeeps, ProcessKeeps, RestartKeeps DEF Next

\* The invariant holds for any number of commands, pids and served roots.
THEOREM Invariance == Spec => []IInv
<1>1. Init => IInv
  BY InitHolds
<1>2. IInv /\ [Next]_vars => IInv'
  BY StepKeeps
<1>3. QED
  BY <1>1, <1>2, PTL DEF Spec

\* A detach that reports an error has ended the bridge it spawned, or has signalled it:
\* detachServe's error paths terminate the pid, and only an interruption that the code
\* cannot answer leaves it.
THEOREM FailureEndsServe == Spec => []FailedDetachEndsItsServe
<1>1. IInv => FailedDetachEndsItsServe
  <2>1. SUFFICES ASSUME IInv, NEW c \in Commands, command[c].op = "detach",
                        command[c].result \notin {"none", "started", "gone"},
                        NEW p \in OwnServe(c)
                 PROVE  os[p].signalled
    BY DEF FailedDetachEndsItsServe
  <2>2. command[c].pc = "done"
    BY <2>1 DEF IInv, Place
  <2>3. QED
    BY <2>1, <2>2, CommandsAssumption DEF IInv, Serves, Owns, OwnServe, HasChild
<1>2. QED
  BY <1>1, Invariance, PTL

\* serve --stop says "stopped" only when the bridge it signalled has gone, whatever became
\* of its pid and of its record while stopDetachedServe polled.
THEOREM StoppedIsGone == Spec => []StoppedHasExited
<1>1. IInv => StoppedHasExited
  BY DEF IInv, Targets, Hits, HitsGone, StoppedHasExited
<1>2. QED
  BY <1>1, Invariance, PTL

\* Commands that run one after the other, killed at any point, keep to one announced bridge
\* per root, and each is named by a record of its root that serve --status will read.
THEOREM AnnouncedRecorded == Spec => []AnnouncedIsRecorded
<1>1. IInv => AnnouncedIsRecorded
  <2>1. SUFFICES ASSUME IInv, ~overlapped PROVE
                 /\ AtMostOnePerRoot
                 /\ \A p \in Pids : Announced(p) =>
                      \E f \in Files : /\ IsRecord(files[f])
                                       /\ files[f].pid = p /\ files[f].root = os[p].root
    BY DEF AnnouncedIsRecorded
  <2>2. ASSUME NEW p \in Pids, Announced(p)
        PROVE  \E f \in Files : Names(files[f], p)
    <3>1. PICK f \in {os[p].root, Legacy} : Names(files[f], p)
      BY <2>1, <2>2 DEF IInv, Alone
    <3>2. os[p] \in ServeState
      BY <2>1, <2>2, ProcessKinds DEF Announced, IsServe, IInv, TypeOK
    <3>3. f \in Files
      BY <3>2, RootCountAssumption DEF ServeState, Roots, Files, Legacy
    <3>4. QED
      BY <3>1, <3>3
  <2>3. QED
    BY <2>1, <2>2 DEF IInv, Alone, Names
<1>2. QED
  BY <1>1, Invariance, PTL

\* What a step may never do: signal a pid that was not a bridge's since the machine started,
\* except from a record that was written within the slack before that start and that serve
\* --stop found.  A record older than the slack leads no command to the process that has its
\* pid now, and a detach that fails signals only the bridge it spawned.
THEOREM SignalsServes == Spec => SignalsOnlyServePids
<1> DEFINE Right == \A p \in Pids :
                      IsAlive(p) /\ ~os[p].signalled /\ os'[p].kind = os[p].kind
                        /\ os'[p].signalled => p \in everServe \/ ActsInSlack(p)
<1>1. IInv /\ Next => Right
  <2>1. SUFFICES ASSUME IInv, Next, NEW p \in Pids, IsAlive(p), ~os[p].signalled,
                        os'[p].kind = os[p].kind, os'[p].signalled
                 PROVE  p \in everServe \/ ActsInSlack(p)
    OBVIOUS
  <2>2. TypeOK /\ os'[p] # os[p]
    BY <2>1 DEF IInv
  <2>3. ASSUME NEW c \in Commands, SignalChild(c) PROVE p \in everServe
    BY <2>1, <2>2, <2>3, SignalOwn DEF OwnServe, IInv, Serves
  <2>4. ASSUME NEW c \in Commands, Signal(command[c].pid),
               command[c].pc \in {"create", "fill", "terminate"}
        PROVE  p \in everServe \/ ActsInSlack(p)
    <3> DEFINE q == command[c]
    <3>1. Place(q) /\ Knows(q) /\ q.pid \in Pids /\ q \in CommandState
      BY <2>1, <2>2, <2>4 DEF IInv, Records, Place, HasChild, IsStopping, TypeOK, CommandState
    <3>2. p = q.pid
      BY <2>2, <2>4, <3>1, SignalOne
    <3>3. CASE q.pc \in {"create", "fill"}
      BY <3>1, <3>2, <3>3, CommandsAssumption DEF Knows, HasChild
    <3>4. CASE q.pc = "terminate"
      <4>1. PICK only : q.entries = {only} /\ IsRecord(only.stored) /\ only.stored.pid = p
        BY <3>1, <3>2, <3>4 DEF Place
      <4>2. InSlack(only.stored) /\ Fits(only.stored)
        BY <3>1, <3>2, <3>4, <4>1, CommandsAssumption DEF Knows, HasChild
      <4>3. only.stored.started \in Int /\ boot \in Int
        BY <2>2, <3>1, <4>1 DEF CommandState, Entries, Unreadables, RecordState, IsRecord, TypeOK
      <4>4. CASE Recent(only.stored)
        BY <4>1, <4>2, <4>4 DEF Fits
      <4>5. CASE ~Recent(only.stored)
        BY <3>4, <4>1, <4>2, <4>3, <4>5 DEF ActsInSlack, At, InSlack, Recent
      <4>6. QED
        BY <4>4, <4>5
    <3>5. QED
      BY <2>4, <3>3, <3>4
  <2>5. CASE \E c \in Commands : Begin(c) \/ CommandStep(c) \/ Interrupt(c) \/ Kill(c)
    <3>1. PICK c \in Commands : Begin(c) \/ CommandStep(c) \/ Interrupt(c) \/ Kill(c)
      BY <2>5
    <3>2. CASE StartupDeadline(c) \/ Interrupt(c)
      BY <2>2, <2>3, <3>2 DEF StartupDeadline, Interrupt
    <3>3. CASE RecordTaken(c) \/ FileOperationFails(c) \/ Terminate(c)
      BY <2>2, <2>4, <3>3 DEF RecordTaken, FileOperationFails, Terminate, At
    <3>4. CASE Spawn(c)
      BY <2>1, <2>2, <3>4, ProcessKinds DEF Spawn, TypeOK, IsAlive, Free
    <3>5. CASE ExamineEntry(c)
      BY <2>2, <3>5 DEF ExamineEntry, FoundLive, SkipUnreadable, FoundStale, RereadRecord,
                        RemoveRecord, OnlyCommand
    <3>6. QED
      BY <2>2, <3>1, <3>2, <3>3, <3>4, <3>5
         DEF CommandStep, Begin, ReadRecord, AllRead, AllExamined, SpawnFails, PrintKey, TakeKey,
             ChildCloses, CreateRecord, FillRecord, ExitSeen, StopTimesOut, Kill, OnlyCommand
  <2>6. CASE \E s \in Pids : ProcessExits(s) \/ PidReused(s)
    <3>1. PICK s \in Pids : ProcessExits(s) \/ PidReused(s)
      BY <2>6
    <3>2. s = p
      BY <2>2, <3>1 DEF ProcessExits, PidReused, TypeOK
    <3>3. os'[p] = Free \/ os[p] = Free
      BY <2>2, <3>1, <3>2 DEF ProcessExits, PidReused, TypeOK
    <3>4. QED
      BY <2>1, <3>3 DEF IsAlive, Free
  <2>7. CASE Restart
    BY <2>1, <2>7 DEF Restart, IsAlive, Free
  <2>8. QED
    BY <2>1, <2>5, <2>6, <2>7 DEF Next
<1>2. IInv /\ [Next]_vars => [Right]_vars
  BY <1>1
<1>3. QED
  BY <1>2, Invariance, PTL DEF Spec, SignalsOnlyServePids
=============================================================================
