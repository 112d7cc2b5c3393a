# A verification of dumbridge in TLA+

dumbridge gives a disposable machine temporary read-only access to one local
directory. `dumbridge serve` runs a *bridge* beside the directory and prints a
key; with the key, `dumbridge run` evaluates a script against the directory
and `dumbridge pull` copies a file or a directory of it. The two sides talk
over one QUIC stream per command.

This directory holds TLA+ modules of that system, the configurations TLC
checks, and proofs TLAPS checks. `PROJECT.json` maps every definition of the
modules to the lines it models; paths below are relative to `src/`.

1. [Inventory](#1-inventory) 2.
[Modules](#2-modules-and-how-they-correspond-to-the-code) 3. [Runs](#3-runs) 4.
[What the code does that its documents do not say](#4-findings) 5.
[Proofs](#5-proofs) 6. [What is not
modelled](#6-what-is-only-model-checked-and-what-is-not-modelled) 7.
[Plan](#7-plan)

## 1. Inventory

| Component | Where | State it keeps | Operations |
|---|---|---|---|
| Pull session of the bridge | `apps/dumbridge/src/bridge/session-handlers.ts` | position in the response, hash of the file being sent | plan, send manifest, files, verify, complete or pull-error, finish |
| Pull command | `bridge/client.ts`, `pull-response.ts`, `channel.ts` | decoder, queue of decoded events, manifest | read the response, hand file contents to the materializer |
| Pull preparation and verification | `packages/pull-transfer/src/prepare.ts` | planned revision per path | plan, stream a file, verify |
| Materialization and publication | `packages/pull-transfer/src/materialize.ts`, `atomic-publish.ts` | staging directory, parents it created | inspect destination, stage, write, compare, publish, clean up |
| Pull view | `packages/served-root/src/pull-view.ts` | offset, digest and revision of the scan | list, inspect, read |
| Bridge server | `bridge/server.ts`, `session-handlers.ts` | workers, the pending root banner | accept, authenticate, check expiry, dispatch, reject, respond, close |
| Run and pull commands up to the response | `bridge/client.ts` | attempt, remembered request failure, decoder | check key, connect and retry once, send request, collect the response |
| Detached serves | `bridge/detached-serve.ts` | record files, process table, pids | `serve --detach`, `--stop`, `--status` |
| Wire sessions | `packages/wire/src/sessions.ts` | decoder state, counters | accept or refuse each frame |
| Wire reader, codec, manifest validation, limits | `packages/wire/src` | undecoded bytes | split bytes into frames, encode, decode, validate |
| Iroh session, endpoints, connection | `packages/bridge-transport/src/iroh` | stream, deadlines, abandoned endpoints, the link to a relay | listen, publish a locator, dial, retry, accept, read, write, finish, close |
| Served root, read view | `packages/served-root/src` | identity of the root; budgets, slots, overlay books of a run | resolve, reserve, read, list, write |
| Safe shell | `packages/safe-shell/src` | interpreter, overlay | execute within limits |
| Key, remote path | `packages/bridge-key`, `packages/remote-path` | none | parse, format |
| Command line | `apps/dumbridge/src/cli.ts`, `key-source.ts` | none | resolve the transport of a client, flags, messages, exit codes |
| Proxy, certificates, diagnosis | `bridge-transport/src/iroh/{proxy,ca,diagnose}.ts` | sockets, timers and callbacks of the probes | read the environment, configure a builder, probe, report |
| Website, design system | `apps/www`, `packages/design-system` | none | presentation |

**How they interact.** A pull is a chain of two fibers: the bridge's handler
reads its tree and writes frames, each write blocking on the stream's flow
control; the client's fiber reads, decodes several frames at a time into a
queue, and the materializer pulls file contents out of it. A run is the same
with an interpreter at one end. Workers of one bridge share the pending banner
and nothing else. Detached serves share no memory at all: commands see each
other only through files, pids and the clock.

**What is hard, and what would be correct.**

* *The tree changes while it is pulled.* The bridge plans, streams and then
  verifies. Nothing may be published that was not verified after its last
  byte, whatever changed when; and what was verified should be the tree of one
  instant, although nobody locks it.
* *A tree that rests* must not be refused: each directory is listed and counted
  three times, and the receiver decides in other code than the sender which
  manifests are valid.
* *Bytes arrive in pieces.* What is heard may not depend on which; what this
  program sends must fit the limits of what it reads, at the boundary too; and
  a stream that stops short is never complete.
* *Three encodings of one protocol* (handler, decoder, consumer), one of which
  runs ahead of another. They must agree on every legal response; and against
  a bridge of another version the client must still publish nothing that does
  not match the manifest.
* *Publication* happens next to other programs, deadlines and Ctrl-C. The
  destination appears whole or not at all, is never replaced, and a reported
  success is a published destination.
* *Closing* a QUIC connection throws away what the peer has not acknowledged:
  whoever finished must have been heard, a rejection above all.
* *Waiting*: flow-controlled writes, acknowledgements and bounded workers must
  not form a cycle that only deadlines break.
* *Retries*: a script must not run twice.
* *Detached serves*: at most one per root, every announced one recorded, no
  failed detach leaving one behind, no unrelated process signalled, although
  any command may be killed between any two system calls.
* *One local tree, several pulls*: two pulls may find the same parents
  missing, make some each, publish to one path, fail and clean up after
  themselves, all between each other's system calls. Nobody's files are
  removed, what is published stays whole, a failed pull leaves nothing.
* *Budgets* shared by concurrent reads of a script, reserved before an await
  and corrected after it, on files that change meanwhile: never exceeded,
  never leaked, and no refusal hidden by a command that ignores errors.
* *Two books* about what a script wrote, the library's and the program's own:
  they must agree after every sequence of calls, and all memory be charged,
  although the host is live and the program awaits the library after it has
  looked and charged.
* *Late* endpoints and handshakes: native calls cannot be cancelled, so what
  comes back after a deadline or an interruption must be closed, once; and one
  that comes back while a deadline is closing its endpoint still wins. And late
  callbacks of probes must find them settled.
* *What users are told*: a locator that can be dialled, a reason for a failure
  that is true, a diagnosis that agrees with what a client then meets.

`PROJECT.json` lists these hazards at the lines where they bite.

## 2. Modules, and how they correspond to the code

```
 AtomicPull                         the promise about the destination
    ^ (INSTANCE)
 PullTransfer <- PullAnyBridge <- PullTransferProofs
    |                               any bridge; both proved about
    v
 PullWire <---- WireStream          frames; frames as bytes
 StampedSnapshot                    the promise about the source
    ^ (INSTANCE)
 PullSource <---- PullSourceProofs  the source, call by call
    |
    v
 PullManifest                       valid manifests
 BridgeSession <- BridgeSessionProofs       sessions, without the inside of a pull
 DetachedServe <- DetachedServeProofs       processes, without the inside of a session
 Materialize <-- MaterializeProofs  destinations of several pulls, call by call
 ReadBudget <--- ReadBudgetProofs   what a script reads
 OverlayView <-- OverlayViewProofs  what a script writes
 IrohProofs
    |
    v
 IrohCommands -> IrohTransport -> IrohEndpoint        listening and dialling
       |               |                 and who closes what they open
       +-> Diagnosis --+-> ClientEnvironment          doctor; the environment
```

An arrow is an `EXTENDS` unless it says otherwise. Some modules look inside
what another takes as one step: `PullSource` the source of `PullTransfer`,
`WireStream` its delivery and decoding, `Materialize` the stage, publication
and clean-up of its client, `ReadBudget` and `OverlayView` the execution of a
script in `BridgeSession`, and the Iroh modules its connecting and accepting.

**PullWire** has the frames of a pull response and the decoder of
`makePullResponseSession`. A manifest is the sequence of its file sizes,
counted in chunks; a digest is the index of the file whose planned content it
is the digest of; a chunk holds planned bytes or other ones. `Accepts` is the
disjunction of the branches of `consume`, one operator each, and `Consume` the
state after.

**AtomicPull** is what a pull promises about its destination: four variables,
five actions. It appears in one step, after the source was verified, with the
planned content, never over something else, and success is reported only for
a published destination.

**PullTransfer** is one pull end to end. `spc` is the position in
`sendPullSource` and `handlePull`, `cpc` that in `pullRemote`,
`makeRemoteRead`, `finishPullResponse` and `materializePull`; there is one
action per suspension point of either fiber. `wire` and `inbox` are the halves
of the stream before and after the acknowledgement of the peer's QUIC stack.
`source[i]` says whether file `i` (0: the directories) still is as planned:
`prepare.ts` compares each path with its own planned revision only, and a
comparison may miss a change within the resolution of the time stamps, so a
changed file may yield planned or other bytes, and a scan or a verification
may fail because of it or pass. `scanned` is the digest of what was really
read: the scan's digest check is exact. The decoder may be ahead of the client
by any number of frames (`events`), which over-approximates the size of a
read. `Leave` is the unwinding of the scope: stage, then connection.
Interruptions of both sides, death of either, local I/O failures and a
destination created by another program are actions of their own.

**PullAnyBridge** puts the same client in front of a peer that may send any
frame at any time. It shows what the client relies on when the other side is
not this version of the bridge.

**BridgeSession** is the accept workers of a bridge and the commands that
connect to it. `client[c]` is a `run` or `pull`, `handler[s]` the fiber of
`handleSession` for one attempt of a command. Requests and responses travel
through windows of their own; `finishRequest` waits for an acknowledgement and
remembers a failure instead of reporting it, and so on, one action per
suspension point. `pendingBanner` is the server's variable of that name, taken
before the write and put back by `tapError`, which does not run when a
deadline interrupts the handler (`bannerLost` remembers that). The inside of a
pull's response is one opaque frame here; `PullTransfer` has the rest.

**DetachedServe** is `detached-serve.ts` at the granularity of system calls.
`os` is the process table, `files` the record files (the record of earlier
versions, `detached-serve.json`, sorts last), `command[c]` the local variables
of `detachServe`, `stopDetachedServe` and `listDetachedServes`. Reads of
different files may complete in any order when they run together
(`Promise.all`), and the loop then goes through what was read in file order:
`entries` is a set, of which `ExamineEntry` takes the first (`IsFirst`). A
record is created (`flag: "wx"`) in one step and filled in another. The
environment exits processes, reuses pids, restarts the machine, and interrupts
or kills commands. A process remembers which command spawned it, which no
command can see and only properties use.

**Materialize** is `materialize.ts` with one action per call to the file
system: `pc[c]` is the call pull `c` waits for, `node` the tree, `created` and
`missing` the local variables of `createMissingParents`. `Lstat`, `Mkdir`,
`Rmdir` and `Moved` are the file system's answers as far as the code branches
on them; `Moved` is what each of the three platforms' calls in
`atomic-publish.ts` does. `Fail` is the unwinding of the two nested
`acquireUseRelease`: what is released depends on how far the pull came.
Acquisitions and releases cannot be interrupted, so there `Interrupt` only
sets `cancelled`, which the next interruptible point sees; elsewhere the fiber
leaves a call behind that may still be carried out (`late`). The content of
files, their digests and the order of the connection's events are in
`PullTransfer`.

**ReadBudget** is `readHostFile` from one await to the next, for several reads
of one request at once, with `whileGuarded` and `#guardPaths` around it and
the verdict of `SafeShell.execute` (`ScriptEnds`) over all of them. `stopped`
is the request's three flags; every await ends with `assertRequestOpen`, which
is `Continue` when it passes and `ReturnsInVain` when it throws. Sizes are
counted in chunks. The host's files are inodes, so that a replaced file and a
changed one differ (`Edit`). One level of directories stands for any number:
the walk of `lstatLeafIdentity` is one step, at its last component.

**OverlayView** is the writing half of `RequestBudgetOverlayFs`. `memory` and
`deleted` are the library's (external: what they hold after a call that
passed), `filePaths`, `tombstones`, `charged`, `entries` and `bytes` the
program's. `writeFile`, `mkdir` and `rm` are one action each, a forced `rm`
that finds nothing included: it leaves a tombstone and no deletion
(`read-view.ts:584-593`). `appendFile`, `chmod`, `utimes` and `link` are two:
the look at the path with the charge for what it saw, and the library's part
(`call` is the call that awaits it), which takes what is there by then.
`Change` is the user, between any two calls and inside one. Two history
variables say what became of that: `grown` how much the host grew where a call
no longer looked, `misjudged` which files a `chmod` took that had seen a
directory. `cp` and `mv` are made of the others by the library, and charge
through them. Symbolic links are left out, for the overlay refuses them
(`allowSymlinks: false`).

**StampedSnapshot** is what a prepared pull promises of a tree that nobody
locks: objects are seen one after the other, each with a stamp; then the stamps
are compared again. If none differs, what was seen is the content of one
instant, provided the host gives every change a stamp of its own (`fine`).

**PullSource** is `prepare.ts` over `pull-view.ts`, call by call to the host:
`call` is the `inspect`, `list` or `scan` under way with its guard, its expected
revision and its handle; `todo` what the walk, the transmission or the
verification has still to do. Other programs write, remove, replace and create
paths between any two calls, the request may be aborted, the root replaced, and
any call fail. A revision is the fingerprint the code compares: inode, kind,
size and time stamp, which on a coarse host stays although the file changed.

**PullManifest** is `pull-manifest.ts` with the canonical names of
`remote-path` and, apart from it, `DescribesTree`: what a manifest should be.

**WireStream** is `codec.ts`, `reader.ts`, `sessions.ts` and `channel.ts`:
`Encode` makes units of a message, `Push` cuts a chunk of units into frames,
decodes them and hands them to the session, `ConsumeRequest`, `ConsumeRun` and
`ConsumePull` (which uses `PullWire`) say what a frame does there. What the
bridge and the client send is built as `handleRun`, `handlePull` and the client
build it, limits included; the stream is then delivered whole, cut, spoilt in
one unit or extended, in any division into chunks.

**IrohEndpoint** is `bindEndpoint`, `acquireEndpoint` and `acceptSession` at
the granularity of microtasks: `tasks` is the queue. `NativeBinds`,
`NativeConnects` and the deadlines are tasks of the event loop and start when
the queue is empty; an interruption may come between any two microtasks.
`kept`, `abandoned`, `listening` and `timer` of `bind[b]` are `boundEndpoint`,
`abandoned`, the abort listener and the timer of binding `b`, one for each
attempt of a command. `worker[i]` is the accept fiber of an incoming
connection; only `MaxWorkers` run at a time.

**IrohTransport** is `listen` and `connect` of `iroh/index.ts` with the retry of
`client.ts` around the latter. `step` is where the fiber of the command waits.
The link to the relay (`link`) comes and goes on the native side.
`withDeadline` (`endpoint.ts:55-69`) runs `closeEndpoint` as the other side of
a race: when the deadline strikes, the endpoint is told to close (`told`, of
the endpoint's record) while the native call is still waited for, and
whichever comes first decides (`Wins`, `EndpointCloses`). So the wait for the
home relay may succeed after all (`LateOnline`), and `listen` goes on with an
endpoint that is closing; a dial may (`LateDial`), and `openBi` is called on
its connection. An endpoint that was told to close and is asked for its address
may answer or throw (`RelayLinkObserved`), its `acceptNext` returns null
(`ServingEnds`), and it is closed whatever its fiber does (`EndpointCloses`).

**ClientEnvironment** has no steps: it is what `proxy.ts`, `ca.ts` and the
resolution in `cli.ts` make of the environment and the installed binding, and
what `diagnose.ts` says of them. **Diagnosis** is the doctor, with its probes:
each has a socket or a lookup, a timer and the callbacks that may come after
either. **IrohCommands** composes them: a bridge that serves, or a client that
dials, perhaps after the doctor has run in the same environment.

### Where an abstraction is an assumption

* An interrupted `Effect.tryPromise` does not wait for its promise, and
  `acquireUseRelease` runs acquisition and release uninterruptibly: so the
  Effect version the repository pins does.
* Other programs make files and directories where pulls work, and remove
  none: against a program that removes a stage under a running pull nothing
  can be promised.
* `mkdtemp` gives every stage a name that no other pull, no output and no
  other program has (`NamesAssumption` of `Materialize`).
* Bytes that were received and acknowledged can be read after the connection
  is closed by the *other* side (`inbox` survives a loss). It is how the QUIC
  library behaves towards the code in `iroh/session.ts`; without it a client
  could fail where the model has it succeed, never the reverse.
* `rename` without replacement (`atomic-publish.ts`) is one step that fails if
  the destination exists. On platforms where the code refuses to publish
  because it cannot do that, the model has `LocalFailure`.
* A digest identifies content. In `PullTransfer` the bridge's manifest is valid:
  `pull-manifest.ts` refuses others, and that it does not refuse one the planner
  made is `AcceptedPlan` of `PullSource`.
* The slack of the boot check and the time a restart takes are any two numbers
  (`ClockAssumption`): a restart may well be over within the minute the code
  allows for (`detached-serve.ts:284`, `:589`), and is, in the run.
* A script makes one call that writes to the overlay at a time: the
  interpreter, a library, is taken to run one command after the other, each of
  which awaits what it writes. Its reads may run together (`ReadBudget`), and
  the host changes under any call.
* An endpoint that was told to close accepts nothing any more, and what was
  told to close is closed some time later. Both are the native library's, of
  which the repository has no source.
* A read of a regular file returns a whole chunk unless it meets the end. Short
  reads would make more frames of a file than `WireStream` counts against the
  limit on frames.
* The reject frame and the end of the stream fit a response stream at once
  (`ResponseWindowAssumption`): a rejection is under a hundred bytes.
* A deadline may strike anywhere a fiber can be interrupted; nothing is said
  about its length.

## 3. Runs

All times are for two TLC workers.

| Run | Question | Instance | States |
|---|---|---|---|
| `pull` | Is one pull correct under every interleaving, change and failure, and does it end? | 4 manifests up to 2 files, window 2 | 639k |
| `pull_any_bridge` | What does the client guarantee alone? | 4 manifests, all frames about them, window 1 | 1.3M |
| `source` | Is a verified pull the tree of one instant, a tree that rests pulled, its manifest accepted? | 13 trees up to 5 paths, 2 changes of two of them and 1 of the others, limits of 3 entries, 2 units a file, 3 in all | 883k |
| `wire` | Is what arrives what was sent, in any division, and does what is sent fit? | all results around the limits, 5 manifests, 2 requests; every cut, 13 wrong units at each place | 195k |
| `sessions` | Do two sessions at one bridge disturb each other? | 2 commands, 2 workers | 1.1M |
| `session_alone` | Is a retry safe, a success complete, and does everybody end? | 1 command, 2 attempts, 1 worker, 2 outputs | 5k |
| `detached` | Are processes and records treated correctly, and do the commands end? | 2 commands, 1 root, 2 pids, 1 restart that is quicker than the slack, 1 reuse | 361k |
| `detached_race` | Two `serve --detach` at once (section 4) | 1 root, 2 pids | until violated |
| `materialize` | Do pulls to one place, and others, leave each other alone, and nothing behind? | 2 pulls, 2 missing parents, 1 failing call, 1 thing made by another program | 160k |
| `read_view` | Is what a script reads whole and within its budget, everything given back, every refusal reported? And do the books of what it writes agree, and is memory charged? | 3 reads for 2 slots, a file up to 2 chunks, 3 chunks to read, 1 edit; or 2 paths, files up to 2 units, 3 units and 2 entries of 3, 2 edits | 1.7M |
| `transport` | Has everything that comes back late an owner or an end, and is what users are told true? | 15 environments, 2 relay hosts, 2 attempts, 2 connections for 1 worker | 196k |
| `relay_verdict` | Is a relay only blamed that was not reached (section 4)? | as `transport` | until violated |

**`pull`.** `PublishedIsVerified`: a published destination holds the planned
content, and the bridge had verified its source. `SidesAgree`: between these
two sides no frame is refused, no response ends early, no staged file misses
its digest; and when the bridge's handler ended normally, its closing the
connection cost the client nothing.
`FailureLeavesNoDestination`: how a pull may fail. `ImplementsAtomicPull`: the
refinement, which contains that nothing is ever overwritten; the mapping is the
identity on four variables, for `AtomicPull` speaks of `manifest`, `verified`,
`dest` and `result` only. The one case in which a failure is reported and the
destination is there is a deadline or Ctrl-C between the rename and the report,
and `AtomicPull` says so.

`PullEnds`: both sides end, without any deadline firing. Fairness is weak, of
the two fibers and of delivery. Effect's scheduler runs every fiber that can
run, and QUIC retransmits, so this is justified; no deadline, loss or crash is
assumed to happen. Each side's actions under the fairness are all its own, so
an enabled step can be taken and is not forced over another.

**`pull_any_bridge`.** `PublishedMatchesManifest`: what is published matches
the manifest that was *received*, sizes and digests, and the response was
complete. `DecoderAnticipatesClient`: although the decoder is ahead of the
consumer, every event it lets through is the one the consumer will want.

**`source`.** `VerifiedIsSnapshot`: where stamps are fine, manifest and bytes
sent are the tree as it was when verification began; and even where they are
coarse, the bytes sent are the bytes planned, for the digest tells.
`ImplementsSnapshot` is the refinement behind it: the two walks are one
observation of `StampedSnapshot`, and why that suffices is proved (section 5).
`RestingTreeIsPulled`: a tree nobody touches is pulled exactly when it is
admissible, unless a call of the host failed, and nobody is told that it
changed. `PlanIsAccepted`: the receiver accepts every manifest the bridge
plans, and of some hundreds that differ from it in an entry, the order, the
totals, the kind or the name exactly those that describe a tree.
`HandlesAreClosed`: however a call ended.

**`wire`.** `ChunksAreInvisible`: the caller of the reader gets the events that
a reading of the whole stream at once finds, and learns the same end or fault.
`LegalStreamIsHeard`: all that this program sends stays within the limits of
what it accepts, at the boundary too. `TruncationIsTold`: a stream cut at any
unit, between frames as well, never passes for a complete one, and no request
is heard before the right secret.

**`sessions`.** `OneBanner`: two handlers that end together do not both send
the banner, and one that could not be written is kept. `RejectionIsHeard`: a
rejection the bridge saw acknowledged is what the command reports, although its
own request failed by then.

**`session_alone`.** `ExecutedAtMostOnce` ("Sent requests are never
replayed", `docs/design/v1.md:195`), `SuccessIsComplete`; `SessionsEnd`: the
command reports and its worker comes free, with a request window of one frame,
so that a rejected command is blocked in its own request while the bridge waits
for it to read. Fairness as in `pull`, for each fiber and each stream of its
own. Sessions share the workers and the banner only; that a second command
gets its worker is not checked on its own: it follows, for each of finitely
many attempts takes a worker once and gives it back.

**`detached`.** `FailedDetachEndsItsServe`, `StoppedHasExited`, with two
commands for one root interleaved: the root has two record files, its own and
that of earlier versions, which stands for any other. `SignalsOnlyServePids`:
of the pids that were no bridge's since the machine started, a command signals
at most one that a record from the slack before that start names, and only
`serve --stop` does. The boot check (`detached-serve.ts:284`) cannot tell such
a record from one of now, so that after a restart within the minute an
unrelated process may be signalled. The run has a slack of two and a down time
of one, and meets that case: without the exception TLC violates the property.
`AnnouncedIsRecorded`: as long as commands did not overlap (`overlapped`), no
two announced bridges share a root and each has its record, although a command
may be killed at any step, including between the creation of a record and its
content; when they overlap that is false, which is section 4. `CommandsEnd`,
although a bridge need not print its key nor obey SIGTERM; the only fairness is
that a command goes on running, timers included.

**`materialize`.** `PublicationIsWhole`: after the rename, the destination
holds every entry, made by that pull, for good; no other pull's clean-up takes
it away with a shared parent; and the report and the rename agree, except after
an interruption, whatever the clean-up met. `CleanedUp`: a pull that ended has
no stage, and one that failed has nothing else it made, except where a clean-up
call failed (`unclean`) or a cancelled mkdir came late (section 4). A parent it
made may stay when somebody else put something into it, or when the other pull
had its stage in it at the time of the `rmdir`: that pull did not make it, and
does not remove it either. `OthersAreKept`: no step removes or replaces what
another program made.

**`read_view`.** The two halves of `read-view.ts` share no state, the budgets
included, so that a script of the run uses one of them (`half`): the states of
the run are those of either, and not of both at once.

What a script reads. `BudgetIsAccounted`: the budget is neither exceeded nor
overdrawn, and what is used of it is what the reads under way reserved and the
finished ones returned, so that a failed read, or one whose file changed
between `lstat` and `open`, takes nothing away from others. `ContentIsWhole`:
the buffer, allocated uninitialised, is filled and paid for.
`ResourcesAreReturned`: however a read ends, it has no slot and no open file;
excepted is a handle whose `open` returned after the request was stopped, which
the code forgets. `RefusalReachesVerdict`: a script reports success only when
no read that settled was refused, though the command that asked hid it.

What it writes. `BooksAgree`: `readFileBuffer` decides by the program's sets as
the library's record demands, after every sequence of calls and edits. It has
two exceptions, both reached by the run. Where the
overlay holds a directory, no set of the program has the path: `mkdir` takes it
out of `tombstonePaths` (`read-view.ts:567`) and enters it nowhere, so that
after `rm p; mkdir p` a `cat p` reads the file of the host the script has
removed. And a `chmod` or `utimes` whose stat saw a directory, in whose place
the user put a file before the library looked, leaves a file in memory which
`overlayFilePaths` lacks. No other disagreement is allowed, and none exists.
`MemoryIsCharged`: every byte and entry in memory was charged, those that came
from the host included, within both budgets, except what a file of the host
grew by after the call that took it had looked (`read-view.ts:529`, `:536`), or
where an append does not look, because a forced `rm` that found nothing left a
tombstone. `grown` counts exactly these, and the run meets both.

**`transport`.** `EndpointIsOwned` and `NoOrphanConnection`: between two tasks
of the event loop, what is open has an owner that will close it, and no owner's
endpoint was closed by the other side of the hand-over, over two attempts of
one command. `DialVerdictIsTrue`: "the bridge seems offline" is said only by a
client that had its link to the relay, "the relay could not be reached" only by
one that had not or that a deadline had told to close its endpoint before it
asked (`relay_verdict` is about these), a failed direct connection is called
that only where no relay was tried, a retry had an endpoint of its own, and
nothing connected outlives its command. `LocatorIsDialable`: a published
locator names a relay only if the listener was seen to reach it, and leads to
an endpoint that is open and that nobody told to close, with one exception that
the run reaches: a relay-only listener whose home relay came while its deadline
was closing the endpoint goes on and publishes (`ClosedUnderItsListener`;
`iroh/index.ts:146-152`). `serve` then prints a key that leads nowhere and ends
at its next accept. `DoctorForetells`: a check that fails means that no client
gets as far as an endpoint, a warning that it goes on without and says so.
`CommandsAnswer`: a bridge publishes or fails, a client has a session or a
reason, a doctor reports, even if no native call ever comes back. The fairness
(`FairSpec`) is that of the event loop: fibers, their timers and microtasks
run, a file is read, and the close of an endpoint returns. Nothing is assumed
of the network, of the peer or of any other native call, and timers are real
here: they are what makes the commands answer.

**`relay_verdict`.** `RelayVerdictIsTrue`: the same sentence about the relay
without the exception. TLC violates it (section 4).

The modules of `source`, `wire`, `materialize` and `read_view` have no
liveness properties: their calls return or fail when the operating system says
so, and nothing in them waits for anything else.

**Bounds.** Two files are enough for the transition from a file to the next and
to the verification, an empty one (first or last) and one of two chunks for the
boundaries of a scan. A window of two makes writes block with a frame on either
side of the acknowledgement; one frame is the tightest. `MaxTransfer` equals
the largest total, so that the decoder's own limit is met and not crossed.
`MaxAttempts` is the code's two in `session_alone` and one in `sessions`, where
retries add nothing to the questions asked. Two workers and two commands are
what the banner's races need. In `DetachedServe`: one root, whose two record
files are all that two commands for it share with a second root; `MaxInFlight`
bounds the commands that run together; `LastRestart` the restart of the
machine, and `DownTime` is less than `BootSlack`, so that a record can be of
the boot before and within the slack, or older than it; `MaxReuse` the pids
others take. A bug about three live bridges for one root would show with two.
In `Materialize` two missing parents are what it takes to make one and find the
other made, and to remove them in an order; `MaxFaults` and `MaxOutside` let a
clean-up fail after another failure and other programs interfere before and
after the check. In `ReadBudget` two reads of two chunks do not fit three, and
three reads want two slots, so that reads contend; one edit suffices for a file
to shrink, grow, be replaced or the root to move between any two awaits of a
read. In `OverlayView` three units let two files fit and a third call fail; two
entries are a path and the directory above it, and the other path is one too
many; two edits are one under a call and one after it. In `PullSource` each
tree has its bound on changes: two let a file be changed and changed back, or a
directory and a file of it, at any call. `"s-"` sorts between `"s"` and `"s/f"`
by characters and not by components, `"CON"` is no canonical name, and each
limit is met by one tree and exceeded by another. In `WireStream` frames of
four units hold a payload of two, three units of output meet the limit, and
nine frames are the longest response that is sent, which one frame more
exceeds. In `IrohCommands` the fifteen environments are those in which some
check or some way of configuring differs: each proxy and certificate variable
unset, wrong and right, under CGI, with bindings that lack or refuse either;
two hosts let one probe fail, two attempts are the code's, and a second
connection waits for the one worker.

**Deadlock.** Every configuration has `CHECK_DEADLOCK FALSE`: commands end and
nothing follows them. That nobody is stuck before the end is what the liveness
properties say. In the runs without one a stop is the end of all pulls,
reads or connections, a request whose limit was exceeded, or an exhausted
bound.

## 4. Findings

**Two detached serves for one root.** `detached_race` checks `AtMostOnePerRoot`
with two interleaved commands and TLC violates it. `writeRecord`
(`detached-serve.ts:237`) creates the file with `flag: "wx"` and fills it in a
second system call. A second `serve --detach` for the root that reads the file
in between decodes it as unreadable, and `removeRecordIfUnchanged` (`:265`)
finds it unreadable again; if the first command fills the file before the
second removes it, by name, the removal takes a complete record. Both commands
then start a bridge and report success. `CONTEXT.md:16` says "at most one per
served root"; the bridge of the first command has no record, so `--status` does
not list it and `--stop` cannot end it. Both commands must run within the same
few milliseconds. Had the file been written elsewhere and linked into place, no
reader would see it unfilled.

**A cancelled pull may leave its stage.** This is modelled (`LateMkdir`) and
excepted in `CleanedUp`. `populateStage` makes the directory of a file with
`mkdir(..., { recursive: true })` (`materialize.ts:282`); an interruption does
not wait for that call, and the release removes the stage at once. If the file
system carries the mkdir out after the `rm`, it makes the stage again, and a
`.dumbridge-pull-*` directory stays, with every parent the pull made, though
`docs/design/v1.md:482` says "clean up on cancellation". The plain `mkdir` of a
manifest's directory cannot do this: its parent is gone. The window is one call
wide.

**A relay that was reached is blamed.** `relay_verdict` checks
`RelayVerdictIsTrue` and TLC violates it. The reason for a failed dial is made
in the `mapError` behind `withDeadline` (`iroh/index.ts:275`), which asks
whether the endpoint has a link to the relay (`relayLinkObserved`, `:203`). When
the dial failed by its deadline, as it does when the bridge is offline,
`withDeadline` has called `closeEndpoint` by then, and an endpoint that was told
to close may name no relay in its address or throw, both of which count as no
link. The client then says that the relay could not be reached, although its
link was up throughout. `docs/design/v1.md:262` says "a dial that fails with the
relay link up is reported as the bridge not answering (serve stopped or the
machine offline), and a dial that fails with the link down names the relay host
that could not be reached", and `skills/dumbridge/SKILL.md:81` has the user
allow that host instead of starting `serve` again. How often it happens is up to
the native binding, of which the repository has no source: the model lets an
endpoint that is closing answer either way, as the `catch` of `:206` expects of
it. A link observed before the endpoint is closed would settle it.

**Known faults that are modelled and excepted**, where no document of the
repository says otherwise: a directory made in place of a removed file, which
is read from the host (`read-view.ts:567`, `BooksAgree`); a locator published
for an endpoint that a deadline is closing (`iroh/index.ts:146`,
`LocatorIsDialable`); growth of the host that no call pays for
(`read-view.ts:529`, `MemoryIsCharged`); and a record within the slack of the
boot check (`detached-serve.ts:284`, `SignalsOnlyServePids`). The title of a
test, `detached-serve.test.ts:638`, has it that a live pid recorded before the
current boot is not signalled; the record in it is older than the slack.

## 5. Proofs

`OverlayViewProofs` proves two theorems for all paths, budgets, sizes and edits
of the host, before a call, after it and inside it.
`BooksAlwaysAgree`, `OverlaySpec => []BooksAgree`, follows from what each entry
of the library's books says of the program's (`BooksInv`): what is in memory is
a directory, or in one of the program's sets, or was misjudged; what is removed
has a tombstone; and what is in `overlayFilePaths` is in memory. It has a lemma
for each way a call changes both books (`KeptBooks`, `BuriedBooks`), and the two
exceptions of the property are the only ones it needs. `AllIsCharged`,
`OverlaySpec => []MemoryIsCharged`, needs more than what is in memory. `Held`
also counts what an append would take without looking, at a path with a
tombstone, and `Due` is what the call that awaits the library has been charged
for and has yet to take; the two together never exceed what was charged and
what the host grew by (`Paid`). A look pays for what it sees (`AwaitedIsPaid`),
the library takes no more than was due (`TakenIsPaid`), and an edit of the host
raises what is held or due by its growth, which `grown` counts in the same two
cases (`EditIsPaid`). What is held is a set of units, one for each place in what
is kept for a path, so that sums are cardinalities (`HeldGrows`).
The assumptions are that a path has finitely many directories above it
(`AboveAssumption`) and that the limits are numbers (`OverlayAssumption`).

`ReadBudgetProofs` proves, for any finite set of reads and files, any limits and
any edits of the host:

| Theorem | Statement |
|---|---|
| `Invariance` | `Spec => []IInv` |
| `BudgetAccounted` | `Spec => []BudgetIsAccounted` |
| `ResourcesReturned` | `Spec => []ResourcesAreReturned` |
| `ContentWhole` | `Spec => []ContentIsWhole` |
| `RefusalReaches` | `Spec => RefusalReachesVerdict` |

`ReadIs` says of each read what its step tells: nothing is reserved before its
`lstat` has returned, the buffer is as long as the reservation while it is
filled, and it is full at the probe. `BudgetIs` strengthens the accounting: it
is an equation while the request is open and an inequality afterwards, when a
limit or a cancellation leaves charges behind that nobody will ask for; without
the inequality a read that fails late could take the budget below zero. A throw
is one lemma (`ThrowPays`), whatever call it comes from, and a step of one read
changes the sum over all of them by what that one holds (`UnitsMove`,
`SpentMoves`).

`MaterializeProofs` proves, for any number of pulls, any destinations (the same
one, or one inside another), any manifests and any number of failures,
interruptions and things other programs make:

| Theorem | Statement |
|---|---|
| `Invariance` | `Spec => []IInv` |
| `PublicationWhole` | `Spec => []PublicationIsWhole` |
| `AllCleanedUp` | `Spec => []CleanedUp` |
| `OthersKept` | `Spec => OthersAreKept` |

The assumption that matters is `NamesAssumption`: `mkdtemp` gives a stage a name
that no destination, no manifest and no other program uses. Then everything in
the tree has a name that was given, or lies in the stage of one pull and was
made by it (`Placed`). So a pull that removes its stage removes nothing of
anybody else's, and the rename finds nothing in the payload but what the pull
staged (`MovedAll`). Of the parents, only one that the pull made is removed, and
only when nothing is in it.

`Minds` sums up what a step of one pull may do to the tree: what others made
stays, what is new is its own, and what goes was in its stage or above its
destination. What holds of every other pull (`Own`) then still holds, whatever
the step was (`OthersOwn`), so each action has to be examined for its own pull
only, and each way of giving up is one lemma (`GivesUp`). `CleanOK` strengthens
`CleanedUp` to the middle of a clean-up: what the pull made is in its stage, is
a parent it has still to remove, or is a parent somebody else has something in,
or had. The last case carries the argument for a parent that `rmdir` finds
occupied (`RemoveParentKeeps`): what is in it is somebody else's, or is a
deeper parent that was itself found occupied.

`PullTransferProofs` proves, for every set of manifests and every window:

| Theorem | Statement |
|---|---|
| `TypeCorrect` | `Spec => []TypeOK` |
| `Invariance` | `Spec => []IInv` |
| `PublishedSafely` | `Spec => []PublishedIsVerified` |
| `FailsCleanly` | `Spec => []FailureLeavesNoDestination` |
| `StageRemoved` | `Spec => []StageIsRemoved` |
| `ForeignKept` | `Spec => NeverOverwrites` |
| `Refinement` | `Spec => ImplementsAtomicPull` |
| `SidesAlwaysAgree` | `Spec => []SidesAgree` |

They rest on `ManifestsAssumption` (manifests are sequences of numbers) and on
nothing about the window: a larger or smaller stream changes what may block,
not what is safe. `SidesAlwaysAgree` rests on `TransferAssumption` as well: the
total the planner allows (`model.ts:23`) is the one the decoder accepts, which
is a number. A decoder with a smaller limit would refuse a legal response.

The same module proves about `PullAnyBridge`, whose peer sends any frames of
`Frame` (`FramesAssumption`):

| Theorem | Statement |
|---|---|
| `AnyInvariance` | `SpecAnyBridge => []AnyInv` |
| `MatchesManifest` | `SpecAnyBridge => []PublishedMatchesManifest` |
| `DecoderAnticipates` | `SpecAnyBridge => []DecoderAnticipatesClient` |

**The argument.** `TypeOK` is not inductive: that the bridge's cursor stays
inside a file needs `CursorOK` (a file position has a file), and appending to
the last staged file needs `OpenedOK` (there is one). `PublishedIsVerified` is
a statement about the client that must be traced back through the stream to
the bridge, and `IInv` does that:

* `FramesOK` - every manifest frame in the stream, the inbox and the event
  queue is the one the bridge planned, and wherever a complete frame is, the
  bridge has verified its source;
* `CompletionOK` - the bridge sends complete only from a position reached
  through the verification, and a client beyond it has seen that frame;
* `ClientInv` - `PlanOK`: once received, the client's plan is the bridge's
  manifest; `StagedOK`: every staged file but the current one was compared with
  the plan, and all of them when the client is about to publish;
  `PublishedIsVerified` itself; `OutcomeOK`: which causes and results go with
  a published destination; `StageOK`: a client past the removal has no stage.

Each action preserves `IInv` (`IInvStep`), the bridge's by what it appends
(`FramesOKStep`), the client's by what it takes (`ClientInvClient`). The
refinement maps `Verify` to `VerifySource`, `Publish` to `Publish`,
`DestinationCreated` to `Interfere`, `Report` to `Succeed` or `Fail`, and
everything else to a stutter (`RefineStep`).

`SidesAgree` needs the whole conversation. A manifest has one response, and a
`Cursor` is a place in it: which file, how much of it, and whether only planned
bytes were sent since it began. `Leads` says which frame leads from one place
to another, and `Chain` that a sequence of frames does so one after the other.
The client, the decoder, what was received and the bridge stand at four places
of the same response, and the event queue, the inbox and the stream are the
chains between them (`Talking`); a client that is at a place accepts what leads
on from it (`DecoderTakes`, `NothingUnexpected`), since the decoder has
transferred the sum of the files it has passed (`SumsAre`). A digest is sent
only for a file that was scanned as it was planned, so no comparison fails. A
bridge whose handler has ended normally has nothing in the stream, which is
what the wait for the acknowledgement is for.

Against any other bridge there is no response to have a place in. What the
client can rely on is its decoder: the events in its queue take the decoder from
a state that fits the client's own position (`Hears`) to the state it is in now
(`Replays`, a chain of `Accepts` and `Consume`), whatever else arrives. So the
next event is one that this earlier state accepted, which is what the client
waits for (`DecoderAnticipates`), and since nothing is accepted behind the end
of a response (`NothingFollows`), a client that publishes has a decoder that is
complete. What it has staged it has compared with its plan, as with the honest
bridge: `StagedOK` and `PublishesPlan` serve both proofs.

`BridgeSessionProofs` proves, for every set of commands, any number of workers
and attempts, any windows and whatever scripts write:

| Theorem | Statement |
|---|---|
| `Invariance` | `Spec => []IInv` |
| `NeverReplayed` | `Spec => []ExecutedAtMostOnce` |
| `RejectionHeard` | `Spec => []RejectionIsHeard` |
| `SuccessComplete` | `Spec => []SuccessIsComplete` |
| `BannerOnce` | `Spec => []OneBanner` |

A command has a session of its current attempt only: the others are as they
were at the start (`Untouched`), and before it is connected it has consumed
nothing (`Unserved`). What the two ends of the session know of each other is
`Talk`, a predicate of the command's record, the handler's record and the
response in flight. Its core is `AnswerTalk`: the answer a handler has computed
is a function of the handler's record (`Answer`), and what the command has
consumed, what is in flight and what the handler has not sent yet are three
consecutive parts of it. A success has consumed all of it (`SuccessTalk`).
`RejectTalk` says the same of a rejection, with the acknowledgement that lets
the bridge close. A command that retries has not been answered, so nothing of
it ran: `ExecutedAtMostOnce`. The banner is a token (`BannerToken`): pending,
in the hands of one handler, or lost to a deadline, and of two handlers never.
The proof has a lemma for each way one end moves (`TalkReceived`, `TalkEnded`,
`TalkTakeBanner`, ...), all of them about one conversation: `OneMoves` shows
that a step leaves every other one alone.

`DetachedServeProofs` proves, for any number of commands, pids and roots,
reuse of pids and restarts of the machine included:

| Theorem | Statement |
|---|---|
| `Invariance` | `Spec => []IInv` |
| `FailureEndsServe` | `Spec => []FailedDetachEndsItsServe` |
| `StoppedIsGone` | `Spec => []StoppedHasExited` |
| `AnnouncedRecorded` | `Spec => []AnnouncedIsRecorded` |
| `SignalsServes` | `Spec => SignalsOnlyServePids` |

They rest on `ClockAssumption`, which only says that the slack of the boot
check and the down time of a restart are numbers: either may be the larger. A
record that was written since the machine started names a pid that was a
bridge's since then, and so does every pid a command holds, but for those a
record within the slack names (`Fits`, `Knows`); this is what makes it safe to
signal a pid that was read from a file, and says exactly when it is not. A
command has spawned one process at the most and knows it until it is done
(`Owns`). The bridge a `--stop` has signalled is the only one its spawner will
ever have (`Hits`), so a pid that is taken again is not taken for it. And
commands that run one after the other (`Alone`) have read the files as they
still are, so that what they remove names no announced bridge. `Reads` has to
say which of the records read is the first by file, since that is the one the
loop examines.

`IrohProofs` proves, for every set of environments and peers, every relay map
and any number of native calls and workers:

| Theorem | Statement |
|---|---|
| `Invariance` | `Spec => []IInv` |
| `EndpointOwned` | `Spec => []EndpointIsOwned` |
| `NoOrphan` | `Spec => []NoOrphanConnection` |
| `LocatorDialable` | `Spec => []LocatorIsDialable` |
| `VerdictTrue` | `Spec => []DialVerdictIsTrue` |
| `DoctorTrue` | `Spec => []DoctorForetells` |

The assumption is that there are as many bindings as attempts
(`BindersAssumption`) and that an environment names three files and a proxy
(`SettingsAssumption`). One event of the native side leads to at most two
microtasks, and the queue is drained before the next event: `Queued` lists
every queue there can be. So what a call of `bindEndpoint` has come to is a
predicate of its record and the queue (`Call`), and a handshake likewise
(`Handshake`): whatever endpoint is open is with a fiber that will close it, or
a task that is about to hand it over or close it. An endpoint that a deadline
told to close stays its fiber's, closed or not, until the fiber ends
(`BinderCloses`), for either side of the race may come first. `FiberPlace` says
which of the attempts has an endpoint; `Listening`, `Dialled` and `Foretold` say
what the fiber has learned on its way, about the relay, the peer and the
environment. In particular only the listeners of `ClosedUnderItsListener`, and
clients between a deadline and their next attempt, hold an endpoint that was
told to close.

`PullSourceProofs` proves, for every set of trees, paths and file sizes, and
whatever other programs do to the tree (where stamps are too coarse to tell a
change, `fine` is false, and `VerifiedIsSnapshot` promises only that what was
sent is what was planned):

| Theorem | Statement |
|---|---|
| `Invariance` | `Spec => []IInv` |
| `NoHandleLeft` | `Spec => []HandlesAreClosed` |
| `Refinement` | `Spec => ImplementsSnapshot` |
| `VerifiedSnapshot` | `Spec => []VerifiedIsSnapshot` |
| `AcceptedPlan` | `Spec => []PlanIsAccepted` |
| `RestingPulled` | `Spec => []RestingTreeIsPulled` |

Why an observation that is confirmed is a snapshot is `ObservedIsSnapshot`,
which uses nothing of the pull: while its stamp is the one that was seen, a path
is what was seen (`SameStampSameValue`), and it was that already when the
comparison began.

Its assumptions describe paths and trees as they are. `OrderAssumption`: names
are ordered, and `TextAssumption`: a directory's path comes before the paths
below it, which it is a prefix of. `NameAssumption`: the requested path has a
last name, and was parsed. `LimitsAssumption`: limits are numbers.
`PathsAssumption`: a path's ancestors are paths. `TreesAssumption`: an object
has one path (hard links are left out of the model: a write through another
name changes the stamp all the same), and whatever has a parent has a directory
for one. `NoneAssumption` and `MaxFileUnitsAssumption` say what kind of values
those constants are. The trees the run checks satisfy them all, which TLC
evaluates.

The host stays a tree (`IsTree`), and a change gives what it touches a stamp
that no revision in the bridge's hands has (`HostMoves`). So what a call has
gathered is right as long as the stamp it opened with is the object's: the
handle is for that object (`Held`), the names read so far are the children, or
the ones read are and the ones due are still to be read (`ListingIs`), the bytes
read are a prefix of the file (`ScanIs`). `Watched` is their conjunction, and
no step of another program can break it. `PlanWalk`, `StreamWalk` and
`VerifyWalk` say of each of the three passes that every planned path was
handled or is ahead: in the task list, or below a directory that is. The second
scan of a file and the second listing of a directory are what makes the
implication from "same stamp" to "same content" usable, since each compares the
stamp before and after what it read.

The refinement maps the second listing of a directory (`Relist`) and the end of
a planned file's scan to `Observe`, `BeginVerify` to `Begin`, each comparison
of the verification to `Check`, its end to `Confirm`, a failure to `Fail` and a
step of another program to `Change`; everything else stutters (`RefineStep`).
What `StampedSnapshot` promises is about the objects the bridge saw.
`VerifiedIsSnapshot` adds that there were no others: had there been another
path when the verification began, the shortest such path (`Least`) would be in
a directory that was seen, and that one listed it (`NothingElse`).

`AcceptedPlan` compares two pieces of code that share nothing: what the planner
counts and adds up, and what `validatePullManifest` demands. The first half is
an invariant, `PlanBooks`: while the tree is planned the counter of entries is
the number of names that were listed (`Counted`; a requested file counts as
one) and the total is the sum over the planned files, each within its limit.
The names are distinct because a directory is planned once (`PlanWalk`), and
they are the planned paths when nothing is left to plan. The second half is
about lists of entries and needs no state. A manifest passes the loop if and
only if each entry follows the ones before it (`Follows`, `TurnIs`), and that
is so exactly where the entries describe a tree: a list in which each path
precedes the next is the list of its paths in order (`InOrder`), with the
parents of an entry among the earlier ones because a prefix comes first, and a
sum that stays within the limit at every entry because it does at the last. A
sum is the number of its units (`SumOf`), so that one more term, a subset of
the terms and other names for them are facts about cardinalities (`SumOfMore`,
`SumOfFewer`, `SumReordered`).

`RestingPulled` needs to know what the bridge knows at every step of all three
passes. `Rests` says of a tree that has not been changed: the guard of the call
holds (`GuardIs`), what was planned is what is there (`PlanIsTrue`), what the
call has gathered is what it would find now (`Sees`), and a verdict is one that
the tree explains (`Verdicts`): a limit or a name only if the tree does not
comply, `"io"` if the host failed, and never a change. The third part is the
second walk, which counts again, with its own counters, what it lists a second
and a third time: `SecondCounts` says that the two counters are the number of
names listed for the first time by this walk and the sum over the files
compared so far, and `SecondTasks` which directories are still to be listed how
often (`ListedOnce`, `ListedAgain`). Without it nothing would exclude that the
second walk exceeds a limit which the first one did not. It follows that it
ends with the total of the plan (`EndIs`), which is what `verify` compares, and
that a verified tree, whose paths were all planned (`VerifiedIsSnapshot`), is
within the limits (`VerifiedIsAdmissible`).

Liveness under fairness and anything about `ENABLED` is beyond the prover, and
so is a theorem about a `RECURSIVE` operator, which is why `WireStream` has
none. `TypeOK` is proved and no property of a run.

**What the proofs changed in the models.** Each was found when an obligation
that TLC agreed with would not go through. An `@` inside another `EXCEPT` is
read by the prover as the outer one, so `BridgeSession` names the field.
`CASE` with arms that overlap is a choice that nothing determines, though TLC
takes the first arm: `Normalize`, `Lstat`, `Mkdir`, `Carry`, `View` and others
are `IF ... ELSE` chains now, in the order of the code. The entries a
command of `DetachedServe` has read were a sequence; as a set with `IsFirst`
they say the same and can be reasoned about. `PullSource` sorted names with
`SelectSeq`, which the prover cannot see into; `InOrder` places each name by its
rank, and what a tree is, which the instances had to themselves, is now
`TreesAssumption`. Sums were folds, which the prover cannot see into either:
`TotalBytes` is a recursive function now, and the bytes of a budget that are in
memory (`OverlayView`) or spent (`ReadBudget`) are the members of a set of
units, whose cardinality is the sum. And what the instances had chosen well was
written down: the decoder's limit on a response is the planner's
(`TransferAssumption`), a path has finitely many directories above it
(`AboveAssumption`), reads and files are finite in number
(`ScriptAssumption`), the names `mkdtemp` makes are nobody else's
(`NamesAssumption`), a path comes after those it extends (`TextAssumption`).
`PullManifest` folded its loop and its sums as well: what the loop has gathered
when it comes to an entry is said of each place in the list now (`SeenBefore`),
the verdict is that of the first entry which has one, and a sum is a number of
units (`SumOf`). `Materialize` wrote its tree with `@@` and a `CHOOSE` over
what the rename moves, neither of which the prover can see into; `With`,
`MkdirAll` and `Moved` say it point by point now.

## 6. What is only model-checked, and what is not modelled

*Only model-checked*: `WireStream`, whose operators are `RECURSIVE`, and whose
properties (`ChunksAreInvisible`, `LegalStreamIsHeard`, `TruncationIsTold`) are
about what a reading of any stream computes, an induction over data the provers
cannot do; and all liveness, which rests on `ENABLED`. That every manifest of
`Others` is judged rightly is proved of that set, which is all that
`PlanIsAccepted` speaks of; the lemmas it rests on (`TurnIs` and those after it)
are about every list of entries.

*Not modelled.* The four bytes of a length and the JSON of a header, each a
unit here, and the text format of a key: pure conversions the repository tests.
Listings, `stat` and symbolic links of the read view, and its record of paths
outside the root, which only words a note. The interpreter of the shell, a
library. Flags, messages and exit codes of the command line, the doctor's
excepted; details and remedies in the doctor's report. The three platforms'
system calls that publish, which are one operator. The resolution of the root's
path and the check that the state directory is outside it, before a detached
serve. The website and the design system, more than half of the repository's
lines that are not modelled: presentation only. `Accept` errors with their
back-off: an accept that fails is one that has not happened yet.

*Known gaps that no property covers*, by design of the code or of the
operating system: a bridge that exits and whose pid is taken between the
liveness check and the signal of `--stop`; a banner lost when the run deadline
strikes inside its write; a pull that outlives its key, which is checked once
(`server.ts:137`); a handle of a stopped
read that nothing closes; a file the host takes away between the look and
the removal of a forced `rm`, which is one step here. They are named in
`PROJECT.json` or at the definition concerned. The exceptions in
`BooksAgree`, `MemoryIsCharged`, `LocatorIsDialable` and `SignalsOnlyServePids`
are in the models and reached by their runs (section 4).

## 7. Plan

The plan is carried out: all its modules are written, and every safety property
of a run is proved but the three of `WireStream` named in section 6. To prove
those, its readers would have to be written as recursive functions over the
units of a stream, and the induction stated for those functions one by one.
