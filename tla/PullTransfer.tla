---------------------------- MODULE PullTransfer ----------------------------
(***************************************************************************)
(* One pull, end to end: the bridge's handlePull, the QUIC stream that     *)
(* carries the response, and the client's pullRemote with the staging and  *)
(* the publication of materializePull.  The source tree keeps changing     *)
(* under the bridge, the connection may be lost, either process may be     *)
(* interrupted, and other programs create files at the destination.        *)
(*                                                                         *)
(* Abstraction.  preparePull is one step that yields the manifest or an    *)
(* error; what a change of the source does is one flag per file (index 0   *)
(* stands for the directories of the tree), because prepare.ts compares    *)
(* each path with its own planned revision and nothing else.  A change may *)
(* or may not be noticed by such a comparison: time stamps are as coarse   *)
(* as the filesystem makes them.  The request and its rejection, and the   *)
(* parent directories of the destination, are not part of this module.     *)
(***************************************************************************)
EXTENDS PullWire

CONSTANTS
  Manifests,    \* the manifests preparePull may come up with
  Window        \* frames the stream buffers before a write blocks

ASSUME ManifestsAssumption == Manifests \subseteq Manifest
\* The planner's maxTotalBytes is the decoder's maxTransferBytes.
ASSUME TransferAssumption == \A m \in Manifests : TotalBytes(m) <= MaxTransfer
ASSUME WindowAssumption == Window \in Nat \ {0}

VARIABLES
  \* the source, and the bridge's session fiber
  source,     \* per file: still as planned, or changed
  manifest,   \* what preparePull plans
  spc,        \* the handler's position
  sfile,      \* the file being streamed or verified
  soffset,    \* chunks of it sent so far
  scanned,    \* what the running scan has read: planned bytes only, or not
  verified,   \* source.verify has succeeded
  \* the connection
  conn,       \* open or closed
  wire,       \* frames sent and not yet acknowledged by the peer
  inbox,      \* frames received and acknowledged, not yet read
  \* the client
  cpc,        \* the client's position
  decoder,    \* the state of its pull-response session
  events,     \* what the decoder yielded and nobody took yet
  plan,       \* the manifest it was sent
  stage,      \* the private staging directory
  staged,     \* contents of the files written below it
  dest,       \* the destination path
  cause,      \* why the pull fails, if it does
  result      \* what the pull reported

sourceVars == <<source, manifest>>
serverVars == <<spc, sfile, soffset, scanned, verified>>
netVars    == <<conn, wire, inbox>>
readerVars == <<decoder, events, plan>>
clientVars == <<cpc, readerVars, stage, staged, dest, cause, result>>
vars       == <<sourceVars, serverVars, netVars, clientVars>>

ServerPositions ==
  {"prepare", "manifest", "file-start", "chunks", "file-end", "verify",
   "complete", "pull-error", "finish", "ack", "done", "gone"}

ClientPositions ==
  {"manifest", "inspect", "stage", "file", "chunks", "complete",
   "end-of-stream", "publish", "unstage", "close", "reported", "crashed"}

Causes ==
  {"none", "read", "remote", "invalid", "incomplete", "integrity", "exists",
   "local", "deadline"}

FileCount == Len(manifest)

Absent  == [state |-> "absent", files |-> << >>]
Foreign == [state |-> "foreign", files |-> << >>]

TypeOK ==
  /\ manifest \in Manifests
  /\ source \in [0..FileCount -> {"planned", "changed"}]
  /\ spc \in ServerPositions
  /\ sfile \in 1..(FileCount + 1)
  /\ soffset \in Nat
  /\ sfile <= FileCount => soffset <= manifest[sfile]
  /\ scanned \in Data
  /\ verified \in BOOLEAN
  /\ conn \in {"open", "closed"}
  /\ wire \in Seq(Frame)
  /\ inbox \in Seq(Frame)
  /\ cpc \in ClientPositions
  /\ decoder \in DecoderState
  /\ events \in Seq(Frame)
  /\ plan \in Manifest
  /\ stage \in {"none", "present", "left-behind"}
  /\ staged \in Seq(Seq(Data))
  /\ dest \in [state : {"absent", "foreign", "published"},
               files : Seq(Seq(Data))]
  /\ cause \in Causes
  /\ result \in {"none", "success", "failure"}

Init ==
  /\ manifest \in Manifests
  /\ source = [i \in 0..FileCount |-> "planned"]
  /\ spc = "prepare"
  /\ sfile = 1
  /\ soffset = 0
  /\ scanned = "planned"
  /\ verified = FALSE
  /\ conn = "open"
  /\ wire = << >>
  /\ inbox = << >>
  /\ cpc = "manifest"
  /\ decoder = NewDecoder
  /\ events = << >>
  /\ plan = << >>
  /\ stage = "none"
  /\ staged = << >>
  /\ dest \in {Absent, Foreign}
  /\ cause = "none"
  /\ result = "none"

-----------------------------------------------------------------------------
(***************************************************************************)
(* The bridge.                                                             *)
(***************************************************************************)

\* sendFrame / session.write: the frame enters the stream if the connection
\* is open and the stream's window has room.
Send(frame) ==
  /\ conn = "open"
  /\ Len(wire) + Len(inbox) < Window
  /\ wire' = Append(wire, frame)
  /\ UNCHANGED <<conn, inbox>>

\* The handler turns to the first file at or after i, or to the verification.
GoToFile(i) ==
  /\ sfile' = i
  /\ soffset' = 0
  /\ scanned' = "planned"
  /\ spc' = IF i <= FileCount THEN "file-start" ELSE "verify"

\* preparePull: a manifest, or an error that handlePull answers with a
\* pull-error frame (a manifest too large for one frame is one of them).
Prepare ==
  /\ spc = "prepare"
  /\ spc' \in {"manifest", "pull-error"}
  /\ UNCHANGED <<sourceVars, sfile, soffset, scanned, verified, netVars,
                 clientVars>>

SendManifest ==
  /\ spc = "manifest"
  /\ Send(ManifestFrame(manifest))
  /\ GoToFile(1)
  /\ UNCHANGED <<sourceVars, verified, clientVars>>

SendFileStart ==
  /\ spc = "file-start"
  /\ Send(FileStart(sfile, manifest[sfile]))
  /\ spc' = "chunks"
  /\ UNCHANGED <<sourceVars, sfile, soffset, scanned, verified, clientVars>>

\* One read of the scan, with the revision found unchanged around it.  A
\* change that the time stamps do not tell may put other bytes in the chunk.
SendChunk ==
  /\ spc = "chunks"
  /\ soffset < manifest[sfile]
  /\ \E data \in Data :
       /\ data = "other" => source[sfile] = "changed"
       /\ Send(FileChunk(soffset, data))
       /\ scanned' = IF data = "other" THEN "other" ELSE scanned
  /\ soffset' = soffset + 1
  /\ UNCHANGED <<sourceVars, spc, sfile, verified, clientVars>>

\* A variant whose scan does not compare its final digest.
ScanEndsUnchecked ==
  /\ spc = "chunks"
  /\ soffset = manifest[sfile]
  /\ spc' = "file-end"
  /\ UNCHANGED <<sourceVars, sfile, soffset, scanned, verified, netVars,
                 clientVars>>

\* The scan's last read is empty and its digest is the planned one.
ScanEnds ==
  /\ spc = "chunks"
  /\ soffset = manifest[sfile]
  /\ scanned = "planned"
  /\ spc' = "file-end"
  /\ UNCHANGED <<sourceVars, sfile, soffset, scanned, verified, netVars,
                 clientVars>>

\* A revision, the size or the final digest is not the planned one.
ScanFails ==
  /\ spc = "chunks"
  /\ source[sfile] = "changed"
  /\ spc' = "pull-error"
  /\ UNCHANGED <<sourceVars, sfile, soffset, scanned, verified, netVars,
                 clientVars>>

SendFileEnd ==
  /\ spc = "file-end"
  /\ Send(FileEnd(sfile))
  /\ GoToFile(sfile + 1)
  /\ UNCHANGED <<sourceVars, verified, clientVars>>

\* source.verify: every path has its planned revision, every directory its
\* planned children.  A change may again go unnoticed.
Verify ==
  /\ spc = "verify"
  /\ spc' = "complete"
  /\ verified' = TRUE
  /\ UNCHANGED <<sourceVars, sfile, soffset, scanned, netVars, clientVars>>

VerifyFails ==
  /\ spc = "verify"
  /\ \E i \in DOMAIN source : source[i] = "changed"
  /\ spc' = "pull-error"
  /\ UNCHANGED <<sourceVars, sfile, soffset, scanned, verified, netVars,
                 clientVars>>

SendComplete ==
  /\ spc = "complete"
  /\ Send(CompleteFrame)
  /\ spc' = "finish"
  /\ UNCHANGED <<sourceVars, sfile, soffset, scanned, verified, clientVars>>

\* sendPullFailure
SendPullError ==
  /\ spc = "pull-error"
  /\ Send(PullErrorFrame)
  /\ spc' = "finish"
  /\ UNCHANGED <<sourceVars, sfile, soffset, scanned, verified, clientVars>>

\* session.finish: end the stream, then wait until the peer has acknowledged
\* every byte of it.
Finish ==
  /\ spc = "finish"
  /\ Send(EndOfStream)
  /\ spc' = "ack"
  /\ UNCHANGED <<sourceVars, sfile, soffset, scanned, verified, clientVars>>

\* stopped(): nothing is left unacknowledged.
Acknowledged ==
  /\ spc = "ack"
  /\ conn = "open"
  /\ wire = << >>
  /\ spc' = "done"
  /\ UNCHANGED <<sourceVars, sfile, soffset, scanned, verified, netVars,
                 clientVars>>

\* A variant whose wait for the acknowledgement outlives the connection.
ServerWriteFailsNotAck ==
  /\ \/ spc \in {"manifest", "file-start", "file-end", "complete",
                 "pull-error", "finish"}
     \/ spc = "chunks" /\ soffset < manifest[sfile]
  /\ conn = "closed"
  /\ spc' = "gone"
  /\ UNCHANGED <<sourceVars, sfile, soffset, scanned, verified, netVars,
                 clientVars>>

\* A write, or the wait for the acknowledgement, fails: the connection is gone.
ServerWriteFails ==
  /\ \/ spc \in {"manifest", "file-start", "file-end", "complete",
                 "pull-error", "finish", "ack"}
     \/ spc = "chunks" /\ soffset < manifest[sfile]
  /\ conn = "closed"
  /\ spc' = "gone"
  /\ UNCHANGED <<sourceVars, sfile, soffset, scanned, verified, netVars,
                 clientVars>>

\* The pull deadline, a Ctrl-C on serve or its death end the handler anywhere;
\* its connection is closed and what the peer has not acknowledged is lost.
ServerInterrupted ==
  /\ spc \notin {"done", "gone"}
  /\ spc' = "gone"
  /\ conn' = "closed"
  /\ wire' = << >>
  /\ UNCHANGED <<sourceVars, sfile, soffset, scanned, verified, inbox,
                 clientVars>>

\* Effect.ensuring(session.close) after the handler.
ServerCloses ==
  /\ spc \in {"done", "gone"}
  /\ conn = "open"
  /\ conn' = "closed"
  /\ wire' = << >>
  /\ UNCHANGED <<sourceVars, serverVars, inbox, clientVars>>

Server ==
  \/ Prepare \/ SendManifest \/ SendFileStart \/ SendChunk \/ ScanEnds
  \/ ScanFails \/ SendFileEnd \/ Verify \/ VerifyFails \/ SendComplete
  \/ SendPullError \/ Finish \/ Acknowledged \/ ServerWriteFails
  \/ ServerCloses

-----------------------------------------------------------------------------
(***************************************************************************)
(* The client.                                                             *)
(***************************************************************************)

\* Leaving the scope with an outcome: the staging directory, if there is one,
\* is removed first, then the session is closed.
Leave(why) ==
  /\ cause' = why
  /\ cpc' = IF stage = "present" THEN "unstage" ELSE "close"

\* The pull fails here, for the reason given.
ClientFails(why) ==
  /\ Leave(why)
  /\ UNCHANGED <<sourceVars, serverVars, readerVars, stage, staged, dest,
                 result>>

\* The event each position waits for (nextPullEvent and its callers).
Expected(position) ==
  CASE position = "manifest"      -> {"manifest"}
    [] position = "file"          -> {"file-start"}
    [] position = "chunks"        -> {"file-chunk", "file-end"}
    [] position = "complete"      -> {"complete"}
    [] position = "end-of-stream" -> {"end-of-stream"}
    [] OTHER                      -> {}

Reading == Expected(cpc) # {}

AtEndOfStream == events = << >> /\ inbox # << >> /\ Head(inbox) = EndOfStream

\* session.read and decoder.push.  A read brings any number of frames, so the
\* decoder may be ahead of the client: the code decodes on when its queue is
\* empty, the model whenever the client waits.
DecodeFrame ==
  /\ Reading
  /\ inbox # << >>
  /\ Head(inbox) # EndOfStream
  /\ Accepts(decoder, Head(inbox))
  /\ decoder' = Consume(decoder, Head(inbox))
  /\ events' = Append(events, Head(inbox))
  /\ inbox' = Tail(inbox)
  /\ UNCHANGED <<sourceVars, serverVars, conn, wire, cpc, plan, stage, staged,
                 dest, cause, result>>

\* A frame the decoder refuses fails the read, and the events of its chunk
\* are lost with it.
RefuseFrame ==
  /\ Reading
  /\ inbox # << >>
  /\ Head(inbox) # EndOfStream
  /\ ~Accepts(decoder, Head(inbox))
  /\ ClientFails("invalid")
  /\ UNCHANGED netVars

\* WireEventReader.next returns the first queued event.
Take(type) ==
  /\ events # << >>
  /\ Head(events).type = type
  /\ events' = Tail(events)
  /\ UNCHANGED <<sourceVars, serverVars, netVars, decoder>>

\* What the code compares an event with, beyond its type: a file-start names
\* the entry that is being written and its size.
Awaited(event) ==
  /\ event.type \in Expected(cpc)
  /\ event.type = "file-start" =>
       /\ event.file = Len(staged) + 1
       /\ event.size = plan[event.file]

\* The manifest decides whether there is anything left to wait for.
ReceiveManifest ==
  /\ cpc = "manifest"
  /\ Take("manifest")
  /\ plan' = Head(events).manifest
  /\ cpc' = IF plan' = << >> THEN "complete" ELSE "inspect"
  /\ UNCHANGED <<stage, staged, dest, cause, result>>

\* materializePull refuses a destination that exists.
InspectDestination ==
  /\ cpc = "inspect"
  /\ dest = Absent
  /\ cpc' = "stage"
  /\ UNCHANGED <<sourceVars, serverVars, netVars, readerVars, stage, staged,
                 dest, cause, result>>

DestinationExists ==
  /\ cpc = "inspect"
  /\ dest # Absent
  /\ ClientFails("exists")
  /\ UNCHANGED netVars

\* mkdtemp, and the directories a manifest without files needs.
CreateStage ==
  /\ cpc = "stage"
  /\ stage' = "present"
  /\ cpc' = IF plan = << >> THEN "publish" ELSE "file"
  /\ UNCHANGED <<sourceVars, serverVars, netVars, readerVars, staged, dest,
                 cause, result>>

\* writeEntry opens the staged file and its stream waits for the file-start.
ReceiveFileStart ==
  /\ cpc = "file"
  /\ Take("file-start")
  /\ Awaited(Head(events))
  /\ staged' = Append(staged, << >>)
  /\ cpc' = "chunks"
  /\ UNCHANGED <<plan, stage, dest, cause, result>>

ReceiveFileChunk ==
  /\ cpc = "chunks"
  /\ Take("file-chunk")
  /\ staged' = [staged EXCEPT ![Len(staged)] = Append(@, Head(events).data)]
  /\ UNCHANGED <<cpc, plan, stage, dest, cause, result>>

\* A variant that compares the size only.
StagedFileHasSize ==
  Len(staged[Len(staged)]) = plan[Len(staged)]

\* bytes = entry.size and digest = entry.digest for the file just written.
StagedFileMatches ==
  LET file == Len(staged)
  IN  staged[file] = [k \in 1..plan[file] |-> "planned"]

\* A variant that publishes as soon as the last file has arrived.
AfterFileEndAtOnce ==
  IF Len(staged) = Len(plan) THEN "publish" ELSE "file"

\* makeRemoteRead: the final file's stream ends only after the response did.
AfterFileEnd ==
  IF Len(staged) = Len(plan) THEN "complete" ELSE "file"

ReceiveFileEnd ==
  /\ cpc = "chunks"
  /\ Take("file-end")
  /\ \/ /\ Len(staged) = Len(plan) \/ StagedFileMatches
        /\ cpc' = AfterFileEnd
        /\ UNCHANGED cause
     \/ /\ Len(staged) < Len(plan)
        /\ ~StagedFileMatches
        /\ Leave("integrity")
  /\ UNCHANGED <<plan, stage, staged, dest, result>>

\* finishPullResponse: complete, then the end of the stream.
ReceiveComplete ==
  /\ cpc = "complete"
  /\ Take("complete")
  /\ cpc' = "end-of-stream"
  /\ UNCHANGED <<plan, stage, staged, dest, cause, result>>

\* The bytes of the final file are compared only now.
ReceiveEndOfStream ==
  /\ cpc = "end-of-stream"
  /\ AtEndOfStream
  /\ decoder.state = "complete"
  /\ inbox' = Tail(inbox)
  /\ \/ /\ plan = << >>
        /\ cpc' = "inspect"
        /\ UNCHANGED cause
     \/ /\ plan # << >>
        /\ StagedFileMatches
        /\ cpc' = "publish"
        /\ UNCHANGED cause
     \/ /\ plan # << >>
        /\ ~StagedFileMatches
        /\ Leave("integrity")
  /\ UNCHANGED <<sourceVars, serverVars, conn, wire, readerVars, stage, staged,
                 dest, result>>

\* The bridge gave up: a pull-error frame.
ReceivePullError ==
  /\ Reading
  /\ Take("pull-error")
  /\ Leave("remote")
  /\ UNCHANGED <<plan, stage, staged, dest, result>>

\* An event nobody waits for, or the end of the stream before the response is
\* complete (decoder.finish).
NextEvent ==
  IF events # << >> THEN Head(events) ELSE Head(inbox)

ReceiveUnexpected ==
  /\ Reading
  /\ events # << >> \/ AtEndOfStream
  /\ NextEvent.type # "pull-error"
  /\ ~(Awaited(NextEvent) /\ (AtEndOfStream => decoder.state = "complete"))
  /\ ClientFails(IF AtEndOfStream THEN "incomplete" ELSE "invalid")
  /\ UNCHANGED netVars

\* A read on a lost or closed connection; what was received is read first.
ClientReadFails ==
  /\ Reading
  /\ conn = "closed"
  /\ inbox = << >>
  /\ events = << >>
  /\ ClientFails("read")
  /\ UNCHANGED netVars

\* mkdir, mkdtemp, open, write or close fails, or publication is unsupported.
LocalFailure ==
  /\ cpc \in {"inspect", "stage", "file", "chunks", "publish"}
  /\ ClientFails("local")
  /\ UNCHANGED netVars

\* A variant that renames over whatever is there.
PublishOverwriting ==
  /\ cpc = "publish"
  /\ dest' = [state |-> "published", files |-> staged]
  /\ staged' = << >>
  /\ cpc' = "unstage"
  /\ UNCHANGED <<sourceVars, serverVars, netVars, readerVars, stage, cause,
                 result>>

\* commitPath: rename the payload to the destination unless it exists.
Publish ==
  /\ cpc = "publish"
  /\ dest = Absent
  /\ dest' = [state |-> "published", files |-> staged]
  /\ staged' = << >>
  /\ cpc' = "unstage"
  /\ UNCHANGED <<sourceVars, serverVars, netVars, readerVars, stage, cause,
                 result>>

PublishRefused ==
  /\ cpc = "publish"
  /\ dest # Absent
  /\ ClientFails("exists")
  /\ UNCHANGED netVars

\* A variant that lets a failed removal turn a published pull into a failure.
RemoveStageStrictly ==
  /\ cpc = "unstage"
  /\ stage' \in {"none", "left-behind"}
  /\ staged' = << >>
  /\ cpc' = "close"
  /\ cause' = IF stage' = "none" THEN cause ELSE "local"
  /\ UNCHANGED <<sourceVars, serverVars, netVars, readerVars, dest, result>>

\* rm(stage): a failure is ignored after a success, and does not change the
\* verdict otherwise.
RemoveStage ==
  /\ cpc = "unstage"
  /\ stage' \in {"none", "left-behind"}
  /\ staged' = << >>
  /\ cpc' = "close"
  /\ UNCHANGED <<sourceVars, serverVars, netVars, readerVars, dest, cause,
                 result>>

\* The session's finalizer closes the connection, then the command reports.
Report ==
  /\ cpc = "close"
  /\ conn' = "closed"
  /\ wire' = << >>
  /\ inbox' = << >>
  /\ result' = IF cause = "none" THEN "success" ELSE "failure"
  /\ cpc' = "reported"
  /\ UNCHANGED <<sourceVars, serverVars, readerVars, stage, staged, dest,
                 cause>>

\* The client deadline or a Ctrl-C.  Past the publication it only changes what
\* will be reported: the finalizers that run there cannot be interrupted.
ClientDeadline ==
  /\ cause = "none"
  /\ \/ /\ cpc \notin {"unstage", "close", "reported", "crashed"}
        /\ Leave("deadline")
     \/ /\ cpc \in {"unstage", "close"}
        /\ cause' = "deadline"
        /\ UNCHANGED cpc
  /\ UNCHANGED <<sourceVars, serverVars, netVars, readerVars, stage, staged,
                 dest, result>>

\* The client process dies; its connection is lost, its files stay.
ClientCrashes ==
  /\ cpc \notin {"reported", "crashed"}
  /\ cpc' = "crashed"
  /\ conn' = "closed"
  /\ wire' = << >>
  /\ inbox' = << >>
  /\ UNCHANGED <<sourceVars, serverVars, readerVars, stage, staged, dest,
                 cause, result>>

Client ==
  \/ DecodeFrame \/ RefuseFrame \/ ReceiveManifest
  \/ InspectDestination \/ DestinationExists
  \/ CreateStage \/ ReceiveFileStart \/ ReceiveFileChunk \/ ReceiveFileEnd
  \/ ReceiveComplete \/ ReceiveEndOfStream \/ ReceivePullError
  \/ ReceiveUnexpected \/ ClientReadFails \/ Publish \/ PublishRefused
  \/ RemoveStage \/ Report

-----------------------------------------------------------------------------
(***************************************************************************)
(* The network and the world around the two processes.                     *)
(***************************************************************************)

\* The peer's QUIC stack receives and acknowledges the next frame.
Deliver ==
  /\ conn = "open"
  /\ wire # << >>
  /\ wire' = Tail(wire)
  /\ inbox' = Append(inbox, Head(wire))
  /\ UNCHANGED <<conn, sourceVars, serverVars, clientVars>>

\* An idle timeout, a lost relay or an I/O deadline closes the connection.
ConnectionLost ==
  /\ conn = "open"
  /\ conn' = "closed"
  /\ wire' = << >>
  /\ UNCHANGED <<inbox, sourceVars, serverVars, clientVars>>

\* Somebody writes, replaces or removes a file of the tree, or changes a
\* directory of it, after it was planned.
SourceChanges ==
  /\ spc # "prepare"
  /\ \E i \in DOMAIN source :
       /\ source[i] = "planned"
       /\ source' = [source EXCEPT ![i] = "changed"]
  /\ UNCHANGED <<manifest, serverVars, netVars, clientVars>>

\* An open, read or stat of the tree fails for a reason of its own.
SourceUnreadable ==
  /\ spc \in {"chunks", "verify"}
  /\ spc' = "pull-error"
  /\ UNCHANGED <<sourceVars, sfile, soffset, scanned, verified, netVars,
                 clientVars>>

\* Another program creates the destination.
DestinationCreated ==
  /\ dest = Absent
  /\ dest' = Foreign
  /\ UNCHANGED <<sourceVars, serverVars, netVars, cpc, readerVars, stage,
                 staged, cause, result>>

Environment ==
  \/ ConnectionLost \/ SourceChanges \/ SourceUnreadable
  \/ DestinationCreated
  \/ ServerInterrupted \/ ClientDeadline \/ ClientCrashes \/ LocalFailure

Next == Server \/ Client \/ Deliver \/ Environment

Spec == Init /\ [][Next]_vars

(***************************************************************************)
(* The two fibers run whenever they can and the network delivers what it   *)
(* carries.  Nothing is assumed of deadlines, losses, crashes or changes.  *)
(***************************************************************************)
Fairness == WF_vars(Server) /\ WF_vars(Client) /\ WF_vars(Deliver)

FairSpec == Spec /\ Fairness

-----------------------------------------------------------------------------
(***************************************************************************)
(* Properties.                                                             *)
(***************************************************************************)
Atomic == INSTANCE AtomicPull

\* A destination this pull published is backed by a bridge that re-verified
\* its source after the last byte, and holds exactly the planned content of
\* every file (materialize.ts writeEntry and commitPath, pull-response.ts
\* makeRemoteRead, session-handlers.ts sendPullSource).
PublishedIsVerified ==
  dest.state = "published" =>
    /\ verified
    /\ dest.files = Atomic!PlannedContent(manifest)

\* The pull implements the abstract promise about the destination path.
ImplementsAtomicPull == Atomic!Spec

\* The bridge and the client agree on the grammar and on the end: whatever
\* fails on either side, the client never meets a frame its decoder or its
\* reader refuses, a response that ends early, or staged bytes that miss
\* their digest; and once the bridge's handler has ended normally, closing
\* its connection costs the client none of the response, because
\* session.finish has waited for the peer.
SidesAgree ==
  /\ cause \notin {"invalid", "incomplete", "integrity"}
  /\ spc = "done" => cause # "read"

\* A destination that another program created is never replaced.
NeverOverwrites == [][dest = Foreign => dest' = Foreign]_vars

\* A reported failure leaves no destination behind, unless a deadline struck
\* after the publication; failing to remove the stage is no reason.
FailureLeavesNoDestination ==
  result = "failure" /\ cause # "deadline" => dest.state # "published"

\* However a pull ends, short of a crash, it tried to remove its stage.
StageIsRemoved == result # "none" => stage # "present"

\* Nobody waits for ever on the other side's flow control, acknowledgement or
\* end of stream: without any deadline firing, the client reports (or has
\* crashed) and the bridge's session ends.
PullEnds ==
  /\ <>(cpc \in {"reported", "crashed"})
  /\ <>(spc \in {"done", "gone"})
=============================================================================
