--------------------------- MODULE PullAnyBridge ---------------------------
(***************************************************************************)
(* The client of PullTransfer in front of any bridge at all: one of        *)
(* another version, one that plans badly or loses its place, one that      *)
(* stops in the middle.  Whatever frames arrive, the client checks what it *)
(* stages against the manifest it was sent.  The variables of our own      *)
(* bridge stay as they were; any frame may enter the stream at any time.   *)
(***************************************************************************)
EXTENDS PullTransfer

CONSTANT Frames     \* the frames such a bridge may send

ASSUME FramesAssumption == Frames \subseteq Frame

OtherBridgeSends ==
  /\ \E frame \in Frames : Send(frame)
  /\ UNCHANGED <<sourceVars, serverVars, clientVars>>

NextAnyBridge ==
  \/ OtherBridgeSends
  \/ Client
  \/ Deliver
  \/ ConnectionLost
  \/ DestinationCreated
  \/ ClientDeadline
  \/ ClientCrashes
  \/ LocalFailure

SpecAnyBridge == Init /\ [][NextAnyBridge]_vars

\* Whatever the peer sends, a published destination holds, file by file, the
\* sizes and digests of the manifest the client received, and the response
\* was complete (materialize.ts writeEntry, pull-response.ts makeRemoteRead
\* and finishPullResponse, sessions.ts makePullResponseSession).
PublishedMatchesManifest ==
  dest.state = "published" =>
    /\ decoder.state = "complete"
    /\ dest.files = Atomic!PlannedContent(plan)

\* The decoder runs ahead of the client, yet every event it let through is the
\* one the client will be waiting for when it comes to it: the grammar of
\* sessions.ts and the positions of pull-response.ts and materialize.ts are
\* two encodings of one protocol.
DecoderAnticipatesClient ==
  Reading /\ events # << >> =>
    Awaited(Head(events)) \/ Head(events).type = "pull-error"
=============================================================================
