------------------------- MODULE PullTransferProofs -------------------------
(***************************************************************************)
(* Proofs about PullTransfer, for every set of manifests and every window, *)
(* with the bridge of this program and (in the last part, PullAnyBridge)   *)
(* with a peer that sends any frames at all.                               *)
(*                                                                         *)
(* First the types.  Then IInv, the invariant that carries the others: the *)
(* stream holds the one manifest the bridge planned and, behind a complete *)
(* frame, only a bridge that has verified its source; so the plan the      *)
(* client follows is the bridge's, and a client that has seen the complete *)
(* frame knows that the source was verified.  What is staged was compared  *)
(* with the plan file by file, the last one at the end of the response;    *)
(* what is published is therefore the planned content.  Each step of the   *)
(* pull maps to one of AtomicPull under the same facts.                    *)
(*                                                                         *)
(* The second part follows the frames themselves: the ones in flight lead, *)
(* place by place, from where the client is to where the bridge is.        *)
(***************************************************************************)
EXTENDS PullAnyBridge, SequenceTheorems, FiniteSetTheorems, TLAPS

\* What a frame carries is of the kind its type says.
LEMMA FrameFields ==
  ASSUME NEW f \in Frame
  PROVE  /\ f.type = "manifest" => f.manifest \in Manifest
         /\ f.type = "file-chunk" => f.data \in Data
BY DEF Frame

\* Every frame the bridge sends is a frame.
LEMMA NewFrames ==
  /\ \A m \in Manifest : ManifestFrame(m) \in Frame
  /\ \A i, n \in Nat : FileStart(i, n) \in Frame
  /\ \A n \in Nat, data \in Data : FileChunk(n, data) \in Frame
  /\ \A i \in Nat : FileEnd(i) \in Frame
  /\ {CompleteFrame, PullErrorFrame, EndOfStream} \subseteq Frame
BY DEF Frame, ManifestFrame, FileStart, FileChunk, FileEnd, CompleteFrame,
       PullErrorFrame, EndOfStream

\* The decoder keeps its type, frame by frame.
LEMMA ConsumeType ==
  ASSUME NEW d \in DecoderState, NEW f \in Frame
  PROVE  Consume(d, f) \in DecoderState
<1>1. CASE f.type = "manifest"
  BY <1>1, FrameFields DEF Consume, DecoderState
<1>2. CASE f.type = "file-start"
  BY <1>2 DEF Consume, DecoderState
<1>3. CASE f.type = "file-chunk"
  <2>1. Consume(d, f) = [d EXCEPT !.received = @ + 1, !.transferred = @ + 1]
    BY <1>3 DEF Consume
  <2>2. d.received + 1 \in Nat /\ d.transferred + 1 \in Nat
    BY DEF DecoderState
  <2>3. QED
    BY <2>1, <2>2 DEF DecoderState
<1>4. CASE f.type = "file-end"
  <2>1. Consume(d, f) = [d EXCEPT !.state = "between-files", !.next = @ + 1]
    BY <1>4 DEF Consume
  <2>2. d.next + 1 \in Nat
    BY DEF DecoderState
  <2>3. QED
    BY <2>1, <2>2 DEF DecoderState
<1>5. CASE f.type \notin {"manifest", "file-start", "file-chunk", "file-end"}
  BY <1>5 DEF Consume, DecoderState
<1>6. QED
  BY <1>1, <1>2, <1>3, <1>4, <1>5

(***************************************************************************)
(* Type correctness.  TypeOK is inductive only together with where the     *)
(* bridge's file cursor points while a file is being sent, and with the    *)
(* client having opened a staged file before it receives a chunk of it.    *)
(***************************************************************************)
CursorOK ==
  spc \in {"file-start", "chunks", "file-end"} => sfile <= FileCount

OpenedOK == cpc = "chunks" => staged # << >>

TypeInv == TypeOK /\ CursorOK /\ OpenedOK

\* The initial states are well typed: an empty manifest has nothing to send.
LEMMA InitTypeInv == Init => TypeInv
<1>1. SUFFICES ASSUME Init PROVE TypeInv
  OBVIOUS
<1>2. manifest \in Seq(Nat) /\ Len(manifest) \in Nat
  BY <1>1, ManifestsAssumption DEF Init, Manifest
<1>3. NewDecoder \in DecoderState
  BY DEF NewDecoder, DecoderState, Manifest
<1>4. 1 <= FileCount => 0 <= manifest[1]
  BY <1>2 DEF FileCount
<1>5. TypeOK
  BY <1>1, <1>2, <1>3, <1>4
  DEF Init, TypeOK, FileCount, ServerPositions, ClientPositions, Causes, Data,
      Absent, Foreign, Manifest
<1>6. CursorOK /\ OpenedOK
  BY <1>1 DEF Init, CursorOK, OpenedOK
<1>7. QED
  BY <1>5, <1>6 DEF TypeInv

\* A frame sent keeps the stream a sequence of frames.
LEMMA SendType ==
  ASSUME TypeOK, NEW f \in Frame, Send(f)
  PROVE  conn' = conn /\ wire' \in Seq(Frame) /\ inbox' = inbox
BY DEF TypeOK, Send

\* The bridge's cursor is reset wherever it moves to a file, or past the last.
LEMMA GoToFileType ==
  ASSUME TypeOK, NEW i \in 1..(FileCount + 1), GoToFile(i),
         UNCHANGED manifest
  PROVE  /\ spc' \in ServerPositions
         /\ sfile' \in 1..(FileCount' + 1)
         /\ soffset' \in Nat
         /\ (sfile <= FileCount => soffset <= manifest[sfile])'
         /\ scanned' \in Data
         /\ CursorOK'
<1>1. manifest \in Seq(Nat)
  BY ManifestsAssumption DEF TypeOK, Manifest
<1>2. FileCount \in Nat /\ FileCount' = FileCount
  BY <1>1 DEF FileCount
<1>3. i <= FileCount => manifest[i] \in Nat
  BY <1>1, <1>2 DEF FileCount
<1>4. QED
  BY <1>1, <1>2, <1>3 DEF GoToFile, ServerPositions, Data, CursorOK

\* Types under the steps of the bridge.
LEMMA TypeInvServer ==
  ASSUME TypeInv, Server
  PROVE  TypeInv'
<1> USE DEF TypeInv
<1> DEFINE Kept == UNCHANGED <<sourceVars, clientVars>>
<1>1. manifest \in Manifest /\ manifest \in Seq(Nat) /\ FileCount \in Nat
  BY ManifestsAssumption DEF TypeOK, Manifest, FileCount
<1>2. sfile <= FileCount => manifest[sfile] \in Nat
  BY <1>1 DEF TypeOK, FileCount
<1>3. ASSUME UNCHANGED <<sourceVars, sfile, soffset, scanned, netVars,
                         clientVars>>,
             verified' \in BOOLEAN, spc' \in ServerPositions,
             spc' \in {"file-start", "chunks", "file-end"} =>
               spc \in {"file-start", "chunks", "file-end"}
      PROVE  TypeInv'
  BY <1>3 DEF TypeOK, CursorOK, OpenedOK, FileCount, sourceVars, netVars,
              clientVars, readerVars
<1>4. ASSUME NEW f \in Frame, Send(f), Kept,
             UNCHANGED <<sfile, soffset, scanned, verified>>,
             spc' \in ServerPositions,
             spc' \in {"file-start", "chunks", "file-end"} =>
               spc \in {"file-start", "chunks", "file-end"}
      PROVE  TypeInv'
  BY <1>4, SendType DEF TypeOK, CursorOK, OpenedOK, FileCount, sourceVars,
                        clientVars, readerVars
<1>5. ASSUME NEW f \in Frame, Send(f), Kept, UNCHANGED verified,
             NEW i \in 1..(FileCount + 1), GoToFile(i)
      PROVE  TypeInv'
  <2>1. UNCHANGED <<source, manifest>>
    BY <1>5 DEF sourceVars
  <2>2. /\ spc' \in ServerPositions /\ sfile' \in 1..(FileCount' + 1)
        /\ soffset' \in Nat /\ scanned' \in Data /\ CursorOK'
        /\ (sfile <= FileCount => soffset <= manifest[sfile])'
    BY <1>5, <2>1, GoToFileType
  <2>3. QED
    BY <1>5, <2>1, <2>2, SendType DEF TypeOK, OpenedOK, FileCount, clientVars,
                                 readerVars
<1>6. CASE Prepare
  BY <1>6, <1>3 DEF Prepare, ServerPositions, TypeOK
<1>7. CASE SendManifest
  BY <1>7, <1>5, <1>1, NewFrames DEF SendManifest
<1>8. CASE SendFileStart
  <2>1. FileStart(sfile, manifest[sfile]) \in Frame
    BY <1>8, <1>2, NewFrames DEF SendFileStart, TypeOK, CursorOK
  <2>2. QED
    BY <1>8, <1>4, <2>1 DEF SendFileStart, ServerPositions
<1>9. CASE SendChunk
  <2>1. PICK data \in Data : Send(FileChunk(soffset, data))
    BY <1>9 DEF SendChunk
  <2>2. FileChunk(soffset, data) \in Frame
    BY NewFrames DEF TypeOK
  <2>3. wire' \in Seq(Frame) /\ UNCHANGED <<conn, inbox>>
    BY <2>1, <2>2, SendType
  <2>4. scanned' \in Data
    BY <1>9 DEF SendChunk, TypeOK, Data
  <2>5. soffset' \in Nat /\ soffset' <= manifest[sfile]
    BY <1>9, <1>2 DEF SendChunk, TypeOK, CursorOK
  <2>6. QED
    BY <1>9, <2>3, <2>4, <2>5 DEF SendChunk, TypeOK, CursorOK, OpenedOK,
      FileCount, sourceVars, clientVars, readerVars
<1>10. CASE ScanEnds
  BY <1>10, <1>3 DEF ScanEnds, ServerPositions, TypeOK
<1>11. CASE ScanFails
  BY <1>11, <1>3 DEF ScanFails, ServerPositions, TypeOK
<1>12. CASE SendFileEnd
  <2>1. FileEnd(sfile) \in Frame /\ sfile + 1 \in 1..(FileCount + 1)
    BY <1>12, <1>1, NewFrames DEF SendFileEnd, TypeOK, CursorOK
  <2>2. QED
    BY <1>12, <1>5, <2>1 DEF SendFileEnd
<1>13. CASE Verify
  BY <1>13, <1>3 DEF Verify, ServerPositions
<1>14. CASE VerifyFails
  BY <1>14, <1>3 DEF VerifyFails, ServerPositions, TypeOK
<1>15. CASE SendComplete
  BY <1>15, <1>4, NewFrames DEF SendComplete, ServerPositions
<1>16. CASE SendPullError
  BY <1>16, <1>4, NewFrames DEF SendPullError, ServerPositions
<1>17. CASE Finish
  BY <1>17, <1>4, NewFrames DEF Finish, ServerPositions
<1>18. CASE Acknowledged
  BY <1>18, <1>3 DEF Acknowledged, ServerPositions, TypeOK
<1>19. CASE ServerWriteFails
  BY <1>19, <1>3 DEF ServerWriteFails, ServerPositions, TypeOK
<1>20. CASE ServerCloses
  BY <1>20 DEF ServerCloses, TypeOK, CursorOK, OpenedOK, FileCount,
     sourceVars, serverVars, clientVars, readerVars
<1>21. QED
  BY <1>6, <1>7, <1>8, <1>9, <1>10, <1>11, <1>12, <1>13, <1>14, <1>15, <1>16,
     <1>17, <1>18, <1>19, <1>20 DEF Server

\* Taking from a queue keeps its type.
LEMMA HeadTailType ==
  ASSUME NEW S, NEW s \in Seq(S), s # << >>
  PROVE  Head(s) \in S /\ Tail(s) \in Seq(S)
OBVIOUS

\* Leaving has a known cause and goes to one of two positions.
LEMMA LeaveType ==
  ASSUME TypeOK, NEW why \in Causes, Leave(why)
  PROVE  cause' \in Causes /\ cpc' \in {"unstage", "close"}
BY DEF Leave

\* Types under the steps of the client.
LEMMA TypeInvClient ==
  ASSUME TypeInv, Client
  PROVE  TypeInv'
<1> USE DEF TypeInv
<1>1. manifest \in Manifest /\ plan \in Seq(Nat)
  BY ManifestsAssumption DEF TypeOK, Manifest
<1>2. ASSUME NEW why \in Causes, ClientFails(why), UNCHANGED netVars
      PROVE  TypeInv'
  BY <1>2, LeaveType DEF ClientFails, TypeOK, CursorOK, OpenedOK, FileCount,
    sourceVars, serverVars, netVars, readerVars, ClientPositions
<1>3. ASSUME UNCHANGED <<sourceVars, serverVars, netVars, readerVars, cause,
                         result>>,
             cpc' \in ClientPositions, cpc' # "chunks",
             stage' \in {"none", "present", "left-behind"},
             staged' \in Seq(Seq(Data)),
             dest' \in [state : {"absent", "foreign", "published"},
                        files : Seq(Seq(Data))]
      PROVE  TypeInv'
  BY <1>3 DEF TypeOK, CursorOK, OpenedOK, FileCount, sourceVars, serverVars,
    netVars, readerVars
<1>4. ASSUME NEW type, Take(type), plan' \in Manifest,
             UNCHANGED <<stage, dest, result>>,
             cause' \in Causes, cpc' \in ClientPositions,
             staged' \in Seq(Seq(Data)), OpenedOK'
      PROVE  TypeInv'
  <2>1. events' \in Seq(Frame)
    BY <1>4, HeadTailType DEF Take, TypeOK
  <2>2. QED
    BY <1>4, <2>1 DEF Take, TypeOK, CursorOK, FileCount, sourceVars,
      serverVars, netVars
<1>5. CASE DecodeFrame
  <2>1. Head(inbox) \in Frame /\ Tail(inbox) \in Seq(Frame)
    BY <1>5, HeadTailType DEF DecodeFrame, TypeOK
  <2>2. decoder' \in DecoderState
    BY <1>5, <2>1, ConsumeType DEF DecodeFrame, TypeOK
  <2>3. events' \in Seq(Frame)
    BY <1>5, <2>1 DEF DecodeFrame, TypeOK
  <2>4. QED
    BY <1>5, <2>1, <2>2, <2>3 DEF DecodeFrame, TypeOK, CursorOK, OpenedOK,
      FileCount, sourceVars, serverVars
<1>6. CASE RefuseFrame
  BY <1>6, <1>2 DEF RefuseFrame, Causes
<1>7. CASE ReceiveManifest
  <2>1. Head(events) \in Frame /\ Head(events).type = "manifest"
    BY <1>7, HeadTailType DEF ReceiveManifest, Take, TypeOK
  <2>2. plan' \in Manifest
    BY <1>7, <2>1, FrameFields DEF ReceiveManifest
  <2>3. QED
    BY <1>7, <1>4, <2>2 DEF ReceiveManifest, TypeOK, ClientPositions, OpenedOK
<1>8. CASE InspectDestination
  BY <1>8, <1>3 DEF InspectDestination, TypeOK, ClientPositions
<1>9. CASE DestinationExists
  BY <1>9, <1>2 DEF DestinationExists, Causes
<1>10. CASE CreateStage
  BY <1>10, <1>3 DEF CreateStage, TypeOK, ClientPositions
<1>11. CASE ReceiveFileStart
  <2> DEFINE empty == << >>
  <2>1. staged \in Seq(Seq(Data)) /\ empty \in Seq(Data)
    BY DEF TypeOK
  <2>2. staged' = Append(staged, empty)
    BY <1>11 DEF ReceiveFileStart
  <2> HIDE DEF empty
  <2>3. Append(staged, empty) \in Seq(Seq(Data))
        /\ Len(Append(staged, empty)) = Len(staged) + 1
        /\ Len(staged) \in Nat
    BY <2>1
  <2>4. staged' \in Seq(Seq(Data)) /\ staged' # << >>
    BY <2>2, <2>3
  <2>5. QED
    BY <1>11, <1>4, <2>4 DEF ReceiveFileStart, TypeOK, ClientPositions, OpenedOK
<1>12. CASE ReceiveFileChunk
  <2>1. Head(events) \in Frame /\ Head(events).type = "file-chunk"
    BY <1>12, HeadTailType DEF ReceiveFileChunk, Take, TypeOK
  <2>2. Head(events).data \in Data
    BY <2>1, FrameFields
  <2>3. staged # << >> /\ staged \in Seq(Seq(Data))
    BY <1>12 DEF ReceiveFileChunk, OpenedOK, TypeOK
  <2>4. Len(staged) \in 1..Len(staged) /\ staged[Len(staged)] \in Seq(Data)
    BY <2>3
  <2>5. Append(staged[Len(staged)], Head(events).data) \in Seq(Data)
    BY <2>2, <2>4
  <2>6. staged' \in Seq(Seq(Data)) /\ Len(staged') = Len(staged)
    BY <1>12, <2>3, <2>4, <2>5 DEF ReceiveFileChunk
  <2>7. staged' # << >>
    BY <2>3, <2>6
  <2>8. QED
    BY <1>12, <1>4, <2>6, <2>7 DEF ReceiveFileChunk, TypeOK, OpenedOK
<1>13. CASE ReceiveFileEnd
  <2>1. cause' \in Causes /\ cpc' \in ClientPositions /\ cpc' # "chunks"
    BY <1>13 DEF ReceiveFileEnd, AfterFileEnd, Leave, Causes, ClientPositions,
      TypeOK
  <2>2. QED
    BY <1>13, <1>4, <2>1 DEF ReceiveFileEnd, TypeOK, OpenedOK
<1>14. CASE ReceiveComplete
  BY <1>14, <1>4 DEF ReceiveComplete, TypeOK, ClientPositions, OpenedOK
<1>15. CASE ReceiveEndOfStream
  <2>1. cause' \in Causes /\ cpc' \in ClientPositions /\ cpc' # "chunks"
    BY <1>15 DEF ReceiveEndOfStream, Leave, Causes, ClientPositions, TypeOK
  <2>2. inbox' \in Seq(Frame)
    BY <1>15, HeadTailType DEF ReceiveEndOfStream, AtEndOfStream, TypeOK
  <2>3. QED
    BY <1>15, <2>1, <2>2 DEF ReceiveEndOfStream, TypeOK, CursorOK, OpenedOK,
      FileCount, sourceVars, serverVars, readerVars
<1>16. CASE ReceivePullError
  <2>1. cause' \in Causes /\ cpc' \in ClientPositions /\ cpc' # "chunks"
    BY <1>16, LeaveType DEF ReceivePullError, Causes, ClientPositions
  <2>2. QED
    BY <1>16, <1>4, <2>1 DEF ReceivePullError, TypeOK, OpenedOK
<1>17. CASE ReceiveUnexpected
  BY <1>17, <1>2 DEF ReceiveUnexpected, Causes
<1>18. CASE ClientReadFails
  BY <1>18, <1>2 DEF ClientReadFails, Causes
<1>19. CASE Publish
  <2>1. dest' \in [state : {"absent", "foreign", "published"},
                   files : Seq(Seq(Data))]
    BY <1>19 DEF Publish, TypeOK
  <2>2. QED
    BY <1>19, <1>3, <2>1 DEF Publish, TypeOK, ClientPositions
<1>20. CASE PublishRefused
  BY <1>20, <1>2 DEF PublishRefused, Causes
<1>21. CASE RemoveStage
  BY <1>21, <1>3 DEF RemoveStage, TypeOK, ClientPositions
<1>22. CASE Report
  BY <1>22 DEF Report, TypeOK, CursorOK, OpenedOK, FileCount, sourceVars,
    serverVars, readerVars, ClientPositions
<1>23. QED
  BY <1>5, <1>6, <1>7, <1>8, <1>9, <1>10, <1>11, <1>12, <1>13, <1>14, <1>15,
     <1>16, <1>17, <1>18, <1>19, <1>20, <1>21, <1>22 DEF Client

\* Types under the steps of the network, the world and the interruptions.
LEMMA TypeInvWorld ==
  ASSUME TypeInv, Deliver \/ Environment
  PROVE  TypeInv'
<1> USE DEF TypeInv
<1>1. CASE Deliver
  <2>1. Head(wire) \in Frame /\ Tail(wire) \in Seq(Frame)
    BY <1>1, HeadTailType DEF Deliver, TypeOK
  <2>2. wire' \in Seq(Frame) /\ inbox' \in Seq(Frame)
    BY <1>1, <2>1 DEF Deliver, TypeOK
  <2>3. QED
    BY <1>1, <2>2 DEF Deliver, TypeOK, CursorOK, OpenedOK, FileCount,
      sourceVars, serverVars, clientVars, readerVars
<1>2. CASE ConnectionLost
  BY <1>2 DEF ConnectionLost, TypeOK, CursorOK, OpenedOK, FileCount,
    sourceVars, serverVars, clientVars, readerVars
<1>3. CASE SourceChanges
  BY <1>3 DEF SourceChanges, TypeOK, CursorOK, OpenedOK, FileCount,
    serverVars, netVars, clientVars, readerVars
<1>4. CASE SourceUnreadable
  BY <1>4 DEF SourceUnreadable, TypeOK, CursorOK, OpenedOK, FileCount,
    sourceVars, netVars, clientVars, readerVars, ServerPositions
<1>5. CASE DestinationCreated
  <2>1. dest' \in [state : {"absent", "foreign", "published"},
                   files : Seq(Seq(Data))]
    BY <1>5 DEF DestinationCreated, Foreign
  <2>2. QED
    BY <1>5, <2>1 DEF DestinationCreated, TypeOK, CursorOK, OpenedOK,
      FileCount, sourceVars, serverVars, netVars, readerVars
<1>6. CASE ServerInterrupted
  BY <1>6 DEF ServerInterrupted, TypeOK, CursorOK, OpenedOK, FileCount,
    sourceVars, clientVars, readerVars, ServerPositions
<1>7. CASE ClientDeadline
  <2>1. cause' = "deadline" /\ cpc' \in ClientPositions
        /\ (cpc' = "chunks" => cpc = "chunks")
    BY <1>7 DEF ClientDeadline, Leave, ClientPositions, TypeOK
  <2>2. QED
    BY <1>7, <2>1 DEF ClientDeadline, TypeOK, CursorOK, OpenedOK, FileCount,
      sourceVars, serverVars, netVars, readerVars, Causes
<1>8. CASE ClientCrashes
  BY <1>8 DEF ClientCrashes, TypeOK, CursorOK, OpenedOK, FileCount,
    sourceVars, serverVars, readerVars, ClientPositions
<1>9. CASE LocalFailure
  BY <1>9, LeaveType DEF LocalFailure, ClientFails, TypeOK, CursorOK, OpenedOK,
    FileCount, sourceVars, serverVars, netVars, readerVars, ClientPositions,
    Causes
<1>10. QED
  BY <1>1, <1>2, <1>3, <1>4, <1>5, <1>6, <1>7, <1>8, <1>9 DEF Environment

\* Types under stuttering.
LEMMA TypeInvStutters ==
  ASSUME TypeInv, UNCHANGED vars
  PROVE  TypeInv'
BY DEF TypeInv, TypeOK, CursorOK, OpenedOK, FileCount, vars, sourceVars,
  serverVars, netVars, clientVars, readerVars

\* Type correctness of the whole transfer, for every set of manifests and every
\* window: in particular the bridge's cursor never leaves the file being sent
\* (sendPullSource and scan), and a file cursor past the last file is only
\* held while the source is verified or the response ends.
THEOREM TypeCorrect == Spec => []TypeOK
<1>1. TypeInv /\ [Next]_vars => TypeInv'
  BY TypeInvServer, TypeInvClient, TypeInvWorld, TypeInvStutters DEF Next
<1>2. TypeInv => TypeOK
  BY DEF TypeInv
<1>3. QED
  BY InitTypeInv, <1>1, <1>2, PTL DEF Spec

(***************************************************************************)
(* The inductive invariant behind the safety theorems.                     *)
(*                                                                         *)
(*   FramesOK      what the frames in flight vouch for                     *)
(*   CompletionOK  whoever is past the complete frame has a verified source *)
(*   PlanOK        the client works with the manifest the bridge planned   *)
(*   StagedOK      which staged files have been compared with it so far    *)
(*   OutcomeOK     how the client's position, its verdict and the          *)
(*                 destination go together                                 *)
(*   StageOK       the way out leads past the removal of the stage         *)
(***************************************************************************)
FrameOK(f, v, m) ==
  /\ f.type = "complete" => v
  /\ f.type = "manifest" => f.manifest = m

AllOK(s, v, m) == \A i \in 1..Len(s) : FrameOK(s[i], v, m)

FramesOK ==
  /\ AllOK(wire, verified, manifest)
  /\ AllOK(inbox, verified, manifest)
  /\ AllOK(events, verified, manifest)

CompletionOK ==
  /\ spc = "complete" => verified
  /\ cpc \in {"end-of-stream", "publish"} => verified
  /\ cpc \in {"inspect", "stage"} /\ plan = << >> => verified

PlanOK ==
  cpc \in {"inspect", "stage", "file", "chunks", "complete", "end-of-stream",
           "publish"} => plan = manifest

Compared(n) ==
  \A i \in 1..n : staged[i] = [k \in 1..plan[i] |-> "planned"]

StagedOK ==
  /\ cpc \in {"manifest", "inspect", "stage"} => staged = << >>
  /\ cpc = "file" => Len(staged) < Len(plan) /\ Compared(Len(staged))
  /\ cpc = "chunks" =>
       Len(staged) \in 1..Len(plan) /\ Compared(Len(staged) - 1)
  /\ cpc \in {"complete", "end-of-stream"} =>
       Len(staged) = Len(plan) /\ Compared(Len(staged) - 1)
  /\ cpc = "publish" => Len(staged) = Len(plan) /\ Compared(Len(staged))

Leaving == {"unstage", "close", "reported", "crashed"}

OutcomeOK ==
  /\ cpc # "reported" => result = "none"
  /\ cpc \notin Leaving => cause = "none"
  /\ dest.state = "published" => cpc \in Leaving /\ cause \in {"none", "deadline"}
  /\ cpc \in {"unstage", "close"} /\ cause = "none" => dest.state = "published"
  /\ result = "failure" => cause # "none"

StageOK == cpc \in {"close", "reported"} => stage # "present"

ClientInv ==
  PlanOK /\ StagedOK /\ PublishedIsVerified /\ OutcomeOK /\ StageOK

IInv == TypeInv /\ FramesOK /\ CompletionOK /\ ClientInv

\* IInv holds initially.
LEMMA InitIInv == Init => IInv
<1>1. SUFFICES ASSUME Init PROVE IInv
  OBVIOUS
<1>2. TypeInv
  BY <1>1, InitTypeInv
<1>3. FramesOK
  BY <1>1 DEF Init, FramesOK, AllOK
<1>4. CompletionOK /\ PlanOK /\ StagedOK /\ OutcomeOK /\ StageOK
  BY <1>1 DEF Init, CompletionOK, PlanOK, StagedOK, OutcomeOK, StageOK,
    Leaving, Absent, Foreign
<1>5. PublishedIsVerified
  BY <1>1 DEF Init, PublishedIsVerified, Absent, Foreign
<1>6. QED
  BY <1>2, <1>3, <1>4, <1>5 DEF IInv, ClientInv

\* A sequence of sound frames stays sound when one is added, when the first is
\* taken, and when the source becomes verified.
LEMMA AllOKAppend ==
  ASSUME NEW s \in Seq(Frame), NEW f \in Frame, NEW v, NEW m,
         AllOK(s, v, m), FrameOK(f, v, m)
  PROVE  AllOK(Append(s, f), v, m)
BY DEF AllOK

\* Taking the first of sound frames yields a sound one and leaves sound ones.
LEMMA AllOKTail ==
  ASSUME NEW s \in Seq(Frame), s # << >>, NEW v, NEW m, AllOK(s, v, m)
  PROVE  FrameOK(Head(s), v, m) /\ AllOK(Tail(s), v, m)
BY DEF AllOK

\* Sound frames stay sound when the source becomes verified.
LEMMA AllOKVerified ==
  ASSUME NEW s, NEW m, AllOK(s, verified, m), verified => verified'
  PROVE  AllOK(s, verified', m)
BY DEF AllOK, FrameOK

\* Nothing is wrong with an empty sequence.
LEMMA AllOKEmpty ==
  ASSUME NEW v, NEW m
  PROVE  AllOK(<< >>, v, m)
BY DEF AllOK

\* The manifest never changes, and verification is never taken back.
LEMMA Stable ==
  ASSUME TypeOK, [Next]_vars
  PROVE  manifest' = manifest /\ (verified => verified')
<1>1. CASE Server
  BY <1>1 DEF Server, Prepare, SendManifest, SendFileStart, SendChunk,
    ScanEnds, ScanFails, SendFileEnd, Verify, VerifyFails, SendComplete,
    SendPullError, Finish, Acknowledged, ServerWriteFails, ServerCloses,
    sourceVars, serverVars
<1>2. CASE Client
  BY <1>2 DEF Client, DecodeFrame, RefuseFrame, ClientFails, Take,
    ReceiveManifest, InspectDestination, DestinationExists, CreateStage,
    ReceiveFileStart, ReceiveFileChunk, ReceiveFileEnd, ReceiveComplete,
    ReceiveEndOfStream, ReceivePullError, ReceiveUnexpected, ClientReadFails,
    Publish, PublishRefused, RemoveStage, Report, sourceVars, serverVars
<1>3. CASE Deliver \/ Environment
  BY <1>3 DEF Deliver, Environment, ConnectionLost, SourceChanges,
    SourceUnreadable, DestinationCreated, ServerInterrupted, ClientDeadline,
    ClientCrashes, LocalFailure, ClientFails, sourceVars, serverVars
<1>4. CASE UNCHANGED vars
  BY <1>4 DEF vars, sourceVars, serverVars
<1>5. QED
  BY <1>1, <1>2, <1>3, <1>4 DEF Next

\* No step puts an unsound frame into the stream: another manifest than the
\* planned one, or a complete frame before the verification.
LEMMA FramesOKStep ==
  ASSUME IInv, [Next]_vars
  PROVE  FramesOK'
<1>1. /\ wire \in Seq(Frame) /\ inbox \in Seq(Frame) /\ events \in Seq(Frame)
      /\ FramesOK /\ CompletionOK
      /\ manifest' = manifest /\ (verified => verified')
  BY Stable DEF IInv, TypeInv, TypeOK
<1>2. /\ AllOK(wire, verified', manifest')
      /\ AllOK(inbox, verified', manifest')
      /\ AllOK(events, verified', manifest')
  BY <1>1, AllOKVerified DEF FramesOK
<1>3. ASSUME wire' \in {wire, << >>, Tail(wire)},
             wire' = Tail(wire) => wire' = << >> \/ wire # << >>,
             inbox' \in {inbox, << >>}, UNCHANGED events
      PROVE  FramesOK'
  BY <1>1, <1>2, <1>3, AllOKTail, AllOKEmpty DEF FramesOK
<1>4. ASSUME NEW f \in Frame, FrameOK(f, verified', manifest'),
             wire' = Append(wire, f), UNCHANGED <<inbox, events>>
      PROVE  FramesOK'
  BY <1>1, <1>2, <1>4, AllOKAppend DEF FramesOK
<1>5. CASE Server
  <2>1. UNCHANGED events
    BY <1>5 DEF Server, Prepare, SendManifest, SendFileStart, SendChunk,
      ScanEnds, ScanFails, SendFileEnd, Verify, VerifyFails, SendComplete,
      SendPullError, Finish, Acknowledged, ServerWriteFails, ServerCloses,
      clientVars, readerVars
  <2>2. CASE SendManifest
    <3>1. manifest \in Manifest
      BY ManifestsAssumption DEF IInv, TypeInv, TypeOK
    <3>2. FrameOK(ManifestFrame(manifest), verified', manifest')
      BY <1>1 DEF FrameOK, ManifestFrame
    <3>3. QED
      BY <2>1, <2>2, <3>1, <3>2, <1>4, NewFrames DEF SendManifest, Send
  <2>3. CASE SendFileStart
    <3>1. FileStart(sfile, manifest[sfile]) \in Frame
      <4>1. manifest \in Seq(Nat) /\ sfile \in 1..Len(manifest)
        BY <2>3, ManifestsAssumption DEF SendFileStart, IInv, TypeInv, TypeOK,
          CursorOK, FileCount, Manifest
      <4>2. QED
        BY <4>1, NewFrames
    <3>2. FrameOK(FileStart(sfile, manifest[sfile]), verified', manifest')
      BY DEF FrameOK, FileStart
    <3>3. QED
      BY <2>1, <2>3, <3>1, <3>2, <1>4 DEF SendFileStart, Send
  <2>4. CASE SendChunk
    <3>1. PICK data \in Data : Send(FileChunk(soffset, data))
      BY <2>4 DEF SendChunk
    <3>2. FileChunk(soffset, data) \in Frame
      BY NewFrames DEF IInv, TypeInv, TypeOK
    <3>3. FrameOK(FileChunk(soffset, data), verified', manifest')
      BY DEF FrameOK, FileChunk
    <3>4. QED
      BY <2>1, <3>1, <3>2, <3>3, <1>4 DEF Send
  <2>5. CASE SendFileEnd
    <3>1. FileEnd(sfile) \in Frame
      BY NewFrames DEF IInv, TypeInv, TypeOK
    <3>2. FrameOK(FileEnd(sfile), verified', manifest')
      BY DEF FrameOK, FileEnd
    <3>3. QED
      BY <2>1, <2>5, <3>1, <3>2, <1>4 DEF SendFileEnd, Send
  <2>6. CASE SendComplete
    <3>1. FrameOK(CompleteFrame, verified', manifest')
      BY <1>1, <2>6 DEF SendComplete, CompletionOK, FrameOK, CompleteFrame
    <3>2. QED
      BY <2>1, <2>6, <3>1, <1>4, NewFrames DEF SendComplete, Send
  <2>7. CASE SendPullError
    <3>1. FrameOK(PullErrorFrame, verified', manifest')
      BY DEF FrameOK, PullErrorFrame
    <3>2. QED
      BY <2>1, <2>7, <3>1, <1>4, NewFrames DEF SendPullError, Send
  <2>8. CASE Finish
    <3>1. FrameOK(EndOfStream, verified', manifest')
      BY DEF FrameOK, EndOfStream
    <3>2. QED
      BY <2>1, <2>8, <3>1, <1>4, NewFrames DEF Finish, Send
  <2>9. CASE Prepare \/ ScanEnds \/ ScanFails \/ Verify \/ VerifyFails
             \/ Acknowledged \/ ServerWriteFails \/ ServerCloses
    BY <2>1, <2>9, <1>3 DEF Prepare, ScanEnds, ScanFails, Verify, VerifyFails,
      Acknowledged, ServerWriteFails, ServerCloses, netVars
  <2>10. QED
    BY <1>5, <2>2, <2>3, <2>4, <2>5, <2>6, <2>7, <2>8, <2>9 DEF Server
<1>6. CASE Client
  <2>1. CASE DecodeFrame
    <3>1. /\ FrameOK(Head(inbox), verified', manifest')
          /\ AllOK(Tail(inbox), verified', manifest')
      BY <2>1, <1>1, <1>2, AllOKTail DEF DecodeFrame
    <3>2. Head(inbox) \in Frame
      BY <2>1, <1>1, HeadTailType DEF DecodeFrame
    <3>3. AllOK(Append(events, Head(inbox)), verified', manifest')
      BY <3>1, <3>2, <1>1, <1>2, AllOKAppend
    <3>4. QED
      BY <2>1, <3>1, <3>3, <1>2 DEF DecodeFrame, FramesOK
  <2>2. ASSUME NEW type, Take(type)
        PROVE  FramesOK'
    BY <2>2, <1>1, <1>2, AllOKTail DEF Take, FramesOK, netVars
  <2>3. CASE ReceiveManifest \/ ReceiveFileStart \/ ReceiveFileChunk
             \/ ReceiveFileEnd \/ ReceiveComplete \/ ReceivePullError
    BY <2>2, <2>3 DEF ReceiveManifest, ReceiveFileStart, ReceiveFileChunk,
      ReceiveFileEnd, ReceiveComplete, ReceivePullError
  <2>4. CASE ReceiveEndOfStream
    BY <2>4, <1>1, <1>2, AllOKTail DEF ReceiveEndOfStream, AtEndOfStream,
      FramesOK, readerVars
  <2>5. CASE RefuseFrame \/ InspectDestination \/ DestinationExists
             \/ CreateStage \/ ReceiveUnexpected \/ ClientReadFails \/ Publish
             \/ PublishRefused \/ RemoveStage \/ Report
    BY <2>5, <1>3 DEF RefuseFrame, InspectDestination, DestinationExists,
      CreateStage, ReceiveUnexpected, ClientReadFails, Publish,
      PublishRefused, RemoveStage, Report, ClientFails, netVars, readerVars
  <2>6. QED
    BY <1>6, <2>1, <2>3, <2>4, <2>5 DEF Client
<1>7. CASE Deliver
  <2>1. /\ FrameOK(Head(wire), verified', manifest')
        /\ AllOK(Tail(wire), verified', manifest')
    BY <1>7, <1>1, <1>2, AllOKTail DEF Deliver
  <2>2. Head(wire) \in Frame
    BY <1>7, <1>1, HeadTailType DEF Deliver
  <2>3. AllOK(Append(inbox, Head(wire)), verified', manifest')
    BY <2>1, <2>2, <1>1, <1>2, AllOKAppend
  <2>4. QED
    BY <1>7, <2>1, <2>3, <1>2 DEF Deliver, FramesOK, clientVars, readerVars
<1>8. CASE Environment
  BY <1>8, <1>3 DEF Environment, ConnectionLost, SourceChanges,
    SourceUnreadable, DestinationCreated, ServerInterrupted, ClientDeadline,
    ClientCrashes, LocalFailure, ClientFails, netVars, clientVars, readerVars
<1>9. CASE UNCHANGED vars
  BY <1>9, <1>3 DEF vars, netVars, clientVars, readerVars
<1>10. QED
  BY <1>5, <1>6, <1>7, <1>8, <1>9 DEF Next

\* What the client takes from its queue is sound.
LEMMA TakenOK ==
  ASSUME IInv, NEW type, Take(type)
  PROVE  FrameOK(Head(events), verified, manifest) /\ Head(events).type = type
BY AllOKTail DEF IInv, TypeInv, TypeOK, FramesOK, Take

\* The steps of the bridge and of the network do not touch the client.
LEMMA ClientUntouched ==
  ASSUME IInv, UNCHANGED clientVars, manifest' = manifest,
         verified => verified'
  PROVE  ClientInv'
<1>1. ClientInv
  BY DEF IInv
<1>2. PlanOK' /\ StagedOK' /\ OutcomeOK' /\ StageOK'
  BY <1>1 DEF ClientInv, PlanOK, StagedOK, Compared, OutcomeOK, StageOK,
    clientVars, readerVars
<1>3. PublishedIsVerified'
  BY <1>1 DEF ClientInv, PublishedIsVerified, Atomic!PlannedContent,
    clientVars, readerVars
<1>4. QED
  BY <1>2, <1>3 DEF ClientInv

\* Leaving before the publication, for any reason.
LEMMA LeavingOK ==
  ASSUME IInv, NEW why \in Causes \ {"none"}, Leave(why), cpc \notin Leaving,
         UNCHANGED <<stage, dest, result, manifest>>, verified => verified'
  PROVE  ClientInv'
<1>1. dest.state # "published" /\ result = "none"
  BY DEF IInv, ClientInv, OutcomeOK, Leaving
<1>2. cpc' \in {"unstage", "close"} /\ cause' = why
  BY DEF Leave
<1>3. PlanOK' /\ StagedOK'
  BY <1>2 DEF PlanOK, StagedOK
<1>4. OutcomeOK'
  BY <1>1, <1>2 DEF OutcomeOK, Leaving
<1>5. StageOK'
  BY <1>2 DEF StageOK, Leave
<1>6. PublishedIsVerified'
  BY <1>1 DEF PublishedIsVerified
<1>7. QED
  BY <1>3, <1>4, <1>5, <1>6 DEF ClientInv

\* A step of the client that leaves the destination and the verdict alone.
LEMMA WorkingOK ==
  ASSUME IInv, cpc \notin Leaving, cpc' \notin Leaving,
         UNCHANGED <<dest, cause, result, manifest>>, verified => verified'
  PROVE  PublishedIsVerified' /\ OutcomeOK' /\ StageOK'
BY DEF IInv, ClientInv, PublishedIsVerified, OutcomeOK, StageOK, Leaving

\* Whatever lies behind the complete frame happens after the verification.
LEMMA CompletionOKStep ==
  ASSUME IInv, [Next]_vars
  PROVE  CompletionOK'
<1>1. CompletionOK /\ (verified => verified')
  BY Stable DEF IInv, TypeInv
<1>2. ASSUME UNCHANGED <<cpc, plan>>, spc' = "complete" => spc = "complete" \/ verified'
      PROVE  CompletionOK'
  BY <1>1, <1>2 DEF CompletionOK
<1>3. ASSUME UNCHANGED <<spc, plan>>,
             cpc' \in {"end-of-stream", "publish"} => verified,
             cpc' \in {"inspect", "stage"} /\ plan = << >> => verified
      PROVE  CompletionOK'
  BY <1>1, <1>3 DEF CompletionOK
<1>4. ASSUME UNCHANGED <<spc, readerVars>>, cpc' \in Leaving
      PROVE  CompletionOK'
  BY <1>1, <1>4 DEF CompletionOK, Leaving
<1>5. CASE Server
  BY <1>5, <1>2 DEF Server, Prepare, SendManifest, SendFileStart, SendChunk,
    ScanEnds, ScanFails, SendFileEnd, GoToFile, Verify, VerifyFails,
    SendComplete, SendPullError, Finish, Acknowledged, ServerWriteFails,
    ServerCloses, serverVars, clientVars, readerVars
<1>6. CASE Client
  <2>1. CASE ReceiveManifest
    BY <2>1, <1>1 DEF ReceiveManifest, Take, CompletionOK, serverVars
  <2>2. CASE InspectDestination \/ CreateStage
    BY <2>2, <1>1, <1>3 DEF InspectDestination, CreateStage, CompletionOK,
      serverVars, readerVars
  <2>3. CASE ReceiveFileStart \/ ReceiveFileEnd
    BY <2>3, <1>3 DEF ReceiveFileStart, ReceiveFileEnd, AfterFileEnd, Leave,
      Take, serverVars
  <2>4. CASE ReceiveFileChunk
    BY <2>4, <1>3 DEF ReceiveFileChunk, Take, serverVars
  <2>5. CASE ReceiveComplete
    <3>1. verified
      BY <2>5, TakenOK DEF ReceiveComplete, FrameOK
    <3>2. QED
      BY <2>5, <3>1, <1>3 DEF ReceiveComplete, Take, serverVars
  <2>6. CASE ReceiveEndOfStream
    BY <2>6, <1>1, <1>3 DEF ReceiveEndOfStream, CompletionOK, Leave,
      serverVars, readerVars
  <2>7. CASE ReceivePullError
    BY <2>7, <1>3 DEF ReceivePullError, Take, Leave, serverVars
  <2>8. CASE DecodeFrame
    BY <2>8, <1>2 DEF DecodeFrame, serverVars
  <2>9. CASE RefuseFrame \/ DestinationExists \/ ReceiveUnexpected
             \/ ClientReadFails \/ Publish \/ PublishRefused \/ RemoveStage
             \/ Report
    BY <2>9, <1>4 DEF RefuseFrame, DestinationExists, ReceiveUnexpected,
      ClientReadFails, Publish, PublishRefused, RemoveStage, Report,
      ClientFails, Leave, Leaving, serverVars
  <2>10. QED
    BY <1>6, <2>1, <2>2, <2>3, <2>4, <2>5, <2>6, <2>7, <2>8, <2>9 DEF Client
<1>7. CASE ClientDeadline \/ ClientCrashes \/ LocalFailure
  <2>1. CASE cpc' = cpc
    BY <1>7, <2>1, <1>2 DEF ClientDeadline, ClientCrashes, LocalFailure,
      ClientFails, serverVars, readerVars
  <2>2. CASE cpc' # cpc
    BY <1>7, <2>2, <1>4 DEF ClientDeadline, ClientCrashes, LocalFailure,
      ClientFails, Leave, Leaving, serverVars
  <2>3. QED
    BY <2>1, <2>2
<1>8. CASE Deliver \/ ConnectionLost \/ SourceChanges \/ SourceUnreadable
           \/ DestinationCreated \/ ServerInterrupted
  BY <1>8, <1>2 DEF Deliver, ConnectionLost, SourceChanges, SourceUnreadable,
    DestinationCreated, ServerInterrupted, serverVars, clientVars, readerVars
<1>9. CASE UNCHANGED vars
  BY <1>9, <1>2 DEF vars, serverVars, clientVars, readerVars
<1>10. QED
  BY <1>5, <1>6, <1>7, <1>8, <1>9 DEF Next, Environment

\* A staged file that matches joins those that were compared before.
LEMMA ComparedExtends ==
  ASSUME staged \in Seq(Seq(Data)), Compared(Len(staged) - 1),
         StagedFileMatches
  PROVE  Compared(Len(staged))
<1>1. Len(staged) \in Nat
  OBVIOUS
<1>2. \A i \in 1..Len(staged) : i \in 1..(Len(staged) - 1) \/ i = Len(staged)
  BY <1>1
<1>3. QED
  BY <1>2 DEF StagedFileMatches, Compared

\* What is staged was compared, under the client's own steps.
LEMMA StagedStep ==
  ASSUME TypeOK, StagedOK, Client
  PROVE  StagedOK'
<1>1. plan \in Seq(Nat) /\ staged \in Seq(Seq(Data)) /\ Len(staged) \in Nat /\ Len(plan) \in Nat
  BY DEF TypeOK, Manifest
<1>2. CASE cpc' \in Leaving
  BY <1>2 DEF StagedOK, Leaving
<1>3. CASE DecodeFrame
  BY <1>3 DEF DecodeFrame, StagedOK, Compared
<1>4. CASE ReceiveManifest
  <2>1. /\ cpc' \in {"complete", "inspect"} /\ (cpc' = "complete" => plan' = << >>)
        /\ staged' = << >>
    BY <1>4 DEF ReceiveManifest, StagedOK
  <2>2. QED
    BY <2>1 DEF StagedOK, Compared
<1>5. CASE InspectDestination
  BY <1>5 DEF InspectDestination, StagedOK
<1>6. CASE CreateStage
  BY <1>1, <1>6 DEF CreateStage, StagedOK, Compared, readerVars
<1>7. CASE ReceiveFileStart
  <2>1. Len(staged') = Len(staged) + 1 /\ UNCHANGED plan
        /\ (\A i \in 1..Len(staged) : staged'[i] = staged[i])
    BY <1>1, <1>7 DEF ReceiveFileStart
  <2>2. Len(staged) < Len(plan) /\ Compared(Len(staged))
    BY <1>7 DEF ReceiveFileStart, StagedOK
  <2>3. Compared(Len(staged) - 1)'
    <3>1. plan' = plan /\ Len(staged') - 1 = Len(staged)
      BY <1>1, <2>1
    <3>2. \A i \in 1..Len(staged) : staged'[i] = [k \in 1..plan[i] |-> "planned"]
      BY <2>1, <2>2 DEF Compared
    <3>3. QED
      BY <3>1, <3>2 DEF Compared
  <2>4. QED
    BY <1>1, <1>7, <2>1, <2>2, <2>3 DEF ReceiveFileStart, StagedOK
<1>8. CASE ReceiveFileChunk
  <2>1. Len(staged') = Len(staged) /\ UNCHANGED <<plan, cpc>>
        /\ (\A i \in 1..(Len(staged) - 1) : staged'[i] = staged[i])
    BY <1>1, <1>8 DEF ReceiveFileChunk
  <2>2. Len(staged) \in 1..Len(plan) /\ Compared(Len(staged) - 1)
    BY <1>8 DEF ReceiveFileChunk, StagedOK
  <2>3. Compared(Len(staged) - 1)'
    BY <2>1, <2>2 DEF Compared
  <2>4. QED
    BY <1>8, <2>1, <2>2, <2>3 DEF ReceiveFileChunk, StagedOK
<1>9. CASE ReceiveFileEnd /\ cpc' \notin Leaving
  <2>1. Len(staged) \in 1..Len(plan) /\ Compared(Len(staged) - 1) /\ UNCHANGED <<staged, plan>>
    BY <1>9 DEF ReceiveFileEnd, StagedOK
  <2>2. cpc' = AfterFileEnd /\ (Len(staged) = Len(plan) \/ StagedFileMatches)
    BY <1>9 DEF ReceiveFileEnd, Leave, Leaving
  <2>3. StagedFileMatches => Compared(Len(staged))
    BY <1>1, <2>1, ComparedExtends
  <2>4. QED
    BY <1>1, <2>1, <2>2, <2>3 DEF AfterFileEnd, StagedOK, Compared
<1>10. CASE ReceiveComplete
  BY <1>10 DEF ReceiveComplete, StagedOK, Compared
<1>11. CASE ReceiveEndOfStream /\ cpc' \notin Leaving
  <2>1. /\ Len(staged) = Len(plan) /\ Compared(Len(staged) - 1)
        /\ UNCHANGED <<staged, plan>>
    BY <1>11 DEF ReceiveEndOfStream, StagedOK, readerVars
  <2>2. \/ plan = << >> /\ cpc' = "inspect"
        \/ StagedFileMatches /\ cpc' = "publish"
    BY <1>11 DEF ReceiveEndOfStream, Leave, Leaving
  <2>3. plan = << >> => staged = << >>
    BY <1>1, <2>1
  <2>4. StagedFileMatches => Compared(Len(staged))
    BY <1>1, <2>1, ComparedExtends
  <2>5. QED
    BY <2>1, <2>2, <2>3, <2>4 DEF StagedOK, Compared
<1>12. QED
  BY <1>2, <1>3, <1>4, <1>5, <1>6, <1>7, <1>8, <1>9, <1>10, <1>11
  DEF Client, RefuseFrame, DestinationExists, ReceivePullError, ReceiveUnexpected,
      ClientReadFails, Publish, PublishRefused, RemoveStage, Report, ClientFails, Leave, Leaving

\* What the client publishes is what it compared.
LEMMA PublishesPlan ==
  ASSUME TypeOK, StagedOK, Publish
  PROVE  dest'.state = "published" /\ dest'.files = Atomic!PlannedContent(plan)
<1>1. plan \in Seq(Nat) /\ staged \in Seq(Seq(Data))
  BY DEF TypeOK, Manifest
<1>2. Len(staged) = Len(plan) /\ Compared(Len(staged))
  BY DEF Publish, StagedOK
<1>3. staged = [i \in 1..Len(staged) |-> staged[i]]
  BY <1>1
<1>4. \A i \in 1..Len(plan) : staged[i] = [k \in 1..plan[i] |-> "planned"]
  BY <1>2 DEF Compared
<1>5. staged = Atomic!PlannedContent(plan)
  BY <1>2, <1>3, <1>4 DEF Atomic!PlannedContent
<1>6. QED
  BY <1>5 DEF Publish

\* The client's own steps keep ClientInv, one case for each.
LEMMA ClientInvClient ==
  ASSUME IInv, Client
  PROVE  ClientInv'
<1>1. /\ ClientInv /\ CompletionOK /\ TypeInv
      /\ manifest' = manifest /\ (verified => verified')
  BY Stable DEF IInv, TypeInv, Next
<1>2. StagedOK'
  BY <1>1, StagedStep DEF TypeInv, ClientInv
<1>3. ASSUME NEW why \in Causes \ {"none"}, ClientFails(why),
             cpc \notin Leaving
      PROVE  ClientInv'
  BY <1>1, <1>3, LeavingOK DEF ClientFails
<1>4. ASSUME cpc \notin Leaving, cpc' \notin Leaving,
             UNCHANGED <<dest, cause, result>>, PlanOK'
      PROVE  ClientInv'
  BY <1>1, <1>2, <1>4, WorkingOK DEF ClientInv
<1>5. CASE DecodeFrame
  BY <1>1, <1>2, <1>5 DEF DecodeFrame, ClientInv, PlanOK,
    PublishedIsVerified, Atomic!PlannedContent, OutcomeOK, StageOK, serverVars
<1>6. Reading => cpc \notin Leaving
  BY <1>1 DEF Reading, Expected, Leaving, TypeInv, TypeOK, ClientPositions
<1>7. CASE RefuseFrame \/ ReceiveUnexpected \/ ClientReadFails
  BY <1>3, <1>6, <1>7 DEF RefuseFrame, ReceiveUnexpected, ClientReadFails,
    Causes
<1>8. CASE DestinationExists \/ PublishRefused
  BY <1>3, <1>8 DEF DestinationExists, PublishRefused, Causes, Leaving
<1>9. CASE ReceiveManifest
  <2>1. plan' = manifest
    BY <1>9, TakenOK DEF ReceiveManifest, FrameOK
  <2>2. QED
    BY <1>1, <1>4, <1>9, <2>1 DEF ReceiveManifest, PlanOK, Leaving
<1>10. CASE InspectDestination \/ CreateStage
  <2>1. PlanOK'
    BY <1>1, <1>10 DEF InspectDestination, CreateStage, ClientInv, PlanOK, readerVars
  <2>2. QED
    BY <1>4, <1>10, <2>1 DEF InspectDestination, CreateStage, Leaving
<1>11. CASE ReceiveFileStart \/ ReceiveFileChunk \/ ReceiveComplete
  <2>1. PlanOK'
    BY <1>1, <1>11 DEF ReceiveFileStart, ReceiveFileChunk, ReceiveComplete, ClientInv, PlanOK
  <2>2. QED
    BY <1>4, <1>11, <2>1 DEF ReceiveFileStart, ReceiveFileChunk, ReceiveComplete, Leaving
<1>12. CASE ReceiveFileEnd
  <2>1. CASE cpc' = AfterFileEnd /\ UNCHANGED cause
    <3>1. PlanOK'
      BY <1>1, <1>12, <2>1 DEF ReceiveFileEnd, AfterFileEnd, ClientInv, PlanOK
    <3>2. QED
      BY <1>4, <1>12, <2>1, <3>1 DEF ReceiveFileEnd, AfterFileEnd, Leaving
  <2>2. CASE Leave("integrity")
    BY <1>1, <1>12, <2>2, LeavingOK DEF ReceiveFileEnd, Leaving, Causes, Take
  <2>3. QED
    BY <1>12, <2>1, <2>2 DEF ReceiveFileEnd
<1>13. CASE ReceiveEndOfStream
  <2>1. CASE cpc' \in {"inspect", "publish"} /\ UNCHANGED cause
    <3>1. PlanOK'
      BY <1>1, <1>13, <2>1 DEF ReceiveEndOfStream, ClientInv, PlanOK, readerVars
    <3>2. QED
      BY <1>4, <1>13, <2>1, <3>1 DEF ReceiveEndOfStream, Leaving
  <2>2. CASE Leave("integrity")
    BY <1>1, <1>13, <2>2, LeavingOK DEF ReceiveEndOfStream, Leaving, Causes
  <2>3. QED
    BY <1>13, <2>1, <2>2 DEF ReceiveEndOfStream
<1>14. CASE ReceivePullError
  BY <1>1, <1>6, <1>14, LeavingOK DEF ReceivePullError, Causes
<1>15. CASE Publish
  <2>1. plan = manifest /\ verified
    BY <1>1, <1>15 DEF Publish, ClientInv, PlanOK, CompletionOK
  <2>2. PublishedIsVerified'
    BY <1>1, <1>15, <2>1, PublishesPlan
    DEF PublishedIsVerified, Atomic!PlannedContent, TypeInv, ClientInv
  <2>3. PlanOK' /\ OutcomeOK' /\ StageOK'
    BY <1>1, <1>15 DEF Publish, PlanOK, ClientInv, OutcomeOK, StageOK, Leaving
  <2>4. QED
    BY <1>2, <2>2, <2>3 DEF ClientInv
<1>16. CASE RemoveStage
  BY <1>1, <1>2, <1>16 DEF RemoveStage, ClientInv, PlanOK, OutcomeOK,
    StageOK, PublishedIsVerified, Atomic!PlannedContent, Leaving
<1>17. CASE Report
  BY <1>1, <1>2, <1>17 DEF Report, ClientInv, PlanOK, OutcomeOK,
    StageOK, PublishedIsVerified, Atomic!PlannedContent, Leaving
<1>18. QED
  BY <1>5, <1>7, <1>8, <1>9, <1>10, <1>11, <1>12, <1>13, <1>14, <1>15, <1>16, <1>17 DEF Client

\* Every step keeps ClientInv.
LEMMA ClientInvStep ==
  ASSUME IInv, [Next]_vars
  PROVE  ClientInv'
<1>1. manifest' = manifest /\ (verified => verified') /\ ClientInv
  BY Stable DEF IInv, TypeInv
<1>2. CASE Client
  BY <1>2, ClientInvClient
<1>3. CASE Server
  <2>1. UNCHANGED clientVars
    BY <1>3 DEF Server, Prepare, SendManifest, SendFileStart, SendChunk,
      ScanEnds, ScanFails, SendFileEnd, Verify, VerifyFails, SendComplete,
      SendPullError, Finish, Acknowledged, ServerWriteFails, ServerCloses
  <2>2. QED
    BY <2>1, <1>1, ClientUntouched
<1>4. CASE Deliver \/ ConnectionLost \/ SourceChanges \/ SourceUnreadable
           \/ ServerInterrupted \/ UNCHANGED vars
  <2>1. UNCHANGED clientVars
    BY <1>4 DEF Deliver, ConnectionLost, SourceChanges, SourceUnreadable,
      ServerInterrupted, vars
  <2>2. QED
    BY <2>1, <1>1, ClientUntouched
<1>5. CASE DestinationCreated
  BY <1>5, <1>1 DEF DestinationCreated, ClientInv, PlanOK, StagedOK, Compared,
    OutcomeOK, StageOK, PublishedIsVerified, Absent, Foreign, readerVars
<1>6. CASE LocalFailure
  BY <1>6, <1>1, LeavingOK DEF LocalFailure, ClientFails, Causes, Leaving,
    sourceVars
<1>7. CASE ClientCrashes
  BY <1>7, <1>1 DEF ClientCrashes, ClientInv, PlanOK, StagedOK, OutcomeOK,
    StageOK, PublishedIsVerified, Atomic!PlannedContent, Leaving, readerVars
<1>8. CASE ClientDeadline
  <2>1. CASE cpc \notin Leaving /\ Leave("deadline")
    BY <1>8, <2>1, <1>1, LeavingOK DEF ClientDeadline, Causes, sourceVars
  <2>2. CASE cpc \in {"unstage", "close"} /\ cause' = "deadline" /\ cpc' = cpc
    BY <1>8, <2>2, <1>1 DEF ClientDeadline, ClientInv, PlanOK, StagedOK,
      OutcomeOK, StageOK, PublishedIsVerified, Atomic!PlannedContent, Leaving,
      readerVars
  <2>3. QED
    BY <1>8, <2>1, <2>2 DEF ClientDeadline, Leaving
<1>9. QED
  BY <1>2, <1>3, <1>4, <1>5, <1>6, <1>7, <1>8 DEF Next, Environment

\* IInv is inductive.
LEMMA IInvStep == IInv /\ [Next]_vars => IInv'
<1>1. TypeInv /\ [Next]_vars => TypeInv'
  BY TypeInvServer, TypeInvClient, TypeInvWorld, TypeInvStutters DEF Next
<1>2. QED
  BY <1>1, FramesOKStep, CompletionOKStep, ClientInvStep DEF IInv

\* The frames in flight, the bridge's position, the client's plan and what it
\* has staged stay related as IInv says, through every interleaving of
\* sendPullSource, the stream, materializePull and their interruptions.
THEOREM Invariance == Spec => []IInv
BY InitIInv, IInvStep, PTL DEF Spec

\* A destination the pull published is backed by a bridge that verified its
\* source after the last byte, and holds exactly the planned content
\* (writeEntry, makeRemoteRead, commitPath, sendPullSource).
THEOREM PublishedSafely == Spec => []PublishedIsVerified
<1>1. IInv => PublishedIsVerified
  BY DEF IInv, ClientInv
<1>2. QED
  BY Invariance, <1>1, PTL

\* A reported failure leaves no destination, unless a deadline struck after the
\* publication (materializePull's finalizers and withClientDeadline).
THEOREM FailsCleanly == Spec => []FailureLeavesNoDestination
<1>1. IInv => FailureLeavesNoDestination
  BY DEF IInv, ClientInv, OutcomeOK, FailureLeavesNoDestination
<1>2. QED
  BY Invariance, <1>1, PTL

\* Whatever the outcome, the stage was dealt with before it was reported
\* (materializePull's release).
THEOREM StageRemoved == Spec => []StageIsRemoved
<1>1. IInv => StageIsRemoved
  BY DEF IInv, TypeInv, TypeOK, ClientInv, OutcomeOK, StageOK, StageIsRemoved
<1>2. QED
  BY Invariance, <1>1, PTL

\* No step replaces a destination another program made (publishPathNoReplace).
THEOREM ForeignKept == Spec => NeverOverwrites
<1>1. [Next]_vars => [dest = Foreign => dest' = Foreign]_vars
  <2>1. SUFFICES ASSUME Next, dest = Foreign
                 PROVE  dest' = Foreign
    BY DEF vars
  <2>2. dest # Absent
    BY <2>1 DEF Absent, Foreign
  <2>3. CASE Client
    BY <2>1, <2>2, <2>3 DEF Client, DecodeFrame, RefuseFrame, ClientFails,
      ReceiveManifest, InspectDestination, DestinationExists, CreateStage,
      ReceiveFileStart, ReceiveFileChunk, ReceiveFileEnd, ReceiveComplete,
      ReceiveEndOfStream, ReceivePullError, ReceiveUnexpected,
      ClientReadFails, Publish, PublishRefused, RemoveStage, Report
  <2>4. CASE Server
    BY <2>1, <2>4 DEF Server, Prepare, SendManifest, SendFileStart, SendChunk,
      ScanEnds, ScanFails, SendFileEnd, Verify, VerifyFails, SendComplete,
      SendPullError, Finish, Acknowledged, ServerWriteFails, ServerCloses,
      clientVars
  <2>5. CASE Deliver \/ Environment
    BY <2>1, <2>5 DEF Deliver, Environment, ConnectionLost, SourceChanges,
      SourceUnreadable, DestinationCreated, ServerInterrupted,
      ClientDeadline, ClientCrashes, LocalFailure, ClientFails, clientVars
  <2>6. QED
    BY <2>1, <2>3, <2>4, <2>5 DEF Next
<1>2. QED
  BY <1>1, PTL DEF Spec, NeverOverwrites

(***************************************************************************)
(* The refinement: every step of the transfer is a step of AtomicPull or   *)
(* leaves its four variables alone.                                        *)
(***************************************************************************)
LEMMA RefineInit == Init => Atomic!Init
BY ManifestsAssumption DEF Init, Atomic!Init, Manifest, Atomic!Manifest,
  Absent, Foreign, Atomic!Absent, Atomic!Foreign

\* Every step of the pull is a step of AtomicPull, or changes nothing there.
LEMMA RefineStep ==
  ASSUME IInv, [Next]_vars
  PROVE  [Atomic!Next]_(Atomic!abstractVars)
<1> USE DEF Atomic!abstractVars
<1>1. TypeOK /\ OutcomeOK /\ PublishedIsVerified
  BY DEF IInv, TypeInv, ClientInv
<1>2. CASE Server
  <2>1. UNCHANGED <<manifest, dest, result>>
    BY <1>2 DEF Server, Prepare, SendManifest, SendFileStart, SendChunk,
      ScanEnds, ScanFails, SendFileEnd, Verify, VerifyFails, SendComplete,
      SendPullError, Finish, Acknowledged, ServerWriteFails, ServerCloses,
      clientVars, sourceVars
  <2>2. UNCHANGED verified \/ verified' = TRUE
    BY <1>2 DEF Server, Prepare, SendManifest, SendFileStart, SendChunk,
      ScanEnds, ScanFails, SendFileEnd, Verify, VerifyFails, SendComplete,
      SendPullError, Finish, Acknowledged, ServerWriteFails, ServerCloses,
      serverVars
  <2>3. QED
    BY <2>1, <2>2 DEF Atomic!Next, Atomic!VerifySource
<1>3. CASE Publish
  <2>1. verified /\ result = "none"
    BY <1>3, <1>1 DEF Publish, IInv, CompletionOK, OutcomeOK
  <2>2. dest' = [state |-> "published", files |-> Atomic!PlannedContent(manifest)]
    <3>1. ClientInv'
      BY ClientInvStep
    <3>2. dest'.files = Atomic!PlannedContent(manifest)
      BY <1>3, <3>1 DEF Publish, ClientInv, PublishedIsVerified, sourceVars,
        Atomic!PlannedContent
    <3>3. QED
      BY <1>3, <3>2 DEF Publish
  <2>3. QED
    BY <1>3, <2>1, <2>2 DEF Publish, Absent, Atomic!Absent, Atomic!Publish,
      Atomic!Next, sourceVars, serverVars
<1>4. CASE Report
  <2>1. result = "none" /\ (cause = "none" => dest.state = "published")
    BY <1>4, <1>1 DEF Report, OutcomeOK
  <2>2. QED
    BY <1>4, <2>1 DEF Report, Atomic!Succeed, Atomic!Fail, Atomic!Next,
      sourceVars, serverVars
<1>5. CASE Client /\ ~Publish /\ ~Report
  BY <1>5 DEF Client, DecodeFrame, RefuseFrame, ClientFails, Take,
    ReceiveManifest, InspectDestination, DestinationExists, CreateStage,
    ReceiveFileStart, ReceiveFileChunk, ReceiveFileEnd, ReceiveComplete,
    ReceiveEndOfStream, ReceivePullError, ReceiveUnexpected, ClientReadFails,
    PublishRefused, RemoveStage, sourceVars, serverVars
<1>6. CASE DestinationCreated
  BY <1>6 DEF DestinationCreated, Absent, Foreign, Atomic!Absent,
    Atomic!Foreign, Atomic!Interfere, Atomic!Next, sourceVars, serverVars
<1>7. CASE Deliver \/ ConnectionLost \/ SourceChanges \/ SourceUnreadable
           \/ ServerInterrupted \/ ClientDeadline \/ ClientCrashes
           \/ LocalFailure \/ UNCHANGED vars
  BY <1>7 DEF Deliver, ConnectionLost, SourceChanges, SourceUnreadable,
    ServerInterrupted, ClientDeadline, ClientCrashes, LocalFailure,
    ClientFails, vars, clientVars, sourceVars, serverVars
<1>8. QED
  BY <1>2, <1>3, <1>4, <1>5, <1>6, <1>7 DEF Next, Environment

\* The pull, with its staging, its stream and its interruptions, implements the
\* abstract promise: the destination appears whole, once, verified, and never
\* over somebody else's (AtomicPull).
THEOREM Refinement == Spec => ImplementsAtomicPull
<1>1. Spec => Atomic!Spec
  BY RefineInit, RefineStep, Invariance, PTL DEF Spec, Atomic!Spec
<1>2. QED
  BY <1>1 DEF ImplementsAtomicPull

-----------------------------------------------------------------------------
(***************************************************************************)
(* The two sides agree.  A cursor is a place in the one response there is  *)
(* for a manifest.  The client is at a cursor, its decoder at a later one, *)
(* what it has received leads to a third and what is in the stream to the  *)
(* fourth, which is the bridge's.                                          *)
(***************************************************************************)
\* Every set of natural numbers that is not empty has a least element: the
\* numbers below all of it would otherwise be as many as their successors,
\* which lack 0.
LEMMA Least ==
  ASSUME NEW T, T \subseteq Nat, T # {}
  PROVE  \E n \in T : \A m \in T : n <= m
<1> SUFFICES ASSUME \A n \in T : \E m \in T : m < n PROVE FALSE
  OBVIOUS
<1> DEFINE S == {j \in Nat : \A m \in T : j <= m}
           succ == [j \in S |-> j + 1]
<1>1. PICK k \in T : TRUE
  OBVIOUS
<1>2. S \in SUBSET Nat /\ k \in Nat /\ \A j \in S : j <= k
  BY <1>1
<1>3. IsFiniteSet(S)
  <2> HIDE DEF S
  <2> QED BY <1>2, FS_BoundedSetOfNaturals
<1>4. 0 \in S
  OBVIOUS
<1>5. \A j \in S : j + 1 \in S \ {0}
  OBVIOUS
<1>6. succ \in [S -> S \ {0}]
  BY <1>5
<1>7. /\ IsFiniteSet(S \ {0})
      /\ Cardinality(S \ {0}) = Cardinality(S) - 1
      /\ Cardinality(S) \in Nat
  BY <1>3, <1>4, FS_RemoveElement, FS_CardinalityType
<1>8. PICK i, j \in S : i # j /\ succ[i] = succ[j]
  <2> HIDE DEF S, succ
  <2>1. Cardinality(S \ {0}) < Cardinality(S)
    BY <1>7
  <2>2. QED
    BY <1>3, <1>6, <1>7, <2>1, FS_PigeonHole
<1>9. QED
  BY <1>8

\* The totals of addFileBytes, as the files come.
Sums(m) == CHOOSE g : g = [n \in 0..Len(m) |-> IF n = 0 THEN 0 ELSE g[n - 1] + m[n]]

\* There are such totals, and the last is the largest.
LEMMA SumsAre ==
  ASSUME NEW m \in Manifest
  PROVE  /\ Sums(m) \in [0..Len(m) -> Nat] /\ Sums(m)[0] = 0
         /\ \A n \in 1..Len(m) : Sums(m)[n] = Sums(m)[n - 1] + m[n]
         /\ TotalBytes(m) = Sums(m)[Len(m)]
         /\ \A n \in 0..Len(m) : Sums(m)[n] <= TotalBytes(m)
<1> DEFINE Totals(n, g) ==
             /\ g \in [0..n -> Nat] /\ g[0] = 0
             /\ \A k \in 1..n : g[k] = g[k - 1] + m[k]
           N == Len(m)
<1>1. N \in Nat /\ \A n \in 1..N : m[n] \in Nat
  BY DEF Manifest
<1>2. \A n \in 0..N : \E g : Totals(n, g)
  <2> DEFINE T == {n \in 0..N : ~\E g : Totals(n, g)}
  <2> SUFFICES ASSUME T # {} PROVE FALSE
    OBVIOUS
  <2>1. PICK n \in T : \A k \in T : n <= k
    <3>1. T \subseteq Nat
      BY <1>1
    <3> HIDE DEF T
    <3>2. QED
      BY <3>1, Least
  <2>2. Totals(0, [k \in 0..0 |-> 0])
    OBVIOUS
  <2>3. n \in 1..N /\ n - 1 \in 0..N /\ n - 1 \notin T
    <3>1. n # 0 /\ n \in 0..N
      BY <2>1, <2>2
    <3>2. n \in 1..N /\ n - 1 \in 0..N /\ ~(n <= n - 1)
      BY <1>1, <3>1
    <3>3. QED
      BY <2>1, <3>2
  <2>4. PICK g : Totals(n - 1, g)
    BY <2>3
  <2> DEFINE h == [k \in 0..n |-> IF k = n THEN g[n - 1] + m[n] ELSE g[k]]
  <2>5. g[n - 1] \in Nat /\ m[n] \in Nat
    BY <1>1, <2>3, <2>4
  <2>6. h \in [0..n -> Nat] /\ h[0] = 0
    BY <2>3, <2>4, <2>5
  <2>7. ASSUME NEW k \in 1..n PROVE h[k] = h[k - 1] + m[k]
    BY <2>3, <2>4, <2>7
  <2>8. Totals(n, h)
    BY <2>6, <2>7
  <2>9. QED
    BY <2>1, <2>8
<1>3. PICK g : Totals(N, g)
  <2>1. N \in 0..N
    BY <1>1
  <2>2. \E g : Totals(N, g)
    BY <1>2, <2>1
  <2>3. QED
    BY <2>2
<1>4. g = [n \in 0..N |-> IF n = 0 THEN 0 ELSE g[n - 1] + m[n]]
  BY <1>1, <1>3
<1> DEFINE s == Sums(m)
<1>5. s = [n \in 0..N |-> IF n = 0 THEN 0 ELSE s[n - 1] + m[n]]
  BY <1>4 DEF Sums
<1>6. TotalBytes(m) = s[N]
  BY DEF TotalBytes, Sums
<1> HIDE DEF s
<1>7. \A n \in 0..N : s[n] = g[n]
  <2> DEFINE T == {n \in 0..N : s[n] # g[n]}
  <2> SUFFICES ASSUME T # {} PROVE FALSE
    OBVIOUS
  <2>1. PICK n \in T : \A k \in T : n <= k
    <3>1. T \subseteq Nat
      BY <1>1
    <3> HIDE DEF T
    <3>2. QED
      BY <3>1, Least
  <2>2. n # 0
    BY <1>1, <1>3, <1>5, <2>1
  <2>3. n - 1 \in 0..N /\ n - 1 \notin T /\ n \in 1..N
    BY <1>1, <2>1, <2>2
  <2>4. s[n] = s[n - 1] + m[n] /\ g[n] = g[n - 1] + m[n]
    BY <1>3, <1>5, <2>3
  <2>5. QED
    BY <2>1, <2>3, <2>4
<1>8. s = g
  BY <1>3, <1>5, <1>7
<1>9. \A n \in 0..N : g[n] <= g[N]
  <2> DEFINE T == {j \in 0..N : ~(g[N - j] <= g[N])}
  <2>1. T = {}
    <3> SUFFICES ASSUME T # {} PROVE FALSE
      OBVIOUS
    <3>1. PICK j \in T : \A k \in T : j <= k
      <4>1. T \subseteq Nat
        BY <1>1
      <4> HIDE DEF T
      <4>2. QED
        BY <4>1, Least
    <3>2. g[N] \in Nat /\ N - 0 = N
      BY <1>1, <1>3
    <3>3. j # 0 /\ j \in 0..N
      BY <3>1, <3>2
    <3>4. j - 1 \in 0..N /\ j - 1 \notin T /\ N - j \in 0..N /\ N - (j - 1) \in 1..N
          /\ (N - (j - 1)) - 1 = N - j
      <4>1. /\ j - 1 \in 0..N /\ ~(j <= j - 1) /\ N - j \in 0..N /\ N - (j - 1) \in 1..N
            /\ (N - (j - 1)) - 1 = N - j
        BY <1>1, <3>3
      <4>2. QED
        BY <3>1, <4>1
    <3>5. g[N - (j - 1)] = g[N - j] + m[N - (j - 1)] /\ g[N - (j - 1)] <= g[N]
      BY <1>3, <3>4
    <3>6. g[N - j] \in Nat /\ m[N - (j - 1)] \in Nat /\ g[N - (j - 1)] \in Nat
      <4>1. N - (j - 1) \in 0..N
        BY <1>1, <3>4
      <4>2. QED
        BY <1>1, <1>3, <3>4, <4>1
    <3>7. g[N - j] <= g[N]
      BY <3>2, <3>5, <3>6
    <3>8. QED
      BY <3>1, <3>7
  <2>2. ASSUME NEW n \in 0..N PROVE g[n] <= g[N]
    <3>1. N - n \in 0..N /\ N - (N - n) = n
      BY <1>1, <2>2
    <3>2. N - n \notin T
      BY <2>1
    <3>3. QED
      BY <3>1, <3>2
  <2>3. QED
    BY <2>2
<1>10. QED
  BY <1>3, <1>6, <1>8, <1>9 DEF s

-----------------------------------------------------------------------------
(* Frames that lead from one place to another, one step for each.          *)
Path(places, steps, a, s, b) ==
  \E c \in [0..Len(s) -> places] :
    /\ c[0] = a /\ c[Len(s)] = b
    /\ \A k \in 1..Len(s) : <<c[k - 1], s[k], c[k]>> \in steps

\* No frames lead nowhere else.
LEMMA PathEmpty ==
  ASSUME NEW places, NEW steps, NEW a \in places
  PROVE  /\ Path(places, steps, a, << >>, a)
         /\ \A b : Path(places, steps, a, << >>, b) => a = b
<1>1. Path(places, steps, a, << >>, a)
  <2> DEFINE c == [k \in 0..0 |-> a]
  <2>1. c \in [0..Len(<< >>) -> places] /\ c[0] = a /\ c[Len(<< >>)] = a
    OBVIOUS
  <2>2. \A k \in 1..Len(<< >>) : <<c[k - 1], << >>[k], c[k]>> \in steps
    OBVIOUS
  <2>3. QED
    BY <2>1, <2>2 DEF Path
<1>2. ASSUME NEW b, Path(places, steps, a, << >>, b) PROVE a = b
  BY <1>2 DEF Path
<1>3. QED
  BY <1>1, <1>2

\* One more frame takes one more step.
LEMMA PathAppend ==
  ASSUME NEW places, NEW steps, NEW a, NEW b, NEW s \in Seq(Frame), Path(places, steps, a, s, b),
         NEW f \in Frame, NEW d \in places, <<b, f, d>> \in steps
  PROVE  Path(places, steps, a, Append(s, f), d)
<1>1. PICK c \in [0..Len(s) -> places] :
        /\ c[0] = a /\ c[Len(s)] = b
        /\ \A k \in 1..Len(s) : <<c[k - 1], s[k], c[k]>> \in steps
  BY DEF Path
<1> DEFINE t == Append(s, f)
           e == [k \in 0..Len(t) |-> IF k = Len(t) THEN d ELSE c[k]]
<1>2. /\ Len(s) \in Nat /\ Len(t) = Len(s) + 1 /\ t[Len(t)] = f
      /\ \A k \in 1..Len(s) : t[k] = s[k]
  OBVIOUS
<1> HIDE DEF t
<1>3. e \in [0..Len(t) -> places] /\ e[0] = a /\ e[Len(t)] = d
  BY <1>1, <1>2
<1>4. ASSUME NEW k \in 1..Len(t) PROVE <<e[k - 1], t[k], e[k]>> \in steps
  <2>1. CASE k = Len(t)
    <3>1. e[k - 1] = b /\ e[k] = d /\ t[k] = f
      BY <1>1, <1>2, <2>1
    <3>2. QED
      BY <3>1
  <2>2. CASE k # Len(t)
    <3>1. k \in 1..Len(s) /\ e[k - 1] = c[k - 1] /\ e[k] = c[k] /\ t[k] = s[k]
      BY <1>2, <1>4, <2>2
    <3>2. QED
      BY <1>1, <3>1
  <2>3. QED
    BY <2>1, <2>2
<1>5. Path(places, steps, a, t, d)
  <2> HIDE DEF e
  <2> QED BY <1>3, <1>4 DEF Path
<1>6. QED
  BY <1>5 DEF t

\* The first frame leads to where the others begin.
LEMMA PathHead ==
  ASSUME NEW places, NEW steps, NEW a, NEW b, NEW s \in Seq(Frame), s # << >>,
         Path(places, steps, a, s, b)
  PROVE  \E d \in places : <<a, Head(s), d>> \in steps /\ Path(places, steps, d, Tail(s), b)
<1>1. PICK c \in [0..Len(s) -> places] :
        /\ c[0] = a /\ c[Len(s)] = b
        /\ \A k \in 1..Len(s) : <<c[k - 1], s[k], c[k]>> \in steps
  BY DEF Path
<1> DEFINE t == Tail(s)
           e == [k \in 0..Len(t) |-> c[k + 1]]
<1>2. /\ Len(s) \in Nat \ {0} /\ Len(t) = Len(s) - 1 /\ Len(t) \in Nat /\ Head(s) = s[1]
      /\ \A k \in 1..Len(t) : t[k] = s[k + 1]
  OBVIOUS
<1> HIDE DEF t
<1>3. c[1] \in places /\ <<a, Head(s), c[1]>> \in steps
  <2>1. 1 \in 1..Len(s) /\ 1 \in 0..Len(s) /\ 1 - 1 = 0
    BY <1>2
  <2>2. QED
    BY <1>1, <1>2, <2>1
<1>4. e \in [0..Len(t) -> places] /\ e[0] = c[1] /\ e[Len(t)] = b
  BY <1>1, <1>2
<1>5. ASSUME NEW k \in 1..Len(t) PROVE <<e[k - 1], t[k], e[k]>> \in steps
  <2>1. k + 1 \in 1..Len(s) /\ (k + 1) - 1 = k /\ e[k - 1] = c[k] /\ e[k] = c[k + 1]
        /\ t[k] = s[k + 1]
    BY <1>2, <1>5
  <2>2. <<c[(k + 1) - 1], s[k + 1], c[k + 1]>> \in steps
    BY <1>1, <2>1
  <2>3. QED
    BY <2>1, <2>2
<1>6. Path(places, steps, c[1], t, b)
  <2> HIDE DEF e
  <2> QED BY <1>4, <1>5 DEF Path
<1>7. QED
  BY <1>3, <1>6 DEF t

\* Both ends of a path are places.
LEMMA PathEnds ==
  ASSUME NEW places, NEW steps, NEW a, NEW b, NEW s \in Seq(Frame), Path(places, steps, a, s, b)
  PROVE  a \in places /\ b \in places
BY DEF Path

-----------------------------------------------------------------------------
(* Cursors, and the frames that lead from one to another.                  *)
Cursor(at, i, o, data) == [at |-> at, file |-> i, offset |-> o, data |-> data]
Start == Cursor("manifest", 1, 0, "planned")
Between(i) == Cursor("between", i, 0, "planned")
Ended == Cursor("ended", 1, 0, "planned")
Over == Cursor("over", 1, 0, "planned")

Cursors(m) ==
  {c \in [at : {"manifest", "between", "file", "ended", "over"}, file : 1..(Len(m) + 1),
          offset : Nat, data : Data] :
     c.at = "file" => c.file <= Len(m) /\ c.offset <= m[c.file]}

\* A digest is sent only of a file whose scan read what was planned.
Leads(m, c, f, d) ==
  \/ c.at = "manifest" /\ f = ManifestFrame(m) /\ d = Between(1)
  \/ c.at = "between" /\ c.file <= Len(m) /\ f = FileStart(c.file, m[c.file])
       /\ d = Cursor("file", c.file, 0, "planned")
  \/ /\ c.at = "file" /\ c.offset < m[c.file]
     /\ \E data \in Data :
          /\ f = FileChunk(c.offset, data)
          /\ d = Cursor("file", c.file, c.offset + 1, IF data = "other" THEN "other" ELSE c.data)
  \/ c.at = "file" /\ c.offset = m[c.file] /\ c.data = "planned" /\ f = FileEnd(c.file)
       /\ d = Between(c.file + 1)
  \/ c.at = "between" /\ c.file = Len(m) + 1 /\ f = CompleteFrame /\ d = Ended
  \/ c.at \notin {"ended", "over"} /\ f = PullErrorFrame /\ d = Ended
  \/ c.at = "ended" /\ f = EndOfStream /\ d = Over

\* The frames s lead from a to b.
Response(m) == {t \in Cursors(m) \X Frame \X Cursors(m) : Leads(m, t[1], t[2], t[3])}
Chain(m, a, s, b) == Path(Cursors(m), Response(m), a, s, b)

\* No frames lead nowhere else.
LEMMA ChainEmpty ==
  ASSUME NEW m, NEW a \in Cursors(m)
  PROVE  /\ Chain(m, a, << >>, a)
         /\ \A b : Chain(m, a, << >>, b) => a = b
BY PathEmpty DEF Chain

\* What is sent leads on.
LEMMA ChainAppend ==
  ASSUME NEW m, NEW a, NEW b, NEW s \in Seq(Frame), Chain(m, a, s, b),
         NEW f \in Frame, NEW d \in Cursors(m), Leads(m, b, f, d)
  PROVE  Chain(m, a, Append(s, f), d)
<1>1. b \in Cursors(m)
  BY PathEnds DEF Chain
<1>2. <<b, f, d>> \in Response(m)
  BY <1>1 DEF Response
<1>3. QED
  BY <1>2, PathAppend DEF Chain

\* The first frame leads to where the others begin.
LEMMA ChainHead ==
  ASSUME NEW m, NEW a, NEW b, NEW s \in Seq(Frame), s # << >>, Chain(m, a, s, b)
  PROVE  \E d \in Cursors(m) : Leads(m, a, Head(s), d) /\ Chain(m, d, Tail(s), b)
<1>1. PICK d \in Cursors(m) :
        <<a, Head(s), d>> \in Response(m) /\ Path(Cursors(m), Response(m), d, Tail(s), b)
  BY PathHead DEF Chain
<1>2. QED
  BY <1>1 DEF Chain, Response

\* Both ends of a chain are cursors.
LEMMA ChainEnds ==
  ASSUME NEW m, NEW a, NEW b, NEW s \in Seq(Frame), Chain(m, a, s, b)
  PROVE  a \in Cursors(m) /\ b \in Cursors(m)
BY PathEnds DEF Chain

\* The cursors there are, and their parts.
LEMMA CursorsAre ==
  ASSUME NEW m \in Manifest
  PROVE  /\ Start \in Cursors(m) /\ Ended \in Cursors(m) /\ Over \in Cursors(m)
         /\ \A i \in 1..(Len(m) + 1) : Between(i) \in Cursors(m)
         /\ \A i \in 1..Len(m), o \in Nat, data \in Data :
              o <= m[i] => Cursor("file", i, o, data) \in Cursors(m)
         /\ Start.at = "manifest" /\ Ended.at = "ended" /\ Over.at = "over"
         /\ \A i : Between(i).at = "between" /\ Between(i).file = i
         /\ \A i, o, data : LET c == Cursor("file", i, o, data) IN
              c.at = "file" /\ c.file = i /\ c.offset = o /\ c.data = data
<1>1. Len(m) \in Nat /\ \A i \in 1..Len(m) : m[i] \in Nat
  BY DEF Manifest
<1>2. QED
  BY <1>1 DEF Cursors, Cursor, Start, Between, Ended, Over, Data

-----------------------------------------------------------------------------
(* Who is where.                                                           *)
ServerAt(z) ==
  /\ spc \in {"prepare", "manifest"} => z.at = "manifest"
  /\ spc = "file-start" =>
       z.at = "between" /\ z.file = sfile /\ soffset = 0 /\ scanned = "planned"
  /\ spc \in {"chunks", "file-end"} =>
       z.at = "file" /\ z.file = sfile /\ z.offset = soffset /\ z.data = scanned
  /\ spc = "file-end" => z.offset = manifest[sfile] /\ z.data = "planned"
  /\ spc \in {"verify", "complete"} => z.at = "between" /\ z.file = FileCount + 1
  /\ spc = "pull-error" => z.at \notin {"ended", "over"}
  /\ spc = "finish" => z.at = "ended"
  /\ spc \in {"ack", "done"} => z.at = "over"

DecoderAt(b) ==
  /\ b.at = "manifest" =>
       decoder.state = "manifest" /\ decoder.next = 0 /\ decoder.transferred = 0
  /\ b.at \in {"between", "file"} =>
       decoder.manifest = manifest /\ decoder.next = b.file - 1
  /\ b.at = "between" =>
       decoder.state = "between-files" /\ decoder.transferred = Sums(manifest)[b.file - 1]
  /\ b.at = "file" =>
       /\ decoder.state = "file" /\ decoder.received = b.offset
       /\ decoder.transferred = Sums(manifest)[b.file - 1] + b.offset
  /\ b.at \in {"ended", "over"} => decoder.state = "complete"

ClientAt(a) ==
  /\ cpc = "manifest" => a.at = "manifest"
  /\ cpc \in {"inspect", "stage"} => a.at = "between" /\ a.file = 1
  /\ cpc = "file" => a.at = "between" /\ a.file = Len(staged) + 1
  /\ cpc = "chunks" =>
       /\ a.at = "file" /\ a.file = Len(staged) /\ a.offset = Len(staged[Len(staged)])
       /\ a.data = "planned" => staged[Len(staged)] = [k \in 1..a.offset |-> "planned"]
  /\ cpc = "complete" => a.at = "between" /\ a.file = FileCount + 1
  /\ cpc = "end-of-stream" => a.at = "ended"
  /\ cpc \in {"complete", "end-of-stream"} /\ plan # << >> => StagedFileMatches

\* The client still follows the response.
Working ==
  \/ cpc \in {"manifest", "file", "chunks", "complete", "end-of-stream"}
  \/ cpc \in {"inspect", "stage"} /\ plan # << >>

Places == Cursors(manifest)
ClientEnd(a, b, r) ==
  /\ Chain(manifest, a, events, b) /\ Chain(manifest, b, inbox, r)
  /\ ClientAt(a) /\ DecoderAt(b)
ServerEnd(r, z) ==
  /\ Chain(manifest, r, wire, z)
  /\ conn = "open" \/ spc = "done" => ServerAt(z)
Talking ==
  \E r, z \in Places :
    /\ ServerEnd(r, z)
    /\ Working => \E a, b \in Places : ClientEnd(a, b, r)

SidesInv ==
  /\ Talking
  /\ spc = "done" => wire = << >>
  /\ cause = "read" => conn = "closed"
  /\ SidesAgree

\* Where the response begins, everybody is at its start.
LEMMA InitSides == Init => SidesInv
<1> SUFFICES ASSUME Init PROVE SidesInv
  OBVIOUS
<1>1. manifest \in Manifest
  BY ManifestsAssumption DEF Init
<1>2. Start \in Places /\ Start.at = "manifest"
  BY <1>1, CursorsAre DEF Places
<1>3. Chain(manifest, Start, << >>, Start)
  BY <1>2, ChainEmpty DEF Places
<1>4. ServerEnd(Start, Start)
  BY <1>2, <1>3 DEF Init, ServerEnd, ServerAt
<1>5. ClientEnd(Start, Start, Start)
  BY <1>2, <1>3 DEF Init, ClientEnd, ClientAt, DecoderAt, NewDecoder
<1>6. Talking
  BY <1>2, <1>4, <1>5 DEF Talking
<1>7. QED
  BY <1>6 DEF Init, SidesInv, SidesAgree

\* What the bridge does next, when its stream is open.
LEMMA ServerSends ==
  ASSUME IInv, NEW r \in Places, NEW z \in Places, ServerEnd(r, z), conn = "open",
         NEW f \in Frame, Send(f), UNCHANGED manifest,
         NEW d \in Places, Leads(manifest, z, f, d), ServerAt(d)'
  PROVE  ServerEnd(r, d)'
<1>1. wire \in Seq(Frame) /\ wire' = Append(wire, f) /\ conn' = conn
  BY DEF IInv, TypeInv, TypeOK, Send
<1>2. Chain(manifest, r, wire', d)
  BY <1>1, ChainAppend DEF ServerEnd, Places
<1>3. QED
  BY <1>1, <1>2 DEF ServerEnd

\* Each frame is the one its place calls for.
LEMMA ServerStep ==
  ASSUME IInv, Server, conn = "open", conn' = "open",
         NEW r \in Places, NEW z \in Places, ServerEnd(r, z)
  PROVE  \E d \in Places : ServerEnd(r, d)'
<1>1. ServerAt(z)
  BY DEF ServerEnd
<1>2. /\ manifest \in Manifest /\ manifest \in Seq(Nat) /\ FileCount = Len(manifest)
      /\ FileCount \in Nat /\ sfile \in 1..(FileCount + 1) /\ soffset \in Nat /\ scanned \in Data
      /\ spc \in {"file-start", "chunks", "file-end"} =>
           sfile \in 1..FileCount /\ manifest[sfile] \in Nat /\ soffset <= manifest[sfile]
  BY ManifestsAssumption DEF IInv, TypeInv, TypeOK, CursorOK, FileCount, Manifest
<1>3. manifest' = manifest
  BY DEF Server, Prepare, SendManifest, SendFileStart, SendChunk, ScanEnds, ScanFails,
     SendFileEnd, Verify, VerifyFails, SendComplete, SendPullError, Finish, Acknowledged,
     ServerWriteFails, ServerCloses, sourceVars
<1>4. ASSUME NEW f \in Frame, Send(f), NEW d \in Places, Leads(manifest, z, f, d), ServerAt(d)'
      PROVE  ServerEnd(r, d)'
  BY <1>3, <1>4, ServerSends
<1>5. ASSUME UNCHANGED wire, ServerAt(z)'
      PROVE  ServerEnd(r, z)'
  BY <1>3, <1>5 DEF ServerEnd
<1>6. \A i \in 1..(FileCount + 1) :
        UNCHANGED manifest /\ GoToFile(i) => Between(i) \in Places /\ ServerAt(Between(i))'
  <2> SUFFICES ASSUME NEW i \in 1..(FileCount + 1), UNCHANGED manifest, GoToFile(i)
               PROVE  Between(i) \in Places /\ ServerAt(Between(i))'
    OBVIOUS
  <2>1. Between(i) \in Places /\ Between(i).at = "between" /\ Between(i).file = i
    BY <1>2, CursorsAre DEF Places
  <2>2. ~(i <= FileCount) => i = FileCount + 1
    BY <1>2
  <2>3. QED
    BY <2>1, <2>2 DEF GoToFile, ServerAt, FileCount
<1>7. CASE Prepare
  BY <1>1, <1>5, <1>7 DEF Prepare, ServerAt, netVars
<1>8. CASE SendManifest
  <2>1. Leads(manifest, z, ManifestFrame(manifest), Between(1)) /\ ManifestFrame(manifest) \in Frame
    BY <1>1, <1>2, <1>8, NewFrames DEF SendManifest, ServerAt, Leads
  <2>2. 1 \in 1..(FileCount + 1)
    BY <1>2
  <2>3. QED
    BY <1>3, <1>4, <1>6, <1>8, <2>1, <2>2 DEF SendManifest
<1>9. CASE SendFileStart
  <2> DEFINE f == FileStart(sfile, manifest[sfile])
  <2> PICK d : d = Cursor("file", sfile, 0, "planned")
    OBVIOUS
  <2>1. f \in Frame /\ Leads(manifest, z, f, d)
    BY <1>1, <1>2, <1>9, NewFrames DEF SendFileStart, ServerAt, Leads
  <2>2. sfile \in 1..FileCount /\ 0 <= manifest[sfile]
    BY <1>2, <1>9 DEF SendFileStart
  <2>3. d \in Places /\ d.at = "file" /\ d.file = sfile /\ d.offset = 0 /\ d.data = "planned"
    BY <1>2, <2>2, CursorsAre DEF Places, Data
  <2>4. soffset = 0 /\ scanned = "planned"
    BY <1>1, <1>9 DEF SendFileStart, ServerAt
  <2>5. ServerAt(d)'
    BY <1>3, <1>9, <2>3, <2>4 DEF SendFileStart, ServerAt
  <2>6. QED
    BY <1>4, <1>9, <2>1, <2>3, <2>5 DEF SendFileStart
<1>10. CASE SendChunk
  <2>1. PICK data \in Data :
          /\ Send(FileChunk(soffset, data))
          /\ scanned' = IF data = "other" THEN "other" ELSE scanned
    BY <1>10 DEF SendChunk
  <2> PICK d : d = Cursor("file", sfile, soffset + 1, scanned')
    OBVIOUS
  <2>2. FileChunk(soffset, data) \in Frame /\ Leads(manifest, z, FileChunk(soffset, data), d)
    BY <1>1, <1>2, <1>10, <2>1, NewFrames DEF SendChunk, ServerAt, Leads
  <2>3. sfile \in 1..FileCount /\ soffset + 1 \in Nat /\ soffset + 1 <= manifest[sfile] /\ scanned' \in Data
    BY <1>2, <1>10, <2>1 DEF SendChunk, Data
  <2>4. d \in Places /\ d.at = "file" /\ d.file = sfile /\ d.offset = soffset + 1 /\ d.data = scanned'
    BY <1>2, <2>3, CursorsAre DEF Places
  <2>5. ServerAt(d)'
    BY <1>3, <1>10, <2>4 DEF SendChunk, ServerAt
  <2>6. QED
    BY <1>4, <2>1, <2>2, <2>4, <2>5
<1>11. CASE ScanEnds
  BY <1>1, <1>3, <1>5, <1>11 DEF ScanEnds, ServerAt, netVars
<1>12. CASE ScanFails \/ VerifyFails
  BY <1>1, <1>3, <1>5, <1>12 DEF ScanFails, VerifyFails, ServerAt, netVars
<1>13. CASE SendFileEnd
  <2>1. FileEnd(sfile) \in Frame /\ Leads(manifest, z, FileEnd(sfile), Between(sfile + 1))
    BY <1>1, <1>2, <1>13, NewFrames DEF SendFileEnd, ServerAt, Leads
  <2>2. sfile + 1 \in 1..(FileCount + 1)
    BY <1>2, <1>13 DEF SendFileEnd
  <2>3. QED
    BY <1>3, <1>4, <1>6, <1>13, <2>1, <2>2 DEF SendFileEnd
<1>14. CASE Verify
  BY <1>1, <1>3, <1>5, <1>14 DEF Verify, ServerAt, FileCount, netVars
<1>15. CASE SendComplete
  <2>1. CompleteFrame \in Frame /\ Leads(manifest, z, CompleteFrame, Ended)
    BY <1>1, <1>2, <1>15, NewFrames DEF SendComplete, ServerAt, Leads
  <2>2. Ended \in Places /\ ServerAt(Ended)'
    BY <1>2, <1>15, CursorsAre DEF SendComplete, ServerAt, Places
  <2>3. QED
    BY <1>4, <1>15, <2>1, <2>2 DEF SendComplete
<1>16. CASE SendPullError
  <2>1. PullErrorFrame \in Frame /\ Leads(manifest, z, PullErrorFrame, Ended)
    BY <1>1, <1>16, NewFrames DEF SendPullError, ServerAt, Leads
  <2>2. Ended \in Places /\ ServerAt(Ended)'
    BY <1>2, <1>16, CursorsAre DEF SendPullError, ServerAt, Places
  <2>3. QED
    BY <1>4, <1>16, <2>1, <2>2 DEF SendPullError
<1>17. CASE Finish
  <2>1. EndOfStream \in Frame /\ Leads(manifest, z, EndOfStream, Over)
    BY <1>1, <1>17, NewFrames DEF Finish, ServerAt, Leads
  <2>2. Over \in Places /\ ServerAt(Over)'
    BY <1>2, <1>17, CursorsAre DEF Finish, ServerAt, Places
  <2>3. QED
    BY <1>4, <1>17, <2>1, <2>2 DEF Finish
<1>18. CASE Acknowledged
  BY <1>1, <1>5, <1>18 DEF Acknowledged, ServerAt, netVars
<1>19. CASE ServerWriteFails \/ ServerCloses
  BY <1>19 DEF ServerWriteFails, ServerCloses
<1>20. QED
  BY <1>7, <1>8, <1>9, <1>10, <1>11, <1>12, <1>13, <1>14, <1>15, <1>16, <1>17, <1>18, <1>19
     DEF Server

\* Who does not move is where he was.
LEMMA SidesStay ==
  ASSUME UNCHANGED manifest, NEW a, NEW b, NEW r, NEW z
  PROVE  /\ UNCHANGED <<events, inbox, decoder, cpc, plan, staged>> /\ ClientEnd(a, b, r)
              => ClientEnd(a, b, r)'
         /\ UNCHANGED <<conn, wire, serverVars>> /\ ServerEnd(r, z) => ServerEnd(r, z)'
         /\ UNCHANGED <<cpc, plan>> => Working' = Working
<1>1. ASSUME UNCHANGED <<events, inbox, decoder, cpc, plan, staged>>, ClientEnd(a, b, r)
      PROVE  ClientEnd(a, b, r)'
  BY <1>1 DEF ClientEnd, ClientAt, DecoderAt, FileCount, StagedFileMatches
<1>2. ASSUME UNCHANGED <<conn, wire, serverVars>>, ServerEnd(r, z)
      PROVE  ServerEnd(r, z)'
  BY <1>2 DEF ServerEnd, ServerAt, FileCount, serverVars
<1>3. ASSUME UNCHANGED <<cpc, plan>> PROVE Working' = Working
  BY <1>3 DEF Working
<1>4. QED
  BY <1>1, <1>2, <1>3

\* When the connection is lost, what had been received is all there will be; a
\* bridge that was done had nothing left in the stream.
LEMMA Closed ==
  ASSUME IInv, SidesInv, conn' = "closed", wire' = << >>, UNCHANGED manifest,
         spc' = "done" => spc = "done",
         Working' => Working /\ UNCHANGED <<events, inbox, decoder, cpc, plan, staged>>
  PROVE  Talking' /\ (spc' = "done" => wire' = << >>)
<1>1. PICK r \in Places, z \in Places :
        ServerEnd(r, z) /\ (Working => \E a, b \in Places : ClientEnd(a, b, r))
  BY DEF SidesInv, Talking
<1>2. spc = "done" => r = z /\ ServerAt(z)
  BY <1>1, ChainEmpty DEF SidesInv, ServerEnd, Places
<1>3. ServerEnd(r, r)'
  BY <1>1, <1>2, ChainEmpty DEF ServerEnd, ServerAt, Places
<1>4. Working' => \E a, b \in Places : ClientEnd(a, b, r)'
  BY <1>1, SidesStay
<1>5. QED
  BY <1>1, <1>3, <1>4 DEF Talking, Places

\* The bridge's steps.
LEMMA ServerSides == IInv /\ SidesInv /\ Server => SidesInv'
<1> SUFFICES ASSUME IInv, SidesInv, Server PROVE SidesInv'
  OBVIOUS
<1>1. /\ UNCHANGED manifest /\ UNCHANGED <<inbox, events, decoder, cpc, plan, staged, cause>>
      /\ conn' = conn \/ ServerCloses
  BY DEF Server, Prepare, SendManifest, SendFileStart, SendChunk, ScanEnds, ScanFails,
     SendFileEnd, Verify, VerifyFails, SendComplete, SendPullError, Finish, Acknowledged,
     ServerWriteFails, ServerCloses, sourceVars, netVars, clientVars, readerVars, Send
<1>2. conn \in {"open", "closed"}
  BY DEF IInv, TypeInv, TypeOK
<1>3. PICK r \in Places, z \in Places :
        ServerEnd(r, z) /\ (Working => \E a, b \in Places : ClientEnd(a, b, r))
  BY DEF SidesInv, Talking
<1>4. Working' => \E a, b \in Places : ClientEnd(a, b, r)'
  BY <1>1, <1>3, SidesStay
<1>5. CASE conn = "open" /\ conn' = "open"
  <2>1. PICK d \in Places : ServerEnd(r, d)'
    BY <1>3, <1>5, ServerStep
  <2>2. Talking'
    BY <1>1, <1>4, <2>1 DEF Talking, Places
  <2>3. spc' = "done" => wire' = << >>
    BY <1>5 DEF Server, Prepare, SendManifest, SendFileStart, SendChunk, ScanEnds, ScanFails,
       SendFileEnd, Verify, VerifyFails, SendComplete, SendPullError, Finish, Acknowledged,
       ServerWriteFails, ServerCloses, netVars, GoToFile
  <2>4. cause' # "read"
    BY <1>1, <1>5 DEF SidesInv
  <2>5. QED
    BY <1>1, <2>2, <2>3, <2>4 DEF SidesInv, SidesAgree
<1>6. CASE conn = "closed"
  <2>1. UNCHANGED <<wire, conn>> /\ spc' # "done"
    BY <1>6 DEF Server, Prepare, SendManifest, SendFileStart, SendChunk, ScanEnds, ScanFails,
       SendFileEnd, Verify, VerifyFails, SendComplete, SendPullError, Finish, Acknowledged,
       ServerWriteFails, ServerCloses, netVars, Send
  <2>2. ServerEnd(r, z)'
    BY <1>1, <1>3, <1>6, <2>1 DEF ServerEnd
  <2>3. Talking'
    BY <1>1, <1>4, <2>2 DEF Talking, Places
  <2>4. QED
    BY <1>1, <2>1, <2>3 DEF SidesInv, SidesAgree
<1>7. CASE ServerCloses
  <2>1. conn' = "closed" /\ wire' = << >> /\ spc' = spc
    BY <1>7 DEF ServerCloses, serverVars
  <2>2. Talking'
    BY <1>1, <2>1, SidesStay, Closed
  <2>3. QED
    BY <1>1, <2>1, <2>2 DEF SidesInv, SidesAgree
<1>8. QED
  BY <1>1, <1>2, <1>5, <1>6, <1>7

-----------------------------------------------------------------------------
(* The client's steps.                                                     *)
\* A step of the client that leaves the network and the bridge alone.
LEMMA ClientKeeps ==
  ASSUME SidesInv, UNCHANGED <<spc, wire, conn>>, Talking',
         cause' \in Causes \ {"invalid", "incomplete", "integrity"},
         cause' = "read" /\ cause # "read" => conn = "closed" /\ spc # "done"
  PROVE  SidesInv'
BY DEF SidesInv, SidesAgree

\* The client gives up following.
LEMMA ClientLeaves ==
  ASSUME IInv, SidesInv, UNCHANGED <<manifest, wire, conn, serverVars>>, ~Working'
  PROVE  Talking'
<1>1. PICK r \in Places, z \in Places : ServerEnd(r, z)
  BY DEF SidesInv, Talking
<1>2. ServerEnd(r, z)'
  BY <1>1, SidesStay
<1>3. QED
  BY <1>1, <1>2 DEF Talking, Places

\* The client goes on from one place to another.
LEMMA ClientFollows ==
  ASSUME IInv, SidesInv, UNCHANGED <<manifest, wire, conn, serverVars>>,
         Working' => Working /\ \A a, b, r \in Places :
           ClientEnd(a, b, r) => \E c, d \in Places : ClientEnd(c, d, r)'
  PROVE  Talking'
<1>1. PICK r \in Places, z \in Places :
        ServerEnd(r, z) /\ (Working => \E a, b \in Places : ClientEnd(a, b, r))
  BY DEF SidesInv, Talking
<1>2. ServerEnd(r, z)'
  BY <1>1, SidesStay
<1>3. Working' => \E c, d \in Places : ClientEnd(c, d, r)'
  BY <1>1
<1>4. QED
  BY <1>1, <1>2, <1>3 DEF Talking, Places

\* What the bridge and the client know when the client looks at the stream.
LEMMA Followed ==
  ASSUME IInv, SidesInv, Working
  PROVE  \E a, b, r, z \in Places : ClientEnd(a, b, r) /\ ServerEnd(r, z)
BY DEF SidesInv, Talking

\* The client reads where it waits for an event.
LEMMA ReadingIs ==
  ASSUME IInv
  PROVE  /\ Reading <=> cpc \in {"manifest", "file", "chunks", "complete", "end-of-stream"}
         /\ cpc = "manifest" => Expected(cpc) = {"manifest"}
         /\ cpc = "file" => Expected(cpc) = {"file-start"}
         /\ cpc = "chunks" => Expected(cpc) = {"file-chunk", "file-end"}
         /\ cpc = "complete" => Expected(cpc) = {"complete"}
         /\ cpc = "end-of-stream" => Expected(cpc) = {"end-of-stream"}
<1>1. cpc \in ClientPositions
  BY DEF IInv, TypeInv, TypeOK
<1>2. QED
  BY <1>1 DEF Reading, Expected, ClientPositions

\* The decoder accepts what comes at its place, and moves on with it: the bytes of
\* a response are the planner's, and they were within the limit.
LEMMA DecoderTakes ==
  ASSUME IInv, NEW b \in Places, NEW f, NEW d \in Places, Leads(manifest, b, f, d),
         f # EndOfStream, DecoderAt(b)
  PROVE  /\ Accepts(decoder, f)
         /\ UNCHANGED manifest /\ decoder' = Consume(decoder, f) => DecoderAt(d)'
<1>1. /\ manifest \in Manifest /\ FileCount = Len(manifest) /\ FileCount \in Nat
      /\ \A i \in 1..FileCount : manifest[i] \in Nat
      /\ decoder \in DecoderState
  BY ManifestsAssumption DEF IInv, TypeInv, TypeOK, FileCount, Manifest
<1>2. /\ b.file \in 1..(FileCount + 1) /\ b.offset \in Nat /\ b.data \in Data
      /\ b.at = "file" => b.file \in 1..FileCount /\ b.offset <= manifest[b.file]
  BY <1>1 DEF Places, Cursors
<1> DEFINE s == Sums(manifest)
<1>3. /\ s \in [0..FileCount -> Nat] /\ s[0] = 0
      /\ \A n \in 1..FileCount : s[n] = s[n - 1] + manifest[n]
      /\ TotalBytes(manifest) = s[FileCount]
      /\ \A n \in 0..FileCount : s[n] <= MaxTransfer
  <2>1. TotalBytes(manifest) <= MaxTransfer /\ MaxTransfer \in Nat
    BY TransferAssumption, MaxTransferAssumption DEF IInv, TypeInv, TypeOK
  <2>2. /\ s \in [0..FileCount -> Nat] /\ s[0] = 0
        /\ \A n \in 1..FileCount : s[n] = s[n - 1] + manifest[n]
        /\ TotalBytes(manifest) = s[FileCount]
        /\ \A n \in 0..FileCount : s[n] <= TotalBytes(manifest)
    BY <1>1, SumsAre
  <2>3. FileCount \in 0..FileCount /\ s[FileCount] \in Nat
    BY <1>1, <2>2
  <2>4. QED
    BY <2>1, <2>2, <2>3
<1> HIDE DEF s
<1>4. DecoderAt(b) <=>
        /\ b.at = "manifest" =>
             decoder.state = "manifest" /\ decoder.next = 0 /\ decoder.transferred = 0
        /\ b.at \in {"between", "file"} => decoder.manifest = manifest /\ decoder.next = b.file - 1
        /\ b.at = "between" => decoder.state = "between-files" /\ decoder.transferred = s[b.file - 1]
        /\ b.at = "file" =>
             /\ decoder.state = "file" /\ decoder.received = b.offset
             /\ decoder.transferred = s[b.file - 1] + b.offset
        /\ b.at \in {"ended", "over"} => decoder.state = "complete"
  BY DEF DecoderAt, s
<1>5. UNCHANGED manifest =>
        (DecoderAt(d)' <=>
          /\ d.at = "manifest" =>
               decoder'.state = "manifest" /\ decoder'.next = 0 /\ decoder'.transferred = 0
          /\ d.at \in {"between", "file"} => decoder'.manifest = manifest /\ decoder'.next = d.file - 1
          /\ d.at = "between" => decoder'.state = "between-files" /\ decoder'.transferred = s[d.file - 1]
          /\ d.at = "file" =>
               /\ decoder'.state = "file" /\ decoder'.received = d.offset
               /\ decoder'.transferred = s[d.file - 1] + d.offset
          /\ d.at \in {"ended", "over"} => decoder'.state = "complete")
  BY DEF DecoderAt, s
<1>6. CASE b.at = "manifest" /\ f = ManifestFrame(manifest) /\ d = Between(1)
  <2>1. d.at = "between" /\ d.file = 1 /\ 1 - 1 = 0
    BY <1>6 DEF Between, Cursor
  <2>2. f.type = "manifest" /\ f.manifest = manifest
    BY <1>6 DEF ManifestFrame
  <2>3. Accepts(decoder, f)
    BY <1>4, <1>6, <2>2 DEF Accepts, AcceptsManifest
  <2>4. Consume(decoder, f) = [decoder EXCEPT !.state = "between-files", !.manifest = f.manifest]
    BY <2>2 DEF Consume
  <2>5. decoder' = Consume(decoder, f) =>
          /\ decoder'.state = "between-files" /\ decoder'.manifest = manifest
          /\ decoder'.next = 0 /\ decoder'.transferred = 0
    BY <1>1, <1>4, <1>6, <2>2, <2>4 DEF DecoderState
  <2>6. d.file - 1 = 0 /\ s[d.file - 1] = 0
    BY <1>3, <2>1
  <2>7. QED
    BY <1>5, <2>1, <2>3, <2>5, <2>6
<1>7. CASE /\ b.at = "between" /\ b.file <= Len(manifest) /\ f = FileStart(b.file, manifest[b.file])
           /\ d = Cursor("file", b.file, 0, "planned")
  <2>1. d.at = "file" /\ d.file = b.file /\ d.offset = 0
    BY <1>7 DEF Cursor
  <2>2. f.type = "file-start" /\ f.file = b.file /\ f.size = manifest[b.file]
    BY <1>7 DEF FileStart
  <2>3. Accepts(decoder, f)
    <3>1. decoder.next + 1 = b.file /\ decoder.next < Len(decoder.manifest)
      BY <1>1, <1>2, <1>4, <1>7
    <3>2. QED
      BY <1>4, <1>7, <2>2, <3>1 DEF Accepts, AcceptsFileStart
  <2>4. Consume(decoder, f) = [decoder EXCEPT !.state = "file", !.received = 0]
    BY <2>2 DEF Consume
  <2>5. b.file - 1 \in 0..FileCount /\ s[b.file - 1] + 0 = s[b.file - 1]
    BY <1>1, <1>2, <1>3
  <2>6. decoder' = Consume(decoder, f) =>
          /\ decoder'.state = "file" /\ decoder'.manifest = manifest /\ decoder'.received = 0
          /\ decoder'.next = b.file - 1 /\ decoder'.transferred = s[b.file - 1]
    BY <1>1, <1>4, <1>7, <2>4 DEF DecoderState
  <2>7. QED
    BY <1>5, <2>1, <2>3, <2>5, <2>6
<1>8. CASE /\ b.at = "file" /\ b.offset < manifest[b.file]
           /\ \E data \in Data :
                /\ f = FileChunk(b.offset, data)
                /\ d = Cursor("file", b.file, b.offset + 1, IF data = "other" THEN "other" ELSE b.data)
  <2>1. d.at = "file" /\ d.file = b.file /\ d.offset = b.offset + 1
    BY <1>8 DEF Cursor
  <2>2. f.type = "file-chunk" /\ f.offset = b.offset
    BY <1>8 DEF FileChunk
  <2>3. /\ s[b.file - 1] \in Nat /\ s[b.file] \in Nat /\ manifest[b.file] \in Nat /\ MaxTransfer \in Nat
        /\ s[b.file] = s[b.file - 1] + manifest[b.file] /\ s[b.file] <= MaxTransfer
    <3>1. b.file \in 1..FileCount /\ b.file \in 0..FileCount /\ b.file - 1 \in 0..FileCount
      BY <1>1, <1>2, <1>8
    <3>2. QED
      BY <1>1, <1>3, <3>1, MaxTransferAssumption
  <2>4. (s[b.file - 1] + b.offset) + 1 <= MaxTransfer
        /\ (s[b.file - 1] + b.offset) + 1 = s[b.file - 1] + (b.offset + 1)
        /\ b.offset + 1 <= manifest[b.file]
    BY <1>2, <1>8, <2>3
  <2>5. Accepts(decoder, f)
    <3>1. decoder.next + 1 = b.file
      BY <1>1, <1>2, <1>4, <1>8
    <3>2. QED
      BY <1>4, <1>8, <2>2, <2>4, <3>1 DEF Accepts, AcceptsFileChunk
  <2>6. Consume(decoder, f) = [decoder EXCEPT !.received = @ + 1, !.transferred = @ + 1]
    BY <2>2 DEF Consume
  <2>7. QED
    BY <1>1, <1>4, <1>5, <1>8, <2>1, <2>4, <2>5, <2>6 DEF DecoderState
<1>9. CASE /\ b.at = "file" /\ b.offset = manifest[b.file] /\ b.data = "planned"
           /\ f = FileEnd(b.file) /\ d = Between(b.file + 1)
  <2>1. d.at = "between" /\ d.file = b.file + 1 /\ (b.file + 1) - 1 = b.file
    BY <1>2, <1>9 DEF Between, Cursor
  <2>2. f.type = "file-end" /\ f.digest = b.file
    BY <1>9 DEF FileEnd
  <2>3. decoder.next + 1 = b.file /\ s[b.file] = s[b.file - 1] + manifest[b.file]
    BY <1>1, <1>2, <1>3, <1>4, <1>9
  <2>4. Accepts(decoder, f)
    BY <1>4, <1>9, <2>2, <2>3 DEF Accepts, AcceptsFileEnd
  <2>5. Consume(decoder, f) = [decoder EXCEPT !.state = "between-files", !.next = @ + 1]
    BY <2>2 DEF Consume
  <2>6. decoder' = Consume(decoder, f) =>
          /\ decoder'.state = "between-files" /\ decoder'.manifest = manifest
          /\ decoder'.next = b.file /\ decoder'.transferred = s[b.file]
    BY <1>1, <1>4, <1>9, <2>3, <2>5 DEF DecoderState
  <2>7. QED
    BY <1>5, <2>1, <2>4, <2>6
<1>10. CASE b.at = "between" /\ b.file = Len(manifest) + 1 /\ f = CompleteFrame /\ d = Ended
  <2>1. d.at = "ended"
    BY <1>10 DEF Ended, Cursor
  <2>2. f.type = "complete"
    BY <1>10 DEF CompleteFrame
  <2>3. Accepts(decoder, f)
    <3>1. decoder.next = Len(decoder.manifest) /\ decoder.transferred = TotalBytes(decoder.manifest)
      BY <1>1, <1>3, <1>4, <1>10
    <3>2. QED
      BY <1>4, <1>10, <2>2, <3>1 DEF Accepts, AcceptsComplete
  <2>4. Consume(decoder, f) = [decoder EXCEPT !.state = "complete"]
    BY <2>2 DEF Consume
  <2>5. QED
    BY <1>1, <1>5, <2>1, <2>3, <2>4 DEF DecoderState
<1>11. CASE b.at \notin {"ended", "over"} /\ f = PullErrorFrame /\ d = Ended
  <2>1. d.at = "ended"
    BY <1>11 DEF Ended, Cursor
  <2>2. f.type = "pull-error"
    BY <1>11 DEF PullErrorFrame
  <2>3. decoder.state # "complete"
    <3>1. b.at \in {"manifest", "between", "file"}
      BY <1>11 DEF Places, Cursors
    <3>2. QED
      BY <1>4, <3>1
  <2>4. Accepts(decoder, f)
    BY <2>2, <2>3 DEF Accepts, AcceptsFailure
  <2>5. Consume(decoder, f) = [decoder EXCEPT !.state = "complete"]
    BY <2>2 DEF Consume
  <2>6. QED
    BY <1>1, <1>5, <2>1, <2>4, <2>5 DEF DecoderState
<1>12. QED
  BY <1>6, <1>7, <1>8, <1>9, <1>10, <1>11 DEF Leads

\* What the client's queue begins with leads on.
LEMMA TakeFollows ==
  ASSUME IInv, SidesInv, NEW type, Take(type),
         Working' => Working /\ \A a, d \in Places :
           ClientAt(a) /\ Leads(manifest, a, Head(events), d) => ClientAt(d)'
  PROVE  Talking'
<1>1. /\ events # << >> /\ events' = Tail(events) /\ events \in Seq(Frame)
      /\ UNCHANGED <<manifest, source, serverVars, conn, wire, inbox, decoder>>
  BY DEF Take, IInv, TypeInv, TypeOK, sourceVars, netVars
<1>2. ASSUME Working', NEW a \in Places, NEW b \in Places, NEW r \in Places, ClientEnd(a, b, r)
      PROVE  \E c, d \in Places : ClientEnd(c, d, r)'
  <2>1. PICK d \in Places : Leads(manifest, a, Head(events), d) /\ Chain(manifest, d, Tail(events), b)
    BY <1>1, <1>2, ChainHead DEF ClientEnd, Places
  <2>2. ClientAt(d)'
    BY <1>2, <2>1 DEF ClientEnd
  <2>3. DecoderAt(b)'
    BY <1>1, <1>2 DEF ClientEnd, DecoderAt
  <2>4. ClientEnd(d, b, r)'
    BY <1>1, <1>2, <2>1, <2>2, <2>3 DEF ClientEnd
  <2>5. QED
    BY <2>1, <2>4
<1>3. QED
  BY <1>1, <1>2, ClientFollows

\* read and decoder.push: the decoder never refuses a frame.
LEMMA DecodeSides == IInv /\ SidesInv /\ (DecodeFrame \/ RefuseFrame) => SidesInv'
<1> SUFFICES ASSUME IInv, SidesInv, DecodeFrame \/ RefuseFrame PROVE SidesInv'
  OBVIOUS
<1>1. Working /\ inbox # << >> /\ Head(inbox) # EndOfStream
  BY ReadingIs DEF DecodeFrame, RefuseFrame, Working
<1>2. inbox \in Seq(Frame) /\ events \in Seq(Frame) /\ Head(inbox) \in Frame
  BY <1>1, HeadTailType DEF IInv, TypeInv, TypeOK
<1>3. ASSUME NEW a \in Places, NEW b \in Places, NEW r \in Places, ClientEnd(a, b, r)
      PROVE  /\ Accepts(decoder, Head(inbox))
             /\ DecodeFrame => \E c, d \in Places : ClientEnd(c, d, r)'
  <2>1. PICK d \in Places : Leads(manifest, b, Head(inbox), d) /\ Chain(manifest, d, Tail(inbox), r)
    BY <1>1, <1>2, <1>3, ChainHead DEF ClientEnd, Places
  <2>2. /\ Accepts(decoder, Head(inbox))
        /\ UNCHANGED manifest /\ decoder' = Consume(decoder, Head(inbox)) => DecoderAt(d)'
    BY <1>1, <1>3, <2>1, DecoderTakes DEF ClientEnd
  <2>3. ASSUME DecodeFrame PROVE ClientEnd(a, d, r)'
    <3>1. /\ UNCHANGED manifest /\ UNCHANGED <<cpc, plan, staged>>
          /\ decoder' = Consume(decoder, Head(inbox)) /\ inbox' = Tail(inbox)
          /\ events' = Append(events, Head(inbox))
      BY <2>3 DEF DecodeFrame, sourceVars
    <3>2. Chain(manifest, a, events', d)
      BY <1>2, <1>3, <2>1, <3>1, ChainAppend DEF ClientEnd, Places
    <3>3. ClientAt(a)'
      BY <1>3, <3>1 DEF ClientEnd, ClientAt, FileCount, StagedFileMatches
    <3>4. QED
      BY <2>1, <2>2, <3>1, <3>2, <3>3 DEF ClientEnd
  <2>4. QED
    BY <2>1, <2>2, <2>3
<1>4. Accepts(decoder, Head(inbox))
  BY <1>1, <1>3, Followed
<1>5. DecodeFrame
  BY <1>4 DEF RefuseFrame
<1>6. UNCHANGED <<manifest, wire, conn, serverVars, spc, cause>>
  BY <1>5 DEF DecodeFrame, sourceVars, serverVars
<1>7. Talking'
  BY <1>1, <1>3, <1>5, <1>6, ClientFollows
<1>8. QED
  BY <1>6, <1>7, ClientKeeps DEF IInv, TypeInv, TypeOK, SidesInv, SidesAgree

\* The manifest, and the start of a file.
LEMMA BeginsSides == IInv /\ SidesInv /\ (ReceiveManifest \/ ReceiveFileStart) => SidesInv'
<1> SUFFICES ASSUME IInv, SidesInv, ReceiveManifest \/ ReceiveFileStart PROVE SidesInv'
  OBVIOUS
<1>1. /\ manifest \in Manifest /\ FileCount = Len(manifest) /\ FileCount \in Nat
      /\ staged \in Seq(Seq(Data)) /\ cause \in Causes
  BY ManifestsAssumption DEF IInv, TypeInv, TypeOK, FileCount, Manifest
<1>2. UNCHANGED <<manifest, wire, conn, spc, cause>>
  BY DEF ReceiveManifest, ReceiveFileStart, Take, sourceVars, serverVars, netVars
<1>3. CASE ReceiveManifest
  <2>1. /\ cpc = "manifest" /\ Head(events).type = "manifest" /\ plan' = Head(events).manifest
        /\ cpc' = (IF plan' = << >> THEN "complete" ELSE "inspect")
    BY <1>3 DEF ReceiveManifest, Take
  <2>2. ASSUME NEW a \in Places, NEW d \in Places, ClientAt(a), Leads(manifest, a, Head(events), d)
        PROVE  ClientAt(d)'
    <3>1. a.at = "manifest"
      BY <2>1, <2>2 DEF ClientAt
    <3>2. Head(events) = ManifestFrame(manifest) /\ d = Between(1)
      BY <2>1, <2>2, <3>1 DEF Leads, FileStart, FileChunk, FileEnd, CompleteFrame, PullErrorFrame, EndOfStream
    <3>3. plan' = manifest /\ d.at = "between" /\ d.file = 1
      BY <2>1, <3>2 DEF ManifestFrame, Between, Cursor
    <3>4. manifest = << >> => FileCount = 0
      BY <1>1
    <3>5. QED
      BY <1>1, <1>2, <2>1, <3>3, <3>4 DEF ClientAt, FileCount
  <2>3. Working
    BY <2>1 DEF Working
  <2>4. Talking'
    BY <1>3, <2>2, <2>3, TakeFollows DEF ReceiveManifest
  <2>5. QED
    BY <1>1, <1>2, <2>4, ClientKeeps DEF SidesInv, SidesAgree
<1>4. CASE ReceiveFileStart
  <2>1. /\ cpc = "file" /\ Head(events).type = "file-start" /\ staged' = Append(staged, << >>)
        /\ cpc' = "chunks" /\ UNCHANGED plan
    BY <1>4 DEF ReceiveFileStart, Take
  <2>2. ASSUME NEW a \in Places, NEW d \in Places, ClientAt(a), Leads(manifest, a, Head(events), d)
        PROVE  ClientAt(d)'
    <3>1. a.at = "between" /\ a.file = Len(staged) + 1
      BY <2>1, <2>2 DEF ClientAt
    <3>2. d = Cursor("file", a.file, 0, "planned")
      BY <2>1, <2>2, <3>1 DEF Leads, ManifestFrame, FileChunk, FileEnd, CompleteFrame, PullErrorFrame, EndOfStream
    <3>3. d.at = "file" /\ d.file = Len(staged) + 1 /\ d.offset = 0
      BY <3>1, <3>2 DEF Cursor
    <3>4. Len(staged') = Len(staged) + 1 /\ staged'[Len(staged')] = << >>
      BY <1>1, <2>1
    <3>5. Len(staged'[Len(staged')]) = 0 /\ staged'[Len(staged')] = [k \in 1..0 |-> "planned"]
      BY <3>4
    <3>6. QED
      BY <2>1, <3>3, <3>4, <3>5 DEF ClientAt
  <2>3. Working
    BY <2>1 DEF Working
  <2>4. Talking'
    BY <1>4, <2>2, <2>3, TakeFollows DEF ReceiveFileStart
  <2>5. QED
    BY <1>1, <1>2, <2>4, ClientKeeps DEF SidesInv, SidesAgree
<1>5. QED
  BY <1>3, <1>4

\* A chunk is at its place, and is what was planned as long as all before it were.
LEMMA ChunkSides == IInv /\ SidesInv /\ ReceiveFileChunk => SidesInv'
<1> SUFFICES ASSUME IInv, SidesInv, ReceiveFileChunk PROVE SidesInv'
  OBVIOUS
<1> DEFINE last == staged[Len(staged)]
<1>1. /\ staged \in Seq(Seq(Data)) /\ cause \in Causes /\ staged # << >>
      /\ Len(staged) \in Nat \ {0} /\ last \in Seq(Data)
  <2>1. staged \in Seq(Seq(Data)) /\ cause \in Causes /\ staged # << >>
    BY DEF ReceiveFileChunk, IInv, TypeInv, TypeOK, OpenedOK
  <2>2. QED
    BY <2>1
<1>2. UNCHANGED <<manifest, wire, conn, spc, cause>>
  BY DEF ReceiveFileChunk, Take, sourceVars, serverVars, netVars
<1>3. /\ cpc = "chunks" /\ Head(events).type = "file-chunk" /\ UNCHANGED <<cpc, plan>>
      /\ staged' = [staged EXCEPT ![Len(staged)] = Append(@, Head(events).data)]
  BY DEF ReceiveFileChunk, Take
<1>4. ASSUME NEW a \in Places, NEW d \in Places, ClientAt(a), Leads(manifest, a, Head(events), d)
      PROVE  ClientAt(d)'
  <2>1. /\ a.at = "file" /\ a.file = Len(staged) /\ a.offset = Len(last)
        /\ a.data = "planned" => last = [k \in 1..a.offset |-> "planned"]
    BY <1>3, <1>4 DEF ClientAt
  <2>2. PICK data \in Data :
          /\ Head(events) = FileChunk(a.offset, data)
          /\ d = Cursor("file", a.file, a.offset + 1, IF data = "other" THEN "other" ELSE a.data)
    BY <1>3, <1>4, <2>1 DEF Leads, ManifestFrame, FileStart, FileEnd, CompleteFrame, PullErrorFrame, EndOfStream
  <2>3. /\ d.at = "file" /\ d.file = Len(staged) /\ d.offset = Len(last) + 1
        /\ d.data = IF data = "other" THEN "other" ELSE a.data
        /\ Head(events).data = data
    BY <2>1, <2>2 DEF Cursor, FileChunk
  <2>4. Len(staged') = Len(staged) /\ staged'[Len(staged')] = Append(last, data)
    BY <1>1, <1>3, <2>3
  <2>5. Len(Append(last, data)) = Len(last) + 1
    BY <1>1
  <2>6. ASSUME d.data = "planned"
        PROVE  Append(last, data) = [k \in 1..d.offset |-> "planned"]
    <3>1. data = "planned" /\ a.data = "planned"
      BY <2>3, <2>6 DEF Data
    <3>2. last = [k \in 1..Len(last) |-> "planned"] /\ Len(last) \in Nat
      BY <1>1, <2>1, <3>1
    <3> HIDE DEF last
    <3> DEFINE t == Append(last, data)
    <3>3. t \in Seq(Data) /\ Len(t) = Len(last) + 1
      BY <1>1
    <3>4. ASSUME NEW k \in 1..Len(t) PROVE t[k] = "planned"
      <4>1. CASE k = Len(last) + 1
        BY <1>1, <3>1, <4>1
      <4>2. CASE k # Len(last) + 1
        <5>1. k \in 1..Len(last)
          BY <3>2, <3>3, <3>4, <4>2
        <5>2. t[k] = last[k]
          BY <1>1, <5>1
        <5>3. QED
          BY <3>2, <5>1, <5>2
      <4>3. QED
        BY <4>1, <4>2
    <3> HIDE DEF t
    <3>5. t = [k \in 1..Len(t) |-> "planned"]
      BY <3>3, <3>4
    <3>6. QED
      BY <2>3, <3>3, <3>5 DEF t
  <2>7. QED
    BY <1>3, <2>3, <2>4, <2>5, <2>6 DEF ClientAt
<1>5. Working
  BY <1>3 DEF Working
<1>6. Talking'
  BY <1>4, <1>5, TakeFollows DEF ReceiveFileChunk
<1>7. QED
  BY <1>1, <1>2, <1>6, ClientKeeps DEF SidesInv, SidesAgree

\* The end of a file comes behind bytes that have its digest.
LEMMA FileEndSides == IInv /\ SidesInv /\ ReceiveFileEnd => SidesInv'
<1> SUFFICES ASSUME IInv, SidesInv, ReceiveFileEnd PROVE SidesInv'
  OBVIOUS
<1>1. /\ manifest \in Manifest /\ FileCount = Len(manifest) /\ FileCount \in Nat
      /\ staged \in Seq(Seq(Data)) /\ cause \in Causes
  BY ManifestsAssumption DEF IInv, TypeInv, TypeOK, FileCount, Manifest
<1>2. UNCHANGED <<manifest, wire, conn, spc, plan, staged>>
  BY DEF ReceiveFileEnd, Take, sourceVars, serverVars, netVars
<1>3. cpc = "chunks" /\ Head(events).type = "file-end" /\ events # << >>
  BY DEF ReceiveFileEnd, Take
<1>4. plan = manifest /\ Len(staged) \in 1..Len(plan)
  BY <1>3 DEF IInv, ClientInv, PlanOK, StagedOK
<1>5. Working
  BY <1>3 DEF Working
<1>6. ASSUME NEW a \in Places, NEW d \in Places, ClientAt(a), Leads(manifest, a, Head(events), d)
      PROVE  StagedFileMatches /\ d.at = "between" /\ d.file = Len(staged) + 1
  <2>1. /\ a.at = "file" /\ a.file = Len(staged)
        /\ a.data = "planned" => staged[Len(staged)] = [k \in 1..a.offset |-> "planned"]
    BY <1>3, <1>6 DEF ClientAt
  <2>2. a.offset = manifest[a.file] /\ a.data = "planned" /\ d = Between(a.file + 1)
    BY <1>3, <1>6, <2>1
       DEF Leads, ManifestFrame, FileStart, FileChunk, CompleteFrame, PullErrorFrame, EndOfStream
  <2>3. d.at = "between" /\ d.file = a.file + 1
    BY <2>2 DEF Between, Cursor
  <2>4. QED
    BY <1>4, <2>1, <2>2, <2>3 DEF StagedFileMatches
<1>7. StagedFileMatches
  <2>1. PICK a \in Places, b \in Places, r \in Places : ClientEnd(a, b, r)
    BY <1>5, Followed
  <2>2. events \in Seq(Frame)
    BY DEF IInv, TypeInv, TypeOK
  <2>3. PICK d \in Places : Leads(manifest, a, Head(events), d)
    BY <1>3, <2>1, <2>2, ChainHead DEF ClientEnd, Places
  <2>4. QED
    BY <1>6, <2>1, <2>3 DEF ClientEnd
<1>8. cpc' = AfterFileEnd /\ UNCHANGED cause
  BY <1>7 DEF ReceiveFileEnd
<1>9. ASSUME NEW a \in Places, NEW d \in Places, ClientAt(a), Leads(manifest, a, Head(events), d)
      PROVE  ClientAt(d)'
  <2>1. StagedFileMatches' /\ d.at = "between" /\ d.file = Len(staged) + 1
    BY <1>2, <1>6, <1>9 DEF StagedFileMatches
  <2>2. cpc' = IF Len(staged) = FileCount THEN "complete" ELSE "file"
    BY <1>1, <1>4, <1>8 DEF AfterFileEnd
  <2>3. QED
    BY <1>1, <1>2, <2>1, <2>2 DEF ClientAt, FileCount
<1>10. Talking'
  <2>1. Take("file-end")
    BY DEF ReceiveFileEnd
  <2>2. QED
    BY <1>5, <1>9, <2>1, TakeFollows
<1>11. QED
  BY <1>1, <1>2, <1>8, <1>10, ClientKeeps DEF SidesInv, SidesAgree

\* The complete frame comes when there is nothing left to wait for.
LEMMA CompleteSides == IInv /\ SidesInv /\ ReceiveComplete => SidesInv'
<1> SUFFICES ASSUME IInv, SidesInv, ReceiveComplete PROVE SidesInv'
  OBVIOUS
<1>1. UNCHANGED <<manifest, wire, conn, spc, plan, staged, cause>> /\ cause \in Causes
  BY DEF ReceiveComplete, Take, sourceVars, serverVars, netVars, IInv, TypeInv, TypeOK
<1>2. cpc = "complete" /\ cpc' = "end-of-stream" /\ Head(events).type = "complete"
  BY DEF ReceiveComplete, Take
<1>3. ASSUME NEW a \in Places, NEW d \in Places, ClientAt(a), Leads(manifest, a, Head(events), d)
      PROVE  ClientAt(d)'
  <2>1. a.at = "between" /\ (plan # << >> => StagedFileMatches)
    BY <1>2, <1>3 DEF ClientAt
  <2>2. d = Ended
    BY <1>2, <1>3, <2>1 DEF Leads, ManifestFrame, FileStart, FileChunk, FileEnd, PullErrorFrame, EndOfStream
  <2>3. d.at = "ended"
    BY <2>2 DEF Ended, Cursor
  <2>4. QED
    BY <1>1, <1>2, <2>1, <2>3 DEF ClientAt, StagedFileMatches
<1>4. Working
  BY <1>2 DEF Working
<1>5. Talking'
  BY <1>3, <1>4, TakeFollows DEF ReceiveComplete
<1>6. QED
  BY <1>1, <1>5, ClientKeeps DEF SidesInv, SidesAgree

\* At the end of the stream the last file has its digest.
LEMMA EndSides == IInv /\ SidesInv /\ ReceiveEndOfStream => SidesInv'
<1> SUFFICES ASSUME IInv, SidesInv, ReceiveEndOfStream PROVE SidesInv'
  OBVIOUS
<1>1. cpc = "end-of-stream" /\ cause \in Causes /\ UNCHANGED <<manifest, wire, conn, serverVars, spc, plan>>
  BY DEF ReceiveEndOfStream, sourceVars, serverVars, readerVars, IInv, TypeInv, TypeOK
<1>2. Working
  BY <1>1 DEF Working
<1>3. plan # << >> => StagedFileMatches
  BY <1>1, <1>2, Followed DEF ClientEnd, ClientAt
<1>4. UNCHANGED cause /\ ((plan = << >> /\ cpc' = "inspect") \/ cpc' = "publish")
  BY <1>3 DEF ReceiveEndOfStream
<1>5. ~Working'
  BY <1>1, <1>4 DEF Working
<1>6. Talking'
  BY <1>1, <1>5, ClientLeaves
<1>7. QED
  BY <1>1, <1>4, <1>6, ClientKeeps DEF SidesInv, SidesAgree

\* Whatever the client finds, it was waiting for.
LEMMA NothingUnexpected == IInv /\ SidesInv => ~ReceiveUnexpected
<1> SUFFICES ASSUME IInv, SidesInv, ReceiveUnexpected PROVE FALSE
  OBVIOUS
<1>1. Working /\ cpc \in {"manifest", "file", "chunks", "complete", "end-of-stream"}
  BY ReadingIs DEF ReceiveUnexpected, Working
<1>2. events \in Seq(Frame) /\ inbox \in Seq(Frame) /\ staged \in Seq(Seq(Data))
  BY DEF IInv, TypeInv, TypeOK
<1>3. PICK a \in Places, b \in Places, r \in Places : ClientEnd(a, b, r)
  BY <1>1, Followed
<1>4. cpc # "manifest" => plan = manifest
  BY <1>1 DEF IInv, ClientInv, PlanOK
<1>5. ASSUME NEW f, NEW d, Leads(manifest, a, f, d), f.type # "pull-error"
      PROVE  Awaited(f)
  <2>1. ClientAt(a)
    BY <1>3 DEF ClientEnd
  <2>2. CASE cpc = "manifest"
    <3>1. a.at = "manifest"
      BY <2>1, <2>2 DEF ClientAt
    <3>2. f.type = "manifest"
      BY <1>5, <3>1 DEF Leads, ManifestFrame, PullErrorFrame
    <3>3. QED
      BY <2>2, <3>2, ReadingIs DEF Awaited
  <2>3. CASE cpc = "file"
    <3>1. a.at = "between" /\ a.file = Len(staged) + 1
      BY <2>1, <2>3 DEF ClientAt
    <3>2. Len(staged) < Len(manifest)
      BY <1>4, <2>3 DEF IInv, ClientInv, StagedOK
    <3>3. a.file # Len(manifest) + 1
      <4>1. Len(staged) \in Nat /\ Len(manifest) \in Nat
        BY <1>2, ManifestsAssumption DEF IInv, TypeInv, TypeOK, Manifest
      <4>2. QED
        BY <3>1, <3>2, <4>1
    <3>4. f = FileStart(a.file, manifest[a.file])
      BY <1>5, <3>1, <3>3 DEF Leads, PullErrorFrame
    <3>5. f.type = "file-start" /\ f.file = Len(staged) + 1 /\ f.size = plan[f.file]
      BY <1>4, <2>3, <3>1, <3>4 DEF FileStart
    <3>6. QED
      BY <2>3, <3>5, ReadingIs DEF Awaited
  <2>4. CASE cpc = "chunks"
    <3>1. a.at = "file"
      BY <2>1, <2>4 DEF ClientAt
    <3>2. f.type \in {"file-chunk", "file-end"}
      BY <1>5, <3>1 DEF Leads, FileChunk, FileEnd, PullErrorFrame
    <3>3. QED
      BY <2>4, <3>2, ReadingIs DEF Awaited
  <2>5. CASE cpc = "complete"
    <3>1. a.at = "between" /\ a.file = Len(manifest) + 1
      BY <2>1, <2>5 DEF ClientAt, FileCount
    <3>2. ~(a.file <= Len(manifest))
      <4>1. Len(manifest) \in Nat
        BY ManifestsAssumption DEF IInv, TypeInv, TypeOK, Manifest
      <4>2. QED
        BY <3>1, <4>1
    <3>3. f.type = "complete"
      BY <1>5, <3>1, <3>2 DEF Leads, CompleteFrame, PullErrorFrame
    <3>4. QED
      BY <2>5, <3>3, ReadingIs DEF Awaited
  <2>6. CASE cpc = "end-of-stream"
    <3>1. a.at = "ended"
      BY <2>1, <2>6 DEF ClientAt
    <3>2. f.type = "end-of-stream"
      BY <1>5, <3>1 DEF Leads, EndOfStream
    <3>3. QED
      BY <2>6, <3>2, ReadingIs DEF Awaited
  <2>7. QED
    BY <1>1, <2>2, <2>3, <2>4, <2>5, <2>6
<1>6. CASE events # << >>
  <2>1. PICK d \in Places : Leads(manifest, a, Head(events), d)
    BY <1>2, <1>3, <1>6, ChainHead DEF ClientEnd, Places
  <2>2. QED
    BY <1>5, <1>6, <2>1 DEF ReceiveUnexpected, NextEvent, AtEndOfStream
<1>7. CASE events = << >>
  <2>1. AtEndOfStream /\ inbox # << >> /\ NextEvent = EndOfStream
    BY <1>7 DEF ReceiveUnexpected, NextEvent, AtEndOfStream
  <2>2. a = b
    BY <1>3, <1>7, ChainEmpty DEF ClientEnd, Places
  <2>3. PICK d \in Places : Leads(manifest, b, Head(inbox), d)
    BY <1>2, <1>3, <2>1, ChainHead DEF ClientEnd, Places
  <2>4. Head(inbox) = EndOfStream
    BY <2>1 DEF AtEndOfStream
  <2>5. Awaited(EndOfStream)
    BY <1>5, <2>2, <2>3, <2>4 DEF EndOfStream
  <2>6. b.at = "ended"
    BY <2>3, <2>4 DEF Leads, ManifestFrame, FileStart, FileChunk, FileEnd, CompleteFrame, PullErrorFrame, EndOfStream
  <2>7. decoder.state = "complete"
    BY <1>3, <2>6 DEF ClientEnd, DecoderAt
  <2>8. QED
    BY <2>1, <2>5, <2>7 DEF ReceiveUnexpected
<1>8. QED
  BY <1>6, <1>7

\* A bridge that was done had delivered the whole response.
LEMMA ReadFailsSides == IInv /\ SidesInv /\ ClientReadFails => SidesInv'
<1> SUFFICES ASSUME IInv, SidesInv, ClientReadFails PROVE SidesInv'
  OBVIOUS
<1>1. /\ Working /\ cpc \in {"manifest", "file", "chunks", "complete", "end-of-stream"}
      /\ conn = "closed" /\ inbox = << >> /\ events = << >>
  BY ReadingIs DEF ClientReadFails, Working
<1>2. /\ UNCHANGED <<manifest, wire, conn, serverVars, spc>> /\ cause' = "read"
      /\ cpc' \in {"unstage", "close"}
  BY DEF ClientReadFails, ClientFails, Leave, sourceVars, serverVars, netVars
<1>3. spc # "done"
  <2> SUFFICES ASSUME spc = "done" PROVE FALSE
    OBVIOUS
  <2>1. PICK a \in Places, b \in Places, r \in Places, z \in Places : ClientEnd(a, b, r) /\ ServerEnd(r, z)
    BY <1>1, Followed
  <2>2. wire = << >>
    BY DEF SidesInv
  <2>3. a = b /\ b = r /\ r = z
    BY <1>1, <2>1, <2>2, ChainEmpty DEF ClientEnd, ServerEnd, Places
  <2>4. z.at = "over"
    BY <2>1 DEF ServerEnd, ServerAt
  <2>5. QED
    BY <1>1, <2>1, <2>3, <2>4 DEF ClientEnd, ClientAt
<1>4. Talking'
  BY <1>2, ClientLeaves DEF Working
<1>5. QED
  BY <1>1, <1>2, <1>3, <1>4, ClientKeeps DEF Causes

\* The client's steps between two reads, and the ways out that say nothing of the
\* response.
LEMMA OwnSides ==
  IInv /\ SidesInv
    /\ (InspectDestination \/ DestinationExists \/ CreateStage \/ ReceivePullError
          \/ Publish \/ PublishRefused \/ RemoveStage \/ ClientDeadline \/ LocalFailure)
    => SidesInv'
<1> SUFFICES ASSUME IInv, SidesInv,
                    InspectDestination \/ DestinationExists \/ CreateStage \/ ReceivePullError
                      \/ Publish \/ PublishRefused \/ RemoveStage \/ ClientDeadline \/ LocalFailure
             PROVE  SidesInv'
  OBVIOUS
<1>1. cause \in Causes /\ cpc \in ClientPositions
  BY DEF IInv, TypeInv, TypeOK
<1>2. CASE InspectDestination \/ CreateStage
  <2>1. /\ UNCHANGED <<manifest, wire, conn, serverVars, spc, cause, events, inbox, decoder, plan, staged>>
        /\ \/ cpc = "inspect" /\ cpc' = "stage"
           \/ cpc = "stage" /\ cpc' = IF plan = << >> THEN "publish" ELSE "file"
    BY <1>2 DEF InspectDestination, CreateStage, sourceVars, serverVars, netVars, readerVars
  <2>2. Working' => Working
    BY <2>1 DEF Working
  <2>3. ASSUME Working', NEW a \in Places, ClientAt(a) PROVE ClientAt(a)'
    <3>1. CASE cpc = "inspect"
      BY <2>1, <2>3, <3>1 DEF ClientAt
    <3>2. CASE cpc = "stage"
      <4>1. staged = << >>
        BY <3>2 DEF IInv, ClientInv, StagedOK
      <4>2. Len(staged) + 1 = 1
        BY <4>1
      <4>3. QED
        BY <2>1, <2>3, <3>2, <4>2 DEF ClientAt, Working
    <3>3. QED
      BY <2>1, <3>1, <3>2
  <2>4. ASSUME Working', NEW a \in Places, NEW b \in Places, NEW r \in Places, ClientEnd(a, b, r)
        PROVE  ClientEnd(a, b, r)'
    BY <2>1, <2>3, <2>4 DEF ClientEnd, DecoderAt
  <2>5. Talking'
    BY <2>1, <2>2, <2>4, ClientFollows
  <2>6. QED
    BY <1>1, <2>1, <2>5, ClientKeeps DEF SidesInv, SidesAgree
<1>3. ASSUME UNCHANGED <<manifest, wire, conn, serverVars, spc>>,
             cpc' \in {"unstage", "close"},
             cause' \in {cause, "exists", "remote", "local", "deadline"}
      PROVE  SidesInv'
  <2>1. Talking'
    BY <1>3, ClientLeaves DEF Working
  <2>2. QED
    BY <1>1, <1>3, <2>1, ClientKeeps DEF SidesInv, SidesAgree, Causes
<1>4. CASE DestinationExists \/ PublishRefused \/ LocalFailure
  BY <1>3, <1>4 DEF DestinationExists, PublishRefused, LocalFailure, ClientFails, Leave, sourceVars,
     serverVars, netVars
<1>5. CASE ReceivePullError
  BY <1>3, <1>5 DEF ReceivePullError, Take, Leave, sourceVars, serverVars, netVars
<1>6. CASE Publish \/ RemoveStage
  BY <1>3, <1>6 DEF Publish, RemoveStage, sourceVars, serverVars, netVars
<1>7. CASE ClientDeadline
  BY <1>3, <1>7 DEF ClientDeadline, Leave, sourceVars, serverVars, netVars
<1>8. QED
  BY <1>2, <1>4, <1>5, <1>6, <1>7

\* The ways a connection ends.
LEMMA EndingSides ==
  IInv /\ SidesInv /\ (Report \/ ClientCrashes \/ ConnectionLost \/ ServerInterrupted) => SidesInv'
<1> SUFFICES ASSUME IInv, SidesInv, Report \/ ClientCrashes \/ ConnectionLost \/ ServerInterrupted
             PROVE  SidesInv'
  OBVIOUS
<1>1. /\ conn' = "closed" /\ wire' = << >> /\ UNCHANGED <<manifest, cause>>
      /\ spc' = spc \/ spc' = "gone"
      /\ \/ cpc' \in {"reported", "crashed"}
         \/ UNCHANGED <<events, inbox, decoder, cpc, plan, staged>>
  BY DEF Report, ClientCrashes, ConnectionLost, ServerInterrupted, sourceVars, serverVars,
     clientVars, readerVars
<1>2. Working' => Working /\ UNCHANGED <<events, inbox, decoder, cpc, plan, staged>>
  BY <1>1 DEF Working
<1>3. Talking' /\ (spc' = "done" => wire' = << >>)
  BY <1>1, <1>2, Closed
<1>4. QED
  BY <1>1, <1>3 DEF SidesInv, SidesAgree

\* The frame the network delivers is one place further.
LEMMA DeliverSides == IInv /\ SidesInv /\ Deliver => SidesInv'
<1> SUFFICES ASSUME IInv, SidesInv, Deliver PROVE SidesInv'
  OBVIOUS
<1>1. /\ wire # << >> /\ wire' = Tail(wire) /\ inbox' = Append(inbox, Head(wire))
      /\ UNCHANGED <<conn, manifest, serverVars, spc, events, decoder, cpc, plan, staged, cause>>
  BY DEF Deliver, sourceVars, serverVars, clientVars, readerVars
<1>2. wire \in Seq(Frame) /\ inbox \in Seq(Frame) /\ Head(wire) \in Frame
  BY <1>1, HeadTailType DEF IInv, TypeInv, TypeOK
<1>3. PICK r \in Places, z \in Places :
        ServerEnd(r, z) /\ (Working => \E a, b \in Places : ClientEnd(a, b, r))
  BY DEF SidesInv, Talking
<1>4. PICK d \in Places : Leads(manifest, r, Head(wire), d) /\ Chain(manifest, d, Tail(wire), z)
  BY <1>1, <1>2, <1>3, ChainHead DEF ServerEnd, Places
<1>5. ServerEnd(d, z)'
  BY <1>1, <1>3, <1>4 DEF ServerEnd, ServerAt, FileCount, serverVars
<1>6. Working' => \E a, b \in Places : ClientEnd(a, b, d)'
  <2> SUFFICES ASSUME Working' PROVE \E a, b \in Places : ClientEnd(a, b, d)'
    OBVIOUS
  <2>1. PICK a \in Places, b \in Places : ClientEnd(a, b, r)
    BY <1>1, <1>3 DEF Working
  <2>2. Chain(manifest, b, inbox', d)
    BY <1>1, <1>2, <1>4, <2>1, ChainAppend DEF ClientEnd, Places
  <2>3. ClientAt(a)' /\ DecoderAt(b)'
    BY <1>1, <2>1 DEF ClientEnd, ClientAt, DecoderAt, FileCount, StagedFileMatches
  <2>4. ClientEnd(a, b, d)'
    BY <1>1, <2>1, <2>2, <2>3 DEF ClientEnd
  <2>5. QED
    BY <2>4
<1>7. Talking'
  BY <1>1, <1>5, <1>6 DEF Talking, Places
<1>8. spc' = "done" => wire' = << >>
  BY <1>1 DEF SidesInv
<1>9. QED
  BY <1>1, <1>7, <1>8 DEF SidesInv, SidesAgree

\* What happens elsewhere, and nothing at all.
LEMMA ElsewhereSides ==
  IInv /\ SidesInv /\ (SourceChanges \/ SourceUnreadable \/ DestinationCreated \/ UNCHANGED vars)
    => SidesInv'
<1> SUFFICES ASSUME IInv, SidesInv,
                    SourceChanges \/ SourceUnreadable \/ DestinationCreated \/ UNCHANGED vars
             PROVE  SidesInv'
  OBVIOUS
<1>1. /\ UNCHANGED <<manifest, wire, inbox, conn, events, decoder, cpc, plan, staged, cause, sfile, soffset, scanned>>
      /\ UNCHANGED spc \/ SourceUnreadable
  BY DEF SourceChanges, SourceUnreadable, DestinationCreated, vars, sourceVars, serverVars, netVars,
     clientVars, readerVars
<1>2. PICK r \in Places, z \in Places :
        ServerEnd(r, z) /\ (Working => \E a, b \in Places : ClientEnd(a, b, r))
  BY DEF SidesInv, Talking
<1>3. ServerEnd(r, z)' /\ (spc' = "done" => spc = "done")
  BY <1>1, <1>2 DEF ServerEnd, ServerAt, FileCount, SourceUnreadable
<1>4. Working' => \E a, b \in Places : ClientEnd(a, b, r)'
  BY <1>1, <1>2, SidesStay
<1>5. Talking'
  BY <1>1, <1>3, <1>4 DEF Talking, Places
<1>6. QED
  BY <1>1, <1>3, <1>5 DEF SidesInv, SidesAgree

\* The bridge and the client agree on the grammar and the end of the response,
\* whatever fails: no frame the decoder or the reader refuses, no early end, no
\* wrong digest, and nothing lost once the bridge's handler has ended (wire's
\* sessions.ts, session-handlers.ts, makeRemoteRead and session.finish).
THEOREM SidesAlwaysAgree == Spec => []SidesAgree
<1>1. IInv /\ SidesInv /\ [Next]_vars => SidesInv'
  <2> SUFFICES ASSUME IInv, SidesInv, [Next]_vars PROVE SidesInv'
    OBVIOUS
  <2>1. CASE Server
    BY <2>1, ServerSides
  <2>2. CASE Client
    BY <2>2, DecodeSides, BeginsSides, ChunkSides, FileEndSides, CompleteSides, EndSides,
       NothingUnexpected, ReadFailsSides, OwnSides, EndingSides DEF Client
  <2>3. CASE Deliver
    BY <2>3, DeliverSides
  <2>4. CASE Environment
    BY <2>4, OwnSides, EndingSides, ElsewhereSides DEF Environment
  <2>5. CASE UNCHANGED vars
    BY <2>5, ElsewhereSides
  <2>6. QED
    BY <2>1, <2>2, <2>3, <2>4, <2>5 DEF Next
<1>2. SidesInv => SidesAgree
  BY DEF SidesInv
<1>3. QED
  BY <1>1, <1>2, InitSides, Invariance, PTL DEF Spec

-----------------------------------------------------------------------------
(***************************************************************************)
(* Any other bridge.  No frame can be relied on, so what the client knows  *)
(* of the response is what its decoder has accepted: the events in its     *)
(* queue take the decoder from a state that fits the client's position to  *)
(* the state it is in now.                                                 *)
(***************************************************************************)
Decoding ==
  {t \in DecoderState \X Frame \X DecoderState :
     Accepts(t[1], t[2]) /\ t[3] = Consume(t[1], t[2])}
Replays(d, s, e) == Path(DecoderState, Decoding, d, s, e)

\* The client is where a decoder in state d has brought it.
Hears(d) ==
  /\ cpc = "manifest" => d.state = "manifest" /\ d.next = 0
  /\ cpc \in {"inspect", "stage"} /\ plan # << >> =>
       d.state = "between-files" /\ d.manifest = plan /\ d.next = 0
  /\ cpc \in {"inspect", "stage"} /\ plan = << >> => d.state = "complete"
  /\ cpc = "file" => d.state = "between-files" /\ d.manifest = plan /\ d.next = Len(staged)
  /\ cpc = "chunks" => d.state = "file" /\ d.manifest = plan /\ d.next + 1 = Len(staged)
  /\ cpc = "complete" => d.state = "between-files" /\ d.manifest = plan /\ d.next = Len(plan)
  /\ cpc \in {"end-of-stream", "publish"} => d.state = "complete"

Heard == \E d \in DecoderState : Replays(d, events, decoder) /\ Hears(d)

\* The client is done with the response when there is a destination of its own.
DoneWithIt == dest.state = "published" => cpc \in Leaving

AnyInv ==
  TypeInv /\ StagedOK /\ Heard /\ DoneWithIt /\ PublishedMatchesManifest

\* The parts of a decoder's state after each kind of frame.
LEMMA Consumed ==
  ASSUME NEW d \in DecoderState, NEW f \in Frame, Accepts(d, f)
  PROVE  LET e == Consume(d, f) IN
         /\ d.state # "complete"
         /\ f.type = "manifest" =>
              d.state = "manifest" /\ e.state = "between-files" /\ e.manifest = f.manifest
              /\ e.next = d.next
         /\ f.type = "file-start" =>
              /\ d.state = "between-files" /\ d.next < Len(d.manifest)
              /\ f.file = d.next + 1 /\ f.size = d.manifest[d.next + 1]
              /\ e.state = "file" /\ e.manifest = d.manifest /\ e.next = d.next
         /\ f.type = "file-chunk" =>
              d.state = "file" /\ e.state = "file" /\ e.manifest = d.manifest /\ e.next = d.next
         /\ f.type = "file-end" =>
              d.state = "file" /\ e.state = "between-files" /\ e.manifest = d.manifest
              /\ e.next = d.next + 1
         /\ f.type = "complete" =>
              d.state = "between-files" /\ d.next = Len(d.manifest) /\ e.state = "complete"
         /\ f.type \in {"manifest", "file-start", "file-chunk", "file-end", "complete", "pull-error"}
BY DEF Accepts, AcceptsFailure, AcceptsManifest, AcceptsFileStart, AcceptsComplete,
       AcceptsFileChunk, AcceptsFileEnd, Consume, DecoderState

\* The event the client takes next moves the decoder's state it is at.
LEMMA NextHeard ==
  ASSUME TypeOK, Heard, events # << >>
  PROVE  /\ Head(events) \in Frame
         /\ \E d \in DecoderState :
              /\ Hears(d) /\ Accepts(d, Head(events))
              /\ Replays(Consume(d, Head(events)), Tail(events), decoder)
<1>1. events \in Seq(Frame) /\ Head(events) \in Frame
  BY HeadTailType DEF TypeOK
<1>2. PICK d \in DecoderState : Replays(d, events, decoder) /\ Hears(d)
  BY DEF Heard
<1>3. PICK e \in DecoderState :
        <<d, Head(events), e>> \in Decoding /\ Path(DecoderState, Decoding, e, Tail(events), decoder)
  BY <1>1, <1>2, PathHead DEF Replays
<1>4. Accepts(d, Head(events)) /\ e = Consume(d, Head(events))
  BY <1>3 DEF Decoding
<1>5. QED
  BY <1>1, <1>2, <1>3, <1>4 DEF Replays

\* Nothing follows the end of a response.
LEMMA NothingFollows ==
  ASSUME TypeOK, NEW d \in DecoderState, d.state = "complete", Replays(d, events, decoder)
  PROVE  decoder.state = "complete" /\ events = << >>
<1>1. events \in Seq(Frame)
  BY DEF TypeOK
<1>2. events = << >>
  <2> SUFFICES ASSUME events # << >> PROVE FALSE
    OBVIOUS
  <2>1. PICK e \in DecoderState : <<d, Head(events), e>> \in Decoding
    BY <1>1, PathHead DEF Replays
  <2>2. Accepts(d, Head(events)) /\ Head(events) \in Frame
    BY <2>1 DEF Decoding
  <2>3. QED
    BY <2>2, Consumed
<1>3. decoder = d
  BY <1>2, PathEmpty DEF Replays
<1>4. QED
  BY <1>2, <1>3

\* A step that takes nothing from the queue leaves the client where it was, or on
\* its way out.
LEMMA HeardStays ==
  ASSUME Heard, UNCHANGED <<events, decoder>>,
         UNCHANGED <<cpc, plan, staged>> \/ cpc' \in Leaving
  PROVE  Heard'
<1>1. PICK d \in DecoderState : Replays(d, events, decoder) /\ Hears(d)
  BY DEF Heard
<1>2. Hears(d)'
  BY <1>1 DEF Hears, Leaving
<1>3. QED
  BY <1>1, <1>2 DEF Heard

\* A step that takes an event brings the client to where the decoder was after it.
LEMMA HeardTakes ==
  ASSUME TypeOK, Heard, NEW type, Take(type),
         \A d, e \in DecoderState :
           Hears(d) /\ Accepts(d, Head(events)) /\ e = Consume(d, Head(events)) => Hears(e)'
  PROVE  Heard'
<1>1. events # << >> /\ UNCHANGED decoder /\ events' = Tail(events)
  BY DEF Take
<1>2. PICK d \in DecoderState :
        /\ Hears(d) /\ Accepts(d, Head(events)) /\ Head(events) \in Frame
        /\ Replays(Consume(d, Head(events)), Tail(events), decoder)
  BY <1>1, NextHeard
<1>3. PICK e \in DecoderState : e = Consume(d, Head(events))
  BY <1>2, ConsumeType
<1>4. Hears(e)'
  BY <1>2, <1>3
<1>5. Replays(e, events', decoder')
  BY <1>1, <1>2, <1>3
<1>6. QED
  BY <1>4, <1>5 DEF Heard

\* The client's steps, each with what it waits for.
LEMMA HeardStep ==
  ASSUME TypeInv, StagedOK, Heard, Client
  PROVE  Heard'
<1>1. /\ plan \in Seq(Nat) /\ staged \in Seq(Seq(Data)) /\ decoder \in DecoderState
      /\ events \in Seq(Frame) /\ inbox \in Seq(Frame) /\ TypeOK
      /\ Len(plan) \in Nat /\ Len(staged) \in Nat
  BY DEF TypeInv, TypeOK, Manifest
<1>2. CASE /\ UNCHANGED <<events, decoder>>
           /\ UNCHANGED <<cpc, plan, staged>> \/ cpc' \in Leaving
  BY <1>2, HeardStays
<1>3. CASE DecodeFrame
  <2>1. PICK d \in DecoderState : Replays(d, events, decoder) /\ Hears(d)
    BY DEF Heard
  <2>2. Head(inbox) \in Frame /\ decoder' \in DecoderState
    BY <1>1, <1>3, HeadTailType, ConsumeType DEF DecodeFrame
  <2>3. <<decoder, Head(inbox), decoder'>> \in Decoding
    BY <1>1, <1>3, <2>2 DEF DecodeFrame, Decoding
  <2>4. Replays(d, events', decoder')
    BY <1>1, <1>3, <2>1, <2>2, <2>3, PathAppend DEF DecodeFrame, Replays
  <2>5. Hears(d)'
    BY <1>3, <2>1 DEF DecodeFrame, Hears
  <2>6. QED
    BY <2>4, <2>5 DEF Heard
<1>4. ASSUME NEW type, Take(type)
      PROVE  Head(events) \in Frame /\ Head(events).type = type /\ UNCHANGED decoder
  BY <1>1, <1>4, HeadTailType DEF Take
<1>5. CASE ReceiveManifest
  <2>1. /\ Take("manifest") /\ cpc = "manifest" /\ plan' = Head(events).manifest
        /\ cpc' = IF plan' = << >> THEN "complete" ELSE "inspect"
    BY <1>5 DEF ReceiveManifest
  <2>2. ASSUME NEW d \in DecoderState, NEW e \in DecoderState, Hears(d), Accepts(d, Head(events)),
               e = Consume(d, Head(events))
        PROVE  Hears(e)'
    <3>1. e.state = "between-files" /\ e.manifest = plan' /\ e.next = 0
      BY <1>4, <2>1, <2>2, Consumed DEF Hears
    <3>2. QED
      BY <2>1, <3>1 DEF Hears
  <2>3. QED
    BY <1>1, <2>1, <2>2, HeardTakes
<1>6. CASE InspectDestination \/ CreateStage
  <2>1. PICK d \in DecoderState : Replays(d, events, decoder) /\ Hears(d)
    BY DEF Heard
  <2>2. /\ UNCHANGED <<events, decoder, plan, staged>>
        /\ \/ cpc = "inspect" /\ cpc' = "stage"
           \/ cpc = "stage" /\ cpc' = IF plan = << >> THEN "publish" ELSE "file"
    BY <1>6 DEF InspectDestination, CreateStage, readerVars
  <2>3. cpc = "stage" => Len(staged) = 0
    BY DEF StagedOK
  <2>4. Hears(d)'
    BY <2>1, <2>2, <2>3 DEF Hears
  <2>5. QED
    BY <2>1, <2>2, <2>4 DEF Heard
<1>7. CASE ReceiveFileStart
  <2>1. /\ Take("file-start") /\ cpc = "file" /\ cpc' = "chunks" /\ UNCHANGED plan
        /\ Len(staged') = Len(staged) + 1
    BY <1>1, <1>7 DEF ReceiveFileStart
  <2>2. ASSUME NEW d \in DecoderState, NEW e \in DecoderState, Hears(d), Accepts(d, Head(events)),
               e = Consume(d, Head(events))
        PROVE  Hears(e)'
    <3>1. e.state = "file" /\ e.manifest = plan /\ e.next = Len(staged)
      BY <1>4, <2>1, <2>2, Consumed DEF Hears
    <3>2. QED
      BY <2>1, <3>1 DEF Hears
  <2>3. QED
    BY <1>1, <2>1, <2>2, HeardTakes
<1>8. CASE ReceiveFileChunk
  <2>1. /\ Take("file-chunk") /\ cpc = "chunks" /\ UNCHANGED <<cpc, plan>>
        /\ Len(staged') = Len(staged)
    BY <1>1, <1>8 DEF ReceiveFileChunk
  <2>2. ASSUME NEW d \in DecoderState, NEW e \in DecoderState, Hears(d), Accepts(d, Head(events)),
               e = Consume(d, Head(events))
        PROVE  Hears(e)'
    <3>1. e.state = "file" /\ e.manifest = plan /\ e.next + 1 = Len(staged)
      BY <1>4, <2>1, <2>2, Consumed DEF Hears
    <3>2. QED
      BY <2>1, <3>1 DEF Hears
  <2>3. QED
    BY <1>1, <2>1, <2>2, HeardTakes
<1>9. CASE ReceiveFileEnd
  <2>1. /\ Take("file-end") /\ cpc = "chunks" /\ UNCHANGED <<plan, staged>>
        /\ cpc' = AfterFileEnd \/ cpc' \in Leaving
    BY <1>9 DEF ReceiveFileEnd, Leave, Leaving
  <2>2. ASSUME NEW d \in DecoderState, NEW e \in DecoderState, Hears(d), Accepts(d, Head(events)),
               e = Consume(d, Head(events))
        PROVE  Hears(e)'
    <3>1. e.state = "between-files" /\ e.manifest = plan /\ e.next = Len(staged)
      BY <1>4, <2>1, <2>2, Consumed DEF Hears
    <3>2. QED
      BY <2>1, <3>1 DEF Hears, AfterFileEnd, Leaving
  <2>3. QED
    BY <1>1, <2>1, <2>2, HeardTakes
<1>10. CASE ReceiveComplete
  <2>1. Take("complete") /\ cpc' = "end-of-stream"
    BY <1>10 DEF ReceiveComplete
  <2>2. ASSUME NEW d \in DecoderState, NEW e \in DecoderState, Hears(d), Accepts(d, Head(events)),
               e = Consume(d, Head(events))
        PROVE  Hears(e)'
    <3>1. e.state = "complete"
      BY <1>4, <2>1, <2>2, Consumed
    <3>2. QED
      BY <2>1, <3>1 DEF Hears
  <2>3. QED
    BY <1>1, <2>1, <2>2, HeardTakes
<1>11. CASE ReceiveEndOfStream /\ cpc' \notin Leaving
  <2>1. PICK d \in DecoderState : Replays(d, events, decoder) /\ Hears(d)
    BY DEF Heard
  <2>2. /\ cpc = "end-of-stream" /\ UNCHANGED <<events, decoder, plan>>
        /\ cpc' = "publish" \/ (cpc' = "inspect" /\ plan = << >>)
    BY <1>11 DEF ReceiveEndOfStream, readerVars, Leave, Leaving
  <2>3. Hears(d)'
    BY <2>1, <2>2 DEF Hears
  <2>4. QED
    BY <2>1, <2>2, <2>3 DEF Heard
<1>12. CASE ReceivePullError
  <2>1. Take("pull-error") /\ cpc' \in Leaving
    BY <1>12 DEF ReceivePullError, Leave, Leaving
  <2>2. \A e \in DecoderState : Hears(e)'
    BY <2>1 DEF Hears, Leaving
  <2>3. QED
    BY <1>1, <2>1, <2>2, HeardTakes
<1>13. QED
  BY <1>2, <1>3, <1>5, <1>6, <1>7, <1>8, <1>9, <1>10, <1>11, <1>12
  DEF Client, RefuseFrame, DestinationExists, ReceiveUnexpected, ReceiveEndOfStream,
      ClientReadFails, Publish, PublishRefused, RemoveStage, Report, ClientFails, Leave, Leaving,
      readerVars

\* The destination is the client's only at the end, and stays what it was.
LEMMA MatchesStep ==
  ASSUME AnyInv, Client
  PROVE  DoneWithIt' /\ PublishedMatchesManifest'
<1>1. TypeOK /\ StagedOK /\ Heard /\ DoneWithIt /\ PublishedMatchesManifest
  BY DEF AnyInv, TypeInv
<1>2. CASE Publish
  <2>1. PICK d \in DecoderState : Replays(d, events, decoder) /\ Hears(d)
    BY <1>1 DEF Heard
  <2>2. decoder.state = "complete"
    BY <1>1, <1>2, <2>1, NothingFollows DEF Publish, Hears
  <2>3. dest'.files = Atomic!PlannedContent(plan)
    BY <1>1, <1>2, PublishesPlan
  <2>4. UNCHANGED <<decoder, plan>> /\ cpc' \in Leaving
    BY <1>2 DEF Publish, readerVars, Leaving
  <2>5. QED
    BY <2>2, <2>3, <2>4 DEF DoneWithIt, PublishedMatchesManifest, Atomic!PlannedContent
<1>3. CASE ~Publish
  <2>1. UNCHANGED dest
    BY <1>3 DEF Client, DecodeFrame, RefuseFrame, ClientFails, ReceiveManifest, InspectDestination,
       DestinationExists, CreateStage, ReceiveFileStart, ReceiveFileChunk, ReceiveFileEnd,
       ReceiveComplete, ReceiveEndOfStream, ReceivePullError, ReceiveUnexpected, ClientReadFails,
       PublishRefused, RemoveStage, Report
  <2>2. Reading => cpc \notin Leaving
    BY <1>1 DEF Reading, Expected, Leaving, TypeOK, ClientPositions
  <2>3. cpc \in Leaving => cpc' \in Leaving /\ UNCHANGED <<decoder, plan>>
    BY <1>3, <2>2 DEF Client, DecodeFrame, RefuseFrame, ReceiveManifest, InspectDestination,
       DestinationExists, CreateStage, ReceiveFileStart, ReceiveFileChunk, ReceiveFileEnd,
       ReceiveComplete, ReceiveEndOfStream, ReceivePullError, ReceiveUnexpected, ClientReadFails,
       PublishRefused, RemoveStage, Report, Leaving, readerVars
  <2>4. QED
    BY <1>1, <2>1, <2>3 DEF DoneWithIt, PublishedMatchesManifest, Atomic!PlannedContent
<1>4. QED
  BY <1>2, <1>3

\* The steps of everybody else leave the client alone, or end it.
LEMMA AnyInvElsewhere ==
  ASSUME AnyInv, TypeInv', UNCHANGED <<decoder, events, plan>>,
         UNCHANGED <<cpc, staged>> \/ cpc' \in Leaving,
         dest' = dest \/ dest' = Foreign
  PROVE  AnyInv'
<1>1. Heard'
  BY HeardStays DEF AnyInv
<1>2. StagedOK'
  BY DEF AnyInv, StagedOK, Compared, Leaving
<1>3. DoneWithIt' /\ PublishedMatchesManifest'
  BY DEF AnyInv, DoneWithIt, PublishedMatchesManifest, Atomic!PlannedContent, Foreign, Leaving
<1>4. QED
  BY <1>1, <1>2, <1>3 DEF AnyInv

\* Each step of the client, of the bridge and of the world keeps the invariant.
LEMMA AnyInvStep == AnyInv /\ [NextAnyBridge]_vars => AnyInv'
<1> SUFFICES ASSUME AnyInv, [NextAnyBridge]_vars PROVE AnyInv'
  OBVIOUS
<1>1. TypeInv /\ TypeOK /\ StagedOK /\ Heard
  BY DEF AnyInv, TypeInv
<1>2. CASE Client
  BY <1>1, <1>2, TypeInvClient, StagedStep, HeardStep, MatchesStep DEF AnyInv
<1>3. CASE OtherBridgeSends
  <2>1. PICK f \in Frame : Send(f)
    BY <1>3, FramesAssumption DEF OtherBridgeSends
  <2>2. TypeInv'
    BY <1>1, <1>3, <2>1, SendType
    DEF OtherBridgeSends, TypeInv, TypeOK, CursorOK, OpenedOK, FileCount, sourceVars, serverVars,
        clientVars, readerVars
  <2>3. QED
    BY <1>3, <2>2, AnyInvElsewhere DEF OtherBridgeSends, clientVars, readerVars
<1>4. CASE Deliver \/ ConnectionLost \/ DestinationCreated \/ ClientCrashes \/ LocalFailure
  <2>1. TypeInv'
    BY <1>1, <1>4, TypeInvWorld DEF Environment
  <2>2. QED
    BY <1>4, <2>1, AnyInvElsewhere
    DEF Deliver, ConnectionLost, DestinationCreated, ClientCrashes, LocalFailure, ClientFails, Leave,
        Leaving, clientVars, readerVars
<1>5. CASE ClientDeadline
  <2>1. TypeInv'
    BY <1>1, <1>5, TypeInvWorld DEF Environment
  <2>2. QED
    BY <1>5, <2>1, AnyInvElsewhere DEF ClientDeadline, Leave, Leaving, readerVars
<1>6. CASE UNCHANGED vars
  BY <1>1, <1>6, TypeInvStutters, AnyInvElsewhere DEF vars, clientVars, readerVars
<1>7. QED
  BY <1>2, <1>3, <1>4, <1>5, <1>6 DEF NextAnyBridge

\* Nothing has been heard before the first frame.
LEMMA AnyInvInit == Init => AnyInv
<1> SUFFICES ASSUME Init PROVE AnyInv
  OBVIOUS
<1>1. TypeInv
  BY InitTypeInv
<1>2. decoder \in DecoderState /\ Hears(decoder)
  BY <1>1 DEF TypeInv, TypeOK, Init, Hears, NewDecoder
<1>3. Replays(decoder, events, decoder)
  BY <1>2, PathEmpty DEF Init, Replays
<1>4. StagedOK /\ DoneWithIt /\ PublishedMatchesManifest
  BY DEF Init, StagedOK, DoneWithIt, PublishedMatchesManifest, Absent, Foreign
<1>5. QED
  BY <1>1, <1>2, <1>3, <1>4 DEF AnyInv, Heard

\* In front of any bridge at all, whatever frames it sends, the client's decoder,
\* its position and what it has staged stay related as AnyInv says.
THEOREM AnyInvariance == SpecAnyBridge => []AnyInv
  BY AnyInvInit, AnyInvStep, PTL DEF SpecAnyBridge

\* What is published matches the manifest that was received, and the response was
\* complete, whatever the peer sent (writeEntry, makeRemoteRead,
\* finishPullResponse).
THEOREM MatchesManifest == SpecAnyBridge => []PublishedMatchesManifest
<1>1. AnyInv => PublishedMatchesManifest
  BY DEF AnyInv
<1>2. QED
  BY <1>1, AnyInvariance, PTL

\* Every event the decoder lets through is one the client waits for when it comes
\* to it: sessions.ts on one side, pull-response.ts and materialize.ts on the
\* other speak one grammar.
THEOREM DecoderAnticipates == SpecAnyBridge => []DecoderAnticipatesClient
<1>1. AnyInv => DecoderAnticipatesClient
  <2> SUFFICES ASSUME AnyInv, Reading, events # << >>, Head(events).type # "pull-error"
               PROVE  Awaited(Head(events))
    BY DEF DecoderAnticipatesClient
  <2>1. TypeOK /\ StagedOK /\ Heard /\ plan \in Seq(Nat) /\ Len(plan) \in Nat /\ Len(staged) \in Nat
    BY DEF AnyInv, TypeInv, TypeOK, Manifest
  <2>2. PICK d \in DecoderState :
          Hears(d) /\ Accepts(d, Head(events)) /\ Head(events) \in Frame
    BY <2>1, NextHeard
  <2>3. /\ cpc \in {"manifest", "file", "chunks", "complete", "end-of-stream"}
        /\ cpc = "manifest" => Expected(cpc) = {"manifest"}
        /\ cpc = "file" => Expected(cpc) = {"file-start"}
        /\ cpc = "chunks" => Expected(cpc) = {"file-chunk", "file-end"}
        /\ cpc = "complete" => Expected(cpc) = {"complete"}
    BY <2>1 DEF Reading, Expected, TypeOK, ClientPositions
  <2>4. cpc = "file" => Len(staged) < Len(plan)
    BY <2>1 DEF StagedOK
  <2>5. CASE cpc = "manifest"
    BY <2>2, <2>3, <2>5, Consumed DEF Hears, Awaited
  <2>6. CASE cpc = "file"
    <3>1. /\ d.state = "between-files" /\ d.manifest = plan /\ d.next = Len(staged)
          /\ d.next # Len(plan)
      BY <2>1, <2>2, <2>4, <2>6 DEF Hears
    <3>2. /\ Head(events).type = "file-start" /\ Head(events).file = Len(staged) + 1
          /\ Head(events).size = plan[Len(staged) + 1]
      BY <2>2, <3>1, Consumed
    <3>3. QED
      BY <2>3, <2>6, <3>2 DEF Awaited
  <2>7. CASE cpc = "chunks"
    BY <2>2, <2>3, <2>7, Consumed DEF Hears, Awaited
  <2>8. CASE cpc = "complete"
    <3>1. d.state = "between-files" /\ ~(d.next < Len(d.manifest))
      BY <2>1, <2>2, <2>8 DEF Hears
    <3>2. Head(events).type = "complete"
      BY <2>2, <3>1, Consumed
    <3>3. QED
      BY <2>3, <2>8, <3>2 DEF Awaited
  <2>9. CASE cpc = "end-of-stream"
    BY <2>2, <2>9, Consumed DEF Hears
  <2>10. QED
    BY <2>3, <2>5, <2>6, <2>7, <2>8, <2>9
<1>2. QED
  BY <1>1, AnyInvariance, PTL
=============================================================================
