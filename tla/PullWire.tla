------------------------------ MODULE PullWire ------------------------------
(***************************************************************************)
(* The frames of a pull response and the decoder the client runs over them *)
(* (makePullResponseSession in packages/wire/src/sessions.ts).             *)
(*                                                                         *)
(* Abstraction.  A manifest is the sequence of the sizes of its regular    *)
(* files, in manifest order; directory entries carry no frames.  Sizes and *)
(* offsets are counted in chunks, and a file-chunk frame carries one of    *)
(* them.  A path is the index of its file in the manifest, a digest the    *)
(* index of the file whose planned content it is the digest of.  What a    *)
(* chunk holds is either the bytes that were planned or other bytes.       *)
(***************************************************************************)
EXTENDS Naturals, Sequences

CONSTANT MaxTransfer    \* maxTransferBytes: the bytes one response may carry

ASSUME MaxTransferAssumption == MaxTransfer \in Nat

Data == {"planned", "other"}

Manifest == Seq(Nat)

\* addFileBytes, file by file.
TotalBytes(m) ==
  LET upTo[n \in 0..Len(m)] == IF n = 0 THEN 0 ELSE upTo[n - 1] + m[n]
  IN  upTo[Len(m)]

(***************************************************************************)
(* Frames.  The last "frame" is not one: it is the end of the QUIC stream, *)
(* which the reader sees as an empty read.                                 *)
(***************************************************************************)
ManifestFrame(m)   == [type |-> "manifest", manifest |-> m]
FileStart(i, size) == [type |-> "file-start", file |-> i, size |-> size]
FileChunk(o, data) == [type |-> "file-chunk", offset |-> o, data |-> data]
FileEnd(i)         == [type |-> "file-end", digest |-> i]
CompleteFrame      == [type |-> "complete"]
PullErrorFrame     == [type |-> "pull-error"]
EndOfStream        == [type |-> "end-of-stream"]

Frame ==
  [type : {"manifest"}, manifest : Manifest]
  \cup [type : {"file-start"}, file : Nat, size : Nat]
  \cup [type : {"file-chunk"}, offset : Nat, data : Data]
  \cup [type : {"file-end"}, digest : Nat]
  \cup [type : {"complete", "pull-error", "end-of-stream"}]

(***************************************************************************)
(* The decoder's closure variables.  `next' counts the files ended so far, *)
(* `received' the chunks of the current file, `transferred' all of them.   *)
(***************************************************************************)
DecoderState ==
  [state       : {"manifest", "between-files", "file", "complete"},
   manifest    : Manifest,
   next        : Nat,
   received    : Nat,
   transferred : Nat]

NewDecoder ==
  [state |-> "manifest", manifest |-> << >>, next |-> 0, received |-> 0,
   transferred |-> 0]

AcceptsFailure(d, f) ==
  /\ f.type = "pull-error"
  /\ d.state # "complete"

AcceptsManifest(d, f) ==
  /\ f.type = "manifest"
  /\ d.state = "manifest"

\* A variant that takes the file's word for which file it is.
AcceptsAnyFileStart(d, f) ==
  /\ f.type = "file-start"
  /\ d.state = "between-files"
  /\ d.next < Len(d.manifest)
  /\ f.size = d.manifest[d.next + 1]

AcceptsFileStart(d, f) ==
  /\ f.type = "file-start"
  /\ d.state = "between-files"
  /\ d.next < Len(d.manifest)
  /\ f.file = d.next + 1
  /\ f.size = d.manifest[d.next + 1]

AcceptsComplete(d, f) ==
  /\ f.type = "complete"
  /\ d.state = "between-files"
  /\ d.next = Len(d.manifest)
  /\ d.transferred = TotalBytes(d.manifest)

AcceptsFileChunk(d, f) ==
  /\ f.type = "file-chunk"
  /\ d.state = "file"
  /\ f.offset = d.received
  /\ d.received + 1 <= d.manifest[d.next + 1]
  /\ d.transferred + 1 <= MaxTransfer

AcceptsFileEnd(d, f) ==
  /\ f.type = "file-end"
  /\ d.state = "file"
  /\ d.received = d.manifest[d.next + 1]
  /\ f.digest = d.next + 1

(***************************************************************************)
(* consume(frame): whether the frame is accepted, and the state after it.  *)
(***************************************************************************)
Accepts(d, f) ==
  \/ AcceptsFailure(d, f)
  \/ AcceptsManifest(d, f)
  \/ AcceptsFileStart(d, f)
  \/ AcceptsComplete(d, f)
  \/ AcceptsFileChunk(d, f)
  \/ AcceptsFileEnd(d, f)

Consume(d, f) ==
  CASE f.type = "manifest" ->
         [d EXCEPT !.state = "between-files", !.manifest = f.manifest]
    [] f.type = "file-start" ->
         [d EXCEPT !.state = "file", !.received = 0]
    [] f.type = "file-chunk" ->
         [d EXCEPT !.received = @ + 1, !.transferred = @ + 1]
    [] f.type = "file-end" ->
         [d EXCEPT !.state = "between-files", !.next = @ + 1]
    [] OTHER ->
         [d EXCEPT !.state = "complete"]
=============================================================================
