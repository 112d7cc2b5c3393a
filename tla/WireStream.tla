----------------------------- MODULE WireStream -----------------------------
(***************************************************************************)
(* Frames as bytes: how a message is encoded, how a stream that arrives in *)
(* arbitrary pieces is cut into frames again, decoded and handed over      *)
(* event by event (codec.ts, reader.ts and sessions.ts of the package      *)
(* wire, channel.ts of the bridge).                                        *)
(*                                                                         *)
(* Abstraction.  A stream is a sequence of units.  A length takes one unit *)
(* instead of four bytes, the text of a header one unit; a header says     *)
(* whether it is text, whose protocol it speaks, its type and whether its  *)
(* fields match the schema of the type.                                    *)
(***************************************************************************)
EXTENDS PullWire, SequencesExt

CONSTANTS MaxFrameUnits,      \* maximumFrameBytes
          MaxFrames,          \* maxFramesPerSession
          MaxOutput,          \* maxOutputBytes, of the shell as of the session
          ChunkUnits,         \* responseChunkBytes
          Capability,         \* the secret of the bridge's key
          Results,            \* what scripts print
          Manifests,          \* what is pulled
          Requests,           \* what commands ask for
          Junk                \* units that may stand in the place of others

VARIABLES stream,             \* its session, what its sender meant, its units, their fate
          rest,               \* the units that have not arrived
          reader,             \* the reader and the session behind it
          queue,              \* #events: decoded and not yet taken
          heard,              \* the events the caller has got
          outcome             \* "none", "ended" or why reading failed

vars == <<stream, rest, reader, queue, heard, outcome>>

\* The units of a stream.  Bytes of a text, or of a file, are large as a length.
Number(n) == <<"number", n>>
Text(h) == <<"text", h>>
Byte(b) == <<"byte", b>>
ValueOf(unit) == IF unit[1] = "number" THEN unit[2] ELSE MaxFrameUnits + 1

Types == {"auth", "banner", "complete", "exit", "file-chunk", "file-end", "file-start",
          "manifest", "pull", "pull-error", "reject", "run", "stderr", "stdout"}
Message(type, field, payload) == [type |-> type, field |-> field, payload |-> payload]
\* A field of a header; the fields of a pull's frames are those of PullWire.
Field(value) == [type |-> value]
Bad == Field("bad")
\* A header of this program; its field is Bad where the schema of the type refuses it.
Header(type, field) == [form |-> "json", protocol |-> "ours", type |-> type, field |-> field]
More == Header("more", Field("text"))
\* The text of a header: a manifest takes one more unit for every entry.
Length(header) == 1 + (IF header.type = "manifest" THEN Len(header.field.manifest) ELSE 0)
HeaderText(header) == [n \in 1..Length(header) |-> Text(IF n = 1 THEN header ELSE More)]
-----------------------------------------------------------------------------
\* encodeFrame: why a message is refused, or "none", and the units of its frame.
Carries == {"stdout", "stderr", "file-chunk"}
BodyUnits(m) == 1 + Length(Header(m.type, m.field)) + Len(m.payload)
EncodeProblem(m) ==
  IF m.type \in Carries /\ m.payload = <<>> THEN "illegal"
  ELSE IF m.field = Bad THEN "schema"
  ELSE IF BodyUnits(m) > MaxFrameUnits THEN "too-large"
  ELSE "none"
Encode(m) ==
  LET text == HeaderText(Header(m.type, m.field)) IN
  <<Number(BodyUnits(m)), Number(Len(text))>> \o text \o [n \in DOMAIN m.payload |-> Byte(m.payload[n])]

\* decodeFrameEnvelope and decodeFrameBody: the header with its payload, or a reason.
Undecoded(reason) == [reason |-> reason]
EnvelopeProblem(body) ==
  LET length == ValueOf(body[1])
      text == SubSeq(body, 2, 1 + length)
      header == text[1][2]
  IN IF length = 0 \/ length > Len(body) - 1 THEN "header"
     ELSE IF text[1][1] # "text" \/ header = More THEN "schema"
     ELSE IF header.form = "binary" THEN "utf8"
     ELSE IF header.form # "json" \/ text # HeaderText(header) THEN "schema"
     ELSE IF header.protocol # "ours" THEN "protocol"
     ELSE IF header.type \notin Types THEN "unknown-type"
     ELSE "none"
HeaderOf(body) == body[2][2]
Payload(body) == SubSeq(body, 2 + ValueOf(body[1]), Len(body))
DecodeBody(body) ==
  IF EnvelopeProblem(body) # "none" THEN Undecoded(EnvelopeProblem(body))
  ELSE IF HeaderOf(body).field = Bad THEN Undecoded("schema")
  ELSE [reason |-> "none", header |-> HeaderOf(body), payload |-> Payload(body)]

\* A request is decoded no further than its place in the session allows.
DecodeRequest(body, state) ==
  LET type == HeaderOf(body).type IN
  IF EnvelopeProblem(body) # "none" THEN Undecoded(EnvelopeProblem(body))
  ELSE IF \/ state = "auth" /\ type # "auth"
          \/ state = "request" /\ type \notin {"run", "pull"}
          \/ state = "complete"
  THEN Undecoded("illegal")
  ELSE DecodeBody(body)
-----------------------------------------------------------------------------
\* The sessions: what a frame does to their state and the event it is, or a
\* reason.  What makes a frame illegal (its place, payload, offset) is not told apart.
Refuse(reason) == [reason |-> reason]
Accept(state, output, events) ==
  [reason |-> "none", state |-> state, output |-> output, events |-> events]
Event(frame) == Message(frame.header.type, frame.header.field,
                        [n \in DOMAIN frame.payload |-> frame.payload[n][2]])

ConsumeRequest(r, frame) ==
  IF frame.payload # <<>> THEN Refuse("illegal")
  ELSE IF r.state = "request" THEN Accept("complete", 0, <<Event(frame)>>)
  ELSE IF frame.header.field = Field(Capability) THEN Accept("request", 0, <<>>)
  ELSE Refuse("authentication")

Output(r, frame) == r.output + Len(frame.payload)
InOrder(r, type) ==
  CASE type \in {"reject", "banner"} -> r.state = "banner"
    [] type = "stdout" -> r.state \in {"banner", "stdout"}
    [] type \in {"stderr", "exit"} -> r.state # "complete"
    [] OTHER -> FALSE
NextState(type) ==
  CASE type \in {"reject", "exit"} -> "complete"
    [] type = "stderr" -> "stderr"
    [] OTHER -> "stdout"
ConsumeRun(r, frame) ==
  LET type == frame.header.type IN
  IF ~InOrder(r, type) \/ (type \in Carries) # (frame.payload # <<>>) THEN Refuse("illegal")
  ELSE IF Output(r, frame) > MaxOutput THEN Refuse("limit")
  ELSE Accept(NextState(type), Output(r, frame), <<Event(frame)>>)

PullFrames == {"complete", "file-chunk", "file-end", "file-start", "manifest", "pull-error"}
ConsumePull(r, frame) ==
  LET type == frame.header.type IN
  IF (type \in Carries) # (frame.payload # <<>>) THEN Refuse("illegal")
  ELSE IF type = "reject" /\ r.state.state = "manifest"
  THEN Accept([r.state EXCEPT !.state = "complete"], 0, <<Event(frame)>>)
  ELSE IF type \notin PullFrames \/ ~Accepts(r.state, frame.header.field) THEN Refuse("illegal")
  ELSE Accept(Consume(r.state, frame.header.field), 0, <<Event(frame)>>)

Decode(kind, r, body) ==
  IF kind = "request" THEN DecodeRequest(body, r.state) ELSE DecodeBody(body)
ConsumeFrame(kind, r, frame) ==
  CASE kind = "request" -> ConsumeRequest(r, frame)
    [] kind = "run" -> ConsumeRun(r, frame)
    [] kind = "pull" -> ConsumePull(r, frame)
FirstState(kind) ==
  CASE kind = "request" -> "auth" [] kind = "run" -> "banner" [] kind = "pull" -> NewDecoder
IsComplete(kind, r) == "complete" = IF kind = "pull" THEN r.state.state ELSE r.state
-----------------------------------------------------------------------------
\* The incremental reader; `need' is the size of the buffer that is being filled.
Prefix == [tag |-> "prefix", need |-> 1, bytes |-> <<>>]
NewReader(kind) ==
  [buffer |-> Prefix, frames |-> 0, state |-> FirstState(kind), output |-> 0,
   events |-> <<>>, reason |-> "none"]
FailReader(r, reason) == [r EXCEPT !.reason = reason]

StartFrame(r, length) ==
  IF length < 1 THEN FailReader(r, "length")
  ELSE IF length > MaxFrameUnits THEN FailReader(r, "too-large")
  ELSE [r EXCEPT !.buffer = [tag |-> "frame", need |-> length, bytes |-> <<>>]]

FinishFrame(kind, r, body) ==
  LET frame == Decode(kind, r, body)
      done == ConsumeFrame(kind, r, frame)
  IN IF r.frames + 1 > MaxFrames THEN FailReader(r, "limit")
     ELSE IF frame.reason # "none" THEN FailReader(r, frame.reason)
     ELSE IF done.reason # "none" THEN FailReader(r, done.reason)
     ELSE [r EXCEPT !.buffer = Prefix, !.frames = @ + 1, !.state = done.state,
                    !.output = done.output, !.events = @ \o done.events]

TakeUnit(kind, r, unit) ==
  LET bytes == Append(r.buffer.bytes, unit) IN
  IF r.reason # "none" THEN r
  ELSE IF Len(bytes) < r.buffer.need THEN [r EXCEPT !.buffer.bytes = bytes]
  ELSE IF r.buffer.tag = "prefix" THEN StartFrame(r, ValueOf(unit))
  ELSE FinishFrame(kind, r, bytes)

\* A variant that returns as soon as a frame of the chunk was an event.
PushFirst(kind, r, chunk) ==
  FoldLeft(LAMBDA q, unit : IF q.events = <<>> THEN TakeUnit(kind, q, unit) ELSE q,
           [r EXCEPT !.events = <<>>], chunk)

\* push: one chunk.
Push(kind, r, chunk) ==
  FoldLeft(LAMBDA q, unit : TakeUnit(kind, q, unit), [r EXCEPT !.events = <<>>], chunk)

\* A variant that takes any boundary between frames for the end.
FinishAtBoundary(kind, r) ==
  IF r.reason # "none" THEN r.reason
  ELSE IF r.buffer # Prefix THEN "incomplete-frame"
  ELSE "ended"

\* finish: at the end of the stream.
Finish(kind, r) ==
  IF r.reason # "none" THEN r.reason
  ELSE IF r.buffer # Prefix THEN "incomplete-frame"
  ELSE IF ~IsComplete(kind, r) THEN "incomplete-session"
  ELSE "ended"
-----------------------------------------------------------------------------
\* What the bridge and the client send.  A result of a script is what it prints
\* on both streams and the note that it looked outside the served root.
Fits(text, more) == Len(text) + Len(more) <= MaxOutput
FailedShellResult == [stdout |-> <<>>, stderr |-> <<"f">>]

\* A variant that adds the note whether or not it fits.
ShellOutcomeNoted(result) ==
  IF ~Fits(result.stdout, result.stderr) THEN FailedShellResult
  ELSE [stdout |-> result.stdout, stderr |-> result.stderr \o result.note]

\* classifyLimit, withOutsideRootNote and executeShell.
ShellOutcome(result) ==
  IF ~Fits(result.stdout, result.stderr) THEN FailedShellResult
  ELSE IF Fits(result.stdout \o result.stderr, result.note)
  THEN [stdout |-> result.stdout, stderr |-> result.stderr \o result.note]
  ELSE [stdout |-> result.stdout, stderr |-> result.stderr]

Chunked(type, bytes) ==
  [n \in 1..((Len(bytes) + ChunkUnits - 1) \div ChunkUnits) |->
     Message(type, Field("good"), SubSeq(bytes, (n - 1) * ChunkUnits + 1,
                                  IF n * ChunkUnits < Len(bytes) THEN n * ChunkUnits ELSE Len(bytes)))]
RunResponse(banner, result) ==
  (IF banner THEN <<Message("banner", Field("good"), <<>>)>> ELSE <<>>)
    \o Chunked("stdout", ShellOutcome(result).stdout)
    \o Chunked("stderr", ShellOutcome(result).stderr)
    \o <<Message("exit", Field("good"), <<>>)>>

Request(request) == <<Message("auth", Field(Capability), <<>>), request>>

PullFile(m, n) ==
  <<Message("file-start", FileStart(n, m[n]), <<>>)>>
    \o [k \in 1..m[n] |-> Message("file-chunk", FileChunk(k - 1, "planned"), <<"b">>)]
    \o <<Message("file-end", FileEnd(n), <<>>)>>
PullFailure == Message("pull-error", PullErrorFrame, <<>>)
\* handlePull: a manifest that does not fit into a frame is a pull error.
PullResponse(m) ==
  LET manifest == Message("manifest", ManifestFrame(m), <<>>) IN
  IF EncodeProblem(manifest) # "none" THEN <<PullFailure>>
  ELSE FoldLeft(LAMBDA ms, n : ms \o PullFile(m, n), <<manifest>>, [n \in DOMAIN m |-> n])
         \o <<Message("complete", CompleteFrame, <<>>)>>

Rejection == <<Message("reject", Field("good"), <<>>)>>
Sent(kind) ==
  CASE kind = "run" -> {RunResponse(b, r) : b \in BOOLEAN, r \in Results} \cup {Rejection}
    [] kind = "pull" -> {PullResponse(m) : m \in Manifests} \cup {Rejection}
    [] kind = "request" -> {Request(r) : r \in Requests}
\* sendFrame, message by message.
SendAll(ms) == FoldLeft(LAMBDA units, m : units \o Encode(m), <<>>, ms)
Meant(kind, ms) == IF kind = "request" THEN Tail(ms) ELSE ms

\* What becomes of a stream on its way, or is sent by another program.
Cut(units) == {SubSeq(units, 1, n) : n \in 0..(Len(units) - 1)}
Spoilt(units) == {[units EXCEPT ![n] = u] : n \in DOMAIN units, u \in Junk}
Extended(units) == {Append(units, u) : u \in Junk} \cup {units \o Encode(PullFailure)}
Fates(units) ==
  {<<"whole", units>>} \cup {<<"cut", u>> : u \in Cut(units)}
    \cup {<<"other", u>> : u \in Spoilt(units) \cup Extended(units)}
-----------------------------------------------------------------------------
Init ==
  /\ \E kind \in {"request", "run", "pull"} : \E ms \in Sent(kind) : \E fate \in Fates(SendAll(ms)) :
       stream = [kind |-> kind, meant |-> Meant(kind, ms), fate |-> fate[1], units |-> fate[2]]
  /\ rest = stream.units
  /\ reader = NewReader(stream.kind)
  /\ queue = <<>> /\ heard = <<>>
  /\ outcome = "none"

\* WireEventReader.next: an event that is there, the next chunk, or the end.
TakeEvent ==
  /\ outcome = "none" /\ queue # <<>>
  /\ heard' = Append(heard, Head(queue))
  /\ queue' = Tail(queue)
  /\ UNCHANGED <<stream, rest, reader, outcome>>

\* The events of a chunk that fails are not handed over.
ReadChunk ==
  /\ outcome = "none" /\ queue = <<>>
  /\ \E n \in 1..Len(rest) :
       LET r == Push(stream.kind, reader, SubSeq(rest, 1, n)) IN
       /\ rest' = SubSeq(rest, n + 1, Len(rest))
       /\ reader' = [r EXCEPT !.events = <<>>]
       /\ outcome' = r.reason
       /\ queue' = IF r.reason = "none" THEN r.events ELSE <<>>
  /\ UNCHANGED <<stream, heard>>

ReadEnd ==
  /\ outcome = "none" /\ queue = <<>> /\ rest = <<>>
  /\ outcome' = Finish(stream.kind, reader)
  /\ UNCHANGED <<stream, rest, reader, queue, heard>>

Next == TakeEvent \/ ReadChunk \/ ReadEnd
Spec == Init /\ [][Next]_vars
-----------------------------------------------------------------------------
\* The whole stream read at once: the frames one after the other.
RECURSIVE Parse(_, _, _)
Parse(kind, r, units) ==
  LET length == ValueOf(Head(units))
      body == SubSeq(units, 2, 1 + length)
      frame == Decode(kind, r, body)
      done == ConsumeFrame(kind, r, frame)
      Ends(reason) == [events |-> r.events, outcome |-> reason]
  IN IF units = <<>> THEN Ends(IF IsComplete(kind, r) THEN "ended" ELSE "incomplete-session")
     ELSE IF length = 0 THEN Ends("length")
     ELSE IF length > MaxFrameUnits THEN Ends("too-large")
     ELSE IF Len(units) < 1 + length THEN Ends("incomplete-frame")
     ELSE IF r.frames = MaxFrames THEN Ends("limit")
     ELSE IF frame.reason # "none" THEN Ends(frame.reason)
     ELSE IF done.reason # "none" THEN Ends(done.reason)
     ELSE Parse(kind, [r EXCEPT !.frames = @ + 1, !.state = done.state, !.output = done.output,
                                !.events = @ \o done.events],
                SubSeq(units, 2 + length, Len(units)))

(***************************************************************************)
(* In whatever pieces a stream arrives, the caller gets the events that    *)
(* stand in it, in order, up to the first fault (those of the chunk with   *)
(* the fault excepted), and learns the same end or the same fault.         *)
(***************************************************************************)
ChunksAreInvisible ==
  LET whole == Parse(stream.kind, NewReader(stream.kind), stream.units) IN
  /\ IsPrefix(heard \o queue, whole.events)
  /\ outcome \in {"none", whole.outcome}
  /\ outcome = "ended" => heard = whole.events

(***************************************************************************)
(* Whatever the bridge and the client send arrives: their own limits on    *)
(* frames, output and transfers keep them within those of the reader, at   *)
(* the boundary too.                                                       *)
(***************************************************************************)
LegalStreamIsHeard ==
  stream.fate = "whole" =>
    /\ outcome \in {"none", "ended"}
    /\ outcome = "ended" => heard = stream.meant

(***************************************************************************)
(* A stream that stops before its last frame is whole is never taken for a *)
(* complete one, and no request is heard before the right secret.          *)
(***************************************************************************)
TruncationIsTold ==
  /\ stream.fate = "cut" => outcome # "ended"
  /\ stream.kind = "request" /\ heard # <<>> =>
       SubSeq(stream.units, 1, 3) = Encode(Message("auth", Field(Capability), <<>>))
=============================================================================
