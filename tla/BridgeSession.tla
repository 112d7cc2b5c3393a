--------------------------- MODULE BridgeSession ---------------------------
(***************************************************************************)
(* The bridge's accept workers and the run and pull commands that connect  *)
(* to it (bridge/server.ts, bridge/session-handlers.ts, bridge/client.ts): *)
(* connecting and its one retry, the request, authentication and expiry,   *)
(* rejection, the root banner, the response of a run, and the ways each    *)
(* side learns that the other has gone.                                    *)
(*                                                                         *)
(* A session is one attempt of one command that got as far as a stream; it *)
(* carries frames both ways, each way through a window, and a frame is     *)
(* acknowledged when the peer's QUIC stack has it, read or not.  What a    *)
(* pull answers is one opaque frame here; PullTransfer has the rest.       *)
(***************************************************************************)
EXTENDS Integers, Sequences, FiniteSets

CONSTANTS
  Clients,      \* invocations of run and pull
  Operations,   \* which of the two they are
  Workers,      \* sessions the bridge handles at a time
  MaxAttempts,  \* connections a command tries
  RequestWindow,  \* frames the request stream buffers before a write blocks
  ResponseWindow, \* the same of the response
  Outputs       \* what a script may write: frames of stdout, then of stderr

ASSUME OperationsAssumption == Operations \subseteq {"run", "pull"}
ASSUME WorkersAssumption == Workers \in Nat \ {0}
ASSUME MaxAttemptsAssumption == MaxAttempts \in Nat \ {0}
(* A rejection always fits: it is a small frame and the end of the stream. *)
ASSUME RequestWindowAssumption == RequestWindow \in Nat \ {0}
ASSUME ResponseWindowAssumption == ResponseWindow \in Nat /\ ResponseWindow >= 2
ASSUME OutputsAssumption == Outputs \subseteq Seq({"stdout", "stderr"})

VARIABLES
  client,         \* the state of each command
  handler,        \* the bridge's side of each session
  open,           \* is the session's connection open
  up, upInbox,    \* request frames: unacknowledged, and unread
  down, downInbox,\* response frames: unacknowledged, and unread
  keyExpired,     \* the bridge's clock has passed the key's deadline
  pendingBanner,  \* the banner is still to be sent
  bannerLost      \* a deadline struck while a handler was sending it

streams == <<open, up, upInbox, down, downInbox>>
bridge  == <<handler, keyExpired, pendingBanner, bannerLost>>
vars    == <<client, handler, streams, keyExpired, pendingBanner, bannerLost>>

Sessions == Clients \X (1..MaxAttempts)
Session(c) == <<c, client[c].attempt>>

EndOfStream == "end-of-stream"

NewClient(op, key) ==
  [op |-> op, key |-> key, pc |-> "open", attempt |-> 1, unsent |-> << >>,
   requestFailed |-> FALSE, decoder |-> "banner", served |-> FALSE,
   output |-> << >>, result |-> "none"]

NewHandler ==
  [pc |-> "idle", decoder |-> "auth", op |-> "none", code |-> "none",
   ran |-> FALSE, output |-> << >>, unsent |-> << >>, outcome |-> "none"]

Init ==
  /\ client \in [Clients -> {NewClient(op, key) : op \in Operations,
                                                  key \in {"ours", "other"}}]
  /\ handler = [s \in Sessions |-> NewHandler]
  /\ open = [s \in Sessions |-> FALSE]
  /\ up = [s \in Sessions |-> << >>] /\ upInbox = up
  /\ down = up /\ downInbox = up
  /\ keyExpired = FALSE /\ pendingBanner = TRUE /\ bannerLost = FALSE

ClientAt(c, pc) == client[c].pc = pc
HandlerAt(s, pc) == handler[s].pc = pc

Busy == {s \in Sessions : handler[s].pc \notin {"idle", "closed"}}
-----------------------------------------------------------------------------
(* Streams.                                                                *)
Fits(sent, inbox, window) == Len(sent) + Len(inbox) < window

DeliverUp(s) ==
  /\ open[s] /\ up[s] # << >>
  /\ upInbox' = [upInbox EXCEPT ![s] = Append(@, Head(up[s]))]
  /\ up' = [up EXCEPT ![s] = Tail(@)]
  /\ UNCHANGED <<client, bridge, open, down, downInbox>>

DeliverDown(s) ==
  /\ open[s] /\ down[s] # << >>
  /\ downInbox' = [downInbox EXCEPT ![s] = Append(@, Head(down[s]))]
  /\ down' = [down EXCEPT ![s] = Tail(@)]
  /\ UNCHANGED <<client, bridge, open, up, upInbox>>

Deliver(s) == DeliverUp(s) \/ DeliverDown(s)

(* Whoever closes a connection, what was not acknowledged is lost, and what*)
(* the closing side has not read it never will.                            *)
Close(s) ==
  /\ open' = [open EXCEPT ![s] = FALSE]
  /\ up' = [up EXCEPT ![s] = << >>]
  /\ down' = [down EXCEPT ![s] = << >>]

ConnectionLost(s) ==
  /\ open[s]
  /\ Close(s)
  /\ UNCHANGED <<upInbox, downInbox, client, bridge>>
-----------------------------------------------------------------------------
(* The command, up to its request.                                         *)
ClientStep(c, pc) == client' = [client EXCEPT ![c].pc = pc]

(* The result of a command; its finalizer closes the session first.        *)
Report(c, result) ==
  /\ LET done == client[c] IN
       client' = [client EXCEPT ![c] =
         [NewClient(done.op, done.key) EXCEPT
            !.pc = "reported", !.attempt = done.attempt, !.result = result,
            !.output = IF result = "success" THEN done.output ELSE << >>]]
  /\ Close(Session(c))
  /\ downInbox' = [downInbox EXCEPT ![Session(c)] = << >>]
  /\ UNCHANGED upInbox

(* openSession: the key's own expiry, by the clock of this machine.        *)
CheckKey(c) ==
  /\ ClientAt(c, "open")
  /\ ClientStep(c, "connect")
  /\ UNCHANGED <<bridge, streams>>

KeyExpiredHere(c) ==
  /\ ClientAt(c, "open")
  /\ client' = [client EXCEPT ![c].pc = "reported", ![c].result = "expired"]
  /\ UNCHANGED <<bridge, streams>>

(* A worker accepts the connection and the command opens its stream.       *)
Connect(c) ==
  /\ ClientAt(c, "connect")
  /\ Cardinality(Busy) < Workers
  /\ LET s == Session(c) IN
       /\ open' = [open EXCEPT ![s] = TRUE]
       /\ handler' = [handler EXCEPT ![s].pc = "reading"]
  /\ client' = [client EXCEPT ![c].pc = "sending",
       ![c].unsent = <<"auth", client[c].op, EndOfStream>>]
  /\ UNCHANGED <<up, upInbox, down, downInbox, keyExpired, pendingBanner,
                 bannerLost>>

(* A transient failure is tried again, a deterministic one is not.         *)
ConnectFails(c) ==
  /\ ClientAt(c, "connect")
  /\ client' = [client EXCEPT ![c] =
       IF @.attempt < MaxAttempts
         THEN [@ EXCEPT !.attempt = client[c].attempt + 1, !.pc = "open"]
         ELSE [@ EXCEPT !.pc = "reported", !.result = "connect"]]
  /\ UNCHANGED <<bridge, streams>>

ConnectRefused(c) ==
  /\ ClientAt(c, "connect")
  /\ client' = [client EXCEPT ![c].pc = "reported", ![c].result = "connect"]
  /\ UNCHANGED <<bridge, streams>>

(* finishRequest: the two frames, the end of the stream, and the wait for  *)
(* the peer's acknowledgement.                                             *)
SendRequest(c) ==
  LET s == Session(c) IN
  /\ ClientAt(c, "sending") /\ client[c].unsent # << >>
  /\ open[s] /\ Fits(up[s], upInbox[s], RequestWindow)
  /\ up' = [up EXCEPT ![s] = Append(@, Head(client[c].unsent))]
  /\ client' = [client EXCEPT ![c].unsent = Tail(@)]
  /\ UNCHANGED <<bridge, open, upInbox, down, downInbox>>

RequestAcknowledged(c) ==
  LET s == Session(c) IN
  /\ ClientAt(c, "sending") /\ client[c].unsent = << >>
  /\ open[s] /\ up[s] = << >>
  /\ ClientStep(c, "reading")
  /\ UNCHANGED <<bridge, streams>>

(* A variant that tries the whole command again.                           *)
RequestFailsAndRetries(c) ==
  /\ ClientAt(c, "sending")
  /\ ~open[Session(c)]
  /\ client' = [client EXCEPT ![c] =
       IF @.attempt < MaxAttempts
         THEN [@ EXCEPT !.attempt = client[c].attempt + 1, !.pc = "open",
                        !.unsent = << >>]
         ELSE [@ EXCEPT !.requestFailed = TRUE, !.pc = "reading"]]
  /\ UNCHANGED <<bridge, streams>>

(* A variant that reports the failure instead of reading the response.     *)
RequestFailsAtOnce(c) ==
  /\ ClientAt(c, "sending")
  /\ ~open[Session(c)]
  /\ Report(c, "request")
  /\ UNCHANGED bridge

(* A failed request is remembered: the response may say why.               *)
RequestFails(c) ==
  /\ ClientAt(c, "sending")
  /\ ~open[Session(c)]
  /\ client' = [client EXCEPT ![c].requestFailed = TRUE, ![c].pc = "reading"]
  /\ UNCHANGED <<bridge, streams>>
-----------------------------------------------------------------------------
(* The command reads its response (collectRunResponse, pullRemote).        *)
Failure(c, why) == IF client[c].requestFailed THEN "request" ELSE why

AcceptsRunFrame(state, frame) ==
  \/ frame \in {"invalid-key", "expired-key", "banner"} /\ state = "banner"
  \/ frame = "stdout" /\ state \in {"banner", "stdout"}
  \/ frame \in {"stderr", "exit"} /\ state # "complete"

AcceptsFrame(c, frame) ==
  IF client[c].op = "run"
    THEN AcceptsRunFrame(client[c].decoder, frame)
    ELSE /\ frame \in {"invalid-key", "expired-key", "pull"}
         /\ client[c].decoder = "banner"

DecoderAfter(frame) ==
  CASE frame \in {"banner", "stdout"} -> "stdout"
    [] frame = "stderr"               -> "stderr"
    [] OTHER                          -> "complete"

NextFrame(c) == Head(downInbox[Session(c)])
Readable(c) == ClientAt(c, "reading") /\ downInbox[Session(c)] # << >>

TakeFrame(c) ==
  downInbox' = [downInbox EXCEPT ![Session(c)] = Tail(@)]

ReceiveReject(c) ==
  /\ Readable(c) /\ AcceptsFrame(c, NextFrame(c))
  /\ NextFrame(c) \in {"invalid-key", "expired-key"}
  /\ Report(c, NextFrame(c))
  /\ UNCHANGED bridge

ReceiveFrame(c) ==
  /\ Readable(c) /\ AcceptsFrame(c, NextFrame(c))
  /\ NextFrame(c) \in {"banner", "stdout", "stderr", "exit", "pull"}
  /\ TakeFrame(c)
  /\ client' = [client EXCEPT
       ![c].decoder = DecoderAfter(NextFrame(c)),
       ![c].served = @ \/ NextFrame(c) = "banner",
       ![c].output = IF NextFrame(c) \in {"stdout", "stderr"}
                       THEN Append(@, NextFrame(c)) ELSE @]
  /\ UNCHANGED <<bridge, open, up, upInbox, down>>

(* A variant that takes any end of the stream for the end of the response. *)
ReceiveAnyEnd(c) ==
  /\ ClientAt(c, "reading")
  /\ \/ Readable(c) /\ NextFrame(c) = EndOfStream
     \/ downInbox[Session(c)] = << >> /\ ~open[Session(c)]
  /\ Report(c, "success")
  /\ UNCHANGED bridge

ReceiveEnd(c) ==
  /\ Readable(c) /\ NextFrame(c) = EndOfStream
  /\ client[c].decoder = "complete"
  /\ Report(c, "success")
  /\ UNCHANGED bridge

(* What has arrived is read before the loss of the connection is noticed.  *)
ReadFails(c) ==
  /\ ClientAt(c, "reading") /\ downInbox[Session(c)] = << >>
  /\ ~open[Session(c)]
  /\ Report(c, Failure(c, "read"))
  /\ UNCHANGED bridge

ClientDeadline(c) ==
  /\ ~ClientAt(c, "reported")
  /\ Report(c, "deadline")
  /\ UNCHANGED bridge

Command(c) ==
  \/ CheckKey(c) \/ Connect(c) \/ SendRequest(c) \/ RequestAcknowledged(c)
  \/ RequestFails(c) \/ ReceiveReject(c) \/ ReceiveFrame(c) \/ ReceiveEnd(c)
  \/ ReadFails(c)
-----------------------------------------------------------------------------
(* The bridge's side of a session (handleSession).                         *)
HandlerStep(s, pc) == handler' = [handler EXCEPT ![s].pc = pc]
KeyAndBannerUnchanged == UNCHANGED <<keyExpired, pendingBanner, bannerLost>>

Reading(s) == HandlerAt(s, "reading") /\ upInbox[s] # << >>

TakeRequestFrame(s) ==
  /\ upInbox' = [upInbox EXCEPT ![s] = Tail(@)]
  /\ UNCHANGED <<client, open, up, down, downInbox>>
  /\ KeyAndBannerUnchanged

(* makeRequestSession, authenticate.                                       *)
Authenticate(s) ==
  /\ Reading(s) /\ handler[s].decoder = "auth"
  /\ handler' = [handler EXCEPT ![s] =
       IF client[s[1]].key = "ours"
         THEN [@ EXCEPT !.decoder = "request"]
         ELSE [@ EXCEPT !.pc = "reject", !.code = "invalid-key"]]
  /\ TakeRequestFrame(s)

AcceptRequest(s) ==
  /\ Reading(s) /\ handler[s].decoder = "request"
  /\ handler' = [handler EXCEPT ![s].decoder = "complete",
                                ![s].op = Head(upInbox[s])]
  /\ TakeRequestFrame(s)

(* The request is handled only once its stream has ended.                  *)
RequestEnds(s) ==
  /\ Reading(s) /\ handler[s].decoder = "complete"
  /\ HandlerStep(s, "check")
  /\ TakeRequestFrame(s)

ServerReadFails(s) ==
  /\ HandlerAt(s, "reading") /\ upInbox[s] = << >> /\ ~open[s]
  /\ HandlerStep(s, "close")
  /\ UNCHANGED <<client, streams>> /\ KeyAndBannerUnchanged

EnsureKeyNotExpired(s) ==
  /\ HandlerAt(s, "check")
  /\ handler' = [handler EXCEPT ![s] =
       IF keyExpired
         THEN [@ EXCEPT !.pc = "reject", !.code = "expired-key"]
         ELSE [@ EXCEPT !.pc = "execute"]]
  /\ UNCHANGED <<client, streams>> /\ KeyAndBannerUnchanged

(* executeShell ends with a result, be it that of its time budget; what a  *)
(* pull prepares is opaque here.                                           *)
Execute(s) ==
  /\ HandlerAt(s, "execute")
  /\ \E output \in IF handler[s].op = "run" THEN Outputs ELSE {<<"pull">>} :
       handler' = [handler EXCEPT ![s] =
         [@ EXCEPT !.ran = TRUE, !.output = output,
            !.pc = IF handler[s].op = "run" THEN "banner" ELSE "respond",
            !.unsent = output \o IF handler[s].op = "run"
                                   THEN <<"exit", EndOfStream>>
                                   ELSE <<EndOfStream>>]]
  /\ UNCHANGED <<client, streams>> /\ KeyAndBannerUnchanged

(* sendBanner takes the pending banner, in one go, before it writes it.    *)
TakeBanner(s) ==
  /\ HandlerAt(s, "banner")
  /\ HandlerStep(s, IF pendingBanner THEN "send-banner" ELSE "respond")
  /\ pendingBanner' = FALSE
  /\ UNCHANGED <<client, streams, keyExpired, bannerLost>>

WriteFrame(s, frame) ==
  /\ open[s] /\ Fits(down[s], downInbox[s], ResponseWindow)
  /\ down' = [down EXCEPT ![s] = Append(@, frame)]
  /\ UNCHANGED <<client, open, up, upInbox, downInbox>>

WriteBanner(s) ==
  /\ HandlerAt(s, "send-banner")
  /\ WriteFrame(s, "banner")
  /\ handler' = [handler EXCEPT ![s].pc = "respond", ![s].outcome = "banner"]
  /\ KeyAndBannerUnchanged

(* A variant that does not put an unsent banner back.                      *)
DropBanner(s) ==
  /\ HandlerAt(s, "send-banner") /\ ~open[s]
  /\ HandlerStep(s, "close")
  /\ UNCHANGED <<client, streams>> /\ KeyAndBannerUnchanged

BannerWriteFails(s) ==
  /\ HandlerAt(s, "send-banner") /\ ~open[s]
  /\ HandlerStep(s, "close")
  /\ pendingBanner' = TRUE
  /\ UNCHANGED <<client, streams, keyExpired, bannerLost>>

(* The frames of the response, and the end of the stream.                  *)
WriteResponse(s) ==
  /\ HandlerAt(s, "respond") /\ handler[s].unsent # << >>
  /\ WriteFrame(s, Head(handler[s].unsent))
  /\ handler' = [handler EXCEPT ![s].unsent = Tail(@)]
  /\ KeyAndBannerUnchanged

ResponseAcknowledged(s) ==
  /\ HandlerAt(s, "respond") /\ handler[s].unsent = << >>
  /\ open[s] /\ down[s] = << >>
  /\ HandlerStep(s, "close")
  /\ UNCHANGED <<client, streams>> /\ KeyAndBannerUnchanged

(* A variant whose wait for the acknowledgement outlives the connection.   *)
ResponseFailsNotAck(s) ==
  /\ HandlerAt(s, "respond") /\ ~open[s] /\ handler[s].unsent # << >>
  /\ HandlerStep(s, "close")
  /\ UNCHANGED <<client, streams>> /\ KeyAndBannerUnchanged

(* A write, or the wait for the acknowledgement, fails.                    *)
ResponseFails(s) ==
  /\ HandlerAt(s, "respond") /\ ~open[s]
  /\ HandlerStep(s, "close")
  /\ UNCHANGED <<client, streams>> /\ KeyAndBannerUnchanged

(* sendReject: the code, the end of the stream, and the acknowledgement;   *)
(* its failures are ignored.                                               *)
SendReject(s) ==
  /\ HandlerAt(s, "reject")
  /\ WriteFrame(s, handler[s].code)
  /\ HandlerStep(s, "reject-end")
  /\ KeyAndBannerUnchanged

FinishReject(s) ==
  /\ HandlerAt(s, "reject-end")
  /\ WriteFrame(s, EndOfStream)
  /\ HandlerStep(s, "reject-ack")
  /\ KeyAndBannerUnchanged

RejectAcknowledged(s) ==
  /\ HandlerAt(s, "reject-ack") /\ open[s] /\ down[s] = << >>
  /\ handler' = [handler EXCEPT ![s].pc = "close", ![s].outcome = "rejected"]
  /\ UNCHANGED <<client, streams>> /\ KeyAndBannerUnchanged

Rejecting(s) == handler[s].pc \in {"reject", "reject-end", "reject-ack"}

RejectFails(s) ==
  /\ Rejecting(s) /\ ~open[s]
  /\ HandlerStep(s, "close")
  /\ UNCHANGED <<client, streams>> /\ KeyAndBannerUnchanged

(* Effect.ensuring(session.close); the worker accepts the next session.    *)
CloseSession(s) ==
  /\ HandlerAt(s, "close")
  /\ handler' = [handler EXCEPT ![s] =
       [@ EXCEPT !.pc = "closed", !.decoder = "auth", !.op = "none",
                 !.unsent = << >>]]
  /\ Close(s)
  /\ upInbox' = [upInbox EXCEPT ![s] = << >>]
  /\ UNCHANGED <<client, downInbox>> /\ KeyAndBannerUnchanged

(* The deadlines of the request, the run, the pull and the rejection end   *)
(* the handler wherever it is.                                             *)
HandlerDeadline(s) ==
  /\ handler[s].pc \notin {"idle", "close", "closed"}
  /\ HandlerStep(s, "close")
  /\ bannerLost' = (bannerLost \/ HandlerAt(s, "send-banner"))
  /\ UNCHANGED <<client, streams, keyExpired, pendingBanner>>

KeyExpires ==
  /\ ~keyExpired
  /\ keyExpired' = TRUE
  /\ UNCHANGED <<client, handler, streams, pendingBanner, bannerLost>>

Handle(s) ==
  \/ Authenticate(s) \/ AcceptRequest(s) \/ RequestEnds(s)
  \/ ServerReadFails(s) \/ EnsureKeyNotExpired(s) \/ Execute(s)
  \/ TakeBanner(s) \/ WriteBanner(s) \/ BannerWriteFails(s)
  \/ WriteResponse(s) \/ ResponseAcknowledged(s) \/ ResponseFails(s)
  \/ SendReject(s) \/ FinishReject(s) \/ RejectAcknowledged(s)
  \/ RejectFails(s) \/ CloseSession(s)

Next ==
  \/ \E c \in Clients : \/ Command(c) \/ ConnectFails(c) \/ ConnectRefused(c)
                        \/ KeyExpiredHere(c) \/ ClientDeadline(c)
  \/ \E s \in Sessions : \/ Handle(s) \/ Deliver(s) \/ ConnectionLost(s)
                         \/ HandlerDeadline(s)
  \/ KeyExpires

Spec == Init /\ [][Next]_vars

(* Every fiber runs when it can, a command waiting for a worker gets one   *)
(* that stays free, and the network delivers what it carries.  No deadline *)
(* need fire, and no connection need be lost or refused.                   *)
Fairness ==
  /\ \A c \in Clients : WF_vars(Command(c))
  /\ \A s \in Sessions : WF_vars(Handle(s)) /\ WF_vars(Deliver(s))

FairSpec == Spec /\ Fairness
-----------------------------------------------------------------------------
(* A rejection that the bridge has seen acknowledged is what the command   *)
(* reports, although its own request may have failed by then because the   *)
(* bridge closed the connection without reading it; unless its deadline    *)
(* struck (sendReject, finishRequest and collectRunResponse).              *)
RejectionIsHeard ==
  \A c \in Clients :
    handler[Session(c)].outcome = "rejected"
      => client[c].result \in {"none", "deadline", handler[Session(c)].code}

(* "Sent requests are never replayed" (docs/design/v1.md): whatever fails, *)
(* a command's request runs at most once at the bridge.                    *)
ExecutedAtMostOnce ==
  \A c \in Clients :
    Cardinality({a \in 1..MaxAttempts : handler[<<c, a>>].ran}) <= 1

(* A command that reports success had the bridge's key, its request ran,   *)
(* and its output is the whole of what the request wrote, however the      *)
(* connection ended.                                                       *)
SuccessIsComplete ==
  \A c \in Clients : client[c].result = "success" =>
    /\ client[c].key = "ours"
    /\ handler[Session(c)].ran
    /\ client[c].op = "run" => client[c].output = handler[Session(c)].output

BannerWritten == {s \in Sessions : handler[s].outcome = "banner"}

(* "The bridge sends it once, on its first run response": two handlers     *)
(* that finish their scripts together never both send the banner, and one  *)
(* that could not be written is kept for the next run; only a handler      *)
(* whose deadline strikes while it writes the banner loses it.             *)
OneBanner ==
  /\ Cardinality(BannerWritten) <= 1
  /\ \/ pendingBanner \/ bannerLost
     \/ BannerWritten # {}
     \/ \E s \in Sessions : HandlerAt(s, "send-banner")

(* Without any deadline: every command that starts reports, whether it is  *)
(* served or refused, and although its request may be blocked by a bridge  *)
(* that has stopped reading it; and the bridge always gets back to a state *)
(* in which a worker can accept: no session holds its worker for ever.     *)
SessionsEnd ==
  /\ <>(\A c \in Clients : ClientAt(c, "reported"))
  /\ []<>(Cardinality(Busy) < Workers)
=============================================================================
