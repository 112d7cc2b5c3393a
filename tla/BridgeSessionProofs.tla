-------------------------- MODULE BridgeSessionProofs --------------------------
(***************************************************************************)
(* Proofs about BridgeSession, for every set of commands, any number of    *)
(* workers and attempts, any windows and whatever scripts write.           *)
(*                                                                         *)
(* A command talks over one session at a time, that of its attempt: every  *)
(* other session of it is untouched (Untouched).  What the two ends of     *)
(* that session know of each other is Talk, a predicate of the command's   *)
(* record, the handler's record and the response in flight alone: what is  *)
(* in flight continues what the command has consumed of the answer the     *)
(* handler computed, or is the rejection.  The banner is a token: pending, *)
(* or in the hands of one handler, or lost to a deadline.                  *)
(***************************************************************************)
EXTENDS BridgeSession, SequenceTheorems, FiniteSetTheorems, TLAPS

-----------------------------------------------------------------------------
(* Types.                                                                  *)
Rejections == {"invalid-key", "expired-key"}
ScriptFrame == {"stdout", "stderr"}
RequestFrame == {"auth", "run", "pull", EndOfStream}
ResponseFrame ==
  Rejections \cup ScriptFrame \cup {"banner", "exit", "pull", EndOfStream}

ClientState ==
  [op : Operations, key : {"ours", "other"},
   pc : {"open", "connect", "sending", "reading", "reported"},
   attempt : 1..MaxAttempts, unsent : Seq(RequestFrame),
   requestFailed : BOOLEAN,
   decoder : {"banner", "stdout", "stderr", "complete"}, served : BOOLEAN,
   output : Seq(ScriptFrame),
   result : {"none", "expired", "connect", "request", "read", "deadline",
             "success"} \cup Rejections]

HandlerState ==
  [pc : {"idle", "reading", "check", "execute", "banner", "send-banner",
         "respond", "reject", "reject-end", "reject-ack", "close", "closed"},
   decoder : {"auth", "request", "complete"},
   op : RequestFrame \cup {"none"}, code : Rejections \cup {"none"},
   ran : BOOLEAN, output : Seq(ScriptFrame \cup {"pull"}),
   unsent : Seq(ResponseFrame), outcome : {"none", "banner", "rejected"}]

TypeOK ==
  /\ client \in [Clients -> ClientState]
  /\ handler \in [Sessions -> HandlerState]
  /\ open \in [Sessions -> BOOLEAN]
  /\ up \in [Sessions -> Seq(RequestFrame)]
  /\ upInbox \in [Sessions -> Seq(RequestFrame)]
  /\ down \in [Sessions -> Seq(ResponseFrame)]
  /\ downInbox \in [Sessions -> Seq(ResponseFrame)]
  /\ keyExpired \in BOOLEAN
  /\ pendingBanner \in BOOLEAN
  /\ bannerLost \in BOOLEAN
-----------------------------------------------------------------------------
(* The answer of a handler whose request ran: the banner when this session *)
(* is the one that sent it, what the script wrote, and the two frames that *)
(* end a run's answer or the one that ends a pull's.                       *)
Flag(b) == IF b THEN 1 ELSE 0

Banner(h) == Flag(h.outcome = "banner")

AnswerLen(h) ==
  Banner(h) + Len(h.output) + IF h.output = <<"pull">> THEN 1 ELSE 2

Answer(h, i) ==
  IF i <= Banner(h) THEN "banner"
  ELSE IF i <= Banner(h) + Len(h.output) THEN h.output[i - Banner(h)]
  ELSE IF i = AnswerLen(h) THEN EndOfStream
  ELSE "exit"

(* How many frames of it a command has consumed.                           *)
Consumed(k) ==
  Len(k.output) + Flag(k.served) + Flag(k.decoder = "complete")

-----------------------------------------------------------------------------
(* The two ends of a command's session: k is the command, h the handler, o *)
(* whether the connection is open, di and dn the response unread and       *)
(* unacknowledged.                                                         *)
Live(k) == k.pc \in {"sending", "reading"}

(* Who has reported has closed the connection, and discards the response.  *)
ReportedTalk(k, o, di, dn) ==
  /\ ~Live(k) => ~o /\ di = << >> /\ dn = << >>
  /\ k.pc # "reported" => k.result = "none"

(* Only a command with the bridge's key gets past authentication; what has *)
(* run has left the positions before its answer.                           *)
HandlerTalk(k, h) ==
  /\ \/ h.pc \in {"check", "execute"} \/ h.ran
     \/ h.pc = "reading" /\ h.decoder # "auth"
     => k.key = "ours"
  /\ h.ran => h.pc \in {"banner", "send-banner", "respond", "close", "closed"}
  /\ h.pc \in {"banner", "send-banner", "respond"} => h.ran
  /\ h.outcome = "banner" => h.ran /\ h.pc \in {"respond", "close", "closed"}
  /\ h.pc \in {"reject", "reject-end", "reject-ack"} => h.code \in Rejections

(* The answer, from computing it to the end of its stream.                 *)
AnswerTalk(k, h, o, d) ==
  h.ran =>
    /\ h.pc \in {"banner", "send-banner"} =>
         /\ d = << >> /\ Len(h.unsent) = AnswerLen(h)
         /\ Live(k) => Consumed(k) = 0
    /\ h.pc \in {"banner", "send-banner", "respond"} =>
         /\ Len(h.unsent) <= AnswerLen(h)
         /\ \A i \in 1..Len(h.unsent) :
              h.unsent[i] = Answer(h, AnswerLen(h) - Len(h.unsent) + i)
    /\ h.pc = "respond" /\ o =>
         Consumed(k) + Len(d) + Len(h.unsent) = AnswerLen(h)
    /\ Live(k) =>
         /\ Consumed(k) + Len(d) <= AnswerLen(h)
         /\ \A i \in 1..Len(d) : d[i] = Answer(h, Consumed(k) + i)
         /\ Consumed(k) > 0 => (k.served <=> h.outcome = "banner")
         /\ k.op = "run" /\ k.decoder = "complete" => h.output # <<"pull">>
         /\ Len(k.output) <= Len(h.output)
         /\ \A i \in 1..Len(k.output) : k.output[i] = h.output[i]

(* A rejection, from its code to the end of its stream.                    *)
RejectTalk(k, h, o, di, d) ==
  /\ ~h.ran =>
       /\ h.pc \notin {"reject-end", "reject-ack", "close", "closed"} =>
            d = << >>
       /\ h.pc = "reject-end" /\ o => d = <<h.code>>
       /\ h.pc = "reject-ack" /\ o => d = <<h.code, EndOfStream>>
       /\ \A i \in 1..Len(d) : d[i] \in Rejections \cup {EndOfStream}
       /\ Live(k) => Consumed(k) = 0
  /\ h.outcome = "rejected" =>
       /\ h.pc \in {"close", "closed"} /\ ~h.ran /\ h.code \in Rejections
       /\ IF k.pc = "reported" THEN k.result \in {"deadline", h.code}
                               ELSE di # << >> /\ di[1] = h.code

SuccessTalk(k, h) ==
  k.result = "success" =>
    /\ k.key = "ours" /\ h.ran
    /\ k.op = "run" => k.output = h.output

Talk(k, h, o, di, dn) ==
  /\ ReportedTalk(k, o, di, dn)
  /\ HandlerTalk(k, h)
  /\ AnswerTalk(k, h, o, di \o dn)
  /\ RejectTalk(k, h, o, di, di \o dn)
  /\ SuccessTalk(k, h)

TalkOf(c) ==
  LET s == Session(c)
  IN  Talk(client[c], handler[s], open[s], downInbox[s], down[s])

(* A session other than that of the current attempt, or of an attempt that *)
(* is not connected yet, is as it was at the start.                        *)
Untouched(c) ==
  \A a \in 1..MaxAttempts :
    a # client[c].attempt \/ client[c].pc \in {"open", "connect"} =>
      LET s == <<c, a>>
      IN  /\ handler[s] = NewHandler /\ ~open[s]
          /\ up[s] = << >> /\ upInbox[s] = << >>
          /\ down[s] = << >> /\ downInbox[s] = << >>

(* A command that has no session has consumed nothing.                     *)
Unserved(c) ==
  client[c].pc \in {"open", "connect"} =>
    Consumed(client[c]) = 0 /\ client[c].result = "none"

(* The banner is pending, or a handler has it, and never two.              *)
HasBanner(s) == HandlerAt(s, "send-banner") \/ handler[s].outcome = "banner"

BannerToken ==
  /\ pendingBanner => \A s \in Sessions : ~HasBanner(s)
  /\ \A s, t \in Sessions : HasBanner(s) /\ HasBanner(t) => s = t
  /\ pendingBanner \/ bannerLost \/ \E s \in Sessions : HasBanner(s)

Conversations == \A c \in Clients : Untouched(c) /\ Unserved(c) /\ TalkOf(c)

IInv == TypeOK /\ Conversations /\ BannerToken
-----------------------------------------------------------------------------
(* Sequences: a stream is what is unread followed by what is in flight.    *)

\* Delivering a frame moves it within the stream.
LEMMA Delivered ==
  ASSUME NEW S, NEW a \in Seq(S), NEW b \in Seq(S), b # << >>
  PROVE  /\ Append(a, Head(b)) \in Seq(S) /\ Tail(b) \in Seq(S)
         /\ Append(a, Head(b)) # << >>
         /\ Append(a, Head(b)) \o Tail(b) = a \o b
         /\ a # << >> => Append(a, Head(b))[1] = a[1]
<1>1. Head(b) \in S /\ Tail(b) \in Seq(S)
  BY HeadTailProperties
<1>2. Append(a, Head(b)) \in Seq(S) /\ Append(a, Head(b)) # << >>
  BY <1>1, AppendProperties
<1>3. Append(a, Head(b)) = a \o <<Head(b)>>
  BY <1>1, AppendIsConcat
<1>4. <<Head(b)>> \o Tail(b) = b
  BY <1>1
<1>5. (a \o <<Head(b)>>) \o Tail(b) = a \o (<<Head(b)>> \o Tail(b))
  BY <1>1, ConcatAssociative
<1>6. a # << >> => Append(a, Head(b))[1] = a[1]
  BY <1>1, AppendProperties
<1>7. QED
  BY <1>1, <1>2, <1>3, <1>4, <1>5, <1>6

\* A frame written is the last of the stream.
LEMMA Written ==
  ASSUME NEW S, NEW a \in Seq(S), NEW b \in Seq(S), NEW f \in S
  PROVE  /\ Append(b, f) \in Seq(S)
         /\ a \o Append(b, f) \in Seq(S)
         /\ Len(a \o Append(b, f)) = Len(a \o b) + 1
         /\ \A i \in 1..Len(a \o b) : (a \o Append(b, f))[i] = (a \o b)[i]
         /\ (a \o Append(b, f))[Len(a \o b) + 1] = f
<1>1. Append(b, f) = b \o <<f>> /\ Append(b, f) \in Seq(S)
  BY AppendIsConcat, AppendProperties
<1>2. a \o (b \o <<f>>) = (a \o b) \o <<f>>
  BY ConcatAssociative
<1>3. a \o b \in Seq(S)
  BY ConcatProperties
<1>4. (a \o b) \o <<f>> = Append(a \o b, f)
  BY <1>3, AppendIsConcat
<1>5. QED
  BY <1>1, <1>2, <1>3, <1>4, AppendProperties

\* A frame taken is the first of the stream.
LEMMA Taken ==
  ASSUME NEW S, NEW a \in Seq(S), NEW b \in Seq(S), a # << >>
  PROVE  /\ Tail(a) \in Seq(S) /\ Tail(a) \o b \in Seq(S)
         /\ Head(a) \in S /\ Head(a) = a[1] /\ Head(a) = (a \o b)[1]
         /\ Len(a \o b) = Len(Tail(a) \o b) + 1
         /\ \A i \in 1..Len(Tail(a) \o b) : (Tail(a) \o b)[i] = (a \o b)[i + 1]
<1>1. /\ Head(a) \in S /\ Tail(a) \in Seq(S) /\ Len(Tail(a)) = Len(a) - 1
      /\ \A i \in 1..Len(Tail(a)) : Tail(a)[i] = a[i + 1]
  BY HeadTailProperties
<1>2. /\ Tail(a) \o b \in Seq(S)
      /\ Len(Tail(a) \o b) = Len(Tail(a)) + Len(b)
      /\ \A i \in 1..Len(Tail(a)) + Len(b) : (Tail(a) \o b)[i] =
           IF i <= Len(Tail(a)) THEN Tail(a)[i] ELSE b[i - Len(Tail(a))]
  BY <1>1, ConcatProperties
<1>3. /\ Len(a \o b) = Len(a) + Len(b)
      /\ \A i \in 1..Len(a) + Len(b) : (a \o b)[i] =
           IF i <= Len(a) THEN a[i] ELSE b[i - Len(a)]
  BY ConcatProperties
<1>4. Len(a) \in Nat \ {0} /\ Len(b) \in Nat /\ Head(a) = a[1]
  OBVIOUS
<1>5. ASSUME NEW i \in 1..Len(Tail(a) \o b)
      PROVE  (Tail(a) \o b)[i] = (a \o b)[i + 1]
  BY <1>1, <1>2, <1>3, <1>4
<1>6. QED
  BY <1>1, <1>2, <1>3, <1>4, <1>5

\* What is unread is the beginning of the stream, and all of it once nothing
\* is in flight.
LEMMA Unread ==
  ASSUME NEW S, NEW a \in Seq(S), NEW b \in Seq(S)
  PROVE  /\ a \o << >> = a
         /\ Len(a) <= Len(a \o b) /\ Len(a \o b) \in Nat /\ Len(a) \in Nat
         /\ a \o b \in Seq(S)
         /\ \A i \in 1..Len(a) : a[i] = (a \o b)[i]
         /\ a \o b = << >> => a = << >> /\ b = << >>
         /\ a \o b = << >> <=> Len(a \o b) = 0
         /\ a = << >> <=> Len(a) = 0
BY ConcatProperties, ConcatEmptySeq, ConcatEqualIffEmpty

-----------------------------------------------------------------------------
(* Talk, as one end or the stream moves and the other does not.            *)

\* A flag counts for one when it is set.
LEMMA Flags ==
  \A b \in BOOLEAN : /\ Flag(b) \in {0, 1}
                     /\ Flag(b) = 1 <=> b
                     /\ Flag(b) = 0 <=> ~b
BY DEF Flag

\* Counts are numbers.
LEMMA Counts ==
  /\ \A k \in ClientState : Consumed(k) \in Nat /\ Len(k.output) \in Nat
  /\ \A h \in HandlerState :
       /\ AnswerLen(h) \in Nat /\ Len(h.output) \in Nat /\ Len(h.unsent) \in Nat
       /\ Banner(h) \in {0, 1} /\ AnswerLen(h) > Banner(h) + Len(h.output)
       /\ Banner(h) = 1 <=> h.outcome = "banner"
<1>1. ASSUME NEW k \in ClientState
      PROVE  Consumed(k) \in Nat /\ Len(k.output) \in Nat
  <2>1. k.output \in Seq(ScriptFrame)
    BY DEF ClientState
  <2>2. Len(k.output) \in Nat
    BY <2>1, LenProperties
  <2>3. k.served \in BOOLEAN
    BY DEF ClientState
  <2>4. Flag(k.served) \in {0, 1} /\ Flag(k.decoder = "complete") \in {0, 1}
    BY <2>3, Flags
  <2>5. QED
    BY <2>2, <2>4 DEF Consumed
<1>2. ASSUME NEW h \in HandlerState
      PROVE  /\ AnswerLen(h) \in Nat /\ Len(h.output) \in Nat
             /\ Len(h.unsent) \in Nat /\ Banner(h) \in {0, 1}
             /\ Banner(h) = 1 <=> h.outcome = "banner"
             /\ AnswerLen(h) > Banner(h) + Len(h.output)
  <2>1. /\ h.output \in Seq(ScriptFrame \cup {"pull"})
        /\ h.unsent \in Seq(ResponseFrame)
    BY DEF HandlerState
  <2>2. Len(h.output) \in Nat /\ Len(h.unsent) \in Nat
    BY <2>1, LenProperties
  <2>3. Banner(h) \in {0, 1} /\ (Banner(h) = 1 <=> h.outcome = "banner")
    BY Flags DEF Banner
  <2>4. CASE h.output = <<"pull">>
    BY <2>2, <2>3, <2>4 DEF AnswerLen
  <2>5. CASE h.output # <<"pull">>
    BY <2>2, <2>3, <2>5 DEF AnswerLen
  <2>6. QED
    BY <2>3, <2>4, <2>5
<1>3. QED
  BY <1>1, <1>2

\* The last frame of an answer, and no other, is the end of the stream.
LEMMA AnswerEnds ==
  ASSUME NEW h \in HandlerState, NEW i \in 1..AnswerLen(h)
  PROVE  Answer(h, i) = EndOfStream <=> i = AnswerLen(h)
<1>1. \A j \in 1..Len(h.output) : h.output[j] \in ScriptFrame \cup {"pull"}
  BY ElementOfSeq DEF HandlerState
<1>2. QED
  BY <1>1, Counts DEF Answer, ScriptFrame, EndOfStream

\* The answer and its length depend on what the script wrote and on the banner.
LEMMA AnswerKept ==
  ASSUME NEW h, NEW g, g.output = h.output,
         g.outcome = "banner" <=> h.outcome = "banner"
  PROVE  AnswerLen(g) = AnswerLen(h) /\ \A i : Answer(g, i) = Answer(h, i)
<1>1. Banner(g) = Banner(h)
  BY DEF Banner
<1>2. AnswerLen(g) = AnswerLen(h)
  BY <1>1 DEF AnswerLen
<1>3. QED
  BY <1>1, <1>2 DEF Answer

\* A loss of the connection.
LEMMA TalkClosed ==
  ASSUME NEW k \in ClientState, NEW h \in HandlerState, NEW o \in BOOLEAN,
         NEW di \in Seq(ResponseFrame), NEW dn \in Seq(ResponseFrame),
         Talk(k, h, o, di, dn)
  PROVE  Talk(k, h, FALSE, di, << >>)
<1>1. /\ di \o << >> = di /\ Len(di) <= Len(di \o dn)
      /\ Len(di \o dn) \in Nat /\ Len(di) \in Nat
      /\ \A i \in 1..Len(di) : di[i] = (di \o dn)[i]
      /\ di \o dn = << >> => di = << >>
  BY Unread
<1>2. ReportedTalk(k, FALSE, di, << >>) /\ HandlerTalk(k, h) /\ SuccessTalk(k, h)
  BY DEF Talk, ReportedTalk
<1>3. AnswerTalk(k, h, FALSE, di)
  <2>1. AnswerTalk(k, h, o, di \o dn)
    BY DEF Talk
  <2>2. SUFFICES ASSUME h.ran PROVE AnswerTalk(k, h, FALSE, di)
    BY DEF AnswerTalk
  <2>3. h.pc \in {"banner", "send-banner"} =>
          /\ di = << >> /\ Len(h.unsent) = AnswerLen(h)
          /\ Live(k) => Consumed(k) = 0
    BY <2>1, <2>2, <1>1 DEF AnswerTalk
  <2>4. Consumed(k) \in Nat /\ AnswerLen(h) \in Nat
    BY Counts
  <2>5. Live(k) => Consumed(k) + Len(di) <= AnswerLen(h)
    BY <2>1, <2>2, <2>4, <1>1 DEF AnswerTalk
  <2>6. Live(k) => \A i \in 1..Len(di) : di[i] = Answer(h, Consumed(k) + i)
    BY <2>1, <2>2, <2>4, <1>1 DEF AnswerTalk
  <2>7. QED
    BY <2>1, <2>2, <2>3, <2>5, <2>6 DEF AnswerTalk
<1>4. RejectTalk(k, h, FALSE, di, di)
  BY <1>1 DEF Talk, RejectTalk
<1>5. QED
  BY <1>1, <1>2, <1>3, <1>4 DEF Talk

\* A frame of the response arrives.
LEMMA TalkDelivered ==
  ASSUME NEW k \in ClientState, NEW h \in HandlerState, NEW o \in BOOLEAN,
         NEW di \in Seq(ResponseFrame), NEW dn \in Seq(ResponseFrame),
         Talk(k, h, o, di, dn), dn # << >>
  PROVE  Talk(k, h, o, Append(di, Head(dn)), Tail(dn))
<1>1. /\ Append(di, Head(dn)) \o Tail(dn) = di \o dn
      /\ Append(di, Head(dn)) # << >>
      /\ di # << >> => Append(di, Head(dn))[1] = di[1]
  BY Delivered
<1>2. RejectTalk(k, h, o, Append(di, Head(dn)), di \o dn)
  BY <1>1 DEF Talk, RejectTalk
<1>3. QED
  BY <1>1, <1>2 DEF Talk, ReportedTalk

\* A handler gives up, wherever it is.
LEMMA TalkAbandoned ==
  ASSUME NEW k \in ClientState, NEW h \in HandlerState, NEW o \in BOOLEAN,
         NEW di \in Seq(ResponseFrame), NEW dn \in Seq(ResponseFrame),
         Talk(k, h, o, di, dn), h.pc # "closed"
  PROVE  Talk(k, [h EXCEPT !.pc = "close"], o, di, dn)
<1> DEFINE g == [h EXCEPT !.pc = "close"]
<1>1. /\ g.pc = "close" /\ g.ran = h.ran /\ g.output = h.output
      /\ g.outcome = h.outcome /\ g.code = h.code
  BY DEF HandlerState
<1>2. AnswerLen(g) = AnswerLen(h) /\ \A i : Answer(g, i) = Answer(h, i)
  BY <1>1, AnswerKept
<1> HIDE DEF g
<1>3. HandlerTalk(k, g)
  BY <1>1 DEF Talk, HandlerTalk
<1>4. AnswerTalk(k, g, o, di \o dn)
  BY <1>1, <1>2 DEF Talk, AnswerTalk
<1>5. RejectTalk(k, g, o, di, di \o dn)
  BY <1>1 DEF Talk, RejectTalk
<1>6. QED
  BY <1>1, <1>3, <1>4, <1>5 DEF Talk, SuccessTalk, g

\* A command reports: it has closed the connection and dropped the response.
LEMMA TalkReported ==
  ASSUME NEW k \in ClientState, NEW h \in HandlerState, NEW o \in BOOLEAN,
         NEW di \in Seq(ResponseFrame), NEW dn \in Seq(ResponseFrame),
         Talk(k, h, o, di, dn),
         NEW r \in ClientState, r.pc = "reported", r.op = k.op, r.key = k.key,
         h.outcome = "rejected" => r.result \in {"deadline", h.code},
         SuccessTalk(r, h)
  PROVE  Talk(r, h, FALSE, << >>, << >>)
<1>1. << >> \o << >> = << >> /\ Len(<< >>) = 0
  OBVIOUS
<1>2. ~Live(r)
  BY DEF Live
<1>3. ReportedTalk(r, FALSE, << >>, << >>) /\ HandlerTalk(r, h)
  BY DEF Talk, ReportedTalk, HandlerTalk
<1>4. AnswerTalk(r, h, FALSE, << >>)
  BY <1>2 DEF Talk, AnswerTalk
<1>5. RejectTalk(r, h, FALSE, << >>, << >>)
  BY <1>1, <1>2 DEF Talk, RejectTalk
<1>6. QED
  BY <1>1, <1>3, <1>4, <1>5 DEF Talk

-----------------------------------------------------------------------------
(* Type correctness.                                                       *)

\* A session is a command and an attempt.
LEMMA SessionParts ==
  /\ \A s \in Sessions : s[1] \in Clients /\ s[2] \in 1..MaxAttempts
                         /\ s = <<s[1], s[2]>>
  /\ TypeOK => \A c \in Clients : Session(c) \in Sessions
BY DEF Sessions, Session, TypeOK, ClientState

\* A command as it starts, and as it reports, is a command.
LEMMA ClientRecords ==
  /\ \A op \in Operations, key \in {"ours", "other"} :
       NewClient(op, key) \in ClientState
  /\ \A c \in Clients : TypeOK => client[c] \in ClientState
  /\ NewHandler \in HandlerState
  /\ \A s \in Sessions : TypeOK => handler[s] \in HandlerState
<1>1. 1 \in 1..MaxAttempts
  BY MaxAttemptsAssumption
<1>2. \A S : << >> \in Seq(S)
  OBVIOUS
<1>3. QED
  BY <1>1, <1>2 DEF NewClient, ClientState, NewHandler, HandlerState, TypeOK

\* The initial states are well typed.
LEMMA InitType == Init => TypeOK
<1>1. \A S : << >> \in Seq(S)
  OBVIOUS
<1>2. SUFFICES ASSUME Init PROVE TypeOK
  OBVIOUS
<1>3. client \in [Clients -> ClientState]
  <2>1. {NewClient(op, key) : op \in Operations, key \in {"ours", "other"}}
          \subseteq ClientState
    BY ClientRecords
  <2>2. QED
    BY <1>2, <2>1 DEF Init
<1>4. handler \in [Sessions -> HandlerState]
  BY <1>2, ClientRecords DEF Init
<1>5. QED
  BY <1>1, <1>2, <1>3, <1>4 DEF Init, TypeOK

\* What Report leaves of the command and of its session is well typed.
LEMMA ReportType ==
  ASSUME TypeOK, NEW c \in Clients,
         NEW r \in {"request", "read", "deadline", "success"} \cup Rejections,
         Report(c, r), UNCHANGED bridge
  PROVE  TypeOK'
<1> DEFINE done == client[c]
           k == [NewClient(done.op, done.key) EXCEPT
                   !.pc = "reported", !.attempt = done.attempt, !.result = r,
                   !.output = IF r = "success" THEN done.output ELSE << >>]
<1>1. done \in ClientState /\ NewClient(done.op, done.key) \in ClientState
  <2>1. done \in ClientState
    BY ClientRecords
  <2>2. done.op \in Operations /\ done.key \in {"ours", "other"}
    BY <2>1 DEF ClientState
  <2>3. QED
    BY <2>1, <2>2, ClientRecords
<1>2. k \in ClientState
  <2>1. (IF r = "success" THEN done.output ELSE << >>) \in Seq(ScriptFrame)
    BY <1>1 DEF ClientState
  <2>2. done.attempt \in 1..MaxAttempts
    BY <1>1 DEF ClientState
  <2>3. QED
    BY <1>1, <2>1, <2>2 DEF ClientState
<1>3. client' = [client EXCEPT ![c] = k]
  BY DEF Report
<1> HIDE DEF k, done
<1>4. client' \in [Clients -> ClientState]
  BY <1>2, <1>3 DEF TypeOK
<1>5. \A S : << >> \in Seq(S)
  OBVIOUS
<1>6. QED
  BY <1>4, <1>5 DEF Report, Close, TypeOK, bridge

\* Types under the steps of a command.
LEMMA TypeCommand ==
  ASSUME TypeOK, NEW c \in Clients,
         \/ Command(c) \/ ConnectFails(c) \/ ConnectRefused(c)
         \/ KeyExpiredHere(c) \/ ClientDeadline(c)
  PROVE  TypeOK'
<1> DEFINE s == Session(c)
<1>1. client[c] \in ClientState /\ s \in Sessions
  BY ClientRecords, SessionParts
<1>2. \A S : << >> \in Seq(S)
  OBVIOUS
<1>3. CASE CheckKey(c)
  BY <1>3, <1>1 DEF CheckKey, ClientStep, TypeOK, ClientState, bridge, streams
<1>4. CASE Connect(c)
  <2>0. client[c].op \in RequestFrame /\ "auth" \in RequestFrame
        /\ EndOfStream \in RequestFrame
    BY <1>1, OperationsAssumption DEF ClientState, RequestFrame
  <2>1. <<"auth", client[c].op, EndOfStream>> \in Seq(RequestFrame)
    BY <2>0
  <2>2. client' \in [Clients -> ClientState]
    BY <1>4, <1>1, <2>1 DEF Connect, TypeOK, ClientState
  <2>3. handler' \in [Sessions -> HandlerState]
    <3>1. handler' = [handler EXCEPT ![s] = [handler[s] EXCEPT !.pc = "reading"]]
      BY <1>4, <1>1 DEF Connect, TypeOK
    <3>2. [handler[s] EXCEPT !.pc = "reading"] \in HandlerState
      <4>1. handler[s] \in HandlerState
        BY <1>1 DEF TypeOK
      <4>2. QED
        BY <4>1 DEF HandlerState
    <3>3. QED
      BY <3>1, <3>2 DEF TypeOK
  <2>4. QED
    BY <1>4, <1>1, <2>2, <2>3 DEF Connect, TypeOK
<1>5. CASE SendRequest(c)
  <2>1. client[c].unsent \in Seq(RequestFrame) /\ client[c].unsent # << >>
    BY <1>5, <1>1 DEF SendRequest, ClientState
  <2>2. /\ Head(client[c].unsent) \in RequestFrame
        /\ Tail(client[c].unsent) \in Seq(RequestFrame)
    BY <2>1, HeadTailProperties
  <2>3. client' \in [Clients -> ClientState]
    BY <1>5, <1>1, <2>2 DEF SendRequest, TypeOK, ClientState
  <2>4. Append(up[s], Head(client[c].unsent)) \in Seq(RequestFrame)
    BY <1>1, <2>2, AppendProperties DEF TypeOK
  <2>5. up' \in [Sessions -> Seq(RequestFrame)]
    BY <1>5, <1>1, <2>4 DEF SendRequest, TypeOK
  <2>6. QED
    BY <1>5, <2>3, <2>5 DEF SendRequest, TypeOK, bridge
<1>6. CASE RequestAcknowledged(c)
  BY <1>6, <1>1 DEF RequestAcknowledged, ClientStep, TypeOK, ClientState,
                    bridge, streams
<1>7. CASE RequestFails(c)
  BY <1>7, <1>1 DEF RequestFails, TypeOK, ClientState, bridge, streams
<1>8. CASE ReceiveReject(c)
  BY <1>8, ReportType DEF ReceiveReject, Rejections
<1>9. CASE ReceiveFrame(c)
  <2> DEFINE f == NextFrame(c)
  <2>1. downInbox[s] \in Seq(ResponseFrame) /\ downInbox[s] # << >>
    BY <1>9, <1>1 DEF ReceiveFrame, Readable, TypeOK
  <2>2. Tail(downInbox[s]) \in Seq(ResponseFrame)
    BY <2>1, HeadTailProperties
  <2>3. downInbox' \in [Sessions -> Seq(ResponseFrame)]
    BY <1>9, <1>1, <2>2 DEF ReceiveFrame, TakeFrame, TypeOK
  <2>4. (IF f \in {"stdout", "stderr"} THEN Append(client[c].output, f)
                                       ELSE client[c].output) \in Seq(ScriptFrame)
    BY <1>1, AppendProperties DEF ClientState, ScriptFrame
  <2>5. DecoderAfter(f) \in {"banner", "stdout", "stderr", "complete"}
    BY DEF DecoderAfter
  <2>6. (client[c].served \/ f = "banner") \in BOOLEAN
    OBVIOUS
  <2>7. client' = [client EXCEPT ![c] = [client[c] EXCEPT
          !.decoder = DecoderAfter(f),
          !.served = (client[c].served \/ f = "banner"),
          !.output = IF f \in {"stdout", "stderr"}
                       THEN Append(client[c].output, f) ELSE client[c].output]]
    BY <1>9, <1>1 DEF ReceiveFrame, TypeOK, ClientState
  <2> HIDE DEF f
  <2>8. client' \in [Clients -> ClientState]
    BY <1>1, <2>4, <2>5, <2>6, <2>7 DEF TypeOK, ClientState
  <2>9. QED
    BY <1>9, <2>3, <2>8 DEF ReceiveFrame, TypeOK, bridge
<1>10. CASE ReceiveEnd(c)
  BY <1>10, ReportType DEF ReceiveEnd
<1>11. CASE ReadFails(c)
  BY <1>11, ReportType DEF ReadFails, Failure
<1>12. CASE ConnectFails(c)
  <2>1. client[c].attempt < MaxAttempts => client[c].attempt + 1 \in 1..MaxAttempts
    BY <1>1, MaxAttemptsAssumption DEF ClientState
  <2>2. client' \in [Clients -> ClientState]
    <3>1. CASE client[c].attempt < MaxAttempts
      <4>1. client' = [client EXCEPT ![c] = [client[c] EXCEPT
              !.attempt = client[c].attempt + 1, !.pc = "open"]]
        BY <1>12, <3>1 DEF ConnectFails
      <4>2. [client[c] EXCEPT !.attempt = client[c].attempt + 1, !.pc = "open"]
              \in ClientState
        BY <1>1, <2>1, <3>1 DEF ClientState
      <4>3. QED
        BY <4>1, <4>2 DEF TypeOK
    <3>2. CASE ~(client[c].attempt < MaxAttempts)
      <4>1. client' = [client EXCEPT ![c] = [client[c] EXCEPT
              !.pc = "reported", !.result = "connect"]]
        BY <1>12, <1>1, <3>2 DEF ConnectFails, TypeOK, ClientState
      <4>2. QED
        BY <4>1, <1>1 DEF TypeOK, ClientState
    <3>3. QED
      BY <3>1, <3>2
  <2>3. QED
    BY <1>12, <2>2 DEF ConnectFails, TypeOK, bridge, streams
<1>13. CASE ConnectRefused(c)
  BY <1>13, <1>1 DEF ConnectRefused, TypeOK, ClientState, bridge, streams
<1>14. CASE KeyExpiredHere(c)
  BY <1>14, <1>1 DEF KeyExpiredHere, TypeOK, ClientState, bridge, streams
<1>15. CASE ClientDeadline(c)
  BY <1>15, ReportType DEF ClientDeadline
<1>16. QED
  BY <1>3, <1>4, <1>5, <1>6, <1>7, <1>8, <1>9, <1>10, <1>11, <1>12, <1>13,
     <1>14, <1>15 DEF Command

\* A handler that is to send a rejection has the code of one.
RejectsCoded ==
  \A s \in Sessions : HandlerAt(s, "reject") => handler[s].code \in Rejections

\* Types under the steps of a handler.
LEMMA TypeHandle ==
  ASSUME TypeOK, RejectsCoded, NEW s \in Sessions,
         Handle(s) \/ HandlerDeadline(s)
  PROVE  TypeOK'
<1>1. handler[s] \in HandlerState /\ client[s[1]] \in ClientState
  BY ClientRecords, SessionParts DEF TypeOK
<1>2. \A S : << >> \in Seq(S)
  OBVIOUS
<1>3. ASSUME NEW pc \in {"close", "check", "execute", "respond", "send-banner",
                         "reject-end", "reject-ack"},
             HandlerStep(s, pc)
      PROVE  handler' \in [Sessions -> HandlerState]
  BY <1>1, <1>3 DEF HandlerStep, TypeOK, HandlerState
<1>4. ASSUME NEW pc \in {"close", "check", "execute", "respond"},
             HandlerStep(s, pc), UNCHANGED <<client, streams>>,
             UNCHANGED keyExpired, pendingBanner' \in BOOLEAN,
             bannerLost' \in BOOLEAN
      PROVE  TypeOK'
  BY <1>3, <1>4 DEF TypeOK, streams
<1>5. ASSUME Reading(s), TakeRequestFrame(s),
             handler' \in [Sessions -> HandlerState]
      PROVE  TypeOK'
  <2>1. Tail(upInbox[s]) \in Seq(RequestFrame)
    BY <1>5, HeadTailProperties DEF Reading, TypeOK
  <2>2. upInbox' \in [Sessions -> Seq(RequestFrame)]
    BY <1>5, <2>1 DEF TakeRequestFrame, TypeOK
  <2>3. QED
    BY <1>5, <2>2 DEF TakeRequestFrame, KeyAndBannerUnchanged, TypeOK
<1>6. ASSUME NEW f \in ResponseFrame, WriteFrame(s, f), KeyAndBannerUnchanged,
             handler' \in [Sessions -> HandlerState]
      PROVE  TypeOK'
  <2>1. Append(down[s], f) \in Seq(ResponseFrame)
    BY AppendProperties DEF TypeOK
  <2>2. down' \in [Sessions -> Seq(ResponseFrame)]
    BY <1>6, <2>1 DEF WriteFrame, TypeOK
  <2>3. QED
    BY <1>6, <2>2 DEF WriteFrame, KeyAndBannerUnchanged, TypeOK
<1>7. CASE Authenticate(s)
  <2>1. handler' \in [Sessions -> HandlerState]
    BY <1>1, <1>7 DEF Authenticate, TypeOK, HandlerState, Rejections
  <2>2. QED
    BY <1>5, <1>7, <2>1 DEF Authenticate
<1>8. CASE AcceptRequest(s)
  <2>1. Head(upInbox[s]) \in RequestFrame
    BY <1>8, HeadTailProperties DEF AcceptRequest, Reading, TypeOK
  <2>2. handler' \in [Sessions -> HandlerState]
    BY <1>1, <1>8, <2>1 DEF AcceptRequest, TypeOK, HandlerState
  <2>3. QED
    BY <1>5, <1>8, <2>2 DEF AcceptRequest
<1>9. CASE RequestEnds(s)
  BY <1>9, <1>3, <1>5 DEF RequestEnds
<1>10. CASE ServerReadFails(s)
  BY <1>10, <1>4 DEF ServerReadFails, KeyAndBannerUnchanged, TypeOK
<1>11. CASE EnsureKeyNotExpired(s)
  <2>1. handler' \in [Sessions -> HandlerState]
    BY <1>1, <1>11 DEF EnsureKeyNotExpired, TypeOK, HandlerState, Rejections
  <2>2. QED
    BY <1>11, <2>1 DEF EnsureKeyNotExpired, KeyAndBannerUnchanged, TypeOK, streams
<1>12. CASE Execute(s)
  <2>1. PICK output \in IF handler[s].op = "run" THEN Outputs ELSE {<<"pull">>} :
          handler' = [handler EXCEPT ![s] =
            [@ EXCEPT !.ran = TRUE, !.output = output,
               !.pc = IF handler[s].op = "run" THEN "banner" ELSE "respond",
               !.unsent = output \o IF handler[s].op = "run"
                                      THEN <<"exit", EndOfStream>>
                                      ELSE <<EndOfStream>>]]
    BY <1>12 DEF Execute
  <2>2. output \in Seq(ScriptFrame \cup {"pull"}) /\ output \in Seq(ResponseFrame)
    <3>1. /\ <<"pull">> \in Seq(ScriptFrame \cup {"pull"})
          /\ <<"pull">> \in Seq(ResponseFrame)
      BY DEF ResponseFrame
    <3>2. /\ ScriptFrame \subseteq ScriptFrame \cup {"pull"}
          /\ ScriptFrame \subseteq ResponseFrame
      BY DEF ResponseFrame
    <3>3. Outputs \subseteq Seq(ScriptFrame)
      BY OutputsAssumption DEF ScriptFrame
    <3>4. QED
      BY <3>1, <3>2, <3>3, SeqMonotonic, <2>1
  <2>3. /\ <<"exit", EndOfStream>> \in Seq(ResponseFrame)
        /\ <<EndOfStream>> \in Seq(ResponseFrame)
    BY DEF ResponseFrame
  <2>4. (output \o IF handler[s].op = "run" THEN <<"exit", EndOfStream>>
                                           ELSE <<EndOfStream>>) \in Seq(ResponseFrame)
    BY <2>2, <2>3, ConcatProperties
  <2>5. handler' \in [Sessions -> HandlerState]
    BY <1>1, <2>1, <2>2, <2>4 DEF TypeOK, HandlerState
  <2>6. QED
    BY <1>12, <2>5 DEF Execute, KeyAndBannerUnchanged, TypeOK, streams
<1>13. CASE TakeBanner(s)
  <2>1. handler' \in [Sessions -> HandlerState]
    BY <1>13, <1>3 DEF TakeBanner
  <2>2. QED
    BY <1>13, <2>1 DEF TakeBanner, TypeOK, streams
<1>14. CASE WriteBanner(s)
  <2>1. handler' \in [Sessions -> HandlerState]
    BY <1>1, <1>14 DEF WriteBanner, TypeOK, HandlerState
  <2>2. QED
    BY <1>14, <1>6, <2>1 DEF WriteBanner, ResponseFrame
<1>15. CASE BannerWriteFails(s)
  BY <1>15, <1>4 DEF BannerWriteFails, TypeOK
<1>16. CASE WriteResponse(s)
  <2>1. handler[s].unsent \in Seq(ResponseFrame) /\ handler[s].unsent # << >>
    BY <1>1, <1>16 DEF WriteResponse, HandlerState
  <2>2. /\ Head(handler[s].unsent) \in ResponseFrame
        /\ Tail(handler[s].unsent) \in Seq(ResponseFrame)
    BY <2>1, HeadTailProperties
  <2>3. handler' \in [Sessions -> HandlerState]
    BY <1>1, <1>16, <2>2 DEF WriteResponse, TypeOK, HandlerState
  <2>4. QED
    BY <1>16, <1>6, <2>2, <2>3 DEF WriteResponse
<1>17. CASE ResponseAcknowledged(s)
  BY <1>17, <1>4 DEF ResponseAcknowledged, KeyAndBannerUnchanged, TypeOK
<1>18. CASE ResponseFails(s)
  BY <1>18, <1>4 DEF ResponseFails, KeyAndBannerUnchanged, TypeOK
<1>19. CASE SendReject(s)
  <2>1. handler' \in [Sessions -> HandlerState]
    BY <1>19, <1>3 DEF SendReject
  <2>2. handler[s].code \in ResponseFrame
    BY <1>19 DEF SendReject, RejectsCoded, ResponseFrame
  <2>3. QED
    BY <1>19, <1>6, <2>1, <2>2 DEF SendReject
<1>20. CASE FinishReject(s)
  BY <1>20, <1>3, <1>6 DEF FinishReject, ResponseFrame
<1>21. CASE RejectAcknowledged(s)
  <2>1. handler' = [handler EXCEPT ![s] =
                      [handler[s] EXCEPT !.pc = "close", !.outcome = "rejected"]]
    BY <1>21 DEF RejectAcknowledged, TypeOK
  <2>2. [handler[s] EXCEPT !.pc = "close", !.outcome = "rejected"] \in HandlerState
    BY <1>1 DEF HandlerState
  <2>3. handler' \in [Sessions -> HandlerState]
    BY <2>1, <2>2 DEF TypeOK
  <2>4. QED
    BY <1>21, <2>3 DEF RejectAcknowledged, KeyAndBannerUnchanged, TypeOK, streams
<1>22. CASE RejectFails(s)
  BY <1>22, <1>4 DEF RejectFails, KeyAndBannerUnchanged, TypeOK
<1>23. CASE CloseSession(s)
  <2>1. handler' \in [Sessions -> HandlerState]
    BY <1>1, <1>2, <1>23 DEF CloseSession, TypeOK, HandlerState
  <2>2. QED
    BY <1>2, <1>23, <2>1 DEF CloseSession, Close, KeyAndBannerUnchanged, TypeOK
<1>24. CASE HandlerDeadline(s)
  <2>1. bannerLost' \in BOOLEAN
    BY <1>24 DEF HandlerDeadline, TypeOK
  <2>2. QED
    BY <1>24, <1>4, <2>1 DEF HandlerDeadline, TypeOK
<1>25. QED
  BY <1>7, <1>8, <1>9, <1>10, <1>11, <1>12, <1>13, <1>14, <1>15, <1>16, <1>17,
     <1>18, <1>19, <1>20, <1>21, <1>22, <1>23, <1>24 DEF Handle

\* Types under every step.
LEMMA TypeStep == TypeOK /\ RejectsCoded /\ [Next]_vars => TypeOK'
<1> SUFFICES ASSUME TypeOK, RejectsCoded, [Next]_vars PROVE TypeOK'
  OBVIOUS
<1>1. ASSUME NEW s \in Sessions, Deliver(s) PROVE TypeOK'
  <2>1. CASE DeliverUp(s)
    <3>1. /\ Append(upInbox[s], Head(up[s])) \in Seq(RequestFrame)
          /\ Tail(up[s]) \in Seq(RequestFrame)
      BY <1>1, <2>1, Delivered DEF DeliverUp, TypeOK
    <3>2. QED
      BY <1>1, <2>1, <3>1 DEF DeliverUp, TypeOK, bridge
  <2>2. CASE DeliverDown(s)
    <3>1. /\ Append(downInbox[s], Head(down[s])) \in Seq(ResponseFrame)
          /\ Tail(down[s]) \in Seq(ResponseFrame)
      BY <1>1, <2>2, Delivered DEF DeliverDown, TypeOK
    <3>2. QED
      BY <1>1, <2>2, <3>1 DEF DeliverDown, TypeOK, bridge
  <2>3. QED
    BY <1>1, <2>1, <2>2 DEF Deliver
<1>2. ASSUME NEW s \in Sessions, ConnectionLost(s) PROVE TypeOK'
  <2>1. \A S : << >> \in Seq(S)
    OBVIOUS
  <2>2. QED
    BY <1>2, <2>1 DEF ConnectionLost, Close, TypeOK, bridge
<1>3. CASE KeyExpires
  BY <1>3 DEF KeyExpires, TypeOK, streams
<1>4. CASE UNCHANGED vars
  BY <1>4 DEF vars, streams, TypeOK
<1>5. QED
  BY <1>1, <1>2, <1>3, <1>4, TypeCommand, TypeHandle DEF Next

-----------------------------------------------------------------------------
(* A step is of one command and the session of its attempt.                *)
SessionKept(s) ==
  /\ handler'[s] = handler[s] /\ open'[s] = open[s]
  /\ up'[s] = up[s] /\ upInbox'[s] = upInbox[s]
  /\ down'[s] = down[s] /\ downInbox'[s] = downInbox[s]

OthersKept(c) ==
  /\ \A d \in Clients \ {c} : client'[d] = client[d]
  /\ \A s \in Sessions : s # Session(c) => SessionKept(s)

\* It is enough to look at the command and the session that move.
LEMMA OneMoves ==
  ASSUME TypeOK, Conversations, NEW c \in Clients, OthersKept(c),
         client'[c].attempt = client[c].attempt,
         client'[c].pc \notin {"open", "connect"},
         LET s == Session(c) IN
           Talk(client'[c], handler'[s], open'[s], downInbox'[s], down'[s])
  PROVE  Conversations'
<1>1. /\ \A d \in Clients, a \in 1..MaxAttempts : <<d, a>> \in Sessions
      /\ \A d \in Clients : Session(d) \in Sessions
  BY SessionParts DEF Sessions
<1>2. ASSUME NEW d \in Clients, d # c
      PROVE  (Untouched(d) /\ Unserved(d) /\ TalkOf(d))'
  <2>1. client'[d] = client[d] /\ Session(d)' = Session(d)
    BY <1>2 DEF OthersKept, Session
  <2>2. \A a \in 1..MaxAttempts : SessionKept(<<d, a>>)
    BY <1>1, <1>2 DEF OthersKept, Session
  <2>3. SessionKept(Session(d))
    BY <1>1, <1>2 DEF OthersKept, Session
  <2>4. Untouched(d)'
    BY <2>1, <2>2 DEF Conversations, Untouched, SessionKept
  <2>5. Unserved(d)'
    BY <2>1 DEF Conversations, Unserved
  <2>6. TalkOf(d)'
    BY <2>1, <2>3 DEF Conversations, TalkOf, SessionKept
  <2>7. QED
    BY <2>4, <2>5, <2>6
<1>3. (Untouched(c) /\ Unserved(c) /\ TalkOf(c))'
  <2>1. Session(c)' = Session(c)
    BY DEF Session
  <2>2. \A a \in 1..MaxAttempts : a # client[c].attempt => SessionKept(<<c, a>>)
    BY <1>1 DEF OthersKept, Session
  <2>3. Untouched(c)'
    BY <2>2 DEF Conversations, Untouched, SessionKept
  <2>4. TalkOf(c)' /\ Unserved(c)'
    BY <2>1 DEF TalkOf, Unserved
  <2>5. QED
    BY <2>3, <2>4
<1>4. QED
  BY <1>2, <1>3 DEF Conversations

\* A session that anything has happened to is that of its command's attempt.
LEMMA Owner ==
  ASSUME TypeOK, Conversations, NEW s \in Sessions,
         handler[s].pc # "idle" \/ open[s]
  PROVE  /\ s[1] \in Clients /\ s = Session(s[1])
         /\ client[s[1]].pc \notin {"open", "connect"}
<1>1. s[1] \in Clients /\ s[2] \in 1..MaxAttempts /\ s = <<s[1], s[2]>>
  BY SessionParts
<1>2. Untouched(s[1])
  BY <1>1 DEF Conversations
<1>3. s[2] = client[s[1]].attempt /\ client[s[1]].pc \notin {"open", "connect"}
  BY <1>1, <1>2 DEF Untouched, NewHandler
<1>4. QED
  BY <1>1, <1>3 DEF Session

\* What the invariant says of one command.
LEMMA Facts ==
  ASSUME TypeOK, Conversations, NEW c \in Clients
  PROVE  LET s == Session(c)
         IN  /\ s \in Sessions /\ client[c] \in ClientState
             /\ handler[s] \in HandlerState /\ open[s] \in BOOLEAN
             /\ downInbox[s] \in Seq(ResponseFrame)
             /\ down[s] \in Seq(ResponseFrame)
             /\ Talk(client[c], handler[s], open[s], downInbox[s], down[s])
             /\ client[c].pc \in {"open", "connect"} =>
                  /\ handler[s] = NewHandler /\ ~open[s]
                  /\ down[s] = << >> /\ downInbox[s] = << >>
                  /\ Consumed(client[c]) = 0 /\ client[c].result = "none"
<1>1. Session(c) \in Sessions /\ client[c].attempt \in 1..MaxAttempts
  BY SessionParts DEF TypeOK, ClientState
<1>2. Untouched(c) /\ Unserved(c) /\ TalkOf(c)
  BY DEF Conversations
<1>3. client[c].pc \in {"open", "connect"} =>
        LET s == Session(c)
        IN /\ handler[s] = NewHandler /\ ~open[s]
           /\ down[s] = << >> /\ downInbox[s] = << >>
  BY <1>1, <1>2 DEF Untouched, Session
<1>4. QED
  BY <1>1, <1>2, <1>3 DEF TalkOf, Unserved, TypeOK

\* The stream and the connection.
LEMMA TalkDeliver ==
  ASSUME TypeOK, Conversations, NEW s \in Sessions,
         Deliver(s) \/ ConnectionLost(s)
  PROVE  Conversations'
<1> DEFINE c == s[1]
<1>1. open[s]
  BY DEF Deliver, DeliverUp, DeliverDown, ConnectionLost
<1>2. c \in Clients /\ s = Session(c) /\ client[c].pc \notin {"open", "connect"}
  BY <1>1, Owner
<1> HIDE DEF c
<1>3. client' = client
  BY DEF Deliver, DeliverUp, DeliverDown, ConnectionLost
<1>4. OthersKept(c)
  BY <1>2, <1>3 DEF OthersKept, SessionKept, Deliver, DeliverUp, DeliverDown,
                    ConnectionLost, Close, bridge, TypeOK
<1>5. /\ client[c] \in ClientState /\ handler[s] \in HandlerState
      /\ open[s] \in BOOLEAN /\ downInbox[s] \in Seq(ResponseFrame)
      /\ down[s] \in Seq(ResponseFrame)
      /\ Talk(client[c], handler[s], open[s], downInbox[s], down[s])
  BY <1>2, Facts
<1>6. Talk(client'[c], handler'[s], open'[s], downInbox'[s], down'[s])
  <2>1. CASE DeliverUp(s)
    BY <2>1, <1>5 DEF DeliverUp, bridge
  <2>2. CASE DeliverDown(s)
    <3>1. /\ downInbox'[s] = Append(downInbox[s], Head(down[s]))
          /\ down'[s] = Tail(down[s]) /\ down[s] # << >>
      BY <2>2 DEF DeliverDown, TypeOK
    <3>2. UNCHANGED <<client, handler, open>>
      BY <2>2 DEF DeliverDown, bridge
    <3>3. QED
      BY <1>5, <3>1, <3>2, TalkDelivered
  <2>3. CASE ConnectionLost(s)
    <3>1. /\ downInbox'[s] = downInbox[s] /\ down'[s] = << >>
          /\ open'[s] = FALSE /\ UNCHANGED <<client, handler>>
      BY <2>3 DEF ConnectionLost, Close, bridge, TypeOK
    <3>2. QED
      BY <1>5, <3>1, TalkClosed
  <2>4. QED
    BY <2>1, <2>2, <2>3 DEF Deliver
<1>7. QED
  BY <1>2, <1>3, <1>4, <1>6, OneMoves

-----------------------------------------------------------------------------
(* The command's steps.                                                    *)

\* Before the request is handled, nothing has been said.
LEMMA TalkFresh ==
  ASSUME NEW k \in ClientState, NEW h \in HandlerState, NEW o \in BOOLEAN,
         ~h.ran, h.outcome = "none", h.pc \in {"idle", "reading"},
         h.pc = "reading" => h.decoder = "auth",
         ~Live(k) => ~o, k.pc # "reported" => k.result = "none",
         k.result # "success", Live(k) => Consumed(k) = 0
  PROVE  Talk(k, h, o, << >>, << >>)
<1>1. << >> \o << >> = << >> /\ Len(<< >>) = 0
  OBVIOUS
<1>2. QED
  BY <1>1 DEF Talk, ReportedTalk, HandlerTalk, AnswerTalk, RejectTalk, SuccessTalk

\* A command that has no session yet, and gets none in this step.
LEMMA NotConnected ==
  ASSUME TypeOK, Conversations, NEW c \in Clients, NEW r \in ClientState,
         client[c].pc \in {"open", "connect"}, UNCHANGED <<handler, streams>>,
         client' = [client EXCEPT ![c] = r],
         r.result # "success",
         \/ r.pc = "reported" /\ r.attempt = client[c].attempt
         \/ r.pc \in {"open", "connect"} /\ r.result = "none" /\ Consumed(r) = 0
  PROVE  Conversations'
<1>1. \A d \in Clients \ {c} : client'[d] = client[d]
  BY DEF TypeOK
<1>2. client'[c] = r
  BY DEF TypeOK
<1>3. ASSUME NEW d \in Clients, d # c
      PROVE  (Untouched(d) /\ Unserved(d) /\ TalkOf(d))'
  BY <1>1, <1>3 DEF Conversations, Untouched, Unserved, TalkOf, Session, streams
<1>4. \A a \in 1..MaxAttempts :
        LET s == <<c, a>>
        IN  /\ handler[s] = NewHandler /\ ~open[s]
            /\ up[s] = << >> /\ upInbox[s] = << >>
            /\ down[s] = << >> /\ downInbox[s] = << >>
  BY DEF Conversations, Untouched
<1>5. Untouched(c)'
  BY <1>2, <1>4 DEF Untouched, streams
<1>6. Unserved(c)'
  BY <1>2 DEF Unserved
<1>7. TalkOf(c)'
  <2>1. Session(c)' = <<c, r.attempt>> /\ r.attempt \in 1..MaxAttempts
    BY <1>2 DEF Session, ClientState
  <2>2. /\ handler'[<<c, r.attempt>>] = NewHandler
        /\ open'[<<c, r.attempt>>] = FALSE
        /\ down'[<<c, r.attempt>>] = << >> /\ downInbox'[<<c, r.attempt>>] = << >>
    <3>1. <<c, r.attempt>> \in Sessions
      BY <2>1 DEF Sessions
    <3>2. QED
      BY <2>1, <3>1, <1>4 DEF streams, TypeOK
  <2>3. Talk(r, NewHandler, FALSE, << >>, << >>)
    BY TalkFresh, ClientRecords DEF NewHandler, Live
  <2>4. QED
    BY <1>2, <2>1, <2>2, <2>3 DEF TalkOf
<1>8. QED
  BY <1>3, <1>5, <1>6, <1>7 DEF Conversations

\* A command that goes on with its request, or begins to read.
LEMMA TalkAsking ==
  ASSUME NEW k \in ClientState, NEW r \in ClientState, NEW h \in HandlerState,
         NEW o \in BOOLEAN,
         NEW di \in Seq(ResponseFrame), NEW dn \in Seq(ResponseFrame),
         Talk(k, h, o, di, dn), Live(k), Live(r), r.key = k.key, r.op = k.op,
         r.output = k.output, r.served = k.served, r.decoder = k.decoder,
         r.result = k.result
  PROVE  Talk(r, h, o, di, dn)
<1>1. Consumed(r) = Consumed(k)
  BY DEF Consumed
<1>2. ReportedTalk(r, o, di, dn)
  BY DEF Talk, ReportedTalk, Live
<1>3. HandlerTalk(r, h)
  BY DEF Talk, HandlerTalk
<1>4. AnswerTalk(r, h, o, di \o dn)
  BY <1>1 DEF Talk, AnswerTalk
<1>5. RejectTalk(r, h, o, di, di \o dn)
  BY <1>1 DEF Talk, RejectTalk, Live
<1>6. QED
  BY <1>2, <1>3, <1>4, <1>5 DEF Talk, SuccessTalk

\* A frame that a command may take is the next of the answer: a rejection is
\* for ReceiveReject.
LEMMA NextIsAnswer ==
  ASSUME NEW k \in ClientState, NEW h \in HandlerState, NEW o \in BOOLEAN,
         NEW di \in Seq(ResponseFrame), NEW dn \in Seq(ResponseFrame),
         Talk(k, h, o, di, dn), di # << >>,
         Head(di) \in {"banner", "stdout", "stderr", "exit", "pull"}
  PROVE  /\ h.ran /\ k.pc # "reported" /\ h.outcome # "rejected"
         /\ Live(k) =>
              /\ Head(di) = Answer(h, Consumed(k) + 1)
              /\ Consumed(k) + 1 \in 1..(AnswerLen(h) - 1)
<1>1. /\ Head(di) = (di \o dn)[1] /\ Len(di \o dn) \in Nat
      /\ 1 <= Len(di \o dn)
  BY Taken, Unread
<1>2. Head(di) \notin Rejections \cup {EndOfStream}
  BY DEF Rejections, EndOfStream
<1>3. h.ran
  BY <1>1, <1>2 DEF Talk, RejectTalk
<1>4. k.pc # "reported" /\ h.outcome # "rejected"
  BY <1>3 DEF Talk, ReportedTalk, RejectTalk, Live
<1>5. ASSUME Live(k)
      PROVE  /\ Head(di) = Answer(h, Consumed(k) + 1)
             /\ Consumed(k) + 1 \in 1..(AnswerLen(h) - 1)
  <2>1. /\ Consumed(k) + Len(di \o dn) <= AnswerLen(h)
        /\ (di \o dn)[1] = Answer(h, Consumed(k) + 1)
    BY <1>1, <1>3, <1>5 DEF Talk, AnswerTalk
  <2>2. Consumed(k) \in Nat /\ AnswerLen(h) \in Nat
    BY Counts
  <2>3. Consumed(k) + 1 \in 1..AnswerLen(h)
    BY <1>1, <2>1, <2>2
  <2>4. Consumed(k) + 1 # AnswerLen(h)
    BY <1>1, <1>2, <2>1, <2>3, AnswerEnds
  <2>5. QED
    BY <1>1, <2>1, <2>2, <2>3, <2>4
<1>6. QED
  BY <1>3, <1>4, <1>5

\* The command takes the next frame of its answer.
LEMMA TalkReceived ==
  ASSUME NEW k \in ClientState, NEW r \in ClientState, NEW h \in HandlerState,
         NEW o \in BOOLEAN,
         NEW di \in Seq(ResponseFrame), NEW dn \in Seq(ResponseFrame),
         Talk(k, h, o, di, dn), Live(k), di # << >>, NEW f, f = Head(di),
         f \in {"banner", "stdout", "stderr", "exit", "pull"},
         IF k.op = "run" THEN AcceptsRunFrame(k.decoder, f)
                         ELSE f = "pull" /\ k.decoder = "banner",
         r.op = k.op, r.key = k.key, r.pc = k.pc, r.result = k.result,
         r.decoder = DecoderAfter(f), r.served = (k.served \/ f = "banner"),
         r.output = IF f \in {"stdout", "stderr"} THEN Append(k.output, f)
                                                  ELSE k.output
  PROVE  Talk(r, h, o, Tail(di), dn)
<1> DEFINE n == Consumed(k) + 1
           d == di \o dn
           e == Tail(di) \o dn
<1>1. /\ h.ran /\ h.outcome # "rejected" /\ f = Answer(h, n)
      /\ n \in 1..(AnswerLen(h) - 1) /\ k.pc # "reported"
  BY NextIsAnswer
<1>2. /\ Consumed(k) \in Nat /\ Len(k.output) \in Nat /\ Len(h.output) \in Nat
      /\ AnswerLen(h) \in Nat /\ Len(h.unsent) \in Nat
      /\ Banner(h) \in {0, 1} /\ (Banner(h) = 1 <=> h.outcome = "banner")
      /\ Flag(k.served) \in {0, 1} /\ (Flag(k.served) = 1 <=> k.served)
  BY Counts, Flags DEF ClientState
<1>3. /\ Len(d) = Len(e) + 1 /\ Len(e) \in Nat /\ Len(d) \in Nat
      /\ \A i \in 1..Len(e) : e[i] = d[i + 1]
  BY Taken, Unread
<1>4. /\ Consumed(k) + Len(d) <= AnswerLen(h)
      /\ \A i \in 1..Len(d) : d[i] = Answer(h, Consumed(k) + i)
      /\ Consumed(k) > 0 => (k.served <=> h.outcome = "banner")
      /\ Len(k.output) <= Len(h.output)
      /\ \A i \in 1..Len(k.output) : k.output[i] = h.output[i]
  BY <1>1 DEF Talk, AnswerTalk
<1>5. \A i \in 1..Len(h.output) : h.output[i] \in ScriptFrame \cup {"pull"}
  BY ElementOfSeq DEF HandlerState
<1>6. k.decoder # "complete"
  BY DEF AcceptsRunFrame
<1>7. Consumed(k) = Len(k.output) + Flag(k.served)
  <2>1. Flag(k.decoder = "complete") = 0
    BY <1>6 DEF Flag
  <2>2. QED
    BY <1>2, <2>1 DEF Consumed
<1>8. f = "banner" <=> n <= Banner(h)
  BY <1>1, <1>2, <1>5, SMTT(30) DEF Answer, ScriptFrame, EndOfStream
<1>9. f = "banner" => Consumed(k) = 0 /\ Banner(h) = 1 /\ Flag(k.served) = 0
  BY <1>1, <1>2, <1>7, <1>8
<1>10. f # "banner" => Banner(h) = Flag(k.served)
  <2>1. Consumed(k) > 0 => (Flag(k.served) = 1 <=> Banner(h) = 1)
    BY <1>2, <1>4
  <2>2. QED
    BY <1>1, <1>2, <1>7, <1>8, <2>1
<1>11. f \in {"stdout", "stderr"} =>
         Len(k.output) + 1 <= Len(h.output) /\ h.output[Len(k.output) + 1] = f
  <2>1. SUFFICES ASSUME f \in {"stdout", "stderr"}
                 PROVE  /\ Len(k.output) + 1 <= Len(h.output)
                        /\ h.output[Len(k.output) + 1] = f
    OBVIOUS
  <2>2. n = Banner(h) + Len(k.output) + 1
    BY <1>2, <1>7, <1>10, <2>1
  <2>3. n <= Banner(h) + Len(h.output) /\ f = h.output[n - Banner(h)]
    BY <1>1, <1>2, <1>8, <2>1 DEF Answer, EndOfStream
  <2>4. n - Banner(h) = Len(k.output) + 1
    BY <1>2, <2>2
  <2>5. Len(k.output) + 1 <= Len(h.output)
    BY <1>2, <2>2, <2>3, SMTT(30)
  <2>6. QED
    BY <2>3, <2>4, <2>5
<1>12. f = "exit" => h.output # <<"pull">>
  <2>1. SUFFICES ASSUME f = "exit", h.output = <<"pull">> PROVE FALSE
    OBVIOUS
  <2>2. AnswerLen(h) = Banner(h) + Len(h.output) + 1
    BY <2>1 DEF AnswerLen
  <2>3. ~(n <= Banner(h)) /\ n <= Banner(h) + Len(h.output)
    BY <1>1, <1>2, <1>8, <2>1, <2>2
  <2>4. f = h.output[n - Banner(h)] /\ n - Banner(h) \in 1..Len(h.output)
    BY <1>1, <1>2, <2>3 DEF Answer
  <2>5. QED
    BY <1>5, <2>1, <2>4 DEF ScriptFrame
<1>13. f = "pull" => k.op # "run"
  BY DEF AcceptsRunFrame
<1>14. Consumed(r) = Consumed(k) + 1
  <2>1. CASE f = "banner"
    <3>1. r.output = k.output /\ r.served = TRUE /\ r.decoder # "complete"
      BY <2>1 DEF DecoderAfter, ClientState
    <3>2. Flag(r.served) = 1 /\ Flag(r.decoder = "complete") = 0
      BY <3>1 DEF Flag
    <3>3. QED
      BY <2>1, <3>1, <3>2, <1>2, <1>7, <1>9 DEF Consumed
  <2>2. CASE f \in {"stdout", "stderr"}
    <3>1. Len(r.output) = Len(k.output) + 1
      BY <2>2 DEF ClientState, ScriptFrame
    <3>2. r.served = k.served /\ r.decoder # "complete"
      BY <2>2 DEF DecoderAfter, ClientState
    <3>3. Flag(r.served) = Flag(k.served) /\ Flag(r.decoder = "complete") = 0
      BY <3>2 DEF Flag
    <3>4. QED
      BY <3>1, <3>3, <1>2, <1>7 DEF Consumed
  <2>3. CASE f \in {"exit", "pull"}
    <3>1. r.output = k.output /\ r.served = k.served /\ r.decoder = "complete"
      BY <2>3 DEF DecoderAfter, ClientState
    <3>2. Flag(r.served) = Flag(k.served) /\ Flag(r.decoder = "complete") = 1
      BY <3>1 DEF Flag
    <3>3. QED
      BY <3>1, <3>2, <1>2, <1>7 DEF Consumed
  <2>4. QED
    BY <2>1, <2>2, <2>3
<1>15. r.served <=> h.outcome = "banner"
  BY <1>2, <1>9, <1>10
<1>16. /\ Len(r.output) <= Len(h.output)
       /\ \A i \in 1..Len(r.output) : r.output[i] = h.output[i]
  <2>1. CASE f \in {"stdout", "stderr"}
    <3>1. /\ Len(r.output) = Len(k.output) + 1
          /\ \A i \in 1..Len(k.output) : r.output[i] = k.output[i]
          /\ r.output[Len(k.output) + 1] = f
      BY <2>1, AppendProperties DEF ClientState, ScriptFrame
    <3>2. QED
      BY <3>1, <2>1, <1>2, <1>4, <1>11, SMTT(30)
  <2>2. CASE f \notin {"stdout", "stderr"}
    BY <2>2, <1>4
  <2>3. QED
    BY <2>1, <2>2
<1>17. r.op = "run" /\ r.decoder = "complete" => h.output # <<"pull">>
  BY <1>12, <1>13 DEF DecoderAfter
<1>18. Live(r) /\ r.pc # "reported"
  BY DEF Live
<1>19. h.pc \notin {"banner", "send-banner"}
  <2>1. d # << >>
    BY Unread
  <2>2. QED
    BY <1>1, <2>1 DEF Talk, AnswerTalk
<1>20. AnswerTalk(r, h, o, e)
  <2>1. h.pc = "respond" /\ o =>
          Consumed(r) + Len(e) + Len(h.unsent) = AnswerLen(h)
    BY <1>1, <1>2, <1>3, <1>14 DEF Talk, AnswerTalk
  <2>2. Consumed(r) + Len(e) <= AnswerLen(h)
    BY <1>2, <1>3, <1>4, <1>14
  <2>3. \A i \in 1..Len(e) : e[i] = Answer(h, Consumed(r) + i)
    <3>1. ASSUME NEW i \in 1..Len(e) PROVE e[i] = Answer(h, Consumed(r) + i)
      <4>1. i + 1 \in 1..Len(d) /\ Consumed(k) + (i + 1) = Consumed(r) + i
        BY <1>2, <1>3, <1>14
      <4>2. e[i] = Answer(h, Consumed(k) + (i + 1))
        BY <1>3, <1>4, <4>1
      <4>3. QED
        BY <4>1, <4>2
    <3>2. QED
      BY <3>1
  <2>4. h.pc \in {"banner", "send-banner", "respond"} =>
          /\ Len(h.unsent) <= AnswerLen(h)
          /\ \A i \in 1..Len(h.unsent) :
               h.unsent[i] = Answer(h, AnswerLen(h) - Len(h.unsent) + i)
    BY <1>1 DEF Talk, AnswerTalk
  <2>5. QED
    BY <2>1, <2>2, <2>3, <2>4, <1>15, <1>16, <1>17, <1>19 DEF AnswerTalk
<1>21. RejectTalk(r, h, o, Tail(di), e)
  BY <1>1 DEF RejectTalk
<1>22. ReportedTalk(r, o, Tail(di), dn) /\ HandlerTalk(r, h) /\ SuccessTalk(r, h)
  BY <1>1, <1>18 DEF Talk, ReportedTalk, HandlerTalk, SuccessTalk
<1>23. QED
  BY <1>20, <1>21, <1>22 DEF Talk

\* At the end of a complete response, the command has the whole of the answer.
LEMMA TalkEnded ==
  ASSUME NEW k \in ClientState, NEW h \in HandlerState, NEW o \in BOOLEAN,
         NEW di \in Seq(ResponseFrame), NEW dn \in Seq(ResponseFrame),
         Talk(k, h, o, di, dn), Live(k), di # << >>, Head(di) = EndOfStream,
         k.decoder = "complete"
  PROVE  /\ k.key = "ours" /\ h.ran /\ h.outcome # "rejected"
         /\ k.op = "run" => k.output = h.output
<1> DEFINE d == di \o dn
<1>1. /\ Consumed(k) \in Nat /\ Len(k.output) \in Nat /\ Len(h.output) \in Nat
      /\ AnswerLen(h) \in Nat /\ Banner(h) \in {0, 1}
      /\ Banner(h) = 1 <=> h.outcome = "banner"
      /\ Flag(k.served) \in {0, 1} /\ (Flag(k.served) = 1 <=> k.served)
  BY Counts, Flags DEF ClientState
<1>2. Consumed(k) = Len(k.output) + Flag(k.served) + 1
  <2>1. Flag(k.decoder = "complete") = 1
    BY DEF Flag
  <2>2. QED
    BY <1>1, <2>1 DEF Consumed
<1>3. Consumed(k) > 0
  BY <1>1, <1>2
<1>4. h.ran
  BY <1>3 DEF Talk, RejectTalk
<1>5. k.key = "ours" /\ h.outcome # "rejected"
  BY <1>4 DEF Talk, HandlerTalk, RejectTalk
<1>6. Len(d) \in Nat /\ 1 <= Len(d) /\ d[1] = EndOfStream
  BY Taken, Unread
<1>7. /\ Consumed(k) + Len(d) <= AnswerLen(h)
      /\ d[1] = Answer(h, Consumed(k) + 1)
      /\ k.served <=> h.outcome = "banner"
      /\ k.op = "run" => h.output # <<"pull">>
      /\ Len(k.output) <= Len(h.output)
      /\ \A i \in 1..Len(k.output) : k.output[i] = h.output[i]
  BY <1>1, <1>3, <1>4, <1>6 DEF Talk, AnswerTalk
<1>8. Consumed(k) + 1 = AnswerLen(h)
  <2>1. Consumed(k) + 1 \in 1..AnswerLen(h)
    BY <1>1, <1>6, <1>7
  <2>2. QED
    BY <1>6, <1>7, <2>1, AnswerEnds
<1>9. ASSUME k.op = "run" PROVE k.output = h.output
  <2>1. AnswerLen(h) = Banner(h) + Len(h.output) + 2
    BY <1>7, <1>9 DEF AnswerLen
  <2>2. Banner(h) = Flag(k.served)
    BY <1>1, <1>7
  <2>3. Len(k.output) = Len(h.output)
    BY <1>1, <1>2, <1>8, <2>1, <2>2, SMTT(30)
  <2>4. /\ k.output \in Seq(ScriptFrame \cup {"pull"})
        /\ h.output \in Seq(ScriptFrame \cup {"pull"})
    BY SeqMonotonic DEF ClientState, HandlerState
  <2>5. QED
    BY <2>3, <2>4, <1>7, SeqEqual
<1>10. QED
  BY <1>4, <1>5, <1>9

\* A command reports.
LEMMA TalkReport ==
  ASSUME TypeOK, TypeOK', Conversations, NEW c \in Clients, NEW result,
         Report(c, result), UNCHANGED bridge,
         handler[Session(c)].outcome = "rejected" =>
           result \in {"deadline", handler[Session(c)].code},
         result = "success" =>
           /\ client[c].key = "ours" /\ handler[Session(c)].ran
           /\ client[c].op = "run" =>
                client[c].output = handler[Session(c)].output
  PROVE  Conversations'
<1> DEFINE s == Session(c)
           r == client'[c]
<1>1. /\ s \in Sessions /\ client[c] \in ClientState
      /\ handler[s] \in HandlerState /\ open[s] \in BOOLEAN
      /\ downInbox[s] \in Seq(ResponseFrame) /\ down[s] \in Seq(ResponseFrame)
      /\ Talk(client[c], handler[s], open[s], downInbox[s], down[s])
  BY Facts
<1>2. r \in ClientState
  BY DEF TypeOK
<1>3. /\ r.pc = "reported" /\ r.attempt = client[c].attempt /\ r.result = result
      /\ r.op = client[c].op /\ r.key = client[c].key
      /\ result = "success" => r.output = client[c].output
      /\ \A d \in Clients \ {c} : client'[d] = client[d]
  BY DEF Report, NewClient, TypeOK
<1>4. /\ open'[s] = FALSE /\ down'[s] = << >> /\ downInbox'[s] = << >>
      /\ handler' = handler
  BY <1>1 DEF Report, Close, bridge, TypeOK
<1>5. \A t \in Sessions : t # s => SessionKept(t)
  BY DEF Report, Close, bridge, TypeOK, SessionKept
<1>6. OthersKept(c)
  BY <1>3, <1>5 DEF OthersKept
<1> HIDE DEF r, s
<1>7. SuccessTalk(r, handler[s])
  BY <1>3 DEF SuccessTalk, s
<1>8. Talk(r, handler[s], FALSE, << >>, << >>)
  BY <1>1, <1>2, <1>3, <1>7, TalkReported DEF s
<1>9. QED
  BY <1>3, <1>4, <1>6, <1>8, OneMoves DEF r, s

\* The invariant under the steps of a command.
LEMMA TalkCommand ==
  ASSUME TypeOK, TypeOK', Conversations, NEW c \in Clients,
         \/ Command(c) \/ ConnectFails(c) \/ ConnectRefused(c)
         \/ KeyExpiredHere(c) \/ ClientDeadline(c)
  PROVE  Conversations'
<1> DEFINE s == Session(c)
           k == client[c]
           r == client'[c]
<1>1. /\ s \in Sessions /\ k \in ClientState /\ handler[s] \in HandlerState
      /\ open[s] \in BOOLEAN
      /\ downInbox[s] \in Seq(ResponseFrame) /\ down[s] \in Seq(ResponseFrame)
      /\ Talk(k, handler[s], open[s], downInbox[s], down[s])
      /\ k.pc \in {"open", "connect"} =>
           /\ handler[s] = NewHandler /\ ~open[s]
           /\ down[s] = << >> /\ downInbox[s] = << >>
           /\ Consumed(k) = 0 /\ k.result = "none"
  BY Facts
<1>2. r \in ClientState
  BY DEF TypeOK
<1>3. ASSUME k.pc \in {"open", "connect"}, UNCHANGED <<handler, streams>>,
             client' = [client EXCEPT ![c] = r], r.result # "success",
             \/ r.pc = "reported" /\ r.attempt = k.attempt
             \/ r.pc \in {"open", "connect"} /\ r.result = "none"
                /\ Consumed(r) = 0
      PROVE  Conversations'
  <2> HIDE DEF r
  <2>1. QED
    BY <1>2, <1>3, NotConnected
<1>4. ASSUME Live(k), Live(r), client' = [client EXCEPT ![c] = r],
             r.op = k.op, r.key = k.key, r.attempt = k.attempt,
             r.output = k.output, r.served = k.served, r.decoder = k.decoder,
             r.result = k.result,
             UNCHANGED <<handler, open, upInbox, down, downInbox>>,
             \A t \in Sessions : t # s => up'[t] = up[t]
      PROVE  Conversations'
  <2>1. Talk(r, handler[s], open[s], downInbox[s], down[s])
    BY <1>1, <1>2, <1>4, TalkAsking
  <2>2. OthersKept(c)
    BY <1>4 DEF OthersKept, SessionKept, TypeOK
  <2>3. QED
    BY <1>4, <2>1, <2>2, OneMoves DEF Live
<1>5. CASE CheckKey(c)
  <2>1. /\ client' = [client EXCEPT ![c] = r] /\ r.pc = "connect"
        /\ r.result = k.result /\ r.output = k.output /\ r.served = k.served
        /\ r.decoder = k.decoder /\ k.pc = "open"
    BY <1>5, <1>1 DEF CheckKey, ClientStep, ClientAt, TypeOK, ClientState
  <2>2. Consumed(r) = Consumed(k)
    BY <2>1 DEF Consumed
  <2>3. UNCHANGED <<handler, streams>>
    BY <1>5 DEF CheckKey, bridge
  <2>4. QED
    BY <1>1, <1>3, <2>1, <2>2, <2>3
<1>6. CASE Connect(c)
  <2>1. /\ k.pc = "connect" /\ r.pc = "sending" /\ r.attempt = k.attempt
        /\ r.result = k.result /\ r.output = k.output /\ r.served = k.served
        /\ r.decoder = k.decoder
        /\ \A d \in Clients \ {c} : client'[d] = client[d]
    BY <1>6, <1>1 DEF Connect, ClientAt, TypeOK, ClientState
  <2>2. Consumed(r) = Consumed(k)
    BY <2>1 DEF Consumed
  <2>3. handler'[s] = [NewHandler EXCEPT !.pc = "reading"] /\ open'[s] = TRUE
    BY <1>6, <1>1, <2>1 DEF Connect, TypeOK
  <2>4. downInbox'[s] = << >> /\ down'[s] = << >>
    BY <1>6, <1>1, <2>1 DEF Connect
  <2>5. OthersKept(c)
    BY <1>6, <2>1 DEF Connect, OthersKept, SessionKept, TypeOK
  <2>6. handler'[s] \in HandlerState
    BY <1>1 DEF TypeOK
  <2>7. Talk(r, handler'[s], TRUE, << >>, << >>)
    <3>1. LET h == handler'[s]
          IN ~h.ran /\ h.outcome = "none" /\ h.pc = "reading" /\ h.decoder = "auth"
      BY <2>3 DEF NewHandler
    <3> HIDE DEF r, k, s
    <3>2. QED
      BY <1>1, <1>2, <2>1, <2>2, <2>6, <3>1, TalkFresh DEF Live
  <2>8. QED
    BY <2>1, <2>3, <2>4, <2>5, <2>7, OneMoves
<1>7. CASE SendRequest(c)
  <2>1. /\ client' = [client EXCEPT ![c] = r] /\ Live(k) /\ Live(r)
        /\ r.op = k.op /\ r.key = k.key /\ r.attempt = k.attempt
        /\ r.output = k.output /\ r.served = k.served /\ r.decoder = k.decoder
        /\ r.result = k.result
    BY <1>7, <1>1 DEF SendRequest, ClientAt, TypeOK, ClientState, Live
  <2>2. /\ UNCHANGED <<handler, open, upInbox, down, downInbox>>
        /\ \A t \in Sessions : t # s => up'[t] = up[t]
    BY <1>7, <1>1 DEF SendRequest, bridge, TypeOK
  <2>3. QED
    BY <1>4, <2>1, <2>2
<1>8. CASE RequestAcknowledged(c) \/ RequestFails(c)
  <2>1. /\ client' = [client EXCEPT ![c] = r] /\ Live(k) /\ Live(r)
        /\ r.op = k.op /\ r.key = k.key /\ r.attempt = k.attempt
        /\ r.output = k.output /\ r.served = k.served /\ r.decoder = k.decoder
        /\ r.result = k.result
    <3>1. CASE RequestAcknowledged(c)
      BY <3>1, <1>1 DEF RequestAcknowledged, ClientStep, ClientAt, TypeOK,
                        ClientState, Live
    <3>2. CASE RequestFails(c)
      <4>1. k.pc = "sending" /\ client' = [client EXCEPT ![c] =
              [k EXCEPT !.requestFailed = TRUE, !.pc = "reading"]]
        BY <3>2, <1>1 DEF RequestFails, ClientAt, TypeOK
      <4>2. r = [k EXCEPT !.requestFailed = TRUE, !.pc = "reading"]
        BY <4>1 DEF TypeOK
      <4> HIDE DEF r
      <4>3. QED
        BY <4>1, <4>2, <1>1 DEF ClientState, Live
    <3>3. QED
      BY <1>8, <3>1, <3>2
  <2>2. UNCHANGED <<handler, streams>>
    BY <1>8 DEF RequestAcknowledged, RequestFails, bridge
  <2>3. QED
    BY <1>4, <2>1, <2>2 DEF streams
<1>9. CASE ReceiveReject(c)
  <2>1. k.pc = "reading" /\ downInbox[s] # << >>
        /\ NextFrame(c) = Head(downInbox[s])
    BY <1>9 DEF ReceiveReject, Readable, ClientAt, NextFrame
  <2>2. Head(downInbox[s]) = downInbox[s][1]
    BY <1>1, <2>1
  <2>3. handler[s].outcome = "rejected" => NextFrame(c) = handler[s].code
    BY <1>1, <2>1, <2>2 DEF Talk, RejectTalk
  <2>4. QED
    BY <1>9, <2>3, TalkReport DEF ReceiveReject
<1>10. CASE ReceiveFrame(c)
  <2> DEFINE f == NextFrame(c)
  <2>1. /\ k.pc = "reading" /\ downInbox[s] # << >> /\ f = Head(downInbox[s])
        /\ f \in {"banner", "stdout", "stderr", "exit", "pull"}
        /\ AcceptsFrame(c, f)
    BY <1>10 DEF ReceiveFrame, Readable, ClientAt, NextFrame
  <2>2. IF k.op = "run" THEN AcceptsRunFrame(k.decoder, f)
                        ELSE f = "pull" /\ k.decoder = "banner"
    BY <2>1 DEF AcceptsFrame
  <2>3. client' = [client EXCEPT ![c] = [k EXCEPT
          !.decoder = DecoderAfter(f), !.served = (k.served \/ f = "banner"),
          !.output = IF f \in {"stdout", "stderr"} THEN Append(k.output, f)
                                                   ELSE k.output]]
    BY <1>10, <1>1 DEF ReceiveFrame, TypeOK
  <2>4. /\ r.op = k.op /\ r.key = k.key /\ r.pc = k.pc /\ r.result = k.result
        /\ r.attempt = k.attempt
        /\ r.decoder = DecoderAfter(f) /\ r.served = (k.served \/ f = "banner")
        /\ r.output = IF f \in {"stdout", "stderr"} THEN Append(k.output, f)
                                                    ELSE k.output
        /\ \A d \in Clients \ {c} : client'[d] = client[d]
    BY <1>1, <2>3 DEF TypeOK, ClientState
  <2>5. /\ downInbox'[s] = Tail(downInbox[s]) /\ down'[s] = down[s]
        /\ open'[s] = open[s] /\ handler'[s] = handler[s]
    BY <1>10, <1>1 DEF ReceiveFrame, TakeFrame, bridge, TypeOK
  <2>6. OthersKept(c)
    BY <1>10, <1>1, <2>4 DEF ReceiveFrame, TakeFrame, bridge, TypeOK,
                             OthersKept, SessionKept
  <2>7. Live(k)
    BY <2>1 DEF Live
  <2> HIDE DEF f, r, k, s
  <2>8. Talk(r, handler[s], open[s], Tail(downInbox[s]), down[s])
    BY <1>1, <1>2, <2>1, <2>2, <2>4, <2>7, TalkReceived
  <2>9. QED
    BY <2>1, <2>4, <2>5, <2>6, <2>8, OneMoves DEF r, k, s
<1>11. CASE ReceiveEnd(c)
  <2>1. /\ k.pc = "reading" /\ downInbox[s] # << >>
        /\ Head(downInbox[s]) = EndOfStream /\ k.decoder = "complete"
    BY <1>11 DEF ReceiveEnd, Readable, ClientAt, NextFrame
  <2>2. Live(k)
    BY <2>1 DEF Live
  <2>3. /\ k.key = "ours" /\ handler[s].ran /\ handler[s].outcome # "rejected"
        /\ k.op = "run" => k.output = handler[s].output
    BY <1>1, <2>1, <2>2, TalkEnded
  <2>4. QED
    BY <1>11, <2>3, TalkReport DEF ReceiveEnd
<1>12. CASE ReadFails(c)
  <2>1. /\ k.pc = "reading" /\ downInbox[s] = << >>
        /\ Report(c, Failure(c, "read")) /\ UNCHANGED bridge
    BY <1>12 DEF ReadFails, ClientAt
  <2>2. handler[s].outcome # "rejected"
    BY <1>1, <2>1 DEF Talk, RejectTalk
  <2>3. Failure(c, "read") # "success"
    BY DEF Failure
  <2>4. QED
    BY <2>1, <2>2, <2>3, TalkReport
<1>13. CASE ConnectFails(c)
  <2>1. client' = [client EXCEPT ![c] = r] /\ k.pc = "connect"
    BY <1>13, <1>1 DEF ConnectFails, ClientAt, TypeOK
  <2>2. UNCHANGED <<handler, streams>>
    BY <1>13 DEF ConnectFails, bridge
  <2>3. CASE k.attempt < MaxAttempts
    <3>1. /\ r.pc = "open" /\ r.result = k.result /\ r.output = k.output
          /\ r.served = k.served /\ r.decoder = k.decoder
      BY <1>13, <1>1, <2>3 DEF ConnectFails, TypeOK, ClientState
    <3>2. Consumed(r) = Consumed(k)
      BY <3>1 DEF Consumed
    <3>3. QED
      BY <1>1, <1>3, <2>1, <2>2, <3>1, <3>2
  <2>4. CASE ~(k.attempt < MaxAttempts)
    <3>1. r.pc = "reported" /\ r.result = "connect" /\ r.attempt = k.attempt
      BY <1>13, <1>1, <2>4 DEF ConnectFails, TypeOK, ClientState
    <3>2. QED
      BY <1>1, <1>3, <2>1, <2>2, <3>1
  <2>5. QED
    BY <2>3, <2>4
<1>14. CASE ConnectRefused(c) \/ KeyExpiredHere(c)
  <2>1. /\ client' = [client EXCEPT ![c] = r] /\ k.pc \in {"open", "connect"}
        /\ r.pc = "reported" /\ r.result \in {"connect", "expired"}
        /\ r.attempt = k.attempt
    BY <1>14, <1>1 DEF ConnectRefused, KeyExpiredHere, ClientAt, TypeOK,
                       ClientState
  <2>2. UNCHANGED <<handler, streams>>
    BY <1>14 DEF ConnectRefused, KeyExpiredHere, bridge
  <2>3. QED
    BY <1>3, <2>1, <2>2
<1>15. CASE ClientDeadline(c)
  BY <1>15, TalkReport DEF ClientDeadline
<1>16. QED
  BY <1>5, <1>6, <1>7, <1>8, <1>9, <1>10, <1>11, <1>12, <1>13, <1>14, <1>15
  DEF Command

-----------------------------------------------------------------------------
(* The handler's steps.                                                    *)

\* From authentication to the start of the request, or to its rejection.
LEMMA TalkWaiting ==
  ASSUME NEW k \in ClientState, NEW h \in HandlerState, NEW g \in HandlerState,
         NEW o \in BOOLEAN,
         NEW di \in Seq(ResponseFrame), NEW dn \in Seq(ResponseFrame),
         Talk(k, h, o, di, dn), h.pc \in {"reading", "check"},
         g.pc \in {"reading", "check", "execute", "reject"},
         g.ran = h.ran, g.outcome = h.outcome,
         \/ g.pc \in {"check", "execute"}
         \/ g.pc = "reading" /\ g.decoder # "auth"
         => k.key = "ours",
         g.pc = "reject" => g.code \in Rejections
  PROVE  Talk(k, g, o, di, dn)
<1>1. ~h.ran /\ h.outcome = "none"
  BY DEF Talk, HandlerTalk, RejectTalk, HandlerState
<1>2. HandlerTalk(k, g)
  BY <1>1 DEF HandlerTalk
<1>3. AnswerTalk(k, g, o, di \o dn)
  BY <1>1 DEF AnswerTalk
<1>4. RejectTalk(k, g, o, di, di \o dn)
  BY <1>1 DEF Talk, RejectTalk
<1>5. SuccessTalk(k, g)
  BY <1>1 DEF Talk, SuccessTalk
<1>6. QED
  BY <1>2, <1>3, <1>4, <1>5 DEF Talk

\* The request runs: its whole answer is unsent.
LEMMA TalkExecuted ==
  ASSUME NEW k \in ClientState, NEW h \in HandlerState, NEW g \in HandlerState,
         NEW o \in BOOLEAN,
         NEW di \in Seq(ResponseFrame), NEW dn \in Seq(ResponseFrame),
         Talk(k, h, o, di, dn), h.pc = "execute",
         NEW output \in Seq(ScriptFrame \cup {"pull"}),
         g.ran = TRUE, g.output = output, g.outcome = h.outcome,
         g.pc \in {"banner", "respond"},
         \/ output = <<"pull">> /\ g.unsent = output \o <<EndOfStream>>
         \/ output # <<"pull">> /\ g.unsent = output \o <<"exit", EndOfStream>>
  PROVE  Talk(k, g, o, di, dn)
<1>1. ~h.ran /\ h.outcome = "none" /\ k.key = "ours"
  BY DEF Talk, HandlerTalk, RejectTalk, HandlerState
<1>2. /\ di \o dn = << >> /\ k.result # "success"
      /\ Live(k) => Consumed(k) = 0
  BY <1>1 DEF Talk, RejectTalk, SuccessTalk
<1>3. Banner(g) = 0 /\ Len(output) \in Nat
  BY <1>1, Counts
<1>4. /\ Len(g.unsent) = AnswerLen(g)
      /\ \A i \in 1..Len(g.unsent) : g.unsent[i] = Answer(g, i)
  <2>1. CASE output = <<"pull">> /\ g.unsent = output \o <<EndOfStream>>
    <3>1. AnswerLen(g) = Len(output) + 1 /\ Len(output) = 1 /\ output[1] = "pull"
      BY <2>1, <1>3 DEF AnswerLen
    <3>2. /\ Len(g.unsent) = 2 /\ g.unsent[1] = "pull"
          /\ g.unsent[2] = EndOfStream
      <4>1. /\ <<"pull">> \in Seq(ResponseFrame)
            /\ <<EndOfStream>> \in Seq(ResponseFrame)
        BY DEF ResponseFrame
      <4>2. LET u == <<"pull">> \o <<EndOfStream>>
            IN Len(u) = 2 /\ u[1] = "pull" /\ u[2] = EndOfStream
        BY <4>1, ConcatProperties
      <4>3. QED
        BY <2>1, <4>2
    <3>3. Answer(g, 1) = "pull" /\ Answer(g, 2) = EndOfStream
      BY <3>1, <1>3 DEF Answer
    <3>4. QED
      BY <3>1, <3>2, <3>3
  <2>2. CASE output # <<"pull">> /\ g.unsent = output \o <<"exit", EndOfStream>>
    <3>1. AnswerLen(g) = Len(output) + 2
      BY <2>2, <1>3 DEF AnswerLen
    <3>2. <<"exit", EndOfStream>> \in Seq(ResponseFrame)
          /\ output \in Seq(ResponseFrame)
      BY SeqMonotonic DEF ResponseFrame
    <3>3. /\ Len(g.unsent) = Len(output) + 2
          /\ \A i \in 1..Len(output) + 2 : g.unsent[i] =
               IF i <= Len(output) THEN output[i]
                                   ELSE <<"exit", EndOfStream>>[i - Len(output)]
      BY <2>2, <3>2, ConcatProperties
    <3>4. ASSUME NEW i \in 1..Len(output) + 2 PROVE g.unsent[i] = Answer(g, i)
      <4>1. CASE i <= Len(output)
        BY <4>1, <3>1, <3>3, <1>3 DEF Answer
      <4>2. CASE i = Len(output) + 1
        BY <4>2, <3>1, <3>3, <1>3 DEF Answer
      <4>3. CASE i = Len(output) + 2
        BY <4>3, <3>1, <3>3, <1>3 DEF Answer
      <4>4. QED
        BY <4>1, <4>2, <4>3, <1>3
    <3>5. QED
      BY <3>1, <3>3, <3>4
  <2>3. QED
    BY <2>1, <2>2
<1>5. HandlerTalk(k, g)
  BY <1>1 DEF HandlerTalk
<1>6. AnswerTalk(k, g, o, di \o dn)
  <2>1. /\ AnswerLen(g) \in Nat /\ Consumed(k) \in Nat /\ Len(k.output) \in Nat
        /\ Len(di \o dn) = 0 /\ AnswerLen(g) - Len(g.unsent) = 0
    BY <1>2, <1>4, Counts
  <2>2. \A i \in 1..Len(g.unsent) :
          g.unsent[i] = Answer(g, AnswerLen(g) - Len(g.unsent) + i)
    <3>1. ASSUME NEW i \in 1..Len(g.unsent)
          PROVE  AnswerLen(g) - Len(g.unsent) + i = i
      BY <2>1
    <3>2. QED
      BY <3>1, <1>4
  <2>3. o => Live(k)
    BY DEF Talk, ReportedTalk
  <2>4. Live(k) =>
          /\ Consumed(k) + Len(di \o dn) <= AnswerLen(g)
          /\ ~(Consumed(k) > 0) /\ k.decoder # "complete" /\ Len(k.output) = 0
    <3>1. Flag(k.served) \in {0, 1} /\ Flag(k.decoder = "complete") \in {0, 1}
      BY Flags DEF ClientState
    <3>2. Flag(k.decoder = "complete") = 0 => k.decoder # "complete"
      BY DEF Flag
    <3>3. QED
      BY <1>2, <2>1, <3>1, <3>2 DEF Consumed
  <2>5. Len(k.output) = 0 => Len(k.output) <= Len(g.output)
    BY <1>3
  <2>6. QED
    BY <1>1, <1>2, <1>4, <2>1, <2>2, <2>3, <2>4, <2>5 DEF AnswerTalk
<1>7. RejectTalk(k, g, o, di, di \o dn)
  BY <1>1 DEF RejectTalk
<1>8. SuccessTalk(k, g)
  BY <1>2 DEF SuccessTalk
<1>9. QED
  BY <1>5, <1>6, <1>7, <1>8 DEF Talk

\* The handler takes the banner, or goes on without it.
LEMMA TalkTakeBanner ==
  ASSUME NEW k \in ClientState, NEW h \in HandlerState, NEW g \in HandlerState,
         NEW o \in BOOLEAN,
         NEW di \in Seq(ResponseFrame), NEW dn \in Seq(ResponseFrame),
         Talk(k, h, o, di, dn), h.pc = "banner",
         NEW pc \in {"send-banner", "respond"}, g = [h EXCEPT !.pc = pc]
  PROVE  Talk(k, g, o, di, dn)
<1>1. /\ g.pc \in {"send-banner", "respond"} /\ g.ran = h.ran
      /\ g.output = h.output /\ g.outcome = h.outcome
      /\ g.code = h.code /\ g.unsent = h.unsent
  BY DEF HandlerState
<1>2. AnswerLen(g) = AnswerLen(h) /\ \A i : Answer(g, i) = Answer(h, i)
  BY <1>1, AnswerKept
<1>3. h.ran
  BY DEF Talk, HandlerTalk
<1>4. HandlerTalk(k, g)
  BY <1>1, <1>3 DEF Talk, HandlerTalk
<1>5. AnswerTalk(k, g, o, di \o dn)
  <2>1. /\ di \o dn = << >> /\ Len(h.unsent) = AnswerLen(h)
        /\ Live(k) => Consumed(k) = 0
    BY <1>3 DEF Talk, AnswerTalk
  <2>2. o => Live(k)
    BY DEF Talk, ReportedTalk
  <2>3. Len(di \o dn) = 0 /\ AnswerLen(h) \in Nat /\ Consumed(k) \in Nat
    BY <2>1, Counts
  <2>4. o => Consumed(k) + Len(di \o dn) + Len(g.unsent) = AnswerLen(g)
    BY <1>1, <1>2, <2>1, <2>2, <2>3
  <2>5. AnswerTalk(k, h, o, di \o dn) /\ h.pc = "banner"
    BY DEF Talk
  <2>6. /\ Len(g.unsent) <= AnswerLen(g)
        /\ \A i \in 1..Len(g.unsent) :
             g.unsent[i] = Answer(g, AnswerLen(g) - Len(g.unsent) + i)
    <3>1. /\ Len(h.unsent) <= AnswerLen(h)
          /\ \A i \in 1..Len(h.unsent) :
               h.unsent[i] = Answer(h, AnswerLen(h) - Len(h.unsent) + i)
      BY <1>3, <2>5 DEF AnswerTalk
    <3>2. g.unsent = h.unsent
      BY <1>1
    <3>3. QED
      BY <1>2, <3>1, <3>2
  <2>7. Live(k) =>
         /\ Consumed(k) + Len(di \o dn) <= AnswerLen(g)
         /\ \A i \in 1..Len(di \o dn) :
              (di \o dn)[i] = Answer(g, Consumed(k) + i)
         /\ Consumed(k) > 0 => (k.served <=> g.outcome = "banner")
         /\ k.op = "run" /\ k.decoder = "complete" => g.output # <<"pull">>
         /\ Len(k.output) <= Len(g.output)
         /\ \A i \in 1..Len(k.output) : k.output[i] = g.output[i]
    BY <1>1, <1>2, <1>3, <2>5 DEF AnswerTalk
  <2>8. QED
    BY <1>1, <1>2, <2>1, <2>4, <2>6, <2>7 DEF AnswerTalk
<1>6. RejectTalk(k, g, o, di, di \o dn)
  BY <1>1, <1>3 DEF Talk, RejectTalk
<1>7. QED
  BY <1>1, <1>4, <1>5, <1>6 DEF Talk, SuccessTalk

\* The banner is written before the answer that was computed without it.
LEMMA TalkBannerWritten ==
  ASSUME NEW k \in ClientState, NEW h \in HandlerState, NEW g \in HandlerState,
         NEW o \in BOOLEAN,
         NEW di \in Seq(ResponseFrame), NEW dn \in Seq(ResponseFrame),
         Talk(k, h, o, di, dn), o, h.pc = "send-banner",
         g = [h EXCEPT !.pc = "respond", !.outcome = "banner"]
  PROVE  Talk(k, g, o, di, Append(dn, "banner"))
<1> DEFINE d == di \o dn
           e == di \o Append(dn, "banner")
<1>1. /\ g.ran = h.ran /\ g.output = h.output /\ g.outcome = "banner"
      /\ g.pc = "respond" /\ g.unsent = h.unsent
  BY DEF HandlerState
<1>2. h.ran /\ h.outcome # "banner" /\ h.outcome # "rejected"
  BY DEF Talk, HandlerTalk, RejectTalk
<1>3. Live(k) /\ k.pc # "reported"
  BY DEF Talk, ReportedTalk, Live
<1>4. d = << >> /\ Len(h.unsent) = AnswerLen(h) /\ Consumed(k) = 0
  BY <1>2, <1>3 DEF Talk, AnswerTalk
<1>5. /\ Banner(h) = 0 /\ Banner(g) = 1 /\ Len(h.output) \in Nat
      /\ AnswerLen(h) \in Nat /\ AnswerLen(g) \in Nat /\ Len(h.unsent) \in Nat
      /\ Len(k.output) \in Nat /\ AnswerLen(g) > Banner(g) + Len(g.output)
  BY <1>1, <1>2, Counts
<1>6. AnswerLen(g) = AnswerLen(h) + 1
  <2>1. CASE h.output = <<"pull">>
    <3>1. /\ AnswerLen(h) = Banner(h) + Len(h.output) + 1
          /\ AnswerLen(g) = Banner(g) + Len(h.output) + 1
      BY <2>1, <1>1 DEF AnswerLen
    <3>2. QED
      BY <3>1, <1>5
  <2>2. CASE h.output # <<"pull">>
    <3>1. /\ AnswerLen(h) = Banner(h) + Len(h.output) + 2
          /\ AnswerLen(g) = Banner(g) + Len(h.output) + 2
      BY <2>2, <1>1 DEF AnswerLen
    <3>2. QED
      BY <3>1, <1>5
  <2>3. QED
    BY <2>1, <2>2
<1>7. ASSUME NEW i \in 1..AnswerLen(h) PROVE Answer(g, i + 1) = Answer(h, i)
  BY <1>1, <1>5, <1>6 DEF Answer
<1>8. Answer(g, 1) = "banner"
  BY <1>5 DEF Answer
<1>9. Len(e) = 1 /\ e[1] = "banner"
  <2>1. "banner" \in ResponseFrame
    BY DEF ResponseFrame
  <2>2. Len(e) = Len(d) + 1 /\ e[Len(d) + 1] = "banner" /\ Len(d) = 0
    BY <2>1, <1>4, Written
  <2>3. QED
    BY <2>2
<1>10. \A i \in 1..Len(h.unsent) : h.unsent[i] = Answer(h, i)
  <2>1. \A i \in 1..Len(h.unsent) :
          h.unsent[i] = Answer(h, AnswerLen(h) - Len(h.unsent) + i)
    BY <1>2 DEF Talk, AnswerTalk
  <2>2. ASSUME NEW i \in 1..Len(h.unsent)
        PROVE  AnswerLen(h) - Len(h.unsent) + i = i
    BY <1>4, <1>5
  <2>3. QED
    BY <2>1, <2>2
<1>11. \A i \in 1..Len(g.unsent) :
         g.unsent[i] = Answer(g, AnswerLen(g) - Len(g.unsent) + i)
  <2>1. ASSUME NEW i \in 1..Len(g.unsent)
        PROVE  /\ AnswerLen(g) - Len(g.unsent) + i = i + 1
               /\ i \in 1..AnswerLen(h)
    BY <1>1, <1>4, <1>5, <1>6
  <2>2. QED
    BY <2>1, <1>1, <1>7, <1>10
<1>12. k.decoder # "complete" /\ Len(k.output) = 0
  <2>1. Flag(k.served) \in {0, 1} /\ Flag(k.decoder = "complete") \in {0, 1}
    BY Flags DEF ClientState
  <2>2. Flag(k.decoder = "complete") = 0 => k.decoder # "complete"
    BY DEF Flag
  <2>3. QED
    BY <1>4, <1>5, <2>1, <2>2 DEF Consumed
<1>13. AnswerTalk(k, g, o, e)
  <2>1. Consumed(k) + Len(e) + Len(g.unsent) = AnswerLen(g)
    BY <1>1, <1>4, <1>5, <1>6, <1>9
  <2>2. Consumed(k) + Len(e) <= AnswerLen(g)
    BY <1>4, <1>5, <1>6, <1>9
  <2>3. \A i \in 1..Len(e) : e[i] = Answer(g, Consumed(k) + i)
    BY <1>4, <1>8, <1>9
  <2>4. Len(g.unsent) <= AnswerLen(g) /\ ~(Consumed(k) > 0)
        /\ Len(k.output) <= Len(g.output)
    BY <1>1, <1>4, <1>5, <1>6, <1>12
  <2>5. \A i \in 1..Len(k.output) : k.output[i] = g.output[i]
    BY <1>12
  <2>6. QED
    BY <1>1, <1>11, <1>12, <2>1, <2>2, <2>3, <2>4, <2>5 DEF AnswerTalk
<1>14. HandlerTalk(k, g)
  BY <1>1, <1>2 DEF Talk, HandlerTalk
<1>15. RejectTalk(k, g, o, di, e) /\ SuccessTalk(k, g)
  BY <1>1, <1>2 DEF Talk, RejectTalk, SuccessTalk
<1>16. ReportedTalk(k, o, di, Append(dn, "banner"))
  BY <1>3 DEF Talk, ReportedTalk
<1>17. QED
  BY <1>13, <1>14, <1>15, <1>16 DEF Talk

\* The next frame of the answer is written.
LEMMA TalkAnswered ==
  ASSUME NEW k \in ClientState, NEW h \in HandlerState, NEW g \in HandlerState,
         NEW o \in BOOLEAN,
         NEW di \in Seq(ResponseFrame), NEW dn \in Seq(ResponseFrame),
         Talk(k, h, o, di, dn), o, h.pc = "respond", h.unsent # << >>,
         g = [h EXCEPT !.unsent = Tail(h.unsent)]
  PROVE  Talk(k, g, o, di, Append(dn, Head(h.unsent)))
<1> DEFINE d == di \o dn
           e == di \o Append(dn, Head(h.unsent))
           n == AnswerLen(h) - Len(h.unsent)
<1>1. /\ g.ran = h.ran /\ g.output = h.output /\ g.outcome = h.outcome
      /\ g.pc = "respond" /\ g.unsent = Tail(h.unsent) /\ g.code = h.code
  BY DEF HandlerState
<1>2. h.ran
  BY DEF Talk, HandlerTalk
<1>3. Live(k)
  BY DEF Talk, ReportedTalk, Live
<1>4. AnswerLen(g) = AnswerLen(h) /\ \A i : Answer(g, i) = Answer(h, i)
  BY <1>1, AnswerKept
<1>5. /\ Len(h.unsent) <= AnswerLen(h)
      /\ \A i \in 1..Len(h.unsent) : h.unsent[i] = Answer(h, n + i)
      /\ Consumed(k) + Len(d) + Len(h.unsent) = AnswerLen(h)
      /\ \A i \in 1..Len(d) : d[i] = Answer(h, Consumed(k) + i)
  BY <1>2, <1>3 DEF Talk, AnswerTalk
<1>6. /\ Head(h.unsent) \in ResponseFrame /\ Head(h.unsent) = h.unsent[1]
      /\ Len(h.unsent) \in Nat \ {0} /\ Len(Tail(h.unsent)) = Len(h.unsent) - 1
      /\ \A i \in 1..Len(Tail(h.unsent)) : Tail(h.unsent)[i] = h.unsent[i + 1]
  <2>1. h.unsent \in Seq(ResponseFrame)
    BY DEF HandlerState
  <2>2. QED
    BY <2>1, HeadTailProperties, EmptySeq
<1>7. /\ Len(e) = Len(d) + 1 /\ Len(d) \in Nat
      /\ \A i \in 1..Len(d) : e[i] = d[i]
      /\ e[Len(d) + 1] = Head(h.unsent)
  BY <1>6, Written, Unread
<1>8. AnswerLen(h) \in Nat /\ Consumed(k) \in Nat
  BY Counts
<1>9. \A i \in 1..Len(e) : e[i] = Answer(g, Consumed(k) + i)
  <2>1. ASSUME NEW i \in 1..Len(e) PROVE e[i] = Answer(h, Consumed(k) + i)
    <3>1. CASE i \in 1..Len(d)
      BY <3>1, <1>5, <1>7
    <3>2. CASE i = Len(d) + 1
      <4>1. n + 1 = Consumed(k) + i /\ 1 \in 1..Len(h.unsent)
        BY <3>2, <1>5, <1>6, <1>7, <1>8
      <4>2. h.unsent[1] = Answer(h, n + 1)
        BY <4>1, <1>5
      <4>3. QED
        BY <3>2, <4>1, <4>2, <1>6, <1>7
    <3>3. QED
      BY <3>1, <3>2, <1>7, SMTT(30)
  <2>2. QED
    BY <2>1, <1>4
<1>10. \A i \in 1..Len(g.unsent) :
         g.unsent[i] = Answer(g, AnswerLen(g) - Len(g.unsent) + i)
  <2>1. ASSUME NEW i \in 1..Len(g.unsent)
        PROVE  g.unsent[i] = Answer(h, AnswerLen(h) - Len(g.unsent) + i)
    <3>1. /\ i + 1 \in 1..Len(h.unsent)
          /\ n + (i + 1) = AnswerLen(h) - Len(g.unsent) + i
      BY <1>1, <1>6, <1>8, SMTT(30)
    <3>2. g.unsent[i] = h.unsent[i + 1]
      BY <1>1, <1>6
    <3>3. QED
      BY <3>1, <3>2, <1>5
  <2>2. QED
    BY <2>1, <1>4
<1>11. /\ Len(g.unsent) <= AnswerLen(g)
       /\ Consumed(k) + Len(e) + Len(g.unsent) = AnswerLen(g)
       /\ Consumed(k) + Len(e) <= AnswerLen(g)
  <2>1. /\ Len(g.unsent) = Len(h.unsent) - 1 /\ AnswerLen(g) = AnswerLen(h)
        /\ Len(e) = Len(d) + 1
        /\ Consumed(k) + Len(d) + Len(h.unsent) = AnswerLen(h)
        /\ Len(h.unsent) <= AnswerLen(h) /\ Len(h.unsent) \in Nat \ {0}
        /\ Len(d) \in Nat
    BY <1>1, <1>4, <1>5, <1>6, <1>7
  <2> HIDE DEF d, e
  <2>2. Len(g.unsent) <= AnswerLen(g)
    BY <2>1, <1>8
  <2>3. Consumed(k) + Len(e) + Len(g.unsent) = AnswerLen(g)
    BY <2>1, <1>8
  <2>4. Consumed(k) + Len(e) <= AnswerLen(g)
    BY <2>1, <1>8
  <2>5. QED
    BY <2>2, <2>3, <2>4
<1>12. AnswerTalk(k, g, o, e)
  BY <1>1, <1>2, <1>3, <1>9, <1>10, <1>11 DEF Talk, AnswerTalk
<1>13. HandlerTalk(k, g)
  BY <1>1, <1>2 DEF Talk, HandlerTalk
<1>14. RejectTalk(k, g, o, di, e) /\ SuccessTalk(k, g)
  BY <1>1, <1>2 DEF Talk, RejectTalk, SuccessTalk
<1>15. ReportedTalk(k, o, di, Append(dn, Head(h.unsent)))
  BY <1>3 DEF Talk, ReportedTalk
<1>16. QED
  BY <1>12, <1>13, <1>14, <1>15 DEF Talk

\* The code of a rejection is written, and then the end of the stream.
LEMMA TalkRejecting ==
  ASSUME NEW k \in ClientState, NEW h \in HandlerState, NEW g \in HandlerState,
         NEW o \in BOOLEAN,
         NEW di \in Seq(ResponseFrame), NEW dn \in Seq(ResponseFrame),
         NEW f \in ResponseFrame,
         Talk(k, h, o, di, dn), o,
         \/ h.pc = "reject" /\ f = h.code /\ g = [h EXCEPT !.pc = "reject-end"]
         \/ /\ h.pc = "reject-end" /\ f = EndOfStream
            /\ g = [h EXCEPT !.pc = "reject-ack"]
  PROVE  Talk(k, g, o, di, Append(dn, f))
<1> DEFINE d == di \o dn
           e == di \o Append(dn, f)
<1>1. g.ran = h.ran /\ g.outcome = h.outcome /\ g.code = h.code
  BY DEF HandlerState
<1>2. ~h.ran /\ h.outcome = "none" /\ h.code \in Rejections
  BY DEF Talk, HandlerTalk, RejectTalk, HandlerState
<1>3. Live(k)
  BY DEF Talk, ReportedTalk, Live
<1>4. /\ Len(e) = Len(d) + 1 /\ Len(d) \in Nat /\ e \in Seq(ResponseFrame)
      /\ \A i \in 1..Len(d) : e[i] = d[i]
      /\ e[Len(d) + 1] = f
  BY Written, Unread
<1>5. ReportedTalk(k, o, di, Append(dn, f)) /\ SuccessTalk(k, g)
  BY <1>1, <1>2, <1>3 DEF Talk, ReportedTalk, SuccessTalk
<1>6. CASE h.pc = "reject" /\ f = h.code /\ g = [h EXCEPT !.pc = "reject-end"]
  <2>1. g.pc = "reject-end" /\ d = << >>
    BY <1>2, <1>6 DEF Talk, RejectTalk, HandlerState
  <2>2. e = <<h.code>>
    BY <1>2, <1>4, <1>6, <2>1, SeqEqual
  <2>3. RejectTalk(k, g, o, di, e)
    BY <1>1, <1>2, <2>1, <2>2 DEF Talk, RejectTalk
  <2>4. HandlerTalk(k, g) /\ AnswerTalk(k, g, o, e)
    BY <1>1, <1>2, <2>1 DEF Talk, HandlerTalk, AnswerTalk
  <2>5. QED
    BY <1>5, <2>3, <2>4 DEF Talk
<1>7. CASE /\ h.pc = "reject-end" /\ f = EndOfStream
           /\ g = [h EXCEPT !.pc = "reject-ack"]
  <2>1. g.pc = "reject-ack" /\ d = <<h.code>>
    BY <1>2, <1>7 DEF Talk, RejectTalk, HandlerState
  <2>2. e = <<h.code, EndOfStream>>
    <3>1. Len(d) = 1 /\ d[1] = h.code
      BY <2>1
    <3>2. Len(e) = 2 /\ e[1] = h.code /\ e[2] = EndOfStream
      BY <3>1, <1>4, <1>7
    <3>3. <<h.code, EndOfStream>> \in Seq(ResponseFrame)
      BY <1>2 DEF ResponseFrame
    <3> HIDE DEF d, e
    <3>4. QED
      BY <3>2, <3>3, <1>4, SeqEqual
  <2>3. RejectTalk(k, g, o, di, e)
    BY <1>1, <1>2, <2>1, <2>2 DEF Talk, RejectTalk
  <2>4. HandlerTalk(k, g) /\ AnswerTalk(k, g, o, e)
    BY <1>1, <1>2, <2>1 DEF Talk, HandlerTalk, AnswerTalk
  <2>5. QED
    BY <1>5, <2>3, <2>4 DEF Talk
<1>8. QED
  BY <1>6, <1>7

\* The rejection is acknowledged: the command has it, read or not.
LEMMA TalkRejected ==
  ASSUME NEW k \in ClientState, NEW h \in HandlerState, NEW g \in HandlerState,
         NEW o \in BOOLEAN, NEW di \in Seq(ResponseFrame),
         Talk(k, h, o, di, << >>), o, h.pc = "reject-ack",
         g = [h EXCEPT !.pc = "close", !.outcome = "rejected"]
  PROVE  Talk(k, g, o, di, << >>)
<1>1. /\ g.ran = h.ran /\ g.outcome = "rejected" /\ g.code = h.code
      /\ g.pc = "close"
  BY DEF HandlerState
<1>2. ~h.ran /\ h.code \in Rejections /\ di \o << >> = di
  BY Unread DEF Talk, HandlerTalk
<1>3. Live(k) /\ k.pc # "reported"
  BY DEF Talk, ReportedTalk, Live
<1>4. di = <<h.code, EndOfStream>>
  BY <1>2 DEF Talk, RejectTalk
<1>5. di # << >> /\ di[1] = h.code
  BY <1>4
<1>6. RejectTalk(k, g, o, di, di)
  BY <1>1, <1>2, <1>3, <1>5 DEF Talk, RejectTalk
<1>7. HandlerTalk(k, g) /\ AnswerTalk(k, g, o, di) /\ SuccessTalk(k, g)
  BY <1>1, <1>2 DEF Talk, HandlerTalk, AnswerTalk, SuccessTalk
<1>8. QED
  BY <1>2, <1>6, <1>7 DEF Talk

\* The bridge closes the session.
LEMMA TalkClosedByBridge ==
  ASSUME NEW k \in ClientState, NEW h \in HandlerState, NEW g \in HandlerState,
         NEW o \in BOOLEAN,
         NEW di \in Seq(ResponseFrame), NEW dn \in Seq(ResponseFrame),
         Talk(k, h, o, di, dn), h.pc = "close", g.pc = "closed",
         g.ran = h.ran, g.output = h.output, g.outcome = h.outcome,
         g.code = h.code
  PROVE  Talk(k, g, FALSE, di, << >>)
<1>1. Talk(k, h, FALSE, di, << >>)
  BY TalkClosed
<1>2. AnswerLen(g) = AnswerLen(h) /\ \A i : Answer(g, i) = Answer(h, i)
  BY AnswerKept
<1>3. HandlerTalk(k, g)
  BY <1>1 DEF Talk, HandlerTalk
<1>4. AnswerTalk(k, g, FALSE, di \o << >>)
  BY <1>1, <1>2 DEF Talk, AnswerTalk
<1>5. RejectTalk(k, g, FALSE, di, di \o << >>)
  BY <1>1 DEF Talk, RejectTalk
<1>6. QED
  BY <1>1, <1>3, <1>4, <1>5 DEF Talk, SuccessTalk

\* It is enough to look at the handler's session.
LEMMA HandlerMoves ==
  ASSUME TypeOK, TypeOK', Conversations, NEW s \in Sessions,
         handler[s].pc # "idle", UNCHANGED client,
         \A t \in Sessions : t # s => SessionKept(t),
         Talk(client[s[1]], handler'[s], open'[s], downInbox'[s], down'[s])
  PROVE  Conversations'
<1>1. /\ s[1] \in Clients /\ s = Session(s[1])
      /\ client[s[1]].pc \notin {"open", "connect"}
  BY Owner
<1>2. OthersKept(s[1])
  BY <1>1 DEF OthersKept
<1>3. QED
  BY <1>1, <1>2, OneMoves

\* The invariant under the steps of a handler.
LEMMA TalkHandle ==
  ASSUME TypeOK, TypeOK', Conversations, NEW s \in Sessions,
         Handle(s) \/ HandlerDeadline(s)
  PROVE  Conversations'
<1> DEFINE k == client[s[1]]
           h == handler[s]
           g == handler'[s]
           di == downInbox[s]
           dn == down[s]
<1>1. h.pc # "idle"
  BY DEF Handle, HandlerDeadline, HandlerAt, Authenticate, AcceptRequest, Reading,
     RequestEnds, ServerReadFails, EnsureKeyNotExpired, Execute, TakeBanner,
     WriteBanner, BannerWriteFails, WriteResponse, ResponseAcknowledged,
     ResponseFails, SendReject, FinishReject, RejectAcknowledged, RejectFails,
     Rejecting, CloseSession
<1>2. s[1] \in Clients /\ s = Session(s[1])
  BY <1>1, Owner
<1>3. /\ k \in ClientState /\ h \in HandlerState /\ open[s] \in BOOLEAN
      /\ di \in Seq(ResponseFrame) /\ dn \in Seq(ResponseFrame)
      /\ Talk(k, h, open[s], di, dn)
  BY <1>2, Facts
<1>4. g \in HandlerState
  BY DEF TypeOK
<1>5. ASSUME UNCHANGED <<client, open, up, down, downInbox>>,
             \A t \in Sessions : t # s => upInbox'[t] = upInbox[t],
             \A t \in Sessions : t # s => handler'[t] = handler[t],
             Talk(k, g, open[s], di, dn)
      PROVE  Conversations'
  BY <1>1, <1>5, HandlerMoves DEF SessionKept
<1>6. ASSUME HandlerStep(s, "close"), UNCHANGED <<client, streams>>,
             h.pc # "closed"
      PROVE  Conversations'
  <2>1. g = [h EXCEPT !.pc = "close"]
        /\ \A t \in Sessions : t # s => handler'[t] = handler[t]
    BY <1>6 DEF HandlerStep, TypeOK
  <2> HIDE DEF g, h, k, di, dn
  <2>2. Talk(k, g, open[s], di, dn)
    BY <1>3, <1>6, <2>1, TalkAbandoned
  <2>3. QED
    BY <1>5, <1>6, <2>1, <2>2 DEF streams
<1>7. ASSUME NEW f \in ResponseFrame, WriteFrame(s, f),
             \A t \in Sessions : t # s => handler'[t] = handler[t],
             Talk(k, g, open[s], di, Append(dn, f))
      PROVE  Conversations'
  <2>1. /\ UNCHANGED <<client, open, up, upInbox, downInbox>>
        /\ down'[s] = Append(dn, f)
        /\ \A t \in Sessions : t # s => down'[t] = down[t]
    BY <1>7 DEF WriteFrame, TypeOK
  <2>2. QED
    BY <1>1, <1>7, <2>1, HandlerMoves DEF SessionKept
<1>8. ASSUME UNCHANGED <<client, open, up, down, downInbox>>,
             \A t \in Sessions : t # s => upInbox'[t] = upInbox[t],
             \A t \in Sessions : t # s => handler'[t] = handler[t],
             h.pc \in {"reading", "check"},
             g.pc \in {"reading", "check", "execute", "reject"},
             g.ran = h.ran, g.outcome = h.outcome,
             \/ g.pc \in {"check", "execute"}
             \/ g.pc = "reading" /\ g.decoder # "auth"
             => k.key = "ours",
             g.pc = "reject" => g.code \in Rejections
      PROVE  Conversations'
  <2> HIDE DEF g, h, k, di, dn
  <2>1. Talk(k, g, open[s], di, dn)
    BY <1>3, <1>4, <1>8, TalkWaiting
  <2>2. QED
    BY <1>5, <1>8, <2>1
<1>9. CASE Authenticate(s)
  <2>1. /\ UNCHANGED <<client, open, up, down, downInbox>>
        /\ \A t \in Sessions : t # s => upInbox'[t] = upInbox[t]
        /\ \A t \in Sessions : t # s => handler'[t] = handler[t]
        /\ h.pc = "reading"
    BY <1>9 DEF Authenticate, Reading, HandlerAt, TakeRequestFrame, TypeOK
  <2>2. g = IF k.key = "ours"
              THEN [h EXCEPT !.decoder = "request"]
              ELSE [h EXCEPT !.pc = "reject", !.code = "invalid-key"]
    BY <1>9 DEF Authenticate, TypeOK
  <2>3. CASE k.key = "ours"
    <3>1. g = [h EXCEPT !.decoder = "request"]
      BY <2>2, <2>3
    <3>2. g.pc = "reading" /\ g.ran = h.ran /\ g.outcome = h.outcome
      BY <3>1, <2>1, <1>3 DEF HandlerState
    <3>3. QED
      BY <1>8, <2>1, <2>3, <3>2
  <2>4. CASE k.key # "ours"
    <3>1. g = [h EXCEPT !.pc = "reject", !.code = "invalid-key"]
      BY <2>2, <2>4
    <3>2. /\ g.pc = "reject" /\ g.ran = h.ran /\ g.outcome = h.outcome
          /\ g.code \in Rejections
      BY <3>1, <2>1, <1>3 DEF HandlerState, Rejections
    <3>3. QED
      BY <1>8, <2>1, <3>2
  <2>5. QED
    BY <2>3, <2>4
<1>10. CASE AcceptRequest(s)
  <2>1. /\ UNCHANGED <<client, open, up, down, downInbox>>
        /\ \A t \in Sessions : t # s => upInbox'[t] = upInbox[t]
        /\ \A t \in Sessions : t # s => handler'[t] = handler[t]
        /\ h.pc = "reading" /\ h.decoder = "request"
    BY <1>10 DEF AcceptRequest, Reading, HandlerAt, TakeRequestFrame, TypeOK
  <2>2. g = [h EXCEPT !.decoder = "complete", !.op = Head(upInbox[s])]
    BY <1>10 DEF AcceptRequest, TypeOK
  <2>3. g.pc = "reading" /\ g.ran = h.ran /\ g.outcome = h.outcome
    BY <2>1, <2>2, <1>3 DEF HandlerState
  <2>4. k.key = "ours"
    BY <2>1, <1>3 DEF Talk, HandlerTalk
  <2>5. QED
    BY <1>8, <2>1, <2>3, <2>4
<1>11. CASE RequestEnds(s)
  <2>1. /\ UNCHANGED <<client, open, up, down, downInbox>>
        /\ \A t \in Sessions : t # s => upInbox'[t] = upInbox[t]
        /\ \A t \in Sessions : t # s => handler'[t] = handler[t]
        /\ h.pc = "reading" /\ h.decoder = "complete"
    BY <1>11 DEF RequestEnds, Reading, HandlerAt, TakeRequestFrame, HandlerStep,
                 TypeOK
  <2>2. g = [h EXCEPT !.pc = "check"]
    BY <1>11 DEF RequestEnds, HandlerStep, TypeOK
  <2>3. g.pc = "check" /\ g.ran = h.ran /\ g.outcome = h.outcome
    BY <2>1, <2>2, <1>3 DEF HandlerState
  <2>4. k.key = "ours"
    BY <2>1, <1>3 DEF Talk, HandlerTalk
  <2>5. QED
    BY <1>8, <2>1, <2>3, <2>4
<1>12. CASE ServerReadFails(s)
  BY <1>12, <1>6 DEF ServerReadFails, HandlerAt
<1>13. CASE EnsureKeyNotExpired(s)
  <2>1. /\ UNCHANGED <<client, open, up, down, downInbox, upInbox>>
        /\ \A t \in Sessions : t # s => handler'[t] = handler[t]
        /\ h.pc = "check"
    BY <1>13 DEF EnsureKeyNotExpired, HandlerAt, streams, TypeOK
  <2>2. k.key = "ours"
    BY <2>1, <1>3 DEF Talk, HandlerTalk
  <2>3. CASE keyExpired
    <3>1. g = [h EXCEPT !.pc = "reject", !.code = "expired-key"]
      BY <1>13, <2>3 DEF EnsureKeyNotExpired, TypeOK
    <3>2. /\ g.pc = "reject" /\ g.ran = h.ran /\ g.outcome = h.outcome
          /\ g.code \in Rejections
      BY <3>1, <2>1, <1>3 DEF HandlerState, Rejections
    <3>3. QED
      BY <1>8, <2>1, <3>2
  <2>4. CASE ~keyExpired
    <3>1. g = [h EXCEPT !.pc = "execute"]
      BY <1>13, <2>4 DEF EnsureKeyNotExpired, TypeOK
    <3>2. g.pc = "execute" /\ g.ran = h.ran /\ g.outcome = h.outcome
      BY <3>1, <2>1, <1>3 DEF HandlerState
    <3>3. QED
      BY <1>8, <2>1, <2>2, <3>2
  <2>5. QED
    BY <2>3, <2>4
<1>14. CASE Execute(s)
  <2>1. PICK output \in IF h.op = "run" THEN Outputs ELSE {<<"pull">>} :
          handler' = [handler EXCEPT ![s] =
            [@ EXCEPT !.ran = TRUE, !.output = output,
               !.pc = IF handler[s].op = "run" THEN "banner" ELSE "respond",
               !.unsent = output \o IF handler[s].op = "run"
                                      THEN <<"exit", EndOfStream>>
                                      ELSE <<EndOfStream>>]]
    BY <1>14 DEF Execute
  <2>2. /\ output \in Seq(ScriptFrame \cup {"pull"})
        /\ h.op = "run" => output # <<"pull">>
        /\ h.op # "run" => output = <<"pull">>
    <3>1. CASE h.op = "run"
      <4>1. output \in Seq(ScriptFrame)
        BY <2>1, <3>1, OutputsAssumption DEF ScriptFrame
      <4>2. output \in Seq(ScriptFrame \cup {"pull"})
        BY <4>1, SeqMonotonic
      <4>3. ASSUME output = <<"pull">> PROVE FALSE
        <5>1. 1 \in 1..Len(output) /\ output[1] = "pull"
          BY <4>3
        <5>2. output[1] \in ScriptFrame
          BY <4>1, <5>1, ElementOfSeq
        <5>3. QED
          BY <5>1, <5>2 DEF ScriptFrame
      <4>4. QED
        BY <3>1, <4>2, <4>3
    <3>2. CASE h.op # "run"
      <4>1. output = <<"pull">>
        BY <2>1, <3>2
      <4>2. <<"pull">> \in Seq(ScriptFrame \cup {"pull"})
        OBVIOUS
      <4>3. QED
        BY <3>2, <4>1, <4>2
    <3>3. QED
      BY <3>1, <3>2
  <2>3. /\ g.ran = TRUE /\ g.output = output /\ g.outcome = h.outcome
        /\ g.pc = IF h.op = "run" THEN "banner" ELSE "respond"
        /\ g.unsent = output \o IF h.op = "run" THEN <<"exit", EndOfStream>>
                                               ELSE <<EndOfStream>>
        /\ \A t \in Sessions : t # s => handler'[t] = handler[t]
    BY <2>1, <1>3 DEF TypeOK, HandlerState
  <2>4. h.pc = "execute" /\ UNCHANGED <<client, streams>>
    BY <1>14 DEF Execute, HandlerAt
  <2> HIDE DEF g, h, k, di, dn
  <2>5. Talk(k, g, open[s], di, dn)
    BY <1>3, <1>4, <2>2, <2>3, <2>4, TalkExecuted
  <2>6. QED
    BY <1>5, <2>3, <2>4, <2>5 DEF streams
<1>15. CASE TakeBanner(s)
  <2>1. /\ h.pc = "banner" /\ UNCHANGED <<client, streams>>
        /\ g = [h EXCEPT !.pc = IF pendingBanner THEN "send-banner" ELSE "respond"]
        /\ \A t \in Sessions : t # s => handler'[t] = handler[t]
    BY <1>15 DEF TakeBanner, HandlerAt, HandlerStep, TypeOK
  <2>2. PICK pc \in {"send-banner", "respond"} : g = [h EXCEPT !.pc = pc]
    BY <2>1
  <2> HIDE DEF g, h, k, di, dn
  <2>3. Talk(k, g, open[s], di, dn)
    BY <1>3, <1>4, <2>1, <2>2, TalkTakeBanner
  <2>4. QED
    BY <1>5, <2>1, <2>3 DEF streams
<1>16. CASE WriteBanner(s)
  <2>1. /\ h.pc = "send-banner" /\ WriteFrame(s, "banner") /\ open[s]
        /\ g = [h EXCEPT !.pc = "respond", !.outcome = "banner"]
        /\ \A t \in Sessions : t # s => handler'[t] = handler[t]
    BY <1>16 DEF WriteBanner, HandlerAt, WriteFrame, TypeOK
  <2> HIDE DEF g, h, k, di, dn
  <2>2. Talk(k, g, open[s], di, Append(dn, "banner"))
    BY <1>3, <1>4, <2>1, TalkBannerWritten
  <2>3. QED
    BY <1>7, <2>1, <2>2 DEF ResponseFrame
<1>17. CASE BannerWriteFails(s)
  BY <1>17, <1>6 DEF BannerWriteFails, HandlerAt
<1>18. CASE WriteResponse(s)
  <2>1. /\ h.pc = "respond" /\ h.unsent # << >> /\ open[s]
        /\ WriteFrame(s, Head(h.unsent))
        /\ g = [h EXCEPT !.unsent = Tail(h.unsent)]
        /\ \A t \in Sessions : t # s => handler'[t] = handler[t]
    BY <1>18 DEF WriteResponse, HandlerAt, WriteFrame, TypeOK
  <2>2. Head(h.unsent) \in ResponseFrame
    BY <2>1, <1>3, HeadTailProperties DEF HandlerState
  <2> HIDE DEF g, h, k, di, dn
  <2>3. Talk(k, g, open[s], di, Append(dn, Head(h.unsent)))
    BY <1>3, <1>4, <2>1, TalkAnswered
  <2>4. QED
    BY <1>7, <2>1, <2>2, <2>3
<1>19. CASE ResponseAcknowledged(s)
  BY <1>19, <1>6 DEF ResponseAcknowledged, HandlerAt
<1>20. CASE ResponseFails(s)
  BY <1>20, <1>6 DEF ResponseFails, HandlerAt
<1>21. CASE SendReject(s)
  <2>1. /\ h.pc = "reject" /\ WriteFrame(s, h.code) /\ open[s]
        /\ g = [h EXCEPT !.pc = "reject-end"]
        /\ \A t \in Sessions : t # s => handler'[t] = handler[t]
    BY <1>21 DEF SendReject, HandlerAt, HandlerStep, WriteFrame, TypeOK
  <2>2. h.code \in ResponseFrame
    BY <2>1, <1>3 DEF Talk, HandlerTalk, ResponseFrame
  <2> HIDE DEF g, h, k, di, dn
  <2>3. Talk(k, g, open[s], di, Append(dn, h.code))
    BY <1>3, <1>4, <2>1, <2>2, TalkRejecting
  <2>4. QED
    BY <1>7, <2>1, <2>2, <2>3
<1>22. CASE FinishReject(s)
  <2>1. /\ h.pc = "reject-end" /\ WriteFrame(s, EndOfStream) /\ open[s]
        /\ g = [h EXCEPT !.pc = "reject-ack"]
        /\ \A t \in Sessions : t # s => handler'[t] = handler[t]
    BY <1>22 DEF FinishReject, HandlerAt, HandlerStep, WriteFrame, TypeOK
  <2>2. EndOfStream \in ResponseFrame
    BY DEF ResponseFrame
  <2> HIDE DEF g, h, k, di, dn
  <2>3. Talk(k, g, open[s], di, Append(dn, EndOfStream))
    BY <1>3, <1>4, <2>1, <2>2, TalkRejecting
  <2>4. QED
    BY <1>7, <2>1, <2>2, <2>3
<1>23. CASE RejectAcknowledged(s)
  <2>1. /\ h.pc = "reject-ack" /\ open[s] /\ dn = << >>
        /\ UNCHANGED <<client, streams>>
        /\ g = [h EXCEPT !.pc = "close", !.outcome = "rejected"]
        /\ \A t \in Sessions : t # s => handler'[t] = handler[t]
    BY <1>23 DEF RejectAcknowledged, HandlerAt, TypeOK
  <2> HIDE DEF g, h, k, di, dn
  <2>2. Talk(k, g, open[s], di, << >>)
    BY <1>3, <1>4, <2>1, TalkRejected
  <2>3. QED
    BY <1>5, <2>1, <2>2 DEF streams
<1>24. CASE RejectFails(s)
  BY <1>24, <1>6 DEF RejectFails, Rejecting
<1>25. CASE CloseSession(s)
  <2>1. /\ h.pc = "close" /\ UNCHANGED <<client, downInbox>>
        /\ g = [h EXCEPT !.pc = "closed", !.decoder = "auth", !.op = "none",
                         !.unsent = << >>]
        /\ open'[s] = FALSE /\ down'[s] = << >>
        /\ \A t \in Sessions : t # s => SessionKept(t)
    BY <1>25 DEF CloseSession, HandlerAt, Close, SessionKept, TypeOK
  <2>2. /\ g.pc = "closed" /\ g.ran = h.ran /\ g.output = h.output
        /\ g.outcome = h.outcome /\ g.code = h.code /\ h.pc = "close"
    BY <2>1, <1>3 DEF HandlerState
  <2> HIDE DEF g, h, k, di, dn
  <2>3. Talk(k, g, FALSE, di, << >>)
    BY <1>3, <1>4, <2>2, TalkClosedByBridge
  <2>4. QED
    BY <1>1, <2>1, <2>3, HandlerMoves DEF g, h, k, di, dn
<1>26. CASE HandlerDeadline(s)
  BY <1>26, <1>6 DEF HandlerDeadline
<1>27. QED
  BY <1>9, <1>10, <1>11, <1>12, <1>13, <1>14, <1>15, <1>16, <1>17, <1>18, <1>19,
     <1>20, <1>21, <1>22, <1>23, <1>24, <1>25, <1>26 DEF Handle

-----------------------------------------------------------------------------
(* The banner.                                                             *)

\* Only the four steps of the banner, and a deadline, move it.
LEMMA TokenKept ==
  ASSUME TypeOK, TypeOK', BannerToken, UNCHANGED <<pendingBanner, bannerLost>>,
         \A s \in Sessions : HasBanner(s)' <=> HasBanner(s)
  PROVE  BannerToken'
BY Zenon DEF BannerToken

\* The token under the steps of a handler.
LEMMA TokenHandle ==
  ASSUME TypeOK, TypeOK', Conversations, BannerToken, NEW s \in Sessions,
         Handle(s) \/ HandlerDeadline(s)
  PROVE  BannerToken'
<1>1. handler[s].pc # "idle"
  BY DEF Handle, HandlerDeadline, HandlerAt, Authenticate, AcceptRequest, Reading,
     RequestEnds, ServerReadFails, EnsureKeyNotExpired, Execute, TakeBanner,
     WriteBanner, BannerWriteFails, WriteResponse, ResponseAcknowledged,
     ResponseFails, SendReject, FinishReject, RejectAcknowledged, RejectFails,
     Rejecting, CloseSession
<1>2. s[1] \in Clients /\ s = Session(s[1])
  BY <1>1, Owner
<1>3. /\ handler[s] \in HandlerState /\ handler'[s] \in HandlerState
      /\ HandlerTalk(client[s[1]], handler[s])
  BY <1>2, Facts DEF Talk, TypeOK
<1>4. \A t \in Sessions : t # s => handler'[t] = handler[t]
  BY DEF Handle, HandlerDeadline, Authenticate, AcceptRequest, HandlerStep,
     RequestEnds, ServerReadFails, EnsureKeyNotExpired, Execute, TakeBanner,
     WriteBanner, BannerWriteFails, WriteResponse, ResponseAcknowledged,
     ResponseFails, SendReject, FinishReject, RejectAcknowledged, RejectFails,
     CloseSession, TypeOK
<1>5. \A t \in Sessions : t # s => (HasBanner(t)' <=> HasBanner(t))
  BY <1>4 DEF HasBanner, HandlerAt
<1>6. handler[s].pc = "send-banner" => handler[s].outcome # "banner"
  BY <1>3 DEF HandlerTalk
<1>7. ASSUME UNCHANGED <<pendingBanner, bannerLost>>,
             HasBanner(s)' <=> HasBanner(s)
      PROVE  BannerToken'
  BY <1>5, <1>7, TokenKept
<1>8. ASSUME handler[s].pc # "send-banner", handler'[s].pc # "send-banner",
             handler'[s].outcome = handler[s].outcome,
             UNCHANGED <<pendingBanner, bannerLost>>
      PROVE  BannerToken'
  BY <1>7, <1>8 DEF HasBanner, HandlerAt
<1>9. ASSUME HandlerStep(s, "close"), handler[s].pc # "send-banner",
             UNCHANGED <<pendingBanner, bannerLost>>
      PROVE  BannerToken'
  BY <1>3, <1>8, <1>9 DEF HandlerStep, TypeOK, HandlerState
<1>10. CASE Authenticate(s)
  BY <1>3, <1>8, <1>10 DEF Authenticate, Reading, HandlerAt, TakeRequestFrame,
     KeyAndBannerUnchanged, TypeOK, HandlerState
<1>11. CASE AcceptRequest(s)
  BY <1>3, <1>8, <1>11 DEF AcceptRequest, Reading, HandlerAt, TakeRequestFrame,
     KeyAndBannerUnchanged, TypeOK, HandlerState
<1>12. CASE RequestEnds(s)
  BY <1>3, <1>8, <1>12 DEF RequestEnds, Reading, HandlerAt, TakeRequestFrame,
     KeyAndBannerUnchanged, HandlerStep, TypeOK, HandlerState
<1>13. CASE ServerReadFails(s)
  BY <1>9, <1>13 DEF ServerReadFails, HandlerAt, KeyAndBannerUnchanged
<1>14. CASE EnsureKeyNotExpired(s)
  BY <1>3, <1>8, <1>14 DEF EnsureKeyNotExpired, HandlerAt,
     KeyAndBannerUnchanged, TypeOK, HandlerState
<1>15. CASE Execute(s)
  <2>1. /\ handler[s].pc = "execute"
        /\ handler'[s].pc = IF handler[s].op = "run" THEN "banner" ELSE "respond"
        /\ handler'[s].outcome = handler[s].outcome
    BY <1>3, <1>15 DEF Execute, HandlerAt, TypeOK, HandlerState
  <2>2. UNCHANGED <<pendingBanner, bannerLost>>
    BY <1>15 DEF Execute, KeyAndBannerUnchanged
  <2>3. QED
    BY <1>8, <2>1, <2>2
<1>16. CASE TakeBanner(s)
  <2>1. /\ handler[s].pc = "banner" /\ handler[s].outcome # "banner"
        /\ handler'[s].outcome = handler[s].outcome
        /\ handler'[s].pc = IF pendingBanner THEN "send-banner" ELSE "respond"
        /\ pendingBanner' = FALSE /\ bannerLost' = bannerLost
    BY <1>3, <1>16 DEF TakeBanner, HandlerAt, HandlerStep, HandlerTalk, TypeOK,
                       HandlerState
  <2>2. CASE pendingBanner
    <3>1. HasBanner(s)' /\ \A t \in Sessions : t # s => ~HasBanner(t)'
      BY <2>1, <2>2, <1>5 DEF BannerToken, HasBanner, HandlerAt
    <3>2. QED
      BY <2>1, <3>1 DEF BannerToken
  <2>3. CASE ~pendingBanner
    <3>1. HasBanner(s)' <=> HasBanner(s)
      BY <2>1, <2>3 DEF HasBanner, HandlerAt
    <3>2. UNCHANGED <<pendingBanner, bannerLost>>
      BY <2>1, <2>3 DEF TypeOK
    <3>3. QED
      BY <1>7, <3>1, <3>2
  <2>4. QED
    BY <2>2, <2>3
<1>17. CASE WriteBanner(s)
  <2>1. handler[s].pc = "send-banner" /\ handler'[s].outcome = "banner"
    BY <1>3, <1>17 DEF WriteBanner, HandlerAt, TypeOK, HandlerState
  <2>2. HasBanner(s)' /\ HasBanner(s)
    BY <2>1 DEF HasBanner, HandlerAt
  <2>3. QED
    BY <1>7, <1>17, <2>2 DEF WriteBanner, KeyAndBannerUnchanged
<1>18. CASE BannerWriteFails(s)
  <2>1. /\ handler[s].pc = "send-banner" /\ handler'[s].pc = "close"
        /\ handler'[s].outcome = handler[s].outcome /\ pendingBanner' = TRUE
    BY <1>3, <1>18 DEF BannerWriteFails, HandlerAt, HandlerStep, TypeOK,
                       HandlerState
  <2>2. HasBanner(s) /\ ~HasBanner(s)'
    BY <2>1, <1>6 DEF HasBanner, HandlerAt
  <2>3. \A t \in Sessions : ~HasBanner(t)'
    BY <2>2, <1>5 DEF BannerToken
  <2>4. QED
    BY <2>1, <2>3 DEF BannerToken
<1>19. CASE WriteResponse(s)
  BY <1>3, <1>8, <1>19 DEF WriteResponse, HandlerAt, KeyAndBannerUnchanged,
     TypeOK, HandlerState
<1>20. CASE ResponseAcknowledged(s)
  BY <1>9, <1>20 DEF ResponseAcknowledged, HandlerAt, KeyAndBannerUnchanged
<1>21. CASE ResponseFails(s)
  BY <1>9, <1>21 DEF ResponseFails, HandlerAt, KeyAndBannerUnchanged
<1>22. CASE SendReject(s)
  BY <1>3, <1>8, <1>22 DEF SendReject, HandlerAt, HandlerStep,
     KeyAndBannerUnchanged, TypeOK, HandlerState
<1>23. CASE FinishReject(s)
  BY <1>3, <1>8, <1>23 DEF FinishReject, HandlerAt, HandlerStep,
     KeyAndBannerUnchanged, TypeOK, HandlerState
<1>24. CASE RejectAcknowledged(s)
  <2>1. /\ handler[s].pc = "reject-ack" /\ handler[s].outcome # "banner"
        /\ handler'[s].pc = "close" /\ handler'[s].outcome = "rejected"
    BY <1>3, <1>24 DEF RejectAcknowledged, HandlerAt, HandlerTalk, TypeOK,
                       HandlerState
  <2>2. HasBanner(s)' <=> HasBanner(s)
    BY <2>1 DEF HasBanner, HandlerAt
  <2>3. QED
    BY <1>7, <1>24, <2>2 DEF RejectAcknowledged, KeyAndBannerUnchanged
<1>25. CASE RejectFails(s)
  BY <1>9, <1>25 DEF RejectFails, Rejecting, KeyAndBannerUnchanged
<1>26. CASE CloseSession(s)
  BY <1>3, <1>8, <1>26 DEF CloseSession, HandlerAt, KeyAndBannerUnchanged,
     TypeOK, HandlerState
<1>27. CASE HandlerDeadline(s)
  <2>1. CASE handler[s].pc = "send-banner"
    <3>1. bannerLost' /\ pendingBanner' = pendingBanner
      BY <1>27, <2>1 DEF HandlerDeadline, HandlerAt
    <3>2. ~HasBanner(s)'
      BY <1>3, <1>6, <1>27, <2>1 DEF HandlerDeadline, HandlerStep, HasBanner,
                                     HandlerAt, TypeOK, HandlerState
    <3>3. \A t \in Sessions : HasBanner(t)' => HasBanner(t)
      BY <3>2, <1>5
    <3>4. QED
      BY <3>1, <3>3 DEF BannerToken
  <2>2. CASE handler[s].pc # "send-banner"
    <3>1. UNCHANGED <<pendingBanner, bannerLost>>
      BY <1>27, <2>2 DEF HandlerDeadline, HandlerAt, TypeOK
    <3>2. QED
      BY <1>9, <1>27, <2>2, <3>1 DEF HandlerDeadline
  <2>3. QED
    BY <2>1, <2>2
<1>28. QED
  BY <1>10, <1>11, <1>12, <1>13, <1>14, <1>15, <1>16, <1>17, <1>18, <1>19, <1>20,
     <1>21, <1>22, <1>23, <1>24, <1>25, <1>26, <1>27 DEF Handle

\* The token under the steps of a command: none touches a handler but Connect.
LEMMA TokenCommand ==
  ASSUME TypeOK, TypeOK', Conversations, BannerToken, NEW c \in Clients,
         \/ Command(c) \/ ConnectFails(c) \/ ConnectRefused(c)
         \/ KeyExpiredHere(c) \/ ClientDeadline(c)
  PROVE  BannerToken'
<1>1. UNCHANGED <<pendingBanner, bannerLost>>
  BY DEF Command, CheckKey, Connect, SendRequest, RequestAcknowledged,
     RequestFails, ReceiveReject, ReceiveFrame, ReceiveEnd, ReadFails,
     ConnectFails, ConnectRefused, KeyExpiredHere, ClientDeadline, bridge
<1>2. CASE UNCHANGED handler
  BY <1>1, <1>2, TokenKept DEF HasBanner, HandlerAt
<1>3. CASE Connect(c)
  <2>1. Session(c) \in Sessions /\ handler[Session(c)] = NewHandler
    BY <1>3, Facts DEF Connect, ClientAt
  <2>2. /\ handler'[Session(c)] = [NewHandler EXCEPT !.pc = "reading"]
        /\ \A t \in Sessions : t # Session(c) => handler'[t] = handler[t]
    BY <1>3, <2>1 DEF Connect, TypeOK
  <2>3. \A t \in Sessions : HasBanner(t)' <=> HasBanner(t)
    BY <2>1, <2>2 DEF HasBanner, HandlerAt, NewHandler
  <2>4. QED
    BY <1>1, <2>3, TokenKept
<1>4. Connect(c) \/ UNCHANGED handler
  BY DEF Command, CheckKey, SendRequest, RequestAcknowledged,
     RequestFails, ReceiveReject, ReceiveFrame, ReceiveEnd, ReadFails,
     ConnectFails, ConnectRefused, KeyExpiredHere, ClientDeadline, bridge
<1>5. QED
  BY <1>2, <1>3, <1>4

-----------------------------------------------------------------------------
(* The invariant, and what follows from it.                                *)

\* The initial states: nobody has a session, and the banner is pending.
LEMMA InitInv == Init => IInv
<1> SUFFICES ASSUME Init PROVE IInv
  OBVIOUS
<1>1. TypeOK
  BY InitType
<1>2. ASSUME NEW c \in Clients PROVE Untouched(c) /\ Unserved(c) /\ TalkOf(c)
  <2>1. \E op \in Operations, key \in {"ours", "other"} :
          client[c] = NewClient(op, key)
    BY DEF Init
  <2>2. /\ client[c].pc = "open" /\ client[c].result = "none"
        /\ client[c].output = << >> /\ client[c].served = FALSE
        /\ client[c].decoder = "banner"
    BY <2>1 DEF NewClient
  <2>3. Consumed(client[c]) = 0
    BY <2>2 DEF Consumed, Flag
  <2>4. \A s \in Sessions :
          /\ handler[s] = NewHandler /\ ~open[s]
          /\ up[s] = << >> /\ upInbox[s] = << >>
          /\ down[s] = << >> /\ downInbox[s] = << >>
    BY DEF Init
  <2>5. Untouched(c)
    BY <2>4 DEF Untouched, Sessions
  <2>6. Talk(client[c], NewHandler, FALSE, << >>, << >>)
    <3>1. client[c] \in ClientState /\ NewHandler \in HandlerState
      BY <1>1, ClientRecords
    <3>2. QED
      BY <2>2, <2>3, <3>1, TalkFresh DEF NewHandler, Live
  <2>7. Session(c) \in Sessions
    BY <1>1, SessionParts
  <2>8. open[Session(c)] = FALSE
    BY <2>7 DEF Init
  <2>9. TalkOf(c)
    BY <2>4, <2>6, <2>7, <2>8 DEF TalkOf
  <2>10. QED
    BY <2>2, <2>3, <2>5, <2>9 DEF Unserved
<1>3. BannerToken
  <2>1. pendingBanner /\ \A s \in Sessions : ~HasBanner(s)
    BY DEF Init, HasBanner, HandlerAt, NewHandler
  <2>2. QED
    BY <2>1 DEF BannerToken
<1>4. QED
  BY <1>1, <1>2, <1>3 DEF IInv, Conversations

\* Every step keeps the invariant.
LEMMA StepInv == IInv /\ [Next]_vars => IInv'
<1> SUFFICES ASSUME IInv, [Next]_vars PROVE IInv'
  OBVIOUS
<1> USE DEF IInv
<1>1. RejectsCoded
  <2>1. ASSUME NEW s \in Sessions, HandlerAt(s, "reject")
        PROVE  handler[s].code \in Rejections
    <3>1. handler[s].pc = "reject" /\ s[1] \in Clients /\ s = Session(s[1])
      BY <2>1, Owner DEF HandlerAt
    <3>2. QED
      BY <3>1, Facts DEF Talk, HandlerTalk
  <2>2. QED
    BY <2>1 DEF RejectsCoded
<1>2. TypeOK'
  BY <1>1, TypeStep
<1>3. ASSUME NEW c \in Clients,
             \/ Command(c) \/ ConnectFails(c) \/ ConnectRefused(c)
             \/ KeyExpiredHere(c) \/ ClientDeadline(c)
      PROVE  IInv'
  BY <1>2, <1>3, TalkCommand, TokenCommand
<1>4. ASSUME NEW s \in Sessions, Handle(s) \/ HandlerDeadline(s)
      PROVE  IInv'
  BY <1>2, <1>4, TalkHandle, TokenHandle
<1>5. ASSUME NEW s \in Sessions, Deliver(s) \/ ConnectionLost(s)
      PROVE  IInv'
  <2>1. UNCHANGED <<handler, pendingBanner, bannerLost>>
    BY <1>5 DEF Deliver, DeliverUp, DeliverDown, ConnectionLost, bridge
  <2>2. BannerToken'
    BY <1>2, <2>1, TokenKept DEF HasBanner, HandlerAt
  <2>3. QED
    BY <1>2, <1>5, <2>2, TalkDeliver
<1>6. CASE KeyExpires \/ UNCHANGED vars
  <2>1. UNCHANGED <<client, handler, streams, pendingBanner, bannerLost>>
    BY <1>6 DEF KeyExpires, vars
  <2>2. BannerToken'
    BY <1>2, <2>1, TokenKept DEF HasBanner, HandlerAt
  <2>3. Conversations'
    BY <2>1 DEF Conversations, Untouched, Unserved, TalkOf, Session, streams
  <2>4. QED
    BY <1>2, <2>2, <2>3
<1>7. QED
  BY <1>3, <1>4, <1>5, <1>6 DEF Next

\* In every behaviour: the types, what the two ends of every session know of
\* each other, and the banner's token.
THEOREM Invariance == Spec => []IInv
<1>1. Init => IInv
  BY InitInv
<1>2. IInv /\ [Next]_vars => IInv'
  BY StepInv
<1>3. QED
  BY <1>1, <1>2, PTL DEF Spec

\* Sent requests are never replayed: of all the attempts of a command, at most
\* one runs its request, since an attempt whose connection was made is the last.
THEOREM NeverReplayed == Spec => []ExecutedAtMostOnce
<1>1. IInv => ExecutedAtMostOnce
  <2> SUFFICES ASSUME IInv, NEW c \in Clients
               PROVE  Cardinality({a \in 1..MaxAttempts :
                                     handler[<<c, a>>].ran}) <= 1
    BY DEF ExecutedAtMostOnce
  <2>1. {a \in 1..MaxAttempts : handler[<<c, a>>].ran}
          \in SUBSET {client[c].attempt}
    BY DEF IInv, Conversations, Untouched, NewHandler
  <2>2. /\ IsFiniteSet({client[c].attempt})
        /\ Cardinality({client[c].attempt}) = 1
    BY FS_Singleton
  <2>3. QED
    BY <2>1, <2>2, FS_Subset
<1>2. QED
  BY <1>1, Invariance, PTL

\* A rejection the bridge has seen acknowledged is what the command reports,
\* unless the command's own deadline strikes.
THEOREM RejectionHeard == Spec => []RejectionIsHeard
<1>1. IInv => RejectionIsHeard
  BY DEF IInv, Conversations, TalkOf, Talk, RejectTalk, ReportedTalk,
         RejectionIsHeard
<1>2. QED
  BY <1>1, Invariance, PTL

\* A command that reports success had the key, its request ran, and its output
\* is all that the script wrote, wherever the connection was lost.
THEOREM SuccessComplete == Spec => []SuccessIsComplete
<1>1. IInv => SuccessIsComplete
  BY DEF IInv, Conversations, TalkOf, Talk, SuccessTalk, SuccessIsComplete
<1>2. QED
  BY <1>1, Invariance, PTL

\* The banner goes out at most once, and is lost only to a deadline.
THEOREM BannerOnce == Spec => []OneBanner
<1>1. IInv => OneBanner
  <2> SUFFICES ASSUME IInv PROVE OneBanner
    OBVIOUS
  <2>1. \A s, t \in BannerWritten : s = t
    BY DEF IInv, BannerToken, HasBanner, BannerWritten
  <2>2. Cardinality(BannerWritten) <= 1
    <3>1. CASE BannerWritten = {}
      BY <3>1, FS_EmptySet
    <3>2. CASE BannerWritten # {}
      <4>1. PICK s \in BannerWritten : BannerWritten = {s}
        BY <3>2, <2>1
      <4>2. Cardinality({s}) = 1
        BY FS_Singleton
      <4>3. QED
        BY <4>1, <4>2
    <3>3. QED
      BY <3>1, <3>2
  <2>3. \/ pendingBanner \/ bannerLost
        \/ BannerWritten # {}
        \/ \E s \in Sessions : HandlerAt(s, "send-banner")
    BY DEF IInv, BannerToken, HasBanner, BannerWritten
  <2>4. QED
    BY <2>2, <2>3 DEF OneBanner
<1>2. QED
  BY <1>1, Invariance, PTL

=============================================================================
