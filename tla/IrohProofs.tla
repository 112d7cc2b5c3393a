----------------------------- MODULE IrohProofs -----------------------------
(***************************************************************************)
(* Proofs about IrohCommands and the endpoints and connections under it,   *)
(* for every set of environments and of peers, every relay map and any     *)
(* number of workers.                                                      *)
(*                                                                         *)
(* The queue of microtasks never holds more than what one native event     *)
(* led to (Queued), so what a call of bindEndpoint, or a handshake, has    *)
(* come to can be said of its own record and the queue (Call, Handshake):  *)
(* the tasks of the others do not concern it.  Where the fiber of the      *)
(* command is says which attempt has an endpoint (FiberPlace); the rest    *)
(* is what the fiber learned on its way: whether the relay was seen        *)
(* (Listening), why its dial failed (Dialled), and that the environment it *)
(* met is the one the doctor described (Foretold).                         *)
(***************************************************************************)
EXTENDS IrohCommands, TLAPS

-----------------------------------------------------------------------------
(* The queue of microtasks.                                                *)
CallTasks(b) ==
  {<<<<"bound", b>>>>, <<<<"bindFailed", b>>>>, <<<<"reject", b>>>>,
   <<<<"resume", b>>, <<"letGo", b>>>>, <<<<"letGo", b>>>>}
AcceptTasks(i) ==
  {<<<<"established", i>>>>, <<<<"connected", i>>>>, <<<<"refused", i>>>>}

Queued ==
  \/ Quiet
  \/ \E b \in Binders : tasks \in CallTasks(b)
  \/ \E i \in Incoming : tasks \in AcceptTasks(i)

(***************************************************************************)
(* One call of bindEndpoint: r is its record, q the queue.                 *)
(***************************************************************************)
BindState ==
  [call : {"none", "pending", "bound", "failed"},
   endpoint : {"none", "open", "closed"}, closes : Nat,
   kept : BOOLEAN, abandoned : BOOLEAN, listening : BOOLEAN,
   timer : {"armed", "clear"}, late : BOOLEAN, told : BOOLEAN,
   fiber : {"none", "waiting", "owner", "closing", "failed", "gone"}]

\* The fiber waits for the endpoint, or will not have it any more.
Awaited(r) == r.fiber = "waiting" /\ ~r.abandoned /\ r.listening
Unwanted(r) == r.fiber = "gone" \/ (r.fiber = "failed" /\ r.abandoned)

NoEndpoint(r) == r.endpoint = "none" /\ r.closes = 0 /\ ~r.kept
ClosedOnce(r) == r.fiber \in {"failed", "gone"} /\ r.endpoint = "closed" /\ r.closes = 1

\* Between the tasks of the call.
Settled(r) ==
  \/ r = NotBound
  \/ /\ r.call = "pending" /\ NoEndpoint(r)
     /\ Awaited(r) \/ Unwanted(r)
  \/ r.call = "failed" /\ NoEndpoint(r) /\ r.fiber \in {"failed", "gone"}
  \/ /\ r.call = "bound"
     /\ \/ /\ r.fiber \in {"owner", "closing"} /\ r.closes = 0
           /\ r.endpoint = "open" \/ (r.endpoint = "closed" /\ r.told)
        \/ ClosedOnce(r)

Call(r, q, b) ==
  /\ r.timer = "armed" => Awaited(r)
  /\ q = <<<<"bound", b>>>> =>
       /\ r.call = "bound" /\ r.endpoint = "open" /\ r.closes = 0 /\ ~r.kept
       /\ Awaited(r) \/ Unwanted(r)
  /\ q = <<<<"bindFailed", b>>>> =>
       r.call = "failed" /\ NoEndpoint(r) /\ (Awaited(r) \/ Unwanted(r))
  /\ q = <<<<"reject", b>>>> =>
       /\ NoEndpoint(r) /\ r.fiber \in {"waiting", "failed", "gone"} /\ ~r.listening
       /\ r.call = "failed" \/ (r.call = "pending" /\ r.abandoned)
  /\ q = <<<<"resume", b>>, <<"letGo", b>>>> =>
       /\ r.call = "bound"
       /\ \/ /\ Awaited(r) /\ r.timer = "clear" /\ r.kept
             /\ r.endpoint = "open" /\ r.closes = 0
          \/ ClosedOnce(r)
  /\ q = <<<<"letGo", b>>>> =>
       /\ r.call = "bound"
       /\ \/ r.fiber = "owner" /\ r.endpoint = "open" /\ r.closes = 0
          \/ ClosedOnce(r)
  /\ q \notin CallTasks(b) => Settled(r)

(***************************************************************************)
(* One incoming connection: h is its handshake, c its connection, e        *)
(* whether it expired, w its accept fiber, q the queue.                    *)
(***************************************************************************)
Handshake(h, c, e, w, q, i) ==
  /\ q = <<<<"established", i>>>> =>
       /\ h = "settled" /\ c \in {"open", "closed"}
       /\ \/ w = "handshake" /\ c = "open" /\ ~e
          \/ w = "refusing" /\ e
          \/ w = "ended" /\ (e \/ c = "closed")
  /\ q = <<<<"connected", i>>>> =>
       /\ h = "settled" /\ ~e
       /\ \/ w = "handshake" /\ c = "open"
          \/ w = "ended" /\ c = "closed"
  /\ q = <<<<"refused", i>>>> =>
       h = "settled" /\ c \in {"none", "closed"} /\ w \in {"handshake", "refusing", "ended"}
  /\ q \notin AcceptTasks(i) =>
       \/ w = "none" /\ h = "none" /\ c = "none" /\ ~e
       \/ w = "handshake" /\ h = "pending" /\ c = "none" /\ ~e
       \/ w \in {"refusing", "ended"} /\ h = "pending" /\ c = "none" /\ e
       \/ w = "refusing" /\ h = "settled" /\ c # "open"
       \/ w = "ended" /\ h = "settled" /\ c # "open"
       \/ w \in {"stream", "session"} /\ h = "settled" /\ c = "open" /\ ~e

AcceptTypes ==
  /\ handshake \in [Incoming -> {"none", "pending", "settled"}]
  /\ connection \in [Incoming -> {"none", "open", "closed"}]
  /\ expired \in [Incoming -> BOOLEAN]
  /\ worker \in [Incoming -> {"none", "handshake", "refusing", "stream", "session", "ended"}]

HandshakeOf(i) ==
  Handshake(handshake[i], connection[i], expired[i], worker[i], tasks, i)

Endpoints ==
  /\ Queued
  /\ bind \in [Binders -> BindState]
  /\ AcceptTypes
  /\ \A b \in Binders : Call(bind[b], tasks, b)
  /\ \A i \in Incoming : HandshakeOf(i)

-----------------------------------------------------------------------------
(* The fiber of the command.                                               *)
Owning == {"online", "address", "serving", "dial", "open", "connected"}
Steps == Owning \cup {"idle", "authorities", "attempt", "bind", "closing", "release",
                      "retry", "failed", "gone"}
Over == {"none", "failed", "gone"}

\* The fiber is at p, on the given side, with r the record of its attempt.
At(p, sd, r) ==
  /\ p \in Steps
  /\ p \in {"idle", "authorities", "attempt"} => r = NotBound
  /\ p = "bind" => r.fiber = "waiting"
  /\ p \in Owning => r.fiber = "owner"
  /\ p = "closing" => r.fiber = "closing"
  /\ p \in {"bind", "online", "dial"} => ~r.told
  /\ p = "release" => r.fiber \in {"owner", "closing"}
  /\ p \in {"retry", "failed", "gone"} => r.fiber \in Over
  /\ p \in {"online", "address", "serving"} => sd = "serve"
  /\ p \in {"authorities", "attempt", "dial", "open", "connected", "retry"} =>
       sd = "client"

FiberPlace ==
  /\ side \in {"serve", "client"}
  /\ attempt \in 1..MaximumConnectAttempts
  /\ side = "serve" => attempt = 1
  /\ step \in {"idle", "authorities"} => attempt = 1
  /\ step = "retry" => attempt < MaximumConnectAttempts
  /\ At(step, side, bind[attempt])
  /\ \A b \in Binders : /\ b > attempt => bind[b] = NotBound
                        /\ b < attempt => bind[b].fiber \in Over

\* The listener publishes a relay only after it was seen to be reached, and
\* goes on with an endpoint that was told to close in one case only.
Listening ==
  /\ link \in BOOLEAN
  /\ side = "client" \/ step \in {"idle", "bind", "online"} =>
       locatorReachability = reachability
  /\ step = "address" => locatorReachability = "direct-only" \/ online
  /\ side = "serve" /\ step = "closing" =>
       locatorReachability = reachability /\ reachability = "relay-only"
  /\ step \in {"address", "serving"} /\ bind[attempt].told => ClosedUnderItsListener
  /\ step = "serving" =>
       /\ Normalize(locator, "direct-or-relay") = locator /\ locator.valid
       /\ locator.relay => online

\* What a client knows when its attempt has failed.
Explained ==
  /\ failure = "peer-offline" => link
  /\ failure = "relay-unreachable" => ~link \/ bind[attempt].told
  /\ failure = "BridgeDirectConnect" => ~Target.relay
  /\ failure = "BridgeLocatorInvalid" =>
       \A b \in Binders : bind[b] = NotBound
  /\ step = "failed" /\ failure \in Retried => attempt = MaximumConnectAttempts
  /\ step = "retry" => failure \in Retried

Dialled ==
  side = "client" =>
    /\ own = "open" => step \in {"open", "connected", "closing", "release"}
    /\ step \in {"bind", "dial", "open", "connected", "closing", "release", "retry"}
         \/ attempt > 1 => Target.valid
    /\ IF step \in {"release", "retry", "failed", "gone"} THEN Explained
       ELSE failure = "none"

\* What the doctor found, and what the client resolves, follow from the same
\* setting; a check that fails stops the client at its configuration.
EnvironmentErrors == {"BridgeProxyConfiguration", "BridgeProxyUnsupported",
                      "BridgeCaTrustConfiguration", "BridgeCaTrustUnsupported"}
Resolved ==
  /\ dialer.proxy = ResolveClientTransport.proxy
  /\ dialer.reachability = ResolveClientTransport.reachability
  /\ dialer.fallback = ResolveClientTransport.fallback
  /\ dialer.caTrust = ResolveClientCaTrust.caTrust
  /\ dialer.notice = ResolveClientCaTrust.notice

EnvironmentFails == "fail" \in {ProxyCheck, CaTrustCheck}

Foretold ==
  /\ setting \in Settings
  /\ doctor = "reported" =>
       /\ side = "client"
       /\ report.proxy = ProxyCheck /\ report.caTrust = CaTrustCheck
       /\ EnvironmentFails => report.exitCode = 1
  /\ side = "client" =>
       /\ step # "idle" => Resolved
       /\ failure \in EnvironmentErrors => EnvironmentFails
       /\ EnvironmentFails => \A b \in Binders : bind[b] = NotBound

IInv == Endpoints /\ FiberPlace /\ Listening /\ Dialled /\ Foretold

-----------------------------------------------------------------------------
(* The queue.                                                              *)
\* The queue is that of one call or of one handshake.
LEMMA OneQueue ==
  /\ \A b : << >> \notin CallTasks(b)
  /\ \A i : << >> \notin AcceptTasks(i)
  /\ \A b, c : b # c => CallTasks(b) \cap CallTasks(c) = {}
  /\ \A i, j : i # j => AcceptTasks(i) \cap AcceptTasks(j) = {}
  /\ \A b, i : CallTasks(b) \cap AcceptTasks(i) = {}
BY DEF CallTasks, AcceptTasks

\* The task at the head is the queue, but for the hand-over of an endpoint.
LEMMA TheTask ==
  ASSUME Queued
  PROVE  /\ \A kind \in {"bound", "bindFailed", "reject", "letGo"}, b \in Binders :
              Task(<<kind, b>>) => tasks = <<<<kind, b>>>>
         /\ \A b \in Binders : Task(<<"resume", b>>) =>
              tasks = <<<<"resume", b>>, <<"letGo", b>>>>
         /\ \A kind \in {"established", "connected", "refused"}, i \in Incoming :
              Task(<<kind, i>>) => tasks = <<<<kind, i>>>>
<1>1. CASE Quiet
  BY <1>1 DEF Quiet, Task
<1>2. ASSUME NEW b \in Binders, tasks \in CallTasks(b)
      PROVE  \/ \E kind \in {"bound", "bindFailed", "reject", "letGo"} :
                   tasks = <<<<kind, b>>>> /\ Head(tasks) = <<kind, b>>
             \/ /\ tasks = <<<<"resume", b>>, <<"letGo", b>>>>
                /\ Head(tasks) = <<"resume", b>>
  BY <1>2 DEF CallTasks
<1>3. ASSUME NEW i \in Incoming, tasks \in AcceptTasks(i)
      PROVE  \E kind \in {"established", "connected", "refused"} :
                tasks = <<<<kind, i>>>> /\ Head(tasks) = <<kind, i>>
  BY <1>3 DEF AcceptTasks
<1>4. ASSUME NEW b \in Binders, tasks \in CallTasks(b)
      PROVE  /\ \A kind \in {"bound", "bindFailed", "reject", "letGo"}, c \in Binders :
                  Task(<<kind, c>>) => tasks = <<<<kind, c>>>>
             /\ \A c \in Binders : Task(<<"resume", c>>) =>
                  tasks = <<<<"resume", c>>, <<"letGo", c>>>>
             /\ \A kind \in {"established", "connected", "refused"}, i \in Incoming :
                  ~Task(<<kind, i>>)
  BY <1>2, <1>4 DEF Task
<1>5. ASSUME NEW i \in Incoming, tasks \in AcceptTasks(i)
      PROVE  /\ \A kind \in {"established", "connected", "refused"}, j \in Incoming :
                  Task(<<kind, j>>) => tasks = <<<<kind, j>>>>
             /\ \A kind \in {"bound", "bindFailed", "reject", "letGo", "resume"},
                   b \in Binders : ~Task(<<kind, b>>)
  BY <1>3, <1>5 DEF Task
<1>6. QED
  BY <1>1, <1>4, <1>5 DEF Queued, Quiet, Task

\* What follows a task that was alone in the queue, and the hand-over.
LEMMA Follows ==
  /\ \A t, ts : Tail(<<t>>) \o << >> = << >>
  /\ \A t, u : Tail(<<t>>) \o <<u>> = <<u>>
  /\ \A t, u, v : Tail(<<t>>) \o <<u, v>> = <<u, v>>
  /\ \A t, u : Tail(<<t, u>>) \o << >> = <<u>>
OBVIOUS

-----------------------------------------------------------------------------
(* The calls of bindEndpoint.                                              *)
\* A step of one call, whose tasks are in the queue before and after, or
\* nobody's, leaves the other calls and the handshakes as they are.
LEMMA CallMoves ==
  ASSUME Endpoints, NEW b \in Binders, NEW r \in BindState,
         bind' = [bind EXCEPT ![b] = r], UNCHANGED acceptVars,
         Quiet \/ tasks \in CallTasks(b), Quiet' \/ tasks' \in CallTasks(b),
         Call(r, tasks', b)
  PROVE  Endpoints'
<1>1. Queued'
  BY DEF Queued
<1>2. bind' \in [Binders -> BindState]
  BY DEF Endpoints
<1>3. ASSUME NEW c \in Binders PROVE Call(bind'[c], tasks', c)
  <2>1. CASE c = b
    BY <2>1 DEF Endpoints
  <2>2. CASE c # b
    <3>1. bind'[c] = bind[c] /\ Call(bind[c], tasks, c)
      BY <2>2 DEF Endpoints
    <3>2. tasks \notin CallTasks(c) /\ tasks' \notin CallTasks(c)
      BY <2>2, OneQueue DEF Quiet
    <3>3. QED
      BY <3>1, <3>2 DEF Call, CallTasks
  <2>3. QED
    BY <2>1, <2>2
<1>4. ASSUME NEW i \in Incoming
      PROVE  HandshakeOf(i)'
  <2>1. tasks \notin AcceptTasks(i) /\ tasks' \notin AcceptTasks(i)
    BY OneQueue DEF Quiet
  <2>2. HandshakeOf(i)
    BY DEF Endpoints
  <2>3. QED
    BY <2>1, <2>2 DEF HandshakeOf, Handshake, AcceptTasks, acceptVars
<1>5. QED
  BY <1>1, <1>2, <1>3, <1>4 DEF Endpoints, AcceptTypes, acceptVars

\* A step of one call that leaves the queue alone.
LEMMA CallChanges ==
  ASSUME Endpoints, NEW b \in Binders, NEW r \in BindState,
         bind' = [bind EXCEPT ![b] = r], UNCHANGED <<tasks, acceptVars>>,
         Call(r, tasks, b)
  PROVE  Endpoints'
<1>1. Queued'
  BY DEF Endpoints, Queued, Quiet
<1>2. bind' \in [Binders -> BindState] /\ \A c \in Binders : Call(bind'[c], tasks', c)
  BY DEF Endpoints
<1>3. QED
  BY <1>1, <1>2 DEF Endpoints, AcceptTypes, HandshakeOf, acceptVars

\* A native call is made.
LEMMA BindCalls ==
  ASSUME Endpoints, NEW b \in Binders, bind[b] = NotBound,
         bind' = [bind EXCEPT ![b] = Binding], UNCHANGED <<tasks, acceptVars>>
  PROVE  Endpoints'
<1>1. Binding \in BindState
  BY DEF Binding, NotBound, BindState
<1>2. tasks \notin CallTasks(b)
  BY DEF Endpoints, Call, CallTasks, NotBound, Awaited, Unwanted, NoEndpoint, ClosedOnce
<1>3. Call(Binding, tasks, b)
  BY <1>2 DEF Call, CallTasks, Settled, Binding, NotBound, Awaited, NoEndpoint
<1>4. QED
  BY <1>1, <1>3, CallChanges

\* A native call comes back with an endpoint or a failure.
LEMMA BindReturns ==
  ASSUME Endpoints, NEW b \in Binders, NativeBinds(b) PROVE Endpoints'
<1> DEFINE r == bind[b]
<1>1. r \in BindState /\ Call(r, tasks, b) /\ Quiet /\ r.call = "pending"
  BY DEF Endpoints, NativeBinds
<1>2. NoEndpoint(r) /\ (Awaited(r) \/ Unwanted(r))
  BY <1>1 DEF Call, Settled, Quiet, CallTasks, NotBound, ClosedOnce
<1>3. ASSUME bind' = [bind EXCEPT ![b].call = "bound", ![b].endpoint = "open"],
             tasks' = <<<<"bound", b>>>>, UNCHANGED acceptVars
      PROVE  Endpoints'
  <2> DEFINE n == [r EXCEPT !.call = "bound", !.endpoint = "open"]
  <2>1. bind' = [bind EXCEPT ![b] = n] /\ n \in BindState
    BY <1>1, <1>3 DEF Endpoints, BindState
  <2>2. Call(n, tasks', b)
    BY <1>1, <1>2, <1>3 DEF Call, CallTasks, Awaited, Unwanted, NoEndpoint, BindState
  <2> HIDE DEF n
  <2>3. QED
    BY <1>1, <1>3, <2>1, <2>2, CallMoves DEF CallTasks
<1>4. ASSUME bind' = [bind EXCEPT ![b].call = "failed"],
             tasks' = <<<<"bindFailed", b>>>>, UNCHANGED acceptVars
      PROVE  Endpoints'
  <2> DEFINE n == [r EXCEPT !.call = "failed"]
  <2>1. bind' = [bind EXCEPT ![b] = n] /\ n \in BindState
    BY <1>1, <1>4 DEF Endpoints, BindState
  <2>2. Call(n, tasks', b)
    BY <1>1, <1>2, <1>4 DEF Call, CallTasks, Awaited, Unwanted, NoEndpoint, BindState
  <2> HIDE DEF n
  <2>3. QED
    BY <1>1, <1>4, <2>1, <2>2, CallMoves DEF CallTasks
<1>5. QED
  BY <1>3, <1>4 DEF NativeBinds

\* The deadline of the binding strikes.
LEMMA BindTimesOut ==
  ASSUME Endpoints, NEW b \in Binders, BindDeadline(b) PROVE Endpoints'
<1> DEFINE r == bind[b]
           n == [r EXCEPT !.timer = "clear", !.abandoned = TRUE, !.late = TRUE,
                          !.listening = FALSE]
<1>1. r \in BindState /\ Call(r, tasks, b) /\ Quiet /\ r.timer = "armed"
  BY DEF Endpoints, BindDeadline
<1>2. Awaited(r) /\ r.call = "pending" /\ NoEndpoint(r)
  BY <1>1 DEF Call, Settled, Quiet, CallTasks, NotBound, ClosedOnce, Awaited
<1>3. bind' = [bind EXCEPT ![b] = n] /\ n \in BindState
  BY <1>1 DEF Endpoints, BindState, BindDeadline
<1>4. tasks' = <<<<"reject", b>>>> /\ UNCHANGED acceptVars
  BY DEF BindDeadline
<1>5. Call(n, tasks', b)
  BY <1>1, <1>2, <1>4 DEF Call, CallTasks, Awaited, NoEndpoint, BindState
<1> HIDE DEF n
<1>6. QED
  BY <1>1, <1>3, <1>4, <1>5, CallMoves DEF CallTasks

\* abandon: an endpoint the program has is closed, and nothing is left of the
\* call for the timer to do.
LEMMA Abandoned ==
  ASSUME NEW r \in BindState
  PROVE  /\ Abandon(r) \in BindState
         /\ Abandon(r).fiber = r.fiber /\ Abandon(r).call = r.call
         /\ Abandon(r).told = r.told
         /\ Abandon(r).abandoned /\ Abandon(r).timer = "clear" /\ ~Abandon(r).kept
         /\ r.kept => /\ Abandon(r).endpoint = "closed"
                      /\ Abandon(r).closes = r.closes + 1
         /\ ~r.kept => /\ Abandon(r).endpoint = r.endpoint
                       /\ Abandon(r).closes = r.closes
<1>1. r.closes + 1 \in Nat /\ r.kept \in BOOLEAN
  BY DEF BindState
<1>2. CASE r.kept
  <2>1. Abandon(r) = [r EXCEPT !.abandoned = TRUE, !.timer = "clear", !.kept = FALSE,
                               !.endpoint = "closed", !.closes = r.closes + 1]
    BY <1>2 DEF Abandon, BindState
  <2>2. QED
    BY <1>1, <1>2, <2>1 DEF BindState
<1>3. CASE ~r.kept
  <2>1. Abandon(r) = [r EXCEPT !.abandoned = TRUE, !.timer = "clear", !.kept = FALSE]
    BY <1>3 DEF Abandon, BindState
  <2>2. QED
    BY <1>3, <2>1 DEF BindState
<1>4. QED
  BY <1>2, <1>3

\* The first callback: the endpoint came in time or is closed.
LEMMA EndpointComes ==
  ASSUME Endpoints, NEW b \in Binders, Bound(b) PROVE Endpoints'
<1> DEFINE r == bind[b]
<1>1. r \in BindState /\ Call(r, tasks, b) /\ UNCHANGED acceptVars
  BY DEF Endpoints, Bound
<1>2. tasks = <<<<"bound", b>>>>
  BY TheTask DEF Endpoints, Bound
<1>3. /\ r.call = "bound" /\ r.endpoint = "open" /\ r.closes = 0 /\ ~r.kept
      /\ Awaited(r) \/ Unwanted(r)
  BY <1>1, <1>2 DEF Call
<1>4. CASE TooLate(b) /\ bind' = [bind EXCEPT ![b] = Abandon([r EXCEPT !.kept = TRUE])]
                      /\ Then(<< >>)
  <2> DEFINE k == [r EXCEPT !.kept = TRUE]
             n == Abandon(k)
  <2>1. /\ k \in BindState /\ k.kept /\ k.closes = 0 /\ k.call = "bound"
        /\ k.fiber = r.fiber
    BY <1>1, <1>3 DEF BindState
  <2> HIDE DEF k
  <2>2. /\ n \in BindState /\ n.fiber = r.fiber /\ n.call = "bound" /\ n.timer = "clear"
        /\ n.endpoint = "closed" /\ n.closes = 1
    BY <2>1, Abandoned
  <2>3. r.fiber \in {"failed", "gone"}
    BY <1>3, <1>4 DEF TooLate, Awaited, Unwanted
  <2>4. tasks' = << >>
    BY <1>2, <1>4, Follows DEF Then
  <2> HIDE DEF n
  <2>5. Call(n, tasks', b)
    BY <2>2, <2>3, <2>4 DEF Call, CallTasks, Settled, ClosedOnce
  <2>6. bind' = [bind EXCEPT ![b] = n]
    BY <1>4 DEF n, k
  <2>7. QED
    BY <1>1, <1>2, <2>2, <2>4, <2>5, <2>6, CallMoves DEF Quiet, CallTasks
<1>5. CASE ~TooLate(b) /\ bind' = [bind EXCEPT ![b].kept = TRUE, ![b].timer = "clear"]
                       /\ Then(<<<<"resume", b>>, <<"letGo", b>>>>)
  <2> DEFINE n == [r EXCEPT !.kept = TRUE, !.timer = "clear"]
  <2>1. bind' = [bind EXCEPT ![b] = n] /\ n \in BindState
    BY <1>1, <1>5 DEF Endpoints, BindState
  <2>2. tasks' = <<<<"resume", b>>, <<"letGo", b>>>>
    BY <1>2, <1>5, Follows DEF Then
  <2>3. Awaited(r)
    BY <1>3, <1>5 DEF TooLate, Unwanted
  <2>4. Call(n, tasks', b)
    BY <1>1, <1>3, <2>2, <2>3 DEF Call, CallTasks, Awaited, BindState
  <2> HIDE DEF n
  <2>5. QED
    BY <1>1, <1>2, <2>1, <2>2, <2>4, CallMoves DEF CallTasks
<1>6. QED
  BY <1>4, <1>5 DEF Bound

\* The second callback: the binding failed.
LEMMA EndpointFails ==
  ASSUME Endpoints, NEW b \in Binders, BindFailed(b) PROVE Endpoints'
<1> DEFINE r == bind[b]
<1>1. r \in BindState /\ Call(r, tasks, b) /\ UNCHANGED acceptVars
  BY DEF Endpoints, BindFailed
<1>2. tasks = <<<<"bindFailed", b>>>>
  BY TheTask DEF Endpoints, BindFailed
<1>3. r.call = "failed" /\ NoEndpoint(r) /\ (Awaited(r) \/ Unwanted(r))
  BY <1>1, <1>2 DEF Call
<1>4. CASE TooLate(b) /\ UNCHANGED bind /\ Then(<< >>)
  <2>1. tasks' = << >> /\ bind' = [bind EXCEPT ![b] = r]
    BY <1>2, <1>4, Follows DEF Then, Endpoints
  <2>2. Unwanted(r)
    BY <1>3, <1>4 DEF TooLate, Awaited, Unwanted
  <2>3. Call(r, tasks', b)
    BY <1>1, <1>3, <2>1, <2>2 DEF Call, CallTasks, Settled, Unwanted
  <2> HIDE DEF r
  <2>4. QED
    BY <1>1, <1>2, <2>1, <2>3, CallMoves DEF Quiet, CallTasks
<1>5. CASE /\ ~TooLate(b)
           /\ bind' = [bind EXCEPT ![b].timer = "clear", ![b].listening = FALSE]
           /\ Then(<<<<"reject", b>>>>)
  <2> DEFINE n == [r EXCEPT !.timer = "clear", !.listening = FALSE]
  <2>1. bind' = [bind EXCEPT ![b] = n] /\ n \in BindState
    BY <1>1, <1>5 DEF Endpoints, BindState
  <2>2. tasks' = <<<<"reject", b>>>>
    BY <1>2, <1>5, Follows DEF Then
  <2>3. Awaited(r)
    BY <1>3, <1>5 DEF TooLate, Unwanted
  <2>4. Call(n, tasks', b)
    BY <1>1, <1>3, <2>2, <2>3 DEF Call, CallTasks, Awaited, NoEndpoint, BindState
  <2> HIDE DEF n
  <2>5. QED
    BY <1>1, <1>2, <2>1, <2>2, <2>4, CallMoves DEF CallTasks
<1>6. QED
  BY <1>4, <1>5 DEF BindFailed

\* The endpoint is let go of.
LEMMA EndpointLetGo ==
  ASSUME Endpoints, NEW b \in Binders, LetGo(b) PROVE Endpoints'
<1> DEFINE r == bind[b]
           n == [r EXCEPT !.kept = FALSE, !.listening = FALSE]
<1>1. r \in BindState /\ Call(r, tasks, b) /\ UNCHANGED acceptVars
  BY DEF Endpoints, LetGo
<1>2. tasks = <<<<"letGo", b>>>>
  BY TheTask DEF Endpoints, LetGo
<1>3. /\ r.call = "bound"
      /\ \/ r.fiber = "owner" /\ r.endpoint = "open" /\ r.closes = 0
         \/ ClosedOnce(r)
  BY <1>1, <1>2 DEF Call
<1>4. bind' = [bind EXCEPT ![b] = n] /\ n \in BindState
  BY <1>1 DEF Endpoints, BindState, LetGo
<1>5. tasks' = << >>
  BY <1>2, Follows DEF Then, LetGo
<1>6. n.timer # "armed"
  BY <1>1, <1>3 DEF Call, Awaited, ClosedOnce, BindState
<1>7. Call(n, tasks', b)
  BY <1>1, <1>3, <1>5, <1>6 DEF Call, CallTasks, Settled, ClosedOnce, BindState
<1> HIDE DEF n
<1>8. QED
  BY <1>1, <1>2, <1>4, <1>5, <1>7, CallMoves DEF Quiet, CallTasks

\* The binding fiber resumes, with the endpoint or without; a fiber that does
\* not wait any more stays where it is.
LEMMA BinderResumes ==
  ASSUME Endpoints, NEW b \in Binders, FiberResumes(b)
  PROVE  /\ Endpoints'
         /\ bind[b].fiber = "waiting" => bind'[b].fiber \in {"owner", "failed"}
         /\ bind[b].fiber # "waiting" => bind'[b] = bind[b]
         /\ bind'[b].told = bind[b].told
         /\ \A c \in Binders \ {b} : bind'[c] = bind[c]
<1> DEFINE r == bind[b]
<1>1. r \in BindState /\ Call(r, tasks, b) /\ UNCHANGED acceptVars
  BY DEF Endpoints, FiberResumes
<1>2. CASE Task(<<"resume", b>>)
  <2> DEFINE n == [r EXCEPT !.fiber = IF r.fiber = "waiting" THEN "owner" ELSE r.fiber]
  <2>1. tasks = <<<<"resume", b>>, <<"letGo", b>>>>
    BY <1>2, TheTask DEF Endpoints
  <2>2. tasks' = <<<<"letGo", b>>>>
    BY <2>1, Follows DEF FiberResumes, Then
  <2>3. bind' = [bind EXCEPT ![b] = n] /\ n \in BindState
    <3>1. ~Task(<<"reject", b>>)
      BY <2>1 DEF Task
    <3>2. bind' = [bind EXCEPT ![b].fiber = IF @ = "waiting" THEN "owner" ELSE @]
      BY <3>1 DEF FiberResumes
    <3>3. bind' = [bind EXCEPT ![b] = n]
      BY <3>2 DEF Endpoints
    <3>4. n \in BindState
      BY <1>1 DEF BindState
    <3>5. QED
      BY <3>3, <3>4
  <2>4. /\ r.call = "bound" /\ r.timer # "armed"
        /\ \/ Awaited(r) /\ r.kept /\ r.endpoint = "open" /\ r.closes = 0
           \/ ClosedOnce(r)
    BY <1>1, <2>1 DEF Call, Awaited, ClosedOnce
  <2>5. Call(n, tasks', b)
    BY <1>1, <2>2, <2>4 DEF Call, CallTasks, Awaited, ClosedOnce, BindState
  <2>6. /\ r.fiber = "waiting" => n.fiber = "owner"
        /\ r.fiber # "waiting" => n = r
        /\ n.told = r.told
    BY <1>1 DEF BindState
  <2> HIDE DEF n
  <2>7. Endpoints'
    BY <1>1, <2>1, <2>2, <2>3, <2>5, CallMoves DEF CallTasks
  <2>8. QED
    BY <2>3, <2>6, <2>7 DEF Endpoints
<1>3. CASE Task(<<"reject", b>>)
  <2> DEFINE n == [r EXCEPT !.fiber = IF r.fiber = "waiting" THEN "failed" ELSE r.fiber]
  <2>1. tasks = <<<<"reject", b>>>>
    BY <1>3, TheTask DEF Endpoints
  <2>2. tasks' = << >>
    BY <2>1, Follows DEF FiberResumes, Then
  <2>3. bind' = [bind EXCEPT ![b] = n] /\ n \in BindState
    <3>1. ~Task(<<"resume", b>>)
      BY <2>1 DEF Task
    <3>2. bind' = [bind EXCEPT ![b].fiber = IF @ = "waiting" THEN "failed" ELSE @]
      BY <3>1 DEF FiberResumes
    <3>3. bind' = [bind EXCEPT ![b] = n]
      BY <3>2 DEF Endpoints
    <3>4. n \in BindState
      BY <1>1 DEF BindState
    <3>5. QED
      BY <3>3, <3>4
  <2>4. /\ NoEndpoint(r) /\ r.fiber \in {"waiting", "failed", "gone"} /\ ~r.listening
        /\ r.call = "failed" \/ (r.call = "pending" /\ r.abandoned)
        /\ r.timer # "armed"
    BY <1>1, <2>1 DEF Call, Awaited
  <2>5. Call(n, tasks', b)
    BY <1>1, <2>2, <2>4 DEF Call, CallTasks, Settled, Unwanted, NoEndpoint, BindState
  <2>6. /\ r.fiber = "waiting" => n.fiber = "failed"
        /\ r.fiber # "waiting" => n = r
        /\ n.told = r.told
    BY <1>1 DEF BindState
  <2> HIDE DEF n
  <2>7. Endpoints'
    BY <1>1, <2>1, <2>2, <2>3, <2>5, CallMoves DEF CallTasks, Quiet
  <2>8. QED
    BY <2>3, <2>6, <2>7 DEF Endpoints
<1>4. QED
  BY <1>2, <1>3 DEF FiberResumes

\* The fiber is interrupted while it waits, which aborts the call.
LEMMA BinderInterrupted ==
  ASSUME Endpoints, NEW b \in Binders, InterruptBinding(b)
  PROVE  Endpoints' /\ bind'[b].fiber = "gone" /\ \A c \in Binders \ {b} : bind'[c] = bind[c]
<1> DEFINE r == bind[b]
           a == IF r.listening THEN Abandon(r) ELSE r
           n == [a EXCEPT !.fiber = "gone"]
<1>1. /\ r \in BindState /\ Call(r, tasks, b) /\ UNCHANGED <<tasks, acceptVars>>
      /\ r.fiber = "waiting"
  BY DEF Endpoints, InterruptBinding
<1>2. bind' = [bind EXCEPT ![b] = n]
  BY DEF Endpoints, InterruptBinding
<1>3. /\ a \in BindState /\ a.call = r.call /\ a.timer = "clear"
      /\ r.kept /\ r.listening => a.endpoint = "closed" /\ a.closes = r.closes + 1
      /\ ~r.kept => ~a.kept /\ a.endpoint = r.endpoint /\ a.closes = r.closes
      /\ ~r.listening => a = r
  <2>1. CASE r.listening
    BY <1>1, <2>1, Abandoned
  <2>2. CASE ~r.listening
    BY <1>1, <2>2 DEF Call, Awaited, BindState
  <2>3. QED
    BY <2>1, <2>2
<1> HIDE DEF a
<1>4. /\ n \in BindState /\ n.fiber = "gone" /\ n.call = a.call /\ n.timer = a.timer
      /\ n.endpoint = a.endpoint /\ n.closes = a.closes /\ n.kept = a.kept
      /\ n.listening = a.listening /\ n.abandoned = a.abandoned
  BY <1>3 DEF BindState
<1> HIDE DEF n
<1>5. Call(n, tasks, b)
  <2>1. CASE tasks = <<<<"bound", b>>>>
    BY <1>1, <1>3, <1>4, <2>1 DEF Call, CallTasks, Unwanted, Awaited
  <2>2. CASE tasks = <<<<"bindFailed", b>>>>
    BY <1>1, <1>3, <1>4, <2>2 DEF Call, CallTasks, Unwanted, Awaited, NoEndpoint
  <2>3. CASE tasks = <<<<"reject", b>>>>
    BY <1>1, <1>3, <1>4, <2>3 DEF Call, CallTasks, Unwanted, Awaited, NoEndpoint
  <2>4. CASE tasks = <<<<"resume", b>>, <<"letGo", b>>>>
    BY <1>1, <1>3, <1>4, <2>4 DEF Call, CallTasks, Awaited, ClosedOnce
  <2>5. CASE tasks = <<<<"letGo", b>>>>
    BY <1>1, <2>5 DEF Call, ClosedOnce
  <2>6. CASE tasks \notin CallTasks(b)
    <3>1. r.call = "pending" /\ NoEndpoint(r)
      BY <1>1, <2>6 DEF Call, Settled, ClosedOnce, NotBound
    <3>2. Settled(n)
      BY <1>3, <1>4, <3>1 DEF Settled, Unwanted, NoEndpoint
    <3>3. QED
      BY <1>3, <1>4, <2>6, <3>2 DEF Call, CallTasks
  <2>7. QED
    BY <2>1, <2>2, <2>3, <2>4, <2>5, <2>6 DEF CallTasks
<1>6. Endpoints'
  BY <1>1, <1>2, <1>4, <1>5, CallChanges
<1>7. QED
  BY <1>2, <1>4, <1>6 DEF Endpoints

\* The fiber runs into a deadline, its native call wins the race with the
\* close, the endpoint closes.
Deadline(b) == bind' = [bind EXCEPT ![b].fiber = "closing", ![b].told = TRUE]
Won(b) == bind' = [bind EXCEPT ![b].fiber = "owner"]
Closed(b) ==
  /\ bind[b].told /\ bind[b].endpoint = "open"
  /\ bind' = [bind EXCEPT ![b].endpoint = "closed"]

\* In each of them, an endpoint of a living fiber is open or was told to
\* close.
LEMMA BinderCloses ==
  ASSUME Endpoints, NEW b \in Binders, Quiet, UNCHANGED <<tasks, acceptVars>>,
         \/ bind[b].fiber \in {"owner", "closing"} /\ (Deadline(b) \/ Won(b))
         \/ Closed(b)
  PROVE  /\ Endpoints' /\ bind'[b] # NotBound /\ bind[b].fiber \in {"owner", "closing"}
         /\ Deadline(b) => bind'[b].fiber = "closing"
         /\ Won(b) => bind'[b].fiber = "owner" /\ bind'[b].told = bind[b].told
         /\ Closed(b) => bind'[b].fiber = bind[b].fiber /\ bind'[b].told = bind[b].told
         /\ \A c \in Binders \ {b} : bind'[c] = bind[c]
<1> DEFINE r == bind[b]
<1>1. /\ r \in BindState /\ r.call = "bound" /\ r.closes = 0 /\ r.timer # "armed"
      /\ r.fiber \in {"owner", "closing"}
      /\ r.endpoint = "open" \/ (r.endpoint = "closed" /\ r.told)
  BY DEF Endpoints, Call, Settled, Quiet, CallTasks, Awaited, Unwanted, ClosedOnce, NotBound,
         NoEndpoint, Closed
<1>2. PICK n \in BindState :
        /\ bind' = [bind EXCEPT ![b] = n]
        /\ n.call = "bound" /\ n.closes = 0 /\ n.timer # "armed"
        /\ n.fiber \in {"owner", "closing"}
        /\ n.endpoint = "open" \/ (n.endpoint = "closed" /\ n.told)
  <2>1. CASE Deadline(b)
    <3> DEFINE n == [r EXCEPT !.fiber = "closing", !.told = TRUE]
    <3>1. bind' = [bind EXCEPT ![b] = n] /\ n \in BindState
      BY <1>1, <2>1 DEF Endpoints, BindState, Deadline
    <3>2. /\ n.call = "bound" /\ n.closes = 0 /\ n.timer # "armed" /\ n.fiber = "closing"
          /\ n.endpoint = r.endpoint /\ n.told
      BY <1>1 DEF BindState
    <3> HIDE DEF n
    <3>3. QED
      BY <1>1, <3>1, <3>2
  <2>2. CASE Won(b)
    <3> DEFINE n == [r EXCEPT !.fiber = "owner"]
    <3>1. bind' = [bind EXCEPT ![b] = n] /\ n \in BindState
      BY <1>1, <2>2 DEF Endpoints, BindState, Won
    <3>2. /\ n.call = "bound" /\ n.closes = 0 /\ n.timer # "armed" /\ n.fiber = "owner"
          /\ n.endpoint = r.endpoint /\ n.told = r.told
      BY <1>1 DEF BindState
    <3> HIDE DEF n
    <3>3. QED
      BY <1>1, <3>1, <3>2
  <2>3. CASE Closed(b)
    <3> DEFINE n == [r EXCEPT !.endpoint = "closed"]
    <3>1. bind' = [bind EXCEPT ![b] = n] /\ n \in BindState /\ r.told
      BY <1>1, <2>3 DEF Endpoints, BindState, Closed
    <3>2. /\ n.call = "bound" /\ n.closes = 0 /\ n.timer # "armed" /\ n.fiber = r.fiber
          /\ n.endpoint = "closed" /\ n.told = r.told
      BY <1>1 DEF BindState
    <3> HIDE DEF n
    <3>3. QED
      BY <1>1, <3>1, <3>2
  <2>4. QED
    BY <2>1, <2>2, <2>3
<1>3. Call(n, tasks, b)
  BY <1>2 DEF Call, CallTasks, Settled, Quiet
<1>4. /\ Endpoints' /\ bind'[b] = n /\ NotBound.call = "none"
      /\ \A c \in Binders \ {b} : bind'[c] = bind[c]
  BY <1>2, <1>3, CallChanges DEF Endpoints, NotBound
<1>5. /\ Deadline(b) => bind'[b].fiber = "closing"
      /\ Won(b) => bind'[b].fiber = "owner" /\ bind'[b].told = r.told
      /\ Closed(b) => bind'[b].fiber = r.fiber /\ bind'[b].told = r.told
  BY <1>1 DEF Endpoints, BindState, Deadline, Won, Closed
<1>6. QED
  BY <1>1, <1>2, <1>4, <1>5

-----------------------------------------------------------------------------
(* The handshakes.                                                         *)
\* A step of one handshake leaves the others and the calls as they are.
LEMMA HandshakeMoves ==
  ASSUME Endpoints, NEW i \in Incoming, AcceptTypes', UNCHANGED bind,
         \A j \in Incoming \ {i} :
            /\ handshake'[j] = handshake[j] /\ connection'[j] = connection[j]
            /\ expired'[j] = expired[j] /\ worker'[j] = worker[j],
         Quiet \/ tasks \in AcceptTasks(i), Quiet' \/ tasks' \in AcceptTasks(i),
         HandshakeOf(i)'
  PROVE  Endpoints'
<1>1. Queued'
  BY DEF Queued
<1>2. ASSUME NEW b \in Binders PROVE Call(bind'[b], tasks', b)
  <2>1. Call(bind[b], tasks, b) /\ bind' = bind
    BY DEF Endpoints
  <2>2. tasks \notin CallTasks(b) /\ tasks' \notin CallTasks(b)
    BY OneQueue DEF Quiet
  <2>3. QED
    BY <2>1, <2>2 DEF Call, CallTasks
<1>3. ASSUME NEW j \in Incoming PROVE HandshakeOf(j)'
  <2>1. CASE j = i
    BY <2>1
  <2>2. CASE j # i
    <3>1. HandshakeOf(j)
      BY DEF Endpoints, HandshakeOf
    <3>2. tasks \notin AcceptTasks(j) /\ tasks' \notin AcceptTasks(j)
      BY <2>2, OneQueue DEF Quiet
    <3>3. QED
      BY <2>2, <3>1, <3>2 DEF HandshakeOf, Handshake, AcceptTasks
  <2>3. QED
    BY <2>1, <2>2
<1>4. QED
  BY <1>1, <1>2, <1>3 DEF Endpoints, HandshakeOf, AcceptTypes

\* What a quiet queue says of a handshake.
LEMMA QuietHandshake ==
  ASSUME Endpoints, NEW i \in Incoming, Quiet
  PROVE  \/ /\ worker[i] = "none" /\ handshake[i] = "none"
            /\ connection[i] = "none" /\ ~expired[i]
         \/ /\ worker[i] = "handshake" /\ handshake[i] = "pending"
            /\ connection[i] = "none" /\ ~expired[i]
         \/ /\ worker[i] \in {"refusing", "ended"} /\ handshake[i] = "pending"
            /\ connection[i] = "none" /\ expired[i]
         \/ /\ worker[i] \in {"refusing", "ended"} /\ handshake[i] = "settled"
            /\ connection[i] # "open"
         \/ /\ worker[i] \in {"stream", "session"} /\ handshake[i] = "settled"
            /\ connection[i] = "open" /\ ~expired[i]
<1>1. HandshakeOf(i) /\ tasks \notin AcceptTasks(i)
  BY OneQueue DEF Endpoints, HandshakeOf, Quiet
<1>2. QED
  BY <1>1 DEF HandshakeOf, Handshake

\* A step of an accept fiber, or of a native call, that finds the queue quiet.
LEMMA AcceptQuietly ==
  ASSUME Endpoints, NEW i \in Incoming,
         \/ Accept(i) \/ NativeConnects(i) \/ HandshakeDeadline(i)
         \/ RefusalReturns(i) \/ StreamReturns(i) \/ SessionEnds(i)
  PROVE  Endpoints'
<1>1. Quiet /\ UNCHANGED bind /\ AcceptTypes
  BY DEF Accept, NativeConnects, HandshakeDeadline, RefusalReturns, StreamReturns,
         SessionEnds, Endpoints, AcceptTypes
<1>2. ASSUME AcceptTypes', Quiet' \/ tasks' \in AcceptTasks(i), HandshakeOf(i)',
             \A j \in Incoming \ {i} :
                /\ handshake'[j] = handshake[j] /\ connection'[j] = connection[j]
                /\ expired'[j] = expired[j] /\ worker'[j] = worker[j]
      PROVE  Endpoints'
  BY <1>1, <1>2, HandshakeMoves
<1>3. CASE Accept(i)
  <2>1. HandshakeOf(i)'
    BY <1>1, <1>3, QuietHandshake
       DEF Accept, AcceptTypes, HandshakeOf, Handshake, AcceptTasks, Quiet
  <2>2. QED
    BY <1>1, <1>2, <1>3, <2>1 DEF Accept, AcceptTypes, Quiet
<1>4. CASE NativeConnects(i)
  <2>1. HandshakeOf(i)'
    BY <1>1, <1>4, QuietHandshake
       DEF NativeConnects, AcceptTypes, HandshakeOf, Handshake, AcceptTasks, Quiet
  <2>2. QED
    BY <1>1, <1>2, <1>4, <2>1 DEF NativeConnects, AcceptTypes, Quiet, AcceptTasks
<1>5. CASE HandshakeDeadline(i)
  <2>1. HandshakeOf(i)'
    BY <1>1, <1>5, QuietHandshake
       DEF HandshakeDeadline, AcceptTypes, HandshakeOf, Handshake, AcceptTasks, Quiet
  <2>2. QED
    BY <1>1, <1>2, <1>5, <2>1 DEF HandshakeDeadline, AcceptTypes, Quiet
<1>6. CASE RefusalReturns(i)
  <2>1. HandshakeOf(i)'
    BY <1>1, <1>6, QuietHandshake
       DEF RefusalReturns, AcceptTypes, HandshakeOf, Handshake, AcceptTasks, Quiet
  <2>2. QED
    BY <1>1, <1>2, <1>6, <2>1 DEF RefusalReturns, AcceptTypes, Quiet
<1>7. CASE StreamReturns(i)
  <2>1. HandshakeOf(i)'
    BY <1>1, <1>7, QuietHandshake
       DEF StreamReturns, Close, AcceptTypes, HandshakeOf, Handshake, AcceptTasks, Quiet
  <2>2. QED
    BY <1>1, <1>2, <1>7, <2>1 DEF StreamReturns, Close, AcceptTypes, Quiet
<1>8. CASE SessionEnds(i)
  <2>1. HandshakeOf(i)'
    BY <1>1, <1>8, QuietHandshake
       DEF SessionEnds, Close, AcceptTypes, HandshakeOf, Handshake, AcceptTasks, Quiet
  <2>2. QED
    BY <1>1, <1>2, <1>8, <2>1 DEF SessionEnds, Close, AcceptTypes, Quiet
<1>9. QED
  BY <1>3, <1>4, <1>5, <1>6, <1>7, <1>8

\* The microtask in which the accepting function ends: a connection that came
\* after the deadline is closed in it.
LEMMA ConnectionComes ==
  ASSUME Endpoints, NEW i \in Incoming, Established(i) PROVE Endpoints'
<1>1. AcceptTypes /\ HandshakeOf(i) /\ UNCHANGED <<bind, handshake, expired, worker>>
  BY DEF Endpoints, AcceptTypes, HandshakeOf, Established
<1>2. tasks = <<<<"established", i>>>>
  BY TheTask DEF Endpoints, Established
<1>3. CASE expired[i] /\ Close(i) /\ Then(<<<<"refused", i>>>>)
  <2>1. tasks' = <<<<"refused", i>>>>
    BY <1>2, <1>3, Follows DEF Then
  <2>2. connection'[i] = "closed" /\ AcceptTypes'
    BY <1>1, <1>2, <1>3 DEF Close, AcceptTypes, HandshakeOf, Handshake
  <2>3. HandshakeOf(i)'
    BY <1>1, <1>2, <2>1, <2>2 DEF HandshakeOf, Handshake, AcceptTasks
  <2>4. QED
    BY <1>1, <1>2, <1>3, <2>1, <2>2, <2>3, HandshakeMoves DEF AcceptTasks, Close, AcceptTypes
<1>4. CASE ~expired[i] /\ UNCHANGED connection /\ Then(<<<<"connected", i>>>>)
  <2>1. tasks' = <<<<"connected", i>>>>
    BY <1>2, <1>4, Follows DEF Then
  <2>2. HandshakeOf(i)'
    BY <1>1, <1>2, <1>4, <2>1 DEF HandshakeOf, Handshake, AcceptTasks
  <2>3. QED
    BY <1>1, <1>2, <1>4, <2>1, <2>2, HandshakeMoves DEF AcceptTasks, AcceptTypes
<1>5. QED
  BY <1>3, <1>4 DEF Established

\* The accept fiber resumes with the connection, or without one.
LEMMA AcceptResumes ==
  ASSUME Endpoints, NEW i \in Incoming, WorkerResumes(i) PROVE Endpoints'
<1>1. AcceptTypes /\ HandshakeOf(i) /\ UNCHANGED <<bind, handshake, connection, expired>>
  BY DEF Endpoints, AcceptTypes, HandshakeOf, WorkerResumes
<1>2. CASE /\ Task(<<"connected", i>>)
           /\ worker' = [worker EXCEPT ![i] = IF @ = "handshake" THEN "stream" ELSE @]
  <2>1. tasks = <<<<"connected", i>>>>
    BY <1>2, TheTask DEF Endpoints
  <2>2. tasks' = << >>
    BY <2>1, Follows DEF Then, WorkerResumes
  <2>3. HandshakeOf(i)'
    BY <1>1, <1>2, <2>1, <2>2 DEF HandshakeOf, Handshake, AcceptTasks, AcceptTypes
  <2>4. QED
    BY <1>1, <1>2, <2>1, <2>2, <2>3, HandshakeMoves DEF AcceptTasks, AcceptTypes, Quiet
<1>3. CASE /\ Task(<<"refused", i>>)
           /\ worker' = [worker EXCEPT ![i] =
                IF @ \in {"handshake", "refusing"} THEN "ended" ELSE @]
  <2>1. tasks = <<<<"refused", i>>>>
    BY <1>3, TheTask DEF Endpoints
  <2>2. tasks' = << >>
    BY <2>1, Follows DEF Then, WorkerResumes
  <2>3. HandshakeOf(i)'
    BY <1>1, <1>3, <2>1, <2>2 DEF HandshakeOf, Handshake, AcceptTasks, AcceptTypes
  <2>4. QED
    BY <1>1, <1>3, <2>1, <2>2, <2>3, HandshakeMoves DEF AcceptTasks, AcceptTypes, Quiet
<1>4. QED
  BY <1>2, <1>3 DEF WorkerResumes

\* The scope of a fiber that owns an endpoint ends: its endpoint is closed, and
\* every connection that was accepted on it.
LEMMA ScopeReleases ==
  ASSUME Endpoints, NEW b \in Binders, Release(b)
  PROVE  Endpoints' /\ bind'[b].fiber = "gone" /\ \A c \in Binders \ {b} : bind'[c] = bind[c]
<1> DEFINE r == bind[b]
           n == [r EXCEPT !.fiber = "gone", !.endpoint = "closed", !.closes = r.closes + 1]
<1>1. /\ r \in BindState /\ Call(r, tasks, b) /\ UNCHANGED <<tasks, expired>>
      /\ r.fiber \in {"owner", "closing"} /\ AcceptTypes
  BY DEF Endpoints, Release, AcceptTypes
<1>2. bind' = [bind EXCEPT ![b] = n]
  BY DEF Endpoints, Release
<1>3. r.call = "bound" /\ r.closes = 0 /\ r.timer # "armed"
  BY <1>1 DEF Call, CallTasks, Settled, Awaited, Unwanted, ClosedOnce, NotBound
<1>4. tasks \in CallTasks(b) => tasks = <<<<"letGo", b>>>>
  BY <1>1 DEF Call, CallTasks, Awaited, Unwanted, ClosedOnce
<1>5. /\ n \in BindState /\ n.call = "bound" /\ n.closes = 1 /\ n.timer # "armed"
      /\ n.fiber = "gone" /\ n.endpoint = "closed"
  <2>1. r.closes + 1 = 1
    BY <1>3
  <2>2. n = [r EXCEPT !.fiber = "gone", !.endpoint = "closed", !.closes = 1]
    BY <2>1
  <2> HIDE DEF n
  <2>3. QED
    BY <1>1, <1>3, <2>2 DEF BindState
<1> HIDE DEF n
<1>6. Call(n, tasks, b)
  BY <1>4, <1>5 DEF Call, CallTasks, Settled, ClosedOnce
<1>7. Queued' /\ bind' \in [Binders -> BindState]
  BY <1>1, <1>2, <1>5 DEF Endpoints, Queued, Quiet
<1>8. \A c \in Binders : Call(bind'[c], tasks', c)
  BY <1>1, <1>2, <1>6 DEF Endpoints
<1>9. AcceptTypes'
  BY <1>1 DEF Release, AcceptTypes
<1>10. ASSUME NEW i \in Incoming PROVE HandshakeOf(i)'
  <2>1. /\ HandshakeOf(i) /\ tasks' = tasks /\ expired'[i] = expired[i]
        /\ connection'[i] = IF connection[i] = "open" THEN "closed" ELSE connection[i]
        /\ handshake'[i] = IF handshake[i] = "pending" THEN "settled" ELSE handshake[i]
        /\ worker'[i] = IF worker[i] = "none" THEN "none" ELSE "ended"
    BY <1>1 DEF Endpoints, HandshakeOf, Release
  <2>2. CASE tasks \in AcceptTasks(i)
    BY <2>1, <2>2 DEF HandshakeOf, Handshake, AcceptTasks
  <2>3. CASE tasks \notin AcceptTasks(i)
    <3>1. worker[i] = "none" => handshake[i] = "none" /\ connection[i] = "none" /\ ~expired[i]
      BY <2>1, <2>3 DEF HandshakeOf, Handshake
    <3>2. worker[i] # "none" => handshake[i] \in {"pending", "settled"}
      BY <2>1, <2>3 DEF HandshakeOf, Handshake
    <3>3. QED
      BY <2>1, <2>3, <3>1, <3>2 DEF HandshakeOf, Handshake, AcceptTasks
  <2>4. QED
    BY <2>2, <2>3
<1>11. Endpoints'
  BY <1>7, <1>8, <1>9, <1>10 DEF Endpoints, HandshakeOf, AcceptTypes
<1>12. QED
  BY <1>2, <1>5, <1>11 DEF Endpoints

-----------------------------------------------------------------------------
(* The fiber of the command.                                               *)
\* The steps that only concern a native call, a timer or a microtask.
NativeCall(b) ==
  NativeBinds(b) \/ Bound(b) \/ BindFailed(b) \/ LetGo(b) \/ BindDeadline(b)
AcceptStep(i) ==
  \/ Accept(i) \/ NativeConnects(i) \/ HandshakeDeadline(i) \/ RefusalReturns(i)
  \/ StreamReturns(i) \/ SessionEnds(i) \/ Established(i) \/ WorkerResumes(i)

SameFibers ==
  \A b \in Binders : /\ bind'[b].fiber = bind[b].fiber
                     /\ bind'[b].told = bind[b].told
                     /\ bind[b] = NotBound => bind'[b] = NotBound

\* None of these steps moves a fiber, or wakes a call that was not made.
LEMMA FibersStay ==
  ASSUME Endpoints, \/ \E b \in Binders : NativeCall(b)
                    \/ \E i \in Incoming : AcceptStep(i)
  PROVE  Endpoints' /\ SameFibers
<1>1. ASSUME NEW i \in Incoming, AcceptStep(i) PROVE Endpoints' /\ SameFibers
  <2>1. Endpoints'
    BY <1>1, AcceptQuietly, ConnectionComes, AcceptResumes DEF AcceptStep
  <2>2. UNCHANGED bind
    BY <1>1 DEF AcceptStep, Accept, NativeConnects, HandshakeDeadline, RefusalReturns,
                StreamReturns, SessionEnds, Established, WorkerResumes
  <2>3. QED
    BY <2>1, <2>2 DEF SameFibers
<1>2. ASSUME NEW b \in Binders, NativeCall(b) PROVE Endpoints' /\ SameFibers
  <2> DEFINE r == bind[b]
  <2>1. Endpoints'
    BY <1>2, BindReturns, EndpointComes, EndpointFails, EndpointLetGo, BindTimesOut
       DEF NativeCall
  <2>2. r \in BindState /\ Call(r, tasks, b) /\ Queued
    BY DEF Endpoints
  <2>3. r # NotBound
    <3>1. CASE NativeBinds(b) \/ BindDeadline(b)
      BY <3>1 DEF NativeBinds, BindDeadline, NotBound
    <3>2. CASE Bound(b) \/ BindFailed(b) \/ LetGo(b)
      <4>1. tasks \in CallTasks(b)
        BY <2>2, <3>2, TheTask DEF Bound, BindFailed, LetGo, CallTasks
      <4>2. QED
        BY <2>2, <4>1 DEF Call, CallTasks, NotBound, Awaited, Unwanted, ClosedOnce
    <3>3. QED
      BY <1>2, <3>1, <3>2 DEF NativeCall
  <2>4. /\ \A c \in Binders \ {b} : bind'[c] = bind[c]
        /\ bind'[b].fiber = r.fiber /\ bind'[b].told = r.told
    <3>1. CASE Bound(b)
      <4> DEFINE k == [r EXCEPT !.kept = TRUE]
      <4>1. k \in BindState /\ k.fiber = r.fiber /\ k.told = r.told
        BY <2>2 DEF BindState
      <4>2. Abandon(k).fiber = r.fiber /\ Abandon(k).told = r.told
        BY <4>1, Abandoned
      <4>3. QED
        BY <3>1, <4>2 DEF Bound, Endpoints, BindState
    <3>2. CASE NativeBinds(b) \/ BindFailed(b) \/ LetGo(b) \/ BindDeadline(b)
      BY <3>2 DEF NativeBinds, BindFailed, LetGo, BindDeadline, Endpoints, BindState
    <3>3. QED
      BY <1>2, <3>1, <3>2 DEF NativeCall
  <2>5. QED
    BY <2>1, <2>3, <2>4 DEF SameFibers
<1>3. QED
  BY <1>1, <1>2

\* Nothing the command has learned changes while no fiber moves.
LEMMA PlaceKept ==
  ASSUME FiberPlace, SameFibers, UNCHANGED transportVars
  PROVE  FiberPlace'
BY BindersAssumption
   DEF FiberPlace, At, SameFibers, transportVars, listenVars, dialVars, Over, Owning

\* The fiber takes a step within its attempt.
LEMMA PlaceMoves ==
  ASSUME FiberPlace, UNCHANGED <<side, attempt>>,
         step' \notin {"idle", "authorities"} \/ attempt = 1,
         step' # "retry" \/ attempt < MaximumConnectAttempts,
         At(step', side, bind'[attempt]),
         \A b \in Binders \ {attempt} : bind'[b] = bind[b]
  PROVE  FiberPlace'
BY BindersAssumption DEF FiberPlace

\* The fiber's own steps, which leave the endpoints alone.
LEMMA PlaceAlone ==
  ASSUME Endpoints, FiberPlace, UNCHANGED endpointVars,
         \/ StartServing \/ Resolve \/ AuthoritiesRead \/ Attempt
         \/ DeadlineExceeded \/ OnlineDeadline \/ Publish \/ StreamDeadline \/ ServingEnds
         \/ LinkChanges \/ OnlineReturns \/ LateOnline \/ DialReturns \/ LateDial
         \/ StreamOpens
  PROVE  Endpoints' /\ FiberPlace'
<1>1. Endpoints'
  BY DEF Endpoints, endpointVars, acceptVars, Queued, Quiet, AcceptTypes, HandshakeOf
<1>2. bind' = bind /\ attempt \in Binders
  BY BindersAssumption DEF endpointVars, FiberPlace
<1>3. ASSUME UNCHANGED <<side, attempt>>, At(step', side, bind[attempt]),
             step' \notin {"idle", "authorities"} \/ attempt = 1,
             step' # "retry" \/ attempt < MaximumConnectAttempts
      PROVE  Endpoints' /\ FiberPlace'
  BY <1>1, <1>2, <1>3, PlaceMoves
<1>4. /\ At(step, side, bind[attempt])
      /\ step \in {"idle", "authorities"} => attempt = 1
      /\ step = "retry" => attempt < MaximumConnectAttempts
  BY DEF FiberPlace
<1> USE <1>4, <1>2 DEF At, Steps, Owning, Over
<1>5. CASE StartServing
  <2>1. bind[attempt] = NotBound /\ NotBound.fiber = "none" /\ Binding.fiber = "waiting"
    BY <1>5 DEF StartServing, NotBound, Binding
  <2>2. UNCHANGED <<side, attempt>> /\ step' \in {"bind", "failed"}
    BY <1>5 DEF StartServing, Bind, Ends
  <2>3. step' # "bind"
    BY <1>5, <2>1 DEF StartServing, Bind, Ends, Endpoints
  <2>4. QED
    BY <2>1, <2>2, <2>3, <1>3
<1>6. CASE Resolve \/ AuthoritiesRead
  BY <1>3, <1>6 DEF Resolve, AuthoritiesRead
<1>7. CASE Attempt
  <2>1. bind[attempt] = NotBound /\ NotBound.fiber = "none" /\ Binding.fiber = "waiting"
    BY <1>7 DEF Attempt, NotBound, Binding
  <2>2. /\ UNCHANGED <<side, attempt>> /\ step' \in {"bind", "retry", "failed"}
        /\ step' = "retry" => side = "client" /\ attempt < MaximumConnectAttempts
    BY <1>7 DEF Attempt, Bind, Ends
  <2>3. step' # "bind"
    BY <1>7, <2>1 DEF Attempt, Bind, Ends, Endpoints
  <2>4. QED
    BY <2>1, <2>2, <2>3, <1>3
<1>8. CASE DeadlineExceeded \/ StreamDeadline \/ ServingEnds
  BY <1>3, <1>8 DEF DeadlineExceeded, StreamDeadline, ServingEnds, Fails
<1>9. CASE OnlineDeadline
  <2>1. /\ step = "online" /\ step' \in {"closing", "address"}
        /\ bind[attempt].fiber = "owner"
    BY <1>9 DEF OnlineDeadline, Closing
  <2>2. step' # "closing"
    <3>1. [bind EXCEPT ![attempt].fiber = "closing",
                       ![attempt].told = TRUE][attempt].fiber = "closing"
      BY DEF Endpoints, BindState
    <3>2. QED
      BY <1>9, <2>1, <3>1 DEF OnlineDeadline, Closing
  <2>3. UNCHANGED <<side, attempt>>
    BY <1>9 DEF OnlineDeadline, Closing
  <2>4. QED
    BY <1>3, <2>1, <2>2, <2>3
<1>10. CASE Publish
  BY <1>3, <1>10 DEF Publish, Fails
<1>11. CASE OnlineReturns
  BY <1>3, <1>11 DEF OnlineReturns, Fails
<1>12. CASE DialReturns \/ StreamOpens
  BY <1>3, <1>12 DEF DialReturns, StreamOpens, Fails, Waits
<1>13. CASE LinkChanges
  BY <1>3, <1>13 DEF LinkChanges
<1>14. CASE LateOnline \/ LateDial
  <2>1. step = "closing" /\ bind[attempt].fiber = "closing"
    BY <1>14 DEF LateOnline, LateDial
  <2>2. ~Wins
    <3>1. [bind EXCEPT ![attempt].fiber = "owner"][attempt].fiber = "owner"
      BY DEF Endpoints, BindState
    <3>2. QED
      BY <2>1, <3>1 DEF Wins
  <2>3. step' = "release" /\ UNCHANGED <<side, attempt>>
    BY <1>14, <2>2 DEF LateOnline, LateDial, Fails
  <2>4. QED
    BY <1>3, <2>1, <2>3
<1>15. QED
  BY <1>5, <1>6, <1>7, <1>8, <1>9, <1>10, <1>11, <1>12, <1>13, <1>14

\* The steps that bind an endpoint, close it or end its scope, and the resumption
\* of the fiber that binds.
LEMMA PlaceBinds ==
  ASSUME Endpoints, FiberPlace,
         \/ Bind /\ step \in {"idle", "attempt"} /\ (step = "idle" => side = "serve")
         \/ Quiet /\ step \in {"online", "dial"} /\ Closing
         \/ (LateOnline \/ LateDial) /\ Wins
         \/ EndpointCloses \/ ScopeEnds \/ Interrupt \/ Retry
         \/ \E b \in Binders : BindingReturns(b)
  PROVE  Endpoints' /\ FiberPlace'
<1>1. attempt \in Binders
  BY BindersAssumption DEF FiberPlace
<1>2. ASSUME UNCHANGED <<side, attempt>>, At(step', side, bind'[attempt]),
             step' \notin {"idle", "authorities"} \/ attempt = 1,
             step' # "retry" \/ attempt < MaximumConnectAttempts,
             \A b \in Binders \ {attempt} : bind'[b] = bind[b]
      PROVE  FiberPlace'
  BY <1>2, PlaceMoves
<1> USE <1>1 DEF Steps, Owning, Over
<1>3. CASE Bind /\ step \in {"idle", "attempt"}
  <2>1. bind[attempt] = NotBound
    BY <1>3 DEF FiberPlace, At
  <2>2. Endpoints'
    BY <1>3, <2>1, BindCalls DEF Bind
  <2>3. At("bind", side, bind'[attempt])
    BY <1>3 DEF Bind, Binding, NotBound, At, Endpoints
  <2>4. QED
    BY <1>2, <1>3, <2>2, <2>3 DEF Bind, Endpoints
<1>4. CASE Quiet /\ step \in {"online", "dial"} /\ Closing
  <2>1. bind[attempt].fiber = "owner"
    BY <1>4 DEF FiberPlace, At
  <2>2. /\ Endpoints' /\ bind'[attempt].fiber = "closing"
        /\ \A c \in Binders \ {attempt} : bind'[c] = bind[c]
    BY <1>4, <2>1, BinderCloses DEF Closing, Deadline
  <2>3. QED
    BY <1>2, <1>4, <2>2 DEF Closing, At
<1>5. CASE EndpointCloses
  <2>1. /\ Endpoints' /\ bind'[attempt].fiber = bind[attempt].fiber
        /\ bind'[attempt].told = bind[attempt].told /\ bind[attempt].told
        /\ bind[attempt].fiber \in {"owner", "closing"}
        /\ \A c \in Binders \ {attempt} : bind'[c] = bind[c]
    BY <1>5, BinderCloses DEF EndpointCloses, Closed
  <2>2. UNCHANGED <<side, attempt, step>> /\ At(step, side, bind[attempt])
    BY <1>5 DEF EndpointCloses, FiberPlace
  <2>3. step \notin {"idle", "authorities", "attempt", "retry"}
    BY <2>1, <2>2 DEF At, NotBound
  <2>4. QED
    BY <1>2, <2>1, <2>2, <2>3 DEF At
<1>6. CASE (LateOnline \/ LateDial) /\ Wins
  <2>1. bind[attempt].fiber = "closing"
    BY <1>6 DEF FiberPlace, At, LateOnline, LateDial
  <2>2. /\ Endpoints' /\ bind'[attempt].fiber = "owner"
        /\ \A c \in Binders \ {attempt} : bind'[c] = bind[c]
    BY <1>6, <2>1, BinderCloses DEF Wins, Won, LateOnline, LateDial
  <2>3. bind' # bind
    BY <2>1, <2>2
  <2>4. /\ UNCHANGED <<side, attempt>>
        /\ \/ step' = "address" /\ side = "serve"
           \/ step' = "open" /\ side = "client"
    BY <1>6, <2>3 DEF LateOnline, LateDial, Wins, Waits, Fails, endpointVars
  <2>5. QED
    BY <1>2, <2>2, <2>4 DEF At
<1>7. CASE ScopeEnds
  <2>1. /\ Endpoints' /\ bind'[attempt].fiber = "gone"
        /\ \A c \in Binders \ {attempt} : bind'[c] = bind[c]
    BY <1>7, ScopeReleases DEF ScopeEnds
  <2>2. /\ step' \in {"retry", "failed"} /\ UNCHANGED <<side, attempt>>
        /\ step' = "retry" => side = "client" /\ attempt < MaximumConnectAttempts
    BY <1>7 DEF ScopeEnds, Ends
  <2>3. QED
    BY <1>2, <2>1, <2>2 DEF At
<1>8. CASE Interrupt
  <2>1. step' = "gone" /\ UNCHANGED <<side, attempt>> /\ step \in Stopping
    BY <1>8 DEF Interrupt
  <2>2. /\ Endpoints' /\ bind'[attempt].fiber \in Over
        /\ \A c \in Binders \ {attempt} : bind'[c] = bind[c]
    <3>1. CASE bind[attempt].fiber = "waiting"
      BY <1>8, <3>1, BinderInterrupted DEF Interrupt
    <3>2. CASE bind[attempt].fiber \in {"owner", "closing"}
      BY <1>8, <3>2, ScopeReleases DEF Interrupt
    <3>3. CASE bind[attempt].fiber \notin {"waiting", "owner", "closing"}
      <4>1. UNCHANGED endpointVars
        BY <1>8, <3>3 DEF Interrupt
      <4>2. Endpoints'
        BY <4>1 DEF Endpoints, endpointVars, acceptVars, Queued, Quiet, AcceptTypes, HandshakeOf
      <4>3. bind[attempt].fiber \in Over
        BY <3>3 DEF Endpoints, BindState
      <4>4. QED
        BY <4>1, <4>2, <4>3 DEF endpointVars
    <3>4. QED
      BY <3>1, <3>2, <3>3
  <2>3. QED
    BY <1>2, <2>1, <2>2 DEF At
<1>9. CASE Retry
  <2>1. /\ UNCHANGED endpointVars /\ side' = side /\ step' = "attempt"
        /\ attempt' = attempt + 1 /\ bind' = bind
        /\ bind[attempt].fiber \in Over /\ side = "client"
    BY <1>9 DEF Retry, endpointVars, FiberPlace, At
  <2>2. Endpoints'
    BY <2>1 DEF Endpoints, endpointVars, acceptVars, Queued, Quiet, AcceptTypes, HandshakeOf
  <2>3. attempt = 1
    BY <1>9 DEF FiberPlace, Retry, MaximumConnectAttempts
  <2>4. bind'[attempt'] = NotBound
    BY <2>1, <2>3, BindersAssumption DEF FiberPlace, MaximumConnectAttempts
  <2>5. At(step', side', bind'[attempt'])
    BY <2>1, <2>4 DEF At
  <2>6. \A b \in Binders : b < attempt' => b = attempt
    BY <2>1, <2>3, BindersAssumption DEF MaximumConnectAttempts
  <2>7. QED
    BY <2>1, <2>2, <2>3, <2>5, <2>6, BindersAssumption DEF FiberPlace, MaximumConnectAttempts
<1>10. ASSUME NEW b \in Binders, BindingReturns(b) PROVE Endpoints' /\ FiberPlace'
  <2>1. /\ Endpoints'
        /\ bind[b].fiber = "waiting" => bind'[b].fiber \in {"owner", "failed"}
        /\ bind[b].fiber # "waiting" => bind'[b] = bind[b]
        /\ bind'[b].told = bind[b].told
        /\ \A c \in Binders \ {b} : bind'[c] = bind[c]
    BY <1>10, BinderResumes DEF BindingReturns
  <2>2. CASE bind[b].fiber # "waiting"
    <3>1. bind' = bind /\ UNCHANGED <<side, attempt, step>>
      BY <1>10, <2>1, <2>2 DEF BindingReturns, Endpoints
    <3>2. QED
      BY <2>1, <3>1 DEF FiberPlace
  <2>3. CASE bind[b].fiber = "waiting"
    <3>1. b = attempt
      BY <2>3, BindersAssumption DEF FiberPlace, NotBound
    <3>2. step = "bind"
      BY <2>3, <3>1 DEF FiberPlace, At, NotBound
    <3>3. UNCHANGED <<side, attempt>>
      BY <1>10, <2>3 DEF BindingReturns, Ends, Waits
    <3>4. /\ bind'[b].fiber = "owner" => step' = IF side = "client" THEN "dial"
               ELSE IF reachability = "direct-only" THEN "address" ELSE "online"
          /\ bind'[b].fiber = "failed" =>
               \/ step' = "failed"
               \/ step' = "retry" /\ side = "client" /\ attempt < MaximumConnectAttempts
      BY <1>10, <2>3 DEF BindingReturns, Ends, Waits
    <3>5. At(step', side, bind'[attempt])
      BY <2>1, <2>3, <3>1, <3>2, <3>4 DEF FiberPlace, At
    <3>6. QED
      BY <1>2, <2>1, <2>3, <3>1, <3>3, <3>4, <3>5
  <2>4. QED
    BY <2>2, <2>3
<1>11. QED
  BY <1>3, <1>4, <1>5, <1>7, <1>8, <1>9, <1>10, <1>6

\* Every step of the fiber, and every native step it sees.
TransportStep ==
  \/ FiberStep \/ Interrupt
  \/ LinkChanges \/ OnlineReturns \/ LateOnline \/ ServingEnds \/ DialReturns \/ LateDial
  \/ StreamOpens

\* The endpoints and the place of the fiber, under all of them.
LEMMA PlaceStep ==
  ASSUME Endpoints, FiberPlace, TransportStep PROVE Endpoints' /\ FiberPlace'
<1>1. CASE Resolve \/ AuthoritiesRead \/ DeadlineExceeded \/ Publish \/ StreamDeadline
           \/ ServingEnds \/ LinkChanges \/ OnlineReturns \/ DialReturns \/ StreamOpens
  <2>1. UNCHANGED endpointVars
    BY <1>1 DEF Resolve, AuthoritiesRead, DeadlineExceeded, Publish, StreamDeadline,
                ServingEnds, LinkChanges, OnlineReturns, DialReturns, StreamOpens, Fails, Waits
  <2>2. QED
    BY <1>1, <2>1, PlaceAlone
<1>2. CASE EndpointCloses \/ ScopeEnds \/ Interrupt \/ Retry
           \/ \E b \in Binders : BindingReturns(b)
  BY <1>2, PlaceBinds
<1>3. CASE StartServing \/ Attempt
  <2>1. \/ Bind /\ step \in {"idle", "attempt"} /\ (step = "idle" => side = "serve")
        \/ UNCHANGED endpointVars
    BY <1>3 DEF StartServing, Attempt
  <2>2. QED
    BY <1>3, <2>1, PlaceAlone, PlaceBinds
<1>4. CASE OnlineDeadline \/ DialDeadline
  <2>1. \/ Quiet /\ step \in {"online", "dial"} /\ Closing
        \/ OnlineDeadline /\ UNCHANGED endpointVars
    BY <1>4 DEF OnlineDeadline, DialDeadline
  <2>2. QED
    BY <2>1, PlaceAlone, PlaceBinds
<1>5. CASE LateOnline \/ LateDial
  <2>1. Wins \/ UNCHANGED endpointVars
    BY <1>5 DEF LateOnline, LateDial, Fails
  <2>2. QED
    BY <1>5, <2>1, PlaceAlone, PlaceBinds
<1>6. QED
  BY <1>1, <1>2, <1>3, <1>4, <1>5 DEF TransportStep, FiberStep

-----------------------------------------------------------------------------
(* The locator.                                                            *)
\* A locator that passed the filter of its listener is one that any client,
\* which may use both kinds of address, can use as it is.
LEMMA NormalizedLocator ==
  ASSUME NEW x \in Addresses, NEW reach, Normalize(x, reach).valid
  PROVE  /\ Normalize(Normalize(x, reach), "direct-or-relay") = Normalize(x, reach)
         /\ reach = "direct-only" => ~Normalize(x, reach).relay
<1> DEFINE a == Normalize(x, reach)
<1>1. a.valid
  OBVIOUS
<1>2. x.valid
  <2>1. ~x.valid => a = NoAddress
    BY DEF Normalize
  <2>2. QED
    BY <2>1, <1>1 DEF NoAddress
<1>3. a \in Addresses /\ (a.relay \/ a.direct) /\ (reach = "direct-only" => ~a.relay)
  <2>1. CASE reach = "direct-only"
    <3>1. a = [x EXCEPT !.valid = x.direct, !.relay = FALSE]
      BY <1>2, <2>1 DEF Normalize
    <3> HIDE DEF a
    <3>2. QED
      BY <3>1, <1>1 DEF Addresses
  <2>2. CASE reach = "relay-only"
    <3>1. a = [x EXCEPT !.valid = x.relay, !.direct = FALSE]
      BY <1>2, <2>2 DEF Normalize
    <3> HIDE DEF a
    <3>2. QED
      BY <2>2, <3>1, <1>1 DEF Addresses
  <2>3. CASE reach \notin {"direct-only", "relay-only"}
    <3>1. a = [x EXCEPT !.valid = x.relay \/ x.direct]
      BY <1>2, <2>3 DEF Normalize
    <3> HIDE DEF a
    <3>2. QED
      BY <2>3, <3>1, <1>1 DEF Addresses
  <2>4. QED
    BY <2>1, <2>2, <2>3
<1> HIDE DEF a
<1>4. Normalize(a, "direct-or-relay") = [a EXCEPT !.valid = a.relay \/ a.direct]
  BY <1>1 DEF Normalize
<1>5. [a EXCEPT !.valid = a.relay \/ a.direct] = a
  <2>1. (a.relay \/ a.direct) = TRUE /\ a.valid = TRUE
    BY <1>3, <1>1 DEF Addresses
  <2>2. QED
    BY <1>3, <2>1 DEF Addresses
<1>6. QED
  BY <1>3, <1>4, <1>5 DEF a

\* What the listener knows of its relay, and publishes.
LEMMA ListeningStep ==
  ASSUME Endpoints, FiberPlace, Listening, TransportStep PROVE Listening'
<1>1. ASSUME UNCHANGED <<side, listenVars>>, link' \in BOOLEAN,
             step' \in {"idle", "bind", "online"} =>
               side = "client" \/ step \in {"idle", "bind", "online"},
             step' = "address" =>
               step = "address" \/ (step = "bind" /\ reachability = "direct-only"),
             step' = "serving" => step = "serving",
             step' = "closing" => side = "client" \/ step = "closing",
             step' \in {"address", "serving"} /\ bind'[attempt'].told =>
               step \in {"address", "serving"} /\ bind[attempt].told
      PROVE  Listening'
  BY <1>1 DEF Listening, listenVars, ClosedUnderItsListener
<1>2. /\ link \in BOOLEAN
      /\ step \in {"authorities", "attempt", "dial", "open", "connected", "retry"} =>
           side = "client"
      /\ step \in {"online", "address", "serving"} => side = "serve"
      /\ step = "address" => locatorReachability = "direct-only" \/ online
      /\ attempt \in Binders /\ (step = "online" => ~bind[attempt].told)
  BY BindersAssumption DEF Listening, FiberPlace, At
<1>3. CASE StartServing \/ Attempt
  <2>1. /\ UNCHANGED <<side, link, listenVars>> /\ step' \in {"bind", "retry", "failed"}
        /\ step \in {"idle", "attempt"}
    BY <1>3 DEF StartServing, Attempt, Bind, Ends
  <2>2. QED
    BY <1>1, <1>2, <2>1
<1>4. CASE Resolve \/ AuthoritiesRead \/ Retry
  BY <1>1, <1>2, <1>4 DEF Resolve, AuthoritiesRead, Retry
<1>5. CASE ScopeEnds \/ DeadlineExceeded \/ DialDeadline \/ StreamDeadline \/ Interrupt
           \/ ServingEnds
  <2>1. /\ UNCHANGED <<side, link, listenVars>>
        /\ step' \in {"retry", "failed", "release", "closing", "gone"}
        /\ step' = "closing" => side = "client"
    BY <1>2, <1>5 DEF ScopeEnds, DeadlineExceeded, DialDeadline, StreamDeadline,
                      ServingEnds, Interrupt, Ends, Fails, Closing
  <2>2. QED
    BY <1>1, <1>2, <2>1
<1>6. CASE EndpointCloses
  <2>1. UNCHANGED <<side, link, listenVars, step, attempt>>
    BY <1>6 DEF EndpointCloses
  <2>2. bind'[attempt].told = bind[attempt].told
    BY <1>2, <1>6, BinderCloses DEF EndpointCloses, Closed
  <2>3. QED
    BY <1>1, <1>2, <2>1, <2>2
<1>7. CASE LinkChanges \/ DialReturns \/ LateDial \/ StreamOpens
  <2>1. UNCHANGED <<side, listenVars>> /\ link' \in BOOLEAN
    BY <1>2, <1>7 DEF LinkChanges, DialReturns, LateDial, StreamOpens, Fails, Wins
  <2>2. \/ step' \in {"open", "connected", "release"}
        \/ UNCHANGED <<step, attempt, bind>>
    BY <1>7 DEF LinkChanges, DialReturns, LateDial, StreamOpens, Fails, Waits, endpointVars
  <2>3. QED
    BY <1>1, <2>1, <2>2
<1>8. CASE OnlineDeadline \/ OnlineReturns
  <2>1. UNCHANGED <<side, link>> /\ step = "online" /\ side = "serve"
    BY <1>2, <1>8 DEF OnlineDeadline, OnlineReturns, Closing, Fails
  <2>2. \/ step' = "release"
        \/ step' = "closing" /\ reachability = "relay-only" /\ UNCHANGED listenVars
        \/ /\ step' = "address" /\ (locatorReachability' = "direct-only" \/ online')
           /\ UNCHANGED <<bind, attempt>>
    BY <1>8 DEF OnlineDeadline, OnlineReturns, Closing, Fails, LocatorWithoutRelay,
                endpointVars
  <2>3. QED
    BY <1>2, <2>1, <2>2 DEF Listening, listenVars
<1>9. CASE LateOnline
  <2>1. /\ step = "closing" /\ side = "serve" /\ UNCHANGED <<side, link, attempt>>
        /\ reachability = "relay-only"
    BY <1>9 DEF LateOnline, Wins, Fails, Listening
  <2>2. \/ step' = "release"
        \/ step' = "address" /\ online' /\ UNCHANGED reachability
    BY <1>9 DEF LateOnline, Fails
  <2>3. QED
    BY <1>2, <2>1, <2>2 DEF Listening, ClosedUnderItsListener
<1>10. CASE Publish
  <2>1. /\ UNCHANGED <<side, link, attempt, bind, online, reachability, locatorReachability>>
        /\ step = "address"
    BY <1>10 DEF Publish, Fails, listenVars, endpointVars
  <2>2. CASE step' = "release"
    BY <1>2, <2>1, <2>2 DEF Listening
  <2>3. CASE step' # "release"
    <3>1. PICK relay \in BOOLEAN, direct \in BOOLEAN :
            /\ Normalize([valid |-> TRUE, relay |-> relay, direct |-> direct],
                         locatorReachability).valid
            /\ locator' = Normalize([valid |-> TRUE, relay |-> relay, direct |-> direct],
                                    locatorReachability)
            /\ step' = "serving"
      BY <1>10, <2>3 DEF Publish, Fails
    <3> DEFINE x == [valid |-> TRUE, relay |-> relay, direct |-> direct]
    <3>2. x \in Addresses
      BY <1>2 DEF Addresses
    <3>3. /\ Normalize(locator', "direct-or-relay") = locator' /\ locator'.valid
          /\ locatorReachability = "direct-only" => ~locator'.relay
      BY <3>1, <3>2, NormalizedLocator
    <3>4. QED
      BY <1>2, <2>1, <3>1, <3>3 DEF Listening, ClosedUnderItsListener
  <2>4. QED
    BY <2>2, <2>3
<1>11. ASSUME NEW b \in Binders, BindingReturns(b) PROVE Listening'
  <2>1. UNCHANGED <<side, link, listenVars>>
    BY <1>11 DEF BindingReturns, Ends
  <2>2. \/ step' = step
        \/ step' \in {"dial", "retry", "failed"}
        \/ side = "serve" /\ step' = "address" /\ reachability = "direct-only"
        \/ side = "serve" /\ step' = "online"
    BY <1>11 DEF BindingReturns, Ends, Waits, FiberPlace
  <2>3. step' = step \/ step = "bind"
    <3>1. bind[b].fiber # "waiting" => step' = step
      BY <1>11 DEF BindingReturns
    <3>2. bind[b].fiber = "waiting" => b = attempt /\ step = "bind"
      BY BindersAssumption DEF FiberPlace, At, NotBound, Steps, Owning, Over
    <3>3. QED
      BY <3>1, <3>2
  <2>4. attempt' = attempt /\ bind'[attempt].told = bind[attempt].told
    BY <1>2, <1>11, BinderResumes DEF BindingReturns, Ends
  <2>5. step = "bind" => ~bind[attempt].told
    BY DEF FiberPlace, At
  <2>6. QED
    BY <1>1, <1>2, <2>1, <2>2, <2>3, <2>4, <2>5
<1>12. QED
  BY <1>3, <1>4, <1>5, <1>7, <1>8, <1>10, <1>11, <1>6, <1>9 DEF TransportStep, FiberStep

-----------------------------------------------------------------------------
(* The verdict of a client.                                                *)
\* A command is a server or a client for good.
LEMMA SideStays == ASSUME TransportStep PROVE side' = side
BY DEF TransportStep, FiberStep, Interrupt, LinkChanges, OnlineReturns, LateOnline,
       ServingEnds, DialReturns, LateDial, StreamOpens, StartServing, Resolve, Attempt,
       Retry, ScopeEnds, AuthoritiesRead, EndpointCloses, DeadlineExceeded, OnlineDeadline,
       Publish, DialDeadline, StreamDeadline, BindingReturns, Bind, Ends, Fails, Closing,
       Waits, Wins

\* What a client looks for depends on its key and its transport alone.
LEMMA SameTarget == UNCHANGED <<key, dialer>> => Target' = Target
BY DEF Target, Normalize

\* A failure that no later step explains away.
LEMMA OtherFailures ==
  ASSUME NEW e \in {"none", "BridgeConnect", "BridgeDeadlineExceeded"} \cup EnvironmentErrors
  PROVE  e \notin {"peer-offline", "relay-unreachable", "BridgeDirectConnect",
                   "BridgeLocatorInvalid"}
BY DEF EnvironmentErrors

\* The verdict under every step of the fiber.
LEMMA DialledStep ==
  ASSUME Endpoints, FiberPlace, Dialled, TransportStep PROVE Dialled'
<1>1. UNCHANGED side
  BY SideStays
<1>2. SUFFICES ASSUME side = "client" PROVE Dialled'
  BY <1>1 DEF Dialled
<1>3. /\ own = "open" => step \in {"open", "connected", "closing", "release"}
      /\ step \in {"bind", "dial", "open", "connected", "closing", "release", "retry"}
           \/ attempt > 1 => Target.valid
      /\ step \in {"release", "retry", "failed", "gone"} => Explained
      /\ step \notin {"release", "retry", "failed", "gone"} => failure = "none"
  BY <1>2 DEF Dialled
<1>4. /\ attempt \in Binders /\ attempt \in 1..MaximumConnectAttempts
      /\ At(step, side, bind[attempt])
  BY BindersAssumption DEF FiberPlace
<1>5. step \notin {"online", "address", "serving"}
  BY <1>2, <1>4 DEF At
<1>6. ASSUME UNCHANGED <<key, dialer, attempt>>,
             own' = "open" => step' \in {"open", "connected", "closing", "release"},
             step' \in {"bind", "dial", "open", "connected", "closing"} => Target.valid,
             step' \notin {"release", "retry", "failed", "gone"},
             failure' = failure, failure = "none"
      PROVE  Dialled'
  BY <1>3, <1>6, SameTarget DEF Dialled
<1>7. ASSUME UNCHANGED <<key, dialer, attempt>>,
             own' = "open" => step' = "release", Explained',
             step' \in {"release", "retry"} => Target.valid,
             step' \in {"release", "retry", "failed", "gone"}
      PROVE  Dialled'
  BY <1>3, <1>7, SameTarget DEF Dialled
<1>8. CASE StartServing \/ OnlineReturns \/ LateOnline \/ OnlineDeadline \/ Publish
           \/ ServingEnds
  BY <1>2, <1>5, <1>8 DEF StartServing, OnlineReturns, LateOnline, OnlineDeadline, Publish,
                          ServingEnds
<1>9. CASE Resolve
  <2>1. /\ step = "idle" /\ step' \in {"authorities", "attempt"} /\ own' = own
        /\ failure' = failure /\ attempt' = attempt
    BY <1>9 DEF Resolve
  <2>2. attempt = 1
    BY <2>1 DEF FiberPlace
  <2>3. QED
    BY <1>3, <2>1, <2>2 DEF Dialled
<1>10. CASE AuthoritiesRead \/ LinkChanges \/ DialDeadline
  <2>1. /\ UNCHANGED <<key, dialer, attempt, failure, own>>
        /\ step' = step \/ (step = "authorities" /\ step' = "attempt")
             \/ (step = "dial" /\ step' = "closing")
        /\ step \in {"authorities", "dial", "closing", "online", "address"}
    BY <1>10 DEF AuthoritiesRead, LinkChanges, DialDeadline, Closing, dialVars
  <2>2. QED
    BY <1>3, <1>5, <1>6, <2>1
<1>11. CASE EndpointCloses
  <2>1. /\ UNCHANGED <<side, step, link, key, dialer, attempt, failure>>
        /\ own' # "open" /\ bind[attempt].told
    BY <1>11 DEF EndpointCloses
  <2>2. bind[attempt].fiber \in {"owner", "closing"} /\ bind'[attempt].told
    BY <1>4, <1>11, BinderCloses DEF EndpointCloses, Closed
  <2>3. step \notin {"idle", "authorities", "attempt", "retry", "failed", "gone"}
    BY <1>4, <2>2 DEF At, NotBound, Over
  <2>4. CASE step = "release"
    <3>1. failure # "BridgeLocatorInvalid"
      BY <1>3, <1>4, <2>2, <2>4 DEF Explained, NotBound
    <3>2. Explained'
      BY <1>3, <2>1, <2>2, <2>4, <3>1, SameTarget DEF Explained
    <3>3. QED
      BY <1>3, <1>7, <2>1, <2>4, <3>2
  <2>5. CASE step # "release"
    BY <1>3, <1>6, <2>1, <2>3, <2>5
  <2>6. QED
    BY <2>4, <2>5
<1>12. CASE Attempt
  <2>1. /\ step = "attempt" /\ UNCHANGED <<key, dialer, own, attempt>>
        /\ bind[attempt] = NotBound
    BY <1>4, <1>12 DEF Attempt, Bind, Ends, dialVars, At
  <2>2. CASE ConfigurationError = "none" /\ Bind
    <3>1. Target.valid
      BY <2>2 DEF ConfigurationError
    <3>2. QED
      BY <1>3, <1>6, <2>1, <2>2, <3>1 DEF Bind
  <2>3. CASE /\ ConfigurationError # "none" /\ UNCHANGED endpointVars
             /\ Ends(ConfigurationError)
    <3> DEFINE e == ConfigurationError
    <3>1. /\ failure' = e /\ UNCHANGED <<link, bind>>
          /\ step' = IF e \in Retried /\ attempt < MaximumConnectAttempts
                     THEN "retry" ELSE "failed"
      BY <1>2, <2>3 DEF Ends, endpointVars
    <3>2. CASE ~Target.valid
      <4>1. e = "BridgeLocatorInvalid"
        BY <3>2 DEF ConfigurationError
      <4>2. attempt = 1 /\ \A b \in Binders : bind[b] = NotBound
        BY <1>3, <1>4, <2>1, <3>2, BindersAssumption DEF FiberPlace
      <4>3. Explained' /\ step' = "failed"
        BY <3>1, <4>1, <4>2 DEF Explained, Retried, DialErrors
      <4>4. QED
        BY <1>3, <1>7, <2>1, <4>3
    <3>3. CASE Target.valid
      <4>1. e \in {"BridgeConnect"} \cup EnvironmentErrors
        BY <2>3, <3>3 DEF ConfigurationError, EnvironmentErrors, ConfigureProxy, ConfigureCaTrust
      <4>2. e \notin {"peer-offline", "relay-unreachable", "BridgeDirectConnect",
                      "BridgeLocatorInvalid"}
        BY <4>1, OtherFailures
      <4>3. Explained'
        BY <1>4, <2>1, <3>1, <4>2 DEF Explained, MaximumConnectAttempts
      <4>4. QED
        BY <1>3, <1>7, <2>1, <3>1, <3>3, <4>3
    <3>4. QED
      BY <3>2, <3>3
  <2>4. QED
    BY <1>12, <2>2, <2>3 DEF Attempt
<1>13. CASE Retry
  <2>1. /\ step = "retry" /\ step' = "attempt" /\ own' = "none"
        /\ failure' = "none" /\ UNCHANGED <<key, dialer>>
    BY <1>13 DEF Retry, NoFailure
  <2>2. QED
    BY <1>3, <2>1, SameTarget DEF Dialled
<1>14. CASE ScopeEnds
  <2>1. bind'[attempt].told = bind[attempt].told
    BY <1>4, <1>14 DEF ScopeEnds, Release, Endpoints, BindState
  <2>2. /\ step = "release" /\ UNCHANGED <<key, dialer, attempt, failure, link>>
        /\ own' # "open"
        /\ step' = IF failure \in Retried /\ attempt < MaximumConnectAttempts
                   THEN "retry" ELSE "failed"
    BY <1>2, <1>14 DEF ScopeEnds, Ends
  <2>3. failure # "BridgeLocatorInvalid"
    BY <1>3, <1>4, <2>2 DEF Explained, At, NotBound
  <2>4. Explained'
    BY <1>3, <1>4, <2>2, <2>3, <2>1, SameTarget DEF Explained, MaximumConnectAttempts
  <2>5. QED
    BY <1>3, <1>7, <2>2, <2>4
<1>15. ASSUME NEW r \in BOOLEAN, RelayLinkObserved(r), Fails(Classify(r)),
              UNCHANGED <<key, dialer>>, own' # "open" \/ own' = own, Target.valid
       PROVE  Dialled'
  <2>1. /\ failure' = Classify(r) /\ step' = "release"
        /\ UNCHANGED <<attempt, link, key, dialer, bind>>
    BY <1>15 DEF Fails, endpointVars
  <2>2. /\ r => link
        /\ ~r => ~link \/ bind[attempt].told
    BY <1>15 DEF RelayLinkObserved
  <2>3. /\ failure' = Classify(r)
        /\ Classify(r) \in {"BridgeDirectConnect", "peer-offline", "relay-unreachable"}
        /\ Classify(r) = "BridgeDirectConnect" => ~Target.relay
        /\ Classify(r) = "peer-offline" => r
        /\ Classify(r) = "relay-unreachable" => ~r
    BY <2>1 DEF Classify
  <2>4. Explained'
    BY <2>1, <2>2, <2>3, SameTarget DEF Explained
  <2>5. QED
    BY <1>7, <1>15, <2>1, <2>4
<1>16. ASSUME NEW error \in {"BridgeConnect", "BridgeDeadlineExceeded"},
              Fails(error), UNCHANGED <<key, dialer>>, Target.valid
       PROVE  Dialled'
  <2>1. /\ failure' = error /\ step' = "release" /\ attempt' = attempt
    BY <1>16 DEF Fails
  <2>2. Explained'
    BY <2>1 DEF Explained
  <2>3. QED
    BY <1>7, <1>16, <2>1, <2>2
<1>17. CASE DeadlineExceeded
  BY <1>2, <1>3, <1>15, <1>17 DEF DeadlineExceeded, dialVars
<1>18. CASE DialReturns \/ LateDial
  <2>1. step \in {"dial", "closing"} /\ UNCHANGED <<key, dialer>> /\ Target.valid
    BY <1>3, <1>18 DEF DialReturns, LateDial
  <2>2. CASE Waits("open") /\ UNCHANGED <<attempt, failure>>
    BY <1>3, <1>6, <2>1, <2>2 DEF Waits
  <2>3. CASE /\ \E r \in BOOLEAN : RelayLinkObserved(r) /\ Fails(Classify(r))
             /\ UNCHANGED own
    BY <1>15, <2>1, <2>3
  <2>4. QED
    BY <1>18, <2>2, <2>3 DEF DialReturns, LateDial, Wins
<1>19. CASE StreamOpens \/ StreamDeadline
  <2>1. step = "open" /\ UNCHANGED <<key, dialer>> /\ Target.valid
    BY <1>3, <1>19 DEF StreamOpens, StreamDeadline
  <2>2. CASE step' = "connected" /\ UNCHANGED <<attempt, failure>>
    BY <1>3, <1>6, <2>1, <2>2
  <2>3. CASE Fails("BridgeConnect") \/ Fails("BridgeDeadlineExceeded")
    BY <1>16, <2>1, <2>3
  <2>4. QED
    BY <1>19, <2>2, <2>3 DEF StreamOpens, StreamDeadline
<1>20. CASE Interrupt
  <2>1. /\ step' = "gone" /\ own' # "open" /\ UNCHANGED <<attempt, failure, link, key, dialer>>
        /\ step \in Stopping
    BY <1>20 DEF Interrupt
  <2>2. Explained'
    <3>1. CASE step = "retry"
      <4>1. bind[attempt].fiber \notin {"waiting", "owner", "closing"}
        BY <1>4, <3>1 DEF At, Over
      <4>2. UNCHANGED bind
        BY <1>20, <4>1 DEF Interrupt, endpointVars
      <4>3. QED
        BY <1>3, <2>1, <3>1, <4>2, SameTarget DEF Explained
    <3>2. CASE step # "retry"
      <4>1. failure' = "none"
        BY <1>3, <2>1, <3>2 DEF Stopping
      <4>2. QED
        BY <2>1, <4>1 DEF Explained
    <3>3. QED
      BY <3>1, <3>2
  <2>3. QED
    BY <1>7, <2>1, <2>2
<1>21. ASSUME NEW b \in Binders, BindingReturns(b) PROVE Dialled'
  <2>1. UNCHANGED <<key, dialer, own>>
    BY <1>21 DEF BindingReturns, dialVars
  <2>2. CASE bind[b].fiber # "waiting"
    <3>1. UNCHANGED <<step, attempt, failure, link>>
      BY <1>21, <2>2 DEF BindingReturns
    <3>2. bind' = bind
      BY <1>21, <2>2, BinderResumes DEF BindingReturns, Endpoints
    <3>3. QED
      BY <1>1, <2>1, <3>1, <3>2, SameTarget DEF Dialled, Explained
  <2>3. CASE bind[b].fiber = "waiting"
    <3>1. step = "bind"
      BY <2>3, BindersAssumption DEF FiberPlace, At, NotBound, Steps, Owning, Over
    <3>2. Target.valid /\ own # "open" /\ failure = "none"
      BY <1>3, <3>1
    <3>3. CASE Waits("dial") /\ UNCHANGED <<attempt, failure>>
      BY <1>6, <2>1, <3>2, <3>3 DEF Waits
    <3>4. ASSUME NEW error \in {"BridgeDeadlineExceeded", "BridgeConnect"}, Ends(error)
          PROVE  Dialled'
      <4>1. /\ failure' = error /\ attempt' = attempt /\ error \in Retried
            /\ step' = IF attempt < MaximumConnectAttempts THEN "retry" ELSE "failed"
        BY <1>2, <3>4 DEF Ends, Retried
      <4>2. Explained'
        BY <1>4, <4>1 DEF Explained, MaximumConnectAttempts
      <4>3. QED
        BY <1>7, <2>1, <3>2, <4>1, <4>2
    <3>5. QED
      BY <1>2, <1>21, <2>3, <3>3, <3>4 DEF BindingReturns
  <2>4. QED
    BY <2>2, <2>3
<1>22. QED
  BY <1>8, <1>9, <1>10, <1>12, <1>13, <1>14, <1>17, <1>18, <1>19, <1>20, <1>21, <1>11
     DEF TransportStep, FiberStep

-----------------------------------------------------------------------------
(* The doctor.                                                             *)
\* What is said and done about the environment depends on the setting alone.
LEMMA SameSetting ==
  ASSUME setting' = setting
  PROVE  /\ ProxyCheck' = ProxyCheck /\ CaTrustCheck' = CaTrustCheck
         /\ ResolveClientTransport' = ResolveClientTransport
         /\ ResolveClientCaTrust' = ResolveClientCaTrust
<1>1. /\ HasProxyEnvironment' = HasProxyEnvironment /\ ProxyUrlFound' = ProxyUrlFound
      /\ IrohBindingSupportsProxy' = IrohBindingSupportsProxy
      /\ IrohBindingSupportsCaTrust' = IrohBindingSupportsCaTrust
  BY DEF HasProxyEnvironment, ProxyUrlFound, IrohBindingSupportsProxy,
         IrohBindingSupportsCaTrust
<1>2. CaSource' = CaSource
  BY DEF CaSource
<1>3. /\ ConfigureProxy("FromEnvironment")' = ConfigureProxy("FromEnvironment")
      /\ ConfigureCaTrust("ExtraRootsPem")' = ConfigureCaTrust("ExtraRootsPem")
  BY <1>1 DEF ConfigureProxy, ConfigureCaTrust
<1>4. ProxyCheck' = ProxyCheck
  BY <1>1, <1>3 DEF ProxyCheck
<1>5. CaTrustCheck' = CaTrustCheck
  BY <1>1, <1>2, <1>3, <1>4 DEF CaTrustCheck, ProxyUsable
<1>6. ResolveClientTransport' = ResolveClientTransport
  BY <1>1 DEF ResolveClientTransport
<1>7. ResolveClientCaTrust' = ResolveClientCaTrust
  BY <1>1, <1>2, <1>6 DEF ResolveClientCaTrust, ReadsCaFile
<1>8. QED
  BY <1>4, <1>5, <1>6, <1>7

\* A check fails exactly where the configuration of a client, whose binding
\* makes a builder, does; and it warns exactly of what the client leaves out.
LEMMA ChecksForetell ==
  ASSUME Resolved, setting \in Settings
  PROVE  /\ setting.builds =>
              (EnvironmentFails <=> \/ ConfigureProxy(dialer.proxy) # "none"
                                    \/ ConfigureCaTrust(dialer.caTrust) # "none")
         /\ setting.builds => (ProxyCheck = "warn" <=> dialer.fallback)
         /\ ProxyCheck = "ok" => (CaTrustCheck = "warn" <=> dialer.notice # "none")
<1>1. /\ dialer.proxy = ResolveClientTransport.proxy
      /\ dialer.fallback = ResolveClientTransport.fallback
      /\ dialer.caTrust = ResolveClientCaTrust.caTrust
      /\ dialer.notice = ResolveClientCaTrust.notice
  BY DEF Resolved
<1>2. CASE ~HasProxyEnvironment
  <2>1. ProxyCheck = "ok" /\ ~ProxyUsable /\ CaTrustCheck = "ok"
    BY <1>2 DEF ProxyCheck, ProxyUsable, CaTrustCheck
  <2>2. ResolveClientTransport.proxy = "Disabled" /\ ~ResolveClientTransport.fallback
    BY <1>2 DEF ResolveClientTransport
  <2>3. ResolveClientCaTrust.caTrust = "Disabled" /\ ResolveClientCaTrust.notice = "none"
    BY <2>2 DEF ResolveClientCaTrust, ReadsCaFile
  <2>4. QED
    BY <1>1, <2>1, <2>2, <2>3 DEF EnvironmentFails, ConfigureProxy, ConfigureCaTrust
<1>3. CASE HasProxyEnvironment /\ ~setting.builds
  BY <1>3 DEF ProxyCheck
<1>4. CASE HasProxyEnvironment /\ setting.builds /\ setting.proxyUrl = "absent"
  <2>1. ConfigureProxy("FromEnvironment") = "BridgeProxyUnsupported"
    BY <1>4 DEF ConfigureProxy
  <2>2. ProxyCheck = "warn" /\ ~ProxyUsable /\ CaTrustCheck = "ok"
    BY <1>4, <2>1 DEF ProxyCheck, ProxyUsable, CaTrustCheck
  <2>3. ResolveClientTransport.proxy = "Disabled" /\ ResolveClientTransport.fallback
    BY <1>4 DEF ResolveClientTransport, IrohBindingSupportsProxy
  <2>4. ResolveClientCaTrust.caTrust = "Disabled"
    BY <2>3 DEF ResolveClientCaTrust, ReadsCaFile
  <2>5. QED
    BY <1>1, <2>2, <2>3, <2>4 DEF EnvironmentFails, ConfigureProxy, ConfigureCaTrust
<1>5. CASE HasProxyEnvironment /\ setting.builds /\ setting.proxyUrl # "absent"
  <2>1. ConfigureProxy("FromEnvironment") \in {"none", "BridgeProxyConfiguration"}
    BY <1>5 DEF ConfigureProxy
  <2>2. ProxyCheck = IF ConfigureProxy("FromEnvironment") = "none" THEN "ok" ELSE "fail"
    BY <1>5, <2>1 DEF ProxyCheck
  <2>3. /\ ResolveClientTransport.proxy = "FromEnvironment"
        /\ ~ResolveClientTransport.fallback
    BY <1>5 DEF ResolveClientTransport, IrohBindingSupportsProxy
  <2>4. CASE ProxyCheck = "fail"
    BY <1>1, <2>2, <2>3, <2>4 DEF EnvironmentFails
  <2>5. CASE ProxyCheck # "fail"
    <3>1. ProxyCheck = "ok" /\ ConfigureProxy("FromEnvironment") = "none" /\ ProxyUsable
      BY <1>5, <2>2, <2>5 DEF ProxyUsable
    <3>2. CASE CaSource = "unset" \/ ~IrohBindingSupportsCaTrust \/ CaSource = "unreadable"
      <4>1. CaTrustCheck = IF CaSource = "unset" THEN "ok" ELSE "warn"
        BY <1>5, <3>1, <3>2 DEF CaTrustCheck
      <4>2. /\ ResolveClientCaTrust.caTrust = "Disabled"
            /\ ResolveClientCaTrust.notice = "none" <=> CaSource = "unset"
        BY <2>3, <3>2 DEF ResolveClientCaTrust, ReadsCaFile
      <4>3. QED
        BY <1>1, <2>3, <3>1, <4>1, <4>2 DEF EnvironmentFails, ConfigureCaTrust
    <3>3. CASE CaSource \notin {"unset", "unreadable"} /\ IrohBindingSupportsCaTrust
      <4>1. CaTrustCheck = IF ConfigureCaTrust("ExtraRootsPem") = "none" THEN "ok" ELSE "fail"
        BY <1>5, <3>1, <3>3 DEF CaTrustCheck
      <4>2. ResolveClientCaTrust.notice = "none"
        BY <2>3, <3>3 DEF ResolveClientCaTrust, ReadsCaFile
      <4>3. ResolveClientCaTrust.caTrust = "ExtraRootsPem"
        <5>1. CaSource \in {"unset", "unreadable", "readable"}
          BY SettingsAssumption DEF CaSource
        <5>2. CaSource = "readable"
          BY <3>3, <5>1
        <5>3. QED
          BY <2>3, <3>3, <5>2 DEF ResolveClientCaTrust, ReadsCaFile
      <4>4. QED
        BY <1>1, <2>3, <3>1, <4>1, <4>2, <4>3 DEF EnvironmentFails
    <3>4. QED
      BY <3>2, <3>3
  <2>6. QED
    BY <2>4, <2>5
<1>6. QED
  BY <1>2, <1>3, <1>4, <1>5

\* What the doctor foretold, under every step of the command.
LEMMA ForetoldStep ==
  ASSUME Endpoints, FiberPlace, Foretold, TransportStep, UNCHANGED <<setting, diagnosisVars>>
  PROVE  Foretold'
<1>1. /\ side' = side /\ setting' = setting /\ doctor' = doctor /\ report' = report
      /\ EnvironmentFails' = EnvironmentFails
  BY SideStays, SameSetting DEF diagnosisVars, EnvironmentFails
<1>2. SUFFICES ASSUME side = "client"
               PROVE  /\ step' # "idle" => Resolved'
                      /\ failure' \in EnvironmentErrors => EnvironmentFails
                      /\ EnvironmentFails => \A b \in Binders : bind'[b] = NotBound
  BY <1>1, SameSetting DEF Foretold
<1>3. /\ step # "idle" => Resolved
      /\ failure \in EnvironmentErrors => EnvironmentFails
      /\ EnvironmentFails => \A b \in Binders : bind[b] = NotBound
      /\ setting \in Settings
  BY <1>2 DEF Foretold
<1>4. /\ attempt \in Binders /\ At(step, side, bind[attempt])
      /\ step \notin {"online", "address", "serving"}
  BY <1>2, BindersAssumption DEF FiberPlace, At
<1>5. step' # "idle" => Resolved'
  <2>1. CASE Resolve
    <3>1. /\ dialer' = ClientTransport
          /\ ResolveClientTransport' = ResolveClientTransport
          /\ ResolveClientCaTrust' = ResolveClientCaTrust
      BY <1>1, <2>1, SameSetting DEF Resolve
    <3>2. QED
      BY <3>1 DEF Resolved, ClientTransport
  <2>2. CASE ~Resolve
    <3>1. dialer' = dialer /\ (step = "idle" => step' = "idle")
      <4>1. CASE \E b \in Binders : BindingReturns(b)
        <5>1. PICK b \in Binders : BindingReturns(b)
          BY <4>1
        <5>2. bind[b].fiber = "waiting" => step # "idle"
          BY BindersAssumption DEF FiberPlace, At, NotBound
        <5>3. QED
          BY <5>1, <5>2 DEF BindingReturns, dialVars
      <4>2. CASE ~\E b \in Binders : BindingReturns(b)
        BY <1>2, <2>2, <4>2
           DEF TransportStep, FiberStep, Interrupt, LinkChanges, OnlineReturns, DialReturns,
               LateOnline, ServingEnds, LateDial, StreamOpens, StartServing, Attempt, Retry,
               ScopeEnds, AuthoritiesRead, EndpointCloses, DeadlineExceeded, OnlineDeadline,
               Publish, DialDeadline, StreamDeadline, dialVars, Stopping, NotBound, At
      <4>3. QED
        BY <4>1, <4>2
    <3>2. QED
      BY <1>1, <1>3, <3>1, SameSetting DEF Resolved
  <2>3. QED
    BY <2>1, <2>2
<1>6. ASSUME Attempt
      PROVE  /\ EnvironmentFails => bind' = bind
             /\ failure' \in EnvironmentErrors => EnvironmentFails
  <2>1. Resolved /\ bind[attempt] = NotBound
    BY <1>3, <1>4, <1>6 DEF Attempt, At
  <2>2. ConfigurationError = "none" => ~EnvironmentFails
    BY <1>3, <2>1, ChecksForetell DEF ConfigurationError
  <2>3. ConfigurationError \in EnvironmentErrors => EnvironmentFails
    BY <1>3, <2>1, ChecksForetell DEF ConfigurationError, EnvironmentErrors
  <2>4. CASE ConfigurationError = "none" /\ Bind
    BY <1>3, <2>2, <2>4 DEF Bind
  <2>5. CASE /\ UNCHANGED endpointVars
             /\ Ends(ConfigurationError)
    BY <2>3, <2>5 DEF Ends, endpointVars
  <2>6. QED
    BY <1>6, <2>4, <2>5 DEF Attempt
<1>7. failure' \in EnvironmentErrors => EnvironmentFails
  <2>1. ASSUME ~Attempt
        PROVE  \/ failure' = failure
               \/ failure' \notin EnvironmentErrors
    <3>1. CASE \E b \in Binders : BindingReturns(b)
      BY <3>1 DEF BindingReturns, Ends, Waits, EnvironmentErrors
    <3>2. CASE StartServing \/ Resolve \/ Retry \/ ScopeEnds \/ AuthoritiesRead
               \/ EndpointCloses \/ Interrupt \/ LinkChanges \/ DialDeadline
      BY <1>2, <3>2 DEF StartServing, Resolve, Retry, ScopeEnds, AuthoritiesRead,
                        EndpointCloses, Interrupt, LinkChanges, DialDeadline,
                        Ends, Closing, NoFailure, EnvironmentErrors
    <3>3. CASE DeadlineExceeded \/ DialReturns \/ LateDial \/ StreamOpens \/ StreamDeadline
      <4>1. \A r : Classify(r) \notin EnvironmentErrors
        BY DEF Classify, EnvironmentErrors
      <4>2. QED
        BY <1>2, <3>3, <4>1 DEF DeadlineExceeded, DialReturns, LateDial, StreamOpens,
                                StreamDeadline, Fails, Wins, EnvironmentErrors
    <3>4. CASE OnlineReturns \/ LateOnline \/ OnlineDeadline \/ Publish \/ ServingEnds
      BY <1>2, <1>4, <3>4 DEF OnlineReturns, LateOnline, OnlineDeadline, Publish, ServingEnds
    <3>5. QED
      BY <2>1, <3>1, <3>2, <3>3, <3>4 DEF TransportStep, FiberStep
  <2>2. QED
    BY <1>3, <1>6, <2>1
<1>8. EnvironmentFails => \A b \in Binders : bind'[b] = NotBound
  <2>1. SUFFICES ASSUME EnvironmentFails, ~Attempt, \A b \in Binders : bind[b] = NotBound
                 PROVE  \A b \in Binders : bind'[b] = NotBound
    BY <1>3, <1>6
  <2>2. bind[attempt].fiber = "none"
    BY <1>4, <2>1 DEF NotBound
  <2>3. step \notin {"bind", "dial", "open", "connected", "closing", "release"}
    BY <1>4, <2>2 DEF At, Owning
  <2>4. ASSUME NEW b \in Binders, BindingReturns(b) PROVE bind' = bind
    <3>1. bind[b].fiber # "waiting"
      BY <2>1 DEF NotBound
    <3>2. QED
      BY <2>4, <3>1, BinderResumes DEF BindingReturns, Endpoints
  <2>5. CASE \E b \in Binders : BindingReturns(b)
    BY <2>1, <2>4, <2>5
  <2>6. CASE ~\E b \in Binders : BindingReturns(b)
    <3>1. UNCHANGED bind
      BY <1>2, <1>4, <2>1, <2>2, <2>3, <2>6
         DEF TransportStep, FiberStep, Interrupt, LinkChanges, OnlineReturns, LateOnline,
             ServingEnds, DialReturns, LateDial, StreamOpens, StartServing, Resolve, Retry,
             ScopeEnds, AuthoritiesRead, EndpointCloses, DeadlineExceeded, OnlineDeadline,
             Publish, DialDeadline, StreamDeadline, endpointVars, NotBound
    <3>2. QED
      BY <2>1, <3>1
  <2>7. QED
    BY <2>5, <2>6
<1>9. QED
  BY <1>5, <1>7, <1>8

-----------------------------------------------------------------------------
(* The invariant.                                                          *)
\* What the command has learned stands while its fiber does not move.
LEMMA KnownKept ==
  ASSUME FiberPlace, Listening, Dialled, SameFibers, UNCHANGED transportVars
  PROVE  FiberPlace' /\ Listening' /\ Dialled'
<1>1. FiberPlace'
  BY PlaceKept
<1>2. Listening'
  <2>1. attempt \in Binders /\ bind'[attempt].told = bind[attempt].told
    BY BindersAssumption DEF FiberPlace, SameFibers
  <2>2. QED
    BY <2>1 DEF Listening, transportVars, listenVars, Normalize, ClosedUnderItsListener
<1>3. (\A b \in Binders : bind[b] = NotBound) => \A b \in Binders : bind'[b] = NotBound
  BY DEF SameFibers
<1>4. Dialled'
  <2>1. attempt \in Binders /\ bind'[attempt].told = bind[attempt].told
    BY BindersAssumption DEF FiberPlace, SameFibers
  <2>2. QED
    BY <1>3, <2>1, SameTarget DEF Dialled, Explained, transportVars, dialVars
<1>5. QED
  BY <1>1, <1>2, <1>4

\* So does what the doctor said of the setting, or says of it now.
LEMMA ForetoldKept ==
  ASSUME Foretold, SameFibers, UNCHANGED <<setting, transportVars>>,
         \/ UNCHANGED diagnosisVars
         \/ doctor' = "reported" =>
              /\ side = "client"
              /\ report'.proxy = ProxyCheck /\ report'.caTrust = CaTrustCheck
              /\ EnvironmentFails => report'.exitCode = 1
  PROVE  Foretold'
<1>1. /\ EnvironmentFails' = EnvironmentFails /\ Resolved' = Resolved
      /\ ProxyCheck' = ProxyCheck /\ CaTrustCheck' = CaTrustCheck
  BY SameSetting DEF EnvironmentFails, Resolved, transportVars, dialVars
<1>2. UNCHANGED <<side, step, failure, setting>>
  BY DEF transportVars
<1>3. (\A b \in Binders : bind[b] = NotBound) => \A b \in Binders : bind'[b] = NotBound
  BY DEF SameFibers
<1>4. doctor' = "reported" =>
        /\ side = "client"
        /\ report'.proxy = ProxyCheck /\ report'.caTrust = CaTrustCheck
        /\ EnvironmentFails => report'.exitCode = 1
  BY DEF Foretold, diagnosisVars
<1>5. QED
  BY <1>1, <1>2, <1>3, <1>4 DEF Foretold

\* A native call, a timer or a microtask takes a step.
LEMMA PassiveStep ==
  ASSUME IInv, \/ \E b \in Binders : NativeCall(b)
               \/ \E i \in Incoming : AcceptStep(i),
         UNCHANGED <<setting, transportVars, diagnosisVars>>
  PROVE  IInv'
<1>1. Endpoints' /\ SameFibers
  BY FibersStay DEF IInv
<1>2. FiberPlace' /\ Listening' /\ Dialled'
  BY <1>1, KnownKept DEF IInv
<1>3. Foretold'
  BY <1>1, ForetoldKept DEF IInv
<1>4. QED
  BY <1>1, <1>2, <1>3 DEF IInv

\* The doctor takes a step, or the network answers it.
LEMMA DoctorsStep ==
  ASSUME IInv, DoctorRuns PROVE IInv'
<1>1. /\ UNCHANGED <<setting, endpointVars, transportVars>>
      /\ side = "client" /\ SameFibers
  BY DEF DoctorRuns, endpointVars, SameFibers
<1>2. Endpoints'
  BY <1>1 DEF IInv, Endpoints, endpointVars, acceptVars, Queued, Quiet, AcceptTypes,
              HandshakeOf
<1>3. FiberPlace' /\ Listening' /\ Dialled'
  BY <1>1, KnownKept DEF IInv
<1>4. doctor' = "reported" =>
        /\ report'.proxy = ProxyCheck /\ report'.caTrust = CaTrustCheck
        /\ EnvironmentFails => report'.exitCode = 1
  <2>1. CASE Report
    <3>1. report' = [proxy |-> ProxyCheck, caTrust |-> CaTrustCheck,
                     exitCode |-> IF "fail" \in Statuses THEN 1 ELSE 0]
      BY <2>1 DEF Report
    <3>2. EnvironmentFails => "fail" \in Statuses
      BY DEF EnvironmentFails, Statuses
    <3>3. QED
      BY <3>1, <3>2
  <2>2. CASE ~Report
    <3>1. doctor' # "reported"
      BY <2>2 DEF DoctorRuns, DoctorStep, NetworkAnswers, StartDoctor, CaFileRead, StartProbes,
                  TimerFires, SendReturns, SocketAnswers, LookupReturns, Finish
    <3>2. QED
      BY <3>1
  <2>3. QED
    BY <2>1, <2>2
<1>5. Foretold'
  BY <1>1, <1>4, ForetoldKept DEF IInv
<1>6. QED
  BY <1>2, <1>3, <1>5 DEF IInv

\* A command starts where nothing was bound, learned or reported.
LEMMA Starts == Init => IInv
<1> SUFFICES ASSUME Init PROVE IInv
  OBVIOUS
<1>1. Endpoints
  BY DEF Init, TransportInit, EndpointInit, Endpoints, Queued, Quiet, AcceptTypes,
         HandshakeOf, Handshake, Call, BindState, NotBound, Settled, Awaited
<1>2. FiberPlace
  BY BindersAssumption
     DEF Init, TransportInit, EndpointInit, FiberPlace, At, Steps, Owning,
         MaximumConnectAttempts
<1>3. Listening
  BY DEF Init, TransportInit, EndpointInit, Listening
<1>4. Dialled
  BY DEF Init, TransportInit, Dialled, NoFailure
<1>5. Foretold
  BY DEF Init, TransportInit, EndpointInit, DiagnosisInit, Foretold, NoFailure,
         EnvironmentErrors
<1>6. QED
  BY <1>1, <1>2, <1>3, <1>4, <1>5 DEF IInv

\* No step of a command or of the doctor leaves the invariant.
LEMMA Keeps == IInv /\ [Next]_vars => IInv'
<1> SUFFICES ASSUME IInv, [Next]_vars PROVE IInv'
  OBVIOUS
<1>1. CASE UNCHANGED vars
  <2>1. UNCHANGED <<setting, endpointVars, transportVars, diagnosisVars>> /\ SameFibers
    BY <1>1 DEF vars, endpointVars, SameFibers
  <2>2. Endpoints'
    BY <2>1 DEF IInv, Endpoints, endpointVars, acceptVars, Queued, Quiet, AcceptTypes,
                HandshakeOf
  <2>3. FiberPlace' /\ Listening' /\ Dialled'
    BY <2>1, KnownKept DEF IInv
  <2>4. Foretold'
    BY <2>1, ForetoldKept DEF IInv
  <2>5. QED
    BY <2>2, <2>3, <2>4 DEF IInv
<1>2. CASE DoctorRuns
  BY <1>2, DoctorsStep
<1>3. CASE CommandRuns
  <2>1. UNCHANGED <<setting, diagnosisVars>>
    BY <1>3 DEF CommandRuns
  <2>2. CASE TransportStep
    BY <2>1, <2>2, PlaceStep, ListeningStep, DialledStep, ForetoldStep DEF IInv
  <2>3. CASE ~TransportStep
    <3>1. /\ UNCHANGED transportVars
          /\ \/ \E b \in Binders : NativeCall(b)
             \/ \E i \in Incoming : AcceptStep(i)
      BY <1>3, <2>3 DEF CommandRuns, TransportStep, Microtask, NativeStep, NativeCall,
                        AcceptStep
    <3>2. QED
      BY <2>1, <3>1, PassiveStep
  <2>4. QED
    BY <2>2, <2>3
<1>4. QED
  BY <1>1, <1>2, <1>3 DEF Next

\* The invariant holds of every command, whatever the network, the peers
\* and the native calls do.
THEOREM Invariance == Spec => []IInv
<1>1. Init => IInv
  BY Starts
<1>2. IInv /\ [Next]_vars => IInv'
  BY Keeps
<1>3. QED
  BY <1>1, <1>2, PTL DEF Spec

\* Between two tasks of the event loop, an open endpoint has a fiber that
\* will close it; the endpoint of a fiber that owns one is open unless a
\* deadline of that fiber told it to close; and none is closed by both sides
\* of the hand-over in acquireEndpoint.
THEOREM EndpointOwned == Spec => []EndpointIsOwned
<1>1. IInv => EndpointIsOwned
  <2> SUFFICES ASSUME IInv, NEW b \in Binders
               PROVE  /\ Quiet /\ bind[b].endpoint = "open" =>
                           bind[b].fiber \in {"owner", "closing"}
                      /\ bind[b].fiber = "owner" => bind[b].endpoint = "open" \/ bind[b].told
                      /\ bind[b].closes =< 1
    BY DEF EndpointIsOwned
  <2>1. bind[b] \in BindState /\ Call(bind[b], tasks, b)
    BY DEF IInv, Endpoints
  <2>2. CASE tasks \notin CallTasks(b)
    BY <2>1, <2>2 DEF Call, Settled, Awaited, Unwanted, ClosedOnce, NoEndpoint, NotBound
  <2>3. CASE tasks \in CallTasks(b)
    <3>1. /\ bind[b].fiber = "owner" => bind[b].endpoint = "open"
          /\ bind[b].closes =< 1
      BY <2>1, <2>3 DEF Call, CallTasks, Awaited, Unwanted, ClosedOnce, NoEndpoint
    <3>2. ~Quiet
      BY <2>3 DEF CallTasks, Quiet
    <3>3. QED
      BY <3>1, <3>2
  <2>4. QED
    BY <2>2, <2>3
<1>2. QED
  BY <1>1, Invariance, PTL

\* Between two tasks, an open connection belongs to an accept fiber that has
\* its stream or its session: one that came back after its deadline, or to a
\* bridge that is gone, was closed by acceptSession and is never served.
THEOREM NoOrphan == Spec => []NoOrphanConnection
<1>1. IInv => NoOrphanConnection
  <2> SUFFICES ASSUME IInv, NEW i \in Incoming
               PROVE  /\ Quiet /\ connection[i] = "open" => worker[i] \in {"stream", "session"}
                      /\ worker[i] \in {"stream", "session"} =>
                           connection[i] = "open" /\ ~expired[i]
    BY DEF NoOrphanConnection
  <2>1. Handshake(handshake[i], connection[i], expired[i], worker[i], tasks, i)
    BY DEF IInv, Endpoints, HandshakeOf
  <2>2. Quiet => tasks \notin AcceptTasks(i)
    BY DEF Quiet, AcceptTasks
  <2>3. CASE tasks \notin AcceptTasks(i)
    BY <2>1, <2>3 DEF Handshake
  <2>4. CASE tasks \in AcceptTasks(i)
    BY <2>1, <2>2, <2>4 DEF Handshake, AcceptTasks
  <2>5. QED
    BY <2>3, <2>4
<1>2. QED
  BY <1>1, Invariance, PTL

\* The locator that listen returns can be dialled: its endpoint is open and
\* was not told to close, but for the relay-only listener whose wait for the
\* relay came back during the close; a client that is not confined to relays
\* can use it as it stands, and it names a relay only where
\* endpoint.online() succeeded.
THEOREM LocatorDialable == Spec => []LocatorIsDialable
<1>1. IInv => LocatorIsDialable
  <2> SUFFICES ASSUME IInv, step = "serving" PROVE LocatorIsDialable
    BY DEF LocatorIsDialable
  <2>1. attempt \in Binders /\ bind[attempt].fiber = "owner"
    BY BindersAssumption DEF IInv, FiberPlace, At, Owning
  <2>2. bind[attempt].endpoint = "open" \/ bind[attempt].told
    BY <2>1 DEF IInv, Endpoints, Call, CallTasks, Settled, NotBound, Awaited, Unwanted,
                ClosedOnce
  <2>3. QED
    BY <2>1, <2>2 DEF IInv, Listening, LocatorIsDialable
<1>2. QED
  BY <1>1, Invariance, PTL

\* The reason a client gives for a connection that failed is what it saw of
\* its relay when classifyDialFailure asked, unless that was after a
\* deadline had told its endpoint to close (RelayVerdictIsTrue does not
\* hold); its key is only blamed before anything was bound, it gives up
\* after its second attempt only, and no connection outlives the command.
THEOREM VerdictTrue == Spec => []DialVerdictIsTrue
<1>1. IInv => DialVerdictIsTrue
  BY DEF IInv, Dialled, Explained, DialVerdictIsTrue
<1>2. QED
  BY <1>1, Invariance, PTL

\* What dumbridge doctor says of the proxy and the certificates is what a
\* client then meets: a check fails exactly where configureIrohProxy or
\* configureIrohCaTrust stops the client, before any endpoint is bound, and
\* warns exactly where clientTransport goes on without them and says so.
THEOREM DoctorTrue == Spec => []DoctorForetells
<1>1. IInv => DoctorForetells
  <2> SUFFICES ASSUME IInv, doctor = "reported", step \notin {"idle", "authorities", "attempt"}
               PROVE  DoctorForetells
    BY DEF DoctorForetells
  <2>1. /\ Resolved /\ setting \in Settings
        /\ report.proxy = ProxyCheck /\ report.caTrust = CaTrustCheck
        /\ EnvironmentFails => report.exitCode = 1
        /\ failure \in EnvironmentErrors => EnvironmentFails
        /\ EnvironmentFails => \A b \in Binders : bind[b] = NotBound
    BY DEF IInv, Foretold
  <2>2. /\ setting.builds => (ProxyCheck = "warn" <=> dialer.fallback)
        /\ ProxyCheck = "ok" => (CaTrustCheck = "warn" <=> dialer.notice # "none")
    BY <2>1, ChecksForetell
  <2>3. QED
    BY <2>1, <2>2 DEF DoctorForetells, EnvironmentFails, EnvironmentErrors
<1>2. QED
  BY <1>1, Invariance, PTL
=============================================================================
