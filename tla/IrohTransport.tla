--------------------------- MODULE IrohTransport ---------------------------
(***************************************************************************)
(* Listening and dialling: iroh/index.ts over the endpoints of             *)
(* IrohEndpoint, with what cli.ts and client.ts put around it.  A bridge   *)
(* binds, waits for its home relay, publishes a locator and accepts.  A    *)
(* client takes the locator from its key, binds an endpoint as its         *)
(* environment tells it, dials and opens a byte session; an attempt that   *)
(* failed to connect ends its scope, and is made again once.               *)
(*                                                                         *)
(* The fiber of the command runs alone; the native side goes on meanwhile: *)
(* the link to the relay comes and goes, and a call that ran into its      *)
(* deadline may still return, and win, while the fiber closes the          *)
(* endpoint.                                                               *)
(***************************************************************************)
EXTENDS IrohEndpoint, ClientEnvironment

VARIABLES
  side,          \* serve or client
  step,          \* where the fiber of the command is
  reachability,  \* serve: direct-only, relay-only or direct-or-relay
  locatorReachability,  \* serve: what its locator may name
  key,           \* client: the locator in its key
  dialer,        \* client: its transport, as resolved from the environment
  attempt,       \* the attempt under way, which is also its binder
  native,        \* the native call the fiber waits for: none, pending
  link,          \* the endpoint of the attempt has a link to a relay
  online,        \* serve: the wait for the home relay succeeded
  locator,       \* serve: the locator it published
  own,           \* client: its connection: none, open, closed
  failure        \* how the last attempt failed

listenVars == <<reachability, locatorReachability, online, locator>>
dialVars == <<key, dialer, own>>
transportVars == <<side, step, attempt, native, link, failure, listenVars, dialVars>>

MaximumConnectAttempts == 2
ASSUME BindersAssumption == Binders = 1..MaximumConnectAttempts

Addresses == [valid : BOOLEAN, relay : BOOLEAN, direct : BOOLEAN]
NoAddress == [valid |-> FALSE, relay |-> FALSE, direct |-> FALSE]
NoFailure == "none"
Unresolved == [proxy |-> "none", reachability |-> "none", fallback |-> FALSE,
               caTrust |-> "none", notice |-> "none"]

TransportInit ==
  /\ EndpointInit
  /\ side \in {"serve", "client"}
  /\ step = "idle"
  /\ reachability \in IF side = "serve" THEN {"direct-only", "relay-only", "direct-or-relay"}
                                        ELSE {"none"}
  /\ locatorReachability = reachability
  /\ key \in IF side = "client" THEN {a \in Addresses : a.valid} \cup {NoAddress}
                                ELSE {NoAddress}
  /\ dialer = Unresolved
  /\ attempt = 1
  /\ native = "none"
  /\ link = FALSE
  /\ online = FALSE
  /\ locator = NoAddress
  /\ own = "none"
  /\ failure = NoFailure

\* normalizeIrohAddress; NoAddress is the error.
Normalize(a, reach) ==
  IF ~a.valid THEN NoAddress
  ELSE CASE reach = "direct-only" -> [a EXCEPT !.valid = a.direct, !.relay = FALSE]
         [] reach = "relay-only" -> [a EXCEPT !.valid = a.relay, !.direct = FALSE]
         [] OTHER -> [a EXCEPT !.valid = a.relay \/ a.direct]

Target == Normalize(key, dialer.reachability)

\* The endpoint is built to use a relay.
MayUseRelay == IF side = "serve" THEN reachability # "direct-only" ELSE Target.relay

(***************************************************************************)
(* How an attempt ends.                                                    *)
(***************************************************************************)
DialErrors == {"peer-offline", "relay-unreachable"}
\* openSession makes a `connect' error of these, which retryConnect catches.
Retried == {"BridgeConnect", "BridgeDeadlineExceeded"} \cup DialErrors

\* The attempt has failed, and its scope has ended.
Ends(error) ==
  /\ failure' = error
  /\ step' = IF side = "client" /\ error \in Retried /\ attempt < MaximumConnectAttempts
             THEN "retry" ELSE "failed"
  /\ native' = "none"
  /\ UNCHANGED <<side, attempt, link, listenVars>>

\* The attempt has failed and its scope is still to end.
Fails(error) ==
  /\ failure' = error
  /\ step' = "release"
  /\ native' = "none"
  /\ UNCHANGED <<side, attempt, link, listenVars, endpointVars>>

Waits(s) == step' = s /\ native' = "pending"

ScopeEnds ==
  /\ Quiet /\ step = "release"
  /\ Release(attempt)
  /\ own' = IF own = "open" THEN "closed" ELSE own
  /\ Ends(failure)
  /\ UNCHANGED <<key, dialer>>

(***************************************************************************)
(* Until the endpoint is bound.                                            *)
(***************************************************************************)
Bind ==
  /\ bind' = [bind EXCEPT ![attempt] = Binding]
  /\ step' = "bind"
  /\ UNCHANGED <<tasks, acceptVars, side, attempt, native, link, failure, listenVars>>

StartServing ==
  /\ side = "serve" /\ step = "idle"
  /\ \/ setting.builds /\ Bind
     \/ /\ ~setting.builds
        /\ Ends("BridgeListen")
        /\ UNCHANGED endpointVars
  /\ UNCHANGED dialVars

\* clientTransport: with a certificate to read, the fiber waits for it.
ClientTransport ==
  LET transport == ResolveClientTransport
      authorities == ResolveClientCaTrust
  IN  [proxy |-> transport.proxy, reachability |-> transport.reachability,
       fallback |-> transport.fallback,
       caTrust |-> authorities.caTrust, notice |-> authorities.notice]
Resolve ==
  /\ side = "client" /\ step = "idle"
  /\ step' = IF ReadsCaFile THEN "authorities" ELSE "attempt"
  /\ dialer' = ClientTransport
  /\ UNCHANGED <<endpointVars, side, attempt, native, link, failure, listenVars, key, own>>
AuthoritiesRead ==
  /\ step = "authorities"
  /\ step' = "attempt"
  /\ UNCHANGED <<endpointVars, side, attempt, native, link, failure, listenVars, dialVars>>

\* The configuration of the builder, in the order of connect; what fails here
\* has no scope yet.
ConfigurationError ==
  IF ~Target.valid THEN "BridgeLocatorInvalid"
  ELSE IF ~setting.builds THEN "BridgeConnect"
  ELSE IF ConfigureProxy(dialer.proxy) # "none" THEN ConfigureProxy(dialer.proxy)
  ELSE ConfigureCaTrust(dialer.caTrust)
Attempt ==
  /\ step = "attempt"
  /\ \/ ConfigurationError = "none" /\ Bind
     \/ /\ ConfigurationError # "none"
        /\ Ends(ConfigurationError)
        /\ UNCHANGED endpointVars
  /\ UNCHANGED dialVars

\* retryConnect, after its sleep.
Retry ==
  /\ Quiet /\ step = "retry"
  /\ attempt' = attempt + 1
  /\ step' = "attempt"
  /\ link' = FALSE
  /\ own' = "none"
  /\ failure' = NoFailure
  /\ UNCHANGED <<endpointVars, side, native, listenVars, key, dialer>>

\* The binding fiber resumes: bound, it goes on; or the attempt has failed.
BindingReturns(b) ==
  /\ FiberResumes(b)
  /\ IF bind[b].fiber # "waiting"
     THEN UNCHANGED <<side, step, attempt, native, link, failure, listenVars>>
     ELSE \/ /\ bind'[b].fiber = "owner"
             /\ IF side = "client" THEN Waits("dial")
                ELSE IF reachability = "direct-only"
                THEN step' = "address" /\ UNCHANGED native
                ELSE Waits("online")
             /\ UNCHANGED <<side, attempt, link, failure, listenVars>>
          \/ /\ bind'[b].fiber = "failed"
             /\ Ends(IF bind[b].late THEN "BridgeDeadlineExceeded"
                     ELSE IF side = "client" THEN "BridgeConnect" ELSE "BridgeListen")
  /\ UNCHANGED dialVars

\* The relay's link comes and goes on the native side.
LinkChanges ==
  /\ Quiet /\ step \in {"online", "address", "dial", "closing"}
  /\ MayUseRelay /\ bind[attempt].endpoint = "open"
  /\ link' = ~link
  /\ UNCHANGED <<endpointVars, side, step, attempt, native, failure, listenVars, dialVars>>

(***************************************************************************)
(* withDeadline strikes: the fiber calls close() and waits for it before   *)
(* it fails.  It is a race: the native call goes on, and if it settles     *)
(* before the close returns, the fiber goes on with its result, and the    *)
(* close goes on without the fiber.                                        *)
(***************************************************************************)
Closing ==
  /\ bind' = [bind EXCEPT ![attempt].fiber = "closing", ![attempt].told = TRUE]
  /\ step' = "closing"
  /\ UNCHANGED <<tasks, acceptVars, side, attempt, native, link, failure>>

\* The native call wins the race.
Wins ==
  /\ bind' = [bind EXCEPT ![attempt].fiber = "owner"]
  /\ UNCHANGED <<tasks, acceptVars, side, attempt, link, failure>>

\* relayLinkObserved: an endpoint that was told to close may go on to
\* answer, or throw.
RelayLinkObserved(r) ==
  \/ r = link
  \/ bind[attempt].told /\ r = FALSE

\* Mutant: an endpoint that cannot be asked counts as linked.
ClassifyTrusting(observed) ==
  IF ~Target.relay THEN "BridgeDirectConnect"
  ELSE IF observed \/ bind[attempt].endpoint = "closed" THEN "peer-offline"
  ELSE "relay-unreachable"

\* classifyDialFailure.
Classify(observed) ==
  IF ~Target.relay THEN "BridgeDirectConnect"
  ELSE IF observed THEN "peer-offline" ELSE "relay-unreachable"

\* The close returns, whatever the fiber does by now: a connection goes with
\* the endpoint, and the native call that the fiber still waits for has lost.
EndpointCloses ==
  /\ Quiet /\ bind[attempt].told /\ bind[attempt].endpoint = "open"
  /\ bind' = [bind EXCEPT ![attempt].endpoint = "closed"]
  /\ own' = IF own = "open" THEN "closed" ELSE own
  /\ native' = IF step = "closing" THEN "none" ELSE native
  /\ UNCHANGED <<tasks, acceptVars, side, step, attempt, link, failure, listenVars, key,
                 dialer>>
DeadlineExceeded ==
  /\ step = "closing" /\ bind[attempt].endpoint = "closed"
  /\ \/ /\ side = "serve"
        /\ Fails("BridgeDeadlineExceeded")
     \/ /\ side = "client"
        /\ \E r \in BOOLEAN : RelayLinkObserved(r) /\ Fails(Classify(r))
  /\ UNCHANGED dialVars

(***************************************************************************)
(* listen.                                                                 *)
(***************************************************************************)
LocatorWithoutRelay == locatorReachability' = "direct-only"

\* endpoint.online() returns, or fails.
OnlineReturns ==
  /\ Quiet /\ step = "online" /\ native = "pending"
  /\ \/ /\ link
        /\ online' = TRUE
        /\ step' = "address" /\ native' = "none"
        /\ UNCHANGED <<endpointVars, side, attempt, link, failure, reachability,
                       locatorReachability, locator>>
     \/ /\ reachability = "relay-only"
        /\ Fails("BridgeListen")
     \/ /\ reachability = "direct-or-relay" /\ LocatorWithoutRelay
        /\ step' = "address" /\ native' = "none"
        /\ UNCHANGED <<endpointVars, side, attempt, link, failure, reachability, online,
                       locator>>
  /\ UNCHANGED dialVars

\* Mutant: the locator is made as if the relay had come.
OnlineDeadlineIgnored ==
  /\ Quiet /\ step = "online" /\ native = "pending"
  /\ step' = "address" /\ native' = "none"
  /\ UNCHANGED <<endpointVars, side, attempt, link, failure, listenVars, dialVars>>

\* It does so while the fiber closes the endpoint.
LateOnline ==
  /\ Quiet /\ side = "serve" /\ step = "closing" /\ native = "pending"
  /\ \/ /\ link
        /\ online' = TRUE
        /\ step' = "address" /\ native' = "none"
        /\ Wins /\ UNCHANGED <<reachability, locatorReachability, locator>>
     \/ Fails("BridgeListen")
  /\ UNCHANGED dialVars

\* A listener that may do without the relay goes on, and leaves it out of
\* its locator; one that may not closes its endpoint.
OnlineDeadline ==
  /\ Quiet /\ step = "online" /\ native = "pending"
  /\ \/ reachability = "relay-only" /\ Closing /\ UNCHANGED listenVars
     \/ /\ reachability = "direct-or-relay" /\ LocatorWithoutRelay
        /\ step' = "address" /\ native' = "none"
        /\ UNCHANGED <<endpointVars, side, attempt, link, failure, reachability, online,
                       locator>>
  /\ UNCHANGED dialVars

\* endpoint.addr() and its ticket, either of which may throw.
Publish ==
  /\ Quiet /\ step = "address"
  /\ \/ \E relay, direct \in BOOLEAN :
          LET a == Normalize([valid |-> TRUE, relay |-> relay, direct |-> direct],
                             locatorReachability)
          IN  /\ RelayLinkObserved(relay)
              /\ a.valid
              /\ locator' = a
              /\ step' = "serving"
              /\ UNCHANGED <<endpointVars, side, attempt, native, link, failure,
                             reachability, locatorReachability, online>>
     \/ Fails("BridgeListen")
  /\ UNCHANGED dialVars

\* acceptNext gives null once the endpoint was told to close, which ends
\* serve, as no other failure of an accept fiber does.
ServingEnds ==
  /\ Quiet /\ step = "serving" /\ bind[attempt].told
  /\ Fails("BridgeListenerClosed")
  /\ UNCHANGED dialVars

(***************************************************************************)
(* connect.                                                                *)
(***************************************************************************)
\* endpoint.connect returns in time.
DialReturns ==
  /\ Quiet /\ step = "dial" /\ native = "pending"
  /\ \/ /\ own' = "open"
        /\ Waits("open")
        /\ UNCHANGED <<endpointVars, side, attempt, link, failure, listenVars>>
     \/ /\ \E r \in BOOLEAN : RelayLinkObserved(r) /\ Fails(Classify(r))
        /\ UNCHANGED own
  /\ UNCHANGED <<key, dialer>>

DialDeadline ==
  /\ Quiet /\ step = "dial" /\ native = "pending"
  /\ Closing
  /\ UNCHANGED <<listenVars, dialVars>>

\* It returns while the fiber closes the endpoint: a connection, with which
\* the fiber goes on, or the failure of the dial.
LateDial ==
  /\ Quiet /\ side = "client" /\ step = "closing" /\ native = "pending"
  /\ \/ own' = "open" /\ Waits("open") /\ Wins /\ UNCHANGED listenVars
     \/ /\ \E r \in BOOLEAN : RelayLinkObserved(r) /\ Fails(Classify(r))
        /\ UNCHANGED own
  /\ UNCHANGED <<key, dialer>>

\* openBi returns, or fails, or runs into its deadline, which closes the
\* connection; so it does of a connection that its endpoint took with it.
StreamOpens ==
  /\ Quiet /\ step = "open" /\ native = "pending"
  /\ \/ /\ step' = "connected" /\ native' = "none"
        /\ UNCHANGED <<endpointVars, side, attempt, link, failure, listenVars, own>>
     \/ Fails("BridgeConnect") /\ UNCHANGED own
  /\ UNCHANGED <<key, dialer>>
StreamDeadline ==
  /\ Quiet /\ step = "open" /\ native = "pending"
  /\ own' = "closed"
  /\ Fails("BridgeDeadlineExceeded")
  /\ UNCHANGED <<key, dialer>>

(***************************************************************************)
(* The command is interrupted, by the user or by its own deadline; or the  *)
(* session it connected is over.  The end of a scope is not interruptible. *)
(***************************************************************************)
Stopping == {"authorities", "attempt", "bind", "online", "address", "serving", "dial", "open",
             "closing", "connected", "retry"}
Interrupt ==
  /\ step \in Stopping
  /\ step' = "gone" /\ native' = "none"
  /\ CASE bind[attempt].fiber = "waiting" -> InterruptBinding(attempt)
       [] bind[attempt].fiber \in {"owner", "closing"} -> Release(attempt)
       [] OTHER -> UNCHANGED endpointVars
  /\ own' = IF own = "open" THEN "closed" ELSE own
  /\ UNCHANGED <<side, attempt, link, failure, listenVars, key, dialer>>

\* What only the fiber, its timers and the microtasks do.
FiberStep ==
  \/ StartServing \/ Resolve \/ Attempt \/ Retry \/ ScopeEnds \/ AuthoritiesRead
  \/ EndpointCloses \/ DeadlineExceeded \/ OnlineDeadline \/ Publish \/ DialDeadline
  \/ StreamDeadline \/ \E b \in Binders : BindingReturns(b)
Microtask ==
  /\ \/ \E b \in Binders : Bound(b) \/ BindFailed(b) \/ LetGo(b) \/ BindDeadline(b)
     \/ \E i \in Incoming : Established(i) \/ WorkerResumes(i)
  /\ UNCHANGED transportVars
NativeStep ==
  \/ LinkChanges \/ OnlineReturns \/ LateOnline \/ ServingEnds
  \/ DialReturns \/ LateDial \/ StreamOpens
  \/ /\ \/ \E b \in Binders : NativeBinds(b)
        \/ \E i \in Incoming :
             \/ step = "serving" /\ Accept(i)
             \/ NativeConnects(i) \/ HandshakeDeadline(i) \/ RefusalReturns(i)
             \/ StreamReturns(i) \/ SessionEnds(i)
     /\ UNCHANGED transportVars

-----------------------------------------------------------------------------
\* The reason a client gives is what it saw, with one exception that
\* RelayVerdictIsTrue shows.  "The relay is reachable, so serve has likely
\* stopped" is only said by a client whose endpoint had its link to the
\* relay when the dial failed; "the relay could not be reached", only by one
\* that had not, unless a deadline had told the endpoint to close before it
\* was asked; a failed direct connection is reported as one only where no
\* relay was tried.  A client is told that its key is at fault only before
\* any endpoint was bound, and of a bridge that is unreachable only after a
\* second attempt, whose endpoint is another; and no connection outlives
\* the command that made it.
DialVerdictIsTrue ==
  side = "client" /\ step \in {"release", "retry", "failed", "gone"} =>
    /\ failure = "peer-offline" => link
    /\ failure = "relay-unreachable" => ~link \/ bind[attempt].told
    /\ failure = "BridgeDirectConnect" => ~Target.relay
    /\ failure = "BridgeLocatorInvalid" => \A b \in Binders : bind[b] = NotBound
    /\ step = "failed" /\ failure \in Retried => attempt = MaximumConnectAttempts
    /\ step # "release" => own # "open"

\* A dial that failed "with the link down" is what docs/design/v1.md says a
\* client means when it names the relay host that could not be reached.
RelayVerdictIsTrue ==
  side = "client" /\ step \in {"release", "retry", "failed", "gone"} =>
    (failure = "relay-unreachable" => ~link)

\* A relay-only listener whose home relay came when its deadline had begun
\* to close the endpoint: it publishes all the same, and serves until an
\* accept fiber finds the endpoint closed.
ClosedUnderItsListener ==
  reachability = "relay-only" /\ online /\ bind[attempt].told

\* A locator that was published can be dialled, but for that one listener:
\* the endpoint behind it is open and nobody told it to close.  Any client
\* may use it that is not confined to relays, and it names a relay only if
\* the wait for the home relay succeeded, so that nobody is sent to a relay
\* that the listener was not seen to reach.
LocatorIsDialable ==
  step = "serving" =>
    /\ bind[attempt].fiber = "owner"
    /\ (bind[attempt].endpoint = "open" /\ ~bind[attempt].told) \/ ClosedUnderItsListener
    /\ Normalize(locator, "direct-or-relay") = locator /\ locator.valid
    /\ locator.relay => online
=============================================================================
