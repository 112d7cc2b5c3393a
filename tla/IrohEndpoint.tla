---------------------------- MODULE IrohEndpoint ----------------------------
(***************************************************************************)
(* Who closes what the native transport opens: endpoint.ts and the accept  *)
(* half of iroh/session.ts.  A bridge binds one endpoint and accepts       *)
(* connections on it; a client binds one for each attempt to connect.      *)
(* Binding and handshakes are native calls that cannot be cancelled: they  *)
(* may come back after their deadline, after the fiber that asked for them *)
(* was interrupted, or in between two microtasks of the hand-over.         *)
(* Whatever comes back must end up either with a fiber that closes it in   *)
(* its scope, or closed.                                                   *)
(*                                                                         *)
(* A native call and a timer come to the event loop as a task of their     *)
(* own, when the queue of microtasks is empty; an interruption may also    *)
(* come from a microtask of another fiber, at any time.  IrohTransport     *)
(* says what the fiber does with the endpoint it gets.                     *)
(***************************************************************************)
EXTENDS Naturals, Sequences, FiniteSets

CONSTANTS
  Binders,       \* the calls of bindEndpoint: one for each attempt
  Incoming,      \* the connections that peers open
  MaxWorkers     \* accept fibers of the server

ASSUME WorkersAssumption == MaxWorkers \in Nat

VARIABLES
  tasks,         \* the microtasks queued, oldest first
  bind,          \* binder -> its call of bindEndpoint, see NotBound
  handshake,     \* incoming -> none, pending, settled
  connection,    \* incoming -> none, open, closed
  expired,       \* incoming -> handshakeExpired
  worker         \* incoming -> its accept fiber: none, handshake, refusing,
                 \*             stream, session, ended

acceptVars == <<handshake, connection, expired, worker>>
endpointVars == <<tasks, bind, acceptVars>>

NotBound ==
  [call      |-> "none",     \* builder.bind(): none, pending, bound, failed
   endpoint  |-> "none",     \* the endpoint it made: none, open, closed
   closes    |-> 0,          \* how often abandon or the scope closed it
   kept      |-> FALSE,      \* boundEndpoint is set
   abandoned |-> FALSE,      \* the flag `abandoned'
   listening |-> FALSE,      \* abandon listens for the abort of the signal
   timer     |-> "clear",    \* the deadline of the binding: armed, clear
   late      |-> FALSE,      \* the promise was rejected by the deadline
   told      |-> FALSE,      \* a deadline of its fiber has called close()
   fiber     |-> "none"]     \* the fiber that binds: none, waiting, owner,
                             \* closing (it runs into a deadline and waits
                             \* for the close), failed, gone

EndpointInit ==
  /\ tasks = << >>
  /\ bind = [b \in Binders |-> NotBound]
  /\ handshake = [i \in Incoming |-> "none"]
  /\ connection = [i \in Incoming |-> "none"]
  /\ expired = [i \in Incoming |-> FALSE]
  /\ worker = [i \in Incoming |-> "none"]

Quiet == tasks = << >>
Task(t) == tasks # << >> /\ Head(tasks) = t
Then(ts) == tasks' = Tail(tasks) \o ts

(***************************************************************************)
(* bindEndpoint and acquireEndpoint.                                       *)
(***************************************************************************)
\* The state of the promise as bindEndpoint returns it.
Binding ==
  [NotBound EXCEPT !.call = "pending", !.listening = TRUE, !.timer = "armed",
                   !.fiber = "waiting"]

\* Nobody waits for the endpoint any more: the deadline has struck, or the
\* fiber was interrupted while it waited, which aborts the signal.
TooLate(b) == bind[b].abandoned \/ bind[b].fiber = "gone"

\* abandon, which closes the endpoint if the program has it.
Abandon(r) ==
  [r EXCEPT !.abandoned = TRUE, !.timer = "clear", !.kept = FALSE,
            !.endpoint = IF r.kept THEN "closed" ELSE @,
            !.closes = IF r.kept THEN @ + 1 ELSE @]

NativeBinds(b) ==
  /\ Quiet /\ bind[b].call = "pending"
  /\ \/ /\ bind' = [bind EXCEPT ![b].call = "bound", ![b].endpoint = "open"]
        /\ tasks' = <<<<"bound", b>>>>
     \/ /\ bind' = [bind EXCEPT ![b].call = "failed"]
        /\ tasks' = <<<<"bindFailed", b>>>>
  /\ UNCHANGED acceptVars

\* Mutant: nobody looks after an endpoint that comes too late.
BoundTooLate(b) ==
  /\ Task(<<"bound", b>>)
  /\ IF TooLate(b)
     THEN UNCHANGED bind /\ Then(<< >>)
     ELSE /\ bind' = [bind EXCEPT ![b].kept = TRUE, ![b].timer = "clear"]
          /\ Then(<<<<"resume", b>>, <<"letGo", b>>>>)
  /\ UNCHANGED acceptVars

\* The first callback of binding.then: too late, or the promise is resolved,
\* the fiber resumes one microtask later and the endpoint is let go of in
\* the microtask after that.
Bound(b) ==
  /\ Task(<<"bound", b>>)
  /\ \/ /\ TooLate(b)
        /\ bind' = [bind EXCEPT ![b] = Abandon([@ EXCEPT !.kept = TRUE])]
        /\ Then(<< >>)
     \/ /\ ~TooLate(b)
        /\ bind' = [bind EXCEPT ![b].kept = TRUE, ![b].timer = "clear"]
        /\ Then(<<<<"resume", b>>, <<"letGo", b>>>>)
  /\ UNCHANGED acceptVars

\* The second callback.
BindFailed(b) ==
  /\ Task(<<"bindFailed", b>>)
  /\ IF TooLate(b)
     THEN UNCHANGED bind /\ Then(<< >>)
     ELSE /\ bind' = [bind EXCEPT ![b].timer = "clear", ![b].listening = FALSE]
          /\ Then(<<<<"reject", b>>>>)
  /\ UNCHANGED acceptVars

\* The deadline of the binding.
BindDeadline(b) ==
  /\ Quiet /\ bind[b].timer = "armed"
  /\ bind' = [bind EXCEPT ![b].timer = "clear", ![b].abandoned = TRUE,
                          ![b].late = TRUE, ![b].listening = FALSE]
  /\ tasks' = <<<<"reject", b>>>>
  /\ UNCHANGED acceptVars

\* The fiber resumes: with the endpoint, whose release is registered in the
\* same run of the fiber, or with the failure.
FiberResumes(b) ==
  /\ \/ /\ Task(<<"resume", b>>)
        /\ bind' = [bind EXCEPT ![b].fiber = IF @ = "waiting" THEN "owner" ELSE @]
     \/ /\ Task(<<"reject", b>>)
        /\ bind' = [bind EXCEPT ![b].fiber = IF @ = "waiting" THEN "failed" ELSE @]
  /\ Then(<< >>)
  /\ UNCHANGED acceptVars

LetGo(b) ==
  /\ Task(<<"letGo", b>>)
  /\ bind' = [bind EXCEPT ![b].kept = FALSE, ![b].listening = FALSE]
  /\ Then(<< >>)
  /\ UNCHANGED acceptVars

\* The scope of a fiber that owns an endpoint ends: it closes the endpoint.
\* The accept fibers end before, each closing the connection it has; the
\* endpoint takes handshakes that are under way with it.
Release(b) ==
  /\ bind[b].fiber \in {"owner", "closing"}
  /\ bind' = [bind EXCEPT ![b].fiber = "gone", ![b].endpoint = "closed",
                          ![b].closes = @ + 1]
  /\ connection' = [i \in Incoming |->
       IF connection[i] = "open" THEN "closed" ELSE connection[i]]
  /\ handshake' = [i \in Incoming |->
       IF handshake[i] = "pending" THEN "settled" ELSE handshake[i]]
  /\ worker' = [i \in Incoming |->
       IF worker[i] = "none" THEN "none" ELSE "ended"]
  /\ UNCHANGED <<tasks, expired>>

\* The command is interrupted.  A fiber that waits leaves at once, and the
\* abort reaches abandon while it listens.
InterruptBinding(b) ==
  /\ bind[b].fiber = "waiting"
  /\ bind' = [bind EXCEPT ![b] =
       [IF @.listening THEN Abandon(@) ELSE @ EXCEPT !.fiber = "gone"]]
  /\ UNCHANGED <<tasks, acceptVars>>

\* acceptNext gives nothing more once the endpoint was told to close.
OwnsEndpoint == \E b \in Binders : bind[b].fiber = "owner" /\ ~bind[b].told

(***************************************************************************)
(* acceptSession.                                                          *)
(***************************************************************************)
Busy == {i \in Incoming : worker[i] \in {"handshake", "refusing", "stream", "session"}}

Accept(i) ==
  /\ Quiet /\ OwnsEndpoint
  /\ worker[i] = "none"
  /\ Cardinality(Busy) < MaxWorkers
  /\ worker' = [worker EXCEPT ![i] = "handshake"]
  /\ handshake' = [handshake EXCEPT ![i] = "pending"]
  /\ UNCHANGED <<tasks, bind, connection, expired>>

\* incoming.accept and connect come back, with a connection or without.
NativeConnects(i) ==
  /\ Quiet /\ handshake[i] = "pending"
  /\ handshake' = [handshake EXCEPT ![i] = "settled"]
  /\ \/ /\ connection' = [connection EXCEPT ![i] = "open"]
        /\ tasks' = <<<<"established", i>>>>
     \/ /\ UNCHANGED connection
        /\ tasks' = <<<<"refused", i>>>>
  /\ UNCHANGED <<bind, expired, worker>>

Close(i) ==
  connection' = [connection EXCEPT ![i] = IF @ = "open" THEN "closed" ELSE @]

\* The rest of the async function: an expired handshake is closed here.
Established(i) ==
  /\ Task(<<"established", i>>)
  /\ IF expired[i]
     THEN Close(i) /\ Then(<<<<"refused", i>>>>)
     ELSE UNCHANGED connection /\ Then(<<<<"connected", i>>>>)
  /\ UNCHANGED <<bind, handshake, expired, worker>>

\* The accept fiber resumes: it owns the connection, or has failed.
WorkerResumes(i) ==
  /\ \/ /\ Task(<<"connected", i>>)
        /\ worker' = [worker EXCEPT ![i] = IF @ = "handshake" THEN "stream" ELSE @]
     \/ /\ Task(<<"refused", i>>)
        /\ worker' = [worker EXCEPT ![i] =
             IF @ \in {"handshake", "refusing"} THEN "ended" ELSE @]
  /\ Then(<< >>)
  /\ UNCHANGED <<bind, handshake, connection, expired>>

\* Mutant: the incoming is refused, and nothing remembered.
HandshakeDeadlineForgotten(i) ==
  /\ Quiet /\ worker[i] = "handshake"
  /\ worker' = [worker EXCEPT ![i] = "refusing"]
  /\ UNCHANGED <<tasks, bind, handshake, connection, expired>>

\* The accept deadline in the handshake: the flag first, then the refusal,
\* for which the fiber waits.
HandshakeDeadline(i) ==
  /\ Quiet /\ worker[i] = "handshake"
  /\ expired' = [expired EXCEPT ![i] = TRUE]
  /\ worker' = [worker EXCEPT ![i] = "refusing"]
  /\ UNCHANGED <<tasks, bind, handshake, connection>>

RefusalReturns(i) ==
  /\ Quiet /\ worker[i] = "refusing"
  /\ worker' = [worker EXCEPT ![i] = "ended"]
  /\ UNCHANGED <<tasks, bind, handshake, connection, expired>>

\* acceptBi returns, or fails or takes too long: the scope of the accept
\* fiber closes the connection.
StreamReturns(i) ==
  /\ Quiet /\ worker[i] = "stream"
  /\ \/ worker' = [worker EXCEPT ![i] = "session"] /\ UNCHANGED connection
     \/ worker' = [worker EXCEPT ![i] = "ended"] /\ Close(i)
  /\ UNCHANGED <<tasks, bind, handshake, expired>>

SessionEnds(i) ==
  /\ Quiet /\ worker[i] = "session"
  /\ worker' = [worker EXCEPT ![i] = "ended"]
  /\ Close(i)
  /\ UNCHANGED <<tasks, bind, handshake, expired>>

-----------------------------------------------------------------------------
\* Between two tasks of the event loop an open endpoint has its owner: one
\* that was bound after the deadline, or as the command was interrupted, is
\* closed, whichever microtask of the hand-over the interruption preceded,
\* and while the next attempt of the command binds its own.  And never do
\* both sides of the hand-over close: the endpoint of a fiber that owns it
\* is open unless a deadline of that fiber told it to close, and closed once
\* at the most by abandon or by the fiber's scope.
EndpointIsOwned ==
  \A b \in Binders :
    /\ Quiet /\ bind[b].endpoint = "open" => bind[b].fiber \in {"owner", "closing"}
    /\ bind[b].fiber = "owner" => bind[b].endpoint = "open" \/ bind[b].told
    /\ bind[b].closes =< 1

\* Between two tasks an open connection belongs to a worker: a handshake
\* that came back after its deadline, or to a bridge that is gone, is closed
\* and never served.
NoOrphanConnection ==
  \A i \in Incoming :
    /\ Quiet /\ connection[i] = "open" => worker[i] \in {"stream", "session"}
    /\ worker[i] \in {"stream", "session"} => connection[i] = "open" /\ ~expired[i]
=============================================================================
