----------------------------- MODULE Diagnosis -----------------------------
(***************************************************************************)
(* dumbridge doctor: iroh/diagnose.ts and runDoctor of cli.ts.  Its probes *)
(* of the network run side by side.  Each is a native call with a timer of *)
(* its own, and whichever comes second finds the probe settled: a lookup   *)
(* may answer after its timer, and the callback of a datagram's sending    *)
(* after the socket was closed.                                            *)
(***************************************************************************)
EXTENDS ClientEnvironment, FiniteSets

CONSTANT RelayHosts    \* the hosts of the binding's default relay map

ASSUME HostsAssumption == IsFiniteSet(RelayHosts)

VARIABLES
  doctor,      \* idle, authorities (it reads a certificate file), probing,
               \* reported, crashed
  hosts,       \* the relay hosts it probes: none if the map is unreadable
  probe,       \* probe -> its state, see Unprobed
  report       \* of its report, the checks of the environment and the exit code

diagnosisVars == <<doctor, hosts, probe, report>>

Probes == {"dns", "tcp"} \X RelayHosts \cup {<<"udp">>}
Unprobed ==
  [socket |-> "none",       \* the socket or, for a lookup, the call: none, open, closed
   timer  |-> "clear",
   sent   |-> TRUE,         \* the callback of socket.send came back
   result |-> "none"]       \* none, ok, failed
NoReport == [proxy |-> "none", caTrust |-> "none", exitCode |-> 0]

DiagnosisInit ==
  /\ doctor = "idle"
  /\ hosts \in {{}, RelayHosts}
  /\ probe = [p \in Probes |-> Unprobed]
  /\ report = NoReport

ToProbe == {p \in Probes : p # <<"udp">> => p[2] \in hosts}

\* All probes start in one run of the fiber.
StartProbes ==
  /\ doctor' = "probing"
  /\ probe' = [p \in Probes |->
       IF p \in ToProbe
       THEN [Unprobed EXCEPT !.socket = "open", !.timer = "armed", !.sent = p # <<"udp">>]
       ELSE Unprobed]
  /\ UNCHANGED <<hosts, report>>

\* diagnoseHostIrohEnvironment: the proxy check, and the certificate check
\* up to the reading of the file.
StartDoctor ==
  /\ doctor = "idle"
  /\ \/ CaCheckReads /\ doctor' = "authorities" /\ UNCHANGED <<hosts, probe, report>>
     \/ ~CaCheckReads /\ StartProbes

CaFileRead == doctor = "authorities" /\ StartProbes

\* Mutant: finish does not look whether the probe has settled.
FinishAgain(p, r, result) ==
  IF p = <<"udp">> /\ r.socket = "closed"
  THEN doctor' = "crashed" /\ UNCHANGED probe
  ELSE /\ probe' = [probe EXCEPT ![p] =
            [r EXCEPT !.result = result, !.timer = "clear", !.socket = "closed"]]
       /\ UNCHANGED doctor

\* finish, with r the probe as it is now: the first event settles the probe,
\* stops its timer and closes its socket (to close the socket of a datagram
\* twice would throw); all later ones are ignored.
Finish(p, r, result) ==
  /\ probe' = [probe EXCEPT ![p] =
       IF r.result # "none" THEN r
       ELSE [r EXCEPT !.result = result, !.timer = "clear", !.socket = "closed"]]
  /\ UNCHANGED doctor

\* A connection, a reply or an error comes while the socket is open.
SocketAnswers(p) ==
  /\ doctor = "probing" /\ p[1] # "dns" /\ probe[p].socket = "open"
  /\ \E result \in {"ok", "failed"} : Finish(p, probe[p], result)
  /\ UNCHANGED <<hosts, report>>

\* The callback of socket.send, which may come after the socket was closed:
\* an error finishes, a success only lets the probe wait for its reply.
SendReturns ==
  LET p == <<"udp">>
      r == [probe[p] EXCEPT !.sent = TRUE]
  IN  /\ doctor = "probing" /\ ~probe[p].sent
      /\ \/ Finish(p, r, "failed")
         \/ probe' = [probe EXCEPT ![p] = r] /\ UNCHANGED doctor
      /\ UNCHANGED <<hosts, report>>

\* run.then of settleWithin: it cannot be cancelled, and comes even after
\* the timer has rejected.
LookupReturns(p) ==
  /\ doctor = "probing" /\ p[1] = "dns" /\ probe[p].socket = "open"
  /\ \E result \in {"ok", "failed"} :
       probe' = [probe EXCEPT ![p].socket = "closed", ![p].timer = "clear",
                              ![p].result = IF @ = "none" THEN result ELSE @]
  /\ UNCHANGED <<doctor, hosts, report>>

TimerFires(p) ==
  /\ doctor = "probing" /\ probe[p].timer = "armed"
  /\ \/ p[1] = "dns" /\ UNCHANGED doctor
        /\ probe' = [probe EXCEPT ![p].timer = "clear", ![p].result = "failed"]
     \/ p[1] # "dns" /\ Finish(p, probe[p], "failed")
  /\ UNCHANGED <<hosts, report>>

\* partitionHosts and the verdict on it, which dnsCheck and relayCheck share.
Reached(kind) == {h \in hosts : probe[<<kind, h>>].result = "ok"}
HostsCheck(kind) ==
  IF hosts = {} THEN "fail"
  ELSE IF Reached(kind) = hosts THEN "ok"
  ELSE IF Reached(kind) # {} \/ ProxyUsable THEN "warn" ELSE "fail"
UdpCheck == IF probe[<<"udp">>].result = "ok" THEN "ok" ELSE "warn"

\* The five checks together.
Statuses == {HostsCheck("dns"), UdpCheck, HostsCheck("tcp"), ProxyCheck, CaTrustCheck}

\* runDoctor; the process ends, and the probes with it.
Report ==
  /\ doctor = "probing"
  /\ \A p \in ToProbe : probe[p].result # "none"
  /\ doctor' = "reported"
  /\ report' = [proxy |-> ProxyCheck, caTrust |-> CaTrustCheck,
                exitCode |-> IF "fail" \in Statuses THEN 1 ELSE 0]
  /\ probe' = [p \in Probes |-> Unprobed]
  /\ UNCHANGED hosts

DoctorStep == StartDoctor \/ CaFileRead \/ Report \/ \E p \in Probes : TimerFires(p)
NetworkAnswers ==
  SendReturns \/ \E p \in Probes : SocketAnswers(p) \/ LookupReturns(p)
=============================================================================
