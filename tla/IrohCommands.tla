---------------------------- MODULE IrohCommands ----------------------------
(***************************************************************************)
(* The commands that use the native transport: dumbridge serve; or, in an  *)
(* environment that does not change, dumbridge doctor and then run or pull *)
(* up to its session.                                                      *)
(***************************************************************************)
EXTENDS IrohTransport, Diagnosis

vars == <<setting, endpointVars, transportVars, diagnosisVars>>

Init ==
  /\ setting \in Settings
  /\ TransportInit
  /\ DiagnosisInit

\* A client may start without the doctor, and does not start while it runs.
DoctorRuns ==
  /\ side = "client" /\ step = "idle"
  /\ DoctorStep \/ NetworkAnswers
  /\ UNCHANGED <<setting, endpointVars, transportVars>>
CommandRuns ==
  /\ doctor \in {"idle", "reported"}
  /\ FiberStep \/ Microtask \/ NativeStep \/ Interrupt
  /\ UNCHANGED <<setting, diagnosisVars>>

Next == DoctorRuns \/ CommandRuns

Spec == Init /\ [][Next]_vars

\* Fibers, timers and microtasks run, a file is read, and a close returns.
\* Nothing is assumed of the network, the peer or the other native calls.
FairSpec ==
  /\ Spec
  /\ WF_vars(DoctorRuns /\ DoctorStep)
  /\ WF_vars(CommandRuns /\ FiberStep)
  /\ WF_vars(CommandRuns /\ Microtask)

-----------------------------------------------------------------------------
\* What the doctor says of the environment is what a client then meets in
\* it.  A check that fails means that no client gets as far as an endpoint;
\* a proxy or certificate that stops a client was reported, with an exit
\* code; a warning about the proxy means that the client goes round it and
\* says so; one about the certificate, that the client goes on without it
\* and says so.
DoctorForetells ==
  doctor = "reported" /\ step \notin {"idle", "authorities", "attempt"} =>
    /\ "fail" \in {report.proxy, report.caTrust} =>
         /\ report.exitCode = 1
         /\ \A b \in Binders : bind[b] = NotBound
    /\ failure \in {"BridgeProxyConfiguration", "BridgeProxyUnsupported",
                    "BridgeCaTrustConfiguration", "BridgeCaTrustUnsupported"} =>
         "fail" \in {report.proxy, report.caTrust}
    /\ setting.builds => (report.proxy = "warn" <=> dialer.fallback)
    /\ report.proxy = "ok" => (report.caTrust = "warn" <=> dialer.notice # "none")

\* Every command answers, whatever the network and the other side do, and
\* even if no native call but a close ever comes back: a bridge publishes
\* its locator or fails, a client has its session or a reason, a doctor
\* reports.
CommandsAnswer ==
  /\ <>(side = "serve" => step \in {"serving", "failed", "gone"})
  /\ <>(side = "client" => step \in {"connected", "failed", "gone"})
  /\ [](doctor # "idle" => <>(doctor = "reported"))
=============================================================================
