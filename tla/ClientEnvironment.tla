-------------------------- MODULE ClientEnvironment --------------------------
(***************************************************************************)
(* What the client makes of the environment it runs in, and what dumbridge *)
(* doctor says of it: proxy.ts, ca.ts, the resolution of cli.ts and the    *)
(* capability checks of diagnose.ts.  They read the same variables through *)
(* the same installed binding, each in its own order.                      *)
(*                                                                         *)
(* A setting is a record:                                                  *)
(*   proxies      the proxy variables in the order they are looked at, of  *)
(*                which the first is HTTP_PROXY: unset (or empty), invalid *)
(*                (no http URL with a host) or valid                    *)
(*   cgi          REQUEST_METHOD is set                                    *)
(*   authorities  the three variables that name a certificate file, in     *)
(*                order: unset, unreadable or readable                     *)
(*   builds       the binding makes an endpoint builder                    *)
(*   proxyUrl     the builder's method: absent, refuses or accepts         *)
(*   caRoots      the same of caExtraRootsPem                              *)
(***************************************************************************)
EXTENDS Naturals, Sequences

CONSTANT Settings      \* the settings that are considered

ASSUME SettingsAssumption ==
  \A s \in Settings : s.authorities \in [1..3 -> {"unset", "unreadable", "readable"}]

VARIABLE setting       \* the one the commands find; no command changes it

IrohBindingSupportsProxy == setting.builds /\ setting.proxyUrl # "absent"
IrohBindingSupportsCaTrust == setting.builds /\ setting.caRoots # "absent"

HasProxyEnvironment == \E k \in DOMAIN setting.proxies : setting.proxies[k] # "unset"

\* proxyUrlFromEnvironment succeeds; under CGI, HTTP_PROXY is not looked at.
ProxyUrlFound ==
  \E k \in DOMAIN setting.proxies : setting.proxies[k] = "valid" /\ (k = 1 => ~setting.cgi)

\* configureIrohProxy: nothing, or the error it fails with.
ConfigureProxy(proxy) ==
  IF proxy = "Disabled" THEN "none"
  ELSE IF setting.proxyUrl = "absent" THEN "BridgeProxyUnsupported"
  ELSE IF ~ProxyUrlFound \/ setting.proxyUrl = "refuses" THEN "BridgeProxyConfiguration"
  ELSE "none"

\* caTrustSourceFromEnvironment: the first variable that is set.
CaSource ==
  LET file == setting.authorities
  IN  IF file[1] # "unset" THEN file[1] ELSE IF file[2] # "unset" THEN file[2] ELSE file[3]

ConfigureCaTrust(caTrust) ==
  IF caTrust = "Disabled" THEN "none"
  ELSE IF setting.caRoots = "absent" THEN "BridgeCaTrustUnsupported"
  ELSE IF setting.caRoots = "refuses" THEN "BridgeCaTrustConfiguration"
  ELSE "none"

(***************************************************************************)
(* cli.ts: the transport of run and pull.                                  *)
(***************************************************************************)
\* Mutant: the binding is not asked whether it knows proxies.
ResolveClientTransportUnasked ==
  [proxy        |-> IF HasProxyEnvironment THEN "FromEnvironment" ELSE "Disabled",
   reachability |-> IF HasProxyEnvironment THEN "relay-only" ELSE "direct-or-relay",
   fallback     |-> FALSE]

ResolveClientTransport ==
  LET tunnels == HasProxyEnvironment /\ IrohBindingSupportsProxy
  IN  [proxy        |-> IF tunnels THEN "FromEnvironment" ELSE "Disabled",
       reachability |-> IF tunnels THEN "relay-only" ELSE "direct-or-relay",
       fallback     |-> HasProxyEnvironment /\ ~tunnels]

\* A certificate is looked for only where a proxy is to be used; notice is
\* the line of standard error that says the dial goes on without it.
ReadsCaFile ==
  /\ ResolveClientTransport.proxy = "FromEnvironment"
  /\ CaSource # "unset" /\ IrohBindingSupportsCaTrust
ResolveClientCaTrust ==
  [caTrust |-> IF ReadsCaFile /\ CaSource = "readable" THEN "ExtraRootsPem"
                                                             ELSE "Disabled",
   notice  |-> IF ResolveClientTransport.proxy # "FromEnvironment" \/ CaSource = "unset"
               THEN "none"
               ELSE IF ~IrohBindingSupportsCaTrust THEN "unsupported"
               ELSE IF CaSource = "unreadable" THEN "unreadable" ELSE "none"]

(***************************************************************************)
(* diagnose.ts: the checks of the doctor that need no network.             *)
(***************************************************************************)
ProxyCheck ==
  IF ~HasProxyEnvironment THEN "ok"
  ELSE IF ~setting.builds THEN "fail"
  ELSE CASE ConfigureProxy("FromEnvironment") = "none" -> "ok"
         [] ConfigureProxy("FromEnvironment") = "BridgeProxyConfiguration" -> "fail"
         [] OTHER -> "warn"

ProxyUsable == HasProxyEnvironment /\ ProxyCheck = "ok"

\* The doctor opens the certificate file too.
CaCheckReads ==
  ProxyUsable /\ CaSource # "unset" /\ IrohBindingSupportsCaTrust
CaTrustCheck ==
  IF ~ProxyUsable \/ CaSource = "unset" THEN "ok"
  ELSE IF ~setting.builds THEN "fail"
  ELSE IF ~IrohBindingSupportsCaTrust \/ CaSource = "unreadable" THEN "warn"
  ELSE IF ConfigureCaTrust("ExtraRootsPem") = "none" THEN "ok" ELSE "fail"
=============================================================================
