--------------------------- MODULE MCIrohCommands ---------------------------
(***************************************************************************)
(* Environments in which each check and each way of configuring a client   *)
(* matters; two relay hosts; two incoming connections for one accept fiber *)
(* and one more.                                                           *)
(***************************************************************************)
EXTENDS IrohCommands

Plain == [proxies |-> <<"unset", "unset">>, cgi |-> FALSE,
          authorities |-> <<"unset", "unset", "unset">>, builds |-> TRUE,
          proxyUrl |-> "accepts", caRoots |-> "accepts"]
Proxied == [Plain EXCEPT !.proxies = <<"valid", "unset">>]
Trusting == [Proxied EXCEPT !.authorities = <<"unset", "readable", "unset">>]

MCSettings ==
  { Plain,
    [Plain EXCEPT !.builds = FALSE],
    Proxied,
    [Proxied EXCEPT !.builds = FALSE],
    [Proxied EXCEPT !.cgi = TRUE],
    [Proxied EXCEPT !.cgi = TRUE, !.proxies[2] = "valid"],
    [Plain EXCEPT !.proxies = <<"invalid", "valid">>],
    [Plain EXCEPT !.proxies[2] = "invalid", !.authorities[3] = "readable"],
    [Trusting EXCEPT !.proxyUrl = "absent"],
    [Proxied EXCEPT !.proxyUrl = "refuses"],
    Trusting,
    [Trusting EXCEPT !.authorities[1] = "unreadable"],
    [Trusting EXCEPT !.caRoots = "absent"],
    [Trusting EXCEPT !.caRoots = "refuses"],
    [Plain EXCEPT !.authorities[1] = "readable"] }
MCBinders == 1..2
=============================================================================
