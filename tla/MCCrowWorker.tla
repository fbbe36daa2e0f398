---------------------------- MODULE MCCrowWorker ----------------------------
(***************************************************************************)
(* Instances of CrowWorker for TLC: three of the server's URLs, one client *)
(* that sends what the answers turn on, two that matter for the timer.     *)
(***************************************************************************)
EXTENDS CrowWorker, TLC

CONSTANTS c1, c2, c3

\* /api/zones, /api/zones/1 and a URL without a route (Server.cpp:376-396).
ServerRoutes == [ zones |-> {"GET", "POST"}, zone |-> {"GET"}, nowhere |-> {} ]

UrlPrefixes == [ zones |-> {"nowhere"}, zone |-> {"zones", "nowhere"}, nowhere |-> {"zones"} ]

R(method, url, host, expect, close) ==
    [method |-> method, url |-> url, host |-> host, expect |-> expect, close |-> close]

Plain == R("GET", "zone", TRUE, FALSE, FALSE)

Varied ==
    { Plain,
      R("GET", "zones", TRUE, FALSE, TRUE),
      R("POST", "zones", TRUE, TRUE, FALSE),
      R("POST", "zone", TRUE, TRUE, FALSE),
      R("POST", "zone", TRUE, FALSE, FALSE),
      R("GET", "nowhere", TRUE, FALSE, FALSE),
      R("GET", "zone", FALSE, FALSE, FALSE),
      R("HEAD", "zone", TRUE, FALSE, FALSE),
      R("HEAD", "zone", FALSE, FALSE, FALSE),
      R("HEAD", "nowhere", TRUE, FALSE, FALSE),
      R("OPTIONS", "nowhere", TRUE, FALSE, FALSE),
      R("OPTIONS", "zone", TRUE, FALSE, FALSE) }

MixedClients == (c1 :> Varied) @@ (c2 :> {}) @@ (c3 :> {})

FewRequests == (c1 :> 2) @@ (c2 :> 0) @@ (c3 :> 0)

=============================================================================
