------------------------------ MODULE MCGateway ------------------------------
(* Small instances of Gateway for TLC. *)
EXTENDS GatewayLedger, TLC

CONSTANTS sA, sB, h1, h2, k1, k2, kb

Symmetric == Permutations(Request)

Site(hosts, tokenTTL, challengeTTL, rateLimit, bind) ==
    [hosts |-> hosts, tokenTTL |-> tokenTTL, challengeTTL |-> challengeTTL,
     rateLimit |-> rateLimit, bind |-> bind]

OneSite == sA :> Site({h1}, 1, 1, 9, TRUE)
OpenSite == sA :> Site({h1}, 1, 1, 9, FALSE)
TwoSites == OneSite @@ (sB :> Site({h1, h2}, 1, 1, 9, FALSE))
LimitedSite == sA :> Site({h1}, 1, 1, 1, TRUE)

OneRing == {[active |-> k1, previous |-> {}, binding |-> kb]}
Rotation == {[active |-> k1, previous |-> {}, binding |-> kb],
             [active |-> k2, previous |-> {k1}, binding |-> kb]}

=============================================================================
