---------------------------- MODULE GatewayLedger ----------------------------
(***************************************************************************)
(* The gateway implements the ledger of proofs: the refinement mapping.    *)
(***************************************************************************)
EXTENDS Gateway

Issued == {i \in Request : pc[i] \in {"challenge-issued", "token-issued"}}
Owed == {ref[r] : r \in {s \in Request : pc[s] = "mint"}}
Origin == [t \in DOMAIN tokens |-> ref[t]]
Expired == {t \in DOMAIN tokens : Expiry(t) < now}

Ledger == INSTANCE ProofLedger WITH
    issued  <- Issued,
    open    <- DOMAIN challenges,
    owed    <- Owed,
    origin  <- Origin,
    used    <- DOMAIN spent,
    expired <- Expired

\* Every behaviour of the gateway -- any number of handlers cut anywhere, collections,
\* restarts -- is one of the ledger: an offer is redeemed at most once and never comes
\* back, and a token is honoured once until it expires or the process is restarted.
KeepsLedger == Ledger!Spec

=============================================================================
