------------------------------ MODULE Deployment ------------------------------
(***************************************************************************)
(* The gateway's process (services/gateway/main.go) over time, under an    *)
(* operator who edits its environment as docs/OPERATIONS.md says, with the *)
(* tokens of honest visits that were issued and not yet verified.          *)
(***************************************************************************)
EXTENDS Configuration, FiniteSets

CONSTANTS
    Environments,  \* the environments an operator may start from
    Visits,        \* visits to pages of the sites
    NewKeys,       \* signing keys to rotate to: [kid, secret]
    Edge,          \* the address of the trusted reverse proxy
    MaxRotations,  \* bound on rotations
    MaxTokens      \* bound on tokens in circulation

\* A visit is honest: the browser's Origin and the backend name the page's host, in a
\* spelling of their own; the backend sends the address it saw, which the edge overwrites
\* its visitors' headers with, while proxies of the visitors' own write what they like.
ASSUME VisitsAssumption ==
    \A v \in Visits :
        /\ v.expected.labels = v.page.labels
        /\ \A o \in v.origin : o.labels = v.page.labels
        /\ Parses(v.address)
        /\ IF v.route.peer = Edge THEN Named(v.route) = {v.address}
                                    ELSE v.route.peer = v.address

\* docs/OPERATIONS.md: "configure only real reverse-proxy CIDRs as trusted".
ASSUME EnvironmentsAssumption ==
    \A e \in Environments : IsEnvironment(e) /\ e.trusted = {Edge}

ASSUME BoundsAssumption == MaxRotations \in Nat /\ MaxTokens \in Nat

VARIABLES
    settings,   \* the environment the next start will read
    inForce,    \* the last one a start succeeded with, if any
    runtime,    \* the running process's configuration, if it runs
    tokens,     \* tokens of honest visits, not expired
    rotations   \* how often the signing key was rotated

vars == <<settings, inForce, runtime, tokens, rotations>>

-----------------------------------------------------------------------------
(* The process.                                                              *)

Start ==
    /\ runtime = {}
    /\ Loads(settings)
    /\ runtime' = {Load(settings)}
    /\ inForce' = {settings}
    /\ UNCHANGED <<settings, tokens, rotations>>

Stop ==
    /\ runtime # {}
    /\ runtime' = {}
    /\ UNCHANGED <<settings, inForce, tokens, rotations>>

Issue(rt, v) ==
    \E site \in Get(rt, v.site) :
        /\ AllowsHostname(site, v.page)
        /\ OriginAllowed(site, v.origin, v.page)
        /\ tokens' = tokens \cup
             {[visit |-> v, site |-> site.key, host |-> NormalizeHostname(v.page),
               bind |-> IF site.bind THEN Bind(rt.binding, ClientIP(v.route, rt.trusted))
                                     ELSE <<>>,
               kid |-> rt.kid, key |-> rt.signing]}
        /\ UNCHANGED <<settings, inForce, runtime, rotations>>

\* What siteverify asks of an unspent, unexpired token whose action is the expected one,
\* of the site it found by the backend's secret.
Confirms(rt, site, t) ==
    /\ t.kid \in DOMAIN SignerKeys(rt) /\ SignerKeys(rt)[t.kid] = t.key
    /\ t.site = site.key
    /\ NormalizeHostname(t.visit.expected) = NormalizeHostname(t.host)
    /\ site.bind => Bind(rt.binding, t.visit.address) = t.bind

-----------------------------------------------------------------------------
(* The operator.                                                             *)

\* A new active key, the old one joining the previous keys, in settings that are known to
\* work.  The kid should be new; one that is not is refused by the next start.
Rotated(e, k) ==
    [e EXCEPT !.signing = {k.secret}, !.kid = {k.kid}, !.previous = {SignerKeys(Load(e))}]

Rotate(k) ==
    /\ rotations < MaxRotations
    /\ settings \in inForce
    /\ k.secret \notin Range(SignerKeys(Load(settings)))
    /\ settings' = Rotated(settings, k)
    /\ rotations' = rotations + 1
    /\ UNCHANGED <<inForce, runtime, tokens>>

\* A start that is refused leaves the operator with the settings that worked.
RollBack ==
    /\ ~Loads(settings)
    /\ inForce # {}
    /\ settings' \in inForce
    /\ UNCHANGED <<inForce, runtime, tokens, rotations>>

\* A previous key is removed once no process mints with it and its tokens have expired.
Without(e, kid) ==
    [e EXCEPT !.previous = {[k \in DOMAIN Previous(e) \ {kid} |-> Previous(e)[k]]}]

Retire(kid) ==
    /\ kid \in DOMAIN Previous(settings) \ {KeyID(settings)}
    /\ \A rt \in runtime : rt.kid # kid
    /\ settings' = Without(settings, kid)
    /\ tokens' = {t \in tokens : t.kid # kid}
    /\ UNCHANGED <<inForce, runtime, rotations>>

Init ==
    /\ settings \in Environments
    /\ inForce = {} /\ runtime = {} /\ tokens = {}
    /\ rotations = 0

Next ==
    \/ Start \/ Stop
    \/ \E rt \in runtime, v \in Visits : Cardinality(tokens) < MaxTokens /\ Issue(rt, v)
    \/ \E k \in NewKeys : Rotate(k)
    \/ RollBack
    \/ \E kid \in DOMAIN Previous(settings) : Retire(kid)

Spec == Init /\ [][Next]_vars

-----------------------------------------------------------------------------
(* Correctness.                                                              *)

\* The shape of the state: at most one process, whose sites have every field filled in.
TypeOK ==
    /\ Cardinality(runtime) <= 1 /\ Cardinality(inForce) <= 1
    /\ \A e \in {settings} \cup inForce : IsEnvironment(e)
    /\ \A rt \in runtime : \A s \in ToSet(rt.sites) :
          /\ {s.tokenTTL, s.challengeTTL, s.rateLimit} \subseteq Nat \ {0}
          /\ s.bind \in BOOLEAN
    /\ \A t \in tokens : t.visit \in Visits
    /\ Cardinality(tokens) <= MaxTokens
    /\ rotations \in 0 .. MaxRotations

Sound(rt) ==
    /\ \A s \in ToSet(rt.sites) :
          /\ s.tokenTTL \in 30 .. 600 /\ s.challengeTTL \in 30 .. 900
          /\ s.rateLimit >= 1
          /\ ValidThresholds(s.thresholds)
          /\ GetBySecret(rt, s.secret) = {s} /\ Get(rt, s.key) = {s}
    /\ rt.kid \notin DOMAIN rt.previous
    /\ \A kid \in DOMAIN SignerKeys(rt) : SignerKeys(rt)[kid].bytes >= 32
    /\ rt.binding.bytes >= 32

\* A process that got through config.Load is one the handlers and the scorers are written
\* for: in its sites' lifetimes, limits and thresholds, and in that a backend's secret
\* names one site and a kid one key, whatever the operator configured.
SoundRuntime == \A rt \in runtime : Sound(rt)

\* While the binding secret is configured, or the signing key it falls back to was never
\* rotated, siteverify confirms the token of an honest visit under every process the
\* operator's rotations, refused starts and roll-backs lead to: whatever proxies are on
\* the visitor's way and however page and backend spell the host.
HonestVisitConfirmed ==
    \A rt \in runtime, t \in tokens :
        (rt.binding = rt.signing => t.bind = <<>> \/ rt.signing = t.key) =>
            \A site \in Get(rt, t.visit.site) :
               \A found \in GetBySecret(rt, site.secret) : Confirms(rt, found, t)

=============================================================================
