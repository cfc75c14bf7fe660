------------------------------- MODULE Gateway -------------------------------
(***************************************************************************)
(* The Go gateway, internal/api/server.go: the three handlers that issue a *)
(* challenge, verify a proof and verify a token for a site's backend, over *)
(* the in-process store and the token signer.                              *)
(*                                                                         *)
(* net/http runs every request in a goroutine of its own.  A handler is    *)
(* cut where another goroutine can get in between: at every store call     *)
(* (one critical section each) and at every sample of the clock.  What     *)
(* lies between two cuts touches only the handler's own variables.         *)
(*                                                                         *)
(* Challenge ids and token ids are random and never repeat, so each is     *)
(* named by the request that drew it.                                      *)
(***************************************************************************)
EXTENDS MemoryStore, FiniteSets

CONSTANTS
    Request,        \* the requests the gateway may receive
    Sites,          \* site key -> [hosts, tokenTTL, challengeTTL, rateLimit, bind]
    Action,         \* well-formed action names
    Host,           \* normalized hostnames
    Prefix,         \* network prefixes of the clients' addresses
    Unparsed,       \* an address net.ParseIP does not understand
    NoOrigin,       \* a request without an Origin header
    Session,        \* session ids
    Decision,       \* the decisions a scorer may return
    Key,            \* signing and binding secrets, each with its kid
    Rings,          \* key rings the operator deploys: [active, previous, binding]
    NoKey,          \* BERRYSHIELD_BINDING_SECRET unset
    TicksPerSecond, \* ticks in the second to which token times are truncated
    HoldFloor,      \* ticks the server must see pass on an interactive challenge
    LockWait,       \* the longest a goroutine waits for the store's mutex
    MaxTime,        \* bound on the clock
    MaxRestarts     \* bound on restarts of the process

Kind == {"pow", "interactive"}
Address == Prefix \cup {Unparsed}

ASSUME SitesAssumption ==
    \A s \in DOMAIN Sites :
        /\ Sites[s].hosts \subseteq Host
        /\ Sites[s].tokenTTL \in Nat
        /\ Sites[s].challengeTTL \in Nat
        /\ Sites[s].rateLimit \in Nat
        /\ Sites[s].bind \in BOOLEAN
ASSUME TimeAssumption ==
    /\ TicksPerSecond \in Nat \ {0}
    /\ HoldFloor \in Nat
    /\ LockWait \in Nat
    /\ MaxTime \in Nat
    /\ MaxRestarts \in Nat
ASSUME RingsAssumption ==
    Rings \subseteq [active : Key, previous : SUBSET Key, binding : Key \cup {NoKey}]
ASSUME AddressAssumption == Unparsed \notin Prefix

VARIABLES
    pc,      \* request -> where its handler is, or how it was answered
    ask,     \* request -> the inputs its handler has accepted so far
    ref,     \* request -> the challenge or token id it works on
    at,      \* request -> the clock sample it holds: for AllowRate, or of its success
    view,    \* request -> its handler's own copy of a challenge
    tokens,  \* token id -> the claims the gateway signed
    stats,   \* metrics.Metrics
    ring,    \* the keys this process was started with
    boot,    \* how many times the process was restarted
    era      \* request -> the boot that received it

reqVars == <<pc, ask, ref, at, view, era>>
vars == <<now, storeVars, reqVars, tokens, stats, ring, boot>>

-----------------------------------------------------------------------------
(* Where a handler can be, and the answers it can end with.                  *)

IssuePoints == {"rate", "score", "put"}
VerifyPoints == {"check", "fail", "consume", "mint"}
InFlight == IssuePoints \cup VerifyPoints \cup {"jti"}
IssueAnswers == {"rejected", "rate-limited", "blocked", "token-issued",
                 "challenge-issued", "undecided", "no-token", "no-challenge"}
VerifyAnswers == {"not-found", "dropped", "proof-refused", "already-consumed",
                  "solved", "solved-no-token"}
SiteVerifyAnswers == {"refused", "duplicate", "verified"}
Answers == IssueAnswers \cup VerifyAnswers \cup SiteVerifyAnswers
Points == InFlight \cup Answers \cup {"idle", "aborted"}

Counters == {"requests", "challenges", "allowed", "pow", "interactive", "blocked",
             "verifySuccess", "verifyFailure", "replays", "rateLimited"}
NoStats == [c \in Counters |-> 0]
Count(S) == stats' = [c \in Counters |-> IF c \in S THEN stats[c] + 1 ELSE stats[c]]

Goto(r, point) == pc' = [pc EXCEPT ![r] = point]
Arrive(r) == pc[r] = "idle" /\ era' = [era EXCEPT ![r] = boot]

-----------------------------------------------------------------------------
(* Helpers the handlers share.                                               *)

OriginAllowed(site, origin, host) ==
    origin = NoOrigin \/ (origin \in Sites[site].hosts /\ origin = host)

BindingSecret == IF ring.binding # NoKey THEN ring.binding ELSE ring.active
Unbound == <<>>
BindIP(address) == IF address = Unparsed THEN Unbound ELSE <<BindingSecret, address>>

RateKey(q) == <<q.site, q.address, q.action>>

NewChallenge(q, kind) ==
    [site |-> q.site, action |-> q.action, host |-> q.host, session |-> q.session,
     bind |-> IF Sites[q.site].bind THEN BindIP(q.address) ELSE Unbound,
     kind |-> kind, createdAt |-> now,
     expiresAt |-> now + Sites[q.site].challengeTTL * TicksPerSecond,
     attempts |-> 0]

\* Token times are Unix seconds: Mint truncates, Verify and ConsumeJTI read seconds.
Seconds(t) == t \div TicksPerSecond

MintClaims(site, action, host, bind) ==
    [site |-> site, action |-> action, host |-> host, bind |-> bind,
     iat |-> Seconds(now), exp |-> Seconds(now + Sites[site].tokenTTL * TicksPerSecond),
     kid |-> ring.active]

Expiry(jti) == tokens[jti].exp * TicksPerSecond

\* Slip: the previous keys are not consulted.
VerifyKeysActive == {ring.active}

VerifyKeys == {ring.active} \cup ring.previous

SignatureHolds(jti) ==
    /\ tokens[jti].kid \in VerifyKeys
    /\ tokens[jti].exp > Seconds(now)
    /\ tokens[jti].iat <= Seconds(now) + 30

-----------------------------------------------------------------------------
(* POST /v1/challenge                                                        *)

\* Any of the checks on the body, site key, action, hostname, session or Origin.
IssueReject(r) ==
    /\ Arrive(r)
    /\ Goto(r, "rejected")
    /\ Count({"requests"})
    /\ UNCHANGED <<now, storeVars, ask, ref, at, view, tokens, ring, boot>>

IssueStart(r) ==
    /\ Arrive(r)
    /\ \E site \in DOMAIN Sites, action \in Action, address \in Address,
          session \in Session, origin \in Host \cup {NoOrigin} :
          \E host \in Sites[site].hosts :
            /\ OriginAllowed(site, origin, host)
            /\ ask' = Put(ask, r, [site |-> site, action |-> action, host |-> host,
                                   address |-> address, session |-> session])
    /\ at' = Put(at, r, now)
    /\ Goto(r, "rate")
    /\ Count({"requests"})
    /\ UNCHANGED <<now, storeVars, ref, view, tokens, ring, boot>>

\* AllowRate sampled the clock when the request was started, before its lock.
IssueRate(r) ==
    /\ pc[r] = "rate"
    /\ LET key == RateKey(ask[r])
           allowed == RateWindow(key, at[r], Minute).count <= Sites[ask[r].site].rateLimit
       IN  /\ AllowRate(key, at[r], Minute)
           /\ Goto(r, IF allowed THEN "score" ELSE "rate-limited")
           /\ Count(IF allowed THEN {} ELSE {"rateLimited"})
    /\ at' = Without(at, r)
    /\ UNCHANGED <<now, ask, ref, view, tokens, ring, boot, era>>

\* The scorer (local, or remote with the local one as its fallback) is free to
\* return any decision; the branches of the handler's switch follow.
IssueBlock(r) ==
    /\ pc[r] = "score"
    /\ "block" \in Decision
    /\ Goto(r, "blocked")
    /\ Count({"challenges", "blocked"})
    /\ UNCHANGED <<now, storeVars, ask, ref, at, view, tokens, ring, boot, era>>

IssueAllow(r) ==
    /\ pc[r] = "score"
    /\ "allow" \in Decision
    /\ Count({"challenges", "allowed"})
    /\ \/ /\ LET q == ask[r]
               bind == IF Sites[q.site].bind THEN BindIP(q.address) ELSE Unbound
           IN  tokens' = Put(tokens, r, MintClaims(q.site, q.action, q.host, bind))
          /\ Goto(r, "token-issued")
       \/ /\ Goto(r, "no-token")     \* Mint found no entropy for a token id
          /\ UNCHANGED tokens
    /\ UNCHANGED <<now, storeVars, ask, ref, at, view, ring, boot, era>>

IssueOffer(r, kind) ==
    /\ pc[r] = "score"
    /\ kind \in Decision
    /\ Count({"challenges", kind})
    /\ \/ /\ view' = Put(view, r, NewChallenge(ask[r], kind))
          /\ Goto(r, "put")
       \/ /\ Goto(r, "no-challenge") \* challenge.New found no entropy
          /\ UNCHANGED view
    /\ UNCHANGED <<now, storeVars, ask, ref, at, tokens, ring, boot, era>>

IssueUndecided(r) ==
    /\ pc[r] = "score"
    /\ Decision \ ({"allow", "block"} \cup Kind) # {}
    /\ Goto(r, "undecided")
    /\ Count({"challenges"})
    /\ UNCHANGED <<now, storeVars, ask, ref, at, view, tokens, ring, boot, era>>

IssuePut(r) ==
    /\ pc[r] = "put"
    /\ PutChallenge(r, view[r])
    /\ Goto(r, "challenge-issued")
    /\ view' = Without(view, r)
    /\ UNCHANGED <<now, ask, ref, at, tokens, stats, ring, boot, era>>

-----------------------------------------------------------------------------
(* POST /v1/challenge/{id}/verify                                            *)

\* Slip: a challenge that is gone is not noticed.
VerifyGetUnchecked(r) ==
    /\ Arrive(r)
    /\ \E id \in {i \in Request : pc[i] = "challenge-issued"} :
          /\ ref' = [ref EXCEPT ![r] = id]
          /\ view' = IF id \in DOMAIN LiveChallenges THEN Put(view, r, challenges[id])
                     ELSE view
    /\ Goto(r, "check")
    /\ GetChallenge
    /\ Count({"requests"})
    /\ UNCHANGED <<now, ask, at, tokens, ring, boot>>

\* A client can name any challenge it was ever given.  The handler keeps a copy
\* of the record and works on that copy from here on.
VerifyGet(r) ==
    /\ Arrive(r)
    /\ \E id \in {i \in Request : pc[i] = "challenge-issued"} :
          /\ ref' = [ref EXCEPT ![r] = id]
          /\ IF id \in DOMAIN LiveChallenges
             THEN view' = Put(view, r, challenges[id]) /\ Goto(r, "check")
             ELSE UNCHANGED view /\ Goto(r, "not-found")
    /\ GetChallenge
    /\ Count({"requests"})
    /\ UNCHANGED <<now, ask, at, tokens, ring, boot>>

\* Slip: the session is not compared.
ProofAcceptedAnySession(c, address, session, good) ==
    /\ Sites[c.site].bind => BindIP(address) = c.bind
    /\ now <= c.expiresAt
    /\ c.kind = "interactive" => now - c.createdAt >= HoldFloor
    /\ good

\* What the handler and challenge.Verify ask of a proof; `good` says that the
\* kind, the work, the hold and the interaction summary are in order.
ProofAccepted(c, address, session, good) ==
    /\ Sites[c.site].bind => BindIP(address) = c.bind
    /\ session = c.session
    /\ now <= c.expiresAt
    /\ c.kind = "interactive" => now - c.createdAt >= HoldFloor
    /\ good

\* A foreign Origin or a body that does not decode ends the request uncounted.
VerifyDrop(r) ==
    /\ pc[r] = "check"
    /\ Goto(r, "dropped")
    /\ view' = Without(view, r)
    /\ UNCHANGED <<now, storeVars, ask, ref, at, tokens, stats, ring, boot, era>>

VerifyRefuse(r) ==
    /\ pc[r] = "check"
    /\ \E address \in Address, session \in Session, good \in BOOLEAN :
          ~ProofAccepted(view[r], address, session, good)
    /\ Goto(r, "fail")
    /\ UNCHANGED <<now, storeVars, ask, ref, at, view, tokens, stats, ring, boot, era>>

VerifyAccept(r) ==
    /\ pc[r] = "check"
    /\ \E address \in Address, session \in Session, good \in BOOLEAN :
          /\ ProofAccepted(view[r], address, session, good)
          /\ ask' = Put(ask, r, [address |-> address, session |-> session])
    /\ Goto(r, "consume")
    /\ UNCHANGED <<now, storeVars, ref, at, view, tokens, stats, ring, boot, era>>

MaxAttempts == 3

\* Slip: the attempt is counted in the handler's copy, and the copy written back.
VerifyFailCopy(r) ==
    /\ pc[r] = "fail"
    /\ challenges' =
         IF view[r].attempts + 1 >= MaxAttempts THEN Without(challenges, ref[r])
         ELSE Put(challenges, ref[r], [view[r] EXCEPT !.attempts = @ + 1])
    /\ Goto(r, "proof-refused")
    /\ view' = Without(view, r)
    /\ UNCHANGED <<now, spent, rates, ask, ref, at, tokens, stats, ring, boot, era>>

VerifyFail(r) ==
    /\ pc[r] = "fail"
    /\ FailChallenge(ref[r], MaxAttempts)
    /\ Goto(r, "proof-refused")
    /\ view' = Without(view, r)
    /\ UNCHANGED <<now, ask, ref, at, tokens, stats, ring, boot, era>>

\* Slip: the handler has no answer for a challenge that another one consumed.
VerifyConsumeStuck(r) ==
    /\ pc[r] = "consume"
    /\ Consumable(ref[r])
    /\ ConsumeChallenge(ref[r])
    /\ Goto(r, "mint")
    /\ UNCHANGED <<now, ask, ref, at, view, tokens, stats, ring, boot, era>>

VerifyConsume(r) ==
    /\ pc[r] = "consume"
    /\ ConsumeChallenge(ref[r])
    /\ IF Consumable(ref[r])
       THEN Goto(r, "mint") /\ UNCHANGED view
       ELSE Goto(r, "already-consumed") /\ view' = Without(view, r)
    /\ UNCHANGED <<now, ask, ref, at, tokens, stats, ring, boot, era>>

VerifyMint(r) ==
    /\ pc[r] = "mint"
    /\ \/ /\ LET c == view[r]
           IN  tokens' = Put(tokens, r, MintClaims(c.site, c.action, c.host, c.bind))
          /\ Goto(r, "solved")
       \/ /\ Goto(r, "solved-no-token")
          /\ UNCHANGED tokens
    /\ view' = Without(view, r)
    /\ UNCHANGED <<now, storeVars, ask, ref, at, stats, ring, boot, era>>

-----------------------------------------------------------------------------
(* POST /v1/siteverify                                                       *)

\* What siteverify asks of a token before it consumes the token id; `q` holds the
\* site whose secret was sent, the expectations and the visitor's address.
TokenAccepted(jti, q) ==
    /\ SignatureHolds(jti)
    /\ tokens[jti].site = q.site
    /\ tokens[jti].action = q.action
    /\ tokens[jti].host = q.host
    /\ Sites[q.site].bind => BindIP(q.address) = tokens[jti].bind

\* A bad body, an unknown secret, a forged or expired token, a failed expectation.
SiteVerifyRefuse(r) ==
    /\ Arrive(r)
    /\ Goto(r, "refused")
    /\ Count({"requests", "verifyFailure"})
    /\ UNCHANGED <<now, storeVars, ask, ref, at, view, tokens, ring, boot>>

SiteVerifyAccept(r) ==
    /\ Arrive(r)
    /\ \E jti \in DOMAIN tokens, site \in DOMAIN Sites, action \in Action,
          host \in Host, address \in Address :
          LET q == [site |-> site, action |-> action, host |-> host, address |-> address]
          IN  /\ TokenAccepted(jti, q)
              /\ ask' = Put(ask, r, q)
              /\ ref' = [ref EXCEPT ![r] = jti]
    /\ Goto(r, "jti")
    /\ Count({"requests"})
    /\ UNCHANGED <<now, storeVars, at, view, tokens, ring, boot>>

\* Slip: a replay is counted, but not as a failed verification.
SiteVerifyConsumeUncounted(r) ==
    /\ pc[r] = "jti"
    /\ ConsumeJTI(ref[r], Expiry(ref[r]))
    /\ IF Unspent(ref[r])
       THEN /\ Goto(r, "verified")
            /\ at' = Put(at, r, now)
            /\ Count({"verifySuccess"})
       ELSE /\ Goto(r, "duplicate")
            /\ UNCHANGED at
            /\ Count({"replays"})
    /\ UNCHANGED <<now, ask, ref, view, tokens, ring, boot, era>>

SiteVerifyConsume(r) ==
    /\ pc[r] = "jti"
    /\ ConsumeJTI(ref[r], Expiry(ref[r]))
    /\ IF Unspent(ref[r])
       THEN /\ Goto(r, "verified")
            /\ at' = Put(at, r, now)
            /\ Count({"verifySuccess"})
       ELSE /\ Goto(r, "duplicate")
            /\ UNCHANGED at
            /\ Count({"replays", "verifyFailure"})
    /\ UNCHANGED <<now, ask, ref, view, tokens, ring, boot, era>>

-----------------------------------------------------------------------------
(* The environment: time passes, a wait for the store's lock between a clock *)
(* sample and its use lasting at most LockWait; the process is restarted, which *)
(* empties the store, ends every handler and installs the ring of keys the   *)
(* operator has configured by then.  Clients keep the tokens they hold.      *)

Tick ==
    /\ now < MaxTime
    /\ \A r \in Request : pc[r] = "rate" => now - at[r] < LockWait
    /\ now' = now + 1
    /\ UNCHANGED <<storeVars, reqVars, tokens, stats, ring, boot>>

Restart ==
    /\ boot < MaxRestarts
    /\ boot' = boot + 1
    /\ ring' \in Rings
    /\ challenges' = EmptyMap
    /\ spent' = EmptyMap
    /\ rates' = EmptyMap
    /\ stats' = NoStats
    /\ pc' = [r \in Request |-> IF pc[r] \in InFlight THEN "aborted" ELSE pc[r]]
    /\ UNCHANGED <<now, ask, ref, at, view, era, tokens>>

Init ==
    /\ NewMemory
    /\ now = 0
    /\ pc = [r \in Request |-> "idle"]
    /\ ask = EmptyMap
    /\ ref = [r \in Request |-> r]
    /\ at = EmptyMap
    /\ view = EmptyMap
    /\ tokens = EmptyMap
    /\ stats = NoStats
    /\ ring \in Rings
    /\ boot = 0
    /\ era = [r \in Request |-> 0]

Issue(r) ==
    \/ IssueReject(r) \/ IssueStart(r) \/ IssueRate(r) \/ IssueBlock(r)
    \/ IssueAllow(r) \/ (\E kind \in Kind : IssueOffer(r, kind))
    \/ IssueUndecided(r) \/ IssuePut(r)

Verify(r) ==
    \/ VerifyGet(r) \/ VerifyDrop(r) \/ VerifyRefuse(r) \/ VerifyAccept(r)
    \/ VerifyFail(r) \/ VerifyConsume(r) \/ VerifyMint(r)

SiteVerify(r) ==
    SiteVerifyRefuse(r) \/ SiteVerifyAccept(r) \/ SiteVerifyConsume(r)

Next ==
    \/ \E r \in Request : Issue(r) \/ Verify(r) \/ SiteVerify(r)
    \/ Tick
    \/ Restart

Spec == Init /\ [][Next]_vars

\* A handler that was entered runs to its end: nothing in it waits for another
\* request, and the store's mutex is held for one short call at a time.
Resume(r) == pc[r] \in InFlight /\ (Issue(r) \/ Verify(r) \/ SiteVerify(r))

LiveSpec == Spec /\ \A r \in Request : WF_vars(Resume(r))

-----------------------------------------------------------------------------
(* Correctness.                                                              *)

Binds == {Unbound} \cup (Key \X Prefix)

ChallengeRecord ==
    [site : DOMAIN Sites, action : Action, host : Host, session : Session, bind : Binds,
     kind : Kind, createdAt : Nat, expiresAt : Nat, attempts : Nat]

ClaimsRecord ==
    [site : DOMAIN Sites, action : Action, host : Host, bind : Binds,
     iat : Int, exp : Int, kid : Key]

WindowRecord == [start : Nat, count : Nat]

IssueInput == [site : DOMAIN Sites, action : Action, host : Host,
               address : Address, session : Session]
VerifyInput == [address : Address, session : Session]
SiteVerifyInput == [site : DOMAIN Sites, action : Action, host : Host, address : Address]

Maps(Keys, map, Values) ==
    /\ DOMAIN map \subseteq Keys
    /\ \A k \in DOMAIN map : map[k] \in Values

\* Which local variables a handler has set by the point it is at.
LocalsSet ==
    \A r \in Request :
        /\ pc[r] \in {"rate", "score"} => r \in DOMAIN ask /\ ask[r] \in IssueInput
        /\ pc[r] \in {"rate", "verified"} => r \in DOMAIN at
        /\ pc[r] \in {"put"} \cup VerifyPoints => r \in DOMAIN view
        /\ pc[r] \in {"jti", "verified"} => ref[r] \in DOMAIN tokens

\* The shape of every variable, and the locals each handler relies on.
TypeOK ==
    /\ now \in Nat
    /\ Maps(Request, challenges, ChallengeRecord)
    /\ Maps(Request, spent, Int)
    /\ Maps((DOMAIN Sites) \X Address \X Action, rates, WindowRecord)
    /\ pc \in [Request -> Points]
    /\ Maps(Request, ask, IssueInput \cup VerifyInput \cup SiteVerifyInput)
    /\ ref \in [Request -> Request]
    /\ Maps(Request, at, Nat)
    /\ Maps(Request, view, ChallengeRecord)
    /\ Maps(Request, tokens, ClaimsRecord)
    /\ stats \in [Counters -> Nat]
    /\ ring \in Rings
    /\ boot \in Nat
    /\ era \in [Request -> Nat]
    /\ LocalsSet

\* However many clients submit the same solved challenge at once, one request for a
\* challenge yields at most one token: an outright allow, or one redemption of the
\* challenge it was answered with (server.go: ConsumeChallenge before Mint).
OneTokenPerIssue ==
    \A t, u \in DOMAIN tokens : ref[t] = ref[u] => t = u

\* The requests that failed a challenge, and were counted against it.
Refused(id) == {r \in Request : pc[r] = "proof-refused" /\ ref[r] = id}

\* No failure is lost between concurrent submissions: a challenge in the store has
\* been failed exactly as often as its record says, and less often than the cap.
AttemptsExact ==
    \A id \in DOMAIN challenges :
        /\ challenges[id].attempts = Cardinality(Refused(id))
        /\ challenges[id].attempts < MaxAttempts

\* Once a challenge has been failed MaxAttempts times no request can redeem it any
\* more, not even one that fetched it before the failures.
CapHolds ==
    [][\A r \in Request :
         (pc[r] = "consume" /\ pc'[r] = "mint") =>
             Cardinality(Refused(ref[r])) < MaxAttempts]_vars

\* A challenge that left the store -- redeemed, failed too often, expired, lost in a
\* restart -- never returns to it, whatever copies handlers still hold.
NoResurrection ==
    [][\A id \in Request :
         (pc[id] = "challenge-issued" /\ id \notin DOMAIN challenges) =>
             id \notin DOMAIN challenges']_vars

Verified == {r \in Request : pc[r] = "verified"}

\* Within one life of the process, siteverify reports success at most once for a
\* token that has not yet expired, however its calls interleave.
SingleUseInLife ==
    \A r, s \in Verified :
        /\ ref[r] = ref[s] /\ era[r] = era[s]
        /\ at[r] <= Expiry(ref[r]) /\ at[s] <= Expiry(ref[s])
        => r = s

\* docs/API.md: "A token is single-use."  As it is said: of all calls, whenever.
SingleUse ==
    \A r, s \in Verified : ref[r] = ref[s] => r = s

\* What a backend is told is what was asked for: the token it verified goes back,
\* through the challenge that was solved for it if there was one, to a request for
\* the same site, action and hostname; the solver held the session the challenge was
\* issued to; and on a binding site asker, solver and visitor share a network.
Provenance ==
    \A s \in Verified :
        LET t == ref[s]
            i == ref[t]
        IN  /\ ask[s].site = ask[i].site
            /\ ask[s].action = ask[i].action
            /\ ask[s].host = ask[i].host
            /\ t # i => ask[t].session = ask[i].session
            /\ Sites[ask[s].site].bind =>
                 /\ ask[s].address = ask[i].address
                 /\ ask[t].address = ask[i].address

\* How many of this process's requests are at one of these points.
Tally(points) == Cardinality({r \in Request : era[r] = boot /\ pc[r] \in points})

\* The counters account for every request of this process: each is counted on
\* arrival, each scored one under its decision, each answered siteverify as a success
\* or a failure, and each replay as a failure too.
StatsAccount ==
    /\ stats.requests = Tally(Points \ {"idle"})
    /\ stats.challenges = stats.allowed + stats.pow + stats.interactive + stats.blocked
                          + Tally({"undecided"})
    /\ stats.rateLimited = Tally({"rate-limited"})
    /\ stats.verifySuccess = Tally({"verified"})
    /\ stats.verifyFailure = Tally({"refused"}) + stats.replays
    /\ stats.replays = Tally({"duplicate"})

\* docs/OPERATIONS.md, key rotation: while the key that signed it is kept and it has
\* not expired, a token passes the checks of an honest siteverify call, whatever ring
\* of keys the process has been restarted with since -- for rings that keep the
\* binding secret independent and stable, as it advises.
RotationGrace ==
    \A t \in DOMAIN tokens :
        (tokens[t].kid \in {ring.active} \cup ring.previous /\ Seconds(now) < tokens[t].exp) =>
            LET i == ref[t]
            IN  TokenAccepted(t, [site |-> ask[i].site, action |-> ask[i].action,
                                  host |-> ask[i].host, address |-> ask[i].address])

\* Every request that a handler took up is answered, or ended by a restart.
EveryRequestAnswered ==
    \A r \in Request : pc[r] \in InFlight ~> pc[r] \in Answers \cup {"aborted"}

=============================================================================
