----------------------------- MODULE Assessment -----------------------------
(***************************************************************************)
(* How a challenge request is judged: the providers' results come back in  *)
(* any order, or fail, or are late; they are combined; the risk engine or, *)
(* when it cannot be had, the gateway's own scorer decides                 *)
(* (services/gateway/internal/risk/remote.go, api/server.go:110-128).      *)
(***************************************************************************)
EXTENDS Aggregate, RiskScore, Sequences

CONSTANTS
    Cases,    \* what the gateway and the browser report, what the vendors would answer, the
              \* site's policy, and whether a reputation service is configured
    Vendors   \* vendors with an API key

Vendor == {"abuseipdb", "ipqs", "maxmind"}
Provider == Vendor \cup {"local"}

Config == INSTANCE Configuration

ASSUME AssessmentAssumption ==
    /\ Vendors \subseteq Vendor
    /\ \A c \in Cases :
          /\ c.lookup \in BOOLEAN
          /\ \A n \in {c.in.cores, c.in.screen, c.in.dwell, c.in.pointer, c.in.keys, c.in.rate} :
                n \in Int
          /\ c.answers.abuseipdb.confidence \in Int /\ c.answers.ipqs.fraud \in Int
          /\ c.site.limit \in Int /\ c.site.thresholds \in [pow : Int, interactive : Int, block : Int]
          /\ Config!ValidThresholds(c.site.thresholds)

VARIABLES
    pc, in, site,
    answers,   \* the vendors' answers for this address
    results,   \* what as_completed has given so far, in order
    came,      \* the providers of those results
    failed,    \* those that failed, or had no key
    rep,       \* the reputation the gateway uses
    decision

vars == <<pc, in, site, answers, results, came, failed, rep, decision>>

Init ==
    /\ \E c \in Cases :
          /\ in = c.in /\ answers = c.answers /\ site = c.site
          /\ pc = IF c.lookup THEN "lookup" ELSE "score"
    /\ results = <<>> /\ came = {} /\ failed = {}
    /\ rep = Clean
    /\ decision = "none"

\* A provider's result on its answer.
Result(p) ==
    CASE p = "local"     -> LocalResult(in.agent)
      [] p = "abuseipdb" -> AbuseIPDBResult(answers.abuseipdb)
      [] p = "ipqs"      -> IPQSResult(answers.ipqs)
      [] p = "maxmind"   -> MaxMindResult(answers.maxmind)

Respond(p) ==
    /\ pc = "lookup" /\ p \notin came
    /\ p \in Vendors \cup {"local"}
    /\ results' = Append(results, Result(p))
    /\ came' = came \cup {p}
    /\ UNCHANGED <<pc, in, site, answers, failed, rep, decision>>

\* A vendor without a key is disabled; one with a key may fail.
Fail(p) ==
    /\ pc = "lookup" /\ p \notin came
    /\ p \in Vendor
    /\ results' = Append(results, Warning)
    /\ came' = came \cup {p}
    /\ failed' = failed \cup {p}
    /\ UNCHANGED <<pc, in, site, answers, rep, decision>>

\* The aggregate of what came, all of it or what came in time.
Aggregated ==
    /\ pc = "lookup"
    /\ rep' = Combined(IF came = Provider THEN results ELSE Append(results, Warning))
    /\ pc' = "score"
    /\ UNCHANGED <<in, site, answers, results, came, failed, decision>>

\* The reputation client gives up: nothing is known.
NoReputation ==
    /\ pc = "lookup"
    /\ pc' = "score"
    /\ UNCHANGED <<in, site, answers, results, came, failed, rep, decision>>

ScoreRemote ==
    /\ pc = "score"
    /\ EngineAccepts(in, site)
    /\ decision' = RustDecision(in, rep, site)
    /\ pc' = "decided"
    /\ UNCHANGED <<in, site, answers, results, came, failed, rep>>

\* No engine is configured, it refuses, fails or is late.
ScoreLocal ==
    /\ pc = "score"
    /\ decision' = GoDecision(in, rep, site)
    /\ pc' = "decided"
    /\ UNCHANGED <<in, site, answers, results, came, failed, rep>>

Next ==
    \/ \E p \in Provider : Respond(p) \/ Fail(p)
    \/ Aggregated \/ NoReputation \/ ScoreRemote \/ ScoreLocal

Spec == Init /\ [][Next]_vars

-----------------------------------------------------------------------------

TypeOK ==
    /\ pc \in {"lookup", "score", "decided"}
    /\ came \subseteq Provider /\ failed \subseteq came
    /\ Len(results) = Cardinality(came)
    /\ rep.score \in 0 .. 100
    /\ decision \in {"none", "allow", "pow", "interactive", "block"}

\* The results of some providers, in a fixed order.
Listed == <<"local", "abuseipdb", "ipqs", "maxmind">>
ResultsOf(ps) == [i \in {j \in DOMAIN Listed : Listed[j] \in ps} |-> Result(Listed[i])]

\* The decision follows from what was observed, in whatever order the results came and
\* whichever of the two scorers was asked: an outage of the engine changes no decision.
OneVerdict ==
    pc = "decided" =>
        /\ rep \in {Clean, Combined(ResultsOf(came \ failed))}
        /\ decision = GoDecision(in, rep, site)

\* docs/RISK_ENGINE.md:13, "A user who never moves a mouse or who uses assistive technology
\* must not be classified as a bot merely because of that": behaviour alone, whatever it
\* is, asks nothing of a visitor wherever the first threshold is above 8.
BehaviourAlone ==
    /\ pc = "decided" /\ site.thresholds.pow > 8
    /\ Fired(GoRules(in, rep, site)) \subseteq {"idle", "density"}
    => decision = "allow"

Accusers == {p \in Vendor : Result(p) # Blank}

\* docs/THREAT_MODEL.md:34, "no single-vendor hard block": when nothing else is suspicious and
\* one vendor at most has something against the address, the default policy does not block.
NoVendorBlocksAlone ==
    /\ site.thresholds.block >= 92
    /\ Fired(GoRules(in, Clean, site)) = {}
    /\ Cardinality(Accusers) <= 1
    => decision # "block"

=============================================================================
