----------------------------- MODULE RiskScore -----------------------------
(***************************************************************************)
(* The two scorers: Local in services/gateway/internal/risk/scorer.go and  *)
(* score in services/risk-engine/src/score.rs, and what the engine refuses *)
(* before it scores (main.rs, model.rs). Each rule that fires adds its     *)
(* points, in hundredths, under its tag.                                   *)
(*                                                                         *)
(* An input is a record of what the rules look at; a user agent is one of  *)
(* a few strings, "" for blank.                                            *)
(***************************************************************************)
EXTENDS Integers, FiniteSets

Automation == {"headlesschrome", "phantomjs", "python-requests", "curl/", "wget/"}

\* What normalizePlatform makes of the names browsers report.
NormalPlatform(v) ==
    CASE v \in {"Win32", "Windows"}            -> "windows"
      [] v \in {"MacIntel", "macOS"}           -> "macos"
      [] v \in {"Android"}                     -> "android"
      [] v \in {"iPhone", "iPad", "iOS"}       -> "ios"
      [] v \in {"Linux", "Linux x86_64", "Linux armv8l"} -> "linux"
      [] OTHER                                 -> ""

PlatformsDiffer(a, h) ==
    /\ a # "" /\ h # ""
    /\ NormalPlatform(a) # "" /\ NormalPlatform(h) # ""
    /\ NormalPlatform(a) # NormalPlatform(h)

Decide(n, t) ==
    IF n >= t.block THEN "block"
    ELSE IF n >= t.interactive THEN "interactive"
    ELSE IF n >= t.pow THEN "pow" ELSE "allow"

Add(fires, points) == IF fires THEN points ELSE 0

-----------------------------------------------------------------------------
(* scorer.go                                                               *)

GoRules(in, rep, site) ==
    [webdriver   |-> in.webdriver,
     noAgent     |-> in.agent = "" \/ in.clientAgent = "",
     automation  |-> {in.agent, in.clientAgent} \cap Automation # {},
     insecure    |-> ~in.secure,
     noCrypto    |-> ~in.crypto,
     noWasm      |-> ~in.wasm,
     cores       |-> in.cores < 0 \/ in.cores > 256,
     screen      |-> in.screen < 0,
     languages   |-> in.languages \in {"null", "empty"} /\ in.acceptLanguage,
     platform    |-> PlatformsDiffer(in.platform, in.hint),
     idle        |-> in.dwell > 1500 /\ in.pointer = 0 /\ in.keys = 0,
     density     |-> in.pointer > 5000 /\ in.dwell < 1000,
     reputation  |-> rep.score > 0,
     tor         |-> rep.tor,
     hosting     |-> rep.hosting,
     proxy       |-> rep.proxy \/ rep.vpn,
     abuse       |-> rep.abuse >= 80,
     rate        |-> in.rate > site.limit \div 2]

Fired(rules) == {t \in DOMAIN rules : rules[t]}

\* Slip: every rule weighs the same.
GoSumFlat(f, rep) == 1000 * Cardinality(Fired(f))

GoSum(f, rep) ==
    Add(f.webdriver, 3200) + Add(f.noAgent, 1800) + Add(f.automation, 3000)
    + Add(f.insecure, 500) + Add(f.noCrypto, 500) + Add(f.noWasm, 300)
    + Add(f.cores, 1000) + Add(f.screen, 800) + Add(f.languages, 500)
    + Add(f.platform, 1200) + Add(f.idle, 400) + Add(f.density, 800)
    + Add(f.reputation, 48 * rep.score) + Add(f.tor, 2200) + Add(f.hosting, 1000)
    + Add(f.proxy, 700) + Add(f.abuse, 1200) + Add(f.rate, 800)

\* Cut to 0 .. 100, then rounded.
GoScore(in, rep, site) ==
    LET sum == GoSum(GoRules(in, rep, site), rep)
    IN  ((IF sum > 10000 THEN 10000 ELSE sum) + 50) \div 100

GoDecision(in, rep, site) == Decide(GoScore(in, rep, site), site.thresholds)

-----------------------------------------------------------------------------
(* score.rs, main.rs, model.rs                                             *)

\* The gateway encodes a missing list of languages as null, which is no sequence, and the
\* engine wants its thresholds in order.
EngineAccepts(in, site) ==
    /\ in.languages # "null"
    /\ 0 <= site.thresholds.pow /\ site.thresholds.pow < site.thresholds.interactive
    /\ site.thresholds.interactive < site.thresholds.block /\ site.thresholds.block <= 100

\* Slip: the names of the platforms are compared as they come.
RustRulesRawNames(in, rep, site) ==
    [GoRules(in, rep, site) EXCEPT !.platform = in.platform # in.hint]

RustRules(in, rep, site) ==
    [webdriver   |-> in.webdriver,
     noAgent     |-> "" \in {in.agent, in.clientAgent},
     automation  |-> \E a \in Automation : a = in.agent \/ a = in.clientAgent,
     insecure    |-> ~in.secure,
     noCrypto    |-> ~in.crypto,
     noWasm      |-> ~in.wasm,
     cores       |-> in.cores \notin 0 .. 256,
     screen      |-> in.screen < 0,
     languages   |-> in.languages = "empty" /\ in.acceptLanguage,
     platform    |-> PlatformsDiffer(in.platform, in.hint),
     idle        |-> in.dwell > 1500 /\ in.pointer = 0 /\ in.keys = 0,
     density     |-> in.pointer > 5000 /\ in.dwell < 1000,
     reputation  |-> rep.score > 0,
     tor         |-> rep.tor,
     hosting     |-> rep.hosting,
     proxy       |-> rep.proxy \/ rep.vpn,
     abuse       |-> rep.abuse >= 80,
     rate        |-> in.rate > site.limit \div 2]

RustSum(f, rep) ==
    Add(f.webdriver, 3200) + Add(f.noAgent, 1800) + Add(f.automation, 3000)
    + Add(f.insecure, 500) + Add(f.noCrypto, 500) + Add(f.noWasm, 300)
    + Add(f.cores, 1000) + Add(f.screen, 800) + Add(f.languages, 500)
    + Add(f.platform, 1200) + Add(f.idle, 400) + Add(f.density, 800)
    + Add(f.reputation, 48 * rep.score) + Add(f.tor, 2200) + Add(f.hosting, 1000)
    + Add(f.proxy, 700) + Add(f.abuse, 1200) + Add(f.rate, 800)

\* Rounded, then cut.
RustScore(in, rep, site) ==
    LET n == (RustSum(RustRules(in, rep, site), rep) + 50) \div 100
    IN  IF n > 100 THEN 100 ELSE n

RustDecision(in, rep, site) == Decide(RustScore(in, rep, site), site.thresholds)

=============================================================================
