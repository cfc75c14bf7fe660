----------------------------- MODULE Aggregate -----------------------------
(***************************************************************************)
(* What the providers of the reputation service make of an address and how *)
(* their results become one: providers.py and models.py under              *)
(* services/reputation/berry_reputation/.                                  *)
(***************************************************************************)
EXTENDS Integers, FiniteSets

\* Slip: scores are taken as they come.
Unclamped(n) == n

Clamp(n) == IF n < 0 THEN 0 ELSE IF n > 100 THEN 100 ELSE n

\* Python's round of n / d: halves go to the even neighbour.
RoundEven(n, d) ==
    LET q == n \div d
        r == 2 * (n % d)
    IN  IF r > d \/ (r = d /\ q % 2 = 1) THEN q + 1 ELSE q

ProviderResult(score, abuse, proxy, vpn, tor, hosting) ==
    [score |-> score, abuse |-> abuse, proxy |-> proxy, vpn |-> vpn, tor |-> tor,
     hosting |-> hosting, warning |-> FALSE]
Blank == ProviderResult(0, 0, FALSE, FALSE, FALSE, FALSE)
Warning == [Blank EXCEPT !.warning = TRUE]

-----------------------------------------------------------------------------
(* The providers: a result for each answer of the service they ask.        *)

\* The header's user agent names a tool.
Tools == {"headlesschrome", "python-requests", "curl/", "wget/"}
LocalResult(agent) ==
    ProviderResult(IF agent \in Tools THEN 30 ELSE 0, 0, FALSE, FALSE, FALSE, FALSE)

AbuseIPDBResult(d) ==
    ProviderResult(Clamp(RoundEven(85 * d.confidence + (IF d.hosting THEN 1000 ELSE 0), 100)),
                   d.confidence, FALSE, FALSE, FALSE, d.hosting)

IPQSResult(d) ==
    ProviderResult(d.fraud, d.fraud, d.proxy \/ d.vpn \/ d.tor, d.vpn, d.tor, d.hosting)

Worth(flag, points) == IF flag THEN points ELSE 0

\* d is the set of anonymizer flags that are set.
MaxMindFlags == {"anonymous", "vpn", "public", "residential", "hosting", "tor"}
MaxMindScore(d) ==
    Worth("anonymous" \in d, 30) + Worth("vpn" \in d, 20) + Worth("public" \in d, 18)
    + Worth("residential" \in d, 18) + Worth("hosting" \in d, 15) + Worth("tor" \in d, 40)
MaxMindResult(d) ==
    ProviderResult(Clamp(MaxMindScore(d)), 0,
                   d \cap {"anonymous", "vpn", "public", "residential"} # {},
                   "vpn" \in d, "tor" \in d, "hosting" \in d)

-----------------------------------------------------------------------------
(* The aggregate: results are cut to 0 .. 100, those with a warning left    *)
(* out.                                                                    *)

\* Slip: the scores are taken in the order in which they came.
InArrivalOrder(score, n) ==
    score[CHOOSE i \in DOMAIN score : Cardinality({j \in DOMAIN score : j <= i}) = n]

\* The n-th highest of the scores, equal ones counted each: the n-th of them sorted.
Highest(score, n) ==
    CHOOSE s \in {score[i] : i \in DOMAIN score} :
        /\ Cardinality({i \in DOMAIN score : score[i] > s}) < n
        /\ Cardinality({i \in DOMAIN score : score[i] >= s}) >= n

\* Slip: the highest score counts alone.
MaxAlone(score) == Highest(score, 1)

\* Three quarters of the highest score and a quarter of the mean of the next two.
MaxPlusConsensus(score) ==
    LET n == Cardinality(DOMAIN score)
        consensus == IF n = 1 THEN 0
                     ELSE IF n = 2 THEN 2 * Highest(score, 2)
                     ELSE Highest(score, 2) + Highest(score, 3)
    IN  Clamp(RoundEven(6 * Highest(score, 1) + consensus, 8))

Clean == [score |-> 0, abuse |-> 0, proxy |-> FALSE, vpn |-> FALSE, tor |-> FALSE,
          hosting |-> FALSE]

Good(results) == {i \in DOMAIN results : ~results[i].warning}

\* results by their place in the order in which as_completed gave them.
Combined(results) ==
    LET good == Good(results)
        Some(flag) == \E i \in good : results[i][flag]
    IN  IF good = {} THEN Clean
        ELSE [score |-> MaxPlusConsensus([i \in good |-> Clamp(results[i].score)]),
              abuse |-> Highest([i \in good |-> Clamp(results[i].abuse)], 1),
              proxy |-> Some("proxy"), vpn |-> Some("vpn"), tor |-> Some("tor"),
              hosting |-> Some("hosting")]

=============================================================================
