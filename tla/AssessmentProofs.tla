--------------------------- MODULE AssessmentProofs ---------------------------
(***************************************************************************)
(* Theorems of Assessment: the two scorers decide alike on every input     *)
(* that the engine accepts, the aggregate does not depend on the order of  *)
(* the results, and neither behaviour nor one vendor condemns by itself.   *)
(***************************************************************************)
EXTENDS Assessment, FiniteSetTheorems, FunctionTheorems, SequenceTheorems,
        WellFoundedInduction, TLAPS

-----------------------------------------------------------------------------
(* The two scorers.                                                          *)

\* On what the engine accepts the same rules fire in both programs.
LEMMA RulesAgree ==
    ASSUME NEW input, NEW known, NEW policy, input.cores \in Int, EngineAccepts(input, policy)
    PROVE  RustSum(RustRules(input, known, policy), known)
               = GoSum(GoRules(input, known, policy), known)
<1> DEFINE go == GoRules(input, known, policy)
           rust == RustRules(input, known, policy)
<1>1. Add(rust.noAgent, 1800) = Add(go.noAgent, 1800)
    <2>1. rust.noAgent = ("" \in {input.agent, input.clientAgent}) BY DEF RustRules
    <2>2. go.noAgent = (input.agent = "" \/ input.clientAgent = "") BY DEF GoRules
    <2> HIDE DEF go, rust
    <2>3. rust.noAgent <=> go.noAgent BY <2>1, <2>2, Zenon
    <2> QED BY <2>3 DEF Add
<1>2. Add(rust.automation, 3000) = Add(go.automation, 3000)
    <2>1. rust.automation = (\E a \in Automation : a = input.agent \/ a = input.clientAgent)
        BY DEF RustRules
    <2>2. go.automation = ({input.agent, input.clientAgent} \cap Automation # {}) BY DEF GoRules
    <2> HIDE DEF go, rust
    <2>3. rust.automation <=> (input.agent \in Automation \/ input.clientAgent \in Automation)
        BY <2>1, Zenon
    <2>4. go.automation <=> (input.agent \in Automation \/ input.clientAgent \in Automation)
        BY <2>2, Zenon
    <2> QED BY <2>3, <2>4 DEF Add
<1>3. Add(rust.cores, 1000) = Add(go.cores, 1000) BY DEF GoRules, RustRules, Add
<1>4. Add(rust.languages, 500) = Add(go.languages, 500)
    BY DEF GoRules, RustRules, Add, EngineAccepts
<1>5. /\ Add(rust.webdriver, 3200) = Add(go.webdriver, 3200)
      /\ Add(rust.insecure, 500) = Add(go.insecure, 500)
      /\ Add(rust.noCrypto, 500) = Add(go.noCrypto, 500)
      /\ Add(rust.noWasm, 300) = Add(go.noWasm, 300)
      /\ Add(rust.screen, 800) = Add(go.screen, 800)
      /\ Add(rust.platform, 1200) = Add(go.platform, 1200)
      /\ Add(rust.idle, 400) = Add(go.idle, 400)
      /\ Add(rust.density, 800) = Add(go.density, 800)
    BY DEF GoRules, RustRules
<1>6. /\ Add(rust.reputation, 48 * known.score) = Add(go.reputation, 48 * known.score)
      /\ Add(rust.tor, 2200) = Add(go.tor, 2200)
      /\ Add(rust.hosting, 1000) = Add(go.hosting, 1000)
      /\ Add(rust.proxy, 700) = Add(go.proxy, 700)
      /\ Add(rust.abuse, 1200) = Add(go.abuse, 1200)
      /\ Add(rust.rate, 800) = Add(go.rate, 800)
    BY DEF GoRules, RustRules
<1> HIDE DEF go, rust
<1>7. RustSum(rust, known) = GoSum(go, known)
    BY <1>1, <1>2, <1>3, <1>4, <1>5, <1>6 DEF RustSum, GoSum
<1> QED BY <1>7 DEF go, rust

\* The sum is of natural numbers, whatever fires.
LEMMA SumTyped ==
    ASSUME NEW f, NEW known, known.score \in Nat
    PROVE  GoSum(f, known) \in Nat
<1>1. Add(f.reputation, 48 * known.score) \in Nat BY DEF Add
<1>2. /\ Add(f.webdriver, 3200) \in Nat /\ Add(f.noAgent, 1800) \in Nat
      /\ Add(f.automation, 3000) \in Nat /\ Add(f.insecure, 500) \in Nat
      /\ Add(f.noCrypto, 500) \in Nat /\ Add(f.noWasm, 300) \in Nat
      /\ Add(f.cores, 1000) \in Nat /\ Add(f.screen, 800) \in Nat
      /\ Add(f.languages, 500) \in Nat /\ Add(f.platform, 1200) \in Nat
      /\ Add(f.idle, 400) \in Nat /\ Add(f.density, 800) \in Nat
    BY DEF Add
<1>3. /\ Add(f.tor, 2200) \in Nat /\ Add(f.hosting, 1000) \in Nat
      /\ Add(f.proxy, 700) \in Nat /\ Add(f.abuse, 1200) \in Nat /\ Add(f.rate, 800) \in Nat
    BY DEF Add
<1> DEFINE first == Add(f.webdriver, 3200) + Add(f.noAgent, 1800) + Add(f.automation, 3000)
                    + Add(f.insecure, 500) + Add(f.noCrypto, 500) + Add(f.noWasm, 300)
           second == first + Add(f.cores, 1000) + Add(f.screen, 800) + Add(f.languages, 500)
                     + Add(f.platform, 1200) + Add(f.idle, 400) + Add(f.density, 800)
           third == second + Add(f.reputation, 48 * known.score) + Add(f.tor, 2200)
                    + Add(f.hosting, 1000) + Add(f.proxy, 700) + Add(f.abuse, 1200)
                    + Add(f.rate, 800)
<1>4. first \in Nat BY <1>2
<1> HIDE DEF first
<1>5. second \in Nat BY <1>2, <1>4
<1> HIDE DEF second
<1>6. third \in Nat BY <1>1, <1>3, <1>5
<1> QED BY <1>6 DEF GoSum, first, second

\* An outage of the engine changes no score and no decision: score.rs and scorer.go agree on
\* every input that the engine accepts, with any reputation.
THEOREM ScorersAgree ==
    \A input, known, policy :
        input.cores \in Int /\ known.score \in Nat /\ EngineAccepts(input, policy) =>
            /\ RustScore(input, known, policy) = GoScore(input, known, policy)
            /\ RustDecision(input, known, policy) = GoDecision(input, known, policy)
<1> SUFFICES ASSUME NEW input, NEW known, NEW policy,
                    input.cores \in Int, known.score \in Nat, EngineAccepts(input, policy)
             PROVE  RustScore(input, known, policy) = GoScore(input, known, policy)
    BY DEF RustDecision, GoDecision
<1> DEFINE sum == GoSum(GoRules(input, known, policy), known)
<1>1. RustSum(RustRules(input, known, policy), known) = sum BY RulesAgree
<1>2. sum \in Nat BY SumTyped
<1> HIDE DEF sum
<1>3. (IF (sum + 50) \div 100 > 100 THEN 100 ELSE (sum + 50) \div 100)
        = ((IF sum > 10000 THEN 10000 ELSE sum) + 50) \div 100
    BY <1>2
<1> QED BY <1>1, <1>3 DEF RustScore, GoScore, sum

-----------------------------------------------------------------------------
(* Scores in order.                                                          *)

\* Every set of numbers has a least one.
LEMMA LeastNumber ==
    ASSUME NEW T \in SUBSET Nat, T # {}
    PROVE  \E n \in T : \A m \in T : n <= m
<1>1. PICK n \in T : \A m \in T : <<m, n>> \notin OpToRel(<, Nat)
    BY WFMin, NatLessThanWellFounded
<1>2. \A m \in T : ~(m < n) BY <1>1 DEF OpToRel
<1>3. \A m \in T : m \in Nat OBVIOUS
<1> QED BY <1>2, <1>3

\* How many scores there are from s up, and above it.
AtLeast(score, s) == {i \in DOMAIN score : score[i] >= s}
Above(score, s) == {i \in DOMAIN score : score[i] > s}

\* Counts of finitely many scores are numbers.
LEMMA Counts ==
    ASSUME NEW score, IsFiniteSet(DOMAIN score), NEW s
    PROVE  /\ IsFiniteSet(AtLeast(score, s)) /\ Cardinality(AtLeast(score, s)) \in Nat
           /\ IsFiniteSet(Above(score, s)) /\ Cardinality(Above(score, s)) \in Nat
<1>1. AtLeast(score, s) \subseteq DOMAIN score /\ Above(score, s) \subseteq DOMAIN score
    BY DEF AtLeast, Above
<1> QED BY <1>1, FS_Subset, FS_CardinalityType

\* The scores sorted have an n-th: the highest that n of them reach.
LEMMA HighestExists ==
    ASSUME NEW score, IsFiniteSet(DOMAIN score), \A i \in DOMAIN score : score[i] \in 0 .. 100,
           NEW n \in 1 .. Cardinality(DOMAIN score)
    PROVE  \E i \in DOMAIN score : /\ Cardinality(Above(score, score[i])) < n
                                   /\ Cardinality(AtLeast(score, score[i])) >= n
<1> DEFINE D == DOMAIN score
           Enough == {i \in D : Cardinality(AtLeast(score, score[i])) >= n}
<1>1. D # {} /\ n \in Nat /\ Cardinality(D) \in Nat /\ Cardinality(D) >= n
    BY FS_EmptySet, FS_CardinalityType
<1>2. ASSUME NEW S \in SUBSET D, S # {}
      PROVE  \E i \in S : \A j \in S : score[i] <= score[j]
    <2>1. {score[i] : i \in S} \in SUBSET Nat /\ {score[i] : i \in S} # {} BY <1>2
    <2>2. PICK m \in {score[i] : i \in S} : \A k \in {score[i] : i \in S} : m <= k
        BY <2>1, LeastNumber
    <2> QED BY <2>2
<1>3. Enough # {}
    <2>1. PICK i \in D : \A j \in D : score[i] <= score[j] BY <1>1, <1>2
    <2>2. AtLeast(score, score[i]) = D BY <2>1 DEF AtLeast
    <2> QED BY <1>1, <2>2
<1>4. PICK i \in Enough : \A j \in Enough : score[j] <= score[i]
    <2> DEFINE T == {100 - score[j] : j \in Enough}
    <2>1. T \in SUBSET Nat /\ T # {} BY <1>3
    <2>2. PICK m \in T : \A k \in T : m <= k BY <2>1, LeastNumber
    <2>3. PICK i \in Enough : m = 100 - score[i] BY <2>2
    <2>4. \A j \in Enough : 100 - score[i] <= 100 - score[j] BY <2>2, <2>3
    <2> QED BY <2>4
<1>5. Cardinality(Above(score, score[i])) < n
    <2> SUFFICES ASSUME Cardinality(Above(score, score[i])) >= n PROVE FALSE
        BY <1>1, Counts
    <2>1. Above(score, score[i]) # {} BY <1>1, FS_EmptySet
    <2>2. Above(score, score[i]) \in SUBSET D BY DEF Above
    <2>3. PICK j \in Above(score, score[i]) :
              \A k \in Above(score, score[i]) : score[j] <= score[k]
        BY <1>2, <2>1, <2>2
    <2>4. Above(score, score[i]) \subseteq AtLeast(score, score[j]) BY <2>3 DEF Above, AtLeast
    <2>5. Cardinality(Above(score, score[i])) <= Cardinality(AtLeast(score, score[j]))
        BY <2>4, Counts, FS_Subset
    <2>6. Cardinality(AtLeast(score, score[j])) >= n BY <1>1, <2>5, Counts
    <2>7. j \in Enough /\ score[j] > score[i] BY <2>2, <2>6 DEF Above
    <2>8. score[i] \in 0 .. 100 /\ score[j] \in 0 .. 100 BY <2>2
    <2> QED BY <1>4, <2>7, <2>8
<1> QED BY <1>4, <1>5

\* There is one n-th: whatever meets its two counts is it.
LEMMA HighestIs ==
    ASSUME NEW score, IsFiniteSet(DOMAIN score), \A i \in DOMAIN score : score[i] \in 0 .. 100,
           NEW n \in 1 .. Cardinality(DOMAIN score), NEW i \in DOMAIN score,
           Cardinality(Above(score, score[i])) < n, Cardinality(AtLeast(score, score[i])) >= n
    PROVE  Highest(score, n) = score[i]
<1> DEFINE Nth(s) == /\ Cardinality({j \in DOMAIN score : score[j] > s}) < n
                     /\ Cardinality({j \in DOMAIN score : score[j] >= s}) >= n
           Scores == {score[j] : j \in DOMAIN score}
<1>1. score[i] \in Scores /\ Nth(score[i]) BY DEF Above, AtLeast
<1>2. n \in Nat BY FS_CardinalityType
<1>3. ASSUME NEW s \in Scores, NEW t \in Scores, Nth(s), Nth(t), s < t PROVE FALSE
    <2>1. s \in 0 .. 100 /\ t \in 0 .. 100 OBVIOUS
    <2>2. AtLeast(score, t) \subseteq Above(score, s) BY <1>3, <2>1 DEF AtLeast, Above
    <2>3. Cardinality(AtLeast(score, t)) <= Cardinality(Above(score, s))
        BY <2>2, Counts, FS_Subset
    <2>4. Cardinality(AtLeast(score, t)) >= n /\ Cardinality(Above(score, s)) < n
        BY <1>3 DEF AtLeast, Above
    <2> QED BY <1>2, <2>3, <2>4, Counts
<1> HIDE DEF Nth
<1>4. \A s \in Scores : Nth(s) => s = score[i]
    <2> SUFFICES ASSUME NEW s \in Scores, Nth(s) PROVE s = score[i]
        OBVIOUS
    <2>1. s \in 0 .. 100 /\ score[i] \in 0 .. 100 OBVIOUS
    <2>2. ~(s < score[i]) /\ ~(score[i] < s) BY <1>1, <1>3
    <2> QED BY <2>1, <2>2
<1>5. Highest(score, n) = CHOOSE s \in Scores : Nth(s) BY DEF Highest, Nth
<1> HIDE DEF Scores
<1> QED BY <1>1, <1>4, <1>5

\* The n-th highest score is a score.
LEMMA HighestScore ==
    ASSUME NEW score, IsFiniteSet(DOMAIN score), \A i \in DOMAIN score : score[i] \in 0 .. 100,
           NEW n \in 1 .. Cardinality(DOMAIN score)
    PROVE  Highest(score, n) \in 0 .. 100
BY HighestExists, HighestIs

\* What corresponds is equally many.
LEMMA CountSame ==
    ASSUME NEW D, NEW E, NEW f \in Bijection(D, E), IsFiniteSet(D),
           NEW A \in SUBSET D, NEW B \in SUBSET E, \A i \in D : i \in A <=> f[i] \in B
    PROVE  IsFiniteSet(B) /\ Cardinality(A) = Cardinality(B)
<1> DEFINE g == [i \in A |-> f[i]]
<1>1. f \in [D -> E] /\ (\A j \in E : \E i \in D : f[i] = j)
      /\ (\A i, j \in D : f[i] = f[j] => i = j)
    BY DEF Bijection, Injection, Surjection, IsInjective
<1>2. g \in Bijection(A, B)
    <2>1. g \in [A -> B] BY <1>1
    <2>2. \A j \in B : \E i \in A : g[i] = j BY <1>1
    <2>3. \A i, j \in A : g[i] = g[j] => i = j BY <1>1
    <2> QED BY <2>1, <2>2, <2>3 DEF Bijection, Injection, Surjection, IsInjective
<1>3. IsFiniteSet(A) BY FS_Subset
<1> QED BY <1>2, <1>3, FS_Bijection DEF ExistsBijection

\* Scores that correspond are the same when sorted.
LEMMA HighestSame ==
    ASSUME NEW a, NEW b, IsFiniteSet(DOMAIN a), \A i \in DOMAIN a : a[i] \in 0 .. 100,
           NEW f \in Bijection(DOMAIN a, DOMAIN b), \A i \in DOMAIN a : a[i] = b[f[i]],
           NEW n \in 1 .. Cardinality(DOMAIN a)
    PROVE  Highest(a, n) = Highest(b, n)
<1>1. f \in [DOMAIN a -> DOMAIN b] /\ (\A j \in DOMAIN b : \E i \in DOMAIN a : f[i] = j)
    BY DEF Bijection, Surjection
<1>2. \A j \in DOMAIN b : b[j] \in 0 .. 100 BY <1>1
<1>3. IsFiniteSet(DOMAIN b) /\ Cardinality(DOMAIN a) = Cardinality(DOMAIN b)
    <2>1. DOMAIN a \in SUBSET DOMAIN a /\ DOMAIN b \in SUBSET DOMAIN b
          /\ \A i \in DOMAIN a : i \in DOMAIN a <=> f[i] \in DOMAIN b
        BY <1>1
    <2> QED BY <2>1, CountSame
<1>4. ASSUME NEW s
      PROVE  /\ Cardinality(Above(a, s)) = Cardinality(Above(b, s))
             /\ Cardinality(AtLeast(a, s)) = Cardinality(AtLeast(b, s))
    <2>1. /\ Above(a, s) \in SUBSET DOMAIN a /\ AtLeast(a, s) \in SUBSET DOMAIN a
          /\ Above(b, s) \in SUBSET DOMAIN b /\ AtLeast(b, s) \in SUBSET DOMAIN b
        BY DEF Above, AtLeast
    <2>2. /\ \A i \in DOMAIN a : i \in Above(a, s) <=> f[i] \in Above(b, s)
          /\ \A i \in DOMAIN a : i \in AtLeast(a, s) <=> f[i] \in AtLeast(b, s)
        BY <1>1 DEF Above, AtLeast
    <2> QED BY <2>1, <2>2, CountSame
<1>5. PICK i \in DOMAIN a : /\ Cardinality(Above(a, a[i])) < n
                            /\ Cardinality(AtLeast(a, a[i])) >= n
    BY HighestExists
<1>6. Highest(a, n) = a[i] BY <1>5, HighestIs
<1>7. f[i] \in DOMAIN b /\ b[f[i]] = a[i] BY <1>1
<1>8. Highest(b, n) = b[f[i]]
    <2>1. /\ Cardinality(Above(b, b[f[i]])) < n /\ Cardinality(AtLeast(b, b[f[i]])) >= n
        BY <1>4, <1>5, <1>7
    <2>2. n \in 1 .. Cardinality(DOMAIN b) BY <1>3
    <2> QED BY <1>2, <1>3, <1>7, <2>1, <2>2, HighestIs
<1> QED BY <1>6, <1>7, <1>8

-----------------------------------------------------------------------------
(* Results and their aggregate.                                              *)

\* Cutting and rounding give integers.
LEMMA Clamped == ASSUME NEW n \in Int PROVE Clamp(n) \in 0 .. 100
BY DEF Clamp

LEMMA Rounded == ASSUME NEW n \in Int, NEW d \in Nat \ {0} PROVE RoundEven(n, d) \in Int
BY DEF RoundEven

\* What a provider found is no warning, and its scores are numbers.
LEMMA ResultTyped ==
    ASSUME answers.abuseipdb.confidence \in Int, answers.ipqs.fraud \in Int, NEW p \in Provider
    PROVE  ~Result(p).warning /\ Result(p).score \in Int /\ Result(p).abuse \in Int
<1>1. CASE p = "local"
    <2> DEFINE s == IF in.agent \in Tools THEN 30 ELSE 0
    <2>1. Result(p) = ProviderResult(s, 0, FALSE, FALSE, FALSE, FALSE)
        BY <1>1 DEF Result, LocalResult
    <2>2. s \in Int OBVIOUS
    <2> HIDE DEF s
    <2> QED BY <2>1, <2>2 DEF ProviderResult
<1>2. CASE p = "abuseipdb"
    <2> DEFINE a == answers.abuseipdb
               s == RoundEven(85 * a.confidence + (IF a.hosting THEN 1000 ELSE 0), 100)
    <2>1. Result(p) = ProviderResult(Clamp(s), a.confidence, FALSE, FALSE, FALSE, a.hosting)
        BY <1>2 DEF Result, AbuseIPDBResult
    <2>2. s \in Int BY Rounded
    <2> HIDE DEF s
    <2>3. Clamp(s) \in Int BY <2>2, Clamped
    <2> QED BY <2>1, <2>3 DEF ProviderResult
<1>3. CASE p = "ipqs"
    BY <1>3 DEF Result, IPQSResult, ProviderResult
<1>4. CASE p = "maxmind"
    <2>1. MaxMindScore(answers.maxmind) \in Int BY DEF MaxMindScore, Worth
    <2>2. Result(p) = MaxMindResult(answers.maxmind) BY <1>4 DEF Result
    <2> QED BY <2>1, <2>2, Clamped DEF MaxMindResult, ProviderResult
<1> QED BY <1>1, <1>2, <1>3, <1>4 DEF Provider, Vendor

\* The scores of the results that count are numbers.
Readable(given) == \A i \in Good(given) : given[i].score \in Int /\ given[i].abuse \in Int

\* The aggregate keeps to 0 .. 100.
LEMMA CombinedTyped ==
    ASSUME NEW given, IsFiniteSet(DOMAIN given), Readable(given)
    PROVE  Combined(given).score \in 0 .. 100 /\ Combined(given).abuse \in 0 .. 100
<1> DEFINE good == Good(given)
           scores == [i \in good |-> Clamp(given[i].score)]
           abuses == [i \in good |-> Clamp(given[i].abuse)]
<1>1. CASE good = {} BY <1>1 DEF Combined, Clean
<1>2. CASE good # {}
    <2>1. IsFiniteSet(good)
        <3>1. good \subseteq DOMAIN given BY DEF Good
        <3> QED BY <3>1, FS_Subset
    <2>2. Cardinality(good) \in Nat \ {0} BY <1>2, <2>1, FS_CardinalityType, FS_EmptySet
    <2>3. (\A i \in good : scores[i] \in 0 .. 100) /\ (\A i \in good : abuses[i] \in 0 .. 100)
        BY Clamped DEF Readable
    <2>4. DOMAIN scores = good /\ DOMAIN abuses = good OBVIOUS
    <2>5. /\ Combined(given).score = MaxPlusConsensus(scores)
          /\ Combined(given).abuse = Highest(abuses, 1)
        BY <1>2 DEF Combined
    <2> HIDE DEF good, scores, abuses
    <2>6. Highest(abuses, 1) \in 0 .. 100
        <3>1. 1 \in 1 .. Cardinality(DOMAIN abuses) BY <2>2, <2>4
        <3> QED BY <2>1, <2>3, <2>4, <3>1, HighestScore
    <2>7. MaxPlusConsensus(scores) \in 0 .. 100
        <3> DEFINE n == Cardinality(DOMAIN scores)
                   consensus == IF n = 1 THEN 0
                                ELSE IF n = 2 THEN 2 * Highest(scores, 2)
                                ELSE Highest(scores, 2) + Highest(scores, 3)
        <3>1. \A k \in 1 .. n : Highest(scores, k) \in 0 .. 100
            BY <2>1, <2>3, <2>4, HighestScore
        <3>2. n \in Nat \ {0} BY <2>2, <2>4
        <3> HIDE DEF n
        <3>3. consensus \in Int BY <3>1, <3>2
        <3>4. MaxPlusConsensus(scores) = Clamp(RoundEven(6 * Highest(scores, 1) + consensus, 8))
            BY DEF MaxPlusConsensus, n
        <3> HIDE DEF consensus
        <3> DEFINE sum == 6 * Highest(scores, 1) + consensus
        <3>5. sum \in Int BY <3>1, <3>2, <3>3
        <3> HIDE DEF sum
        <3>6. RoundEven(sum, 8) \in Int BY <3>5, Rounded
        <3>7. Clamp(RoundEven(sum, 8)) \in 0 .. 100 BY <3>6, Clamped
        <3> QED BY <3>4, <3>7 DEF sum
    <2> QED BY <2>5, <2>6, <2>7
<1> QED BY <1>1, <1>2

\* Results that correspond, those with a warning apart, have the same aggregate.
LEMMA CombinedSame ==
    ASSUME NEW a, NEW b, IsFiniteSet(Good(a)), Readable(a),
           NEW f \in Bijection(Good(a), Good(b)), \A i \in Good(a) : a[i] = b[f[i]]
    PROVE  Combined(a) = Combined(b)
<1> DEFINE D == Good(a)
           E == Good(b)
           scoresA == [i \in D |-> Clamp(a[i].score)]
           scoresB == [i \in E |-> Clamp(b[i].score)]
           abusesA == [i \in D |-> Clamp(a[i].abuse)]
           abusesB == [i \in E |-> Clamp(b[i].abuse)]
<1>1. f \in [D -> E] /\ (\A j \in E : \E i \in D : f[i] = j)
    BY DEF Bijection, Surjection
<1>2. D = {} <=> E = {} BY <1>1
<1>3. CASE D = {} BY <1>2, <1>3 DEF Combined
<1>4. CASE D # {}
    <2>1. Cardinality(D) \in Nat \ {0} BY <1>4, FS_CardinalityType, FS_EmptySet
    <2>2. Cardinality(D) = Cardinality(E) BY FS_Bijection DEF ExistsBijection
    <2>3. /\ DOMAIN scoresA = D /\ DOMAIN scoresB = E
          /\ DOMAIN abusesA = D /\ DOMAIN abusesB = E
        OBVIOUS
    <2>4. /\ \A i \in D : scoresA[i] = scoresB[f[i]] /\ scoresA[i] \in 0 .. 100
          /\ \A i \in D : abusesA[i] = abusesB[f[i]] /\ abusesA[i] \in 0 .. 100
        BY <1>1, Clamped DEF Readable
    <2>5. \A flag : (\E i \in D : a[i][flag]) <=> (\E j \in E : b[j][flag])
        BY <1>1
    <2> DEFINE SomeA(flag) == \E i \in D : a[i][flag]
               SomeB(flag) == \E j \in E : b[j][flag]
    <2>6. Combined(a) = [score |-> MaxPlusConsensus(scoresA), abuse |-> Highest(abusesA, 1),
                         proxy |-> SomeA("proxy"), vpn |-> SomeA("vpn"), tor |-> SomeA("tor"),
                         hosting |-> SomeA("hosting")]
        BY <1>4, Zenon DEF Combined
    <2>7. Combined(b) = [score |-> MaxPlusConsensus(scoresB), abuse |-> Highest(abusesB, 1),
                         proxy |-> SomeB("proxy"), vpn |-> SomeB("vpn"), tor |-> SomeB("tor"),
                         hosting |-> SomeB("hosting")]
        BY <1>2, <1>4, Zenon DEF Combined
    <2>8. \A flag : SomeA(flag) = SomeB(flag) BY <2>5
    <2> HIDE DEF scoresA, scoresB, abusesA, abusesB, D, E, SomeA, SomeB
    <2>9. \A n \in 1 .. Cardinality(D) :
              /\ Highest(scoresA, n) = Highest(scoresB, n)
              /\ Highest(abusesA, n) = Highest(abusesB, n)
        BY <2>3, <2>4, HighestSame DEF D, E
    <2>10. MaxPlusConsensus(scoresA) = MaxPlusConsensus(scoresB)
        <3> DEFINE n == Cardinality(D)
        <3>1. n \in Nat \ {0} /\ \A k \in 1 .. n : Highest(scoresA, k) = Highest(scoresB, k)
            BY <2>1, <2>9
        <3>2. Cardinality(DOMAIN scoresA) = n /\ Cardinality(DOMAIN scoresB) = n BY <2>2, <2>3
        <3> HIDE DEF n
        <3>3. Highest(scoresA, 1) = Highest(scoresB, 1) BY <3>1
        <3>4. CASE n = 1 BY <3>2, <3>3, <3>4 DEF MaxPlusConsensus
        <3>5. CASE n = 2
            <4>1. Highest(scoresA, 2) = Highest(scoresB, 2) BY <3>1, <3>5
            <4> QED BY <3>2, <3>3, <3>5, <4>1 DEF MaxPlusConsensus
        <3>6. CASE n > 2
            <4>1. /\ Highest(scoresA, 2) = Highest(scoresB, 2)
                  /\ Highest(scoresA, 3) = Highest(scoresB, 3)
                BY <3>1, <3>6
            <4> QED BY <3>2, <3>3, <3>6, <4>1 DEF MaxPlusConsensus
        <3> QED BY <3>1, <3>4, <3>5, <3>6
    <2>11. Highest(abusesA, 1) = Highest(abusesB, 1) BY <2>1, <2>9
    <2> QED BY <2>6, <2>7, <2>8, <2>10, <2>11
<1> QED BY <1>3, <1>4

-----------------------------------------------------------------------------
(* The invariant.                                                            *)

Outcomes == {Warning} \cup {Result(p) : p \in Provider}

\* What came of asking p.
Given(p) == IF p \in failed THEN Warning ELSE Result(p)

\* The request is one of the cases.
Posed == \E c \in Cases : in = c.in /\ answers = c.answers /\ site = c.site

\* The results are those of the providers that came, one of each, in some order.
Arrived ==
    /\ came \subseteq Provider /\ failed \subseteq came
    /\ results \in Seq(Outcomes)
    /\ \E who \in Bijection(1 .. Len(results), came) :
          \A i \in 1 .. Len(results) : results[i] = Given(who[i])

\* What is known and decided at each place.
Judged ==
    /\ pc \in {"lookup", "score", "decided"}
    /\ pc = "lookup" => rep = Clean
    /\ rep \in {Clean, Combined(ResultsOf(came \ failed))}
    /\ IF pc = "decided" THEN decision = GoDecision(in, rep, site) ELSE decision = "none"

IInv == Posed /\ Arrived /\ Judged

\* What every case gives.
LEMMA PosedTyped ==
    ASSUME Posed
    PROVE  /\ answers.abuseipdb.confidence \in Int /\ answers.ipqs.fraud \in Int
           /\ in.cores \in Int /\ in.screen \in Int /\ in.dwell \in Int
           /\ in.pointer \in Int /\ in.keys \in Int /\ in.rate \in Int
           /\ site.limit \in Int /\ site.thresholds \in [pow : Int, interactive : Int, block : Int]
           /\ Config!ValidThresholds(site.thresholds)
BY AssessmentAssumption DEF Posed

\* One more result, of a provider that had not come.
LEMMA ArrivedStep ==
    ASSUME Arrived, NEW p \in Provider, p \notin came, NEW r \in Outcomes,
           results' = Append(results, r), came' = came \cup {p}, failed' \subseteq came',
           Outcomes' = Outcomes, \A q \in came : Given(q)' = Given(q), Given(p)' = r
    PROVE  Arrived'
<1>1. PICK n \in Nat : n = Len(results) BY DEF Arrived
<1>2. PICK who \in Bijection(1 .. n, came) : \A i \in 1 .. n : results[i] = Given(who[i])
    BY <1>1 DEF Arrived
<1>3. /\ who \in [1 .. n -> came] /\ (\A q \in came : \E i \in 1 .. n : who[i] = q)
      /\ (\A i, j \in 1 .. n : who[i] = who[j] => i = j)
    BY <1>2 DEF Bijection, Injection, Surjection, IsInjective
<1>4. /\ results' \in Seq(Outcomes) /\ Len(results') = n + 1 /\ results'[n + 1] = r
      /\ \A i \in 1 .. n : results'[i] = results[i]
    BY <1>1, AppendProperties DEF Arrived
<1> DEFINE next == [i \in 1 .. n + 1 |-> IF i = n + 1 THEN p ELSE who[i]]
<1>5. next \in Bijection(1 .. n + 1, came')
    <2>1. next \in [1 .. n + 1 -> came'] BY <1>1, <1>3
    <2>2. \A q \in came' : \E i \in 1 .. n + 1 : next[i] = q
        <3> TAKE q \in came'
        <3>1. CASE q = p BY <1>1, <3>1
        <3>2. CASE q \in came
            <4>1. PICK i \in 1 .. n : who[i] = q BY <1>3, <3>2
            <4> QED BY <1>1, <4>1
        <3> QED BY <3>1, <3>2
    <2>3. \A i, j \in 1 .. n + 1 : next[i] = next[j] => i = j BY <1>1, <1>3
    <2> QED BY <2>1, <2>2, <2>3 DEF Bijection, Injection, Surjection, IsInjective
<1>6. \A i \in 1 .. n + 1 : results'[i] = Given(next[i])'
    <2> TAKE i \in 1 .. n + 1
    <2>1. CASE i = n + 1 BY <1>1, <1>4, <2>1
    <2>2. CASE i \in 1 .. n
        <3>1. next[i] = who[i] /\ who[i] \in came BY <1>1, <1>3, <2>2
        <3>2. results'[i] = Given(who[i]) BY <1>2, <1>4, <2>2
        <3> QED BY <3>1, <3>2
    <2> QED BY <1>1, <2>1, <2>2
<1>7. came' \subseteq Provider BY DEF Arrived
<1> HIDE DEF next
<1> QED BY <1>4, <1>5, <1>6, <1>7 DEF Arrived

\* Where Listed has p.
Place(p) ==
    IF p = "local" THEN 1 ELSE IF p = "abuseipdb" THEN 2 ELSE IF p = "ipqs" THEN 3 ELSE 4

\* Listed has each provider at one place.
LEMMA Places ==
    /\ DOMAIN Listed = 1 .. 4
    /\ \A p \in Provider : Place(p) \in 1 .. 4 /\ Listed[Place(p)] = p
    /\ \A i \in 1 .. 4 : Listed[i] \in Provider /\ Place(Listed[i]) = i
BY DEF Listed, Place, Provider, Vendor

\* What ResultsOf says of some providers: no warning, and numbers for scores.
LEMMA ResultsOfGood ==
    ASSUME Posed, NEW ps \in SUBSET Provider
    PROVE  /\ DOMAIN ResultsOf(ps) = {i \in 1 .. 4 : Listed[i] \in ps}
           /\ \A i \in DOMAIN ResultsOf(ps) : ResultsOf(ps)[i] = Result(Listed[i])
           /\ IsFiniteSet(DOMAIN ResultsOf(ps))
           /\ Good(ResultsOf(ps)) = DOMAIN ResultsOf(ps)
           /\ Readable(ResultsOf(ps))
<1>1. /\ DOMAIN ResultsOf(ps) = {i \in 1 .. 4 : Listed[i] \in ps}
      /\ \A i \in DOMAIN ResultsOf(ps) : ResultsOf(ps)[i] = Result(Listed[i])
    BY Places DEF ResultsOf
<1>2. IsFiniteSet(DOMAIN ResultsOf(ps))
    <2>1. DOMAIN ResultsOf(ps) \subseteq 1 .. 4 BY <1>1
    <2>2. \A k \in Nat : IsFiniteSet(1 .. k) BY FS_Interval
    <2>3. IsFiniteSet(1 .. 4) BY <2>2
    <2> QED BY <2>1, <2>3, FS_Subset
<1>3. \A i \in DOMAIN ResultsOf(ps) :
          ~Result(Listed[i]).warning /\ Result(Listed[i]).score \in Int
          /\ Result(Listed[i]).abuse \in Int
    BY <1>1, Places, PosedTyped, ResultTyped
<1>4. Good(ResultsOf(ps)) = DOMAIN ResultsOf(ps) BY <1>1, <1>3 DEF Good
<1>5. Readable(ResultsOf(ps)) BY <1>1, <1>3, <1>4 DEF Readable
<1> QED BY <1>1, <1>2, <1>4, <1>5

\* In whatever order the results came, and with or without the warning of the deadline, they
\* combine to the aggregate of those who answered.
LEMMA CombinedInAnyOrder ==
    ASSUME Posed, Arrived
    PROVE  /\ Combined(results) = Combined(ResultsOf(came \ failed))
           /\ Combined(Append(results, Warning)) = Combined(ResultsOf(came \ failed))
<1> DEFINE n == Len(results)
           ps == came \ failed
           listed == ResultsOf(ps)
<1>1. PICK who \in Bijection(1 .. n, came) : \A i \in 1 .. n : results[i] = Given(who[i])
    BY DEF Arrived
<1>2. n \in Nat /\ DOMAIN results = 1 .. n BY DEF Arrived
<1>3. /\ who \in [1 .. n -> came] /\ (\A q \in came : \E i \in 1 .. n : who[i] = q)
      /\ (\A i, j \in 1 .. n : who[i] = who[j] => i = j)
    BY <1>1 DEF Bijection, Injection, Surjection, IsInjective
<1>4. ps \in SUBSET Provider /\ came \subseteq Provider BY DEF Arrived
<1>5. Warning.warning BY DEF Warning, Blank, ProviderResult
<1>6. \A q \in Provider :
          /\ ~Result(q).warning /\ Result(q).score \in Int /\ Result(q).abuse \in Int
    BY PosedTyped, ResultTyped
<1> HIDE DEF n
<1> DEFINE good == {i \in 1 .. n : who[i] \in ps}
<1>7. \A i \in 1 .. n : IF who[i] \in ps THEN results[i] = Result(who[i]) ELSE results[i] = Warning
    BY <1>1, <1>3 DEF Given
<1>8. Good(results) = good BY <1>2, <1>3, <1>4, <1>5, <1>6, <1>7 DEF Good
<1> DEFINE f == [i \in good |-> Place(who[i])]
<1>9. /\ DOMAIN listed = {i \in 1 .. 4 : Listed[i] \in ps} /\ Good(listed) = DOMAIN listed
      /\ \A i \in DOMAIN listed : listed[i] = Result(Listed[i])
    BY <1>4, ResultsOfGood
<1> HIDE DEF listed, ps
<1>10. f \in Bijection(good, Good(listed))
    <2>1. \A i \in good : Place(who[i]) \in Good(listed) BY <1>4, <1>9, Places
    <2>2. f \in [good -> Good(listed)] BY <2>1
    <2>3. \A j \in Good(listed) : \E i \in good : f[i] = j
        <3> TAKE j \in Good(listed)
        <3>1. j \in 1 .. 4 /\ Listed[j] \in ps BY <1>9
        <3>2. Listed[j] \in came BY <3>1 DEF ps
        <3>3. PICK i \in 1 .. n : who[i] = Listed[j] BY <1>3, <3>2
        <3>4. i \in good /\ f[i] = j BY <3>1, <3>3, Places
        <3> QED BY <3>4
    <2>4. \A i, j \in good : f[i] = f[j] => i = j
        <3> TAKE i \in good, j \in good
        <3>1. who[i] \in Provider /\ who[j] \in Provider BY <1>4
        <3>2. Place(who[i]) = Place(who[j]) => who[i] = who[j] BY <3>1, Places
        <3> QED BY <1>3, <3>2
    <2> QED BY <2>2, <2>3, <2>4 DEF Bijection, Injection, Surjection, IsInjective
<1>11. \A i \in good : results[i] = Result(who[i]) /\ listed[f[i]] = Result(who[i])
    <2> TAKE i \in good
    <2>1. who[i] \in Provider BY <1>4
    <2>2. f[i] = Place(who[i]) /\ f[i] \in DOMAIN listed BY <1>4, <1>9, <2>1, Places
    <2> QED BY <1>7, <1>9, <2>1, <2>2, Places
<1>12. IsFiniteSet(good)
    <2>1. good \subseteq 1 .. n OBVIOUS
    <2> QED BY <1>2, <2>1, FS_Interval, FS_Subset
<1>13. \A i \in good : results[i].score \in Int /\ results[i].abuse \in Int
    BY <1>4, <1>6, <1>11
<1> HIDE DEF f
<1>14. Combined(results) = Combined(listed)
    <2>1. Readable(results) BY <1>8, <1>13 DEF Readable
    <2>2. /\ IsFiniteSet(Good(results)) /\ f \in Bijection(Good(results), Good(listed))
          /\ \A i \in Good(results) : results[i] = listed[f[i]]
        BY <1>8, <1>10, <1>11, <1>12
    <2> QED BY <2>1, <2>2, CombinedSame
<1>15. Combined(Append(results, Warning)) = Combined(listed)
    <2> DEFINE more == Append(results, Warning)
    <2>1. /\ DOMAIN more = 1 .. n + 1 /\ more[n + 1] = Warning
          /\ \A i \in 1 .. n : more[i] = results[i]
        <3>1. Warning \in Outcomes BY DEF Outcomes
        <3> QED BY <3>1, AppendProperties DEF Arrived, n
    <2> HIDE DEF more
    <2>2. Good(more) = Good(results) BY <1>2, <1>5, <2>1 DEF Good
    <2>3. \A i \in good : more[i] = results[i] BY <2>1
    <2>4. Readable(more) BY <1>8, <1>13, <2>2, <2>3 DEF Readable
    <2>5. /\ IsFiniteSet(Good(more)) /\ f \in Bijection(Good(more), Good(listed))
          /\ \A i \in Good(more) : more[i] = listed[f[i]]
        BY <1>8, <1>10, <1>11, <1>12, <2>2, <2>3
    <2>6. Combined(more) = Combined(listed) BY <2>4, <2>5, CombinedSame
    <2> QED BY <2>6 DEF more
<1> QED BY <1>14, <1>15 DEF listed, ps

-----------------------------------------------------------------------------
(* The steps.                                                                *)

\* The reputation in use keeps to 0 .. 100.
LEMMA RepTyped ==
    ASSUME IInv
    PROVE  rep.score \in 0 .. 100 /\ rep.abuse \in 0 .. 100
<1>1. came \ failed \in SUBSET Provider BY DEF IInv, Arrived
<1>2. /\ Combined(ResultsOf(came \ failed)).score \in 0 .. 100
      /\ Combined(ResultsOf(came \ failed)).abuse \in 0 .. 100
    BY <1>1, ResultsOfGood, CombinedTyped DEF IInv
<1>3. Clean.score \in 0 .. 100 /\ Clean.abuse \in 0 .. 100 BY DEF Clean
<1> QED BY <1>2, <1>3 DEF IInv, Judged

\* The providers' results follow from the request alone.
LEMMA ResultSame ==
    ASSUME in' = in, answers' = answers
    PROVE  /\ \A p : Result(p)' = Result(p)
           /\ Outcomes' = Outcomes
           /\ \A ps : ResultsOf(ps)' = ResultsOf(ps)
<1>1. \A p : Result(p)' = Result(p) BY DEF Result
<1>2. Outcomes' = Outcomes BY <1>1 DEF Outcomes
<1>3. \A ps : ResultsOf(ps)' = ResultsOf(ps) BY <1>1 DEF ResultsOf
<1> QED BY <1>1, <1>2, <1>3

\* Arrived reads nothing else.
LEMMA ArrivedSame ==
    ASSUME Arrived, UNCHANGED <<in, answers, results, came, failed>>
    PROVE  Arrived'
<1>1. \A p : Given(p)' = Given(p) BY ResultSame DEF Given
<1> QED BY <1>1, ResultSame DEF Arrived

\* So does the aggregate that Judged compares with.
LEMMA JudgedSame ==
    ASSUME UNCHANGED <<in, answers, came, failed>>
    PROVE  Combined(ResultsOf(came \ failed))' = Combined(ResultsOf(came \ failed))
<1>1. ResultsOf(came \ failed)' = ResultsOf(came \ failed) BY ResultSame
<1> QED BY <1>1

LEMMA IInvInit == Init => IInv
<1> SUFFICES ASSUME Init PROVE IInv
    OBVIOUS
<1>1. Posed BY DEF Init, Posed
<1>2. Arrived
    <2>1. results = <<>> /\ Len(results) = 0 /\ came = {} /\ failed = {} BY DEF Init
    <2>2. results \in Seq(Outcomes) BY <2>1
    <2> DEFINE who == [i \in 1 .. 0 |-> "local"]
    <2>3. who \in Bijection(1 .. 0, {}) BY DEF Bijection, Injection, Surjection, IsInjective
    <2>4. \A i \in 1 .. 0 : results[i] = Given(who[i]) OBVIOUS
    <2> HIDE DEF who
    <2> QED BY <2>1, <2>2, <2>3, <2>4 DEF Arrived
<1>3. Judged BY DEF Init, Judged
<1> QED BY <1>1, <1>2, <1>3 DEF IInv

LEMMA IInvNext == IInv /\ [Next]_vars => IInv'
<1> SUFFICES ASSUME IInv, [Next]_vars PROVE IInv'
    OBVIOUS
<1>1. UNCHANGED <<in, site, answers>>
    BY DEF Next, vars, Respond, Fail, Aggregated, NoReputation, ScoreRemote, ScoreLocal
<1>2. Posed' BY <1>1 DEF IInv, Posed
<1>3. Arrived /\ Judged BY DEF IInv
<1>4. ASSUME NEW p \in Provider, Respond(p) PROVE Arrived' /\ Judged'
    <2>1. /\ p \notin came /\ results' = Append(results, Result(p)) /\ came' = came \cup {p}
          /\ failed' = failed /\ failed \subseteq came
        BY <1>3, <1>4 DEF Respond, Arrived
    <2>2. Result(p) \in Outcomes BY DEF Outcomes
    <2>3. \A q \in came : Given(q)' = Given(q) BY <1>1, <2>1, ResultSame DEF Given
    <2>4. Given(p)' = Result(p) BY <1>1, <2>1, ResultSame DEF Given
    <2>5. Arrived' BY <1>1, <1>3, <2>1, <2>2, <2>3, <2>4, ResultSame, ArrivedStep
    <2>6. Judged' BY <1>3, <1>4 DEF Respond, Judged
    <2> QED BY <2>5, <2>6
<1>5. ASSUME NEW p \in Provider, Fail(p) PROVE Arrived' /\ Judged'
    <2>1. /\ p \notin came /\ results' = Append(results, Warning) /\ came' = came \cup {p}
          /\ failed' = failed \cup {p} /\ failed \subseteq came
        BY <1>3, <1>5 DEF Fail, Arrived
    <2>2. Warning \in Outcomes BY DEF Outcomes
    <2>3. \A q \in came : Given(q)' = Given(q) BY <1>1, <2>1, ResultSame DEF Given
    <2>4. Given(p)' = Warning BY <2>1 DEF Given
    <2>5. Arrived' BY <1>1, <1>3, <2>1, <2>2, <2>3, <2>4, ResultSame, ArrivedStep
    <2>6. Judged' BY <1>3, <1>5 DEF Fail, Judged
    <2> QED BY <2>5, <2>6
<1>6. ASSUME UNCHANGED <<results, came, failed>> PROVE Arrived'
    BY <1>1, <1>3, <1>6, ArrivedSame
<1>7. ASSUME UNCHANGED <<came, failed>>
      PROVE  Combined(ResultsOf(came \ failed))' = Combined(ResultsOf(came \ failed))
    BY <1>1, <1>7, JudgedSame
<1>8. CASE Aggregated
    <2>1. UNCHANGED <<results, came, failed, decision>> /\ pc = "lookup" /\ pc' = "score"
        BY <1>8 DEF Aggregated
    <2>2. rep' = Combined(ResultsOf(came \ failed))
        BY <1>8, CombinedInAnyOrder DEF Aggregated, IInv
    <2>3. Judged' BY <1>3, <1>7, <2>1, <2>2 DEF Judged
    <2> QED BY <1>2, <1>6, <2>1, <2>3 DEF IInv
<1>9. CASE NoReputation
    <2>1. UNCHANGED <<results, came, failed, rep, decision>> /\ pc = "lookup" /\ pc' = "score"
        BY <1>9 DEF NoReputation
    <2>2. Judged' BY <1>3, <1>7, <2>1 DEF Judged
    <2> QED BY <1>2, <1>6, <2>1, <2>2 DEF IInv
<1>10. CASE ScoreRemote \/ ScoreLocal
    <2>1. UNCHANGED <<results, came, failed, rep>> /\ pc = "score" /\ pc' = "decided"
        BY <1>10 DEF ScoreRemote, ScoreLocal
    <2>2. decision' = GoDecision(in, rep, site)
        <3>1. rep.score \in Nat /\ in.cores \in Int BY RepTyped, PosedTyped DEF IInv
        <3>2. EngineAccepts(in, site) => RustDecision(in, rep, site) = GoDecision(in, rep, site)
            BY <3>1, ScorersAgree
        <3> QED BY <1>10, <3>2 DEF ScoreRemote, ScoreLocal
    <2>3. Judged' BY <1>1, <1>3, <1>7, <2>1, <2>2 DEF Judged
    <2> QED BY <1>2, <1>6, <2>1, <2>3 DEF IInv
<1>11. CASE UNCHANGED vars
    <2>1. UNCHANGED <<results, came, failed, rep, pc, decision>> BY <1>11 DEF vars
    <2>2. Judged' BY <1>1, <1>3, <1>7, <2>1 DEF Judged
    <2> QED BY <1>2, <1>6, <2>1, <2>2 DEF IInv
<1> QED BY <1>2, <1>4, <1>5, <1>8, <1>9, <1>10, <1>11 DEF Next, IInv

LEMMA IInvAlways == Spec => []IInv
BY IInvInit, IInvNext, PTL DEF Spec

-----------------------------------------------------------------------------
(* The theorems.                                                             *)

\* service.lookup, models.aggregate: one result for each provider that came, and a reputation
\* within 0 .. 100, for any cases.
THEOREM TypeCorrect == Spec => []TypeOK
<1>1. ASSUME IInv PROVE TypeOK
    <2>1. Len(results) = Cardinality(came)
        <3>1. PICK who \in Bijection(1 .. Len(results), came) : TRUE BY <1>1 DEF IInv, Arrived
        <3>2. Len(results) \in Nat BY <1>1 DEF IInv, Arrived
        <3>3. IsFiniteSet(1 .. Len(results)) /\ Cardinality(1 .. Len(results)) = Len(results)
            BY <3>2, FS_Interval
        <3> QED BY <3>1, <3>3, FS_Bijection DEF ExistsBijection
    <2>2. decision \in {"none", "allow", "pow", "interactive", "block"}
        BY <1>1 DEF IInv, Judged, GoDecision, Decide
    <2>3. rep.score \in 0 .. 100 BY <1>1, RepTyped
    <2> QED BY <1>1, <2>1, <2>2, <2>3 DEF IInv, Arrived, Judged, TypeOK
<1> QED BY <1>1, IInvAlways, PTL

\* models.aggregate, remote.go: the verdict depends neither on the order of the results nor on
\* the engine's health.
THEOREM OneVerdictProved == Spec => []OneVerdict
<1>1. IInv => OneVerdict BY DEF IInv, Judged, OneVerdict
<1> QED BY <1>1, IInvAlways, PTL

\* The thresholds of a site that started are numbers in order.
LEMMA Threshold ==
    ASSUME Posed
    PROVE  /\ site.thresholds.pow \in Int /\ site.thresholds.interactive \in Int
           /\ site.thresholds.block \in Int
           /\ site.thresholds.pow < site.thresholds.interactive
           /\ site.thresholds.interactive < site.thresholds.block
BY PosedTyped DEF Config!ValidThresholds

\* What the invariant says of a visitor whose behaviour alone is suspicious.
LEMMA BehaviourAllowed == IInv => BehaviourAlone
<1> SUFFICES ASSUME IInv, pc = "decided", site.thresholds.pow > 8,
                    Fired(GoRules(in, rep, site)) \subseteq {"idle", "density"}
             PROVE  decision = "allow"
    BY DEF BehaviourAlone
<1> DEFINE f == GoRules(in, rep, site)
           sum == GoSum(f, rep)
<1>1. /\ ~f.webdriver /\ ~f.noAgent /\ ~f.automation /\ ~f.insecure /\ ~f.noCrypto /\ ~f.noWasm
      /\ ~f.cores /\ ~f.screen /\ ~f.languages /\ ~f.platform
      /\ ~f.reputation /\ ~f.tor /\ ~f.hosting /\ ~f.proxy /\ ~f.abuse /\ ~f.rate
    <2>1. DOMAIN f = {"webdriver", "noAgent", "automation", "insecure", "noCrypto", "noWasm",
                      "cores", "screen", "languages", "platform", "idle", "density",
                      "reputation", "tor", "hosting", "proxy", "abuse", "rate"}
        BY DEF GoRules
    <2> HIDE DEF f
    <2>2. \A t \in DOMAIN f : t \notin {"idle", "density"} => ~f[t] BY DEF Fired, f
    <2> QED BY <2>1, <2>2
<1>2. ~(f.idle /\ f.density)
    <2>1. in.dwell \in Int /\ in.pointer \in Int BY PosedTyped DEF IInv
    <2>2. f.idle => in.dwell > 1500 BY DEF GoRules
    <2>3. f.density = (in.pointer > 5000 /\ in.dwell < 1000) BY DEF GoRules
    <2> HIDE DEF f
    <2>4. ASSUME f.density PROVE in.dwell < 1000
        <3>1. CASE in.dwell < 1000 BY <3>1
        <3>2. CASE ~(in.dwell < 1000)
            <4>1. ~(in.pointer > 5000 /\ in.dwell < 1000) BY <3>2
            <4>2. (in.pointer > 5000 /\ in.dwell < 1000) = FALSE BY <4>1
            <4> QED BY <2>3, <2>4, <4>2
        <3> QED BY <3>1, <3>2
    <2> QED BY <2>1, <2>2, <2>4
<1> HIDE DEF f
<1>3. sum = 0 \/ sum = 400 \/ sum = 800 BY <1>1, <1>2 DEF GoSum, Add
<1> HIDE DEF sum
<1>4. GoScore(in, rep, site) <= 8 /\ GoScore(in, rep, site) \in Int
    BY <1>3 DEF GoScore, sum, f
<1>5. decision = Decide(GoScore(in, rep, site), site.thresholds)
    BY DEF IInv, Judged, GoDecision
<1> QED BY <1>4, <1>5, Threshold DEF IInv, Decide

\* score.rs, scorer.go: the two rules about behaviour exclude each other, so behaviour alone
\* adds 8 points at most and asks nothing of a visitor where the first threshold is above 8.
THEOREM BehaviourAloneProved == Spec => []BehaviourAlone
BY BehaviourAllowed, IInvAlways, PTL

\* Of scores that are zero but for one, the highest counts for three quarters.
LEMMA LoneScore ==
    ASSUME NEW score, IsFiniteSet(DOMAIN score), DOMAIN score # {},
           \A i \in DOMAIN score : score[i] \in 0 .. 100,
           \A i, j \in DOMAIN score : i # j => score[i] = 0 \/ score[j] = 0
    PROVE  MaxPlusConsensus(score) \in 0 .. 75
<1> DEFINE n == Cardinality(DOMAIN score)
<1>1. n \in Nat \ {0} BY FS_CardinalityType, FS_EmptySet
<1>2. ASSUME NEW k \in 2 .. n PROVE Highest(score, k) = 0
    <2>1. k \in 1 .. n /\ k \in Nat /\ k >= 2 BY <1>1
    <2>2. PICK i \in DOMAIN score : /\ Cardinality(Above(score, score[i])) < k
                                    /\ Cardinality(AtLeast(score, score[i])) >= k
        BY <2>1, HighestExists
    <2>3. Highest(score, k) = score[i] BY <2>1, <2>2, HighestIs
    <2>4. ASSUME score[i] # 0 PROVE FALSE
        <3>1. \A j \in AtLeast(score, score[i]) : j = i BY <2>4 DEF AtLeast
        <3>2. AtLeast(score, score[i]) \subseteq {i} BY <3>1
        <3>3. IsFiniteSet({i}) /\ Cardinality({i}) = 1 BY FS_Singleton
        <3>4. Cardinality(AtLeast(score, score[i])) <= 1 BY <3>2, <3>3, FS_Subset
        <3> QED BY <2>1, <2>2, <3>4, Counts
    <2> QED BY <2>3, <2>4
<1>3. Highest(score, 1) \in 0 .. 100
    <2>1. 1 \in 1 .. n BY <1>1
    <2> QED BY <2>1, HighestScore
<1> HIDE DEF n
<1> DEFINE top == Highest(score, 1)
<1>4. MaxPlusConsensus(score) = Clamp(RoundEven(6 * top + 0, 8))
    <2>1. CASE n = 1 BY <2>1 DEF MaxPlusConsensus, n
    <2>2. CASE n = 2
        <3>1. Highest(score, 2) = 0 BY <1>2, <2>2
        <3>2. 2 * Highest(score, 2) = 0 BY <3>1
        <3> QED BY <2>2, <3>2 DEF MaxPlusConsensus, n
    <2>3. CASE n > 2
        <3>1. Highest(score, 2) = 0 /\ Highest(score, 3) = 0 BY <1>1, <1>2, <2>3
        <3>2. Highest(score, 2) + Highest(score, 3) = 0 /\ n # 1 /\ n # 2 BY <1>1, <2>3, <3>1
        <3> QED BY <3>2 DEF MaxPlusConsensus, n
    <2> QED BY <1>1, <2>1, <2>2, <2>3
<1> HIDE DEF top
<1>5. top \in 0 .. 100 BY <1>3 DEF top
<1>6. RoundEven(6 * top + 0, 8) \in 0 .. 75 BY <1>5 DEF RoundEven
<1> QED BY <1>4, <1>6 DEF Clamp

\* A score of what one provider alone holds against the address.
LEMMA OneAccuser ==
    ASSUME Posed, Fired(GoRules(in, Clean, site)) = {}, Cardinality(Accusers) <= 1,
           NEW ps \in SUBSET Provider
    PROVE  Combined(ResultsOf(ps)).score \in 0 .. 75
<1>1. \A p, q \in Accusers : p = q
    <2> SUFFICES ASSUME NEW p \in Accusers, NEW q \in Accusers, p # q PROVE FALSE
        OBVIOUS
    <2>1. IsFiniteSet({p}) /\ Cardinality({p}) = 1 BY FS_Singleton
    <2>2. IsFiniteSet({p} \cup {q}) /\ Cardinality({p} \cup {q}) = 2
        <3>1. q \notin {p} OBVIOUS
        <3>2. Cardinality({p} \cup {q}) = Cardinality({p}) + 1 BY <2>1, <3>1, FS_AddElement
        <3> QED BY <2>1, <3>2, FS_AddElement
    <2>3. IsFiniteSet(Accusers)
        <3>1. IsFiniteSet({"abuseipdb"} \cup {"ipqs"}) BY FS_Singleton, FS_AddElement
        <3>2. IsFiniteSet(({"abuseipdb"} \cup {"ipqs"}) \cup {"maxmind"})
            BY <3>1, FS_AddElement
        <3>3. Accusers \subseteq ({"abuseipdb"} \cup {"ipqs"}) \cup {"maxmind"}
            BY DEF Accusers, Vendor
        <3> QED BY <3>2, <3>3, FS_Subset
    <2>4. Cardinality({p} \cup {q}) <= Cardinality(Accusers) BY <2>3, FS_Subset
    <2> QED BY <2>2, <2>3, <2>4, FS_CardinalityType
<1>2. Blank.score = 0 BY DEF Blank, ProviderResult
<1>3. Result("local") = Blank
    <2>1. ~GoRules(in, Clean, site).automation
        <3>1. "automation" \in DOMAIN GoRules(in, Clean, site) BY DEF GoRules
        <3> QED BY <3>1 DEF Fired
    <2>2. in.agent \notin Automation BY <2>1 DEF GoRules
    <2>3. in.agent \notin Tools BY <2>2 DEF Automation, Tools
    <2> QED BY <2>3 DEF Result, LocalResult, Blank
<1>4. \A p, q \in Provider : p # q => Result(p).score = 0 \/ Result(q).score = 0
    <2> SUFFICES ASSUME NEW p \in Provider, NEW q \in Provider, p # q,
                        Result(p).score # 0, Result(q).score # 0
                 PROVE  FALSE
        OBVIOUS
    <2>1. p \in Vendor /\ q \in Vendor BY <1>2, <1>3 DEF Provider
    <2>2. p \in Accusers /\ q \in Accusers BY <1>2, <2>1 DEF Accusers
    <2> QED BY <1>1, <2>2
<1> DEFINE found == ResultsOf(ps)
           good == Good(found)
           score == [i \in good |-> Clamp(found[i].score)]
<1>5. CASE good = {} BY <1>5 DEF Combined, Clean
<1>6. CASE good # {}
    <2>1. /\ IsFiniteSet(good) /\ good = {i \in 1 .. 4 : Listed[i] \in ps}
          /\ \A i \in good : found[i] = Result(Listed[i])
        BY ResultsOfGood
    <2>2. Combined(found).score = MaxPlusConsensus(score) BY <1>6 DEF Combined
    <2>3. \A i \in good : found[i].score \in Int BY ResultsOfGood DEF Readable
    <2> HIDE DEF good, found
    <2>4. DOMAIN score = good /\ \A i \in good : score[i] = Clamp(found[i].score) OBVIOUS
    <2>5. \A i \in good : score[i] \in 0 .. 100 BY <2>3, <2>4, Clamped
    <2>6. \A i, j \in good : i # j => score[i] = 0 \/ score[j] = 0
        <3> TAKE i \in good, j \in good
        <3> HAVE i # j
        <3>1. i \in 1 .. 4 /\ j \in 1 .. 4 BY <2>1
        <3>2. Listed[i] \in Provider /\ Listed[j] \in Provider /\ Listed[i] # Listed[j]
            BY <3>1, Places
        <3>3. found[i].score = 0 \/ found[j].score = 0 BY <1>4, <2>1, <3>2
        <3>4. Clamp(0) = 0 BY DEF Clamp
        <3> QED BY <2>4, <3>3, <3>4
    <2> HIDE DEF score
    <2>7. MaxPlusConsensus(score) \in 0 .. 75 BY <1>6, <2>1, <2>4, <2>5, <2>6, LoneScore
    <2> QED BY <2>2, <2>7 DEF found
<1> QED BY <1>5, <1>6

\* A sum in hundredths, rounded.
LEMMA RoundedHundredths ==
    ASSUME NEW sum \in 0 .. 8700
    PROVE  ((IF sum > 10000 THEN 10000 ELSE sum) + 50) \div 100 \in 0 .. 87
OBVIOUS

\* What it says of a visitor whom one vendor alone accuses.
LEMMA OneVendorTolerated == IInv => NoVendorBlocksAlone
<1> SUFFICES ASSUME IInv, site.thresholds.block >= 92, Fired(GoRules(in, Clean, site)) = {},
                    Cardinality(Accusers) <= 1
             PROVE  decision # "block"
    BY DEF NoVendorBlocksAlone
<1>1. CASE pc # "decided" BY <1>1 DEF IInv, Judged
<1>2. CASE pc = "decided"
    <2>1. rep.score \in 0 .. 75
        <3>1. came \ failed \in SUBSET Provider BY DEF IInv, Arrived
        <3>2. Combined(ResultsOf(came \ failed)).score \in 0 .. 75 BY <3>1, OneAccuser DEF IInv
        <3>3. Clean.score \in 0 .. 75 BY DEF Clean
        <3> QED BY <3>2, <3>3 DEF IInv, Judged
    <2> DEFINE f == GoRules(in, rep, site)
               g == GoRules(in, Clean, site)
               sum == GoSum(f, rep)
    <2>2. /\ ~g.webdriver /\ ~g.noAgent /\ ~g.automation /\ ~g.insecure /\ ~g.noCrypto
          /\ ~g.noWasm /\ ~g.cores /\ ~g.screen /\ ~g.languages /\ ~g.platform /\ ~g.idle
          /\ ~g.density /\ ~g.rate
        <3>1. DOMAIN g = {"webdriver", "noAgent", "automation", "insecure", "noCrypto", "noWasm",
                          "cores", "screen", "languages", "platform", "idle", "density",
                          "reputation", "tor", "hosting", "proxy", "abuse", "rate"}
            BY DEF GoRules
        <3> HIDE DEF g
        <3>2. \A t \in DOMAIN g : ~g[t] BY DEF Fired, g
        <3> QED BY <3>1, <3>2
    <2>3. /\ f.webdriver = g.webdriver
          /\ f.noAgent = g.noAgent
          /\ f.automation = g.automation
          /\ f.insecure = g.insecure
          /\ f.noCrypto = g.noCrypto
          /\ f.noWasm = g.noWasm
          /\ f.cores = g.cores
          /\ f.screen = g.screen
          /\ f.languages = g.languages
          /\ f.platform = g.platform
          /\ f.idle = g.idle
          /\ f.density = g.density
          /\ f.rate = g.rate
        <3>1. f.webdriver = g.webdriver BY DEF GoRules
        <3>2. f.noAgent = g.noAgent BY DEF GoRules
        <3>3. f.automation = g.automation BY DEF GoRules
        <3>4. f.insecure = g.insecure BY DEF GoRules
        <3>5. f.noCrypto = g.noCrypto BY DEF GoRules
        <3>6. f.noWasm = g.noWasm BY DEF GoRules
        <3>7. f.cores = g.cores BY DEF GoRules
        <3>8. f.screen = g.screen BY DEF GoRules
        <3>9. f.languages = g.languages BY DEF GoRules
        <3>10. f.platform = g.platform BY DEF GoRules
        <3>11. f.idle = g.idle BY DEF GoRules
        <3>12. f.density = g.density
            <4>1. f.density = (in.pointer > 5000 /\ in.dwell < 1000) BY DEF GoRules
            <4>2. g.density = (in.pointer > 5000 /\ in.dwell < 1000) BY DEF GoRules
            <4> HIDE DEF f, g
            <4> QED BY <4>1, <4>2
        <3>13. f.rate = g.rate BY DEF GoRules
        <3> QED BY <3>1, <3>2, <3>3, <3>4, <3>5, <3>6, <3>7, <3>8, <3>9, <3>10, <3>11, <3>12, <3>13
    <2> HIDE DEF f, g
    <2>4. sum \in 0 .. 8700
        <3>1. /\ ~f.webdriver /\ ~f.noAgent /\ ~f.automation /\ ~f.insecure /\ ~f.noCrypto
              /\ ~f.noWasm /\ ~f.cores /\ ~f.screen /\ ~f.languages /\ ~f.platform /\ ~f.idle
              /\ ~f.density /\ ~f.rate
            BY <2>2, <2>3
        <3>2. Add(f.reputation, 48 * rep.score) \in 0 .. 3600 BY <2>1 DEF Add
        <3>3. /\ Add(f.tor, 2200) \in 0 .. 2200 /\ Add(f.hosting, 1000) \in 0 .. 1000
              /\ Add(f.proxy, 700) \in 0 .. 700 /\ Add(f.abuse, 1200) \in 0 .. 1200
            BY DEF Add
        <3>4. /\ Add(f.webdriver, 3200) = 0 /\ Add(f.noAgent, 1800) = 0
              /\ Add(f.automation, 3000) = 0 /\ Add(f.insecure, 500) = 0
              /\ Add(f.noCrypto, 500) = 0 /\ Add(f.noWasm, 300) = 0 /\ Add(f.cores, 1000) = 0
              /\ Add(f.screen, 800) = 0 /\ Add(f.languages, 500) = 0
              /\ Add(f.platform, 1200) = 0 /\ Add(f.idle, 400) = 0
              /\ Add(f.density, 800) = 0 /\ Add(f.rate, 800) = 0
            BY <3>1 DEF Add
        <3> DEFINE suspect == Add(f.reputation, 48 * rep.score)
                   tor == Add(f.tor, 2200)
                   hosting == Add(f.hosting, 1000)
                   proxy == Add(f.proxy, 700)
                   abuse == Add(f.abuse, 1200)
                   quiet == 0 + 0 + 0 + 0 + 0 + 0 + 0 + 0 + 0 + 0 + 0 + 0
        <3>5. sum = quiet + suspect + tor + hosting + proxy + abuse + 0
            BY <3>4 DEF GoSum
        <3>6. quiet = 0 OBVIOUS
        <3>7. suspect \in 0 .. 3600 /\ tor \in 0 .. 2200 /\ hosting \in 0 .. 1000
              /\ proxy \in 0 .. 700 /\ abuse \in 0 .. 1200
            BY <3>2, <3>3
        <3> HIDE DEF sum, suspect, tor, hosting, proxy, abuse, quiet
        <3>8. sum = 0 + suspect + tor + hosting + proxy + abuse + 0 BY <3>5, <3>6
        <3> DEFINE first == 0 + suspect
                   second == first + tor
                   third == second + hosting
                   fourth == third + proxy
                   fifth == fourth + abuse
        <3>9. first \in 0 .. 3600 BY <3>7
        <3> HIDE DEF first
        <3>10. second \in 0 .. 5800 BY <3>7, <3>9
        <3> HIDE DEF second
        <3>11. third \in 0 .. 6800 BY <3>7, <3>10
        <3> HIDE DEF third
        <3>12. fourth \in 0 .. 7500 BY <3>7, <3>11
        <3> HIDE DEF fourth
        <3>13. fifth \in 0 .. 8700 BY <3>7, <3>12
        <3>14. sum = fifth + 0 BY <3>8 DEF fourth, third, second, first
        <3> HIDE DEF fifth
        <3>15. fifth + 0 = fifth BY <3>13
        <3>16. sum = fifth BY <3>14, <3>15
        <3> QED BY <3>13, <3>16
    <2> HIDE DEF sum
    <2>5. GoScore(in, rep, site) \in 0 .. 87
        <3>1. ((IF sum > 10000 THEN 10000 ELSE sum) + 50) \div 100 \in 0 .. 87
            BY <2>4, RoundedHundredths
        <3> QED BY <3>1 DEF GoScore, sum, f
    <2>6. decision = Decide(GoScore(in, rep, site), site.thresholds)
        BY <1>2 DEF IInv, Judged, GoDecision
    <2> QED BY <2>5, <2>6, Threshold DEF IInv, Decide
<1> QED BY <1>1, <1>2

\* models.aggregate, scorer.go: the aggregate of one accusing vendor is 75 at most, which the
\* scorer counts as 36 points; its flags and abuse score bring 51 more: 87, below the default
\* threshold of 92.
THEOREM NoVendorBlocksAloneProved == Spec => []NoVendorBlocksAlone
BY OneVendorTolerated, IInvAlways, PTL

==============================================================================
