---------------------------- MODULE LedgerProofs ----------------------------
(* Gateway implements ProofLedger, and ProofLedger keeps its promise. *)
EXTENDS GatewayLedger, GatewayProofs

\* The steps below keep what Redemptions and Spending say of the present state.
Sound == TypeOK /\ Redemptions /\ Spending

\* An expired token, and no other, may be missing from what collection keeps.
LEMMA CollectForgets ==
  ASSUME Sound, NEW extra
  PROVE  /\ (DOMAIN spent \cup extra) \ Expired \subseteq DOMAIN LiveSpent \cup extra
         /\ DOMAIN LiveSpent \subseteq DOMAIN spent
<1>1. DOMAIN LiveSpent = {j \in DOMAIN spent : now <= spent[j]}
  BY LiveFacts DEF Sound
<1>2. ASSUME NEW j \in DOMAIN spent, j \notin Expired PROVE now <= spent[j]
  <2>1. j \in DOMAIN tokens /\ spent[j] = Expiry(j) /\ spent[j] \in Int /\ now \in Nat
    BY DEF Sound, Spending, TypeOK, Maps
  <2> QED
    BY <1>2, <2>1 DEF Expired
<1> QED
  BY <1>1, <1>2

\* A step that signs nothing and lets the clock alone keeps origins and expiries.
LEMMA SameTokens ==
  ASSUME Sound, UNCHANGED <<tokens, now>>, \A t \in DOMAIN tokens : ref'[t] = ref[t]
  PROVE  Origin' = Origin /\ Expired' = Expired
  BY DEF Origin, Expired, Expiry

\* A step of one handler to a point that neither issues, redeems nor settles.
LEMMA QuietLedger ==
  ASSUME Sound, NEW r \in Request, NEW p, pc' = [pc EXCEPT ![r] = p],
         pc[r] \in (InFlight \cup {"idle"}) \ {"mint"},
         p \notin {"challenge-issued", "token-issued", "mint"},
         \A s \in Request \ {r} : ref'[s] = ref[s],
         UNCHANGED <<tokens, now>>
  PROVE  UNCHANGED <<Issued, Owed, Origin, Expired>>
<1> USE DEF InFlight, IssuePoints, VerifyPoints
<1>1. r \notin DOMAIN tokens /\ DOMAIN tokens \subseteq Request
  BY DEF Sound, Redemptions, TypeOK, Maps
<1>2. UNCHANGED <<Origin, Expired>>
  BY <1>1, SameTokens
<1>3. Issued' = Issued
  BY DEF Issued, Sound, TypeOK
<1>4. {s \in Request : pc'[s] = "mint"} = {s \in Request : pc[s] = "mint"}
  BY DEF Sound, TypeOK
<1>5. Owed' = Owed
  BY <1>4 DEF Owed
<1> QED
  BY <1>2, <1>3, <1>5

\* ... is a step of the ledger that collects at most.
LEMMA QuietCollects ==
  ASSUME Sound, UNCHANGED <<Issued, Owed, Origin, Expired>>,
         DOMAIN challenges' \subseteq DOMAIN challenges,
         spent' = spent \/ spent' = LiveSpent
  PROVE  Ledger!Collect
<1>1. /\ DOMAIN spent \ Expired \subseteq DOMAIN spent'
      /\ DOMAIN spent' \subseteq DOMAIN spent
  <2>1. CASE spent' = spent
    BY <2>1
  <2>2. CASE spent' = LiveSpent
    <3>1. /\ (DOMAIN spent \cup {}) \ Expired \subseteq DOMAIN LiveSpent \cup {}
          /\ DOMAIN LiveSpent \subseteq DOMAIN spent
      BY CollectForgets
    <3> QED
      BY <2>2, <3>1
  <2> QED
    BY <2>1, <2>2
<1> QED
  BY <1>1 DEF Ledger!Collect, Ledger!Lapse, Ledger!Forget

\* The initial state of the gateway is the empty ledger.
LEMMA LedgerInit == Init => Ledger!Init
<1> SUFFICES ASSUME Init PROVE Ledger!Init
  OBVIOUS
<1>1. Issued = {} /\ Owed = {}
  BY DEF Init, Issued, Owed
<1>2. DOMAIN challenges = {} /\ DOMAIN spent = {} /\ DOMAIN tokens = {}
  BY DEF Init, NewMemory, EmptyMap
<1>3. Expired = {} /\ Origin = [t \in {} |-> t]
  BY <1>2 DEF Expired, Origin
<1> QED
  BY <1>1, <1>2, <1>3 DEF Ledger!Init

\* Signing the token of request i at request r, which had none.
LEMMA SignsToken ==
  ASSUME Sound, NEW r \in Request, NEW i, ref[r] = i, r \notin DOMAIN tokens,
         DOMAIN tokens' = DOMAIN tokens \cup {r},
         \A t \in DOMAIN tokens : tokens'[t] = tokens[t],
         UNCHANGED <<ref, now, challenges, spent>>
  PROVE  Ledger!Sign(r, i)
<1>1. DOMAIN Origin = DOMAIN tokens
  BY DEF Origin
<1>2. Origin' = [u \in DOMAIN Origin \cup {r} |-> IF u = r THEN i ELSE Origin[u]]
  BY <1>1 DEF Origin
<1>3. \A t \in DOMAIN tokens : Expiry(t)' = Expiry(t)
  BY DEF Expiry
<1>4. Expired' = Expired \/ Expired' = Expired \cup {r}
  <2>1. Expired \subseteq Expired' /\ Expired' \subseteq Expired \cup {r}
    BY <1>3 DEF Expired
  <2> QED
    BY <2>1
<1> QED
  BY <1>1, <1>2, <1>4 DEF Ledger!Sign

\* Every step of a handler that issues.
LEMMA IssueStep ==
  ASSUME Sound, [Next]_vars, NEW r \in Request, Issue(r)
  PROVE  [Ledger!Next]_(Ledger!ledger)
<1> USE DEF InFlight, IssuePoints
<1>1. CASE \/ IssueReject(r) \/ IssueStart(r) \/ IssueRate(r) \/ IssueBlock(r)
           \/ IssueUndecided(r) \/ (\E kind \in Kind : IssueOffer(r, kind))
           \/ (IssueAllow(r) /\ UNCHANGED tokens)
  <2>1. /\ pc[r] \in {"idle", "rate", "score"}
        /\ UNCHANGED <<ref, tokens, now, challenges, spent>>
    BY <1>1 DEF IssueReject, IssueStart, IssueRate, IssueBlock, IssueUndecided, IssueOffer,
                IssueAllow, Arrive, AllowRate, storeVars
  <2>2. CASE \E p \in Points \ {"challenge-issued", "token-issued", "mint"} :
                pc' = [pc EXCEPT ![r] = p]
    <3>1. UNCHANGED <<Issued, Owed, Origin, Expired>>
      BY <2>1, <2>2, QuietLedger
    <3> QED
      BY <2>1, <3>1, QuietCollects DEF Ledger!Next
  <2>3. ~IssueAllow(r) => \E p \in Points \ {"challenge-issued", "token-issued", "mint"} :
                pc' = [pc EXCEPT ![r] = p]
    BY <1>1 DEF IssueReject, IssueStart, IssueRate, IssueBlock, IssueUndecided, IssueOffer,
                Goto, Points, Answers, IssueAnswers
  <2>4. ASSUME IssueAllow(r), UNCHANGED tokens
        PROVE  pc' = [pc EXCEPT ![r] = "no-token"]
    <3>1. r \notin DOMAIN tokens
      BY <2>1 DEF Sound, Redemptions
    <3>2. ASSUME NEW c, tokens' = Put(tokens, r, c) PROVE FALSE
      <4>1. DOMAIN tokens' = DOMAIN tokens \cup {r}
        BY <3>2, PutDomain
      <4> QED
        BY <2>4, <3>1, <4>1
    <3> QED
      BY <2>4, <3>2 DEF IssueAllow, Goto
  <2>5. "no-token" \in Points \ {"challenge-issued", "token-issued", "mint"}
    BY DEF Points, Answers, IssueAnswers
  <2> QED
    BY <2>1, <2>2, <2>3, <2>4, <2>5
<1>2. CASE IssueAllow(r) /\ ~UNCHANGED tokens
  <2>1. /\ pc[r] = "score" /\ pc' = [pc EXCEPT ![r] = "token-issued"]
        /\ UNCHANGED <<ref, now, challenges, spent>>
    BY <1>2 DEF IssueAllow, Goto, storeVars
  <2>2. PICK c : tokens' = Put(tokens, r, c)
    BY <1>2 DEF IssueAllow
  <2>3. r \notin DOMAIN tokens /\ ref[r] = r
    BY <2>1 DEF Sound, Redemptions
  <2>4. DOMAIN tokens' = DOMAIN tokens \cup {r}
    BY <2>2, PutDomain
  <2>5. \A t \in DOMAIN tokens : tokens'[t] = tokens[t]
    BY <2>2, <2>3, PutAt
  <2>6. Ledger!Sign(r, r)
    BY <2>1, <2>3, <2>4, <2>5, SignsToken
  <2>7. r \notin Issued /\ Issued' = Issued \cup {r}
    BY <2>1 DEF Issued, Sound, TypeOK
  <2>8. {s \in Request : pc'[s] = "mint"} = {s \in Request : pc[s] = "mint"}
    BY <2>1 DEF Sound, TypeOK
  <2>9. Owed' = Owed
    BY <2>1, <2>8 DEF Owed
  <2> QED
    BY <2>6, <2>7, <2>9 DEF Ledger!Next, Ledger!Grant
<1>3. CASE IssuePut(r)
  <2>1. /\ pc[r] = "put" /\ pc' = [pc EXCEPT ![r] = "challenge-issued"]
        /\ challenges' = Put(LiveChallenges, r, view[r])
        /\ spent' = LiveSpent
        /\ UNCHANGED <<ref, tokens, now>>
    BY <1>3 DEF IssuePut, PutChallenge, Goto
  <2>2. DOMAIN challenges' = DOMAIN LiveChallenges \cup {r}
    BY <2>1, PutDomain
  <2>3. DOMAIN LiveChallenges \subseteq DOMAIN challenges
    BY LiveFacts DEF Sound
  <2>4. r \notin Issued /\ Issued' = Issued \cup {r}
    BY <2>1 DEF Issued, Sound, TypeOK
  <2>5. {s \in Request : pc'[s] = "mint"} = {s \in Request : pc[s] = "mint"}
    BY <2>1 DEF Sound, TypeOK
  <2>6. Owed' = Owed /\ Origin' = Origin /\ Expired' = Expired
    BY <2>1, <2>5, SameTokens DEF Owed
  <2>7. /\ (DOMAIN spent \cup {}) \ Expired \subseteq DOMAIN LiveSpent \cup {}
        /\ DOMAIN LiveSpent \subseteq DOMAIN spent
    BY CollectForgets
  <2>8. Ledger!Offer(r)
    BY <2>1, <2>2, <2>3, <2>4, <2>6, <2>7
       DEF Ledger!Offer, Ledger!Lapse, Ledger!Forget
  <2> QED
    BY <2>8 DEF Ledger!Next
<1> QED
  BY <1>1, <1>2, <1>3 DEF Issue

\* Every step of a handler that verifies a proof.
LEMMA VerifyStep ==
  ASSUME Sound, NEW r \in Request, Verify(r)
  PROVE  [Ledger!Next]_(Ledger!ledger)
<1> USE DEF InFlight, IssuePoints, VerifyPoints
<1>1. CASE \/ VerifyGet(r) \/ VerifyDrop(r) \/ VerifyRefuse(r) \/ VerifyAccept(r)
           \/ VerifyFail(r) \/ (VerifyConsume(r) /\ ~Consumable(ref[r]))
  <2>1. PICK p \in VerifyAnswers \cup {"check", "fail", "consume"} :
          /\ pc' = [pc EXCEPT ![r] = p]
          /\ pc[r] \in {"idle", "check", "fail", "consume"}
          /\ UNCHANGED <<tokens, now>>
    BY <1>1 DEF VerifyGet, VerifyDrop, VerifyRefuse, VerifyAccept, VerifyFail,
                VerifyConsume, Arrive, Goto, VerifyAnswers
  <2>2. \A s \in Request \ {r} : ref'[s] = ref[s]
    BY <1>1 DEF VerifyGet, VerifyDrop, VerifyRefuse, VerifyAccept, VerifyFail,
                VerifyConsume, Sound, TypeOK
  <2>3. p \notin {"challenge-issued", "token-issued", "mint"}
    BY DEF VerifyAnswers
  <2>4. UNCHANGED <<Issued, Owed, Origin, Expired>>
    BY <2>1, <2>2, <2>3, QuietLedger
  <2>5. \/ challenges' = challenges \/ challenges' = LiveChallenges
        \/ challenges' = Without(challenges, ref[r])
        \/ /\ ref[r] \in DOMAIN challenges
           /\ \E c : challenges' = Put(challenges, ref[r], c)
    BY <1>1 DEF VerifyGet, VerifyDrop, VerifyRefuse, VerifyAccept, VerifyFail,
                VerifyConsume, GetChallenge, FailChallenge, ConsumeChallenge, storeVars
  <2>6. DOMAIN challenges' \subseteq DOMAIN challenges
    <3>1. CASE challenges' = LiveChallenges
      BY <3>1, LiveFacts DEF Sound
    <3>2. CASE challenges' = Without(challenges, ref[r])
      <4>1. DOMAIN challenges' = DOMAIN challenges \ {ref[r]}
        BY <3>2, WithoutDomain
      <4> QED
        BY <4>1
    <3>3. ASSUME NEW c, ref[r] \in DOMAIN challenges, challenges' = Put(challenges, ref[r], c)
          PROVE  DOMAIN challenges' \subseteq DOMAIN challenges
      <4>1. DOMAIN challenges' = DOMAIN challenges \cup {ref[r]}
        BY <3>3, PutDomain
      <4> QED
        BY <3>3, <4>1
    <3> QED
      BY <2>5, <3>1, <3>2, <3>3
  <2>7. spent' = spent \/ spent' = LiveSpent
    BY <1>1 DEF VerifyGet, VerifyDrop, VerifyRefuse, VerifyAccept, VerifyFail,
                VerifyConsume, GetChallenge, FailChallenge, ConsumeChallenge, storeVars
  <2> QED
    BY <2>4, <2>6, <2>7, QuietCollects DEF Ledger!Next
<1>2. CASE VerifyConsume(r) /\ Consumable(ref[r])
  <2>1. /\ pc[r] = "consume" /\ pc' = [pc EXCEPT ![r] = "mint"]
        /\ ref[r] \in DOMAIN challenges
        /\ challenges' = Without(challenges, ref[r])
        /\ UNCHANGED <<ref, tokens, now, spent>>
    BY <1>2 DEF VerifyConsume, ConsumeChallenge, Consumable, Goto
  <2>2. DOMAIN challenges' = DOMAIN challenges \ {ref[r]}
    BY <2>1, WithoutDomain
  <2>3. {s \in Request : pc'[s] = "mint"} = {s \in Request : pc[s] = "mint"} \cup {r}
    BY <2>1 DEF Sound, TypeOK
  <2>4. Owed' = Owed \cup {ref[r]}
    BY <2>1, <2>3 DEF Owed
  <2>5. Issued' = Issued
    BY <2>1 DEF Issued, Sound, TypeOK
  <2>6. Origin' = Origin /\ Expired' = Expired
    BY <2>1, SameTokens
  <2>7. ref[r] \in Request
    BY DEF Sound, TypeOK
  <2>8. Ledger!Redeem(ref[r])
    BY <2>1, <2>2, <2>4, <2>5, <2>6 DEF Ledger!Redeem
  <2> QED
    BY <2>7, <2>8 DEF Ledger!Next
<1>3. CASE VerifyMint(r)
  <2>1. /\ pc[r] = "mint" /\ UNCHANGED <<ref, now, challenges, spent>>
        /\ pc' = [pc EXCEPT ![r] = "solved"] \/ pc' = [pc EXCEPT ![r] = "solved-no-token"]
        /\ UNCHANGED tokens \/ \E c : tokens' = Put(tokens, r, c)
    BY <1>3 DEF VerifyMint, Goto, storeVars
  <2>2. r \notin DOMAIN tokens /\ ref[r] \in Request
    BY <2>1 DEF Sound, Redemptions, TypeOK
  <2>3. {s \in Request : pc'[s] = "mint"} = {s \in Request : pc[s] = "mint"} \ {r}
    BY <2>1 DEF Sound, TypeOK
  <2>4. \A s \in Request : pc[s] = "mint" /\ s # r => ref[s] # ref[r]
    BY <2>1 DEF Sound, Redemptions, Claimants
  <2>5. Owed' = Owed \ {ref[r]} /\ ref[r] \in Owed
    BY <2>1, <2>3, <2>4 DEF Owed
  <2>6. Issued' = Issued
    BY <2>1 DEF Issued, Sound, TypeOK
  <2>7. CASE UNCHANGED tokens
    <3>1. Origin' = Origin /\ Expired' = Expired
      BY <2>1, <2>7, SameTokens
    <3>2. Ledger!Default(ref[r])
      BY <2>1, <2>5, <2>6, <3>1 DEF Ledger!Default
    <3> QED
      BY <2>2, <3>2 DEF Ledger!Next
  <2>8. ASSUME NEW c, tokens' = Put(tokens, r, c)
        PROVE  Ledger!Settle(ref[r], r)
    <3>1. DOMAIN tokens' = DOMAIN tokens \cup {r}
      BY <2>8, PutDomain
    <3>2. \A t \in DOMAIN tokens : tokens'[t] = tokens[t]
      BY <2>2, <2>8, PutAt
    <3>3. Ledger!Sign(r, ref[r])
      BY <2>1, <2>2, <3>1, <3>2, SignsToken
    <3> QED
      BY <2>5, <2>6, <3>3 DEF Ledger!Settle
  <2> QED
    BY <2>1, <2>2, <2>7, <2>8 DEF Ledger!Next
<1> QED
  BY <1>1, <1>2, <1>3 DEF Verify

\* Every step of a handler that verifies a token.
LEMMA SiteVerifyStep ==
  ASSUME Sound, NEW r \in Request, SiteVerify(r)
  PROVE  [Ledger!Next]_(Ledger!ledger)
<1> USE DEF InFlight
<1>1. PICK p \in SiteVerifyAnswers \cup {"jti"} :
        /\ pc' = [pc EXCEPT ![r] = p]
        /\ pc[r] \in {"idle", "jti"}
        /\ UNCHANGED <<tokens, now>>
  BY DEF SiteVerify, SiteVerifyRefuse, SiteVerifyAccept, SiteVerifyConsume, Arrive, Goto,
         SiteVerifyAnswers
<1>2. \A s \in Request \ {r} : ref'[s] = ref[s]
  BY DEF SiteVerify, SiteVerifyRefuse, SiteVerifyAccept, SiteVerifyConsume, Sound, TypeOK
<1>3. p \notin {"challenge-issued", "token-issued", "mint"}
  BY DEF SiteVerifyAnswers
<1>4. UNCHANGED <<Issued, Owed, Origin, Expired>>
  BY <1>1, <1>2, <1>3, QuietLedger
<1>5. challenges' = challenges \/ challenges' = LiveChallenges
  BY DEF SiteVerify, SiteVerifyRefuse, SiteVerifyAccept, SiteVerifyConsume, ConsumeJTI,
         storeVars
<1>6. DOMAIN challenges' \subseteq DOMAIN challenges
  BY <1>5, LiveFacts DEF Sound
<1>7. CASE spent' = spent \/ spent' = LiveSpent
  BY <1>4, <1>6, <1>7, QuietCollects DEF Ledger!Next
<1>8. CASE SiteVerifyConsume(r) /\ Unspent(ref[r])
  <2>1. /\ pc[r] = "jti" /\ ref[r] \notin DOMAIN LiveSpent
        /\ spent' = Put(LiveSpent, ref[r], Expiry(ref[r]))
    BY <1>8 DEF SiteVerifyConsume, ConsumeJTI, Unspent
  <2>2. ref[r] \in DOMAIN tokens /\ ref[r] \in Request
    BY <2>1 DEF Sound, TypeOK, LocalsSet
  <2>3. DOMAIN spent' = DOMAIN LiveSpent \cup {ref[r]}
    BY <2>1, PutDomain
  <2>4. /\ (DOMAIN spent \cup {ref[r]}) \ Expired \subseteq DOMAIN LiveSpent \cup {ref[r]}
        /\ DOMAIN LiveSpent \subseteq DOMAIN spent
    BY CollectForgets
  <2>5. ref[r] \in DOMAIN spent => ref[r] \in Expired
    <3>1. (DOMAIN spent \cup {}) \ Expired \subseteq DOMAIN LiveSpent \cup {}
      BY CollectForgets
    <3> QED
      BY <2>1, <3>1
  <2>6. DOMAIN Origin = DOMAIN tokens
    BY DEF Origin
  <2>7. Ledger!Honour(ref[r])
    BY <1>4, <1>6, <2>2, <2>3, <2>4, <2>5, <2>6
       DEF Ledger!Honour, Ledger!Lapse, Ledger!Forget
  <2> QED
    BY <2>2, <2>7 DEF Ledger!Next
<1> QED
  BY <1>7, <1>8 DEF SiteVerify, SiteVerifyRefuse, SiteVerifyAccept, SiteVerifyConsume,
                    ConsumeJTI, storeVars

\* Time and restarts.
LEMMA EnvironmentStep ==
  ASSUME Sound, Tick \/ Restart
  PROVE  [Ledger!Next]_(Ledger!ledger)
<1>1. CASE Tick
  <2>1. now' = now + 1 /\ UNCHANGED <<storeVars, reqVars, tokens>> /\ now \in Nat
    BY <1>1 DEF Tick, Sound, TypeOK
  <2>2. UNCHANGED <<Issued, Owed, Origin, challenges, spent>>
    BY <2>1 DEF Issued, Owed, Origin, storeVars, reqVars
  <2>3. \A t \in DOMAIN tokens : Expiry(t)' = Expiry(t) /\ Expiry(t) \in Int
    <3>1. \A t \in DOMAIN tokens : tokens[t].exp \in Int
      BY DEF Sound, TypeOK, Maps, ClaimsRecord
    <3> QED
      BY <2>1, <3>1, TimeAssumption DEF Expiry
  <2>4. Expired \subseteq Expired' /\ Expired' \subseteq DOMAIN Origin
    BY <2>1, <2>3 DEF Expired, Origin
  <2> QED
    BY <2>2, <2>4 DEF Ledger!Next, Ledger!Expire
<1>2. CASE Restart
  <2>1. /\ \A s \in Request : pc'[s] = IF pc[s] \in InFlight THEN "aborted" ELSE pc[s]
        /\ challenges' = EmptyMap /\ spent' = EmptyMap
        /\ UNCHANGED <<ref, tokens, now>>
    BY <1>2 DEF Restart
  <2>2. UNCHANGED <<Origin, Expired>>
    BY <2>1, SameTokens
  <2>3. Issued' = Issued /\ Owed' = {}
    BY <2>1 DEF Issued, Owed, InFlight, IssuePoints, VerifyPoints
  <2>4. DOMAIN challenges' = {} /\ DOMAIN spent' = {}
    BY <2>1 DEF EmptyMap
  <2> QED
    BY <2>2, <2>3, <2>4 DEF Ledger!Next, Ledger!Restart
<1> QED
  BY <1>1, <1>2

\* server.go over memory.go implements the ledger of one-time proofs, for any number of
\* requests, cut anywhere, and any sites, keys, decisions, clock and restarts.
THEOREM GatewayKeepsLedger == Spec => KeepsLedger
<1>1. ASSUME TypeOK, Redemptions, Spending, [Next]_vars
      PROVE  [Ledger!Next]_(Ledger!ledger)
  <2> Sound
    BY <1>1 DEF Sound
  <2>1. CASE UNCHANGED vars
    BY <2>1 DEF vars, storeVars, reqVars, Ledger!ledger, Issued, Owed, Origin, Expired, Expiry
  <2>2. CASE Next
    BY <1>1, <2>2, IssueStep, VerifyStep, SiteVerifyStep, EnvironmentStep DEF Next
  <2> QED
    BY <1>1, <2>1, <2>2
<1> QED
  BY LedgerInit, SpendingInvariant, <1>1, PTL DEF Spec, KeepsLedger, Ledger!Spec

-----------------------------------------------------------------------------
(* What the ledger promises.                                                 *)

\* No step of the ledger gives a request a second token.
LEMMA LedgerStep ==
    ASSUME Ledger!OneTokenEach, Ledger!Distinct, [Ledger!Next]_(Ledger!ledger)
    PROVE  Ledger!OneTokenEach' /\ Ledger!Distinct'
<1> USE DEF Ledger!OneTokenEach, Ledger!Distinct
<1>1. ASSUME NEW i \in Request, Ledger!Offer(i) PROVE Ledger!OneTokenEach' /\ Ledger!Distinct'
    BY <1>1 DEF Ledger!Offer, Ledger!Lapse
<1>2. ASSUME NEW i \in Request, Ledger!Redeem(i) PROVE Ledger!OneTokenEach' /\ Ledger!Distinct'
    BY <1>2 DEF Ledger!Redeem
<1>3. ASSUME NEW i \in Request, Ledger!Grant(i) PROVE Ledger!OneTokenEach' /\ Ledger!Distinct'
    BY <1>3 DEF Ledger!Grant, Ledger!Sign
<1>4. ASSUME NEW i \in Request, Ledger!Default(i) PROVE Ledger!OneTokenEach' /\ Ledger!Distinct'
    BY <1>4 DEF Ledger!Default
<1>5. ASSUME NEW t \in Request, Ledger!Honour(t) PROVE Ledger!OneTokenEach' /\ Ledger!Distinct'
    BY <1>5 DEF Ledger!Honour, Ledger!Lapse
<1>6. ASSUME NEW i \in Request, NEW t \in Request, Ledger!Settle(i, t)
      PROVE  Ledger!OneTokenEach' /\ Ledger!Distinct'
    BY <1>6 DEF Ledger!Settle, Ledger!Sign
<1>7. ASSUME Ledger!Collect \/ Ledger!Expire \/ Ledger!Restart
      PROVE  Ledger!OneTokenEach' /\ Ledger!Distinct'
    BY <1>7 DEF Ledger!Collect, Ledger!Expire, Ledger!Restart, Ledger!Lapse
<1>8. CASE UNCHANGED Ledger!ledger BY <1>8 DEF Ledger!ledger
<1> QED BY <1>1, <1>2, <1>3, <1>4, <1>5, <1>6, <1>7, <1>8 DEF Ledger!Next

\* The abstract specification keeps the promise it is about: under whatever stands for its
\* state, one token at most for each request that was answered.
THEOREM LedgerPromise == Ledger!Spec => []Ledger!OneTokenEach
<1>1. Ledger!Init => Ledger!OneTokenEach /\ Ledger!Distinct
    BY DEF Ledger!Init, Ledger!OneTokenEach, Ledger!Distinct
<1> QED BY <1>1, LedgerStep, PTL DEF Ledger!Spec

\* Hence the gateway keeps it, through the mapping.
THEOREM GatewayKeepsPromise == Spec => []Ledger!OneTokenEach
BY GatewayKeepsLedger, LedgerPromise, PTL DEF KeepsLedger

=============================================================================
