---------------------------- MODULE GatewayProofs ----------------------------
(* Theorems of Gateway: its types, its safety invariants and step properties, and its metrics. *)
EXTENDS Gateway, FiniteSetTheorems, TLAPS

-----------------------------------------------------------------------------
(* Maps and the operators that build them.                                   *)

\* Putting a typed entry into a typed map.
LEMMA PutMaps ==
  ASSUME NEW Keys, NEW Values, NEW map, Maps(Keys, map, Values),
         NEW k \in Keys, NEW v \in Values
  PROVE  Maps(Keys, Put(map, k, v), Values)
  BY DEF Maps, Put

\* What a map holds after a Put.
LEMMA PutDomain ==
  ASSUME NEW map, NEW k, NEW v
  PROVE  DOMAIN Put(map, k, v) = DOMAIN map \cup {k}
  BY DEF Put

LEMMA PutAt ==
  ASSUME NEW map, NEW k, NEW v, NEW j \in DOMAIN map \cup {k}
  PROVE  Put(map, k, v)[j] = IF j = k THEN v ELSE map[j]
  BY DEF Put

\* Removing a key from a typed map, or keeping only some of its keys.
LEMMA RestrictMaps ==
  ASSUME NEW Keys, NEW Values, NEW map, Maps(Keys, map, Values),
         NEW S \in SUBSET (DOMAIN map)
  PROVE  Maps(Keys, Restrict(map, S), Values)
  BY DEF Maps, Restrict

\* What a map holds after a key was removed.
LEMMA WithoutMaps ==
  ASSUME NEW Keys, NEW Values, NEW map, Maps(Keys, map, Values), NEW k
  PROVE  Maps(Keys, Without(map, k), Values)
  BY DEF Maps, Without, Restrict

LEMMA WithoutDomain ==
  ASSUME NEW map, NEW k
  PROVE  DOMAIN Without(map, k) = DOMAIN map \ {k}
  BY DEF Without, Restrict

LEMMA WithoutAt ==
  ASSUME NEW map, NEW k, NEW j \in DOMAIN map \ {k}
  PROVE  Without(map, k)[j] = map[j]
  BY DEF Without, Restrict

\* Garbage collection keeps some of the entries, each as it was.
LEMMA LiveFacts ==
  ASSUME TypeOK
  PROVE  /\ Maps(Request, LiveChallenges, ChallengeRecord)
         /\ Maps(Request, LiveSpent, Int)
         /\ Maps((DOMAIN Sites) \X Address \X Action, LiveRates, WindowRecord)
         /\ DOMAIN LiveChallenges \subseteq DOMAIN challenges
         /\ \A id \in DOMAIN LiveChallenges : LiveChallenges[id] = challenges[id]
         /\ DOMAIN LiveSpent = {j \in DOMAIN spent : now <= spent[j]}
         /\ \A j \in DOMAIN LiveSpent : LiveSpent[j] = spent[j]
  BY RestrictMaps DEF TypeOK, LiveChallenges, LiveSpent, LiveRates, Restrict

\* Bindings, challenges and claims have their types.
LEMMA BindIPType ==
  ASSUME TypeOK, NEW address \in Address
  PROVE  BindIP(address) \in Binds
<1>1. ring.active \in Key /\ ring.binding \in Key \cup {NoKey}
  BY RingsAssumption DEF TypeOK
<1> QED
  BY <1>1 DEF BindIP, BindingSecret, Binds, Unbound, Address

LEMMA NewChallengeType ==
  ASSUME TypeOK, NEW q \in IssueInput, NEW kind \in Kind
  PROVE  NewChallenge(q, kind) \in ChallengeRecord
<1>1. q.site \in DOMAIN Sites /\ q.address \in Address
  BY DEF IssueInput
<1>2. (IF Sites[q.site].bind THEN BindIP(q.address) ELSE Unbound) \in Binds
  BY <1>1, BindIPType DEF Binds
<1>3. now + Sites[q.site].challengeTTL * TicksPerSecond \in Nat
  BY <1>1, SitesAssumption, TimeAssumption DEF TypeOK
<1> QED
  BY <1>1, <1>2, <1>3 DEF NewChallenge, ChallengeRecord, IssueInput, TypeOK

LEMMA MintClaimsType ==
  ASSUME TypeOK, NEW site \in DOMAIN Sites, NEW action \in Action, NEW host \in Host,
         NEW bind \in Binds
  PROVE  MintClaims(site, action, host, bind) \in ClaimsRecord
<1>1. Seconds(now) \in Int /\ Seconds(now + Sites[site].tokenTTL * TicksPerSecond) \in Int
  BY SitesAssumption, TimeAssumption DEF TypeOK, Seconds
<1>2. ring.active \in Key
  BY RingsAssumption DEF TypeOK
<1> QED
  BY <1>1, <1>2 DEF MintClaims, ClaimsRecord

\* Counting keeps the counters natural numbers.
LEMMA CountType ==
  ASSUME TypeOK, NEW S, Count(S)
  PROVE  stats' \in [Counters -> Nat]
  BY DEF TypeOK, Count

-----------------------------------------------------------------------------
(* Type correctness.                                                         *)

LEMMA InitTypeOK == Init => TypeOK
  BY DEF Init, NewMemory, EmptyMap, TypeOK, LocalsSet, Maps, NoStats, Points, VerifyPoints

LEMMA IssueTypeOK ==
  ASSUME TypeOK, NEW r \in Request, Issue(r)
  PROVE  TypeOK'
<1> USE DEF Points, Answers, IssueAnswers, InFlight, IssuePoints, VerifyPoints
<1>1. CASE IssueReject(r)
  <2> USE <1>1 DEF IssueReject, Arrive, Goto, storeVars
  <2>1. stats' \in [Counters -> Nat]
    BY CountType
  <2> QED
    BY <2>1 DEF TypeOK, LocalsSet
<1>2. CASE IssueStart(r)
  <2> USE <1>2 DEF IssueStart, Arrive, Goto, storeVars
  <2>1. stats' \in [Counters -> Nat]
    BY CountType
  <2>2. PICK q \in IssueInput : ask' = Put(ask, r, q)
    BY SitesAssumption DEF IssueInput
  <2>3. Maps(Request, ask', IssueInput \cup VerifyInput \cup SiteVerifyInput)
    BY <2>2, PutMaps DEF TypeOK
  <2>4. Maps(Request, at', Nat)
    BY PutMaps DEF TypeOK
  <2>5. /\ DOMAIN ask' = DOMAIN ask \cup {r} /\ DOMAIN at' = DOMAIN at \cup {r}
        /\ \A j \in DOMAIN ask \cup {r} : ask'[j] = IF j = r THEN q ELSE ask[j]
    <3>1. DOMAIN ask' = DOMAIN ask \cup {r} /\ DOMAIN at' = DOMAIN at \cup {r}
      BY <2>2, PutDomain
    <3>2. \A j \in DOMAIN ask \cup {r} : ask'[j] = IF j = r THEN q ELSE ask[j]
      BY <2>2, PutAt
    <3> QED
      BY <3>1, <3>2
  <2>6. LocalsSet'
    BY <2>5 DEF TypeOK, LocalsSet
  <2> QED
    BY <2>1, <2>3, <2>4, <2>6 DEF TypeOK
<1>3. CASE IssueRate(r)
  <2> USE <1>3 DEF IssueRate, AllowRate, Goto
  <2> DEFINE key == RateKey(ask[r])
             window == RateWindow(key, at[r], Minute)
  <2>1. stats' \in [Counters -> Nat]
    BY CountType
  <2>2. ask[r] \in IssueInput /\ at[r] \in Nat
    BY DEF TypeOK, LocalsSet, Maps
  <2>3. key \in (DOMAIN Sites) \X Address \X Action
    BY <2>2 DEF RateKey, IssueInput
  <2>4. window \in WindowRecord
    BY <2>2 DEF RateWindow, WindowRecord, TypeOK, Maps
  <2>5. Maps((DOMAIN Sites) \X Address \X Action, rates', WindowRecord)
    BY <2>3, <2>4, PutMaps DEF TypeOK
  <2>6. Maps(Request, at', Nat) /\ DOMAIN at' = DOMAIN at \ {r}
    BY WithoutMaps, WithoutDomain DEF TypeOK
  <2>7. LocalsSet'
    BY <2>6 DEF TypeOK, LocalsSet
  <2> QED
    BY <2>1, <2>5, <2>6, <2>7 DEF TypeOK
<1>4. CASE IssueBlock(r) \/ IssueUndecided(r)
  <2> USE <1>4 DEF IssueBlock, IssueUndecided, Goto, storeVars
  <2>1. stats' \in [Counters -> Nat]
    BY CountType
  <2> QED
    BY <2>1 DEF TypeOK, LocalsSet
<1>5. CASE IssueAllow(r)
  <2> USE <1>5 DEF IssueAllow, Goto, storeVars
  <2>1. stats' \in [Counters -> Nat]
    BY CountType
  <2>2. ask[r] \in IssueInput
    BY DEF TypeOK, LocalsSet
  <2>3. (IF Sites[ask[r].site].bind THEN BindIP(ask[r].address) ELSE Unbound) \in Binds
    BY <2>2, BindIPType DEF IssueInput, Binds
  <2>4. Maps(Request, tokens', ClaimsRecord) /\ DOMAIN tokens \subseteq DOMAIN tokens'
    <3>1. CASE UNCHANGED tokens
      BY <3>1 DEF TypeOK
    <3>2. CASE ~UNCHANGED tokens
      <4>1. PICK c \in ClaimsRecord : tokens' = Put(tokens, r, c)
        BY <2>2, <2>3, <3>2, MintClaimsType DEF IssueInput
      <4>2. Maps(Request, tokens', ClaimsRecord)
        BY <4>1, PutMaps DEF TypeOK
      <4>3. DOMAIN tokens' = DOMAIN tokens \cup {r}
        BY <4>1, PutDomain
      <4> QED
        BY <4>2, <4>3
    <3> QED
      BY <3>1, <3>2
  <2>5. LocalsSet'
    BY <2>4 DEF TypeOK, LocalsSet
  <2> QED
    BY <2>1, <2>4, <2>5 DEF TypeOK
<1>6. CASE \E kind \in Kind : IssueOffer(r, kind)
  <2> PICK kind \in Kind : IssueOffer(r, kind)
    BY <1>6
  <2> USE DEF IssueOffer, Goto, storeVars
  <2>1. stats' \in [Counters -> Nat]
    BY CountType
  <2>2. NewChallenge(ask[r], kind) \in ChallengeRecord
    BY NewChallengeType DEF TypeOK, LocalsSet
  <2>3. Maps(Request, view', ChallengeRecord) /\ DOMAIN view \subseteq DOMAIN view'
        /\ (pc'[r] = "put" => r \in DOMAIN view')
    <3>1. CASE view' = Put(view, r, NewChallenge(ask[r], kind))
      <4>1. Maps(Request, view', ChallengeRecord)
        BY <2>2, <3>1, PutMaps DEF TypeOK
      <4>2. DOMAIN view' = DOMAIN view \cup {r}
        BY <3>1, PutDomain
      <4> QED
        BY <4>1, <4>2
    <3>2. CASE UNCHANGED view /\ pc'[r] # "put"
      BY <3>2 DEF TypeOK
    <3> QED
      BY <3>1, <3>2 DEF TypeOK
  <2>4. LocalsSet'
    BY <2>3 DEF TypeOK, LocalsSet
  <2> QED
    BY <2>1, <2>3, <2>4 DEF TypeOK
<1>7. CASE IssuePut(r)
  <2> USE <1>7 DEF IssuePut, PutChallenge, Goto
  <2>1. Maps(Request, challenges', ChallengeRecord)
    BY LiveFacts, PutMaps DEF TypeOK, LocalsSet, Maps
  <2>2. Maps(Request, view', ChallengeRecord) /\ DOMAIN view' = DOMAIN view \ {r}
    BY WithoutMaps, WithoutDomain DEF TypeOK
  <2>3. LocalsSet'
    BY <2>2 DEF TypeOK, LocalsSet
  <2> QED
    BY <2>1, <2>2, <2>3, LiveFacts DEF TypeOK
<1> QED
  BY <1>1, <1>2, <1>3, <1>4, <1>5, <1>6, <1>7 DEF Issue

LEMMA VerifyTypeOK ==
  ASSUME TypeOK, NEW r \in Request, Verify(r)
  PROVE  TypeOK'
<1> USE DEF Points, Answers, IssueAnswers, VerifyAnswers, InFlight, IssuePoints, VerifyPoints
<1>1. CASE VerifyGet(r)
  <2> USE <1>1 DEF VerifyGet, GetChallenge, Arrive, Goto
  <2>1. stats' \in [Counters -> Nat]
    BY CountType
  <2>2. PICK id \in Request :
          /\ ref' = [ref EXCEPT ![r] = id]
          /\ IF id \in DOMAIN LiveChallenges
             THEN view' = Put(view, r, challenges[id]) /\ Goto(r, "check")
             ELSE UNCHANGED view /\ Goto(r, "not-found")
    OBVIOUS
  <2>3. Maps(Request, view', ChallengeRecord) /\ DOMAIN view \subseteq DOMAIN view'
        /\ (pc'[r] = "check" => r \in DOMAIN view')
    <3>1. CASE id \in DOMAIN LiveChallenges
      <4>1. challenges[id] \in ChallengeRecord
        BY <3>1, LiveFacts DEF TypeOK, Maps
      <4>2. view' = Put(view, r, challenges[id])
        BY <2>2, <3>1
      <4>3. Maps(Request, view', ChallengeRecord)
        BY <4>1, <4>2, PutMaps DEF TypeOK
      <4>4. DOMAIN view' = DOMAIN view \cup {r}
        BY <4>2, PutDomain
      <4> QED
        BY <4>3, <4>4
    <3>2. CASE id \notin DOMAIN LiveChallenges
      BY <2>2, <3>2 DEF TypeOK
    <3> QED
      BY <3>1, <3>2
  <2>4. pc' = [pc EXCEPT ![r] = "check"] \/ pc' = [pc EXCEPT ![r] = "not-found"]
    BY <2>2
  <2>5. LocalsSet'
    BY <2>2, <2>3, <2>4 DEF TypeOK, LocalsSet
  <2> QED
    BY <2>1, <2>2, <2>3, <2>4, <2>5, LiveFacts DEF TypeOK
<1>2. CASE VerifyDrop(r)
  <2> USE <1>2 DEF VerifyDrop, Goto, storeVars
  <2>1. Maps(Request, view', ChallengeRecord) /\ DOMAIN view' = DOMAIN view \ {r}
    BY WithoutMaps, WithoutDomain DEF TypeOK
  <2>2. LocalsSet'
    BY <2>1 DEF TypeOK, LocalsSet
  <2> QED
    BY <2>1, <2>2 DEF TypeOK
<1>3. CASE VerifyRefuse(r)
  BY <1>3 DEF VerifyRefuse, Goto, storeVars, TypeOK, LocalsSet
<1>4. CASE VerifyAccept(r)
  <2>1. PICK address \in Address, session \in Session :
          ask' = Put(ask, r, [address |-> address, session |-> session])
    BY <1>4 DEF VerifyAccept
  <2>2. Maps(Request, ask', IssueInput \cup VerifyInput \cup SiteVerifyInput)
    <3>1. [address |-> address, session |-> session] \in VerifyInput
      BY DEF VerifyInput
    <3> QED
      BY <2>1, <3>1, PutMaps DEF TypeOK
  <2>3. /\ DOMAIN ask' = DOMAIN ask \cup {r}
        /\ \A j \in DOMAIN ask \ {r} : ask'[j] = ask[j]
    <3>1. DOMAIN ask' = DOMAIN ask \cup {r}
      BY <2>1, PutDomain
    <3> QED
      BY <2>1, <3>1, PutAt
  <2>4. /\ pc' = [pc EXCEPT ![r] = "consume"] /\ pc[r] = "check"
        /\ UNCHANGED <<now, challenges, spent, rates, ref, at, view, tokens, stats,
                        ring, boot, era>>
    BY <1>4 DEF VerifyAccept, Goto, storeVars
  <2>5. LocalsSet'
    BY <2>3, <2>4 DEF TypeOK, LocalsSet
  <2> QED
    BY <2>2, <2>4, <2>5 DEF TypeOK
<1>5. CASE VerifyFail(r)
  <2>1. Maps(Request, view', ChallengeRecord) /\ DOMAIN view' = DOMAIN view \ {r}
    BY <1>5, WithoutMaps, WithoutDomain DEF VerifyFail, TypeOK
  <2>2. Maps(Request, challenges', ChallengeRecord)
    <3>1. CASE challenges' = challenges
      BY <3>1 DEF TypeOK
    <3>2. CASE challenges' = Without(challenges, ref[r])
      BY <3>2, WithoutMaps DEF TypeOK
    <3> DEFINE c == [challenges[ref[r]] EXCEPT !.attempts = @ + 1]
    <3>3. CASE ref[r] \in DOMAIN challenges /\ challenges' = Put(challenges, ref[r], c)
      <4>1. challenges[ref[r]] \in ChallengeRecord /\ ref[r] \in Request
        BY <3>3 DEF TypeOK, Maps
      <4>2. c \in ChallengeRecord
        BY <4>1 DEF ChallengeRecord
      <4> HIDE DEF c
      <4> QED
        BY <3>3, <4>1, <4>2, PutMaps DEF TypeOK
    <3> QED
      BY <1>5, <3>1, <3>2, <3>3 DEF VerifyFail, FailChallenge
  <2>3. /\ pc' = [pc EXCEPT ![r] = "proof-refused"]
        /\ UNCHANGED <<now, spent, rates, ask, ref, at, tokens, stats, ring, boot, era>>
    BY <1>5 DEF VerifyFail, FailChallenge, Goto
  <2>4. LocalsSet'
    BY <2>1, <2>3 DEF TypeOK, LocalsSet
  <2> QED
    BY <2>1, <2>2, <2>3, <2>4 DEF TypeOK
<1>6. CASE VerifyConsume(r)
  <2>1. Maps(Request, challenges', ChallengeRecord)
    BY <1>6, WithoutMaps DEF VerifyConsume, ConsumeChallenge, TypeOK
  <2>2. \/ pc' = [pc EXCEPT ![r] = "mint"] /\ UNCHANGED view
        \/ pc' = [pc EXCEPT ![r] = "already-consumed"] /\ view' = Without(view, r)
    BY <1>6 DEF VerifyConsume, Goto
  <2>3. /\ Maps(Request, view', ChallengeRecord)
        /\ DOMAIN view \ {r} \subseteq DOMAIN view'
        /\ pc'[r] = "mint" => DOMAIN view' = DOMAIN view
    <3>1. CASE UNCHANGED view
      BY <3>1 DEF TypeOK
    <3>2. CASE view' = Without(view, r) /\ pc' = [pc EXCEPT ![r] = "already-consumed"]
      BY <3>2, WithoutMaps, WithoutDomain DEF TypeOK
    <3> QED
      BY <2>2, <3>1, <3>2
  <2>4. /\ pc[r] = "consume"
        /\ UNCHANGED <<now, spent, rates, ask, ref, at, tokens, stats, ring, boot, era>>
    BY <1>6 DEF VerifyConsume, ConsumeChallenge
  <2>5. LocalsSet'
    BY <2>2, <2>3, <2>4 DEF TypeOK, LocalsSet
  <2> QED
    BY <2>1, <2>2, <2>3, <2>4, <2>5 DEF TypeOK
<1>7. CASE VerifyMint(r)
  <2>1. Maps(Request, view', ChallengeRecord) /\ DOMAIN view' = DOMAIN view \ {r}
    BY <1>7, WithoutMaps, WithoutDomain DEF VerifyMint, TypeOK
  <2>2. view[r] \in ChallengeRecord
    BY <1>7 DEF VerifyMint, TypeOK, LocalsSet, Maps
  <2>3. Maps(Request, tokens', ClaimsRecord) /\ DOMAIN tokens \subseteq DOMAIN tokens'
    <3>1. CASE UNCHANGED tokens
      BY <3>1 DEF TypeOK
    <3>2. CASE ~UNCHANGED tokens
      <4>1. PICK c \in ClaimsRecord : tokens' = Put(tokens, r, c)
        BY <1>7, <2>2, <3>2, MintClaimsType DEF VerifyMint, ChallengeRecord
      <4>2. Maps(Request, tokens', ClaimsRecord)
        BY <4>1, PutMaps DEF TypeOK
      <4>3. DOMAIN tokens' = DOMAIN tokens \cup {r}
        BY <4>1, PutDomain
      <4> QED
        BY <4>2, <4>3
    <3> QED
      BY <3>1, <3>2
  <2>4. /\ \/ pc' = [pc EXCEPT ![r] = "solved"]
           \/ pc' = [pc EXCEPT ![r] = "solved-no-token"]
        /\ UNCHANGED <<now, challenges, spent, rates, ask, ref, at, stats, ring, boot, era>>
    BY <1>7 DEF VerifyMint, Goto, storeVars
  <2>5. LocalsSet'
    BY <2>1, <2>3, <2>4 DEF TypeOK, LocalsSet
  <2> QED
    BY <2>1, <2>3, <2>4, <2>5 DEF TypeOK
<1> QED
  BY <1>1, <1>2, <1>3, <1>4, <1>5, <1>6, <1>7 DEF Verify

LEMMA SiteVerifyTypeOK ==
  ASSUME TypeOK, NEW r \in Request, SiteVerify(r)
  PROVE  TypeOK'
<1> USE DEF Points, Answers, SiteVerifyAnswers, InFlight, IssuePoints, VerifyPoints
<1>1. CASE SiteVerifyRefuse(r)
  <2>1. stats' \in [Counters -> Nat]
    BY <1>1, CountType DEF SiteVerifyRefuse
  <2> QED
    BY <1>1, <2>1 DEF SiteVerifyRefuse, Arrive, Goto, storeVars, TypeOK, LocalsSet
<1>2. CASE SiteVerifyAccept(r)
  <2>1. stats' \in [Counters -> Nat]
    BY <1>2, CountType DEF SiteVerifyAccept
  <2>2. PICK jti \in DOMAIN tokens, q \in SiteVerifyInput :
          ask' = Put(ask, r, q) /\ ref' = [ref EXCEPT ![r] = jti]
    BY <1>2 DEF SiteVerifyAccept, SiteVerifyInput
  <2>3. jti \in Request
    BY DEF TypeOK, Maps
  <2>4. Maps(Request, ask', IssueInput \cup VerifyInput \cup SiteVerifyInput)
    BY <2>2, PutMaps DEF TypeOK
  <2>5. /\ DOMAIN ask' = DOMAIN ask \cup {r}
        /\ \A j \in DOMAIN ask \ {r} : ask'[j] = ask[j]
    <3>1. DOMAIN ask' = DOMAIN ask \cup {r}
      BY <2>2, PutDomain
    <3> QED
      BY <2>2, <3>1, PutAt
  <2>6. /\ pc[r] = "idle" /\ pc' = [pc EXCEPT ![r] = "jti"]
        /\ era' = [era EXCEPT ![r] = boot]
        /\ UNCHANGED <<now, challenges, spent, rates, at, view, tokens, ring, boot>>
    BY <1>2 DEF SiteVerifyAccept, Arrive, Goto, storeVars
  <2>7. LocalsSet'
    BY <2>2, <2>3, <2>5, <2>6 DEF TypeOK, LocalsSet
  <2> QED
    BY <2>1, <2>2, <2>3, <2>4, <2>6, <2>7 DEF TypeOK
<1>3. CASE SiteVerifyConsume(r)
  <2>1. stats' \in [Counters -> Nat]
    BY <1>3, CountType DEF SiteVerifyConsume
  <2>2. Expiry(ref[r]) \in Int
    <3>1. tokens[ref[r]].exp \in Int
      BY <1>3 DEF SiteVerifyConsume, TypeOK, LocalsSet, Maps, ClaimsRecord
    <3> QED
      BY <3>1, TimeAssumption DEF Expiry
  <2>3. Maps(Request, spent', Int)
    <3>1. CASE spent' = LiveSpent
      BY <3>1, LiveFacts
    <3>2. CASE spent' = Put(LiveSpent, ref[r], Expiry(ref[r]))
      BY <2>2, <3>2, LiveFacts, PutMaps DEF TypeOK
    <3> QED
      BY <1>3, <3>1, <3>2 DEF SiteVerifyConsume, ConsumeJTI
  <2>4. Maps(Request, at', Nat) /\ DOMAIN at \subseteq DOMAIN at'
        /\ (pc'[r] = "verified" => r \in DOMAIN at')
    <3>1. CASE at' = Put(at, r, now)
      <4>1. DOMAIN at' = DOMAIN at \cup {r}
        BY <3>1, PutDomain
      <4>2. Maps(Request, at', Nat)
        BY <3>1, PutMaps DEF TypeOK
      <4> QED
        BY <4>1, <4>2
    <3>2. CASE UNCHANGED at /\ pc' = [pc EXCEPT ![r] = "duplicate"]
      BY <3>2 DEF TypeOK
    <3> QED
      BY <1>3, <3>1, <3>2 DEF SiteVerifyConsume, Goto
  <2>5. /\ pc[r] = "jti"
        /\ \/ pc' = [pc EXCEPT ![r] = "verified"]
           \/ pc' = [pc EXCEPT ![r] = "duplicate"]
        /\ UNCHANGED <<now, ask, ref, view, tokens, ring, boot, era>>
    BY <1>3 DEF SiteVerifyConsume, Goto
  <2>6. challenges' = LiveChallenges /\ rates' = LiveRates
    BY <1>3 DEF SiteVerifyConsume, ConsumeJTI
  <2>7. LocalsSet'
    BY <2>4, <2>5 DEF TypeOK, LocalsSet
  <2> QED
    BY <2>1, <2>3, <2>4, <2>5, <2>6, <2>7, LiveFacts DEF TypeOK
<1> QED
  BY <1>1, <1>2, <1>3 DEF SiteVerify

LEMMA EnvironmentTypeOK ==
  ASSUME TypeOK, Tick \/ Restart
  PROVE  TypeOK'
<1>1. CASE Tick
  BY <1>1 DEF Tick, storeVars, reqVars, TypeOK, LocalsSet
<1>2. CASE Restart
  <2>1. /\ Maps(Request, challenges', ChallengeRecord)
        /\ Maps(Request, spent', Int)
        /\ Maps((DOMAIN Sites) \X Address \X Action, rates', WindowRecord)
    BY <1>2 DEF Restart, EmptyMap, Maps
  <2>2. \A r \in Request : pc'[r] = IF pc[r] \in InFlight THEN "aborted" ELSE pc[r]
    BY <1>2 DEF Restart
  <2>3. pc' \in [Request -> Points]
    BY <1>2 DEF Restart, TypeOK, Points
  <2>4. LocalsSet'
    BY <1>2, <2>2 DEF Restart, TypeOK, LocalsSet, InFlight, IssuePoints, VerifyPoints
  <2> QED
    BY <1>2, <2>1, <2>3, <2>4 DEF Restart, TypeOK, NoStats
<1> QED
  BY <1>1, <1>2

\* server.go, memory.go: every variable keeps its type, and a handler finds the locals
\* it relies on, for every set of requests, sites and keys.
THEOREM TypeCorrect == Spec => []TypeOK
<1>1. ASSUME TypeOK, [Next]_vars PROVE TypeOK'
  <2>1. CASE UNCHANGED vars
    BY <1>1, <2>1 DEF vars, storeVars, reqVars, TypeOK, LocalsSet
  <2>2. CASE Next
    BY <1>1, <2>2, IssueTypeOK, VerifyTypeOK, SiteVerifyTypeOK, EnvironmentTypeOK DEF Next
  <2> QED
    BY <1>1, <2>1, <2>2
<1> QED
  BY InitTypeOK, <1>1, PTL DEF Spec

-----------------------------------------------------------------------------
(* One token per issued challenge.                                           *)

\* The requests that hold, or are about to mint, the one token of ref[r].
Claimants == {r \in Request : pc[r] = "mint"} \cup DOMAIN tokens

\* Why OneTokenPerIssue is kept.  A challenge in the store was put there by a request
\* that is done, so it cannot be put there again; a challenge with a claimant is not
\* in the store, so no second request can consume it; and a handler that has yet to
\* answer holds no token of its own.
Redemptions ==
    /\ \A id \in DOMAIN challenges : pc[id] = "challenge-issued"
    /\ \A r \in Request : pc[r] \in VerifyPoints => pc[ref[r]] = "challenge-issued"
    /\ \A r \in Request : pc[r] \in InFlight \cup {"idle"} => r \notin DOMAIN tokens
    /\ \A r \in Request :
         pc[r] \in IssuePoints \cup {"idle", "challenge-issued"} => ref[r] = r
    /\ \A r \in Claimants :
         /\ ref[r] \notin DOMAIN challenges
         /\ pc[ref[r]] = "challenge-issued" \/ (ref[r] = r /\ pc[r] = "token-issued")
    /\ \A r, s \in Claimants : ref[r] = ref[s] => r = s

\* The initial state, with an empty store and no request taken up.
LEMMA InitRedemptions == Init => Redemptions
  BY DEF Init, NewMemory, EmptyMap, Redemptions, Claimants, VerifyPoints

\* A step of one handler that neither offers nor redeems anything.
LEMMA QuietRedemptions ==
  ASSUME TypeOK, Redemptions, NEW r \in Request, NEW p \in Points,
         pc' = [pc EXCEPT ![r] = p],
         pc[r] \in (InFlight \ {"mint"}) \cup {"idle"},
         p \notin {"mint", "challenge-issued", "idle"},
         p \in VerifyPoints => pc[r] \in VerifyPoints,
         p \in IssuePoints => pc[r] \in IssuePoints \cup {"idle"},
         UNCHANGED <<ref, tokens>>,
         DOMAIN challenges' \subseteq DOMAIN challenges
  PROVE  Redemptions'
<1> USE DEF InFlight, IssuePoints, VerifyPoints
<1>1. \A s \in Request : pc[s] = "challenge-issued" => pc'[s] = "challenge-issued"
  BY DEF TypeOK
<1>2. \A s \in Request : s # r => pc'[s] = pc[s]
  BY DEF TypeOK
<1>3. pc'[r] = p
  BY DEF TypeOK
<1>4. Claimants' \subseteq Claimants
  BY <1>2, <1>3 DEF Claimants
<1>5. \A s \in Claimants : pc[s] = "token-issued" => pc'[s] = "token-issued"
  BY <1>2 DEF TypeOK, Claimants, Maps
<1>6. \A s \in Claimants : s \in Request
  BY DEF TypeOK, Claimants, Maps
<1>7. /\ \A id \in DOMAIN challenges' : pc'[id] = "challenge-issued"
      /\ \A s \in Request : pc'[s] \in VerifyPoints => pc'[ref'[s]] = "challenge-issued"
      /\ \A s \in Request : pc'[s] \in InFlight \cup {"idle"} => s \notin DOMAIN tokens'
      /\ \A s \in Request :
           pc'[s] \in IssuePoints \cup {"idle", "challenge-issued"} => ref'[s] = s
  <2>1. \A id \in DOMAIN challenges' : id \in Request /\ pc[id] = "challenge-issued"
    BY DEF Redemptions, TypeOK, Maps
  <2>2. \A s \in Request : ref[s] \in Request
    BY DEF TypeOK
  <2>3. \A s \in Request : pc'[s] \in VerifyPoints => pc[s] \in VerifyPoints
    BY <1>2, <1>3
  <2>4. \A s \in Request : pc'[s] \in InFlight \cup {"idle"} => s \notin DOMAIN tokens'
    BY <1>2, <1>3 DEF Redemptions
  <2>5. \A s \in Request :
           pc'[s] \in IssuePoints \cup {"idle", "challenge-issued"} => ref'[s] = s
    BY <1>2, <1>3 DEF Redemptions
  <2> QED
    BY <1>1, <2>1, <2>2, <2>3, <2>4, <2>5 DEF Redemptions
<1>8. \A s \in Claimants' :
         /\ ref'[s] \notin DOMAIN challenges'
         /\ pc'[ref'[s]] = "challenge-issued" \/ (ref'[s] = s /\ pc'[s] = "token-issued")
  BY <1>1, <1>4, <1>5, <1>6 DEF Redemptions, TypeOK
<1>9. \A s, t \in Claimants' : ref'[s] = ref'[t] => s = t
  BY <1>4 DEF Redemptions
<1> QED
  BY <1>7, <1>8, <1>9 DEF Redemptions

LEMMA IssueRedemptions ==
  ASSUME TypeOK, Redemptions, NEW r \in Request, Issue(r)
  PROVE  Redemptions'
<1> USE DEF InFlight, IssuePoints, VerifyPoints
<1>1. CASE \/ IssueReject(r) \/ IssueStart(r) \/ IssueRate(r) \/ IssueBlock(r)
           \/ IssueUndecided(r) \/ (\E kind \in Kind : IssueOffer(r, kind))
  <2>1. PICK p \in {"rejected", "rate", "score", "rate-limited", "blocked", "undecided",
                    "put", "no-challenge"} :
          /\ pc' = [pc EXCEPT ![r] = p]
          /\ pc[r] \in {"idle", "rate", "score"}
          /\ UNCHANGED <<ref, tokens, challenges>>
    BY <1>1 DEF IssueReject, IssueStart, IssueRate, IssueBlock, IssueUndecided, IssueOffer,
                Arrive, Goto, AllowRate, storeVars
  <2> QED
    BY <2>1, QuietRedemptions DEF Points, Answers, IssueAnswers
<1>2. CASE IssueAllow(r)
  <2>1. /\ pc[r] = "score" /\ UNCHANGED <<ref, challenges>>
        /\ \/ pc' = [pc EXCEPT ![r] = "no-token"] /\ UNCHANGED tokens
           \/ /\ pc' = [pc EXCEPT ![r] = "token-issued"]
              /\ DOMAIN tokens' = DOMAIN tokens \cup {r}
    BY <1>2, PutDomain DEF IssueAllow, Goto, storeVars
  <2>2. CASE pc' = [pc EXCEPT ![r] = "no-token"] /\ UNCHANGED tokens
    BY <2>1, <2>2, QuietRedemptions DEF Points, Answers, IssueAnswers
  <2>3. CASE /\ pc' = [pc EXCEPT ![r] = "token-issued"]
             /\ DOMAIN tokens' = DOMAIN tokens \cup {r}
    <3>1. Claimants' = Claimants \cup {r}
      BY <2>1, <2>3 DEF TypeOK, Claimants
    <3>2. ref[r] = r /\ r \notin DOMAIN challenges
      BY <2>1 DEF Redemptions, TypeOK
    <3>3. \A s \in Claimants : ref[s] # r /\ s # r /\ s \in Request
      BY <2>1 DEF Redemptions, Claimants, TypeOK, Maps
    <3> QED
      BY <2>1, <2>3, <3>1, <3>2, <3>3 DEF Redemptions, TypeOK, Maps
  <2> QED
    BY <2>1, <2>2, <2>3
<1>3. CASE IssuePut(r)
  <2>1. /\ pc[r] = "put" /\ pc' = [pc EXCEPT ![r] = "challenge-issued"]
        /\ UNCHANGED <<ref, tokens>>
        /\ DOMAIN challenges' = DOMAIN LiveChallenges \cup {r}
    BY <1>3, PutDomain DEF IssuePut, PutChallenge, Goto
  <2>2. DOMAIN LiveChallenges \subseteq DOMAIN challenges
    BY LiveFacts
  <2>3. Claimants' = Claimants
    BY <2>1 DEF TypeOK, Claimants
  <2>4. \A s \in Claimants : ref[s] # r /\ s # r /\ s \in Request
    BY <2>1 DEF Redemptions, Claimants, TypeOK, Maps
  <2> QED
    BY <2>1, <2>2, <2>3, <2>4 DEF Redemptions, TypeOK, Maps
<1> QED
  BY <1>1, <1>2, <1>3 DEF Issue

LEMMA VerifyRedemptions ==
  ASSUME TypeOK, Redemptions, NEW r \in Request, Verify(r)
  PROVE  Redemptions'
<1> USE DEF InFlight, IssuePoints, VerifyPoints
<1>1. CASE VerifyGet(r)
  <2>1. PICK id \in Request, p \in {"check", "not-found"} :
          /\ pc[id] = "challenge-issued" /\ pc[r] = "idle"
          /\ ref' = [ref EXCEPT ![r] = id]
          /\ pc' = [pc EXCEPT ![r] = p]
          /\ UNCHANGED tokens
          /\ challenges' = LiveChallenges
    BY <1>1 DEF VerifyGet, Arrive, Goto, GetChallenge
  <2>2. DOMAIN LiveChallenges \subseteq DOMAIN challenges
    BY LiveFacts
  <2>3. Claimants' = Claimants
    BY <2>1 DEF TypeOK, Claimants
  <2>4. \A s \in Claimants : s # r /\ s \in Request /\ ref[s] # r
    BY <2>1 DEF Redemptions, Claimants, TypeOK, Maps
  <2> QED
    BY <2>1, <2>2, <2>3, <2>4 DEF Redemptions, TypeOK, Maps
<1>2. CASE \/ VerifyDrop(r) \/ VerifyRefuse(r) \/ VerifyAccept(r) \/ VerifyFail(r)
           \/ VerifyConsume(r) /\ ~Consumable(ref[r])
  <2>1. PICK p \in {"dropped", "fail", "consume", "proof-refused", "already-consumed"} :
          /\ pc' = [pc EXCEPT ![r] = p]
          /\ pc[r] \in {"check", "fail", "consume"}
          /\ UNCHANGED <<ref, tokens>>
    BY <1>2 DEF VerifyDrop, VerifyRefuse, VerifyAccept, VerifyFail, VerifyConsume, Goto
  <2>2. DOMAIN challenges' \subseteq DOMAIN challenges
    <3>1. \/ challenges' = challenges
          \/ challenges' = Without(challenges, ref[r])
          \/ /\ ref[r] \in DOMAIN challenges
             /\ \E c : challenges' = Put(challenges, ref[r], c)
      BY <1>2 DEF VerifyDrop, VerifyRefuse, VerifyAccept, VerifyFail, VerifyConsume,
                  FailChallenge, ConsumeChallenge, storeVars
    <3>2. CASE challenges' = Without(challenges, ref[r])
      BY <3>2, WithoutDomain
    <3>3. ASSUME NEW c, ref[r] \in DOMAIN challenges, challenges' = Put(challenges, ref[r], c)
          PROVE  DOMAIN challenges' \subseteq DOMAIN challenges
      <4>1. DOMAIN challenges' = DOMAIN challenges \cup {ref[r]}
        BY <3>3, PutDomain
      <4> QED
        BY <3>3, <4>1
    <3> QED
      BY <3>1, <3>2, <3>3
  <2> QED
    BY <2>1, <2>2, QuietRedemptions DEF Points, Answers, VerifyAnswers
<1>3. CASE VerifyConsume(r) /\ Consumable(ref[r])
  <2>1. /\ pc[r] = "consume" /\ pc' = [pc EXCEPT ![r] = "mint"]
        /\ UNCHANGED <<ref, tokens>>
        /\ ref[r] \in DOMAIN challenges
        /\ DOMAIN challenges' = DOMAIN challenges \ {ref[r]}
    BY <1>3, WithoutDomain DEF VerifyConsume, ConsumeChallenge, Consumable, Goto
  <2>2. Claimants' = Claimants \cup {r}
    BY <2>1 DEF TypeOK, Claimants
  <2>3. \A s \in Claimants : s # r /\ s \in Request /\ ref[s] # r /\ ref[s] # ref[r]
    BY <2>1 DEF Redemptions, Claimants, TypeOK, Maps
  <2>4. pc[ref[r]] = "challenge-issued" /\ ref[r] # r
    BY <2>1 DEF Redemptions
  <2> QED
    BY <2>1, <2>2, <2>3, <2>4 DEF Redemptions, TypeOK, Maps
<1>4. CASE VerifyMint(r)
  <2>1. /\ pc[r] = "mint" /\ UNCHANGED <<ref, challenges>>
        /\ \/ /\ pc' = [pc EXCEPT ![r] = "solved"]
              /\ DOMAIN tokens' = DOMAIN tokens \cup {r}
           \/ pc' = [pc EXCEPT ![r] = "solved-no-token"] /\ UNCHANGED tokens
    <3>1. CASE ~UNCHANGED tokens
      <4>1. PICK c : tokens' = Put(tokens, r, c)
        BY <1>4, <3>1 DEF VerifyMint
      <4>2. DOMAIN tokens' = DOMAIN tokens \cup {r}
        BY <4>1, PutDomain
      <4> QED
        BY <1>4, <3>1, <4>2 DEF VerifyMint, Goto, storeVars
    <3>2. CASE UNCHANGED tokens /\ pc' = [pc EXCEPT ![r] = "solved"]
      <4>1. PICK c : tokens' = Put(tokens, r, c)
        BY <1>4, <3>2 DEF VerifyMint, Goto, TypeOK
      <4>2. DOMAIN tokens' = DOMAIN tokens \cup {r}
        BY <4>1, PutDomain
      <4> QED
        BY <1>4, <3>2, <4>2 DEF VerifyMint, storeVars
    <3> QED
      BY <1>4, <3>1, <3>2 DEF VerifyMint, Goto, storeVars
  <2>2. Claimants' \subseteq Claimants
    BY <2>1 DEF TypeOK, Claimants
  <2>3. \A s \in Claimants : s \in Request /\ ref[s] # r
    BY <2>1 DEF Redemptions, Claimants, TypeOK, Maps
  <2> QED
    BY <2>1, <2>2, <2>3 DEF Redemptions, TypeOK, Maps
<1> QED
  BY <1>1, <1>2, <1>3, <1>4 DEF Verify

LEMMA OtherRedemptions ==
  ASSUME TypeOK, Redemptions, (\E r \in Request : SiteVerify(r)) \/ Tick \/ Restart
  PROVE  Redemptions'
<1> USE DEF InFlight, IssuePoints, VerifyPoints
<1>1. ASSUME NEW r \in Request, SiteVerifyRefuse(r) \/ SiteVerifyConsume(r)
      PROVE  Redemptions'
  <2>1. PICK p \in {"refused", "verified", "duplicate"} :
          /\ pc' = [pc EXCEPT ![r] = p]
          /\ pc[r] \in {"idle", "jti"}
          /\ UNCHANGED <<ref, tokens>>
    BY <1>1 DEF SiteVerifyRefuse, SiteVerifyConsume, Arrive, Goto
  <2>2. DOMAIN challenges' \subseteq DOMAIN challenges
    BY <1>1, LiveFacts DEF SiteVerifyRefuse, SiteVerifyConsume, ConsumeJTI, storeVars
  <2> QED
    BY <2>1, <2>2, QuietRedemptions DEF Points, Answers, SiteVerifyAnswers
<1>2. ASSUME NEW r \in Request, SiteVerifyAccept(r) PROVE Redemptions'
  <2>1. PICK jti \in DOMAIN tokens :
          /\ pc[r] = "idle" /\ pc' = [pc EXCEPT ![r] = "jti"]
          /\ ref' = [ref EXCEPT ![r] = jti]
          /\ UNCHANGED <<tokens, challenges>>
    BY <1>2 DEF SiteVerifyAccept, Arrive, Goto, storeVars
  <2>2. Claimants' = Claimants
    BY <2>1 DEF TypeOK, Claimants
  <2>3. \A s \in Claimants : s # r /\ s \in Request /\ ref[s] # r
    BY <2>1 DEF Redemptions, Claimants, TypeOK, Maps
  <2> QED
    BY <2>1, <2>2, <2>3 DEF Redemptions, TypeOK, Maps
<1>3. CASE Tick
  BY <1>3 DEF Tick, storeVars, reqVars, Redemptions, Claimants
<1>4. CASE Restart
  <2>1. /\ \A s \in Request : pc'[s] = IF pc[s] \in InFlight THEN "aborted" ELSE pc[s]
        /\ challenges' = EmptyMap
        /\ UNCHANGED <<ref, tokens>>
    BY <1>4 DEF Restart
  <2>2. Claimants' \subseteq Claimants
    BY <2>1 DEF Claimants
  <2>3. \A s \in Claimants : s \in Request /\ ref[s] \in Request
    BY DEF Claimants, TypeOK, Maps
  <2> QED
    BY <2>1, <2>2, <2>3 DEF Redemptions, EmptyMap
<1> QED
  BY <1>1, <1>2, <1>3, <1>4 DEF SiteVerify

THEOREM RedemptionsInvariant == Spec => [](TypeOK /\ Redemptions)
<1>1. ASSUME TypeOK, Redemptions, [Next]_vars PROVE Redemptions'
  <2>1. CASE UNCHANGED vars
    BY <1>1, <2>1 DEF vars, storeVars, reqVars, Redemptions, Claimants
  <2>2. CASE Next
    BY <1>1, <2>2, IssueRedemptions, VerifyRedemptions, OtherRedemptions DEF Next
  <2> QED
    BY <1>1, <2>1, <2>2
<1> QED
  BY InitRedemptions, TypeCorrect, <1>1, PTL DEF Spec

\* server.go verifyChallenge, memory.go ConsumeChallenge: however many submissions of a
\* challenge run at once, and across restarts, it yields at most one token.
THEOREM OneToken == Spec => []OneTokenPerIssue
<1>1. Redemptions => OneTokenPerIssue
  BY DEF Redemptions, Claimants, OneTokenPerIssue
<1> QED
  BY RedemptionsInvariant, <1>1, PTL

-----------------------------------------------------------------------------
(* Single use within one life of the process.                                *)

\* Why SingleUseInLife is kept.  The expiry recorded with a spent token id is the
\* token's own; and a token this process has reported as valid stays among the spent
\* ids until the clock is past its expiry, so that a later call finds it there or is
\* itself too late to count.
Spending ==
    /\ \A j \in DOMAIN spent : j \in DOMAIN tokens /\ spent[j] = Expiry(j)
    /\ \A r \in Request : pc[r] \in InFlight => era[r] = boot
    /\ \A r \in Verified : era[r] <= boot
    /\ \A r \in Verified :
         (era[r] = boot /\ now <= Expiry(ref[r])) => ref[r] \in DOMAIN spent
    /\ SingleUseInLife

LEMMA InitSpending == Init => Spending
  BY DEF Init, NewMemory, EmptyMap, Spending, SingleUseInLife, Verified, InFlight,
         IssuePoints, VerifyPoints

\* Claims are signed once: no step changes a token that exists.
LEMMA TokensStable ==
  ASSUME TypeOK, Redemptions, [Next]_vars
  PROVE  /\ DOMAIN tokens \subseteq DOMAIN tokens'
         /\ \A j \in DOMAIN tokens : tokens'[j] = tokens[j]
<1>1. CASE UNCHANGED tokens
  BY <1>1
<1>2. ASSUME NEW r \in Request, NEW c, tokens' = Put(tokens, r, c),
             pc[r] \in {"score", "mint"}
      PROVE  /\ DOMAIN tokens \subseteq DOMAIN tokens'
             /\ \A j \in DOMAIN tokens : tokens'[j] = tokens[j]
  <2>1. r \notin DOMAIN tokens
    BY <1>2 DEF Redemptions, InFlight, IssuePoints, VerifyPoints
  <2>2. DOMAIN tokens' = DOMAIN tokens \cup {r}
    BY <1>2, PutDomain
  <2>3. \A j \in DOMAIN tokens : tokens'[j] = tokens[j]
    BY <1>2, <2>1, PutAt
  <2> QED
    BY <2>2, <2>3
<1>3. CASE \E r \in Request : IssueAllow(r) \/ VerifyMint(r)
  <2>1. PICK r \in Request : IssueAllow(r) \/ VerifyMint(r)
    BY <1>3
  <2>2. CASE UNCHANGED tokens
    BY <2>2
  <2>3. CASE ~UNCHANGED tokens
    <3>1. PICK c : tokens' = Put(tokens, r, c)
      BY <2>1, <2>3 DEF IssueAllow, VerifyMint
    <3>2. pc[r] \in {"score", "mint"}
      BY <2>1 DEF IssueAllow, VerifyMint
    <3> QED
      BY <1>2, <3>1, <3>2
  <2> QED
    BY <2>2, <2>3
<1>4. ASSUME NEW r \in Request, Issue(r), ~IssueAllow(r) PROVE UNCHANGED tokens
  BY <1>4 DEF Issue, IssueReject, IssueStart, IssueRate, IssueBlock, IssueUndecided,
              IssueOffer, IssuePut
<1>5. ASSUME NEW r \in Request, Verify(r), ~VerifyMint(r) PROVE UNCHANGED tokens
  BY <1>5 DEF Verify, VerifyGet, VerifyDrop, VerifyRefuse, VerifyAccept, VerifyFail,
              VerifyConsume
<1>6. ASSUME NEW r \in Request, SiteVerify(r) PROVE UNCHANGED tokens
  BY <1>6 DEF SiteVerify, SiteVerifyRefuse, SiteVerifyAccept, SiteVerifyConsume
<1>7. CASE Tick \/ Restart \/ UNCHANGED vars
  BY <1>1, <1>7 DEF Tick, Restart, vars
<1> QED
  BY <1>1, <1>3, <1>4, <1>5, <1>6, <1>7 DEF Next

LEMMA ExpiryStable ==
  ASSUME TypeOK, Redemptions, [Next]_vars, NEW j \in DOMAIN tokens
  PROVE  j \in DOMAIN tokens' /\ Expiry(j)' = Expiry(j) /\ Expiry(j) \in Int
<1>1. tokens[j].exp \in Int
  BY DEF TypeOK, Maps, ClaimsRecord
<1>2. Expiry(j) \in Int
  BY <1>1, TimeAssumption DEF Expiry
<1> QED
  BY <1>2, TokensStable DEF Expiry

\* A step of one handler that reports no token as valid, collecting garbage or not.
LEMMA QuietSpending ==
  ASSUME TypeOK, Redemptions, Spending, [Next]_vars, NEW r \in Request, NEW p,
         pc' = [pc EXCEPT ![r] = p], p # "verified", pc[r] # "verified",
         era' = [era EXCEPT ![r] = boot] \/ (pc[r] \in InFlight /\ UNCHANGED era),
         \A s \in Request \ {r} : ref'[s] = ref[s],
         \A s \in DOMAIN at \ {r} : at'[s] = at[s],
         spent' = spent \/ spent' = LiveSpent,
         UNCHANGED <<now, boot>>
  PROVE  Spending'
<1>1. /\ Verified' = Verified
      /\ \A s \in Verified : /\ s \in Request \ {r} /\ s \in DOMAIN at
                             /\ ref[s] \in DOMAIN tokens
                             /\ ref'[s] = ref[s] /\ at'[s] = at[s] /\ era'[s] = era[s]
  BY DEF TypeOK, LocalsSet, Verified
<1>2. \A s \in Request : pc'[s] \in InFlight => era'[s] = boot'
  BY DEF TypeOK, Spending
<1>3. /\ DOMAIN spent' \subseteq DOMAIN spent
      /\ \A j \in DOMAIN spent' : spent'[j] = spent[j]
      /\ \A j \in DOMAIN spent : now <= spent[j] => j \in DOMAIN spent'
  BY LiveFacts
<1>4. \A j \in DOMAIN spent' : j \in DOMAIN tokens' /\ spent'[j] = Expiry(j)'
  BY <1>3, ExpiryStable DEF Spending
<1>5. ASSUME NEW s \in Verified', era'[s] = boot', now' <= Expiry(ref[s])'
      PROVE  ref'[s] \in DOMAIN spent'
  BY <1>1, <1>3, <1>5, ExpiryStable DEF Spending
<1>6. SingleUseInLife'
  <2>1. \A s \in Verified : Expiry(ref[s])' = Expiry(ref[s])
    BY <1>1, TokensStable DEF Expiry
  <2> QED
    BY <1>1, <2>1 DEF Spending, SingleUseInLife
<1> QED
  BY <1>1, <1>2, <1>4, <1>5, <1>6 DEF Spending

LEMMA IssueSpending ==
  ASSUME TypeOK, Redemptions, Spending, NEW r \in Request, Issue(r)
  PROVE  Spending'
<1>1. PICK p \in Points :
        /\ pc' = [pc EXCEPT ![r] = p] /\ p # "verified"
        /\ pc[r] \in IssuePoints \cup {"idle"}
        /\ era' = [era EXCEPT ![r] = boot] \/ (pc[r] \in InFlight /\ UNCHANGED era)
        /\ UNCHANGED <<now, boot, ref>>
  BY DEF Issue, IssueReject, IssueStart, IssueRate, IssueBlock, IssueUndecided, IssueAllow,
         IssueOffer, IssuePut, Arrive, Goto, Points, Answers, IssueAnswers, InFlight,
         IssuePoints
<1>2. spent' = spent \/ spent' = LiveSpent
  BY DEF Issue, IssueReject, IssueStart, IssueRate, IssueBlock, IssueUndecided, IssueAllow,
         IssueOffer, IssuePut, PutChallenge, AllowRate, storeVars
<1>3. \A s \in DOMAIN at \ {r} : at'[s] = at[s]
  <2>1. at' = at \/ at' = Put(at, r, now) \/ at' = Without(at, r)
    BY DEF Issue, IssueReject, IssueStart, IssueRate, IssueBlock, IssueUndecided,
           IssueAllow, IssueOffer, IssuePut
  <2> QED
    BY <2>1, PutAt, WithoutAt
<1>4. [Next]_vars
  BY DEF Next
<1> QED
  BY <1>1, <1>2, <1>3, <1>4, QuietSpending DEF IssuePoints

LEMMA VerifySpending ==
  ASSUME TypeOK, Redemptions, Spending, NEW r \in Request, Verify(r)
  PROVE  Spending'
<1>1. PICK p \in Points :
        /\ pc' = [pc EXCEPT ![r] = p] /\ p # "verified"
        /\ pc[r] \in VerifyPoints \cup {"idle"}
        /\ era' = [era EXCEPT ![r] = boot] \/ (pc[r] \in InFlight /\ UNCHANGED era)
        /\ UNCHANGED <<now, boot, at>>
  BY DEF Verify, VerifyGet, VerifyDrop, VerifyRefuse, VerifyAccept, VerifyFail,
         VerifyConsume, VerifyMint, Arrive, Goto, Points, Answers, VerifyAnswers, InFlight,
         VerifyPoints
<1>2. spent' = spent \/ spent' = LiveSpent
  BY DEF Verify, VerifyGet, VerifyDrop, VerifyRefuse, VerifyAccept, VerifyFail,
         VerifyConsume, VerifyMint, GetChallenge, FailChallenge, ConsumeChallenge, storeVars
<1>3. \A s \in Request \ {r} : ref'[s] = ref[s]
  BY DEF Verify, VerifyGet, VerifyDrop, VerifyRefuse, VerifyAccept, VerifyFail,
         VerifyConsume, VerifyMint, TypeOK
<1>4. [Next]_vars
  BY DEF Next
<1> QED
  BY <1>1, <1>2, <1>3, <1>4, QuietSpending DEF VerifyPoints

\* The step that reports a token as valid.  Had this process reported it before, and
\* were the clock not past its expiry, its id would be among the spent ones.
LEMMA ReportSpending ==
  ASSUME TypeOK, Redemptions, Spending, NEW r \in Request, SiteVerifyConsume(r),
         Unspent(ref[r])
  PROVE  Spending'
<1> DEFINE t == ref[r]
<1>1. /\ pc[r] = "jti" /\ pc' = [pc EXCEPT ![r] = "verified"]
      /\ at' = Put(at, r, now)
      /\ spent' = Put(LiveSpent, t, Expiry(t))
      /\ UNCHANGED <<now, boot, era, ref, tokens>>
  BY DEF SiteVerifyConsume, ConsumeJTI, Goto
<1>2. t \in DOMAIN tokens /\ era[r] = boot /\ r \notin Verified
  BY <1>1 DEF TypeOK, LocalsSet, Spending, InFlight, Verified
<1>3. Verified' = Verified \cup {r}
  BY <1>1 DEF TypeOK, Verified
<1>4. at'[r] = now /\ \A s \in Verified : s # r /\ at'[s] = at[s]
  <2>1. \A s \in Verified : s # r /\ s \in DOMAIN at
    BY <1>2 DEF TypeOK, LocalsSet, Verified
  <2> QED
    BY <1>1, <2>1, PutAt
<1>5. \A j \in DOMAIN tokens : Expiry(j)' = Expiry(j) /\ Expiry(j) \in Int
  <2>1. \A j \in DOMAIN tokens : tokens[j].exp \in Int
    BY DEF TypeOK, Maps, ClaimsRecord
  <2> QED
    BY <1>1, <2>1, TimeAssumption DEF Expiry
<1>6. /\ DOMAIN spent' = DOMAIN LiveSpent \cup {t}
      /\ spent'[t] = Expiry(t)
      /\ \A j \in DOMAIN LiveSpent : j # t => spent'[j] = spent[j]
  <2>1. DOMAIN spent' = DOMAIN LiveSpent \cup {t}
    BY <1>1, PutDomain
  <2>2. spent'[t] = Expiry(t)
    BY <1>1, PutAt
  <2>3. \A j \in DOMAIN LiveSpent : j # t => spent'[j] = LiveSpent[j]
    BY <1>1, PutAt
  <2> QED
    BY <2>1, <2>2, <2>3, LiveFacts
<1>7. DOMAIN LiveSpent = {j \in DOMAIN spent : now <= spent[j]}
  BY LiveFacts
<1>8. \A j \in DOMAIN spent' : j \in DOMAIN tokens' /\ spent'[j] = Expiry(j)'
  BY <1>1, <1>2, <1>5, <1>6, <1>7 DEF Spending
<1>9. /\ \A s \in Request : pc'[s] \in InFlight => era'[s] = boot'
      /\ \A s \in Verified' : era'[s] <= boot'
  BY <1>1, <1>2, <1>3 DEF Spending, TypeOK, InFlight, IssuePoints, VerifyPoints
<1>10. \A s \in Verified : ref[s] \in DOMAIN tokens
  BY DEF TypeOK, LocalsSet, Verified
<1>11. ASSUME NEW s \in Verified', era'[s] = boot', now' <= Expiry(ref[s])'
       PROVE  ref'[s] \in DOMAIN spent'
  <2>1. CASE s = r
    BY <1>1, <1>6, <2>1
  <2>2. CASE s # r
    <3>1. now <= Expiry(ref[s]) /\ s \in Verified /\ era[s] = boot
      BY <1>1, <1>3, <1>5, <1>10, <1>11, <2>2 DEF Expiry
    <3>2. ref[s] \in DOMAIN LiveSpent
      BY <1>7, <3>1 DEF Spending
    <3> QED
      BY <1>1, <1>6, <3>2
  <2> QED
    BY <2>1, <2>2
<1>12. ASSUME NEW s \in Verified, ref[s] = t, era[s] = boot
       PROVE  now > Expiry(t)
  BY <1>2, <1>5, <1>7, <1>12 DEF Spending, Unspent, TypeOK
<1>13. SingleUseInLife'
  <2>1. \A s \in Verified' : Expiry(ref[s])' = Expiry(ref[s])
    BY <1>1 DEF Expiry
  <2>2. ASSUME NEW s \in Verified', NEW u \in Verified', ref'[s] = ref'[u],
               era'[s] = era'[u], at'[s] <= Expiry(ref[s]), at'[u] <= Expiry(ref[u])
        PROVE  s = u
    <3>1. CASE s \in Verified /\ u \in Verified
      BY <1>1, <1>4, <2>2, <3>1 DEF Spending, SingleUseInLife
    <3>2. CASE s = r /\ u \in Verified
      BY <1>1, <1>2, <1>4, <1>5, <1>12, <2>2, <3>2 DEF TypeOK
    <3>3. CASE u = r /\ s \in Verified
      BY <1>1, <1>2, <1>4, <1>5, <1>12, <2>2, <3>3 DEF TypeOK
    <3> QED
      BY <1>3, <3>1, <3>2, <3>3
  <2> QED
    BY <2>1, <2>2 DEF SingleUseInLife
<1> QED
  BY <1>8, <1>9, <1>11, <1>13 DEF Spending

LEMMA SiteVerifySpending ==
  ASSUME TypeOK, Redemptions, Spending, NEW r \in Request, SiteVerify(r)
  PROVE  Spending'
<1>1. CASE SiteVerifyConsume(r) /\ Unspent(ref[r])
  BY <1>1, ReportSpending
<1>2. CASE ~(SiteVerifyConsume(r) /\ Unspent(ref[r]))
  <2>1. PICK p \in Points :
          /\ pc' = [pc EXCEPT ![r] = p] /\ p # "verified"
          /\ pc[r] \in {"jti", "idle"}
          /\ era' = [era EXCEPT ![r] = boot] \/ (pc[r] \in InFlight /\ UNCHANGED era)
          /\ UNCHANGED <<now, boot, at>>
    BY <1>2 DEF SiteVerify, SiteVerifyRefuse, SiteVerifyAccept, SiteVerifyConsume, Arrive,
                Goto, Points, Answers, SiteVerifyAnswers, InFlight
  <2>2. spent' = spent \/ spent' = LiveSpent
    BY <1>2 DEF SiteVerify, SiteVerifyRefuse, SiteVerifyAccept, SiteVerifyConsume,
                ConsumeJTI, storeVars
  <2>3. \A s \in Request \ {r} : ref'[s] = ref[s]
    BY DEF SiteVerify, SiteVerifyRefuse, SiteVerifyAccept, SiteVerifyConsume, TypeOK
  <2>4. [Next]_vars
    BY DEF Next
  <2> QED
    BY <2>1, <2>2, <2>3, <2>4, QuietSpending
<1> QED
  BY <1>1, <1>2

LEMMA EnvironmentSpending ==
  ASSUME TypeOK, Redemptions, Spending, Tick \/ Restart
  PROVE  Spending'
<1>1. /\ Verified' = Verified
      /\ UNCHANGED <<at, ref, era, tokens>>
  <2>1. CASE Tick
    BY <2>1 DEF Tick, reqVars, Verified
  <2>2. CASE Restart
    BY <2>2 DEF Restart, Verified, InFlight, IssuePoints, VerifyPoints
  <2> QED
    BY <2>1, <2>2
<1>2. SingleUseInLife'
  BY <1>1 DEF Spending, SingleUseInLife, Expiry
<1>3. \A s \in Verified : Expiry(ref[s])' = Expiry(ref[s]) /\ Expiry(ref[s]) \in Int
  BY <1>1, TimeAssumption DEF Expiry, TypeOK, LocalsSet, Verified, Maps, ClaimsRecord
<1>4. CASE Tick
  <2>1. UNCHANGED <<spent, boot, pc>> /\ now' = now + 1
    BY <1>4 DEF Tick, storeVars, reqVars
  <2>2. \A s \in Verified' :
           (era'[s] = boot' /\ now' <= Expiry(ref[s])') => ref'[s] \in DOMAIN spent'
    BY <1>1, <1>3, <2>1 DEF Spending, TypeOK
  <2> QED
    BY <1>1, <1>2, <2>1, <2>2 DEF Spending, Expiry
<1>5. CASE Restart
  <2>1. /\ spent' = EmptyMap /\ boot' = boot + 1
        /\ \A r \in Request : pc'[r] \notin InFlight
    BY <1>5 DEF Restart, InFlight, IssuePoints, VerifyPoints
  <2>2. \A s \in Verified' : era'[s] < boot'
    BY <1>1, <2>1 DEF Spending, TypeOK, Verified
  <2>3. \A s \in Verified' : era'[s] <= boot' /\ era'[s] # boot'
    BY <1>1, <2>1, <2>2 DEF TypeOK, Verified
  <2> QED
    BY <1>2, <2>1, <2>3 DEF Spending, EmptyMap
<1> QED
  BY <1>4, <1>5

THEOREM SpendingInvariant == Spec => [](TypeOK /\ Redemptions /\ Spending)
<1>1. ASSUME TypeOK, Redemptions, Spending, [Next]_vars PROVE Spending'
  <2>1. CASE UNCHANGED vars
    BY <1>1, <2>1 DEF vars, storeVars, reqVars, Spending, SingleUseInLife, Verified, Expiry
  <2>2. CASE Next
    BY <1>1, <2>2, IssueSpending, VerifySpending, SiteVerifySpending, EnvironmentSpending
       DEF Next
  <2> QED
    BY <1>1, <2>1, <2>2
<1> QED
  BY InitSpending, RedemptionsInvariant, <1>1, PTL DEF Spec

\* server.go siteVerify, memory.go ConsumeJTI: until the clock has passed its expiry, a
\* process reports a token as valid to at most one call, for every number of calls and
\* every interleaving of them with other traffic, garbage collection and time.
THEOREM SingleUseProved == Spec => []SingleUseInLife
  BY SpendingInvariant, PTL DEF Spending

-----------------------------------------------------------------------------
(* Failed attempts.                                                          *)

\* Why AttemptsExact is kept: a challenge enters the store with no attempts, when
\* nobody can have failed it yet, and every failure is counted in the store's own copy.
Attempts ==
    /\ AttemptsExact
    /\ \A id \in Request : IsFiniteSet(Refused(id))
    /\ \A id \in Request : pc[id] # "challenge-issued" => Refused(id) = {}
    /\ \A r \in Request : pc[r] = "put" => view[r].attempts = 0

LEMMA InitAttempts == Init => Attempts
<1> SUFFICES ASSUME Init PROVE Attempts
  OBVIOUS
<1>1. \A id \in Request : Refused(id) = {}
  BY DEF Init, Refused
<1> QED
  BY <1>1, FS_EmptySet DEF Init, NewMemory, EmptyMap, Attempts, AttemptsExact

\* A step of one handler that neither counts a failure nor puts a challenge.
LEMMA QuietAttempts ==
  ASSUME TypeOK, Attempts, NEW r \in Request, NEW p,
         pc' = [pc EXCEPT ![r] = p],
         pc[r] \in InFlight \cup {"idle"}, p \notin {"proof-refused", "challenge-issued"},
         p = "put" => view'[r].attempts = 0,
         \A s \in Request \ {r} : ref'[s] = ref[s],
         \A s \in DOMAIN view \ {r} : view'[s] = view[s],
         challenges' = challenges \/ challenges' = LiveChallenges
            \/ \E id \in Request : challenges' = Without(challenges, id)
  PROVE  Attempts'
<1> USE DEF InFlight, IssuePoints, VerifyPoints
<1>1. /\ DOMAIN challenges' \subseteq DOMAIN challenges
      /\ \A id \in DOMAIN challenges' : challenges'[id] = challenges[id]
  <2>1. CASE challenges' = challenges \/ challenges' = LiveChallenges
    BY <2>1, LiveFacts
  <2>2. ASSUME NEW id \in Request, challenges' = Without(challenges, id)
        PROVE  /\ DOMAIN challenges' \subseteq DOMAIN challenges
               /\ \A i \in DOMAIN challenges' : challenges'[i] = challenges[i]
    <3>1. DOMAIN challenges' = DOMAIN challenges \ {id}
      BY <2>2, WithoutDomain
    <3>2. \A i \in DOMAIN challenges \ {id} : challenges'[i] = challenges[i]
      BY <2>2, WithoutAt
    <3> QED
      BY <3>1, <3>2
  <2> QED
    BY <2>1, <2>2
<1>2. \A id \in Request : Refused(id)' = Refused(id)
  BY DEF Refused, TypeOK
<1>3. AttemptsExact'
  BY <1>1, <1>2 DEF Attempts, AttemptsExact, TypeOK, Maps
<1>4. \A s \in Request : pc'[s] = "put" => view'[s].attempts = 0
  BY DEF Attempts, TypeOK, LocalsSet
<1> QED
  BY <1>2, <1>3, <1>4 DEF Attempts, TypeOK

LEMMA IssueAttempts ==
  ASSUME TypeOK, Redemptions, Attempts, NEW r \in Request, Issue(r)
  PROVE  Attempts'
<1> USE DEF InFlight, IssuePoints
<1>1. CASE \/ IssueReject(r) \/ IssueStart(r) \/ IssueRate(r) \/ IssueBlock(r)
           \/ IssueUndecided(r) \/ IssueAllow(r)
  <2>1. PICK p \in Points :
          /\ pc' = [pc EXCEPT ![r] = p]
          /\ p \notin {"proof-refused", "challenge-issued", "put"}
          /\ pc[r] \in IssuePoints \cup {"idle"}
          /\ UNCHANGED <<challenges, ref, view>>
    BY <1>1 DEF IssueReject, IssueStart, IssueRate, IssueBlock, IssueUndecided, IssueAllow,
                Arrive, Goto, Points, Answers, IssueAnswers, AllowRate, storeVars
  <2> QED
    BY <2>1, QuietAttempts
<1>2. ASSUME NEW kind \in Kind, IssueOffer(r, kind) PROVE Attempts'
  <2>1. /\ pc[r] = "score" /\ UNCHANGED <<challenges, ref>>
        /\ \/ /\ pc' = [pc EXCEPT ![r] = "put"]
              /\ view' = Put(view, r, NewChallenge(ask[r], kind))
           \/ pc' = [pc EXCEPT ![r] = "no-challenge"] /\ UNCHANGED view
    BY <1>2 DEF IssueOffer, Goto, storeVars
  <2>2. NewChallenge(ask[r], kind).attempts = 0
    BY DEF NewChallenge
  <2>3. CASE /\ pc' = [pc EXCEPT ![r] = "put"]
             /\ view' = Put(view, r, NewChallenge(ask[r], kind))
    <3>1. view'[r].attempts = 0 /\ \A s \in DOMAIN view \ {r} : view'[s] = view[s]
      BY <2>2, <2>3, PutAt
    <3> QED
      BY <2>1, <2>3, <3>1, QuietAttempts
  <2>4. CASE pc' = [pc EXCEPT ![r] = "no-challenge"] /\ UNCHANGED view
    BY <2>1, <2>4, QuietAttempts
  <2> QED
    BY <2>1, <2>3, <2>4
<1>3. CASE IssuePut(r)
  <2>1. /\ pc[r] = "put" /\ pc' = [pc EXCEPT ![r] = "challenge-issued"]
        /\ challenges' = Put(LiveChallenges, r, view[r])
        /\ view' = Without(view, r)
        /\ UNCHANGED ref
    BY <1>3 DEF IssuePut, PutChallenge, Goto
  <2>2. \A id \in Request : Refused(id)' = Refused(id)
    BY <2>1 DEF Refused, TypeOK
  <2>3. Refused(r) = {} /\ view[r].attempts = 0
    BY <2>1 DEF Attempts
  <2>4. /\ DOMAIN challenges' = DOMAIN LiveChallenges \cup {r}
        /\ \A id \in DOMAIN challenges' :
             challenges'[id] = IF id = r THEN view[r] ELSE challenges[id]
    <3>1. DOMAIN challenges' = DOMAIN LiveChallenges \cup {r}
      BY <2>1, PutDomain
    <3>2. \A id \in DOMAIN LiveChallenges \cup {r} :
             challenges'[id] = IF id = r THEN view[r] ELSE LiveChallenges[id]
      BY <2>1, PutAt
    <3> QED
      BY <3>1, <3>2, LiveFacts
  <2>5. AttemptsExact'
    <3> SUFFICES ASSUME NEW id \in DOMAIN challenges'
                 PROVE  /\ challenges'[id].attempts = Cardinality(Refused(id)')
                        /\ challenges'[id].attempts < MaxAttempts
      BY DEF AttemptsExact, MaxAttempts
    <3>1. CASE id = r
      BY <2>2, <2>3, <2>4, <3>1, FS_EmptySet DEF MaxAttempts
    <3>2. CASE id # r
      <4>1. id \in DOMAIN challenges /\ id \in Request
        BY <2>4, <3>2, LiveFacts DEF TypeOK, Maps
      <4> QED
        BY <2>2, <2>4, <3>2, <4>1 DEF Attempts, AttemptsExact
    <3> QED
      BY <3>1, <3>2
  <2>6. \A s \in Request : pc'[s] = "put" => view'[s].attempts = 0
    <3>1. \A s \in DOMAIN view \ {r} : view'[s] = view[s]
      BY <2>1, WithoutAt
    <3> QED
      BY <2>1, <3>1 DEF Attempts, TypeOK, LocalsSet
  <2> QED
    BY <2>1, <2>2, <2>5, <2>6 DEF Attempts, TypeOK
<1> QED
  BY <1>1, <1>2, <1>3 DEF Issue

LEMMA VerifyAttempts ==
  ASSUME TypeOK, Redemptions, Attempts, NEW r \in Request, Verify(r)
  PROVE  Attempts'
<1>1. CASE ~VerifyFail(r)
  <2>1. PICK p \in Points :
          /\ pc' = [pc EXCEPT ![r] = p]
          /\ p \notin {"proof-refused", "challenge-issued", "put"}
          /\ pc[r] \in VerifyPoints \cup {"idle"}
    BY <1>1 DEF Verify, VerifyGet, VerifyDrop, VerifyRefuse, VerifyAccept, VerifyConsume,
                VerifyMint, Arrive, Goto, Points, Answers, VerifyAnswers, InFlight,
                VerifyPoints
  <2>2. \A s \in Request \ {r} : ref'[s] = ref[s]
    BY DEF Verify, VerifyGet, VerifyDrop, VerifyRefuse, VerifyAccept, VerifyFail,
           VerifyConsume, VerifyMint, TypeOK
  <2>3. \A s \in DOMAIN view \ {r} : view'[s] = view[s]
    <3>1. view' = view \/ view' = Without(view, r) \/ \E c : view' = Put(view, r, c)
      BY DEF Verify, VerifyGet, VerifyDrop, VerifyRefuse, VerifyAccept, VerifyFail,
             VerifyConsume, VerifyMint
    <3> QED
      BY <3>1, PutAt, WithoutAt
  <2>4. challenges' = challenges \/ challenges' = LiveChallenges
           \/ \E id \in Request : challenges' = Without(challenges, id)
    BY <1>1 DEF Verify, VerifyGet, VerifyDrop, VerifyRefuse, VerifyAccept, VerifyConsume,
                VerifyMint, GetChallenge, ConsumeChallenge, storeVars, TypeOK
  <2> QED
    BY <2>1, <2>2, <2>3, <2>4, QuietAttempts DEF InFlight
<1>2. CASE VerifyFail(r)
  <2> PICK id \in Request : id = ref[r]
    BY DEF TypeOK
  <2>1. /\ pc[r] = "fail" /\ pc' = [pc EXCEPT ![r] = "proof-refused"]
        /\ view' = Without(view, r) /\ UNCHANGED ref
        /\ id \in Request /\ pc[id] = "challenge-issued"
    BY <1>2 DEF VerifyFail, Goto, TypeOK, Redemptions, VerifyPoints
  <2>2. /\ Refused(id)' = Refused(id) \cup {r} /\ r \notin Refused(id)
        /\ \A i \in Request \ {id} : Refused(i)' = Refused(i)
    BY <2>1 DEF Refused, TypeOK
  <2>3. IsFiniteSet(Refused(id)')
        /\ Cardinality(Refused(id)') = Cardinality(Refused(id)) + 1
    BY <2>1, <2>2, FS_AddElement DEF Attempts
  <2>4. /\ DOMAIN challenges' \subseteq DOMAIN challenges
        /\ \A i \in DOMAIN challenges' \ {id} : challenges'[i] = challenges[i]
        /\ id \in DOMAIN challenges' =>
             /\ challenges[id].attempts + 1 < MaxAttempts
             /\ challenges'[id].attempts = challenges[id].attempts + 1
    <3>1. CASE id \notin DOMAIN challenges /\ challenges' = challenges
      BY <3>1
    <3>2. CASE challenges' = Without(challenges, id)
      <4>1. DOMAIN challenges' = DOMAIN challenges \ {id}
        BY <3>2, WithoutDomain
      <4>2. \A i \in DOMAIN challenges \ {id} : challenges'[i] = challenges[i]
        BY <3>2, WithoutAt
      <4> QED
        BY <4>1, <4>2
    <3> DEFINE c == [challenges[id] EXCEPT !.attempts = @ + 1]
    <3>3. CASE /\ id \in DOMAIN challenges
               /\ ~(challenges[id].attempts + 1 >= MaxAttempts)
               /\ challenges' = Put(challenges, id, c)
      <4>1. challenges[id] \in ChallengeRecord
        BY <3>3 DEF TypeOK, Maps
      <4>2. challenges[id].attempts \in Nat /\ c.attempts = challenges[id].attempts + 1
        BY <4>1 DEF ChallengeRecord
      <4> HIDE DEF c
      <4>6. challenges' = Put(challenges, id, c) /\ id \in DOMAIN challenges
        BY <3>3
      <4>7. DOMAIN challenges' = DOMAIN challenges \cup {id}
        BY <4>6, PutDomain
      <4>3. DOMAIN challenges' = DOMAIN challenges
        BY <4>6, <4>7
      <4>4. challenges'[id] = c
        BY <4>6, PutAt
      <4>5. \A i \in DOMAIN challenges \ {id} : challenges'[i] = challenges[i]
        BY <4>6, PutAt
      <4> QED
        BY <3>3, <4>2, <4>3, <4>4, <4>5 DEF MaxAttempts
    <3> QED
      BY <1>2, <3>1, <3>2, <3>3 DEF VerifyFail, FailChallenge
  <2>5. AttemptsExact'
    <3> SUFFICES ASSUME NEW i \in DOMAIN challenges'
                 PROVE  /\ challenges'[i].attempts = Cardinality(Refused(i)')
                        /\ challenges'[i].attempts < MaxAttempts
      BY DEF AttemptsExact, MaxAttempts
    <3>1. CASE i = id
      <4>1. id \in DOMAIN challenges' /\ id \in DOMAIN challenges
        BY <2>4, <3>1
      <4>2. challenges[id].attempts = Cardinality(Refused(id))
        BY <4>1 DEF Attempts, AttemptsExact
      <4>3. challenges'[id].attempts = Cardinality(Refused(id)) + 1
        BY <2>4, <4>1, <4>2
      <4>4. Cardinality(Refused(id)) + 1 < MaxAttempts
        BY <2>4, <4>1, <4>2
      <4>5. Cardinality(Refused(id)') = Cardinality(Refused(id)) + 1
        BY <2>3
      <4> QED
        BY <3>1, <4>3, <4>4, <4>5
    <3>2. CASE i # id
      <4>1. i \in DOMAIN challenges /\ i \in Request
        BY <2>4 DEF TypeOK, Maps
      <4> QED
        BY <2>2, <2>4, <3>2, <4>1 DEF Attempts, AttemptsExact
    <3> QED
      BY <3>1, <3>2
  <2>6. \A s \in Request : pc'[s] = "put" => view'[s].attempts = 0
    <3>1. \A s \in DOMAIN view \ {r} : view'[s] = view[s]
      BY <2>1, WithoutAt
    <3> QED
      BY <2>1, <3>1 DEF Attempts, TypeOK, LocalsSet
  <2>7. \A i \in Request : /\ IsFiniteSet(Refused(i)')
                           /\ pc'[i] # "challenge-issued" => Refused(i)' = {}
    BY <2>1, <2>2, <2>3 DEF Attempts, TypeOK
  <2> QED
    BY <2>5, <2>6, <2>7 DEF Attempts
<1> QED
  BY <1>1, <1>2

LEMMA OtherAttempts ==
  ASSUME TypeOK, Redemptions, Attempts, (\E r \in Request : SiteVerify(r)) \/ Tick \/ Restart
  PROVE  Attempts'
<1>1. ASSUME NEW r \in Request, SiteVerify(r) PROVE Attempts'
  <2>1. PICK p \in Points :
          /\ pc' = [pc EXCEPT ![r] = p]
          /\ p \notin {"proof-refused", "challenge-issued", "put"}
          /\ pc[r] \in {"jti", "idle"}
          /\ UNCHANGED view
    BY <1>1 DEF SiteVerify, SiteVerifyRefuse, SiteVerifyAccept, SiteVerifyConsume, Arrive,
                Goto, Points, Answers, SiteVerifyAnswers, InFlight
  <2>2. \A s \in Request \ {r} : ref'[s] = ref[s]
    BY <1>1 DEF SiteVerify, SiteVerifyRefuse, SiteVerifyAccept, SiteVerifyConsume, TypeOK
  <2>3. challenges' = challenges \/ challenges' = LiveChallenges
    BY <1>1 DEF SiteVerify, SiteVerifyRefuse, SiteVerifyAccept, SiteVerifyConsume,
                ConsumeJTI, storeVars
  <2> QED
    BY <2>1, <2>2, <2>3, QuietAttempts DEF InFlight
<1>2. CASE Tick
  BY <1>2 DEF Tick, storeVars, reqVars, Attempts, AttemptsExact, Refused
<1>3. CASE Restart
  <2>1. /\ \A s \in Request : pc'[s] = IF pc[s] \in InFlight THEN "aborted" ELSE pc[s]
        /\ challenges' = EmptyMap /\ UNCHANGED ref
    BY <1>3 DEF Restart
  <2>2. \A id \in Request : Refused(id)' = Refused(id)
    BY <2>1 DEF Refused, InFlight, IssuePoints, VerifyPoints
  <2>3. AttemptsExact'
    BY <2>1 DEF AttemptsExact, EmptyMap
  <2>4. \A id \in Request : pc'[id] # "challenge-issued" => pc[id] # "challenge-issued"
    BY <2>1 DEF InFlight, IssuePoints, VerifyPoints
  <2>5. \A id \in Request : pc'[id] # "put"
    BY <2>1 DEF InFlight, IssuePoints
  <2> QED
    BY <2>2, <2>3, <2>4, <2>5 DEF Attempts
<1> QED
  BY <1>1, <1>2, <1>3

THEOREM AttemptsInvariant == Spec => [](TypeOK /\ Redemptions /\ Attempts)
<1>1. ASSUME TypeOK, Redemptions, Attempts, [Next]_vars PROVE Attempts'
  <2>1. CASE UNCHANGED vars
    BY <1>1, <2>1
       DEF vars, storeVars, reqVars, Attempts, AttemptsExact, Refused
  <2>2. CASE Next
    BY <1>1, <2>2, IssueAttempts, VerifyAttempts, OtherAttempts DEF Next
  <2> QED
    BY <1>1, <2>1, <2>2
<1> QED
  BY InitAttempts, RedemptionsInvariant, <1>1, PTL DEF Spec

\* memory.go FailChallenge: a challenge in the store has been failed exactly as often
\* as its record says and less often than the cap, for any number of submissions.
THEOREM AttemptsCounted == Spec => []AttemptsExact
  BY AttemptsInvariant, PTL DEF Attempts

\* server.go verifyChallenge: no request redeems a challenge that was failed
\* MaxAttempts times, not even one that fetched it before the failures.
THEOREM CapProved == Spec => CapHolds
<1> DEFINE Step == \A r \in Request :
               (pc[r] = "consume" /\ pc'[r] = "mint") =>
                   Cardinality(Refused(ref[r])) < MaxAttempts
<1>1. ASSUME TypeOK, Redemptions, Attempts, [Next]_vars PROVE [Step]_vars
  <2> SUFFICES ASSUME Next, NEW r \in Request, pc[r] = "consume", pc'[r] = "mint"
               PROVE  Cardinality(Refused(ref[r])) < MaxAttempts
    BY <1>1
  <2>1. PICK s \in Request, p \in Points : pc' = [pc EXCEPT ![s] = p] /\
                                           (p = "mint" => VerifyConsume(s) /\ Consumable(ref[s]))
    <3>1. ~Tick /\ ~Restart
      BY <1>1 DEF Tick, Restart, reqVars, TypeOK, InFlight, VerifyPoints
    <3>2. PICK s \in Request : Issue(s) \/ Verify(s) \/ SiteVerify(s)
      BY <3>1 DEF Next
    <3>3. CASE Issue(s)
      <4>1. \E p \in IssueAnswers \cup IssuePoints : pc' = [pc EXCEPT ![s] = p]
        BY <3>3 DEF Issue, IssueReject, IssueStart, IssueRate, IssueBlock, IssueAllow,
                    IssueOffer, IssueUndecided, IssuePut, Goto, IssueAnswers, IssuePoints
      <4> QED
        BY <4>1 DEF IssueAnswers, IssuePoints, Points, Answers, InFlight
    <3>4. CASE SiteVerify(s)
      <4>1. \E p \in SiteVerifyAnswers \cup {"jti"} : pc' = [pc EXCEPT ![s] = p]
        BY <3>4 DEF SiteVerify, SiteVerifyRefuse, SiteVerifyAccept, SiteVerifyConsume,
                    Goto, SiteVerifyAnswers
      <4> QED
        BY <4>1 DEF SiteVerifyAnswers, Points, Answers, InFlight
    <3>5. CASE VerifyConsume(s)
      BY <3>5 DEF VerifyConsume, Goto, Points, Answers, VerifyAnswers, InFlight, VerifyPoints
    <3>6. CASE Verify(s) /\ ~VerifyConsume(s)
      <4>1. \E p \in VerifyAnswers \cup {"check", "fail", "consume"} :
               pc' = [pc EXCEPT ![s] = p]
        BY <3>6 DEF Verify, VerifyGet, VerifyDrop, VerifyRefuse, VerifyAccept, VerifyFail,
                    VerifyMint, Goto, VerifyAnswers
      <4> QED
        BY <4>1 DEF VerifyAnswers, Points, Answers, InFlight, VerifyPoints
    <3> QED
      BY <3>2, <3>3, <3>4, <3>5, <3>6
  <2>2. s = r /\ p = "mint"
    BY <1>1, <2>1 DEF TypeOK
  <2>3. ref[r] \in DOMAIN challenges
    BY <2>1, <2>2 DEF Consumable
  <2>4. ref[r] \in Request /\ challenges[ref[r]].attempts = Cardinality(Refused(ref[r]))
        /\ challenges[ref[r]].attempts < MaxAttempts
    BY <1>1, <2>3 DEF Attempts, AttemptsExact, TypeOK
  <2> QED
    BY <2>4
<1> QED
  BY AttemptsInvariant, <1>1, PTL DEF Spec, CapHolds

\* server.go, memory.go: a challenge that left the store never returns to it.
THEOREM NoResurrectionProved == Spec => NoResurrection
<1> DEFINE Step == \A id \in Request :
               (pc[id] = "challenge-issued" /\ id \notin DOMAIN challenges) =>
                   id \notin DOMAIN challenges'
<1>1. ASSUME TypeOK, [Next]_vars PROVE [Step]_vars
  <2> SUFFICES ASSUME Next, NEW id \in Request, pc[id] = "challenge-issued",
                      id \notin DOMAIN challenges
               PROVE  id \notin DOMAIN challenges'
    BY <1>1
  <2> USE DEF storeVars
  <2>1. CASE Tick \/ Restart
    BY <2>1 DEF Tick, Restart, EmptyMap
  <2>2. ASSUME NEW r \in Request, Issue(r) PROVE id \notin DOMAIN challenges'
    <3>1. CASE IssuePut(r)
      <4>1. DOMAIN challenges' = DOMAIN LiveChallenges \cup {r} /\ id # r
        BY <3>1, PutDomain DEF IssuePut, PutChallenge
      <4>2. DOMAIN LiveChallenges \subseteq DOMAIN challenges
        BY <1>1, LiveFacts
      <4> QED
        BY <4>1, <4>2
    <3>2. CASE ~IssuePut(r)
      BY <2>2, <3>2 DEF Issue, IssueReject, IssueStart, IssueRate, IssueBlock, IssueAllow,
                        IssueOffer, IssueUndecided, AllowRate
    <3> QED
      BY <3>1, <3>2
  <2>3. ASSUME NEW r \in Request, Verify(r) PROVE id \notin DOMAIN challenges'
    <3>1. \/ challenges' = challenges \/ challenges' = LiveChallenges
          \/ challenges' = Without(challenges, ref[r])
          \/ /\ ref[r] \in DOMAIN challenges
             /\ \E c : challenges' = Put(challenges, ref[r], c)
      BY <2>3 DEF Verify, VerifyGet, VerifyDrop, VerifyRefuse, VerifyAccept, VerifyFail,
                  VerifyConsume, VerifyMint, GetChallenge, FailChallenge, ConsumeChallenge
    <3>2. CASE challenges' = Without(challenges, ref[r])
      <4>1. DOMAIN challenges' = DOMAIN challenges \ {ref[r]}
        BY <3>2, WithoutDomain
      <4> QED
        BY <4>1
    <3>3. ASSUME NEW c, ref[r] \in DOMAIN challenges, challenges' = Put(challenges, ref[r], c)
          PROVE  id \notin DOMAIN challenges'
      <4>1. DOMAIN challenges' = DOMAIN challenges \cup {ref[r]}
        BY <3>3, PutDomain
      <4> QED
        BY <3>3, <4>1
    <3> QED
      BY <1>1, <3>1, <3>2, <3>3, LiveFacts
  <2>4. ASSUME NEW r \in Request, SiteVerify(r) PROVE id \notin DOMAIN challenges'
    BY <1>1, <2>4, LiveFacts DEF SiteVerify, SiteVerifyRefuse, SiteVerifyAccept,
                           SiteVerifyConsume, ConsumeJTI
  <2> QED
    BY <2>1, <2>2, <2>3, <2>4 DEF Next
<1> QED
  BY TypeCorrect, <1>1, PTL DEF Spec, NoResurrection

-----------------------------------------------------------------------------
(* The metrics: the counters account for every request of the process.       *)

\* The requests of this process at one of these points: Tally counts them.
Here(points) == {r \in Request : era[r] = boot /\ pc[r] \in points}

Taken == Points \ {"idle"}

\* What StatsAccount rests on: only finitely many requests were taken up, and those under
\* way are this process's.
Accounting ==
    /\ StatsAccount
    /\ IsFiniteSet(Here(Taken))
    /\ \A r \in Request : era[r] <= boot
    /\ \A r \in Request : pc[r] \in InFlight => era[r] = boot

\* The handler of r goes to point q.
Moved(r, q) ==
    /\ pc[r] \in InFlight \cup {"idle"}
    /\ pc' = [pc EXCEPT ![r] = q]
    /\ era' = IF pc[r] = "idle" THEN [era EXCEPT ![r] = boot] ELSE era
    /\ UNCHANGED boot

LEMMA TallyFacts ==
    ASSUME Accounting
    PROVE  \A S \in SUBSET Taken : IsFiniteSet(Here(S)) /\ Tally(S) \in Nat
<1> SUFFICES ASSUME NEW S \in SUBSET Taken PROVE IsFiniteSet(Here(S)) /\ Tally(S) \in Nat
    OBVIOUS
<1>1. IsFiniteSet(Here(S))
    <2>1. Here(S) \subseteq Here(Taken) BY DEF Here
    <2> QED BY <2>1, FS_Subset DEF Accounting
<1>2. Tally(S) = Cardinality(Here(S)) BY DEF Tally, Here
<1> QED BY <1>1, <1>2, FS_CardinalityType

LEMMA TallyMoved ==
    ASSUME TypeOK, Accounting, NEW r \in Request, NEW q \in Taken, Moved(r, q)
    PROVE  /\ \A S \in SUBSET Answers : Tally(S)' = IF q \in S THEN Tally(S) + 1 ELSE Tally(S)
           /\ Tally(Taken)' = IF pc[r] = "idle" THEN Tally(Taken) + 1 ELSE Tally(Taken)
           /\ IsFiniteSet(Here(Taken))'
           /\ \A s \in Request : era'[s] <= boot'
           /\ \A s \in Request : pc'[s] \in InFlight => era'[s] = boot'
<1> USE DEF Taken, Points, Answers, InFlight, IssuePoints, VerifyPoints, IssueAnswers, VerifyAnswers,
            SiteVerifyAnswers
<1>1. \A s \in Request : pc'[s] = IF s = r THEN q ELSE pc[s] BY DEF Moved, TypeOK
<1>2. era'[r] = boot /\ boot' = boot /\ \A s \in Request : s # r => era'[s] = era[s]
    BY DEF Moved, TypeOK, Accounting
<1>3. ASSUME NEW S \in SUBSET Taken, q \in S, pc[r] \notin S
      PROVE  Tally(S)' = Tally(S) + 1 /\ IsFiniteSet(Here(S))'
    <2>1. Here(S)' = Here(S) \cup {r} BY <1>1, <1>2, <1>3 DEF Here
    <2>2. r \notin Here(S) BY <1>3 DEF Here
    <2>3. IsFiniteSet(Here(S)) BY TallyFacts
    <2>4. Tally(S) = Cardinality(Here(S)) /\ Tally(S)' = Cardinality(Here(S)') BY DEF Tally, Here
    <2> QED BY <2>1, <2>2, <2>3, <2>4, FS_AddElement
<1>4. ASSUME NEW S \in SUBSET Taken, q \in S <=> pc[r] \in S, era[r] = boot \/ pc[r] \notin S
      PROVE  Tally(S)' = Tally(S) /\ IsFiniteSet(Here(S))'
    <2>1. Here(S)' = Here(S) BY <1>1, <1>2, <1>4 DEF Here
    <2>2. IsFiniteSet(Here(S)) BY TallyFacts
    <2>3. Tally(S) = Cardinality(Here(S)) /\ Tally(S)' = Cardinality(Here(S)') BY DEF Tally, Here
    <2> QED BY <2>1, <2>2, <2>3
<1>5. pc[r] \in InFlight \cup {"idle"} BY DEF Moved
<1>6. ASSUME NEW S \in SUBSET Answers
      PROVE  Tally(S)' = IF q \in S THEN Tally(S) + 1 ELSE Tally(S)
    <2>1. S \in SUBSET Taken /\ pc[r] \notin S BY <1>5
    <2> QED BY <1>3, <1>4, <2>1
<1>7. /\ Tally(Taken)' = IF pc[r] = "idle" THEN Tally(Taken) + 1 ELSE Tally(Taken)
      /\ IsFiniteSet(Here(Taken))'
    <2>1. CASE pc[r] = "idle" BY <1>3, <2>1
    <2>2. CASE pc[r] # "idle"
        <3>1. pc[r] \in Taken /\ era[r] = boot BY <1>5, <2>2 DEF Accounting
        <3> QED BY <1>4, <2>2, <3>1
    <2> QED BY <2>1, <2>2
<1>8. \A s \in Request : era'[s] <= boot' BY <1>2 DEF Accounting, TypeOK
<1>9. \A s \in Request : pc'[s] \in InFlight => era'[s] = boot' BY <1>1, <1>2 DEF Accounting
<1> QED BY <1>6, <1>7, <1>8, <1>9

Outcomes == {"allowed", "pow", "interactive", "blocked"}

\* The counters in K are those that go with a move of r to q.
Fits(K, r, q) ==
    /\ "requests" \in K <=> pc[r] = "idle"
    /\ "rateLimited" \in K <=> q = "rate-limited"
    /\ "verifySuccess" \in K <=> q = "verified"
    /\ "verifyFailure" \in K <=> q \in {"refused", "duplicate"}
    /\ "replays" \in K <=> q = "duplicate"
    /\ \/ "challenges" \notin K /\ K \cap Outcomes = {} /\ q # "undecided"
       \/ "challenges" \in K /\ K \cap Outcomes = {} /\ q = "undecided"
       \/ "challenges" \in K /\ q # "undecided" /\ \E d \in Outcomes : K \cap Outcomes = {d}

LEMMA MoveAccounted ==
    ASSUME TypeOK, Accounting, NEW r \in Request, NEW q \in Taken, Moved(r, q), NEW K, Fits(K, r, q),
           \A c \in Counters : stats'[c] = IF c \in K THEN stats[c] + 1 ELSE stats[c]
    PROVE  Accounting'
<1>1. \A c \in Counters : stats[c] \in Nat BY DEF TypeOK
<1>2. \A S \in SUBSET Answers : Tally(S) \in Nat /\ Tally(S)' = IF q \in S THEN Tally(S) + 1 ELSE Tally(S)
    <2>1. Answers \subseteq Taken
        BY DEF Taken, Points, Answers, IssueAnswers, VerifyAnswers, SiteVerifyAnswers
    <2> QED BY <2>1, TallyFacts, TallyMoved
<1>3. stats.requests = Tally(Taken) /\ Tally(Taken) \in Nat
      /\ Tally(Taken)' = IF pc[r] = "idle" THEN Tally(Taken) + 1 ELSE Tally(Taken)
    BY TallyFacts, TallyMoved DEF Accounting, StatsAccount, Taken
<1>4. /\ {"undecided"} \in SUBSET Answers /\ {"rate-limited"} \in SUBSET Answers
      /\ {"verified"} \in SUBSET Answers /\ {"refused"} \in SUBSET Answers
      /\ {"duplicate"} \in SUBSET Answers
    BY DEF Answers, IssueAnswers, SiteVerifyAnswers
<1>5. stats'.requests = Tally(Points \ {"idle"})'
    BY <1>1, <1>3 DEF Fits, Counters, Taken
<1>6. stats'.rateLimited = Tally({"rate-limited"})' /\ stats'.verifySuccess = Tally({"verified"})'
      /\ stats'.replays = Tally({"duplicate"})'
    BY <1>1, <1>2, <1>4 DEF Fits, Counters, Accounting, StatsAccount
<1>7. stats'.verifyFailure = Tally({"refused"})' + stats'.replays
    <2>1. stats.verifyFailure = Tally({"refused"}) + stats.replays BY DEF Accounting, StatsAccount
    <2>2. Tally({"refused"}) \in Nat
          /\ Tally({"refused"})' = IF q = "refused"
                                   THEN Tally({"refused"}) + 1 ELSE Tally({"refused"})
        BY <1>2, <1>4
    <2>3. stats'.verifyFailure = IF q \in {"refused", "duplicate"} THEN stats.verifyFailure + 1
                                 ELSE stats.verifyFailure
        BY DEF Fits, Counters
    <2>4. stats'.replays = IF q = "duplicate" THEN stats.replays + 1 ELSE stats.replays
        BY DEF Fits, Counters
    <2>5. stats.replays \in Nat BY <1>1 DEF Counters
    <2> QED BY <2>1, <2>2, <2>3, <2>4, <2>5
<1>8. stats'.challenges = stats'.allowed + stats'.pow + stats'.interactive + stats'.blocked
                            + Tally({"undecided"})'
    <2>1. stats.challenges = stats.allowed + stats.pow + stats.interactive + stats.blocked
                               + Tally({"undecided"})
        BY DEF Accounting, StatsAccount
    <2>2. Tally({"undecided"}) \in Nat
          /\ Tally({"undecided"})' = IF q = "undecided"
                                     THEN Tally({"undecided"}) + 1 ELSE Tally({"undecided"})
        BY <1>2, <1>4
    <2>3. /\ stats.allowed \in Nat /\ stats.pow \in Nat /\ stats.interactive \in Nat
          /\ stats.blocked \in Nat
        BY <1>1 DEF Counters
    <2>4. /\ stats'.challenges = IF "challenges" \in K
                                THEN stats.challenges + 1 ELSE stats.challenges
          /\ stats'.allowed = IF "allowed" \in K THEN stats.allowed + 1 ELSE stats.allowed
          /\ stats'.pow = IF "pow" \in K THEN stats.pow + 1 ELSE stats.pow
          /\ stats'.interactive = IF "interactive" \in K
                                 THEN stats.interactive + 1 ELSE stats.interactive
          /\ stats'.blocked = IF "blocked" \in K THEN stats.blocked + 1 ELSE stats.blocked
        BY DEF Counters
    <2>5. CASE /\ "challenges" \notin K /\ "allowed" \notin K /\ "pow" \notin K
               /\ "interactive" \notin K /\ "blocked" \notin K /\ q # "undecided"
        BY <2>1, <2>2, <2>4, <2>5
    <2>6. CASE /\ "challenges" \in K /\ "allowed" \notin K /\ "pow" \notin K
               /\ "interactive" \notin K /\ "blocked" \notin K /\ q = "undecided"
        BY <2>1, <2>2, <2>3, <2>4, <2>6
    <2>7. CASE "challenges" \in K /\ q # "undecided" /\ \E d \in Outcomes : K \cap Outcomes = {d}
        <3> USE <2>1, <2>2, <2>3, <2>4, <2>7
        <3>1. CASE "allowed" \in K /\ "pow" \notin K /\ "interactive" \notin K /\ "blocked" \notin K
            BY <3>1
        <3>2. CASE "allowed" \notin K /\ "pow" \in K /\ "interactive" \notin K /\ "blocked" \notin K
            BY <3>2
        <3>3. CASE "allowed" \notin K /\ "pow" \notin K /\ "interactive" \in K /\ "blocked" \notin K
            BY <3>3
        <3>4. CASE "allowed" \notin K /\ "pow" \notin K /\ "interactive" \notin K /\ "blocked" \in K
            BY <3>4
        <3>5. PICK d \in Outcomes : K \cap Outcomes = {d} BY <2>7
        <3>6. \A e \in Outcomes : e \in K <=> e = d BY <3>5
        <3> QED BY <3>1, <3>2, <3>3, <3>4, <3>6 DEF Outcomes
    <2> QED BY <2>5, <2>6, <2>7 DEF Fits, Outcomes
<1> QED BY <1>5, <1>6, <1>7, <1>8, TallyMoved DEF Accounting, StatsAccount

-----------------------------------------------------------------------------
(* The steps.                                                                *)

LEMMA CountedMove ==
    ASSUME TypeOK, Accounting, NEW r \in Request, NEW q \in Taken, Moved(r, q),
           NEW K, Count(K), Fits(K, r, q)
    PROVE  Accounting'
<1>1. \A c \in Counters : stats'[c] = IF c \in K THEN stats[c] + 1 ELSE stats[c] BY DEF Count
<1> QED BY <1>1, MoveAccounted

LEMMA UncountedMove ==
    ASSUME TypeOK, Accounting, NEW r \in Request, NEW q \in Taken, Moved(r, q),
           stats' = stats, Fits({}, r, q)
    PROVE  Accounting'
<1>1. \A c \in Counters : stats'[c] = IF c \in {} THEN stats[c] + 1 ELSE stats[c] OBVIOUS
<1> QED BY <1>1, MoveAccounted

LEMMA TakenPoints ==
    /\ Answers \subseteq Taken
    /\ {"rate", "score", "put", "check", "fail", "consume", "mint", "jti"} \subseteq Taken
BY DEF Taken, Points, Answers, InFlight, IssuePoints, VerifyPoints, IssueAnswers, VerifyAnswers,
       SiteVerifyAnswers

\* A handler that is taken up, or goes on, moves.
LEMMA Moves ==
    ASSUME NEW r \in Request, NEW q, Goto(r, q), UNCHANGED boot,
           Arrive(r) \/ (pc[r] \in InFlight /\ UNCHANGED era)
    PROVE  Moved(r, q)
<1>1. "idle" \notin InFlight BY DEF InFlight, IssuePoints, VerifyPoints
<1> QED BY <1>1 DEF Moved, Goto, Arrive

LEMMA IssueAccounted ==
    ASSUME TypeOK, Accounting, NEW r \in Request, Issue(r)
    PROVE  Accounting'
<1>0. \A p \in {"rate", "score", "put"} : p \in InFlight /\ p # "idle" BY DEF InFlight, IssuePoints
<1>1. CASE IssueReject(r)
    <2>1. Arrive(r) /\ Count({"requests"}) /\ UNCHANGED boot BY <1>1 DEF IssueReject
    <2>2. Goto(r, "rejected") BY <1>1 DEF IssueReject
    <2>3. Moved(r, "rejected") BY <2>1, <2>2, Moves
    <2>4. Fits({"requests"}, r, "rejected") BY <2>1 DEF Fits, Outcomes, Arrive
    <2>5. "rejected" \in Taken BY TakenPoints DEF Answers, IssueAnswers
    <2> QED BY <2>1, <2>3, <2>4, <2>5, CountedMove
<1>2. CASE IssueStart(r)
    <2>1. Arrive(r) /\ Count({"requests"}) /\ UNCHANGED boot BY <1>2 DEF IssueStart
    <2>2. Goto(r, "rate") BY <1>2 DEF IssueStart
    <2>3. Moved(r, "rate") BY <2>1, <2>2, Moves
    <2>4. Fits({"requests"}, r, "rate") BY <2>1 DEF Fits, Outcomes, Arrive
    <2>5. "rate" \in Taken BY TakenPoints DEF Answers, IssueAnswers
    <2> QED BY <2>1, <2>3, <2>4, <2>5, CountedMove
<1>3. CASE IssueRate(r)
    <2>0. pc[r] = "rate" /\ UNCHANGED <<era, boot>> BY <1>3 DEF IssueRate
    <2>1. CASE Goto(r, "score") /\ Count({})
        <3>1. Moved(r, "score") BY <1>0, <2>0, <2>1, Moves
        <3>2. Fits({}, r, "score") BY <2>0 DEF Fits, Outcomes
        <3> QED BY <2>1, <3>1, <3>2, CountedMove, TakenPoints
    <2>2. CASE Goto(r, "rate-limited") /\ Count({"rateLimited"})
        <3>1. Moved(r, "rate-limited") BY <1>0, <2>0, <2>2, Moves
        <3>2. Fits({"rateLimited"}, r, "rate-limited") BY <2>0 DEF Fits, Outcomes
        <3>3. "rate-limited" \in Taken BY TakenPoints DEF Answers, IssueAnswers
        <3> QED BY <2>2, <3>1, <3>2, <3>3, CountedMove
    <2> QED BY <1>3, <2>1, <2>2 DEF IssueRate
<1>4. CASE IssueBlock(r)
    <2>1. pc[r] = "score" /\ UNCHANGED era /\ Count({"challenges", "blocked"}) /\ UNCHANGED boot
        BY <1>4 DEF IssueBlock
    <2>2. Goto(r, "blocked") BY <1>4 DEF IssueBlock
    <2>3. Moved(r, "blocked") BY <1>0, <2>1, <2>2, Moves
    <2>4. Fits({"challenges", "blocked"}, r, "blocked") BY <2>1 DEF Fits, Outcomes
    <2>5. "blocked" \in Taken BY TakenPoints DEF Answers, IssueAnswers
    <2> QED BY <2>1, <2>3, <2>4, <2>5, CountedMove
<1>5. CASE IssueAllow(r)
    <2>1. pc[r] = "score" /\ UNCHANGED era /\ Count({"challenges", "allowed"}) /\ UNCHANGED boot
        BY <1>5 DEF IssueAllow
    <2>2. PICK q \in {"token-issued", "no-token"} : Goto(r, q) BY <1>5 DEF IssueAllow
    <2>3. Moved(r, q) BY <1>0, <2>1, <2>2, Moves
    <2>4. Fits({"challenges", "allowed"}, r, q) BY <2>1 DEF Fits, Outcomes
    <2>5. q \in Taken BY TakenPoints DEF Answers, IssueAnswers
    <2> QED BY <2>1, <2>3, <2>4, <2>5, CountedMove
<1>6. ASSUME NEW kind \in Kind, IssueOffer(r, kind) PROVE Accounting'
    <2>1. pc[r] = "score" /\ Count({"challenges", kind}) /\ UNCHANGED <<era, boot>>
        BY <1>6 DEF IssueOffer
    <2>2. PICK q \in {"put", "no-challenge"} : Goto(r, q) BY <1>6 DEF IssueOffer
    <2>3. Moved(r, q) BY <1>0, <2>1, <2>2, Moves
    <2>4. Fits({"challenges", kind}, r, q)
        <3>1. CASE kind = "pow" BY <2>1, <3>1 DEF Fits, Outcomes
        <3>2. CASE kind = "interactive" BY <2>1, <3>2 DEF Fits, Outcomes
        <3> QED BY <3>1, <3>2 DEF Kind
    <2>5. q \in Taken BY TakenPoints DEF Answers, IssueAnswers
    <2> QED BY <2>1, <2>3, <2>4, <2>5, CountedMove
<1>7. CASE IssueUndecided(r)
    <2>1. pc[r] = "score" /\ UNCHANGED era /\ Count({"challenges"}) /\ UNCHANGED boot
        BY <1>7 DEF IssueUndecided
    <2>2. Goto(r, "undecided") BY <1>7 DEF IssueUndecided
    <2>3. Moved(r, "undecided") BY <1>0, <2>1, <2>2, Moves
    <2>4. Fits({"challenges"}, r, "undecided") BY <2>1 DEF Fits, Outcomes
    <2>5. "undecided" \in Taken BY TakenPoints DEF Answers, IssueAnswers
    <2> QED BY <2>1, <2>3, <2>4, <2>5, CountedMove
<1>8. CASE IssuePut(r)
    <2>1. Goto(r, "challenge-issued") /\ pc[r] = "put" /\ UNCHANGED <<era, boot, stats>>
        BY <1>8 DEF IssuePut
    <2>2. Moved(r, "challenge-issued") BY <1>0, <2>1, Moves
    <2>3. Fits({}, r, "challenge-issued") BY <2>1 DEF Fits, Outcomes
    <2>4. "challenge-issued" \in Taken BY TakenPoints DEF Answers, IssueAnswers
    <2> QED BY <2>1, <2>2, <2>3, <2>4, UncountedMove
<1> QED BY <1>1, <1>2, <1>3, <1>4, <1>5, <1>6, <1>7, <1>8 DEF Issue

LEMMA VerifyAccounted ==
    ASSUME TypeOK, Accounting, NEW r \in Request, Verify(r)
    PROVE  Accounting'
<1>1. CASE VerifyGet(r)
    <2>1. Arrive(r) /\ Count({"requests"}) /\ UNCHANGED boot BY <1>1 DEF VerifyGet
    <2>2. PICK q \in {"check", "not-found"} : Goto(r, q) BY <1>1 DEF VerifyGet
    <2>3. Moved(r, q) BY <2>1, <2>2, Moves
    <2>4. Fits({"requests"}, r, q) BY <2>1 DEF Fits, Outcomes, Arrive
    <2>5. q \in Taken BY TakenPoints DEF Answers, VerifyAnswers
    <2> QED BY <2>1, <2>3, <2>4, <2>5, CountedMove
<1>2. CASE \/ VerifyDrop(r) \/ VerifyRefuse(r) \/ VerifyAccept(r) \/ VerifyFail(r)
           \/ VerifyConsume(r) \/ VerifyMint(r)
    <2>1. PICK q \in {"dropped", "fail", "consume", "proof-refused", "mint", "already-consumed",
                      "solved", "solved-no-token"} : Goto(r, q)
        BY <1>2 DEF VerifyDrop, VerifyRefuse, VerifyAccept, VerifyFail, VerifyConsume, VerifyMint
    <2>2. pc[r] \in VerifyPoints /\ UNCHANGED <<era, boot, stats>>
        BY <1>2 DEF VerifyDrop, VerifyRefuse, VerifyAccept, VerifyFail, VerifyConsume, VerifyMint,
                    VerifyPoints
    <2>3. Moved(r, q) BY <2>1, <2>2, Moves DEF InFlight
    <2>4. Fits({}, r, q) BY <2>2 DEF Fits, Outcomes, VerifyPoints
    <2>5. q \in Taken BY TakenPoints DEF Answers, VerifyAnswers
    <2> QED BY <2>2, <2>3, <2>4, <2>5, UncountedMove
<1> QED BY <1>1, <1>2 DEF Verify

LEMMA SiteVerifyAccounted ==
    ASSUME TypeOK, Accounting, NEW r \in Request, SiteVerify(r)
    PROVE  Accounting'
<1>1. CASE SiteVerifyRefuse(r)
    <2>1. Arrive(r) /\ Count({"requests", "verifyFailure"}) /\ UNCHANGED boot
        BY <1>1 DEF SiteVerifyRefuse
    <2>2. Goto(r, "refused") BY <1>1 DEF SiteVerifyRefuse
    <2>3. Moved(r, "refused") BY <2>1, <2>2, Moves
    <2>4. Fits({"requests", "verifyFailure"}, r, "refused") BY <2>1 DEF Fits, Outcomes, Arrive
    <2>5. "refused" \in Taken BY TakenPoints DEF Answers, SiteVerifyAnswers
    <2> QED BY <2>1, <2>3, <2>4, <2>5, CountedMove
<1>2. CASE SiteVerifyAccept(r)
    <2>1. Arrive(r) /\ Count({"requests"}) /\ UNCHANGED boot BY <1>2 DEF SiteVerifyAccept
    <2>2. Goto(r, "jti") BY <1>2 DEF SiteVerifyAccept
    <2>3. Moved(r, "jti") BY <2>1, <2>2, Moves
    <2>4. Fits({"requests"}, r, "jti") BY <2>1 DEF Fits, Outcomes, Arrive
    <2>5. "jti" \in Taken BY TakenPoints DEF Answers, SiteVerifyAnswers
    <2> QED BY <2>1, <2>3, <2>4, <2>5, CountedMove
<1>3. CASE SiteVerifyConsume(r)
    <2>0. pc[r] = "jti" /\ UNCHANGED <<era, boot>> BY <1>3 DEF SiteVerifyConsume
    <2>1. pc[r] \in InFlight /\ pc[r] # "idle" BY <2>0 DEF InFlight
    <2>2. "verified" \in Taken /\ "duplicate" \in Taken
        BY TakenPoints DEF Answers, SiteVerifyAnswers
    <2>3. CASE Goto(r, "verified") /\ Count({"verifySuccess"})
        <3>1. Moved(r, "verified") BY <2>0, <2>1, <2>3, Moves
        <3>2. Fits({"verifySuccess"}, r, "verified") BY <2>0 DEF Fits, Outcomes
        <3> QED BY <2>2, <2>3, <3>1, <3>2, CountedMove
    <2>4. CASE Goto(r, "duplicate") /\ Count({"replays", "verifyFailure"})
        <3>1. Moved(r, "duplicate") BY <2>0, <2>1, <2>4, Moves
        <3>2. Fits({"replays", "verifyFailure"}, r, "duplicate") BY <2>0 DEF Fits, Outcomes
        <3> QED BY <2>2, <2>4, <3>1, <3>2, CountedMove
    <2> QED BY <1>3, <2>3, <2>4 DEF SiteVerifyConsume
<1> QED BY <1>1, <1>2, <1>3 DEF SiteVerify

\* Nothing was taken up in this life of the process.
Fresh ==
    /\ stats = NoStats
    /\ \A r \in Request : era[r] = boot => pc[r] = "idle"
    /\ \A r \in Request : era[r] <= boot /\ pc[r] \notin InFlight

LEMMA FreshAccounted == Fresh => Accounting
<1> SUFFICES ASSUME Fresh PROVE Accounting OBVIOUS
<1>1. \A S \in SUBSET Taken : Here(S) = {} BY DEF Here, Taken, Fresh
<1>2. \A S \in SUBSET Taken : Tally(S) = 0 /\ IsFiniteSet(Here(S))
    BY <1>1, FS_EmptySet DEF Tally, Here
<1>3. {"undecided", "rate-limited", "verified", "refused", "duplicate"} \subseteq Taken
    BY DEF Taken, Points, Answers, IssueAnswers, SiteVerifyAnswers
<1>4. /\ Tally(Points \ {"idle"}) = 0 /\ Tally({"undecided"}) = 0 /\ Tally({"rate-limited"}) = 0
      /\ Tally({"verified"}) = 0 /\ Tally({"refused"}) = 0 /\ Tally({"duplicate"}) = 0
    BY <1>2, <1>3 DEF Taken
<1>5. \A c \in Counters : stats[c] = 0 BY DEF NoStats, Fresh
<1> QED BY <1>2, <1>4, <1>5 DEF Accounting, StatsAccount, Counters, Fresh

LEMMA RestartFresh == ASSUME TypeOK, Accounting, Restart PROVE Fresh'
<1>1. boot' = boot + 1 /\ stats' = NoStats /\ era' = era BY DEF Restart
<1>2. \A r \in Request : pc'[r] = IF pc[r] \in InFlight THEN "aborted" ELSE pc[r] BY DEF Restart
<1>3. \A r \in Request : era[r] \in Nat /\ era[r] <= boot /\ boot \in Nat BY DEF TypeOK, Accounting
<1>4. \A r \in Request : era'[r] # boot' /\ era'[r] <= boot' BY <1>1, <1>3
<1>5. \A r \in Request : pc'[r] \notin InFlight
    BY <1>2 DEF InFlight, IssuePoints, VerifyPoints
<1> QED BY <1>1, <1>4, <1>5 DEF Fresh

THEOREM AccountingInvariant == Spec => [](TypeOK /\ Accounting)
<1>1. Init => Accounting
    <2>1. Init => Fresh BY DEF Init, Fresh, InFlight, IssuePoints, VerifyPoints
    <2> QED BY <2>1, FreshAccounted
<1>2. TypeOK /\ Accounting /\ Restart => Fresh' BY RestartFresh
<1>3. Fresh' => Accounting' BY FreshAccounted, PTL
<1>4. ASSUME TypeOK, Accounting, [Next]_vars PROVE Accounting'
    <2>1. CASE UNCHANGED <<pc, era, boot, stats>>
        BY <1>4, <2>1 DEF Accounting, StatsAccount, Tally, Here
    <2>2. CASE Next
        <3>1. CASE Tick BY <2>1, <3>1 DEF Tick, reqVars
        <3>2. CASE \E r \in Request : Issue(r) \/ Verify(r) \/ SiteVerify(r)
            BY <1>4, <3>2, IssueAccounted, VerifyAccounted, SiteVerifyAccounted
        <3>3. CASE Restart BY <1>2, <1>3, <1>4, <3>3
        <3> QED BY <2>2, <3>1, <3>2, <3>3 DEF Next
    <2> QED BY <1>4, <2>1, <2>2 DEF vars, reqVars
<1> QED BY <1>1, <1>4, TypeCorrect, PTL DEF Spec

\* metrics.go: at any moment the counters account for every request of this process, also
\* for those that a restart cut short before it.
THEOREM StatsProved == Spec => []StatsAccount
<1>1. Accounting => StatsAccount BY DEF Accounting
<1> QED BY <1>1, AccountingInvariant, PTL

=============================================================================
