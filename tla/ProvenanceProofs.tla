--------------------------- MODULE ProvenanceProofs ---------------------------
(***************************************************************************)
(* Theorems of Gateway about what a token says: it goes back to a request  *)
(* for the same site, action and hostname, and stays good over rotations.  *)
(***************************************************************************)
EXTENDS GatewayProofs

-----------------------------------------------------------------------------
(* Bindings.                                                                 *)

\* The binding secrets of the rings, and the bindings an address has under one of them.
Secrets == {IF keys.binding # NoKey THEN keys.binding ELSE keys.active : keys \in Rings}

BoundTo(bind, address) ==
    IF address = Unparsed THEN bind = Unbound ELSE \E k \in Secrets : bind = <<k, address>>

LEMMA BindIPBound ==
    ASSUME TypeOK, NEW address
    PROVE  BoundTo(BindIP(address), address)
<1>1. BindingSecret \in Secrets BY DEF TypeOK, BindingSecret, Secrets
<1> QED BY <1>1 DEF BindIP, BoundTo

LEMMA BoundToOne ==
    ASSUME NEW bind, NEW a, NEW b, BoundTo(bind, a), BoundTo(bind, b)
    PROVE  a = b
<1>1. \A k, c : <<k, c>> # Unbound BY DEF Unbound
<1> QED BY <1>1 DEF BoundTo

-----------------------------------------------------------------------------
(* The invariant.                                                            *)

\* The record c, a challenge or claims, was made for what request i asked for; `asked` are
\* the inputs of the requests.
Granted(asked, i, c) ==
    /\ i \in DOMAIN asked /\ asked[i] \in IssueInput
    /\ c.site = asked[i].site /\ c.action = asked[i].action /\ c.host = asked[i].host
    /\ Sites[c.site].bind => BoundTo(c.bind, asked[i].address)

Offered(asked, i, c) == Granted(asked, i, c) /\ c.session = asked[i].session

\* s, who solved the challenge of i, held its session and on a binding site its network.
Solved(asked, s, i) ==
    /\ s \in DOMAIN asked
    /\ asked[s].session = asked[i].session
    /\ Sites[asked[i].site].bind => asked[s].address = asked[i].address

Minted(asked, t, i, c) == Granted(asked, i, c) /\ (i # t => Solved(asked, t, i))

\* The backend s named what the claims c say.
Presented(asked, s, c) ==
    /\ s \in DOMAIN asked
    /\ asked[s].site = c.site /\ asked[s].action = c.action /\ asked[s].host = c.host
    /\ Sites[asked[s].site].bind => BoundTo(c.bind, asked[s].address)

\* What every record in the store, in a handler and in a token goes back to.
Origins ==
    /\ \A id \in DOMAIN challenges : Offered(ask, id, challenges[id])
    /\ \A s \in Request :
          /\ pc[s] = "put" => Offered(ask, s, view[s])
          /\ pc[s] \in VerifyPoints => Offered(ask, ref[s], view[s])
          /\ pc[s] \in {"consume", "mint"} => Solved(ask, s, ref[s])
          /\ pc[s] \in {"jti", "verified"} => Presented(ask, s, tokens[ref[s]])
    /\ \A t \in DOMAIN tokens : Minted(ask, t, ref[t], tokens[t])

\* Two records that say the same of where they come from.
Alike(c, d) ==
    /\ c.site = d.site /\ c.action = d.action /\ c.host = d.host
    /\ c.session = d.session /\ c.bind = d.bind

-----------------------------------------------------------------------------
(* What a step leaves alone, and what it may add.                            *)

\* The inputs and references of requests whose handlers hold them, and the tokens, stay.
Framed ==
    /\ \A x \in Request : pc[x] \notin {"idle", "check"} /\ x \in DOMAIN ask
                             => x \in DOMAIN ask' /\ ask'[x] = ask[x]
    /\ \A x \in Request : pc[x] # "idle" => ref'[x] = ref[x]
    /\ \A t \in DOMAIN tokens : t \in DOMAIN tokens' /\ tokens'[t] = tokens[t]

\* A record in the store or in a handler is an old one or has its origin already.
Stored ==
    /\ \A id \in DOMAIN challenges' :
          \/ id \in DOMAIN challenges /\ Alike(challenges'[id], challenges[id])
          \/ Offered(ask', id, challenges'[id])
    /\ \A s \in Request : pc'[s] = "put" =>
          (pc[s] = "put" /\ view'[s] = view[s]) \/ Offered(ask', s, view'[s])
    /\ \A s \in Request : pc'[s] \in VerifyPoints =>
          (pc[s] \in VerifyPoints /\ view'[s] = view[s]) \/ Offered(ask', ref'[s], view'[s])

\* So is a token, and what a handler has established of its own request.
Established ==
    /\ \A s \in Request : pc'[s] \in {"consume", "mint"} =>
          pc[s] \in {"consume", "mint"} \/ Solved(ask', s, ref'[s])
    /\ \A s \in Request : pc'[s] \in {"jti", "verified"} =>
          pc[s] \in {"jti", "verified"} \/ Presented(ask', s, tokens'[ref'[s]])
    /\ \A t \in DOMAIN tokens' :
          t \in DOMAIN tokens \/ Minted(ask', t, ref'[t], tokens'[t])

LEMMA GrantedKept ==
    ASSUME Framed, NEW i \in Request, pc[i] \notin {"idle", "check"}, NEW c, Granted(ask, i, c)
    PROVE  Granted(ask', i, c) /\ ask'[i] = ask[i]
BY DEF Framed, Granted

LEMMA GrantedAlike ==
    ASSUME NEW i, NEW asked, NEW c, NEW d, Alike(c, d), Offered(asked, i, d)
    PROVE  Offered(asked, i, c)
BY DEF Alike, Offered, Granted

LEMMA OriginsStep ==
    ASSUME TypeOK, Redemptions, Origins, Framed, Stored, Established
    PROVE  Origins'
<1> USE DEF Points, InFlight, IssuePoints, VerifyPoints
<1>1. ASSUME NEW id \in DOMAIN challenges' PROVE Offered(ask', id, challenges'[id])
    <2>1. CASE id \in DOMAIN challenges /\ Alike(challenges'[id], challenges[id])
        <3>1. id \in Request /\ pc[id] = "challenge-issued"
            BY <2>1 DEF Redemptions, TypeOK, Maps
        <3>2. Offered(ask, id, challenges[id]) BY <2>1 DEF Origins
        <3>3. Offered(ask', id, challenges[id]) BY <3>1, <3>2, GrantedKept DEF Offered
        <3> QED BY <2>1, <3>3, GrantedAlike
    <2> QED BY <1>1, <2>1 DEF Stored
<1>2. ASSUME NEW s \in Request, pc'[s] = "put" PROVE Offered(ask', s, view'[s])
    <2>1. CASE pc[s] = "put" /\ view'[s] = view[s]
        <3>1. Offered(ask, s, view[s]) BY <2>1 DEF Origins
        <3> QED BY <2>1, <3>1, GrantedKept DEF Offered
    <2> QED BY <1>2, <2>1 DEF Stored
<1>3. ASSUME NEW s \in Request, pc'[s] \in VerifyPoints
      PROVE  Offered(ask', ref'[s], view'[s])
    <2>1. CASE pc[s] \in VerifyPoints /\ view'[s] = view[s]
        <3>1. Offered(ask, ref[s], view[s]) BY <2>1 DEF Origins
        <3>2. ref'[s] = ref[s] BY <2>1 DEF Framed
        <3>3. ref[s] \in Request /\ pc[ref[s]] = "challenge-issued"
            BY <2>1 DEF Redemptions, TypeOK
        <3> QED BY <2>1, <3>1, <3>2, <3>3, GrantedKept DEF Offered
    <2> QED BY <1>3, <2>1 DEF Stored
<1>4. ASSUME NEW s \in Request, pc'[s] \in {"consume", "mint"} PROVE Solved(ask', s, ref'[s])
    <2>1. CASE pc[s] \in {"consume", "mint"}
        <3>1. Solved(ask, s, ref[s]) /\ Offered(ask, ref[s], view[s]) BY <2>1 DEF Origins
        <3>2. ref'[s] = ref[s] /\ ask'[s] = ask[s] /\ s \in DOMAIN ask'
            BY <2>1, <3>1 DEF Framed, Solved
        <3>3. ref[s] \in Request /\ pc[ref[s]] = "challenge-issued"
            BY <2>1 DEF Redemptions, TypeOK
        <3>4. ask'[ref[s]] = ask[ref[s]] BY <3>1, <3>3, GrantedKept DEF Offered
        <3> QED BY <3>1, <3>2, <3>4 DEF Solved
    <2> QED BY <1>4, <2>1 DEF Established
<1>5. ASSUME NEW s \in Request, pc'[s] \in {"jti", "verified"}
      PROVE  Presented(ask', s, tokens'[ref'[s]])
    <2>1. CASE pc[s] \in {"jti", "verified"}
        <3>1. Presented(ask, s, tokens[ref[s]]) /\ ref[s] \in DOMAIN tokens
            BY <2>1 DEF Origins, TypeOK, LocalsSet
        <3>2. ref'[s] = ref[s] /\ ask'[s] = ask[s] /\ s \in DOMAIN ask'
            BY <2>1, <3>1 DEF Framed, Presented
        <3>3. tokens'[ref[s]] = tokens[ref[s]] BY <3>1 DEF Framed
        <3> QED BY <3>1, <3>2, <3>3 DEF Presented
    <2> QED BY <1>5, <2>1 DEF Established
<1>6. ASSUME NEW t \in DOMAIN tokens' PROVE Minted(ask', t, ref'[t], tokens'[t])
    <2>1. CASE t \in DOMAIN tokens
        <3>1. Minted(ask, t, ref[t], tokens[t]) BY <2>1 DEF Origins
        <3>2. t \in Request /\ ref[t] \in Request BY <2>1 DEF TypeOK, Maps
        <3>3. pc[t] \notin {"idle", "check"} BY <2>1, <3>2 DEF Redemptions
        <3>4. ref'[t] = ref[t] /\ tokens'[t] = tokens[t] BY <2>1, <3>2, <3>3 DEF Framed
        <3>5. pc[ref[t]] \notin {"idle", "check"}
            BY <2>1, <3>2 DEF Redemptions, Claimants
        <3>6. Granted(ask', ref[t], tokens[t]) /\ ask'[ref[t]] = ask[ref[t]]
            BY <3>1, <3>2, <3>5, GrantedKept DEF Minted
        <3>7. ref[t] # t => Solved(ask', t, ref[t])
            <4>1. SUFFICES ASSUME ref[t] # t PROVE Solved(ask', t, ref[t])
                OBVIOUS
            <4>2. Solved(ask, t, ref[t]) BY <3>1, <4>1 DEF Minted
            <4>3. t \in DOMAIN ask' /\ ask'[t] = ask[t] BY <3>2, <3>3, <4>2 DEF Framed, Solved
            <4> QED BY <3>6, <4>2, <4>3 DEF Solved
        <3> QED BY <3>4, <3>6, <3>7 DEF Minted
    <2> QED BY <1>6, <2>1 DEF Established
<1> QED BY <1>1, <1>2, <1>3, <1>4, <1>5, <1>6 DEF Origins

-----------------------------------------------------------------------------
(* The steps.                                                                *)

\* A step that changes no input, reference or token, adds nothing to the store, and takes no
\* handler to a point where something must have been established.
LEMMA QuietOrigins ==
    ASSUME TypeOK, Redemptions, Origins,
           UNCHANGED <<ask, ref, tokens>>,
           \A id \in DOMAIN challenges' : id \in DOMAIN challenges /\ Alike(challenges'[id], challenges[id]),
           \A s \in Request :
              /\ pc'[s] = "put" => pc[s] = "put" /\ view'[s] = view[s]
              /\ pc'[s] \in VerifyPoints => pc[s] \in VerifyPoints /\ view'[s] = view[s]
              /\ pc'[s] \in {"consume", "mint"} => pc[s] \in {"consume", "mint"}
              /\ pc'[s] \in {"jti", "verified"} => pc[s] \in {"jti", "verified"}
    PROVE  Origins'
<1>1. Framed BY DEF Framed
<1>2. Stored BY DEF Stored
<1>3. Established BY DEF Established
<1> QED BY <1>1, <1>2, <1>3, OriginsStep

LEMMA AlikeSelf == ASSUME NEW c PROVE Alike(c, c)
BY DEF Alike

LEMMA AlikeCounted ==
    ASSUME NEW c \in ChallengeRecord, NEW n
    PROVE  Alike([c EXCEPT !.attempts = n], c)
BY DEF Alike, ChallengeRecord

\* What the methods of the store leave in the map of challenges.
LEMMA LiveAlike ==
    ASSUME TypeOK, challenges' = LiveChallenges
    PROVE  \A id \in DOMAIN challenges' :
              id \in DOMAIN challenges /\ Alike(challenges'[id], challenges[id])
BY LiveFacts, AlikeSelf

LEMMA WithoutAlike ==
    ASSUME NEW id, challenges' = Without(challenges, id)
    PROVE  \A j \in DOMAIN challenges' :
              j \in DOMAIN challenges /\ Alike(challenges'[j], challenges[j])
<1>1. DOMAIN challenges' = DOMAIN challenges \ {id} BY WithoutDomain
<1>2. \A j \in DOMAIN challenges \ {id} : challenges'[j] = challenges[j] BY WithoutAt
<1> QED BY <1>1, <1>2, AlikeSelf

LEMMA FailAlike ==
    ASSUME TypeOK, NEW id, NEW n, FailChallenge(id, n)
    PROVE  \A j \in DOMAIN challenges' :
              j \in DOMAIN challenges /\ Alike(challenges'[j], challenges[j])
<1>1. CASE challenges' = challenges BY <1>1, AlikeSelf
<1>2. CASE challenges' = Without(challenges, id) BY <1>2, WithoutAlike
<1>3. CASE id \in DOMAIN challenges
           /\ challenges' = Put(challenges, id, [challenges[id] EXCEPT !.attempts = challenges[id].attempts + 1])
    <2> DEFINE c == [challenges[id] EXCEPT !.attempts = challenges[id].attempts + 1]
    <2>1. Alike(c, challenges[id])
        <3>1. challenges[id] \in ChallengeRecord BY <1>3 DEF TypeOK, Maps
        <3> QED BY <3>1, AlikeCounted
    <2>2. challenges' = Put(challenges, id, c) /\ id \in DOMAIN challenges BY <1>3
    <2> HIDE DEF c
    <2>3. DOMAIN challenges' = DOMAIN challenges
        <3>1. DOMAIN challenges' = DOMAIN challenges \cup {id} BY <2>2, PutDomain
        <3> QED BY <2>2, <3>1
    <2>4. \A j \in DOMAIN challenges' : challenges'[j] = IF j = id THEN c ELSE challenges[j]
        BY <2>2, <2>3, PutAt
    <2> QED BY <2>1, <2>3, <2>4, AlikeSelf
<1> QED BY <1>1, <1>2, <1>3 DEF FailChallenge

LEMMA QuietSteps ==
    ASSUME TypeOK, Redemptions, Origins, NEW r \in Request,
           \/ IssueReject(r) \/ IssueRate(r) \/ IssueBlock(r) \/ IssueUndecided(r)
           \/ VerifyDrop(r) \/ VerifyRefuse(r) \/ VerifyFail(r) \/ VerifyConsume(r)
           \/ SiteVerifyRefuse(r) \/ SiteVerifyConsume(r)
    PROVE  Origins'
<1> USE DEF VerifyPoints
<1>1. PICK p \in Points :
        /\ pc' = [pc EXCEPT ![r] = p] /\ UNCHANGED <<ask, ref, tokens>>
        /\ p # "put"
        /\ p \in VerifyPoints => pc[r] \in VerifyPoints /\ view'[r] = view[r]
        /\ p \in {"consume", "mint"} => pc[r] \in {"consume", "mint"}
        /\ p \in {"jti", "verified"} => pc[r] \in {"jti", "verified"}
    BY DEF IssueReject, IssueRate, IssueBlock, IssueUndecided, VerifyDrop, VerifyRefuse, VerifyFail,
           VerifyConsume, SiteVerifyRefuse, SiteVerifyConsume, Arrive, Goto, Points, Answers,
           IssueAnswers, VerifyAnswers, SiteVerifyAnswers, InFlight, IssuePoints
<1>2. view' = view \/ view' = Without(view, r)
    BY DEF IssueReject, IssueRate, IssueBlock, IssueUndecided, VerifyDrop, VerifyRefuse, VerifyFail,
           VerifyConsume, SiteVerifyRefuse, SiteVerifyConsume
<1>3. \A s \in Request : s # r /\ s \in DOMAIN view => view'[s] = view[s]
    BY <1>2, WithoutAt
<1>4. \A s \in Request : pc[s] \in VerifyPoints \cup {"put"} => s \in DOMAIN view
    BY DEF TypeOK, LocalsSet
<1>5. \A id \in DOMAIN challenges' : id \in DOMAIN challenges /\ Alike(challenges'[id], challenges[id])
    <2>1. CASE challenges' = challenges BY <2>1, AlikeSelf
    <2>2. CASE challenges' = LiveChallenges BY <2>2, LiveAlike
    <2>3. CASE challenges' = Without(challenges, ref[r]) BY <2>3, WithoutAlike
    <2>4. CASE VerifyFail(r) BY <2>4, FailAlike DEF VerifyFail
    <2> QED
        BY <2>1, <2>2, <2>3, <2>4
        DEF IssueReject, IssueRate, AllowRate, IssueBlock, IssueUndecided, VerifyDrop, VerifyRefuse,
            VerifyConsume, ConsumeChallenge, SiteVerifyRefuse, SiteVerifyConsume, ConsumeJTI, storeVars
<1>6. \A s \in Request : s # r => pc'[s] = pc[s] BY <1>1 DEF TypeOK
<1>7. pc'[r] = p BY <1>1 DEF TypeOK
<1> QED BY <1>1, <1>3, <1>4, <1>5, <1>6, <1>7, QuietOrigins

LEMMA EnvironmentOrigins ==
    ASSUME TypeOK, Redemptions, Origins, Tick \/ Restart
    PROVE  Origins'
<1>1. CASE Tick
    <2>1. UNCHANGED <<challenges, pc, ask, ref, view, tokens>>
        BY <1>1 DEF Tick, storeVars, reqVars
    <2> QED BY <2>1 DEF Origins
<1>2. CASE Restart
    <2>1. /\ \A s \in Request : pc'[s] = IF pc[s] \in InFlight THEN "aborted" ELSE pc[s]
          /\ DOMAIN challenges' = {} /\ UNCHANGED <<ask, ref, view, tokens>>
        BY <1>2 DEF Restart, EmptyMap
    <2> QED BY <2>1, QuietOrigins DEF InFlight, IssuePoints, VerifyPoints
<1> QED BY <1>1, <1>2

-----------------------------------------------------------------------------
(* The steps that issue.                                                     *)

\* A step of r that only writes its inputs, from a point where they are not yet used.
LEMMA AskFramed ==
    ASSUME NEW r \in Request, pc[r] \in {"idle", "check"}, NEW q, ask' = Put(ask, r, q),
           \A x \in Request : pc[x] # "idle" => ref'[x] = ref[x], UNCHANGED tokens
    PROVE  Framed /\ r \in DOMAIN ask' /\ ask'[r] = q
<1>1. DOMAIN ask' = DOMAIN ask \cup {r} BY PutDomain
<1>2. \A j \in DOMAIN ask \cup {r} : ask'[j] = IF j = r THEN q ELSE ask[j] BY PutAt
<1> QED BY <1>1, <1>2 DEF Framed

LEMMA StartOrigins ==
    ASSUME TypeOK, Redemptions, Origins, NEW r \in Request, IssueStart(r)
    PROVE  Origins'
<1>1. PICK q : ask' = Put(ask, r, q)
    BY DEF IssueStart
<1>2. pc[r] = "idle" /\ pc' = [pc EXCEPT ![r] = "rate"]
      /\ UNCHANGED <<challenges, view, ref, tokens>>
    BY DEF IssueStart, Arrive, Goto, storeVars
<1>3. Framed BY <1>1, <1>2, AskFramed
<1>4. Stored BY <1>2, AlikeSelf DEF Stored, TypeOK, VerifyPoints
<1>5. Established BY <1>2 DEF Established, TypeOK
<1> QED BY <1>3, <1>4, <1>5, OriginsStep

LEMMA BindGranted ==
    ASSUME TypeOK, NEW site, NEW address
    PROVE  Sites[site].bind =>
             BoundTo(IF Sites[site].bind THEN BindIP(address) ELSE Unbound, address)
BY BindIPBound

LEMMA AllowOrigins ==
    ASSUME TypeOK, Redemptions, Origins, NEW r \in Request, IssueAllow(r)
    PROVE  Origins'
<1>1. /\ pc[r] = "score" /\ UNCHANGED <<ask, ref, view, challenges>>
      /\ pc' = [pc EXCEPT ![r] = "token-issued"] \/ pc' = [pc EXCEPT ![r] = "no-token"]
    BY DEF IssueAllow, Goto, storeVars
<1>2. Stored BY <1>1, AlikeSelf DEF Stored, TypeOK, VerifyPoints
<1>3. CASE UNCHANGED tokens
    <2>1. Framed BY <1>1, <1>3 DEF Framed
    <2>2. Established BY <1>1, <1>3 DEF Established, TypeOK
    <2> QED BY <1>2, <2>1, <2>2, OriginsStep
<1>4. CASE tokens' # tokens
    <2> DEFINE q == ask[r]
               bind == IF Sites[q.site].bind THEN BindIP(q.address) ELSE Unbound
               c == MintClaims(q.site, q.action, q.host, bind)
    <2>1. tokens' = Put(tokens, r, c) BY <1>4 DEF IssueAllow
    <2>2. r \in DOMAIN ask /\ q \in IssueInput BY <1>1 DEF TypeOK, LocalsSet
    <2>3. r \notin DOMAIN tokens /\ ref[r] = r BY <1>1 DEF Redemptions, InFlight, IssuePoints
    <2>4. c.site = q.site /\ c.action = q.action /\ c.host = q.host /\ c.bind = bind
        BY DEF MintClaims
    <2>5. Sites[q.site].bind => BoundTo(bind, q.address) BY BindGranted
    <2>6. Granted(ask, r, c) BY <2>2, <2>4, <2>5 DEF Granted
    <2> HIDE DEF q, bind, c
    <2>7. DOMAIN tokens' = DOMAIN tokens \cup {r} BY <2>1, PutDomain
    <2>8. \A j \in DOMAIN tokens \cup {r} : tokens'[j] = IF j = r THEN c ELSE tokens[j]
        BY <2>1, PutAt
    <2>9. Framed BY <1>1, <2>3, <2>7, <2>8 DEF Framed
    <2>10. Minted(ask', r, ref'[r], tokens'[r]) BY <1>1, <2>3, <2>6, <2>8 DEF Minted
    <2>11. Established BY <1>1, <2>7, <2>10 DEF Established, TypeOK
    <2> QED BY <1>2, <2>9, <2>11, OriginsStep
<1> QED BY <1>3, <1>4

LEMMA OfferOrigins ==
    ASSUME TypeOK, Redemptions, Origins, NEW r \in Request, NEW kind \in Kind, IssueOffer(r, kind)
    PROVE  Origins'
<1>1. pc[r] = "score" /\ UNCHANGED <<ask, ref, tokens, challenges>>
    BY DEF IssueOffer, storeVars
<1>2. CASE pc' = [pc EXCEPT ![r] = "no-challenge"] /\ UNCHANGED view
    <2>1. \A s \in Request : pc'[s] = IF s = r THEN "no-challenge" ELSE pc[s]
        BY <1>2 DEF TypeOK
    <2> QED BY <1>1, <1>2, <2>1, QuietOrigins, AlikeSelf DEF VerifyPoints
<1>3. CASE pc' = [pc EXCEPT ![r] = "put"] /\ view' = Put(view, r, NewChallenge(ask[r], kind))
    <2> DEFINE c == NewChallenge(ask[r], kind)
    <2>1. r \in DOMAIN ask /\ ask[r] \in IssueInput BY <1>1 DEF TypeOK, LocalsSet
    <2>2. /\ c.site = ask[r].site /\ c.action = ask[r].action /\ c.host = ask[r].host
          /\ c.session = ask[r].session
          /\ c.bind = IF Sites[ask[r].site].bind THEN BindIP(ask[r].address) ELSE Unbound
        BY DEF NewChallenge
    <2>3. Offered(ask, r, c) BY <2>1, <2>2, BindGranted DEF Offered, Granted
    <2> HIDE DEF c
    <2>4. \A j \in DOMAIN view \cup {r} : view'[j] = IF j = r THEN c ELSE view[j]
        BY <1>3, PutAt DEF c
    <2>5. \A s \in Request : pc[s] \in VerifyPoints \cup {"put"} => s \in DOMAIN view
        BY DEF TypeOK, LocalsSet
    <2>6. \A s \in Request : pc'[s] = IF s = r THEN "put" ELSE pc[s] BY <1>3 DEF TypeOK
    <2>7. Framed BY <1>1 DEF Framed
    <2>8. Stored BY <1>1, <2>3, <2>4, <2>5, <2>6, AlikeSelf DEF Stored, VerifyPoints
    <2>9. Established BY <1>1, <2>6 DEF Established
    <2> QED BY <2>7, <2>8, <2>9, OriginsStep
<1> QED BY <1>2, <1>3 DEF IssueOffer, Goto

LEMMA PutOrigins ==
    ASSUME TypeOK, Redemptions, Origins, NEW r \in Request, IssuePut(r)
    PROVE  Origins'
<1>1. /\ pc[r] = "put" /\ pc' = [pc EXCEPT ![r] = "challenge-issued"]
      /\ view' = Without(view, r) /\ challenges' = Put(LiveChallenges, r, view[r])
      /\ UNCHANGED <<ask, ref, tokens>>
    BY DEF IssuePut, Goto, PutChallenge
<1>2. Framed BY <1>1 DEF Framed
<1>3. \A s \in Request : pc'[s] = IF s = r THEN "challenge-issued" ELSE pc[s] BY <1>1 DEF TypeOK
<1>4. \A s \in DOMAIN view \ {r} : view'[s] = view[s] BY <1>1, WithoutAt
<1>5. \A s \in Request : pc[s] \in VerifyPoints \cup {"put"} => s \in DOMAIN view
    BY DEF TypeOK, LocalsSet
<1>6. \A id \in DOMAIN challenges' :
          \/ id \in DOMAIN challenges /\ Alike(challenges'[id], challenges[id])
          \/ Offered(ask', id, challenges'[id])
    <2>1. Offered(ask, r, view[r]) BY <1>1 DEF Origins
    <2>2. DOMAIN challenges' = DOMAIN LiveChallenges \cup {r} BY <1>1, PutDomain
    <2>3. \A j \in DOMAIN LiveChallenges \cup {r} :
              challenges'[j] = IF j = r THEN view[r] ELSE LiveChallenges[j]
        BY <1>1, PutAt
    <2>4. \A j \in DOMAIN LiveChallenges : j \in DOMAIN challenges /\ LiveChallenges[j] = challenges[j]
        BY LiveFacts
    <2> QED BY <1>1, <2>1, <2>2, <2>3, <2>4, AlikeSelf
<1>7. Stored BY <1>3, <1>4, <1>5, <1>6 DEF Stored, VerifyPoints
<1>8. Established BY <1>1, <1>3 DEF Established
<1> QED BY <1>2, <1>7, <1>8, OriginsStep

-----------------------------------------------------------------------------
(* The steps that redeem and verify.                                         *)

LEMMA GetOrigins ==
    ASSUME TypeOK, Redemptions, Origins, NEW r \in Request, VerifyGet(r)
    PROVE  Origins'
<1>1. PICK id \in Request :
        /\ ref' = [ref EXCEPT ![r] = id]
        /\ IF id \in DOMAIN LiveChallenges
           THEN view' = Put(view, r, challenges[id]) /\ Goto(r, "check")
           ELSE UNCHANGED view /\ Goto(r, "not-found")
    BY DEF VerifyGet
<1>2. pc[r] = "idle" /\ challenges' = LiveChallenges /\ UNCHANGED <<ask, tokens>>
    BY DEF VerifyGet, Arrive, GetChallenge
<1>3. Framed BY <1>1, <1>2 DEF Framed, TypeOK
<1>4. \A s \in Request : s # r => pc'[s] = pc[s] BY <1>1 DEF Goto, TypeOK
<1>5. pc'[r] \in {"check", "not-found"} BY <1>1 DEF Goto, TypeOK
<1>6. \A s \in Request : pc[s] \in VerifyPoints \cup {"put"} => s \in DOMAIN view
    BY DEF TypeOK, LocalsSet
<1>7. \A s \in DOMAIN view : s # r => view'[s] = view[s]
    <2>1. CASE view' = Put(view, r, challenges[id]) BY <2>1, PutAt
    <2>2. CASE view' = view BY <2>2
    <2> QED BY <1>1, <2>1, <2>2
<1>8. pc'[r] = "check" => Offered(ask', ref'[r], view'[r])
    <2>1. SUFFICES ASSUME pc'[r] = "check" PROVE Offered(ask', ref'[r], view'[r])
        OBVIOUS
    <2>2. id \in DOMAIN LiveChallenges /\ view' = Put(view, r, challenges[id])
        BY <1>1, <2>1 DEF Goto, TypeOK
    <2>3. id \in DOMAIN challenges BY <2>2, LiveFacts
    <2>4. Offered(ask, id, challenges[id]) BY <2>3 DEF Origins
    <2>5. view'[r] = challenges[id] BY <2>2, PutAt
    <2>6. ref'[r] = id BY <1>1 DEF TypeOK
    <2> QED BY <1>2, <2>4, <2>5, <2>6
<1>9. Stored BY <1>2, <1>4, <1>5, <1>6, <1>7, <1>8, LiveAlike DEF Stored, VerifyPoints
<1>10. Established BY <1>2, <1>4, <1>5 DEF Established
<1> QED BY <1>3, <1>9, <1>10, OriginsStep

LEMMA AcceptOrigins ==
    ASSUME TypeOK, Redemptions, Origins, NEW r \in Request, VerifyAccept(r)
    PROVE  Origins'
<1>1. PICK address \in Address, session \in Session, good \in BOOLEAN :
        /\ ProofAccepted(view[r], address, session, good)
        /\ ask' = Put(ask, r, [address |-> address, session |-> session])
    BY DEF VerifyAccept
<1>2. /\ pc[r] = "check" /\ pc' = [pc EXCEPT ![r] = "consume"]
      /\ UNCHANGED <<challenges, ref, view, tokens>>
    BY DEF VerifyAccept, Goto, storeVars
<1> DEFINE i == ref[r]
           q == [address |-> address, session |-> session]
<1>3. Framed /\ r \in DOMAIN ask' /\ ask'[r] = q BY <1>1, <1>2, AskFramed
<1>4. \A s \in Request : pc'[s] = IF s = r THEN "consume" ELSE pc[s] BY <1>2 DEF TypeOK
<1>5. Offered(ask, i, view[r]) BY <1>2 DEF Origins, VerifyPoints
<1>6. i \in Request /\ pc[i] = "challenge-issued" BY <1>2 DEF Redemptions, TypeOK, VerifyPoints
<1>7. ask'[i] = ask[i] BY <1>3, <1>5, <1>6, GrantedKept DEF Offered
<1>8. Solved(ask', r, i)
    <2>1. session = ask[i].session BY <1>1, <1>5 DEF ProofAccepted, Offered
    <2>2. Sites[ask[i].site].bind => address = ask[i].address
        <3>1. SUFFICES ASSUME Sites[ask[i].site].bind PROVE address = ask[i].address
            OBVIOUS
        <3>2. BoundTo(view[r].bind, ask[i].address) BY <1>5, <3>1 DEF Offered, Granted
        <3>3. BindIP(address) = view[r].bind
            BY <1>1, <1>5, <3>1 DEF ProofAccepted, Offered, Granted
        <3>4. BoundTo(view[r].bind, address) BY <3>3, BindIPBound
        <3> QED BY <3>2, <3>4, BoundToOne
    <2>3. ask'[r].address = address /\ ask'[r].session = session BY <1>3
    <2> QED BY <1>3, <1>7, <2>1, <2>2, <2>3 DEF Solved
<1>9. Stored BY <1>2, <1>4, AlikeSelf DEF Stored, VerifyPoints
<1>10. Established BY <1>2, <1>4, <1>8 DEF Established
<1> QED BY <1>3, <1>9, <1>10, OriginsStep

LEMMA MintOrigins ==
    ASSUME TypeOK, Redemptions, Origins, NEW r \in Request, VerifyMint(r)
    PROVE  Origins'
<1>1. /\ pc[r] = "mint" /\ view' = Without(view, r) /\ UNCHANGED <<challenges, ask, ref>>
      /\ pc' = [pc EXCEPT ![r] = "solved"] \/ pc' = [pc EXCEPT ![r] = "solved-no-token"]
    BY DEF VerifyMint, Goto, storeVars
<1>2. \A s \in Request : s # r => pc'[s] = pc[s] BY <1>1 DEF TypeOK
<1>3. pc'[r] \in {"solved", "solved-no-token"} BY <1>1 DEF TypeOK
<1>4. \A s \in DOMAIN view \ {r} : view'[s] = view[s] BY <1>1, WithoutAt
<1>5. \A s \in Request : pc[s] \in VerifyPoints \cup {"put"} => s \in DOMAIN view
    BY DEF TypeOK, LocalsSet
<1>6. Stored BY <1>1, <1>2, <1>3, <1>4, <1>5, AlikeSelf DEF Stored, VerifyPoints
<1>7. CASE UNCHANGED tokens
    <2>1. Framed BY <1>1, <1>7 DEF Framed
    <2>2. Established BY <1>1, <1>2, <1>3, <1>7 DEF Established
    <2> QED BY <1>6, <2>1, <2>2, OriginsStep
<1>8. CASE tokens' # tokens
    <2> DEFINE d == view[r]
               c == MintClaims(d.site, d.action, d.host, d.bind)
    <2>1. tokens' = Put(tokens, r, c) BY <1>8 DEF VerifyMint
    <2>2. Offered(ask, ref[r], d) /\ Solved(ask, r, ref[r]) BY <1>1 DEF Origins, VerifyPoints
    <2>3. c.site = d.site /\ c.action = d.action /\ c.host = d.host /\ c.bind = d.bind
        BY DEF MintClaims
    <2>4. Granted(ask, ref[r], c) BY <2>2, <2>3 DEF Offered, Granted
    <2>5. r \notin DOMAIN tokens BY <1>1 DEF Redemptions, InFlight, VerifyPoints
    <2> HIDE DEF c, d
    <2>6. DOMAIN tokens' = DOMAIN tokens \cup {r} BY <2>1, PutDomain
    <2>7. \A j \in DOMAIN tokens \cup {r} : tokens'[j] = IF j = r THEN c ELSE tokens[j]
        BY <2>1, PutAt
    <2>8. Framed BY <1>1, <2>5, <2>6, <2>7 DEF Framed
    <2>9. Minted(ask', r, ref'[r], tokens'[r]) BY <1>1, <2>2, <2>4, <2>7 DEF Minted
    <2>10. Established BY <1>1, <1>2, <1>3, <2>6, <2>9 DEF Established
    <2> QED BY <1>6, <2>8, <2>10, OriginsStep
<1> QED BY <1>7, <1>8

LEMMA SiteVerifyOrigins ==
    ASSUME TypeOK, Redemptions, Origins, NEW r \in Request, SiteVerifyAccept(r)
    PROVE  Origins'
<1>1. PICK jti \in DOMAIN tokens, site \in DOMAIN Sites, action \in Action, host \in Host,
           address \in Address :
        /\ TokenAccepted(jti, [site |-> site, action |-> action, host |-> host, address |-> address])
        /\ ask' = Put(ask, r, [site |-> site, action |-> action, host |-> host, address |-> address])
        /\ ref' = [ref EXCEPT ![r] = jti]
    BY DEF SiteVerifyAccept
<1>2. /\ pc[r] = "idle" /\ pc' = [pc EXCEPT ![r] = "jti"]
      /\ UNCHANGED <<challenges, view, tokens>>
    BY DEF SiteVerifyAccept, Arrive, Goto, storeVars
<1> DEFINE q == [site |-> site, action |-> action, host |-> host, address |-> address]
           c == tokens[jti]
<1>3. ref'[r] = jti /\ \A x \in Request : x # r => ref'[x] = ref[x] BY <1>1 DEF TypeOK
<1>4. Framed /\ r \in DOMAIN ask' /\ ask'[r] = q BY <1>1, <1>2, <1>3, AskFramed
<1>5. \A s \in Request : pc'[s] = IF s = r THEN "jti" ELSE pc[s] BY <1>2 DEF TypeOK
<1>6. Presented(ask', r, c)
    <2>1. /\ c.site = site /\ c.action = action /\ c.host = host
          /\ Sites[site].bind => BindIP(address) = c.bind
        BY <1>1 DEF TokenAccepted
    <2>2. BoundTo(BindIP(address), address) BY BindIPBound
    <2>3. /\ ask'[r].site = site /\ ask'[r].action = action /\ ask'[r].host = host
          /\ ask'[r].address = address
        BY <1>4
    <2> QED BY <1>4, <2>1, <2>2, <2>3 DEF Presented
<1>7. Stored BY <1>2, <1>3, <1>5, AlikeSelf DEF Stored, VerifyPoints
<1>8. Established BY <1>2, <1>3, <1>5, <1>6 DEF Established
<1> QED BY <1>4, <1>7, <1>8, OriginsStep

-----------------------------------------------------------------------------
(* The theorems.                                                             *)

THEOREM OriginsInvariant == Spec => [](TypeOK /\ Redemptions /\ Origins)
<1>1. Init => Origins
    BY DEF Init, NewMemory, EmptyMap, Origins, VerifyPoints
<1>2. ASSUME TypeOK, Redemptions, Origins, [Next]_vars PROVE Origins'
    <2>1. CASE UNCHANGED vars
        BY <1>2, <2>1 DEF vars, storeVars, reqVars, Origins
    <2>2. CASE Next
        BY <1>2, <2>2, QuietSteps, EnvironmentOrigins, StartOrigins, AllowOrigins, OfferOrigins,
           PutOrigins, GetOrigins, AcceptOrigins, MintOrigins, SiteVerifyOrigins
        DEF Next, Issue, Verify, SiteVerify
    <2> QED BY <1>2, <2>1, <2>2
<1> QED BY <1>1, <1>2, RedemptionsInvariant, PTL DEF Spec

\* server.go, the three handlers: what a backend is told goes back, through the challenge
\* that was solved if there was one, to a request for the same site, action and hostname, from
\* the same session and on a binding site the same network.
THEOREM ProvenanceProved == Spec => []Provenance
<1>1. ASSUME TypeOK, Redemptions, Origins, NEW s \in Verified
      PROVE  LET t == ref[s]
                 i == ref[t]
             IN  /\ ask[s].site = ask[i].site
                 /\ ask[s].action = ask[i].action
                 /\ ask[s].host = ask[i].host
                 /\ t # i => ask[t].session = ask[i].session
                 /\ Sites[ask[s].site].bind =>
                      /\ ask[s].address = ask[i].address
                      /\ ask[t].address = ask[i].address
    <2> DEFINE t == ref[s]
               i == ref[t]
               c == tokens[t]
    <2>1. Presented(ask, s, c) /\ t \in DOMAIN tokens
        BY <1>1 DEF Verified, Origins, TypeOK, LocalsSet
    <2>2. Minted(ask, t, i, c) BY <1>1, <2>1 DEF Origins
    <2> HIDE DEF t, i, c
    <2>3. Sites[ask[s].site].bind => ask[s].address = ask[i].address
        BY <2>1, <2>2, BoundToOne DEF Presented, Minted, Granted
    <2>4. t # i => /\ ask[t].session = ask[i].session
                   /\ Sites[ask[s].site].bind => ask[t].address = ask[i].address
        BY <2>1, <2>2 DEF Presented, Minted, Granted, Solved
    <2> QED BY <2>1, <2>2, <2>3, <2>4 DEF Presented, Minted, Granted, t, i
<1>2. TypeOK /\ Redemptions /\ Origins => Provenance
    BY <1>1, Zenon DEF Provenance
<1> QED BY OriginsInvariant, <1>2, PTL

-----------------------------------------------------------------------------
(* Key rotation.                                                             *)

\* docs/OPERATIONS.md: the binding secret is independent of the signing keys and stable.
StableBinding == \E key : key # NoKey /\ \A keys \in Rings : keys.binding = key

LEMMA StableBind ==
    ASSUME TypeOK, StableBinding, NEW bind, NEW address, BoundTo(bind, address)
    PROVE  BindIP(address) = bind
<1>1. PICK key : key # NoKey /\ \A keys \in Rings : keys.binding = key BY DEF StableBinding
<1>2. BindingSecret = key BY <1>1 DEF TypeOK, BindingSecret
<1>3. \A k \in Secrets : k = key BY <1>1 DEF Secrets
<1> QED BY <1>2, <1>3 DEF BoundTo, BindIP

\* No token was issued after the present second.
Aged == \A t \in DOMAIN tokens : tokens[t].iat <= Seconds(now)

LEMMA SecondsGrow ==
    ASSUME NEW n \in Nat
    PROVE  Seconds(n) \in Int /\ Seconds(n) <= Seconds(n + 1)
BY TimeAssumption DEF Seconds

LEMMA PutAged ==
    ASSUME TypeOK, Aged, NEW r, NEW c, c.iat = Seconds(now), tokens' = Put(tokens, r, c),
           UNCHANGED now
    PROVE  Aged'
<1>1. DOMAIN tokens' = DOMAIN tokens \cup {r} BY PutDomain
<1>2. \A j \in DOMAIN tokens \cup {r} : tokens'[j] = IF j = r THEN c ELSE tokens[j] BY PutAt
<1>3. Seconds(now) \in Int BY SecondsGrow DEF TypeOK
<1> QED BY <1>1, <1>2, <1>3 DEF Aged

LEMMA AgedNext == ASSUME TypeOK, Aged, Next PROVE Aged'
<1>1. CASE UNCHANGED <<now, tokens>> BY <1>1 DEF Aged
<1>2. ASSUME NEW r \in Request, IssueAllow(r), tokens' # tokens PROVE Aged'
    <2>1. PICK site, action, host, bind : tokens' = Put(tokens, r, MintClaims(site, action, host, bind))
        BY <1>2 DEF IssueAllow
    <2>2. UNCHANGED now BY <1>2 DEF IssueAllow
    <2>3. MintClaims(site, action, host, bind).iat = Seconds(now) BY DEF MintClaims
    <2> QED BY <2>1, <2>2, <2>3, PutAged
<1>3. ASSUME NEW r \in Request, VerifyMint(r), tokens' # tokens PROVE Aged'
    <2>1. PICK site, action, host, bind : tokens' = Put(tokens, r, MintClaims(site, action, host, bind))
        BY <1>3 DEF VerifyMint
    <2>2. UNCHANGED now BY <1>3 DEF VerifyMint
    <2>3. MintClaims(site, action, host, bind).iat = Seconds(now) BY DEF MintClaims
    <2> QED BY <2>1, <2>2, <2>3, PutAged
<1>4. CASE Tick
    <2>1. tokens' = tokens /\ now' = now + 1 BY <1>4 DEF Tick
    <2>2. \A t \in DOMAIN tokens : tokens[t].iat \in Int BY DEF TypeOK, Maps, ClaimsRecord
    <2>3. Seconds(now) \in Int /\ Seconds(now + 1) \in Int /\ Seconds(now) <= Seconds(now + 1)
        BY SecondsGrow DEF TypeOK
    <2> QED BY <2>1, <2>2, <2>3 DEF Aged
<1>5. ASSUME NEW r \in Request, Issue(r), ~IssueAllow(r) PROVE UNCHANGED <<now, tokens>>
    BY <1>5 DEF Issue, IssueReject, IssueStart, IssueRate, IssueBlock, IssueOffer, IssueUndecided, IssuePut
<1>6. ASSUME NEW r \in Request, Verify(r), ~VerifyMint(r) PROVE UNCHANGED <<now, tokens>>
    BY <1>6 DEF Verify, VerifyGet, VerifyDrop, VerifyRefuse, VerifyAccept, VerifyFail, VerifyConsume
<1>7. ASSUME NEW r \in Request, SiteVerify(r) PROVE UNCHANGED <<now, tokens>>
    BY <1>7 DEF SiteVerify, SiteVerifyRefuse, SiteVerifyAccept, SiteVerifyConsume
<1>8. ASSUME Restart PROVE UNCHANGED <<now, tokens>> BY <1>8 DEF Restart
<1>9. \A r \in Request : (IssueAllow(r) \/ VerifyMint(r)) => UNCHANGED now
    BY DEF IssueAllow, VerifyMint
<1> QED BY <1>1, <1>2, <1>3, <1>4, <1>5, <1>6, <1>7, <1>8, <1>9 DEF Next

\* docs/OPERATIONS.md, key rotation; token.go Verify: over restarts with any sequence of the
\* operator's rings, as long as they agree on a binding secret of its own, an unexpired token
\* whose key is kept passes an honest siteverify call.
THEOREM RotationProved ==
    ASSUME StableBinding
    PROVE  Spec => []RotationGrace
<1>1. Init => Aged BY DEF Init, EmptyMap, Aged
<1>2. ASSUME TypeOK, Aged, [Next]_vars PROVE Aged'
    <2>1. CASE UNCHANGED vars BY <1>2, <2>1 DEF vars, Aged
    <2> QED BY <1>2, <2>1, AgedNext
<1>3. ASSUME TypeOK, Redemptions, Origins, Aged, NEW t \in DOMAIN tokens,
             tokens[t].kid \in {ring.active} \cup ring.previous, Seconds(now) < tokens[t].exp
      PROVE  LET i == ref[t]
             IN  TokenAccepted(t, [site |-> ask[i].site, action |-> ask[i].action,
                                   host |-> ask[i].host, address |-> ask[i].address])
    <2> DEFINE i == ref[t]
               c == tokens[t]
    <2>1. Granted(ask, i, c) BY <1>3 DEF Origins, Minted
    <2>2. SignatureHolds(t)
        <3>1. c.iat \in Int /\ c.exp \in Int BY <1>3 DEF TypeOK, Maps, ClaimsRecord
        <3>2. Seconds(now) \in Int BY <1>3, SecondsGrow DEF TypeOK
        <3>3. c.iat <= Seconds(now) BY <1>3 DEF Aged
        <3>4. c.iat <= Seconds(now) + 30 /\ c.exp > Seconds(now) BY <1>3, <3>1, <3>2, <3>3
        <3> QED BY <1>3, <3>4 DEF SignatureHolds, VerifyKeys
    <2>3. Sites[ask[i].site].bind => BindIP(ask[i].address) = c.bind
        BY <1>3, <2>1, StableBind DEF Granted
    <2> QED BY <2>1, <2>2, <2>3 DEF TokenAccepted, Granted
<1>4. TypeOK /\ Redemptions /\ Origins /\ Aged => RotationGrace
    BY <1>3, Zenon DEF RotationGrace
<1> QED BY <1>1, <1>2, <1>4, OriginsInvariant, PTL DEF Spec

=============================================================================
