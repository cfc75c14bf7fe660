--------------------------- MODULE DeploymentProofs ---------------------------
(***************************************************************************)
(* Theorems of Deployment: what a configuration that loads is, and that    *)
(* honest visits are confirmed whatever rotations the operator makes.      *)
(***************************************************************************)
EXTENDS Deployment, FiniteSetTheorems, TLAPS

-----------------------------------------------------------------------------
(* What loads is sound.                                                      *)

LEMMA EnvSiteTyped ==
    ASSUME NEW e, IsEnvironment(e)
    PROVE  IsSite(EnvSite(e))
<1>1. EnvSite(e).bind \in BOOLEAN
    <2>1. e.bind \in SUBSET BOOLEAN BY DEF IsEnvironment
    <2>2. EnvSite(e).bind = Getenv(e.bind, TRUE) BY DEF EnvSite
    <2>3. e.bind = {} \/ (CHOOSE v \in e.bind : TRUE) \in e.bind OBVIOUS
    <2>4. Getenv(e.bind, TRUE) \in {TRUE} \cup e.bind BY <2>3 DEF Getenv
    <2> QED BY <2>1, <2>2, <2>4
<1>2. /\ EnvSite(e).tokenTTL = 0 /\ EnvSite(e).challengeTTL = 0 /\ EnvSite(e).rateLimit = 0
      /\ EnvSite(e).thresholds = NoPolicy
    BY DEF EnvSite
<1>3. NoPolicy \in [pow : Int, interactive : Int, block : Int] BY DEF NoPolicy
<1> QED BY <1>1, <1>2, <1>3 DEF IsSite

LEMMA DefaultsTyped ==
    ASSUME NEW s, IsSite(s)
    PROVE  IsSite(ApplySiteDefaults(s)) /\ ApplySiteDefaults(s).rateLimit >= 1
BY DEF IsSite, ApplySiteDefaults, Positive

LEMMA SitesTyped ==
    ASSUME NEW e, IsEnvironment(e), NEW i \in DOMAIN LoadSites(e)
    PROVE  IsSite(LoadSites(e)[i]) /\ LoadSites(e)[i].rateLimit >= 1
<1> DEFINE sites == Getenv(e.file, <<EnvSite(e)>>)
<1>1. i \in DOMAIN sites /\ LoadSites(e)[i] = ApplySiteDefaults(sites[i])
    BY DEF LoadSites
<1>2. IsSite(sites[i])
    <2>1. CASE e.file = {} BY <1>1, <2>1, EnvSiteTyped DEF Getenv
    <2>2. CASE e.file # {}
        <3>1. sites \in e.file BY <2>2 DEF Getenv
        <3> QED BY <1>1, <3>1 DEF IsEnvironment
    <2> QED BY <2>1, <2>2
<1> QED BY <1>1, <1>2, DefaultsTyped

LEMMA LoadSound ==
    ASSUME NEW e, IsEnvironment(e), Loads(e)
    PROVE  Sound(Load(e))
<1> DEFINE sites == LoadSites(e)
           rt == Load(e)
<1>1. rt.sites = sites /\ rt.kid = KeyID(e) /\ rt.signing = Signing(e)
      /\ rt.previous = Previous(e) /\ rt.binding = BindingSetting(e)
    BY DEF Load
<1>2. \A i \in DOMAIN sites : ValidSite(sites[i], EnvIsProduction(e))
    BY DEF Loads, ValidateSites
<1>3. \A i, j \in DOMAIN sites : sites[i].key = sites[j].key \/ sites[i].secret = sites[j].secret
                                   => i = j
    BY DEF Loads, ValidateSites
<1>4. ASSUME NEW s \in ToSet(rt.sites)
      PROVE  /\ s.tokenTTL \in 30 .. 600 /\ s.challengeTTL \in 30 .. 900
             /\ s.rateLimit >= 1
             /\ ValidThresholds(s.thresholds)
             /\ GetBySecret(rt, s.secret) = {s} /\ Get(rt, s.key) = {s}
    <2>1. PICK i \in DOMAIN sites : s = sites[i] BY <1>1, <1>4 DEF ToSet
    <2>2. s.rateLimit >= 1 BY <2>1, SitesTyped
    <2>3. ValidSite(s, EnvIsProduction(e)) BY <1>2, <2>1
    <2>4. \A t \in ToSet(rt.sites) : t.key = s.key \/ t.secret = s.secret => t = s
        BY <1>1, <1>3, <2>1 DEF ToSet
    <2>5. GetBySecret(rt, s.secret) = {s} /\ Get(rt, s.key) = {s}
        BY <1>4, <2>4 DEF GetBySecret, Get
    <2> QED BY <2>2, <2>3, <2>5 DEF ValidSite
<1>5. PreviousValid(e) /\ Signing(e).bytes >= 32 /\ BindingSetting(e).bytes >= 32
    BY DEF Loads
<1>6. rt.kid \notin DOMAIN rt.previous BY <1>1, <1>5 DEF PreviousValid
<1>7. \A kid \in DOMAIN SignerKeys(rt) : SignerKeys(rt)[kid].bytes >= 32
    BY <1>1, <1>5 DEF SignerKeys, PreviousValid
<1> QED BY <1>1, <1>4, <1>5, <1>6, <1>7 DEF Sound

-----------------------------------------------------------------------------
(* The invariant.                                                            *)

Keys(e) == SignerKeys(Load(e))
Signs(e, kid, key) == kid \in DOMAIN Keys(e) /\ Keys(e)[kid] = key

\* An environment with this clash does not load.
Clash(e) == KeyID(e) \in DOMAIN Previous(e)

\* What no rotation changes.
SamePolicy(e, f) ==
    LoadSites(e) = LoadSites(f) /\ e.binding = f.binding /\ e.trusted = f.trusted

\* What a token of an honest visit says under the sites and the binding of e.
Fits(e, t) ==
    /\ t.visit \in Visits
    /\ t.host = NormalizeHostname(t.visit.page)
    /\ \E site \in ToSet(LoadSites(e)) :
          /\ t.site = site.key /\ t.visit.site = site.key
          /\ t.bind = IF site.bind THEN <<Getenv(e.binding, t.key), t.visit.address>> ELSE <<>>

\* The process was started from what is in force, and the operator edits that.
Process ==
    /\ IsEnvironment(settings) /\ settings.trusted = {Edge}
    /\ \A rt \in runtime : \E e \in inForce : rt = Load(e)
    /\ \A e \in inForce : IsEnvironment(e) /\ Loads(e) /\ SamePolicy(e, settings)

\* Every key that signs or has signed a living token is in the ring of what is in force
\* and of what the operator has prepared, if that loads at all.
Kept ==
    /\ \A e \in inForce : runtime # {} => Clash(settings) \/ Signs(settings, KeyID(e), Signing(e))
    /\ \A t \in tokens : Clash(settings) \/ Signs(settings, t.kid, t.key)
    /\ \A e \in inForce, t \in tokens : Signs(e, t.kid, t.key)

Fitting == \A t \in tokens : Fits(settings, t)

Counted ==
    /\ runtime = {} \/ \E rt : runtime = {rt}
    /\ inForce = {} \/ \E e : inForce = {e}
    /\ IsFiniteSet(tokens) /\ Cardinality(tokens) <= MaxTokens
    /\ rotations \in 0 .. MaxRotations

IInv == Process /\ Kept /\ Fitting /\ Counted

-----------------------------------------------------------------------------
(* What the operator's edits do.                                             *)

LEMMA KeysOf ==
    ASSUME NEW e
    PROVE  /\ DOMAIN Keys(e) = DOMAIN Previous(e) \cup {KeyID(e)}
           /\ \A kid \in DOMAIN Keys(e) :
                 Keys(e)[kid] = IF kid = KeyID(e) THEN Signing(e) ELSE Previous(e)[kid]
           /\ Signs(e, KeyID(e), Signing(e))
BY DEF Keys, SignerKeys, Load, Signs

LEMMA LoadsNoClash == ASSUME NEW e, Loads(e) PROVE ~Clash(e)
BY DEF Loads, PreviousValid, Clash

LEMMA RotatedPolicy ==
    ASSUME NEW e, IsEnvironment(e), NEW k
    PROVE  /\ IsEnvironment(Rotated(e, k)) /\ SamePolicy(Rotated(e, k), e)
           /\ KeyID(Rotated(e, k)) = k.kid /\ Signing(Rotated(e, k)) = k.secret
           /\ Previous(Rotated(e, k)) = Keys(e)
<1> DEFINE f == Rotated(e, k)
<1>1. /\ f.signing = {k.secret} /\ f.kid = {k.kid} /\ f.previous = {Keys(e)}
      /\ f.env = e.env /\ f.binding = e.binding /\ f.file = e.file
      /\ f.siteKey = e.siteKey /\ f.siteSecret = e.siteSecret
      /\ f.hosts = e.hosts /\ f.bind = e.bind
      /\ f.trusted = e.trusted /\ f.malformed = e.malformed
    BY DEF IsEnvironment, Rotated, Keys
<1>2. f = [env |-> f.env, signing |-> f.signing, kid |-> f.kid, previous |-> f.previous,
           binding |-> f.binding, file |-> f.file, siteKey |-> f.siteKey,
           siteSecret |-> f.siteSecret, hosts |-> f.hosts, bind |-> f.bind,
           trusted |-> f.trusted, malformed |-> f.malformed]
    <2> DEFINE a == [e EXCEPT !.signing = {k.secret}]
               b == [a EXCEPT !.kid = {k.kid}]
    <2>1. a \in [env : {e.env}, signing : {a.signing}, kid : {e.kid}, previous : {e.previous},
                 binding : {e.binding}, file : {e.file}, siteKey : {e.siteKey},
                 siteSecret : {e.siteSecret}, hosts : {e.hosts}, bind : {e.bind},
                 trusted : {e.trusted}, malformed : {e.malformed}]
        BY DEF IsEnvironment
    <2>2. b \in [env : {e.env}, signing : {a.signing}, kid : {b.kid}, previous : {e.previous},
                 binding : {e.binding}, file : {e.file}, siteKey : {e.siteKey},
                 siteSecret : {e.siteSecret}, hosts : {e.hosts}, bind : {e.bind},
                 trusted : {e.trusted}, malformed : {e.malformed}]
        <3> HIDE DEF a
        <3> QED BY <2>1
    <2>3. f = [b EXCEPT !.previous = {Keys(e)}] BY DEF Rotated, Keys
    <2> HIDE DEF f, b
    <2> QED BY <2>2, <2>3
<1>3. e.bind \in SUBSET BOOLEAN /\ \A sites \in e.file : \A i \in DOMAIN sites : IsSite(sites[i])
    BY DEF IsEnvironment
<1>4. IsEnvironment(f)
    <2> HIDE DEF f
    <2> QED BY <1>1, <1>2, <1>3 DEF IsEnvironment
<1>5. EnvSite(f) = EnvSite(e) BY <1>1 DEF EnvSite
<1>6. LoadSites(f) = LoadSites(e) BY <1>1, <1>5 DEF LoadSites
<1>7. KeyID(f) = k.kid /\ Signing(f) = k.secret /\ Previous(f) = Keys(e)
    BY <1>1 DEF KeyID, Signing, Previous, Getenv
<1> QED BY <1>1, <1>4, <1>6, <1>7 DEF SamePolicy

LEMMA WithoutPolicy ==
    ASSUME NEW e, IsEnvironment(e), NEW kid
    PROVE  /\ IsEnvironment(Without(e, kid)) /\ SamePolicy(Without(e, kid), e)
           /\ KeyID(Without(e, kid)) = KeyID(e) /\ Signing(Without(e, kid)) = Signing(e)
           /\ Previous(Without(e, kid)) = [k \in DOMAIN Previous(e) \ {kid} |-> Previous(e)[k]]
<1> DEFINE f == Without(e, kid)
           left == [k \in DOMAIN Previous(e) \ {kid} |-> Previous(e)[k]]
<1>1. /\ f.signing = e.signing /\ f.kid = e.kid /\ f.previous = {left}
      /\ f.env = e.env /\ f.binding = e.binding /\ f.file = e.file
      /\ f.siteKey = e.siteKey /\ f.siteSecret = e.siteSecret
      /\ f.hosts = e.hosts /\ f.bind = e.bind
      /\ f.trusted = e.trusted /\ f.malformed = e.malformed
    BY DEF IsEnvironment, Without
<1>2. f = [env |-> f.env, signing |-> f.signing, kid |-> f.kid, previous |-> f.previous,
           binding |-> f.binding, file |-> f.file, siteKey |-> f.siteKey,
           siteSecret |-> f.siteSecret, hosts |-> f.hosts, bind |-> f.bind,
           trusted |-> f.trusted, malformed |-> f.malformed]
    BY DEF IsEnvironment, Without
<1>3. e.bind \in SUBSET BOOLEAN /\ \A sites \in e.file : \A i \in DOMAIN sites : IsSite(sites[i])
    BY DEF IsEnvironment
<1>4. IsEnvironment(f)
    <2> HIDE DEF f
    <2> QED BY <1>1, <1>2, <1>3 DEF IsEnvironment
<1>5. EnvSite(f) = EnvSite(e) BY <1>1 DEF EnvSite
<1>6. LoadSites(f) = LoadSites(e) BY <1>1, <1>5 DEF LoadSites
<1>7. KeyID(f) = KeyID(e) /\ Signing(f) = Signing(e) /\ Previous(f) = left
    <2> HIDE DEF left
    <2> QED BY <1>1 DEF KeyID, Signing, Previous, Getenv
<1> QED BY <1>1, <1>4, <1>6, <1>7 DEF SamePolicy

\* Losing a key only matters to the tokens it signed.
LEMMA WithoutSigns ==
    ASSUME NEW e, IsEnvironment(e), NEW kid, kid # KeyID(e), NEW k, k # kid, NEW key,
           Signs(e, k, key)
    PROVE  Signs(Without(e, kid), k, key)
<1> DEFINE f == Without(e, kid)
<1>1. KeyID(f) = KeyID(e) /\ Signing(f) = Signing(e)
      /\ Previous(f) = [j \in DOMAIN Previous(e) \ {kid} |-> Previous(e)[j]]
    BY WithoutPolicy
<1>2. k \in DOMAIN Keys(f) BY <1>1, KeysOf DEF Signs
<1>3. Keys(f)[k] = key BY <1>1, <1>2, KeysOf DEF Signs
<1> QED BY <1>2, <1>3 DEF Signs

\* The old ring becomes the previous keys of the new one.
LEMMA RotatedSigns ==
    ASSUME NEW e, IsEnvironment(e), NEW n, NEW k, NEW key, Signs(e, k, key)
    PROVE  Clash(Rotated(e, n)) \/ Signs(Rotated(e, n), k, key)
<1> DEFINE f == Rotated(e, n)
<1>1. KeyID(f) = n.kid /\ Previous(f) = Keys(e) BY RotatedPolicy
<1>2. CASE n.kid \in DOMAIN Keys(e) BY <1>1, <1>2 DEF Clash
<1>3. CASE n.kid \notin DOMAIN Keys(e)
    <2>1. k # KeyID(f) BY <1>1, <1>3 DEF Signs
    <2>2. k \in DOMAIN Keys(f) /\ Keys(f)[k] = key BY <1>1, <2>1, KeysOf DEF Signs
    <2> QED BY <2>2 DEF Signs
<1> QED BY <1>2, <1>3

\* An honest visit's address is the one its backend saw.
LEMMA HonestAddress ==
    ASSUME NEW v \in Visits
    PROVE  ClientIP(v.route, {Edge}) = v.address /\ Parses(v.address)
BY VisitsAssumption DEF ClientIP

-----------------------------------------------------------------------------
(* The steps.                                                                *)

LEMMA Initially == Init => IInv
<1> SUFFICES ASSUME Init PROVE IInv
    OBVIOUS
<1>1. Process BY EnvironmentsAssumption DEF Init, Process
<1>2. Kept /\ Fitting BY DEF Init, Kept, Fitting
<1>3. Counted BY BoundsAssumption, FS_EmptySet DEF Init, Counted
<1> QED BY <1>1, <1>2, <1>3 DEF IInv

LEMMA StartKeeps == IInv /\ Start => IInv'
<1> SUFFICES ASSUME IInv, Start PROVE IInv'
    OBVIOUS
<1> USE DEF IInv
<1>1. /\ Loads(settings) /\ settings' = settings /\ tokens' = tokens
      /\ runtime' = {Load(settings)} /\ inForce' = {settings} /\ rotations' = rotations
    BY DEF Start
<1>2. Process' BY <1>1 DEF Process, SamePolicy
<1>3. ~Clash(settings) BY <1>1, LoadsNoClash
<1>4. Kept' BY <1>1, <1>3, KeysOf DEF Kept
<1>5. Fitting' BY <1>1 DEF Fitting
<1>6. Counted' BY <1>1 DEF Counted
<1> QED BY <1>2, <1>4, <1>5, <1>6

LEMMA StopKeeps == IInv /\ Stop => IInv'
<1> SUFFICES ASSUME IInv, Stop PROVE IInv'
    OBVIOUS
<1>1. /\ settings' = settings /\ tokens' = tokens
      /\ runtime' = {} /\ inForce' = inForce /\ rotations' = rotations
    BY DEF Stop
<1> QED BY <1>1 DEF IInv, Process, Kept, Fitting, Counted

LEMMA IssueKeeps ==
    ASSUME IInv, NEW rt \in runtime, NEW v \in Visits, Cardinality(tokens) < MaxTokens, Issue(rt, v)
    PROVE  IInv'
<1> USE DEF IInv
<1>1. PICK site \in Get(rt, v.site) :
         tokens' = tokens \cup
             {[visit |-> v, site |-> site.key, host |-> NormalizeHostname(v.page),
               bind |-> IF site.bind THEN Bind(rt.binding, ClientIP(v.route, rt.trusted))
                                     ELSE <<>>,
               kid |-> rt.kid, key |-> rt.signing]}
    BY DEF Issue
<1> DEFINE t == [visit |-> v, site |-> site.key, host |-> NormalizeHostname(v.page),
               bind |-> IF site.bind THEN Bind(rt.binding, ClientIP(v.route, rt.trusted))
                                     ELSE <<>>,
               kid |-> rt.kid, key |-> rt.signing]
<1>2. UNCHANGED <<settings, inForce, runtime, rotations>> BY DEF Issue
<1>3. PICK e \in inForce : rt = Load(e) BY DEF Process
<1>4. /\ rt.sites = LoadSites(e) /\ rt.kid = KeyID(e) /\ rt.signing = Signing(e)
      /\ rt.binding = Getenv(e.binding, Signing(e)) /\ rt.trusted = e.trusted
    BY <1>3 DEF Load, BindingSetting
<1>5. /\ LoadSites(e) = LoadSites(settings) /\ e.binding = settings.binding
      /\ e.trusted = {Edge}
    BY DEF Process, SamePolicy
<1>6. Process' BY <1>2 DEF Process
<1>7. Kept'
    <2>1. Clash(settings) \/ Signs(settings, t.kid, t.key) BY <1>4 DEF Kept
    <2>2. \A f \in inForce : Signs(f, t.kid, t.key)
        <3>1. Signs(e, t.kid, t.key) BY <1>4, KeysOf
        <3>2. \A f \in inForce : f = e BY DEF Counted
        <3> QED BY <3>1, <3>2
    <2> HIDE DEF t
    <2> QED BY <1>1, <1>2, <2>1, <2>2 DEF Kept, t
<1>8. Fits(settings, t)
    <2>1. site \in ToSet(LoadSites(settings)) /\ site.key = v.site BY <1>4, <1>5 DEF Get
    <2>2. t.bind = IF site.bind THEN <<Getenv(settings.binding, t.key), v.address>> ELSE <<>>
        BY <1>4, <1>5, HonestAddress DEF Bind
    <2> QED BY <2>1, <2>2 DEF Fits
<1>9. Fitting' BY <1>1, <1>2, <1>8 DEF Fitting
<1>10. Counted'
    <2>1. IsFiniteSet(tokens') /\ Cardinality(tokens') <= Cardinality(tokens) + 1
          /\ Cardinality(tokens) \in Nat /\ Cardinality(tokens') \in Nat
        <3>1. IsFiniteSet(tokens) BY DEF Counted
        <3> HIDE DEF t
        <3>2. tokens' = tokens \cup {t} BY <1>1 DEF t
        <3>3. IsFiniteSet(tokens') BY <3>1, <3>2, FS_AddElement
        <3>4. Cardinality(tokens) \in Nat /\ Cardinality(tokens') \in Nat
            BY <3>1, <3>3, FS_CardinalityType
        <3>5. Cardinality(tokens') = Cardinality(tokens) \/ Cardinality(tokens') = Cardinality(tokens) + 1
            BY <3>1, <3>2, FS_AddElement
        <3> QED BY <3>3, <3>4, <3>5
    <2>2. Cardinality(tokens') <= MaxTokens BY <2>1, BoundsAssumption
    <2> QED BY <1>2, <2>1, <2>2 DEF Counted
<1> QED BY <1>6, <1>7, <1>9, <1>10

LEMMA RotateKeeps == ASSUME IInv, NEW k \in NewKeys, Rotate(k) PROVE IInv'
<1> USE DEF IInv
<1>1. /\ settings \in inForce /\ settings' = Rotated(settings, k)
      /\ inForce' = inForce /\ runtime' = runtime /\ tokens' = tokens
      /\ rotations < MaxRotations /\ rotations' = rotations + 1
    BY DEF Rotate
<1>2. IsEnvironment(settings) BY DEF Process
<1>3. IsEnvironment(settings') /\ SamePolicy(settings', settings) BY <1>1, <1>2, RotatedPolicy
<1>4. Process' BY <1>1, <1>3 DEF Process, SamePolicy
<1>5. \A e \in inForce : e = settings BY <1>1 DEF Counted
<1>6. Kept'
    <2>1. \A t \in tokens : Signs(settings, t.kid, t.key) BY <1>1 DEF Kept
    <2>2. Signs(settings, KeyID(settings), Signing(settings)) BY KeysOf
    <2>3. \A t \in tokens : Clash(settings') \/ Signs(settings', t.kid, t.key)
        BY <1>1, <1>2, <2>1, RotatedSigns
    <2>4. Clash(settings') \/ Signs(settings', KeyID(settings), Signing(settings))
        BY <1>1, <1>2, <2>2, RotatedSigns
    <2> QED BY <1>1, <1>5, <2>1, <2>3, <2>4 DEF Kept
<1>7. Fitting' BY <1>1, <1>3 DEF Fitting, Fits, SamePolicy
<1>8. Counted'
    <2>1. rotations' \in 0 .. MaxRotations BY <1>1, BoundsAssumption DEF Counted
    <2> QED BY <1>1, <2>1 DEF Counted
<1> QED BY <1>4, <1>6, <1>7, <1>8

LEMMA RollBackKeeps == ASSUME IInv, RollBack PROVE IInv'
<1> USE DEF IInv
<1>1. settings' \in inForce /\ UNCHANGED <<inForce, runtime, tokens, rotations>>
    BY DEF RollBack
<1>2. \A e \in inForce : e = settings' BY <1>1 DEF Counted
<1>3. IsEnvironment(settings') /\ SamePolicy(settings', settings) BY <1>1 DEF Process
<1>4. Process' BY <1>1, <1>3 DEF Process, SamePolicy
<1>5. Kept' BY <1>1, <1>2, KeysOf DEF Kept
<1>6. Fitting' BY <1>1, <1>3 DEF Fitting, Fits, SamePolicy
<1>7. Counted' BY <1>1 DEF Counted
<1> QED BY <1>4, <1>5, <1>6, <1>7

LEMMA RetireKeeps == ASSUME IInv, NEW kid, Retire(kid) PROVE IInv'
<1> USE DEF IInv
<1>1. /\ kid # KeyID(settings) /\ \A rt \in runtime : rt.kid # kid
      /\ settings' = Without(settings, kid)
      /\ tokens' = {t \in tokens : t.kid # kid}
      /\ UNCHANGED <<inForce, runtime, rotations>>
    BY DEF Retire
<1>2. IsEnvironment(settings) BY DEF Process
<1>3. /\ IsEnvironment(settings') /\ SamePolicy(settings', settings)
      /\ KeyID(settings') = KeyID(settings)
      /\ Previous(settings') = [k \in DOMAIN Previous(settings) \ {kid} |-> Previous(settings)[k]]
    BY <1>1, <1>2, WithoutPolicy
<1>4. Process' BY <1>1, <1>3 DEF Process, SamePolicy
<1>5. Clash(settings) => Clash(settings') BY <1>1, <1>3 DEF Clash
<1>6. \A k, key : k # kid /\ Signs(settings, k, key) => Signs(settings', k, key)
    BY <1>1, <1>2, WithoutSigns
<1>7. Kept'
    <2>1. ASSUME NEW e \in inForce, runtime # {}
          PROVE  Clash(settings') \/ Signs(settings', KeyID(e), Signing(e))
        <3>1. PICK rt \in runtime, f \in inForce : rt = Load(f) BY <2>1 DEF Process
        <3>2. f = e /\ rt.kid = KeyID(e) BY <2>1, <3>1 DEF Counted, Load
        <3>3. KeyID(e) # kid BY <1>1, <3>2
        <3> QED BY <1>5, <1>6, <2>1, <3>3 DEF Kept
    <2>2. \A t \in tokens' : Clash(settings') \/ Signs(settings', t.kid, t.key)
        BY <1>1, <1>5, <1>6 DEF Kept
    <2>3. \A e \in inForce, t \in tokens' : Signs(e, t.kid, t.key) BY <1>1 DEF Kept
    <2> QED BY <1>1, <2>1, <2>2, <2>3 DEF Kept
<1>8. Fitting' BY <1>1, <1>3 DEF Fitting, Fits, SamePolicy
<1>9. Counted'
    <2>1. IsFiniteSet(tokens) /\ tokens' \subseteq tokens BY <1>1 DEF Counted
    <2>2. IsFiniteSet(tokens') /\ Cardinality(tokens') <= Cardinality(tokens) BY <2>1, FS_Subset
    <2>3. Cardinality(tokens) \in Nat /\ Cardinality(tokens') \in Nat
        BY <2>1, <2>2, FS_CardinalityType
    <2>4. Cardinality(tokens') <= MaxTokens BY <2>2, <2>3, BoundsAssumption DEF Counted
    <2> QED BY <1>1, <2>2, <2>4 DEF Counted
<1> QED BY <1>4, <1>7, <1>8, <1>9

THEOREM Invariance == Spec => []IInv
<1>1. IInv /\ [Next]_vars => IInv'
    <2> SUFFICES ASSUME IInv, [Next]_vars PROVE IInv'
        OBVIOUS
    <2>1. CASE UNCHANGED vars
        BY <2>1 DEF vars, IInv, Process, Kept, Fitting, Counted
    <2>2. CASE Next
        BY <2>2, StartKeeps, StopKeeps, IssueKeeps, RotateKeeps, RollBackKeeps, RetireKeeps DEF Next
    <2> QED BY <2>1, <2>2
<1> QED BY <1>1, Initially, PTL DEF Spec

-----------------------------------------------------------------------------
(* What follows.                                                             *)

LEMMA SoundFollows == IInv => SoundRuntime
<1> SUFFICES ASSUME IInv, NEW rt \in runtime PROVE Sound(rt)
    BY DEF SoundRuntime
<1>1. PICK e \in inForce : rt = Load(e) BY DEF IInv, Process
<1>2. IsEnvironment(e) /\ Loads(e) BY DEF IInv, Process
<1> QED BY <1>1, <1>2, LoadSound

\* The process that runs was loaded from what the operator had configured, and it is sound:
\* its sites' numbers are in range, a secret names one site, a kid one key (config.Load).
THEOREM Soundness == Spec => []SoundRuntime
BY Invariance, SoundFollows, PTL

LEMMA AtMostOne == ASSUME NEW S, S = {} \/ \E x : S = {x} PROVE Cardinality(S) <= 1
<1>1. CASE S = {} BY <1>1, FS_EmptySet
<1>2. CASE \E x : S = {x} BY <1>2, FS_Singleton
<1> QED BY <1>1, <1>2

LEMMA TokenLifetimesPositive == (30 .. 600) \subseteq Nat \ {0}
OBVIOUS

LEMMA ChallengeLifetimesPositive == (30 .. 900) \subseteq Nat \ {0}
OBVIOUS

LEMMA TypeFollows == IInv => TypeOK
<1> SUFFICES ASSUME IInv PROVE TypeOK
    OBVIOUS
<1> USE DEF IInv
<1>1. Cardinality(runtime) <= 1 /\ Cardinality(inForce) <= 1 BY AtMostOne DEF Counted
<1>2. \A e \in {settings} \cup inForce : IsEnvironment(e) BY DEF Process
<1>3. ASSUME NEW rt \in runtime, NEW s \in ToSet(rt.sites)
      PROVE  {s.tokenTTL, s.challengeTTL, s.rateLimit} \subseteq Nat \ {0} /\ s.bind \in BOOLEAN
    <2>1. PICK e \in inForce : rt = Load(e) BY DEF Process
    <2>2. IsEnvironment(e) /\ rt.sites = LoadSites(e) BY <2>1 DEF Process, Load
    <2>3. PICK i \in DOMAIN LoadSites(e) : s = LoadSites(e)[i] BY <2>2 DEF ToSet
    <2>4. IsSite(s) BY <2>2, <2>3, SitesTyped
    <2>5. s.tokenTTL \in 30 .. 600 /\ s.challengeTTL \in 30 .. 900 /\ s.rateLimit >= 1
        BY SoundFollows DEF SoundRuntime, Sound
    <2>6. s.rateLimit \in Int BY <2>4 DEF IsSite
    <2>7. {s.tokenTTL, s.challengeTTL, s.rateLimit} \subseteq Nat \ {0}
        <3>1. \A n \in Int : n >= 1 => n \in Nat \ {0} OBVIOUS
        <3>2. s.tokenTTL \in Nat \ {0} BY <2>5, TokenLifetimesPositive, Zenon
        <3>3. s.challengeTTL \in Nat \ {0} BY <2>5, ChallengeLifetimesPositive, Zenon
        <3>4. s.rateLimit \in Nat \ {0} BY <2>5, <2>6, <3>1, Zenon
        <3> QED BY <3>2, <3>3, <3>4
    <2> QED BY <2>4, <2>7 DEF IsSite
<1>4. \A t \in tokens : t.visit \in Visits BY DEF Fitting, Fits
<1>5. Cardinality(tokens) <= MaxTokens /\ rotations \in 0 .. MaxRotations BY DEF Counted
<1> QED BY <1>1, <1>2, <1>3, <1>4, <1>5 DEF TypeOK

\* The type invariant of a deployment.
THEOREM TypeCorrect == Spec => []TypeOK
BY Invariance, TypeFollows, PTL

LEMMA ConfirmedFollows == IInv => HonestVisitConfirmed
<1> SUFFICES ASSUME IInv, NEW rt \in runtime, NEW t \in tokens,
                    rt.binding = rt.signing => t.bind = <<>> \/ rt.signing = t.key,
                    NEW site \in Get(rt, t.visit.site),
                    NEW found \in GetBySecret(rt, site.secret)
             PROVE  Confirms(rt, found, t)
    BY DEF HonestVisitConfirmed
<1> USE DEF IInv
<1>1. PICK e \in inForce : rt = Load(e) BY DEF Process
<1>2. /\ rt.sites = LoadSites(e) /\ rt.signing = Signing(e)
      /\ rt.binding = Getenv(e.binding, Signing(e))
    BY <1>1 DEF Load, BindingSetting
<1>3. Fits(e, t)
    <2>1. Fits(settings, t) BY DEF Fitting
    <2>2. SamePolicy(e, settings) BY DEF Process
    <2> QED BY <2>1, <2>2 DEF Fits, SamePolicy
<1>4. found = site
    <2>1. site \in ToSet(rt.sites) BY DEF Get
    <2>2. GetBySecret(rt, site.secret) = {site} BY <2>1, SoundFollows DEF SoundRuntime, Sound
    <2> QED BY <2>2
<1>5. PICK own \in ToSet(LoadSites(e)) :
        /\ t.site = own.key /\ t.visit.site = own.key
        /\ t.bind = IF own.bind THEN <<Getenv(e.binding, t.key), t.visit.address>> ELSE <<>>
    BY <1>3 DEF Fits
<1>6. own = site
    <2>1. Get(rt, own.key) = {own} BY <1>2, <1>5, SoundFollows DEF SoundRuntime, Sound
    <2> QED BY <1>5, <2>1
<1>7. t.kid \in DOMAIN SignerKeys(rt) /\ SignerKeys(rt)[t.kid] = t.key
    BY <1>1 DEF Kept, Signs, Keys
<1>8. t.host = NormalizeHostname(t.visit.page) /\ t.visit \in Visits BY <1>3 DEF Fits
<1>9. NormalizeHostname(t.visit.expected) = NormalizeHostname(t.host)
    <2>1. t.visit.expected.labels = t.visit.page.labels BY <1>8, VisitsAssumption
    <2>2. t.host.labels = t.visit.page.labels BY <1>8 DEF NormalizeHostname
    <2> QED BY <2>1, <2>2 DEF NormalizeHostname
<1>10. ASSUME site.bind PROVE Bind(rt.binding, t.visit.address) = t.bind
    <2>1. t.bind = <<Getenv(e.binding, t.key), t.visit.address>> BY <1>5, <1>6, <1>10
    <2>2. rt.binding = Getenv(e.binding, t.key)
        <3>1. CASE e.binding # {} BY <1>2, <3>1 DEF Getenv
        <3>2. CASE e.binding = {}
            <4>1. rt.binding = rt.signing BY <1>2, <3>2 DEF Getenv
            <4>2. t.bind # <<>> BY <2>1
            <4>3. rt.signing = t.key BY <4>1, <4>2
            <4> QED BY <4>1, <4>3, <3>2 DEF Getenv
        <3> QED BY <3>1, <3>2
    <2>3. Parses(t.visit.address) BY <1>8, HonestAddress
    <2> QED BY <2>1, <2>2, <2>3 DEF Bind
<1> QED BY <1>4, <1>5, <1>6, <1>7, <1>9, <1>10 DEF Confirms

\* siteverify confirms the token of an honest visit under every process that rotations,
\* refused starts, roll-backs and retired keys lead to, as long as its binding secret is
\* configured or the key it falls back to is still the active one.
THEOREM HonestVisits == Spec => []HonestVisitConfirmed
BY Invariance, ConfirmedFollows, PTL

=============================================================================
