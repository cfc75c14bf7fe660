---------------------------- MODULE Configuration ----------------------------
(***************************************************************************)
(* What the gateway makes of its environment, internal/config/config.go,   *)
(* with the uses of it in internal/util/ip.go, internal/token/token.go and *)
(* internal/api/server.go.                                                 *)
(*                                                                         *)
(* A setting is the set of its value: {} when it is unset or empty. A      *)
(* secret is a name and its length in bytes. A hostname is spelled with    *)
(* its labels, in capitals or not, with or without a port and a final dot. *)
(* Addresses of one network prefix are one address.                        *)
(***************************************************************************)
EXTENDS Integers, Sequences, SequencesExt

\* A site's numbers are Go's int, of any sign; every field of an environment may be unset.
IsSite(s) ==
    /\ s.bind \in BOOLEAN
    /\ {s.tokenTTL, s.challengeTTL, s.rateLimit} \subseteq Int
    /\ s.thresholds \in [pow : Int, interactive : Int, block : Int]

IsEnvironment(e) ==
    /\ e \in [env : {e.env}, signing : {e.signing}, kid : {e.kid}, previous : {e.previous},
              binding : {e.binding}, file : {e.file}, siteKey : {e.siteKey},
              siteSecret : {e.siteSecret}, hosts : {e.hosts}, bind : SUBSET BOOLEAN,
              trusted : {e.trusted}, malformed : {e.malformed}]
    /\ \A sites \in e.file : \A i \in DOMAIN sites : IsSite(sites[i])

Getenv(setting, default) ==
    IF setting = {} THEN default ELSE CHOOSE v \in setting : TRUE

-----------------------------------------------------------------------------
(* Hostnames.                                                              *)

NormalizeHostname(h) ==
    [labels |-> h.labels, upper |-> FALSE, port |-> FALSE, dot |-> FALSE]

\* A pattern with a wildcard stands for the hosts below its own.
AllowsHostname(site, h) ==
    \E p \in site.hosts :
        LET name == NormalizeHostname(p.host)
            host == NormalizeHostname(h)
        IN  IF p.wild THEN IsStrictSuffix(name.labels, host.labels) ELSE name = host

\* What url.Hostname leaves of an Origin is compared with the page's host.
OriginAllowed(site, origin, h) ==
    \A o \in origin :
        LET host == [o EXCEPT !.port = FALSE]
        IN  AllowsHostname(site, host) /\ NormalizeHostname(host) = NormalizeHostname(h)

-----------------------------------------------------------------------------
(* Addresses. A route is the peer of a connection and what its headers say. *)

Parses(a) == a # "junk"

\* The first of a list of header values that is an address, if one is.
FirstParsed(values) ==
    {values[i] : i \in {k \in DOMAIN values :
                          Parses(values[k]) /\ \A j \in 1 .. k - 1 : ~Parses(values[j])}}

\* CF-Connecting-IP, else the first of X-Forwarded-For.
Named(route) == IF Parses(route.cf) THEN {route.cf} ELSE FirstParsed(route.forwarded)

\* Slip: headers are believed whoever sent them.
ClientIPAnyPeer(route, trusted) ==
    IF Named(route) # {} THEN CHOOSE a \in Named(route) : TRUE ELSE route.peer

ClientIP(route, trusted) ==
    IF route.peer \in trusted /\ Named(route) # {}
    THEN CHOOSE a \in Named(route) : TRUE
    ELSE route.peer

Bind(secret, a) == IF Parses(a) THEN <<secret, a>> ELSE <<>>

-----------------------------------------------------------------------------
(* Sites.                                                                  *)

\* envIsProduction, for the sites; Load compares the name exactly.
EnvIsProduction(e) == Getenv(e.env, "development") \in {"production", "Production"}

DevSecret == [name |-> "change_me", bytes |-> 23]
DevHosts ==
    {[wild |-> FALSE, host |-> [labels |-> name, upper |-> FALSE, port |-> FALSE, dot |-> FALSE]] :
        name \in {<<"localhost">>, <<"127", "0", "0", "1">>}}
NoPolicy == [pow |-> 0, interactive |-> 0, block |-> 0]

\* The one site of a gateway without a sites file.
EnvSite(e) ==
    [key |-> Getenv(e.siteKey, "bs_dev_public"), secret |-> Getenv(e.siteSecret, DevSecret),
     hosts |-> Getenv(e.hosts, DevHosts), bind |-> Getenv(e.bind, TRUE),
     tokenTTL |-> 0, challengeTTL |-> 0, rateLimit |-> 0, thresholds |-> NoPolicy]

Positive(n, default) == IF n <= 0 THEN default ELSE n

\* Slip: only what is zero is replaced.
ApplySiteDefaultsZero(s) ==
    LET OrDefault(n, d) == IF n = 0 THEN d ELSE n
    IN  [s EXCEPT !.tokenTTL = OrDefault(@, 120), !.challengeTTL = OrDefault(@, 180),
                  !.rateLimit = OrDefault(@, 60),
                  !.thresholds = [pow |-> OrDefault(@.pow, 30), block |-> OrDefault(@.block, 92),
                                  interactive |-> OrDefault(@.interactive, 62)]]

ApplySiteDefaults(s) ==
    [key |-> s.key, secret |-> s.secret, hosts |-> s.hosts, bind |-> s.bind,
     tokenTTL |-> Positive(s.tokenTTL, 120), challengeTTL |-> Positive(s.challengeTTL, 180),
     rateLimit |-> Positive(s.rateLimit, 60),
     thresholds |-> [pow |-> Positive(s.thresholds.pow, 30),
                     interactive |-> Positive(s.thresholds.interactive, 62),
                     block |-> Positive(s.thresholds.block, 92)]]

ValidThresholds(t) == 0 < t.pow /\ t.pow < t.interactive /\ t.interactive < t.block /\ t.block <= 100

ValidSite(s, production) ==
    /\ s.key \notin {"", "more than 128 bytes"}
    /\ s.secret.bytes >= 16
    /\ production => s.secret.name # "change_me"
    /\ s.hosts # {}
    /\ ValidThresholds(s.thresholds)
    /\ s.tokenTTL \in 30 .. 600 /\ s.challengeTTL \in 30 .. 900

\* Slip: two sites may share a secret.
ValidateSitesKeys(sites, production) ==
    /\ \A i \in DOMAIN sites : ValidSite(sites[i], production)
    /\ \A i, j \in DOMAIN sites : i # j => sites[i].key # sites[j].key

ValidateSites(sites, production) ==
    /\ \A i \in DOMAIN sites : ValidSite(sites[i], production)
    /\ \A i, j \in DOMAIN sites :
          i # j => sites[i].key # sites[j].key /\ sites[i].secret # sites[j].secret

LoadSites(e) ==
    LET sites == Getenv(e.file, <<EnvSite(e)>>)
    IN  [i \in DOMAIN sites |-> ApplySiteDefaults(sites[i])]

-----------------------------------------------------------------------------
(* Load: when it succeeds and what it returns.                             *)

DevSigning == [name |-> "development-only", bytes |-> 43]
Signing(e) == Getenv(e.signing, DevSigning)
KeyID(e) == Getenv(e.kid, "dev-v1")
Previous(e) == Getenv(e.previous, [k \in {} |-> k])

\* Slip: the active kid may be listed as a previous one.
PreviousValidActive(e) ==
    \A k \in DOMAIN Previous(e) : k # "" /\ Previous(e)[k].bytes >= 32

PreviousValid(e) ==
    \A k \in DOMAIN Previous(e) : k \notin {"", KeyID(e)} /\ Previous(e)[k].bytes >= 32

BindingSetting(e) == Getenv(e.binding, Signing(e))

Loads(e) ==
    /\ e.signing = {} => Getenv(e.env, "development") # "production"
    /\ Signing(e).bytes >= 32
    /\ e.malformed = {}
    /\ LoadSites(e) # <<>>
    /\ ValidateSites(LoadSites(e), EnvIsProduction(e))
    /\ PreviousValid(e)
    /\ BindingSetting(e).bytes >= 32

Load(e) ==
    [signing |-> Signing(e), kid |-> KeyID(e), previous |-> Previous(e),
     binding |-> BindingSetting(e), sites |-> LoadSites(e), trusted |-> e.trusted]

-----------------------------------------------------------------------------
(* The running process.                                                    *)

\* Registry.Get and GetBySecret, which returns any site whose secret it is.
Get(rt, key) == {s \in ToSet(rt.sites) : s.key = key}
GetBySecret(rt, secret) == {s \in ToSet(rt.sites) : s.secret = secret}

SignerKeys(rt) ==
    [k \in DOMAIN rt.previous \cup {rt.kid} |->
        IF k = rt.kid THEN rt.signing ELSE rt.previous[k]]

=============================================================================
