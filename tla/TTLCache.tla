------------------------------ MODULE TTLCache ------------------------------
(***************************************************************************)
(* The cache of aggregates, services/reputation/berry_reputation/cache.py. *)
(* Each operator is one method, run under the cache's lock. An entry       *)
(* counts down the ticks it has left instead of keeping a deadline.        *)
(***************************************************************************)
EXTENDS Naturals, FiniteSets

CONSTANTS
    MaxItems,  \* max_items
    TTL        \* ttl_seconds, in ticks

ASSUME CacheAssumption == MaxItems \in Nat \ {0} /\ TTL \in Nat

VARIABLES
    entry,  \* _data: the entries by key, each with the ticks it has left and its value
    order   \* the order in which the dictionary keeps its keys: <<j, k>> when j was inserted first

cacheVars == <<entry, order>>

EmptyCache == entry = [k \in {} |-> k] /\ order = {}

Lapsed == {k \in DOMAIN entry : entry[k].left = 0}
\* Slip: the deadline is not looked at.
HitAnyAge(k) == k \in DOMAIN entry

Hit(k) == k \in DOMAIN entry \ Lapsed

Except(keys) == {p \in order : p[1] \notin keys /\ p[2] \notin keys}

\* next(iter(_data)) when these keys are left.
Oldest(keys) == CHOOSE k \in keys : \A j \in keys \ {k} : <<k, j>> \in order

\* A miss drops the entry of the key when it has expired.
Get(k) ==
    IF Hit(k) THEN UNCHANGED cacheVars
    ELSE /\ entry' = [j \in DOMAIN entry \ {k} |-> entry[j]]
         /\ order' = Except({k})

\* Slip: only expired entries are evicted.
EvictedExpired == IF Cardinality(DOMAIN entry) < MaxItems THEN {} ELSE Lapsed

\* What put takes out of a full cache: the expired entries, and when there is still no
\* room the one inserted first.
Evicted ==
    LET live == DOMAIN entry \ Lapsed
    IN  IF Cardinality(DOMAIN entry) < MaxItems THEN {}
        ELSE Lapsed \cup (IF Cardinality(live) < MaxItems THEN {} ELSE {Oldest(live)})

\* Slip: putting a key again adds to the time it has left.
CachePutLonger(k, v) ==
    LET kept == DOMAIN entry \ Evicted
    IN  /\ entry' = [j \in kept \cup {k} |->
                        IF j # k THEN entry[j]
                        ELSE [left |-> TTL + (IF k \in kept THEN entry[k].left ELSE 0), value |-> v]]
        /\ order' = IF k \in kept THEN Except(Evicted) ELSE Except(Evicted) \cup (kept \X {k})

\* A key that is still there keeps its place.
CachePut(k, v) ==
    LET kept == DOMAIN entry \ Evicted
    IN  /\ entry' = [j \in kept \cup {k} |->
                        IF j = k THEN [left |-> TTL, value |-> v] ELSE entry[j]]
        /\ order' = IF k \in kept THEN Except(Evicted) ELSE Except(Evicted) \cup (kept \X {k})

=============================================================================
