------------------------- MODULE ReputationService -------------------------
(***************************************************************************)
(* The reputation service and the client the gateway calls it with:        *)
(* services/reputation/berry_reputation/service.py over cache.py, and      *)
(* services/gateway/internal/reputation/client.go.                         *)
(*                                                                         *)
(* A lookup submits one task per provider to the pool that all lookups     *)
(* share and gathers what finishes within its patience; the caller has a   *)
(* shorter patience of its own. Any task of an external provider may       *)
(* answer, fail or hang. Time is a Tick that lets code run first: it moves *)
(* only when every thread waits for a provider or a timer.                 *)
(***************************************************************************)
EXTENDS TTLCache, Sequences

CONSTANTS
    Lookup,         \* calls of the gateway to the service
    Key,            \* cache keys: address with truncated context
    Global,         \* those of globally routable addresses
    Providers,      \* the configured providers, in order; the first is local
    Silent,         \* external providers that never answer
    Patience,       \* the timeout of as_completed, in ticks
    ClientPatience  \* the timeout of the gateway's HTTP client, in ticks

Local == Head(Providers)
Provider == {Providers[i] : i \in DOMAIN Providers}
External == Provider \ {Local}

ASSUME ServiceAssumption ==
    /\ Providers \in Seq(Provider) /\ Providers # <<>>
    /\ \A i, j \in DOMAIN Providers : Providers[i] = Providers[j] => i = j
    /\ Global \subseteq Key /\ Silent \subseteq External
    /\ Patience \in Nat \ {0} /\ ClientPatience \in Nat \ {0}

\* max_workers of the pool.
Workers == IF 2 * Len(Providers) > 4 THEN 2 * Len(Providers) ELSE 4

VARIABLES
    client,   \* what the gateway knows of its call
    waits,    \* the ticks the gateway still waits
    pc,       \* where the service's thread is
    key,      \* what is looked up
    left,     \* the ticks until as_completed gives up
    task,     \* the future of each provider, for each lookup
    queue,    \* the pool's work queue
    out       \* the value a lookup is to return

vars == <<cacheVars, client, waits, pc, key, left, task, queue, out>>

Finished == {"good", "warned", "raised"}

\* An aggregate: who contributed, whose warnings it carries, and the ticks since its
\* providers were asked.
Value == [good : SUBSET Provider, warned : SUBSET (Provider \cup {"unknown", "aggregate"}),
          age : 0 .. TTL + Patience]
None == [good |-> {}, warned |-> {}, age |-> 0]

Init ==
    /\ EmptyCache
    /\ client = [l \in Lookup |-> "idle"]
    /\ waits = [l \in Lookup |-> 0]
    /\ pc = [l \in Lookup |-> "idle"]
    /\ key \in [Lookup -> Key]
    /\ left = [l \in Lookup |-> 0]
    /\ task = [l \in Lookup |-> [p \in Provider |-> "none"]]
    /\ queue = <<>>
    /\ out = [l \in Lookup |-> None]

Goto(l, p) == pc' = [pc EXCEPT ![l] = p]

-----------------------------------------------------------------------------
(* The caller.                                                             *)

Ask(l) ==
    /\ client[l] = "idle"
    /\ client' = [client EXCEPT ![l] = "waiting"]
    /\ waits' = [waits EXCEPT ![l] = ClientPatience]
    /\ Goto(l, "get")
    /\ UNCHANGED <<cacheVars, key, left, task, queue, out>>

\* The service is not told and goes on.
GiveUp(l) ==
    /\ client[l] = "waiting" /\ waits[l] = 0
    /\ client' = [client EXCEPT ![l] = "unavailable"]
    /\ UNCHANGED <<cacheVars, waits, pc, key, left, task, queue, out>>

-----------------------------------------------------------------------------
(* The lookup.                                                             *)

CacheGet(l) ==
    /\ pc[l] = "get"
    /\ Get(key[l])
    /\ IF Hit(key[l])
       THEN Goto(l, "answer") /\ out' = [out EXCEPT ![l] = entry[key[l]].value]
       ELSE Goto(l, "submit") /\ UNCHANGED out
    /\ UNCHANGED <<client, waits, key, left, task, queue>>

\* Only the local provider sees an address that is not global.
Selected(k) == IF k \in Global THEN Providers ELSE <<Local>>

Asked(l) == {p \in Provider : task[l][p] # "none"}

\* One task at a time; with the last the timeout starts.
Submit(l) ==
    LET s == Selected(key[l])
        n == Cardinality(Asked(l)) + 1
    IN  /\ pc[l] = "submit"
        /\ task' = [task EXCEPT ![l][s[n]] = "queued"]
        /\ queue' = Append(queue, <<l, s[n]>>)
        /\ IF n = Len(s)
           THEN Goto(l, "gather") /\ left' = [left EXCEPT ![l] = Patience]
           ELSE UNCHANGED <<pc, left>>
        /\ UNCHANGED <<cacheVars, client, waits, key, out>>

Done(l) == {p \in Asked(l) : task[l][p] \in Finished}

\* aggregate over the results at hand: an exception is a warning of "unknown".
Aggregate(l) ==
    [good   |-> {p \in Done(l) : task[l][p] = "good"},
     warned |-> {p \in Done(l) : task[l][p] = "warned"}
                \cup {"unknown" : p \in {q \in Done(l) : task[l][q] = "raised"}},
     age    |-> Patience - left[l]]

GatherAll(l) ==
    /\ pc[l] = "gather"
    /\ Done(l) = Asked(l)
    /\ out' = [out EXCEPT ![l] = Aggregate(l)]
    /\ Goto(l, "put")
    /\ UNCHANGED <<cacheVars, client, waits, key, left, task, queue>>

\* Slip: the timeout is caught and nothing is noted.
GatherTimeoutSilent(l) ==
    /\ pc[l] = "gather"
    /\ left[l] = 0 /\ Done(l) # Asked(l)
    /\ out' = [out EXCEPT ![l] = Aggregate(l)]
    /\ Goto(l, "cancel")
    /\ UNCHANGED <<cacheVars, client, waits, key, left, task, queue>>

GatherTimeout(l) ==
    /\ pc[l] = "gather"
    /\ left[l] = 0 /\ Done(l) # Asked(l)
    /\ out' = [out EXCEPT ![l] =
                  [Aggregate(l) EXCEPT !.warned = @ \cup {"aggregate"}]]
    /\ Goto(l, "cancel")
    /\ UNCHANGED <<cacheVars, client, waits, key, left, task, queue>>


\* Only a task no worker has begun can be cancelled.
Cancel(l) ==
    /\ pc[l] = "cancel"
    /\ task' = [task EXCEPT ![l] =
                   [p \in Provider |-> IF @[p] = "queued" THEN "cancelled" ELSE @[p]]]
    /\ Goto(l, "put")
    /\ UNCHANGED <<cacheVars, client, waits, key, left, queue, out>>

Put(l) ==
    /\ pc[l] = "put"
    /\ CachePut(key[l], out[l])
    /\ Goto(l, "answer")
    /\ UNCHANGED <<client, waits, key, left, task, queue, out>>

\* A caller that has given up is not there to read the answer.
Answer(l) ==
    /\ pc[l] = "answer"
    /\ client' = [client EXCEPT ![l] = IF @ = "waiting" THEN "received" ELSE @]
    /\ Goto(l, "done")
    /\ UNCHANGED <<cacheVars, waits, key, left, task, queue, out>>

-----------------------------------------------------------------------------
(* The pool and the providers.                                             *)

Running == {t \in Lookup \X Provider : task[t[1]][t[2]] = "running"}

\* An idle worker takes the next task and skips it when it was cancelled.
Dispatch ==
    /\ queue # <<>>
    /\ Cardinality(Running) < Workers
    /\ queue' = Tail(queue)
    /\ LET l == Head(queue)[1]
           p == Head(queue)[2]
       IN  task' = [task EXCEPT ![l][p] = IF @ = "queued" THEN "running" ELSE @]
    /\ UNCHANGED <<cacheVars, client, waits, pc, key, left, out>>

\* The local provider computes; an external one answers, warns, raises -- or never ends.
Finish(l, p, result) ==
    /\ task[l][p] = "running"
    /\ p \notin Silent /\ (p = Local => result = "good")
    /\ task' = [task EXCEPT ![l][p] = result]
    /\ UNCHANGED <<cacheVars, client, waits, pc, key, left, queue, out>>

-----------------------------------------------------------------------------
(* Time.                                                                   *)

\* Some thread could run, or some timer has run out.
Busy ==
    \/ queue # <<>> /\ Cardinality(Running) < Workers
    \/ \E l \in Lookup :
          \/ pc[l] \in {"get", "submit", "cancel", "put", "answer"}
          \/ pc[l] = "gather" /\ (left[l] = 0 \/ Done(l) = Asked(l))
          \/ client[l] = "waiting" /\ waits[l] = 0
          \/ task[l][Local] = "running"

Down(n) == IF n = 0 THEN 0 ELSE n - 1

Tick ==
    /\ ~Busy
    /\ waits' = [l \in Lookup |-> Down(waits[l])]
    /\ left' = [l \in Lookup |-> Down(left[l])]
    /\ entry' = [k \in DOMAIN entry |->
                    IF k \in Lapsed THEN entry[k]
                    ELSE [left |-> entry[k].left - 1,
                          value |-> [entry[k].value EXCEPT !.age = @ + 1]]]
    /\ UNCHANGED <<order, client, pc, key, task, queue, out>>

-----------------------------------------------------------------------------

Serve(l) ==
    \/ CacheGet(l) \/ Submit(l) \/ GatherAll(l) \/ GatherTimeout(l)
    \/ Cancel(l) \/ Put(l) \/ Answer(l)

Next ==
    \/ \E l \in Lookup : Ask(l) \/ GiveUp(l) \/ Serve(l)
    \/ Dispatch
    \/ \E l \in Lookup, p \in Provider, result \in Finished : Finish(l, p, result)
    \/ Tick

Spec == Init /\ [][Next]_vars

\* Threads and timers run, and so does the local provider; external providers owe nothing.
LiveSpec ==
    /\ Spec
    /\ \A l \in Lookup : WF_vars(Serve(l)) /\ WF_vars(GiveUp(l))
    /\ \A l \in Lookup : WF_vars(Finish(l, Local, "good"))
    /\ WF_vars(Dispatch) /\ WF_vars(Tick)

-----------------------------------------------------------------------------

TypeOK ==
    /\ DOMAIN entry \subseteq Key
    /\ \A k \in DOMAIN entry : entry[k] \in [left : 0 .. TTL, value : Value]
    /\ order \subseteq (DOMAIN entry) \X (DOMAIN entry)
    /\ client \in [Lookup -> {"idle", "waiting", "received", "unavailable"}]
    /\ waits \in [Lookup -> 0 .. ClientPatience]
    /\ pc \in [Lookup -> {"idle", "get", "submit", "gather", "cancel", "put", "answer", "done"}]
    /\ key \in [Lookup -> Key]
    /\ left \in [Lookup -> 0 .. Patience]
    /\ task \in [Lookup -> [Provider -> Finished \cup {"none", "queued", "running", "cancelled"}]]
    /\ queue \in Seq(Lookup \X Provider)
    /\ out \in [Lookup -> Value]

\* An aggregate of a lookup of k speaks for every provider that had to be asked: it has its
\* result, or its warning, or says that someone failed or was late.
Accounts(v, k) ==
    \/ \A i \in DOMAIN Selected(k) : Selected(k)[i] \in v.good \cup v.warned
    \/ v.warned \cap {"unknown", "aggregate"} # {}

\* No answer and no cached aggregate misses a provider without saying so, whichever tasks
\* were late, failed, were cancelled, or finished while they were being cancelled.
NothingLostSilently ==
    /\ \A l \in Lookup : pc[l] \in {"put", "answer", "done"} => Accounts(out[l], key[l])
    /\ \A k \in DOMAIN entry : Accounts(entry[k].value, k)

\* The cache keeps to its limit, and knows of any two keys it holds which came first: so the
\* entry that put takes out of a full cache is one that it holds.
CacheBounded ==
    /\ Cardinality(DOMAIN entry) <= MaxItems
    /\ \A j, k \in DOMAIN entry : <<j, k>> \in order <=> j # k /\ <<k, j>> \notin order
    /\ \A i, j, k \in DOMAIN entry : <<i, j>> \in order /\ <<j, k>> \in order => <<i, k>> \in order

\* What is answered was asked of the providers within one patience, or comes from the cache
\* and was asked of them less than a lifetime and one patience ago, also when a slower lookup
\* has put its entry back.
ServedFresh ==
    \A l \in Lookup :
        pc[l] = "answer" => out[l].age <= Patience \/ out[l].age < TTL + Patience


\* service.py:39, "Provider isolation: one integration never breaks the aggregate": the
\* local provider, which cannot fail, is in every aggregate.
LocalReported == \A l \in Lookup : pc[l] = "answer" => Local \in out[l].good

=============================================================================
