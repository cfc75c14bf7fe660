--------------------------- MODULE ReputationProofs ---------------------------
(***************************************************************************)
(* Theorems of ReputationService: no answer and no cached aggregate loses  *)
(* a provider silently, what is answered is not older than the cache and   *)
(* the timeout allow, and the cache keeps to its limit and its order, for  *)
(* any number of lookups, keys and providers.                              *)
(***************************************************************************)
EXTENDS ReputationService, FiniteSetTheorems, SequenceTheorems, WellFoundedInduction, TLAPS

-----------------------------------------------------------------------------
(* The invariant.                                                            *)

Places == {"idle", "get", "submit", "gather", "cancel", "put", "answer", "done"}
Futures == Finished \cup {"none", "queued", "running", "cancelled"}

\* The types, but for the order of the cache.
Shapes ==
    /\ DOMAIN entry \subseteq Key
    /\ \A k \in DOMAIN entry : entry[k] \in [left : 0 .. TTL, value : Value]
    /\ pc \in [Lookup -> Places]
    /\ key \in [Lookup -> Key]
    /\ left \in [Lookup -> 0 .. Patience]
    /\ task \in [Lookup -> [Provider -> Futures]]
    /\ queue \in Seq(Lookup \X Provider)
    /\ out \in [Lookup -> Value]
    /\ client \in [Lookup -> {"idle", "waiting", "received", "unavailable"}]
    /\ waits \in [Lookup -> 0 .. ClientPatience]

\* The providers of the first m tasks of a lookup of k.
FirstOf(k, m) == {Selected(k)[i] : i \in 1 .. m}

\* Who has been asked by a lookup of k at place p: it submits its tasks in order and one
\* for each provider.
InOrder(p, k, asked) ==
    /\ p \in {"idle", "get"} => asked = {}
    /\ p = "submit" => \E m \in 0 .. Len(Selected(k)) - 1 : asked = FirstOf(k, m)
    /\ p = "gather" => asked = FirstOf(k, Len(Selected(k)))

Asking ==
    \A l \in Lookup : InOrder(pc[l], key[l], Asked(l)) /\ (client[l] = "idle" => pc[l] = "idle")

\* Who is accounted for, from the moment a lookup has gathered its value.
Accounted ==
    /\ \A l \in Lookup : pc[l] \in {"cancel", "put", "answer", "done"} => Accounts(out[l], key[l])
    /\ \A k \in DOMAIN entry : Accounts(entry[k].value, k)

\* How old values are: an entry ages as fast as its time runs out.
Ages ==
    /\ \A k \in DOMAIN entry : entry[k].left + entry[k].value.age <= TTL + Patience
    /\ \A l \in Lookup : pc[l] \in {"cancel", "put"} => out[l].age <= Patience
    /\ ServedFresh

\* rel tells of any two keys of S which came first.
Ranks(rel, S) ==
    /\ \A j, k \in S : <<j, k>> \in rel <=> j # k /\ <<k, j>> \notin rel
    /\ \A i, j, k \in S : <<i, j>> \in rel /\ <<j, k>> \in rel => <<i, k>> \in rel

\* The keys of the cache: few, and in order.
Held ==
    /\ IsFiniteSet(DOMAIN entry) /\ Cardinality(DOMAIN entry) <= MaxItems
    /\ order \subseteq (DOMAIN entry) \X (DOMAIN entry)
    /\ Ranks(order, DOMAIN entry)

IInv == Shapes /\ Asking /\ Accounted /\ Ages /\ Held

-----------------------------------------------------------------------------
(* The providers of a lookup.                                                *)

LEMMA SelectedProviders ==
    ASSUME NEW k
    PROVE  /\ Selected(k) \in Seq(Provider) /\ Len(Selected(k)) \in Nat \ {0}
           /\ DOMAIN Selected(k) = 1 .. Len(Selected(k))
           /\ \A i, j \in DOMAIN Selected(k) : Selected(k)[i] = Selected(k)[j] => i = j
<1>1. Providers \in Seq(Provider) /\ Providers # <<>>
    BY ServiceAssumption
<1>2. Local \in Provider /\ Len(Providers) \in Nat \ {0}
    BY <1>1 DEF Local
<1>3. CASE k \in Global
    BY <1>1, <1>2, <1>3, ServiceAssumption DEF Selected
<1>4. CASE k \notin Global
    BY <1>2, <1>4 DEF Selected
<1> QED BY <1>3, <1>4

\* As many providers have been asked as tasks were submitted.
LEMMA FirstOfCounts ==
    ASSUME NEW k, NEW m \in 0 .. Len(Selected(k))
    PROVE  Cardinality(FirstOf(k, m)) = m
<1> DEFINE f == [i \in 1 .. m |-> Selected(k)[i]]
<1>1. m \in Nat /\ 1 .. m \subseteq DOMAIN Selected(k)
    BY SelectedProviders
<1>2. f \in Bijection(1 .. m, FirstOf(k, m))
    <2>1. f \in [1 .. m -> FirstOf(k, m)] BY DEF FirstOf
    <2>2. \A p \in FirstOf(k, m) : \E i \in 1 .. m : f[i] = p BY DEF FirstOf
    <2>3. \A i, j \in 1 .. m : f[i] = f[j] => i = j BY <1>1, SelectedProviders
    <2> QED BY <2>1, <2>2, <2>3 DEF Bijection, Injection, Surjection, IsInjective
<1>3. IsFiniteSet(1 .. m) /\ Cardinality(1 .. m) = m
    BY <1>1, FS_Interval
<1> QED BY <1>2, <1>3, FS_Bijection DEF ExistsBijection

LEMMA FirstOfGrows ==
    ASSUME NEW k, NEW m \in 0 .. Len(Selected(k)) - 1
    PROVE  /\ FirstOf(k, m + 1) = FirstOf(k, m) \cup {Selected(k)[m + 1]}
           /\ Selected(k)[m + 1] \in Provider
<1>1. m \in Nat /\ 1 .. m + 1 = (1 .. m) \cup {m + 1} BY SelectedProviders
<1>2. m + 1 \in DOMAIN Selected(k) BY SelectedProviders
<1> QED BY <1>1, <1>2, SelectedProviders DEF FirstOf

-----------------------------------------------------------------------------
(* The shape of the state.                                                   *)

LEMMA SelectedOf == ASSUME NEW l PROVE Asked(l) \subseteq Provider
BY DEF Asked

LEMMA AggregateTyped ==
    ASSUME Shapes, NEW l \in Lookup
    PROVE  /\ Aggregate(l) \in Value
           /\ [Aggregate(l) EXCEPT !.warned = @ \cup {"aggregate"}] \in Value
           /\ Aggregate(l).age <= Patience
           /\ [Aggregate(l) EXCEPT !.warned = @ \cup {"aggregate"}].age <= Patience
<1>1. left[l] \in 0 .. Patience BY DEF Shapes
<1>2. Patience \in Nat /\ TTL \in Nat BY ServiceAssumption, CacheAssumption
<1>3. Patience - left[l] \in 0 .. TTL + Patience /\ Patience - left[l] <= Patience
    BY <1>1, <1>2
<1>4. Done(l) \subseteq Provider BY DEF Done, Asked
<1> QED BY <1>3, <1>4 DEF Aggregate, Value

\* What putting a value does to the entries.
LEMMA PutEntries ==
    ASSUME NEW k, NEW v, CachePut(k, v)
    PROVE  /\ DOMAIN entry' \subseteq DOMAIN entry \cup {k}
           /\ \A j \in DOMAIN entry' :
                 \/ j = k /\ entry'[j] = [left |-> TTL, value |-> v]
                 \/ j \in DOMAIN entry /\ entry'[j] = entry[j]
BY DEF CachePut

\* What a lookup of the cache does to them.
LEMMA GetEntries ==
    ASSUME NEW k, Get(k)
    PROVE  /\ DOMAIN entry' \subseteq DOMAIN entry
           /\ \A j \in DOMAIN entry' : entry'[j] = entry[j]
BY DEF Get, cacheVars

LEMMA ShapesInit == Init => Shapes
<1> SUFFICES ASSUME Init PROVE Shapes
    OBVIOUS
<1>1. None \in Value BY ServiceAssumption, CacheAssumption DEF None, Value
<1>2. 0 \in 0 .. Patience /\ 0 \in 0 .. ClientPatience BY ServiceAssumption
<1>3. DOMAIN entry = {} BY DEF Init, EmptyCache
<1>4. queue \in Seq(Lookup \X Provider) BY DEF Init
<1> QED BY <1>1, <1>2, <1>3, <1>4 DEF Init, Shapes, Places, Futures

LEMMA ShapesNext == ASSUME Shapes, Asking, Ages, Next PROVE Shapes'
<1> USE DEF Shapes
<1>1. ASSUME NEW l \in Lookup, Ask(l) PROVE Shapes'
    BY <1>1, ServiceAssumption DEF Ask, Goto, cacheVars, Places
<1>2. ASSUME NEW l \in Lookup, GiveUp(l) PROVE Shapes'
    BY <1>2 DEF GiveUp, cacheVars
<1>3. ASSUME NEW l \in Lookup, CacheGet(l) PROVE Shapes'
    <2>1. /\ DOMAIN entry' \subseteq DOMAIN entry
          /\ \A j \in DOMAIN entry' : entry'[j] = entry[j]
        BY <1>3, GetEntries DEF CacheGet
    <2>2. out' \in [Lookup -> Value]
        <3>1. CASE Hit(key[l])
            <4>1. entry[key[l]].value \in Value BY <3>1 DEF Hit
            <4> QED BY <1>3, <3>1, <4>1 DEF CacheGet
        <3>2. CASE ~Hit(key[l]) BY <1>3, <3>2 DEF CacheGet
        <3> QED BY <3>1, <3>2
    <2>3. pc' \in [Lookup -> Places] BY <1>3 DEF CacheGet, Goto, Places
    <2> QED BY <1>3, <2>1, <2>2, <2>3 DEF CacheGet
<1>4. ASSUME NEW l \in Lookup, Submit(l) PROVE Shapes'
    <2> DEFINE s == Selected(key[l])
               n == Cardinality(Asked(l)) + 1
    <2>1. s[n] \in Provider /\ n \in Nat
        <3>1. PICK m \in 0 .. Len(s) - 1 : Asked(l) = FirstOf(key[l], m)
            BY <1>4 DEF Submit, Asking, InOrder
        <3>2. m \in 0 .. Len(s) /\ n = m + 1 BY <3>1, SelectedProviders, FirstOfCounts
        <3>3. s[m + 1] \in Provider BY FirstOfGrows
        <3> HIDE DEF n
        <3> QED BY <3>2, <3>3, SelectedProviders
    <2> HIDE DEF s, n
    <2>2. task' = [task EXCEPT ![l][s[n]] = "queued"] /\ queue' = Append(queue, <<l, s[n]>>)
        BY <1>4 DEF Submit, s, n
    <2>3. task' \in [Lookup -> [Provider -> Futures]] BY <2>1, <2>2 DEF Futures
    <2>4. queue' \in Seq(Lookup \X Provider) BY <2>1, <2>2, AppendProperties
    <2>5. pc' \in [Lookup -> Places] /\ left' \in [Lookup -> 0 .. Patience]
        <3>1. Patience \in 0 .. Patience BY ServiceAssumption
        <3> QED BY <1>4, <3>1 DEF Submit, Goto, Places
    <2> QED BY <1>4, <2>3, <2>4, <2>5 DEF Submit, cacheVars
<1>5. ASSUME NEW l \in Lookup, GatherAll(l) \/ GatherTimeout(l) PROVE Shapes'
    <2>1. out' \in [Lookup -> Value]
        <3> DEFINE late == [Aggregate(l) EXCEPT !.warned = @ \cup {"aggregate"}]
        <3>1. Aggregate(l) \in Value /\ late \in Value BY AggregateTyped
        <3>2. out' = [out EXCEPT ![l] = Aggregate(l)] \/ out' = [out EXCEPT ![l] = late]
            BY <1>5 DEF GatherAll, GatherTimeout
        <3> HIDE DEF late
        <3> QED BY <3>1, <3>2
    <2>2. pc' \in [Lookup -> Places] BY <1>5 DEF GatherAll, GatherTimeout, Goto, Places
    <2> QED BY <1>5, <2>1, <2>2 DEF GatherAll, GatherTimeout, cacheVars
<1>6. ASSUME NEW l \in Lookup, Cancel(l) PROVE Shapes'
    <2>1. task' \in [Lookup -> [Provider -> Futures]] BY <1>6 DEF Cancel, Futures
    <2>2. pc' \in [Lookup -> Places] BY <1>6 DEF Cancel, Goto, Places
    <2> QED BY <1>6, <2>1, <2>2 DEF Cancel, cacheVars
<1>7. ASSUME NEW l \in Lookup, Put(l) PROVE Shapes'
    <2>1. /\ DOMAIN entry' \subseteq DOMAIN entry \cup {key[l]}
          /\ \A j \in DOMAIN entry' :
                \/ entry'[j] = [left |-> TTL, value |-> out[l]]
                \/ j \in DOMAIN entry /\ entry'[j] = entry[j]
        BY <1>7, PutEntries DEF Put
    <2>2. [left |-> TTL, value |-> out[l]] \in [left : 0 .. TTL, value : Value]
        BY CacheAssumption
    <2>3. pc' \in [Lookup -> Places] BY <1>7 DEF Put, Goto, Places
    <2> QED BY <1>7, <2>1, <2>2, <2>3 DEF Put
<1>8. ASSUME NEW l \in Lookup, Answer(l) PROVE Shapes'
    BY <1>8 DEF Answer, Goto, cacheVars, Places
<1>9. ASSUME Dispatch PROVE Shapes'
    <2>1. Head(queue) \in Lookup \X Provider /\ queue' \in Seq(Lookup \X Provider)
        BY <1>9, HeadTailProperties DEF Dispatch
    <2>2. PICK l \in Lookup, p \in Provider : Head(queue) = <<l, p>> BY <2>1
    <2>3. task' = [task EXCEPT ![l][p] = IF @ = "queued" THEN "running" ELSE @]
        <3>1. Head(queue)[1] = l /\ Head(queue)[2] = p BY <2>2
        <3>2. task' = [task EXCEPT ![Head(queue)[1]][Head(queue)[2]] =
                          IF @ = "queued" THEN "running" ELSE @]
            BY <1>9, Zenon DEF Dispatch
        <3> QED BY <3>1, <3>2, Zenon
    <2>4. task' \in [Lookup -> [Provider -> Futures]] BY <2>3 DEF Futures
    <2> QED BY <1>9, <2>1, <2>4 DEF Dispatch, cacheVars
<1>10. ASSUME NEW l \in Lookup, NEW p \in Provider, NEW result \in Finished, Finish(l, p, result)
       PROVE  Shapes'
    <2>1. task' \in [Lookup -> [Provider -> Futures]] BY <1>10 DEF Finish, Futures
    <2> QED BY <1>10, <2>1 DEF Finish, cacheVars
<1>11. ASSUME Tick PROVE Shapes'
    <2>1. left' \in [Lookup -> 0 .. Patience]
        <3>1. \A n \in 0 .. Patience : Down(n) \in 0 .. Patience BY ServiceAssumption DEF Down
        <3> QED BY <1>11, <3>1 DEF Tick
    <2>2. DOMAIN entry' = DOMAIN entry BY <1>11 DEF Tick
    <2>3. ASSUME NEW k \in DOMAIN entry PROVE entry'[k] \in [left : 0 .. TTL, value : Value]
        <3>1. CASE k \in Lapsed BY <1>11, <3>1 DEF Tick
        <3>2. CASE k \notin Lapsed
            <4> DEFINE v == entry[k].value
            <4>1. entry'[k] = [left |-> entry[k].left - 1, value |-> [v EXCEPT !.age = @ + 1]]
                BY <1>11, <3>2 DEF Tick
            <4>2. entry[k].left \in 0 .. TTL /\ v \in Value OBVIOUS
            <4>3. v.age \in 0 .. TTL + Patience BY <4>2 DEF Value
            <4>4. entry[k].left # 0 BY <3>2 DEF Lapsed
            <4>5. entry[k].left + v.age <= TTL + Patience BY DEF Ages
            <4>6. TTL \in Nat /\ Patience \in Nat BY CacheAssumption, ServiceAssumption
            <4>7. entry[k].left - 1 \in 0 .. TTL BY <4>2, <4>4, <4>6
            <4>8. v.age + 1 \in 0 .. TTL + Patience BY <4>2, <4>3, <4>4, <4>5, <4>6
            <4>9. [v EXCEPT !.age = @ + 1] \in Value BY <4>2, <4>8 DEF Value
            <4> QED BY <4>1, <4>7, <4>9
        <3> QED BY <3>1, <3>2
    <2>4. waits' \in [Lookup -> 0 .. ClientPatience]
        <3>1. \A n \in 0 .. ClientPatience : Down(n) \in 0 .. ClientPatience
            BY ServiceAssumption DEF Down
        <3> QED BY <1>11, <3>1 DEF Tick
    <2> QED BY <1>11, <2>1, <2>2, <2>3, <2>4 DEF Tick
<1> QED
    BY <1>1, <1>2, <1>3, <1>4, <1>5, <1>6, <1>7, <1>8, <1>9, <1>10, <1>11 DEF Next, Serve

-----------------------------------------------------------------------------
(* Who has been asked.                                                       *)

LEMMA AskedSame ==
    ASSUME \A l \in Lookup, p \in Provider : task'[l][p] = "none" <=> task[l][p] = "none"
    PROVE  \A l \in Lookup : Asked(l)' = Asked(l)
BY DEF Asked

LEMMA AskingInit == Init => Asking
BY DEF Init, Asking, Asked, InOrder

\* A step of one lookup; the others stay where they are.
LEMMA AskingStep ==
    ASSUME Shapes, Asking, key' = key, NEW l \in Lookup,
           \A m \in Lookup : m # l => /\ Asked(m)' = Asked(m)
                                      /\ pc'[m] = pc[m] /\ client'[m] = client[m],
           InOrder(pc'[l], key[l], Asked(l)'), client'[l] # "idle"
    PROVE  Asking'
BY DEF Asking

LEMMA AskingNext == ASSUME Shapes, Asking, Next PROVE Asking'
<1> USE DEF Shapes
<1>1. ASSUME NEW l \in Lookup, Ask(l) PROVE Asking'
    <2>1. task' = task /\ key' = key BY <1>1 DEF Ask
    <2>2. \A m \in Lookup : Asked(m)' = Asked(m) BY <2>1, AskedSame
    <2>3. \A m \in Lookup : m # l => pc'[m] = pc[m] /\ client'[m] = client[m]
        BY <1>1 DEF Ask, Goto
    <2>4. pc'[l] = "get" /\ client'[l] = "waiting" BY <1>1 DEF Ask, Goto
    <2>5. Asked(l) = {} BY <1>1 DEF Ask, Asking, InOrder
    <2>6. InOrder(pc'[l], key[l], Asked(l)') BY <2>2, <2>4, <2>5 DEF InOrder
    <2> QED BY <2>1, <2>2, <2>3, <2>4, <2>6, AskingStep
<1>2. ASSUME NEW l \in Lookup, GiveUp(l) PROVE Asking'
    <2>1. UNCHANGED <<task, key, pc>> BY <1>2 DEF GiveUp
    <2>2. \A m \in Lookup : Asked(m)' = Asked(m) BY <2>1, AskedSame
    <2>3. \A m \in Lookup : client'[m] = "idle" => client[m] = "idle" BY <1>2 DEF GiveUp
    <2> QED BY <2>1, <2>2, <2>3 DEF Asking
<1>3. ASSUME NEW l \in Lookup,
             GatherAll(l) \/ GatherTimeout(l) \/ Cancel(l) \/ Put(l) \/ Answer(l)
      PROVE  Asking'
    <2>1. \A k \in Lookup, p \in Provider : task'[k][p] = "none" <=> task[k][p] = "none"
        BY <1>3 DEF GatherAll, GatherTimeout, Cancel, Put, Answer
    <2>2. \A m \in Lookup : Asked(m)' = Asked(m) BY <2>1, AskedSame
    <2>3. key' = key BY <1>3 DEF GatherAll, GatherTimeout, Cancel, Put, Answer
    <2>4. \A m \in Lookup : m # l => pc'[m] = pc[m] /\ client'[m] = client[m]
        BY <1>3 DEF GatherAll, GatherTimeout, Cancel, Put, Answer, Goto
    <2>5. pc'[l] \in {"cancel", "put", "answer", "done"}
        BY <1>3 DEF GatherAll, GatherTimeout, Cancel, Put, Answer, Goto
    <2>6. client[l] # "idle"
        <3>1. pc[l] # "idle" BY <1>3 DEF GatherAll, GatherTimeout, Cancel, Put, Answer
        <3> QED BY <3>1 DEF Asking
    <2>7. client'[l] # "idle"
        BY <1>3, <2>6 DEF GatherAll, GatherTimeout, Cancel, Put, Answer
    <2>8. InOrder(pc'[l], key[l], Asked(l)') BY <2>5 DEF InOrder
    <2> QED BY <2>2, <2>3, <2>4, <2>7, <2>8, AskingStep
<1>4. ASSUME NEW l \in Lookup, CacheGet(l) PROVE Asking'
    <2>1. UNCHANGED <<task, key, client>> BY <1>4 DEF CacheGet
    <2>2. \A m \in Lookup : Asked(m)' = Asked(m) BY <2>1, AskedSame
    <2>3. Asked(l) = {} /\ client[l] # "idle" BY <1>4 DEF CacheGet, Asking, InOrder
    <2>4. \A m \in Lookup : m # l => pc'[m] = pc[m] BY <1>4 DEF CacheGet, Goto
    <2>5. pc'[l] \in {"answer", "submit"} BY <1>4 DEF CacheGet, Goto
    <2>6. 0 \in 0 .. Len(Selected(key[l])) - 1 /\ FirstOf(key[l], 0) = {}
        BY SelectedProviders DEF FirstOf
    <2>7. InOrder(pc'[l], key[l], Asked(l)') BY <2>2, <2>3, <2>5, <2>6 DEF InOrder
    <2> QED BY <2>1, <2>2, <2>3, <2>4, <2>7, AskingStep
<1>5. ASSUME NEW l \in Lookup, Submit(l) PROVE Asking'
    <2> DEFINE s == Selected(key[l])
               n == Cardinality(Asked(l)) + 1
    <2>1. PICK m \in 0 .. Len(s) - 1 : Asked(l) = FirstOf(key[l], m)
        BY <1>5 DEF Submit, Asking, InOrder
    <2>2. m \in 0 .. Len(s) /\ n = m + 1 /\ Len(s) \in Nat \ {0}
        BY <2>1, SelectedProviders, FirstOfCounts
    <2>3. FirstOf(key[l], m + 1) = FirstOf(key[l], m) \cup {s[m + 1]} /\ s[m + 1] \in Provider
        BY FirstOfGrows
    <2>4. /\ task' = [task EXCEPT ![l][s[n]] = "queued"] /\ key' = key /\ client' = client
          /\ IF n = Len(s) THEN pc' = [pc EXCEPT ![l] = "gather"] ELSE pc' = pc
        BY <1>5 DEF Submit, Goto
    <2>5. pc[l] = "submit" BY <1>5 DEF Submit
    <2>6. client[l] # "idle" BY <2>5 DEF Asking
    <2> HIDE DEF n, s
    <2>7. \A k \in Lookup : k # l => Asked(k)' = Asked(k) /\ pc'[k] = pc[k]
        BY <2>4 DEF Asked
    <2>8. Asked(l)' = FirstOf(key[l], n)
        <3>1. Asked(l)' = Asked(l) \cup {s[n]} BY <2>2, <2>3, <2>4 DEF Asked
        <3> QED BY <2>1, <2>2, <2>3, <3>1
    <2>9. InOrder(pc'[l], key[l], Asked(l)')
        <3>1. CASE n = Len(s)
            <4>1. pc'[l] = "gather" BY <2>4, <3>1
            <4> QED BY <2>8, <3>1, <4>1 DEF InOrder, s
        <3>2. CASE n # Len(s)
            <4>1. pc'[l] = "submit" BY <2>4, <2>5, <3>2
            <4>2. n \in 0 .. Len(s) - 1 BY <2>2, <3>2
            <4> QED BY <2>8, <4>1, <4>2 DEF InOrder, s
        <3> QED BY <3>1, <3>2
    <2> QED BY <2>4, <2>6, <2>7, <2>9, AskingStep
<1>6. ASSUME Dispatch PROVE Asking'
    <2>1. Head(queue) \in Lookup \X Provider BY <1>6, HeadTailProperties DEF Dispatch
    <2>2. PICK l \in Lookup, p \in Provider : Head(queue)[1] = l /\ Head(queue)[2] = p BY <2>1
    <2>3. task' = [task EXCEPT ![l][p] = IF @ = "queued" THEN "running" ELSE @]
        <3>1. task' = [task EXCEPT ![Head(queue)[1]][Head(queue)[2]] =
                          IF @ = "queued" THEN "running" ELSE @]
            BY <1>6, Zenon DEF Dispatch
        <3> QED BY <2>2, <3>1, Zenon
    <2>4. \A k \in Lookup, q \in Provider : task'[k][q] = "none" <=> task[k][q] = "none"
        BY <2>3
    <2>5. UNCHANGED <<pc, key, client>> BY <1>6 DEF Dispatch
    <2> QED BY <2>4, <2>5, AskedSame DEF Asking
<1>7. ASSUME NEW l \in Lookup, NEW p \in Provider, NEW result \in Finished, Finish(l, p, result)
      PROVE  Asking'
    <2>1. \A k \in Lookup, q \in Provider : task'[k][q] = "none" <=> task[k][q] = "none"
        BY <1>7 DEF Finish, Finished
    <2>2. UNCHANGED <<pc, key, client>> BY <1>7 DEF Finish
    <2> QED BY <2>1, <2>2, AskedSame DEF Asking
<1>8. ASSUME Tick PROVE Asking'
    <2>1. UNCHANGED <<pc, key, client, task>> BY <1>8 DEF Tick
    <2> QED BY <2>1, AskedSame DEF Asking
<1> QED BY <1>1, <1>2, <1>3, <1>4, <1>5, <1>6, <1>7, <1>8 DEF Next, Serve

-----------------------------------------------------------------------------
(* Who is accounted for.                                                     *)

LEMMA AggregateAccounts ==
    ASSUME Shapes, Asking, NEW l \in Lookup, pc[l] = "gather", Done(l) = Asked(l)
    PROVE  Accounts(Aggregate(l), key[l])
<1> DEFINE s == Selected(key[l])
<1>1. \A i \in DOMAIN s : s[i] \in Done(l) BY SelectedProviders DEF Asking, InOrder, FirstOf
<1>2. CASE \E p \in Done(l) : task[l][p] = "raised"
    <2>1. "unknown" \in Aggregate(l).warned BY <1>2 DEF Aggregate
    <2> QED BY <2>1 DEF Accounts
<1>3. CASE \A p \in Done(l) : task[l][p] # "raised"
    <2>1. \A p \in Done(l) : task[l][p] \in {"good", "warned"} BY <1>3 DEF Done, Finished
    <2>2. \A p \in Done(l) : p \in Aggregate(l).good \cup Aggregate(l).warned
        BY <2>1 DEF Aggregate
    <2> QED BY <1>1, <2>2 DEF Accounts
<1> QED BY <1>2, <1>3

LEMMA LateAccounts ==
    ASSUME NEW l, NEW k
    PROVE  Accounts([Aggregate(l) EXCEPT !.warned = @ \cup {"aggregate"}], k)
<1>1. [Aggregate(l) EXCEPT !.warned = @ \cup {"aggregate"}].warned
        = Aggregate(l).warned \cup {"aggregate"}
    BY DEF Aggregate
<1> QED BY <1>1 DEF Accounts

LEMMA Older == ASSUME NEW v \in Value, NEW a PROVE [v EXCEPT !.age = a].age = a
BY DEF Value

\* What is accounted for does not depend on the age of a value.
LEMMA OlderAccounts ==
    ASSUME NEW v \in Value, NEW a, NEW k, Accounts(v, k)
    PROVE  Accounts([v EXCEPT !.age = a], k)
BY DEF Accounts, Value

LEMMA AccountedInit == Init => Accounted
BY DEF Init, EmptyCache, Accounted

LEMMA AccountedNext == ASSUME Shapes, Asking, Accounted, Next PROVE Accounted'
<1> USE DEF Shapes
<1> DEFINE Late == {"cancel", "put", "answer", "done"}
<1>1. ASSUME NEW l \in Lookup, Ask(l) \/ GiveUp(l) \/ Submit(l) \/ Cancel(l) \/ Answer(l)
      PROVE  Accounted'
    <2>1. entry' = entry /\ out' = out /\ key' = key
        BY <1>1 DEF Ask, GiveUp, Submit, Cancel, Answer, cacheVars
    <2>2. \A k \in Lookup : pc'[k] \in Late => pc[k] \in Late
        BY <1>1 DEF Ask, GiveUp, Submit, Cancel, Answer, Goto
    <2> QED BY <2>1, <2>2 DEF Accounted
<1>2. ASSUME NEW l \in Lookup, CacheGet(l) PROVE Accounted'
    <2>1. /\ DOMAIN entry' \subseteq DOMAIN entry
          /\ \A j \in DOMAIN entry' : entry'[j] = entry[j]
        BY <1>2, GetEntries DEF CacheGet
    <2>2. \A k \in Lookup : k # l => pc'[k] = pc[k] /\ out'[k] = out[k]
        BY <1>2 DEF CacheGet, Goto
    <2>3. key' = key BY <1>2 DEF CacheGet
    <2>4. pc'[l] \in Late => Accounts(out'[l], key[l])
        <3>1. CASE Hit(key[l])
            <4>1. out'[l] = entry[key[l]].value BY <1>2, <3>1 DEF CacheGet
            <4> QED BY <3>1, <4>1 DEF Hit, Accounted
        <3>2. CASE ~Hit(key[l])
            <4>1. pc'[l] = "submit" BY <1>2, <3>2 DEF CacheGet, Goto
            <4> QED BY <4>1
        <3> QED BY <3>1, <3>2
    <2> QED BY <2>1, <2>2, <2>3, <2>4 DEF Accounted
<1>3. ASSUME NEW l \in Lookup, GatherAll(l) \/ GatherTimeout(l) PROVE Accounted'
    <2>1. Accounts(out'[l], key[l])
        <3>1. CASE GatherAll(l)
            <4>1. Accounts(Aggregate(l), key[l]) BY <3>1, AggregateAccounts DEF GatherAll
            <4>2. out'[l] = Aggregate(l) BY <3>1 DEF GatherAll
            <4> QED BY <4>1, <4>2
        <3>2. CASE GatherTimeout(l)
            <4> DEFINE late == [Aggregate(l) EXCEPT !.warned = @ \cup {"aggregate"}]
            <4>1. Accounts(late, key[l]) BY LateAccounts
            <4>2. out' = [out EXCEPT ![l] = late] BY <3>2 DEF GatherTimeout
            <4> HIDE DEF late
            <4> QED BY <4>1, <4>2
        <3> QED BY <1>3, <3>1, <3>2
    <2>2. \A k \in Lookup : k # l => pc'[k] = pc[k] /\ out'[k] = out[k]
        BY <1>3 DEF GatherAll, GatherTimeout, Goto
    <2>3. key' = key /\ entry' = entry BY <1>3 DEF GatherAll, GatherTimeout, cacheVars
    <2> QED BY <2>1, <2>2, <2>3 DEF Accounted
<1>4. ASSUME NEW l \in Lookup, Put(l) PROVE Accounted'
    <2>1. \A j \in DOMAIN entry' :
              \/ j = key[l] /\ entry'[j] = [left |-> TTL, value |-> out[l]]
              \/ j \in DOMAIN entry /\ entry'[j] = entry[j]
        BY <1>4, PutEntries DEF Put
    <2>2. Accounts(out[l], key[l])
        <3>1. pc[l] = "put" BY <1>4 DEF Put
        <3> QED BY <3>1 DEF Accounted
    <2>3. ASSUME NEW j \in DOMAIN entry' PROVE Accounts(entry'[j].value, j)
        <3>1. CASE j = key[l] /\ entry'[j] = [left |-> TTL, value |-> out[l]]
            <4>1. entry'[j].value = out[l] BY <3>1
            <4> QED BY <2>2, <3>1, <4>1
        <3>2. CASE j \in DOMAIN entry /\ entry'[j] = entry[j] BY <3>2 DEF Accounted
        <3> QED BY <2>1, <3>1, <3>2
    <2>4. out' = out /\ key' = key BY <1>4 DEF Put
    <2>5. \A k \in Lookup : pc'[k] \in Late => pc[k] \in Late BY <1>4 DEF Put, Goto
    <2> QED BY <2>3, <2>4, <2>5 DEF Accounted
<1>5. ASSUME Dispatch \/ \E l \in Lookup, p \in Provider, result \in Finished : Finish(l, p, result)
      PROVE  Accounted'
    <2>1. UNCHANGED <<entry, pc, key, out>> BY <1>5 DEF Dispatch, Finish, cacheVars
    <2> QED BY <2>1 DEF Accounted
<1>6. ASSUME Tick PROVE Accounted'
    <2>1. UNCHANGED <<pc, key, out>> /\ DOMAIN entry' = DOMAIN entry BY <1>6 DEF Tick
    <2>2. ASSUME NEW k \in DOMAIN entry PROVE Accounts(entry'[k].value, k)
        <3> DEFINE v == entry[k].value
        <3>1. Accounts(v, k) /\ v \in Value BY DEF Accounted
        <3>2. entry'[k].value = v \/ entry'[k].value = [v EXCEPT !.age = v.age + 1]
            <4>1. CASE k \in Lapsed BY <1>6, <4>1 DEF Tick
            <4>2. CASE k \notin Lapsed
                <5>1. entry'[k] = [left |-> entry[k].left - 1, value |-> [v EXCEPT !.age = v.age + 1]]
                    BY <1>6, <4>2 DEF Tick
                <5> QED BY <5>1
            <4> QED BY <4>1, <4>2
        <3>3. Accounts([v EXCEPT !.age = v.age + 1], k) BY <3>1, OlderAccounts
        <3> HIDE DEF v
        <3> QED BY <3>1, <3>2, <3>3
    <2> QED BY <2>1, <2>2 DEF Accounted
<1> QED BY <1>1, <1>2, <1>3, <1>4, <1>5, <1>6 DEF Next, Serve

-----------------------------------------------------------------------------
(* How old values are.                                                       *)

LEMMA AgesInit == Init => Ages
BY DEF Init, EmptyCache, Ages, ServedFresh

LEMMA AgesNext == ASSUME Shapes, Ages, Next PROVE Ages'
<1> USE DEF Shapes
<1>1. ASSUME NEW l \in Lookup, Ask(l) \/ GiveUp(l) \/ Submit(l) \/ Cancel(l) \/ Answer(l)
      PROVE  Ages'
    <2>1. entry' = entry /\ out' = out
        BY <1>1 DEF Ask, GiveUp, Submit, Cancel, Answer, cacheVars
    <2>2. \A k \in Lookup : /\ pc'[k] \in {"cancel", "put"} => pc[k] \in {"cancel", "put"}
                            /\ pc'[k] = "answer" => pc[k] = "answer"
        BY <1>1 DEF Ask, GiveUp, Submit, Cancel, Answer, Goto
    <2> QED BY <2>1, <2>2 DEF Ages, ServedFresh
<1>2. ASSUME NEW l \in Lookup, CacheGet(l) PROVE Ages'
    <2>1. /\ DOMAIN entry' \subseteq DOMAIN entry
          /\ \A j \in DOMAIN entry' : entry'[j] = entry[j]
        BY <1>2, GetEntries DEF CacheGet
    <2>2. \A k \in Lookup : k # l => pc'[k] = pc[k] /\ out'[k] = out[k]
        BY <1>2 DEF CacheGet, Goto
    <2>3. pc'[l] \in {"answer", "submit"} BY <1>2 DEF CacheGet, Goto
    <2>4. ASSUME pc'[l] = "answer" PROVE out'[l].age < TTL + Patience
        <3>1. Hit(key[l]) BY <1>2, <2>4 DEF CacheGet, Goto
        <3>2. out'[l] = entry[key[l]].value BY <1>2, <3>1 DEF CacheGet
        <3>3. key[l] \in DOMAIN entry /\ entry[key[l]].left # 0 BY <3>1 DEF Hit, Lapsed
        <3>4. entry[key[l]].left \in 0 .. TTL /\ entry[key[l]].value \in Value BY <3>3
        <3>5. entry[key[l]].value.age \in 0 .. TTL + Patience BY <3>4 DEF Value
        <3>6. entry[key[l]].left + entry[key[l]].value.age <= TTL + Patience BY <3>3 DEF Ages
        <3>7. TTL \in Nat /\ Patience \in Nat BY CacheAssumption, ServiceAssumption
        <3> QED BY <3>2, <3>3, <3>4, <3>5, <3>6, <3>7
    <2> QED BY <2>1, <2>2, <2>3, <2>4 DEF Ages, ServedFresh
<1>3. ASSUME NEW l \in Lookup, GatherAll(l) \/ GatherTimeout(l) PROVE Ages'
    <2>1. out'[l].age <= Patience
        <3> DEFINE late == [Aggregate(l) EXCEPT !.warned = @ \cup {"aggregate"}]
        <3>1. Aggregate(l).age <= Patience /\ late.age <= Patience BY AggregateTyped
        <3>2. out' = [out EXCEPT ![l] = Aggregate(l)] \/ out' = [out EXCEPT ![l] = late]
            BY <1>3 DEF GatherAll, GatherTimeout
        <3> HIDE DEF late
        <3> QED BY <3>1, <3>2
    <2>2. \A k \in Lookup : k # l => pc'[k] = pc[k] /\ out'[k] = out[k]
        BY <1>3 DEF GatherAll, GatherTimeout, Goto
    <2>3. entry' = entry /\ pc'[l] \in {"cancel", "put"}
        BY <1>3 DEF GatherAll, GatherTimeout, Goto, cacheVars
    <2> QED BY <2>1, <2>2, <2>3 DEF Ages, ServedFresh
<1>4. ASSUME NEW l \in Lookup, Put(l) PROVE Ages'
    <2>1. \A j \in DOMAIN entry' :
              \/ entry'[j] = [left |-> TTL, value |-> out[l]]
              \/ j \in DOMAIN entry /\ entry'[j] = entry[j]
        BY <1>4, PutEntries DEF Put
    <2>2. pc[l] = "put" /\ out' = out BY <1>4 DEF Put
    <2>3. out[l].age <= Patience /\ out[l].age \in 0 .. TTL + Patience
        BY <2>2 DEF Ages, Value
    <2>4. ASSUME NEW j \in DOMAIN entry' PROVE entry'[j].left + entry'[j].value.age <= TTL + Patience
        <3>1. CASE entry'[j] = [left |-> TTL, value |-> out[l]]
            <4>1. entry'[j].left = TTL /\ entry'[j].value = out[l] BY <3>1
            <4>2. TTL + out[l].age <= TTL + Patience
                BY <2>3, CacheAssumption, ServiceAssumption
            <4> QED BY <4>1, <4>2
        <3>2. CASE j \in DOMAIN entry /\ entry'[j] = entry[j] BY <3>2 DEF Ages
        <3> QED BY <2>1, <3>1, <3>2
    <2>5. \A k \in Lookup : k # l => pc'[k] = pc[k] BY <1>4 DEF Put, Goto
    <2>6. pc'[l] = "answer" BY <1>4 DEF Put, Goto
    <2> QED BY <2>2, <2>3, <2>4, <2>5, <2>6 DEF Ages, ServedFresh
<1>5. ASSUME Dispatch \/ \E l \in Lookup, p \in Provider, result \in Finished : Finish(l, p, result)
      PROVE  Ages'
    <2>1. UNCHANGED <<entry, pc, out>> BY <1>5 DEF Dispatch, Finish, cacheVars
    <2> QED BY <2>1 DEF Ages, ServedFresh
<1>6. ASSUME Tick PROVE Ages'
    <2>1. UNCHANGED <<pc, out>> /\ DOMAIN entry' = DOMAIN entry BY <1>6 DEF Tick
    <2>2. ASSUME NEW k \in DOMAIN entry
          PROVE  entry'[k].left + entry'[k].value.age <= TTL + Patience
        <3> DEFINE v == entry[k].value
        <3>1. entry[k].left + v.age <= TTL + Patience BY DEF Ages
        <3>2. CASE k \in Lapsed BY <1>6, <3>1, <3>2 DEF Tick
        <3>3. CASE k \notin Lapsed
            <4>1. entry'[k] = [left |-> entry[k].left - 1, value |-> [v EXCEPT !.age = v.age + 1]]
                BY <1>6, <3>3 DEF Tick
            <4>2. entry[k].left \in 0 .. TTL /\ v \in Value OBVIOUS
            <4>3. v.age \in 0 .. TTL + Patience BY <4>2 DEF Value
            <4>4. [v EXCEPT !.age = v.age + 1].age = v.age + 1 BY <4>2, Older
            <4> DEFINE older == [v EXCEPT !.age = v.age + 1]
            <4>5. entry'[k].left = entry[k].left - 1 /\ entry'[k].value = older
                <5>1. entry'[k] = [left |-> entry[k].left - 1, value |-> older] BY <4>1
                <5> HIDE DEF older
                <5> QED BY <5>1
            <4>6. entry'[k].value.age = v.age + 1 BY <4>4, <4>5
            <4> HIDE DEF older
            <4> QED BY <3>1, <4>2, <4>3, <4>5, <4>6
        <3> QED BY <3>2, <3>3
    <2> QED BY <2>1, <2>2 DEF Ages, ServedFresh
<1> QED BY <1>1, <1>2, <1>3, <1>4, <1>5, <1>6 DEF Next, Serve

-----------------------------------------------------------------------------
(* The keys of the cache.                                                    *)

\* What the library says of < on the naturals, without its operator.
LEMMA LeastNumber ==
    ASSUME NEW T \in SUBSET Nat, T # {}
    PROVE  \E n \in T : \A m \in T : n <= m
<1>1. PICK n \in T : \A m \in T : <<m, n>> \notin OpToRel(<, Nat)
    BY WFMin, NatLessThanWellFounded
<1>2. \A m \in T : ~(m < n) BY <1>1 DEF OpToRel
<1>3. \A m \in T : m \in Nat OBVIOUS
<1> QED BY <1>2, <1>3

\* Of finitely many keys in order one came first: that with the fewest before it.
LEMMA OldestHeld ==
    ASSUME NEW S, IsFiniteSet(S), S # {}, Ranks(order, S)
    PROVE  Oldest(S) \in S
<1> DEFINE Before(k) == {j \in S : <<j, k>> \in order}
           Counts == {Cardinality(Before(k)) : k \in S}
<1>1. \A k \in S : IsFiniteSet(Before(k)) /\ Cardinality(Before(k)) \in Nat
    <2> TAKE k \in S
    <2>1. Before(k) \subseteq S OBVIOUS
    <2> HIDE DEF Before
    <2> QED BY <2>1, FS_Subset, FS_CardinalityType
<1>2. PICK k \in S : \A j \in S : Cardinality(Before(k)) <= Cardinality(Before(j))
    <2> HIDE DEF Before
    <2>1. Counts \in SUBSET Nat /\ Counts # {} BY <1>1
    <2>2. PICK n \in Counts : \A m \in Counts : n <= m BY <2>1, LeastNumber
    <2> QED BY <2>2
<1>3. ASSUME NEW j \in Before(k) PROVE FALSE
    <2>1. j \in S /\ <<j, k>> \in order OBVIOUS
    <2>2. Before(j) \subseteq Before(k) BY <2>1 DEF Ranks
    <2>3. j \notin Before(j) BY <2>1 DEF Ranks
    <2> HIDE DEF Before
    <2>4. Cardinality(Before(j)) <= Cardinality(Before(k))
          /\ (Cardinality(Before(j)) = Cardinality(Before(k)) => Before(j) = Before(k))
        BY <1>1, <2>1, <2>2, FS_Subset
    <2> QED BY <1>1, <1>2, <1>3, <2>1, <2>3, <2>4
<1>4. \A j \in S \ {k} : <<k, j>> \in order BY <1>3 DEF Ranks
<1> QED BY <1>4 DEF Oldest

LEMMA ExceptRanks ==
    ASSUME NEW S, NEW D, order \subseteq D \X D, Ranks(order, D)
    PROVE  /\ Except(S) \subseteq (D \ S) \X (D \ S)
           /\ Ranks(Except(S), D \ S)
<1>1. \A j, k : <<j, k>> \in Except(S) <=> <<j, k>> \in order /\ j \notin S /\ k \notin S
    BY DEF Except
<1>2. Except(S) \subseteq (D \ S) \X (D \ S) BY DEF Except
<1> QED BY <1>1, <1>2 DEF Ranks

LEMMA GetHeld == ASSUME Held, NEW k, Get(k) PROVE Held'
<1>1. CASE Hit(k) BY <1>1 DEF Get, Held, cacheVars
<1>2. CASE ~Hit(k)
    <2>1. DOMAIN entry' = DOMAIN entry \ {k} /\ order' = Except({k}) BY <1>2 DEF Get
    <2>2. IsFiniteSet(DOMAIN entry') /\ Cardinality(DOMAIN entry') <= Cardinality(DOMAIN entry)
        BY <2>1, FS_Subset DEF Held
    <2>3. Cardinality(DOMAIN entry') <= MaxItems
        BY <2>2, FS_CardinalityType, CacheAssumption DEF Held
    <2>4. order' \subseteq (DOMAIN entry') \X (DOMAIN entry') /\ Ranks(order', DOMAIN entry')
        BY <2>1, ExceptRanks DEF Held
    <2> QED BY <2>2, <2>3, <2>4 DEF Held
<1> QED BY <1>1, <1>2

\* Whatever is evicted, there is room for one more.
LEMMA EvictedRoom ==
    ASSUME Held
    PROVE  LET kept == DOMAIN entry \ Evicted
           IN  IsFiniteSet(kept) /\ Cardinality(kept) + 1 <= MaxItems
<1> DEFINE live == DOMAIN entry \ Lapsed
           kept == DOMAIN entry \ Evicted
<1>1. IsFiniteSet(DOMAIN entry) /\ Cardinality(DOMAIN entry) \in Nat
      /\ Cardinality(DOMAIN entry) <= MaxItems /\ MaxItems \in Nat \ {0}
    BY FS_CardinalityType, CacheAssumption DEF Held
<1>2. IsFiniteSet(live) /\ Cardinality(live) \in Nat /\ Cardinality(live) <= MaxItems
    BY <1>1, FS_Subset, FS_CardinalityType
<1>3. IsFiniteSet(kept) BY <1>1, FS_Subset
<1>4. CASE Cardinality(DOMAIN entry) < MaxItems
    <2>1. kept = DOMAIN entry BY <1>4 DEF Evicted
    <2> QED BY <1>1, <1>3, <1>4, <2>1
<1>5. CASE ~(Cardinality(DOMAIN entry) < MaxItems) /\ Cardinality(live) < MaxItems
    <2>1. kept = live BY <1>5 DEF Evicted
    <2> QED BY <1>1, <1>2, <1>3, <1>5, <2>1
<1>6. CASE ~(Cardinality(DOMAIN entry) < MaxItems) /\ ~(Cardinality(live) < MaxItems)
    <2>1. kept = live \ {Oldest(live)} BY <1>6 DEF Evicted
    <2>2. live # {} BY <1>1, <1>6, FS_EmptySet
    <2>3. Ranks(order, live) BY DEF Held, Ranks
    <2>4. Oldest(live) \in live BY <1>2, <2>2, <2>3, OldestHeld
    <2>5. Cardinality(kept) = Cardinality(live) - 1 BY <1>2, <2>1, <2>4, FS_RemoveElement
    <2> QED BY <1>1, <1>2, <1>3, <2>5
<1> QED BY <1>4, <1>5, <1>6

LEMMA PutHeld == ASSUME Held, NEW k, NEW v, CachePut(k, v) PROVE Held'
<1> DEFINE kept == DOMAIN entry \ Evicted
<1>1. IsFiniteSet(kept) /\ Cardinality(kept) \in Nat /\ Cardinality(kept) + 1 <= MaxItems
    BY EvictedRoom, FS_CardinalityType
<1>2. DOMAIN entry' = kept \cup {k} BY DEF CachePut
<1>3. order' = IF k \in kept THEN Except(Evicted) ELSE Except(Evicted) \cup (kept \X {k})
    BY DEF CachePut
<1>4. Except(Evicted) \subseteq kept \X kept /\ Ranks(Except(Evicted), kept)
    BY ExceptRanks DEF Held
<1> HIDE DEF kept
<1>5. IsFiniteSet(DOMAIN entry') /\ Cardinality(DOMAIN entry') <= MaxItems
    BY <1>1, <1>2, FS_AddElement, CacheAssumption
<1>6. order' \subseteq (DOMAIN entry') \X (DOMAIN entry') BY <1>2, <1>3, <1>4
<1>7. Ranks(order', DOMAIN entry')
    <2>1. CASE k \in kept BY <1>2, <1>3, <1>4, <2>1
    <2>2. CASE k \notin kept
        <3>1. \A i, j : <<i, j>> \in order' <=>
                  <<i, j>> \in Except(Evicted) \/ (i \in kept /\ j = k)
            BY <1>3, <2>2
        <3>2. \A i, j : <<i, j>> \in Except(Evicted) => i \in kept /\ j \in kept BY <1>4
        <3> QED BY <1>2, <1>4, <2>2, <3>1, <3>2 DEF Ranks
    <2> QED BY <2>1, <2>2
<1> QED BY <1>5, <1>6, <1>7 DEF Held

LEMMA HeldInit == Init => Held
BY FS_EmptySet, CacheAssumption DEF Init, EmptyCache, Held, Ranks

LEMMA HeldNext == ASSUME Held, Next PROVE Held'
<1>1. CASE UNCHANGED cacheVars BY <1>1 DEF Held, cacheVars
<1>2. ASSUME NEW l \in Lookup, CacheGet(l) PROVE Held' BY <1>2, GetHeld DEF CacheGet
<1>3. ASSUME NEW l \in Lookup, Put(l) PROVE Held' BY <1>3, PutHeld DEF Put
<1>4. ASSUME Tick PROVE Held'
    <2>1. DOMAIN entry' = DOMAIN entry /\ order' = order BY <1>4 DEF Tick
    <2> QED BY <2>1 DEF Held
<1> QED
    BY <1>1, <1>2, <1>3, <1>4
       DEF Next, Serve, Ask, GiveUp, Submit, GatherAll, GatherTimeout, Cancel, Answer, Dispatch, Finish

-----------------------------------------------------------------------------
(* The theorems.                                                             *)

THEOREM Invariance == Spec => []IInv
<1>1. Init => IInv
    BY ShapesInit, AskingInit, AccountedInit, AgesInit, HeldInit DEF IInv
<1>2. IInv /\ [Next]_vars => IInv'
    <2> SUFFICES ASSUME IInv, [Next]_vars PROVE IInv'
        OBVIOUS
    <2>1. CASE Next
        BY <2>1, ShapesNext, AskingNext, AccountedNext, AgesNext, HeldNext DEF IInv
    <2>2. CASE UNCHANGED vars
        <3>1. UNCHANGED <<entry, order, client, waits, pc, key, left, task, queue, out>>
            BY <2>2 DEF vars, cacheVars
        <3>2. \A l \in Lookup : Asked(l)' = Asked(l) BY <3>1, AskedSame
        <3>3. Shapes' BY <3>1 DEF IInv, Shapes
        <3>4. Asking' BY <3>1, <3>2 DEF IInv, Asking
        <3>5. Accounted' BY <3>1 DEF IInv, Accounted
        <3>6. Ages' BY <3>1 DEF IInv, Ages, ServedFresh
        <3>7. Held' BY <3>1 DEF IInv, Held
        <3> QED BY <3>3, <3>4, <3>5, <3>6, <3>7 DEF IInv
    <2> QED BY <2>1, <2>2
<1> QED BY <1>1, <1>2, PTL DEF Spec

\* The shape of every variable.
THEOREM TypeCorrect == Spec => []TypeOK
<1>1. IInv => TypeOK BY DEF IInv, Shapes, Held, TypeOK, Places, Futures
<1> QED BY <1>1, Invariance, PTL

\* cache.py: however lookups put and get, the cache never holds more than max_items, and it
\* knows which of any two keys it holds came first.
THEOREM Bounded == Spec => []CacheBounded
<1>1. IInv => CacheBounded BY DEF IInv, Held, Ranks, CacheBounded
<1> QED BY <1>1, Invariance, PTL

\* No answer and no cached aggregate misses a provider that had to be asked without saying
\* so, however many lookups share the pool (service.lookup, models.aggregate).
THEOREM NothingLost == Spec => []NothingLostSilently
<1>1. IInv => NothingLostSilently BY DEF IInv, Accounted, NothingLostSilently
<1> QED BY <1>1, Invariance, PTL

\* What is answered is as fresh as the timeout and the lifetime in the cache make it, also
\* when slow lookups put their values over newer ones.
THEOREM Fresh == Spec => []ServedFresh
<1>1. IInv => ServedFresh BY DEF IInv, Ages
<1> QED BY <1>1, Invariance, PTL

=============================================================================
