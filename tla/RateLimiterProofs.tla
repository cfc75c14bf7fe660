-------------------------- MODULE RateLimiterProofs --------------------------
(* Proofs about RateLimiter. *)
EXTENDS RateLimiter, FiniteSetTheorems, TLAPS

\* What makes RateBound inductive.  A window in the store is the latest of its key: a
\* place was handed out either in that window, below its count, or in one that ended
\* before it began.  A key without a window had its last one collected, more than two
\* minutes after it began -- so that a sample at most LockWait old cannot reach back
\* into it.  Places of a key lie in one window and differ, or a minute apart.
Windows ==
    /\ \A c \in DOMAIN sampled :
         /\ c \notin DOMAIN slot
         /\ sampled[c].at <= now /\ now - sampled[c].at <= LockWait
    /\ \A c \in DOMAIN slot :
         LET k == slot[c].key
         IN  /\ slot[c].count >= 1
             /\ k \in DOMAIN rates =>
                  \/ slot[c].start = rates[k].start /\ slot[c].count <= rates[k].count
                  \/ slot[c].start + Minute <= rates[k].start
             /\ k \notin DOMAIN rates => slot[c].start + 2 * Minute < now
    /\ \A c, d \in DOMAIN slot :
         (c # d /\ slot[c].key = slot[d].key) =>
            \/ slot[c].start = slot[d].start /\ slot[c].count # slot[d].count
            \/ slot[c].start + Minute <= slot[d].start
            \/ slot[d].start + Minute <= slot[c].start

IInv == TypeOK /\ Windows

-----------------------------------------------------------------------------

\* The initial state satisfies the invariant.
LEMMA InitIInv == Init => IInv
  BY MinuteAssumption DEF Init, NewMemory, EmptyMap, IInv, TypeOK, Windows

\* Taking a clock sample.
LEMMA SampleIInv == ASSUME IInv, NEW c \in Caller, Sample(c) PROVE IInv'
<1> USE MinuteAssumption, LockWaitAssumption DEF Sample, Put, storeVars, IInv
<1> PICK key \in RateKeys : sampled' = Put(sampled, c, [key |-> key, at |-> now])
  OBVIOUS
<1>1. TypeOK'
  BY DEF TypeOK
<1>2. Windows'
  BY DEF Windows, TypeOK
<1> QED
  BY <1>1, <1>2

\* Being counted in the window the key has, or in a new one.
LEMMA AllowIInv == ASSUME IInv, NEW c \in Caller, Allow(c) PROVE IInv'
<1> USE MinuteAssumption, LockWaitAssumption DEF IInv
<1> DEFINE key == sampled[c].key
           at == sampled[c].at
           window == RateWindow(key, at, Minute)
<1>1. /\ key \in RateKeys /\ at \in Nat /\ now \in Nat
      /\ at <= now /\ now - at <= Minute
  BY DEF Allow, TypeOK, Windows
<1>2. window \in [start : Nat, count : Nat]
  BY <1>1 DEF RateWindow, TypeOK
<1>3. /\ DOMAIN rates' = DOMAIN rates \cup {key}
      /\ rates'[key] = window
      /\ \A k \in DOMAIN rates : k # key => rates'[k] = rates[k]
  BY DEF Allow, AllowRate, Put
<1>4. /\ DOMAIN slot' = DOMAIN slot \cup {c}
      /\ slot'[c] = [key |-> key, start |-> window.start, count |-> window.count]
      /\ \A d \in DOMAIN slot : d # c => slot'[d] = slot[d]
  BY DEF Allow, Put
<1>5. /\ DOMAIN sampled' \subseteq DOMAIN sampled
      /\ \A d \in DOMAIN sampled' : sampled'[d] = sampled[d]
      /\ UNCHANGED <<now, challenges, spent>>
  BY DEF Allow, AllowRate, Without, Restrict
<1>6. TypeOK'
  BY <1>1, <1>2, <1>3, <1>4, <1>5 DEF TypeOK
<1>7. \/ key \in DOMAIN rates /\ window.start = rates[key].start
         /\ window.count = rates[key].count + 1
      \/ key \in DOMAIN rates /\ rates[key].start + Minute <= at
         /\ window.start = at /\ window.count = 1
      \/ key \notin DOMAIN rates /\ window.start = at /\ window.count = 1
  BY <1>1 DEF RateWindow, TypeOK
\* Every place taken earlier in this window is below the new one, and every other
\* window of the key ended before this one began.
<1>8. ASSUME NEW d \in DOMAIN slot, slot[d].key = key
      PROVE  \/ slot[d].start = window.start /\ slot[d].count < window.count
             \/ slot[d].start + Minute <= window.start
  <2>1. slot[d].start \in Nat /\ slot[d].count \in Nat
    BY DEF TypeOK
  <2>2. key \in DOMAIN rates => rates[key].start \in Nat /\ rates[key].count \in Nat
    BY DEF TypeOK
  <2>3. /\ key \in DOMAIN rates =>
             \/ slot[d].start = rates[key].start /\ slot[d].count <= rates[key].count
             \/ slot[d].start + Minute <= rates[key].start
        /\ key \notin DOMAIN rates => slot[d].start + 2 * Minute < now
    BY <1>8 DEF Windows
  <2> QED
    BY <1>1, <1>2, <1>7, <2>1, <2>2, <2>3
<1>9. c \notin DOMAIN slot /\ c \notin DOMAIN sampled'
  BY DEF Allow, Windows, Without, Restrict
<1>10. \A d \in DOMAIN slot : d # c /\ slot'[d] = slot[d]
  BY <1>4, <1>9
<1>11. Windows'
  <2>1. \A d \in DOMAIN sampled' :
           /\ d \notin DOMAIN slot'
           /\ sampled'[d].at <= now' /\ now' - sampled'[d].at <= LockWait
    BY <1>4, <1>5, <1>9 DEF Windows
  <2>2. ASSUME NEW d \in DOMAIN slot'
        PROVE  LET k == slot'[d].key
               IN  /\ slot'[d].count >= 1
                   /\ k \in DOMAIN rates' =>
                        \/ slot'[d].start = rates'[k].start
                           /\ slot'[d].count <= rates'[k].count
                        \/ slot'[d].start + Minute <= rates'[k].start
                   /\ k \notin DOMAIN rates' => slot'[d].start + 2 * Minute < now'
    <3>1. CASE d = c
      BY <1>2, <1>3, <1>4, <1>7, <3>1 DEF TypeOK
    <3>2. CASE d # c /\ slot[d].key = key
      <4>1. slot[d].start \in Nat /\ slot[d].count \in Nat /\ slot[d].count >= 1
        BY <1>4, <3>2 DEF TypeOK, Windows
      <4> QED
        BY <1>2, <1>3, <1>4, <1>8, <1>10, <3>2, <4>1
    <3>3. CASE d # c /\ slot[d].key # key
      BY <1>3, <1>4, <1>5, <1>10, <3>3 DEF Windows
    <3> QED
      BY <3>1, <3>2, <3>3
  <2>3. ASSUME NEW d \in DOMAIN slot', NEW e \in DOMAIN slot', d # e,
               slot'[d].key = slot'[e].key
        PROVE  \/ slot'[d].start = slot'[e].start /\ slot'[d].count # slot'[e].count
               \/ slot'[d].start + Minute <= slot'[e].start
               \/ slot'[e].start + Minute <= slot'[d].start
    <3>1. CASE d # c /\ e # c
      BY <1>4, <1>10, <2>3, <3>1 DEF Windows
    <3>2. CASE d = c
      <4>1. e \in DOMAIN slot /\ slot[e].key = key /\ slot'[e] = slot[e]
            /\ slot[e].start \in Nat /\ slot[e].count \in Nat
        BY <1>4, <1>10, <2>3, <3>2 DEF TypeOK
      <4> QED
        BY <1>2, <1>4, <1>8, <3>2, <4>1
    <3>3. CASE e = c
      <4>1. d \in DOMAIN slot /\ slot[d].key = key /\ slot'[d] = slot[d]
            /\ slot[d].start \in Nat /\ slot[d].count \in Nat
        BY <1>4, <1>10, <2>3, <3>3 DEF TypeOK
      <4> QED
        BY <1>2, <1>4, <1>8, <3>3, <4>1
    <3> QED
      BY <3>1, <3>2, <3>3
  <2> QED
    BY <2>1, <2>2, <2>3 DEF Windows
<1> QED
  BY <1>6, <1>11

\* Collecting the windows that began more than two minutes ago.
LEMMA CollectIInv == ASSUME IInv, Collect PROVE IInv'
<1> USE MinuteAssumption, LockWaitAssumption DEF IInv
<1>1. /\ DOMAIN rates' \subseteq DOMAIN rates
      /\ \A k \in DOMAIN rates' : rates'[k] = rates[k]
      /\ \A k \in DOMAIN rates \ DOMAIN rates' : now - rates[k].start > 2 * Minute
      /\ UNCHANGED <<now, sampled, slot>>
  BY DEF Collect, GetChallenge, LiveRates, Restrict, TypeOK
<1>2. challenges' = EmptyMap /\ spent' = EmptyMap
  BY DEF Collect, GetChallenge, LiveChallenges, LiveSpent, Restrict, TypeOK, EmptyMap
<1>3. TypeOK'
  BY <1>1, <1>2 DEF TypeOK
<1>4. ASSUME NEW c \in DOMAIN slot', slot'[c].key \notin DOMAIN rates'
      PROVE  slot'[c].start + 2 * Minute < now'
  <2>1. slot[c].start \in Nat /\ now \in Nat /\ slot' = slot /\ now' = now
    BY <1>1 DEF TypeOK
  <2>2. CASE slot[c].key \notin DOMAIN rates
    BY <1>4, <2>1, <2>2 DEF Windows
  <2>3. CASE slot[c].key \in DOMAIN rates
    <3>1. rates[slot[c].key].start \in Nat
          /\ now - rates[slot[c].key].start > 2 * Minute
      BY <1>1, <1>4, <2>1, <2>3 DEF TypeOK
    <3>2. slot[c].start <= rates[slot[c].key].start
      BY <2>1, <2>3, <3>1 DEF Windows
    <3> QED
      BY <2>1, <3>1, <3>2
  <2> QED
    BY <2>2, <2>3
<1>5. Windows'
  BY <1>1, <1>4 DEF Windows
<1> QED
  BY <1>3, <1>5

\* Time passing, no waiting caller's sample growing older than LockWait.
LEMMA TickIInv == ASSUME IInv, Tick PROVE IInv'
<1> USE MinuteAssumption, LockWaitAssumption DEF IInv, Tick, storeVars
<1>1. TypeOK'
  BY DEF TypeOK
<1>2. ASSUME NEW c \in DOMAIN slot', slot'[c].key \notin DOMAIN rates'
      PROVE  slot'[c].start + 2 * Minute < now'
  BY <1>2 DEF TypeOK, Windows
<1>3. \A c \in DOMAIN sampled' :
         /\ c \notin DOMAIN slot'
         /\ sampled'[c].at <= now' /\ now' - sampled'[c].at <= LockWait
  BY DEF TypeOK, Windows
<1>4. Windows'
  BY <1>2, <1>3 DEF Windows
<1> QED
  BY <1>1, <1>4

-----------------------------------------------------------------------------

\* The invariant holds in every reachable state, for every window length, limit and
\* number of callers and keys, as long as no caller waits more than a window.
THEOREM Invariance == Spec => []IInv
<1>1. ASSUME IInv, [Next]_vars PROVE IInv'
  <2>1. CASE UNCHANGED vars
    BY <1>1, <2>1 DEF vars, storeVars, IInv, TypeOK, Windows
  <2>2. CASE \E c \in Caller : Sample(c) \/ Allow(c)
    BY <1>1, <2>2, SampleIInv, AllowIInv
  <2>3. CASE Collect \/ Tick
    BY <1>1, <2>3, CollectIInv, TickIInv
  <2> QED
    BY <1>1, <2>1, <2>2, <2>3 DEF Next
<1> QED
  BY InitIInv, <1>1, PTL DEF Spec

\* The callers let through in windows near c's all lie in c's own window: their counts
\* are distinct numbers from 1 to Limit.
LEMMA IInvRateBound == IInv => RateBound
<1> SUFFICES ASSUME IInv, NEW c \in DOMAIN slot
             PROVE  Cardinality(AdmittedNear(c)) <= Limit
  BY DEF RateBound
<1> USE MinuteAssumption, LimitAssumption
<1> DEFINE S == AdmittedNear(c)
           count == [d \in S |-> slot[d].count]
<1>1. ASSUME NEW d \in S, NEW e \in S, slot[d].count = slot[e].count PROVE d = e
  <2>1. /\ d \in DOMAIN slot /\ e \in DOMAIN slot /\ slot[d].key = slot[e].key
        /\ slot[d].start \in Nat /\ slot[e].start \in Nat /\ slot[c].start \in Nat
        /\ slot[d].start <= slot[c].start /\ slot[c].start < slot[d].start + Minute
        /\ slot[e].start <= slot[c].start /\ slot[c].start < slot[e].start + Minute
    BY DEF AdmittedNear, IInv, TypeOK
  <2> QED
    BY <1>1, <2>1 DEF IInv, Windows
<1>2. \A d \in S : slot[d].count \in 1..Limit
  BY DEF AdmittedNear, IInv, TypeOK, Windows
<1>3. count \in Injection(S, 1..Limit)
  BY <1>1, <1>2 DEF Injection, IsInjective
<1>4. IsFiniteSet(1..Limit) /\ Cardinality(1..Limit) = Limit
  BY FS_Interval
<1> QED
  BY <1>3, <1>4, FS_Injection, FS_CardinalityType

\* memory.go AllowRate: no stretch of overlapping windows lets through more than the
\* site's limit, whatever the interleaving of callers, clock samples and collections.
THEOREM RateBounded == Spec => []RateBound
  BY Invariance, IInvRateBound, PTL

\* memory.go AllowRate: no place in a window is handed out twice.
THEOREM PlacesDistinct == Spec => []OwnPlace
<1>1. IInv => OwnPlace
  BY MinuteAssumption DEF IInv, TypeOK, Windows, OwnPlace
<1> QED
  BY Invariance, <1>1, PTL

=============================================================================
