----------------------------- MODULE MemoryStore -----------------------------
(***************************************************************************)
(* The gateway's in-process state store, internal/store/memory.go: three   *)
(* maps guarded by one mutex.  Every exported method is one critical       *)
(* section, so every method is one action here; a map is a partial         *)
(* function, and a missing key is absence from its domain.                 *)
(*                                                                         *)
(* The module owns the clock the store reads.  Time is counted in ticks,   *)
(* the granularity at which two samples of the clock can be told apart.    *)
(***************************************************************************)
EXTENDS Integers, Functions

CONSTANT Minute   \* ticks in the rate limiter's window (time.Minute)

ASSUME MinuteAssumption == Minute \in Nat \ {0}

VARIABLES
    now,          \* the clock
    challenges,   \* challenge id -> challenge record
    spent,        \* token id (jti) -> the tick at which the token expires
    rates         \* rate key -> [start, count] of its current window

storeVars == <<challenges, spent, rates>>

EmptyMap == [x \in {} |-> x]

Put(map, key, value) ==
    [k \in DOMAIN map \cup {key} |-> IF k = key THEN value ELSE map[k]]

Without(map, key) == Restrict(map, DOMAIN map \ {key})

NewMemory ==
    /\ challenges = EmptyMap
    /\ spent = EmptyMap
    /\ rates = EmptyMap

-----------------------------------------------------------------------------
(* gcLocked: what each map keeps at the clock's present value.  "After" is   *)
(* strict, so an entry outlives its own deadline by the tick it names.       *)

LiveChallenges ==
    Restrict(challenges, {id \in DOMAIN challenges : now <= challenges[id].expiresAt})

\* Slip: an entry is dropped at the tick it names.  (A definition marked "Slip" is a
\* plausible bug in the one below it; the checks show that a property notices it.)
LiveSpentEarly == Restrict(spent, {jti \in DOMAIN spent : now < spent[jti]})

LiveSpent == Restrict(spent, {jti \in DOMAIN spent : now <= spent[jti]})

\* Slip: a window is dropped as soon as it is over.
LiveRatesEarly ==
    Restrict(rates, {key \in DOMAIN rates : now - rates[key].start < Minute})

LiveRates ==
    Restrict(rates, {key \in DOMAIN rates : now - rates[key].start <= 2 * Minute})

-----------------------------------------------------------------------------
(* The methods.  Get, Put and ConsumeJTI collect garbage first; Fail,        *)
(* ConsumeChallenge and AllowRate do not.                                    *)

PutChallenge(id, c) ==
    /\ challenges' = Put(LiveChallenges, id, c)
    /\ spent' = LiveSpent
    /\ rates' = LiveRates

\* The lookup's result is read from LiveChallenges by the caller.
GetChallenge ==
    /\ challenges' = LiveChallenges
    /\ spent' = LiveSpent
    /\ rates' = LiveRates

\* Slip: one failure too many.
FailChallengeLate(id, maxAttempts) ==
    /\ challenges' =
         IF id \notin DOMAIN challenges THEN challenges
         ELSE IF challenges[id].attempts + 1 > maxAttempts
              THEN Without(challenges, id)
              ELSE Put(challenges, id, [challenges[id] EXCEPT !.attempts = @ + 1])
    /\ UNCHANGED <<spent, rates>>

\* The count is taken from the map under the lock, not from the copy that a
\* handler got earlier; a challenge that is gone stays gone.
FailChallenge(id, maxAttempts) ==
    /\ challenges' =
         IF id \notin DOMAIN challenges THEN challenges
         ELSE IF challenges[id].attempts + 1 >= maxAttempts
              THEN Without(challenges, id)
              ELSE Put(challenges, id, [challenges[id] EXCEPT !.attempts = @ + 1])
    /\ UNCHANGED <<spent, rates>>

\* Slip: the answer says nothing of what was there.
ConsumableAlways(id) == TRUE

\* ConsumeChallenge returns whether the id was there and deletes it.
Consumable(id) == id \in DOMAIN challenges

\* Slip: the challenge is looked up and not deleted.
ConsumeChallengeKept(id) == UNCHANGED <<challenges, spent, rates>>

ConsumeChallenge(id) ==
    /\ challenges' = Without(challenges, id)
    /\ UNCHANGED <<spent, rates>>

\* ConsumeJTI returns whether the id was absent after the collection.
Unspent(jti) == jti \notin DOMAIN LiveSpent

ConsumeJTI(jti, expiresAt) ==
    /\ challenges' = LiveChallenges
    /\ spent' = IF Unspent(jti) THEN Put(LiveSpent, jti, expiresAt) ELSE LiveSpent
    /\ rates' = LiveRates

\* AllowRate samples the clock before it takes the lock, so `sample` may lie in
\* the past.  It counts the request in the window it finds, or opens one.
RateWindow(key, sample, window) ==
    IF key \in DOMAIN rates /\ sample - rates[key].start < window
    THEN [start |-> rates[key].start, count |-> rates[key].count + 1]
    ELSE [start |-> sample, count |-> 1]

\* Slip: the count is not written back.
AllowRateLost(key, sample, window) ==
    /\ rates' = Put(rates, key, IF key \in DOMAIN rates THEN rates[key]
                                ELSE RateWindow(key, sample, window))
    /\ UNCHANGED <<challenges, spent>>

AllowRate(key, sample, window) ==
    /\ rates' = Put(rates, key, RateWindow(key, sample, window))
    /\ UNCHANGED <<challenges, spent>>

=============================================================================
