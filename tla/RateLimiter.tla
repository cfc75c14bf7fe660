----------------------------- MODULE RateLimiter -----------------------------
(***************************************************************************)
(* The fixed-window rate limiter of the store, memory.go: AllowRate, under *)
(* concurrent callers.  A caller samples the clock, then waits for the     *)
(* mutex, then is counted; meanwhile other traffic through the store       *)
(* collects windows that are two minutes old.                              *)
(***************************************************************************)
EXTENDS MemoryStore, FiniteSets

CONSTANTS
    Caller,     \* the calls of AllowRate
    RateKeys,   \* site key : network prefix : action
    Limit,      \* rate_limit_per_minute
    LockWait,   \* the longest wait between a caller's clock sample and its lock
    MaxTime     \* bound on the clock

ASSUME LimitAssumption == Limit \in Nat
ASSUME MaxTimeAssumption == MaxTime \in Nat

\* A goroutine does not wait a whole window for the mutex.
ASSUME LockWaitAssumption == LockWait \in 0..Minute

VARIABLES
    sampled,    \* waiting caller -> [key, at]: its key and its clock sample
    slot        \* counted caller -> [key, start, count]: the window as it left it

vars == <<now, storeVars, sampled, slot>>

Init ==
    /\ NewMemory
    /\ now = 0
    /\ sampled = EmptyMap
    /\ slot = EmptyMap

Sample(c) ==
    /\ c \notin DOMAIN sampled \cup DOMAIN slot
    /\ \E key \in RateKeys : sampled' = Put(sampled, c, [key |-> key, at |-> now])
    /\ UNCHANGED <<now, storeVars, slot>>

Allow(c) ==
    /\ c \in DOMAIN sampled
    /\ LET key == sampled[c].key
           window == RateWindow(key, sampled[c].at, Minute)
       IN  /\ AllowRate(key, sampled[c].at, Minute)
           /\ slot' = Put(slot, c, [key |-> key, start |-> window.start,
                                    count |-> window.count])
    /\ sampled' = Without(sampled, c)
    /\ UNCHANGED now

\* Any other call of the store that collects garbage.
Collect ==
    /\ GetChallenge
    /\ UNCHANGED <<now, sampled, slot>>

Tick ==
    /\ now < MaxTime
    /\ \A c \in DOMAIN sampled : now - sampled[c].at < LockWait
    /\ now' = now + 1
    /\ UNCHANGED <<storeVars, sampled, slot>>

Next ==
    \/ \E c \in Caller : Sample(c) \/ Allow(c)
    \/ Collect
    \/ Tick

Spec == Init /\ [][Next]_vars

-----------------------------------------------------------------------------

\* The shape of the limiter's variables.
TypeOK ==
    /\ now \in Nat
    /\ challenges = EmptyMap /\ spent = EmptyMap
    /\ DOMAIN rates \subseteq RateKeys
    /\ \A k \in DOMAIN rates : rates[k] \in [start : Nat, count : Nat]
    /\ DOMAIN sampled \subseteq Caller
    /\ \A c \in DOMAIN sampled : sampled[c] \in [key : RateKeys, at : Nat]
    /\ DOMAIN slot \subseteq Caller
    /\ \A c \in DOMAIN slot : slot[c] \in [key : RateKeys, start : Nat, count : Nat]

\* The callers that were let through, in windows of c's key that begin at most a
\* minute before c's.
AdmittedNear(c) ==
    {d \in DOMAIN slot :
        /\ slot[d].key = slot[c].key
        /\ slot[d].count <= Limit
        /\ slot[d].start <= slot[c].start
        /\ slot[c].start < slot[d].start + Minute}

\* Windows of one key never overlap, and none lets through more than the limit: in
\* any stretch of windows shorter than a minute at most rate_limit_per_minute calls
\* are allowed, though callers bring clock samples from before their turn at the lock
\* and windows are collected and opened again in between.
RateBound ==
    \A c \in DOMAIN slot : Cardinality(AdmittedNear(c)) <= Limit

\* Every caller holds a place of its own in the window that counted it, so that the
\* count the scorer is given as request_rate is never handed out twice.
OwnPlace ==
    \A c, d \in DOMAIN slot : slot[c] = slot[d] => c = d

=============================================================================
