----------------------------- MODULE ProofLedger -----------------------------
(***************************************************************************)
(* What the gateway promises about one-time proofs, with its handlers,     *)
(* store, clock and counters left out: a request is answered with an offer *)
(* (a challenge) or a token; an offer can be redeemed once, for one token, *)
(* and once it is closed it stays closed; and a token is honoured once,    *)
(* unless it has expired or the process has been restarted since.          *)
(***************************************************************************)
EXTENDS Functions

CONSTANT Request     \* names offers and tokens alike

VARIABLES
    issued,   \* requests that were answered with an offer or a token
    open,     \* offers that can still be redeemed
    owed,     \* offers that were redeemed and whose token is not signed yet
    origin,   \* token -> the request it goes back to
    used,     \* tokens that were honoured and are remembered
    expired   \* tokens whose time is over

ledger == <<issued, open, owed, origin, used, expired>>

Init ==
    /\ issued = {} /\ open = {} /\ owed = {} /\ used = {} /\ expired = {}
    /\ origin = [t \in {} |-> t]

\* Offers may lapse, and expired tokens be forgotten, along with any other step.
Lapse(offers) == open' \subseteq offers
Forget(tokens) == tokens \ expired \subseteq used' /\ used' \subseteq tokens

Offer(i) ==
    /\ i \notin issued
    /\ issued' = issued \cup {i}
    /\ Lapse(open \cup {i})
    /\ Forget(used)
    /\ UNCHANGED <<owed, origin, expired>>

Redeem(i) ==
    /\ i \in open
    /\ open' = open \ {i}
    /\ owed' = owed \cup {i}
    /\ UNCHANGED <<issued, origin, used, expired>>

\* A token that is signed with no time left is expired at once.
Sign(t, i) ==
    /\ t \notin DOMAIN origin
    /\ origin' = [u \in DOMAIN origin \cup {t} |-> IF u = t THEN i ELSE origin[u]]
    /\ expired' = expired \/ expired' = expired \cup {t}
    /\ UNCHANGED <<open, used>>

Grant(i) ==
    /\ i \notin issued
    /\ issued' = issued \cup {i}
    /\ Sign(i, i)
    /\ UNCHANGED owed

Settle(i, t) ==
    /\ i \in owed
    /\ owed' = owed \ {i}
    /\ Sign(t, i)
    /\ UNCHANGED issued

Default(i) ==
    /\ i \in owed
    /\ owed' = owed \ {i}
    /\ UNCHANGED <<issued, open, origin, used, expired>>

Collect ==
    /\ Lapse(open)
    /\ Forget(used)
    /\ UNCHANGED <<issued, owed, origin, expired>>

Honour(t) ==
    /\ t \in DOMAIN origin
    /\ t \in used => t \in expired
    /\ Lapse(open)
    /\ Forget(used \cup {t})
    /\ t \in used'
    /\ UNCHANGED <<issued, owed, origin, expired>>

Expire ==
    /\ expired \subseteq expired'
    /\ expired' \subseteq DOMAIN origin
    /\ UNCHANGED <<issued, open, owed, origin, used>>

Restart ==
    /\ open' = {} /\ owed' = {} /\ used' = {}
    /\ UNCHANGED <<issued, origin, expired>>

Next ==
    \/ \E i \in Request : Offer(i) \/ Redeem(i) \/ Grant(i) \/ Default(i) \/ Honour(i)
    \/ \E i, t \in Request : Settle(i, t)
    \/ Collect \/ Expire \/ Restart

Spec == Init /\ [][Next]_ledger

-----------------------------------------------------------------------------

\* The promise: no two tokens go back to one request, and what has led to a token cannot be
\* redeemed again.
OneTokenEach ==
    /\ \A t, u \in DOMAIN origin : origin[t] = origin[u] => t = u
    /\ \A t \in DOMAIN origin : origin[t] \notin open \cup owed

\* It rests on this: offers and debts are of different requests that were answered.
Distinct ==
    /\ open \cup owed \subseteq issued /\ open \cap owed = {}
    /\ \A t \in DOMAIN origin : origin[t] \in issued

=============================================================================
