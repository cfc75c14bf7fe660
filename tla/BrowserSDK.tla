------------------------------ MODULE BrowserSDK ------------------------------
(***************************************************************************)
(* One call of BerryShield.execute (packages/browser-sdk/src/index.ts),    *)
(* with the hold dialog and the proof of work, against a gateway behind a  *)
(* network that delays and loses requests and answers.                     *)
(*                                                                         *)
(* Ticks are not to scale: what matters is which of two times passes       *)
(* first.  Of the gateway only what this call meets is here: its challenge *)
(* and challenge.Verify; modules MemoryStore and Gateway have the rest.    *)
(***************************************************************************)
EXTENDS HoldChallenge

CONSTANTS
    Timeout,    \* ticks of timeoutMs
    TTL,        \* ticks of the site's challenge_ttl_seconds
    Tolerance   \* ticks by which the server-observed hold may be shorter

ASSUME SDKAssumption == {Timeout, TTL, Tolerance} \subseteq Nat

VARIABLES
    phase,      \* where execute is
    waited,     \* ticks since its post() began, counted to Timeout
    request,    \* what is on its way to the gateway
    proof,      \* the proof in that request
    reply,      \* what is on its way back
    challenge,  \* the gateway's record: "none", "open", "redeemed", or "lost" in a restart
    params,     \* its kind and the work it asks for
    age,        \* ticks since it was created, counted to TTL + 1
    roamed      \* whether the visitor has changed networks since

gatewayVars == <<challenge, params, age, roamed>>
sdkVars == <<phase, waited, request, proof, reply, gatewayVars>>
vars == <<holdVars, sdkVars>>

NoProof == [kind |-> "none", bits |-> 0, hold |-> 0, events |-> 0, variance |-> 0]

-----------------------------------------------------------------------------
(* The gateway.                                                              *)

\* What challenge.New asks for; the difficulty of a proof of work follows the score.
NewParams == [kind : {"pow"}, bits : {16, 17}] \cup [kind : {"interactive"}, bits : {14}]

\* challenge.Verify.
VerifyProof ==
    /\ age <= TTL
    /\ proof.kind = params.kind
    /\ proof.bits >= params.bits
    /\ params.kind = "interactive" =>
         /\ proof.hold \in MinHold .. MaxHold
         /\ age >= MinHold - Tolerance
         /\ proof.events >= 2
         /\ proof.variance <= 10

GatewayIssues ==
    /\ request = "ask"
    /\ request' = "none"
    /\ \/ /\ reply' \in {"token", "error"}    \* "error": blocked, refused or failed
          /\ UNCHANGED <<challenge, params, age>>
       \/ /\ reply' = "challenge"
          /\ challenge' = "open"
          /\ params' \in NewParams
          /\ age' = 0
    /\ UNCHANGED <<holdVars, phase, waited, proof, roamed>>

\* An accepted proof still ends in an error when minting the token fails.
GatewayVerifies ==
    /\ request = "proof"
    /\ request' = "none"
    /\ IF challenge = "open" /\ ~roamed /\ VerifyProof
       THEN challenge' = "redeemed" /\ reply' \in {"token", "error"}
       ELSE reply' = "error" /\ UNCHANGED challenge
    /\ UNCHANGED <<holdVars, phase, waited, proof, params, age, roamed>>

-----------------------------------------------------------------------------
(* The call.                                                                 *)

Post(what) == request' = what /\ waited' = 0
End(how) == phase' = how /\ UNCHANGED <<waited, request, proof>>

\* collectSignals is done; its probe is fetched without a deadline.
Collected ==
    /\ phase = "collecting"
    /\ phase' = "asking"
    /\ Post("ask")
    /\ UNCHANGED <<holdVars, proof, reply, gatewayVars>>

Offered ==
    /\ phase = "asking" /\ reply # "none"
    /\ reply' = "none"
    /\ \/ reply = "token" /\ End("token") /\ UNCHANGED holdVars
       \/ reply = "error" /\ End("failed") /\ UNCHANGED holdVars
       \/ reply = "challenge" /\ params.kind = "pow" /\ End("solving") /\ UNCHANGED holdVars
       \/ reply = "challenge" /\ params.kind = "interactive" /\ End("holding") /\ Open
    /\ UNCHANGED gatewayVars

Held ==
    /\ phase = "holding"
    /\ \E o \in outcome : End(IF o.proof THEN "solving" ELSE "failed")
    /\ UNCHANGED <<holdVars, reply, gatewayVars>>

Proof(bits, hold, events, variance) ==
    [kind |-> params.kind, bits |-> bits, hold |-> hold, events |-> events, variance |-> variance]

\* Slip: the difficulty in the challenge is not read.
SolvedDefault ==
    /\ phase = "solving"
    /\ phase' = "verifying"
    /\ Post("proof")
    /\ \/ params.kind = "pow" /\ proof' = Proof(16, 0, 0, 0)
       \/ /\ params.kind = "interactive"
          /\ \E o \in outcome : proof' = Proof(14, o.hold, o.events, o.variance)
    /\ UNCHANGED <<holdVars, reply, gatewayVars>>

\* solvePow found a nonce, perhaps after a page that slept through the deadline.
Solved ==
    /\ phase = "solving"
    /\ phase' = "verifying"
    /\ Post("proof")
    /\ \/ params.kind = "pow" /\ proof' = Proof(params.bits, 0, 0, 0)
       \/ /\ params.kind = "interactive"
          /\ \E o \in outcome : proof' = Proof(params.bits, o.hold, o.events, o.variance)
    /\ UNCHANGED <<holdVars, reply, gatewayVars>>

\* No WebCrypto, no nonce below the limit, or the deadline.
Unsolved ==
    /\ phase = "solving"
    /\ End("failed")
    /\ UNCHANGED <<holdVars, reply, gatewayVars>>

Judged ==
    /\ phase = "verifying" /\ reply # "none"
    /\ reply' = "none"
    /\ End(IF reply = "token" THEN "token" ELSE "failed")
    /\ UNCHANGED <<holdVars, gatewayVars>>

\* Slip: only the first request has a timeout.
AbortAsking ==
    /\ phase = "asking"
    /\ waited = Timeout
    /\ End("failed")
    /\ UNCHANGED <<holdVars, reply, gatewayVars>>

\* The request, or its effect at the gateway, may outlive the abort.
Abort ==
    /\ phase \in {"asking", "verifying"}
    /\ waited = Timeout
    /\ End("failed")
    /\ UNCHANGED <<holdVars, reply, gatewayVars>>

-----------------------------------------------------------------------------
(* The visitor, the network, the clock, and restarts of the gateway.         *)

Visitor == HoldNext /\ UNCHANGED sdkVars

Lose ==
    /\ \/ request # "none" /\ request' = "none" /\ UNCHANGED reply
       \/ reply # "none" /\ reply' = "none" /\ UNCHANGED request
    /\ UNCHANGED <<holdVars, phase, waited, proof, gatewayVars>>

Roam ==
    /\ challenge = "open" /\ ~roamed
    /\ roamed' = TRUE
    /\ UNCHANGED <<holdVars, phase, waited, request, proof, reply, challenge, params, age>>

GatewayRestarts ==
    /\ challenge = "open"
    /\ challenge' = "lost"
    /\ UNCHANGED <<holdVars, phase, waited, request, proof, reply, params, age, roamed>>

Tick ==
    /\ HoldTick
    /\ waited' = Up(waited, Timeout)
    /\ age' = Up(age, TTL + 1)
    /\ UNCHANGED <<phase, request, proof, reply, challenge, params, roamed>>

Init ==
    /\ NoDialog
    /\ phase = "collecting" /\ waited = 0
    /\ request = "none" /\ proof = NoProof /\ reply = "none"
    /\ challenge = "none" /\ params = [kind |-> "none", bits |-> 0] /\ age = 0
    /\ roamed = FALSE

Next ==
    \/ Collected \/ Offered \/ Held \/ Solved \/ Unsolved \/ Judged \/ Abort
    \/ GatewayIssues \/ GatewayVerifies
    \/ Visitor \/ Lose \/ Roam \/ GatewayRestarts \/ Tick

Spec == Init /\ [][Next]_vars

\* A browser runs the timers that are due, and the continuation of a settled promise; the
\* loop of solvePow ends at its deadline.  The visitor, the network and the gateway owe
\* nothing.
LiveSpec ==
    /\ Spec
    /\ WF_vars(Tick) /\ WF_vars(Abort)
    /\ WF_vars(TimerFires /\ UNCHANGED sdkVars) /\ WF_vars(CloseFires /\ UNCHANGED sdkVars)
    /\ WF_vars(Held) /\ WF_vars(Solved \/ Unsolved)

-----------------------------------------------------------------------------
(* Correctness.                                                              *)

\* The shape of the state; a proof of a hold says how long it was.
TypeOK ==
    /\ HoldTypeOK
    /\ phase \in {"collecting", "asking", "holding", "solving", "verifying", "token", "failed"}
    /\ waited \in 0 .. Timeout
    /\ request \in {"none", "ask", "proof"}
    /\ proof \in [kind : {"none", "pow", "interactive"}, bits : Nat, hold : Nat, events : Nat,
                  variance : Nat]
    /\ reply \in {"none", "token", "error", "challenge"}
    /\ challenge \in {"none", "open", "redeemed", "lost"}
    /\ params \in NewParams \cup {[kind |-> "none", bits |-> 0]}
    /\ age \in 0 .. TTL + 1
    /\ roamed \in BOOLEAN

\* docs/RED_TEAM.md:61, "no pointer movement requirement and successful completion": whatever
\* the visitor does with the button, by key or by pointer, and however late its timers are,
\* the proof the SDK sends is accepted, unless the challenge has expired or was lost, the
\* visitor is on another network, or the pointer's speed varied by more than 10 px/ms.
HonestProofAccepted ==
    [][(request = "proof" /\ reply = "none" /\ reply' = "error" /\ challenge' # "redeemed") =>
          \/ challenge # "open" \/ age > TTL \/ roamed
          \/ proof.variance > 10]_vars

\* Past the signals every wait of execute has an end but the visitor's: a request or an
\* answer that is lost, a gateway that never answers and a page that slept all end in a
\* token, an error or the dialog.
EveryCallEnds ==
    phase \in {"asking", "solving", "verifying"} ~> phase \in {"holding", "token", "failed"}

\* A press ends by itself: the visitor who keeps the button down is not left waiting.
EveryPressEnds == active ~> ~active

\* Once the press is done the dialog leaves the page, whether it succeeded or came too late.
DialogCloses == outcome # {} ~> ~shown

=============================================================================
