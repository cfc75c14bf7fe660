--------------------------- MODULE BrowserSDKProofs ---------------------------
(***************************************************************************)
(* Theorems of BrowserSDK: the dialog's timers, and that an honest proof   *)
(* is refused only for what the visitor or the network did.                *)
(***************************************************************************)
EXTENDS BrowserSDK, TLAPS

\* A promise is settled once.
OneOutcome == \A o, p \in outcome : o = p

Untouched == ~shown /\ ~active /\ outcome = {}

\* Until its first request has been answered the call has no dialog.
Unasked ==
    /\ request = "ask" => Untouched /\ phase \in {"asking", "failed"} /\ reply = "none"
    /\ phase \in {"collecting", "asking"} => Untouched /\ request # "proof"
    /\ phase = "collecting" => reply = "none"

\* What each later phase knows of the challenge and the dialog.
PhaseKnows ==
    /\ reply = "challenge" => params \in NewParams
    /\ phase = "holding" => params.kind = "interactive" /\ request = "none"
    /\ phase = "solving" =>
         /\ request = "none"
         /\ params \in NewParams
         /\ params.kind = "interactive" => outcome # {} /\ \A o \in outcome : o.proof

\* The challenge is at least as old as a press on its dialog, so that the floor the gateway
\* observes never refuses a press that was long enough.
OldEnough(n) == age >= n \/ age > TTL
PressYounger ==
    /\ active => OldEnough(elapsed)
    /\ outcome \subseteq {TimedOut} \/ OldEnough(MinHold)

\* A proof on its way is one of the challenge it answers.
ProofFits ==
    request = "proof" =>
        /\ proof.kind = params.kind /\ proof.bits = params.bits
        /\ params.kind = "interactive" =>
             /\ proof.hold \in MinHold .. MaxHold /\ proof.events = 2
             /\ OldEnough(MinHold)

IInv == TypeOK /\ PressTimed /\ OneOutcome /\ Unasked /\ PhaseKnows /\ PressYounger /\ ProofFits

-----------------------------------------------------------------------------

LEMMA Initially == Init => IInv
<1> SUFFICES ASSUME Init PROVE IInv
    OBVIOUS
<1>1. HoldTypeOK
    <2>1. NoDialog BY DEF Init
    <2>2. shown = FALSE /\ active = FALSE BY <2>1 DEF NoDialog
    <2>3. elapsed = MaxHold + 1 /\ timers = {} /\ closing = {} /\ outcome = {} BY <2>1 DEF NoDialog
    <2>4. elapsed \in 0 .. MaxHold + 1 BY <2>3, HoldAssumption
    <2> QED BY <2>2, <2>3, <2>4 DEF HoldTypeOK
<1>2. TypeOK
    <2>1. Timeout \in Nat /\ TTL \in Nat BY SDKAssumption
    <2>2. waited \in 0 .. Timeout /\ age \in 0 .. TTL + 1 BY <2>1 DEF Init
    <2>3. proof \in [kind : {"none", "pow", "interactive"}, bits : Nat, hold : Nat, events : Nat,
                      variance : Nat]
        BY DEF Init, NoProof
    <2> QED BY <1>1, <2>2, <2>3 DEF Init, TypeOK
<1>3. PressTimed /\ OneOutcome BY DEF Init, NoDialog, PressTimed, OneOutcome
<1>4. Unasked /\ PhaseKnows BY DEF Init, NoDialog, Unasked, Untouched, PhaseKnows
<1>5. PressYounger /\ ProofFits BY DEF Init, NoDialog, PressYounger, ProofFits
<1> QED BY <1>2, <1>3, <1>4, <1>5 DEF IInv

\* What a step of the dialog keeps and may change.
HoldKeeps ==
    /\ HoldTypeOK' /\ PressTimed' /\ OneOutcome'
    /\ active' => elapsed' = 0 \/ (active /\ elapsed' = elapsed)
    /\ outcome' = outcome \/ outcome' = {TimedOut} \/ (active /\ HeldEnough)
    /\ outcome # {} => outcome' = outcome
    /\ Untouched => Untouched'

LEMMA TimedOutTyped == TimedOut.proof = FALSE /\ TimedOut \notin Proofs
BY DEF TimedOut, Proofs

LEMMA FinishKeeps ==
    ASSUME HoldTypeOK, PressTimed, OneOutcome, NEW fired \in SUBSET {0}, Finish(fired),
           HeldEnough, fired \subseteq timers
    PROVE  HoldKeeps
<1>1. CASE ~active
    <2>1. timers = {} /\ fired = {} BY <1>1 DEF PressTimed
    <2> QED BY <1>1, <2>1 DEF Finish, HoldKeeps, HoldTypeOK, PressTimed, OneOutcome, Untouched,
                Left, HeldEnough
<1>2. CASE active
    <2>1. timers = {0} /\ Left = 0 BY <1>2 DEF PressTimed, Left
    <2>2. timers' = {} /\ active' = FALSE /\ elapsed' = elapsed BY <1>2, <2>1 DEF Finish
    <2>3. elapsed \in MinHold .. MaxHold \/ elapsed > MaxHold
        BY HoldAssumption DEF HoldTypeOK, HeldEnough
    <2>4. Finished BY <1>2 DEF Finish
    <2>5. shown' \in BOOLEAN /\ closing' \subseteq 0 .. CloseDelay
        <3>1. CASE elapsed > MaxHold BY <3>1, <2>4 DEF Finished, HoldTypeOK
        <3>2. CASE ~(elapsed > MaxHold)
            <4>1. shown' = shown /\ closing' = closing \cup {CloseDelay}
                BY <3>2, <2>4 DEF Finished, Succeed
            <4> QED BY <4>1, HoldAssumption DEF HoldTypeOK
        <3> QED BY <3>1, <3>2
    <2>6. \E o \in Proofs \cup {TimedOut} : Settle(o)
        <3>1. CASE elapsed > MaxHold BY <3>1, <2>4 DEF Finished
        <3>2. CASE ~(elapsed > MaxHold)
            <4>1. PICK v \in Variance :
                    Settle([proof |-> TRUE, hold |-> elapsed, events |-> 2, variance |-> v])
                BY <3>2, <2>4 DEF Finished, Succeed
            <4>2. [proof |-> TRUE, hold |-> elapsed, events |-> 2, variance |-> v] \in Proofs
                BY <3>2, <2>3 DEF Proofs
            <4> QED BY <4>1, <4>2
        <3> QED BY <3>1, <3>2
    <2>7. /\ outcome' \subseteq Proofs \cup {TimedOut}
          /\ OneOutcome'
          /\ outcome # {} => outcome' = outcome
        BY <2>6 DEF Settle, OneOutcome, HoldTypeOK
    <2> QED BY <1>2, <2>2, <2>5, <2>7 DEF HoldKeeps, HoldTypeOK, PressTimed, Untouched
<1> QED BY <1>1, <1>2

LEMMA CancelKeeps ==
    ASSUME HoldTypeOK, PressTimed, OneOutcome, Cancel
    PROVE  HoldKeeps
<1>1. CASE ~active
    BY <1>1 DEF Cancel, holdVars, HoldKeeps, HoldTypeOK, PressTimed, OneOutcome, Untouched, Left,
        HeldEnough
<1>2. CASE active
    <2>1. timers' = {} /\ ~active' BY <1>2 DEF Cancel, ClearTimer, PressTimed
    <2> QED BY <1>2, <2>1 DEF Cancel, HoldKeeps, HoldTypeOK, PressTimed, OneOutcome, Untouched
<1> QED BY <1>1, <1>2

LEMMA HoldStep ==
    ASSUME HoldTypeOK, PressTimed, OneOutcome, HoldNext
    PROVE  HoldKeeps
<1>1. CASE Begin
    <2>1. CASE active
        BY <1>1, <2>1 DEF Begin, holdVars, HoldKeeps, HoldTypeOK, PressTimed, OneOutcome, Untouched,
            Left, HeldEnough
    <2>2. CASE ~active
        <3>1. timers' = {MinHold} BY <1>1, <2>2 DEF Begin, PressTimed
        <3>2. Left' = MinHold BY <1>1, <2>2, HoldAssumption DEF Begin, Left, HeldEnough
        <3>3. /\ shown /\ shown' = shown /\ active' = TRUE /\ elapsed' = 0
              /\ closing' = closing /\ outcome' = outcome
            BY <1>1, <2>2 DEF Begin
        <3>4. HoldTypeOK' BY <3>1, <3>3, HoldAssumption DEF HoldTypeOK
        <3> QED BY <3>1, <3>2, <3>3, <3>4 DEF HoldKeeps, PressTimed, OneOutcome, Untouched
    <2> QED BY <2>1, <2>2
<1>2. CASE Release
    BY <1>2, FinishKeeps, CancelKeeps DEF Release
<1>3. CASE PointerCancel
    BY <1>3, CancelKeeps DEF PointerCancel
<1>4. CASE TimerFires
    <2>1. HeldEnough
        BY <1>4, HoldAssumption DEF TimerFires, PressTimed, Left, HeldEnough, HoldTypeOK
    <2> QED BY <1>4, <2>1, FinishKeeps DEF TimerFires
<1>5. CASE CloseFires
    BY <1>5 DEF CloseFires, HoldKeeps, HoldTypeOK, PressTimed, OneOutcome, Untouched, Left, HeldEnough
<1> QED BY <1>1, <1>2, <1>3, <1>4, <1>5 DEF HoldNext

LEMMA TickKeeps ==
    ASSUME HoldTypeOK, PressTimed, OneOutcome, HoldTick
    PROVE  /\ HoldTypeOK' /\ PressTimed' /\ OneOutcome'
           /\ elapsed' \in 0 .. elapsed + 1
<1>1. elapsed' \in 0 .. MaxHold + 1 /\ elapsed' \in 0 .. elapsed + 1
    BY HoldAssumption DEF HoldTick, HoldTypeOK, Up
<1>2. \A t \in Nat : Down(t) \in Nat /\ Down(t) <= t
    BY DEF Down
<1>3. timers' \subseteq 0 .. MinHold /\ closing' \subseteq 0 .. CloseDelay
    BY <1>2, HoldAssumption DEF HoldTick, HoldTypeOK
<1>4. HoldTypeOK'
    BY <1>1, <1>3 DEF HoldTick, HoldTypeOK
<1>5. PressTimed'
    <2>1. CASE active
        <3>1. timers' = {Down(Left)} BY <2>1 DEF HoldTick, PressTimed
        <3>2. Left' = Down(Left)
            BY HoldAssumption DEF HoldTick, HoldTypeOK, Left, HeldEnough, Down, Up
        <3> QED BY <2>1, <3>1, <3>2 DEF HoldTick, PressTimed
    <2>2. CASE ~active
        BY <2>2 DEF HoldTick, PressTimed
    <2> QED BY <2>1, <2>2
<1>6. OneOutcome' BY DEF HoldTick, OneOutcome
<1> QED BY <1>1, <1>4, <1>5, <1>6

\* The dialog's part of the invariant does not change with it.
LEMMA HoldUnchanged ==
    ASSUME HoldTypeOK, PressTimed, OneOutcome, UNCHANGED holdVars
    PROVE  HoldTypeOK' /\ PressTimed' /\ OneOutcome'
BY DEF holdVars, HoldTypeOK, PressTimed, OneOutcome, Left, HeldEnough

LEMMA Step == IInv /\ [Next]_vars => IInv'
<1> SUFFICES ASSUME IInv, [Next]_vars PROVE IInv'
    OBVIOUS
<1> USE DEF IInv
<1>h. HoldTypeOK /\ PressTimed /\ OneOutcome
    BY DEF TypeOK
<1>u. ASSUME UNCHANGED holdVars PROVE HoldTypeOK' /\ PressTimed' /\ OneOutcome'
    BY <1>h, <1>u, HoldUnchanged
<1>1. CASE Collected
    BY <1>1, <1>u, SDKAssumption DEF Collected, Post, TypeOK, Unasked, Untouched, PhaseKnows, PressYounger,
        ProofFits, OldEnough, holdVars, gatewayVars
<1>2. CASE Offered
    <2>0. /\ UNCHANGED <<active, elapsed, timers, closing, outcome>>
          /\ shown' \in {shown, TRUE}
        BY <1>2 DEF Offered, Open, holdVars
    <2>1. HoldTypeOK' /\ PressTimed' /\ OneOutcome'
        BY <1>h, <2>0 DEF HoldTypeOK, PressTimed, OneOutcome, Left, HeldEnough
    <2>2. /\ phase' \in {"token", "failed", "solving", "holding"}
          /\ phase' = "solving" => reply = "challenge" /\ params.kind = "pow"
          /\ phase' = "holding" => params.kind = "interactive"
          /\ waited' = waited /\ request' = request /\ proof' = proof /\ reply' = "none"
          /\ UNCHANGED gatewayVars
        BY <1>2 DEF Offered, End
    <2>3. phase = "asking" /\ request = "none" BY <1>2 DEF Offered, Unasked, TypeOK
    <2>t. roamed' \in BOOLEAN /\ challenge' = challenge /\ params' = params /\ age' = age
        BY <2>2 DEF TypeOK, gatewayVars
    <2>4. TypeOK'
        <3>1. phase' \in {"collecting", "asking", "holding", "solving", "verifying", "token", "failed"}
            BY <2>2
        <3> QED BY <2>1, <2>2, <2>t, <3>1 DEF TypeOK
    <2>5. Unasked' BY <1>2, <2>0, <2>2, <2>3 DEF Unasked, Untouched
    <2>6. PhaseKnows' BY <2>0, <2>2, <2>3 DEF PhaseKnows, gatewayVars
    <2>7. PressYounger' /\ ProofFits'
        BY <2>0, <2>2, <2>3 DEF PressYounger, ProofFits, OldEnough, gatewayVars
    <2> QED BY <2>1, <2>4, <2>5, <2>6, <2>7
<1>3. CASE Held
    BY <1>3, <1>u, SDKAssumption DEF Held, End, OneOutcome, TypeOK, Unasked, Untouched, PhaseKnows, PressYounger,
        ProofFits, OldEnough, holdVars, gatewayVars
<1>4. CASE Solved
    <2>1. params \in NewParams /\ params.kind \in {"pow", "interactive"} /\ params.bits \in Nat
        BY <1>4 DEF Solved, PhaseKnows, NewParams
    <2>2. /\ proof' \in [kind : {"none", "pow", "interactive"}, bits : Nat, hold : Nat,
                          events : Nat, variance : Nat]
          /\ proof'.kind = params.kind /\ proof'.bits = params.bits
          /\ params.kind = "interactive" =>
               proof'.hold \in MinHold .. MaxHold /\ proof'.events = 2 /\ OldEnough(MinHold)
        <3>1. CASE params.kind = "pow"
            BY <1>4, <2>1, <3>1 DEF Solved, Proof
        <3>2. CASE params.kind = "interactive"
            <4>1. PICK o \in outcome : proof' = Proof(params.bits, o.hold, o.events, o.variance)
                BY <1>4, <3>2 DEF Solved
            <4>2. o.proof BY <1>4, <3>2 DEF Solved, PhaseKnows
            <4>3. o \in Proofs /\ o # TimedOut
                BY <1>h, <4>2, TimedOutTyped DEF HoldTypeOK
            <4>4. o.hold \in MinHold .. MaxHold /\ o.events = 2 /\ o.variance \in Nat
                BY <4>3, HoldAssumption DEF Proofs
            <4>5. OldEnough(MinHold) BY <4>3 DEF PressYounger
            <4> QED BY <2>1, <3>2, <4>1, <4>4, <4>5, HoldAssumption DEF Proof
        <3> QED BY <2>1, <3>1, <3>2
    <2> QED BY <1>4, <1>u, <2>1, <2>2, SDKAssumption DEF Solved, Post, TypeOK, Unasked, Untouched,
        PhaseKnows, PressYounger, ProofFits, OldEnough, holdVars, gatewayVars
<1>5. CASE Unsolved \/ Judged \/ Abort
    BY <1>5, <1>u, SDKAssumption DEF Unsolved, Judged, Abort, End, TypeOK, Unasked, Untouched, PhaseKnows, PressYounger,
        ProofFits, OldEnough, holdVars, gatewayVars
<1>6. CASE GatewayIssues
    BY <1>6, <1>u, SDKAssumption DEF GatewayIssues, TypeOK, Unasked, Untouched, PhaseKnows, PressYounger,
        ProofFits, OldEnough, holdVars, gatewayVars
<1>7. CASE GatewayVerifies
    BY <1>7, <1>u, SDKAssumption DEF GatewayVerifies, TypeOK, Unasked, Untouched, PhaseKnows, PressYounger,
        ProofFits, OldEnough, holdVars, gatewayVars
<1>8. CASE Visitor
    <2>1. HoldKeeps /\ UNCHANGED sdkVars BY <1>8, <1>h, HoldStep DEF Visitor
    <2>2. TypeOK' BY <2>1 DEF HoldKeeps, TypeOK, sdkVars, gatewayVars
    <2>3. Unasked' BY <2>1 DEF HoldKeeps, Unasked, sdkVars, Untouched
    <2>4. PhaseKnows'
        <3>1. CASE phase # "solving" BY <2>1, <3>1 DEF PhaseKnows, sdkVars, gatewayVars
        <3>2. CASE phase = "solving"
            BY <2>1, <3>2 DEF HoldKeeps, PhaseKnows, sdkVars, gatewayVars
        <3> QED BY <3>1, <3>2
    <2>5. PressYounger'
        BY <2>1, <1>h, HoldAssumption DEF HoldKeeps, PressYounger, OldEnough, sdkVars, gatewayVars, HeldEnough,
            TypeOK, HoldTypeOK
    <2>6. ProofFits' BY <2>1 DEF ProofFits, OldEnough, sdkVars, gatewayVars
    <2> QED BY <2>1, <2>2, <2>3, <2>4, <2>5, <2>6 DEF HoldKeeps
<1>9. CASE Lose \/ Roam \/ GatewayRestarts
    <2>1. UNCHANGED <<holdVars, phase, waited, proof, params, age>>
        BY <1>9 DEF Lose, Roam, GatewayRestarts, gatewayVars
    <2>2. /\ request' \in {request, "none"} /\ reply' \in {reply, "none"}
          /\ challenge' \in {challenge, "lost"} /\ roamed' \in {roamed, TRUE}
        BY <1>9 DEF Lose, Roam, GatewayRestarts, gatewayVars
    <2>t. roamed' \in BOOLEAN BY <2>2 DEF TypeOK
    <2>3. TypeOK' BY <1>u, <2>1, <2>2, <2>t DEF TypeOK
    <2>4. Unasked' /\ PhaseKnows' BY <2>1, <2>2 DEF Unasked, Untouched, PhaseKnows, holdVars
    <2>5. PressYounger' /\ ProofFits' BY <2>1, <2>2 DEF PressYounger, ProofFits, OldEnough, holdVars
    <2> QED BY <1>u, <2>1, <2>3, <2>4, <2>5
<1>10. CASE Tick
    <2>1. /\ HoldTypeOK' /\ PressTimed' /\ OneOutcome' /\ elapsed' \in 0 .. elapsed + 1
          /\ UNCHANGED <<shown, active, outcome>>
        BY <1>10, <1>h, TickKeeps DEF Tick, HoldTick
    <2>2. UNCHANGED <<phase, request, proof, reply, challenge, params, roamed>>
        BY <1>10 DEF Tick
    <2>3. waited' \in 0 .. Timeout /\ age' \in 0 .. TTL + 1
        BY <1>10, SDKAssumption DEF Tick, Up, TypeOK
    <2>4. age' = age + 1 \/ (age' = age /\ age > TTL) \/ age' > TTL
        BY <1>10, SDKAssumption DEF Tick, Up, TypeOK
    <2>7. TypeOK' BY <2>1, <2>2, <2>3 DEF TypeOK
    <2>8. PressYounger'
        BY <1>h, <2>1, <2>4, HoldAssumption, SDKAssumption DEF PressYounger, OldEnough, TypeOK, HoldTypeOK
    <2>9. ProofFits' BY <2>2, <2>4, HoldAssumption, SDKAssumption DEF ProofFits, OldEnough, TypeOK
    <2>10. Unasked' /\ PhaseKnows' BY <2>1, <2>2 DEF Unasked, Untouched, PhaseKnows
    <2> QED BY <2>1, <2>7, <2>8, <2>9, <2>10
<1>11. CASE UNCHANGED vars
    BY <1>11, <1>u, SDKAssumption DEF vars, sdkVars, TypeOK, Unasked, Untouched, PhaseKnows, PressYounger,
        ProofFits, OldEnough, holdVars, gatewayVars
<1> QED BY <1>1, <1>2, <1>3, <1>4, <1>5, <1>6, <1>7, <1>8, <1>9, <1>10, <1>11 DEF Next

LEMMA Invariance == Spec => []IInv
<1>1. Init => IInv BY Initially
<1>2. IInv /\ [Next]_vars => IInv' BY Step
<1> QED BY <1>1, <1>2, PTL DEF Spec

\* The call, the dialog and the gateway's record keep their shape, and a proof of a hold
\* says a length the gateway takes: for every choice of the times.
THEOREM TypeCorrect == Spec => []TypeOK
BY Invariance, PTL DEF IInv

\* Whatever order the callbacks of interactive.ts run in, a timer is pending exactly while
\* a press is on, and is its own.
THEOREM PressTimedProved == Spec => []PressTimed
BY Invariance, PTL DEF IInv

\* challenge.Verify refuses no proof of a challenge that is open and alive, of a visitor on
\* the same network whose pointer was not too fast.
LEMMA GoodProof ==
    ASSUME IInv, request = "proof", age <= TTL, proof.variance <= 10
    PROVE  VerifyProof
<1>1. proof.bits \in Nat /\ proof.kind = params.kind /\ proof.bits >= params.bits
    BY DEF IInv, TypeOK, ProofFits
<1>2. CASE params.kind = "interactive"
    <2>1. proof.hold \in MinHold .. MaxHold /\ proof.events = 2 /\ age >= MinHold
        BY <1>2, SDKAssumption DEF IInv, TypeOK, ProofFits, OldEnough
    <2>2. age >= MinHold - Tolerance
        BY <2>1, HoldAssumption, SDKAssumption DEF IInv, TypeOK
    <2> QED BY <1>1, <2>1, <2>2 DEF VerifyProof
<1>3. CASE params.kind # "interactive"
    BY <1>1, <1>3 DEF VerifyProof
<1> QED BY <1>2, <1>3

\* However the visitor used the button and however late the browser's timers were, only an
\* expired or lost challenge, another network or a wild pointer has a proof refused.
THEOREM HonestProof == Spec => HonestProofAccepted
<1> DEFINE Accepts ==
      (request = "proof" /\ reply = "none" /\ reply' = "error" /\ challenge' # "redeemed") =>
          \/ challenge # "open" \/ age > TTL \/ roamed
          \/ proof.variance > 10
<1>1. IInv /\ [Next]_vars => Accepts
    <2> SUFFICES ASSUME IInv, [Next]_vars, request = "proof", reply = "none", reply' = "error",
                        challenge' # "redeemed", challenge = "open", ~(age > TTL), ~roamed,
                        ~(proof.variance > 10)
                 PROVE  FALSE
        OBVIOUS
    <2>1. GatewayVerifies
        BY DEF Next, vars, sdkVars, Collected, Offered, Held, Solved, Unsolved, Judged, Abort, GatewayIssues,
            Visitor, Lose, Roam, GatewayRestarts, Tick
    <2>2. age <= TTL /\ proof.variance <= 10 BY SDKAssumption DEF IInv, TypeOK
    <2>3. VerifyProof BY <2>2, GoodProof
    <2> QED BY <2>1, <2>3 DEF GatewayVerifies
<1>2. Spec => [][Accepts]_vars
    BY <1>1, Invariance, PTL DEF Spec
<1> QED BY <1>2 DEF HonestProofAccepted

=============================================================================
