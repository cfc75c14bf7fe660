---------------------------- MODULE HoldChallenge ----------------------------
(***************************************************************************)
(* The press-and-hold dialog of the browser SDK,                           *)
(* packages/browser-sdk/src/interactive.ts: pointer, key and timer         *)
(* callbacks in any order, each running to its end, with timers that fire  *)
(* when they are due or later.                                             *)
(*                                                                         *)
(* A pointer's events and those of the Enter and Space keys drive the same *)
(* functions: both are a press or a release here, and may be mixed.        *)
(***************************************************************************)
EXTENDS Integers

CONSTANTS
    MinHold,     \* ticks of min_hold_ms
    MaxHold,     \* ticks of max_hold_ms
    CloseDelay,  \* ticks a finished dialog stays
    Variance     \* what the behaviour monitor may report as pointer_variance

ASSUME HoldAssumption ==
    /\ MinHold \in Nat \ {0} /\ MaxHold \in Nat /\ MinHold <= MaxHold
    /\ CloseDelay \in Nat
    /\ Variance # {} /\ Variance \subseteq Nat

VARIABLES
    shown,    \* whether the dialog is in the page
    active,   \* whether a press is on
    elapsed,  \* ticks since the latest press began, counted to MaxHold + 1
    timers,   \* ticks left to each pending finish()
    closing,  \* ticks left to each pending root.remove()
    outcome   \* what the promise was settled with, if it was

holdVars == <<shown, active, elapsed, timers, closing, outcome>>

Settle(o) == outcome' = IF outcome = {} THEN {o} ELSE outcome
TimedOut == [proof |-> FALSE, hold |-> 0, events |-> 0, variance |-> 0]
Proofs == [proof : {TRUE}, hold : MinHold .. MaxHold, events : {2}, variance : Variance]

\* One tick more, up to a cap, and one less, down to none.
Up(n, cap) == IF n < cap THEN n + 1 ELSE cap
Down(n) == IF n = 0 THEN 0 ELSE n - 1

HeldEnough == elapsed >= MinHold

\* What is left to the timer of the latest press.
Left == IF HeldEnough THEN 0 ELSE MinHold - elapsed

\* clearTimeout on that timer.
ClearTimer == timers' = timers \ {Left}

-----------------------------------------------------------------------------

NoDialog ==
    /\ shown = FALSE /\ active = FALSE
    /\ elapsed = MaxHold + 1
    /\ timers = {} /\ closing = {}
    /\ outcome = {}

\* runHoldChallenge; no press has begun, so any time since counts as long.
Open ==
    /\ shown' = TRUE
    /\ UNCHANGED <<active, elapsed, timers, closing, outcome>>

\* Slip: the press is not timed.
BeginUntimed ==
    /\ shown
    /\ IF active THEN UNCHANGED holdVars
       ELSE /\ active' = TRUE
            /\ elapsed' = 0
            /\ UNCHANGED <<shown, timers, closing, outcome>>

\* begin; a second pointer, or a key that repeats, changes nothing.
Begin ==
    /\ shown
    /\ IF active THEN UNCHANGED holdVars
       ELSE /\ active' = TRUE
            /\ elapsed' = 0
            /\ timers' = timers \cup {MinHold}
            /\ UNCHANGED <<shown, closing, outcome>>

\* Slip: the timer of the press goes on.
CancelKeepsTimer ==
    IF active THEN /\ active' = FALSE
                   /\ UNCHANGED <<shown, elapsed, timers, closing, outcome>>
              ELSE UNCHANGED holdVars

Cancel ==
    IF active THEN /\ active' = FALSE
                   /\ ClearTimer
                   /\ UNCHANGED <<shown, elapsed, closing, outcome>>
              ELSE UNCHANGED holdVars

\* However few events were counted, the proof says 2 at least; more are as good.
Succeed ==
    /\ \E v \in Variance :
          Settle([proof |-> TRUE, hold |-> elapsed, events |-> 2, variance |-> v])
    /\ closing' = closing \cup {CloseDelay}
    /\ UNCHANGED shown

\* Slip: a press is never too long.
FinishedAnyLength == Succeed

\* Slip: the dialog is only closed when the press succeeded.
FinishedStays ==
    IF elapsed > MaxHold THEN Settle(TimedOut) /\ UNCHANGED <<shown, closing>> ELSE Succeed

\* What finish does with a press that is on; the timer of one too long came too late.
Finished ==
    IF elapsed > MaxHold
    THEN /\ Settle(TimedOut)
         /\ shown' = FALSE
         /\ UNCHANGED closing
    ELSE Succeed

\* The timer that called finish, if one did, is `fired`.
Finish(fired) ==
    IF active THEN /\ active' = FALSE
                   /\ timers' = timers \ (fired \cup {Left})
                   /\ Finished
                   /\ UNCHANGED elapsed
              ELSE /\ timers' = timers \ fired
                   /\ UNCHANGED <<shown, active, elapsed, closing, outcome>>

\* pointerup and keyup.
Release ==
    /\ shown
    /\ IF HeldEnough THEN Finish({}) ELSE Cancel

PointerCancel == shown /\ Cancel

TimerFires == 0 \in timers /\ Finish({0})

CloseFires ==
    /\ 0 \in closing
    /\ closing' = closing \ {0}
    /\ shown' = FALSE
    /\ UNCHANGED <<active, elapsed, timers, outcome>>

HoldTick ==
    /\ elapsed' = Up(elapsed, MaxHold + 1)
    /\ timers' = {Down(t) : t \in timers}
    /\ closing' = {Down(t) : t \in closing}
    /\ UNCHANGED <<shown, active, outcome>>

HoldNext == Begin \/ Release \/ PointerCancel \/ TimerFires \/ CloseFires

-----------------------------------------------------------------------------

HoldTypeOK ==
    /\ shown \in BOOLEAN /\ active \in BOOLEAN
    /\ elapsed \in 0 .. MaxHold + 1
    /\ timers \subseteq 0 .. MinHold
    /\ closing \subseteq 0 .. CloseDelay
    /\ outcome \subseteq Proofs \cup {TimedOut}

\* Whatever order presses, releases, second pointers and late timers come in, a timer is
\* pending exactly while a press is on, and it is that press's own: none of an earlier
\* press can end a later one before its time, and no press is left without one.
PressTimed ==
    timers = IF active THEN {Left} ELSE {}

=============================================================================
