------------------------------ MODULE CallStore ------------------------------
(***************************************************************************)
(* The lifecycle columns of one row of the calls table and the compare-    *)
(* and-set statements of app/db/{calls,termination,transfers}.py, as       *)
(* operators on a record.  A statement S has a guard CanS(r), its WHERE    *)
(* clause, and a result S(r), its SET clause.  SQLite runs one writer at a *)
(* time, so a statement is one atomic step wherever it is used.            *)
(***************************************************************************)
EXTENDS Naturals

CONSTANT OrdinaryReasons   \* termination reasons a caller of terminate_call passes

SpecialReasons == {"none", "transfer_completed", "transfer_failed", "startup_recovery"}

(* No caller passes one of the reasons the transfer and recovery code owns. *)
ASSUME OrdinaryReasonsAssumption == OrdinaryReasons \cap SpecialReasons = {}

-----------------------------------------------------------------------------
EligibleStates == {"prewarming", "ready_to_activate", "activating", "active"}
TerminalStates == {"completed", "failed", "timed_out", "transferred"}
ClosedStates   == {"terminating"} \cup TerminalStates
CallStates     == EligibleStates \cup ClosedStates

(* transfer_outcome holds "<phase>:<text>" or NULL; a row sees at most one   *)
(* attempt, so the text never distinguishes two values of one phase.         *)
Outcomes == {"none", "joining", "in_progress", "completed", "failed"}

Row == [state   : CallStates,
        claimed : BOOLEAN,            \* termination_claimed
        reason  : OrdinaryReasons \cup SpecialReasons,
        outcome : Outcomes,           \* transfer_outcome
        joined  : BOOLEAN,            \* callee_joined
        dialed  : BOOLEAN]            \* callee_dialed

NewRow == [state |-> "prewarming", claimed |-> FALSE, reason |-> "none",
           outcome |-> "none", joined |-> FALSE, dialed |-> FALSE]

(* The terminal state a termination reason stands for.                       *)
TimedOutReasons  == {"time_limit", "setup_deadline", "watchdog_stale", "hold_timeout"}
CompletedReasons == {"callee_participant_leave", "callee_call_completed",
                     "conference_end", "voicemail_left", "owner_request",
                     "voice_model_end_call", "openai_terminal_event"}

ClassifyTerminalState(reason) ==
  CASE reason = "transfer_completed" -> "transferred"
    [] reason \in TimedOutReasons    -> "timed_out"
    [] reason \in CompletedReasons   -> "completed"
    [] OTHER                         -> "failed"

-----------------------------------------------------------------------------
(* Set-up: the promotion CASes, the one-shot flags, the callee dial claim.   *)

NextSetupState ==
  [s \in EligibleStates \ {"active"} |->
     CASE s = "prewarming"        -> "ready_to_activate"
       [] s = "ready_to_activate" -> "activating"
       [] s = "activating"        -> "active"]

CanPromote(r, from) == r.state = from
Promote(r, from)    == [r EXCEPT !.state = NextSetupState[from]]

CanSetJoined(r) == ~r.joined
SetJoined(r)    == [r EXCEPT !.joined = TRUE]

CanClaimDial(r) == /\ ~r.dialed
                   /\ ~r.claimed
                   /\ r.state \in {"prewarming", "ready_to_activate"}
ClaimDial(r)    == [r EXCEPT !.dialed = TRUE]

-----------------------------------------------------------------------------
(* Termination.                                                              *)

(* Seeded faults, here and below, named for the slip they make: each takes   *)
(* the place of the definition under it to show which property notices.      *)
ClaimAgain(r) ==                                  \* no check of the claim flag
  r.state \notin TerminalStates /\ r.outcome \notin {"in_progress", "completed"}

ClaimButKeepJoining(r, reason) ==                 \* the transfer is left joining
  [r EXCEPT !.claimed = TRUE, !.state = "terminating", !.reason = reason]

RecoverEndedCall(r, outcome) == r.outcome = outcome   \* ended rows too

RecoverPromotedAsDone(r, outcome) ==              \* a promotion taken for a handoff
  [r EXCEPT !.claimed = TRUE,
            !.state   = "terminating",
            !.reason  = IF outcome \in {"in_progress", "completed"}
                          THEN "transfer_completed" ELSE "startup_recovery",
            !.outcome = IF outcome = "in_progress" THEN "completed" ELSE outcome]

FinishAnyClaim(r, reason, outcome) ==             \* a stale claim finishes the call
  r.state = "terminating" /\ r.claimed

CanClaimTermination(r) ==
  /\ ~r.claimed
  /\ r.state \notin TerminalStates
  /\ r.outcome \notin {"in_progress", "completed"}

ClaimTermination(r, reason) ==
  [r EXCEPT !.claimed = TRUE,
            !.state   = "terminating",
            !.reason  = reason,
            !.outcome = IF @ = "joining" THEN "failed" ELSE @]

CanClaimRecovery(r, outcome) ==
  /\ r.outcome = outcome
  /\ r.state \notin TerminalStates

ClaimRecovery(r, outcome) ==
  [r EXCEPT !.claimed = TRUE,
            !.state   = "terminating",
            !.reason  = IF outcome = "completed" THEN "transfer_completed"
                                                 ELSE "startup_recovery",
            !.outcome = IF outcome \in {"none", "completed"} THEN outcome
                                                             ELSE "failed"]

CanFinishTermination(r, reason, outcome) ==
  /\ r.state = "terminating"
  /\ r.claimed
  /\ r.reason = reason
  /\ r.outcome = outcome

FinishTermination(r, reason) == [r EXCEPT !.state = ClassifyTerminalState(reason)]

-----------------------------------------------------------------------------
(* Owner transfer.                                                           *)

JoinAfterFailure(r) ==                            \* a failed attempt may be repeated
  r.outcome \in {"none", "failed"} /\ ~r.claimed /\ r.joined /\ r.state \in EligibleStates

FailWithoutPhase(r) == [r EXCEPT !.outcome = "left_on_hold"]   \* no "failed:" prefix

CanClaimJoining(r) ==
  /\ r.outcome = "none"
  /\ ~r.claimed
  /\ r.joined
  /\ r.state \in EligibleStates
ClaimJoining(r) == [r EXCEPT !.outcome = "joining"]

StillJoining(r) ==
  /\ r.outcome = "joining"
  /\ ~r.claimed
  /\ r.state \in EligibleStates

CanFailJoining(r) == StillJoining(r)
FailJoining(r)    == [r EXCEPT !.outcome = "failed"]

CanPromoteTransfer(r) == StillJoining(r)
PromoteTransfer(r) ==
  [r EXCEPT !.outcome = "in_progress",
            !.claimed = TRUE,
            !.state   = "terminating",
            !.reason  = "transfer_completed"]

Promoted(r, outcome) ==
  /\ r.outcome = outcome
  /\ r.claimed
  /\ r.state = "terminating"
  /\ r.reason = "transfer_completed"

CanCompleteTransfer(r) == Promoted(r, "in_progress")
CompleteTransfer(r)    == [r EXCEPT !.outcome = "completed"]

CanFailPromoted(r, expected) == Promoted(r, expected)
FailPromoted(r) == [r EXCEPT !.outcome = "failed", !.reason = "transfer_failed"]
=============================================================================
