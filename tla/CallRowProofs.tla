---------------------------- MODULE CallRowProofs ----------------------------
(***************************************************************************)
(* What CallRow promises for every set of termination reasons.  The        *)
(* inductive invariant adds to the checked invariants what the outstanding *)
(* tickets may say and how a terminal state follows from its reason.       *)
(***************************************************************************)
EXTENDS CallRow, TLAPS

(* A teardown task that finishes a handoff was handed a completed one, so    *)
(* no interleaving lets it finish one that is still in progress.             *)
TicketsSound ==
  \A t \in tickets : /\ t.reason = "transfer_completed" => t.outcome = "completed"
                     /\ t.reason # "none"

(* A terminal state is the one its reason stands for.                        *)
TerminalByReason ==
  row.state \in TerminalStates => row.state = ClassifyTerminalState(row.reason)

(* A claim made for the transfer keeps the outcome it was made for.          *)
HandoffReason ==
  row.reason = "transfer_completed" =>
    /\ row.outcome \in {"in_progress", "completed"}
    /\ row.state \in TerminalStates => row.outcome = "completed"

IInv == /\ TypeOK
        /\ ClaimConsistent
        /\ HandoffReason
        /\ TerminalByReason
        /\ TicketsSound

-----------------------------------------------------------------------------
LEMMA ReasonsDisjoint ==
  ASSUME NEW reason \in OrdinaryReasons
  PROVE  reason \notin SpecialReasons
  BY OrdinaryReasonsAssumption

LEMMA ClassifyRange ==
  ASSUME NEW reason
  PROVE  /\ ClassifyTerminalState(reason) \in TerminalStates
         /\ ClassifyTerminalState(reason) = "transferred" <=> reason = "transfer_completed"
  BY DEF ClassifyTerminalState, TerminalStates, TimedOutReasons, CompletedReasons

(* Every write of the set-up phase leaves the termination columns alone and  *)
(* moves only rows that nobody has claimed.                                  *)
LEMMA SetupStep ==
  ASSUME IInv, Setup
  PROVE  IInv'
<1> USE DEF IInv, TypeOK, ClaimConsistent, HandoffReason, TerminalByReason, TicketsSound,
            Row, Write, CallStates, ClosedStates, TerminalStates, EligibleStates
<1>1. ASSUME NEW from \in DOMAIN NextSetupState,
             Write(CanPromote(row, from), Promote(row, from))
      PROVE  IInv'
  <2>1. /\ from \in {"prewarming", "ready_to_activate", "activating"}
        /\ NextSetupState[from] \in EligibleStates
    BY <1>1 DEF NextSetupState
  <2>2. /\ row' = [row EXCEPT !.state = NextSetupState[from]]
        /\ row.state = from
        /\ tickets' \subseteq tickets
        /\ booting' = booting
    BY <1>1 DEF CanPromote, Promote
  <2>3. QED
    BY <2>1, <2>2
<1>2. CASE Write(CanSetJoined(row), SetJoined(row))
  BY <1>2 DEF CanSetJoined, SetJoined
<1>3. CASE Write(CanClaimDial(row), ClaimDial(row))
  BY <1>3 DEF CanClaimDial, ClaimDial
<1>4. QED
  BY <1>1, <1>2, <1>3 DEF Setup

(* A termination claim closes an unclaimed row and settles a joining         *)
(* transfer as failed in the same statement.                                 *)
LEMMA TerminateStep ==
  ASSUME IInv, Terminate
  PROVE  IInv'
<1> USE DEF IInv, TypeOK, ClaimConsistent, HandoffReason, TerminalByReason, TicketsSound,
            Row, Ticket, CallStates, ClosedStates, TerminalStates, EligibleStates, Outcomes
<1>1. PICK reason \in OrdinaryReasons :
        WriteAndOwn(CanClaimTermination(row), ClaimTermination(row, reason))
  BY DEF Terminate
<1>2. /\ ~row.claimed
      /\ row.outcome \notin {"in_progress", "completed"}
      /\ row' = ClaimTermination(row, reason)
      /\ tickets' \subseteq tickets \cup {TicketOf(row')}
      /\ booting' = booting
  BY <1>1 DEF WriteAndOwn, CanClaimTermination
<1>3. /\ row'.claimed = TRUE
      /\ row'.state = "terminating"
      /\ row'.reason = reason
      /\ row'.outcome \in {"none", "failed"}
      /\ row' \in Row
  BY <1>2 DEF ClaimTermination
<1>4. reason \notin SpecialReasons
  BY ReasonsDisjoint
<1>5. TicketOf(row') \in Ticket /\ TicketOf(row').reason = reason
  BY <1>3 DEF TicketOf
<1>6. QED
  BY <1>2, <1>3, <1>4, <1>5 DEF SpecialReasons

(* The four statements of the transfer worker.                               *)
LEMMA TransferStep ==
  ASSUME IInv,
         StartTransfer \/ AbandonTransfer \/ PromoteOwner \/ CompleteHandoff \/ RevokeHandoff
  PROVE  IInv'
<1> USE DEF IInv, TypeOK, ClaimConsistent, HandoffReason, TerminalByReason, TicketsSound, Row,
            Ticket, TicketOf, CallStates, ClosedStates, TerminalStates, EligibleStates,
            Outcomes, SpecialReasons, Write, WriteAndOwn, StillJoining, Promoted
<1>1. CASE StartTransfer
  BY <1>1 DEF StartTransfer, CanClaimJoining, ClaimJoining
<1>2. CASE AbandonTransfer
  BY <1>2 DEF AbandonTransfer, CanFailJoining, FailJoining
<1>3. CASE PromoteOwner
  BY <1>3 DEF PromoteOwner, CanPromoteTransfer, PromoteTransfer
<1>4. CASE CompleteHandoff
  BY <1>4 DEF CompleteHandoff, CanCompleteTransfer, CompleteTransfer
<1>5. CASE RevokeHandoff
  <2>1. /\ row.claimed /\ row.state = "terminating"
        /\ row' = [row EXCEPT !.outcome = "failed", !.reason = "transfer_failed"]
        /\ tickets' \subseteq tickets \cup {[reason |-> "transfer_failed", outcome |-> "failed"]}
        /\ booting' = booting
    BY <1>5 DEF RevokeHandoff, CanFailPromoted, FailPromoted
  <2>2. /\ row' \in Row
        /\ row'.claimed /\ row'.state = "terminating"
        /\ row'.outcome = "failed" /\ row'.reason = "transfer_failed"
    BY <2>1
  <2>3. QED
    BY <2>1, <2>2
<1>6. QED
  BY <1>1, <1>2, <1>3, <1>4, <1>5

(* Finishing needs the ticket's reason and outcome to be the row's still.    *)
LEMMA FinishStep ==
  ASSUME IInv, Finish
  PROVE  IInv'
<1> USE DEF IInv, TypeOK, ClaimConsistent, HandoffReason, TerminalByReason, TicketsSound,
            Row, CallStates, ClosedStates
<1>1. PICK t \in tickets :
        Write(CanFinishTermination(row, t.reason, t.outcome), FinishTermination(row, t.reason))
  BY DEF Finish
<1>2. /\ row.state = "terminating"
      /\ row.claimed
      /\ row.reason = t.reason
      /\ row.outcome = t.outcome
      /\ row' = [row EXCEPT !.state = ClassifyTerminalState(t.reason)]
      /\ tickets' \subseteq tickets
      /\ booting' = booting
  BY <1>1 DEF Write, CanFinishTermination, FinishTermination
<1>3. ClassifyTerminalState(t.reason) \in TerminalStates
  BY ClassifyRange
<1>4. QED
  BY <1>2, <1>3

(* A task or a crash forgets tickets; recovery re-issues the one the row asks for. *)
LEMMA RestartStep ==
  ASSUME IInv, GiveUp \/ Crash \/ Recover \/ FailBoot
  PROVE  IInv'
<1> USE DEF IInv, TypeOK, ClaimConsistent, HandoffReason, TerminalByReason, TicketsSound, Row,
            Ticket, TicketOf, CallStates, ClosedStates, TerminalStates, EligibleStates,
            Outcomes, SpecialReasons
<1>1. CASE GiveUp \/ Crash
  BY <1>1 DEF GiveUp, Crash
<1>2. CASE Recover \/ FailBoot
  <2>1. CASE UNCHANGED <<row, tickets>>
    BY <1>2, <2>1 DEF Recover, FailBoot
  <2>2. CASE ~UNCHANGED <<row, tickets>>
    <3>1. /\ row' = ClaimRecovery(row, row.outcome)
          /\ tickets' \subseteq tickets \cup {TicketOf(row')}
          /\ booting' \in BOOLEAN
      BY <1>2, <2>2 DEF Recover, FailBoot
    <3>2. /\ row' \in Row
          /\ row'.claimed = TRUE /\ row'.state = "terminating"
      BY <3>1 DEF ClaimRecovery
    <3>3. \/ row'.reason = "transfer_completed" /\ row'.outcome = "completed"
          \/ row'.reason = "startup_recovery" /\ row'.outcome \in {"none", "failed"}
      BY <3>1 DEF ClaimRecovery
    <3>4. ClaimConsistent' /\ HandoffReason' /\ TerminalByReason'
      BY <3>2, <3>3
    <3>5. TicketOf(row') \in Ticket
      BY <3>2, <3>3
    <3>6. tickets' \subseteq Ticket /\ TicketsSound'
      BY <3>1, <3>3, <3>5
    <3>7. QED
      BY <3>1, <3>2, <3>4, <3>6
  <2>3. QED
    BY <2>1, <2>2
<1>3. QED
  BY <1>1, <1>2

(* CallRow!IInv: the inductive invariant holds in every reachable state, in  *)
(* particular the claim flag, state, reason and outcome never disagree.      *)
THEOREM RowInvariant == Spec => []IInv
<1>1. Init => IInv
  <2> SUFFICES ASSUME Init PROVE IInv
    OBVIOUS
  <2>1. /\ row \in Row
        /\ row.state = "prewarming" /\ row.claimed = FALSE
        /\ row.reason = "none" /\ row.outcome = "none"
    BY DEF Init, NewRow, Row, CallStates, EligibleStates, Outcomes, SpecialReasons
  <2>2. QED
    BY <2>1 DEF Init, IInv, TypeOK, ClaimConsistent, HandoffReason, TerminalByReason,
                TicketsSound, ClosedStates, TerminalStates
<1>2. IInv /\ [Next]_vars => IInv'
  <2> SUFFICES ASSUME IInv, [Next]_vars PROVE IInv'
    OBVIOUS
  <2>1. CASE Setup                BY <2>1, SetupStep
  <2>2. CASE Terminate            BY <2>2, TerminateStep
  <2>3. CASE StartTransfer \/ AbandonTransfer \/ PromoteOwner \/ CompleteHandoff \/ RevokeHandoff
    BY <2>3, TransferStep
  <2>4. CASE Finish               BY <2>4, FinishStep
  <2>5. CASE GiveUp \/ Crash \/ Recover \/ FailBoot
    BY <2>5, RestartStep
  <2>6. CASE UNCHANGED vars
    BY <2>6 DEF vars, IInv, TypeOK, ClaimConsistent, HandoffReason, TerminalByReason,
                TicketsSound, TicketOf
  <2>7. QED
    BY <2>1, <2>2, <2>3, <2>4, <2>5, <2>6 DEF Next
<1>3. QED
  BY <1>1, <1>2, PTL DEF Spec

(* The row always has the shape of the schema.                               *)
THEOREM RowTypeOK == Spec => []TypeOK
<1>1. IInv => TypeOK
  BY DEF IInv
<1>2. QED
  BY <1>1, RowInvariant, PTL

(* The claim flag, the state, the reason and the outcome never disagree.     *)
THEOREM RowClaimConsistent == Spec => []ClaimConsistent
<1>1. IInv => ClaimConsistent
  BY DEF IInv
<1>2. QED
  BY <1>1, RowInvariant, PTL

(* "transferred" is reported exactly for durably completed handoffs, and no  *)
(* call ends with its transfer undecided.                                    *)
THEOREM RowTransferredMeansHandedOff == Spec => []TransferredMeansHandedOff
<1>1. IInv => TransferredMeansHandedOff
  <2> SUFFICES ASSUME IInv, row.state \in TerminalStates
               PROVE  /\ (row.state = "transferred") <=> (row.outcome = "completed")
                      /\ row.outcome \in {"none", "failed", "completed"}
    BY DEF TransferredMeansHandedOff
  <2>1. (row.state = "transferred") <=> (row.reason = "transfer_completed")
    BY ClassifyRange DEF IInv, TerminalByReason
  <2>2. QED
    BY <2>1 DEF IInv, HandoffReason, ClaimConsistent, ClosedStates, TypeOK, Row, Outcomes
<1>2. QED
  BY <1>1, RowInvariant, PTL

-----------------------------------------------------------------------------
(* The action properties, each from one fact about a step taken where IInv   *)
(* holds.                                                                    *)

LEMMA FinalStep ==
  ASSUME IInv, [Next]_vars, row.state \in TerminalStates
  PROVE  row'.state = row.state /\ row'.reason = row.reason /\ row'.outcome = row.outcome
<1> USE DEF IInv, TypeOK, ClaimConsistent, Row, ClosedStates, TerminalStates, EligibleStates,
            Write, WriteAndOwn
<1>1. CASE Setup
  BY <1>1 DEF Setup, CanPromote, NextSetupState, CanSetJoined, SetJoined, CanClaimDial
<1>2. CASE Terminate
  BY <1>2 DEF Terminate, CanClaimTermination
<1>3. CASE StartTransfer \/ AbandonTransfer \/ PromoteOwner
  BY <1>3 DEF StartTransfer, CanClaimJoining, AbandonTransfer, CanFailJoining, PromoteOwner,
              CanPromoteTransfer, StillJoining
<1>4. CASE CompleteHandoff \/ RevokeHandoff
  BY <1>4 DEF CompleteHandoff, CanCompleteTransfer, RevokeHandoff, CanFailPromoted, Promoted
<1>5. CASE Finish
  BY <1>5 DEF Finish, CanFinishTermination
<1>6. CASE GiveUp \/ Crash \/ Recover \/ FailBoot \/ UNCHANGED vars
  BY <1>6 DEF GiveUp, Crash, Recover, FailBoot, CanClaimRecovery, vars
<1>7. QED
  BY <1>1, <1>2, <1>3, <1>4, <1>5, <1>6 DEF Next

(* Nothing that runs late changes how or why an ended call ended.            *)
THEOREM RowTerminalIsFinal == Spec => TerminalIsFinal
<1>1. IInv /\ [Next]_vars =>
        [row.state \in TerminalStates =>
           row'.state = row.state /\ row'.reason = row.reason /\ row'.outcome = row.outcome]_vars
  BY FinalStep
<1>2. QED
  BY <1>1, RowInvariant, PTL DEF Spec, TerminalIsFinal

LEMMA AttemptStep ==
  ASSUME IInv, [Next]_vars
  PROVE  /\ row.outcome # "none" => row'.outcome # "none"
         /\ row'.outcome = "joining" => row.outcome \in {"none", "joining"}
         /\ row.outcome = "failed" => row'.outcome = "failed"
<1> USE DEF IInv, TypeOK, Row, Outcomes, Write, WriteAndOwn
<1>1. CASE Setup
  BY <1>1 DEF Setup, Promote, SetJoined, ClaimDial
<1>2. CASE Terminate
  BY <1>2 DEF Terminate, ClaimTermination
<1>3. CASE StartTransfer \/ AbandonTransfer \/ PromoteOwner
  BY <1>3 DEF StartTransfer, CanClaimJoining, ClaimJoining, AbandonTransfer, CanFailJoining,
              FailJoining, PromoteOwner, CanPromoteTransfer, PromoteTransfer, StillJoining
<1>4. CASE CompleteHandoff \/ RevokeHandoff
  BY <1>4 DEF CompleteHandoff, CanCompleteTransfer, CompleteTransfer, RevokeHandoff,
              CanFailPromoted, FailPromoted, Promoted
<1>5. CASE Finish
  BY <1>5 DEF Finish, FinishTermination
<1>6. CASE GiveUp \/ Crash \/ UNCHANGED vars
  BY <1>6 DEF GiveUp, Crash, vars
<1>7. CASE Recover \/ FailBoot
  BY <1>7 DEF Recover, FailBoot, ClaimRecovery
<1>8. QED
  BY <1>1, <1>2, <1>3, <1>4, <1>5, <1>6, <1>7 DEF Next

(* No schedule of worker, terminator and recovery starts a second transfer   *)
(* or revives a failed one.                                                  *)
THEOREM RowOneTransferAttempt == Spec => OneTransferAttempt
<1>1. IInv /\ [Next]_vars =>
        [/\ row.outcome # "none" => row'.outcome # "none"
         /\ row'.outcome = "joining" => row.outcome \in {"none", "joining"}
         /\ row.outcome = "failed" => row'.outcome = "failed"]_vars
  BY AttemptStep
<1>2. QED
  BY <1>1, RowInvariant, PTL DEF Spec, OneTransferAttempt

LEMMA ClaimStep ==
  ASSUME IInv, [Next]_vars, row.claimed
  PROVE  /\ row'.claimed
         /\ row'.reason # row.reason =>
              \/ booting
              \/ row.reason = "transfer_completed" /\ row'.reason = "transfer_failed"
         /\ row'.dialed = row.dialed
<1> USE DEF IInv, TypeOK, Row, Write, WriteAndOwn
<1>1. CASE Setup
  BY <1>1 DEF Setup, Promote, SetJoined, CanClaimDial
<1>2. CASE Terminate \/ StartTransfer \/ AbandonTransfer \/ PromoteOwner
  BY <1>2 DEF Terminate, CanClaimTermination, StartTransfer, CanClaimJoining, AbandonTransfer,
              CanFailJoining, PromoteOwner, CanPromoteTransfer, StillJoining
<1>3. CASE CompleteHandoff
  BY <1>3 DEF CompleteHandoff, CompleteTransfer
<1>4. CASE RevokeHandoff
  BY <1>4 DEF RevokeHandoff, CanFailPromoted, FailPromoted, Promoted
<1>5. CASE Finish
  BY <1>5 DEF Finish, FinishTermination
<1>6. CASE GiveUp \/ Crash \/ UNCHANGED vars
  BY <1>6 DEF GiveUp, Crash, vars
<1>7. CASE Recover \/ FailBoot
  BY <1>7 DEF Recover, FailBoot, ClaimRecovery
<1>8. QED
  BY <1>1, <1>2, <1>3, <1>4, <1>5, <1>6, <1>7 DEF Next

(* The first claim decides the reason; the callee is not dialled after it.   *)
THEOREM RowFirstClaimWins == Spec => FirstClaimWins
<1>1. IInv /\ [Next]_vars =>
        [row.claimed =>
           /\ row'.claimed
           /\ row'.reason # row.reason =>
                \/ booting
                \/ row.reason = "transfer_completed" /\ row'.reason = "transfer_failed"
           /\ row'.dialed = row.dialed]_vars
  BY ClaimStep
<1>2. QED
  BY <1>1, RowInvariant, PTL DEF Spec, FirstClaimWins
=============================================================================
