------------------------------- MODULE CallRow -------------------------------
(***************************************************************************)
(* One call's durable row under its most general client: every statement   *)
(* that writes the lifecycle columns may run at any time its WHERE clause  *)
(* allows, in any order, from any task.  What is invariant here holds      *)
(* whatever the event handlers do, and every module that writes a row      *)
(* implements this specification.                                          *)
(***************************************************************************)
EXTENDS CallStore

VARIABLES
  row,       \* the row of the calls table
  tickets,   \* (reason, outcome) pairs that live teardown tasks will finish with
  booting    \* recover_startup has not reached this row yet

vars == <<row, tickets, booting>>

Ticket == [reason : OrdinaryReasons \cup SpecialReasons, outcome : Outcomes]

TicketOf(r) == [reason |-> r.reason, outcome |-> r.outcome]

TypeOK ==
  /\ row \in Row
  /\ tickets \subseteq Ticket
  /\ booting \in BOOLEAN

-----------------------------------------------------------------------------
Init ==
  /\ row = NewRow
  /\ tickets = {}
  /\ booting = FALSE

(* A statement that hands out no teardown responsibility.  The task it ends  *)
(* may take its ticket with it, here as in the next definition.              *)
Write(can, new) ==
  /\ ~booting
  /\ can
  /\ row' = new
  /\ tickets' \in SUBSET tickets
  /\ UNCHANGED booting

(* A statement whose RETURNING row the caller keeps to finish the call with,  *)
(* unless the answer never reached it.                                       *)
WriteAndOwn(can, new) ==
  /\ ~booting
  /\ can
  /\ row' = new
  /\ tickets' \in SUBSET (tickets \cup {TicketOf(new)})
  /\ UNCHANGED booting

Setup == \/ \E from \in DOMAIN NextSetupState :
              Write(CanPromote(row, from), Promote(row, from))
         \/ Write(CanSetJoined(row), SetJoined(row))
         \/ Write(CanClaimDial(row), ClaimDial(row))

Terminate == \E reason \in OrdinaryReasons :
  WriteAndOwn(CanClaimTermination(row), ClaimTermination(row, reason))

StartTransfer    == Write(CanClaimJoining(row), ClaimJoining(row))
AbandonTransfer  == Write(CanFailJoining(row), FailJoining(row))
PromoteOwner     == Write(CanPromoteTransfer(row), PromoteTransfer(row))
CompleteHandoff  == WriteAndOwn(CanCompleteTransfer(row), CompleteTransfer(row))

RevokeHandoff == \E expected \in {"in_progress", "completed"} :
  WriteAndOwn(CanFailPromoted(row, expected), FailPromoted(row))

(* A teardown that has succeeded, possibly long after its claim: its ticket  *)
(* may be stale by now, and then the CAS does nothing.                       *)
Finish == \E t \in tickets :
  Write(CanFinishTermination(row, t.reason, t.outcome), FinishTermination(row, t.reason))

(* A teardown task fails for good and takes its ticket with it.              *)
GiveUp ==
  /\ tickets # {}
  /\ tickets' \in (SUBSET tickets) \ {tickets}
  /\ UNCHANGED <<row, booting>>

(* The process dies: every task and its ticket is gone, the row is not.      *)
Crash ==
  /\ ~booting
  /\ booting' = TRUE
  /\ tickets' = {}
  /\ UNCHANGED row

(* recover_startup adopts the row before any traffic is served.              *)
Recover ==
  /\ booting
  /\ booting' = FALSE
  /\ IF CanClaimRecovery(row, row.outcome)
       THEN /\ row' = ClaimRecovery(row, row.outcome)
            /\ tickets' = {TicketOf(row')}
       ELSE UNCHANGED <<row, tickets>>

(* Its claim raises, perhaps after it committed: the boot fails, and stop()  *)
(* runs before the process exits.                                            *)
FailBoot ==
  /\ booting
  /\ booting' = FALSE
  /\ CanClaimRecovery(row, row.outcome)
  /\ row' \in {row, ClaimRecovery(row, row.outcome)}
  /\ UNCHANGED tickets

Next == \/ Setup \/ Terminate \/ StartTransfer \/ AbandonTransfer \/ PromoteOwner
        \/ CompleteHandoff \/ RevokeHandoff \/ Finish \/ GiveUp \/ Crash
        \/ Recover \/ FailBoot

Spec == Init /\ [][Next]_vars

-----------------------------------------------------------------------------
(* Properties                                                                *)

(* A call is reported transferred exactly when the owner handoff was durably *)
(* completed before the row became terminal, and no call ends while its      *)
(* transfer is still undecided: a caller that reads "transferred" can rely   *)
(* on the AI leg having been handed to a human, and only then.               *)
TransferredMeansHandedOff ==
  row.state \in TerminalStates =>
    /\ (row.state = "transferred") <=> (row.outcome = "completed")
    /\ row.outcome \in {"none", "failed", "completed"}

(* The claim flag, the state and the reason never disagree: a row is closed  *)
(* exactly when somebody claimed it and left a reason, a promoted transfer   *)
(* owns that claim, and a joining one leaves it free.                        *)
ClaimConsistent ==
  /\ row.claimed <=> row.state \in ClosedStates
  /\ row.claimed <=> row.reason # "none"
  /\ row.outcome \in {"in_progress", "completed"} => row.reason = "transfer_completed"
  /\ row.outcome = "joining" => ~row.claimed

(* A terminal row is final: no late claim, promotion, failed transfer or     *)
(* restart changes how or why the call ended.                                *)
TerminalIsFinal ==
  [][row.state \in TerminalStates =>
       /\ row'.state = row.state
       /\ row'.reason = row.reason
       /\ row'.outcome = row.outcome]_vars

(* At most one transfer attempt per call, and a failed one stays failed: no  *)
(* schedule of the worker, the terminator and recovery revives it.           *)
OneTransferAttempt ==
  [][/\ row.outcome # "none" => row'.outcome # "none"
     /\ row'.outcome = "joining" => row.outcome \in {"none", "joining"}
     /\ row.outcome = "failed" => row'.outcome = "failed"]_vars

(* The first claim decides why a call ends.  Only the failure of a promoted  *)
(* handoff or a restart may replace the reason, and neither touches a row    *)
(* that has ended; the callee is never dialled once a claim is there.        *)
FirstClaimWins ==
  [][row.claimed =>
       /\ row'.claimed
       /\ row'.reason # row.reason =>
            \/ booting
            \/ row.reason = "transfer_completed" /\ row'.reason = "transfer_failed"
       /\ row'.dialed = row.dialed]_vars
=============================================================================
