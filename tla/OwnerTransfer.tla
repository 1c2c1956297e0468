---------------------------- MODULE OwnerTransfer ----------------------------
(***************************************************************************)
(* One call from set-up to its end, as the tasks of the service see it:    *)
(* the owner-transfer worker (app/owner_transfer.py), ordinary termination *)
(* and its retries, the shutdown sweep and startup recovery                *)
(* (app/call_state.py), over the durable row and the Twilio conference.    *)
(* A step runs from one await to the next.  A database statement may fail  *)
(* after or before it commits, a Twilio request after or before Twilio has *)
(* carried it out; callbacks arrive late or never; the process may stop or *)
(* die between any two steps.                                              *)
(***************************************************************************)
EXTENDS CallStore, FiniteSets

CONSTANTS MaxDbFaults,   \* failing database statements, at most
          MaxTwFaults,   \* failing Twilio requests, at most
          MaxRestarts    \* deaths of the process, at most

ASSUME BudgetAssumption ==
  /\ MaxDbFaults \in Nat /\ MaxTwFaults \in Nat /\ MaxRestarts \in Nat
  /\ {"owner_request", "transfer_cleanup_failed", "service_shutdown"} \subseteq OrdinaryReasons

VARIABLES
  row,      \* durable lifecycle columns
  marks,    \* durable: twilio_owner_call_sid is set, conference_cleanup_pending
  tw,       \* Twilio: the conference and who is in it
  seen,     \* owner callbacks the coordinator has received
  w,        \* the owner-transfer worker
  fin,      \* the tasks that carry a claimed termination to its end
  compRetry,\* the compensation-conference retry task is running
  svc,      \* what the process is doing
  faults    \* faults left to inject

vars == <<row, marks, tw, seen, w, fin, compRetry, svc, faults>>

-----------------------------------------------------------------------------
(* "term" is an ordinary terminate_call, "cleanup" the one the worker makes, *)
(* "shutdown" the one stop() makes; "worker" and "recover" finish claims of  *)
(* their own; "retry" is the background termination retry.                   *)
Finishers    == {"term", "cleanup", "shutdown", "worker", "recover", "retry"}
ReasonOf     == [term     |-> "owner_request",
                 cleanup  |-> "transfer_cleanup_failed",
                 shutdown |-> "service_shutdown"]
FinPcs       == {"idle", "await", "arm", "unarmed", "compensate",
                 "media", "commit", "reread", "ok", "no"}
Claim        == [reason : OrdinaryReasons \cup SpecialReasons, outcome : Outcomes]
NoClaim      == [reason |-> "none", outcome |-> "none"]
Idle         == [pc |-> "idle", claim |-> NoClaim, preserve |-> FALSE]
ClaimOf(r)   == [reason |-> r.reason, outcome |-> r.outcome]
Busy(f)      == fin[f].pc \notin {"idle", "ok", "no"}

WorkerPcs    == {"none", "claiming", "creating", "settling", "persist", "waiting",
                 "removeAI", "completing", "arming", "armed", "finishing", "cleanup",
                 "failJoining", "probe", "failPromoted", "probeCompleted",
                 "adopted", "terminate", "terminating", "compensate", "done"}
WorkerActive == w.pc \notin {"none", "done"}

(* Only the worker's start keeps the per-call owner-transfer lock across an  *)
(* await; a termination claim takes and releases it in one step.             *)
TransferLockFree == w.pc # "claiming"

Serving  == svc \in {"up", "stopping", "draining"}   \* tasks of this process run
Stopping == svc \in {"stopping", "draining"}         \* the _stopping flag

TypeOK ==
  /\ row \in Row
  /\ marks \in [ownerSid : BOOLEAN, cleanup : BOOLEAN]
  /\ tw \in [conf : {"open", "ended"}, callee : BOOLEAN, ai : BOOLEAN,
             owner : {"none", "ringing", "in", "left"}, armed : BOOLEAN,
             stray : {"no", "due", "alone"}]
  /\ seen \in [join : BOOLEAN, left : BOOLEAN]
  /\ w \in [pc : WorkerPcs, phase : {"joining", "promoted", "completed"}, sid : BOOLEAN,
            cleaned : BOOLEAN, completing : BOOLEAN, cancel : BOOLEAN, unsure : BOOLEAN]
  /\ fin \in [Finishers -> [pc : FinPcs, claim : Claim, preserve : BOOLEAN]]
  /\ compRetry \in BOOLEAN
  /\ svc \in {"up", "stopping", "draining", "down", "booting", "recovering"}
  /\ faults \in [db : 0..MaxDbFaults, tw : 0..MaxTwFaults, restart : 0..MaxRestarts]

IdleWorker == [pc |-> "none", phase |-> "joining", sid |-> FALSE, cleaned |-> TRUE,
               completing |-> FALSE, cancel |-> FALSE, unsure |-> FALSE]
IdleFin    == [f \in Finishers |-> Idle]

Init ==
  /\ row = NewRow
  /\ marks = [ownerSid |-> FALSE, cleanup |-> FALSE]
  /\ tw = [conf |-> "open", callee |-> TRUE, ai |-> TRUE, owner |-> "none",
           armed |-> FALSE, stray |-> "no"]
  /\ seen = [join |-> FALSE, left |-> FALSE]
  /\ w = IdleWorker
  /\ fin = IdleFin
  /\ compRetry = FALSE
  /\ svc = "up"
  /\ faults = [db |-> MaxDbFaults, tw |-> MaxTwFaults, restart |-> MaxRestarts]

-----------------------------------------------------------------------------
(* What a statement or a request can do to its caller.                       *)

DbFault == faults.db > 0 /\ faults' = [faults EXCEPT !.db = @ - 1]
TwFault == faults.tw > 0 /\ faults' = [faults EXCEPT !.tw = @ - 1]
TwAndDbFault == /\ faults.tw > 0 /\ faults.db > 0
                /\ faults' = [faults EXCEPT !.tw = @ - 1, !.db = @ - 1]
TwoDbFaults  == faults.db > 1 /\ faults' = [faults EXCEPT !.db = @ - 2]

(* Seeded faults, here and below: each takes the place of the definition     *)
(* under it to show which property notices.                                  *)
WriteUnchecked(can, new) == row' = new /\ UNCHANGED faults   \* no WHERE clause

(* A compare-and-set answers; its WHERE clause decides what.                 *)
Answered(can, new) ==
  /\ row' = IF can THEN new ELSE row
  /\ UNCHANGED faults

(* It raises instead, before or after its commit.                            *)
Raised(can, new) ==
  /\ DbFault
  /\ row' \in {row} \cup (IF can THEN {new} ELSE {})

(* A cancelled await of a statement leaves the same doubt, at no fault.      *)
Interrupted(can, new) ==
  /\ w.cancel
  /\ row' \in {row} \cup (IF can THEN {new} ELSE {})
  /\ UNCHANGED faults

(* tw.stray follows an owner leg whose SID the service never learned: it may *)
(* still be created ("due"), or it was created after the conference had      *)
(* ended and has opened it again by its name, with nobody in it ("alone").   *)

(* Completing the conference drops every leg in it.                          *)
Ended(t) == [t EXCEPT !.conf = "ended", !.callee = FALSE, !.ai = FALSE,
                      !.owner = IF @ \in {"ringing", "in"} THEN "left" ELSE @,
                      !.stray = IF @ = "alone" THEN "no" ELSE @]

(* The owner leg leaves: alone, or with the conference once armed.           *)
OwnerOut(t) == IF t.armed /\ t.owner = "in" THEN Ended(t) ELSE [t EXCEPT !.owner = "left"]

ScheduleNothing(g, c) == g                        \* a failed teardown is dropped

(* _schedule_conference_completion_retry for a termination.                  *)
ScheduleRetry(g, c) ==
  IF Stopping \/ g["retry"].pc # "idle"
    THEN g
    ELSE [g EXCEPT !["retry"] = [pc |-> "media", claim |-> c, preserve |-> FALSE]]

-----------------------------------------------------------------------------
(* The world outside the process.                                            *)

(* Set-up goes on beside a transfer: the callee joins, the call is promoted. *)
SetupProgress ==
  /\ Serving
  /\ \/ /\ CanSetJoined(row)
        /\ row' = SetJoined(row)
     \/ \E from \in DOMAIN NextSetupState :
          /\ CanPromote(row, from)
          /\ row.joined
          /\ row' = Promote(row, from)
  /\ UNCHANGED <<marks, tw, seen, w, fin, compRetry, svc, faults>>

(* The callee leg was created with end_conference_on_exit.                   *)
CalleeLeaves ==
  /\ tw.callee
  /\ tw' = Ended(tw)
  /\ UNCHANGED <<row, marks, seen, w, fin, compRetry, svc, faults>>

OwnerAnswers ==
  /\ tw.owner = "ringing"
  /\ tw' = [tw EXCEPT !.owner = "in"]
  /\ UNCHANGED <<row, marks, seen, w, fin, compRetry, svc, faults>>

OwnerLeaves ==
  /\ tw.owner \in {"ringing", "in"}
  /\ tw' = OwnerOut(tw)
  /\ UNCHANGED <<row, marks, seen, w, fin, compRetry, svc, faults>>

(* Twilio carries out a create the service has given up.  The service never  *)
(* learns the SID, so only the end of the conference removes the leg.        *)
LateOwnerLeg ==
  /\ tw.stray = "due"
  /\ tw' = [tw EXCEPT !.owner = "ringing", !.conf = "open",
                      !.stray = IF tw.conf = "ended" THEN "alone" ELSE "no"]
  /\ UNCHANGED <<row, marks, seen, w, fin, compRetry, svc, faults>>

(* A status callback of the owner leg reaches the coordinator, in any order. *)
(* record_owner_failure wakes the join wait as well.                         *)
OwnerCallback ==
  /\ WorkerActive
  /\ \/ /\ tw.owner \in {"in", "left"}
        /\ seen' = [seen EXCEPT !.join = TRUE]
     \/ /\ tw.owner = "left"
        /\ seen' = [join |-> TRUE, left |-> TRUE]
  /\ seen' # seen
  /\ UNCHANGED <<row, marks, tw, w, fin, compRetry, svc, faults>>

-----------------------------------------------------------------------------
(* The owner-transfer worker                                                 *)

At(pc)        == Serving /\ w.pc = pc
Goto(pc)      == w' = [(IF pc = "done" THEN IdleWorker ELSE w) EXCEPT !.pc = pc]
FailWith(ph)  == w' = [w EXCEPT !.pc = "cleanup", !.phase = ph]
OthersOfDb    == UNCHANGED <<marks, tw, seen, fin, compRetry, svc>>
OthersOfTw    == UNCHANGED <<row, marks, seen, fin, compRetry, svc>>

(* start(): claim joining under the owner-transfer lock.  A claim that       *)
(* raised is re-read under the same lock and adopted when it committed; when *)
(* the re-read raises too, the row may be left joining with no worker.       *)
StartTransfer ==
  /\ svc = "up"
  /\ w.pc = "none"
  /\ CanClaimJoining(row)
  /\ \/ /\ row' = ClaimJoining(row)
        /\ UNCHANGED faults \/ DbFault
        /\ Goto("claiming")
     \/ DbFault /\ UNCHANGED <<row, w>>
     \/ TwoDbFaults /\ row' \in {row, ClaimJoining(row)} /\ UNCHANGED w
  /\ OthersOfDb

(* Still under the lock: register the worker, or take the claim back.        *)
RegisterTransfer ==
  /\ At("claiming")
  /\ IF Stopping
       THEN /\ \/ Answered(CanFailJoining(row), FailJoining(row))
               \/ Raised(CanFailJoining(row), FailJoining(row))
            /\ Goto("done")
       ELSE /\ Goto("creating")
            /\ UNCHANGED <<row, faults>>
  /\ OthersOfDb

(* Twilio creates the owner leg (and, after the conference ended, the        *)
(* conference again under its name).  A cancelled worker still waits for the *)
(* answer and learns the SID, but goes on to clean up.  A create that raised *)
(* may be carried out all the same: the worker takes the leg for absent.     *)
CreateGivenUp == tw' \in {tw, [tw EXCEPT !.stray = "due"]}

CreateOwner ==
  /\ Serving
  /\ w.pc \in {"creating", "settling"}
  /\ \/ /\ tw' = [tw EXCEPT !.owner = "ringing", !.conf = "open"]
        /\ w' = [w EXCEPT !.sid = TRUE,
                          !.pc = IF w.pc = "creating" THEN "persist" ELSE "cleanup"]
        /\ UNCHANGED faults
     \/ /\ TwFault
        /\ Goto("cleanup")
        /\ CreateGivenUp
  /\ OthersOfTw

(* Persist the owner SID; a raising write is re-read, and anything but a     *)
(* confirmed one fails the attempt.                                          *)
PersistOwnerSid ==
  /\ At("persist")
  /\ \/ /\ StillJoining(row)
        /\ marks' = [marks EXCEPT !.ownerSid = TRUE]
        /\ \/ UNCHANGED faults
           \/ DbFault
        /\ Goto("waiting")
     \/ /\ FailWith("joining")
        /\ \/ UNCHANGED <<marks, faults>> /\ (w.cancel \/ ~StillJoining(row))
           \/ UNCHANGED marks /\ DbFault
  /\ UNCHANGED <<row, tw, seen, fin, compRetry, svc>>

(* The 30 s join wait elapses, or the owner's departure is what woke it.     *)
OwnerNotThere ==
  /\ At("waiting")
  /\ ~seen.join \/ seen.left
  /\ FailWith("joining")
  /\ UNCHANGED <<row, faults>>
  /\ OthersOfDb

(* The owner joined: promote, which claims the termination in the same       *)
(* statement; None means termination won.                                    *)
PromoteOwner ==
  /\ At("waiting")
  /\ seen.join /\ ~seen.left
  /\ LET can == CanPromoteTransfer(row)
         new == PromoteTransfer(row)
     IN \/ /\ Answered(can, new)
           /\ IF can THEN w' = [w EXCEPT !.pc = "removeAI", !.phase = "promoted"]
                     ELSE FailWith("joining")
        \/ /\ Raised(can, new) \/ Interrupted(can, new)
           /\ FailWith("joining")
  /\ OthersOfDb

(* Remove the AI leg, racing the owner's departure; either failing revokes   *)
(* the handoff.  The tool result sent before may have absorbed a cancel.     *)
RemoveAiLeg ==
  /\ At("removeAI")
  /\ \/ /\ seen.left
        /\ FailWith("promoted")
        /\ UNCHANGED <<tw, faults>>
     \/ /\ tw' = IF tw.conf = "open" THEN [tw EXCEPT !.ai = FALSE] ELSE tw
        /\ IF tw.conf = "ended" \/ seen.left THEN FailWith("promoted")
           ELSE \/ w' = [w EXCEPT !.pc = "completing", !.completing = TRUE, !.cancel = FALSE]
                \/ w.cancel /\ FailWith("promoted")
        /\ UNCHANGED faults
     \/ TwFault /\ FailWith("promoted") /\ tw' \in {tw, [tw EXCEPT !.ai = FALSE]}
  /\ OthersOfTw

CompleteHandoff ==
  /\ At("completing")
  /\ LET can == CanCompleteTransfer(row)
         new == CompleteTransfer(row)
     IN \/ /\ Answered(can, new)
           /\ IF can THEN w' = [w EXCEPT !.pc = "arming", !.phase = "completed"]
                     ELSE FailWith("promoted")
        \/ /\ Raised(can, new) \/ Interrupted(can, new)
           /\ FailWith("promoted")
  /\ OthersOfDb

(* Make the owner leg end the conference when it leaves, unless a departure  *)
(* has been seen.                                                            *)
ArmOwnerExit ==
  /\ At("arming")
  /\ LET can   == ~seen.left /\ tw.owner = "in"
         armed == [tw EXCEPT !.armed = @ \/ can]
     IN \/ /\ tw' = armed
           /\ IF can THEN Goto("armed") ELSE FailWith("completed")
           /\ UNCHANGED faults
        \/ TwFault /\ FailWith("completed") /\ tw' \in {tw, armed}
  /\ OthersOfTw

(* Look again when the request returns; then finish in a must-finish task    *)
(* that keeps the conference.                                                *)
TerminalizeHandoff ==
  /\ At("armed")
  /\ IF seen.left
       THEN FailWith("completed") /\ UNCHANGED fin
       ELSE /\ Goto("finishing")
            /\ fin' = [fin EXCEPT !["worker"] =
                  [pc |-> "commit", preserve |-> TRUE, claim |->
                     [reason |-> "transfer_completed", outcome |-> "completed"]]]
  /\ UNCHANGED <<row, marks, tw, seen, compRetry, svc, faults>>

FinishHandoff ==
  /\ At("finishing")
  /\ \/ fin["worker"].pc = "ok" /\ Goto("done")
     \/ fin["worker"].pc = "no" /\ FailWith("completed")
  /\ fin' = [fin EXCEPT !["worker"] = Idle]
  /\ UNCHANGED <<row, marks, tw, seen, compRetry, svc, faults>>

(* cancel() lands at an await of run() that does not shield its operation,   *)
(* or before the task's first step.                                          *)
CancelWorker ==
  /\ w.cancel
  /\ Serving
  /\ \/ w.pc = "creating" /\ Goto("settling")
     \/ w.pc = "creating" /\ Goto("done")
     \/ w.pc = "waiting"  /\ FailWith("joining")
  /\ UNCHANGED <<row, faults>>
  /\ OthersOfDb

-----------------------------------------------------------------------------
(* Its compensation                                                          *)

(* Remove the owner leg.  A leg that is already gone answers 404, which      *)
(* remove_participant raises.                                                *)
CleanupOwner ==
  /\ At("cleanup")
  /\ LET next == IF w.phase = "joining" THEN "failJoining" ELSE "failPromoted"
     IN \/ /\ w.sid /\ tw.owner \in {"ringing", "in"}
           /\ tw' = OwnerOut(tw)
           /\ w' = [w EXCEPT !.pc = next, !.cleaned = TRUE]
           /\ UNCHANGED faults
        \/ /\ ~w.sid \/ tw.owner = "left"
           /\ w' = [w EXCEPT !.pc = next, !.cleaned = ~w.sid]
           /\ UNCHANGED <<tw, faults>>
        \/ /\ w.sid /\ TwFault
           /\ w' = [w EXCEPT !.pc = next, !.cleaned = FALSE]
           /\ \/ UNCHANGED tw
              \/ tw.owner \in {"ringing", "in"} /\ tw' = OwnerOut(tw)
  /\ OthersOfTw

FailJoiningTransfer ==
  /\ At("failJoining")
  /\ LET can == CanFailJoining(row)
         new == FailJoining(row)
     IN \/ /\ Answered(can, new)
           /\ Goto(IF ~can THEN "probe" ELSE IF w.cleaned THEN "done" ELSE "terminate")
        \/ /\ Raised(can, new)
           /\ w' = [w EXCEPT !.pc = "probe", !.unsure = TRUE]
  /\ OthersOfDb

(* The revoked handoff is this worker's to finish, with the conference.      *)
AdoptRevoked ==
  /\ Goto("adopted")
  /\ fin' = [fin EXCEPT !["worker"] =
       [pc |-> "media", preserve |-> FALSE, claim |-> ClaimOf(FailPromoted(row))]]

(* A promotion may have committed although awaiting it raised.               *)
ProbePromotion ==
  /\ At("probe")
  /\ LET can == CanFailPromoted(row, "in_progress")
         new == FailPromoted(row)
     IN \/ /\ Answered(can, new)
           /\ IF can THEN AdoptRevoked
              ELSE /\ Goto(IF w.sid /\ (w.unsure \/ ~w.cleaned) THEN "compensate" ELSE "done")
                   /\ UNCHANGED fin
        \/ Raised(can, new) /\ Goto("compensate") /\ UNCHANGED fin
  /\ UNCHANGED <<marks, tw, seen, compRetry, svc>>

(* Revoke the promoted handoff; a completion may have committed although     *)
(* awaiting it raised, so that outcome is tried next.                        *)
FailPromotedTransfer ==
  /\ w.pc \in {"failPromoted", "probeCompleted"}
  /\ Serving
  /\ LET second == w.pc = "probeCompleted"
         can == CanFailPromoted(row, IF second \/ w.phase = "completed"
                                       THEN "completed" ELSE "in_progress")
         new == FailPromoted(row)
         giveUp == Goto(IF ~second /\ w.phase = "promoted" /\ w.completing
                          THEN "probeCompleted" ELSE "compensate")
     IN \/ /\ Answered(can, new)
           /\ IF can THEN AdoptRevoked ELSE giveUp /\ UNCHANGED fin
        \/ Raised(can, new) /\ giveUp /\ UNCHANGED fin
  /\ UNCHANGED <<marks, tw, seen, compRetry, svc>>

(* The worker's own finish, or the termination it asked for, has answered.   *)
(* A handoff whose final commit was refused, and whose owner leg could not   *)
(* be removed, completes the conference once more, here and in Compensate.   *)
OnceMore == w.phase = "completed" /\ ~w.cleaned

WorkerFinished ==
  /\ \/ w.pc = "adopted" /\ fin["worker"].pc = "ok" /\ Goto("done")
     \/ w.pc = "adopted" /\ (fin["worker"].pc = "no" \/ (OnceMore /\ fin["worker"].pc = "ok"))
        /\ Goto("compensate")
     \/ w.pc = "terminating" /\ fin["cleanup"].pc \in {"ok", "no"}
        /\ Goto(IF fin["cleanup"].pc = "ok" THEN "done" ELSE "compensate")
  /\ fin' = [fin EXCEPT !["worker"] = Idle, !["cleanup"] = Idle]
  /\ Serving
  /\ UNCHANGED <<row, marks, tw, seen, compRetry, svc, faults>>

CompleteConferenceOnce ==                         \* no retry task is scheduled
  \/ tw' = Ended(tw) /\ marks' = [marks EXCEPT !.cleanup = FALSE] /\ UNCHANGED <<compRetry, faults>>
  \/ /\ TwFault
     /\ marks' = [marks EXCEPT !.cleanup = TRUE]
     /\ tw' \in {tw, Ended(tw)}
     /\ UNCHANGED compRetry

(* _complete_conference_or_schedule: the durable marker is best effort.      *)
CompleteConferenceOrSchedule ==
  \/ /\ tw' = Ended(tw)
     /\ \/ marks' = [marks EXCEPT !.cleanup = FALSE] /\ UNCHANGED faults
        \/ DbFault /\ UNCHANGED marks
     /\ UNCHANGED compRetry
  \/ /\ \/ TwFault /\ marks' = [marks EXCEPT !.cleanup = TRUE]
        \/ TwAndDbFault /\ UNCHANGED marks
     /\ compRetry' = (compRetry \/ ~Stopping)
     /\ tw' \in {tw, Ended(tw)}

Compensate ==
  /\ At("compensate")
  /\ CompleteConferenceOrSchedule
  /\ \/ Goto("done")
     \/ OnceMore /\ w' = [w EXCEPT !.cleaned = TRUE]
  /\ UNCHANGED <<row, seen, fin, svc>>

-----------------------------------------------------------------------------
(* Ordinary termination and the tasks that carry a claim to its end          *)

Attempts(f) ==
  CASE f = "term"     -> svc = "up" /\ fin[f].pc = "idle" /\ CanClaimTermination(row)
    [] f = "cleanup"  -> At("terminate")
    [] f = "shutdown" -> svc = "stopping" /\ fin[f].pc = "idle"

(* Recovery finishes a handoff it has just revoked: it lets that raise       *)
(* through, and does not count the call as recovered.                        *)
FailsBoot(f) == f = "recover" /\ fin[f].claim.reason = "transfer_failed"

(* A task ends; the ones somebody waits for leave their answer.              *)
Answer(f, pc) == [Idle EXCEPT !.pc = IF f \in {"term", "retry"} THEN "idle"
                                     ELSE IF FailsBoot(f) THEN "no" ELSE pc]

(* Claim under the owner-transfer lock.  A claim that raised is re-read; if  *)
(* that fails too the caller never learns that it owns the call.             *)
ClaimTerminationBy(f) ==
  LET can   == CanClaimTermination(row)
      new   == ClaimTermination(row, ReasonOf[f])
      wait  == WorkerActive /\ f # "cleanup"
      owned == /\ row' = new
               /\ fin' = [fin EXCEPT ![f] = [pc |-> IF wait THEN "await" ELSE "media",
                                             claim |-> ClaimOf(new), preserve |-> FALSE]]
      lost  == fin' = [fin EXCEPT ![f] = Answer(f, "no")]
  IN /\ Attempts(f)
     /\ TransferLockFree
     /\ \/ can /\ owned /\ UNCHANGED faults
        \/ can /\ owned /\ DbFault
        \/ ~can /\ lost /\ UNCHANGED <<row, faults>>
        \/ lost /\ DbFault /\ UNCHANGED row
        \/ can /\ lost /\ TwoDbFaults /\ row' = new
     /\ w' = [w EXCEPT !.pc = IF f = "cleanup" THEN "terminating" ELSE @,
                       !.cancel = @ \/ (wait /\ row' = new /\ fin'[f].pc = "await")]
     /\ UNCHANGED <<marks, tw, seen, compRetry, svc>>

ProceedWithoutWorker(f) ==                        \* the late owner leg is not awaited
  /\ fin[f].pc = "await"
  /\ fin' = [fin EXCEPT ![f].pc = "media"]
  /\ UNCHANGED <<row, marks, tw, seen, w, compRetry, svc, faults>>

(* The claimer cancelled the worker and waits for it, late legs included.    *)
AwaitWorker(f) ==
  /\ fin[f].pc = "await"
  /\ ~WorkerActive
  /\ fin' = [fin EXCEPT ![f].pc = "media"]
  /\ UNCHANGED <<row, marks, tw, seen, w, compRetry, svc, faults>>

(* _teardown_call_media: both attempts to complete the conference may fail.  *)
TeardownMedia(f) ==
  /\ fin[f].pc = "media"
  /\ \/ /\ tw' = Ended(tw)
        /\ fin' = [fin EXCEPT ![f].pc = "commit"]
        /\ UNCHANGED faults
     \/ /\ TwFault
        /\ fin' = IF f = "retry"
                     THEN IF svc = "draining" THEN [fin EXCEPT ![f] = Idle] ELSE fin
                     ELSE ScheduleRetry([fin EXCEPT ![f] = Answer(f, "no")], fin[f].claim)
        /\ tw' \in {tw, Ended(tw)}
  /\ UNCHANGED <<row, marks, seen, w, compRetry, svc>>

CommitTerminal(f) ==
  /\ fin[f].pc = "commit"
  /\ LET c   == fin[f].claim
         can == CanFinishTermination(row, c.reason, c.outcome)
         new == FinishTermination(row, c.reason)
     IN \/ /\ Answered(can, new)
           /\ fin' = [fin EXCEPT ![f] = IF can THEN Answer(f, "ok")
                                               ELSE [@ EXCEPT !.pc = "reread"]]
        \/ /\ Raised(can, new)
           /\ fin' = [fin EXCEPT ![f].pc = "reread"]
  /\ UNCHANGED <<marks, tw, seen, w, compRetry, svc>>

Exact(c) == row.state = ClassifyTerminalState(c.reason) /\ ClaimOf(row) = c

(* Anything but an answer: re-read, and accept only the exact terminal row.  *)
RereadTerminal(f) ==
  /\ fin[f].pc = "reread"
  /\ LET c     == fin[f].claim
         again == f = "retry" /\ svc # "draining"
     IN \/ /\ Exact(c)
           /\ fin' = [fin EXCEPT ![f] = Answer(f, "ok")]
           /\ UNCHANGED faults
        \/ /\ ~Exact(c) /\ ~FailsBoot(f)
           /\ fin' = IF again THEN [fin EXCEPT ![f].pc = "media"]
                     ELSE IF fin[f].preserve \/ f = "retry" THEN [fin EXCEPT ![f] = Answer(f, "no")]
                     ELSE ScheduleRetry([fin EXCEPT ![f] = Answer(f, "no")], c)
           /\ UNCHANGED faults
        \/ /\ DbFault /\ ~FailsBoot(f)
           /\ fin' = [fin EXCEPT ![f] = IF again THEN [@ EXCEPT !.pc = "media"]
                                                 ELSE Answer(f, "no")]
  /\ UNCHANGED <<row, marks, tw, seen, w, compRetry, svc>>

(* The background retry finds the call already ended.                        *)
RetryStops ==
  /\ fin["retry"].pc = "media"
  /\ row.state \in TerminalStates
  /\ fin' = [fin EXCEPT !["retry"] = Idle]
  /\ UNCHANGED <<row, marks, tw, seen, w, compRetry, svc, faults>>

(* The compensation retry runs until the conference is confirmed complete.   *)
CompensationRetry ==
  /\ compRetry
  /\ tw' = Ended(tw)
  /\ compRetry' = FALSE
  /\ \/ marks' = [marks EXCEPT !.cleanup = FALSE] /\ UNCHANGED faults
     \/ DbFault /\ UNCHANGED marks
  /\ UNCHANGED <<row, seen, w, fin, svc>>

-----------------------------------------------------------------------------
(* The life of the process                                                   *)

Stop ==
  /\ svc = "up"
  /\ faults.restart > 0
  /\ svc' = "stopping"
  /\ faults' = [faults EXCEPT !.restart = @ - 1]
  /\ UNCHANGED <<row, marks, tw, seen, w, fin, compRetry>>

(* stop() has made its claim: it cancels what need not finish.               *)
Drain ==
  /\ svc = "stopping"
  /\ fin["shutdown"].pc \in {"ok", "no"}
  /\ svc' = "draining"
  /\ w' = [w EXCEPT !.cancel = WorkerActive]
  /\ fin' = IF fin["retry"].pc = "media" THEN [fin EXCEPT !["retry"] = Idle] ELSE fin
  /\ compRetry' = FALSE
  /\ UNCHANGED <<row, marks, tw, seen, faults>>

Quiet == ~WorkerActive /\ \A f \in Finishers : ~Busy(f)

(* The process is gone, and with it everything it kept in memory.  A create  *)
(* request that was on its way may still be carried out.                     *)
Gone ==
  /\ svc' = "down"
  /\ w' = IdleWorker
  /\ fin' = IdleFin
  /\ compRetry' = FALSE
  /\ seen' = [join |-> FALSE, left |-> FALSE]

Exit ==
  /\ svc = "draining"
  /\ Quiet
  /\ Gone
  /\ UNCHANGED <<row, marks, tw, faults>>

Crash ==
  /\ svc # "down"
  /\ faults.restart > 0
  /\ faults' = [faults EXCEPT !.restart = @ - 1]
  /\ Gone
  /\ \/ UNCHANGED tw
     \/ w.pc \in {"creating", "settling"} /\ CreateGivenUp
  /\ UNCHANGED <<row, marks>>

Restart ==
  /\ svc = "down"
  /\ svc' = "booting"
  /\ UNCHANGED <<row, marks, tw, seen, w, fin, compRetry, faults>>

-----------------------------------------------------------------------------
(* recover_startup, before any traffic                                       *)

RecoverTo(pc, c, preserve) ==
  fin' = [fin EXCEPT !["recover"] = [pc |-> pc, claim |-> c, preserve |-> preserve]]

(* A recovery statement that raises fails the boot; stop() then runs as for  *)
(* any other shutdown.                                                       *)
RecoverCall ==
  /\ svc = "booting"
  /\ LET can  == CanClaimRecovery(row, row.outcome)
         new  == ClaimRecovery(row, row.outcome)
         done == row.outcome = "completed"
     IN \/ /\ Answered(can, new)
           /\ svc' = "recovering"
           /\ IF ~can THEN RecoverTo("no", NoClaim, FALSE)
              ELSE IF ~done THEN RecoverTo("media", ClaimOf(new), FALSE)
              ELSE RecoverTo(IF marks.ownerSid THEN "arm" ELSE "unarmed", ClaimOf(new), TRUE)
        \/ /\ Raised(can, new)
           /\ svc' = "stopping"
           /\ UNCHANGED fin
  /\ UNCHANGED <<marks, tw, seen, w, compRetry>>

(* Only a participant that is still there can be armed.                      *)
RecoverOwnerExit ==
  /\ fin["recover"].pc = "arm"
  /\ LET c == fin["recover"].claim
         armed == [tw EXCEPT !.armed = TRUE]
     IN \/ /\ tw.owner = "in"
           /\ tw' = armed
           /\ RecoverTo("commit", c, TRUE)
           /\ UNCHANGED faults
        \/ /\ \/ tw.owner # "in" /\ UNCHANGED <<tw, faults>>
              \/ TwFault /\ UNCHANGED tw
              \/ TwFault /\ tw.owner = "in" /\ tw' = armed
           /\ RecoverTo("unarmed", c, TRUE)
  /\ UNCHANGED <<row, marks, seen, w, compRetry, svc>>

RecoverUnarmed ==
  /\ fin["recover"].pc = "unarmed"
  /\ LET can == CanFailPromoted(row, "completed")
         new == FailPromoted(row)
     IN \/ /\ Answered(can, new)
           /\ IF can THEN RecoverTo("media", ClaimOf(new), FALSE)
                     ELSE RecoverTo("compensate", NoClaim, FALSE)
        \/ /\ Raised(can, new)
           /\ RecoverTo("compensate", NoClaim, FALSE)
  /\ UNCHANGED <<marks, tw, seen, w, compRetry, svc>>

BootFails ==
  /\ fin["recover"].pc = "reread" /\ FailsBoot("recover")
  /\ \/ ~Exact(fin["recover"].claim) /\ UNCHANGED faults
     \/ DbFault
  /\ Gone
  /\ UNCHANGED <<row, marks, tw>>

RecoverCompensate ==
  /\ fin["recover"].pc = "compensate"
  /\ CompleteConferenceOrSchedule
  /\ RecoverTo("no", NoClaim, FALSE)
  /\ UNCHANGED <<row, seen, w, svc>>

(* Then the conferences whose completion an earlier process still owed,      *)
(* except of a call this pass has just ended; then traffic.                  *)
FinishRecovery ==
  /\ svc = "recovering"
  /\ fin["recover"].pc \in {"ok", "no"}
  /\ svc' = "up"
  /\ fin' = [fin EXCEPT !["recover"] = Idle]
  /\ IF marks.cleanup /\ fin["recover"].pc = "no"
       THEN CompleteConferenceOrSchedule
       ELSE UNCHANGED <<marks, tw, compRetry, faults>>
  /\ UNCHANGED <<row, seen, w>>

-----------------------------------------------------------------------------
World == \/ SetupProgress \/ CalleeLeaves \/ OwnerAnswers \/ OwnerLeaves
         \/ LateOwnerLeg \/ OwnerCallback

Worker ==
  \/ RegisterTransfer \/ CreateOwner \/ PersistOwnerSid \/ OwnerNotThere
  \/ PromoteOwner \/ RemoveAiLeg \/ CompleteHandoff \/ ArmOwnerExit
  \/ TerminalizeHandoff \/ FinishHandoff
  \/ CancelWorker \/ CleanupOwner \/ FailJoiningTransfer \/ ProbePromotion
  \/ FailPromotedTransfer \/ WorkerFinished \/ Compensate

Finisher(f) ==
  \/ AwaitWorker(f) \/ TeardownMedia(f) \/ CommitTerminal(f) \/ RereadTerminal(f)

Background == RetryStops \/ CompensationRetry

Process == Stop \/ Drain \/ Exit \/ Crash \/ Restart

Recovery == \/ RecoverCall \/ RecoverOwnerExit \/ RecoverUnarmed
            \/ BootFails \/ RecoverCompensate \/ FinishRecovery

Next == \/ World \/ StartTransfer \/ Worker
        \/ \E f \in DOMAIN ReasonOf : ClaimTerminationBy(f)
        \/ \E f \in Finishers : Finisher(f)
        \/ Background \/ Process \/ Recovery

Spec == Init /\ [][Next]_vars

(* Every task that has something to do eventually does it: the event loop    *)
(* runs ready tasks, requests have timeouts, the join wait is 30 s, and the  *)
(* supervisor starts the process again.  Nobody has to call, answer, leave.  *)
Fairness ==
  /\ WF_vars(Worker)
  /\ \A f \in Finishers : WF_vars(Finisher(f))
  /\ \A f \in {"cleanup", "shutdown"} : WF_vars(ClaimTerminationBy(f))
  /\ WF_vars(RetryStops) /\ WF_vars(CompensationRetry)
  /\ WF_vars(Drain) /\ WF_vars(Exit) /\ WF_vars(Restart) /\ WF_vars(Recovery)

FairSpec == Spec /\ Fairness

-----------------------------------------------------------------------------
(* Properties                                                                *)

(* Nobody is on the line, but for a stray owner leg on its own.              *)
Silent ==
  /\ ~tw.callee /\ ~tw.ai
  /\ \/ tw.conf = "ended" /\ tw.owner \notin {"ringing", "in"}
     \/ tw.stray = "alone"

(* When the end of a call that was not handed over is published, callee and  *)
(* voice model are off the line, the conference has ended, no owner leg of   *)
(* its rings or talks, and no create of one is under way: whatever raced,    *)
(* terminate_call waited for the worker's create.  The one exception the     *)
(* code leaves: a create that raised or died with the process, and that      *)
(* Twilio carries out after the conference has ended, rings the owner alone  *)
(* in a conference nobody will end (_cleanup_owner counts it as removed).    *)
EndedCallIsSilent ==
  row.state \in TerminalStates \ {"transferred"} =>
    /\ Silent
    /\ w.pc \notin {"creating", "settling"}

(* A call published as transferred never leaves the callee alone on the line *)
(* with nobody to end the conference.                                        *)
TransferredKeepsOwner ==
  row.state = "transferred" =>
    /\ tw.armed
    /\ tw.callee => tw.owner = "in"

(* While the process takes calls, a claimed one always has a task that will end  *)
(* it, unless a database statement failed.                                   *)
DbFaulted == faults.db < MaxDbFaults
Owned == \/ WorkerActive
         \/ \E f \in Finishers : Busy(f)
StrandedOnlyByDbFault ==
  row.state = "terminating" /\ svc = "up" => Owned \/ DbFaulted

HeldClaims ==
  ({fin[f].claim : f \in {g \in Finishers : Busy(g)}} \ {NoClaim})
    \cup {c \in {[reason |-> "transfer_completed", outcome |-> "completed"]} : w.pc \in {"arming", "armed"}}

Durable == INSTANCE CallRow WITH
  tickets <- HeldClaims,
  booting <- svc \in {"down", "booting"}

(* Every task of the service, under every fault, writes the row only as      *)
(* CallRow allows.                                                           *)
RefinesCallRow == Durable!Spec

(* A claimed call ends, unless a database statement failed.                  *)
ClaimedCallEnds ==
  row.claimed ~> (row.state \in TerminalStates \/ DbFaulted)

(* The conference of a claimed call ends or is the owner's to end, even if   *)
(* one database statement failed on the way; a second one excuses, and so    *)
(* does a stray owner leg that opened the conference again after its end.    *)
DbFaultedTwice == faults.db + 1 < MaxDbFaults
ConferenceReleased ==
  row.claimed ~> (tw.conf = "ended" \/ tw.armed \/ tw.stray = "alone" \/ DbFaultedTwice)
=============================================================================
