------------------------------ MODULE CallSetup ------------------------------
(***************************************************************************)
(* An admitted call from the request for its agent leg to the conversation *)
(* or its end (app/call_state.py): the owned creates of the agent leg, the *)
(* callee leg and the carrier stream, the activation gate that the         *)
(* sideband and the webhooks race for, the setup deadline, termination,    *)
(* shutdown and recovery.  A step runs from one await to the next.         *)
(* OwnerTransfer has the retries of a teardown that fails; here it works.  *)
(***************************************************************************)
EXTENDS CallStore

CONSTANTS Answers,        \* the callbacks that tell of the callee's answer
          MaxFaults,      \* failing statements, failing requests to a provider and
                          \* deaths of the process, together at most
          MaxRetries      \* RESOURCE_CLEANUP_MAX_RETRIES

ASSUME SetupBounds ==
  /\ MaxFaults \in Nat /\ MaxRetries \in Nat \ {0}
  /\ "opener" \notin Answers
  /\ {"setup_failed", "setup_deadline"} \subseteq OrdinaryReasons

VARIABLES
  row,      \* durable lifecycle columns
  session,  \* durable: sideband_open and live_session_verified
  sid,      \* durable: the SID columns of the legs
  leg,      \* what exists at the provider
  stray,    \* legs whose SID never reached the service
  op,       \* the owned creates
  sweep,    \* attempts left to the cleanup retries
  start,    \* the start request
  h,        \* the handlers that reach the activation gate
  snap,     \* the activating handler read the agent's SID
  unmuted,  \* the agent leg was explicitly unmuted
  deadline, \* the setup-deadline task
  fin,      \* the task that carries a claimed termination to its end
  svc,      \* what the process is doing
  faults    \* faults left to inject; whether a statement has failed

vars == <<row, session, sid, leg, stray, op, sweep, start, h, snap, unmuted,
          deadline, fin, svc, faults>>

-----------------------------------------------------------------------------
Legs     == {"agent", "callee", "stream"}
Handlers == {"opener"} \cup Answers   \* "opener" is handle_sideband_open

(* One reason stands for all but the deadline's; CallRow tells them apart.    *)
SetupFailed == "setup_failed"

(* Only the stream's failure is left to the activation to report.            *)
TerminateOnFailure == {"agent", "callee"}
SwallowFailure     == {"callee"}

OpPcs     == {"none", "creating", "settling", "checking", "committing", "adopted",
              "failing", "persist", "remove", "terminalize", "null", "raised"}
OpBusy(l) == op[l].pc \notin {"none", "adopted", "null", "raised"}
IdleOp    == [pc |-> "none", cancel |-> FALSE, result |-> "null"]
NewOp     == [IdleOp EXCEPT !.pc = "creating"]

HandlerPcs == {"idle", "session", "dial", "dialling", "gate", "promote", "claim", "load", "monitor",
               "activate", "unmute", "enable", "fail", "fatal", "done"}

Claim      == [reason : OrdinaryReasons \cup SpecialReasons, outcome : Outcomes]
NoClaim    == [reason |-> "none", outcome |-> "none"]
ClaimOf(r) == [reason |-> r.reason, outcome |-> r.outcome]
IdleFin    == [pc |-> "idle", claim |-> NoClaim]

(* Seeded faults, here and below: each takes the place of the definition     *)
(* under it to show which property notices.                                  *)
TeardownByReason(r) ==                            \* the outcome is not passed on
  [pc |-> "media", claim |-> [reason |-> r.reason]]

Teardown(r) == [pc |-> "media", claim |-> ClaimOf(r)]

Serving  == svc \in {"up", "stopping", "draining"}
Stopping == svc \in {"stopping", "draining"}

TypeOK ==
  /\ row \in Row
  /\ session \in BOOLEAN
  /\ sid \in [Legs -> BOOLEAN]
  /\ leg \in [Legs -> {"none", "live", "gone"}]
  /\ stray \subseteq Legs
  /\ op \in [Legs -> [pc : OpPcs, cancel : BOOLEAN, result : {"null", "raised"}]]
  /\ sweep \in [Legs -> [left : 0..MaxRetries, gaveUp : BOOLEAN]]
  /\ start \in {"wait", "done"}
  /\ h \in [Handlers -> HandlerPcs]
  /\ snap \in BOOLEAN /\ unmuted \in BOOLEAN
  /\ deadline \in {"off", "armed", "decided"}
  /\ fin \in [pc : {"idle", "media", "commit"}, claim : Claim]
  /\ svc \in {"up", "stopping", "draining", "down", "booting", "recovering"}
  /\ faults \in [left : 0..MaxFaults, db : BOOLEAN]

(* The row has just been admitted and start() is asking for the agent leg.   *)
Init ==
  /\ row = NewRow
  /\ session = FALSE
  /\ sid = [l \in Legs |-> FALSE]
  /\ leg = [l \in Legs |-> "none"]
  /\ stray = {}
  /\ op = [l \in Legs |-> IF l = "agent" THEN NewOp ELSE IdleOp]
  /\ sweep = [l \in Legs |-> [left |-> 0, gaveUp |-> FALSE]]
  /\ start = "wait"
  /\ h = [x \in Handlers |-> "idle"]
  /\ snap = FALSE /\ unmuted = FALSE
  /\ deadline = "off"
  /\ fin = IdleFin
  /\ svc = "up"
  /\ faults = [left |-> MaxFaults, db |-> FALSE]

DbFault     == faults.left > 0 /\ faults' = [left |-> faults.left - 1, db |-> TRUE]
TwoDbFaults == faults.left > 1 /\ faults' = [left |-> faults.left - 2, db |-> TRUE]
NetFault    == faults.left > 0 /\ faults' = [faults EXCEPT !.left = @ - 1]
Death       == faults.left > 0 /\ faults' = [faults EXCEPT !.left = @ - 1]

WriteUnchecked(can, new) == row' = new /\ UNCHANGED faults   \* no WHERE clause

(* A compare-and-set answers, or raises before or after its commit.          *)
Answered(can, new) == row' = (IF can THEN new ELSE row) /\ UNCHANGED faults
Raised(can, new)   == DbFault /\ row' \in {row} \cup (IF can THEN {new} ELSE {})

-----------------------------------------------------------------------------
(* terminate_call: the claim, and the teardown of a claim that was won.  An  *)
(* ambiguous claim is re-read.  Once stopping only the service's own          *)
(* compensations may still claim.                                             *)
Terminate(reason, bypass) ==
  IF (Stopping /\ ~bypass) \/ ~CanClaimTermination(row)
    THEN UNCHANGED <<row, fin, faults>>
    ELSE /\ row' = ClaimTermination(row, reason)
         /\ fin' = Teardown(row')
         /\ UNCHANGED faults \/ DbFault

(* It raises: the claim failed, or committed and could not be re-read.       *)
TerminateRaises(reason, bypass) ==
  /\ bypass \/ ~Stopping
  /\ UNCHANGED fin
  /\ \/ DbFault /\ UNCHANGED row
     \/ TwoDbFaults /\ CanClaimTermination(row) /\ row' = ClaimTermination(row, reason)

(* Completing the conference drops every leg; a stream ends with its callee. *)
Dropped == [l \in Legs |-> IF leg[l] = "live" THEN "gone" ELSE leg[l]]

TeardownMedia ==
  /\ fin.pc = "media"
  /\ leg' = Dropped
  /\ fin' = [fin EXCEPT !.pc = "commit"]
  /\ UNCHANGED <<row, session, sid, stray, op, sweep, start, h, snap, unmuted,
                 deadline, svc, faults>>

CommitTerminal ==
  /\ fin.pc = "commit"
  /\ CanFinishTermination(row, fin.claim.reason, fin.claim.outcome)
  /\ row' = FinishTermination(row, fin.claim.reason)
  /\ fin' = IdleFin
  /\ UNCHANGED <<session, sid, leg, stray, op, sweep, start, h, snap, unmuted,
                 deadline, svc, faults>>

(* Any of the callers outside set-up: a leave callback, the owner, a fatal   *)
(* sideband.                                                                 *)
HangUp ==
  /\ svc = "up"
  /\ CanClaimTermination(row)
  /\ Terminate(SetupFailed, FALSE) \/ TerminateRaises(SetupFailed, FALSE)
  /\ UNCHANGED <<session, sid, leg, stray, op, sweep, start, h, snap, unmuted,
                 deadline, svc>>

-----------------------------------------------------------------------------
(* _execute_owned_remote_create                                              *)

OpGoto(l, pc)    == op' = [op EXCEPT ![l].pc = pc]
OpReturn(l, res) == op' = [op EXCEPT ![l] = [IdleOp EXCEPT !.pc = res]]
OpTaken(l)       == op' = [op EXCEPT ![l] = IdleOp]
Abandon(l, res)  == op' = [op EXCEPT ![l].pc = "persist", ![l].result = res]
OthersOfOp == UNCHANGED <<session, stray, start, h, snap, unmuted, deadline, svc>>

(* The provider answers.  A failed request may have created the leg all the  *)
(* same; a stream needs its callee.  A cancelled create waits here too.      *)
CreateLeg(l) ==
  /\ Serving
  /\ op[l].pc \in {"creating", "settling"}
  /\ LET late   == op[l].pc = "settling"
         absent == l = "stream" /\ leg["callee"] # "live"
         failed == op' = [op EXCEPT ![l].result = "raised",
                            ![l].pc = IF late THEN "terminalize"
                                      ELSE IF l \in TerminateOnFailure THEN "failing"
                                      ELSE "raised"]
     IN \/ /\ ~absent
           /\ leg' = [leg EXCEPT ![l] = "live"]
           /\ IF late THEN Abandon(l, "raised") ELSE OpGoto(l, "checking")
           /\ UNCHANGED <<stray, faults>>
        \/ /\ NetFault \/ (absent /\ UNCHANGED faults)
           /\ failed
           /\ UNCHANGED <<leg, stray>>
        \/ /\ ~absent /\ NetFault
           /\ failed
           /\ leg' = [leg EXCEPT ![l] = "live"]
           /\ stray' = stray \cup {l}
  /\ UNCHANGED <<row, session, sid, sweep, start, h, snap, unmuted, deadline, fin, svc>>

(* A create that failed ends the call.                                       *)
CreateFailed(l) ==
  /\ Serving
  /\ op[l].pc = "failing"
  /\ LET res == IF l \in SwallowFailure THEN "null" ELSE "raised"
     IN \/ Terminate(SetupFailed, FALSE) /\ OpReturn(l, res)
        \/ TerminateRaises(SetupFailed, FALSE) /\ OpReturn(l, "raised")
  /\ UNCHANGED <<sid, leg, sweep>>
  /\ OthersOfOp

(* _call_still_accepts_leg; what it read may be stale at the next step.      *)
CheckCall(l) ==
  /\ Serving
  /\ op[l].pc = "checking"
  /\ \/ /\ IF Stopping \/ row.state \in ClosedStates
             THEN Abandon(l, "null") ELSE OpGoto(l, "committing")
        /\ UNCHANGED faults
     \/ /\ ~Stopping /\ DbFault
        /\ Abandon(l, IF l \in SwallowFailure THEN "null" ELSE "raised")
  /\ UNCHANGED <<row, sid, leg, sweep, fin>>
  /\ OthersOfOp

(* adopt_participant, adopt_media_stream: the SID, while the call is open.   *)
AdoptLeg(l) ==
  /\ Serving
  /\ op[l].pc = "committing"
  /\ LET open == row.state \notin ClosedStates
     IN \/ /\ sid' = [sid EXCEPT ![l] = @ \/ open]
           /\ IF open /\ ~op[l].cancel THEN OpReturn(l, "adopted") ELSE Abandon(l, "null")
           /\ UNCHANGED faults
        \/ /\ DbFault
           /\ sid' \in {sid} \cup (IF open THEN {[sid EXCEPT ![l] = TRUE]} ELSE {})
           /\ Abandon(l, IF l \in SwallowFailure THEN "null" ELSE "raised")
  /\ UNCHANGED <<row, leg, sweep, fin>>
  /\ OthersOfOp

-----------------------------------------------------------------------------
(* _abandon_participant, _abandon_media_stream                               *)

PersistAbandoned(l) ==
  /\ Serving
  /\ op[l].pc = "persist"
  /\ OpGoto(l, "remove")
  /\ \/ sid' = [sid EXCEPT ![l] = TRUE] /\ UNCHANGED faults
     \/ DbFault /\ UNCHANGED sid
  /\ UNCHANGED <<row, leg, sweep, fin>>
  /\ OthersOfOp

Removed(l) == [x \in Legs |->
  IF leg[x] = "live" /\ (x = l \/ (l = "callee" /\ x = "stream")) THEN "gone" ELSE leg[x]]

RemoveOnce(l) ==                                  \* a failure is only logged
  /\ Serving
  /\ op[l].pc = "remove"
  /\ OpGoto(l, "terminalize")
  /\ \/ leg' = Removed(l) /\ UNCHANGED faults
     \/ NetFault /\ UNCHANGED leg
  /\ UNCHANGED <<row, sid, sweep, fin>>
  /\ OthersOfOp

(* Remove that one leg; a failure is left to a must-finish retry.  (One that *)
(* is gone already makes a participant's removal fail, to no effect.)        *)
RemoveAbandoned(l) ==
  /\ Serving
  /\ op[l].pc = "remove"
  /\ OpGoto(l, "terminalize")
  /\ \/ leg' = Removed(l) /\ UNCHANGED <<sweep, faults>>
     \/ /\ NetFault
        /\ sweep' = [sweep EXCEPT ![l].left = MaxRetries]
        /\ UNCHANGED leg
  /\ UNCHANGED <<row, sid, fin>>
  /\ OthersOfOp

TerminalizeAbandoned(l) ==
  /\ Serving
  /\ op[l].pc = "terminalize"
  /\ OpReturn(l, op[l].result)
  /\ Terminate(SetupFailed, TRUE) \/ TerminateRaises(SetupFailed, TRUE)
  /\ UNCHANGED <<sid, leg, sweep>>
  /\ OthersOfOp

RetryRemoval(l) ==
  /\ Serving
  /\ sweep[l].left > 0
  /\ \/ /\ leg' = Removed(l)
        /\ sweep' = [sweep EXCEPT ![l].left = 0]
        /\ UNCHANGED faults
     \/ /\ NetFault
        /\ sweep' = [sweep EXCEPT ![l] = [left |-> @.left - 1, gaveUp |-> @.left = 1]]
        /\ UNCHANGED leg
  /\ UNCHANGED <<row, sid, op, fin>>
  /\ OthersOfOp

-----------------------------------------------------------------------------
(* The callers of the owned creates                                          *)

OthersOfCaller == UNCHANGED <<row, session, sid, leg, stray, sweep, snap, unmuted, fin, svc, faults>>

(* start(): a leg that is ours arms the deadline without another await.      *)
StartReturns ==
  /\ Serving
  /\ start = "wait"
  /\ \/ /\ op["agent"].pc = "adopted"
        /\ start' = "done"
        /\ deadline' = IF Stopping THEN "off" ELSE "armed"
     \/ /\ op["agent"].pc \in {"null", "raised"}
        /\ start' = "done"
        /\ UNCHANGED deadline
  /\ OpTaken("agent")
  /\ UNCHANGED h
  /\ OthersOfCaller

(* cancel() delivered into the owned task, or after it has just finished.    *)
Cancelled(l) ==
  CASE op[l].pc = "creating"                -> OpGoto(l, "settling")
    [] op[l].pc \in {"checking", "adopted"} -> Abandon(l, "raised")
    [] op[l].pc = "committing"              -> op' = [op EXCEPT ![l].cancel = TRUE]
    [] OTHER                                -> UNCHANGED op

CancelDetaches ==                                 \* the create is left to itself
  /\ Serving
  /\ start = "wait"
  /\ start' = "done"
  /\ UNCHANGED <<op, h, deadline>>
  /\ OthersOfCaller

(* The client of start() goes away.                                          *)
CancelStart ==
  /\ Serving
  /\ start = "wait"
  /\ start' = "done"
  /\ Cancelled("agent")
  /\ UNCHANGED <<h, deadline>>
  /\ OthersOfCaller

(* A teardown, or the shutdown, cancels the sideband and its open handler.   *)
CancelOpener ==
  /\ Serving
  /\ h["opener"] \notin {"idle", "done", "fatal"}
  /\ fin.pc # "idle" \/ svc = "draining"
  /\ h' = [h EXCEPT !["opener"] = "done"]
  /\ CASE h["opener"] = "dialling" -> Cancelled("callee")
       [] h["opener"] = "monitor"  -> Cancelled("stream")
       [] OTHER                    -> UNCHANGED op
  /\ UNCHANGED <<start, deadline>>
  /\ OthersOfCaller

-----------------------------------------------------------------------------
(* The handlers                                                              *)

Goto(x, pc)  == h' = [h EXCEPT ![x] = pc]
(* An error ends a webhook; it is fatal to the sideband.                     *)
Breaks(x)    == Goto(x, IF x = "opener" THEN "fatal" ELSE "done")
At(x, pc)    == Serving /\ h[x] = pc
OthersOfHandler == UNCHANGED <<sid, leg, stray, sweep, start, deadline, svc>>

(* The SIP leg reaches OpenAI, is bound to the row and accepted.             *)
BindSession ==
  /\ svc = "up"
  /\ h["opener"] = "idle"
  /\ leg["agent"] = "live"
  /\ row.state = "prewarming"
  /\ Goto("opener", "session")
  /\ UNCHANGED <<row, session, op, snap, unmuted, fin, faults>>
  /\ OthersOfHandler

(* handle_sideband_open: the session is verified, or the call is ended.      *)
VerifySession ==
  /\ At("opener", "session")
  /\ \/ session' = TRUE /\ Goto("opener", "dial") /\ UNCHANGED <<row, fin, faults>>
     \/ DbFault /\ Breaks("opener") /\ UNCHANGED <<row, session, fin>>
     \/ /\ UNCHANGED session
        /\ \/ Terminate(SetupFailed, FALSE) /\ Goto("opener", "done")
           \/ TerminateRaises(SetupFailed, FALSE) /\ Breaks("opener")
  /\ UNCHANGED <<op, snap, unmuted>>
  /\ OthersOfHandler

(* The one-shot dial claim; whoever loses it still checks the gate.          *)
DialCallee ==
  /\ At("opener", "dial")
  /\ LET can == CanClaimDial(row)
         new == ClaimDial(row)
     IN \/ /\ Answered(can, new)
           /\ IF can THEN op' = [op EXCEPT !["callee"] = NewOp] /\ Goto("opener", "dialling")
                     ELSE Goto("opener", "gate") /\ UNCHANGED op
        \/ Raised(can, new) /\ Breaks("opener") /\ UNCHANGED op
  /\ UNCHANGED <<session, snap, unmuted, fin>>
  /\ OthersOfHandler

CalleeDialledOnly ==                              \* the gate is left to the callbacks
  /\ At("opener", "dialling")
  /\ op["callee"].pc \in {"adopted", "null", "raised"}
  /\ OpTaken("callee")
  /\ Goto("opener", "done")
  /\ UNCHANGED <<row, session, snap, unmuted, fin, faults>>
  /\ OthersOfHandler

CalleeDialled ==
  /\ At("opener", "dialling")
  /\ OpTaken("callee")
  /\ CASE op["callee"].pc = "adopted" -> Goto("opener", "gate")
       [] op["callee"].pc = "null"    -> Goto("opener", "done")
       [] op["callee"].pc = "raised"  -> Breaks("opener")
       [] OTHER                       -> FALSE
  /\ UNCHANGED <<row, session, snap, unmuted, fin, faults>>
  /\ OthersOfHandler

(* A callback tells of the callee's answer; the row it was admitted on may   *)
(* have been closed since.                                                   *)
CalleeAnswered(x) ==
  /\ svc = "up"
  /\ x \in Answers /\ h[x] = "idle"
  /\ leg["callee"] # "none"
  /\ \/ /\ Answered(CanSetJoined(row), SetJoined(row))
        /\ Goto(x, "gate")
     \/ Raised(CanSetJoined(row), SetJoined(row)) /\ Breaks(x)
  /\ UNCHANGED <<session, op, snap, unmuted, fin>>
  /\ OthersOfHandler

(* _check_activation_gate: read, then promote by compare-and-set.            *)
GateOpen == session /\ row.joined /\ sid["callee"]

ReadGate(x) ==
  /\ At(x, "gate")
  /\ \/ /\ Goto(x, IF GateOpen /\ row.state \notin TerminalStates THEN "promote" ELSE "done")
        /\ UNCHANGED faults
     \/ DbFault /\ Breaks(x)
  /\ UNCHANGED <<row, session, op, snap, unmuted, fin>>
  /\ OthersOfHandler

(* The promotions on the way to ACTIVE; losing one ends the handler.         *)
PromoteCall(x, pc, from, next) ==
  /\ At(x, pc)
  /\ LET can == CanPromote(row, from)
         new == Promote(row, from)
     IN \/ Answered(can, new) /\ Goto(x, IF can THEN next ELSE "done")
        \/ Raised(can, new) /\ IF pc = "activate" THEN Goto(x, "fail") ELSE Breaks(x)
  /\ UNCHANGED <<session, op, snap, unmuted, fin>>
  /\ OthersOfHandler

(* _activate reads the row it works from, then starts the carrier monitor.   *)
LoadCall(x) ==
  /\ At(x, "load")
  /\ \/ /\ snap' = sid["agent"]
        /\ op' = [op EXCEPT !["stream"] = NewOp]
        /\ Goto(x, "monitor")
        /\ UNCHANGED faults
     \/ DbFault /\ Breaks(x) /\ UNCHANGED <<snap, op>>
  /\ UNCHANGED <<row, session, unmuted, fin>>
  /\ OthersOfHandler

MonitorOptional(x) ==                             \* activation goes on without it
  /\ At(x, "monitor")
  /\ op["stream"].pc \in {"adopted", "null", "raised"}
  /\ Goto(x, "activate")
  /\ OpTaken("stream")
  /\ UNCHANGED <<row, session, snap, unmuted, fin, faults>>
  /\ OthersOfHandler

(* A stream that connects within 5 s; an abandoned one returns normally.     *)
MonitorStarted(x) ==
  /\ At(x, "monitor")
  /\ \/ op["stream"].pc \in {"adopted", "null"} /\ Goto(x, "activate")
     \/ op["stream"].pc \in {"adopted", "raised"} /\ Goto(x, "fail")
  /\ OpTaken("stream")
  /\ UNCHANGED <<row, session, snap, unmuted, fin, faults>>
  /\ OthersOfHandler

(* Best effort, and nothing at all without the agent's SID.                  *)
UnmuteAgent(x) ==
  /\ At(x, "unmute")
  /\ Goto(x, "enable")
  /\ \/ unmuted' = snap /\ UNCHANGED faults
     \/ snap /\ NetFault /\ UNCHANGED unmuted
  /\ UNCHANGED <<row, session, op, snap, fin>>
  /\ OthersOfHandler

EnableConversation(x) ==
  /\ At(x, "enable")
  /\ \/ Goto(x, "done") /\ UNCHANGED faults
     \/ NetFault /\ Goto(x, "fail")
  /\ UNCHANGED <<row, session, op, snap, unmuted, fin>>
  /\ OthersOfHandler

ActivationFailed(x) ==
  /\ At(x, "fail")
  /\ \/ Terminate(SetupFailed, FALSE) /\ Goto(x, "done")
     \/ TerminateRaises(SetupFailed, FALSE) /\ Breaks(x)
  /\ UNCHANGED <<session, op, snap, unmuted>>
  /\ OthersOfHandler

SidebandFatal ==
  /\ At("opener", "fatal")
  /\ Goto("opener", "done")
  /\ Terminate(SetupFailed, FALSE) \/ TerminateRaises(SetupFailed, FALSE)
  /\ UNCHANGED <<session, op, snap, unmuted>>
  /\ OthersOfHandler

-----------------------------------------------------------------------------
(* _setup_deadline: sleep, read, and on what was read end the call.          *)
OthersOfDeadline == UNCHANGED <<session, sid, leg, stray, op, sweep, start, h, snap, unmuted, svc>>

DeadlineReads ==
  /\ Serving
  /\ deadline = "armed"
  /\ \/ /\ deadline' = IF row.state \in DOMAIN NextSetupState THEN "decided" ELSE "off"
        /\ UNCHANGED faults
     \/ DbFault /\ deadline' = "off"
  /\ UNCHANGED <<row, fin>>
  /\ OthersOfDeadline

DeadlineEnds ==
  /\ Serving
  /\ deadline = "decided"
  /\ deadline' = "off"
  /\ Terminate("setup_deadline", FALSE) \/ TerminateRaises("setup_deadline", FALSE)
  /\ OthersOfDeadline

-----------------------------------------------------------------------------
(* The world and the process                                                 *)

(* Ringing, the callee leaves alone; joined, it ends the conference.         *)
CalleeLeaves ==
  /\ leg["callee"] = "live"
  /\ leg' \in {Removed("callee"), Dropped}
  /\ UNCHANGED <<row, session, sid, stray, op, sweep, start, h, snap, unmuted,
                 deadline, fin, svc, faults>>

Stop ==
  /\ svc = "up"
  /\ Death
  /\ svc' = "stopping"
  /\ UNCHANGED <<row, session, sid, leg, stray, op, sweep, start, h, snap, unmuted,
                 deadline, fin>>

(* stop() claims the call, then cancels what need not finish.                *)
Drain ==
  /\ svc = "stopping"
  /\ svc' = "draining"
  /\ deadline' = IF deadline = "armed" THEN "off" ELSE deadline
  /\ Terminate(SetupFailed, TRUE) \/ TerminateRaises(SetupFailed, TRUE)
  /\ UNCHANGED <<session, sid, leg, stray, op, sweep, start, h, snap, unmuted>>

Quiet == fin.pc = "idle" /\ \A l \in Legs : ~OpBusy(l) /\ sweep[l].left = 0

(* Whatever the process kept in memory is gone.                              *)
Gone ==
  /\ svc' = "down"
  /\ op' = [l \in Legs |-> IdleOp]
  /\ sweep' = [l \in Legs |-> [sweep[l] EXCEPT !.left = 0]]
  /\ start' = "done"
  /\ h' = [x \in Handlers |-> "done"]
  /\ deadline' = "off"
  /\ fin' = IdleFin
  /\ snap' = FALSE
  /\ UNCHANGED <<row, session, sid, unmuted>>

Exit ==
  /\ svc = "draining"
  /\ Quiet
  /\ Gone
  /\ UNCHANGED <<leg, stray, faults>>

(* A request on its way may still be carried out, and a leg that was being   *)
(* adopted or removed is nobody's now.                                       *)
Crash ==
  /\ svc # "down"
  /\ Death
  /\ Gone
  /\ \E landed \in SUBSET {l \in Legs : op[l].pc \in {"creating", "settling"}} :
       /\ leg' = [l \in Legs |-> IF l \in landed THEN "live" ELSE leg[l]]
       /\ stray' = stray \cup landed
                     \cup {l \in Legs : (OpBusy(l) \/ sweep[l].left > 0) /\ leg[l] = "live"}

Restart ==
  /\ svc = "down"
  /\ svc' = "booting"
  /\ UNCHANGED <<row, session, sid, leg, stray, op, sweep, start, h, snap, unmuted,
                 deadline, fin, faults>>

(* recover_startup adopts an open call; a claim that raises fails the boot,  *)
(* and stop() runs.                                                          *)
RecoverCall ==
  /\ svc = "booting"
  /\ LET can == CanClaimRecovery(row, row.outcome)
         new == ClaimRecovery(row, row.outcome)
     IN \/ /\ Answered(can, new)
           /\ svc' = "recovering"
           /\ fin' = IF can THEN Teardown(new) ELSE IdleFin
        \/ Raised(can, new) /\ svc' = "stopping" /\ UNCHANGED fin
  /\ UNCHANGED <<session, sid, leg, stray, op, sweep, start, h, snap, unmuted, deadline>>

FinishRecovery ==
  /\ svc = "recovering"
  /\ fin.pc = "idle"
  /\ svc' = "up"
  /\ UNCHANGED <<row, session, sid, leg, stray, op, sweep, start, h, snap, unmuted,
                 deadline, fin, faults>>

-----------------------------------------------------------------------------
Create(l) == \/ CreateLeg(l) \/ CreateFailed(l) \/ CheckCall(l) \/ AdoptLeg(l)
             \/ PersistAbandoned(l) \/ RemoveAbandoned(l) \/ TerminalizeAbandoned(l)

Activate(x) ==
  \/ PromoteCall(x, "promote", "prewarming", "claim")
  \/ PromoteCall(x, "claim", "ready_to_activate", "load")
  \/ LoadCall(x) \/ MonitorStarted(x)
  \/ PromoteCall(x, "activate", "activating", "unmute")
  \/ UnmuteAgent(x) \/ EnableConversation(x) \/ ActivationFailed(x)

Opener == VerifySession \/ DialCallee \/ CalleeDialled \/ SidebandFatal

Deadline == DeadlineReads \/ DeadlineEnds

Finisher == TeardownMedia \/ CommitTerminal

Next ==
  \/ \E l \in Legs : Create(l) \/ RetryRemoval(l)
  \/ CalleeLeaves
  \/ StartReturns \/ CancelStart \/ CancelOpener
  \/ BindSession \/ Opener
  \/ \E x \in Handlers : CalleeAnswered(x) \/ ReadGate(x) \/ Activate(x)
  \/ Deadline \/ HangUp \/ Finisher
  \/ Stop \/ Drain \/ Exit \/ Crash \/ Restart \/ RecoverCall \/ FinishRecovery

Spec == Init /\ [][Next]_vars

-----------------------------------------------------------------------------
(* Properties                                                                *)

(* Once the call's conference has been completed for good, every leg that    *)
(* still exists at the provider is some task's to remove: a create that      *)
(* answers late, loses its adoption, is cancelled or meets a failing         *)
(* database never leaves a leg nobody knows.  Excepted are a leg whose SID   *)
(* never arrived or died with the process, and one whose removal failed      *)
(* through every retry.                                                      *)
NoOrphanLeg ==
  \A l \in Legs :
    leg[l] = "live" /\ (fin.pc = "commit" \/ row.state \in TerminalStates) =>
      OpBusy(l) \/ sweep[l].left > 0 \/ sweep[l].gaveUp \/ l \in stray

(* The activation gate is never missed: when everything it asks for is       *)
(* recorded and nobody is left to look, somebody has promoted the call,      *)
(* whichever of the sideband and the two callbacks came last.                *)
GateNotMissed ==
  svc = "up" /\ GateOpen /\ row.state = "prewarming" =>
    \/ \E x \in Handlers : h[x] \in {"dial", "dialling", "gate", "promote", "fatal"}
    \/ faults.db

(* An active call has a carrier stream of its own, or a database statement   *)
(* failed while it was being ended.                                          *)
ActiveIsMonitored == row.state = "active" => sid["stream"] \/ faults.db

(* A call in set-up always has a task that will end it if nothing else does: *)
(* the start request, the compensation of its create, or the deadline; no    *)
(* cancellation slips between them.  Or a database statement failed.         *)
SetupSupervised ==
  svc = "up" /\ row.state \in DOMAIN NextSetupState =>
    start = "wait" \/ OpBusy("agent") \/ deadline # "off" \/ faults.db

HeldClaims == IF fin.pc = "idle" THEN {} ELSE {fin.claim}

Durable == INSTANCE CallRow WITH
  tickets <- HeldClaims,
  booting <- svc \in {"down", "booting"}

(* Set-up, its compensations and the deadline write the row only as CallRow  *)
(* allows.  This is Durable!Spec; most steps leave the row alone, and asking *)
(* that first spares TLC the search for a step of CallRow.                   *)
RefinesCallRow ==
  Durable!Init /\ [][Durable!vars' # Durable!vars /\ Durable!Next]_(Durable!vars)

(* The test test_setup_deadline_times_out_only_unactivated_calls: the setup  *)
(* deadline never ends a call that has become active.                        *)
DeadlineSparesActive ==
  [][row.state = "active" /\ row'.state = "terminating" => row'.reason # "setup_deadline"]_vars

(* docs/self-hosting.md: the agent leg is explicitly unmuted after the       *)
(* callee answers; so it is on a call whose activation is complete.          *)
ActiveAgentUnmuted ==
  row.state = "active" /\ (\A x \in Handlers : h[x] \in {"idle", "done"}) => unmuted
=============================================================================
