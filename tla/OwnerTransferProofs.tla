------------------------- MODULE OwnerTransferProofs -------------------------
(***************************************************************************)
(* However the transfer worker, the terminations and their retries, the    *)
(* shutdown and the recovery interleave, and whatever fails: an ended call *)
(* is silent but for a stray owner leg, a transferred one keeps its owner, *)
(* some task will end a claimed one, and the row is written only as        *)
(* CallRow allows.                                                         *)
(***************************************************************************)
EXTENDS OwnerTransfer, TLAPS

-----------------------------------------------------------------------------
(* The inductive invariant.                                                  *)

(* A create of the owner leg is under way, or about to be.                   *)
Dials == w.pc \in {"claiming", "creating", "settling"}

(* Which tasks there can be: those of recovery only while it runs, those of  *)
(* the worker only while it waits for them, none in a process that is gone.  *)
(* Who cancels the worker in a process that is up is waiting for it.         *)
TasksInPlace ==
  /\ svc \in {"down", "booting"} => \A f \in Finishers : fin[f].pc = "idle"
  /\ svc \in {"down", "booting", "recovering"} => w.pc = "none"
  /\ fin["recover"].pc # "idle" => svc = "recovering"
  /\ fin["worker"].pc # "idle" => w.pc \in {"finishing", "adopted"}
  /\ fin["cleanup"].pc # "idle" => w.pc = "terminating"
  /\ w.pc \in {"none", "done"} => ~w.cancel
  /\ w.cancel /\ svc = "up" => fin["term"].pc = "await"

(* Nobody tears the call down while its owner leg may still be created.      *)
TeardownWaits == Dials => \A f \in Finishers : fin[f].pc \in {"idle", "await", "ok", "no"}

(* A task that ends a call, and an armed owner leg, belong to a claimed call.*)
TasksOfClaimed ==
  /\ \A f \in Finishers : Busy(f) => row.claimed
  /\ w.pc = "claiming" => ~row.claimed
  /\ tw.armed => row.claimed
  /\ row.state \in ClosedStates => row.claimed

(* A promoted handoff is the worker's, or recovery's, until it is finished   *)
(* or revoked.                                                               *)
HandoffHeld ==
  /\ w.pc \in {"removeAI", "completing"} => Promoted(row, "in_progress")
  /\ w.pc \in {"arming", "armed"} => Promoted(row, "completed")
  /\ \A f \in Finishers :
       \/ fin[f].pc \in {"arm", "unarmed"}
       \/ fin[f].pc = "commit" /\ fin[f].preserve
       => Promoted(row, "completed")

(* Only the task that finishes a handoff keeps the conference, and it has    *)
(* one claim; the others have another.                                       *)
ClaimsInKind ==
  \A f \in Finishers :
    /\ fin[f].pc \in {"await", "media", "compensate"} => ~fin[f].preserve
    /\ fin[f].pc \in {"arm", "unarmed"} => f = "recover" /\ fin[f].preserve
    /\ fin[f].pc = "compensate" => f = "recover" /\ DbFaulted
    /\ fin[f].pc \in {"ok", "no"} => f \notin {"term", "retry"}
    /\ fin[f].pc \in {"await", "media", "commit", "reread"} =>
         /\ fin[f].claim.reason # "none"
         /\ fin[f].preserve <=> fin[f].claim.reason = "transfer_completed"
    /\ Busy(f) /\ fin[f].preserve =>
         /\ f \in {"worker", "recover"}
         /\ fin[f].claim = [reason |-> "transfer_completed", outcome |-> "completed"]
    /\ fin[f].pc = "reread" /\ fin[f].preserve => DbFaulted

(* A stray owner leg belongs to an attempt that has failed, or that a death  *)
(* of the process left joining: no owner was ever armed, none ever will be.  *)
Tried == {"joining", "failed"}
StraysApart ==
  /\ Dials \/ tw.stray # "no" => row.outcome \in Tried
  /\ tw.stray # "no" => ~tw.armed /\ ~Dials /\ w.pc \notin {"persist", "waiting"}

(* The line is silent before the end of the call is committed, and an armed  *)
(* owner leg takes the callee with it when it leaves.                        *)
SilentFirst ==
  \A f \in Finishers : fin[f].pc = "commit" /\ ~fin[f].preserve => Silent

ArmedKeepsOwner ==
  /\ tw.armed => ~Dials /\ (tw.callee => tw.owner = "in")
  /\ w.pc = "armed" => tw.armed
  /\ \A f \in Finishers : fin[f].pc \in {"commit", "reread"} /\ fin[f].preserve => tw.armed
  /\ row.state = "transferred" => tw.armed

(* The worker is at a step that finishes the handoff or revokes it.          *)
HasHandoff ==
  \/ w.pc \in {"removeAI", "completing", "arming", "armed"}
  \/ /\ w.pc \in {"cleanup", "failPromoted"}
     /\ Promoted(row, IF w.phase = "completed" THEN "completed" ELSE "in_progress")
     /\ w.phase # "joining"

Carried ==
  row.state = "terminating" /\ svc \in {"up", "recovering"} =>
    \/ HasHandoff
    \/ \E f \in Finishers : Busy(f)
    \/ DbFaulted

IInv == /\ TypeOK
        /\ TasksInPlace
        /\ TeardownWaits
        /\ TasksOfClaimed
        /\ HandoffHeld
        /\ ClaimsInKind
        /\ SilentFirst /\ EndedCallIsSilent
        /\ StraysApart /\ ArmedKeepsOwner
        /\ Carried

-----------------------------------------------------------------------------
(* What a step does to one variable.                                         *)

Lines   == [conf : {"open", "ended"}, callee : BOOLEAN, ai : BOOLEAN,
            owner : {"none", "ringing", "in", "left"}, armed : BOOLEAN,
            stray : {"no", "due", "alone"}]
Marks   == [ownerSid : BOOLEAN, cleanup : BOOLEAN]
Workers == [pc : WorkerPcs, phase : {"joining", "promoted", "completed"}, sid : BOOLEAN,
            cleaned : BOOLEAN, completing : BOOLEAN, cancel : BOOLEAN, unsure : BOOLEAN]
Tasks   == [pc : FinPcs, claim : Claim, preserve : BOOLEAN]
Budgets == [db : 0..MaxDbFaults, tw : 0..MaxTwFaults, restart : 0..MaxRestarts]

LEMMA Types ==
  ASSUME TypeOK
  PROVE  /\ row \in Row /\ marks \in Marks /\ tw \in Lines /\ w \in Workers
         /\ fin \in [Finishers -> Tasks] /\ faults \in Budgets
  BY DEF TypeOK, Lines, Marks, Workers, Tasks, Budgets

LEMMA FinisherNames ==
  /\ "term" \in Finishers /\ "cleanup" \in Finishers /\ "shutdown" \in Finishers
  /\ "worker" \in Finishers /\ "recover" \in Finishers /\ "retry" \in Finishers
  BY DEF Finishers

(* The faults a step may spend; a statement that failed is remembered.       *)
Spends     == faults' \in Budgets /\ (DbFaulted => DbFaulted')
SpendsOnDb == faults' \in Budgets /\ DbFaulted'

LEMMA FaultsSpend ==
  ASSUME TypeOK
  PROVE  /\ UNCHANGED faults => Spends
         /\ TwFault => Spends
         /\ faults.restart > 0 /\ faults' = [faults EXCEPT !.restart = @ - 1] => Spends
         /\ DbFault => SpendsOnDb
         /\ TwAndDbFault => SpendsOnDb
         /\ TwoDbFaults => SpendsOnDb
<1>1. /\ faults \in Budgets
      /\ MaxDbFaults \in Nat /\ MaxTwFaults \in Nat /\ MaxRestarts \in Nat
  BY Types, BudgetAssumption
<1>2. UNCHANGED faults => Spends
  BY <1>1 DEF Spends, DbFaulted
<1>3. TwFault => Spends
  BY <1>1 DEF Spends, Budgets, TwFault, DbFaulted
<1>4. faults.restart > 0 /\ faults' = [faults EXCEPT !.restart = @ - 1] => Spends
  BY <1>1 DEF Spends, Budgets, DbFaulted
<1>5. DbFault => SpendsOnDb
  BY <1>1 DEF SpendsOnDb, Budgets, DbFault, DbFaulted
<1>6. TwAndDbFault => SpendsOnDb
  <2>1. SUFFICES ASSUME TwAndDbFault PROVE SpendsOnDb
    OBVIOUS
  <2>2. /\ faults.tw - 1 \in 0..MaxTwFaults /\ faults.db - 1 \in 0..MaxDbFaults
        /\ faults.db - 1 < MaxDbFaults
    BY <1>1, <2>1 DEF TwAndDbFault, Budgets
  <2>3. faults' = [faults EXCEPT !.tw = faults.tw - 1, !.db = faults.db - 1]
    BY <2>1 DEF TwAndDbFault
  <2>4. faults' \in Budgets /\ faults'.db = faults.db - 1
    BY <1>1, <2>2, <2>3 DEF Budgets
  <2>5. QED
    BY <2>2, <2>4 DEF SpendsOnDb, DbFaulted
<1>7. TwoDbFaults => SpendsOnDb
  BY <1>1 DEF SpendsOnDb, Budgets, TwoDbFaults, DbFaulted
<1>8. QED
  BY <1>2, <1>3, <1>4, <1>5, <1>6, <1>7

(* The worker moves; what it knows stays.                                    *)
WorkerAt(pc) == w' \in Workers /\ w'.pc = pc /\ w'.cancel = w.cancel
Fails(ph)    == WorkerAt("cleanup") /\ w'.phase = ph
WorkerEnds   == w' \in Workers /\ w'.pc = "done" /\ ~w'.cancel

LEMMA WorkerGoes ==
  ASSUME TypeOK, NEW pc \in WorkerPcs, pc # "done", Goto(pc)
  PROVE  WorkerAt(pc) /\ w'.phase = w.phase
<1>1. w \in Workers /\ w' = [w EXCEPT !.pc = pc]
  BY Types DEF Goto
<1>2. QED
  BY <1>1 DEF WorkerAt, Workers

LEMMA WorkerIsDone ==
  ASSUME Goto("done")
  PROVE  WorkerEnds
<1>1. IdleWorker \in Workers /\ ~IdleWorker.cancel
  BY DEF IdleWorker, Workers, WorkerPcs
<1>2. w' = [IdleWorker EXCEPT !.pc = "done"]
  BY DEF Goto
<1>3. QED
  BY <1>1, <1>2 DEF WorkerEnds, Workers, WorkerPcs

LEMMA WorkerFails ==
  ASSUME TypeOK, NEW ph \in {"joining", "promoted", "completed"}, FailWith(ph)
  PROVE  Fails(ph)
<1>1. w \in Workers
  BY Types
<1>2. QED
  BY <1>1 DEF FailWith, Fails, WorkerAt, Workers, WorkerPcs

(* The conference ends; or the owner leaves it, alone or not.                *)
LineEnds ==
  /\ tw' \in Lines /\ tw'.conf = "ended" /\ ~tw'.callee /\ ~tw'.ai
  /\ tw'.owner \notin {"ringing", "in"} /\ tw'.armed = tw.armed
  /\ tw'.stray \in {tw.stray, "no"}

LEMMA ConferenceEnds ==
  ASSUME TypeOK, tw' = Ended(tw)
  PROVE  LineEnds
<1>1. tw \in Lines
  BY Types
<1>2. QED
  BY <1>1 DEF Ended, LineEnds, Lines

OwnerGoes ==
  /\ tw' \in Lines /\ tw'.owner = "left" /\ tw'.armed = tw.armed
  /\ tw.conf = "ended" => tw'.conf = "ended"
  /\ tw'.callee => tw.callee /\ ~(tw.armed /\ tw.owner = "in")
  /\ tw'.ai => tw.ai
  /\ tw'.stray = tw.stray \/ (tw'.stray = "no" /\ tw'.conf = "ended")

LEMMA OwnerIsOut ==
  ASSUME TypeOK, tw' = OwnerOut(tw)
  PROVE  OwnerGoes
<1>1. tw \in Lines
  BY Types
<1>2. CASE tw.armed /\ tw.owner = "in"
  BY <1>1, <1>2 DEF OwnerOut, Ended, OwnerGoes, Lines
<1>3. CASE ~(tw.armed /\ tw.owner = "in")
  BY <1>1, <1>3 DEF OwnerOut, OwnerGoes, Lines
<1>4. QED
  BY <1>2, <1>3

(* One task moves; or gives up, and perhaps leaves its claim to the retry.   *)
TaskMoves(f) ==
  /\ fin' \in [Finishers -> Tasks]
  /\ \A g \in Finishers : g # f => fin'[g] = fin[g]

TaskAt(f, pc) ==
  TaskMoves(f) /\ fin'[f].pc = pc /\ fin'[f].claim = fin[f].claim
               /\ fin'[f].preserve = fin[f].preserve

LEMMA TaskGoes ==
  ASSUME TypeOK, NEW f \in Finishers, NEW pc \in FinPcs,
         fin' = [fin EXCEPT ![f].pc = pc] \/ fin' = [fin EXCEPT ![f] = [@ EXCEPT !.pc = pc]]
  PROVE  TaskAt(f, pc)
<1>1. fin \in [Finishers -> Tasks] /\ fin[f] \in Tasks
  BY Types
<1>2. QED
  BY <1>1 DEF TaskAt, TaskMoves, Tasks

LEMMA TaskSet ==
  ASSUME TypeOK, NEW f \in Finishers, NEW t \in Tasks, fin' = [fin EXCEPT ![f] = t]
  PROVE  TaskMoves(f) /\ fin'[f] = t
  BY Types DEF TaskMoves

LEMMA IdleIsTask == Idle \in Tasks /\ Idle.pc = "idle" /\ NoClaim \in Claim
  BY DEF Idle, Tasks, FinPcs, NoClaim, Claim, SpecialReasons, Outcomes

(* A task that ends is idle, or holds its answer.                            *)
HoldsAnswer(f) ==
  /\ fin'[f].pc \in {"ok", "no", "idle"}
  /\ f \in {"term", "retry"} => fin'[f].pc = "idle"

LEMMA AnswerIsTask ==
  ASSUME NEW f, NEW pc \in {"ok", "no"}
  PROVE  /\ Answer(f, pc) \in Tasks
         /\ Answer(f, pc).pc \in {"ok", "no", "idle"}
         /\ f \in {"term", "retry"} => Answer(f, pc).pc = "idle"
  BY IdleIsTask DEF Answer, Tasks, FinPcs

Answers(f) == TaskMoves(f) /\ HoldsAnswer(f)

LEMMA TaskAnswers ==
  ASSUME TypeOK, NEW f \in Finishers, NEW pc \in {"ok", "no"},
         fin' = [fin EXCEPT ![f] = Answer(f, pc)]
  PROVE  Answers(f)
  BY AnswerIsTask, TaskSet DEF Answers, HoldsAnswer

GivesUp(f) ==
  /\ fin' \in [Finishers -> Tasks]
  /\ \A g \in Finishers : g \notin {f, "retry"} => fin'[g] = fin[g]
  /\ HoldsAnswer(f)
  /\ \/ fin'["retry"] = fin["retry"] /\ (Stopping \/ fin["retry"].pc # "idle")
     \/ fin'["retry"] = [pc |-> "media", claim |-> fin[f].claim, preserve |-> FALSE]

LEMMA TaskGivesUp ==
  ASSUME TypeOK, NEW f \in Finishers, f # "retry",
         fin' = ScheduleRetry([fin EXCEPT ![f] = Answer(f, "no")], fin[f].claim)
  PROVE  GivesUp(f)
<1>1. fin \in [Finishers -> Tasks] /\ fin[f] \in Tasks
  BY Types
<1> DEFINE g == [fin EXCEPT ![f] = Answer(f, "no")]
<1>2. /\ g \in [Finishers -> Tasks] /\ g[f] = Answer(f, "no")
      /\ \A x \in Finishers : x # f => g[x] = fin[x]
  BY <1>1, AnswerIsTask
<1>3. /\ Answer(f, "no").pc \in {"ok", "no", "idle"}
      /\ f = "term" => Answer(f, "no").pc = "idle"
  BY AnswerIsTask
<1>4. [pc |-> "media", claim |-> fin[f].claim, preserve |-> FALSE] \in Tasks
  BY <1>1 DEF Tasks, FinPcs
<1>5. CASE Stopping \/ g["retry"].pc # "idle"
  <2>1. fin' = g
    BY <1>5 DEF ScheduleRetry
  <2>2. QED
    BY <1>2, <1>3, <1>5, <2>1, FinisherNames DEF GivesUp, HoldsAnswer
<1>6. CASE ~(Stopping \/ g["retry"].pc # "idle")
  <2>1. fin' = [g EXCEPT !["retry"] = [pc |-> "media", claim |-> fin[f].claim, preserve |-> FALSE]]
    BY <1>6 DEF ScheduleRetry
  <2>2. QED
    BY <1>2, <1>3, <1>4, <2>1, FinisherNames DEF GivesUp, HoldsAnswer
<1>7. QED
  BY <1>5, <1>6

-----------------------------------------------------------------------------
(* What a step does to the row.                                              *)

(* A transfer attempt is made once, and only a promotion makes it more.      *)
StaysTried == row.outcome \in Tried => row'.outcome \in Tried

(* Only columns change that no claim is about.                               *)
RowGoesOn ==
  /\ row' \in Row /\ row'.claimed = row.claimed /\ StaysTried
  /\ row'.state = row.state \/ {row.state, row'.state} \cap ClosedStates = {}
  /\ \A o \in {"in_progress", "completed"} : Promoted(row, o) => Promoted(row', o)

(* A claim, a revocation or recovery takes the call for a teardown.          *)
RowIsTaken ==
  /\ row' \in Row /\ row'.claimed /\ row'.state = "terminating"
  /\ row.state \notin TerminalStates
  /\ StaysTried \/ w.pc = "waiting"

RowEnds(c) ==
  /\ row' \in Row /\ row.claimed /\ row'.claimed /\ StaysTried
  /\ row.state = "terminating" /\ row.reason = c.reason
  /\ row'.state \in TerminalStates
  /\ row'.state = "transferred" <=> c.reason = "transfer_completed"

LEMMA SetupGoesOn ==
  ASSUME TypeOK, SetupProgress
  PROVE  RowGoesOn
<1>1. row \in Row
  BY Types
<1>2. CASE row' = SetJoined(row)
  BY <1>1, <1>2 DEF StaysTried, Tried, RowGoesOn, SetJoined, Row, Promoted
<1>3. CASE \E from \in DOMAIN NextSetupState : CanPromote(row, from) /\ row' = Promote(row, from)
  <2>1. PICK from \in {"prewarming", "ready_to_activate", "activating"} :
          row.state = from /\ row' = [row EXCEPT !.state = NextSetupState[from]]
    BY <1>3 DEF NextSetupState, EligibleStates, CanPromote, Promote
  <2>2. NextSetupState[from] \in {"ready_to_activate", "activating", "active"}
    BY DEF NextSetupState, EligibleStates
  <2>3. row' \in Row /\ row'.claimed = row.claimed /\ row'.state = NextSetupState[from]
        /\ row'.outcome = row.outcome
    BY <1>1, <2>1, <2>2 DEF Row, CallStates, EligibleStates
  <2>4. \A o \in {"in_progress", "completed"} : ~Promoted(row, o)
    BY <2>1 DEF Promoted
  <2>5. QED
    BY <2>3, <2>4 DEF StaysTried, Tried, RowGoesOn, ClosedStates, TerminalStates
<1>4. QED
  BY <1>2, <1>3 DEF SetupProgress

LEMMA JoiningGoesOn ==
  ASSUME TypeOK, \/ CanClaimJoining(row) /\ row' = ClaimJoining(row)
                 \/ CanFailJoining(row) /\ row' = FailJoining(row)
                 \/ row' = row
  PROVE  RowGoesOn
<1>1. row \in Row
  BY Types
<1>2. CASE row' = row
  BY <1>1, <1>2 DEF StaysTried, Tried, CanClaimJoining, RowGoesOn
<1>3. CASE CanClaimJoining(row) /\ row' = ClaimJoining(row)
  BY <1>1, <1>3 DEF StaysTried, Tried, CanClaimJoining, RowGoesOn, CanClaimJoining, ClaimJoining, Row, Outcomes, Promoted
<1>4. CASE CanFailJoining(row) /\ row' = FailJoining(row)
  BY <1>1, <1>4 DEF StaysTried, Tried, CanClaimJoining, RowGoesOn, CanFailJoining, StillJoining, FailJoining, Row,
    Outcomes, Promoted
<1>5. QED
  BY <1>2, <1>3, <1>4

LEMMA ReasonsOfTerminators ==
  ASSUME NEW f \in DOMAIN ReasonOf
  PROVE  /\ f \in {"term", "cleanup", "shutdown"} /\ f \in Finishers
         /\ ReasonOf[f] \in OrdinaryReasons /\ ReasonOf[f] \notin SpecialReasons
<1>1. f \in {"term", "cleanup", "shutdown"}
  BY DEF ReasonOf
<1>2. ReasonOf[f] \in OrdinaryReasons
  BY <1>1, BudgetAssumption DEF ReasonOf
<1>3. QED
  BY <1>1, <1>2, OrdinaryReasonsAssumption, FinisherNames

LEMMA ClaimTakes ==
  ASSUME TypeOK, NEW reason \in OrdinaryReasons, CanClaimTermination(row),
         row' = ClaimTermination(row, reason)
  PROVE  RowIsTaken /\ ~row.claimed /\ row'.reason = reason
<1>1. row \in Row
  BY Types
<1>2. QED
  BY <1>1 DEF StaysTried, Tried, CanClaimTermination, ClaimTermination, RowIsTaken, Row, CallStates,
    ClosedStates, Outcomes

LEMMA PromoteTakes ==
  ASSUME TypeOK, w.pc = "waiting", CanPromoteTransfer(row), row' = PromoteTransfer(row)
  PROVE  RowIsTaken /\ ~row.claimed /\ Promoted(row', "in_progress")
<1>1. row \in Row
  BY Types
<1>2. QED
  BY <1>1 DEF StaysTried, Tried, CanPromoteTransfer, StillJoining, PromoteTransfer, RowIsTaken, Row,
    CallStates, ClosedStates, TerminalStates, EligibleStates, Outcomes,
    SpecialReasons, Promoted

LEMMA CompleteTakes ==
  ASSUME TypeOK, CanCompleteTransfer(row), row' = CompleteTransfer(row)
  PROVE  RowIsTaken /\ Promoted(row', "completed")
<1>1. row \in Row
  BY Types
<1>2. QED
  BY <1>1 DEF StaysTried, Tried, CanCompleteTransfer, CompleteTransfer, RowIsTaken, Row, TerminalStates,
    Outcomes, Promoted

LEMMA RevokeTakes ==
  ASSUME TypeOK, NEW o \in {"in_progress", "completed"}, CanFailPromoted(row, o),
         row' = FailPromoted(row)
  PROVE  RowIsTaken /\ Promoted(row, o) /\ row'.reason = "transfer_failed"
<1>1. row \in Row
  BY Types
<1>2. QED
  BY <1>1 DEF StaysTried, Tried, CanFailPromoted, FailPromoted, RowIsTaken, Row, TerminalStates,
    Outcomes, SpecialReasons, Promoted

LEMMA RecoveryTakes ==
  ASSUME TypeOK, CanClaimRecovery(row, row.outcome), row' = ClaimRecovery(row, row.outcome)
  PROVE  /\ RowIsTaken
         /\ row.outcome = "completed" => Promoted(row', "completed")
         /\ row.outcome # "completed" => row'.reason = "startup_recovery"
<1>1. row \in Row /\ row.state \notin TerminalStates
  BY Types DEF CanClaimRecovery
<1>2. row' \in Row /\ row'.claimed /\ row'.state = "terminating"
  BY <1>1 DEF ClaimRecovery, Row, CallStates, ClosedStates, Outcomes, SpecialReasons
<1>3. /\ row.outcome = "completed" => row'.reason = "transfer_completed" /\ row'.outcome = "completed"
      /\ row.outcome # "completed" => row'.reason = "startup_recovery"
      /\ StaysTried
  BY <1>1 DEF ClaimRecovery, Row, StaysTried, Tried
<1>4. QED
  BY <1>1, <1>2, <1>3 DEF RowIsTaken, Promoted

LEMMA FinishEnds ==
  ASSUME TypeOK, NEW c \in Claim, CanFinishTermination(row, c.reason, c.outcome),
         row' = FinishTermination(row, c.reason)
  PROVE  RowEnds(c)
<1>1. row \in Row /\ row.claimed /\ row.state = "terminating" /\ row.reason = c.reason
  BY Types DEF CanFinishTermination
<1>2. /\ ClassifyTerminalState(c.reason) \in TerminalStates
      /\ ClassifyTerminalState(c.reason) = "transferred" <=> c.reason = "transfer_completed"
  BY DEF ClassifyTerminalState, TerminalStates, TimedOutReasons, CompletedReasons
<1>3. /\ row' \in Row /\ row'.state = ClassifyTerminalState(c.reason)
      /\ row'.claimed = row.claimed /\ row'.outcome = row.outcome
  BY <1>1, <1>2 DEF FinishTermination, Row, CallStates, ClosedStates
<1>4. QED
  BY <1>1, <1>2, <1>3 DEF RowEnds, StaysTried

(* The answer of a claim is a ticket for exactly that claim.                 *)
LEMMA ClaimIsTicket ==
  ASSUME NEW r \in Row
  PROVE  ClaimOf(r) \in Claim /\ ClaimOf(r).reason = r.reason /\ ClaimOf(r).outcome = r.outcome
  BY DEF ClaimOf, Claim, Row

(* Who completes the conference, and may leave it to the retry.              *)
LEMMA ConferenceCompletes ==
  ASSUME TypeOK, CompleteConferenceOrSchedule
  PROVE  /\ LineEnds \/ UNCHANGED tw
         /\ marks' \in Marks /\ compRetry' \in BOOLEAN /\ Spends
<1>1. marks \in Marks /\ compRetry \in BOOLEAN
  BY Types DEF TypeOK
<1>2. marks' = marks \/ \E b \in BOOLEAN : marks' = [marks EXCEPT !.cleanup = b]
  BY DEF CompleteConferenceOrSchedule
<1>3. marks' \in Marks
  BY <1>1, <1>2 DEF Marks
<1>4. compRetry' \in BOOLEAN
  BY <1>1 DEF CompleteConferenceOrSchedule
<1>5. Spends
  BY FaultsSpend DEF CompleteConferenceOrSchedule, Spends, SpendsOnDb
<1>6. LineEnds \/ UNCHANGED tw
  BY ConferenceEnds DEF CompleteConferenceOrSchedule
<1>7. QED
  BY <1>3, <1>4, <1>5, <1>6

-----------------------------------------------------------------------------
(* Every step keeps the invariant.                                           *)

(* The worker takes the handoff it revoked to its own end.                   *)
Adopts ==
  /\ RowIsTaken /\ WorkerAt("adopted") /\ TaskMoves("worker")
  /\ fin'["worker"].pc = "media" /\ ~fin'["worker"].preserve
  /\ fin'["worker"].claim.reason = "transfer_failed"

LEMMA RevokedIsAdopted ==
  ASSUME TypeOK, NEW o \in {"in_progress", "completed"}, CanFailPromoted(row, o),
         row' = FailPromoted(row), AdoptRevoked
  PROVE  Adopts
<1>1. RowIsTaken /\ row' \in Row /\ row'.reason = "transfer_failed"
  BY RevokeTakes DEF RowIsTaken
<1>2. WorkerAt("adopted")
  BY WorkerGoes DEF AdoptRevoked, WorkerPcs
<1> DEFINE t == [pc |-> "media", preserve |-> FALSE, claim |-> ClaimOf(row')]
<1>3. t \in Tasks /\ t.claim.reason = "transfer_failed"
  BY <1>1, ClaimIsTicket DEF Tasks, FinPcs
<1>4. fin' = [fin EXCEPT !["worker"] = t]
  BY DEF AdoptRevoked
<1>5. TaskMoves("worker") /\ fin'["worker"] = t
  BY <1>3, <1>4, TaskSet, FinisherNames
<1>6. QED
  BY <1>1, <1>2, <1>3, <1>5 DEF Adopts

HandoffClaim == [reason |-> "transfer_completed", outcome |-> "completed"]

LEMMA HandoffTask ==
  ASSUME NEW pc \in FinPcs
  PROVE  /\ [pc |-> pc, preserve |-> TRUE, claim |-> HandoffClaim] \in Tasks
         /\ [pc |-> pc, claim |-> HandoffClaim, preserve |-> TRUE] \in Tasks
  BY DEF Tasks, Claim, SpecialReasons, Outcomes, HandoffClaim

LEMMA SetupProgressStep ==
  ASSUME IInv, SetupProgress
  PROVE  IInv'
<1>1. UNCHANGED <<marks, tw, seen, w, fin, compRetry, svc, faults>>
  BY DEF SetupProgress
<1>2. RowGoesOn
  BY SetupGoesOn DEF IInv
<1>3. TypeOK'
  BY <1>1, <1>2 DEF IInv, TypeOK, RowGoesOn
<1>4. TasksOfClaimed'
  BY <1>1, <1>2, FinisherNames DEF IInv, TasksOfClaimed, Busy, ClosedStates,
    TerminalStates, HandoffHeld, Promoted, TasksInPlace, RowGoesOn
<1>5. HandoffHeld'
  BY <1>1, <1>2 DEF IInv, HandoffHeld, RowGoesOn
<1>6. EndedCallIsSilent'
  BY <1>1, <1>2, FinisherNames DEF IInv, EndedCallIsSilent, Dials, Silent, Busy,
    ClosedStates, TerminalStates, SilentFirst, TeardownWaits, TasksOfClaimed,
    ClaimsInKind, RowGoesOn
<1>7. ArmedKeepsOwner'
  BY <1>1, <1>2, FinisherNames DEF IInv, ArmedKeepsOwner, Dials, Busy, ClosedStates,
    TerminalStates, TasksOfClaimed, ClaimsInKind, TasksInPlace, RowGoesOn
<1>8. Carried'
  BY <1>1, <1>2 DEF IInv, Carried, HasHandoff, Busy, ClosedStates, RowGoesOn,
    DbFaulted
<1>9. (TasksInPlace /\ TeardownWaits /\ ClaimsInKind /\ SilentFirst)'
  BY <1>1 DEF IInv, TasksInPlace, TeardownWaits, Dials, Busy, ClaimsInKind,
    SilentFirst, Silent, DbFaulted
<1>10. StraysApart'
  BY <1>1, <1>2 DEF IInv, StraysApart, Dials, HandoffHeld, Promoted, Tried, RowGoesOn,
    StaysTried
<1>11. QED
  BY <1>3, <1>4, <1>5, <1>6, <1>7, <1>8, <1>9, <1>10 DEF IInv

LEMMA CalleeLeavesStep ==
  ASSUME IInv, CalleeLeaves
  PROVE  IInv'
<1>1. UNCHANGED <<row, marks, seen, w, fin, compRetry, svc, faults>>
  BY DEF CalleeLeaves
<1>2. LineEnds
  BY ConferenceEnds DEF IInv, CalleeLeaves
<1>3. TypeOK'
  BY <1>1, <1>2 DEF IInv, TypeOK, LineEnds, Lines
<1>4. TasksOfClaimed'
  BY <1>1, <1>2 DEF IInv, TasksOfClaimed, Busy, LineEnds
<1>5. SilentFirst'
  BY <1>2 DEF IInv, SilentFirst, Silent, LineEnds
<1>6. EndedCallIsSilent'
  BY <1>1, <1>2 DEF IInv, EndedCallIsSilent, Silent, LineEnds
<1>7. ArmedKeepsOwner'
  BY <1>1, <1>2 DEF IInv, ArmedKeepsOwner, Dials, LineEnds
<1>8. (TasksInPlace /\ TeardownWaits /\ HandoffHeld /\ ClaimsInKind /\ Carried)'
  BY <1>1 DEF IInv, TasksInPlace, TeardownWaits, Dials, Busy, HandoffHeld,
    ClaimsInKind, Carried, HasHandoff, DbFaulted
<1>9. StraysApart'
  BY <1>1, <1>2 DEF IInv, StraysApart, Dials, HandoffHeld, Promoted, Tried, LineEnds
<1>10. QED
  BY <1>3, <1>4, <1>5, <1>6, <1>7, <1>8, <1>9 DEF IInv

LEMMA OwnerAnswersStep ==
  ASSUME IInv, OwnerAnswers
  PROVE  IInv'
<1>1. /\ tw.owner = "ringing"
      /\ UNCHANGED <<row, marks, seen, w, fin, compRetry, svc, faults>>
  BY DEF OwnerAnswers
<1>2. /\ tw' \in Lines /\ tw'.owner = "in" /\ tw'.armed = tw.armed
      /\ tw'.conf = tw.conf /\ tw'.callee = tw.callee
      /\ tw'.ai = tw.ai /\ tw'.stray = tw.stray
  BY Types DEF IInv, OwnerAnswers, Lines
<1>3. TypeOK'
  BY <1>1, <1>2 DEF IInv, TypeOK, Lines
<1>4. TasksOfClaimed'
  BY <1>1, <1>2 DEF IInv, TasksOfClaimed, Busy
<1>5. SilentFirst'
  BY <1>1, <1>2 DEF IInv, SilentFirst, Silent
<1>6. EndedCallIsSilent'
  BY <1>1, <1>2 DEF IInv, EndedCallIsSilent, Silent
<1>7. ArmedKeepsOwner'
  BY <1>1, <1>2 DEF IInv, ArmedKeepsOwner, Dials
<1>8. (TasksInPlace /\ TeardownWaits /\ HandoffHeld /\ ClaimsInKind /\ Carried)'
  BY <1>1 DEF IInv, TasksInPlace, TeardownWaits, Dials, Busy, HandoffHeld,
    ClaimsInKind, Carried, HasHandoff, DbFaulted
<1>9. StraysApart'
  BY <1>1, <1>2 DEF IInv, StraysApart, Dials, HandoffHeld, Promoted, Tried
<1>10. QED
  BY <1>3, <1>4, <1>5, <1>6, <1>7, <1>8, <1>9 DEF IInv

LEMMA OwnerLeavesStep ==
  ASSUME IInv, OwnerLeaves
  PROVE  IInv'
<1>1. UNCHANGED <<row, marks, seen, w, fin, compRetry, svc, faults>>
  BY DEF OwnerLeaves
<1>2. OwnerGoes
  BY OwnerIsOut DEF IInv, OwnerLeaves
<1>3. TypeOK'
  BY <1>1, <1>2 DEF IInv, TypeOK, OwnerGoes, Lines
<1>4. TasksOfClaimed'
  BY <1>1, <1>2 DEF IInv, TasksOfClaimed, Busy, OwnerGoes
<1>5. SilentFirst'
  BY <1>1, <1>2 DEF IInv, SilentFirst, Silent, OwnerGoes
<1>6. EndedCallIsSilent'
  BY <1>1, <1>2 DEF IInv, EndedCallIsSilent, Silent, OwnerGoes
<1>7. ArmedKeepsOwner'
  BY <1>1, <1>2 DEF IInv, ArmedKeepsOwner, Dials, OwnerGoes
<1>8. (TasksInPlace /\ TeardownWaits /\ HandoffHeld /\ ClaimsInKind /\ Carried)'
  BY <1>1 DEF IInv, TasksInPlace, TeardownWaits, Dials, Busy, HandoffHeld,
    ClaimsInKind, Carried, HasHandoff, DbFaulted
<1>9. StraysApart'
  BY <1>1, <1>2 DEF IInv, StraysApart, Dials, HandoffHeld, Promoted, Tried, OwnerGoes
<1>10. QED
  BY <1>3, <1>4, <1>5, <1>6, <1>7, <1>8, <1>9 DEF IInv

LEMMA LateOwnerLegStep ==
  ASSUME IInv, LateOwnerLeg
  PROVE  IInv'
<1>1. /\ tw.stray = "due"
      /\ UNCHANGED <<row, marks, seen, w, fin, compRetry, svc, faults>>
  BY DEF LateOwnerLeg
<1>2. /\ tw' \in Lines /\ tw'.armed = tw.armed
      /\ tw'.callee = tw.callee /\ tw'.ai = tw.ai
      /\ tw.conf = "ended" => tw'.stray = "alone"
  BY Types DEF IInv, LateOwnerLeg, Lines
<1>3. ~tw.armed /\ Silent => Silent'
  BY <1>1, <1>2 DEF Silent
<1>4. ~tw.armed
  BY <1>1 DEF IInv, StraysApart
<1>5. TypeOK'
  BY <1>1, <1>2 DEF IInv, TypeOK, Lines
<1>6. (TasksOfClaimed /\ ArmedKeepsOwner)'
  BY <1>1, <1>2, <1>4 DEF IInv, TasksOfClaimed, Busy, ArmedKeepsOwner, Dials
<1>7. (SilentFirst /\ EndedCallIsSilent)'
  BY <1>1, <1>3, <1>4 DEF IInv, SilentFirst, EndedCallIsSilent
<1>8. StraysApart'
  BY <1>1, <1>2 DEF IInv, StraysApart, Dials
<1>9. (TasksInPlace /\ TeardownWaits /\ HandoffHeld /\ ClaimsInKind /\ Carried)'
  BY <1>1 DEF IInv, TasksInPlace, TeardownWaits, Dials, Busy, HandoffHeld,
    ClaimsInKind, Carried, HasHandoff, DbFaulted
<1>10. QED
  BY <1>5, <1>6, <1>7, <1>8, <1>9 DEF IInv

LEMMA OwnerCallbackStep ==
  ASSUME IInv, OwnerCallback
  PROVE  IInv'
<1>1. UNCHANGED <<row, marks, tw, w, fin, compRetry, svc, faults>>
  BY DEF OwnerCallback
<1>2. seen' \in [join : BOOLEAN, left : BOOLEAN]
  <2>1. seen \in [join : BOOLEAN, left : BOOLEAN]
    BY DEF IInv, TypeOK
  <2>2. \/ seen' = [seen EXCEPT !.join = TRUE]
        \/ seen' = [join |-> TRUE, left |-> TRUE]
    BY DEF OwnerCallback
  <2>3. CASE seen' = [seen EXCEPT !.join = TRUE]
    BY <2>1, <2>3
  <2>4. CASE seen' = [join |-> TRUE, left |-> TRUE]
    BY <2>4
  <2>5. QED
    BY <2>2, <2>3, <2>4
<1>3. TypeOK'
  BY <1>1, <1>2 DEF IInv, TypeOK
<1>4. (TasksInPlace /\ TeardownWaits /\ TasksOfClaimed /\ HandoffHeld /\
  ClaimsInKind /\ SilentFirst /\ EndedCallIsSilent /\ StraysApart /\ ArmedKeepsOwner /\ Carried)'
  BY <1>1 DEF IInv, TasksInPlace, TeardownWaits, Dials, Busy, TasksOfClaimed,
    HandoffHeld, ClaimsInKind, SilentFirst, Silent, EndedCallIsSilent,
    StraysApart, ArmedKeepsOwner, Carried, HasHandoff, DbFaulted
<1>5. QED
  BY <1>3, <1>4 DEF IInv

LEMMA StartTransferStep ==
  ASSUME IInv, StartTransfer
  PROVE  IInv'
<1>1. /\ svc = "up" /\ w.pc = "none" /\ ~row.claimed /\ row.outcome = "none"
      /\ UNCHANGED <<marks, tw, seen, fin, compRetry, svc>>
  BY DEF StartTransfer, OthersOfDb, CanClaimJoining
<1>2. RowGoesOn
  BY JoiningGoesOn DEF IInv, StartTransfer
<1>3. \/ WorkerAt("claiming") /\ row'.outcome = "joining"
      \/ UNCHANGED w
  <2>1. row' = ClaimJoining(row) => row'.outcome = "joining"
    BY Types DEF IInv, ClaimJoining, Row
  <2>2. QED
    BY <2>1, WorkerGoes DEF IInv, StartTransfer, WorkerPcs
<1>4. Spends
  BY FaultsSpend DEF IInv, Spends, SpendsOnDb, StartTransfer
<1>5. TypeOK'
  BY <1>1, <1>2, <1>3, <1>4 DEF IInv, TypeOK, RowGoesOn, WorkerAt, Workers, Spends,
    Budgets
<1>6. TasksInPlace'
  BY <1>1, <1>3 DEF IInv, TasksInPlace, WorkerAt
<1>7. TeardownWaits'
  BY <1>1 DEF IInv, TeardownWaits, Busy, TasksOfClaimed
<1>8. TasksOfClaimed'
  BY <1>1, <1>2, <1>3, FinisherNames DEF IInv, TasksOfClaimed, Busy, ClosedStates,
    TerminalStates, HandoffHeld, Promoted, TasksInPlace, RowGoesOn, WorkerAt, Workers
<1>9. HandoffHeld'
  BY <1>1, <1>3 DEF IInv, HandoffHeld, Busy, TasksOfClaimed, WorkerAt
<1>10. ClaimsInKind'
  BY <1>1 DEF IInv, ClaimsInKind, Busy, TasksInPlace
<1>11. EndedCallIsSilent'
  BY <1>1, <1>2, <1>3, FinisherNames DEF IInv, EndedCallIsSilent, Dials, Silent, Busy,
    ClosedStates, TerminalStates, SilentFirst, TeardownWaits, TasksOfClaimed,
    ClaimsInKind, RowGoesOn, WorkerAt, Workers
<1>12. ArmedKeepsOwner'
  BY <1>1, <1>2, <1>3, FinisherNames DEF IInv, ArmedKeepsOwner, Dials, Busy,
    ClosedStates, TerminalStates, TasksOfClaimed, ClaimsInKind, TasksInPlace,
    RowGoesOn, WorkerAt, Workers
<1>13. Carried'
  BY <1>1, <1>2, <1>4 DEF IInv, Carried, HasHandoff, Busy, ClosedStates, RowGoesOn,
    Spends
<1>14. SilentFirst'
  BY <1>1 DEF IInv, SilentFirst, Silent
<1>15. StraysApart'
  BY <1>1, <1>2, <1>3 DEF IInv, StraysApart, Dials, HandoffHeld, Promoted, Tried,
    RowGoesOn, StaysTried, WorkerAt
<1>16. QED
  BY <1>5, <1>6, <1>7, <1>8, <1>9, <1>10, <1>11, <1>12, <1>13, <1>14, <1>15 DEF IInv

LEMMA RegisterTransferStep ==
  ASSUME IInv, RegisterTransfer
  PROVE  IInv'
<1>1. /\ Serving /\ w.pc = "claiming"
      /\ UNCHANGED <<marks, tw, seen, fin, compRetry, svc>>
  BY DEF RegisterTransfer, OthersOfDb, At
<1>2. RowGoesOn
  BY JoiningGoesOn DEF IInv, RegisterTransfer, Answered, Raised
<1>3. WorkerEnds \/ WorkerAt("creating")
  BY WorkerGoes, WorkerIsDone DEF IInv, RegisterTransfer, WorkerPcs
<1>4. Spends
  BY FaultsSpend DEF IInv, Spends, SpendsOnDb, RegisterTransfer, Answered, Raised
<1>5. TypeOK'
  BY <1>1, <1>2, <1>3, <1>4 DEF IInv, TypeOK, RowGoesOn, WorkerAt, WorkerEnds,
    Workers, Spends, Budgets
<1>6. TasksInPlace'
  BY <1>1, <1>3 DEF IInv, TasksInPlace, WorkerAt, WorkerEnds
<1>7. TeardownWaits'
  BY <1>1 DEF IInv, TeardownWaits, Busy, TasksOfClaimed
<1>8. TasksOfClaimed'
  BY <1>1, <1>2, <1>3, FinisherNames DEF IInv, TasksOfClaimed, Busy, ClosedStates,
    TerminalStates, HandoffHeld, Promoted, Serving, TasksInPlace, RowGoesOn, WorkerAt,
    WorkerEnds, Workers
<1>9. HandoffHeld'
  BY <1>1, <1>3 DEF IInv, HandoffHeld, Busy, TasksOfClaimed, WorkerAt, WorkerEnds
<1>10. ClaimsInKind'
  BY <1>1 DEF IInv, ClaimsInKind, Busy, TasksInPlace
<1>11. EndedCallIsSilent'
  BY <1>1, <1>2, <1>3, FinisherNames DEF IInv, EndedCallIsSilent, Dials, Silent, Busy,
    ClosedStates, TerminalStates, SilentFirst, TeardownWaits, Serving, TasksOfClaimed,
    ClaimsInKind, RowGoesOn, WorkerAt, WorkerEnds, Workers
<1>12. ArmedKeepsOwner'
  BY <1>1, <1>2, <1>3, FinisherNames DEF IInv, ArmedKeepsOwner, Dials, Busy,
    ClosedStates, TerminalStates, TasksOfClaimed, ClaimsInKind, Serving, TasksInPlace,
    RowGoesOn, WorkerAt, WorkerEnds, Workers
<1>13. Carried'
  BY <1>1, <1>2, <1>4 DEF IInv, Carried, HasHandoff, Busy, ClosedStates, RowGoesOn,
    Spends
<1>14. SilentFirst'
  BY <1>1 DEF IInv, SilentFirst, Silent
<1>15. StraysApart'
  BY <1>1, <1>2, <1>3 DEF IInv, StraysApart, Dials, HandoffHeld, Promoted, Tried,
    RowGoesOn, StaysTried, WorkerAt, WorkerEnds
<1>16. QED
  BY <1>5, <1>6, <1>7, <1>8, <1>9, <1>10, <1>11, <1>12, <1>13, <1>14, <1>15 DEF IInv

LEMMA CreateOwnerStep ==
  ASSUME IInv, CreateOwner
  PROVE  IInv'
<1>1. /\ Serving /\ w.pc \in {"creating", "settling"}
      /\ UNCHANGED <<row, marks, seen, fin, compRetry, svc>>
  BY DEF CreateOwner, OthersOfTw
<1>2. WorkerAt("persist") \/ WorkerAt("cleanup")
  BY Types, WorkerGoes DEF IInv, CreateOwner, WorkerAt, Workers, WorkerPcs
<1>3. /\ tw' \in Lines /\ tw'.armed = tw.armed /\ tw'.callee = tw.callee
      /\ \/ tw'.stray = tw.stray
         \/ tw'.stray = "due" /\ WorkerAt("cleanup")
  BY Types, WorkerGoes DEF IInv, CreateOwner, CreateGivenUp, Lines, WorkerPcs
<1>4. Spends
  BY FaultsSpend DEF IInv, Spends, CreateOwner
<1>5. TypeOK'
  BY <1>1, <1>2, <1>3, <1>4 DEF IInv, TypeOK, WorkerAt, Workers, Lines, Spends,
    Budgets
<1>6. TasksInPlace'
  BY <1>1, <1>2 DEF IInv, TasksInPlace, WorkerAt
<1>7. TeardownWaits'
  BY <1>2 DEF IInv, TeardownWaits, Dials, WorkerAt
<1>8. TasksOfClaimed'
  BY <1>1, <1>2, <1>3 DEF IInv, TasksOfClaimed, Busy, WorkerAt
<1>9. HandoffHeld'
  BY <1>1, <1>2 DEF IInv, HandoffHeld, WorkerAt
<1>10. ClaimsInKind'
  BY <1>1 DEF IInv, ClaimsInKind, Busy, TasksInPlace
<1>11. SilentFirst'
  BY <1>1 DEF IInv, SilentFirst, Dials, TeardownWaits
<1>12. EndedCallIsSilent'
  BY <1>1 DEF IInv, EndedCallIsSilent, Silent
<1>13. ArmedKeepsOwner'
  BY <1>1, <1>2, <1>3 DEF IInv, ArmedKeepsOwner, Dials, WorkerAt
<1>14. Carried'
  BY <1>1, <1>4 DEF IInv, Carried, HasHandoff, Busy, Spends
<1>15. StraysApart'
  BY <1>1, <1>2, <1>3 DEF IInv, StraysApart, ArmedKeepsOwner, Dials, WorkerAt
<1>16. QED
  BY <1>5, <1>6, <1>7, <1>8, <1>9, <1>10, <1>11, <1>12, <1>13, <1>14, <1>15 DEF IInv

LEMMA PersistOwnerSidStep ==
  ASSUME IInv, PersistOwnerSid
  PROVE  IInv'
<1>1. /\ Serving /\ w.pc = "persist"
      /\ UNCHANGED <<row, tw, seen, fin, compRetry, svc>>
  BY DEF PersistOwnerSid, At
<1>2. WorkerAt("waiting") \/ Fails("joining")
  BY WorkerGoes, WorkerFails DEF IInv, PersistOwnerSid, WorkerPcs
<1>3. marks' \in Marks
  BY Types DEF IInv, PersistOwnerSid, Marks
<1>4. Spends
  BY FaultsSpend DEF IInv, Spends, SpendsOnDb, PersistOwnerSid
<1>5. TypeOK'
  BY <1>1, <1>2, <1>3, <1>4 DEF IInv, TypeOK, WorkerAt, Fails, Workers, Marks, Spends,
    Budgets
<1>6. TasksInPlace'
  BY <1>1, <1>2 DEF IInv, TasksInPlace, WorkerAt, Fails
<1>7. TeardownWaits'
  BY <1>2 DEF IInv, TeardownWaits, Dials, WorkerAt, Fails
<1>8. TasksOfClaimed'
  BY <1>1, <1>2 DEF IInv, TasksOfClaimed, Busy, WorkerAt, Fails
<1>9. HandoffHeld'
  BY <1>1, <1>2 DEF IInv, HandoffHeld, WorkerAt, Fails
<1>10. ClaimsInKind'
  BY <1>1 DEF IInv, ClaimsInKind, Busy, TasksInPlace
<1>11. EndedCallIsSilent'
  BY <1>1, <1>2 DEF IInv, EndedCallIsSilent, Silent, WorkerAt, Fails
<1>12. ArmedKeepsOwner'
  BY <1>1, <1>2 DEF IInv, ArmedKeepsOwner, Dials, WorkerAt, Fails
<1>13. Carried'
  BY <1>1, <1>4 DEF IInv, Carried, HasHandoff, Busy, Spends
<1>14. SilentFirst'
  BY <1>1 DEF IInv, SilentFirst, Silent
<1>15. StraysApart'
  BY <1>1, <1>2 DEF IInv, StraysApart, Dials, HandoffHeld, Promoted, Tried, WorkerAt,
    Fails
<1>16. QED
  BY <1>5, <1>6, <1>7, <1>8, <1>9, <1>10, <1>11, <1>12, <1>13, <1>14, <1>15 DEF IInv

LEMMA OwnerNotThereStep ==
  ASSUME IInv, OwnerNotThere
  PROVE  IInv'
<1>1. /\ Serving /\ w.pc = "waiting"
      /\ UNCHANGED <<row, marks, tw, seen, fin, compRetry, svc, faults>>
  BY DEF OwnerNotThere, OthersOfDb, At
<1>2. Fails("joining")
  BY WorkerFails DEF IInv, OwnerNotThere
<1>3. TypeOK'
  BY <1>1, <1>2 DEF IInv, TypeOK, WorkerAt, Fails, Workers
<1>4. TasksInPlace'
  BY <1>1, <1>2 DEF IInv, TasksInPlace, WorkerAt, Fails
<1>5. TeardownWaits'
  BY <1>2 DEF IInv, TeardownWaits, Dials, WorkerAt, Fails
<1>6. TasksOfClaimed'
  BY <1>1, <1>2 DEF IInv, TasksOfClaimed, Busy, WorkerAt, Fails
<1>7. HandoffHeld'
  BY <1>1, <1>2 DEF IInv, HandoffHeld, WorkerAt, Fails
<1>8. EndedCallIsSilent'
  BY <1>1, <1>2 DEF IInv, EndedCallIsSilent, Silent, WorkerAt, Fails
<1>9. ArmedKeepsOwner'
  BY <1>1, <1>2 DEF IInv, ArmedKeepsOwner, Dials, WorkerAt, Fails
<1>10. Carried'
  BY <1>1 DEF IInv, Carried, HasHandoff, Busy, DbFaulted
<1>11. (ClaimsInKind /\ SilentFirst)'
  BY <1>1 DEF IInv, ClaimsInKind, Busy, SilentFirst, Silent, DbFaulted
<1>12. StraysApart'
  BY <1>1, <1>2 DEF IInv, StraysApart, Dials, HandoffHeld, Promoted, Tried, WorkerAt,
    Fails
<1>13. QED
  BY <1>3, <1>4, <1>5, <1>6, <1>7, <1>8, <1>9, <1>10, <1>11, <1>12 DEF IInv

LEMMA PromoteOwnerStep ==
  ASSUME IInv, PromoteOwner
  PROVE  IInv'
<1>1. /\ Serving /\ w.pc = "waiting"
      /\ UNCHANGED <<marks, tw, seen, fin, compRetry, svc>>
  BY DEF PromoteOwner, OthersOfDb, At
<1>2. \/ /\ RowIsTaken /\ ~row.claimed /\ Promoted(row', "in_progress") /\ Spends
         /\ WorkerAt("removeAI")
      \/ UNCHANGED row /\ Spends /\ Fails("joining")
      \/ /\ UNCHANGED row \/ (RowIsTaken /\ ~row.claimed) 
         /\ Fails("joining")
         /\ SpendsOnDb \/ (Spends /\ w.cancel)
  <2>1. /\ CanPromoteTransfer(row) /\ row' = PromoteTransfer(row) =>
             RowIsTaken /\ ~row.claimed /\ Promoted(row', "in_progress")
        /\ FailWith("joining") => Fails("joining")
    BY <1>1, PromoteTakes, WorkerFails DEF IInv
  <2>2. ASSUME w' = [w EXCEPT !.pc = "removeAI", !.phase = "promoted"]
        PROVE  WorkerAt("removeAI")
    BY <2>2, Types DEF IInv, WorkerAt, Workers, WorkerPcs
  <2>3. CASE /\ Answered(CanPromoteTransfer(row), PromoteTransfer(row))
             /\ IF CanPromoteTransfer(row)
                  THEN w' = [w EXCEPT !.pc = "removeAI", !.phase = "promoted"]
                  ELSE FailWith("joining")
    BY <2>1, <2>2, <2>3, FaultsSpend DEF IInv, Answered
  <2>4. CASE /\ Raised(CanPromoteTransfer(row), PromoteTransfer(row))
             /\ FailWith("joining")
    BY <2>1, <2>4, FaultsSpend DEF IInv, Raised
  <2>5. CASE /\ Interrupted(CanPromoteTransfer(row), PromoteTransfer(row))
             /\ FailWith("joining")
    BY <2>1, <2>5, FaultsSpend DEF IInv, Interrupted
  <2>6. QED
    BY <2>3, <2>4, <2>5 DEF PromoteOwner
<1>3. TypeOK'
  BY <1>1, <1>2 DEF IInv, TypeOK, WorkerAt, Fails, Workers, RowIsTaken, Spends,
    SpendsOnDb, Budgets
<1>4. TasksInPlace'
  BY <1>1, <1>2 DEF IInv, TasksInPlace, WorkerAt, Fails
<1>5. TeardownWaits'
  BY <1>2 DEF IInv, TeardownWaits, Dials, WorkerAt, Fails
<1>6. TasksOfClaimed'
  BY <1>1, <1>2 DEF IInv, TasksOfClaimed, Busy, WorkerAt, Fails, RowIsTaken
<1>7. HandoffHeld'
  BY <1>1, <1>2 DEF IInv, HandoffHeld, Busy, TasksOfClaimed, WorkerAt, Fails
<1>8. ClaimsInKind'
  BY <1>1 DEF IInv, ClaimsInKind, Busy, TasksInPlace
<1>9. EndedCallIsSilent'
  BY <1>1, <1>2 DEF IInv, EndedCallIsSilent, Silent, TerminalStates, WorkerAt, Fails,
    RowIsTaken
<1>10. ArmedKeepsOwner'
  BY <1>1, <1>2 DEF IInv, ArmedKeepsOwner, Dials, WorkerAt, Fails, RowIsTaken
<1>11. Carried'
  BY <1>1, <1>2, FinisherNames DEF IInv, Carried, HasHandoff, Busy, TasksInPlace,
    WorkerAt, Spends, SpendsOnDb
<1>12. SilentFirst'
  BY <1>1 DEF IInv, SilentFirst, Silent
<1>13. StraysApart'
  BY <1>1, <1>2 DEF IInv, StraysApart, Dials, HandoffHeld, Promoted, Tried, RowIsTaken,
    StaysTried, WorkerAt, Fails
<1>14. QED
  BY <1>3, <1>4, <1>5, <1>6, <1>7, <1>8, <1>9, <1>10, <1>11, <1>12, <1>13 DEF IInv

LEMMA RemoveAiLegStep ==
  ASSUME IInv, RemoveAiLeg
  PROVE  IInv'
<1>1. /\ Serving /\ w.pc = "removeAI"
      /\ UNCHANGED <<row, marks, seen, fin, compRetry, svc>>
  BY DEF RemoveAiLeg, OthersOfTw, At
<1>2. Fails("promoted") \/ (w' \in Workers /\ w'.pc = "completing" /\ ~w'.cancel)
  BY Types, WorkerFails DEF IInv, RemoveAiLeg, Workers, WorkerPcs
<1>3. /\ tw' \in Lines
      /\ tw'.conf = tw.conf
      /\ tw'.owner = tw.owner
      /\ tw'.callee = tw.callee
      /\ tw'.armed = tw.armed
      /\ tw'.stray = tw.stray
      /\ tw'.ai => tw.ai
  BY Types DEF IInv, RemoveAiLeg, Lines
<1>4. Spends
  BY FaultsSpend DEF IInv, Spends, RemoveAiLeg
<1>5. TypeOK'
  BY <1>1, <1>2, <1>3, <1>4 DEF IInv, TypeOK, WorkerAt, Fails, Workers, Lines, Spends,
    Budgets
<1>6. TasksInPlace'
  BY <1>1, <1>2 DEF IInv, TasksInPlace, WorkerAt, Fails
<1>7. TeardownWaits'
  BY <1>2 DEF IInv, TeardownWaits, Dials, WorkerAt, Fails
<1>8. TasksOfClaimed'
  BY <1>1, <1>2 DEF IInv, TasksOfClaimed, HandoffHeld, Promoted, WorkerAt, Fails
<1>9. HandoffHeld'
  BY <1>1, <1>2 DEF IInv, HandoffHeld, WorkerAt, Fails
<1>10. ClaimsInKind'
  BY <1>1 DEF IInv, ClaimsInKind, Busy, TasksInPlace
<1>11. SilentFirst'
  BY <1>1, <1>3 DEF IInv, SilentFirst, Silent
<1>12. EndedCallIsSilent'
  BY <1>1, <1>2, <1>3 DEF IInv, EndedCallIsSilent, Silent, WorkerAt, Fails
<1>13. ArmedKeepsOwner'
  BY <1>1, <1>2, <1>3 DEF IInv, ArmedKeepsOwner, Dials, WorkerAt, Fails
<1>14. Carried'
  BY <1>1, <1>2 DEF IInv, Carried, HasHandoff, HandoffHeld, WorkerAt, Fails
<1>15. StraysApart'
  BY <1>1, <1>2, <1>3 DEF IInv, StraysApart, Dials, HandoffHeld, Promoted, Tried,
    WorkerAt, Fails
<1>16. QED
  BY <1>5, <1>6, <1>7, <1>8, <1>9, <1>10, <1>11, <1>12, <1>13, <1>14, <1>15 DEF IInv

LEMMA CompleteHandoffStep ==
  ASSUME IInv, CompleteHandoff
  PROVE  IInv'
<1>1. /\ Serving /\ w.pc = "completing"
      /\ UNCHANGED <<marks, tw, seen, fin, compRetry, svc>>
  BY DEF CompleteHandoff, OthersOfDb, At
<1>2. \/ /\ RowIsTaken /\ Promoted(row', "completed") /\ Spends
         /\ WorkerAt("arming")
      \/ /\ UNCHANGED row \/ RowIsTaken 
         /\ Fails("promoted")
         /\ SpendsOnDb \/ (Spends /\ w.cancel)
  <2>1. /\ CanCompleteTransfer(row)
        /\ row' = CompleteTransfer(row) => RowIsTaken /\ Promoted(row', "completed")
        /\ FailWith("promoted") => Fails("promoted")
    BY CompleteTakes, WorkerFails DEF IInv, HandoffHeld, CompleteHandoff, At,
      CanCompleteTransfer
  <2>2. ASSUME w' = [w EXCEPT !.pc = "arming", !.phase = "completed"]
        PROVE  WorkerAt("arming")
    BY <2>2, Types DEF IInv, WorkerAt, Workers, WorkerPcs
  <2>3. CASE /\ Answered(CanCompleteTransfer(row), CompleteTransfer(row))
             /\ w' = [w EXCEPT !.pc = "arming", !.phase = "completed"]
    BY <2>1, <2>2, <2>3, FaultsSpend DEF IInv, Answered
  <2>4. CASE /\ Raised(CanCompleteTransfer(row), CompleteTransfer(row))
             /\ FailWith("promoted")
    BY <2>1, <2>4, FaultsSpend DEF IInv, Raised
  <2>5. CASE /\ Interrupted(CanCompleteTransfer(row), CompleteTransfer(row))
             /\ FailWith("promoted")
    BY <2>1, <2>5, FaultsSpend DEF IInv, Interrupted
  <2>6. QED
    BY <2>1, <2>3, <2>4, <2>5 DEF CompleteHandoff
<1>3. TypeOK'
  BY <1>1, <1>2 DEF IInv, TypeOK, WorkerAt, Fails, Workers, RowIsTaken, Spends,
    SpendsOnDb, Budgets
<1>4. TasksInPlace'
  BY <1>1, <1>2 DEF IInv, TasksInPlace, WorkerAt, Fails
<1>5. TeardownWaits'
  BY <1>2 DEF IInv, TeardownWaits, Dials, WorkerAt, Fails
<1>6. TasksOfClaimed'
  BY <1>1, <1>2 DEF IInv, TasksOfClaimed, HandoffHeld, Promoted, WorkerAt, Fails,
    RowIsTaken
<1>7. HandoffHeld'
  BY <1>1, <1>2 DEF IInv, HandoffHeld, Busy, TasksInPlace, ClaimsInKind, WorkerAt,
    Fails
<1>8. ClaimsInKind'
  BY <1>1 DEF IInv, ClaimsInKind, Busy, TasksInPlace
<1>9. EndedCallIsSilent'
  BY <1>1, <1>2 DEF IInv, EndedCallIsSilent, Silent, TerminalStates, WorkerAt, Fails,
    RowIsTaken
<1>10. ArmedKeepsOwner'
  BY <1>1, <1>2 DEF IInv, ArmedKeepsOwner, Dials, WorkerAt, Fails, RowIsTaken
<1>11. Carried'
  BY <1>1, <1>2, FinisherNames DEF IInv, Carried, HasHandoff, Busy, TasksInPlace,
    WorkerAt, SpendsOnDb
<1>12. SilentFirst'
  BY <1>1 DEF IInv, SilentFirst, Silent
<1>13. StraysApart'
  BY <1>1, <1>2 DEF IInv, StraysApart, Dials, HandoffHeld, Promoted, Tried, RowIsTaken,
    StaysTried, WorkerAt, Fails
<1>14. QED
  BY <1>3, <1>4, <1>5, <1>6, <1>7, <1>8, <1>9, <1>10, <1>11, <1>12, <1>13 DEF IInv

LEMMA ArmOwnerExitStep ==
  ASSUME IInv, ArmOwnerExit
  PROVE  IInv'
<1>1. /\ Serving /\ w.pc = "arming"
      /\ UNCHANGED <<row, marks, seen, fin, compRetry, svc>>
  BY DEF ArmOwnerExit, OthersOfTw, At
<1>2. \/ WorkerAt("armed") /\ tw'.armed /\ tw.owner = "in"
      \/ Fails("completed") /\ (tw'.armed => tw.armed \/ tw.owner = "in")
  BY Types, WorkerGoes, WorkerFails DEF IInv, ArmOwnerExit, Lines, WorkerPcs
<1>3. /\ tw' \in Lines
      /\ tw'.conf = tw.conf
      /\ tw'.owner = tw.owner
      /\ tw'.callee = tw.callee
      /\ tw'.stray = tw.stray /\ tw'.ai = tw.ai
      /\ tw.armed => tw'.armed
  BY Types DEF IInv, ArmOwnerExit, Lines
<1>4. Spends
  BY FaultsSpend DEF IInv, Spends, ArmOwnerExit
<1>5. TypeOK'
  BY <1>1, <1>2, <1>3, <1>4 DEF IInv, TypeOK, WorkerAt, Fails, Workers, Lines, Spends,
    Budgets
<1>6. TasksInPlace'
  BY <1>1, <1>2 DEF IInv, TasksInPlace, WorkerAt, Fails
<1>7. TeardownWaits'
  BY <1>2 DEF IInv, TeardownWaits, Dials, WorkerAt, Fails
<1>8. TasksOfClaimed'
  BY <1>1, <1>2 DEF IInv, TasksOfClaimed, HandoffHeld, Promoted, WorkerAt, Fails
<1>9. HandoffHeld'
  BY <1>1, <1>2 DEF IInv, HandoffHeld, WorkerAt, Fails
<1>10. ClaimsInKind'
  BY <1>1 DEF IInv, ClaimsInKind, Busy, TasksInPlace
<1>11. SilentFirst'
  BY <1>1, <1>3 DEF IInv, SilentFirst, Silent
<1>12. EndedCallIsSilent'
  BY <1>1, <1>2, <1>3 DEF IInv, EndedCallIsSilent, Silent, WorkerAt, Fails
<1>13. ArmedKeepsOwner'
  BY <1>1, <1>2, <1>3 DEF IInv, ArmedKeepsOwner, Dials, WorkerAt, Fails
<1>14. Carried'
  BY <1>1, <1>2 DEF IInv, Carried, HasHandoff, HandoffHeld, WorkerAt, Fails
<1>15. StraysApart'
  BY <1>1, <1>2, <1>3 DEF IInv, StraysApart, Dials, HandoffHeld, Promoted, Tried,
    WorkerAt, Fails
<1>16. QED
  BY <1>5, <1>6, <1>7, <1>8, <1>9, <1>10, <1>11, <1>12, <1>13, <1>14, <1>15 DEF IInv

LEMMA TerminalizeHandoffStep ==
  ASSUME IInv, TerminalizeHandoff
  PROVE  IInv'
<1>1. /\ Serving /\ w.pc = "armed"
      /\ UNCHANGED <<row, marks, tw, seen, compRetry, svc, faults>>
  BY DEF TerminalizeHandoff, At
<1>2. \/ Fails("completed") /\ UNCHANGED fin
      \/ /\ WorkerAt("finishing") /\ TaskMoves("worker")
         /\ fin'["worker"] = [pc |-> "commit", preserve |-> TRUE, claim |-> HandoffClaim]
  BY WorkerGoes, WorkerFails, TaskSet, HandoffTask, FinisherNames DEF IInv,
    TerminalizeHandoff, WorkerPcs, FinPcs, HandoffClaim
<1>3. TypeOK'
  BY <1>1, <1>2 DEF IInv, TypeOK, WorkerAt, Fails, Workers, TaskMoves, Tasks
<1>4. TasksInPlace'
  BY <1>1, <1>2, FinisherNames DEF IInv, TasksInPlace, WorkerAt, Fails, TaskMoves
<1>5. TeardownWaits'
  BY <1>2 DEF IInv, TeardownWaits, Dials, WorkerAt, Fails
<1>6. TasksOfClaimed'
  BY <1>1, <1>2 DEF IInv, TasksOfClaimed, HandoffHeld, Promoted, WorkerAt, Fails
<1>7. HandoffHeld'
  BY <1>1, <1>2 DEF IInv, HandoffHeld, WorkerAt, Fails
<1>8. ClaimsInKind'
  BY <1>1, <1>2 DEF IInv, ClaimsInKind, Busy, TaskMoves, HandoffClaim, DbFaulted
<1>9. SilentFirst'
  BY <1>1, <1>2 DEF IInv, SilentFirst, Silent, TaskMoves
<1>10. EndedCallIsSilent'
  BY <1>1, <1>2 DEF IInv, EndedCallIsSilent, Silent, WorkerAt, Fails
<1>11. ArmedKeepsOwner'
  BY <1>1, <1>2 DEF IInv, ArmedKeepsOwner, Dials, WorkerAt, Fails
<1>12. Carried'
  BY <1>1, <1>2, FinisherNames DEF IInv, Carried, HasHandoff, Busy, HandoffHeld,
    WorkerAt, Fails
<1>13. StraysApart'
  BY <1>1, <1>2 DEF IInv, StraysApart, Dials, HandoffHeld, Promoted, Tried, WorkerAt,
    Fails
<1>14. QED
  BY <1>3, <1>4, <1>5, <1>6, <1>7, <1>8, <1>9, <1>10, <1>11, <1>12, <1>13 DEF IInv

LEMMA FinishHandoffStep ==
  ASSUME IInv, FinishHandoff
  PROVE  IInv'
<1>1. /\ Serving /\ w.pc = "finishing" /\ fin["worker"].pc \in {"ok", "no"}
      /\ UNCHANGED <<row, marks, tw, seen, compRetry, svc, faults>>
  BY DEF FinishHandoff, At
<1>2. WorkerEnds \/ Fails("completed")
  BY WorkerIsDone, WorkerFails DEF IInv, FinishHandoff
<1>3. TaskMoves("worker") /\ fin'["worker"].pc = "idle"
  BY TaskSet, IdleIsTask, FinisherNames DEF IInv, FinishHandoff
<1>4. TypeOK'
  BY <1>1, <1>2, <1>3 DEF IInv, TypeOK, WorkerAt, WorkerEnds, Fails, Workers,
    TaskMoves, Tasks
<1>5. TasksInPlace'
  BY <1>1, <1>2, <1>3, FinisherNames DEF IInv, TasksInPlace, WorkerAt, WorkerEnds,
    Fails, TaskMoves
<1>6. TeardownWaits'
  BY <1>2 DEF IInv, TeardownWaits, Dials, WorkerAt, WorkerEnds, Fails
<1>7. TasksOfClaimed'
  BY <1>1, <1>2, <1>3 DEF IInv, TasksOfClaimed, Busy, WorkerAt, WorkerEnds, Fails,
    TaskMoves
<1>8. HandoffHeld'
  BY <1>1, <1>2, <1>3 DEF IInv, HandoffHeld, WorkerAt, WorkerEnds, Fails, TaskMoves
<1>9. ClaimsInKind'
  BY <1>1, <1>3 DEF IInv, ClaimsInKind, Busy, TaskMoves, DbFaulted
<1>10. SilentFirst'
  BY <1>1, <1>3 DEF IInv, SilentFirst, Silent, TaskMoves
<1>11. EndedCallIsSilent'
  BY <1>1, <1>2 DEF IInv, EndedCallIsSilent, Silent, WorkerAt, WorkerEnds, Fails
<1>12. ArmedKeepsOwner'
  BY <1>1, <1>2, <1>3 DEF IInv, ArmedKeepsOwner, Dials, WorkerAt, WorkerEnds, Fails,
    TaskMoves
<1>13. Carried'
  BY <1>1, <1>3 DEF IInv, Carried, HasHandoff, Busy, TaskMoves, DbFaulted
<1>14. StraysApart'
  BY <1>1, <1>2, <1>3 DEF IInv, StraysApart, Dials, HandoffHeld, Promoted, Tried,
    WorkerAt, WorkerEnds, Fails
<1>15. QED
  BY <1>4, <1>5, <1>6, <1>7, <1>8, <1>9, <1>10, <1>11, <1>12, <1>13, <1>14 DEF IInv

LEMMA CancelWorkerStep ==
  ASSUME IInv, CancelWorker
  PROVE  IInv'
<1>1. /\ Serving
      /\ UNCHANGED <<row, marks, tw, seen, fin, compRetry, svc, faults>>
  BY DEF CancelWorker, OthersOfDb
<1>2. \/ w.pc = "creating" /\ (WorkerAt("settling") \/ WorkerEnds)
      \/ w.pc = "waiting" /\ Fails("joining")
  BY WorkerGoes, WorkerIsDone, WorkerFails DEF IInv, CancelWorker, WorkerPcs
<1>3. TypeOK'
  BY <1>1, <1>2 DEF IInv, TypeOK, WorkerAt, WorkerEnds, Fails, Workers
<1>4. TasksInPlace'
  BY <1>1, <1>2 DEF IInv, TasksInPlace, WorkerAt, WorkerEnds, Fails
<1>5. TeardownWaits'
  BY <1>1, <1>2 DEF IInv, TeardownWaits, Dials, WorkerAt, Fails
<1>6. TasksOfClaimed'
  BY <1>1, <1>2 DEF IInv, TasksOfClaimed, Busy, WorkerAt, WorkerEnds, Fails
<1>7. HandoffHeld'
  BY <1>1, <1>2 DEF IInv, HandoffHeld, WorkerAt, WorkerEnds, Fails
<1>8. EndedCallIsSilent'
  BY <1>1, <1>2 DEF IInv, EndedCallIsSilent, Silent, WorkerAt, Fails
<1>9. ArmedKeepsOwner'
  BY <1>1, <1>2 DEF IInv, ArmedKeepsOwner, Dials, WorkerAt, WorkerEnds, Fails
<1>10. Carried'
  BY <1>1, <1>2 DEF IInv, Carried, HasHandoff, Busy, DbFaulted
<1>11. (ClaimsInKind /\ SilentFirst)'
  BY <1>1 DEF IInv, ClaimsInKind, Busy, SilentFirst, Silent, DbFaulted
<1>12. StraysApart'
  BY <1>1, <1>2 DEF IInv, StraysApart, Dials, HandoffHeld, Promoted, Tried, WorkerAt,
    WorkerEnds, Fails
<1>13. QED
  BY <1>3, <1>4, <1>5, <1>6, <1>7, <1>8, <1>9, <1>10, <1>11, <1>12 DEF IInv

LEMMA CleanupOwnerStep ==
  ASSUME IInv, CleanupOwner
  PROVE  IInv'
<1>1. /\ Serving /\ w.pc = "cleanup"
      /\ UNCHANGED <<row, marks, seen, fin, compRetry, svc>>
  BY DEF CleanupOwner, OthersOfTw, At
<1>2. \/ w.phase = "joining" /\ WorkerAt("failJoining")
      \/ w.phase # "joining" /\ WorkerAt("failPromoted") /\ w'.phase = w.phase
  BY Types DEF IInv, CleanupOwner, WorkerAt, Workers, WorkerPcs
<1>3. OwnerGoes \/ UNCHANGED tw
  BY OwnerIsOut DEF IInv, CleanupOwner
<1>4. Spends
  BY FaultsSpend DEF IInv, Spends, CleanupOwner
<1>5. TypeOK'
  BY <1>1, <1>2, <1>3, <1>4 DEF IInv, TypeOK, WorkerAt, Workers, OwnerGoes, Lines,
    Spends, Budgets
<1>6. TasksInPlace'
  BY <1>1, <1>2 DEF IInv, TasksInPlace, WorkerAt
<1>7. TeardownWaits'
  BY <1>2 DEF IInv, TeardownWaits, Dials, WorkerAt
<1>8. TasksOfClaimed'
  BY <1>1, <1>2, <1>3 DEF IInv, TasksOfClaimed, Busy, WorkerAt, OwnerGoes
<1>9. HandoffHeld'
  BY <1>1, <1>2 DEF IInv, HandoffHeld, WorkerAt
<1>10. ClaimsInKind'
  BY <1>1 DEF IInv, ClaimsInKind, Busy, TasksInPlace
<1>11. SilentFirst'
  BY <1>1, <1>3 DEF IInv, SilentFirst, Silent, OwnerGoes
<1>12. EndedCallIsSilent'
  BY <1>1, <1>2, <1>3 DEF IInv, EndedCallIsSilent, Silent, WorkerAt, OwnerGoes
<1>13. ArmedKeepsOwner'
  BY <1>1, <1>2, <1>3 DEF IInv, ArmedKeepsOwner, Dials, WorkerAt, OwnerGoes
<1>14. Carried'
  BY <1>1, <1>2, <1>4 DEF IInv, Carried, HasHandoff, Busy, WorkerAt, Spends
<1>15. StraysApart'
  BY <1>1, <1>2, <1>3 DEF IInv, StraysApart, Dials, HandoffHeld, Promoted, Tried,
    WorkerAt, OwnerGoes
<1>16. QED
  BY <1>5, <1>6, <1>7, <1>8, <1>9, <1>10, <1>11, <1>12, <1>13, <1>14, <1>15 DEF IInv

LEMMA FailJoiningTransferStep ==
  ASSUME IInv, FailJoiningTransfer
  PROVE  IInv'
<1>1. /\ Serving /\ w.pc = "failJoining"
      /\ UNCHANGED <<marks, tw, seen, fin, compRetry, svc>>
  BY DEF FailJoiningTransfer, OthersOfDb, At
<1>2. RowGoesOn
  BY JoiningGoesOn DEF IInv, FailJoiningTransfer, Answered, Raised
<1>3. WorkerEnds \/ WorkerAt("probe") \/ WorkerAt("terminate")
  BY Types, WorkerGoes, WorkerIsDone DEF IInv, FailJoiningTransfer, WorkerAt, Workers,
    WorkerPcs
<1>4. Spends
  BY FaultsSpend DEF IInv, Spends, SpendsOnDb, FailJoiningTransfer, Answered, Raised
<1>5. TypeOK'
  BY <1>1, <1>2, <1>3, <1>4 DEF IInv, TypeOK, RowGoesOn, WorkerAt, WorkerEnds,
    Workers, Spends, Budgets
<1>6. TasksInPlace'
  BY <1>1, <1>3 DEF IInv, TasksInPlace, WorkerAt, WorkerEnds
<1>7. TeardownWaits'
  BY <1>3 DEF IInv, TeardownWaits, Dials, WorkerAt, WorkerEnds
<1>8. TasksOfClaimed'
  BY <1>1, <1>2, <1>3, FinisherNames DEF IInv, TasksOfClaimed, Busy, ClosedStates,
    TerminalStates, HandoffHeld, Promoted, Serving, TasksInPlace, RowGoesOn, WorkerAt,
    WorkerEnds, Workers
<1>9. HandoffHeld'
  BY <1>1, <1>3 DEF IInv, HandoffHeld, Busy, TasksInPlace, ClaimsInKind, WorkerAt,
    WorkerEnds
<1>10. ClaimsInKind'
  BY <1>1 DEF IInv, ClaimsInKind, Busy, TasksInPlace
<1>11. EndedCallIsSilent'
  BY <1>1, <1>2, <1>3, FinisherNames DEF IInv, EndedCallIsSilent, Dials, Silent, Busy,
    ClosedStates, TerminalStates, SilentFirst, TeardownWaits, Serving, TasksOfClaimed,
    ClaimsInKind, RowGoesOn, WorkerAt, WorkerEnds, Workers
<1>12. ArmedKeepsOwner'
  BY <1>1, <1>2, <1>3, FinisherNames DEF IInv, ArmedKeepsOwner, Dials, Busy,
    ClosedStates, TerminalStates, TasksOfClaimed, ClaimsInKind, Serving, TasksInPlace,
    RowGoesOn, WorkerAt, WorkerEnds, Workers
<1>13. Carried'
  BY <1>1, <1>2, <1>4 DEF IInv, Carried, HasHandoff, Busy, ClosedStates, RowGoesOn,
    Spends
<1>14. SilentFirst'
  BY <1>1 DEF IInv, SilentFirst, Silent
<1>15. StraysApart'
  BY <1>1, <1>2, <1>3 DEF IInv, StraysApart, Dials, HandoffHeld, Promoted, Tried,
    RowGoesOn, StaysTried, WorkerAt, WorkerEnds
<1>16. QED
  BY <1>5, <1>6, <1>7, <1>8, <1>9, <1>10, <1>11, <1>12, <1>13, <1>14, <1>15 DEF IInv

LEMMA ProbePromotionStep ==
  ASSUME IInv, ProbePromotion
  PROVE  IInv'
<1>1. /\ Serving /\ w.pc = "probe"
      /\ UNCHANGED <<marks, tw, seen, compRetry, svc>>
  BY DEF ProbePromotion, At
<1>2. \/ Adopts /\ Spends
      \/ UNCHANGED <<row, fin>> /\ Spends /\ (WorkerEnds \/ WorkerAt("compensate"))
      \/ /\ UNCHANGED row \/ RowIsTaken
         /\ UNCHANGED fin /\ WorkerAt("compensate") /\ SpendsOnDb
  <2>1. /\ CanFailPromoted(row, "in_progress") /\ row' = FailPromoted(row) => RowIsTaken
        /\ (/\ CanFailPromoted(row, "in_progress") /\ row' = FailPromoted(row)
            /\ AdoptRevoked) => Adopts
    BY RevokeTakes, RevokedIsAdopted DEF IInv
  <2>2. /\ Goto("compensate") => WorkerAt("compensate")
        /\ Goto("done") => WorkerEnds
    BY WorkerGoes, WorkerIsDone DEF IInv, WorkerPcs
  <2>3. CASE /\ CanFailPromoted(row, "in_progress") /\ row' = FailPromoted(row)
             /\ AdoptRevoked /\ UNCHANGED faults
    BY <2>1, <2>3, FaultsSpend DEF IInv
  <2>4. CASE /\ UNCHANGED <<row, fin, faults>>
             /\ Goto("compensate") \/ Goto("done")
    BY <2>2, <2>4, FaultsSpend DEF IInv
  <2>5. CASE /\ Raised(CanFailPromoted(row, "in_progress"), FailPromoted(row))
             /\ Goto("compensate") /\ UNCHANGED fin
    BY <2>1, <2>2, <2>5, FaultsSpend DEF IInv, Raised
  <2>6. QED
    BY <2>3, <2>4, <2>5 DEF ProbePromotion, Answered
<1>3. TypeOK'
  BY <1>1, <1>2 DEF IInv, TypeOK, Adopts, WorkerAt, WorkerEnds, Workers, RowIsTaken,
    Spends, SpendsOnDb, Budgets, TaskMoves, Tasks
<1>4. TasksInPlace'
  BY <1>1, <1>2, FinisherNames DEF IInv, TasksInPlace, Adopts, WorkerAt, WorkerEnds,
    TaskMoves
<1>5. TeardownWaits'
  BY <1>2 DEF IInv, TeardownWaits, Dials, Adopts, WorkerAt, WorkerEnds
<1>6. TasksOfClaimed'
  BY <1>1, <1>2 DEF IInv, TasksOfClaimed, Busy, Adopts, WorkerAt, WorkerEnds,
    RowIsTaken
<1>7. HandoffHeld'
  BY <1>1, <1>2 DEF IInv, HandoffHeld, Busy, TasksInPlace, ClaimsInKind, Adopts,
    WorkerAt, WorkerEnds, TaskMoves
<1>8. ClaimsInKind'
  BY <1>2 DEF IInv, ClaimsInKind, Busy, Adopts, Spends, SpendsOnDb, TaskMoves
<1>9. SilentFirst'
  BY <1>1, <1>2 DEF IInv, SilentFirst, Silent, Adopts, TaskMoves
<1>10. EndedCallIsSilent'
  BY <1>1, <1>2 DEF IInv, EndedCallIsSilent, Silent, TerminalStates, Adopts, WorkerAt,
    WorkerEnds, RowIsTaken
<1>11. ArmedKeepsOwner'
  BY <1>1, <1>2 DEF IInv, ArmedKeepsOwner, Dials, Adopts, WorkerAt, WorkerEnds,
    RowIsTaken, TaskMoves
<1>12. Carried'
  BY <1>1, <1>2, FinisherNames DEF IInv, Carried, HasHandoff, Busy, Adopts, Spends,
    SpendsOnDb
<1>13. StraysApart'
  BY <1>1, <1>2 DEF IInv, StraysApart, Dials, HandoffHeld, Promoted, Tried, RowIsTaken,
    StaysTried, Adopts, WorkerAt, WorkerEnds
<1>14. QED
  BY <1>3, <1>4, <1>5, <1>6, <1>7, <1>8, <1>9, <1>10, <1>11, <1>12, <1>13 DEF IInv

LEMMA FailPromotedTransferStep ==
  ASSUME IInv, FailPromotedTransfer
  PROVE  IInv'
<1>1. /\ Serving /\ w.pc \in {"failPromoted", "probeCompleted"}
      /\ UNCHANGED <<marks, tw, seen, compRetry, svc>>
  BY DEF FailPromotedTransfer
<1>2. \/ Adopts /\ Spends
      \/ /\ UNCHANGED <<row, fin>> /\ Spends
         /\ WorkerAt("probeCompleted") \/ WorkerAt("compensate")
         /\ w.pc = "failPromoted" =>
              ~Promoted(row, IF w.phase = "completed" THEN "completed" ELSE "in_progress")
      \/ /\ UNCHANGED row \/ RowIsTaken
         /\ UNCHANGED fin /\ SpendsOnDb
         /\ WorkerAt("probeCompleted") \/ WorkerAt("compensate")
  <2> DEFINE o == IF w.pc = "probeCompleted" \/ w.phase = "completed"
                    THEN "completed" ELSE "in_progress"
             giveUp == Goto(IF w.pc # "probeCompleted" /\ w.phase = "promoted" /\ w.completing
                              THEN "probeCompleted" ELSE "compensate")
  <2>1. o \in {"in_progress", "completed"}
    OBVIOUS
  <2>2. /\ CanFailPromoted(row, o) /\ row' = FailPromoted(row) => RowIsTaken
        /\ CanFailPromoted(row, o) /\ row' = FailPromoted(row) /\ AdoptRevoked => Adopts
    BY <2>1, RevokeTakes, RevokedIsAdopted DEF IInv
  <2>3. giveUp => WorkerAt("probeCompleted") \/ WorkerAt("compensate")
    BY WorkerGoes DEF IInv, WorkerPcs
  <2>4. CASE /\ CanFailPromoted(row, o) /\ row' = FailPromoted(row)
             /\ AdoptRevoked /\ UNCHANGED faults
    BY <2>2, <2>4, FaultsSpend DEF IInv
  <2>5. CASE ~CanFailPromoted(row, o) /\ UNCHANGED <<row, fin, faults>> /\ giveUp
    BY <2>3, <2>5, FaultsSpend DEF IInv, CanFailPromoted
  <2>6. CASE Raised(CanFailPromoted(row, o), FailPromoted(row)) /\ giveUp /\ UNCHANGED fin
    BY <2>2, <2>3, <2>6, FaultsSpend DEF IInv, Raised
  <2>7. QED
    BY <2>4, <2>5, <2>6 DEF FailPromotedTransfer, Answered
<1>3. TypeOK'
  BY <1>1, <1>2 DEF IInv, TypeOK, Adopts, WorkerAt, Workers, RowIsTaken, Spends,
    SpendsOnDb, Budgets, TaskMoves, Tasks
<1>4. TasksInPlace'
  BY <1>1, <1>2, FinisherNames DEF IInv, TasksInPlace, Adopts, WorkerAt, TaskMoves
<1>5. TeardownWaits'
  BY <1>2 DEF IInv, TeardownWaits, Dials, Adopts, WorkerAt
<1>6. TasksOfClaimed'
  BY <1>1, <1>2 DEF IInv, TasksOfClaimed, Busy, Adopts, WorkerAt, RowIsTaken
<1>7. HandoffHeld'
  BY <1>1, <1>2 DEF IInv, HandoffHeld, Busy, TasksInPlace, ClaimsInKind, Adopts,
    WorkerAt, TaskMoves
<1>8. ClaimsInKind'
  BY <1>2 DEF IInv, ClaimsInKind, Busy, Adopts, Spends, SpendsOnDb, TaskMoves
<1>9. SilentFirst'
  BY <1>1, <1>2 DEF IInv, SilentFirst, Silent, Adopts, TaskMoves
<1>10. EndedCallIsSilent'
  BY <1>1, <1>2 DEF IInv, EndedCallIsSilent, Silent, TerminalStates, Adopts, WorkerAt,
    RowIsTaken
<1>11. ArmedKeepsOwner'
  BY <1>1, <1>2 DEF IInv, ArmedKeepsOwner, Dials, Adopts, WorkerAt, RowIsTaken,
    TaskMoves
<1>12. Carried'
  BY <1>1, <1>2, FinisherNames DEF IInv, Carried, HasHandoff, Busy, Adopts, Spends,
    SpendsOnDb
<1>13. StraysApart'
  BY <1>1, <1>2 DEF IInv, StraysApart, Dials, HandoffHeld, Promoted, Tried, RowIsTaken,
    StaysTried, Adopts, WorkerAt
<1>14. QED
  BY <1>3, <1>4, <1>5, <1>6, <1>7, <1>8, <1>9, <1>10, <1>11, <1>12, <1>13 DEF IInv

LEMMA WorkerFinishedStep ==
  ASSUME IInv, WorkerFinished
  PROVE  IInv'
<1>1. /\ /\ Serving
         /\ \/ w.pc = "adopted" /\ fin["worker"].pc \in {"ok", "no"}
            \/ w.pc = "terminating" /\ fin["cleanup"].pc \in {"ok", "no"}
      /\ UNCHANGED <<row, marks, tw, seen, compRetry, svc, faults>>
  BY DEF WorkerFinished
<1>2. WorkerEnds \/ WorkerAt("compensate")
  BY WorkerGoes, WorkerIsDone DEF IInv, WorkerFinished, WorkerPcs
<1>3. /\ fin' \in [Finishers -> Tasks]
      /\ \A f \in Finishers : f \notin {"worker", "cleanup"} => fin'[f] = fin[f]
      /\ fin'["worker"].pc = "idle" /\ fin'["cleanup"].pc = "idle"
  BY Types, IdleIsTask, FinisherNames DEF IInv, WorkerFinished
<1>4. TypeOK'
  BY <1>1, <1>2, <1>3 DEF IInv, TypeOK, WorkerAt, WorkerEnds, Workers, Tasks
<1>5. TasksInPlace'
  BY <1>1, <1>2, <1>3, FinisherNames DEF IInv, TasksInPlace, WorkerAt, WorkerEnds
<1>6. TeardownWaits'
  BY <1>2 DEF IInv, TeardownWaits, Dials, WorkerAt, WorkerEnds
<1>7. TasksOfClaimed'
  BY <1>1, <1>2, <1>3 DEF IInv, TasksOfClaimed, Busy, WorkerAt, WorkerEnds
<1>8. HandoffHeld'
  BY <1>1, <1>2, <1>3 DEF IInv, HandoffHeld, WorkerAt, WorkerEnds
<1>9. ClaimsInKind'
  BY <1>1, <1>3 DEF IInv, ClaimsInKind, Busy, DbFaulted
<1>10. SilentFirst'
  BY <1>1, <1>3 DEF IInv, SilentFirst, Silent
<1>11. EndedCallIsSilent'
  BY <1>1, <1>2 DEF IInv, EndedCallIsSilent, Silent, WorkerAt, WorkerEnds
<1>12. ArmedKeepsOwner'
  BY <1>1, <1>2, <1>3 DEF IInv, ArmedKeepsOwner, Dials, WorkerAt, WorkerEnds
<1>13. Carried'
  BY <1>1, <1>3 DEF IInv, Carried, HasHandoff, Busy, TasksInPlace, DbFaulted
<1>14. StraysApart'
  BY <1>1, <1>2, <1>3 DEF IInv, StraysApart, Dials, HandoffHeld, Promoted, Tried,
    WorkerAt, WorkerEnds
<1>15. QED
  BY <1>4, <1>5, <1>6, <1>7, <1>8, <1>9, <1>10, <1>11, <1>12, <1>13, <1>14 DEF IInv

LEMMA CompensateStep ==
  ASSUME IInv, Compensate
  PROVE  IInv'
<1>1. /\ Serving /\ w.pc = "compensate"
      /\ UNCHANGED <<row, seen, fin, svc>>
  BY DEF Compensate, At
<1>2. /\ LineEnds \/ UNCHANGED tw
      /\ marks' \in Marks /\ compRetry' \in BOOLEAN /\ Spends
  BY ConferenceCompletes DEF IInv, Compensate
<1>3. WorkerEnds \/ WorkerAt("compensate")
  BY Types, WorkerIsDone DEF IInv, Compensate, At, WorkerAt, Workers
<1>4. TypeOK'
  BY <1>1, <1>2, <1>3 DEF IInv, TypeOK, LineEnds, Lines, Marks, Spends, Budgets,
    WorkerAt, WorkerEnds, Workers
<1>5. TasksInPlace'
  BY <1>1, <1>3 DEF IInv, TasksInPlace, WorkerAt, WorkerEnds
<1>6. TeardownWaits'
  BY <1>3 DEF IInv, TeardownWaits, Dials, WorkerAt, WorkerEnds
<1>7. TasksOfClaimed'
  BY <1>1, <1>2, <1>3 DEF IInv, TasksOfClaimed, Busy, LineEnds, WorkerAt, WorkerEnds
<1>8. HandoffHeld'
  BY <1>1, <1>3 DEF IInv, HandoffHeld, WorkerAt, WorkerEnds
<1>9. ClaimsInKind'
  BY <1>1 DEF IInv, ClaimsInKind, Busy, TasksInPlace
<1>10. SilentFirst'
  BY <1>1, <1>2 DEF IInv, SilentFirst, Silent, LineEnds
<1>11. EndedCallIsSilent'
  BY <1>1, <1>2, <1>3 DEF IInv, EndedCallIsSilent, Silent, LineEnds, WorkerAt, WorkerEnds
<1>12. ArmedKeepsOwner'
  BY <1>1, <1>2, <1>3 DEF IInv, ArmedKeepsOwner, Dials, LineEnds, WorkerAt, WorkerEnds
<1>13. Carried'
  BY <1>1, <1>2 DEF IInv, Carried, HasHandoff, Busy, Spends
<1>14. StraysApart'
  BY <1>1, <1>2, <1>3 DEF IInv, StraysApart, Dials, HandoffHeld, Promoted, Tried,
    WorkerAt, WorkerEnds, LineEnds
<1>15. QED
  BY <1>4, <1>5, <1>6, <1>7, <1>8, <1>9, <1>10, <1>11, <1>12, <1>13, <1>14 DEF IInv

LEMMA ClaimTerminationByStep ==
  ASSUME IInv, NEW f \in DOMAIN ReasonOf, ClaimTerminationBy(f)
  PROVE  IInv'
<1>1. /\ /\ w.pc # "claiming"
         /\ f = "term" => svc = "up" /\ fin[f].pc = "idle"
         /\ f = "shutdown" => svc = "stopping" /\ fin[f].pc = "idle"
         /\ f = "cleanup" => Serving /\ w.pc = "terminate"
      /\ UNCHANGED <<marks, tw, seen, compRetry, svc>>
  BY DEF ClaimTerminationBy, Attempts, At, TransferLockFree
<1>2. /\ w' \in Workers /\ w'.phase = w.phase
      /\ w'.pc = IF f = "cleanup" THEN "terminating" ELSE w.pc
      /\ w'.cancel => w.cancel \/ (fin'[f].pc = "await" /\ WorkerActive /\ f # "cleanup")
  BY Types DEF IInv, ClaimTerminationBy, Workers, WorkerPcs
<1>3. /\ f \in {"term", "cleanup", "shutdown"} /\ f \in Finishers /\ TaskMoves(f)
      /\ \/ /\ RowIsTaken /\ ~row.claimed /\ Spends
            /\ ~fin'[f].preserve
            /\ fin'[f].claim.reason \notin {"none", "transfer_completed"}
            /\ \/ fin'[f].pc = "await"
               \/ fin'[f].pc = "media" /\ (f = "cleanup" \/ ~WorkerActive)
         \/ UNCHANGED row /\ HoldsAnswer(f) /\ Spends
         \/ RowIsTaken /\ ~row.claimed /\ HoldsAnswer(f) /\ SpendsOnDb
  <2> DEFINE new == ClaimTermination(row, ReasonOf[f])
             pc  == IF WorkerActive /\ f # "cleanup" THEN "await" ELSE "media"
             t   == [pc |-> pc, claim |-> ClaimOf(new), preserve |-> FALSE]
  <2>1. /\ f \in {"term", "cleanup", "shutdown"} /\ f \in Finishers
        /\ ReasonOf[f] \in OrdinaryReasons /\ ReasonOf[f] \notin SpecialReasons
    BY ReasonsOfTerminators
  <2>2. CanClaimTermination(row) /\ row' = new => RowIsTaken /\ ~row.claimed /\ row'.reason = ReasonOf[f]
    BY <2>1, ClaimTakes DEF IInv
  <2>3. CASE /\ CanClaimTermination(row) /\ row' = new /\ fin' = [fin EXCEPT ![f] = t]
             /\ UNCHANGED faults \/ DbFault
    <3>1. RowIsTaken /\ ~row.claimed /\ new \in Row /\ new.reason = ReasonOf[f]
      BY <2>2, <2>3 DEF RowIsTaken
    <3>2. ClaimOf(new) \in Claim /\ ClaimOf(new).reason = ReasonOf[f]
      BY <3>1, ClaimIsTicket
    <3>3. t \in Tasks
      BY <3>2 DEF Tasks, FinPcs
    <3>4. TaskMoves(f) /\ fin'[f] = t
      BY <2>1, <2>3, <3>3, TaskSet DEF IInv
    <3>5. Spends
      BY <2>3, FaultsSpend DEF IInv, Spends, SpendsOnDb
    <3>6. ReasonOf[f] \notin {"none", "transfer_completed"}
      BY <2>1 DEF SpecialReasons
    <3>7. t.claim.reason = ReasonOf[f] /\ t.pc = pc /\ ~t.preserve
      BY <3>2
    <3>8. QED
      BY <2>1, <3>1, <3>4, <3>5, <3>6, <3>7
  <2>4. CASE /\ fin' = [fin EXCEPT ![f] = Answer(f, "no")]
             /\ \/ UNCHANGED row /\ (UNCHANGED faults \/ DbFault)
                \/ CanClaimTermination(row) /\ row' = new /\ TwoDbFaults
    <3>1. TaskMoves(f) /\ HoldsAnswer(f)
      BY <2>1, <2>4, TaskAnswers DEF IInv, Answers
    <3>2. CASE UNCHANGED row /\ (UNCHANGED faults \/ DbFault)
      <4>1. Spends
        BY <3>2, FaultsSpend DEF IInv, Spends, SpendsOnDb
      <4>2. QED
        BY <2>1, <3>1, <3>2, <4>1
    <3>3. CASE CanClaimTermination(row) /\ row' = new /\ TwoDbFaults
      BY <2>1, <2>2, <3>1, <3>3, FaultsSpend DEF IInv
    <3>4. QED
      BY <2>4, <3>2, <3>3
  <2>5. QED
    BY <2>3, <2>4 DEF ClaimTerminationBy
<1>4. TypeOK'
  BY <1>1, <1>2, <1>3 DEF IInv, TypeOK, Workers, RowIsTaken, Spends, SpendsOnDb,
    Budgets, TaskMoves, Tasks
<1>5. TasksInPlace'
  BY <1>1, <1>2, <1>3, FinisherNames DEF IInv, TasksInPlace, WorkerActive, TaskMoves
<1>6. TeardownWaits'
  BY <1>2, <1>3 DEF IInv, TeardownWaits, Dials, WorkerActive, TaskMoves, HoldsAnswer
<1>7. TasksOfClaimed'
  BY <1>1, <1>2, <1>3 DEF IInv, TasksOfClaimed, Busy, RowIsTaken, TaskMoves,
    HoldsAnswer
<1>8. HandoffHeld'
  BY <1>2, <1>3 DEF IInv, HandoffHeld, Promoted, TaskMoves, HoldsAnswer
<1>9. ClaimsInKind'
  BY <1>3 DEF IInv, ClaimsInKind, Busy, Spends, SpendsOnDb, TaskMoves, HoldsAnswer
<1>10. SilentFirst'
  BY <1>1, <1>3 DEF IInv, SilentFirst, Silent, TaskMoves, HoldsAnswer
<1>11. EndedCallIsSilent'
  BY <1>1, <1>2, <1>3 DEF IInv, EndedCallIsSilent, Silent, TerminalStates, RowIsTaken
<1>12. ArmedKeepsOwner'
  BY <1>1, <1>2, <1>3 DEF IInv, ArmedKeepsOwner, Dials, RowIsTaken, TaskMoves,
    HoldsAnswer
<1>13. Carried'
  BY <1>1, <1>2, <1>3 DEF IInv, Carried, HasHandoff, Busy, TasksInPlace, Spends,
    SpendsOnDb, TaskMoves
<1>14. StraysApart'
  BY <1>1, <1>2, <1>3 DEF IInv, StraysApart, Dials, HandoffHeld, Promoted, Tried,
    RowIsTaken, StaysTried
<1>15. QED
  BY <1>4, <1>5, <1>6, <1>7, <1>8, <1>9, <1>10, <1>11, <1>12, <1>13, <1>14 DEF IInv

LEMMA AwaitWorkerStep ==
  ASSUME IInv, NEW f \in Finishers, AwaitWorker(f)
  PROVE  IInv'
<1>1. /\ fin[f].pc = "await" /\ ~WorkerActive
      /\ UNCHANGED <<row, marks, tw, seen, w, compRetry, svc, faults>>
  BY DEF AwaitWorker
<1>2. TaskAt(f, "media")
  BY TaskGoes DEF IInv, AwaitWorker, FinPcs
<1>3. TypeOK'
  BY <1>1, <1>2 DEF IInv, TypeOK, TaskMoves, TaskAt, Tasks
<1>4. TasksInPlace'
  BY <1>1, <1>2, FinisherNames DEF IInv, TasksInPlace, TaskMoves, TaskAt, WorkerActive
<1>5. TeardownWaits'
  BY <1>1 DEF IInv, TeardownWaits, Dials, WorkerActive
<1>6. TasksOfClaimed'
  BY <1>1 DEF IInv, TasksOfClaimed, Busy
<1>7. HandoffHeld'
  BY <1>1, <1>2 DEF IInv, HandoffHeld, TaskMoves, TaskAt
<1>8. ClaimsInKind'
  BY <1>1, <1>2 DEF IInv, ClaimsInKind, Busy, TaskMoves, TaskAt, DbFaulted
<1>9. SilentFirst'
  BY <1>1, <1>2 DEF IInv, SilentFirst, Silent, TaskMoves, TaskAt
<1>10. ArmedKeepsOwner'
  BY <1>1, <1>2 DEF IInv, ArmedKeepsOwner, Dials, TaskMoves, TaskAt
<1>11. Carried'
  BY <1>2 DEF IInv, Carried, Busy, TaskAt
<1>12. EndedCallIsSilent'
  BY <1>1 DEF IInv, EndedCallIsSilent, Silent, TerminalStates
<1>13. StraysApart'
  BY <1>1, <1>2 DEF IInv, StraysApart, Dials, HandoffHeld, Promoted, Tried
<1>14. QED
  BY <1>3, <1>4, <1>5, <1>6, <1>7, <1>8, <1>9, <1>10, <1>11, <1>12, <1>13 DEF IInv

LEMMA TeardownMediaStep ==
  ASSUME IInv, NEW f \in Finishers, TeardownMedia(f)
  PROVE  IInv'
<1>1. /\ fin[f].pc = "media"
      /\ UNCHANGED <<row, marks, seen, w, compRetry, svc>>
  BY DEF TeardownMedia
<1>2. \/ LineEnds /\ TaskAt(f, "commit")
      \/ /\ LineEnds \/ UNCHANGED tw
         /\ \/ UNCHANGED fin
            \/ f = "retry" /\ svc = "draining" /\ Answers(f)
            \/ f # "retry" /\ GivesUp(f)
  <2>1. CASE tw' = Ended(tw) /\ fin' = [fin EXCEPT ![f].pc = "commit"]
    BY <2>1, ConferenceEnds, TaskGoes DEF IInv, FinPcs
  <2> DEFINE failed == tw' \in {tw, Ended(tw)}
  <2>6. failed => LineEnds \/ UNCHANGED tw
    BY ConferenceEnds DEF IInv
  <2>2. CASE /\ f = "retry"
             /\ svc = "draining"
             /\ failed
             /\ fin' = [fin EXCEPT ![f] = Idle]
    BY <2>2, <2>6, TaskSet, IdleIsTask DEF IInv, Answers, HoldsAnswer
  <2>3. CASE /\ f # "retry" /\ failed
             /\ fin' = ScheduleRetry([fin EXCEPT ![f] = Answer(f, "no")], fin[f].claim)
    BY <2>3, <2>6, TaskGivesUp DEF IInv
  <2>4. CASE failed /\ UNCHANGED fin
    BY <2>4, <2>6
  <2>5. QED
    BY <2>1, <2>2, <2>3, <2>4 DEF TeardownMedia
<1>3. Spends
  BY FaultsSpend DEF IInv, Spends, TeardownMedia
<1>4. TypeOK'
  BY <1>1, <1>2, <1>3 DEF IInv, TypeOK, TaskMoves, TaskAt, Tasks, Answers, GivesUp,
    LineEnds, Lines, Spends, Budgets
<1>5. TasksInPlace'
  BY <1>1, <1>2, FinisherNames DEF IInv, TasksInPlace, TaskMoves, TaskAt, Answers,
    GivesUp
<1>6. TeardownWaits'
  BY <1>1 DEF IInv, TeardownWaits, Dials
<1>7. TasksOfClaimed'
  BY <1>1 DEF IInv, TasksOfClaimed, Busy
<1>8. HandoffHeld'
  BY <1>1, <1>2 DEF IInv, HandoffHeld, ClaimsInKind, TaskMoves, TaskAt, Answers,
    HoldsAnswer, GivesUp
<1>9. ClaimsInKind'
  BY <1>1, <1>2, <1>3 DEF IInv, ClaimsInKind, Busy, TaskMoves, TaskAt, Answers,
    HoldsAnswer, GivesUp, Spends
<1>10. SilentFirst'
  BY <1>1, <1>2 DEF IInv, SilentFirst, Silent, TaskMoves, Answers, HoldsAnswer, GivesUp,
    LineEnds
<1>11. EndedCallIsSilent'
  BY <1>1, <1>2 DEF IInv, EndedCallIsSilent, Silent, LineEnds
<1>12. ArmedKeepsOwner'
  BY <1>1, <1>2 DEF IInv, ArmedKeepsOwner, Dials, ClaimsInKind, TaskMoves, TaskAt,
    Answers, HoldsAnswer, GivesUp, LineEnds
<1>13. Carried'
  BY <1>1, <1>2, FinisherNames DEF IInv, Carried, Busy, Stopping, ClaimsInKind,
    TaskAt, GivesUp
<1>14. StraysApart'
  BY <1>1, <1>2 DEF IInv, StraysApart, Dials, HandoffHeld, Promoted, Tried, LineEnds
<1>15. QED
  BY <1>4, <1>5, <1>6, <1>7, <1>8, <1>9, <1>10, <1>11, <1>12, <1>13, <1>14 DEF IInv

LEMMA CommitTerminalStep ==
  ASSUME IInv, NEW f \in Finishers, CommitTerminal(f)
  PROVE  IInv'
<1>1. /\ fin[f].pc = "commit"
      /\ UNCHANGED <<marks, tw, seen, w, compRetry, svc>>
  BY DEF CommitTerminal
<1>2. \/ RowEnds(fin[f].claim) /\ Answers(f) /\ Spends
      \/ /\ ~CanFinishTermination(row, fin[f].claim.reason, fin[f].claim.outcome)
         /\ UNCHANGED row /\ TaskAt(f, "reread") /\ Spends
      \/ /\ UNCHANGED row \/ RowEnds(fin[f].claim)
         /\ TaskAt(f, "reread") /\ SpendsOnDb
  <2> DEFINE c == fin[f].claim
             can == CanFinishTermination(row, c.reason, c.outcome)
  <2>1. can /\ row' = FinishTermination(row, c.reason) => RowEnds(c)
    BY FinishEnds, Types DEF IInv, Tasks
  <2>2. CASE /\ can /\ row' = FinishTermination(row, c.reason) /\ UNCHANGED faults
             /\ fin' = [fin EXCEPT ![f] = Answer(f, "ok")]
    BY <2>1, <2>2, TaskAnswers, FaultsSpend DEF IInv
  <2>3. CASE /\ ~can /\ UNCHANGED <<row, faults>>
             /\ fin' = [fin EXCEPT ![f] = [@ EXCEPT !.pc = "reread"]]
    BY <2>3, TaskGoes, FaultsSpend DEF IInv, FinPcs
  <2>4. CASE /\ Raised(can, FinishTermination(row, c.reason))
             /\ fin' = [fin EXCEPT ![f].pc = "reread"]
    BY <2>1, <2>4, TaskGoes, FaultsSpend DEF IInv, FinPcs, Raised
  <2>5. QED
    BY <2>2, <2>3, <2>4 DEF CommitTerminal, Answered
<1>3. TypeOK'
  BY <1>1, <1>2 DEF IInv, TypeOK, TaskMoves, TaskAt, Tasks, Answers, RowEnds, Spends,
    SpendsOnDb, Budgets
<1>4. TasksInPlace'
  BY <1>1, <1>2, FinisherNames DEF IInv, TasksInPlace, TaskMoves, TaskAt, Answers
<1>5. TeardownWaits'
  BY <1>1 DEF IInv, TeardownWaits, Dials
<1>6. TasksOfClaimed'
  BY <1>1, <1>2 DEF IInv, TasksOfClaimed, Busy, RowEnds
<1>7. HandoffHeld'
  <2>1. TaskMoves(f) /\ fin'[f].pc \notin {"arm", "unarmed", "commit"}
    BY <1>2 DEF TaskAt, Answers, HoldsAnswer
  <2>2. CASE UNCHANGED row
    BY <1>1, <2>1, <2>2 DEF IInv, HandoffHeld, TaskMoves
  <2>3. CASE RowEnds(fin[f].claim) /\ fin[f].claim.reason # "transfer_completed"
    <3>1. \A o \in {"in_progress", "completed"} : ~Promoted(row, o)
      BY <2>3 DEF RowEnds, Promoted
    <3>2. QED
      BY <1>1, <2>1, <3>1 DEF IInv, HandoffHeld, TaskMoves
  <2>4. CASE RowEnds(fin[f].claim) /\ fin[f].claim.reason = "transfer_completed"
    <3>1. f \in {"worker", "recover"}
      BY <1>1, <2>4 DEF IInv, ClaimsInKind, Busy
    <3>2. /\ w.pc \notin {"removeAI", "completing", "arming", "armed"}
          /\ f = "worker" => fin["recover"].pc = "idle"
          /\ f = "recover" => fin["worker"].pc = "idle"
      BY <1>1, <3>1 DEF IInv, TasksInPlace
    <3>3. \A h \in Finishers : h # f /\ h \notin {"worker", "recover"} =>
            fin[h].pc \notin {"arm", "unarmed"} /\ ~(fin[h].pc = "commit" /\ fin[h].preserve)
      BY DEF IInv, ClaimsInKind, Busy
    <3>4. QED
      BY <1>1, <2>1, <3>1, <3>2, <3>3 DEF HandoffHeld, TaskMoves
  <2>5. QED
    BY <1>2, <2>2, <2>3, <2>4
<1>8. ClaimsInKind'
  <2>1. TaskMoves(f) /\ (DbFaulted => DbFaulted')
    BY <1>2 DEF TaskAt, Answers, Spends, SpendsOnDb
  <2>2. \/ Answers(f)
        \/ TaskAt(f, "reread") /\ (fin[f].preserve => DbFaulted')
    <3>1. fin[f].preserve => CanFinishTermination(row, fin[f].claim.reason, fin[f].claim.outcome)
      BY <1>1 DEF IInv, HandoffHeld, ClaimsInKind, Busy, Promoted,
        CanFinishTermination
    <3>2. QED
      BY <1>2, <3>1 DEF SpendsOnDb
  <2>3. QED
    BY <1>1, <2>1, <2>2 DEF IInv, ClaimsInKind, Busy, TaskMoves, TaskAt, Answers,
      HoldsAnswer
<1>9. SilentFirst'
  BY <1>1, <1>2 DEF IInv, SilentFirst, Silent, TaskMoves, TaskAt, Answers, HoldsAnswer
<1>10. EndedCallIsSilent'
  BY <1>1, <1>2 DEF IInv, EndedCallIsSilent, Dials, Silent, SilentFirst,
    TeardownWaits, ClaimsInKind, RowEnds
<1>11. ArmedKeepsOwner'
  BY <1>1, <1>2 DEF IInv, ArmedKeepsOwner, Dials, ClaimsInKind, TaskMoves, TaskAt,
    Answers, HoldsAnswer, RowEnds
<1>12. Carried'
  BY <1>2 DEF IInv, Carried, Busy, TerminalStates, TaskAt, RowEnds
<1>13. StraysApart'
  BY <1>1, <1>2 DEF IInv, StraysApart, Dials, HandoffHeld, Promoted, Tried, RowEnds,
    StaysTried
<1>14. QED
  BY <1>3, <1>4, <1>5, <1>6, <1>7, <1>8, <1>9, <1>10, <1>11, <1>12, <1>13 DEF IInv

LEMMA RereadTerminalStep ==
  ASSUME IInv, NEW f \in Finishers, RereadTerminal(f)
  PROVE  IInv'
<1>1. /\ fin[f].pc = "reread"
      /\ UNCHANGED <<row, marks, tw, seen, w, compRetry, svc>>
  BY DEF RereadTerminal
<1>2. \/ row.state \in TerminalStates /\ Answers(f)
      \/ f = "retry" /\ TaskAt(f, "media")
      \/ Answers(f) /\ (fin[f].preserve \/ (f = "retry" /\ svc = "draining") \/ SpendsOnDb)
      \/ f # "retry" /\ ~fin[f].preserve /\ GivesUp(f)
  <2>1. /\ \A pc \in {"ok", "no"} : fin' = [fin EXCEPT ![f] = Answer(f, pc)] => Answers(f)
        /\ fin' = [fin EXCEPT ![f].pc = "media"] \/ fin' = [fin EXCEPT ![f] = [@ EXCEPT !.pc = "media"]]
             => TaskAt(f, "media")
    BY TaskAnswers, TaskGoes DEF IInv, FinPcs
  <2>2. CASE Exact(fin[f].claim) /\ fin' = [fin EXCEPT ![f] = Answer(f, "ok")]
    BY <2>1, <2>2 DEF Exact, ClassifyTerminalState, TerminalStates
  <2>3. CASE /\ f = "retry"
             /\ \/ fin' = [fin EXCEPT ![f].pc = "media"]
                \/ fin' = [fin EXCEPT ![f] = [@ EXCEPT !.pc = "media"]]
    BY <2>1, <2>3
  <2>4. CASE /\ fin' = [fin EXCEPT ![f] = Answer(f, "no")]
             /\ fin[f].preserve \/ (f = "retry" /\ svc = "draining") \/ DbFault
    BY <2>1, <2>4, FaultsSpend DEF IInv
  <2>5. CASE /\ f # "retry" /\ ~fin[f].preserve
             /\ fin' = ScheduleRetry([fin EXCEPT ![f] = Answer(f, "no")], fin[f].claim)
    BY <2>5, TaskGivesUp DEF IInv
  <2>6. QED
    BY <2>2, <2>3, <2>4, <2>5 DEF RereadTerminal
<1>3. Spends
  BY FaultsSpend DEF IInv, Spends, SpendsOnDb, RereadTerminal
<1>4. TypeOK'
  BY <1>1, <1>2, <1>3 DEF IInv, TypeOK, TaskMoves, TaskAt, Tasks, Answers, GivesUp,
    Spends, Budgets
<1>5. TasksInPlace'
  BY <1>1, <1>2, FinisherNames DEF IInv, TasksInPlace, TaskMoves, TaskAt, Answers,
    GivesUp
<1>6. TeardownWaits'
  BY <1>1 DEF IInv, TeardownWaits, Dials
<1>7. TasksOfClaimed'
  BY <1>1 DEF IInv, TasksOfClaimed, Busy
<1>8. HandoffHeld'
  BY <1>1, <1>2 DEF IInv, HandoffHeld, TaskMoves, TaskAt, Answers, HoldsAnswer,
    GivesUp
<1>9. ClaimsInKind'
  BY <1>1, <1>2, <1>3 DEF IInv, ClaimsInKind, Busy, TaskMoves, TaskAt, Answers,
    HoldsAnswer, GivesUp, Spends
<1>10. SilentFirst'
  BY <1>1, <1>2 DEF IInv, SilentFirst, Silent, TaskMoves, TaskAt, Answers,
    HoldsAnswer, GivesUp
<1>11. ArmedKeepsOwner'
  BY <1>1, <1>2 DEF IInv, ArmedKeepsOwner, Dials, TaskMoves, TaskAt, Answers,
    HoldsAnswer, GivesUp
<1>12. Carried'
  BY <1>1, <1>2, <1>3, FinisherNames DEF IInv, Carried, Busy, Stopping,
    TerminalStates, ClaimsInKind, TaskAt, GivesUp, SpendsOnDb, Spends
<1>13. EndedCallIsSilent'
  BY <1>1 DEF IInv, EndedCallIsSilent, Silent, TerminalStates
<1>14. StraysApart'
  BY <1>1, <1>2 DEF IInv, StraysApart, Dials, HandoffHeld, Promoted, Tried
<1>15. QED
  BY <1>4, <1>5, <1>6, <1>7, <1>8, <1>9, <1>10, <1>11, <1>12, <1>13, <1>14 DEF IInv

LEMMA RetryStopsStep ==
  ASSUME IInv, RetryStops
  PROVE  IInv'
<1>1. /\ fin["retry"].pc = "media" /\ row.state \in TerminalStates
      /\ UNCHANGED <<row, marks, tw, seen, w, compRetry, svc, faults>>
  BY DEF RetryStops
<1>2. TaskMoves("retry") /\ fin'["retry"].pc = "idle"
  BY TaskSet, IdleIsTask, FinisherNames DEF IInv, RetryStops
<1>3. TypeOK'
  BY <1>1, <1>2 DEF IInv, TypeOK, TaskMoves, Tasks
<1>4. TasksInPlace'
  BY <1>1, <1>2, FinisherNames DEF IInv, TasksInPlace, TaskMoves
<1>5. TeardownWaits'
  BY <1>1, FinisherNames DEF IInv, TeardownWaits, Dials
<1>6. TasksOfClaimed'
  BY <1>1 DEF IInv, TasksOfClaimed, ClosedStates
<1>7. HandoffHeld'
  BY <1>1, <1>2 DEF IInv, HandoffHeld, TaskMoves
<1>8. ClaimsInKind'
  BY <1>1, <1>2 DEF IInv, ClaimsInKind, Busy, TaskMoves, DbFaulted
<1>9. SilentFirst'
  BY <1>1, <1>2 DEF IInv, SilentFirst, Silent, TaskMoves
<1>10. ArmedKeepsOwner'
  BY <1>1, <1>2 DEF IInv, ArmedKeepsOwner, Dials, TaskMoves
<1>11. Carried'
  BY <1>1 DEF IInv, Carried, TerminalStates
<1>12. EndedCallIsSilent'
  BY <1>1 DEF IInv, EndedCallIsSilent, Silent, TerminalStates
<1>13. StraysApart'
  BY <1>1, <1>2 DEF IInv, StraysApart, Dials, HandoffHeld, Promoted, Tried
<1>14. QED
  BY <1>3, <1>4, <1>5, <1>6, <1>7, <1>8, <1>9, <1>10, <1>11, <1>12, <1>13 DEF IInv

LEMMA CompensationRetryStep ==
  ASSUME IInv, CompensationRetry
  PROVE  IInv'
<1>1. UNCHANGED <<row, seen, w, fin, svc>>
  BY DEF CompensationRetry
<1>2. LineEnds
  BY ConferenceEnds DEF IInv, CompensationRetry
<1>3. marks' \in Marks
  BY Types DEF IInv, CompensationRetry, Marks
<1>4. compRetry' \in BOOLEAN
  BY DEF CompensationRetry
<1>5. Spends
  BY FaultsSpend DEF IInv, Spends, SpendsOnDb, CompensationRetry
<1>6. TypeOK'
  BY <1>1, <1>2, <1>3, <1>4, <1>5 DEF IInv, TypeOK, LineEnds, Lines, Marks, Spends,
    Budgets
<1>7. TasksOfClaimed'
  BY <1>1, <1>2 DEF IInv, TasksOfClaimed, Busy, LineEnds
<1>8. ClaimsInKind'
  BY <1>1, <1>5 DEF IInv, ClaimsInKind, Busy, Spends
<1>9. SilentFirst'
  BY <1>2 DEF IInv, SilentFirst, Silent, LineEnds
<1>10. EndedCallIsSilent'
  BY <1>1, <1>2 DEF IInv, EndedCallIsSilent, Silent, LineEnds
<1>11. ArmedKeepsOwner'
  BY <1>1, <1>2 DEF IInv, ArmedKeepsOwner, Dials, LineEnds
<1>12. Carried'
  BY <1>1, <1>5 DEF IInv, Carried, HasHandoff, Busy, Spends
<1>13. (TasksInPlace /\ TeardownWaits /\ HandoffHeld)'
  BY <1>1 DEF IInv, TasksInPlace, TeardownWaits, Dials, HandoffHeld
<1>14. StraysApart'
  BY <1>1, <1>2 DEF IInv, StraysApart, Dials, HandoffHeld, Promoted, Tried, LineEnds
<1>15. QED
  BY <1>6, <1>7, <1>8, <1>9, <1>10, <1>11, <1>12, <1>13, <1>14 DEF IInv

LEMMA StopStep ==
  ASSUME IInv, Stop
  PROVE  IInv'
<1>1. /\ svc = "up" /\ svc' = "stopping"
      /\ UNCHANGED <<row, marks, tw, seen, w, fin, compRetry>>
  BY DEF Stop
<1>2. Spends
  BY FaultsSpend DEF IInv, Spends, Stop
<1>3. TypeOK'
  BY <1>1, <1>2 DEF IInv, TypeOK, Spends, Budgets
<1>4. TasksInPlace'
  BY <1>1, FinisherNames DEF IInv, TasksInPlace
<1>5. ClaimsInKind'
  BY <1>1, <1>2 DEF IInv, ClaimsInKind, Busy, Spends
<1>6. Carried'
  BY <1>1 DEF IInv, Carried
<1>7. (TeardownWaits /\ TasksOfClaimed /\ HandoffHeld /\ SilentFirst /\
  EndedCallIsSilent /\ StraysApart /\ ArmedKeepsOwner)'
  BY <1>1 DEF IInv, TeardownWaits, Dials, Busy, TasksOfClaimed, HandoffHeld,
    SilentFirst, Silent, EndedCallIsSilent, StraysApart, ArmedKeepsOwner
<1>8. QED
  BY <1>3, <1>4, <1>5, <1>6, <1>7 DEF IInv

LEMMA DrainStep ==
  ASSUME IInv, Drain
  PROVE  IInv'
<1>1. /\ svc = "stopping" /\ svc' = "draining" /\ compRetry' = FALSE
      /\ UNCHANGED <<row, marks, tw, seen, faults>>
  BY DEF Drain
<1>2. w' \in Workers /\ w'.pc = w.pc /\ (w'.cancel => WorkerActive)
  BY Types DEF IInv, Drain, Workers, WorkerActive
<1>3. UNCHANGED fin \/ (fin["retry"].pc = "media" /\ TaskMoves("retry") /\ fin'["retry"].pc = "idle")
  BY TaskSet, IdleIsTask, FinisherNames DEF IInv, Drain
<1>4. TypeOK'
  <2>1. w' \in Workers
    BY <1>2
  <2>2. fin' \in [Finishers -> Tasks]
    BY <1>3, Types DEF IInv, TaskMoves
  <2>3. compRetry' \in BOOLEAN /\ svc' = "draining"
    BY <1>1
  <2>4. UNCHANGED <<row, marks, tw, seen, faults>>
    BY <1>1
  <2>5. QED
    BY <2>1, <2>2, <2>3, <2>4 DEF IInv, TypeOK, Workers, Tasks
<1>5. TasksInPlace'
  BY <1>1, <1>2, <1>3, FinisherNames DEF IInv, TasksInPlace, WorkerActive, TaskMoves
<1>6. TeardownWaits'
  BY <1>2, <1>3 DEF IInv, TeardownWaits, Dials, TaskMoves
<1>7. TasksOfClaimed'
  BY <1>1, <1>2, <1>3 DEF IInv, TasksOfClaimed, Busy, TaskMoves
<1>8. HandoffHeld'
  BY <1>1, <1>2, <1>3 DEF IInv, HandoffHeld, TaskMoves
<1>9. ClaimsInKind'
  BY <1>1, <1>3 DEF IInv, ClaimsInKind, Busy, TaskMoves, DbFaulted
<1>10. SilentFirst'
  BY <1>1, <1>3 DEF IInv, SilentFirst, Silent, TaskMoves
<1>11. EndedCallIsSilent'
  BY <1>1, <1>2 DEF IInv, EndedCallIsSilent, Silent
<1>12. ArmedKeepsOwner'
  BY <1>1, <1>2, <1>3 DEF IInv, ArmedKeepsOwner, Dials, TaskMoves
<1>13. Carried'
  BY <1>1 DEF IInv, Carried
<1>14. StraysApart'
  BY <1>1, <1>2, <1>3 DEF IInv, StraysApart, Dials, HandoffHeld, Promoted, Tried
<1>15. QED
  BY <1>4, <1>5, <1>6, <1>7, <1>8, <1>9, <1>10, <1>11, <1>12, <1>13, <1>14 DEF IInv

LEMMA ExitStep ==
  ASSUME IInv, Exit
  PROVE  IInv'
<1>1. UNCHANGED <<row, marks, tw, faults>>
  BY DEF Exit, Gone
<1>2. w' \in Workers /\ w'.pc = "none" /\ ~w'.cancel
  BY DEF Exit, Gone, IdleWorker, Workers, WorkerPcs
<1>3. fin' \in [Finishers -> Tasks] /\ \A g \in Finishers : fin'[g].pc = "idle"
  BY IdleIsTask DEF Exit, Gone, IdleFin
<1>4. svc' = "down" /\ compRetry' = FALSE /\ seen' = [join |-> FALSE, left |-> FALSE]
  BY DEF Exit, Gone
<1>5. TypeOK'
  BY <1>1, <1>2, <1>3, <1>4 DEF IInv, TypeOK, Workers, Tasks
<1>6. TasksInPlace'
  BY <1>2, <1>3, FinisherNames DEF IInv, TasksInPlace
<1>7. TeardownWaits'
  BY <1>3 DEF IInv, TeardownWaits
<1>8. TasksOfClaimed'
  BY <1>1, <1>2, <1>3 DEF IInv, TasksOfClaimed, Busy
<1>9. HandoffHeld'
  BY <1>2, <1>3 DEF IInv, HandoffHeld
<1>10. ClaimsInKind'
  BY <1>3 DEF IInv, ClaimsInKind, Busy
<1>11. SilentFirst'
  BY <1>3 DEF IInv, SilentFirst
<1>12. EndedCallIsSilent'
  BY <1>1, <1>2 DEF IInv, EndedCallIsSilent, Silent
<1>13. ArmedKeepsOwner'
  BY <1>1, <1>2, <1>3 DEF IInv, ArmedKeepsOwner, Dials
<1>14. Carried'
  BY <1>4 DEF IInv, Carried
<1>15. StraysApart'
  BY <1>1, <1>2, <1>3 DEF IInv, StraysApart, Dials, HandoffHeld, Promoted, Tried
<1>16. QED
  BY <1>5, <1>6, <1>7, <1>8, <1>9, <1>10, <1>11, <1>12, <1>13, <1>14, <1>15 DEF IInv

LEMMA CrashStep ==
  ASSUME IInv, Crash
  PROVE  IInv'
<1>1. UNCHANGED <<row, marks>>
  BY DEF Crash, Gone
<1>2. w' \in Workers /\ w'.pc = "none" /\ ~w'.cancel
  BY DEF Crash, Gone, IdleWorker, Workers, WorkerPcs
<1>3. fin' \in [Finishers -> Tasks] /\ \A g \in Finishers : fin'[g].pc = "idle"
  BY IdleIsTask DEF Crash, Gone, IdleFin
<1>4. svc' = "down" /\ compRetry' = FALSE /\ seen' = [join |-> FALSE, left |-> FALSE]
  BY DEF Crash, Gone
<1>5. /\ tw' \in Lines /\ tw'.armed = tw.armed
      /\ \/ UNCHANGED tw
         \/ /\ w.pc \in {"creating", "settling"} /\ tw'.conf = tw.conf
            /\ tw'.owner = tw.owner /\ tw'.callee = tw.callee /\ tw'.ai = tw.ai
            /\ tw'.stray \in {tw.stray, "due"}
  BY Types DEF IInv, Crash, CreateGivenUp, Lines
<1>6. Spends
  BY FaultsSpend DEF IInv, Spends, Crash
<1>7. TypeOK'
  BY <1>1, <1>2, <1>3, <1>4, <1>5, <1>6 DEF IInv, TypeOK, Workers, Tasks, Lines,
    Spends, Budgets
<1>8. TasksInPlace'
  BY <1>2, <1>3, FinisherNames DEF IInv, TasksInPlace
<1>9. TeardownWaits'
  BY <1>3 DEF IInv, TeardownWaits
<1>10. TasksOfClaimed'
  BY <1>1, <1>2, <1>3, <1>5 DEF IInv, TasksOfClaimed, Busy
<1>11. HandoffHeld'
  BY <1>2, <1>3 DEF IInv, HandoffHeld
<1>12. ClaimsInKind'
  BY <1>3 DEF IInv, ClaimsInKind, Busy
<1>13. SilentFirst'
  BY <1>3 DEF IInv, SilentFirst
<1>14. EndedCallIsSilent'
  BY <1>1, <1>2, <1>5 DEF IInv, EndedCallIsSilent, Silent
<1>15. ArmedKeepsOwner'
  BY <1>1, <1>2, <1>3, <1>5 DEF IInv, ArmedKeepsOwner, Dials
<1>16. Carried'
  BY <1>4 DEF IInv, Carried
<1>17. StraysApart'
  BY <1>1, <1>2, <1>5 DEF IInv, StraysApart, ArmedKeepsOwner, Dials
<1>18. QED
  BY <1>7, <1>8, <1>9, <1>10, <1>11, <1>12, <1>13, <1>14, <1>15, <1>16, <1>17 DEF IInv

LEMMA RestartStep ==
  ASSUME IInv, Restart
  PROVE  IInv'
<1>1. /\ svc = "down" /\ svc' = "booting"
      /\ UNCHANGED <<row, marks, tw, seen, w, fin, compRetry, faults>>
  BY DEF Restart
<1>2. TypeOK'
  BY <1>1 DEF IInv, TypeOK
<1>3. TasksInPlace'
  BY <1>1, FinisherNames DEF IInv, TasksInPlace
<1>4. Carried'
  BY <1>1 DEF IInv, Carried
<1>5. (TeardownWaits /\ TasksOfClaimed /\ HandoffHeld /\ ClaimsInKind /\ SilentFirst
  /\ EndedCallIsSilent /\ StraysApart /\ ArmedKeepsOwner)'
  BY <1>1 DEF IInv, TeardownWaits, Dials, Busy, TasksOfClaimed, HandoffHeld,
    ClaimsInKind, SilentFirst, Silent, EndedCallIsSilent, StraysApart, ArmedKeepsOwner, DbFaulted
<1>6. QED
  BY <1>2, <1>3, <1>4, <1>5 DEF IInv

LEMMA RecoverCallStep ==
  ASSUME IInv, RecoverCall
  PROVE  IInv'
<1>1. /\ svc = "booting"
      /\ UNCHANGED <<marks, tw, seen, w, compRetry>>
  BY DEF RecoverCall
<1>2. \/ /\ svc' = "recovering" /\ Spends /\ TaskMoves("recover")
         /\ \/ /\ UNCHANGED row /\ row.state \in TerminalStates
               /\ fin'["recover"].pc = "no"
            \/ /\ RowIsTaken /\ fin'["recover"].pc = "media" /\ ~fin'["recover"].preserve
               /\ fin'["recover"].claim.reason = "startup_recovery"
            \/ /\ RowIsTaken /\ Promoted(row', "completed")
               /\ fin'["recover"].pc \in {"arm", "unarmed"} /\ fin'["recover"].preserve
               /\ fin'["recover"].claim = HandoffClaim
      \/ /\ svc' = "stopping" /\ UNCHANGED fin /\ SpendsOnDb
         /\ UNCHANGED row \/ RowIsTaken
  <2> DEFINE can == CanClaimRecovery(row, row.outcome)
             new == ClaimRecovery(row, row.outcome)
  <2>1. ASSUME can, row' = new
        PROVE  /\ RowIsTaken
               /\ row.outcome = "completed" => Promoted(row', "completed")
               /\ row.outcome # "completed" => row'.reason = "startup_recovery"
    BY <2>1, RecoveryTakes DEF IInv
  <2>2. ASSUME NEW pc \in FinPcs, NEW c \in Claim,
               fin' = [fin EXCEPT !["recover"] = [pc |-> pc, claim |-> c, preserve |-> FALSE]]
        PROVE  TaskMoves("recover") /\ fin'["recover"] = [pc |-> pc, claim |-> c, preserve |-> FALSE]
    <3>1. [pc |-> pc, claim |-> c, preserve |-> FALSE] \in Tasks
      BY DEF Tasks
    <3>2. QED
      BY <2>2, <3>1, TaskSet, FinisherNames DEF IInv
  <2>3. CASE /\ ~can
             /\ UNCHANGED <<row, faults>>
             /\ svc' = "recovering"
             /\ RecoverTo("no", NoClaim, FALSE)
    <3>1. /\ TaskMoves("recover")
          /\ fin'["recover"] = [pc |-> "no", claim |-> NoClaim, preserve |-> FALSE]
      BY <2>2, <2>3, IdleIsTask DEF FinPcs, RecoverTo
    <3>2. Spends /\ row.state \in TerminalStates
      BY <2>3, FaultsSpend DEF IInv, CanClaimRecovery
    <3>3. QED
      BY <2>3, <3>1, <3>2
  <2>4. CASE /\ can /\ row' = new /\ UNCHANGED faults /\ svc' = "recovering"
             /\ row.outcome # "completed" /\ RecoverTo("media", ClaimOf(new), FALSE)
    <3>1. ClaimOf(new) \in Claim /\ ClaimOf(new).reason = "startup_recovery"
      BY <2>1, <2>4, ClaimIsTicket DEF RowIsTaken
    <3>2. /\ TaskMoves("recover")
          /\ fin'["recover"] = [pc |-> "media", claim |-> ClaimOf(new), preserve |-> FALSE]
      BY <2>2, <2>4, <3>1 DEF FinPcs, RecoverTo
    <3>3. Spends /\ RowIsTaken
      BY <2>1, <2>4, FaultsSpend DEF IInv
    <3>4. QED
      BY <2>4, <3>1, <3>2, <3>3
  <2>5. CASE /\ can /\ row' = new /\ UNCHANGED faults /\ svc' = "recovering"
             /\ row.outcome = "completed"
             /\ RecoverTo(IF marks.ownerSid THEN "arm" ELSE "unarmed", ClaimOf(new), TRUE)
    <3> DEFINE pc == IF marks.ownerSid THEN "arm" ELSE "unarmed"
    <3>1. ClaimOf(new) = HandoffClaim /\ ClaimOf(new) \in Claim
      BY <2>1, <2>5, ClaimIsTicket DEF RowIsTaken, ClaimOf, HandoffClaim, Promoted
    <3>2. pc \in FinPcs /\ pc \in {"arm", "unarmed"}
      BY DEF FinPcs
    <3>3. /\ TaskMoves("recover")
          /\ fin'["recover"] = [pc |-> pc, claim |-> HandoffClaim, preserve |-> TRUE]
      BY <2>5, <3>1, <3>2, HandoffTask, TaskSet, FinisherNames DEF IInv, RecoverTo
    <3>4. Spends /\ RowIsTaken /\ Promoted(row', "completed")
      BY <2>1, <2>5, FaultsSpend DEF IInv
    <3>5. QED
      BY <2>5, <3>3, <3>4
  <2>6. CASE Raised(can, new) /\ svc' = "stopping" /\ UNCHANGED fin
    <3>1. SpendsOnDb /\ (UNCHANGED row \/ RowIsTaken)
      BY <2>1, <2>6, FaultsSpend DEF IInv, Raised
    <3>2. QED
      BY <2>6, <3>1
  <2>7. QED
    BY <2>3, <2>4, <2>5, <2>6 DEF RecoverCall, Answered
<1>3. TypeOK'
  BY <1>1, <1>2 DEF IInv, TypeOK, RowIsTaken, Spends, SpendsOnDb, Budgets, TaskMoves,
    Tasks
<1>4. TasksInPlace'
  BY <1>1, <1>2, FinisherNames DEF IInv, TasksInPlace, TaskMoves
<1>5. TeardownWaits'
  BY <1>1 DEF IInv, TeardownWaits, Dials, TasksInPlace
<1>6. TasksOfClaimed'
  BY <1>1, <1>2 DEF IInv, TasksOfClaimed, Busy, TasksInPlace, RowIsTaken, TaskMoves
<1>7. HandoffHeld'
  BY <1>1, <1>2 DEF IInv, HandoffHeld, TasksInPlace, TaskMoves
<1>8. ClaimsInKind'
  BY <1>2 DEF IInv, ClaimsInKind, Busy, Spends, SpendsOnDb, TaskMoves, HandoffClaim
<1>9. SilentFirst'
  BY <1>1, <1>2 DEF IInv, SilentFirst, Silent, TaskMoves
<1>10. EndedCallIsSilent'
  BY <1>1, <1>2 DEF IInv, EndedCallIsSilent, Silent, TerminalStates, RowIsTaken
<1>11. ArmedKeepsOwner'
  BY <1>1, <1>2 DEF IInv, ArmedKeepsOwner, Dials, RowIsTaken, TaskMoves
<1>12. Carried'
  BY <1>2, FinisherNames DEF IInv, Carried, Busy, TerminalStates
<1>13. StraysApart'
  BY <1>1, <1>2 DEF IInv, StraysApart, Dials, HandoffHeld, Promoted, Tried, RowIsTaken,
    StaysTried
<1>14. QED
  BY <1>3, <1>4, <1>5, <1>6, <1>7, <1>8, <1>9, <1>10, <1>11, <1>12, <1>13 DEF IInv

LEMMA RecoverOwnerExitStep ==
  ASSUME IInv, RecoverOwnerExit
  PROVE  IInv'
<1>1. /\ fin["recover"].pc = "arm"
      /\ UNCHANGED <<row, marks, seen, w, compRetry, svc>>
  BY DEF RecoverOwnerExit
<1>2. /\ tw' \in Lines
      /\ tw'.conf = tw.conf
      /\ tw'.owner = tw.owner
      /\ tw'.callee = tw.callee
      /\ tw'.stray = tw.stray /\ tw'.ai = tw.ai
      /\ tw.armed => tw'.armed
      /\ tw'.armed => tw.armed \/ tw.owner = "in"
  BY Types DEF IInv, RecoverOwnerExit, Lines
<1>3. /\ TaskMoves("recover")
      /\ fin'["recover"].claim = fin["recover"].claim /\ fin'["recover"].preserve
      /\ \/ fin'["recover"].pc = "commit" /\ tw'.armed /\ tw.owner = "in"
         \/ fin'["recover"].pc = "unarmed"
  <2>1. ASSUME NEW pc \in FinPcs, RecoverTo(pc, fin["recover"].claim, TRUE)
        PROVE  /\ TaskMoves("recover")
               /\ fin'["recover"] = [pc |-> pc, claim |-> fin["recover"].claim, preserve |-> TRUE]
    <3>1. [pc |-> pc, claim |-> fin["recover"].claim, preserve |-> TRUE] \in Tasks
      BY Types, FinisherNames DEF IInv, Tasks
    <3>2. QED
      BY <2>1, <3>1, TaskSet, FinisherNames DEF IInv, RecoverTo
  <2>2. CASE /\ RecoverTo("commit", fin["recover"].claim, TRUE)
             /\ tw.owner = "in"
             /\ tw' = [tw EXCEPT !.armed = TRUE]
    <3>1. /\ TaskMoves("recover")
          /\ fin'["recover"] = [pc |-> "commit", claim |-> fin["recover"].claim, preserve |-> TRUE]
      BY <2>1, <2>2 DEF FinPcs
    <3>2. tw'.armed
      BY <2>2, Types DEF IInv, Lines
    <3>3. QED
      BY <2>2, <3>1, <3>2
  <2>3. CASE RecoverTo("unarmed", fin["recover"].claim, TRUE)
    <3>1. /\ TaskMoves("recover")
          /\ fin'["recover"] = [pc |-> "unarmed", claim |-> fin["recover"].claim, preserve |-> TRUE]
      BY <2>1, <2>3 DEF FinPcs
    <3>2. QED
      BY <2>3, <3>1
  <2>4. QED
    BY <2>2, <2>3 DEF RecoverOwnerExit
<1>4. Spends
  BY FaultsSpend DEF IInv, Spends, SpendsOnDb, RecoverOwnerExit
<1>5. TypeOK'
  BY <1>1, <1>2, <1>3, <1>4 DEF IInv, TypeOK, Lines, TaskMoves, Tasks, Spends, Budgets
<1>6. TasksInPlace'
  BY <1>1, <1>3, FinisherNames DEF IInv, TasksInPlace, TaskMoves
<1>7. TeardownWaits'
  BY <1>1 DEF IInv, TeardownWaits, Dials, TasksInPlace
<1>8. TasksOfClaimed'
  BY <1>1, FinisherNames DEF IInv, TasksOfClaimed, HandoffHeld, Promoted
<1>9. HandoffHeld'
  BY <1>1, FinisherNames DEF IInv, HandoffHeld
<1>10. ClaimsInKind'
  BY <1>1, <1>3 DEF IInv, ClaimsInKind, Busy, TasksInPlace, TaskMoves
<1>11. SilentFirst'
  BY <1>2, <1>3 DEF IInv, SilentFirst, Silent, TaskMoves
<1>12. EndedCallIsSilent'
  BY <1>1, <1>2 DEF IInv, EndedCallIsSilent, Silent
<1>13. ArmedKeepsOwner'
  BY <1>1, <1>2, <1>3 DEF IInv, ArmedKeepsOwner, Dials, TasksInPlace, TaskMoves
<1>14. Carried'
  BY <1>3, FinisherNames DEF IInv, Carried, Busy
<1>15. StraysApart'
  BY <1>1, <1>2, FinisherNames DEF IInv, StraysApart, Dials, HandoffHeld, Promoted,
    Tried
<1>16. QED
  BY <1>5, <1>6, <1>7, <1>8, <1>9, <1>10, <1>11, <1>12, <1>13, <1>14, <1>15 DEF IInv

LEMMA RecoverUnarmedStep ==
  ASSUME IInv, RecoverUnarmed
  PROVE  IInv'
<1>1. /\ fin["recover"].pc = "unarmed"
      /\ UNCHANGED <<marks, tw, seen, w, compRetry, svc>>
  BY DEF RecoverUnarmed
<1>2. /\ TaskMoves("recover") /\ ~fin'["recover"].preserve
      /\ \/ /\ RowIsTaken /\ UNCHANGED faults
            /\ fin'["recover"].pc = "media"
            /\ fin'["recover"].claim.reason = "transfer_failed"
         \/ /\ UNCHANGED row \/ RowIsTaken
            /\ fin'["recover"].pc = "compensate" /\ SpendsOnDb
  <2> DEFINE can == CanFailPromoted(row, "completed")
             new == FailPromoted(row)
  <2>1. can
    BY FinisherNames DEF IInv, HandoffHeld, RecoverUnarmed, CanFailPromoted
  <2>2. row' = new => RowIsTaken /\ row'.reason = "transfer_failed"
    BY <2>1, RevokeTakes DEF IInv
  <2>3. ASSUME NEW pc \in FinPcs, NEW c \in Claim,
               fin' = [fin EXCEPT !["recover"] = [pc |-> pc, claim |-> c, preserve |-> FALSE]]
        PROVE  TaskMoves("recover") /\ fin'["recover"] = [pc |-> pc, claim |-> c, preserve |-> FALSE]
    <3>1. [pc |-> pc, claim |-> c, preserve |-> FALSE] \in Tasks
      BY DEF Tasks
    <3>2. QED
      BY <2>3, <3>1, TaskSet, FinisherNames DEF IInv
  <2>4. CASE row' = new /\ UNCHANGED faults /\ RecoverTo("media", ClaimOf(new), FALSE)
    <3>1. ClaimOf(new) \in Claim /\ ClaimOf(new).reason = "transfer_failed"
      BY <2>2, <2>4, ClaimIsTicket DEF RowIsTaken
    <3>2. /\ TaskMoves("recover")
          /\ fin'["recover"] = [pc |-> "media", claim |-> ClaimOf(new), preserve |-> FALSE]
      BY <2>3, <2>4, <3>1 DEF FinPcs, RecoverTo
    <3>3. QED
      BY <2>2, <2>4, <3>1, <3>2
  <2>5. CASE Raised(can, new) /\ RecoverTo("compensate", NoClaim, FALSE)
    <3>1. /\ TaskMoves("recover")
          /\ fin'["recover"] = [pc |-> "compensate", claim |-> NoClaim, preserve |-> FALSE]
      BY <2>3, <2>5, IdleIsTask DEF FinPcs, RecoverTo
    <3>2. SpendsOnDb /\ (UNCHANGED row \/ RowIsTaken)
      BY <2>2, <2>5, FaultsSpend DEF IInv, Raised
    <3>3. QED
      BY <3>1, <3>2
  <2>6. QED
    BY <2>1, <2>4, <2>5 DEF RecoverUnarmed, Answered
<1>3. TypeOK'
  BY <1>1, <1>2 DEF IInv, TypeOK, RowIsTaken, SpendsOnDb, Budgets, TaskMoves, Tasks
<1>4. TasksInPlace'
  BY <1>1, <1>2, FinisherNames DEF IInv, TasksInPlace, TaskMoves
<1>5. TeardownWaits'
  BY <1>1 DEF IInv, TeardownWaits, Dials, TasksInPlace
<1>6. TasksOfClaimed'
  BY <1>1, <1>2 DEF IInv, TasksOfClaimed, Busy, TasksInPlace, RowIsTaken, TaskMoves
<1>7. HandoffHeld'
  BY <1>1, <1>2 DEF IInv, HandoffHeld, Busy, TasksInPlace, ClaimsInKind, TaskMoves
<1>8. ClaimsInKind'
  BY <1>1, <1>2 DEF IInv, ClaimsInKind, Busy, TasksInPlace, SpendsOnDb, TaskMoves
<1>9. SilentFirst'
  BY <1>1, <1>2 DEF IInv, SilentFirst, Silent, TaskMoves
<1>10. EndedCallIsSilent'
  BY <1>1, <1>2 DEF IInv, EndedCallIsSilent, Silent, TerminalStates, RowIsTaken
<1>11. ArmedKeepsOwner'
  BY <1>1, <1>2 DEF IInv, ArmedKeepsOwner, Dials, RowIsTaken, TaskMoves
<1>12. Carried'
  BY <1>2, FinisherNames DEF IInv, Carried, Busy
<1>13. StraysApart'
  BY <1>1, <1>2 DEF IInv, StraysApart, Dials, HandoffHeld, Promoted, Tried, RowIsTaken,
    StaysTried
<1>14. QED
  BY <1>3, <1>4, <1>5, <1>6, <1>7, <1>8, <1>9, <1>10, <1>11, <1>12, <1>13 DEF IInv

LEMMA BootFailsStep ==
  ASSUME IInv, BootFails
  PROVE  IInv'
<1>1. UNCHANGED <<row, marks, tw>>
  BY DEF BootFails, Gone
<1>2. w' \in Workers /\ w'.pc = "none" /\ ~w'.cancel
  BY DEF BootFails, Gone, IdleWorker, Workers, WorkerPcs
<1>3. fin' \in [Finishers -> Tasks] /\ \A g \in Finishers : fin'[g].pc = "idle"
  BY IdleIsTask DEF BootFails, Gone, IdleFin
<1>4. svc' = "down" /\ compRetry' = FALSE /\ seen' = [join |-> FALSE, left |-> FALSE]
  BY DEF BootFails, Gone
<1>5. Spends
  BY FaultsSpend DEF IInv, Spends, SpendsOnDb, BootFails
<1>6. TypeOK'
  BY <1>1, <1>2, <1>3, <1>4, <1>5 DEF IInv, TypeOK, Workers, Tasks, Spends, Budgets
<1>7. TasksInPlace'
  BY <1>2, <1>3, FinisherNames DEF IInv, TasksInPlace
<1>8. TeardownWaits'
  BY <1>3 DEF IInv, TeardownWaits
<1>9. TasksOfClaimed'
  BY <1>1, <1>2, <1>3 DEF IInv, TasksOfClaimed, Busy
<1>10. HandoffHeld'
  BY <1>2, <1>3 DEF IInv, HandoffHeld
<1>11. ClaimsInKind'
  BY <1>3 DEF IInv, ClaimsInKind, Busy
<1>12. SilentFirst'
  BY <1>3 DEF IInv, SilentFirst
<1>13. EndedCallIsSilent'
  BY <1>1, <1>2 DEF IInv, EndedCallIsSilent, Silent
<1>14. ArmedKeepsOwner'
  BY <1>1, <1>2, <1>3 DEF IInv, ArmedKeepsOwner, Dials
<1>15. Carried'
  BY <1>4 DEF IInv, Carried
<1>16. StraysApart'
  BY <1>1, <1>2, <1>3 DEF IInv, StraysApart, Dials, HandoffHeld, Promoted, Tried
<1>17. QED
  BY <1>6, <1>7, <1>8, <1>9, <1>10, <1>11, <1>12, <1>13, <1>14, <1>15, <1>16 DEF IInv

LEMMA RecoverCompensateStep ==
  ASSUME IInv, RecoverCompensate
  PROVE  IInv'
<1>1. /\ fin["recover"].pc = "compensate"
      /\ UNCHANGED <<row, seen, w, svc>>
  BY DEF RecoverCompensate
<1>2. /\ LineEnds \/ UNCHANGED tw
      /\ marks' \in Marks /\ compRetry' \in BOOLEAN /\ Spends
  BY ConferenceCompletes DEF IInv, RecoverCompensate
<1>3. TaskMoves("recover") /\ fin'["recover"].pc = "no"
  <2>1. [pc |-> "no", claim |-> NoClaim, preserve |-> FALSE] \in Tasks
    BY IdleIsTask DEF Tasks, FinPcs
  <2>2. fin' = [fin EXCEPT !["recover"] = [pc |-> "no", claim |-> NoClaim, preserve |-> FALSE]]
    BY DEF RecoverCompensate, RecoverTo
  <2>3. /\ TaskMoves("recover")
        /\ fin'["recover"] = [pc |-> "no", claim |-> NoClaim, preserve |-> FALSE]
    BY <2>1, <2>2, TaskSet, FinisherNames DEF IInv
  <2>4. QED
    BY <2>3
<1>4. TypeOK'
  BY <1>1, <1>2, <1>3 DEF IInv, TypeOK, LineEnds, Lines, Marks, Spends, Budgets,
    TaskMoves, Tasks
<1>5. TasksInPlace'
  BY <1>1, <1>3, FinisherNames DEF IInv, TasksInPlace, TaskMoves
<1>6. TeardownWaits'
  BY <1>1 DEF IInv, TeardownWaits, Dials, TasksInPlace
<1>7. TasksOfClaimed'
  BY <1>1, FinisherNames DEF IInv, TasksOfClaimed, Busy
<1>8. HandoffHeld'
  BY <1>1, <1>3 DEF IInv, HandoffHeld, TaskMoves
<1>9. ClaimsInKind'
  BY <1>2, <1>3 DEF IInv, ClaimsInKind, Busy, Spends, TaskMoves
<1>10. SilentFirst'
  BY <1>2, <1>3 DEF IInv, SilentFirst, Silent, LineEnds, TaskMoves
<1>11. EndedCallIsSilent'
  BY <1>1, <1>2 DEF IInv, EndedCallIsSilent, Silent, LineEnds
<1>12. ArmedKeepsOwner'
  BY <1>1, <1>2, <1>3 DEF IInv, ArmedKeepsOwner, Dials, LineEnds, TaskMoves
<1>13. Carried'
  BY <1>1, <1>2, FinisherNames DEF IInv, Carried, ClaimsInKind, Spends
<1>14. StraysApart'
  BY <1>1, <1>2, <1>3 DEF IInv, StraysApart, Dials, HandoffHeld, Promoted, Tried,
    LineEnds
<1>15. QED
  BY <1>4, <1>5, <1>6, <1>7, <1>8, <1>9, <1>10, <1>11, <1>12, <1>13, <1>14 DEF IInv

LEMMA FinishRecoveryStep ==
  ASSUME IInv, FinishRecovery
  PROVE  IInv'
<1>1. /\ svc = "recovering" /\ svc' = "up" /\ fin["recover"].pc \in {"ok", "no"}
      /\ UNCHANGED <<row, seen, w>>
  BY DEF FinishRecovery
<1>2. TaskMoves("recover") /\ fin'["recover"].pc = "idle"
  BY TaskSet, IdleIsTask, FinisherNames DEF IInv, FinishRecovery
<1>3. /\ LineEnds \/ UNCHANGED tw
      /\ marks' \in Marks /\ compRetry' \in BOOLEAN /\ Spends
  <2>1. CASE CompleteConferenceOrSchedule
    BY <2>1, ConferenceCompletes DEF IInv
  <2>2. CASE UNCHANGED <<marks, tw, compRetry, faults>>
    BY <2>2, Types, FaultsSpend DEF IInv, TypeOK
  <2>3. QED
    BY <2>1, <2>2 DEF FinishRecovery
<1>4. TypeOK'
  BY <1>1, <1>2, <1>3 DEF IInv, TypeOK, TaskMoves, Tasks, LineEnds, Lines, Marks,
    Spends, Budgets
<1>5. TasksInPlace'
  BY <1>1, <1>2, FinisherNames DEF IInv, TasksInPlace, TaskMoves
<1>6. TeardownWaits'
  BY <1>1 DEF IInv, TeardownWaits, Dials, TasksInPlace
<1>7. TasksOfClaimed'
  BY <1>1, <1>2, <1>3 DEF IInv, TasksOfClaimed, Busy, TaskMoves, LineEnds
<1>8. HandoffHeld'
  BY <1>1, <1>2 DEF IInv, HandoffHeld, TaskMoves
<1>9. ClaimsInKind'
  BY <1>2, <1>3 DEF IInv, ClaimsInKind, Busy, TaskMoves, Spends
<1>10. SilentFirst'
  BY <1>2, <1>3 DEF IInv, SilentFirst, Silent, TaskMoves, LineEnds
<1>11. EndedCallIsSilent'
  BY <1>1, <1>3 DEF IInv, EndedCallIsSilent, Silent, LineEnds
<1>12. ArmedKeepsOwner'
  BY <1>1, <1>2, <1>3 DEF IInv, ArmedKeepsOwner, Dials, TaskMoves, LineEnds
<1>13. Carried'
  BY <1>1, <1>2, <1>3 DEF IInv, Carried, HasHandoff, Busy, TaskMoves, Spends
<1>14. StraysApart'
  BY <1>1, <1>2, <1>3 DEF IInv, StraysApart, Dials, HandoffHeld, Promoted, Tried,
    LineEnds
<1>15. QED
  BY <1>4, <1>5, <1>6, <1>7, <1>8, <1>9, <1>10, <1>11, <1>12, <1>13, <1>14 DEF IInv

-----------------------------------------------------------------------------
LEMMA InitHolds == Init => IInv
<1> SUFFICES ASSUME Init PROVE IInv
  OBVIOUS
<1> USE DEF Init
<1>1. NewRow \in Row /\ NewRow.state = "prewarming" /\ ~NewRow.claimed
  BY DEF NewRow, Row, CallStates, EligibleStates, SpecialReasons, Outcomes
<1>2. /\ fin \in [Finishers -> Tasks]
      /\ \A f \in Finishers : fin[f].pc = "idle"
  BY IdleIsTask DEF IdleFin
<1>3. IdleWorker \in Workers /\ IdleWorker.pc = "none" /\ ~IdleWorker.cancel
  BY DEF IdleWorker, Workers, WorkerPcs
<1>4. tw \in Lines /\ marks \in Marks /\ ~tw.armed /\ tw.stray = "no"
  BY DEF Lines, Marks
<1>5. faults \in Budgets
  BY BudgetAssumption DEF Budgets
<1>6. TypeOK
  BY <1>1, <1>2, <1>3, <1>4, <1>5 DEF TypeOK, Lines, Marks, Workers, Tasks, Budgets
<1>7. row.state \notin ClosedStates
  BY <1>1 DEF ClosedStates, TerminalStates
<1>8. TasksInPlace /\ TeardownWaits
  BY <1>2, <1>3, FinisherNames DEF TasksInPlace, TeardownWaits
<1>9. TasksOfClaimed /\ HandoffHeld
  BY <1>2, <1>3, <1>7 DEF TasksOfClaimed, HandoffHeld, Busy
<1>10. ClaimsInKind /\ SilentFirst
  BY <1>2 DEF ClaimsInKind, SilentFirst, Busy
<1>11. EndedCallIsSilent /\ StraysApart /\ ArmedKeepsOwner /\ Carried
  BY <1>2, <1>3, <1>4, <1>7 DEF EndedCallIsSilent, StraysApart, Dials, ArmedKeepsOwner,
    Carried, ClosedStates, TerminalStates
<1>12. QED
  BY <1>6, <1>8, <1>9, <1>10, <1>11 DEF IInv

LEMMA NextHolds == IInv /\ [Next]_vars => IInv'
<1> SUFFICES ASSUME IInv, [Next]_vars PROVE IInv'
  OBVIOUS
<1>1. CASE World \/ StartTransfer
  BY <1>1, SetupProgressStep, CalleeLeavesStep, OwnerAnswersStep, OwnerLeavesStep,
    LateOwnerLegStep, OwnerCallbackStep, StartTransferStep DEF World
<1>2. CASE Worker
  BY <1>2, RegisterTransferStep, CreateOwnerStep, PersistOwnerSidStep,
    OwnerNotThereStep, PromoteOwnerStep, RemoveAiLegStep, CompleteHandoffStep,
    ArmOwnerExitStep, TerminalizeHandoffStep, FinishHandoffStep, CancelWorkerStep,
    CleanupOwnerStep, FailJoiningTransferStep, ProbePromotionStep,
    FailPromotedTransferStep, WorkerFinishedStep, CompensateStep DEF Worker
<1>3. CASE \E f \in DOMAIN ReasonOf : ClaimTerminationBy(f)
  BY <1>3, ClaimTerminationByStep
<1>4. CASE \E f \in Finishers : Finisher(f)
  BY <1>4, AwaitWorkerStep, TeardownMediaStep, CommitTerminalStep, RereadTerminalStep
    DEF Finisher
<1>5. CASE Background \/ Process
  BY <1>5, RetryStopsStep, CompensationRetryStep, StopStep, DrainStep, ExitStep,
    CrashStep, RestartStep DEF Background, Process
<1>6. CASE Recovery
  BY <1>6, RecoverCallStep, RecoverOwnerExitStep, RecoverUnarmedStep, BootFailsStep,
    RecoverCompensateStep, FinishRecoveryStep DEF Recovery
<1>7. CASE UNCHANGED vars
  BY <1>7 DEF vars, IInv, TypeOK, TasksInPlace, TeardownWaits, Dials, TasksOfClaimed,
    Busy, HandoffHeld, ClaimsInKind, SilentFirst, Silent, EndedCallIsSilent,
    StraysApart, ArmedKeepsOwner, Carried, HasHandoff, DbFaulted
<1>8. QED
  BY <1>1, <1>2, <1>3, <1>4, <1>5, <1>6, <1>7 DEF Next

-----------------------------------------------------------------------------
(* The inductive invariant holds in every reachable state, for every budget  *)
(* of faults and every number of deaths of the process.                      *)
THEOREM IInvAlways == Spec => []IInv
  BY InitHolds, NextHolds, PTL DEF Spec

(* Every variable keeps its type.                                            *)
THEOREM TypesHold == Spec => []TypeOK
<1>1. IInv => TypeOK
  BY DEF IInv
<1>2. QED
  BY <1>1, IInvAlways, PTL

(* Whatever raced, on a call that is over and was not handed over nobody     *)
(* rings or talks, and no create is under way (terminate_call waits for the  *)
(* worker and ends the conference before it commits).  Excepted is an owner  *)
(* leg that rings alone: its create had raised or had died with the process, *)
(* and Twilio carried it out after the conference had ended.                 *)
THEOREM EndedCallsAreSilent == Spec => []EndedCallIsSilent
<1>1. IInv => EndedCallIsSilent
  BY DEF IInv
<1>2. QED
  BY <1>1, IInvAlways, PTL

(* A call published as transferred has an armed owner leg, and the callee is *)
(* not on the line without the owner (_arm_owner_exit before the final       *)
(* commit, in the worker and in recovery).                                   *)
THEOREM TransferredKeepsItsOwner == Spec => []TransferredKeepsOwner
<1>1. IInv => TransferredKeepsOwner
  BY DEF IInv, ArmedKeepsOwner, TransferredKeepsOwner
<1>2. QED
  BY <1>1, IInvAlways, PTL

(* In a process that takes calls a claimed one has a task that will end it,  *)
(* unless a database statement failed: no failing Twilio request, no         *)
(* cancelled worker and no restart strands it.                               *)
THEOREM StrandedOnlyByFault == Spec => []StrandedOnlyByDbFault
<1>1. IInv => StrandedOnlyByDbFault
  BY DEF IInv, Carried, HasHandoff, StrandedOnlyByDbFault, Owned, WorkerActive
<1>2. QED
  BY <1>1, IInvAlways, PTL

-----------------------------------------------------------------------------
(* The refinement of CallRow.                                                *)

Booted   == svc \notin {"down", "booting"}
Refining == UNCHANGED Durable!vars \/ Durable!Next

(* The worker takes no handoff into its hands.                               *)
WorkerTakesNone == w'.pc \in {"arming", "armed"} => w.pc \in {"arming", "armed"}

(* Every claim held after a step was held before it, or is one of C.         *)
LEMMA HeldFrom ==
  ASSUME NEW C,
         w'.pc \in {"arming", "armed"} => w.pc \in {"arming", "armed"} \/ HandoffClaim \in C,
         \A f \in Finishers : Busy(f)' =>
           \/ fin'[f].claim \in C \cup {NoClaim}
           \/ \E g \in Finishers : Busy(g) /\ fin[g].claim = fin'[f].claim
           \/ fin'[f].claim = HandoffClaim /\ w.pc \in {"arming", "armed"}
  PROVE  HeldClaims' \subseteq HeldClaims \cup C
<1>1. /\ \A c : c \in HeldClaims <=>
           \/ c # NoClaim /\ \E g \in Finishers : Busy(g) /\ fin[g].claim = c
           \/ c = HandoffClaim /\ w.pc \in {"arming", "armed"}
      /\ \A c : c \in HeldClaims' =>
           \/ c # NoClaim /\ \E f \in Finishers : Busy(f)' /\ fin'[f].claim = c
           \/ c = HandoffClaim /\ w'.pc \in {"arming", "armed"}
  BY DEF HeldClaims, HandoffClaim
<1>2. SUFFICES ASSUME NEW c \in HeldClaims' PROVE c \in HeldClaims \cup C
  OBVIOUS
<1>3. CASE c = HandoffClaim /\ w'.pc \in {"arming", "armed"}
  BY <1>1, <1>3
<1>4. CASE c # NoClaim /\ \E f \in Finishers : Busy(f)' /\ fin'[f].claim = c
  BY <1>1, <1>4
<1>5. QED
  BY <1>1, <1>3, <1>4

LEMMA SameHeld ==
  ASSUME UNCHANGED fin, WorkerTakesNone
  PROVE  HeldClaims' \subseteq HeldClaims
<1>1. \A f \in Finishers : Busy(f)' => Busy(f) /\ fin[f].claim = fin'[f].claim
  BY DEF Busy
<1>2. HeldClaims' \subseteq HeldClaims \cup {}
  BY <1>1, HeldFrom DEF WorkerTakesNone
<1>3. QED
  BY <1>2

(* A claim may be dropped with the task that held it.                        *)
LEMMA RowUntouched ==
  ASSUME UNCHANGED row, HeldClaims' \subseteq HeldClaims, Booted' <=> Booted
  PROVE  Refining
<1>1. (svc \in {"down", "booting"})' = (svc \in {"down", "booting"})
  BY DEF Booted
<1>2. CASE HeldClaims' = HeldClaims
  BY <1>1, <1>2 DEF Refining, Durable!vars
<1>3. CASE HeldClaims' # HeldClaims
  <2>1. HeldClaims # {} /\ HeldClaims' \in (SUBSET HeldClaims) \ {HeldClaims}
    BY <1>3
  <2>2. Durable!GiveUp
    BY <1>1, <2>1 DEF Durable!GiveUp
  <2>3. QED
    BY <2>2 DEF Refining, Durable!Next
<1>4. QED
  BY <1>2, <1>3

LEMMA SetupRefines ==
  ASSUME SetupProgress
  PROVE  Refining
<1>1. Booted /\ Booted' /\ HeldClaims' = HeldClaims
  BY DEF SetupProgress, Serving, Booted, HeldClaims, Busy
<1>2. CASE CanSetJoined(row) /\ row' = SetJoined(row)
  <2>1. Durable!Write(Durable!CanSetJoined(row), Durable!SetJoined(row))
    BY <1>1, <1>2 DEF Durable!Write, Durable!CanSetJoined, Durable!SetJoined,
      CanSetJoined, SetJoined, Booted
  <2>2. QED
    BY <2>1 DEF Refining, Durable!Next, Durable!Setup
<1>3. ASSUME NEW from \in DOMAIN NextSetupState, CanPromote(row, from),
             row' = Promote(row, from)
      PROVE  Refining
  <2>1. Durable!NextSetupState = NextSetupState
    BY DEF Durable!NextSetupState, Durable!EligibleStates, NextSetupState, EligibleStates
  <2>2. Durable!CanPromote(row, from) /\ row' = Durable!Promote(row, from)
    BY <1>3, <2>1 DEF Durable!CanPromote, Durable!Promote, CanPromote, Promote
  <2>3. Durable!Write(Durable!CanPromote(row, from), Durable!Promote(row, from))
    BY <1>1, <2>2 DEF Durable!Write, Booted
  <2>4. QED
    BY <2>1, <2>3 DEF Refining, Durable!Next, Durable!Setup
<1>4. QED
  BY <1>2, <1>3 DEF SetupProgress

LEMMA JoiningRefines ==
  ASSUME \/ CanClaimJoining(row) /\ row' = ClaimJoining(row)
         \/ CanFailJoining(row) /\ row' = FailJoining(row)
         \/ CanPromoteTransfer(row) /\ row' = PromoteTransfer(row),
         HeldClaims' \subseteq HeldClaims, Booted, Booted'
  PROVE  Refining
<1> USE DEF Durable!EligibleStates, EligibleStates, Durable!StillJoining, StillJoining
<1>1. CASE CanClaimJoining(row) /\ row' = ClaimJoining(row)
  <2>1. Durable!StartTransfer
    BY <1>1 DEF Durable!StartTransfer, Durable!Write, Durable!CanClaimJoining,
      Durable!ClaimJoining, CanClaimJoining, ClaimJoining, Booted
  <2>2. QED
    BY <2>1 DEF Refining, Durable!Next
<1>2. CASE CanFailJoining(row) /\ row' = FailJoining(row)
  <2>1. Durable!AbandonTransfer
    BY <1>2 DEF Durable!AbandonTransfer, Durable!Write, Durable!CanFailJoining,
      Durable!FailJoining, CanFailJoining, FailJoining, Booted
  <2>2. QED
    BY <2>1 DEF Refining, Durable!Next
<1>3. CASE CanPromoteTransfer(row) /\ row' = PromoteTransfer(row)
  <2>1. Durable!PromoteOwner
    BY <1>3 DEF Durable!PromoteOwner, Durable!Write, Durable!CanPromoteTransfer,
      Durable!PromoteTransfer, CanPromoteTransfer, PromoteTransfer, Booted
  <2>2. QED
    BY <2>1 DEF Refining, Durable!Next
<1>4. QED
  BY <1>1, <1>2, <1>3

(* A statement whose answer is a ticket, kept or lost.                       *)
LEMMA CompletionRefines ==
  ASSUME CanCompleteTransfer(row), row' = CompleteTransfer(row),
         HeldClaims' \subseteq HeldClaims \cup {ClaimOf(row')}, Booted, Booted'
  PROVE  Refining
<1>1. Durable!CompleteHandoff
  BY DEF Durable!CompleteHandoff, Durable!WriteAndOwn, Durable!CanCompleteTransfer,
    Durable!CompleteTransfer, Durable!Promoted, CanCompleteTransfer, CompleteTransfer,
    Promoted, Durable!TicketOf, ClaimOf, Booted
<1>2. QED
  BY <1>1 DEF Refining, Durable!Next

LEMMA RevocationRefines ==
  ASSUME NEW o \in {"in_progress", "completed"},
         CanFailPromoted(row, o), row' = FailPromoted(row),
         HeldClaims' \subseteq HeldClaims \cup {ClaimOf(row')}, Booted, Booted'
  PROVE  Refining
<1>1. Durable!WriteAndOwn(Durable!CanFailPromoted(row, o), Durable!FailPromoted(row))
  BY DEF Durable!WriteAndOwn, Durable!CanFailPromoted, Durable!FailPromoted,
    Durable!Promoted, CanFailPromoted, FailPromoted, Promoted, Durable!TicketOf,
    ClaimOf, Booted
<1>2. QED
  BY <1>1 DEF Refining, Durable!Next, Durable!RevokeHandoff

LEMMA ClaimRefines ==
  ASSUME NEW reason \in OrdinaryReasons,
         CanClaimTermination(row), row' = ClaimTermination(row, reason),
         HeldClaims' \subseteq HeldClaims \cup {ClaimOf(row')}, Booted, Booted'
  PROVE  Refining
<1>1. Durable!WriteAndOwn(Durable!CanClaimTermination(row),
                          Durable!ClaimTermination(row, reason))
  BY DEF Durable!WriteAndOwn, Durable!CanClaimTermination, Durable!ClaimTermination,
    Durable!TerminalStates, CanClaimTermination, ClaimTermination, TerminalStates,
    Durable!TicketOf, ClaimOf, Booted
<1>2. QED
  BY <1>1 DEF Refining, Durable!Next, Durable!Terminate

LEMMA EndRefines ==
  ASSUME NEW c \in HeldClaims, CanFinishTermination(row, c.reason, c.outcome),
         row' = FinishTermination(row, c.reason),
         HeldClaims' \subseteq HeldClaims, Booted, Booted'
  PROVE  Refining
<1>1. Durable!Write(Durable!CanFinishTermination(row, c.reason, c.outcome),
                    Durable!FinishTermination(row, c.reason))
  BY DEF Durable!Write, Durable!CanFinishTermination, Durable!FinishTermination,
    CanFinishTermination, FinishTermination, ClassifyTerminalState,
    Durable!ClassifyTerminalState, Booted
<1>2. QED
  BY <1>1 DEF Refining, Durable!Next, Durable!Finish

(* The process dies, from service or before it has adopted the call.         *)
LEMMA GoneRefines ==
  ASSUME IInv, Gone, UNCHANGED row
  PROVE  Refining
<1>1. HeldClaims' = {} /\ ~Booted'
  <2>1. \A f \in Finishers : ~Busy(f)'
    BY DEF Gone, IdleFin, Idle, Busy
  <2>2. w'.pc = "none"
    BY DEF Gone, IdleWorker
  <2>3. QED
    BY <2>1, <2>2 DEF Gone, HeldClaims, Booted
<1>2. CASE Booted
  <2>1. Durable!Crash
    BY <1>1, <1>2 DEF Durable!Crash, Booted
  <2>2. QED
    BY <2>1 DEF Refining, Durable!Next
<1>3. CASE ~Booted
  <2>1. HeldClaims' \subseteq HeldClaims
    BY <1>1
  <2>2. QED
    BY <1>1, <1>3, <2>1, RowUntouched
<1>4. QED
  BY <1>2, <1>3

LEMMA RecoveryRefines ==
  ASSUME IInv, RecoverCall
  PROVE  Refining
<1>1. /\ ~Booted /\ Booted' /\ svc \in {"down", "booting"}
      /\ w.pc = "none" /\ UNCHANGED w /\ \A f \in Finishers : fin[f].pc = "idle"
  BY DEF RecoverCall, IInv, TasksInPlace, Booted
<1>2. HeldClaims = {}
  BY <1>1 DEF HeldClaims, Busy
<1>3. /\ CanClaimRecovery(row, row.outcome) <=> Durable!CanClaimRecovery(row, row.outcome)
      /\ ClaimRecovery(row, row.outcome) = Durable!ClaimRecovery(row, row.outcome)
  BY DEF CanClaimRecovery, ClaimRecovery, Durable!CanClaimRecovery,
    Durable!ClaimRecovery, TerminalStates, Durable!TerminalStates
<1>4. ASSUME NEW pc \in {"media", "arm", "unarmed"}, NEW p,
             CanClaimRecovery(row, row.outcome), row' = ClaimRecovery(row, row.outcome),
             fin' = [fin EXCEPT !["recover"] =
                       [pc |-> pc, claim |-> ClaimOf(row'), preserve |-> p]]
      PROVE  Refining
  <2>1. /\ fin'["recover"] = [pc |-> pc, claim |-> ClaimOf(row'), preserve |-> p]
        /\ \A f \in Finishers : f # "recover" => fin'[f].pc = "idle"
    BY <1>1, <1>4, Types, FinisherNames DEF IInv
  <2>2. ClaimOf(row') # NoClaim
    BY <1>4 DEF IInv, ClaimOf, NoClaim, ClaimRecovery
  <2>3. HeldClaims' = {Durable!TicketOf(row')}
    <3>1. Busy("recover")' /\ \A f \in Finishers : Busy(f)' => f = "recover"
      BY <2>1 DEF Busy
    <3>2. fin'["recover"].claim = ClaimOf(row')
      BY <2>1
    <3>3. {fin'[f].claim : f \in {g \in Finishers : Busy(g)'}} = {ClaimOf(row')}
      BY <3>1, <3>2, FinisherNames
    <3>4. w'.pc \notin {"arming", "armed"}
      BY <1>1
    <3>5. HeldClaims' = {ClaimOf(row')}
      BY <2>2, <3>3, <3>4 DEF HeldClaims
    <3>6. QED
      BY <3>5 DEF ClaimOf, Durable!TicketOf
  <2>4. Durable!Recover
    BY <1>1, <1>3, <1>4, <2>3 DEF Durable!Recover, Booted
  <2>5. QED
    BY <2>4 DEF Refining, Durable!Next
<1>5. CASE /\ ~CanClaimRecovery(row, row.outcome) /\ UNCHANGED row
           /\ RecoverTo("no", NoClaim, FALSE)
  <2>1. \A f \in Finishers : ~Busy(f)'
    BY <1>1, <1>5 DEF IInv, RecoverTo, Busy
  <2>2. HeldClaims' = {}
    BY <1>1, <2>1 DEF HeldClaims
  <2>3. Durable!Recover
    BY <1>1, <1>2, <1>3, <1>5, <2>2 DEF Durable!Recover, Booted
  <2>4. QED
    BY <2>3 DEF Refining, Durable!Next
<1>6. CASE /\ UNCHANGED fin
           /\ \/ UNCHANGED row
              \/ CanClaimRecovery(row, row.outcome) /\ row' = ClaimRecovery(row, row.outcome)
  <2>1. HeldClaims' = {}
    BY <1>1, <1>6 DEF HeldClaims, Busy
  <2>2. CASE CanClaimRecovery(row, row.outcome)
    <3>1. Durable!FailBoot
      BY <1>1, <1>2, <1>3, <1>6, <2>1, <2>2 DEF Durable!FailBoot, Booted
    <3>2. QED
      BY <3>1 DEF Refining, Durable!Next
  <2>3. CASE ~CanClaimRecovery(row, row.outcome)
    <3>1. Durable!Recover
      BY <1>1, <1>2, <1>3, <1>6, <2>1, <2>3 DEF Durable!Recover, Booted
    <3>2. QED
      BY <3>1 DEF Refining, Durable!Next
  <2>4. QED
    BY <2>2, <2>3
<1>7. CASE /\ CanClaimRecovery(row, row.outcome) /\ row' = ClaimRecovery(row, row.outcome)
           /\ \/ RecoverTo("media", ClaimOf(ClaimRecovery(row, row.outcome)), FALSE)
              \/ RecoverTo(IF marks.ownerSid THEN "arm" ELSE "unarmed",
                           ClaimOf(ClaimRecovery(row, row.outcome)), TRUE)
  <2>1. CASE RecoverTo("media", ClaimOf(ClaimRecovery(row, row.outcome)), FALSE)
    BY <1>4, <1>7, <2>1 DEF RecoverTo
  <2>2. CASE RecoverTo(IF marks.ownerSid THEN "arm" ELSE "unarmed",
                       ClaimOf(ClaimRecovery(row, row.outcome)), TRUE)
    BY <1>4, <1>7, <2>2 DEF RecoverTo
  <2>3. QED
    BY <1>7, <2>1, <2>2
<1>8. QED
  BY <1>5, <1>6, <1>7 DEF RecoverCall, Answered, Raised

(* Steps that leave the row and the claims to their holders.                 *)
LEMMA WorkerStepTakesNone ==
  ASSUME IInv, \/ StartTransfer \/ RegisterTransfer \/ CreateOwner \/ PersistOwnerSid
               \/ OwnerNotThere \/ PromoteOwner \/ RemoveAiLeg \/ ArmOwnerExit
               \/ FinishHandoff \/ CancelWorker \/ CleanupOwner \/ FailJoiningTransfer
               \/ ProbePromotion \/ FailPromotedTransfer \/ WorkerFinished \/ Compensate
  PROVE  WorkerTakesNone
<1>1. w \in Workers
  BY Types DEF IInv
<1>2. /\ \A pc : Goto(pc) => w'.pc = pc
      /\ \A ph : FailWith(ph) => w'.pc = "cleanup"
  <2>1. ASSUME NEW pc, Goto(pc) PROVE w'.pc = pc
    <3>1. CASE pc = "done"
      BY <2>1, <3>1 DEF Goto, IdleWorker
    <3>2. CASE pc # "done"
      BY <2>1 DEF Goto
    <3>3. QED
      BY <3>1, <3>2
  <2>2. ASSUME NEW ph, FailWith(ph) PROVE w'.pc = "cleanup"
    BY <1>1, <2>2 DEF FailWith, Workers
  <2>3. QED
    BY <2>1, <2>2
<1>3. CASE StartTransfer \/ RegisterTransfer \/ OwnerNotThere \/ CancelWorker \/ FinishHandoff
  BY <1>2, <1>3 DEF StartTransfer, RegisterTransfer, OwnerNotThere, CancelWorker,
    FinishHandoff, WorkerTakesNone
<1>4. CASE CreateOwner \/ PersistOwnerSid
  BY <1>1, <1>2, <1>4 DEF CreateOwner, PersistOwnerSid, WorkerTakesNone, Workers
<1>5. CASE PromoteOwner
  <2>1. w' = [w EXCEPT !.pc = "removeAI", !.phase = "promoted"] => w'.pc = "removeAI"
    BY <1>1 DEF Workers
  <2>2. QED
    BY <1>2, <1>5, <2>1 DEF PromoteOwner, WorkerTakesNone
<1>6. CASE RemoveAiLeg
  BY <1>1, <1>2, <1>6 DEF RemoveAiLeg, WorkerTakesNone, Workers
<1>7. CASE ArmOwnerExit
  BY <1>7 DEF ArmOwnerExit, At, WorkerTakesNone
<1>8. CASE CleanupOwner
  <2> DEFINE next == IF w.phase = "joining" THEN "failJoining" ELSE "failPromoted"
  <2>1. \/ w' = [w EXCEPT !.pc = next, !.cleaned = TRUE]
        \/ w' = [w EXCEPT !.pc = next, !.cleaned = ~w.sid]
        \/ w' = [w EXCEPT !.pc = next, !.cleaned = FALSE]
    BY <1>8, Zenon DEF CleanupOwner
  <2>2. w'.pc = next
    BY <1>1, <2>1 DEF Workers
  <2>3. QED
    BY <2>2 DEF WorkerTakesNone
<1>9. CASE FailJoiningTransfer
  BY <1>1, <1>2, <1>9 DEF FailJoiningTransfer, WorkerTakesNone, Workers
<1>10. CASE ProbePromotion
  BY <1>2, <1>10 DEF ProbePromotion, AdoptRevoked, WorkerTakesNone
<1>11. CASE FailPromotedTransfer
  BY <1>2, <1>11 DEF FailPromotedTransfer, AdoptRevoked, WorkerTakesNone
<1>12. CASE WorkerFinished \/ Compensate
  BY <1>1, <1>2, <1>12 DEF WorkerFinished, Compensate, WorkerTakesNone, Workers
<1>13. QED
  BY <1>3, <1>4, <1>5, <1>6, <1>7, <1>8, <1>9, <1>10, <1>11, <1>12

LEMMA TransferRefines ==
  ASSUME IInv, StartTransfer \/ Worker
  PROVE  Refining
<1>1. Booted /\ Booted'
  BY DEF StartTransfer, Worker, RegisterTransfer, CreateOwner, PersistOwnerSid,
    OwnerNotThere, PromoteOwner, RemoveAiLeg, CompleteHandoff, ArmOwnerExit,
    TerminalizeHandoff, FinishHandoff, CancelWorker, CleanupOwner,
    FailJoiningTransfer, ProbePromotion, FailPromotedTransfer, WorkerFinished,
    Compensate, IInv, OthersOfDb, OthersOfTw, At, Serving, Booted
<1>2. CASE \/ CreateOwner \/ PersistOwnerSid \/ OwnerNotThere \/ RemoveAiLeg
           \/ ArmOwnerExit \/ CancelWorker \/ CleanupOwner \/ Compensate
  <2>1. UNCHANGED <<row, fin>>
    BY <1>2 DEF CreateOwner, PersistOwnerSid, OwnerNotThere, RemoveAiLeg,
      ArmOwnerExit, CancelWorker, CleanupOwner, Compensate, OthersOfDb, OthersOfTw
  <2>2. HeldClaims' \subseteq HeldClaims
    BY <1>2, <2>1, WorkerStepTakesNone, SameHeld
  <2>3. QED
    BY <1>1, <2>1, <2>2, RowUntouched
<1>3. CASE StartTransfer \/ RegisterTransfer \/ PromoteOwner \/ FailJoiningTransfer
  <2>1. UNCHANGED fin
    BY <1>3 DEF StartTransfer, RegisterTransfer, PromoteOwner, FailJoiningTransfer,
      OthersOfDb
  <2>2. HeldClaims' \subseteq HeldClaims
    BY <1>3, <2>1, WorkerStepTakesNone, SameHeld
  <2>3. \/ UNCHANGED row
        \/ CanClaimJoining(row) /\ row' = ClaimJoining(row)
        \/ CanFailJoining(row) /\ row' = FailJoining(row)
        \/ CanPromoteTransfer(row) /\ row' = PromoteTransfer(row)
    BY <1>3 DEF StartTransfer, RegisterTransfer, PromoteOwner, FailJoiningTransfer,
      Answered, Raised, Interrupted
  <2>4. QED
    BY <1>1, <2>2, <2>3, RowUntouched, JoiningRefines
<1>4. CASE CompleteHandoff
  <2>1. UNCHANGED fin
    BY <1>4 DEF CompleteHandoff, OthersOfDb
  <2>2. CASE UNCHANGED row
    <3>1. WorkerTakesNone
      BY <1>4, <2>2, Types, WorkerFails DEF Row, CompleteHandoff, IInv,
        CanCompleteTransfer, CompleteTransfer, Promoted, Answered, Raised,
        Interrupted, Fails, WorkerAt, WorkerTakesNone
    <3>2. QED
      BY <1>1, <2>1, <2>2, <3>1, SameHeld, RowUntouched
  <2>3. CASE CanCompleteTransfer(row) /\ row' = CompleteTransfer(row)
    <3>1. ClaimOf(row') = HandoffClaim
      BY <2>3, CompleteTakes DEF IInv, Promoted, ClaimOf, HandoffClaim
    <3>2. \A f \in Finishers : Busy(f)' => Busy(f) /\ fin[f].claim = fin'[f].claim
      BY <2>1 DEF Busy
    <3>3. HeldClaims' \subseteq HeldClaims \cup {ClaimOf(row')}
      BY <3>1, <3>2, HeldFrom
    <3>4. QED
      BY <1>1, <2>3, <3>3, CompletionRefines
  <2>4. UNCHANGED row \/ (CanCompleteTransfer(row) /\ row' = CompleteTransfer(row))
    BY <1>4 DEF CompleteHandoff, Answered, Raised, Interrupted
  <2>5. QED
    BY <2>2, <2>3, <2>4
<1>5. CASE TerminalizeHandoff
  <2>1. UNCHANGED row /\ w.pc = "armed" /\ fin \in [Finishers -> Tasks]
    BY <1>5, Types DEF TerminalizeHandoff, At, IInv
  <2>2. \A f \in Finishers : Busy(f)' =>
          \/ Busy(f) /\ fin[f].claim = fin'[f].claim
          \/ fin'[f].claim = HandoffClaim
    BY <1>5, <2>1 DEF TerminalizeHandoff, Busy, HandoffClaim
  <2>3. HeldClaims' \subseteq HeldClaims \cup {}
    BY <2>1, <2>2, HeldFrom
  <2>4. QED
    BY <1>1, <2>1, <2>3, RowUntouched
<1>6. CASE FinishHandoff \/ WorkerFinished
  <2>1. UNCHANGED row /\ fin \in [Finishers -> Tasks]
    BY <1>6, Types DEF FinishHandoff, WorkerFinished, IInv
  <2>2. \A f \in Finishers : Busy(f)' => Busy(f) /\ fin[f].claim = fin'[f].claim
    BY <1>6, <2>1 DEF FinishHandoff, WorkerFinished, Busy, Idle
  <2>3. HeldClaims' \subseteq HeldClaims \cup {}
    BY <1>6, <2>2, HeldFrom, WorkerStepTakesNone DEF WorkerTakesNone
  <2>4. QED
    BY <1>1, <2>1, <2>3, RowUntouched
<1>7. CASE ProbePromotion \/ FailPromotedTransfer
  <2>1. \/ UNCHANGED <<row, fin>>
        \/ \E o \in {"in_progress", "completed"} :
             /\ CanFailPromoted(row, o) /\ row' = FailPromoted(row)
             /\ AdoptRevoked \/ UNCHANGED fin
    BY <1>7 DEF ProbePromotion, FailPromotedTransfer, Answered, Raised
  <2>2. CASE UNCHANGED <<row, fin>>
    BY <1>1, <1>7, <2>2, WorkerStepTakesNone, SameHeld, RowUntouched
  <2>3. ASSUME NEW o \in {"in_progress", "completed"},
               CanFailPromoted(row, o), row' = FailPromoted(row),
               AdoptRevoked \/ UNCHANGED fin
        PROVE  Refining
    <3>1. fin \in [Finishers -> Tasks]
      BY Types DEF IInv
    <3>2. \A f \in Finishers : Busy(f)' =>
            \/ Busy(f) /\ fin[f].claim = fin'[f].claim
            \/ fin'[f].claim = ClaimOf(row')
      BY <2>3, <3>1 DEF AdoptRevoked, Busy
    <3>3. HeldClaims' \subseteq HeldClaims \cup {ClaimOf(row')}
      BY <1>7, <3>2, HeldFrom, WorkerStepTakesNone DEF WorkerTakesNone
    <3>4. QED
      BY <1>1, <2>3, <3>3, RevocationRefines
  <2>4. QED
    BY <2>1, <2>2, <2>3
<1>8. QED
  BY <1>2, <1>3, <1>4, <1>5, <1>6, <1>7 DEF Worker

LEMMA TerminationRefines ==
  ASSUME IInv, NEW f \in DOMAIN ReasonOf, ClaimTerminationBy(f)
  PROVE  Refining
<1> DEFINE new == ClaimTermination(row, ReasonOf[f])
<1>1. /\ f \in Finishers /\ ReasonOf[f] \in OrdinaryReasons
      /\ fin \in [Finishers -> Tasks] /\ w \in Workers
  BY ReasonsOfTerminators, Types DEF IInv
<1>2. Booted /\ Booted'
  BY ReasonsOfTerminators DEF ClaimTerminationBy, Attempts, At, Serving, Booted
<1>3. WorkerTakesNone
  BY <1>1 DEF ClaimTerminationBy, WorkerTakesNone, Workers
<1>4. /\ UNCHANGED row \/ (CanClaimTermination(row) /\ row' = new)
      /\ \A g \in Finishers : Busy(g)' =>
           \/ Busy(g) /\ fin[g].claim = fin'[g].claim
           \/ fin'[g].claim = ClaimOf(new) /\ row' = new
  <2>1. /\ Answer(f, "no").pc \in {"ok", "no", "idle"}
        /\ UNCHANGED row \/ (CanClaimTermination(row) /\ row' = new)
    BY AnswerIsTask DEF ClaimTerminationBy
  <2>2. CASE fin' = [fin EXCEPT ![f] = Answer(f, "no")]
    BY <1>1, <2>1, <2>2 DEF Busy
  <2>3. CASE /\ row' = new
             /\ \E pc \in {"await", "media"} :
                  fin' = [fin EXCEPT ![f] = [pc |-> pc, claim |-> ClaimOf(new), preserve |-> FALSE]]
    BY <1>1, <2>1, <2>3 DEF Busy
  <2>4. QED
    BY <2>2, <2>3 DEF ClaimTerminationBy
<1>5. CASE UNCHANGED row /\ row' # new
  <2>1. HeldClaims' \subseteq HeldClaims \cup {}
    BY <1>3, <1>4, <1>5, HeldFrom DEF WorkerTakesNone
  <2>2. QED
    BY <1>2, <1>5, <2>1, RowUntouched
<1>6. CASE CanClaimTermination(row) /\ row' = new
  <2>1. HeldClaims' \subseteq HeldClaims \cup {ClaimOf(row')}
    BY <1>3, <1>4, <1>6, HeldFrom DEF WorkerTakesNone
  <2>2. QED
    BY <1>1, <1>2, <1>6, <2>1, ClaimRefines
<1>7. CASE UNCHANGED row /\ ~CanClaimTermination(row)
  <2>1. fin' = [fin EXCEPT ![f] = Answer(f, "no")]
    BY <1>7 DEF ClaimTerminationBy
  <2>2. \A g \in Finishers : Busy(g)' => Busy(g) /\ fin[g].claim = fin'[g].claim
    BY <1>1, <2>1, AnswerIsTask DEF Busy
  <2>3. HeldClaims' \subseteq HeldClaims \cup {}
    BY <1>3, <2>2, HeldFrom DEF WorkerTakesNone
  <2>4. QED
    BY <1>2, <1>7, <2>3, RowUntouched
<1>8. QED
  BY <1>4, <1>5, <1>6, <1>7

LEMMA FinisherRefines ==
  ASSUME IInv, NEW f \in Finishers, Finisher(f)
  PROVE  Refining
<1>1. fin \in [Finishers -> Tasks] /\ Busy(f)
  BY Types DEF IInv, Finisher, AwaitWorker, TeardownMedia, CommitTerminal,
    RereadTerminal, Busy
<1>2. Booted /\ Booted' /\ UNCHANGED w
  BY DEF Finisher, AwaitWorker, TeardownMedia, CommitTerminal, RereadTerminal, IInv,
    TasksInPlace, Booted
<1>3. \A g \in Finishers : Busy(g)' =>
        \E x \in Finishers : Busy(x) /\ fin[x].claim = fin'[g].claim
  <2>1. CASE GivesUp(f)
    BY <1>1, <2>1 DEF GivesUp, HoldsAnswer, Busy
  <2>2. CASE Answers(f)
    BY <2>2 DEF Answers, HoldsAnswer, TaskMoves, Busy
  <2>3. CASE TaskAt(f, "media") \/ TaskAt(f, "commit") \/ TaskAt(f, "reread")
    BY <1>1, <2>3 DEF TaskAt, TaskMoves, Busy
  <2>4. CASE UNCHANGED fin
    BY <1>1, <2>4 DEF Busy
  <2>5. CASE AwaitWorker(f)
    BY <2>3, <2>5, TaskGoes DEF AwaitWorker, IInv, FinPcs
  <2>6. CASE TeardownMedia(f)
    <3>1. CASE fin' = [fin EXCEPT ![f].pc = "commit"]
      BY <2>3, <3>1, TaskGoes DEF IInv, FinPcs
    <3>2. CASE f = "retry" /\ fin' = [fin EXCEPT ![f] = Idle]
      BY <2>2, <3>2, TaskSet, IdleIsTask DEF IInv, Answers, HoldsAnswer
    <3>3. CASE /\ f # "retry"
               /\ fin' = ScheduleRetry([fin EXCEPT ![f] = Answer(f, "no")], fin[f].claim)
      BY <2>1, <3>3, TaskGivesUp DEF IInv
    <3>4. QED
      BY <2>4, <2>6, <3>1, <3>2, <3>3 DEF TeardownMedia
  <2>7. CASE CommitTerminal(f)
    <3>1. \/ fin' = [fin EXCEPT ![f] = Answer(f, "ok")]
          \/ fin' = [fin EXCEPT ![f] = [@ EXCEPT !.pc = "reread"]]
          \/ fin' = [fin EXCEPT ![f].pc = "reread"]
      BY <2>7 DEF CommitTerminal
    <3>2. QED
      BY <2>2, <2>3, <3>1, TaskAnswers, TaskGoes DEF IInv, FinPcs
  <2>8. CASE RereadTerminal(f)
    <3>1. CASE fin' = [fin EXCEPT ![f] = Answer(f, "ok")] \/ fin' = [fin EXCEPT ![f] = Answer(f, "no")]
      BY <2>2, <3>1, TaskAnswers DEF IInv
    <3>2. CASE \/ fin' = [fin EXCEPT ![f].pc = "media"]
               \/ fin' = [fin EXCEPT ![f] = [@ EXCEPT !.pc = "media"]]
      BY <2>3, <3>2, TaskGoes DEF IInv, FinPcs
    <3>3. CASE /\ f # "retry"
               /\ fin' = ScheduleRetry([fin EXCEPT ![f] = Answer(f, "no")], fin[f].claim)
      BY <2>1, <3>3, TaskGivesUp DEF IInv
    <3>4. QED
      BY <2>8, <3>1, <3>2, <3>3 DEF RereadTerminal
  <2>9. QED
    BY <2>5, <2>6, <2>7, <2>8 DEF Finisher
<1>4. HeldClaims' \subseteq HeldClaims \cup {}
  BY <1>2, <1>3, HeldFrom
<1>5. CASE UNCHANGED row
  BY <1>2, <1>4, <1>5, RowUntouched
<1>6. CASE /\ fin[f].pc = "commit"
           /\ CanFinishTermination(row, fin[f].claim.reason, fin[f].claim.outcome)
           /\ row' = FinishTermination(row, fin[f].claim.reason)
  <2>1. fin[f].claim.reason # "none"
    BY <1>6 DEF IInv, ClaimsInKind
  <2>2. fin[f].claim \in HeldClaims
    BY <1>1, <2>1 DEF HeldClaims, NoClaim
  <2>3. QED
    BY <1>2, <1>4, <1>6, <2>2, EndRefines
<1>7. QED
  BY <1>5, <1>6 DEF Finisher, AwaitWorker, TeardownMedia, CommitTerminal,
    RereadTerminal, Answered, Raised

LEMMA ProcessRefines ==
  ASSUME IInv, Background \/ Process
  PROVE  Refining
<1>1. CASE Exit \/ Crash
  BY <1>1, GoneRefines DEF Exit, Crash
<1>2. CASE RetryStops \/ CompensationRetry \/ Stop \/ Drain \/ Restart
  <2>1. UNCHANGED row /\ fin \in [Finishers -> Tasks] /\ w \in Workers
    BY <1>2, Types DEF RetryStops, CompensationRetry, Stop, Drain, Restart, IInv
  <2>2. Booted' <=> Booted
    BY <1>2 DEF RetryStops, CompensationRetry, Stop, Drain, Restart, Booted
  <2>3. WorkerTakesNone
    BY <1>2, <2>1 DEF RetryStops, CompensationRetry, Stop, Drain, Restart,
      WorkerTakesNone, Workers
  <2>4. UNCHANGED fin \/ fin' = [fin EXCEPT !["retry"] = Idle]
    BY <1>2 DEF RetryStops, CompensationRetry, Stop, Drain, Restart
  <2>5. \A f \in Finishers : Busy(f)' => Busy(f) /\ fin[f].claim = fin'[f].claim
    BY <2>1, <2>4 DEF Busy, Idle
  <2>6. HeldClaims' \subseteq HeldClaims \cup {}
    BY <2>3, <2>5, HeldFrom DEF WorkerTakesNone
  <2>7. QED
    BY <2>1, <2>2, <2>6, RowUntouched
<1>3. QED
  BY <1>1, <1>2 DEF Background, Process

LEMMA BootRefines ==
  ASSUME IInv, Recovery
  PROVE  Refining
<1>1. fin \in [Finishers -> Tasks]
  BY Types DEF IInv
<1>2. CASE RecoverOwnerExit \/ RecoverCompensate \/ FinishRecovery
  <2>1. UNCHANGED <<row, w>> /\ Booted /\ Booted'
    BY <1>2, FinisherNames DEF RecoverOwnerExit, RecoverCompensate, FinishRecovery,
      IInv, TasksInPlace, Booted
  <2>2. \A f \in Finishers : Busy(f)' =>
          Busy(f) /\ fin[f].claim = fin'[f].claim
    BY <1>1, <1>2 DEF RecoverOwnerExit, RecoverCompensate, FinishRecovery, RecoverTo,
      Busy, Idle
  <2>3. HeldClaims' \subseteq HeldClaims \cup {}
    BY <2>1, <2>2, HeldFrom
  <2>4. QED
    BY <2>1, <2>3, RowUntouched
<1>3. CASE RecoverUnarmed
  <2>1. UNCHANGED w /\ Booted /\ Booted'
    BY <1>3 DEF RecoverUnarmed, IInv, TasksInPlace, Booted
  <2>2. /\ CanFailPromoted(row, "completed")
        /\ UNCHANGED row \/ row' = FailPromoted(row)
    BY <1>3, FinisherNames DEF RecoverUnarmed, IInv, HandoffHeld, CanFailPromoted,
      Answered, Raised
  <2>3. \A f \in Finishers : Busy(f)' =>
          \/ Busy(f) /\ fin[f].claim = fin'[f].claim
          \/ fin'[f].claim = NoClaim
          \/ fin'[f].claim = ClaimOf(row') /\ row' = FailPromoted(row)
    BY <1>1, <1>3 DEF RecoverUnarmed, RecoverTo, Busy, Answered
  <2>4. CASE row' = FailPromoted(row)
    <3>1. HeldClaims' \subseteq HeldClaims \cup {ClaimOf(row')}
      BY <2>1, <2>3, HeldFrom
    <3>2. QED
      BY <2>1, <2>2, <2>4, <3>1, RevocationRefines
  <2>5. CASE UNCHANGED row /\ row' # FailPromoted(row)
    <3>1. HeldClaims' \subseteq HeldClaims \cup {}
      BY <2>1, <2>3, <2>5, HeldFrom
    <3>2. QED
      BY <2>1, <2>5, <3>1, RowUntouched
  <2>6. QED
    BY <2>2, <2>4, <2>5
<1>4. CASE BootFails
  BY <1>4, GoneRefines DEF BootFails
<1>5. QED
  BY <1>2, <1>3, <1>4, RecoveryRefines DEF Recovery

LEMMA StepRefines ==
  ASSUME IInv, [Next]_vars
  PROVE  Refining
<1>1. CASE \/ CalleeLeaves \/ OwnerAnswers \/ OwnerLeaves \/ LateOwnerLeg
           \/ OwnerCallback \/ UNCHANGED vars
  <2>1. UNCHANGED <<row, w, fin, svc>>
    BY <1>1 DEF CalleeLeaves, OwnerAnswers, OwnerLeaves, LateOwnerLeg, OwnerCallback,
      vars
  <2>2. HeldClaims' \subseteq HeldClaims /\ (Booted' <=> Booted)
    BY <2>1, SameHeld DEF WorkerTakesNone, Booted
  <2>3. QED
    BY <2>1, <2>2, RowUntouched
<1>2. CASE SetupProgress
  BY <1>2, SetupRefines
<1>3. QED
  BY <1>1, <1>2, TransferRefines, TerminationRefines, FinisherRefines, ProcessRefines,
    BootRefines DEF Next, World

(* The worker, the terminations and their retries, shutdown and recovery     *)
(* write the call's row only as CallRow allows, whatever fails.              *)
THEOREM TransferRefinesCallRow == Spec => RefinesCallRow
<1>1. Init => Durable!Init
  BY DEF Init, Durable!Init, Durable!NewRow, NewRow, HeldClaims, IdleFin, Idle, Busy,
         IdleWorker
<1>2. IInv /\ [Next]_vars
        => [Durable!Next]_(Durable!vars)
  BY StepRefines DEF Refining
<1>3. QED
  BY <1>1, <1>2, IInvAlways, PTL DEF Spec, RefinesCallRow, Durable!Spec
=============================================================================
