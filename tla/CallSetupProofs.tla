-------------------------- MODULE CallSetupProofs --------------------------
(***************************************************************************)
(* Set-up leaves no leg behind, misses no gate and is always supervised,   *)
(* for every number of callbacks, faults and retries, and it writes the    *)
(* call's row only as CallRow allows.                                      *)
(***************************************************************************)
EXTENDS CallSetup, TLAPS

-----------------------------------------------------------------------------
(* The inductive invariant.                                                  *)

Closed == row.state \in ClosedStates
Lapsed == Closed \/ faults.db
Over   == Lapsed \/ svc # "up"

(* A teardown and a recovery are of a claimed call, and a claimed call is    *)
(* closed; a transfer has not begun.                                         *)
RowInStep ==
  /\ row.outcome = "none"
  /\ row.claimed <=> Closed
  /\ fin.pc # "idle" => Closed /\ svc \notin {"down", "booting"}
  /\ svc = "recovering" => Closed

(* The start request waits for its create; cancelled, it leaves a create     *)
(* that will not be adopted.  A create that came to nothing ended the call.  *)
AgentCreate ==
  /\ start = "wait" => op["agent"].pc # "none"
  /\ start = "done" => /\ op["agent"].pc \notin {"creating", "checking", "adopted"}
                       /\ op["agent"].pc = "committing" => op["agent"].cancel
  /\ op["agent"].pc \in {"null", "raised"} => Over

(* The callee is dialled once, by the opener, who waits for it.              *)
CalleeCreate ==
  /\ leg["callee"] # "none" \/ op["callee"].pc # "none" => row.dialed
  /\ op["callee"].pc # "none" => h["opener"] = "dialling" \/ Over
  /\ op["callee"].pc = "null" => Over

(* The stream is started once, by the handler that won the activation.       *)
StreamCreate ==
  /\ op["stream"].pc = "adopted" => sid["stream"]
  /\ op["stream"].pc = "null" => Lapsed
  /\ \A x \in Handlers : h[x] = "activate" => sid["stream"] \/ Lapsed
  /\ \A x \in Handlers :
       h[x] = "load" => /\ op["stream"].pc = "none" /\ leg["stream"] = "none"
                        /\ \A y \in Handlers : h[y] = "load" => x = y
  /\ (\/ op["stream"].pc # "none" \/ leg["stream"] # "none"
      \/ \E x \in Handlers : h[x] = "load")
     => row.state \notin {"prewarming", "ready_to_activate"}

(* A create is the first of its leg, and one that has given its leg up has   *)
(* removed it, or left it to the retries, or never knew it.                  *)
GivenUp(l) == sweep[l].left > 0 \/ sweep[l].gaveUp \/ l \in stray

LegsKnown ==
  \A l \in Legs :
    /\ op[l].pc \in {"creating", "settling"} => leg[l] # "live"
    /\ op[l].pc \in {"failing", "terminalize"} /\ leg[l] = "live" => GivenUp(l)

IInv == /\ TypeOK
        /\ RowInStep
        /\ AgentCreate /\ SetupSupervised
        /\ CalleeCreate /\ GateNotMissed
        /\ StreamCreate /\ ActiveIsMonitored
        /\ LegsKnown /\ NoOrphanLeg

-----------------------------------------------------------------------------
(* What a step does to one variable.                                         *)

OpStates  == [pc : OpPcs, cancel : BOOLEAN, result : {"null", "raised"}]
LegStates == {"none", "live", "gone"}
Sweeps    == [left : 0..MaxRetries, gaveUp : BOOLEAN]
Fins      == [pc : {"idle", "media", "commit"}, claim : Claim]
Budgets   == [left : 0..MaxFaults, db : BOOLEAN]

LEMMA Types ==
  ASSUME TypeOK
  PROVE  /\ row \in Row /\ op \in [Legs -> OpStates] /\ leg \in [Legs -> LegStates]
         /\ sweep \in [Legs -> Sweeps] /\ h \in [Handlers -> HandlerPcs]
         /\ fin \in Fins /\ faults \in Budgets /\ sid \in [Legs -> BOOLEAN]
  BY DEF TypeOK, OpStates, LegStates, Sweeps, Fins, Budgets

LEMMA OpenerHandles == "opener" \in Handlers /\ "opener" \notin Answers
  BY SetupBounds DEF Handlers

LEMMA InSetup == DOMAIN NextSetupState = {"prewarming", "ready_to_activate", "activating"}
  BY DEF NextSetupState, EligibleStates

OpAt(l, pcs) ==
  /\ op' \in [Legs -> OpStates] /\ op'[l].pc \in pcs
  /\ \A m \in Legs : m # l => op'[m] = op[m]

LegAt(l, s) ==
  /\ leg' \in [Legs -> LegStates] /\ leg'[l] = s
  /\ \A m \in Legs : m # l => leg'[m] = leg[m]

LegsDrop ==
  /\ leg' \in [Legs -> LegStates]
  /\ \A m \in Legs : leg'[m] = leg[m] \/ (leg[m] = "live" /\ leg'[m] = "gone")

HAt(x, pcs) ==
  /\ h' \in [Handlers -> HandlerPcs] /\ h'[x] \in pcs
  /\ \A y \in Handlers : y # x => h'[y] = h[y]

Spends     == faults' \in Budgets /\ (faults.db => faults'.db)
SpendsOnDb == faults' \in Budgets /\ faults'.db

LEMMA FaultsSpend ==
  ASSUME TypeOK
  PROVE  /\ UNCHANGED faults => Spends
         /\ NetFault => Spends
         /\ Death => Spends
         /\ DbFault => SpendsOnDb
         /\ TwoDbFaults => SpendsOnDb
<1>1. faults \in Budgets /\ MaxFaults \in Nat
  BY Types, SetupBounds
<1>2. UNCHANGED faults => Spends
  BY <1>1 DEF Spends
<1>3. NetFault => Spends
  BY <1>1 DEF Spends, Budgets, NetFault
<1>4. Death => Spends
  BY <1>1 DEF Spends, Budgets, Death
<1>5. DbFault => SpendsOnDb
  BY <1>1 DEF SpendsOnDb, Budgets, DbFault
<1>6. TwoDbFaults => SpendsOnDb
  BY <1>1 DEF SpendsOnDb, Budgets, TwoDbFaults
<1>7. QED
  BY <1>2, <1>3, <1>4, <1>5, <1>6

LEMMA OpGoes ==
  ASSUME TypeOK, NEW l \in Legs, NEW pc \in OpPcs, OpGoto(l, pc)
  PROVE  OpAt(l, {pc})
<1>1. op \in [Legs -> OpStates]
  BY Types
<1>2. QED
  BY <1>1 DEF OpGoto, OpAt, OpStates

LEMMA OpReturns ==
  ASSUME TypeOK, NEW l \in Legs, NEW res \in OpPcs, OpReturn(l, res)
  PROVE  OpAt(l, {res})
<1>1. op \in [Legs -> OpStates]
  BY Types
<1>2. [IdleOp EXCEPT !.pc = res] \in OpStates /\ [IdleOp EXCEPT !.pc = res].pc = res
  BY DEF IdleOp, OpStates
<1>3. QED
  BY <1>1, <1>2 DEF OpReturn, OpAt

LEMMA OpIsTaken ==
  ASSUME TypeOK, NEW l \in Legs, OpTaken(l)
  PROVE  OpAt(l, {"none"})
<1>1. op \in [Legs -> OpStates]
  BY Types
<1>2. IdleOp \in OpStates /\ IdleOp.pc = "none"
  BY DEF IdleOp, OpStates, OpPcs
<1>3. QED
  BY <1>1, <1>2 DEF OpTaken, OpAt

LEMMA OpStarts ==
  ASSUME TypeOK, NEW l \in Legs, op' = [op EXCEPT ![l] = NewOp]
  PROVE  OpAt(l, {"creating"})
<1>1. op \in [Legs -> OpStates]
  BY Types
<1>2. NewOp \in OpStates /\ NewOp.pc = "creating"
  BY DEF NewOp, IdleOp, OpStates, OpPcs
<1>3. QED
  BY <1>1, <1>2 DEF OpAt

LEMMA OpAnswers ==
  ASSUME TypeOK, NEW l \in Legs, NEW res \in {"null", "raised"}, NEW pc \in OpPcs,
         op' = [op EXCEPT ![l].result = res, ![l].pc = pc]
  PROVE  OpAt(l, {pc})
<1>1. op \in [Legs -> OpStates] /\ op[l] \in OpStates
  BY Types
<1>2. op' = [op EXCEPT ![l] = [op[l] EXCEPT !.result = res, !.pc = pc]]
  BY <1>1
<1>3. /\ [op[l] EXCEPT !.result = res, !.pc = pc] \in OpStates
      /\ [op[l] EXCEPT !.result = res, !.pc = pc].pc = pc
  BY <1>1 DEF OpStates
<1>4. QED
  BY <1>1, <1>2, <1>3 DEF OpAt

LEMMA OpAbandons ==
  ASSUME TypeOK, NEW l \in Legs, NEW res \in {"null", "raised"}, Abandon(l, res)
  PROVE  OpAt(l, {"persist"})
<1>1. op \in [Legs -> OpStates] /\ op[l] \in OpStates
  BY Types
<1>2. op' = [op EXCEPT ![l] = [op[l] EXCEPT !.pc = "persist", !.result = res]]
  BY <1>1 DEF Abandon
<1>3. /\ [op[l] EXCEPT !.pc = "persist", !.result = res] \in OpStates
      /\ [op[l] EXCEPT !.pc = "persist", !.result = res].pc = "persist"
  BY <1>1 DEF OpStates, OpPcs
<1>4. QED
  BY <1>1, <1>2, <1>3 DEF OpAt

(* A cancelled create either waits for its answer, or gives its leg up.      *)
Cancels(l) ==
  /\ OpAt(l, OpPcs)
  /\ CASE op[l].pc = "creating"                -> op'[l].pc = "settling"
       [] op[l].pc \in {"checking", "adopted"} -> op'[l].pc = "persist"
       [] op[l].pc = "committing"              -> op'[l].pc = "committing" /\ op'[l].cancel
       [] OTHER                                -> op'[l] = op[l]

LEMMA CancelledCreate ==
  ASSUME TypeOK, NEW l \in Legs, Cancelled(l)
  PROVE  Cancels(l)
<1>1. op \in [Legs -> OpStates]
  BY Types
<1>2. CASE op[l].pc = "creating"
  <2>1. OpGoto(l, "settling")
    BY <1>2 DEF Cancelled
  <2>2. OpAt(l, {"settling"})
    BY <2>1, OpGoes DEF OpPcs
  <2>3. QED
    BY <1>2, <2>2 DEF Cancels, OpAt, OpPcs
<1>3. CASE op[l].pc \in {"checking", "adopted"}
  <2>1. Abandon(l, "raised")
    BY <1>3 DEF Cancelled
  <2>2. OpAt(l, {"persist"})
    BY <2>1, OpAbandons
  <2>3. QED
    BY <1>3, <2>2 DEF Cancels, OpAt, OpPcs
<1>4. CASE op[l].pc = "committing"
  <2>1. op' = [op EXCEPT ![l].cancel = TRUE]
    BY <1>4 DEF Cancelled
  <2>2. OpAt(l, {"committing"}) /\ op'[l].cancel
    BY <1>1, <1>4, <2>1 DEF OpAt, OpStates, OpPcs
  <2>3. QED
    BY <1>4, <2>2 DEF Cancels, OpAt, OpPcs
<1>5. CASE op[l].pc \notin {"creating", "checking", "adopted", "committing"}
  <2>1. op' = op
    BY <1>5 DEF Cancelled
  <2>2. QED
    BY <1>1, <1>5, <2>1 DEF Cancels, OpAt, OpStates
<1>6. QED
  BY <1>2, <1>3, <1>4, <1>5

LEMMA RemovedDrops ==
  ASSUME TypeOK, NEW l \in Legs, leg' = Removed(l)
  PROVE  LegsDrop /\ leg'[l] # "live"
<1>1. \A m \in Legs : leg[m] \in LegStates
  BY Types
<1>2. leg' \in [Legs -> LegStates]
  BY <1>1 DEF Removed, LegStates
<1>3. /\ \A m \in Legs : leg'[m] = leg[m] \/ (leg[m] = "live" /\ leg'[m] = "gone")
      /\ leg'[l] # "live"
  BY DEF Removed
<1>4. QED
  BY <1>2, <1>3 DEF LegsDrop

LEMMA DroppedDrops ==
  ASSUME TypeOK, leg' = Dropped
  PROVE  LegsDrop /\ \A l \in Legs : leg'[l] # "live"
<1>1. \A m \in Legs : leg[m] \in LegStates
  BY Types
<1>2. leg' \in [Legs -> LegStates]
  BY <1>1 DEF Dropped, LegStates
<1>3. \A m \in Legs : /\ leg'[m] = leg[m] \/ (leg[m] = "live" /\ leg'[m] = "gone")
                    /\ leg'[m] # "live"
  BY DEF Dropped
<1>4. QED
  BY <1>2, <1>3 DEF LegsDrop

LEMMA HandlerGoes ==
  ASSUME TypeOK, NEW x \in Handlers, NEW pc \in HandlerPcs, Goto(x, pc)
  PROVE  HAt(x, {pc})
<1>1. h \in [Handlers -> HandlerPcs]
  BY Types
<1>2. QED
  BY <1>1 DEF Goto, HAt

LEMMA HandlerBreaks ==
  ASSUME TypeOK, NEW x \in Handlers, Breaks(x)
  PROVE  HAt(x, {"done", "fatal"}) /\ (x # "opener" => h'[x] = "done")
<1>1. h \in [Handlers -> HandlerPcs]
  BY Types
<1>2. QED
  BY <1>1 DEF Breaks, Goto, HAt, HandlerPcs

-----------------------------------------------------------------------------
(* What a step does to the row.                                              *)

RowLeft == row' \in Row /\ row'.outcome = "none" /\ (row'.claimed <=> row'.state \in ClosedStates)

(* A flag is set, or a promotion moves an open call on.                      *)
Flags ==
  /\ RowLeft /\ row'.state = row.state
  /\ row.joined => row'.joined
  /\ row.dialed => row'.dialed

Promotes(from) ==
  /\ RowLeft /\ row.state = from /\ row'.state = NextSetupState[from]
  /\ row'.joined = row.joined /\ row'.dialed = row.dialed

(* A claim closes the row and hands over the teardown; or nothing is left to *)
(* claim, or the service stops, or the statement failed.                     *)
Claims ==
  /\ RowLeft /\ ~Closed /\ row'.state = "terminating"
  /\ row'.joined = row.joined /\ row'.dialed = row.dialed

Ends(bypass) ==
  /\ Spends /\ fin' \in Fins
  /\ \/ UNCHANGED <<row, fin>>
     \/ Claims /\ fin'.pc = "media"
     \/ Claims /\ fin' = fin
  /\ Closed' \/ faults'.db \/ (Stopping /\ ~bypass)

LEMMA ClaimCloses ==
  ASSUME TypeOK, RowInStep, CanClaimTermination(row), NEW reason \in OrdinaryReasons,
         row' = ClaimTermination(row, reason)
  PROVE  Claims
<1>1. row \in Row /\ ~Closed
  BY Types DEF RowInStep, CanClaimTermination
<1>2. row' \in Row /\ row'.state = "terminating" /\ row'.claimed
  BY <1>1 DEF ClaimTermination, Row, CallStates, ClosedStates, Outcomes
<1>3. row'.outcome = "none" /\ row'.joined = row.joined /\ row'.dialed = row.dialed
  BY <1>1 DEF ClaimTermination, Row, RowInStep
<1>4. QED
  BY <1>1, <1>2, <1>3 DEF Claims, RowLeft, ClosedStates

LEMMA CannotClaim ==
  ASSUME TypeOK, RowInStep, ~CanClaimTermination(row)
  PROVE  Closed
  BY DEF RowInStep, CanClaimTermination, Closed, ClosedStates

LEMMA TerminateEnds ==
  ASSUME TypeOK, RowInStep, NEW reason \in OrdinaryReasons, NEW bypass \in BOOLEAN,
         Terminate(reason, bypass)
  PROVE  Ends(bypass)
<1>1. fin \in Fins /\ row \in Row
  BY Types
<1>2. CASE (Stopping /\ ~bypass) \/ ~CanClaimTermination(row)
  <2>1. UNCHANGED <<row, fin, faults>>
    BY <1>2 DEF Terminate
  <2>2. Closed \/ (Stopping /\ ~bypass)
    BY <1>2, CannotClaim
  <2>3. QED
    BY <1>1, <2>1, <2>2, FaultsSpend DEF Ends, Closed
<1>3. CASE ~((Stopping /\ ~bypass) \/ ~CanClaimTermination(row))
  <2>1. /\ row' = ClaimTermination(row, reason) /\ fin' = Teardown(row')
        /\ UNCHANGED faults \/ DbFault
    BY <1>3 DEF Terminate
  <2>2. Claims
    BY <1>3, <2>1, ClaimCloses
  <2>3. fin' \in Fins /\ fin'.pc = "media"
    BY <2>1, <2>2 DEF Teardown, ClaimOf, Fins, Claim, Claims, RowLeft, Row
  <2>4. Spends
    BY <2>1, FaultsSpend DEF Spends, SpendsOnDb
  <2>5. QED
    BY <2>2, <2>3, <2>4 DEF Ends, Claims, Closed, ClosedStates
<1>4. QED
  BY <1>2, <1>3

LEMMA TerminateRaisesEnds ==
  ASSUME TypeOK, RowInStep, NEW reason \in OrdinaryReasons, NEW bypass \in BOOLEAN,
         TerminateRaises(reason, bypass)
  PROVE  Ends(bypass) /\ SpendsOnDb
<1>1. fin' \in Fins /\ fin' = fin
  BY Types DEF TerminateRaises
<1>2. SpendsOnDb
  BY FaultsSpend DEF TerminateRaises
<1>3. row' = row \/ Claims
  BY ClaimCloses DEF TerminateRaises
<1>4. QED
  BY <1>1, <1>2, <1>3 DEF Ends, Spends, SpendsOnDb

LEMMA EndsBy ==
  ASSUME TypeOK, RowInStep, NEW reason \in {SetupFailed, "setup_deadline"},
         NEW bypass \in BOOLEAN,
         Terminate(reason, bypass) \/ TerminateRaises(reason, bypass)
  PROVE  Ends(bypass)
<1>1. reason \in OrdinaryReasons
  BY SetupBounds DEF SetupFailed
<1>2. QED
  BY <1>1, TerminateEnds, TerminateRaisesEnds

LEMMA JoinSets ==
  ASSUME TypeOK, RowInStep, row' = row \/ row' = SetJoined(row)
  PROVE  Flags
<1>1. row \in Row
  BY Types
<1>2. QED
  BY <1>1 DEF Flags, RowLeft, RowInStep, Closed, SetJoined, Row

LEMMA DialSets ==
  ASSUME TypeOK, RowInStep, row' = row \/ row' = ClaimDial(row)
  PROVE  Flags /\ (row' = ClaimDial(row) => row'.dialed)
<1>1. row \in Row
  BY Types
<1>2. QED
  BY <1>1 DEF Flags, RowLeft, RowInStep, Closed, ClaimDial, Row

LEMMA PromoteMoves ==
  ASSUME TypeOK, RowInStep, NEW from \in {"prewarming", "ready_to_activate", "activating"},
         CanPromote(row, from), row' = Promote(row, from)
  PROVE  Promotes(from)
<1>1. row \in Row /\ row.state = from
  BY Types DEF CanPromote
<1>2. NextSetupState[from] \in {"ready_to_activate", "activating", "active"}
  BY DEF NextSetupState, EligibleStates
<1>3. row' \in Row /\ row'.state = NextSetupState[from]
  BY <1>1, <1>2 DEF Promote, Row, CallStates, EligibleStates
<1>4. /\ row'.outcome = "none" /\ row'.claimed = row.claimed
      /\ row'.joined = row.joined /\ row'.dialed = row.dialed
  BY <1>1 DEF Promote, Row, RowInStep
<1>5. QED
  BY <1>1, <1>2, <1>3, <1>4 DEF Promotes, RowLeft, RowInStep, Closed, ClosedStates,
    TerminalStates

LEMMA FinishEnds ==
  ASSUME TypeOK, RowInStep, fin.pc = "commit", CommitTerminal
  PROVE  /\ RowLeft /\ Closed /\ row'.state \in TerminalStates
         /\ row'.joined = row.joined /\ row'.dialed = row.dialed
<1>1. /\ row \in Row /\ row.claimed /\ row.state = "terminating" /\ row.outcome = "none"
      /\ row' = [row EXCEPT !.state = ClassifyTerminalState(fin.claim.reason)]
  BY Types DEF CommitTerminal, CanFinishTermination, FinishTermination, RowInStep
<1>2. ClassifyTerminalState(fin.claim.reason) \in TerminalStates
  BY DEF ClassifyTerminalState, TerminalStates
<1>3. row' \in Row /\ row'.state \in TerminalStates /\ row'.claimed /\ row'.outcome = "none"
  BY <1>1, <1>2 DEF Row, CallStates, ClosedStates
<1>4. QED
  BY <1>1, <1>3 DEF RowLeft, Closed, ClosedStates

LEMMA RecoveryClaims ==
  ASSUME TypeOK, RowInStep, CanClaimRecovery(row, row.outcome),
         row' = ClaimRecovery(row, row.outcome)
  PROVE  /\ RowLeft /\ row'.state = "terminating" /\ row.state \notin TerminalStates
         /\ row'.joined = row.joined /\ row'.dialed = row.dialed
<1>1. row \in Row /\ row.outcome = "none" /\ row.state \notin TerminalStates
  BY Types DEF RowInStep, CanClaimRecovery
<1>2. row' \in Row /\ row'.state = "terminating" /\ row'.claimed
  BY <1>1 DEF ClaimRecovery, Row, CallStates, ClosedStates, Outcomes, SpecialReasons
<1>3. row'.outcome = "none" /\ row'.joined = row.joined /\ row'.dialed = row.dialed
  BY <1>1 DEF ClaimRecovery, Row
<1>4. QED
  BY <1>1, <1>2, <1>3 DEF RowLeft, ClosedStates

(* Recovery leaves the call closed and in the hands of a teardown, unless    *)
(* the boot fails.                                                           *)
LEMMA RecoveryCloses ==
  ASSUME TypeOK, RowInStep, RecoverCall
  PROVE  /\ svc = "booting" /\ svc' \in {"recovering", "stopping"}
         /\ fin' \in Fins
         /\ RowLeft /\ row'.joined = row.joined /\ row'.dialed = row.dialed
         /\ row' = row \/ (row.state \notin TerminalStates /\ row'.state = "terminating")
         /\ svc' = "recovering" => Closed'
         /\ fin'.pc = "idle" \/ (fin'.pc = "media" /\ Closed')
<1>1. row \in Row /\ fin \in Fins /\ svc = "booting" /\ fin.pc = "idle"
  BY Types DEF RecoverCall, RowInStep, Fins
<1>2. UNCHANGED row => RowLeft
  BY <1>1 DEF RowInStep, RowLeft, Closed
<1>3. CASE /\ CanClaimRecovery(row, row.outcome) /\ row' = ClaimRecovery(row, row.outcome)
           /\ svc' = "recovering" /\ fin' = Teardown(row')
  <2>1. fin' \in Fins /\ fin'.pc = "media"
    BY <1>3, RecoveryClaims DEF Teardown, ClaimOf, Fins, Claim, RowLeft, Row
  <2>2. QED
    BY <1>1, <1>3, <2>1, RecoveryClaims DEF Closed, ClosedStates
<1>4. CASE /\ ~CanClaimRecovery(row, row.outcome) /\ UNCHANGED row
           /\ svc' = "recovering" /\ fin' = IdleFin
  <2>1. fin' \in Fins /\ fin'.pc = "idle"
    BY <1>4 DEF IdleFin, NoClaim, Fins, Claim, SpecialReasons, Outcomes
  <2>2. Closed'
    BY <1>4 DEF CanClaimRecovery, Closed, ClosedStates
  <2>3. QED
    BY <1>1, <1>2, <1>4, <2>1, <2>2
<1>5. CASE /\ CanClaimRecovery(row, row.outcome) /\ row' = ClaimRecovery(row, row.outcome)
           /\ svc' = "stopping" /\ UNCHANGED fin
  BY <1>1, <1>5, RecoveryClaims
<1>6. CASE svc' = "stopping" /\ UNCHANGED <<row, fin>>
  BY <1>1, <1>2, <1>6
<1>7. QED
  BY <1>3, <1>4, <1>5, <1>6 DEF RecoverCall, Answered, Raised

-----------------------------------------------------------------------------
(* Every step keeps the invariant.                                           *)

PromoteGate(x)   == PromoteCall(x, "promote", "prewarming", "claim")
PromoteClaim(x)  == PromoteCall(x, "claim", "ready_to_activate", "load")
PromoteActive(x) == PromoteCall(x, "activate", "activating", "unmute")

LEMMA CreateLegStep ==
  ASSUME IInv, NEW l \in Legs, CreateLeg(l)
  PROVE  IInv'
<1>1. /\ Serving
      /\ UNCHANGED <<row, session, sid, sweep, start, h, snap, unmuted, deadline,
                     fin, svc>>
  BY DEF CreateLeg
<1>2. /\ op[l].pc \in {"creating", "settling"}
      /\ IF op[l].pc = "settling" THEN OpAt(l, {"persist", "terminalize"})
           ELSE OpAt(l, IF l \in TerminateOnFailure THEN {"checking", "failing"} ELSE {"checking", "raised"})
  BY OpAnswers, OpAbandons, OpGoes DEF IInv, CreateLeg, OpPcs, OpAt
<1>3. /\ stray' \subseteq Legs /\ stray \subseteq stray'
      /\ \/ LegAt(l, "live") /\ (op'[l].pc \in {"persist", "checking"} \/ l \in stray')
         \/ UNCHANGED leg
  <2>1. leg \in [Legs -> LegStates] /\ op \in [Legs -> OpStates] /\ stray \subseteq Legs
    BY Types DEF IInv, TypeOK
  <2>2. leg' = [leg EXCEPT ![l] = "live"] => LegAt(l, "live")
    BY <2>1 DEF LegAt, LegStates
  <2>3. CASE /\ leg' = [leg EXCEPT ![l] = "live"] /\ UNCHANGED stray
             /\ Abandon(l, "raised") \/ OpGoto(l, "checking")
    <3>1. OpAt(l, {"persist"}) \/ OpAt(l, {"checking"})
      BY <2>3, OpAbandons, OpGoes DEF IInv, OpPcs
    <3>2. QED
      BY <2>1, <2>2, <2>3, <3>1 DEF OpAt
  <2>4. CASE leg' = leg /\ UNCHANGED stray
    BY <2>1, <2>4
  <2>5. CASE leg' = [leg EXCEPT ![l] = "live"] /\ stray' = stray \cup {l}
    BY <2>1, <2>2, <2>5
  <2>6. QED
    BY <2>3, <2>4, <2>5 DEF CreateLeg
<1>4. Spends
  BY FaultsSpend DEF IInv, Spends, CreateLeg
<1>5. TypeOK'
  BY <1>1, <1>2, <1>3, <1>4 DEF IInv, TypeOK, OpAt, OpStates, LegAt, Spends, Budgets
<1>6. AgentCreate'
  BY <1>1, <1>2, <1>4 DEF IInv, AgentCreate, Legs, Over, Lapsed, Closed, OpAt,
    TerminateOnFailure, Spends
<1>7. SetupSupervised'
  BY <1>1, <1>2, <1>4 DEF IInv, SetupSupervised, Legs, OpBusy, OpAt,
    TerminateOnFailure, Spends
<1>8. CalleeCreate'
  BY <1>1, <1>2, <1>3, <1>4 DEF IInv, CalleeCreate, Legs, Over, Lapsed, Closed, OpAt,
    LegAt, Spends
<1>9. GateNotMissed'
  BY <1>1, <1>4 DEF IInv, GateNotMissed, GateOpen, Spends
<1>10. StreamCreate'
  BY <1>1, <1>2, <1>3, <1>4 DEF IInv, StreamCreate, Legs, Lapsed, Closed, OpAt, LegAt,
    Spends
<1>11. ActiveIsMonitored'
  BY <1>1, <1>4 DEF IInv, ActiveIsMonitored, Spends
<1>12. LegsKnown'
  BY <1>1, <1>2, <1>3 DEF IInv, LegsKnown, GivenUp, OpAt, LegAt
<1>13. NoOrphanLeg'
  BY <1>1, <1>2, <1>3 DEF IInv, NoOrphanLeg, OpBusy, LegsKnown, OpAt, LegAt
<1>14. RowInStep'
  BY DEF IInv, CreateLeg, RowInStep, Closed
<1>15. QED
  BY <1>5, <1>6, <1>7, <1>8, <1>9, <1>10, <1>11, <1>12, <1>13, <1>14 DEF IInv

LEMMA CreateFailedStep ==
  ASSUME IInv, NEW l \in Legs, CreateFailed(l)
  PROVE  IInv'
<1>1. /\ Serving /\ op[l].pc = "failing"
      /\ UNCHANGED <<session, sid, leg, stray, sweep, start, h, snap, unmuted,
                     deadline, svc>>
  BY DEF CreateFailed, OthersOfOp
<1>2. OpAt(l, {"null", "raised"}) /\ (op'[l].pc = "null" => l \in SwallowFailure)
  BY OpReturns DEF IInv, CreateFailed, OpAt, OpPcs
<1>3. Ends(FALSE)
  BY EndsBy DEF IInv, CreateFailed
<1>4. TypeOK'
  BY <1>1, <1>2, <1>3 DEF IInv, TypeOK, OpAt, OpStates, Ends, Claims, RowLeft, Spends,
    Budgets, Fins
<1>5. RowInStep'
  BY <1>1, <1>3 DEF IInv, RowInStep, Serving, Closed, ClosedStates, Ends, Claims,
    RowLeft
<1>6. AgentCreate'
  BY <1>1, <1>2, <1>3 DEF IInv, AgentCreate, Legs, Over, Lapsed, Stopping, OpAt, Ends
<1>7. SetupSupervised'
  BY <1>1, <1>3, InSetup DEF IInv, SetupSupervised, Closed, ClosedStates,
    TerminalStates, Stopping, Ends
<1>8. CalleeCreate'
  BY <1>1, <1>2, <1>3 DEF IInv, CalleeCreate, Legs, Over, Lapsed, Stopping, OpAt,
    Ends, Claims
<1>9. GateNotMissed'
  BY <1>1, <1>3 DEF IInv, GateNotMissed, Closed, ClosedStates, TerminalStates,
    Stopping, Ends
<1>10. StreamCreate'
  BY <1>1, <1>2, <1>3 DEF IInv, StreamCreate, Legs, Lapsed, Closed, OpAt,
    SwallowFailure, Ends, Claims, Spends
<1>11. ActiveIsMonitored'
  BY <1>1, <1>3 DEF IInv, ActiveIsMonitored, Ends, Claims, Spends
<1>12. LegsKnown'
  BY <1>1, <1>2 DEF IInv, LegsKnown, GivenUp, OpAt
<1>13. NoOrphanLeg'
  BY <1>1, <1>2, <1>3 DEF IInv, NoOrphanLeg, OpBusy, GivenUp, TerminalStates,
    LegsKnown, OpAt, Ends, Claims
<1>14. QED
  BY <1>4, <1>5, <1>6, <1>7, <1>8, <1>9, <1>10, <1>11, <1>12, <1>13 DEF IInv

LEMMA CheckCallStep ==
  ASSUME IInv, NEW l \in Legs, CheckCall(l)
  PROVE  IInv'
<1>1. /\ Serving /\ op[l].pc = "checking"
      /\ UNCHANGED <<row, session, sid, leg, stray, sweep, start, h, snap, unmuted,
                     deadline, fin, svc>>
  BY DEF CheckCall, OthersOfOp
<1>2. OpAt(l, {"persist", "committing"})
  BY OpAbandons, OpGoes DEF IInv, CheckCall, OpAt, OpPcs
<1>3. Spends
  BY FaultsSpend DEF IInv, Spends, SpendsOnDb, CheckCall
<1>4. TypeOK'
  BY <1>1, <1>2, <1>3 DEF IInv, TypeOK, OpAt, OpStates, Spends, Budgets
<1>5. AgentCreate'
  BY <1>1, <1>2, <1>3 DEF IInv, AgentCreate, Legs, Over, Lapsed, Closed, OpAt, Spends
<1>6. SetupSupervised'
  BY <1>1, <1>2, <1>3 DEF IInv, SetupSupervised, Legs, OpBusy, OpAt, Spends
<1>7. CalleeCreate'
  BY <1>1, <1>2, <1>3 DEF IInv, CalleeCreate, Legs, Over, Lapsed, Closed, OpAt, Spends
<1>8. GateNotMissed'
  BY <1>1, <1>3 DEF IInv, GateNotMissed, GateOpen, Spends
<1>9. StreamCreate'
  BY <1>1, <1>2, <1>3 DEF IInv, StreamCreate, Legs, Lapsed, Closed, OpAt, Spends
<1>10. ActiveIsMonitored'
  BY <1>1, <1>3 DEF IInv, ActiveIsMonitored, Spends
<1>11. LegsKnown'
  BY <1>1, <1>2 DEF IInv, LegsKnown, GivenUp, OpAt
<1>12. NoOrphanLeg'
  BY <1>1, <1>2 DEF IInv, NoOrphanLeg, OpBusy, OpAt
<1>13. RowInStep'
  BY DEF IInv, CheckCall, OthersOfOp, RowInStep, Closed
<1>14. QED
  BY <1>4, <1>5, <1>6, <1>7, <1>8, <1>9, <1>10, <1>11, <1>12, <1>13 DEF IInv

LEMMA AdoptLegStep ==
  ASSUME IInv, NEW l \in Legs, AdoptLeg(l)
  PROVE  IInv'
<1>1. /\ Serving /\ op[l].pc = "committing"
      /\ UNCHANGED <<row, session, leg, stray, sweep, start, h, snap, unmuted,
                     deadline, fin, svc>>
  BY DEF AdoptLeg, OthersOfOp
<1>2. \/ OpAt(l, {"persist"})
      \/ OpAt(l, {"adopted"}) /\ sid'[l] /\ ~op[l].cancel /\ ~Closed
  BY OpAbandons, OpReturns, Types DEF IInv, AdoptLeg, OpAt, OpPcs, Closed
<1>3. /\ sid' \in [Legs -> BOOLEAN]
      /\ \A m \in Legs : sid[m] => sid'[m]
      /\ \A m \in Legs : m # l => sid'[m] = sid[m]
  BY Types DEF IInv, AdoptLeg
<1>4. Spends
  BY FaultsSpend DEF IInv, Spends, SpendsOnDb, AdoptLeg
<1>5. TypeOK'
  BY <1>1, <1>2, <1>3, <1>4 DEF IInv, TypeOK, OpAt, OpStates, Spends, Budgets
<1>6. AgentCreate'
  BY <1>1, <1>2, <1>4 DEF IInv, AgentCreate, Legs, Over, Lapsed, Closed, OpAt, Spends
<1>7. SetupSupervised'
  BY <1>1, <1>2, <1>4 DEF IInv, SetupSupervised, Legs, OpBusy, AgentCreate, OpAt,
    Spends, TypeOK
<1>8. CalleeCreate'
  BY <1>1, <1>2, <1>4 DEF IInv, CalleeCreate, Legs, Over, Lapsed, Closed, OpAt, Spends
<1>9. GateNotMissed'
  BY <1>1, <1>3, <1>4, OpenerHandles DEF IInv, GateNotMissed, Legs, GateOpen, Over,
    Lapsed, Closed, ClosedStates, TerminalStates, CalleeCreate, Spends
<1>10. StreamCreate'
  BY <1>1, <1>2, <1>3, <1>4 DEF IInv, StreamCreate, Legs, Lapsed, Closed, OpAt, Spends
<1>11. ActiveIsMonitored'
  BY <1>1, <1>3, <1>4 DEF IInv, ActiveIsMonitored, Legs, Spends
<1>12. LegsKnown'
  BY <1>1, <1>2 DEF IInv, LegsKnown, GivenUp, OpAt
<1>13. NoOrphanLeg'
  BY <1>1, <1>2 DEF IInv, NoOrphanLeg, OpBusy, OpAt, RowInStep, Closed, ClosedStates
<1>14. RowInStep'
  BY DEF IInv, AdoptLeg, OthersOfOp, RowInStep, Closed
<1>15. QED
  BY <1>5, <1>6, <1>7, <1>8, <1>9, <1>10, <1>11, <1>12, <1>13, <1>14 DEF IInv

LEMMA PersistAbandonedStep ==
  ASSUME IInv, NEW l \in Legs, PersistAbandoned(l)
  PROVE  IInv'
<1>1. /\ Serving /\ op[l].pc = "persist"
      /\ UNCHANGED <<row, session, leg, stray, sweep, start, h, snap, unmuted,
                     deadline, fin, svc>>
  BY DEF PersistAbandoned, OthersOfOp
<1>2. OpAt(l, {"remove"})
  BY OpGoes DEF IInv, PersistAbandoned, OpPcs
<1>3. /\ sid' \in [Legs -> BOOLEAN]
      /\ \A m \in Legs : sid[m] => sid'[m]
      /\ \A m \in Legs : m # l => sid'[m] = sid[m]
  BY Types DEF IInv, PersistAbandoned
<1>4. Spends
  BY FaultsSpend DEF IInv, Spends, SpendsOnDb, PersistAbandoned
<1>5. TypeOK'
  BY <1>1, <1>2, <1>3, <1>4 DEF IInv, TypeOK, OpAt, OpStates, Spends, Budgets
<1>6. AgentCreate'
  BY <1>1, <1>2, <1>4 DEF IInv, AgentCreate, Legs, Over, Lapsed, Closed, OpAt, Spends
<1>7. SetupSupervised'
  BY <1>1, <1>2, <1>4 DEF IInv, SetupSupervised, Legs, OpBusy, OpAt, Spends
<1>8. CalleeCreate'
  BY <1>1, <1>2, <1>4 DEF IInv, CalleeCreate, Legs, Over, Lapsed, Closed, OpAt, Spends
<1>9. GateNotMissed'
  BY <1>1, <1>3, <1>4, OpenerHandles DEF IInv, GateNotMissed, Legs, GateOpen, Over,
    Lapsed, Closed, ClosedStates, TerminalStates, CalleeCreate, Spends
<1>10. StreamCreate'
  BY <1>1, <1>2, <1>3, <1>4 DEF IInv, StreamCreate, Legs, Lapsed, Closed, OpAt, Spends
<1>11. ActiveIsMonitored'
  BY <1>1, <1>3, <1>4 DEF IInv, ActiveIsMonitored, Legs, Spends
<1>12. LegsKnown'
  BY <1>1, <1>2 DEF IInv, LegsKnown, GivenUp, OpAt
<1>13. NoOrphanLeg'
  BY <1>1, <1>2 DEF IInv, NoOrphanLeg, OpBusy, OpAt
<1>14. RowInStep'
  BY DEF IInv, PersistAbandoned, OthersOfOp, RowInStep, Closed
<1>15. QED
  BY <1>5, <1>6, <1>7, <1>8, <1>9, <1>10, <1>11, <1>12, <1>13, <1>14 DEF IInv

LEMMA RemoveAbandonedStep ==
  ASSUME IInv, NEW l \in Legs, RemoveAbandoned(l)
  PROVE  IInv'
<1>1. /\ Serving /\ op[l].pc = "remove"
      /\ UNCHANGED <<row, session, sid, stray, start, h, snap, unmuted, deadline,
                     fin, svc>>
  BY DEF RemoveAbandoned, OthersOfOp
<1>2. OpAt(l, {"terminalize"})
  BY OpGoes DEF IInv, RemoveAbandoned, OpPcs
<1>3. \/ LegsDrop /\ leg'[l] # "live" /\ UNCHANGED sweep
      \/ /\ UNCHANGED leg
         /\ sweep' \in [Legs -> Sweeps] /\ sweep'[l].left > 0
         /\ \A m \in Legs : m # l => sweep'[m] = sweep[m]
  BY RemovedDrops, Types, SetupBounds DEF IInv, RemoveAbandoned, Sweeps
<1>4. Spends
  BY FaultsSpend DEF IInv, Spends, RemoveAbandoned
<1>5. TypeOK'
  BY <1>1, <1>2, <1>3, <1>4 DEF IInv, TypeOK, OpAt, OpStates, LegsDrop, Sweeps,
    Spends, Budgets
<1>6. AgentCreate'
  BY <1>1, <1>2, <1>4 DEF IInv, AgentCreate, Legs, Over, Lapsed, Closed, OpAt, Spends
<1>7. SetupSupervised'
  BY <1>1, <1>2, <1>4 DEF IInv, SetupSupervised, Legs, OpBusy, OpAt, Spends
<1>8. CalleeCreate'
  BY <1>1, <1>2, <1>3, <1>4 DEF IInv, CalleeCreate, Legs, Over, Lapsed, Closed, OpAt,
    LegsDrop, Spends
<1>9. GateNotMissed'
  BY <1>1, <1>4 DEF IInv, GateNotMissed, GateOpen, Spends
<1>10. StreamCreate'
  BY <1>1, <1>2, <1>3, <1>4 DEF IInv, StreamCreate, Legs, Lapsed, Closed, OpAt,
    LegsDrop, Spends
<1>11. ActiveIsMonitored'
  BY <1>1, <1>4 DEF IInv, ActiveIsMonitored, Spends
<1>12. LegsKnown'
  BY <1>1, <1>2, <1>3 DEF IInv, LegsKnown, GivenUp, OpAt, LegsDrop
<1>13. NoOrphanLeg'
  BY <1>1, <1>2, <1>3 DEF IInv, NoOrphanLeg, OpBusy, OpAt, LegsDrop
<1>14. RowInStep'
  BY DEF IInv, RemoveAbandoned, OthersOfOp, RowInStep, Closed
<1>15. QED
  BY <1>5, <1>6, <1>7, <1>8, <1>9, <1>10, <1>11, <1>12, <1>13, <1>14 DEF IInv

LEMMA TerminalizeAbandonedStep ==
  ASSUME IInv, NEW l \in Legs, TerminalizeAbandoned(l)
  PROVE  IInv'
<1>1. /\ Serving /\ op[l].pc = "terminalize"
      /\ UNCHANGED <<session, sid, leg, stray, sweep, start, h, snap, unmuted,
                     deadline, svc>>
  BY DEF TerminalizeAbandoned, OthersOfOp
<1>2. OpAt(l, {"null", "raised"})
  BY OpReturns, Types DEF IInv, TerminalizeAbandoned, OpAt, OpPcs, OpStates
<1>3. Ends(TRUE)
  BY EndsBy DEF IInv, TerminalizeAbandoned
<1>4. TypeOK'
  BY <1>1, <1>2, <1>3 DEF IInv, TypeOK, OpAt, OpStates, Ends, Claims, RowLeft, Spends,
    Budgets, Fins
<1>5. RowInStep'
  BY <1>1, <1>3 DEF IInv, RowInStep, Serving, Closed, ClosedStates, Ends, Claims,
    RowLeft
<1>6. AgentCreate'
  BY <1>1, <1>2, <1>3 DEF IInv, AgentCreate, Legs, Over, Lapsed, OpAt, Ends
<1>7. SetupSupervised'
  BY <1>3, InSetup DEF IInv, SetupSupervised, Closed, ClosedStates, TerminalStates,
    Ends
<1>8. CalleeCreate'
  BY <1>1, <1>2, <1>3 DEF IInv, CalleeCreate, Legs, Over, Lapsed, OpAt, Ends, Claims
<1>9. GateNotMissed'
  BY <1>3 DEF IInv, GateNotMissed, Closed, ClosedStates, TerminalStates, Ends
<1>10. StreamCreate'
  BY <1>1, <1>2, <1>3 DEF IInv, StreamCreate, Legs, Lapsed, OpAt, Ends, Claims
<1>11. ActiveIsMonitored'
  BY <1>3 DEF IInv, ActiveIsMonitored, Closed, ClosedStates, TerminalStates, Ends
<1>12. LegsKnown'
  BY <1>1, <1>2 DEF IInv, LegsKnown, GivenUp, OpAt
<1>13. NoOrphanLeg'
  BY <1>1, <1>2, <1>3 DEF IInv, NoOrphanLeg, OpBusy, GivenUp, TerminalStates,
    LegsKnown, OpAt, Ends, Claims
<1>14. QED
  BY <1>4, <1>5, <1>6, <1>7, <1>8, <1>9, <1>10, <1>11, <1>12, <1>13 DEF IInv

LEMMA RetryRemovalStep ==
  ASSUME IInv, NEW l \in Legs, RetryRemoval(l)
  PROVE  IInv'
<1>1. /\ Serving
      /\ UNCHANGED <<row, session, sid, stray, op, start, h, snap, unmuted, deadline,
                     fin, svc>>
  BY DEF RetryRemoval, OthersOfOp
<1>2. /\ sweep' \in [Legs -> Sweeps]
      /\ \A m \in Legs : m # l => sweep'[m] = sweep[m]
      /\ \/ LegsDrop /\ leg'[l] # "live"
         \/ UNCHANGED leg /\ (sweep'[l].left > 0 \/ sweep'[l].gaveUp)
  <2>1. sweep \in [Legs -> Sweeps] /\ sweep[l].left > 0 /\ MaxRetries \in Nat
    BY Types, SetupBounds DEF IInv, RetryRemoval
  <2>2. CASE leg' = Removed(l) /\ sweep' = [sweep EXCEPT ![l].left = 0]
    <3>1. LegsDrop /\ leg'[l] # "live"
      BY <2>2, RemovedDrops DEF IInv
    <3>2. QED
      BY <2>1, <2>2, <3>1 DEF Sweeps
  <2>3. CASE /\ UNCHANGED leg
             /\ sweep' = [sweep EXCEPT ![l] = [left |-> @.left - 1, gaveUp |-> @.left = 1]]
    <3>1. sweep[l].left - 1 \in 0..MaxRetries /\ sweep[l] \in Sweeps
      BY <2>1 DEF Sweeps
    <3>2. /\ sweep' = [sweep EXCEPT ![l] = [left   |-> sweep[l].left - 1,
                                          gaveUp |-> sweep[l].left = 1]]
          /\ sweep'[l].left = sweep[l].left - 1
          /\ sweep'[l].gaveUp <=> sweep[l].left = 1
      BY <2>1, <2>3
    <3>3. sweep' \in [Legs -> Sweeps]
      BY <2>1, <3>1, <3>2 DEF Sweeps
    <3>4. sweep'[l].left > 0 \/ sweep'[l].gaveUp
      <4>1. sweep[l].left = 1 \/ sweep[l].left - 1 > 0
        BY <2>1, <3>1 DEF Sweeps
      <4>2. CASE sweep[l].left = 1
        BY <3>2, <4>2
      <4>3. CASE sweep[l].left - 1 > 0
        BY <3>2, <4>3
      <4>4. QED
        BY <4>1, <4>2, <4>3
    <3>5. QED
      BY <2>3, <3>3, <3>4
  <2>4. QED
    BY <2>2, <2>3 DEF RetryRemoval
<1>3. Spends
  BY FaultsSpend DEF IInv, Spends, RetryRemoval
<1>4. TypeOK'
  BY <1>1, <1>2, <1>3 DEF IInv, TypeOK, LegsDrop, Sweeps, Spends, Budgets
<1>5. AgentCreate'
  BY <1>1, <1>3 DEF IInv, AgentCreate, Over, Lapsed, Closed, Spends
<1>6. SetupSupervised'
  BY <1>1, <1>3 DEF IInv, SetupSupervised, OpBusy, Spends
<1>7. CalleeCreate'
  BY <1>1, <1>2, <1>3 DEF IInv, CalleeCreate, Legs, Over, Lapsed, Closed, LegsDrop,
    Spends
<1>8. GateNotMissed'
  BY <1>1, <1>3 DEF IInv, GateNotMissed, GateOpen, Spends
<1>9. StreamCreate'
  BY <1>1, <1>2, <1>3 DEF IInv, StreamCreate, Legs, Lapsed, Closed, LegsDrop, Spends
<1>10. ActiveIsMonitored'
  BY <1>1, <1>3 DEF IInv, ActiveIsMonitored, Spends
<1>11. LegsKnown'
  BY <1>1, <1>2 DEF IInv, LegsKnown, GivenUp, LegsDrop
<1>12. NoOrphanLeg'
  BY <1>1, <1>2 DEF IInv, NoOrphanLeg, OpBusy, LegsDrop
<1>13. RowInStep'
  BY DEF IInv, RetryRemoval, OthersOfOp, RowInStep, Closed
<1>14. QED
  BY <1>4, <1>5, <1>6, <1>7, <1>8, <1>9, <1>10, <1>11, <1>12, <1>13 DEF IInv

LEMMA CalleeLeavesStep ==
  ASSUME IInv, CalleeLeaves
  PROVE  IInv'
<1>1. UNCHANGED <<row, session, sid, stray, op, sweep, start, h, snap, unmuted,
                  deadline, fin, svc, faults>>
  BY DEF CalleeLeaves
<1>2. LegsDrop
  BY RemovedDrops, DroppedDrops DEF IInv, CalleeLeaves, Legs
<1>3. TypeOK'
  BY <1>1, <1>2 DEF IInv, TypeOK, LegsDrop
<1>4. CalleeCreate'
  BY <1>1, <1>2 DEF IInv, CalleeCreate, Legs, Over, Lapsed, Closed, LegsDrop
<1>5. StreamCreate'
  BY <1>1, <1>2 DEF IInv, StreamCreate, Legs, Lapsed, Closed, LegsDrop
<1>6. LegsKnown'
  BY <1>1, <1>2 DEF IInv, LegsKnown, GivenUp, LegsDrop
<1>7. NoOrphanLeg'
  BY <1>1, <1>2 DEF IInv, NoOrphanLeg, OpBusy, LegsDrop
<1>8. (RowInStep /\ AgentCreate /\ SetupSupervised /\ GateNotMissed /\
  ActiveIsMonitored)'
  BY DEF IInv, CalleeLeaves, RowInStep, Closed, AgentCreate, Over, Lapsed,
    SetupSupervised, OpBusy, GateNotMissed, GateOpen, ActiveIsMonitored
<1>9. QED
  BY <1>3, <1>4, <1>5, <1>6, <1>7, <1>8 DEF IInv

LEMMA StartReturnsStep ==
  ASSUME IInv, StartReturns
  PROVE  IInv'
<1>1. /\ Serving /\ start = "wait" /\ start' = "done"
      /\ UNCHANGED <<row, session, sid, leg, stray, sweep, h, snap, unmuted, fin,
                     svc, faults>>
  BY DEF StartReturns, OthersOfCaller
<1>2. OpAt("agent", {"none"}) /\ op["agent"].pc \in {"adopted", "null", "raised"}
  BY OpIsTaken DEF IInv, StartReturns, Legs
<1>3. /\ deadline' \in {"off", "armed", "decided"}
      /\ op["agent"].pc = "adopted" => deadline' = "armed" \/ Stopping
      /\ op["agent"].pc # "adopted" => UNCHANGED deadline
  BY DEF IInv, TypeOK, StartReturns
<1>4. TypeOK'
  BY <1>1, <1>2, <1>3 DEF IInv, TypeOK, OpAt, OpStates
<1>5. AgentCreate'
  BY <1>1, <1>2 DEF IInv, AgentCreate, OpAt
<1>6. SetupSupervised'
  BY <1>1, <1>2, <1>3, InSetup DEF IInv, SetupSupervised, Over, Lapsed, Closed,
    ClosedStates, TerminalStates, AgentCreate, Stopping
<1>7. CalleeCreate'
  BY <1>1, <1>2 DEF IInv, CalleeCreate, Legs, Over, Lapsed, Closed, OpAt
<1>8. StreamCreate'
  BY <1>1, <1>2 DEF IInv, StreamCreate, Legs, Lapsed, Closed, OpAt
<1>9. LegsKnown'
  BY <1>1, <1>2 DEF IInv, LegsKnown, GivenUp, OpAt
<1>10. NoOrphanLeg'
  BY <1>1, <1>2 DEF IInv, NoOrphanLeg, OpBusy, OpAt
<1>11. (RowInStep /\ GateNotMissed /\ ActiveIsMonitored)'
  BY DEF IInv, StartReturns, OthersOfCaller, RowInStep, Closed, GateNotMissed,
    GateOpen, ActiveIsMonitored
<1>12. QED
  BY <1>4, <1>5, <1>6, <1>7, <1>8, <1>9, <1>10, <1>11 DEF IInv

LEMMA CancelStartStep ==
  ASSUME IInv, CancelStart
  PROVE  IInv'
<1>1. /\ Serving /\ start = "wait" /\ start' = "done"
      /\ UNCHANGED <<row, session, sid, leg, stray, sweep, h, snap, unmuted,
                     deadline, fin, svc, faults>>
  BY DEF CancelStart, OthersOfCaller
<1>2. Cancels("agent")
  BY CancelledCreate DEF IInv, CancelStart, Legs
<1>3. TypeOK'
  BY <1>1, <1>2 DEF IInv, TypeOK, OpAt, OpStates, Cancels
<1>4. AgentCreate'
  BY <1>1, <1>2 DEF IInv, AgentCreate, Over, Lapsed, Closed, Cancels
<1>5. SetupSupervised'
  BY <1>1, <1>2, InSetup DEF IInv, SetupSupervised, OpBusy, Over, Lapsed, Closed,
    ClosedStates, TerminalStates, AgentCreate, Cancels
<1>6. CalleeCreate'
  BY <1>1, <1>2 DEF IInv, CalleeCreate, Legs, Over, Lapsed, Closed, OpAt, Cancels
<1>7. StreamCreate'
  BY <1>1, <1>2 DEF IInv, StreamCreate, Legs, Lapsed, Closed, OpAt, Cancels
<1>8. LegsKnown'
  BY <1>1, <1>2 DEF IInv, LegsKnown, GivenUp, OpAt, Cancels
<1>9. NoOrphanLeg'
  BY <1>1, <1>2 DEF IInv, NoOrphanLeg, OpBusy, OpAt, Cancels
<1>10. (RowInStep /\ GateNotMissed /\ ActiveIsMonitored)'
  BY DEF IInv, CancelStart, OthersOfCaller, RowInStep, Closed, GateNotMissed,
    GateOpen, ActiveIsMonitored
<1>11. QED
  BY <1>3, <1>4, <1>5, <1>6, <1>7, <1>8, <1>9, <1>10 DEF IInv

LEMMA CancelOpenerStep ==
  ASSUME IInv, CancelOpener
  PROVE  IInv'
<1>1. /\ (fin.pc # "idle" \/ svc = "draining")
      /\ UNCHANGED <<row, session, sid, leg, stray, sweep, start, snap, unmuted,
                     deadline, fin, svc, faults>>
  BY DEF CancelOpener, OthersOfCaller
<1>2. \/ h["opener"] = "dialling" /\ Cancels("callee")
      \/ h["opener"] = "monitor" /\ Cancels("stream")
      \/ UNCHANGED op
  BY CancelledCreate DEF IInv, CancelOpener, Legs
<1>3. HAt("opener", {"done"})
  BY Types, OpenerHandles DEF IInv, CancelOpener, HAt, HandlerPcs
<1>4. TypeOK'
  BY <1>1, <1>2, <1>3 DEF IInv, TypeOK, OpAt, OpStates, Cancels, HAt
<1>5. AgentCreate'
  BY <1>1, <1>2 DEF IInv, AgentCreate, Legs, Over, Lapsed, Closed, OpAt, Cancels
<1>6. SetupSupervised'
  BY <1>1, InSetup DEF IInv, SetupSupervised, Closed, ClosedStates, TerminalStates,
    RowInStep
<1>7. CalleeCreate'
  BY <1>1, <1>2 DEF IInv, CalleeCreate, Legs, Over, Lapsed, Closed, RowInStep, OpAt,
    Cancels
<1>8. GateNotMissed'
  BY <1>1 DEF IInv, GateNotMissed, Closed, ClosedStates, TerminalStates, RowInStep
<1>9. StreamCreate'
  BY <1>1, <1>2, <1>3 DEF IInv, StreamCreate, Legs, Lapsed, Closed, OpAt, Cancels, HAt
<1>10. LegsKnown'
  BY <1>1, <1>2 DEF IInv, LegsKnown, GivenUp, OpAt, Cancels
<1>11. NoOrphanLeg'
  BY <1>1, <1>2 DEF IInv, NoOrphanLeg, OpBusy, OpAt, Cancels
<1>12. (RowInStep /\ ActiveIsMonitored)'
  BY DEF IInv, CancelOpener, OthersOfCaller, RowInStep, Closed, ActiveIsMonitored
<1>13. QED
  BY <1>4, <1>5, <1>6, <1>7, <1>8, <1>9, <1>10, <1>11, <1>12 DEF IInv

LEMMA BindSessionStep ==
  ASSUME IInv, BindSession
  PROVE  IInv'
<1>1. /\ h["opener"] = "idle"
      /\ UNCHANGED <<row, session, sid, leg, stray, op, sweep, start, snap, unmuted,
                     deadline, fin, svc, faults>>
  BY DEF BindSession, OthersOfHandler
<1>2. HAt("opener", {"session"})
  BY HandlerGoes, OpenerHandles DEF IInv, BindSession, HandlerPcs
<1>3. TypeOK'
  BY <1>1, <1>2 DEF IInv, TypeOK, HAt
<1>4. CalleeCreate'
  BY <1>1 DEF IInv, CalleeCreate, Over, Lapsed, Closed
<1>5. GateNotMissed'
  BY <1>1, <1>2 DEF IInv, GateNotMissed, GateOpen, HAt
<1>6. StreamCreate'
  BY <1>1, <1>2 DEF IInv, StreamCreate, Lapsed, Closed, HAt
<1>7. (RowInStep /\ AgentCreate /\ SetupSupervised /\ ActiveIsMonitored /\ LegsKnown
  /\ NoOrphanLeg)'
  BY DEF IInv, BindSession, OthersOfHandler, RowInStep, Closed, AgentCreate, Over,
    Lapsed, SetupSupervised, OpBusy, ActiveIsMonitored, LegsKnown, GivenUp,
    NoOrphanLeg
<1>8. QED
  BY <1>3, <1>4, <1>5, <1>6, <1>7 DEF IInv

LEMMA VerifySessionStep ==
  ASSUME IInv, VerifySession
  PROVE  IInv'
<1>1. /\ Serving /\ h["opener"] = "session" /\ session' \in BOOLEAN
      /\ UNCHANGED <<sid, leg, stray, op, sweep, start, snap, unmuted, deadline, svc>>
  BY DEF VerifySession, OthersOfHandler, At, TypeOK, IInv
<1>2. \/ UNCHANGED <<row, fin, faults>> /\ HAt("opener", {"dial"})
      \/ UNCHANGED <<session, row, fin>> /\ SpendsOnDb /\ HAt("opener", {"done", "fatal"})
      \/ UNCHANGED session /\ Ends(FALSE) /\ HAt("opener", {"done", "fatal"})
  BY EndsBy, FaultsSpend, HandlerGoes, HandlerBreaks, OpenerHandles DEF IInv,
    VerifySession, HandlerPcs, HAt
<1>3. TypeOK'
  BY <1>1, <1>2 DEF IInv, TypeOK, Ends, Claims, RowLeft, Spends, Budgets, Fins,
    SpendsOnDb, HAt
<1>4. RowInStep'
  BY <1>1, <1>2 DEF IInv, RowInStep, Serving, Closed, ClosedStates, Ends, Claims,
    RowLeft
<1>5. AgentCreate'
  BY <1>1, <1>2 DEF IInv, AgentCreate, Over, Lapsed, Closed, Ends, Claims, Spends,
    SpendsOnDb
<1>6. SetupSupervised'
  BY <1>1, <1>2, InSetup DEF IInv, SetupSupervised, OpBusy, Ends, Claims, Spends,
    SpendsOnDb
<1>7. CalleeCreate'
  BY <1>1, <1>2 DEF IInv, CalleeCreate, Over, Lapsed, Closed, Ends, Claims, Spends,
    SpendsOnDb
<1>8. GateNotMissed'
  BY <1>1, <1>2, OpenerHandles DEF IInv, GateNotMissed, GateOpen, Over, Lapsed,
    Closed, ClosedStates, TerminalStates, CalleeCreate, RowInStep, Serving, Stopping,
    Ends, Claims, RowLeft, Spends, Budgets, Fins, SpendsOnDb, HAt, HandlerPcs
<1>9. StreamCreate'
  BY <1>1, <1>2 DEF IInv, StreamCreate, Lapsed, Closed, Ends, Claims, Spends,
    SpendsOnDb, HAt
<1>10. ActiveIsMonitored'
  BY <1>1, <1>2 DEF IInv, ActiveIsMonitored, Ends, Claims, Spends, SpendsOnDb
<1>11. NoOrphanLeg'
  BY <1>1, <1>2 DEF IInv, NoOrphanLeg, OpBusy, TerminalStates, Ends, Claims
<1>12. LegsKnown'
  BY DEF IInv, VerifySession, OthersOfHandler, LegsKnown, GivenUp
<1>13. QED
  BY <1>3, <1>4, <1>5, <1>6, <1>7, <1>8, <1>9, <1>10, <1>11, <1>12 DEF IInv

LEMMA DialCalleeStep ==
  ASSUME IInv, DialCallee
  PROVE  IInv'
<1>1. /\ Serving /\ h["opener"] = "dial"
      /\ UNCHANGED <<session, sid, leg, stray, sweep, start, snap, unmuted, deadline,
                     fin, svc>>
  BY DEF DialCallee, OthersOfHandler, At
<1>2. \/ /\ Flags /\ ~row.dialed /\ row'.dialed /\ UNCHANGED faults
         /\ OpAt("callee", {"creating"}) /\ HAt("opener", {"dialling"})
      \/ UNCHANGED <<row, op, faults>> /\ HAt("opener", {"gate"})
      \/ Flags /\ UNCHANGED op /\ SpendsOnDb /\ HAt("opener", {"done", "fatal"})
  BY DialSets, FaultsSpend, OpStarts, HandlerGoes, HandlerBreaks, OpenerHandles DEF
    IInv, DialCallee, Answered, Raised, CanClaimDial, Legs, HandlerPcs
<1>3. TypeOK'
  BY <1>1, <1>2 DEF IInv, TypeOK, OpAt, OpStates, HAt, Flags, RowLeft, SpendsOnDb,
    Budgets
<1>4. RowInStep'
  BY <1>1, <1>2 DEF IInv, RowInStep, Closed, Flags, RowLeft
<1>5. AgentCreate'
  BY <1>1, <1>2 DEF IInv, AgentCreate, Legs, Over, Lapsed, Closed, OpAt, Flags,
    SpendsOnDb
<1>6. SetupSupervised'
  BY <1>1, <1>2 DEF IInv, SetupSupervised, Legs, OpBusy, OpAt, Flags, SpendsOnDb
<1>7. CalleeCreate'
  BY <1>1, <1>2 DEF IInv, CalleeCreate, Over, Lapsed, Closed, OpAt, HAt, Flags,
    SpendsOnDb
<1>8. GateNotMissed'
  BY <1>2, OpenerHandles DEF IInv, GateNotMissed, HAt, SpendsOnDb
<1>9. StreamCreate'
  BY <1>1, <1>2 DEF IInv, StreamCreate, Legs, Lapsed, Closed, OpAt, HAt, Flags,
    SpendsOnDb
<1>10. ActiveIsMonitored'
  BY <1>1, <1>2 DEF IInv, ActiveIsMonitored, Flags, SpendsOnDb
<1>11. LegsKnown'
  BY <1>1, <1>2 DEF IInv, LegsKnown, GivenUp, OpAt, CalleeCreate
<1>12. NoOrphanLeg'
  BY <1>1, <1>2 DEF IInv, NoOrphanLeg, OpBusy, OpAt, Flags
<1>13. QED
  BY <1>3, <1>4, <1>5, <1>6, <1>7, <1>8, <1>9, <1>10, <1>11, <1>12 DEF IInv

LEMMA CalleeDialledStep ==
  ASSUME IInv, CalleeDialled
  PROVE  IInv'
<1>1. /\ Serving /\ h["opener"] = "dialling"
      /\ UNCHANGED <<row, session, sid, leg, stray, sweep, start, snap, unmuted,
                     deadline, fin, svc, faults>>
  BY DEF CalleeDialled, OthersOfHandler, At
<1>2. OpAt("callee", {"none"})
  BY OpIsTaken DEF IInv, CalleeDialled, Legs
<1>3. \/ op["callee"].pc = "adopted" /\ HAt("opener", {"gate"})
      \/ op["callee"].pc = "null" /\ HAt("opener", {"done"})
      \/ op["callee"].pc = "raised" /\ HAt("opener", {"fatal"})
  BY HandlerGoes, OpenerHandles DEF IInv, CalleeDialled, HandlerPcs, Breaks
<1>4. TypeOK'
  BY <1>1, <1>2, <1>3 DEF IInv, TypeOK, OpAt, OpStates, HAt
<1>5. AgentCreate'
  BY <1>1, <1>2 DEF IInv, AgentCreate, Legs, Over, Lapsed, Closed, OpAt
<1>6. SetupSupervised'
  BY <1>1, <1>2 DEF IInv, SetupSupervised, Legs, OpBusy, OpAt
<1>7. CalleeCreate'
  BY <1>1, <1>2 DEF IInv, CalleeCreate, OpAt
<1>8. GateNotMissed'
  BY <1>1, <1>3 DEF IInv, GateNotMissed, GateOpen, Over, Lapsed, Closed, ClosedStates,
    TerminalStates, CalleeCreate, HAt
<1>9. StreamCreate'
  BY <1>1, <1>2, <1>3 DEF IInv, StreamCreate, Legs, Lapsed, Closed, OpAt, HAt
<1>10. LegsKnown'
  BY <1>1, <1>2 DEF IInv, LegsKnown, GivenUp, OpAt
<1>11. NoOrphanLeg'
  BY <1>1, <1>2, <1>3 DEF IInv, NoOrphanLeg, OpBusy, OpAt
<1>12. (RowInStep /\ ActiveIsMonitored)'
  BY DEF IInv, CalleeDialled, OthersOfHandler, RowInStep, Closed, ActiveIsMonitored
<1>13. QED
  BY <1>4, <1>5, <1>6, <1>7, <1>8, <1>9, <1>10, <1>11, <1>12 DEF IInv

LEMMA SidebandFatalStep ==
  ASSUME IInv, SidebandFatal
  PROVE  IInv'
<1>1. /\ Serving /\ h["opener"] = "fatal"
      /\ UNCHANGED <<session, sid, leg, stray, op, sweep, start, snap, unmuted,
                     deadline, svc>>
  BY DEF SidebandFatal, OthersOfHandler, At
<1>2. HAt("opener", {"done"})
  BY HandlerGoes, OpenerHandles DEF IInv, SidebandFatal, HandlerPcs
<1>3. Ends(FALSE)
  BY EndsBy DEF IInv, SidebandFatal
<1>4. TypeOK'
  BY <1>1, <1>2, <1>3 DEF IInv, TypeOK, HAt, Ends, Claims, RowLeft, Spends, Budgets,
    Fins
<1>5. RowInStep'
  BY <1>1, <1>3 DEF IInv, RowInStep, Serving, Closed, ClosedStates, Ends, Claims,
    RowLeft
<1>6. AgentCreate'
  BY <1>1, <1>3 DEF IInv, AgentCreate, Over, Lapsed, Stopping, Ends
<1>7. SetupSupervised'
  BY <1>1, <1>3, InSetup DEF IInv, SetupSupervised, Closed, ClosedStates,
    TerminalStates, Stopping, Ends
<1>8. CalleeCreate'
  BY <1>1, <1>3 DEF IInv, CalleeCreate, Over, Lapsed, Stopping, Ends, Claims
<1>9. GateNotMissed'
  BY <1>1, <1>3 DEF IInv, GateNotMissed, Closed, ClosedStates, TerminalStates,
    Stopping, Ends
<1>10. StreamCreate'
  BY <1>1, <1>2, <1>3 DEF IInv, StreamCreate, Lapsed, Closed, HAt, Ends, Claims,
    Spends
<1>11. ActiveIsMonitored'
  BY <1>1, <1>3 DEF IInv, ActiveIsMonitored, Ends, Claims, Spends
<1>12. NoOrphanLeg'
  BY <1>1, <1>3 DEF IInv, NoOrphanLeg, OpBusy, TerminalStates, Ends, Claims
<1>13. LegsKnown'
  BY DEF IInv, SidebandFatal, OthersOfHandler, LegsKnown, GivenUp
<1>14. QED
  BY <1>4, <1>5, <1>6, <1>7, <1>8, <1>9, <1>10, <1>11, <1>12, <1>13 DEF IInv

LEMMA CalleeAnsweredStep ==
  ASSUME IInv, NEW x \in Handlers, CalleeAnswered(x)
  PROVE  IInv'
<1>1. /\ h[x] = "idle"
      /\ UNCHANGED <<session, sid, leg, stray, op, sweep, start, snap, unmuted,
                     deadline, fin, svc>>
  BY DEF CalleeAnswered, OthersOfHandler
<1>2. Flags /\ row'.dialed = row.dialed
  BY JoinSets, Types DEF IInv, CalleeAnswered, Answered, Raised, SetJoined, Row
<1>3. \/ HAt(x, {"gate"}) /\ UNCHANGED faults
      \/ HAt(x, {"done", "fatal"}) /\ SpendsOnDb
  BY HandlerGoes, HandlerBreaks, FaultsSpend DEF IInv, CalleeAnswered, Answered,
    Raised, HandlerPcs
<1>4. TypeOK'
  BY <1>1, <1>2, <1>3 DEF IInv, TypeOK, Flags, RowLeft, HAt, SpendsOnDb, Budgets
<1>5. RowInStep'
  BY <1>1, <1>2 DEF IInv, RowInStep, Closed, Flags, RowLeft
<1>6. AgentCreate'
  BY <1>1, <1>2, <1>3 DEF IInv, AgentCreate, Over, Lapsed, Closed, Flags, SpendsOnDb
<1>7. SetupSupervised'
  BY <1>1, <1>2, <1>3 DEF IInv, SetupSupervised, OpBusy, Flags, SpendsOnDb
<1>8. CalleeCreate'
  BY <1>1, <1>2, <1>3, OpenerHandles DEF IInv, CalleeCreate, Over, Lapsed, Closed,
    Flags, HAt, SpendsOnDb
<1>9. GateNotMissed'
  BY <1>3 DEF IInv, GateNotMissed, HAt, SpendsOnDb
<1>10. StreamCreate'
  BY <1>1, <1>2, <1>3 DEF IInv, StreamCreate, Lapsed, Closed, Flags, HAt, SpendsOnDb
<1>11. ActiveIsMonitored'
  BY <1>1, <1>2, <1>3 DEF IInv, ActiveIsMonitored, Flags, SpendsOnDb
<1>12. NoOrphanLeg'
  BY <1>1, <1>2 DEF IInv, NoOrphanLeg, OpBusy, Flags
<1>13. LegsKnown'
  BY DEF IInv, CalleeAnswered, OthersOfHandler, LegsKnown, GivenUp
<1>14. QED
  BY <1>4, <1>5, <1>6, <1>7, <1>8, <1>9, <1>10, <1>11, <1>12, <1>13 DEF IInv

LEMMA ReadGateStep ==
  ASSUME IInv, NEW x \in Handlers, ReadGate(x)
  PROVE  IInv'
<1>1. /\ Serving /\ h[x] = "gate"
      /\ UNCHANGED <<row, session, sid, leg, stray, op, sweep, start, snap, unmuted,
                     deadline, fin, svc>>
  BY DEF ReadGate, OthersOfHandler, At
<1>2. \/ HAt(x, {"promote"}) /\ UNCHANGED faults
      \/ HAt(x, {"done"}) /\ UNCHANGED faults /\ ~(GateOpen /\ row.state \notin TerminalStates)
      \/ HAt(x, {"done", "fatal"}) /\ SpendsOnDb
  BY HandlerGoes, HandlerBreaks, FaultsSpend DEF IInv, ReadGate, HandlerPcs
<1>3. TypeOK'
  BY <1>1, <1>2 DEF IInv, TypeOK, HAt, SpendsOnDb, Budgets
<1>4. AgentCreate'
  BY <1>1, <1>2 DEF IInv, AgentCreate, Over, Lapsed, Closed, SpendsOnDb
<1>5. SetupSupervised'
  BY <1>1, <1>2 DEF IInv, SetupSupervised, OpBusy, SpendsOnDb
<1>6. CalleeCreate'
  BY <1>1, <1>2, OpenerHandles DEF IInv, CalleeCreate, Over, Lapsed, Closed, HAt,
    SpendsOnDb
<1>7. GateNotMissed'
  BY <1>1, <1>2 DEF IInv, GateNotMissed, GateOpen, TerminalStates, HAt, SpendsOnDb
<1>8. StreamCreate'
  BY <1>1, <1>2 DEF IInv, StreamCreate, Lapsed, Closed, HAt, SpendsOnDb
<1>9. ActiveIsMonitored'
  BY <1>1, <1>2 DEF IInv, ActiveIsMonitored, SpendsOnDb
<1>10. (RowInStep /\ LegsKnown /\ NoOrphanLeg)'
  BY DEF IInv, ReadGate, OthersOfHandler, RowInStep, Closed, LegsKnown, GivenUp,
    NoOrphanLeg, OpBusy
<1>11. QED
  BY <1>3, <1>4, <1>5, <1>6, <1>7, <1>8, <1>9, <1>10 DEF IInv

LEMMA PromoteGateStep ==
  ASSUME IInv, NEW x \in Handlers, PromoteGate(x)
  PROVE  IInv'
<1>1. /\ Serving /\ h[x] = "promote"
      /\ UNCHANGED <<session, sid, leg, stray, op, sweep, start, snap, unmuted,
                     deadline, fin, svc>>
  BY DEF PromoteGate, OthersOfHandler, PromoteCall, At
<1>2. \/ Promotes("prewarming") /\ HAt(x, {"claim"}) /\ UNCHANGED faults
      \/ UNCHANGED <<row, faults>> /\ row.state # "prewarming" /\ HAt(x, {"done"})
      \/ (UNCHANGED row \/ Promotes("prewarming")) /\ SpendsOnDb /\ HAt(x, {"done", "fatal"})
  BY PromoteMoves, HandlerGoes, HandlerBreaks, FaultsSpend DEF IInv, PromoteGate,
    PromoteCall, Answered, Raised, CanPromote, HandlerPcs
<1>3. TypeOK'
  BY <1>1, <1>2 DEF IInv, TypeOK, HAt, Promotes, RowLeft, SpendsOnDb, Budgets
<1>4. RowInStep'
  BY <1>1, <1>2 DEF IInv, RowInStep, Closed, ClosedStates, TerminalStates, Promotes,
    RowLeft
<1>5. AgentCreate'
  BY <1>1, <1>2 DEF IInv, AgentCreate, Over, Lapsed, Closed, ClosedStates,
    TerminalStates, Promotes, SpendsOnDb
<1>6. SetupSupervised'
  BY <1>1, <1>2 DEF IInv, SetupSupervised, OpBusy, Promotes, SpendsOnDb,
    NextSetupState, EligibleStates
<1>7. CalleeCreate'
  BY <1>1, <1>2, OpenerHandles DEF IInv, CalleeCreate, Over, Lapsed, Closed,
    ClosedStates, TerminalStates, HAt, Promotes, SpendsOnDb
<1>8. GateNotMissed'
  BY <1>2 DEF IInv, GateNotMissed, Promotes, SpendsOnDb, NextSetupState,
    EligibleStates
<1>9. StreamCreate'
  BY <1>1, <1>2 DEF IInv, StreamCreate, Lapsed, Closed, ClosedStates, TerminalStates,
    HAt, Promotes, SpendsOnDb
<1>10. ActiveIsMonitored'
  BY <1>1, <1>2 DEF IInv, ActiveIsMonitored, Promotes, SpendsOnDb, NextSetupState,
    EligibleStates
<1>11. NoOrphanLeg'
  BY <1>1, <1>2 DEF IInv, NoOrphanLeg, OpBusy, TerminalStates, Promotes,
    NextSetupState, EligibleStates
<1>12. LegsKnown'
  BY DEF IInv, PromoteGate, OthersOfHandler, PromoteCall, LegsKnown, GivenUp
<1>13. QED
  BY <1>3, <1>4, <1>5, <1>6, <1>7, <1>8, <1>9, <1>10, <1>11, <1>12 DEF IInv

LEMMA PromoteClaimStep ==
  ASSUME IInv, NEW x \in Handlers, PromoteClaim(x)
  PROVE  IInv'
<1>1. /\ Serving /\ h[x] = "claim"
      /\ UNCHANGED <<session, sid, leg, stray, op, sweep, start, snap, unmuted,
                     deadline, fin, svc>>
  BY DEF PromoteClaim, OthersOfHandler, PromoteCall, At
<1>2. \/ Promotes("ready_to_activate") /\ HAt(x, {"load"}) /\ UNCHANGED faults
      \/ UNCHANGED <<row, faults>> /\ row.state # "ready_to_activate" /\ HAt(x, {"done"})
      \/ (UNCHANGED row \/ Promotes("ready_to_activate")) /\ SpendsOnDb /\ HAt(x, {"done", "fatal"})
  BY PromoteMoves, HandlerGoes, HandlerBreaks, FaultsSpend DEF IInv, PromoteClaim,
    PromoteCall, Answered, Raised, CanPromote, HandlerPcs
<1>3. TypeOK'
  BY <1>1, <1>2 DEF IInv, TypeOK, HAt, Promotes, RowLeft, SpendsOnDb, Budgets
<1>4. RowInStep'
  BY <1>1, <1>2 DEF IInv, RowInStep, Closed, ClosedStates, TerminalStates, Promotes,
    RowLeft
<1>5. AgentCreate'
  BY <1>1, <1>2 DEF IInv, AgentCreate, Over, Lapsed, Closed, ClosedStates,
    TerminalStates, Promotes, SpendsOnDb
<1>6. SetupSupervised'
  BY <1>1, <1>2 DEF IInv, SetupSupervised, OpBusy, Promotes, SpendsOnDb,
    NextSetupState, EligibleStates
<1>7. CalleeCreate'
  BY <1>1, <1>2, OpenerHandles DEF IInv, CalleeCreate, Over, Lapsed, Closed,
    ClosedStates, TerminalStates, HAt, Promotes, SpendsOnDb
<1>8. GateNotMissed'
  BY <1>1, <1>2 DEF IInv, GateNotMissed, GateOpen, HAt, Promotes, SpendsOnDb,
    NextSetupState, EligibleStates
<1>9. StreamCreate'
  BY <1>1, <1>2 DEF IInv, StreamCreate, Lapsed, Closed, ClosedStates, TerminalStates,
    HAt, Promotes, SpendsOnDb, NextSetupState, EligibleStates
<1>10. ActiveIsMonitored'
  BY <1>1, <1>2 DEF IInv, ActiveIsMonitored, Promotes, SpendsOnDb, NextSetupState,
    EligibleStates
<1>11. NoOrphanLeg'
  BY <1>1, <1>2 DEF IInv, NoOrphanLeg, OpBusy, TerminalStates, Promotes,
    NextSetupState, EligibleStates
<1>12. LegsKnown'
  BY DEF IInv, PromoteClaim, OthersOfHandler, PromoteCall, LegsKnown, GivenUp
<1>13. QED
  BY <1>3, <1>4, <1>5, <1>6, <1>7, <1>8, <1>9, <1>10, <1>11, <1>12 DEF IInv

LEMMA PromoteActiveStep ==
  ASSUME IInv, NEW x \in Handlers, PromoteActive(x)
  PROVE  IInv'
<1>1. /\ Serving /\ h[x] = "activate"
      /\ UNCHANGED <<session, sid, leg, stray, op, sweep, start, snap, unmuted,
                     deadline, fin, svc>>
  BY DEF PromoteActive, OthersOfHandler, PromoteCall, At
<1>2. \/ Promotes("activating") /\ HAt(x, {"unmute"}) /\ UNCHANGED faults
      \/ UNCHANGED <<row, faults>> /\ row.state # "activating" /\ HAt(x, {"done"})
      \/ (UNCHANGED row \/ Promotes("activating")) /\ SpendsOnDb /\ HAt(x, {"fail"})
  BY PromoteMoves, HandlerGoes, FaultsSpend DEF IInv, PromoteActive, PromoteCall,
    Answered, Raised, CanPromote, HandlerPcs
<1>3. TypeOK'
  BY <1>1, <1>2 DEF IInv, TypeOK, HAt, Promotes, RowLeft, SpendsOnDb, Budgets
<1>4. RowInStep'
  BY <1>1, <1>2 DEF IInv, RowInStep, Closed, ClosedStates, TerminalStates, Promotes,
    RowLeft
<1>5. AgentCreate'
  BY <1>1, <1>2 DEF IInv, AgentCreate, Over, Lapsed, Closed, ClosedStates,
    TerminalStates, Promotes, SpendsOnDb
<1>6. SetupSupervised'
  BY <1>1, <1>2 DEF IInv, SetupSupervised, OpBusy, Promotes, SpendsOnDb,
    NextSetupState, EligibleStates
<1>7. CalleeCreate'
  BY <1>1, <1>2, OpenerHandles DEF IInv, CalleeCreate, Over, Lapsed, Closed,
    ClosedStates, TerminalStates, HAt, Promotes, SpendsOnDb
<1>8. GateNotMissed'
  BY <1>1, <1>2 DEF IInv, GateNotMissed, GateOpen, HAt, Promotes, SpendsOnDb,
    NextSetupState, EligibleStates
<1>9. StreamCreate'
  BY <1>1, <1>2 DEF IInv, StreamCreate, Lapsed, Closed, ClosedStates, TerminalStates,
    HAt, Promotes, SpendsOnDb, NextSetupState, EligibleStates
<1>10. ActiveIsMonitored'
  BY <1>1, <1>2 DEF IInv, ActiveIsMonitored, Lapsed, Closed, ClosedStates,
    TerminalStates, StreamCreate, Promotes, SpendsOnDb
<1>11. NoOrphanLeg'
  BY <1>1, <1>2 DEF IInv, NoOrphanLeg, OpBusy, TerminalStates, Promotes,
    NextSetupState, EligibleStates
<1>12. LegsKnown'
  BY DEF IInv, PromoteActive, OthersOfHandler, PromoteCall, LegsKnown, GivenUp
<1>13. QED
  BY <1>3, <1>4, <1>5, <1>6, <1>7, <1>8, <1>9, <1>10, <1>11, <1>12 DEF IInv

LEMMA LoadCallStep ==
  ASSUME IInv, NEW x \in Handlers, LoadCall(x)
  PROVE  IInv'
<1>1. /\ Serving /\ h[x] = "load" /\ snap' \in BOOLEAN
      /\ UNCHANGED <<row, session, sid, leg, stray, sweep, start, unmuted, deadline,
                     fin, svc>>
  BY DEF LoadCall, OthersOfHandler, At, IInv, TypeOK, Legs
<1>2. \/ OpAt("stream", {"creating"}) /\ HAt(x, {"monitor"}) /\ UNCHANGED faults
      \/ UNCHANGED op /\ HAt(x, {"done", "fatal"}) /\ SpendsOnDb
  BY OpStarts, HandlerGoes, HandlerBreaks, FaultsSpend DEF IInv, LoadCall, Legs,
    HandlerPcs
<1>3. TypeOK'
  BY <1>1, <1>2 DEF IInv, TypeOK, HAt, OpAt, OpStates, SpendsOnDb, Budgets
<1>4. AgentCreate'
  BY <1>1, <1>2 DEF IInv, AgentCreate, Legs, Over, Lapsed, Closed, OpAt, SpendsOnDb
<1>5. SetupSupervised'
  BY <1>1, <1>2 DEF IInv, SetupSupervised, Legs, OpBusy, OpAt, SpendsOnDb
<1>6. CalleeCreate'
  BY <1>1, <1>2, OpenerHandles DEF IInv, CalleeCreate, Legs, Over, Lapsed, Closed,
    HAt, OpAt, SpendsOnDb
<1>7. GateNotMissed'
  BY <1>1, <1>2 DEF IInv, GateNotMissed, GateOpen, HAt, SpendsOnDb
<1>8. StreamCreate'
  BY <1>1, <1>2 DEF IInv, StreamCreate, Lapsed, Closed, HAt, OpAt, SpendsOnDb
<1>9. ActiveIsMonitored'
  BY <1>1, <1>2 DEF IInv, ActiveIsMonitored, SpendsOnDb
<1>10. LegsKnown'
  BY <1>1, <1>2 DEF IInv, LegsKnown, GivenUp, OpAt, StreamCreate
<1>11. NoOrphanLeg'
  BY <1>1, <1>2 DEF IInv, NoOrphanLeg, OpBusy, OpAt
<1>12. RowInStep'
  BY DEF IInv, LoadCall, OthersOfHandler, RowInStep, Closed
<1>13. QED
  BY <1>3, <1>4, <1>5, <1>6, <1>7, <1>8, <1>9, <1>10, <1>11, <1>12 DEF IInv

LEMMA MonitorStartedStep ==
  ASSUME IInv, NEW x \in Handlers, MonitorStarted(x)
  PROVE  IInv'
<1>1. /\ Serving /\ h[x] = "monitor"
      /\ UNCHANGED <<row, session, sid, leg, stray, sweep, start, snap, unmuted,
                     deadline, fin, svc, faults>>
  BY DEF MonitorStarted, OthersOfHandler, At
<1>2. OpAt("stream", {"none"})
  BY OpIsTaken DEF IInv, MonitorStarted, Legs
<1>3. \/ op["stream"].pc \in {"adopted", "null"} /\ HAt(x, {"activate"})
      \/ op["stream"].pc \in {"adopted", "raised"} /\ HAt(x, {"fail"})
  BY HandlerGoes DEF IInv, MonitorStarted, HandlerPcs
<1>4. TypeOK'
  BY <1>1, <1>2, <1>3 DEF IInv, TypeOK, OpAt, OpStates, HAt
<1>5. AgentCreate'
  BY <1>1, <1>2 DEF IInv, AgentCreate, Legs, Over, Lapsed, Closed, OpAt
<1>6. SetupSupervised'
  BY <1>1, <1>2 DEF IInv, SetupSupervised, Legs, OpBusy, OpAt
<1>7. CalleeCreate'
  BY <1>1, <1>2, <1>3, OpenerHandles DEF IInv, CalleeCreate, Legs, Over, Lapsed,
    Closed, OpAt, HAt
<1>8. GateNotMissed'
  BY <1>1, <1>3 DEF IInv, GateNotMissed, GateOpen, HAt
<1>9. StreamCreate'
  BY <1>1, <1>2, <1>3 DEF IInv, StreamCreate, Lapsed, Closed, OpAt, HAt
<1>10. LegsKnown'
  BY <1>1, <1>2 DEF IInv, LegsKnown, GivenUp, OpAt
<1>11. NoOrphanLeg'
  BY <1>1, <1>2, <1>3 DEF IInv, NoOrphanLeg, OpBusy, OpAt
<1>12. (RowInStep /\ ActiveIsMonitored)'
  BY DEF IInv, MonitorStarted, OthersOfHandler, RowInStep, Closed, ActiveIsMonitored
<1>13. QED
  BY <1>4, <1>5, <1>6, <1>7, <1>8, <1>9, <1>10, <1>11, <1>12 DEF IInv

LEMMA UnmuteAgentStep ==
  ASSUME IInv, NEW x \in Handlers, UnmuteAgent(x)
  PROVE  IInv'
<1>1. /\ Serving /\ h[x] = "unmute" /\ unmuted' \in BOOLEAN
      /\ UNCHANGED <<row, session, sid, leg, stray, op, sweep, start, snap, deadline,
                     fin, svc>>
  BY DEF UnmuteAgent, OthersOfHandler, At, IInv, TypeOK
<1>2. HAt(x, {"enable"})
  BY HandlerGoes DEF IInv, UnmuteAgent, HandlerPcs
<1>3. Spends
  BY FaultsSpend DEF IInv, Spends, UnmuteAgent
<1>4. TypeOK'
  BY <1>1, <1>2, <1>3 DEF IInv, TypeOK, HAt, Spends, Budgets
<1>5. AgentCreate'
  BY <1>1, <1>3 DEF IInv, AgentCreate, Over, Lapsed, Closed, Spends
<1>6. SetupSupervised'
  BY <1>1, <1>3 DEF IInv, SetupSupervised, OpBusy, Spends
<1>7. CalleeCreate'
  BY <1>1, <1>2, <1>3, OpenerHandles DEF IInv, CalleeCreate, Over, Lapsed, Closed,
    HAt, Spends
<1>8. GateNotMissed'
  BY <1>1, <1>2, <1>3 DEF IInv, GateNotMissed, GateOpen, HAt, Spends
<1>9. StreamCreate'
  BY <1>1, <1>2, <1>3 DEF IInv, StreamCreate, Lapsed, Closed, HAt, Spends
<1>10. ActiveIsMonitored'
  BY <1>1, <1>3 DEF IInv, ActiveIsMonitored, Spends
<1>11. (RowInStep /\ LegsKnown /\ NoOrphanLeg)'
  BY DEF IInv, UnmuteAgent, OthersOfHandler, RowInStep, Closed, LegsKnown, GivenUp,
    NoOrphanLeg, OpBusy
<1>12. QED
  BY <1>4, <1>5, <1>6, <1>7, <1>8, <1>9, <1>10, <1>11 DEF IInv

LEMMA EnableConversationStep ==
  ASSUME IInv, NEW x \in Handlers, EnableConversation(x)
  PROVE  IInv'
<1>1. /\ Serving /\ h[x] = "enable"
      /\ UNCHANGED <<row, session, sid, leg, stray, op, sweep, start, snap, unmuted,
                     deadline, fin, svc>>
  BY DEF EnableConversation, OthersOfHandler, At
<1>2. HAt(x, {"done", "fail"})
  BY HandlerGoes DEF IInv, EnableConversation, HandlerPcs, HAt
<1>3. Spends
  BY FaultsSpend DEF IInv, Spends, EnableConversation
<1>4. TypeOK'
  BY <1>1, <1>2, <1>3 DEF IInv, TypeOK, HAt, Spends, Budgets
<1>5. AgentCreate'
  BY <1>1, <1>3 DEF IInv, AgentCreate, Over, Lapsed, Closed, Spends
<1>6. SetupSupervised'
  BY <1>1, <1>3 DEF IInv, SetupSupervised, OpBusy, Spends
<1>7. CalleeCreate'
  BY <1>1, <1>2, <1>3, OpenerHandles DEF IInv, CalleeCreate, Over, Lapsed, Closed,
    HAt, Spends
<1>8. GateNotMissed'
  BY <1>1, <1>2, <1>3 DEF IInv, GateNotMissed, GateOpen, HAt, Spends
<1>9. StreamCreate'
  BY <1>1, <1>2, <1>3 DEF IInv, StreamCreate, Lapsed, Closed, HAt, Spends
<1>10. ActiveIsMonitored'
  BY <1>1, <1>3 DEF IInv, ActiveIsMonitored, Spends
<1>11. (RowInStep /\ LegsKnown /\ NoOrphanLeg)'
  BY DEF IInv, EnableConversation, OthersOfHandler, RowInStep, Closed, LegsKnown,
    GivenUp, NoOrphanLeg, OpBusy
<1>12. QED
  BY <1>4, <1>5, <1>6, <1>7, <1>8, <1>9, <1>10, <1>11 DEF IInv

LEMMA ActivationFailedStep ==
  ASSUME IInv, NEW x \in Handlers, ActivationFailed(x)
  PROVE  IInv'
<1>1. /\ Serving /\ h[x] = "fail"
      /\ UNCHANGED <<session, sid, leg, stray, op, sweep, start, snap, unmuted,
                     deadline, svc>>
  BY DEF ActivationFailed, OthersOfHandler, At
<1>2. HAt(x, {"done", "fatal"})
  BY HandlerGoes, HandlerBreaks DEF IInv, ActivationFailed, HandlerPcs, HAt
<1>3. Ends(FALSE)
  BY EndsBy DEF IInv, ActivationFailed
<1>4. TypeOK'
  BY <1>1, <1>2, <1>3 DEF IInv, TypeOK, HAt, Ends, Claims, RowLeft, Spends, Budgets,
    Fins
<1>5. RowInStep'
  BY <1>1, <1>3 DEF IInv, RowInStep, Serving, Closed, ClosedStates, Ends, Claims,
    RowLeft
<1>6. AgentCreate'
  BY <1>1, <1>3 DEF IInv, AgentCreate, Over, Lapsed, Stopping, Ends
<1>7. SetupSupervised'
  BY <1>1, <1>3, InSetup DEF IInv, SetupSupervised, Closed, ClosedStates,
    TerminalStates, Stopping, Ends
<1>8. CalleeCreate'
  BY <1>1, <1>3 DEF IInv, CalleeCreate, Over, Lapsed, Stopping, Ends, Claims
<1>9. GateNotMissed'
  BY <1>1, <1>3 DEF IInv, GateNotMissed, Closed, ClosedStates, TerminalStates,
    Stopping, Ends
<1>10. StreamCreate'
  BY <1>1, <1>2, <1>3 DEF IInv, StreamCreate, Lapsed, Closed, HAt, Ends, Claims,
    Spends
<1>11. ActiveIsMonitored'
  BY <1>1, <1>3 DEF IInv, ActiveIsMonitored, Ends, Claims, Spends
<1>12. NoOrphanLeg'
  BY <1>1, <1>3 DEF IInv, NoOrphanLeg, OpBusy, TerminalStates, Ends, Claims
<1>13. LegsKnown'
  BY DEF IInv, ActivationFailed, OthersOfHandler, LegsKnown, GivenUp
<1>14. QED
  BY <1>4, <1>5, <1>6, <1>7, <1>8, <1>9, <1>10, <1>11, <1>12, <1>13 DEF IInv

LEMMA DeadlineReadsStep ==
  ASSUME IInv, DeadlineReads
  PROVE  IInv'
<1>1. UNCHANGED <<row, session, sid, leg, stray, op, sweep, start, h, snap, unmuted,
                  fin, svc>>
  BY DEF DeadlineReads, OthersOfDeadline
<1>2. /\ deadline' \in {"off", "armed", "decided"}
      /\ row.state \in DOMAIN NextSetupState => deadline' # "off" \/ SpendsOnDb
  BY FaultsSpend DEF IInv, DeadlineReads
<1>3. Spends
  BY FaultsSpend DEF IInv, Spends, SpendsOnDb, DeadlineReads
<1>4. TypeOK'
  BY <1>1, <1>2, <1>3 DEF IInv, TypeOK, Budgets, Spends
<1>5. AgentCreate'
  BY <1>1, <1>3 DEF IInv, AgentCreate, Over, Lapsed, Closed, Spends
<1>6. SetupSupervised'
  BY <1>1, <1>2 DEF IInv, SetupSupervised, SpendsOnDb
<1>7. CalleeCreate'
  BY <1>1, <1>3 DEF IInv, CalleeCreate, Over, Lapsed, Closed, Spends
<1>8. GateNotMissed'
  BY <1>1, <1>3 DEF IInv, GateNotMissed, GateOpen, Spends
<1>9. StreamCreate'
  BY <1>1, <1>3 DEF IInv, StreamCreate, Lapsed, Closed, Spends
<1>10. ActiveIsMonitored'
  BY <1>1, <1>3 DEF IInv, ActiveIsMonitored, Spends
<1>11. (RowInStep /\ LegsKnown /\ NoOrphanLeg)'
  BY DEF IInv, DeadlineReads, OthersOfDeadline, RowInStep, Closed, LegsKnown, GivenUp,
    NoOrphanLeg, OpBusy
<1>12. QED
  BY <1>4, <1>5, <1>6, <1>7, <1>8, <1>9, <1>10, <1>11 DEF IInv

LEMMA DeadlineEndsStep ==
  ASSUME IInv, DeadlineEnds
  PROVE  IInv'
<1>1. /\ Serving /\ deadline' = "off"
      /\ UNCHANGED <<session, sid, leg, stray, op, sweep, start, h, snap, unmuted,
                     svc>>
  BY DEF DeadlineEnds, OthersOfDeadline
<1>2. Ends(FALSE)
  BY EndsBy DEF IInv, DeadlineEnds
<1>3. TypeOK'
  BY <1>1, <1>2 DEF IInv, TypeOK, Ends, Claims, RowLeft, Spends, Budgets, Fins
<1>4. RowInStep'
  BY <1>1, <1>2 DEF IInv, RowInStep, Serving, Closed, ClosedStates, Ends, Claims,
    RowLeft
<1>5. AgentCreate'
  BY <1>1, <1>2 DEF IInv, AgentCreate, Over, Lapsed, Stopping, Ends
<1>6. SetupSupervised'
  BY <1>1, <1>2, InSetup DEF IInv, SetupSupervised, Closed, ClosedStates,
    TerminalStates, Stopping, Ends
<1>7. CalleeCreate'
  BY <1>1, <1>2 DEF IInv, CalleeCreate, Over, Lapsed, Stopping, Ends, Claims
<1>8. GateNotMissed'
  BY <1>1, <1>2 DEF IInv, GateNotMissed, Closed, ClosedStates, TerminalStates,
    Stopping, Ends
<1>9. StreamCreate'
  BY <1>1, <1>2 DEF IInv, StreamCreate, Lapsed, Closed, Ends, Claims, Spends
<1>10. ActiveIsMonitored'
  BY <1>1, <1>2 DEF IInv, ActiveIsMonitored, Ends, Claims, Spends
<1>11. NoOrphanLeg'
  BY <1>1, <1>2 DEF IInv, NoOrphanLeg, OpBusy, TerminalStates, Ends, Claims
<1>12. LegsKnown'
  BY DEF IInv, DeadlineEnds, OthersOfDeadline, LegsKnown, GivenUp
<1>13. QED
  BY <1>3, <1>4, <1>5, <1>6, <1>7, <1>8, <1>9, <1>10, <1>11, <1>12 DEF IInv

LEMMA HangUpStep ==
  ASSUME IInv, HangUp
  PROVE  IInv'
<1>1. /\ svc = "up"
      /\ UNCHANGED <<session, sid, leg, stray, op, sweep, start, h, snap, unmuted,
                     deadline, svc>>
  BY DEF HangUp
<1>2. Ends(FALSE)
  BY EndsBy DEF IInv, HangUp
<1>3. TypeOK'
  BY <1>1, <1>2 DEF IInv, TypeOK, Ends, Claims, RowLeft, Spends, Budgets, Fins
<1>4. RowInStep'
  BY <1>1, <1>2 DEF IInv, RowInStep, Closed, ClosedStates, Ends, Claims, RowLeft
<1>5. AgentCreate'
  BY <1>1, <1>2 DEF IInv, AgentCreate, Over, Lapsed, Stopping, Ends
<1>6. SetupSupervised'
  BY <1>1, <1>2, InSetup DEF IInv, SetupSupervised, Closed, ClosedStates,
    TerminalStates, Stopping, Ends
<1>7. CalleeCreate'
  BY <1>1, <1>2 DEF IInv, CalleeCreate, Over, Lapsed, Stopping, Ends, Claims
<1>8. GateNotMissed'
  BY <1>1, <1>2 DEF IInv, GateNotMissed, Closed, ClosedStates, TerminalStates,
    Stopping, Ends
<1>9. StreamCreate'
  BY <1>1, <1>2 DEF IInv, StreamCreate, Lapsed, Ends, Claims, Stopping
<1>10. ActiveIsMonitored'
  BY <1>1, <1>2 DEF IInv, ActiveIsMonitored, Ends, Claims, Spends
<1>11. NoOrphanLeg'
  BY <1>1, <1>2 DEF IInv, NoOrphanLeg, OpBusy, TerminalStates, Ends, Claims
<1>12. LegsKnown'
  BY DEF IInv, HangUp, LegsKnown, GivenUp
<1>13. QED
  BY <1>3, <1>4, <1>5, <1>6, <1>7, <1>8, <1>9, <1>10, <1>11, <1>12 DEF IInv

LEMMA TeardownMediaStep ==
  ASSUME IInv, TeardownMedia
  PROVE  IInv'
<1>1. UNCHANGED <<row, session, sid, stray, op, sweep, start, h, snap, unmuted,
                  deadline, svc, faults>>
  BY DEF TeardownMedia
<1>2. fin.pc = "media" /\ fin' \in Fins /\ fin'.pc = "commit"
  BY Types DEF IInv, TeardownMedia, Fins
<1>3. LegsDrop /\ \A l \in Legs : leg'[l] # "live"
  BY DroppedDrops DEF IInv, TeardownMedia
<1>4. TypeOK'
  BY <1>1, <1>2, <1>3 DEF IInv, TypeOK, Fins, LegsDrop
<1>5. RowInStep'
  BY <1>1, <1>2 DEF IInv, RowInStep, Closed
<1>6. CalleeCreate'
  BY <1>1, <1>3 DEF IInv, CalleeCreate, Legs, Over, Lapsed, Closed, LegsDrop
<1>7. StreamCreate'
  BY <1>1, <1>3 DEF IInv, StreamCreate, Legs, Lapsed, Closed, LegsDrop
<1>8. LegsKnown'
  BY <1>3 DEF IInv, LegsKnown
<1>9. NoOrphanLeg'
  BY <1>3 DEF IInv, NoOrphanLeg
<1>10. (AgentCreate /\ SetupSupervised /\ GateNotMissed /\ ActiveIsMonitored)'
  BY DEF IInv, TeardownMedia, AgentCreate, Over, Lapsed, Closed, SetupSupervised,
    OpBusy, GateNotMissed, GateOpen, ActiveIsMonitored
<1>11. QED
  BY <1>4, <1>5, <1>6, <1>7, <1>8, <1>9, <1>10 DEF IInv

LEMMA CommitTerminalStep ==
  ASSUME IInv, CommitTerminal
  PROVE  IInv'
<1>1. /\ fin.pc = "commit"
      /\ UNCHANGED <<session, sid, leg, stray, op, sweep, start, h, snap, unmuted,
                     deadline, svc, faults>>
  BY DEF CommitTerminal
<1>2. fin' \in Fins /\ fin'.pc = "idle"
  BY DEF CommitTerminal, IdleFin, NoClaim, Fins, Claim, SpecialReasons, Outcomes
<1>3. /\ RowLeft /\ Closed /\ row'.state \in TerminalStates
      /\ row'.joined = row.joined /\ row'.dialed = row.dialed
  BY FinishEnds DEF IInv, CommitTerminal
<1>4. TypeOK'
  BY <1>1, <1>2, <1>3 DEF IInv, TypeOK, Fins, RowLeft
<1>5. RowInStep'
  BY <1>2, <1>3 DEF IInv, RowInStep, Closed, ClosedStates, RowLeft
<1>6. AgentCreate'
  BY <1>1, <1>3 DEF IInv, AgentCreate, Over, Lapsed, Closed, ClosedStates
<1>7. SetupSupervised'
  BY <1>3, InSetup DEF IInv, SetupSupervised, TerminalStates
<1>8. CalleeCreate'
  BY <1>1, <1>3 DEF IInv, CalleeCreate, Over, Lapsed, Closed, ClosedStates
<1>9. GateNotMissed'
  BY <1>3 DEF IInv, GateNotMissed, TerminalStates
<1>10. StreamCreate'
  BY <1>1, <1>3 DEF IInv, StreamCreate, Lapsed, Closed, ClosedStates, TerminalStates
<1>11. ActiveIsMonitored'
  BY <1>3 DEF IInv, ActiveIsMonitored, TerminalStates
<1>12. NoOrphanLeg'
  BY <1>1 DEF IInv, NoOrphanLeg, OpBusy
<1>13. LegsKnown'
  BY DEF IInv, CommitTerminal, LegsKnown, GivenUp
<1>14. QED
  BY <1>4, <1>5, <1>6, <1>7, <1>8, <1>9, <1>10, <1>11, <1>12, <1>13 DEF IInv

LEMMA StopStep ==
  ASSUME IInv, Stop
  PROVE  IInv'
<1>1. /\ svc = "up" /\ svc' = "stopping"
      /\ UNCHANGED <<row, session, sid, leg, stray, op, sweep, start, h, snap,
                     unmuted, deadline, fin>>
  BY DEF Stop
<1>2. Spends
  BY FaultsSpend DEF IInv, Spends, Stop
<1>3. TypeOK'
  BY <1>1, <1>2 DEF IInv, TypeOK, Spends, Budgets
<1>4. RowInStep'
  BY <1>1 DEF IInv, RowInStep, Closed
<1>5. AgentCreate'
  BY <1>1 DEF IInv, AgentCreate, Over
<1>6. SetupSupervised'
  BY <1>1 DEF IInv, SetupSupervised
<1>7. CalleeCreate'
  BY <1>1 DEF IInv, CalleeCreate, Over
<1>8. GateNotMissed'
  BY <1>1 DEF IInv, GateNotMissed
<1>9. StreamCreate'
  BY <1>1, <1>2 DEF IInv, StreamCreate, Lapsed, Closed, Spends
<1>10. ActiveIsMonitored'
  BY <1>1, <1>2 DEF IInv, ActiveIsMonitored, Spends
<1>11. (LegsKnown /\ NoOrphanLeg)'
  BY DEF IInv, Stop, LegsKnown, GivenUp, NoOrphanLeg, OpBusy
<1>12. QED
  BY <1>3, <1>4, <1>5, <1>6, <1>7, <1>8, <1>9, <1>10, <1>11 DEF IInv

LEMMA DrainStep ==
  ASSUME IInv, Drain
  PROVE  IInv'
<1>1. /\ svc = "stopping" /\ svc' = "draining"
      /\ UNCHANGED <<session, sid, leg, stray, op, sweep, start, h, snap, unmuted>>
  BY DEF Drain
<1>2. deadline' \in {"off", "armed", "decided"}
  BY DEF IInv, TypeOK, Drain
<1>3. Ends(TRUE)
  BY EndsBy DEF IInv, Drain
<1>4. TypeOK'
  BY <1>1, <1>2, <1>3 DEF IInv, TypeOK, Ends, Claims, RowLeft, Spends, Budgets, Fins
<1>5. RowInStep'
  BY <1>1, <1>3 DEF IInv, RowInStep, Closed, ClosedStates, Ends, Claims, RowLeft
<1>6. AgentCreate'
  BY <1>1 DEF IInv, AgentCreate, Over
<1>7. SetupSupervised'
  BY <1>3, InSetup DEF IInv, SetupSupervised, Closed, ClosedStates, TerminalStates,
    Ends
<1>8. CalleeCreate'
  BY <1>1, <1>3 DEF IInv, CalleeCreate, Over, Ends, Claims
<1>9. GateNotMissed'
  BY <1>3 DEF IInv, GateNotMissed, Closed, ClosedStates, TerminalStates, Ends
<1>10. StreamCreate'
  BY <1>1, <1>3 DEF IInv, StreamCreate, Lapsed, Ends, Claims
<1>11. ActiveIsMonitored'
  BY <1>3 DEF IInv, ActiveIsMonitored, Closed, ClosedStates, TerminalStates, Ends
<1>12. NoOrphanLeg'
  BY <1>1, <1>3 DEF IInv, NoOrphanLeg, OpBusy, TerminalStates, Ends, Claims
<1>13. LegsKnown'
  BY DEF IInv, Drain, LegsKnown, GivenUp
<1>14. QED
  BY <1>4, <1>5, <1>6, <1>7, <1>8, <1>9, <1>10, <1>11, <1>12, <1>13 DEF IInv

LEMMA ExitStep ==
  ASSUME IInv, Exit
  PROVE  IInv'
<1>1. /\ svc = "draining" /\ Quiet
      /\ UNCHANGED <<row, session, sid, leg, stray, unmuted, faults>>
  BY DEF Exit, Gone
<1>2. op' \in [Legs -> OpStates] /\ \A l \in Legs : op'[l].pc = "none"
  BY DEF Exit, Gone, IdleOp, OpStates, OpPcs
<1>3. /\ sweep' \in [Legs -> Sweeps]
      /\ \A l \in Legs : sweep'[l].left = 0 /\ sweep'[l].gaveUp = sweep[l].gaveUp
  BY Types, SetupBounds DEF IInv, Exit, Gone, Sweeps
<1>4. h' \in [Handlers -> HandlerPcs] /\ \A x \in Handlers : h'[x] = "done"
  BY DEF Exit, Gone, HandlerPcs
<1>5. fin' \in Fins /\ fin'.pc = "idle"
  BY DEF Exit, Gone, IdleFin, NoClaim, Fins, Claim, SpecialReasons, Outcomes
<1>6. svc' = "down" /\ start' = "done" /\ deadline' = "off" /\ snap' \in BOOLEAN
  BY DEF Exit, Gone
<1>7. TypeOK'
  BY <1>1, <1>2, <1>3, <1>4, <1>5, <1>6 DEF IInv, TypeOK, OpStates, Sweeps, Fins
<1>8. RowInStep'
  BY <1>1, <1>5, <1>6 DEF IInv, RowInStep, Closed
<1>9. AgentCreate'
  BY <1>2, <1>6 DEF IInv, AgentCreate, Legs
<1>10. SetupSupervised'
  BY <1>6 DEF IInv, SetupSupervised
<1>11. CalleeCreate'
  BY <1>1, <1>2 DEF IInv, CalleeCreate, Legs
<1>12. GateNotMissed'
  BY <1>6 DEF IInv, GateNotMissed
<1>13. StreamCreate'
  BY <1>1, <1>2, <1>4 DEF IInv, StreamCreate, Legs
<1>14. LegsKnown'
  BY <1>2 DEF IInv, LegsKnown
<1>15. NoOrphanLeg'
  BY <1>1, <1>3, <1>5 DEF IInv, NoOrphanLeg, Quiet
<1>16. ActiveIsMonitored'
  BY DEF IInv, Exit, Gone, ActiveIsMonitored
<1>17. QED
  BY <1>7, <1>8, <1>9, <1>10, <1>11, <1>12, <1>13, <1>14, <1>15, <1>16 DEF IInv

LEMMA CrashStep ==
  ASSUME IInv, Crash
  PROVE  IInv'
<1>1. UNCHANGED <<row, session, sid, unmuted>>
  BY DEF Crash, Gone
<1>2. op' \in [Legs -> OpStates] /\ \A l \in Legs : op'[l].pc = "none"
  BY DEF Crash, Gone, IdleOp, OpStates, OpPcs
<1>3. /\ sweep' \in [Legs -> Sweeps]
      /\ \A l \in Legs : sweep'[l].left = 0 /\ sweep'[l].gaveUp = sweep[l].gaveUp
  BY Types, SetupBounds DEF IInv, Crash, Gone, Sweeps
<1>4. h' \in [Handlers -> HandlerPcs] /\ \A x \in Handlers : h'[x] = "done"
  BY DEF Crash, Gone, HandlerPcs
<1>5. fin' \in Fins /\ fin'.pc = "idle"
  BY DEF Crash, Gone, IdleFin, NoClaim, Fins, Claim, SpecialReasons, Outcomes
<1>6. svc' = "down" /\ start' = "done" /\ deadline' = "off" /\ snap' \in BOOLEAN
  BY DEF Crash, Gone
<1>7. /\ leg' \in [Legs -> LegStates] /\ stray' \subseteq Legs /\ stray \subseteq stray'
      /\ \A l \in Legs : \/ leg'[l] = "live" /\ l \in stray' /\ op[l].pc \in {"creating", "settling"}
                        \/ /\ leg'[l] = leg[l]
                           /\ (OpBusy(l) \/ sweep[l].left > 0) /\ leg[l] = "live" => l \in stray'
  BY DEF IInv, TypeOK, Crash, LegStates
<1>8. Spends
  BY FaultsSpend DEF IInv, Spends, Crash
<1>9. TypeOK'
  BY <1>1, <1>2, <1>3, <1>4, <1>5, <1>6, <1>7, <1>8 DEF IInv, TypeOK, OpStates,
    Sweeps, Fins, Spends, Budgets
<1>10. RowInStep'
  BY <1>1, <1>5, <1>6 DEF IInv, RowInStep, Closed
<1>11. AgentCreate'
  BY <1>2, <1>6 DEF IInv, AgentCreate, Legs
<1>12. SetupSupervised'
  BY <1>6 DEF IInv, SetupSupervised
<1>13. CalleeCreate'
  BY <1>1, <1>2, <1>7 DEF IInv, CalleeCreate, Legs
<1>14. GateNotMissed'
  BY <1>6 DEF IInv, GateNotMissed
<1>15. StreamCreate'
  BY <1>1, <1>2, <1>4, <1>7 DEF IInv, StreamCreate, Legs
<1>16. ActiveIsMonitored'
  BY <1>1, <1>8 DEF IInv, ActiveIsMonitored, Spends
<1>17. LegsKnown'
  BY <1>2 DEF IInv, LegsKnown
<1>18. NoOrphanLeg'
  BY <1>1, <1>3, <1>5, <1>7 DEF IInv, NoOrphanLeg
<1>19. QED
  BY <1>9, <1>10, <1>11, <1>12, <1>13, <1>14, <1>15, <1>16, <1>17, <1>18 DEF IInv

LEMMA RestartStep ==
  ASSUME IInv, Restart
  PROVE  IInv'
<1>1. /\ svc = "down" /\ svc' = "booting"
      /\ UNCHANGED <<row, session, sid, leg, stray, op, sweep, start, h, snap,
                     unmuted, deadline, fin, faults>>
  BY DEF Restart
<1>2. TypeOK'
  BY <1>1 DEF IInv, TypeOK
<1>3. RowInStep'
  BY <1>1 DEF IInv, RowInStep, Closed
<1>4. AgentCreate'
  BY <1>1 DEF IInv, AgentCreate, Over
<1>5. SetupSupervised'
  BY <1>1 DEF IInv, SetupSupervised
<1>6. CalleeCreate'
  BY <1>1 DEF IInv, CalleeCreate, Over
<1>7. GateNotMissed'
  BY <1>1 DEF IInv, GateNotMissed
<1>8. (StreamCreate /\ ActiveIsMonitored /\ LegsKnown /\ NoOrphanLeg)'
  BY DEF IInv, Restart, StreamCreate, Lapsed, Closed, ActiveIsMonitored, LegsKnown,
    GivenUp, NoOrphanLeg, OpBusy
<1>9. QED
  BY <1>2, <1>3, <1>4, <1>5, <1>6, <1>7, <1>8 DEF IInv

LEMMA RecoverCallStep ==
  ASSUME IInv, RecoverCall
  PROVE  IInv'
<1>1. UNCHANGED <<session, sid, leg, stray, op, sweep, start, h, snap, unmuted,
                  deadline>>
  BY DEF RecoverCall
<1>2. /\ svc = "booting" /\ svc' \in {"recovering", "stopping"}
      /\ fin' \in Fins
      /\ RowLeft /\ row'.joined = row.joined /\ row'.dialed = row.dialed
      /\ row' = row \/ (row.state \notin TerminalStates /\ row'.state = "terminating")
      /\ svc' = "recovering" => Closed'
      /\ fin'.pc = "idle" \/ (fin'.pc = "media" /\ Closed')
  BY RecoveryCloses DEF IInv, RecoverCall
<1>3. Spends
  BY FaultsSpend DEF IInv, Spends, SpendsOnDb, RecoverCall, Answered, Raised
<1>4. TypeOK'
  BY <1>1, <1>2, <1>3 DEF IInv, TypeOK, Fins, RowLeft, Spends, Budgets
<1>5. RowInStep'
  BY <1>2 DEF IInv, RowInStep, Closed, RowLeft
<1>6. AgentCreate'
  BY <1>1, <1>2 DEF IInv, AgentCreate, Over
<1>7. SetupSupervised'
  BY <1>2 DEF IInv, SetupSupervised
<1>8. CalleeCreate'
  BY <1>1, <1>2 DEF IInv, CalleeCreate, Over
<1>9. GateNotMissed'
  BY <1>2 DEF IInv, GateNotMissed
<1>10. StreamCreate'
  BY <1>1, <1>2, <1>3 DEF IInv, StreamCreate, Lapsed, Closed, ClosedStates, Spends
<1>11. ActiveIsMonitored'
  BY <1>1, <1>2, <1>3 DEF IInv, ActiveIsMonitored, Spends
<1>12. NoOrphanLeg'
  BY <1>1, <1>2 DEF IInv, NoOrphanLeg, OpBusy, TerminalStates
<1>13. LegsKnown'
  BY DEF IInv, RecoverCall, LegsKnown, GivenUp
<1>14. QED
  BY <1>4, <1>5, <1>6, <1>7, <1>8, <1>9, <1>10, <1>11, <1>12, <1>13 DEF IInv

LEMMA FinishRecoveryStep ==
  ASSUME IInv, FinishRecovery
  PROVE  IInv'
<1>1. /\ svc = "recovering" /\ svc' = "up"
      /\ UNCHANGED <<row, session, sid, leg, stray, op, sweep, start, h, snap,
                     unmuted, deadline, fin, faults>>
  BY DEF FinishRecovery
<1>2. TypeOK'
  BY <1>1 DEF IInv, TypeOK
<1>3. RowInStep'
  BY <1>1 DEF IInv, RowInStep, Closed
<1>4. AgentCreate'
  BY <1>1 DEF IInv, AgentCreate, Over, Lapsed, Closed, RowInStep
<1>5. SetupSupervised'
  BY <1>1, InSetup DEF IInv, SetupSupervised, Closed, ClosedStates, TerminalStates,
    RowInStep
<1>6. CalleeCreate'
  BY <1>1 DEF IInv, CalleeCreate, Over, Lapsed, Closed, RowInStep
<1>7. GateNotMissed'
  BY <1>1 DEF IInv, GateNotMissed, Closed, ClosedStates, TerminalStates, RowInStep
<1>8. (StreamCreate /\ ActiveIsMonitored /\ LegsKnown /\ NoOrphanLeg)'
  BY DEF IInv, FinishRecovery, StreamCreate, Lapsed, Closed, ActiveIsMonitored,
    LegsKnown, GivenUp, NoOrphanLeg, OpBusy
<1>9. QED
  BY <1>2, <1>3, <1>4, <1>5, <1>6, <1>7, <1>8 DEF IInv

-----------------------------------------------------------------------------
LEMMA InitHolds == Init => IInv
<1> SUFFICES ASSUME Init PROVE IInv
  OBVIOUS
<1> USE DEF Init
<1>1. /\ NewRow \in Row /\ NewRow.state = "prewarming" /\ NewRow.outcome = "none"
      /\ ~NewRow.claimed /\ ~NewRow.joined
  BY DEF NewRow, Row, CallStates, EligibleStates, SpecialReasons, Outcomes
<1>2. fin \in Fins /\ fin.pc = "idle"
  BY DEF IdleFin, NoClaim, Fins, Claim, SpecialReasons, Outcomes
<1>3. /\ NewOp \in OpStates /\ NewOp.pc = "creating"
      /\ IdleOp \in OpStates /\ IdleOp.pc = "none"
  BY DEF NewOp, IdleOp, OpStates, OpPcs
<1>4. /\ op \in [Legs -> OpStates] /\ op["agent"].pc = "creating"
      /\ \A l \in Legs : l # "agent" => op[l].pc = "none"
  BY <1>3 DEF Legs
<1>5. sweep \in [Legs -> Sweeps]
  BY SetupBounds DEF Sweeps
<1>6. faults \in Budgets
  BY SetupBounds DEF Budgets
<1>7. h \in [Handlers -> HandlerPcs] /\ \A x \in Handlers : h[x] = "idle"
  BY DEF HandlerPcs
<1>8. TypeOK
  BY <1>1, <1>2, <1>4, <1>5, <1>6, <1>7 DEF TypeOK, Fins, OpStates, Sweeps, Budgets
<1>9. row.state \notin ClosedStates
  BY <1>1 DEF ClosedStates, TerminalStates
<1>10. RowInStep
  BY <1>1, <1>2, <1>9 DEF RowInStep, Closed
<1>11. AgentCreate /\ SetupSupervised
  BY <1>4 DEF AgentCreate, SetupSupervised
<1>12. CalleeCreate /\ GateNotMissed
  BY <1>4 DEF CalleeCreate, GateNotMissed, GateOpen, Legs
<1>13. StreamCreate /\ ActiveIsMonitored
  BY <1>1, <1>4 DEF StreamCreate, ActiveIsMonitored, Legs
<1>14. LegsKnown /\ NoOrphanLeg
  BY DEF LegsKnown, NoOrphanLeg
<1>15. QED
  BY <1>8, <1>10, <1>11, <1>12, <1>13, <1>14 DEF IInv

LEMMA CreateHolds ==
  ASSUME IInv, NEW l \in Legs, Create(l) \/ RetryRemoval(l)
  PROVE  IInv'
  BY CreateLegStep, CreateFailedStep, CheckCallStep, AdoptLegStep,
    PersistAbandonedStep, RemoveAbandonedStep, TerminalizeAbandonedStep,
    RetryRemovalStep DEF Create

LEMMA HandlerHolds ==
  ASSUME IInv, NEW x \in Handlers, CalleeAnswered(x) \/ ReadGate(x) \/ Activate(x)
  PROVE  IInv'
  BY CalleeAnsweredStep, ReadGateStep, PromoteGateStep, PromoteClaimStep,
    PromoteActiveStep, LoadCallStep, MonitorStartedStep, UnmuteAgentStep,
    EnableConversationStep, ActivationFailedStep DEF Activate, PromoteGate,
    PromoteClaim, PromoteActive

LEMMA NextHolds == IInv /\ [Next]_vars => IInv'
<1> SUFFICES ASSUME IInv, [Next]_vars PROVE IInv'
  OBVIOUS
<1>1. CASE \E l \in Legs : Create(l) \/ RetryRemoval(l)
  BY <1>1, CreateHolds
<1>2. CASE StartReturns \/ CancelStart \/ CancelOpener \/ CalleeLeaves
  BY <1>2, StartReturnsStep, CancelStartStep, CancelOpenerStep, CalleeLeavesStep
<1>3. CASE BindSession \/ Opener
  BY <1>3, BindSessionStep, VerifySessionStep, DialCalleeStep, CalleeDialledStep,
    SidebandFatalStep DEF Opener
<1>4. CASE \E x \in Handlers : CalleeAnswered(x) \/ ReadGate(x) \/ Activate(x)
  BY <1>4, HandlerHolds
<1>5. CASE Deadline \/ HangUp \/ Finisher
  BY <1>5, DeadlineReadsStep, DeadlineEndsStep, HangUpStep, TeardownMediaStep,
    CommitTerminalStep DEF Deadline, Finisher
<1>6. CASE Stop \/ Drain \/ Exit \/ Crash \/ Restart \/ RecoverCall \/ FinishRecovery
  BY <1>6, StopStep, DrainStep, ExitStep, CrashStep, RestartStep, RecoverCallStep,
    FinishRecoveryStep
<1>7. CASE UNCHANGED vars
  BY <1>7 DEF vars, IInv, TypeOK, RowInStep, AgentCreate, SetupSupervised,
    CalleeCreate, GateNotMissed, GateOpen, StreamCreate, ActiveIsMonitored, LegsKnown,
    NoOrphanLeg, GivenUp, OpBusy, Over, Lapsed, Closed
<1>8. QED
  BY <1>1, <1>2, <1>3, <1>4, <1>5, <1>6, <1>7 DEF Next

-----------------------------------------------------------------------------
(* The inductive invariant holds in every reachable state, for every number  *)
(* of callbacks, faults and retries.                                         *)
THEOREM IInvAlways == Spec => []IInv
  BY InitHolds, NextHolds, PTL DEF Spec

(* Every variable keeps its type.                                            *)
THEOREM TypesHold == Spec => []TypeOK
<1>1. IInv => TypeOK
  BY DEF IInv
<1>2. QED
  BY <1>1, IInvAlways, PTL

(* No schedule of creates, cancellations, failures and deaths leaves a leg   *)
(* at the provider that no task will remove and no record excuses            *)
(* (_execute_owned_remote_create and the two abandon compensations).         *)
THEOREM LegsAreNotOrphaned == Spec => []NoOrphanLeg
<1>1. IInv => NoOrphanLeg
  BY DEF IInv
<1>2. QED
  BY <1>1, IInvAlways, PTL

(* Whichever of the sideband and any number of callbacks comes last, the     *)
(* activation gate is looked at by someone (_check_activation_gate).         *)
THEOREM GateIsNotMissed == Spec => []GateNotMissed
<1>1. IInv => GateNotMissed
  BY DEF IInv
<1>2. QED
  BY <1>1, IInvAlways, PTL

(* A call is not active without a carrier stream (_activate).                *)
THEOREM ActiveCallsAreMonitored == Spec => []ActiveIsMonitored
<1>1. IInv => ActiveIsMonitored
  BY DEF IInv
<1>2. QED
  BY <1>1, IInvAlways, PTL

(* No cancellation of start() leaves a call in set-up to itself.             *)
THEOREM SetupIsSupervised == Spec => []SetupSupervised
<1>1. IInv => SetupSupervised
  BY DEF IInv
<1>2. QED
  BY <1>1, IInvAlways, PTL

-----------------------------------------------------------------------------
(* The refinement of CallRow.                                                *)

Booted   == svc \notin {"down", "booting"}
Refining == UNCHANGED Durable!vars \/ Durable!Next

LEMMA RowUntouched ==
  ASSUME UNCHANGED <<row, HeldClaims>>, Booted' <=> Booted
  PROVE  Refining
<1>1. (svc \in {"down", "booting"})' = (svc \in {"down", "booting"})
  BY DEF Booted
<1>2. QED
  BY <1>1 DEF Refining, Durable!vars

LEMMA PromoteRefines ==
  ASSUME NEW from \in {"prewarming", "ready_to_activate", "activating"},
         CanPromote(row, from), row' = Promote(row, from),
         UNCHANGED fin, Booted, Booted'
  PROVE  Refining
<1>1. from \in DOMAIN Durable!NextSetupState
  BY DEF Durable!NextSetupState, Durable!EligibleStates
<1>2. Durable!NextSetupState = NextSetupState
  BY DEF Durable!NextSetupState, Durable!EligibleStates, NextSetupState, EligibleStates
<1>3. Durable!CanPromote(row, from) /\ row' = Durable!Promote(row, from)
  BY <1>2 DEF Durable!CanPromote, Durable!Promote, CanPromote, Promote
<1>4. Durable!Write(Durable!CanPromote(row, from), Durable!Promote(row, from))
  BY <1>3 DEF Durable!Write, HeldClaims, Booted
<1>5. QED
  BY <1>1, <1>4 DEF Refining, Durable!Next, Durable!Setup

LEMMA JoinRefines ==
  ASSUME CanSetJoined(row), row' = SetJoined(row), UNCHANGED fin, Booted, Booted'
  PROVE  Refining
<1>1. Durable!Write(Durable!CanSetJoined(row), Durable!SetJoined(row))
  BY DEF Durable!Write, Durable!CanSetJoined, Durable!SetJoined, CanSetJoined, SetJoined,
         HeldClaims, Booted
<1>2. QED
  BY <1>1 DEF Refining, Durable!Next, Durable!Setup

LEMMA DialRefines ==
  ASSUME CanClaimDial(row), row' = ClaimDial(row), UNCHANGED fin, Booted, Booted'
  PROVE  Refining
<1>1. Durable!Write(Durable!CanClaimDial(row), Durable!ClaimDial(row))
  BY DEF Durable!Write, Durable!CanClaimDial, Durable!ClaimDial, CanClaimDial, ClaimDial,
         HeldClaims, Booted
<1>2. QED
  BY <1>1 DEF Refining, Durable!Next, Durable!Setup

(* A claim hands its ticket to the teardown, or to nobody.                   *)
LEMMA ClaimRefines ==
  ASSUME NEW reason \in OrdinaryReasons, CanClaimTermination(row),
         row' = ClaimTermination(row, reason),
         fin' = Teardown(row') \/ UNCHANGED fin, Booted, Booted'
  PROVE  Refining
<1>1. /\ Durable!CanClaimTermination(row)
      /\ row' = Durable!ClaimTermination(row, reason)
  BY DEF Durable!CanClaimTermination, Durable!ClaimTermination,
    Durable!TerminalStates, CanClaimTermination, ClaimTermination, TerminalStates
<1>2. HeldClaims' \subseteq HeldClaims \cup {Durable!TicketOf(row')}
  BY DEF HeldClaims, Teardown, ClaimOf, Durable!TicketOf
<1>3. Durable!WriteAndOwn(Durable!CanClaimTermination(row),
                          Durable!ClaimTermination(row, reason))
  BY <1>1, <1>2 DEF Durable!WriteAndOwn, Booted
<1>4. QED
  BY <1>3 DEF Refining, Durable!Next, Durable!Terminate

LEMMA EndingRefines ==
  ASSUME NEW reason \in {SetupFailed, "setup_deadline"}, NEW bypass \in BOOLEAN,
         Terminate(reason, bypass) \/ TerminateRaises(reason, bypass), Booted, Booted'
  PROVE  Refining
<1>1. reason \in OrdinaryReasons
  BY SetupBounds DEF SetupFailed
<1>2. \/ UNCHANGED <<row, fin>>
      \/ /\ CanClaimTermination(row) /\ row' = ClaimTermination(row, reason)
         /\ fin' = Teardown(row') \/ UNCHANGED fin
  BY DEF Terminate, TerminateRaises
<1>3. CASE UNCHANGED <<row, fin>>
  BY <1>3, RowUntouched DEF HeldClaims
<1>4. QED
  BY <1>1, <1>2, <1>3, ClaimRefines

LEMMA FinishRefines ==
  ASSUME IInv, CommitTerminal
  PROVE  Refining
<1>1. Booted /\ Booted'
  BY DEF IInv, RowInStep, CommitTerminal, Booted
<1>2. fin.claim \in HeldClaims /\ HeldClaims' = {}
  BY DEF CommitTerminal, HeldClaims, IdleFin
<1>3. /\ Durable!CanFinishTermination(row, fin.claim.reason, fin.claim.outcome)
      /\ row' = Durable!FinishTermination(row, fin.claim.reason)
  BY DEF CommitTerminal, Durable!CanFinishTermination, Durable!FinishTermination,
    CanFinishTermination, FinishTermination, ClassifyTerminalState,
    Durable!ClassifyTerminalState
<1>4. Durable!Finish
  BY <1>1, <1>2, <1>3 DEF Durable!Finish, Durable!Write, Booted
<1>5. QED
  BY <1>4 DEF Refining, Durable!Next

(* The process dies, from service or before it has adopted the call.         *)
LEMMA GoneRefines ==
  ASSUME IInv, Gone
  PROVE  Refining
<1>1. UNCHANGED row /\ HeldClaims' = {} /\ ~Booted'
  BY DEF Gone, HeldClaims, IdleFin, Booted
<1>2. CASE Booted
  <2>1. Durable!Crash
    BY <1>1, <1>2 DEF Durable!Crash, Booted
  <2>2. QED
    BY <2>1 DEF Refining, Durable!Next
<1>3. CASE ~Booted
  <2>1. HeldClaims = {}
    BY <1>3 DEF IInv, RowInStep, HeldClaims, Booted
  <2>2. QED
    BY <1>1, <1>3, <2>1, RowUntouched
<1>4. QED
  BY <1>2, <1>3

LEMMA RecoveryRefines ==
  ASSUME IInv, RecoverCall
  PROVE  Refining
<1>1. ~Booted /\ Booted' /\ HeldClaims = {} /\ svc \in {"down", "booting"}
  BY DEF RecoverCall, IInv, RowInStep, HeldClaims, Booted
<1>2. /\ CanClaimRecovery(row, row.outcome) <=> Durable!CanClaimRecovery(row, row.outcome)
      /\ ClaimRecovery(row, row.outcome) = Durable!ClaimRecovery(row, row.outcome)
  BY DEF CanClaimRecovery, ClaimRecovery, Durable!CanClaimRecovery,
    Durable!ClaimRecovery, TerminalStates, Durable!TerminalStates
<1>3. CASE /\ CanClaimRecovery(row, row.outcome) /\ row' = ClaimRecovery(row, row.outcome)
           /\ fin' = Teardown(ClaimRecovery(row, row.outcome))
  <2>1. HeldClaims' = {Durable!TicketOf(row')}
    BY <1>3 DEF HeldClaims, Teardown, ClaimOf, Durable!TicketOf
  <2>2. Durable!Recover
    BY <1>1, <1>2, <1>3, <2>1 DEF Durable!Recover, Booted
  <2>3. QED
    BY <2>2 DEF Refining, Durable!Next
<1>4. CASE ~CanClaimRecovery(row, row.outcome) /\ UNCHANGED row /\ fin' = IdleFin
  <2>1. HeldClaims' = {}
    BY <1>4 DEF HeldClaims, IdleFin
  <2>2. Durable!Recover
    BY <1>1, <1>2, <1>4, <2>1 DEF Durable!Recover, Booted
  <2>3. QED
    BY <2>2 DEF Refining, Durable!Next
<1>5. CASE /\ UNCHANGED fin
           /\ \/ UNCHANGED row
              \/ CanClaimRecovery(row, row.outcome) /\ row' = ClaimRecovery(row, row.outcome)
  <2>1. HeldClaims' = {}
    BY <1>1, <1>5 DEF HeldClaims
  <2>2. CASE CanClaimRecovery(row, row.outcome)
    <3>1. Durable!FailBoot
      BY <1>1, <1>2, <1>5, <2>1, <2>2 DEF Durable!FailBoot, Booted
    <3>2. QED
      BY <3>1 DEF Refining, Durable!Next
  <2>3. CASE ~CanClaimRecovery(row, row.outcome)
    <3>1. Durable!Recover
      BY <1>1, <1>2, <1>5, <2>1, <2>3 DEF Durable!Recover, Booted
    <3>2. QED
      BY <3>1 DEF Refining, Durable!Next
  <2>4. QED
    BY <2>2, <2>3
<1>6. QED
  BY <1>3, <1>4, <1>5 DEF RecoverCall, Answered, Raised

LEMMA CreateRefines ==
  ASSUME IInv, NEW l \in Legs, Create(l) \/ RetryRemoval(l)
  PROVE  Refining
<1>1. Booted /\ Booted'
  BY DEF Create, CreateLeg, CreateFailed, CheckCall, AdoptLeg, PersistAbandoned,
    RemoveAbandoned, TerminalizeAbandoned, RetryRemoval, OthersOfOp, Serving, Booted
<1>2. CASE CreateFailed(l) \/ TerminalizeAbandoned(l)
  BY <1>1, <1>2, EndingRefines DEF CreateFailed, TerminalizeAbandoned
<1>3. CASE \/ CreateLeg(l) \/ CheckCall(l) \/ AdoptLeg(l) \/ PersistAbandoned(l)
           \/ RemoveAbandoned(l) \/ RetryRemoval(l)
  <2>1. UNCHANGED <<row, fin>>
    BY <1>3 DEF CreateLeg, CheckCall, AdoptLeg, PersistAbandoned, RemoveAbandoned,
      RetryRemoval
  <2>2. QED
    BY <1>1, <2>1, RowUntouched DEF HeldClaims
<1>4. QED
  BY <1>2, <1>3 DEF Create

LEMMA OpenerRefines ==
  ASSUME IInv, BindSession \/ Opener
  PROVE  Refining
<1>1. Booted /\ Booted'
  BY DEF BindSession, Opener, VerifySession, DialCallee, CalleeDialled, SidebandFatal,
    OthersOfHandler, At, Serving, Booted
<1>2. CASE BindSession \/ CalleeDialled
  <2>1. UNCHANGED <<row, fin>>
    BY <1>2 DEF BindSession, CalleeDialled
  <2>2. QED
    BY <1>1, <2>1, RowUntouched DEF HeldClaims
<1>3. CASE VerifySession
  <2>1. CASE UNCHANGED <<row, fin>>
    BY <1>1, <2>1, RowUntouched DEF HeldClaims
  <2>2. CASE Terminate(SetupFailed, FALSE) \/ TerminateRaises(SetupFailed, FALSE)
    BY <1>1, <2>2, EndingRefines
  <2>3. \/ UNCHANGED <<row, fin>>
        \/ Terminate(SetupFailed, FALSE) \/ TerminateRaises(SetupFailed, FALSE)
    BY <1>3, Zenon DEF VerifySession
  <2>4. QED
    BY <2>1, <2>2, <2>3, Zenon
<1>4. CASE DialCallee
  <2>1. UNCHANGED fin /\ (UNCHANGED row \/ (CanClaimDial(row) /\ row' = ClaimDial(row)))
    BY <1>4 DEF DialCallee, Answered, Raised
  <2>2. CASE UNCHANGED row
    BY <1>1, <2>1, <2>2, RowUntouched DEF HeldClaims
  <2>3. QED
    BY <1>1, <2>1, <2>2, DialRefines
<1>5. CASE SidebandFatal
  BY <1>1, <1>5, EndingRefines DEF SidebandFatal
<1>6. QED
  BY <1>2, <1>3, <1>4, <1>5 DEF Opener

LEMMA HandlerRefines ==
  ASSUME IInv, NEW x \in Handlers, CalleeAnswered(x) \/ ReadGate(x) \/ Activate(x)
  PROVE  Refining
<1>1. Booted /\ Booted'
  BY DEF CalleeAnswered, ReadGate, Activate, PromoteCall, LoadCall, MonitorStarted,
    UnmuteAgent, EnableConversation, ActivationFailed, OthersOfHandler, At, Serving,
    Booted
<1>2. CASE \/ ReadGate(x) \/ LoadCall(x) \/ MonitorStarted(x) \/ UnmuteAgent(x)
           \/ EnableConversation(x)
  <2>1. UNCHANGED <<row, fin>>
    BY <1>2 DEF ReadGate, LoadCall, MonitorStarted, UnmuteAgent, EnableConversation
  <2>2. QED
    BY <1>1, <2>1, RowUntouched DEF HeldClaims
<1>3. CASE CalleeAnswered(x)
  <2>1. UNCHANGED fin /\ (UNCHANGED row \/ (CanSetJoined(row) /\ row' = SetJoined(row)))
    BY <1>3 DEF CalleeAnswered, Answered, Raised
  <2>2. CASE UNCHANGED row
    BY <1>1, <2>1, <2>2, RowUntouched DEF HeldClaims
  <2>3. QED
    BY <1>1, <2>1, <2>2, JoinRefines
<1>4. ASSUME NEW pc, NEW next, NEW from \in {"prewarming", "ready_to_activate", "activating"},
             PromoteCall(x, pc, from, next)
      PROVE  Refining
  <2>1. /\ UNCHANGED fin
        /\ UNCHANGED row \/ (CanPromote(row, from) /\ row' = Promote(row, from))
    BY <1>4 DEF PromoteCall, Answered, Raised
  <2>2. CASE UNCHANGED row
    BY <1>1, <2>1, <2>2, RowUntouched DEF HeldClaims
  <2>3. QED
    BY <1>1, <2>1, <2>2, PromoteRefines
<1>5. CASE ActivationFailed(x)
  BY <1>1, <1>5, EndingRefines DEF ActivationFailed
<1>6. QED
  BY <1>2, <1>3, <1>4, <1>5 DEF Activate

LEMMA ProcessRefines ==
  ASSUME IInv,
         \/ Deadline \/ HangUp \/ Finisher
         \/ Stop \/ Drain \/ Exit \/ Crash \/ Restart \/ RecoverCall \/ FinishRecovery
  PROVE  Refining
<1>1. CASE DeadlineReads \/ Stop \/ Restart \/ FinishRecovery
  <2>1. UNCHANGED <<row, fin>> /\ (Booted' <=> Booted)
    BY <1>1 DEF DeadlineReads, OthersOfDeadline, Stop, Restart, FinishRecovery, Booted
  <2>2. QED
    BY <2>1, RowUntouched DEF HeldClaims
<1>2. CASE DeadlineEnds \/ HangUp \/ Drain
  <2>1. svc \in {"up", "stopping", "draining"} /\ (UNCHANGED svc \/ svc' = "draining")
    BY <1>2, Zenon DEF DeadlineEnds, OthersOfDeadline, HangUp, Drain, Serving
  <2>2. Booted /\ Booted'
    BY <2>1 DEF Booted
  <2>3. QED
    BY <1>2, <2>2, EndingRefines DEF DeadlineEnds, HangUp, Drain
<1>3. CASE TeardownMedia
  <2>1. HeldClaims' = HeldClaims
    BY <1>3 DEF TeardownMedia, HeldClaims
  <2>2. QED
    BY <1>3, <2>1, RowUntouched DEF TeardownMedia, Booted
<1>4. QED
  BY <1>1, <1>2, <1>3, FinishRefines, GoneRefines, RecoveryRefines DEF Deadline,
    Finisher, Exit, Crash

LEMMA StepRefines ==
  ASSUME IInv, [Next]_vars
  PROVE  Refining
<1>1. CASE StartReturns \/ CancelStart \/ CancelOpener \/ CalleeLeaves \/ UNCHANGED vars
  <2>1. UNCHANGED <<row, fin, svc>>
    BY <1>1 DEF StartReturns, CancelStart, CancelOpener, CalleeLeaves, OthersOfCaller,
      vars
  <2>2. QED
    BY <2>1, RowUntouched DEF HeldClaims, Booted
<1>2. QED
  BY <1>1, CreateRefines, OpenerRefines, HandlerRefines, ProcessRefines DEF Next

(* Set-up, its compensations, the deadline, shutdown and recovery write the  *)
(* call's row only as CallRow allows, so what CallRowProofs proves of a row  *)
(* holds of this one.                                                        *)
THEOREM SetupRefinesCallRow == Spec => RefinesCallRow
<1>1. Init => Durable!Init
  BY DEF Init, Durable!Init, Durable!NewRow, NewRow, HeldClaims, IdleFin
<1>2. IInv /\ [Next]_vars
        => [Durable!vars' # Durable!vars /\ Durable!Next]_(Durable!vars)
  BY StepRefines DEF Refining
<1>3. QED
  BY <1>1, <1>2, IInvAlways, PTL DEF Spec, RefinesCallRow
=============================================================================
