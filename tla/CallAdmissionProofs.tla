------------------------- MODULE CallAdmissionProofs -------------------------
(***************************************************************************)
(* Call admission keeps its promises for every number of calls, plans and  *)
(* requests, every time-to-live and every length of the clock: its         *)
(* invariants hold, and it implements PhoneLine.                           *)
(***************************************************************************)
EXTENDS CallAdmission, TLAPS

(* A row of the calls table carries the plan it was bought with.             *)
RowsHavePlans ==
  \A c \in Calls : calls[c] = "none" <=> planOf[c] = None

(* A request that has something to claim or to create has its plan.          *)
RequestsHavePlans ==
  \A r \in Requests : req[r].pc # "idle" => req[r].plan \in Plans

IInv == /\ TypeOK
        /\ RequestsHavePlans
        /\ RowsHavePlans
        /\ OneLiveCall
        /\ PlanSingleUse
        /\ LeaseExcludesCalls
        /\ ClaimantOwnsCall

-----------------------------------------------------------------------------
(* Steps that write neither a call nor a plan's state, and do not put a      *)
(* lease in force.                                                           *)
Bystander ==
  /\ UNCHANGED <<calls, planOf>>
  /\ \A p \in Plans : plans'[p].state = "started" <=> plans[p].state = "started"
  /\ LeaseActive' => LeaseActive

LEMMA BystanderKeeps ==
  ASSUME IInv, Bystander
  PROVE  /\ RowsHavePlans' /\ OneLiveCall' /\ PlanSingleUse' /\ LeaseExcludesCalls'
         /\ NonTerminal' = NonTerminal
<1>1. NonTerminal' = NonTerminal
  BY DEF Bystander, NonTerminal
<1>2. QED
  BY <1>1 DEF IInv, Bystander, RowsHavePlans, OneLiveCall, PlanSingleUse, LeaseExcludesCalls

(* Time can end a lease, never start one.                                    *)
LEMMA TickStep ==
  ASSUME IInv, Tick
  PROVE  IInv' /\ Bystander
<1> USE AdmissionAssumption
<1>1. TypeOK' /\ ClaimantOwnsCall' /\ RequestsHavePlans'
  BY DEF IInv, TypeOK, Tick, ClaimantOwnsCall, RequestsHavePlans
<1>2. LeaseActive' => LeaseActive
  BY DEF IInv, TypeOK, Tick, LeaseActive
<1>3. Bystander
  BY <1>2 DEF Tick, Bystander
<1>4. QED
  BY <1>1, <1>3, BystanderKeeps DEF IInv

LEMMA PrepareStep ==
  ASSUME IInv, NEW q \in Plans, PreparePlan(q)
  PROVE  IInv' /\ Bystander
<1> USE AdmissionAssumption
<1>1. TypeOK' /\ ClaimantOwnsCall' /\ RequestsHavePlans'
  BY DEF IInv, TypeOK, PreparePlan, ClaimantOwnsCall, RequestsHavePlans
<1>2. \A p \in Plans : plans'[p].state = "started" <=> plans[p].state = "started"
  BY DEF IInv, TypeOK, PreparePlan
<1>3. Bystander
  BY <1>2 DEF PreparePlan, Bystander, LeaseActive
<1>4. QED
  BY <1>1, <1>3, BystanderKeeps DEF IInv

(* Steps that write nothing but the requests and the process.                *)
LEMMA RequestStep ==
  ASSUME IInv,
         \/ \E r \in Requests : RefuseStart(r) \/ \E p \in Plans : BeginStart(r, p)
         \/ Stop \/ Die \/ Boot
  PROVE  IInv' /\ Bystander
<1> USE AdmissionAssumption
<1>1. UNCHANGED <<now, plans, calls, planOf, lock>>
  BY DEF RefuseStart, BeginStart, Stop, Die, Boot
<1>2. Bystander
  BY <1>1 DEF Bystander, LeaseActive
<1>3. TypeOK'
  BY <1>1 DEF IInv, TypeOK, RefuseStart, BeginStart, Stop, Die, Boot, Idle
<1>4. \A r \in Requests : req'[r].pc = "creating" => req'[r] = req[r]
  BY DEF IInv, TypeOK, RefuseStart, BeginStart, Stop, Die, Boot, Idle
<1>5. ClaimantOwnsCall'
  BY <1>1, <1>4 DEF IInv, ClaimantOwnsCall
<1>6. RequestsHavePlans'
  BY DEF IInv, TypeOK, RequestsHavePlans, RefuseStart, BeginStart, Stop, Die, Boot, Idle
<1>7. QED
  BY <1>2, <1>3, <1>5, <1>6, BystanderKeeps DEF IInv

(* A lease comes into force only over an empty line.                         *)
LEMMA LeaseStep ==
  ASSUME IInv, AcquireLease \/ ReleaseLease \/ FinishBoot
  PROVE  /\ IInv'
         /\ NonTerminal' = NonTerminal /\ plans' = plans
         /\ LeaseActive' => NonTerminal = {}
<1> USE AdmissionAssumption
<1>1. UNCHANGED <<now, plans, calls, planOf, req>>
  BY DEF AcquireLease, ReleaseLease, FinishBoot
<1>2. NonTerminal' = NonTerminal
  BY <1>1 DEF NonTerminal
<1>3. LeaseActive' => NonTerminal = {}
  BY DEF AcquireLease, ReleaseLease, FinishBoot, LeaseActive
<1>4. svc' \in {"up", "stopping", "down", "booting"}
  BY DEF IInv, TypeOK, AcquireLease, ReleaseLease, FinishBoot
<1>5. TypeOK'
  <2>1. now \in Nat
    BY DEF IInv, TypeOK
  <2>2. lock' = [locked |-> TRUE, at |-> now] \/ lock' = [locked |-> FALSE, at |-> 0]
    BY DEF AcquireLease, ReleaseLease, FinishBoot
  <2>3. /\ [locked |-> TRUE, at |-> now] \in [locked : BOOLEAN, at : Nat]
        /\ [locked |-> FALSE, at |-> 0] \in [locked : BOOLEAN, at : Nat]
    BY <2>1
  <2>4. /\ now' = now /\ plans' = plans /\ calls' = calls
        /\ planOf' = planOf /\ req' = req
    BY <1>1
  <2>5. QED
    BY <1>4, <2>2, <2>3, <2>4, Zenon DEF IInv, TypeOK
<1>6. QED
  BY <1>1, <1>2, <1>3, <1>5 DEF IInv, RowsHavePlans, OneLiveCall, PlanSingleUse,
     LeaseExcludesCalls, ClaimantOwnsCall, RequestsHavePlans

-----------------------------------------------------------------------------
(* A call moves on: from open to terminating, or from there to its end.      *)
Advance(c) ==
  /\ c \in Calls
  /\ \/ calls[c] = "open" /\ calls' = [calls EXCEPT ![c] = "terminating"]
     \/ calls[c] = "terminating" /\ calls' = [calls EXCEPT ![c] = "ended"]
  /\ UNCHANGED <<now, plans, planOf, lock>>

LEMMA AdvanceKeeps ==
  ASSUME IInv, NEW c, Advance(c),
         \A r \in Requests : req'[r].pc = "creating" => req'[r] = req[r]
  PROVE  /\ RowsHavePlans' /\ OneLiveCall' /\ PlanSingleUse' /\ LeaseExcludesCalls'
         /\ ClaimantOwnsCall'
         /\ c \in NonTerminal
         /\ NonTerminal' = NonTerminal \/ NonTerminal' = NonTerminal \ {c}
         /\ LeaseActive' = LeaseActive
<1>1. /\ \A d \in Calls : d # c => calls'[d] = calls[d]
      /\ calls[c] # "none" /\ calls'[c] # "none"
  BY DEF IInv, TypeOK, Advance
<1>2. /\ c \in NonTerminal
      /\ NonTerminal' = NonTerminal \/ NonTerminal' = NonTerminal \ {c}
  BY DEF IInv, TypeOK, Advance, NonTerminal
<1>3. LeaseActive' = LeaseActive
  BY DEF Advance, LeaseActive
<1>4. OneLiveCall' /\ LeaseExcludesCalls'
  BY <1>2, <1>3 DEF IInv, OneLiveCall, LeaseExcludesCalls
<1>5. PlanSingleUse' /\ RowsHavePlans'
  BY <1>1 DEF IInv, PlanSingleUse, RowsHavePlans, Advance
<1>6. ClaimantOwnsCall'
  BY <1>1 DEF IInv, ClaimantOwnsCall, Advance
<1>7. QED
  BY <1>2, <1>3, <1>4, <1>5, <1>6

LEMMA CallStep ==
  ASSUME IInv, NEW c \in Calls,
         ClaimTermination(c) \/ FinishTermination(c) \/ AdoptCall(c)
  PROVE  IInv' /\ Advance(c)
<1> USE AdmissionAssumption
<1>1. Advance(c) /\ req' = req
  BY DEF ClaimTermination, FinishTermination, AdoptCall, Advance
<1>2. TypeOK'
  BY DEF IInv, TypeOK, ClaimTermination, FinishTermination, AdoptCall
<1>3. RequestsHavePlans'
  BY <1>1 DEF IInv, RequestsHavePlans
<1>4. QED
  BY <1>1, <1>2, <1>3, AdvanceKeeps DEF IInv

(* The end of an agent-leg request is one of the steps above.                *)
LEMMA AgentLegStep ==
  ASSUME IInv, NEW r \in Requests, AgentLegDone(r)
  PROVE  IInv' /\ (Bystander \/ Advance(req[r].call)) /\ plans' = plans
<1> USE AdmissionAssumption
<1>1. /\ UNCHANGED <<now, plans, planOf, lock, svc>>
      /\ req' = [req EXCEPT ![r] = Idle]
      /\ req[r].call \in Calls
  BY DEF AgentLegDone, IInv, ClaimantOwnsCall
<1>2. \A q \in Requests : req'[q].pc = "creating" => req'[q] = req[q]
  BY <1>1 DEF IInv, TypeOK, Idle
<1>3. TypeOK' /\ RequestsHavePlans'
  BY <1>1 DEF IInv, TypeOK, AgentLegDone, Idle, RequestsHavePlans
<1>4. CASE calls' = calls
  <2>1. Bystander
    BY <1>1, <1>4 DEF Bystander, LeaseActive
  <2>2. ClaimantOwnsCall'
    BY <1>1, <1>2, <1>4 DEF IInv, ClaimantOwnsCall
  <2>3. QED
    BY <1>1, <1>3, <2>1, <2>2, BystanderKeeps DEF IInv
<1>5. CASE calls' # calls
  <2>1. Advance(req[r].call)
    BY <1>1, <1>5 DEF AgentLegDone, Advance
  <2>2. QED
    BY <1>1, <1>2, <1>3, <2>1, AdvanceKeeps DEF IInv
<1>6. QED
  BY <1>4, <1>5

-----------------------------------------------------------------------------
(* The claim: an empty line, no lease, an unspent plan, a fresh row.         *)
LEMMA ClaimStep ==
  ASSUME IInv, NEW r \in Requests, ClaimPlan(r)
  PROVE  /\ IInv'
         /\ \E c \in Calls :
              /\ NonTerminal = {} /\ NonTerminal' = {c}
              /\ ~LeaseActive /\ ~LeaseActive'
              /\ req[r].plan \in Plans
              /\ plans[req[r].plan].state # "started"
              /\ plans' = [plans EXCEPT ![req[r].plan].state = "started"]
<1> USE AdmissionAssumption
<1> DEFINE p == req[r].plan
<1>1. PICK c \in Calls :
        /\ Admits(p) /\ Admit(p, c)
        /\ \/ req' = [req EXCEPT ![r].pc = "creating", ![r].call = c]
           \/ req' = [req EXCEPT ![r] = Idle]
        /\ UNCHANGED <<now, svc>>
  BY DEF ClaimPlan
<1>2. p \in Plans
  BY DEF ClaimPlan, IInv, RequestsHavePlans
<1>3. /\ calls[c] = "none" /\ planOf[c] = None
      /\ NonTerminal = {} /\ ~LeaseActive
      /\ plans[p].state = "prepared"
  BY <1>1 DEF Admits, Admit, PlanAvailable, IInv, RowsHavePlans
<1>4. /\ calls' = [calls EXCEPT ![c] = "open"]
      /\ planOf' = [planOf EXCEPT ![c] = p]
      /\ plans' = [plans EXCEPT ![p].state = "started"]
      /\ lock' = IF lock.locked THEN [locked |-> FALSE, at |-> 0] ELSE lock
  BY <1>1 DEF Admit
<1>5. ~LeaseActive'
  BY <1>4 DEF LeaseActive
<1>6. NonTerminal' = {c}
  BY <1>3, <1>4 DEF NonTerminal, IInv, TypeOK
<1>7. TypeOK'
  <2>1. req' \in [Requests -> [pc : {"idle", "claiming", "creating"},
                              plan : Plans \cup {None}, call : Calls \cup {None}]]
    BY <1>1 DEF IInv, TypeOK, Idle
  <2>2. lock' \in [locked : BOOLEAN, at : Nat]
    BY <1>4 DEF IInv, TypeOK
  <2>3. plans' \in [Plans -> [state : {"absent", "prepared", "started"}, expires : Nat]]
    BY <1>2, <1>4 DEF IInv, TypeOK
  <2>4. QED
    BY <1>1, <1>2, <1>4, <2>1, <2>2, <2>3 DEF IInv, TypeOK
<1>8. RowsHavePlans'
  BY <1>2, <1>4 DEF IInv, TypeOK, RowsHavePlans
<1>9. PlanSingleUse'
  <2>1. \A d \in Calls : planOf[d] # p
    BY <1>2, <1>3 DEF IInv, PlanSingleUse
  <2>2. \A d \in Calls : planOf'[d] = IF d = c THEN p ELSE planOf[d]
    BY <1>4 DEF IInv, TypeOK
  <2>3. \A q \in Plans : plans'[q].state = IF q = p THEN "started" ELSE plans[q].state
    BY <1>2, <1>4 DEF IInv, TypeOK
  <2>4. planOf[c] \notin Plans
    BY <1>3
  <2>5. QED
    BY <1>2, <2>1, <2>2, <2>3, <2>4 DEF IInv, PlanSingleUse
<1>10. OneLiveCall' /\ LeaseExcludesCalls'
  BY <1>5, <1>6 DEF OneLiveCall, LeaseExcludesCalls
<1>11. \A q \in Requests \ {r} : req'[q] = req[q]
  BY <1>1 DEF IInv, TypeOK
<1>12. req'[r].pc = "creating" => req'[r].call = c /\ req'[r].plan = p
  BY <1>1 DEF IInv, TypeOK, Idle
<1>13. ClaimantOwnsCall'
  <2>1. \A q \in Requests \ {r} : req[q].pc = "creating" => req[q].call # c
    BY <1>3 DEF IInv, ClaimantOwnsCall
  <2>2. \A d \in Calls \ {c} : calls'[d] = calls[d] /\ planOf'[d] = planOf[d]
    BY <1>4 DEF IInv, TypeOK
  <2>3. calls'[c] = "open" /\ planOf'[c] = p
    BY <1>4 DEF IInv, TypeOK
  <2>4. QED
    BY <1>11, <1>12, <2>1, <2>2, <2>3 DEF IInv, ClaimantOwnsCall
<1>14. RequestsHavePlans'
  BY <1>2, <1>11, <1>12, <1>1 DEF IInv, TypeOK, RequestsHavePlans, Idle
<1>15. QED
  BY <1>2, <1>3, <1>4, <1>5, <1>6, <1>7, <1>8, <1>9, <1>10, <1>13, <1>14 DEF IInv

-----------------------------------------------------------------------------
(* The inductive invariant holds initially and is kept by every step.        *)
LEMMA InitIInv == Init => IInv
<1> SUFFICES ASSUME Init PROVE IInv
  OBVIOUS
<1> USE AdmissionAssumption DEF Init
<1>1. NonTerminal = {} /\ ~LeaseActive
  BY DEF NonTerminal, LeaseActive
<1>2. TypeOK
  BY DEF TypeOK, NoPlan, Idle
<1>3. QED
  BY <1>1, <1>2 DEF IInv, RowsHavePlans, OneLiveCall, PlanSingleUse, LeaseExcludesCalls,
     ClaimantOwnsCall, RequestsHavePlans, NoPlan, Idle

LEMMA NextIInv ==
  ASSUME IInv, [Next]_vars
  PROVE  IInv'
<1>1. CASE Tick
  BY <1>1, TickStep
<1>2. CASE \E p \in Plans : PreparePlan(p)
  BY <1>2, PrepareStep
<1>3. CASE \/ \E r \in Requests : RefuseStart(r) \/ \E p \in Plans : BeginStart(r, p)
           \/ Stop \/ Die \/ Boot
  BY <1>3, RequestStep
<1>4. CASE \E r \in Requests : ClaimPlan(r)
  BY <1>4, ClaimStep
<1>5. CASE \E r \in Requests : AgentLegDone(r)
  BY <1>5, AgentLegStep
<1>6. CASE \E c \in Calls : ClaimTermination(c) \/ FinishTermination(c) \/ AdoptCall(c)
  BY <1>6, CallStep
<1>7. CASE AcquireLease \/ ReleaseLease \/ FinishBoot
  BY <1>7, LeaseStep
<1>8. CASE UNCHANGED vars
  BY <1>8 DEF vars, IInv, TypeOK, RowsHavePlans, OneLiveCall, PlanSingleUse,
     LeaseExcludesCalls, ClaimantOwnsCall, RequestsHavePlans, NonTerminal, LeaseActive
<1>9. QED
  BY <1>1, <1>2, <1>3, <1>4, <1>5, <1>6, <1>7, <1>8 DEF Next

(* CallAdmission!IInv: every invariant of admission holds in every reachable *)
(* state, whatever interleaves, expires or restarts.                         *)
THEOREM AdmissionInvariant == Spec => []IInv
<1>1. IInv /\ [Next]_vars => IInv'
  BY NextIInv
<1>2. QED
  BY InitIInv, <1>1, PTL DEF Spec

(* The rows, the requests and the lease always have their declared shape.    *)
THEOREM AdmissionTypeOK == Spec => []TypeOK
<1>1. IInv => TypeOK
  BY DEF IInv
<1>2. QED
  BY <1>1, AdmissionInvariant, PTL

(* A request that has claimed holds the call its plan was spent on, alone.   *)
THEOREM AdmissionClaimantOwnsCall == Spec => []ClaimantOwnsCall
<1>1. IInv => ClaimantOwnsCall
  BY DEF IInv
<1>2. QED
  BY <1>1, AdmissionInvariant, PTL

(* At most one call is ever on the line.                                     *)
THEOREM AdmissionOneLiveCall == Spec => []OneLiveCall
<1>1. IInv => OneLiveCall
  BY DEF IInv
<1>2. QED
  BY <1>1, AdmissionInvariant, PTL

(* A plan is spent exactly on the one call that carries it.                  *)
THEOREM AdmissionPlanSingleUse == Spec => []PlanSingleUse
<1>1. IInv => PlanSingleUse
  BY DEF IInv
<1>2. QED
  BY <1>1, AdmissionInvariant, PTL

(* A lease in force means an empty line.                                     *)
THEOREM AdmissionLeaseExcludesCalls == Spec => []LeaseExcludesCalls
<1>1. IInv => LeaseExcludesCalls
  BY DEF IInv
<1>2. QED
  BY <1>1, AdmissionInvariant, PTL

-----------------------------------------------------------------------------
(* The refinement: each step of admission is a step of the line or leaves it *)
(* as it was.                                                                *)

SpentPlans == {p \in Plans : plans[p].state = "started"}

LEMMA LineInit == Init => Line!Init
BY DEF Init, Line!Init, NonTerminal, LeaseActive, NoPlan

LEMMA BystanderLine ==
  ASSUME Bystander
  PROVE  [Line!Next]_(Line!lineVars)
<1>1. NonTerminal' = NonTerminal /\ SpentPlans' = SpentPlans
  BY DEF Bystander, NonTerminal, SpentPlans
<1>2. LeaseActive' = LeaseActive \/ LeaseActive' = FALSE
  BY DEF Bystander, LeaseActive
<1>3. QED
  BY <1>1, <1>2 DEF Line!Next, Line!Unhold, Line!lineVars, SpentPlans

LEMMA LineStep ==
  ASSUME IInv, IInv', [Next]_vars
  PROVE  [Line!Next]_(Line!lineVars)
<1>1. CASE \/ Tick \/ \E p \in Plans : PreparePlan(p)
           \/ \E r \in Requests : RefuseStart(r) \/ \E p \in Plans : BeginStart(r, p)
           \/ Stop \/ Die \/ Boot
  BY <1>1, TickStep, PrepareStep, RequestStep, BystanderLine
<1>2. ASSUME NEW c, Advance(c), plans' = plans
      PROVE  [Line!Next]_(Line!lineVars)
  <2>1. /\ c \in NonTerminal
        /\ NonTerminal' = NonTerminal \/ NonTerminal' = NonTerminal \ {c}
    BY <1>2 DEF Advance, NonTerminal, IInv, TypeOK
  <2>2. LeaseActive' = LeaseActive /\ SpentPlans' = SpentPlans /\ c \in Calls
    BY <1>2 DEF Advance, LeaseActive, SpentPlans
  <2>3. QED
    BY <2>1, <2>2 DEF Line!Next, Line!HangUp, Line!lineVars, SpentPlans
<1>3. CASE \/ \E r \in Requests : AgentLegDone(r)
           \/ \E c \in Calls : ClaimTermination(c) \/ FinishTermination(c) \/ AdoptCall(c)
  <2>1. CASE \E r \in Requests : AgentLegDone(r)
    BY <2>1, <1>2, AgentLegStep, BystanderLine
  <2>2. ASSUME NEW c \in Calls, ClaimTermination(c) \/ FinishTermination(c) \/ AdoptCall(c)
        PROVE  [Line!Next]_(Line!lineVars)
    BY <2>2, <1>2, CallStep DEF ClaimTermination, FinishTermination, AdoptCall
  <2>3. QED
    BY <1>3, <2>1, <2>2
<1>4. CASE \E r \in Requests : ClaimPlan(r)
  <2>1. PICK r \in Requests : ClaimPlan(r)
    BY <1>4
  <2>2. PICK c \in Calls :
          /\ NonTerminal = {} /\ NonTerminal' = {c}
          /\ ~LeaseActive /\ ~LeaseActive'
          /\ req[r].plan \in Plans
          /\ plans[req[r].plan].state # "started"
          /\ plans' = [plans EXCEPT ![req[r].plan].state = "started"]
    BY <2>1, ClaimStep
  <2>3. SpentPlans' = SpentPlans \cup {req[r].plan} /\ req[r].plan \notin SpentPlans
    BY <2>2 DEF SpentPlans, IInv, TypeOK
  <2>4. LeaseActive = FALSE /\ LeaseActive' = FALSE
    BY <2>2 DEF LeaseActive
  <2>5. \E p \in Plans : Line!Dial(c, p)
    BY <2>2, <2>3, <2>4 DEF Line!Dial, SpentPlans
  <2>6. \E d \in Calls, p \in Plans : Line!Dial(d, p)
    BY <2>5
  <2>7. QED
    BY <2>6 DEF Line!Next
<1>5. CASE AcquireLease \/ ReleaseLease \/ FinishBoot
  <2>1. /\ NonTerminal' = NonTerminal /\ SpentPlans' = SpentPlans
        /\ LeaseActive' => NonTerminal = {}
    BY <1>5, LeaseStep DEF SpentPlans
  <2>2. LeaseActive' = TRUE \/ LeaseActive' = FALSE
    BY DEF LeaseActive
  <2>3. QED
    BY <2>1, <2>2 DEF Line!Next, Line!Hold, Line!Unhold, Line!lineVars, SpentPlans
<1>6. CASE UNCHANGED vars
  BY <1>6 DEF vars, Line!lineVars, NonTerminal, LeaseActive
<1>7. QED
  BY <1>1, <1>3, <1>4, <1>5, <1>6 DEF Next

(* Whatever competes for it, admission behaves as one phone line.            *)
THEOREM AdmissionImplementsPhoneLine == Spec => ImplementsPhoneLine
<1>1. IInv /\ IInv' /\ [Next]_vars => [Line!Next]_(Line!lineVars)
  BY LineStep
<1>2. QED
  BY LineInit, <1>1, AdmissionInvariant, PTL DEF Spec, ImplementsPhoneLine, Line!Spec
=============================================================================
