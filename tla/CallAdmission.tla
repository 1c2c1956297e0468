---------------------------- MODULE CallAdmission ----------------------------
(***************************************************************************)
(* How a confirmed plan becomes a call, against everything that competes   *)
(* with it: concurrent start requests for the same or another plan, plan   *)
(* expiry, the deployment lease with its time-to-live, terminations, and   *)
(* restarts.  The claim and the lease are each one BEGIN IMMEDIATE         *)
(* transaction (app/db/plans.py, app/db/deployment.py); what a start       *)
(* request checks before its claim (app/call_state.py) may be stale by     *)
(* then.                                                                   *)
(***************************************************************************)
EXTENDS Integers

CONSTANTS Calls, Plans, Requests,
          None,        \* no plan, no call
          PlanTtl,     \* lifetime of a prepared plan
          LeaseTtl,    \* DEPLOYMENT_LOCK_TTL
          MaxTime      \* bound of the clock

ASSUME AdmissionAssumption ==
  /\ None \notin Calls /\ None \notin Plans
  /\ PlanTtl \in Nat /\ LeaseTtl \in Nat /\ MaxTime \in Nat

VARIABLES
  now,     \* the clock
  plans,   \* rows of the plans table
  calls,   \* rows of the calls table: how far the call is
  planOf,  \* calls.plan_id
  lock,    \* the row of deployment_control
  req,     \* start requests being served
  svc      \* what the process is doing

vars == <<now, plans, calls, planOf, lock, req, svc>>

-----------------------------------------------------------------------------
NoPlan == [state |-> "absent", expires |-> 0]
Idle   == [pc |-> "idle", plan |-> None, call |-> None]

(* "open" stands for every state before TERMINATING, "ended" for a terminal  *)
(* one; CallRow has the states and the CASes between them.                   *)
NonTerminal == {c \in Calls : calls[c] \in {"open", "terminating"}}

(* deployment_lock_is_active                                                 *)
LeaseActive == lock.locked /\ now - lock.at < LeaseTtl

TypeOK ==
  /\ now \in 0..MaxTime
  /\ plans \in [Plans -> [state : {"absent", "prepared", "started"}, expires : Nat]]
  /\ calls \in [Calls -> {"none", "open", "terminating", "ended"}]
  /\ planOf \in [Calls -> Plans \cup {None}]
  /\ lock \in [locked : BOOLEAN, at : Nat]
  /\ req \in [Requests -> [pc : {"idle", "claiming", "creating"},
                           plan : Plans \cup {None}, call : Calls \cup {None}]]
  /\ svc \in {"up", "stopping", "down", "booting"}

Init ==
  /\ now = 0
  /\ plans = [p \in Plans |-> NoPlan]
  /\ calls = [c \in Calls |-> "none"]
  /\ planOf = [c \in Calls |-> None]
  /\ lock = [locked |-> FALSE, at |-> 0]
  /\ req = [r \in Requests |-> Idle]
  /\ svc = "up"

Running == svc \in {"up", "stopping"}

-----------------------------------------------------------------------------
Tick ==
  /\ now < MaxTime
  /\ now' = now + 1
  /\ UNCHANGED <<plans, calls, planOf, lock, req, svc>>

PreparePlan(p) ==
  /\ Running
  /\ plans[p].state = "absent"
  /\ plans' = [plans EXCEPT ![p] = [state |-> "prepared", expires |-> now + PlanTtl]]
  /\ UNCHANGED <<now, calls, planOf, lock, req, svc>>

(* start(): supervision is ready, the plan exists and is confirmed.          *)
BeginStart(r, p) ==
  /\ svc = "up"
  /\ req[r] = Idle
  /\ plans[p].state # "absent"
  /\ req' = [req EXCEPT ![r] = [pc |-> "claiming", plan |-> p, call |-> None]]
  /\ UNCHANGED <<now, plans, calls, planOf, lock, svc>>

(* Seeded faults, here and below: each takes the place of the definition     *)
(* under it to show which property notices.                                  *)
UnexpiredPlan(p)  == plans[p].expires > now       \* its state is not checked
AdmitsBesideCall(p) == /\ ~LeaseActive            \* a live call does not matter
                       /\ plans[p].state = "prepared" /\ plans[p].expires > now
AdmitsUnderLease(p) == /\ NonTerminal = {}        \* nor does the lease
                       /\ plans[p].state = "prepared" /\ plans[p].expires > now

(* claim_plan_and_create_call, the statements that decide.                   *)
PlanAvailable(p) == plans[p].state = "prepared" /\ plans[p].expires > now
Admits(p)        == ~LeaseActive /\ PlanAvailable(p) /\ NonTerminal = {}

AdmitUnderUsedId(p, c) ==                         \* the row of an ended call is replaced
  /\ calls[c] \in {"none", "ended"}
  /\ lock' = [locked |-> FALSE, at |-> 0]
  /\ plans' = [plans EXCEPT ![p].state = "started"]
  /\ calls' = [calls EXCEPT ![c] = "open"]
  /\ planOf' = [planOf EXCEPT ![c] = p]

(* Its writes: an expired lease is cleared, the plan consumed, the row       *)
(* inserted under a fresh call_id.                                           *)
Admit(p, c) ==
  /\ calls[c] = "none"
  /\ lock' = IF lock.locked THEN [locked |-> FALSE, at |-> 0] ELSE lock
  /\ plans' = [plans EXCEPT ![p].state = "started"]
  /\ calls' = [calls EXCEPT ![c] = "open"]
  /\ planOf' = [planOf EXCEPT ![c] = p]

ClaimPlan(r) ==
  /\ Running
  /\ req[r].pc = "claiming"
  /\ \E c \in Calls :
       /\ Admits(req[r].plan)
       /\ Admit(req[r].plan, c)
       /\ \/ req' = [req EXCEPT ![r].pc = "creating", ![r].call = c]
          \/ req' = [req EXCEPT ![r] = Idle]   \* committed, but awaiting it raised
  /\ UNCHANGED <<now, svc>>

(* Refused, or raised before the commit: everything is rolled back.          *)
RefuseStart(r) ==
  /\ Running
  /\ req[r].pc = "claiming"
  /\ req' = [req EXCEPT ![r] = Idle]
  /\ UNCHANGED <<now, plans, calls, planOf, lock, svc>>

(* The agent leg is created and adopted; or it is abandoned, which           *)
(* terminates the call if nobody has.                                        *)
AgentLegDone(r) ==
  /\ Running
  /\ req[r].pc = "creating"
  /\ \/ UNCHANGED calls
     \/ /\ calls[req[r].call] = "open"
        /\ calls' = [calls EXCEPT ![req[r].call] = "terminating"]
  /\ req' = [req EXCEPT ![r] = Idle]
  /\ UNCHANGED <<now, plans, planOf, lock, svc>>

(* The call's own life: some terminator claims it, a teardown finishes it.   *)
ClaimTermination(c) ==
  /\ Running
  /\ calls[c] = "open"
  /\ calls' = [calls EXCEPT ![c] = "terminating"]
  /\ UNCHANGED <<now, plans, planOf, lock, req, svc>>

FinishTermination(c) ==
  /\ svc # "down"
  /\ calls[c] = "terminating"
  /\ calls' = [calls EXCEPT ![c] = "ended"]
  /\ UNCHANGED <<now, plans, planOf, lock, req, svc>>

-----------------------------------------------------------------------------
(* The deployment lease                                                      *)

AcquireUnchecked ==                               \* calls are not looked at
  /\ Running
  /\ lock' = [locked |-> TRUE, at |-> now]
  /\ UNCHANGED <<now, plans, calls, planOf, req, svc>>

AcquireBackdated ==                               \* stores when the lease would have begun
  /\ Running
  /\ NonTerminal = {}
  /\ lock' = [locked |-> TRUE, at |-> now - LeaseTtl]
  /\ UNCHANGED <<now, plans, calls, planOf, req, svc>>

(* A lease already held is simply taken again.                               *)
AcquireLease ==
  /\ Running
  /\ NonTerminal = {}
  /\ lock' = [locked |-> TRUE, at |-> now]
  /\ UNCHANGED <<now, plans, calls, planOf, req, svc>>

ReleaseLease ==
  /\ Running
  /\ lock' = [locked |-> FALSE, at |-> 0]
  /\ UNCHANGED <<now, plans, calls, planOf, req, svc>>

-----------------------------------------------------------------------------
(* The process                                                               *)

Stop ==
  /\ svc = "up"
  /\ svc' = "stopping"
  /\ UNCHANGED <<now, plans, calls, planOf, lock, req>>

Die ==
  /\ svc # "down"
  /\ svc' = "down"
  /\ req' = [r \in Requests |-> Idle]
  /\ UNCHANGED <<now, plans, calls, planOf, lock>>

Boot ==
  /\ svc = "down"
  /\ svc' = "booting"
  /\ UNCHANGED <<now, plans, calls, planOf, lock, req>>

(* recover_startup adopts each nonterminal call; its teardown may be left to *)
(* a background retry.                                                       *)
AdoptCall(c) ==
  /\ svc = "booting"
  /\ calls[c] = "open"
  /\ calls' = [calls EXCEPT ![c] = "terminating"]
  /\ UNCHANGED <<now, plans, planOf, lock, req, svc>>

(* Then the lease is released and traffic accepted.                          *)
FinishBoot ==
  /\ svc = "booting"
  /\ \A c \in Calls : calls[c] # "open"
  /\ svc' = "up"
  /\ lock' = [locked |-> FALSE, at |-> 0]
  /\ UNCHANGED <<now, plans, calls, planOf, req>>

-----------------------------------------------------------------------------
Next ==
  \/ Tick
  \/ \E p \in Plans : PreparePlan(p)
  \/ \E r \in Requests, p \in Plans : BeginStart(r, p)
  \/ \E r \in Requests : ClaimPlan(r) \/ RefuseStart(r) \/ AgentLegDone(r)
  \/ \E c \in Calls : ClaimTermination(c) \/ FinishTermination(c) \/ AdoptCall(c)
  \/ AcquireLease \/ ReleaseLease
  \/ Stop \/ Die \/ Boot \/ FinishBoot

Spec == Init /\ [][Next]_vars

-----------------------------------------------------------------------------
(* Properties                                                                *)

(* No interleaving of start requests, terminations and restarts puts two     *)
(* calls on the line: a new one is admitted only when the last has ended.    *)
OneLiveCall == \A c, d \in NonTerminal : c = d

(* A plan is consumed exactly when it has a call, and by one call only: no   *)
(* double confirmation, retry or crash dials the same plan twice, and no     *)
(* refused request burns it.                                                 *)
PlanSingleUse ==
  \A p \in Plans :
    /\ plans[p].state = "started" <=> \E c \in Calls : planOf[c] = p
    /\ \A c, d \in Calls : planOf[c] = p /\ planOf[d] = p => c = d

(* While a lease is in force no call is open or ending, so a deployment that *)
(* restarts the process within its lease cuts nobody off.                    *)
LeaseExcludesCalls == LeaseActive => NonTerminal = {}

(* A request that has claimed holds the call the plan was spent on, and no   *)
(* two requests hold the same one.                                           *)
ClaimantOwnsCall ==
  \A r \in Requests : req[r].pc = "creating" =>
    /\ req[r].call \in Calls /\ calls[req[r].call] # "none"
    /\ planOf[req[r].call] = req[r].plan
    /\ \A q \in Requests : req[q].pc = "creating" /\ req[q].call = req[r].call => q = r

Line == INSTANCE PhoneLine WITH
  line  <- NonTerminal,
  spent <- {p \in Plans : plans[p].state = "started"},
  held  <- LeaseActive

(* Admission is the one-call line its clients are promised.                  *)
ImplementsPhoneLine == Line!Spec
=============================================================================
