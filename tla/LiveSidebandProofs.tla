------------------------ MODULE LiveSidebandProofs ------------------------
(***************************************************************************)
(* Every response is continued when it is complete and then once, and the  *)
(* sideband never ends unnoticed, for every number of responses, tool      *)
(* calls and faults and every size of the queue.                           *)
(***************************************************************************)
EXTENDS LiveSideband, SequenceTheorems, FiniteSetTheorems, WellFoundedInduction, TLAPS

-----------------------------------------------------------------------------
(* The inductive invariant.                                                  *)

Frames == {CloseMarker, Event("closed", Nobody)}
          \cup {Event("completed", r) : r \in Responses}
          \cup {Event("tool", t) : t \in Tools}

(* Before the connection there is nothing.                                   *)
NotConnected ==
  run.pc = "connect" => ~ws.open /\ recv = "off" /\ disp.pc = "off" /\ tools.seen = {}

(* A call is read once, and nobody has worked on it before it is dispatched. *)
IsTool(i) == queue[i].kind = "tool"

ToolsQueued ==
  /\ queue \in Seq(Frames)
  /\ \A t \in Tools : t \notin tools.seen => results[t] = "none"
  /\ \A i \in 1..Len(queue) :
       IsTool(i) => queue[i].of \in tools.seen /\ results[queue[i].of] = "none"
  /\ \A i, j \in 1..Len(queue) :
       IsTool(i) /\ IsTool(j) /\ queue[i].of = queue[j].of => i = j

(* pending_tools has each response of a call that was read, at one place.    *)
Placed(r) == \E j \in 1..Len(tools.order) : tools.order[j] = r

OrderOfSeen ==
  /\ \A t \in tools.seen : Placed(ResponseOf[t])
  /\ \A j \in 1..Len(tools.order) : \E t \in tools.seen : tools.order[j] = ResponseOf[t]
  /\ \A i, j \in 1..Len(tools.order) : tools.order[i] = tools.order[j] => i = j

(* The holder of the lock is at the step it holds it for, and the batch it   *)
(* writes for is ready to be continued.                                      *)
LockHeld ==
  /\ lock.by = Nobody <=> lock.at = "free"
  /\ lock.by = "dispatcher" <=> disp.pc = "write"
  /\ \A t \in Tools : lock.by = t <=> results[t] = "locked"
  /\ lock.at = "emit" => lock.by \in Tools
  /\ lock.at = "write" =>
       /\ lock.next \in 1..lock.size /\ lock.size <= Len(tools.order)
       /\ BatchComplete(tools.order[lock.next], emitted)
       /\ tools.order[lock.next] \notin continued

(* A response.create that was not taken note of was a write that failed.     *)
CreatedOnce ==
  \A r \in Responses :
    /\ Continued(r)
    /\ creates[r] > 0 /\ r \notin continued => faults < MaxFaults

(* Somebody has yet to look at a batch that is ready: there is an event that *)
(* will have the dispatcher look, a result that is on its way, or a loop     *)
(* that has not come to it.  A loop the dictionary outgrows leaves them to   *)
(* the event that made it grow.                                              *)
Working ==
  /\ run.pc \in {"wait", "supervise"} /\ ~Finished(disp.pc) /\ ~Finished(recv)
  /\ Writable /\ ~closing /\ faults = MaxFaults

EventAhead ==
  \/ \E i \in 1..Len(queue) : queue[i].kind \in {"tool", "completed"}
  \/ disp.pc = "continue"

LoopAhead(r) ==
  lock.at = "write" /\ \E j \in lock.next..lock.size : tools.order[j] = r

ResultAhead ==
  lock.at = "emit" \/ \E t \in Tools : results[t] \in {"due", "waiting"}

LookedAt ==
  Working =>
    /\ \A r \in Responses :
         ReadyBatch(r, emitted, continued) => EventAhead \/ LoopAhead(r) \/ ResultAhead
    /\ lock.at = "write" /\ lock.size # Len(tools.order) => EventAhead

(* Whoever stops the supervisor is closing the sideband; a socket that was   *)
(* closed otherwise was closed at the far end.                               *)
Closers ==
  /\ stop \/ run.cancel \/ run.pc = "awaitOpen" => closing
  /\ \A d \in Drainers : drain[d] \notin {"off", "done"} => closing
  /\ run.pc \in {"wait", "supervise"} /\ (~ws.open \/ recv \in {"marker", "done"}) =>
       closing \/ ws.far = "eof"
  /\ run.pc = "cleanup" /\ ~closing => "fatal" \in spawned \/ ws.far = "eof"

IInv == /\ TypeOK
        /\ NotConnected
        /\ ToolsQueued
        /\ OrderOfSeen
        /\ LockHeld
        /\ CreatedOnce
        /\ LookedAt
        /\ Closers /\ EndsNoticed

-----------------------------------------------------------------------------
(* What a step does to one variable.                                         *)

Sockets   == [open : BOOLEAN, far : {"up", "eof"}]
Runs      == [pc : {"connect", "wait", "awaitOpen", "supervise", "cleanup", "done"},
              cancel : BOOLEAN]
Disps     == [pc : {"off", "get", "continue", "write", "done", "failed", "cancelled"},
              tool : Tools \cup {Nobody}]
Events    == [kind : {"tool", "completed", "closed", "marker"},
              of : Responses \cup Tools \cup {Nobody}]
Seen      == [seen : SUBSET Tools, completed : SUBSET Responses, order : Seq(Responses)]
ResultPcs == {"none", "due", "waiting", "locked", "sent", "failed"}
Places    == 0..Cardinality(Responses)
Locks     == [by : Tools \cup {"dispatcher", Nobody}, at : {"free", "emit", "write"},
              next : Places, size : Places]

LEMMA Types ==
  ASSUME TypeOK
  PROVE  /\ ws \in Sockets /\ run \in Runs /\ disp \in Disps /\ queue \in Seq(Events)
         /\ tools \in Seen /\ results \in [Tools -> ResultPcs] /\ lock \in Locks
         /\ creates \in [Responses -> 0..2] /\ faults \in 0..MaxFaults
         /\ emitted \in SUBSET Tools /\ continued \in SUBSET Responses
<1>1. ws \in Sockets /\ run \in Runs /\ disp \in Disps
  BY DEF TypeOK, Sockets, Runs, Disps
<1>2. queue \in Seq(Events)
  BY DEF TypeOK, Events
<1>3. tools \in Seen
  BY DEF TypeOK, Seen
<1>4. lock \in Locks
  BY DEF TypeOK, Locks, Places
<1>5. results \in [Tools -> ResultPcs]
  BY DEF TypeOK, ResultPcs
<1>6. creates \in [Responses -> 0..2] /\ faults \in 0..MaxFaults
  BY DEF TypeOK
<1>7. emitted \in SUBSET Tools /\ continued \in SUBSET Responses
  BY DEF TypeOK
<1>8. QED
  BY <1>1, <1>2, <1>3, <1>4, <1>5, <1>6, <1>7

LEMMA Constants ==
  /\ ResponseOf \in [Tools -> Responses] /\ MaxFaults \in Nat /\ QueueMax \in Nat \ {0}
  /\ "dispatcher" \notin Tools /\ Nobody \notin Tools /\ Nobody # "dispatcher"
  /\ IsFiniteSet(Responses) /\ Cardinality(Responses) \in Nat
<1>1. IsFiniteSet(Responses) /\ Cardinality(Responses) \in Nat
  BY SidebandAssumption, FS_CardinalityType
<1>2. QED
  BY <1>1, SidebandAssumption DEF Nobody

(* The events of the queue, by their kinds.                                  *)
LEMMA FrameKinds ==
  ASSUME NEW e \in Frames
  PROVE  /\ e \in Events
         /\ e.kind = "tool" => e.of \in Tools
         /\ e.kind = "completed" => e.of \in Responses
         /\ e.kind = "marker" <=> e = CloseMarker
<1>1. CASE e \in {CloseMarker, Event("closed", Nobody)}
  BY <1>1 DEF CloseMarker, Event, Events
<1>2. CASE e \in {Event("completed", r) : r \in Responses}
  BY <1>2 DEF CloseMarker, Event, Events
<1>3. CASE e \in {Event("tool", t) : t \in Tools}
  BY <1>3 DEF CloseMarker, Event, Events
<1>4. QED
  BY <1>1, <1>2, <1>3 DEF Frames

LEMMA FramesAreEvents == \A q \in Seq(Frames) : q \in Seq(Events)
<1>1. Frames \subseteq Events
  BY FrameKinds
<1>2. QED
  BY <1>1, SeqMonotonic

QueueGrows(e) ==
  /\ queue' \in Seq(Frames) /\ Len(queue') = Len(queue) + 1
  /\ \A i \in 1..Len(queue) : queue'[i] = queue[i]
  /\ queue'[Len(queue) + 1] = e

LEMMA QueuePuts ==
  ASSUME queue \in Seq(Frames), NEW e \in Frames, queue' = Append(queue, e)
  PROVE  QueueGrows(e)
  BY AppendProperties DEF QueueGrows

LEMMA QueuedPuts ==
  ASSUME TypeOK, ToolsQueued, NEW e \in Frames, Queued(e)
  PROVE  \/ QueueGrows(e) /\ Len(queue') <= QueueMax /\ UNCHANGED recv
         \/ UNCHANGED queue /\ recv' = "failed"
<1>1. Len(queue) \in Nat /\ queue \in Seq(Frames)
  BY LenProperties DEF ToolsQueued
<1>2. CASE Len(queue) < QueueMax /\ queue' = Append(queue, e) /\ UNCHANGED recv
  <2>1. QueueGrows(e)
    BY <1>1, <1>2, QueuePuts
  <2>2. QED
    BY <1>1, <1>2, <2>1, Constants DEF QueueGrows
<1>3. QED
  BY <1>2 DEF Queued

QueueShrinks ==
  /\ queue' \in Seq(Frames) /\ Len(queue') = Len(queue) - 1 /\ Len(queue) >= 1
  /\ \A i \in 1..Len(queue') : queue'[i] = queue[i + 1]

LEMMA QueueTakes ==
  ASSUME queue \in Seq(Frames), queue # <<>>, queue' = Tail(queue)
  PROVE  QueueShrinks /\ Head(queue) = queue[1] /\ Head(queue) \in Frames
<1>1. Len(queue) \in Nat \ {0}
  BY EmptySeq
<1>2. Head(queue) = queue[1]
  BY DEF Head
<1>3. QED
  BY <1>1, <1>2, HeadTailProperties DEF QueueShrinks

ResultAt(t, s) ==
  /\ results' \in [Tools -> ResultPcs] /\ results'[t] = s
  /\ \A u \in Tools : u # t => results'[u] = results[u]

LEMMA ResultGoes ==
  ASSUME TypeOK, NEW t \in Tools, NEW s \in ResultPcs, results' = [results EXCEPT ![t] = s]
  PROVE  ResultAt(t, s)
  BY Types DEF ResultAt

DispAt(pcs) == disp' \in Disps /\ disp'.pc \in pcs

(* The holder lets go of the lock, done or failed.                           *)
LetsGo(h, how) ==
  /\ lock' = Unlocked
  /\ \/ h = "dispatcher" /\ UNCHANGED results
        /\ DispAt(IF how = "failed" THEN {"failed"} ELSE {"get", "done"})
     \/ h \in Tools /\ UNCHANGED disp /\ ResultAt(h, how)

LEMMA HolderLeaves ==
  ASSUME TypeOK, NEW h \in Tools \cup {"dispatcher"}, NEW how \in {"sent", "failed"},
         Leaves(h, how)
  PROVE  LetsGo(h, how)
<1>1. disp \in Disps /\ EventDone \in Disps /\ EventDone.pc \in {"get", "done"}
  BY Types DEF EventDone, Disps
<1>2. CASE h = "dispatcher"
  BY <1>1, <1>2 DEF Leaves, LetsGo, DispAt, Disps
<1>3. CASE h # "dispatcher"
  <2>1. h \in Tools /\ lock' = Unlocked /\ UNCHANGED disp
        /\ results' = [results EXCEPT ![h] = how]
    BY <1>3 DEF Leaves
  <2>2. ResultAt(h, how)
    BY <2>1, ResultGoes DEF ResultPcs
  <2>3. QED
    BY <2>1, <2>2 DEF LetsGo
<1>4. QED
  BY <1>2, <1>3

(* The least place of a batch that is ready.                                 *)
LEMMA Least ==
  ASSUME NEW S \in SUBSET Nat, S # {}
  PROVE  \E j \in S : \A k \in S : j <= k
<1>1. IsWellFoundedOn({ss \in Nat \X Nat : ss[1] < ss[2]}, Nat)
  BY NatLessThanWellFounded DEF OpToRel
<1>2. PICK j \in S : \A k \in S : ~(<<k, j>> \in {ss \in Nat \X Nat : ss[1] < ss[2]})
  BY <1>1, WFMin
<1>3. ASSUME NEW k \in S
      PROVE  j <= k
  <2>1. <<k, j>> \in Nat \X Nat /\ ~(<<k, j>>[1] < <<k, j>>[2])
    BY <1>2
  <2>2. k \in Nat /\ j \in Nat /\ ~(k < j)
    BY <2>1
  <2>3. QED
    BY <2>2
<1>4. QED
  BY <1>3

(* The holder goes on to the next batch that is ready, or lets go.           *)
Writes(h, i, size) ==
  /\ lock' \in Locks /\ lock'.by = h /\ lock'.at = "write" /\ lock'.size = size
  /\ lock'.next \in i..size
  /\ ReadyBatch(tools.order[lock'.next], emitted', continued')
  /\ \A j \in i..size :
       ReadyBatch(tools.order[j], emitted', continued') => lock'.next <= j
  /\ \/ h = "dispatcher" /\ DispAt({"write"}) /\ UNCHANGED results
     \/ h \in Tools /\ ResultAt(h, "locked") /\ UNCHANGED disp

GoesOn(h, i, size) ==
  \/ /\ LetsGo(h, "sent")
     /\ \A j \in i..size : ~ReadyBatch(tools.order[j], emitted', continued')
  \/ Writes(h, i, size)

LEMMA HolderGoesOn ==
  ASSUME TypeOK, NEW h \in Tools \cup {"dispatcher"}, NEW sent, NEW cont,
         NEW i \in Nat \ {0}, NEW size \in Places, ContinuesFrom(h, i, size, sent, cont)
  PROVE  emitted' = sent /\ continued' = cont /\ GoesOn(h, i, size)
<1> DEFINE ready == {j \in i..size : ReadyBatch(tools.order[j], sent, cont)}
<1>1. emitted' = sent /\ continued' = cont
  BY DEF ContinuesFrom
<1>2. CASE ready = {}
  <2>1. Leaves(h, "sent")
    BY <1>2 DEF ContinuesFrom
  <2>2. QED
    BY <1>1, <1>2, <2>1, HolderLeaves DEF GoesOn
<1>3. CASE ready # {}
  <2> DEFINE next == CHOOSE j \in ready : \A k \in ready : j <= k
  <2>1. /\ lock' = [by |-> h, at |-> "write", size |-> size, next |-> next]
        /\ IF h = "dispatcher"
             THEN disp' = [disp EXCEPT !.pc = "write"] /\ UNCHANGED results
             ELSE results' = [results EXCEPT ![h] = "locked"] /\ UNCHANGED disp
    BY <1>3 DEF ContinuesFrom
  <2>2. i \in Nat /\ size \in Nat /\ ready \in SUBSET Nat
    BY Constants DEF Places
  <2>3. next \in ready /\ \A k \in ready : next <= k
    BY <1>3, <2>2, Least
  <2>4. next \in i..size /\ ReadyBatch(tools.order[next], sent, cont)
        /\ \A j \in i..size : ReadyBatch(tools.order[j], sent, cont) => next <= j
    BY <2>3
  <2>5. next \in Places
    BY <2>4, <2>2, Constants DEF Places
  <2> HIDE DEF next, ready
  <2>6. lock' \in Locks
    BY <2>1, <2>5 DEF Locks
  <2>7. \/ h = "dispatcher" /\ DispAt({"write"}) /\ UNCHANGED results
        \/ h \in Tools /\ ResultAt(h, "locked") /\ UNCHANGED disp
    <3>1. CASE h = "dispatcher"
      BY <2>1, <3>1, Types DEF DispAt, Disps
    <3>2. CASE h # "dispatcher"
      BY <2>1, <3>2, ResultGoes DEF ResultPcs
    <3>3. QED
      BY <3>1, <3>2
  <2>8. QED
    BY <1>1, <2>1, <2>4, <2>6, <2>7 DEF GoesOn, Writes
<1>4. QED
  BY <1>1, <1>2, <1>3

(* The places of the responses do not outnumber them.                        *)
LEMMA PlacesSuffice ==
  ASSUME NEW s \in Seq(Responses),
         \A i, j \in 1..Len(s) : s[i] = s[j] => i = j
  PROVE  Len(s) <= Cardinality(Responses)
<1>1. Len(s) \in Nat /\ s \in [1..Len(s) -> Responses]
  BY LenProperties
<1>2. s \in Injection(1..Len(s), Responses)
  BY <1>1 DEF Injection, IsInjective
<1>3. Cardinality(1..Len(s)) <= Cardinality(Responses)
  BY <1>2, FS_Injection, Constants
<1>4. Cardinality(1..Len(s)) = Len(s)
  BY <1>1, FS_Interval
<1>5. QED
  BY <1>3, <1>4

LEMMA FaultUses ==
  ASSUME TypeOK, Fault
  PROVE  faults' \in 0..MaxFaults /\ faults' < MaxFaults
  BY Types, Constants DEF Fault

-----------------------------------------------------------------------------
(* What keeps the parts of the invariant.                                    *)

(* A batch is looked at as long as what lies ahead of it does.               *)
LEMMA StillLookedAt ==
  ASSUME LookedAt, UNCHANGED <<tools, lock, emitted, continued>>,
         Working' => /\ Working
                     /\ EventAhead => EventAhead'
                     /\ ResultAhead => ResultAhead' \/ EventAhead'
  PROVE  LookedAt'
<1>1. ASSUME Working', NEW r \in Responses
      PROVE  /\ ReadyBatch(r, emitted, continued)' => ReadyBatch(r, emitted, continued)
             /\ LoopAhead(r) => LoopAhead(r)'
  BY <1>1 DEF ReadyBatch, BatchComplete, ToolsOf, LoopAhead, Working
<1>2. ASSUME Working', NEW r \in Responses, ReadyBatch(r, emitted, continued)'
      PROVE  EventAhead' \/ LoopAhead(r)' \/ ResultAhead'
  <2>1. ReadyBatch(r, emitted, continued)
    BY <1>1, <1>2
  <2>2. EventAhead \/ LoopAhead(r) \/ ResultAhead
    BY <1>2, <2>1 DEF LookedAt
  <2>3. QED
    BY <1>1, <1>2, <2>2
<1>3. ASSUME Working', lock'.at = "write", lock'.size # Len(tools'.order)
      PROVE  EventAhead'
  BY <1>3 DEF LookedAt
<1>4. QED
  BY <1>2, <1>3 DEF LookedAt

LEMMA NothingToLookAt ==
  ASSUME ~Working'
  PROVE  LookedAt'
  BY DEF LookedAt

LEMMA BatchesStand ==
  ASSUME IInv, UNCHANGED <<tools, results, emitted, continued, creates>>,
         faults' \in 0..MaxFaults, faults' <= faults
  PROVE  OrderOfSeen' /\ CreatedOnce'
<1>1. OrderOfSeen'
  BY DEF IInv, OrderOfSeen, Placed
<1>2. CreatedOnce'
  BY Types, Constants DEF IInv, CreatedOnce, Continued, BatchComplete, ToolsOf
<1>3. QED
  BY <1>1, <1>2

LEMMA LockStands ==
  ASSUME LockHeld, UNCHANGED <<tools, results, emitted, continued, lock>>,
         disp.pc = "write" <=> disp'.pc = "write"
  PROVE  LockHeld'
  BY DEF LockHeld, BatchComplete, ToolsOf

LEMMA QueueStands ==
  ASSUME ToolsQueued, UNCHANGED <<queue, tools, results>>
  PROVE  ToolsQueued'
  BY DEF ToolsQueued, IsTool

(* A queued call names a tool.                                               *)
LEMMA QueuedAreTools ==
  ASSUME ToolsQueued, NEW i \in 1..Len(queue)
  PROVE  queue[i] \in Frames /\ (IsTool(i) => queue[i].of \in Tools)
<1>1. queue[i] \in Frames
  BY ElementOfSeq DEF ToolsQueued
<1>2. QED
  BY <1>1, FrameKinds DEF IsTool

(* The supervisor is leaving, and says so unless it is being closed.         *)
Leaving ==
  /\ run' \in Runs /\ run'.pc = "cleanup" /\ run'.cancel = run.cancel
  /\ ws' \in Sockets /\ ws'.far = ws.far
  /\ spawned \subseteq spawned' /\ spawned' \subseteq {"fatal", "event"}

LEMMA SupervisorLeaves ==
  ASSUME TypeOK, RunFails \/ RunReturns
  PROVE  Leaving /\ (RunFails => closing \/ "fatal" \in spawned')
<1>1. run \in Runs /\ ws \in Sockets /\ spawned \subseteq {"fatal", "event"}
  BY Types DEF TypeOK
<1>2. CASE RunFails
  BY <1>1, <1>2 DEF RunFails, Leaving, Runs, Sockets
<1>3. CASE RunReturns
  BY <1>1, <1>3 DEF RunReturns, RunFails, Leaving, Runs, Sockets
<1>4. QED
  BY <1>2, <1>3

LEMMA LeavingKeeps ==
  ASSUME IInv, Leaving, run.pc \notin {"done", "cleanup"},
         closing \/ "fatal" \in spawned' \/ ws.far = "eof",
         faults' \in 0..MaxFaults, faults' <= faults,
         UNCHANGED <<closing, stop, final, registered, open, recv, disp, queue, tools,
                     batches, drain>>
  PROVE  IInv'
<1>1. UNCHANGED <<results, emitted, continued, creates, lock>>
  BY DEF batches
<1>2. TypeOK'
  BY <1>1 DEF IInv, TypeOK, Leaving, Runs, Sockets
<1>3. NotConnected'
  BY DEF NotConnected, Leaving
<1>4. ToolsQueued' /\ LockHeld'
  BY <1>1, QueueStands, LockStands DEF IInv
<1>5. OrderOfSeen' /\ CreatedOnce'
  BY <1>1, BatchesStand
<1>6. LookedAt'
  <2>1. ~Working'
    BY DEF Working, Leaving
  <2>2. QED
    BY <2>1, NothingToLookAt
<1>7. Closers' /\ EndsNoticed'
  BY DEF IInv, Closers, EndsNoticed, Leaving
<1>8. QED
  BY <1>2, <1>3, <1>4, <1>5, <1>6, <1>7 DEF IInv

-----------------------------------------------------------------------------
(* The supervisor.                                                           *)

LEMMA RunConnectsStep ==
  ASSUME IInv, RunConnects
  PROVE  IInv'
<1>1. /\ run' \in Runs /\ run'.pc = "wait" /\ ~run'.cancel
      /\ ws' \in Sockets /\ ws'.open /\ ws'.far = ws.far
      /\ DispAt({"get"}) /\ recv' = "read" /\ open' = "verify" /\ disp.pc = "off"
      /\ tools.seen = {}
  BY Types DEF IInv, RunConnects, Runs, Sockets, Disps, DispAt, NotConnected
<1>2. UNCHANGED <<closing, stop, final, registered, queue, tools, results, emitted,
                  continued, creates, lock, drain, spawned, faults>>
  BY DEF RunConnects, batches
<1>3. TypeOK'
  BY <1>1, <1>2 DEF IInv, TypeOK, Runs, Sockets, DispAt, Disps
<1>4. NotConnected'
  BY <1>1 DEF NotConnected
<1>5. ToolsQueued' /\ LockHeld'
  BY <1>1, <1>2, QueueStands, LockStands DEF IInv, DispAt
<1>6. OrderOfSeen' /\ CreatedOnce'
  BY <1>2, BatchesStand, Types, Constants DEF IInv
<1>7. LookedAt'
  <2>1. \A r \in Responses : ~ReadyBatch(r, emitted, continued)'
    BY <1>1, <1>2 DEF ReadyBatch, BatchComplete, ToolsOf
  <2>2. lock.at # "write"
    BY <1>1 DEF IInv, LockHeld, BatchComplete, ToolsOf
  <2>3. QED
    BY <1>2, <2>1, <2>2 DEF LookedAt
<1>8. Closers' /\ EndsNoticed'
  BY <1>1, <1>2 DEF IInv, Closers, EndsNoticed, RunConnects
<1>9. QED
  BY <1>3, <1>4, <1>5, <1>6, <1>7, <1>8 DEF IInv

LEMMA ConnectFailsStep ==
  ASSUME IInv, ConnectFails
  PROVE  IInv'
<1>1. faults' \in 0..MaxFaults /\ faults' <= faults
  BY FaultUses, Types, Constants DEF IInv, ConnectFails, Fault
<1>2. Leaving /\ (closing \/ "fatal" \in spawned')
  BY SupervisorLeaves DEF IInv, ConnectFails
<1>3. QED
  BY <1>1, <1>2, LeavingKeeps DEF ConnectFails

(* The supervisor goes on after its open handler, or lets it finish.         *)
LEMMA RunGoesOn ==
  ASSUME IInv, NEW pc \in {"awaitOpen", "supervise"}, pc = "awaitOpen" => closing,
         run.pc \in {"wait", "awaitOpen"}, run' = [run EXCEPT !.pc = pc],
         UNCHANGED <<ws, closing, stop, final, registered, open, recv, disp, queue, tools,
                     batches, drain, spawned, faults>>
  PROVE  IInv'
<1>1. UNCHANGED <<results, emitted, continued, creates, lock>>
  BY DEF batches
<1>2. run' \in Runs /\ run'.pc = pc /\ run'.cancel = run.cancel
  BY Types DEF IInv, Runs
<1>3. TypeOK'
  BY <1>1, <1>2 DEF IInv, TypeOK, Runs
<1>4. NotConnected'
  BY <1>2 DEF NotConnected
<1>5. ToolsQueued' /\ LockHeld'
  BY <1>1, QueueStands, LockStands DEF IInv
<1>6. OrderOfSeen' /\ CreatedOnce'
  BY <1>1, BatchesStand, Types, Constants DEF IInv
<1>7. LookedAt'
  <2>1. CASE run.pc = "wait"
    <3>1. Working' => Working
      BY <2>1 DEF Working, Writable
    <3>2. EventAhead' = EventAhead /\ ResultAhead' = ResultAhead
      BY <1>1 DEF EventAhead, ResultAhead
    <3>3. QED
      BY <1>1, <3>1, <3>2, StillLookedAt DEF IInv
  <2>2. CASE run.pc = "awaitOpen"
    <3>1. ~Working'
      BY <2>2 DEF IInv, Closers, Working
    <3>2. QED
      BY <3>1, NothingToLookAt
  <2>3. QED
    BY <2>1, <2>2
<1>8. Closers' /\ EndsNoticed'
  BY <1>1, <1>2 DEF IInv, Closers, EndsNoticed
<1>9. QED
  BY <1>3, <1>4, <1>5, <1>6, <1>7, <1>8 DEF IInv

LEMMA RunWaitsStep ==
  ASSUME IInv, RunWaits
  PROVE  IInv'
<1>1. /\ faults' \in 0..MaxFaults /\ faults' <= faults
      /\ UNCHANGED <<closing, stop, final, registered, open, recv, disp, queue, tools,
                     batches, drain, faults>>
  BY Types, Constants DEF IInv, RunWaits
<1>2. CASE RunFails /\ run.pc \in {"wait", "awaitOpen"}
  BY <1>1, <1>2, SupervisorLeaves, LeavingKeeps DEF IInv
<1>3. CASE RunReturns /\ stop /\ run.pc \in {"wait", "awaitOpen"}
  <2>1. closing
    BY <1>3 DEF IInv, Closers
  <2>2. QED
    BY <1>1, <1>3, <2>1, SupervisorLeaves, LeavingKeeps DEF IInv
<1>4. ASSUME NEW pc \in {"awaitOpen", "supervise"}, pc = "awaitOpen" => closing,
             run.pc \in {"wait", "awaitOpen"}, run' = [run EXCEPT !.pc = pc],
             UNCHANGED <<ws, spawned>>
      PROVE  IInv'
  BY <1>1, <1>4, RunGoesOn
<1>5. CASE AfterOpen /\ run.pc \in {"wait", "awaitOpen"}
  BY <1>2, <1>3, <1>4, <1>5 DEF AfterOpen
<1>6. CASE EventTaskEndsFirst /\ run.pc = "wait"
  BY <1>2, <1>4, <1>6 DEF EventTaskEndsFirst
<1>7. QED
  BY <1>5, <1>6 DEF RunWaits

LEMMA RunSupervisesStep ==
  ASSUME IInv, RunSupervises
  PROVE  IInv'
<1>1. /\ faults' \in 0..MaxFaults /\ faults' <= faults /\ run.pc = "supervise"
      /\ UNCHANGED <<closing, stop, final, registered, open, recv, disp, queue, tools,
                     batches, drain>>
  BY Types, Constants DEF IInv, RunSupervises
<1>2. CASE RunFails
  BY <1>1, <1>2, SupervisorLeaves, LeavingKeeps DEF IInv
<1>3. CASE recv = "done" /\ RunReturns
  <2>1. closing \/ ws.far = "eof"
    BY <1>1, <1>3 DEF IInv, Closers
  <2>2. QED
    BY <1>1, <1>3, <2>1, SupervisorLeaves, LeavingKeeps DEF IInv
<1>4. QED
  BY <1>2, <1>3 DEF RunSupervises

LEMMA RunCancelledStep ==
  ASSUME IInv, RunCancelled
  PROVE  IInv'
<1>1. closing
  BY DEF IInv, Closers, RunCancelled
<1>2. faults' \in 0..MaxFaults /\ faults' <= faults
  BY Types, Constants DEF IInv, RunCancelled
<1>3. QED
  BY <1>1, <1>2, SupervisorLeaves, LeavingKeeps DEF IInv, RunCancelled

(* What only the open handler is concerned with.                             *)
LEMMA OpenerGoes ==
  ASSUME IInv, open' \in {"off", "verify", "work", "drain", "done", "failed", "cancelled"},
         faults' \in 0..MaxFaults, faults' <= faults,
         UNCHANGED <<ws, final, recv, disp, queue, tools, batches, supervision>>
  PROVE  IInv'
<1>1. UNCHANGED <<results, emitted, continued, creates, lock, closing, stop, registered,
                  run, drain, spawned>>
  BY DEF batches, supervision
<1>2. TypeOK'
  BY <1>1 DEF IInv, TypeOK
<1>3. NotConnected' /\ ToolsQueued' /\ LockHeld'
  BY <1>1, QueueStands, LockStands DEF IInv, NotConnected
<1>4. OrderOfSeen' /\ CreatedOnce'
  BY <1>1, BatchesStand
<1>5. LookedAt'
  <2>1. Working' => Working
    BY <1>1, Types, Constants DEF IInv, Working, Writable
  <2>2. EventAhead' = EventAhead /\ ResultAhead' = ResultAhead
    BY <1>1 DEF EventAhead, ResultAhead
  <2>3. QED
    BY <1>1, <2>1, <2>2, StillLookedAt DEF IInv
<1>6. Closers' /\ EndsNoticed'
  BY <1>1 DEF IInv, Closers, EndsNoticed
<1>7. QED
  BY <1>2, <1>3, <1>4, <1>5, <1>6 DEF IInv

LEMMA OpenerSteps ==
  ASSUME IInv, CancelOpen \/ Opening \/ ReadUpdated
  PROVE  IInv'
<1>1. /\ open' \in {"off", "verify", "work", "drain", "done", "failed", "cancelled"}
      /\ UNCHANGED <<ws, final, recv, disp, queue, tools, batches, supervision>>
      /\ Fault \/ UNCHANGED faults
  BY DEF CancelOpen, Opening, OpenUnverified, OpenWorks, OpenEndsCall, ReadUpdated
<1>2. faults' \in 0..MaxFaults /\ faults' <= faults
  BY <1>1, Types, FaultUses, Constants DEF IInv, Fault
<1>3. QED
  BY <1>1, <1>2, OpenerGoes

(* The reader is cancelled, or fails.                                        *)
LEMMA ReaderEnds ==
  ASSUME IInv, recv \in {"read", "marker"}, recv' \in {"failed", "cancelled"},
         faults' \in 0..MaxFaults, faults' <= faults,
         UNCHANGED <<ws, final, open, disp, queue, tools, batches, supervision>>
  PROVE  IInv'
<1>1. UNCHANGED <<results, emitted, continued, creates, lock, closing, stop, registered,
                  run, drain, spawned>>
  BY DEF batches, supervision
<1>2. TypeOK'
  BY <1>1 DEF IInv, TypeOK
<1>3. NotConnected' /\ ToolsQueued' /\ LockHeld'
  BY <1>1, QueueStands, LockStands DEF IInv, NotConnected
<1>4. OrderOfSeen' /\ CreatedOnce'
  BY <1>1, BatchesStand
<1>5. LookedAt'
  BY NothingToLookAt DEF Working, Finished
<1>6. Closers' /\ EndsNoticed'
  BY <1>1 DEF IInv, Closers, EndsNoticed
<1>7. QED
  BY <1>2, <1>3, <1>4, <1>5, <1>6 DEF IInv

LEMMA ReaderEndsSteps ==
  ASSUME IInv, CancelReader \/ ReaderFails
  PROVE  IInv'
<1>1. /\ recv \in {"read", "marker"} /\ recv' \in {"failed", "cancelled"}
      /\ UNCHANGED <<ws, final, open, disp, queue, tools, batches, supervision>>
      /\ Fault \/ UNCHANGED faults
  BY DEF CancelReader, ReaderFails, Reading
<1>2. faults' \in 0..MaxFaults /\ faults' <= faults
  BY <1>1, Types, FaultUses, Constants DEF IInv, Fault
<1>3. QED
  BY <1>1, <1>2, ReaderEnds

LEMMA CancelDispatcherStep ==
  ASSUME IInv, CancelDispatcher
  PROVE  IInv'
<1>1. /\ run.pc = "cleanup" /\ disp.pc \in {"get", "continue", "write"}
      /\ UNCHANGED <<ws, final, open, recv, queue, tools, emitted, continued, creates,
                     closing, stop, registered, run, drain, spawned, faults>>
  BY DEF CancelDispatcher, supervision
<1>2. DispAt({"cancelled"})
  BY Types DEF IInv, CancelDispatcher, DispAt, Disps
<1>3. /\ results' \in [Tools -> ResultPcs]
      /\ \A t \in Tools : \/ results'[t] = results[t]
                          \/ results[t] = "waiting" /\ results'[t] = "failed"
  BY Types DEF IInv, CancelDispatcher, ResultPcs
<1>4. /\ lock' = IF disp.pc = "write" THEN Unlocked ELSE lock
  BY DEF IInv, LockHeld, CancelDispatcher
<1>5. Unlocked \in Locks /\ lock' \in Locks
  BY <1>4, Types, Constants DEF IInv, Unlocked, Locks, Places
<1>6. TypeOK'
  BY <1>1, <1>2, <1>3, <1>5 DEF IInv, TypeOK, DispAt, Disps, ResultPcs, Locks, Places
<1>7. NotConnected'
  BY <1>1 DEF NotConnected
<1>8. ToolsQueued'
  BY <1>1, <1>3, QueuedAreTools DEF IInv, ToolsQueued, IsTool
<1>9. OrderOfSeen'
  BY <1>1 DEF IInv, OrderOfSeen, Placed
<1>10. LockHeld'
  <2>1. CASE disp.pc = "write"
    BY <1>1, <1>2, <1>3, <1>4, <2>1, Constants
    DEF IInv, LockHeld, DispAt, Unlocked, BatchComplete, ToolsOf
  <2>2. CASE disp.pc # "write"
    BY <1>1, <1>2, <1>3, <1>4, <2>2 DEF IInv, LockHeld, DispAt, BatchComplete, ToolsOf
  <2>3. QED
    BY <2>1, <2>2
<1>11. CreatedOnce'
  BY <1>1 DEF IInv, CreatedOnce, Continued, BatchComplete, ToolsOf
<1>12. LookedAt'
  BY <1>1, NothingToLookAt DEF Working
<1>13. Closers' /\ EndsNoticed'
  BY <1>1 DEF IInv, Closers, EndsNoticed
<1>14. QED
  BY <1>6, <1>7, <1>8, <1>9, <1>10, <1>11, <1>12, <1>13 DEF IInv

LEMMA RunEndsStep ==
  ASSUME IInv, RunEnds
  PROVE  IInv'
<1>1. /\ /\ run.pc = "cleanup"
      /\ run' \in Runs
      /\ run'.pc = "done"
      /\ run'.cancel = run.cancel
      /\ registered' \in BOOLEAN
      /\ UNCHANGED <<ws, closing, stop, final, open, recv, disp, queue, tools, results,
                     emitted, continued, creates, lock, drain, spawned, faults>>
  BY Types DEF IInv, RunEnds, Runs, batches
<1>2. TypeOK'
  BY <1>1 DEF IInv, TypeOK, Runs
<1>3. NotConnected' /\ ToolsQueued' /\ LockHeld'
  BY <1>1, QueueStands, LockStands DEF IInv, NotConnected
<1>4. OrderOfSeen' /\ CreatedOnce'
  BY <1>1, BatchesStand, Types, Constants DEF IInv
<1>5. LookedAt'
  BY <1>1, NothingToLookAt DEF Working
<1>6. Closers' /\ EndsNoticed'
  BY <1>1 DEF IInv, Closers, EndsNoticed
<1>7. QED
  BY <1>2, <1>3, <1>4, <1>5, <1>6 DEF IInv

-----------------------------------------------------------------------------
(* The reader and its queue.                                                 *)

(* It queues an event that is nobody's work, or none, and goes on.           *)
LEMMA ReaderGoes ==
  ASSUME IInv, final' \in BOOLEAN, recv \in {"read", "marker"},
         recv' \in {"read", "marker", "done"},
         recv' # "read" => closing \/ run.pc \notin {"wait", "supervise"} \/ ws.far = "eof",
         \/ UNCHANGED queue
         \/ /\ \E e \in {CloseMarker, Event("closed", Nobody)} : QueueGrows(e)
            /\ Len(queue') <= QueueMax,
         UNCHANGED <<ws, open, disp, tools, batches, supervision, faults>>
  PROVE  IInv'
<1>1. UNCHANGED <<results, emitted, continued, creates, lock, closing, stop, registered,
                  run, drain, spawned>>
  BY DEF batches, supervision
<1>2. \/ UNCHANGED queue
      \/ /\ queue' \in Seq(Frames) /\ Len(queue') <= QueueMax /\ Len(queue) \in Nat
         /\ Len(queue') = Len(queue) + 1
         /\ \A i \in 1..Len(queue) : queue'[i] = queue[i]
         /\ queue'[Len(queue) + 1].kind \in {"marker", "closed"}
  BY LenProperties DEF IInv, ToolsQueued, QueueGrows, CloseMarker, Event
<1>3. TypeOK'
  <2>1. queue' \in Seq(Events) /\ Len(queue') <= QueueMax
    BY <1>2, FramesAreEvents DEF IInv, TypeOK, Events
  <2>2. QED
    BY <1>1, <2>1 DEF IInv, TypeOK, Events
<1>4. NotConnected'
  BY <1>1 DEF IInv, NotConnected
<1>5. ToolsQueued'
  <2>1. CASE UNCHANGED queue
    BY <1>1, <2>1, QueueStands DEF IInv
  <2>2. CASE ~UNCHANGED queue
    <3>1. \A i \in 1..Len(queue') : IsTool(i)' =>
             i \in 1..Len(queue) /\ queue'[i] = queue[i] /\ IsTool(i)
      BY <1>2, <2>2 DEF IsTool
    <3>2. queue' \in Seq(Frames)
      BY <1>2, <2>2
    <3>3. QED
      BY <1>1, <3>1, <3>2 DEF IInv, ToolsQueued
  <2>3. QED
    BY <2>1, <2>2
<1>6. LockHeld'
  BY <1>1, LockStands DEF IInv
<1>7. OrderOfSeen' /\ CreatedOnce'
  BY <1>1, BatchesStand, Types, Constants DEF IInv
<1>8. LookedAt'
  <2>1. Working' => Working
    BY <1>1 DEF Working, Writable, Finished
  <2>2. EventAhead => EventAhead'
    BY <1>1, <1>2 DEF EventAhead
  <2>3. ResultAhead' = ResultAhead
    BY <1>1 DEF ResultAhead
  <2>4. QED
    BY <1>1, <2>1, <2>2, <2>3, StillLookedAt DEF IInv
<1>9. Closers' /\ EndsNoticed'
  BY <1>1 DEF IInv, Closers, EndsNoticed
<1>10. QED
  BY <1>3, <1>4, <1>5, <1>6, <1>7, <1>8, <1>9 DEF IInv

LEMMA ReadClosedStep ==
  ASSUME IInv, ReadClosed
  PROVE  IInv'
<1>1. Event("closed", Nobody) \in Frames
  BY DEF Frames
<1>2. CASE final' = TRUE /\ Queued(Event("closed", Nobody)) /\ UNCHANGED faults
  <2>1. \/ QueueGrows(Event("closed", Nobody)) /\ Len(queue') <= QueueMax /\ UNCHANGED recv
        \/ UNCHANGED queue /\ recv' = "failed"
    BY <1>1, <1>2, QueuedPuts DEF IInv
  <2>2. CASE /\ QueueGrows(Event("closed", Nobody))
             /\ Len(queue') <= QueueMax
             /\ UNCHANGED recv
    BY <1>2, <2>2, ReaderGoes DEF ReadClosed, Reading
  <2>3. CASE UNCHANGED queue /\ recv' = "failed"
    <3>1. IInv /\ recv = "read" /\ ws.open
      BY DEF ReadClosed, Reading
    <3>2. UNCHANGED <<ws, open, disp, queue, tools, results, emitted, continued, creates,
                      lock, closing, stop, registered, run, drain, spawned, faults>>
      BY <1>2, <2>3 DEF ReadClosed, batches, supervision
    <3>3. TypeOK'
      BY <1>2, <2>3, <3>2 DEF IInv, TypeOK
    <3>4. NotConnected' /\ ToolsQueued' /\ LockHeld'
      BY <3>1, <3>2, QueueStands, LockStands DEF IInv, NotConnected
    <3>5. OrderOfSeen' /\ CreatedOnce'
      BY <3>2, BatchesStand, Types, Constants DEF IInv
    <3>6. LookedAt'
      BY <2>3, NothingToLookAt DEF Working, Finished
    <3>7. Closers' /\ EndsNoticed'
      BY <2>3, <3>2 DEF IInv, Closers, EndsNoticed
    <3>8. QED
      BY <3>3, <3>4, <3>5, <3>6, <3>7 DEF IInv
  <2>4. QED
    BY <2>1, <2>2, <2>3
<1>3. CASE Fault /\ recv' = "failed" /\ UNCHANGED <<final, queue>>
  <2>1. faults' \in 0..MaxFaults /\ faults' <= faults
    BY <1>3, Types, FaultUses, Constants DEF IInv, Fault
  <2>2. QED
    BY <1>3, <2>1, ReaderEnds DEF ReadClosed, Reading
<1>4. \/ final' = TRUE /\ Queued(Event("closed", Nobody)) /\ UNCHANGED faults
      \/ Fault /\ recv' = "failed" /\ UNCHANGED <<final, queue>>
  BY Zenon DEF ReadClosed
<1>5. QED
  BY <1>2, <1>3, <1>4, Zenon

LEMMA ReaderStopsStep ==
  ASSUME IInv, ReaderStops
  PROVE  IInv'
<1>1. final' \in BOOLEAN
  BY DEF IInv, TypeOK, ReaderStops
<1>2. CASE /\ recv = "read" /\ (~ws.open \/ ws.far = "eof")
           /\ recv' = "marker" /\ UNCHANGED queue
  <2>1. closing \/ run.pc \notin {"wait", "supervise"} \/ ws.far = "eof"
    BY <1>2 DEF IInv, Closers
  <2>2. QED
    BY <1>1, <1>2, <2>1, ReaderGoes DEF ReaderStops
<1>3. CASE /\ recv = "marker" /\ Len(queue) < QueueMax
           /\ queue' = Append(queue, CloseMarker) /\ recv' = "done"
  <2>1. closing \/ run.pc \notin {"wait", "supervise"} \/ ws.far = "eof"
    BY <1>3 DEF IInv, Closers
  <2>2. QueueGrows(CloseMarker)
    BY <1>3, QueuePuts DEF IInv, ToolsQueued, Frames
  <2>3. Len(queue') <= QueueMax
    BY <1>3, <2>2, LenProperties, Constants DEF IInv, ToolsQueued, QueueGrows
  <2>4. QED
    BY <1>1, <1>3, <2>1, <2>2, <2>3, ReaderGoes DEF ReaderStops
<1>4. QED
  BY <1>2, <1>3 DEF ReaderStops

LEMMA FarEndClosesStep ==
  ASSUME IInv, FarEndCloses
  PROVE  IInv'
<1>1. /\ ws' \in Sockets /\ ws'.far = "eof" /\ ws'.open = ws.open
      /\ UNCHANGED <<closing, stop, final, registered, run, open, recv, disp, queue, tools,
                     results, emitted, continued, creates, lock, drain, spawned, faults>>
  BY Types DEF IInv, FarEndCloses, Sockets, batches, supervision
<1>2. TypeOK'
  BY <1>1 DEF IInv, TypeOK, Sockets
<1>3. NotConnected' /\ ToolsQueued' /\ LockHeld'
  BY <1>1, QueueStands, LockStands DEF IInv, NotConnected
<1>4. OrderOfSeen' /\ CreatedOnce'
  BY <1>1, BatchesStand, Types, Constants DEF IInv
<1>5. LookedAt'
  BY <1>1, NothingToLookAt DEF Working, Writable
<1>6. Closers' /\ EndsNoticed'
  BY <1>1 DEF IInv, Closers, EndsNoticed
<1>7. QED
  BY <1>2, <1>3, <1>4, <1>5, <1>6 DEF IInv

(* What the reader notes of a frame before it queues it.                     *)
Notes(e) ==
  /\ tools' \in Seen
  /\ \/ /\ e.kind = "completed" /\ tools'.seen = tools.seen /\ tools'.order = tools.order
        /\ tools'.completed = tools.completed \cup {e.of}
     \/ /\ e.kind = "tool" /\ e.of \in Tools \ tools.seen
        /\ ResponseOf[e.of] \notin tools.completed
        /\ tools'.seen = tools.seen \cup {e.of} /\ tools'.completed = tools.completed
        /\ \/ /\ tools'.order = tools.order
              /\ \E u \in tools.seen : ResponseOf[u] = ResponseOf[e.of]
           \/ /\ ~\E u \in tools.seen : ResponseOf[u] = ResponseOf[e.of]
              /\ Len(tools'.order) = Len(tools.order) + 1
              /\ \A i \in 1..Len(tools.order) : tools'.order[i] = tools.order[i]
              /\ tools'.order[Len(tools.order) + 1] = ResponseOf[e.of]

LEMMA FrameNoted ==
  ASSUME TypeOK, NEW e, tools' = Observed(e),
         \/ \E r \in Responses \ tools.completed : e = Event("completed", r)
         \/ \E t \in Tools \ tools.seen :
               ResponseOf[t] \notin tools.completed /\ e = Event("tool", t)
  PROVE  e \in Frames /\ e.kind \in {"tool", "completed"} /\ Notes(e)
<1>1. tools \in Seen
  BY Types
<1>2. CASE \E r \in Responses : e = Event("completed", r)
  <2>1. e.kind = "completed" /\ e.of \in Responses /\ e \in Frames
    BY <1>2 DEF Event, Frames
  <2>2. tools' = [tools EXCEPT !.completed = @ \cup {e.of}]
    BY <2>1 DEF Observed
  <2>3. QED
    BY <1>1, <2>1, <2>2 DEF Seen, Notes
<1>3. CASE \E t \in Tools \ tools.seen :
             ResponseOf[t] \notin tools.completed /\ e = Event("tool", t)
  <2>1. /\ e.kind = "tool" /\ e.of \in Tools \ tools.seen /\ e \in Frames
        /\ ResponseOf[e.of] \notin tools.completed /\ ResponseOf[e.of] \in Responses
    BY <1>3, Constants DEF Event, Frames
  <2> DEFINE known == \E u \in tools.seen : ResponseOf[u] = ResponseOf[e.of]
             longer == Append(tools.order, ResponseOf[e.of])
  <2>2. tools' = [seen |-> tools.seen \cup {e.of}, completed |-> tools.completed,
                  order |-> IF known THEN tools.order ELSE longer]
    BY <1>1, <2>1 DEF Observed, Seen
  <2>3. /\ longer \in Seq(Responses) /\ Len(longer) = Len(tools.order) + 1
        /\ \A i \in 1..Len(tools.order) : longer[i] = tools.order[i]
        /\ longer[Len(tools.order) + 1] = ResponseOf[e.of]
    BY <1>1, <2>1, AppendProperties DEF Seen
  <2> HIDE DEF longer
  <2>4. CASE known
    BY <1>1, <2>1, <2>2, <2>4 DEF Seen, Notes
  <2>5. CASE ~known
    BY <1>1, <2>1, <2>2, <2>3, <2>5 DEF Seen, Notes
  <2>6. QED
    BY <2>4, <2>5
<1>4. QED
  BY <1>2, <1>3

LEMMA NotesKeepOrder ==
  ASSUME TypeOK, OrderOfSeen, NEW e, Notes(e)
  PROVE  /\ OrderOfSeen'
         /\ Len(tools.order) \in Nat /\ Len(tools'.order) \in Nat
         /\ Len(tools.order) <= Len(tools'.order)
         /\ Len(tools'.order) <= Cardinality(Responses)
         /\ \A i \in 1..Len(tools.order) : tools'.order[i] = tools.order[i]
<1>1. /\ tools \in Seen /\ tools' \in Seen
      /\ Len(tools.order) \in Nat /\ Len(tools'.order) \in Nat
  BY Types, LenProperties DEF Seen, Notes
<1> DEFINE Kept == /\ OrderOfSeen' /\ Len(tools.order) <= Len(tools'.order)
                   /\ \A i \in 1..Len(tools.order) : tools'.order[i] = tools.order[i]
<1>2. ASSUME tools'.order = tools.order, tools'.seen = tools.seen
      PROVE  Kept
  BY <1>1, <1>2 DEF OrderOfSeen, Placed
<1>3. ASSUME tools'.order = tools.order, tools'.seen = tools.seen \cup {e.of},
             \E u \in tools.seen : ResponseOf[u] = ResponseOf[e.of]
      PROVE  Kept
  BY <1>1, <1>3 DEF OrderOfSeen, Placed
<1>4. ASSUME ~\E u \in tools.seen : ResponseOf[u] = ResponseOf[e.of],
             tools'.seen = tools.seen \cup {e.of},
             Len(tools'.order) = Len(tools.order) + 1,
             \A i \in 1..Len(tools.order) : tools'.order[i] = tools.order[i],
             tools'.order[Len(tools.order) + 1] = ResponseOf[e.of]
      PROVE  Kept
  <2>1. \A j \in 1..Len(tools'.order) :
           j \in 1..Len(tools.order) \/ j = Len(tools.order) + 1
    BY <1>1, <1>4
  <2>2. \A t \in tools'.seen : Placed(ResponseOf[t])'
    <3>1. \A t \in tools.seen :
             \E j \in 1..Len(tools.order) : tools.order[j] = ResponseOf[t]
      BY DEF OrderOfSeen, Placed
    <3>2. 1..Len(tools.order) \subseteq 1..Len(tools'.order)
          /\ Len(tools.order) + 1 \in 1..Len(tools'.order)
      BY <1>1, <1>4
    <3>3. QED
      BY <1>4, <3>1, <3>2 DEF Placed
  <2>3. \A j \in 1..Len(tools'.order) :
             \E t \in tools'.seen : tools'.order[j] = ResponseOf[t]
    BY <1>4, <2>1 DEF OrderOfSeen
  <2>4. \A j \in 1..Len(tools.order) : tools.order[j] # ResponseOf[e.of]
    BY <1>4 DEF OrderOfSeen
  <2>5. \A i, j \in 1..Len(tools'.order) : tools'.order[i] = tools'.order[j] => i = j
    BY <1>4, <2>1, <2>4 DEF OrderOfSeen
  <2>6. OrderOfSeen'
    BY ONLY <2>2, <2>3, <2>5 DEF OrderOfSeen
  <2>7. Len(tools.order) <= Len(tools'.order)
    BY ONLY <1>1, <1>4
  <2>8. QED
    BY ONLY <1>4, <2>6, <2>7
<1>5. Kept
  BY <1>1, <1>2, <1>3, <1>4 DEF Notes
<1>6. Len(tools'.order) <= Cardinality(Responses)
  BY <1>1, <1>5, PlacesSuffice DEF OrderOfSeen, Seen
<1>7. QED
  BY <1>1, <1>5, <1>6

(* A batch that was complete stays so: no call comes after the end of its    *)
(* response.                                                                 *)
LEMMA NotesKeepBatches ==
  ASSUME TypeOK, NEW e, Notes(e), NEW r, NEW sent, BatchComplete(r, sent)
  PROVE  BatchComplete(r, sent)'
  BY DEF Notes, BatchComplete, ToolsOf

LEMMA ReadEventStep ==
  ASSUME IInv, ReadEvent
  PROVE  IInv'
<1>1. /\ recv = "read" /\ final' \in BOOLEAN
      /\ UNCHANGED <<ws, open, disp, results, emitted, continued, creates, lock, closing,
                     stop, registered, run, drain, spawned, faults>>
  BY DEF IInv, TypeOK, ReadEvent, Reading, batches, supervision
<1>2. PICK e : /\ tools' = Observed(e) /\ Queued(e)
               /\ \/ \E r \in Responses \ tools.completed : e = Event("completed", r)
                  \/ \E t \in Tools \ tools.seen :
                        ResponseOf[t] \notin tools.completed /\ e = Event("tool", t)
  BY DEF ReadEvent
<1>3. e \in Frames /\ e.kind \in {"tool", "completed"} /\ Notes(e)
  BY <1>2, FrameNoted DEF IInv
<1>4. \/ QueueGrows(e) /\ Len(queue') <= QueueMax /\ UNCHANGED recv
      \/ UNCHANGED queue /\ recv' = "failed"
  BY <1>2, <1>3, QueuedPuts DEF IInv
<1>5. /\ OrderOfSeen'
      /\ Len(tools.order) \in Nat /\ Len(tools'.order) \in Nat
      /\ Len(tools.order) <= Len(tools'.order)
      /\ Len(tools'.order) <= Cardinality(Responses)
      /\ \A i \in 1..Len(tools.order) : tools'.order[i] = tools.order[i]
  BY <1>3, NotesKeepOrder DEF IInv
<1>6. TypeOK'
  <2>1. queue' \in Seq(Events) /\ Len(queue') <= QueueMax
    BY <1>4, FramesAreEvents DEF IInv, TypeOK, QueueGrows, Events
  <2>2. tools' \in Seen
    BY <1>3 DEF Notes
  <2>3. QED
    BY <1>1, <1>4, <1>5, <2>1, <2>2 DEF IInv, TypeOK, Events, Seen
<1>7. NotConnected'
  BY <1>1 DEF IInv, NotConnected
<1>8. ToolsQueued'
  <2>1. \A t \in Tools : t \notin tools'.seen => results'[t] = "none"
    BY <1>1, <1>3 DEF IInv, ToolsQueued, Notes
  <2>2. tools.seen \subseteq tools'.seen
    BY <1>3 DEF Notes
  <2>3. CASE UNCHANGED queue
    BY <1>1, <2>1, <2>2, <2>3 DEF IInv, ToolsQueued, IsTool
  <2>4. CASE QueueGrows(e)
    <3>1. Len(queue) \in Nat
      BY LenProperties DEF IInv, ToolsQueued
    <3>2. \A i \in 1..Len(queue') :
             \/ i \in 1..Len(queue) /\ queue'[i] = queue[i]
             \/ i = Len(queue) + 1 /\ queue'[i] = e
      BY <2>4, <3>1 DEF QueueGrows
    <3>3. e.kind = "tool" => /\ e.of \in Tools \ tools.seen /\ e.of \in tools'.seen
                             /\ results[e.of] = "none"
      BY <1>3 DEF IInv, ToolsQueued, Notes
    <3>4. \A i \in 1..Len(queue') :
             IsTool(i)' => queue'[i].of \in tools'.seen /\ results'[queue'[i].of] = "none"
      BY <1>1, <2>2, <3>2, <3>3 DEF IInv, ToolsQueued, IsTool
    <3>5. \A i, j \in 1..Len(queue') :
             IsTool(i)' /\ IsTool(j)' /\ queue'[i].of = queue'[j].of => i = j
      BY <3>2, <3>3 DEF IInv, ToolsQueued, IsTool
    <3>6. QED
      BY <2>1, <2>4, <3>4, <3>5 DEF ToolsQueued, QueueGrows
  <2>5. QED
    BY <1>4, <2>3, <2>4
<1>9. LockHeld'
  <2>1. ASSUME lock.at = "write"
        PROVE  /\ lock.next \in 1..lock.size /\ lock.size <= Len(tools'.order)
               /\ BatchComplete(tools.order[lock.next], emitted)'
               /\ tools'.order[lock.next] \notin continued
    <3>1. /\ lock.next \in 1..lock.size /\ lock.size <= Len(tools.order)
          /\ BatchComplete(tools.order[lock.next], emitted)
          /\ tools.order[lock.next] \notin continued /\ lock.size \in Nat
      BY <2>1, Types, Constants DEF IInv, LockHeld, Locks, Places
    <3>2. lock.next \in 1..Len(tools.order) /\ lock.size <= Len(tools'.order)
      BY <1>5, <3>1
    <3>3. tools'.order[lock.next] = tools.order[lock.next]
      BY <1>5, <3>2
    <3>4. PICK r : r = tools.order[lock.next]
      OBVIOUS
    <3>5. BatchComplete(r, emitted)'
      BY <1>1, <1>3, <3>1, <3>4, NotesKeepBatches DEF IInv
    <3>6. BatchComplete(tools.order[lock.next], emitted)'
      BY <1>1, <3>3, <3>4, <3>5 DEF BatchComplete, ToolsOf
    <3>7. QED
      BY <3>1, <3>2, <3>3, <3>6
  <2>2. QED
    BY <1>1, <2>1 DEF IInv, LockHeld
<1>10. CreatedOnce'
  <2>1. ASSUME NEW r \in Responses, BatchComplete(r, emitted)
        PROVE  BatchComplete(r, emitted)'
    BY <1>1, <1>3, <2>1, NotesKeepBatches DEF IInv
  <2>2. QED
    BY <1>1, <2>1 DEF IInv, CreatedOnce, Continued
<1>11. LookedAt'
  <2>1. CASE recv' = "failed"
    BY <2>1, NothingToLookAt DEF Working, Finished
  <2>2. CASE QueueGrows(e)
    <3>1. EventAhead'
      BY <1>3, <2>2, LenProperties DEF IInv, ToolsQueued, QueueGrows, EventAhead
    <3>2. QED
      BY <3>1 DEF LookedAt
  <2>3. QED
    BY <1>4, <2>1, <2>2
<1>12. Closers' /\ EndsNoticed'
  BY <1>1, <1>4 DEF IInv, Closers, EndsNoticed
<1>13. QED
  BY <1>5, <1>6, <1>7, <1>8, <1>9, <1>10, <1>11, <1>12 DEF IInv

-----------------------------------------------------------------------------
(* The dispatcher takes an event, and has somebody work on it if need be.    *)
LEMMA DispatchStep ==
  ASSUME IInv, Dispatch
  PROVE  IInv'
<1> DEFINE e == queue[1]
<1>1. /\ disp.pc = "get"
      /\ UNCHANGED <<ws, closing, stop, final, registered, run, open, recv, tools, emitted,
                     continued, creates, lock, drain>>
  BY DEF Dispatch
<1>2. QueueShrinks /\ Head(queue) = e /\ e \in Frames
  BY QueueTakes DEF IInv, ToolsQueued, Dispatch
<1>3. /\ Len(queue) \in Nat /\ 1 \in 1..Len(queue)
      /\ \A i \in 1..Len(queue') : i + 1 \in 1..Len(queue) /\ queue'[i] = queue[i + 1]
      /\ \A i \in 1..Len(queue) : i = 1
                          \/ (i - 1 \in 1..Len(queue') /\ queue'[i - 1] = queue[i])
  <2>1. Len(queue) \in Nat
    BY LenProperties DEF IInv, ToolsQueued
  <2>2. QED
    BY <1>2, <2>1 DEF QueueShrinks
<1>4. /\ e.kind = "tool" => e.of \in Tools
      /\ e.kind = "marker" <=> e = CloseMarker
  BY <1>2, FrameKinds
<1>5. /\ \/ e.kind # "tool" /\ UNCHANGED results
         \/ e.kind = "tool" /\ ResultAt(e.of, "due")
         \/ e.kind = "tool" /\ ResultAt(e.of, "waiting")
         \/ disp'.pc = "failed" /\ UNCHANGED results
      /\ DispAt({"get", "continue", "done", "failed"})
      /\ disp'.pc = "get" => e.kind = "closed"
      /\ spawned \subseteq spawned' /\ spawned' \subseteq {"fatal", "event"}
      /\ Fault \/ UNCHANGED faults
  <2>1. disp \in Disps /\ spawned \subseteq {"fatal", "event"}
    BY Types DEF IInv, TypeOK
  <2>2. CASE e = CloseMarker /\ disp' = [disp EXCEPT !.pc = "done"]
             /\ UNCHANGED <<results, spawned, faults>>
    BY <1>4, <2>1, <2>2 DEF DispAt, Disps
  <2>3. CASE e.kind = "completed" /\ disp' = [disp EXCEPT !.pc = "continue"]
             /\ UNCHANGED <<results, spawned, faults>>
    BY <2>1, <2>3 DEF DispAt, Disps
  <2>4. CASE /\ e.kind = "tool"
             /\ results' = [results EXCEPT ![e.of] = IF e.of \in Inline THEN "waiting" ELSE "due"]
             /\ disp' = [pc |-> "continue", tool |-> IF e.of \in Inline THEN e.of ELSE Nobody]
             /\ UNCHANGED <<spawned, faults>>
    <3>1. CASE e.of \in Inline
      <4>1. ResultAt(e.of, "waiting")
        BY <1>4, <2>4, <3>1, ResultGoes DEF IInv, ResultPcs
      <4>2. QED
        BY <1>4, <2>1, <2>4, <3>1, <4>1 DEF DispAt, Disps
    <3>2. CASE e.of \notin Inline
      <4>1. ResultAt(e.of, "due")
        BY <1>4, <2>4, <3>2, ResultGoes DEF IInv, ResultPcs
      <4>2. QED
        BY <1>4, <2>1, <2>4, <3>2, <4>1 DEF DispAt, Disps
    <3>3. QED
      BY <3>1, <3>2
  <2>5. CASE e.kind = "closed" /\ spawned' = spawned \cup {"event"} /\ disp' = EventDone
             /\ UNCHANGED <<results, faults>>
    BY <2>1, <2>5 DEF DispAt, Disps, EventDone
  <2>6. CASE /\ Fault
             /\ disp' = [disp EXCEPT !.pc = "failed"]
             /\ UNCHANGED <<results, spawned>>
    BY <2>1, <2>6 DEF DispAt, Disps
  <2>7. QED
    BY <1>2, <2>2, <2>3, <2>4, <2>5, <2>6 DEF Dispatch
<1> HIDE DEF e
<1>6. faults' \in 0..MaxFaults /\ faults' <= faults
  BY <1>5, Types, FaultUses, Constants DEF IInv, Fault
<1>7. e.kind = "tool" => e.of \in tools.seen /\ results[e.of] = "none"
  BY <1>3 DEF e, IInv, ToolsQueued, IsTool
<1>8. /\ results' \in [Tools -> ResultPcs]
      /\ \A t \in Tools : results'[t] # results[t] =>
           /\ e.kind = "tool" /\ t = e.of /\ results[t] = "none" /\ t \in tools.seen
           /\ results'[t] \in {"due", "waiting"}
  BY <1>5, <1>7, Types DEF IInv, ResultAt
<1>9. TypeOK'
  <2>1. queue' \in Seq(Events) /\ Len(queue') <= QueueMax
    BY <1>2, <1>3, FramesAreEvents, Constants DEF QueueShrinks, IInv, TypeOK
  <2>2. QED
    BY <1>1, <1>5, <1>6, <1>8, <2>1 DEF IInv, TypeOK, DispAt, Disps, Events, ResultPcs
<1>10. NotConnected'
  BY <1>1 DEF IInv, NotConnected
<1>11. ToolsQueued'
  <2>1. \A t \in Tools : t \notin tools'.seen => results'[t] = "none"
    BY <1>1, <1>8 DEF IInv, ToolsQueued
  <2>2. \A i \in 1..Len(queue') : IsTool(i)' =>
           /\ i + 1 \in 1..Len(queue) /\ IsTool(i + 1) /\ queue'[i].of = queue[i + 1].of
           /\ e.kind = "tool" => queue[i + 1].of # e.of
    BY <1>3 DEF IInv, ToolsQueued, IsTool, e
  <2>3. ASSUME NEW i \in 1..Len(queue'), IsTool(i)'
        PROVE  queue'[i].of \in tools'.seen /\ results'[queue'[i].of] = "none"
    <3>1. /\ queue[i + 1].of \in tools.seen /\ queue[i + 1].of \in Tools
          /\ results[queue[i + 1].of] = "none"
      BY <2>2, <2>3, QueuedAreTools DEF IInv, ToolsQueued
    <3>2. results'[queue[i + 1].of] = results[queue[i + 1].of]
      BY <1>8, <2>2, <2>3, <3>1
    <3>3. QED
      BY <1>1, <2>2, <2>3, <3>1, <3>2
  <2>4. ASSUME NEW i \in 1..Len(queue'), NEW j \in 1..Len(queue'), IsTool(i)', IsTool(j)',
               queue'[i].of = queue'[j].of
        PROVE  i = j
    <3>1. i + 1 = j + 1
      BY <2>2, <2>4 DEF IInv, ToolsQueued
    <3>2. QED
      BY <3>1
  <2>5. QED
    BY <1>2, <2>1, <2>3, <2>4 DEF ToolsQueued, QueueShrinks
<1>12. LockHeld'
  <2>1. \A t \in Tools : results'[t] = "locked" <=> results[t] = "locked"
    BY <1>8
  <2>2. disp.pc # "write" /\ disp'.pc # "write"
    BY <1>1, <1>5 DEF DispAt
  <2>3. QED
    BY <1>1, <2>1, <2>2 DEF IInv, LockHeld, BatchComplete, ToolsOf
<1>13. OrderOfSeen' /\ CreatedOnce'
  BY <1>1, <1>6, Types, Constants
  DEF IInv, OrderOfSeen, Placed, CreatedOnce, Continued, BatchComplete, ToolsOf
<1>14. LookedAt'
  <2>1. CASE disp'.pc \in {"done", "failed"}
    BY <2>1, NothingToLookAt DEF Working, Finished
  <2>2. CASE disp'.pc = "continue"
    BY <2>2 DEF LookedAt, EventAhead
  <2>3. CASE disp'.pc = "get"
    <3>1. e.kind = "closed"
      BY <1>5, <2>3
    <3>2. EventAhead => EventAhead'
      BY <1>1, <1>3, <3>1 DEF EventAhead, e
    <3>3. ResultAhead => ResultAhead'
      BY <1>1, <1>5, <2>3, <3>1 DEF ResultAhead
    <3>4. Working' => Working
      BY <1>1, <1>6, <2>3, Types, Constants DEF IInv, Working, Writable, Finished
    <3>5. QED
      BY <1>1, <3>2, <3>3, <3>4, StillLookedAt DEF IInv
  <2>4. QED
    BY <1>5, <2>1, <2>2, <2>3 DEF DispAt
<1>15. Closers' /\ EndsNoticed'
  BY <1>1, <1>5 DEF IInv, Closers, EndsNoticed
<1>16. QED
  BY <1>9, <1>10, <1>11, <1>12, <1>13, <1>14, <1>15 DEF IInv

-----------------------------------------------------------------------------
(* Tool results and continuations: the steps of whoever holds the lock.      *)

LEMMA StartResultStep ==
  ASSUME IInv, NEW t \in Tools, StartResult(t)
  PROVE  IInv'
<1>1. /\ results[t] \in {"due", "failed"} /\ ResultAt(t, "waiting")
      /\ UNCHANGED <<ws, final, open, recv, disp, queue, tools, emitted, continued, creates,
                     lock, closing, stop, registered, run, drain, spawned, faults>>
  BY ResultGoes DEF IInv, StartResult, supervision, ResultPcs
<1>2. TypeOK'
  BY <1>1 DEF IInv, TypeOK, ResultAt, ResultPcs
<1>3. NotConnected'
  BY <1>1 DEF IInv, NotConnected
<1>4. ToolsQueued'
  <2>1. \A u \in Tools : results[u] = "none" => results'[u] = "none"
    BY <1>1 DEF ResultAt
  <2>2. \A u \in Tools : u \notin tools.seen => results'[u] = "none"
    BY <2>1 DEF IInv, ToolsQueued
  <2>3. QED
    BY <1>1, <2>1, <2>2, QueuedAreTools DEF IInv, ToolsQueued, IsTool
<1>5. OrderOfSeen' /\ CreatedOnce'
  BY <1>1, Types, Constants
  DEF IInv, OrderOfSeen, Placed, CreatedOnce, Continued, BatchComplete, ToolsOf
<1>6. LockHeld'
  BY <1>1 DEF IInv, LockHeld, ResultAt, BatchComplete, ToolsOf
<1>7. LookedAt'
  <2>1. ResultAhead'
    BY <1>1 DEF ResultAhead, ResultAt
  <2>2. (Working' => Working) /\ EventAhead' = EventAhead
    BY <1>1 DEF Working, Writable, EventAhead
  <2>3. QED
    BY <1>1, <2>1, <2>2, StillLookedAt DEF IInv
<1>8. Closers' /\ EndsNoticed'
  BY <1>1 DEF IInv, Closers, EndsNoticed
<1>9. QED
  BY <1>2, <1>3, <1>4, <1>5, <1>6, <1>7, <1>8 DEF IInv

(* The holder h of the lock, or the one who takes it.                        *)
Holder(h) ==
  /\ lock.by \in {Nobody, h}
  /\ \/ h = "dispatcher" /\ disp.pc \in {"continue", "write"}
     \/ h \in Tools /\ results[h] \in {"waiting", "locked"}

LEMMA TheHolder ==
  ASSUME TypeOK, LockHeld, lock.by # Nobody
  PROVE  Holder(lock.by)
<1>1. lock.by \in Tools \cup {"dispatcher"}
  BY Types DEF Locks
<1>2. QED
  BY <1>1 DEF LockHeld, Holder

(* Whatever it does then, all but the batches is as it was.                  *)
Elsewhere ==
  /\ UNCHANGED <<ws, final, open, recv, queue, tools, supervision>>
  /\ emitted \subseteq emitted' /\ emitted' \subseteq Tools
  /\ continued \subseteq continued' /\ continued' \subseteq Responses
  /\ creates' \in [Responses -> 0..2] /\ faults' \in 0..MaxFaults

(* The lock, and what the holder is at, go together.                         *)
Held(h) ==
  /\ lock' \in Locks /\ disp' \in Disps /\ results' \in [Tools -> ResultPcs]
  /\ \/ lock'.by = Nobody /\ lock'.at = "free"
     \/ lock'.by = h /\ lock'.at = "write"
  /\ \/ /\ h = "dispatcher" /\ UNCHANGED results
        /\ disp'.pc \in {"get", "done", "failed", "write"}
        /\ disp'.pc = "write" <=> lock'.by = h
     \/ /\ h \in Tools /\ UNCHANGED disp
        /\ results'[h] \in {"sent", "failed", "locked"}
        /\ results'[h] = "locked" <=> lock'.by = h
        /\ \A u \in Tools : u # h => results'[u] = results[u]

LEMMA FreeLock == Unlocked \in Locks /\ Unlocked.by = Nobody /\ Unlocked.at = "free"
  BY Constants DEF Unlocked, Locks, Places

LEMMA HolderHeld ==
  ASSUME IInv, NEW h, Holder(h),
         \/ \E how \in {"sent", "failed"} : LetsGo(h, how)
         \/ \E i, size : Writes(h, i, size)
  PROVE  Held(h)
<1>1. disp \in Disps /\ results \in [Tools -> ResultPcs] /\ h # Nobody
  BY Types, Constants DEF IInv, Holder
<1>2. ASSUME NEW how \in {"sent", "failed"}, LetsGo(h, how)
      PROVE  Held(h)
  <2>1. CASE h = "dispatcher"
    BY <1>1, <1>2, <2>1, FreeLock, Constants DEF LetsGo, Held, DispAt
  <2>2. CASE h # "dispatcher"
    BY <1>1, <1>2, <2>2, FreeLock, Constants DEF LetsGo, Held, ResultAt
  <2>3. QED
    BY <2>1, <2>2
<1>3. ASSUME NEW i, NEW size, Writes(h, i, size)
      PROVE  Held(h)
  BY <1>1, <1>3, Constants DEF Writes, Held, DispAt, ResultAt
<1>4. QED
  BY <1>2, <1>3

LEMMA HolderKeeps ==
  ASSUME IInv, NEW h, Holder(h), Elsewhere,
         \/ \E how \in {"sent", "failed"} : LetsGo(h, how)
         \/ \E i \in Nat \ {0} : Writes(h, i, Len(tools.order))
  PROVE  /\ TypeOK' /\ NotConnected' /\ ToolsQueued' /\ OrderOfSeen' /\ LockHeld'
         /\ Closers' /\ EndsNoticed'
<1>1. UNCHANGED <<ws, final, open, recv, queue, tools, closing, stop, registered, run,
                  drain, spawned>>
  BY DEF Elsewhere, supervision
<1>2. Held(h)
  BY HolderHeld
<1>3. TypeOK'
  BY <1>1, <1>2 DEF IInv, TypeOK, Elsewhere, Held, Locks, Places, Disps, ResultPcs
<1>4. NotConnected'
  BY <1>1, <1>2, Constants DEF IInv, NotConnected, Held, Holder, LockHeld, ToolsQueued
<1>5. \A t \in Tools : results[t] = "none" => results'[t] = "none"
  BY <1>2, Constants DEF Held, Holder
<1>6. \A t \in Tools : t \notin tools.seen => results'[t] = "none"
  BY <1>5 DEF IInv, ToolsQueued
<1>7. ToolsQueued'
  BY <1>1, <1>5, <1>6, QueuedAreTools DEF IInv, ToolsQueued, IsTool
<1>8. OrderOfSeen'
  BY <1>1 DEF IInv, OrderOfSeen, Placed
<1>9. LockHeld'
  <2>1. /\ lock'.by = Nobody <=> lock'.at = "free"
        /\ lock'.at # "emit"
    BY <1>2, Constants DEF Held
  <2>2. lock'.by = "dispatcher" <=> disp'.pc = "write"
    BY <1>2, Constants DEF Held, Holder, IInv, LockHeld
  <2>3. \A t \in Tools : lock'.by = t <=> results'[t] = "locked"
    BY <1>2, Constants DEF Held, Holder, IInv, LockHeld
  <2>4. ASSUME lock'.at = "write"
        PROVE  /\ lock'.next \in 1..lock'.size /\ lock'.size <= Len(tools'.order)
               /\ BatchComplete(tools.order[lock.next], emitted)'
               /\ tools'.order[lock'.next] \notin continued'
    <3>1. PICK i \in Nat \ {0} : Writes(h, i, Len(tools.order))
      BY <2>4, FreeLock DEF LetsGo
    <3>2. Len(tools.order) \in Nat
      BY Types, LenProperties DEF IInv, Seen
    <3>3. lock'.next \in 1..lock'.size /\ lock'.size = Len(tools.order)
      BY <3>1, <3>2 DEF Writes
    <3>4. ReadyBatch(tools.order[lock'.next], emitted', continued')
      BY <3>1 DEF Writes
    <3>5. QED
      BY <1>1, <3>2, <3>3, <3>4 DEF ReadyBatch, BatchComplete, ToolsOf
  <2>5. QED
    BY <2>1, <2>2, <2>3, <2>4 DEF LockHeld
<1>10. Closers' /\ EndsNoticed'
  BY <1>1 DEF IInv, Closers, EndsNoticed
<1>11. QED
  BY <1>3, <1>4, <1>7, <1>8, <1>9, <1>10

(* A loop from the i-th place on leaves no ready batch behind that nobody    *)
(* else will look at.                                                        *)
LEMMA LoopKeeps ==
  ASSUME IInv, NEW h, Holder(h), Elsewhere, CreatedOnce', NEW i \in Nat \ {0},
         GoesOn(h, i, Len(tools.order)),
         \A r \in Responses : Working' /\ ReadyBatch(r, emitted', continued') =>
           \/ EventAhead' \/ ResultAhead'
           \/ \E j \in i..Len(tools.order) : tools.order[j] = r
  PROVE  IInv'
<1>1. /\ TypeOK' /\ NotConnected' /\ ToolsQueued' /\ OrderOfSeen' /\ LockHeld'
      /\ Closers' /\ EndsNoticed'
  BY HolderKeeps DEF GoesOn
<1>2. LookedAt'
  <2>1. UNCHANGED <<tools, closing>>
    BY DEF Elsewhere, supervision
  <2>2. lock'.at = "write" => lock'.size = Len(tools'.order)
    BY <2>1, FreeLock DEF GoesOn, LetsGo, Writes
  <2>3. ASSUME NEW r \in Responses, Working', ReadyBatch(r, emitted, continued)'
        PROVE  EventAhead' \/ LoopAhead(r)' \/ ResultAhead'
    <3>1. ReadyBatch(r, emitted', continued')
      BY <2>1, <2>3 DEF ReadyBatch, BatchComplete, ToolsOf
    <3>2. CASE EventAhead' \/ ResultAhead'
      BY <3>2
    <3>3. CASE \E j \in i..Len(tools.order) : tools.order[j] = r
      <4>1. PICK j \in i..Len(tools.order) : tools.order[j] = r
        BY <3>3
      <4>2. Writes(h, i, Len(tools.order)) /\ lock'.next <= j
        BY <3>1, <4>1 DEF GoesOn, Writes
      <4>3. Len(tools.order) \in Nat
        BY Types, LenProperties DEF IInv, Seen
      <4>4. j \in lock'.next..lock'.size /\ lock'.at = "write" /\ tools'.order[j] = r
        BY <2>1, <4>1, <4>2, <4>3 DEF Writes
      <4>5. QED
        BY <4>4 DEF LoopAhead
    <3>4. QED
      BY <2>3, <3>1, <3>2, <3>3
  <2>4. QED
    BY <2>2, <2>3 DEF LookedAt
<1>3. QED
  BY <1>1, <1>2 DEF IInv

(* From the first place on it looks at all of them.                          *)
LEMMA AllArePlaced ==
  ASSUME IInv, NEW r, NEW sent, NEW cont, ReadyBatch(r, sent, cont)
  PROVE  \E j \in 1..Len(tools.order) : tools.order[j] = r
<1>1. PICK t \in tools.seen : ResponseOf[t] = r
  BY DEF ReadyBatch, BatchComplete, ToolsOf
<1>2. QED
  BY <1>1 DEF IInv, OrderOfSeen, Placed

LEMMA WholeLoopKeeps ==
  ASSUME IInv, NEW h \in Tools \cup {"dispatcher"}, Holder(h), NEW sent, NEW cont,
         ContinuesFrom(h, 1, Len(tools.order), sent, cont),
         emitted \subseteq sent, sent \subseteq Tools,
         continued \subseteq cont, cont \subseteq Responses,
         UNCHANGED <<ws, final, open, recv, queue, tools, creates, supervision, faults>>
  PROVE  IInv'
<1>1. Len(tools.order) \in Places
  BY LenProperties, Types DEF IInv, TypeOK, Places, Seen
<1>2. emitted' = sent /\ continued' = cont /\ GoesOn(h, 1, Len(tools.order))
  BY <1>1, HolderGoesOn DEF IInv
<1>3. Elsewhere
  BY <1>2, Types DEF IInv, Elsewhere
<1>4. CreatedOnce'
  BY <1>2 DEF IInv, CreatedOnce, Continued, BatchComplete, ToolsOf
<1>5. QED
  BY <1>2, <1>3, <1>4, AllArePlaced, LoopKeeps

LEMMA ContinueReadyBatchesStep ==
  ASSUME IInv, ContinueReadyBatches
  PROVE  IInv'
<1>1. Holder("dispatcher")
  BY DEF ContinueReadyBatches, Holder
<1>2. emitted \subseteq Tools /\ continued \subseteq Responses
  BY Types DEF IInv
<1>3. QED
  BY <1>1, <1>2, WholeLoopKeeps DEF ContinueReadyBatches

LEMMA TakeToolLockStep ==
  ASSUME IInv, NEW t \in Tools, TakeToolLock(t)
  PROVE  IInv'
<1>1. /\ results[t] = "waiting" /\ lock.by = Nobody
      /\ UNCHANGED <<ws, final, open, recv, queue, tools, creates, supervision, faults>>
  BY DEF TakeToolLock
<1>2. CASE t \in emitted
  <2>1. Holder(t) /\ ContinuesFrom(t, 1, Len(tools.order), emitted, continued)
    BY <1>1, <1>2 DEF TakeToolLock, Holder
  <2>2. emitted \subseteq Tools /\ continued \subseteq Responses
    BY Types DEF IInv
  <2>3. QED
    BY <1>1, <2>1, <2>2, WholeLoopKeeps
<1>3. CASE t \notin emitted
  <2>1. /\ ResultAt(t, "locked") /\ UNCHANGED <<disp, emitted, continued>>
        /\ lock' = [Unlocked EXCEPT !.by = t, !.at = "emit"]
    BY <1>3, ResultGoes DEF IInv, TakeToolLock, ResultPcs
  <2>2. lock' \in Locks /\ lock'.by = t /\ lock'.at = "emit"
    <3>1. lock' = [by |-> t, at |-> "emit", next |-> 0, size |-> 0]
      BY <2>1 DEF Unlocked
    <3>2. QED
      BY <3>1, Constants DEF Locks, Places
  <2>3. UNCHANGED <<closing, stop, registered, run, drain, spawned>>
    BY <1>1 DEF supervision
  <2>4. TypeOK'
    BY <1>1, <2>1, <2>2, <2>3 DEF IInv, TypeOK, Locks, Places, ResultAt, ResultPcs
  <2>5. NotConnected'
    BY <1>1, <2>1, <2>3 DEF IInv, NotConnected
  <2>6. \A u \in Tools : results[u] = "none" => results'[u] = "none"
    BY <1>1, <2>1 DEF ResultAt
  <2>7. \A u \in Tools : u \notin tools.seen => results'[u] = "none"
    BY <2>6 DEF IInv, ToolsQueued
  <2>8. ToolsQueued'
    BY <1>1, <2>6, <2>7, QueuedAreTools DEF IInv, ToolsQueued, IsTool
  <2>9. LockHeld'
    BY <1>1, <2>1, <2>2, Constants DEF IInv, LockHeld, ResultAt
  <2>10. OrderOfSeen' /\ CreatedOnce'
    BY <1>1, <2>1
    DEF IInv, OrderOfSeen, Placed, CreatedOnce, Continued, BatchComplete, ToolsOf
  <2>11. LookedAt'
    BY <2>2 DEF LookedAt, ResultAhead
  <2>12. Closers' /\ EndsNoticed'
    BY <1>1, <2>3 DEF IInv, Closers, EndsNoticed
  <2>13. QED
    BY <2>4, <2>5, <2>8, <2>9, <2>10, <2>11, <2>12 DEF IInv
<1>4. QED
  BY <1>2, <1>3

(* Not all that a failing holder leaves behind is lost: the event that made  *)
(* the dictionary grow is still ahead.                                       *)
LEMMA FailureKeeps ==
  ASSUME IInv, NEW h, Holder(h), LetsGo(h, "failed"), Elsewhere, CreatedOnce',
         Working' => /\ h # "dispatcher" /\ lock.at = "write" /\ UNCHANGED faults
                     /\ lock.size # Len(tools.order)
  PROVE  IInv'
<1>1. /\ TypeOK' /\ NotConnected' /\ ToolsQueued' /\ OrderOfSeen' /\ LockHeld'
      /\ Closers' /\ EndsNoticed'
  BY HolderKeeps
<1>2. LookedAt'
  <2>1. CASE ~Working'
    BY <2>1, NothingToLookAt
  <2>2. CASE Working'
    <3>1. UNCHANGED <<disp, queue, run, recv, ws, registered, closing>>
      BY <2>2 DEF LetsGo, Elsewhere, supervision
    <3>2. Working /\ lock.at = "write" /\ lock.size # Len(tools.order)
      BY <2>2, <3>1 DEF Working, Writable
    <3>3. EventAhead'
      BY <3>1, <3>2 DEF IInv, LookedAt, EventAhead
    <3>4. QED
      BY <3>3 DEF LookedAt
  <2>3. QED
    BY <2>1, <2>2
<1>3. QED
  BY <1>1, <1>2 DEF IInv

LEMMA WriteContinuationStep ==
  ASSUME IInv, WriteContinuation
  PROVE  IInv'
<1> DEFINE h == lock.by
           size == Len(tools.order)
<1>1. PICK r : r = tools.order[lock.next]
  OBVIOUS
<1>2. /\ lock.at = "write" /\ lock.next \in 1..lock.size /\ lock.size <= size
      /\ BatchComplete(r, emitted) /\ r \notin continued
      /\ UNCHANGED <<ws, final, open, recv, queue, tools, supervision>>
  BY <1>1 DEF IInv, LockHeld, WriteContinuation
<1>3. size \in Nat /\ size \in Places /\ lock.size \in Nat /\ lock.next \in 1..size
  <2>1. size \in Nat /\ size <= Cardinality(Responses) /\ lock.size \in Nat
    BY LenProperties, Types, Constants DEF IInv, TypeOK, Seen, Locks, Places
  <2>2. QED
    BY <1>2, <2>1, Constants DEF Places
<1>4. r \in Responses
  BY <1>1, <1>3, ElementOfSeq, Types DEF IInv, Seen
<1>5. Holder(h) /\ h \in Tools \cup {"dispatcher"}
  BY <1>2, TheHolder DEF IInv, LockHeld, Holder
<1>6. /\ emitted \subseteq Tools /\ continued \subseteq Responses
      /\ creates \in [Responses -> 0..2] /\ faults \in 0..MaxFaults
  BY Types DEF IInv
<1>7. /\ Created(r) \in [Responses -> 0..2] /\ Created(r)[r] > 0
      /\ Created(r)[r] > 1 => creates[r] > 0
      /\ \A q \in Responses : q # r => Created(r)[q] = creates[q]
  BY <1>4, <1>6 DEF Created
<1>8. CASE /\ Writable /\ creates' = Created(r) /\ UNCHANGED faults
           /\ IF size = lock.size
                THEN ContinuesFrom(h, lock.next + 1, lock.size, emitted, continued \cup {r})
                ELSE /\ Leaves(h, "failed")
                     /\ continued' = continued \cup {r}
                     /\ UNCHANGED emitted
  <2>1. ASSUME emitted' = emitted, continued' = continued \cup {r}
        PROVE  Elsewhere /\ CreatedOnce'
    <3>1. Elsewhere
      BY <1>2, <1>4, <1>6, <1>7, <1>8, <2>1 DEF Elsewhere
    <3>2. \A q \in Responses : BatchComplete(q, emitted)' <=> BatchComplete(q, emitted)
      BY <1>2, <2>1 DEF BatchComplete, ToolsOf
    <3>3. CreatedOnce'
      BY <1>2, <1>4, <1>7, <1>8, <2>1, <3>2 DEF IInv, CreatedOnce, Continued
    <3>4. QED
      BY <3>1, <3>3
  <2>2. CASE size = lock.size
    <3>1. ContinuesFrom(h, lock.next + 1, size, emitted, continued \cup {r})
      BY <1>8, <2>2
    <3>2. lock.next + 1 \in Nat \ {0}
      BY <1>3
    <3>3. /\ emitted' = emitted
          /\ continued' = continued \cup {r}
          /\ GoesOn(h, lock.next + 1, size)
      BY <1>3, <1>5, <3>1, <3>2, HolderGoesOn DEF IInv
    <3>4. ASSUME NEW q \in Responses, Working', ReadyBatch(q, emitted', continued')
          PROVE  \/ EventAhead' \/ ResultAhead'
                 \/ \E j \in lock.next + 1..size : tools.order[j] = q
      <4>1. q # r /\ ReadyBatch(q, emitted, continued)
        BY <3>3, <3>4 DEF ReadyBatch
      <4>2. Working
        <5>1. UNCHANGED <<ws, recv, run, registered, closing, faults>>
          BY <1>2, <1>8 DEF supervision
        <5>2. ~Finished(disp.pc)
          <6>1. CASE h = "dispatcher"
            BY <6>1 DEF IInv, LockHeld, Finished
          <6>2. CASE h # "dispatcher"
            <7>1. UNCHANGED disp
              BY <3>3, <6>2 DEF GoesOn, LetsGo, Writes
            <7>2. QED
              BY <3>4, <7>1 DEF Working
          <6>3. QED
            BY <6>1, <6>2
        <5>3. QED
          BY <3>4, <5>1, <5>2 DEF Working, Writable
      <4>3. CASE EventAhead
        <5>1. CASE \E n \in 1..Len(queue) : queue[n].kind \in {"tool", "completed"}
          BY <1>2, <5>1 DEF EventAhead
        <5>2. CASE disp.pc = "continue"
          <6>1. h # "dispatcher"
            BY <5>2 DEF IInv, LockHeld
          <6>2. UNCHANGED disp
            BY <3>3, <6>1 DEF GoesOn, LetsGo, Writes
          <6>3. QED
            BY <5>2, <6>2 DEF EventAhead
        <5>3. QED
          BY <4>3, <5>1, <5>2 DEF EventAhead
      <4>4. CASE LoopAhead(q)
        <5>1. PICK j \in lock.next..lock.size : tools.order[j] = q
          BY <4>4 DEF LoopAhead
        <5>2. j # lock.next
          BY <1>1, <4>1, <5>1
        <5>3. j \in lock.next + 1..size
          BY <1>3, <2>2, <5>1, <5>2
        <5>4. QED
          BY <5>1, <5>3
      <4>5. CASE ResultAhead
        <5>1. PICK t \in Tools : results[t] \in {"due", "waiting"}
          BY <1>2, <4>5 DEF ResultAhead
        <5>2. t # h
          BY <5>1 DEF IInv, LockHeld
        <5>3. results'[t] = results[t]
          BY <3>3, <5>2 DEF GoesOn, LetsGo, Writes, ResultAt
        <5>4. QED
          BY <5>1, <5>3 DEF ResultAhead
      <4>6. QED
        BY <4>1, <4>2, <4>3, <4>4, <4>5 DEF IInv, LookedAt
    <3>5. QED
      BY <1>5, <2>1, <3>2, <3>3, <3>4, LoopKeeps
  <2>3. CASE size # lock.size
    <3>1. LetsGo(h, "failed")
      BY <1>5, <1>8, <2>3, HolderLeaves DEF IInv
    <3>2. emitted' = emitted /\ continued' = continued \cup {r}
      BY <1>8, <2>3
    <3>3. Working' => h # "dispatcher"
      BY <3>1, Constants DEF LetsGo, DispAt, Working, Finished
    <3>4. QED
      BY <1>2, <1>5, <1>8, <2>1, <2>3, <3>1, <3>2, <3>3, FailureKeeps
  <2>4. QED
    BY <2>2, <2>3
<1>9. CASE /\ /\ Unsent
            /\ creates' \in {creates} \cup (IF Writable THEN {Created(r)} ELSE {})
            /\ Leaves(h, "failed") /\ UNCHANGED <<emitted, continued>>
  <2>1. LetsGo(h, "failed")
    BY <1>5, <1>9, HolderLeaves DEF IInv
  <2>2. \/ ~Writable /\ creates' = creates /\ UNCHANGED faults
        \/ creates' \in {creates, Created(r)} /\ faults' \in 0..MaxFaults /\ faults' < MaxFaults
    BY <1>9, FaultUses DEF IInv, Unsent
  <2>3. Elsewhere
    BY <1>2, <1>6, <1>7, <1>9, <2>2 DEF Elsewhere
  <2>4. \A q \in Responses : BatchComplete(q, emitted)' <=> BatchComplete(q, emitted)
    BY <1>2, <1>9 DEF BatchComplete, ToolsOf
  <2>5. CreatedOnce'
    <3>1. CASE creates' = creates /\ UNCHANGED faults
      BY <1>9, <2>4, <3>1 DEF IInv, CreatedOnce, Continued
    <3>2. CASE creates' \in {creates, Created(r)} /\ faults' < MaxFaults
      BY <1>2, <1>4, <1>7, <1>9, <2>4, <3>2 DEF IInv, CreatedOnce, Continued
    <3>3. QED
      BY <2>2, <3>1, <3>2
  <2>6. ~Working'
    BY <1>2, <2>2, Constants DEF Working, Writable, supervision
  <2>7. QED
    BY <1>5, <2>1, <2>3, <2>5, <2>6, FailureKeeps
<1>10. QED
  BY <1>1, <1>8, <1>9 DEF WriteContinuation

LEMMA EmitResultStep ==
  ASSUME IInv, EmitResult
  PROVE  IInv'
<1> DEFINE t == lock.by
<1>1. /\ lock.at = "emit" /\ t \in Tools /\ Holder(t)
      /\ UNCHANGED <<ws, final, open, recv, queue, tools, creates, supervision>>
  BY TheHolder, Constants DEF IInv, LockHeld, EmitResult
<1>2. /\ emitted \subseteq Tools /\ continued \subseteq Responses
      /\ ResponseOf[t] \in Responses
  BY <1>1, Types, Constants DEF IInv
<1>3. ASSUME NEW cont \in {continued, continued \cup {ResponseOf[t]}},
             EmitsAndGoesOn(t, cont), UNCHANGED faults
      PROVE  IInv'
  BY <1>1, <1>2, <1>3, WholeLoopKeeps DEF EmitsAndGoesOn
<1>4. CASE Unsent /\ Leaves(t, "failed") /\ UNCHANGED <<emitted, continued>>
  <2>1. LetsGo(t, "failed")
    BY <1>1, <1>4, HolderLeaves DEF IInv
  <2>2. \/ ~Writable /\ UNCHANGED faults
        \/ faults' \in 0..MaxFaults /\ faults' < MaxFaults
    BY <1>4, FaultUses DEF IInv, Unsent
  <2>3. Elsewhere
    BY <1>1, <1>2, <1>4, <2>2, Types DEF IInv, Elsewhere
  <2>4. CreatedOnce'
    BY <1>1, <1>4, <2>2 DEF IInv, CreatedOnce, Continued, BatchComplete, ToolsOf
  <2>5. ~Working'
    BY <1>1, <2>2, Constants DEF Working, Writable, supervision
  <2>6. QED
    BY <1>1, <2>1, <2>3, <2>4, <2>5, FailureKeeps
<1>5. QED
  BY <1>3, <1>4 DEF EmitResult

-----------------------------------------------------------------------------
(* Teardowns: the sideband is being closed, or there was nothing to close.   *)
DrainPcs == {"off", "final", "wsclose", "join", "joinCancelled", "done", "leaked"}

DrainKeeps ==
  /\ drain' \in [Drainers -> DrainPcs]
  /\ "open" \in Drainers => drain'["open"] \notin {"join", "joinCancelled", "leaked"}
  /\ closing' \in BOOLEAN /\ stop' \in BOOLEAN /\ registered' \in BOOLEAN
  /\ faults' \in 0..MaxFaults /\ faults' <= faults
  /\ run' \in Runs /\ run'.pc = run.pc
  /\ ws' \in Sockets /\ ws'.far = ws.far /\ (ws'.open => ws.open)
  /\ \/ closing'
     \/ /\ UNCHANGED <<closing, stop, registered, run, ws>>
        /\ \A d \in Drainers : drain'[d] \in {drain[d], "done"}

LEMMA DrainingKeeps ==
  ASSUME IInv, DrainKeeps,
         UNCHANGED <<final, open, recv, disp, queue, tools, batches, spawned>>
  PROVE  IInv'
<1>1. UNCHANGED <<results, emitted, continued, creates, lock>>
  BY DEF batches
<1>2. TypeOK'
  BY <1>1 DEF IInv, TypeOK, DrainKeeps, DrainPcs, Runs, Sockets
<1>3. NotConnected' /\ ToolsQueued' /\ LockHeld'
  BY <1>1, QueueStands, LockStands DEF IInv, NotConnected, DrainKeeps
<1>4. OrderOfSeen' /\ CreatedOnce'
  BY <1>1, BatchesStand DEF DrainKeeps
<1>5. LookedAt'
  <2>1. Working' => Working
    <3>1. CASE closing'
      BY <3>1 DEF Working
    <3>2. CASE ~closing'
      <4>1. UNCHANGED <<closing, registered, run, ws>>
        BY <3>2 DEF DrainKeeps
      <4>2. faults' = MaxFaults => faults = MaxFaults
        BY Types, Constants DEF IInv, DrainKeeps
      <4>3. QED
        BY <4>1, <4>2 DEF Working, Writable
    <3>3. QED
      BY <3>1, <3>2
  <2>2. EventAhead' = EventAhead /\ ResultAhead' = ResultAhead
    BY <1>1 DEF EventAhead, ResultAhead
  <2>3. QED
    BY <1>1, <2>1, <2>2, StillLookedAt DEF IInv
<1>6. Closers' /\ EndsNoticed'
  BY DEF IInv, Closers, EndsNoticed, DrainKeeps
<1>7. QED
  BY <1>2, <1>3, <1>4, <1>5, <1>6 DEF IInv

LEMMA DrainGoes ==
  ASSUME TypeOK, NEW d \in Drainers, NEW pc \in DrainPcs, drain' = [drain EXCEPT ![d] = pc]
  PROVE  /\ drain' \in [Drainers -> DrainPcs] /\ drain'[d] = pc
         /\ \A c \in Drainers : c # d => drain'[c] = drain[c]
  BY DEF TypeOK, DrainPcs

LEMMA StartDrainStep ==
  ASSUME IInv, NEW d \in Drainers, StartDrain(d)
  PROVE  IInv'
<1>1. UNCHANGED <<ws, stop, final, registered, run, open, recv, disp, queue, tools, batches,
                  spawned>>
  BY DEF StartDrain
<1>2. PICK pc \in {"done", "final", "wsclose"} :
        /\ drain' = [drain EXCEPT ![d] = pc]
        /\ (pc = "done" /\ UNCHANGED closing) \/ closing' = TRUE
  BY DEF StartDrain
<1>3. Fault \/ UNCHANGED faults
  BY DEF StartDrain, Unsent
<1>4. faults' \in 0..MaxFaults /\ faults' <= faults
  BY <1>3, Types, FaultUses, Constants DEF IInv, Fault
<1>5. /\ drain' \in [Drainers -> DrainPcs] /\ drain'[d] = pc
      /\ \A c \in Drainers : c # d => drain'[c] = drain[c]
  BY <1>2, DrainGoes DEF IInv, DrainPcs
<1>6. DrainKeeps
  BY <1>1, <1>2, <1>4, <1>5, Types DEF IInv, TypeOK, DrainKeeps, EndsNoticed
<1>7. QED
  BY <1>1, <1>6, DrainingKeeps

LEMMA AwaitFinalStep ==
  ASSUME IInv, NEW d \in Drainers, AwaitFinal(d)
  PROVE  IInv'
<1>1. /\ drain[d] = "final" /\ drain' = [drain EXCEPT ![d] = "wsclose"]
      /\ UNCHANGED <<ws, closing, stop, final, registered, run, open, recv, disp, queue,
                     tools, batches, spawned, faults>>
  BY DEF AwaitFinal
<1>2. /\ drain' \in [Drainers -> DrainPcs] /\ drain'[d] = "wsclose"
      /\ \A c \in Drainers : c # d => drain'[c] = drain[c]
  BY <1>1, DrainGoes DEF IInv, DrainPcs
<1>3. closing
  BY <1>1 DEF IInv, Closers
<1>4. DrainKeeps
  BY <1>1, <1>2, <1>3, Types, Constants DEF IInv, TypeOK, DrainKeeps, EndsNoticed
<1>5. QED
  BY <1>1, <1>4, DrainingKeeps

LEMMA CloseSocketStep ==
  ASSUME IInv, NEW d \in Drainers, CloseSocket(d)
  PROVE  IInv'
<1>1. /\ drain[d] = "wsclose"
      /\ UNCHANGED <<closing, final, registered, run, open, recv, disp, queue, tools,
                     batches, spawned>>
  BY DEF CloseSocket
<1>2. /\ ws' \in Sockets /\ ws'.far = ws.far /\ (ws'.open => ws.open)
      /\ Fault \/ UNCHANGED faults
  BY Types DEF IInv, CloseSocket, Sockets
<1>3. faults' \in 0..MaxFaults /\ faults' <= faults
  BY <1>2, Types, FaultUses, Constants DEF IInv, Fault
<1>4. PICK failed \in BOOLEAN : AfterClose(d, failed)
  BY DEF CloseSocket
<1>5. /\ stop' \in BOOLEAN
      /\ drain' = [drain EXCEPT ![d] = IF d = "open" THEN "done" ELSE "join"]
  BY <1>4 DEF IInv, TypeOK, AfterClose
<1>6. PICK pc \in DrainPcs : pc = IF d = "open" THEN "done" ELSE "join"
  BY DEF DrainPcs
<1>7. /\ drain' \in [Drainers -> DrainPcs] /\ drain'[d] = pc
      /\ \A c \in Drainers : c # d => drain'[c] = drain[c]
  BY <1>5, <1>6, DrainGoes DEF IInv
<1>8. closing
  BY <1>1 DEF IInv, Closers
<1>9. DrainKeeps
  BY <1>1, <1>2, <1>3, <1>5, <1>6, <1>7, <1>8, Types
  DEF IInv, TypeOK, DrainKeeps, EndsNoticed
<1>10. QED
  BY <1>1, <1>9, DrainingKeeps

LEMMA JoinRunStep ==
  ASSUME IInv, NEW d \in Drainers, JoinRun(d)
  PROVE  IInv'
<1>1. /\ drain[d] \in {"join", "joinCancelled"}
      /\ UNCHANGED <<ws, closing, stop, final, open, recv, disp, queue, tools, batches,
                     spawned, faults>>
  BY DEF JoinRun
<1>2. PICK pc \in DrainPcs : drain' = [drain EXCEPT ![d] = pc]
  BY DEF JoinRun, DrainPcs
<1>3. run' \in Runs /\ run'.pc = run.pc /\ registered' \in BOOLEAN
  BY Types DEF IInv, TypeOK, JoinRun, Runs
<1>4. /\ drain' \in [Drainers -> DrainPcs] /\ drain'[d] = pc
      /\ \A c \in Drainers : c # d => drain'[c] = drain[c]
  BY <1>2, DrainGoes DEF IInv
<1>5. closing
  BY <1>1 DEF IInv, Closers
<1>6. DrainKeeps
  BY <1>1, <1>3, <1>4, <1>5, Types, Constants DEF IInv, TypeOK, DrainKeeps, EndsNoticed
<1>7. QED
  BY <1>1, <1>6, DrainingKeeps

-----------------------------------------------------------------------------
LEMMA InitHolds == Init => IInv
<1> SUFFICES ASSUME Init PROVE IInv
  OBVIOUS
<1> USE DEF Init
<1>1. /\ <<>> \in Seq(Frames) /\ <<>> \in Seq(Events) /\ <<>> \in Seq(Responses)
      /\ Len(<<>>) = 0
  BY EmptySeq
<1>2. Unlocked \in Locks /\ lock.by = Nobody /\ lock.at = "free"
  BY FreeLock
<1>3. TypeOK
  <2>1. /\ ws \in Sockets /\ run \in Runs /\ disp \in Disps /\ tools \in Seen
        /\ Len(queue) <= QueueMax /\ Len(tools.order) <= Cardinality(Responses)
    BY <1>1, Constants DEF Sockets, Runs, Disps, Seen
  <2>2. /\ results \in [Tools -> ResultPcs] /\ creates \in [Responses -> 0..2]
        /\ drain \in [Drainers -> DrainPcs] /\ faults \in 0..MaxFaults
    BY Constants DEF ResultPcs, DrainPcs
  <2>3. QED
    BY <1>1, <1>2, <2>1, <2>2
    DEF TypeOK, Sockets, Runs, Disps, Seen, ResultPcs, DrainPcs, Events, Locks, Places
<1>4. \A j \in 1..Len(queue) : FALSE
  BY <1>1
<1>5. \A j \in 1..Len(tools.order) : FALSE
  BY <1>1
<1>6. NotConnected /\ ToolsQueued /\ OrderOfSeen
  BY <1>1, <1>4, <1>5 DEF NotConnected, ToolsQueued, OrderOfSeen
<1>7. LockHeld
  BY <1>2, Constants DEF LockHeld
<1>8. CreatedOnce /\ LookedAt
  BY DEF CreatedOnce, Continued, LookedAt, Working
<1>9. Closers /\ EndsNoticed
  BY DEF Closers, EndsNoticed
<1>10. QED
  BY <1>3, <1>6, <1>7, <1>8, <1>9 DEF IInv

LEMMA StutterHolds == IInv /\ UNCHANGED vars => IInv'
<1> SUFFICES ASSUME IInv, UNCHANGED vars PROVE IInv'
  OBVIOUS
<1>1. UNCHANGED <<ws, closing, stop, final, registered, run, open, recv, disp, queue, tools,
                  results, emitted, continued, creates, lock, drain, spawned, faults>>
  BY DEF vars
<1>2. /\ open' \in {"off", "verify", "work", "drain", "done", "failed", "cancelled"}
      /\ faults' \in 0..MaxFaults /\ faults' <= faults
  BY <1>1, Types, Constants DEF IInv, TypeOK
<1>3. QED
  BY <1>1, <1>2, OpenerGoes DEF batches, supervision

LEMMA NextHolds == IInv /\ [Next]_vars => IInv'
<1> SUFFICES ASSUME IInv, [Next]_vars PROVE IInv'
  OBVIOUS
<1>1. CASE Run
  BY <1>1, RunConnectsStep, ConnectFailsStep, RunWaitsStep, RunSupervisesStep,
     RunCancelledStep, OpenerSteps, ReaderEndsSteps, CancelDispatcherStep, RunEndsStep
  DEF Run
<1>2. CASE Opening \/ ReaderStops
  BY <1>2, OpenerSteps, ReaderStopsStep
<1>3. CASE Provider
  BY <1>3, ReadEventStep, OpenerSteps, ReadClosedStep, ReaderEndsSteps, FarEndClosesStep
  DEF Provider
<1>4. CASE Dispatcher \/ Loop
  BY <1>4, DispatchStep, ContinueReadyBatchesStep, WriteContinuationStep, EmitResultStep
  DEF Dispatcher, Loop
<1>5. CASE \E t \in Tools : StartResult(t) \/ TakeToolLock(t)
  BY <1>5, StartResultStep, TakeToolLockStep
<1>6. CASE \E d \in Drainers : Draining(d)
  BY <1>6, StartDrainStep, AwaitFinalStep, CloseSocketStep, JoinRunStep DEF Draining
<1>7. CASE UNCHANGED vars
  BY <1>7, StutterHolds
<1>8. QED
  BY <1>1, <1>2, <1>3, <1>4, <1>5, <1>6, <1>7 DEF Next

-----------------------------------------------------------------------------
(* The inductive invariant holds in every reachable state, for every number  *)
(* of responses, calls and faults, and every bound of the queue.             *)
THEOREM IInvAlways == Spec => []IInv
  BY InitHolds, NextHolds, PTL DEF Spec

(* Every variable keeps its type: the queue never holds more than its bound  *)
(* (runtime.event_queue), and pending_tools has no response twice.           *)
THEOREM TypesHold == Spec => []TypeOK
<1>1. IInv => TypeOK
  BY DEF IInv
<1>2. QED
  BY <1>1, IInvAlways, PTL

(* The sideband of a call that goes on never ends unnoticed, and the handler *)
(* that ends the call from within never waits for the supervisor that waits  *)
(* for it (_run, on_fatal and drain_and_close).                              *)
THEOREM EndsAreNoticed == Spec => []EndsNoticed
<1>1. IInv => EndsNoticed
  BY DEF IInv
<1>2. QED
  BY <1>1, IInvAlways, PTL

(* Every response whose calls are all answered is continued, and once: the   *)
(* last of its events finds it, in whatever order they come                  *)
(* (_continue_ready_batches_locked, by the dispatcher and by send_tool_result). *)
LEMMA SomebodyLooks == IInv => BatchContinued
<1> SUFFICES ASSUME IInv PROVE BatchContinued
  OBVIOUS
<1>1. ASSUME NEW r \in Responses
      PROVE  Continued(r)
  BY DEF IInv, CreatedOnce
<1>2. ASSUME NEW r \in Responses
      PROVE  Watched(r)
  <2>1. SUFFICES ASSUME ReadyBatch(r, emitted, continued), Working
                 PROVE  \/ \E i \in DOMAIN queue : queue[i].kind \in {"tool", "completed"}
                        \/ disp.pc \in {"continue", "write"}
                        \/ \E t \in Tools : results[t] \in {"due", "waiting", "locked"}
    BY DEF Watched, Working, ReadyBatch
  <2>2. EventAhead \/ LoopAhead(r) \/ ResultAhead
    BY <2>1 DEF IInv, LookedAt
  <2>3. DOMAIN queue = 1..Len(queue)
    BY LenProperties DEF IInv, ToolsQueued
  <2>4. CASE EventAhead
    BY <2>3, <2>4 DEF EventAhead
  <2>5. CASE LoopAhead(r)
    <3>1. lock.at = "write" /\ lock.by # Nobody
      BY <2>5 DEF IInv, LockHeld, LoopAhead
    <3>2. lock.by = "dispatcher" \/ lock.by \in Tools
      BY <3>1, Types DEF IInv, Locks
    <3>3. QED
      BY <3>2 DEF IInv, LockHeld
  <2>6. CASE ResultAhead
    BY <2>6 DEF IInv, LockHeld, ResultAhead
  <2>7. QED
    BY <2>2, <2>4, <2>5, <2>6
<1>3. QED
  BY <1>1, <1>2 DEF BatchContinued

THEOREM BatchesAreContinued == Spec => []BatchContinued
  BY SomebodyLooks, IInvAlways, PTL
=============================================================================
