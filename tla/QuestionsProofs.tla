-------------------------- MODULE QuestionsProofs --------------------------
(***************************************************************************)
(* What the voice model is told of its questions is right for every number *)
(* of questions, requests, faults and restarts.                            *)
(***************************************************************************)
EXTENDS Questions, TLAPS

-----------------------------------------------------------------------------
(* The inductive invariant.                                                  *)

(* The dispatcher's question has no row until it is created, the ones to     *)
(* come have nothing at all, and a deadline starts with the last step.       *)
Unasked(n) == n > ask.q \/ (n = ask.q /\ ask.pc = "create")

AskedInOrder ==
  /\ ask.pc \in {"create", "reject", "register", "receipt"} => ask.q \in Asks
  /\ \A n \in Asks :
       /\ Unasked(n) => status[n] = "none" /\ told[n] = {}
       /\ n = ask.q /\ ask.pc = "reject" => status[n] = "none"
       /\ n = ask.q /\ ask.pc \in {"register", "receipt"} => status[n] # "none"
       /\ n > ask.q \/ (n = ask.q /\ ask.pc \in {"create", "reject", "register", "receipt"})
            => timer[n] = "off"

(* Whoever works on a question knows what has become of its row.             *)
TasksFollowRows ==
  /\ \A n \in Asks :
       /\ timer[n] # "off" => status[n] # "none"
       /\ timer[n] = "send" => status[n] = "expired"
       /\ delivery[n].start + delivery[n].send > 0 => status[n] = "answered"
       /\ n \in undelivered => status[n] = "answered"
  /\ \A a \in Agents :
       /\ req[a].pc \in {"read", "recheck"} => req[a].q \in Asks
       /\ req[a].pc = "recheck" => status[req[a].q] = "answered"
       /\ req[a].pc # "closed"

(* An answer is delivered, remembered or taken by one request: one of them.  *)
Takes(a, n) == req[a].pc = "recheck" /\ req[a].q = n

OneHolder ==
  /\ \A n \in undelivered :
       /\ delivery[n].start + delivery[n].send = 0
       /\ \A a \in Agents : ~Takes(a, n)
  /\ \A n \in Asks, a \in Agents :
       Takes(a, n) => /\ delivery[n].start + delivery[n].send = 0
                      /\ \A b \in Agents : Takes(b, n) => a = b

(* One question is open at a time, and it is the one in _pending_questions.  *)
OneOpen ==
  /\ \A m, n \in Asks : status[m] = "pending" /\ status[n] = "pending" => m = n
  /\ ask.pc \in {"register", "receipt"} =>
       \A n \in Asks : status[n] = "pending" => n = ask.q
  /\ closing => ask.pc \in {"idle", "reject", "dead"}
  /\ \A n \in Asks :
       call = "active" /\ status[n] = "pending" =>
         \/ ask.pc = "register" /\ ask.q = n
         \/ pending.q = n
         \/ ask.pc = "dead"
         \/ faults.io < MaxFaults

(* How far a termination has come is how far the call has.                   *)
Settled == \A n \in Asks : status[n] # "pending"

TerminationInStep ==
  /\ term = "none" => call = "active"
  /\ term \in {"cancel", "media", "finish"} => call = "terminating"
  /\ term \in {"late", "done"} => call = "ended"
  /\ term \in {"boot", "recover"} => ask.pc = "dead" /\ poll.pc = "state"
  /\ faults.io = MaxFaults =>
       (term \in {"media", "recover", "finish", "late", "done"} \/ call = "ended" => Settled)
  /\ faults.io >= MaxFaults - 1 =>
       (term = "done" \/ (term = "recover" /\ call = "ended") => Settled)

(* The poll between its readings has not missed the end of the call.         *)
PollInStep ==
  /\ poll.pc = "wait" => ~poll.over
  /\ poll.pc \in {"rows", "wait"} /\ ~poll.over /\ ~poll.rung /\ call = "ended" => term # "done"

IInv == /\ TypeOK
        /\ AskedInOrder /\ TasksFollowRows /\ ToldWhatWasDecided
        /\ OneDelivery /\ OneHolder
        /\ OneOpen /\ PendingHasOwner /\ PendingHasDeadline
        /\ TerminationInStep
        /\ PollInStep /\ NoLostWakeup

-----------------------------------------------------------------------------
(* What the helpers of the model do to the variable they update.             *)

Entries == {NoPending} \cup [q : Asks, delivering : BOOLEAN]
Polls == [pc : {"state", "rows", "wait"}, after : 0..MaxAsked, over : BOOLEAN, rung : BOOLEAN]

(* The entry in memory is cleared, or marked, for its own question only.     *)
LEMMA EntryUpdates ==
  ASSUME TypeOK, NEW n \in Asks
  PROVE  /\ Cleared(n) \in Entries
         /\ Cleared(n).q = IF pending.q = n THEN 0 ELSE pending.q
         /\ Marked(n) \in Entries /\ Marked(n).q = pending.q
         /\ pending \in Entries
         /\ NoPending \in Entries /\ NoPending.q = 0
  BY DEF TypeOK, Cleared, Marked, NoPending, Entries

(* Ringing changes nothing else of the poll.                                 *)
LEMMA PollUpdates ==
  ASSUME TypeOK
  PROVE  /\ Notified(poll) \in Polls /\ Notified(poll).pc = poll.pc
         /\ Notified(poll).after = poll.after /\ Notified(poll).over = poll.over
         /\ Notified(poll).rung
         /\ Subscribed \in Polls /\ Subscribed.pc = "state" /\ Subscribed.after = poll.after
  BY DEF TypeOK, Notified, Subscribed, Polls

(* A task is started for one question.                                       *)
LEMMA DeliveryUpdates ==
  ASSUME TypeOK, NEW n \in Asks
  PROVE  /\ Spawned(n) \in [Asks -> [start : Nat, send : Nat]]
         /\ Spawned(n)[n].start = delivery[n].start + 1 /\ Spawned(n)[n].send = delivery[n].send
         /\ \A m \in Asks \ {n} : Spawned(n)[m] = delivery[m]
  BY DEF TypeOK, Spawned

LEMMA DeliveryStarts ==
  ASSUME TypeOK, NEW n \in Asks, delivery[n].start > 0, NEW d,
         d = [delivery EXCEPT ![n].start = @ - 1, ![n].send = @ + 1]
  PROVE  /\ d \in [Asks -> [start : Nat, send : Nat]]
         /\ d[n].start = delivery[n].start - 1 /\ d[n].send = delivery[n].send + 1
         /\ \A m \in Asks \ {n} : d[m] = delivery[m]
<1>1. delivery \in [Asks -> [start : Nat, send : Nat]]
  BY DEF TypeOK
<1>2. d = [delivery EXCEPT ![n] = [start |-> delivery[n].start - 1,
                                   send |-> delivery[n].send + 1]]
  BY <1>1
<1>3. QED
  BY <1>1, <1>2

(* A request goes on to the retry, or ends.                                  *)
Requests == [pc : {"idle", "read", "closed", "recheck"}, q : 0..MaxAsked]
Ended(a) == [req EXCEPT ![a] = NoRequest]

LEMMA RequestUpdates ==
  ASSUME TypeOK, NEW a \in Agents
  PROVE  /\ Retries(a) \in [Agents -> Requests] /\ Ended(a) \in [Agents -> Requests]
         /\ Retries(a)[a].pc = "recheck" /\ Retries(a)[a].q = req[a].q
         /\ Ended(a)[a].pc = "idle"
         /\ \A b \in Agents \ {a} : Retries(a)[b] = req[b] /\ Ended(a)[b] = req[b]
<1>1. NoRequest \in Requests /\ NoRequest.pc = "idle"
  BY QuestionsAssumption DEF NoRequest, Requests
<1>2. req \in [Agents -> Requests]
  BY DEF TypeOK, Requests
<1>3. QED
  BY <1>1, <1>2 DEF Retries, Ended, Requests

(* What is a number, or names a question.                                    *)
LEMMA AskNumbers ==
  ASSUME TypeOK
  PROVE  ask.q \in Nat /\ Asks \subseteq Nat
  BY QuestionsAssumption DEF TypeOK, Asks

LEMMA EntryNames ==
  ASSUME TypeOK
  PROVE  (pending.q # 0 => pending.q \in Asks) /\ 0 \notin Asks
  BY QuestionsAssumption DEF TypeOK, Asks, NoPending

LEMMA DeliveryNumbers ==
  ASSUME TypeOK
  PROVE  /\ \A n \in Asks : delivery[n].start \in Nat /\ delivery[n].send \in Nat
         /\ undelivered \subseteq Asks
  BY DEF TypeOK

LEMMA FaultNumbers ==
  ASSUME TypeOK
  PROVE  faults.io \in Nat /\ MaxFaults \in Nat /\ faults.io <= MaxFaults
  BY QuestionsAssumption DEF TypeOK

(* Of an open question the model has heard nothing.                          *)
LEMMA OpenIsUntold ==
  ASSUME TypeOK, ToldWhatWasDecided, NEW n \in Asks, status[n] = "pending"
  PROVE  told[n] = {}
  BY DEF TypeOK, ToldWhatWasDecided, Decides, Outputs

(* A fault uses up one of those allowed.                                     *)
LEMMA FaultUses ==
  ASSUME TypeOK, Fault
  PROVE  /\ faults' \in [io : 0..MaxFaults, restart : 0..MaxRestarts]
         /\ faults'.io = faults.io - 1 /\ faults.io \in 0..MaxFaults
         /\ faults'.io < MaxFaults
  BY QuestionsAssumption DEF TypeOK, Fault

(* What a write to the voice model does, whether it succeeds or not: at most *)
(* this output of this tool call reaches it.                                 *)
Writes(n, out) ==
  /\ told' \in [Asks -> SUBSET Outputs]
  /\ told'[n] \subseteq told[n] \cup {out}
  /\ \A m \in Asks \ {n} : told'[m] = told[m]

LEMMA SendWrites ==
  ASSUME TypeOK, NEW n \in Asks, NEW out \in Outputs,
         \/ told' = told \/ told' = [told EXCEPT ![n] = @ \cup {out}]
  PROVE  Writes(n, out)
  BY DEF TypeOK, Writes

(* The faults left never grow.                                               *)
Fewer == /\ faults' \in [io : 0..MaxFaults, restart : 0..MaxRestarts]
         /\ faults'.io <= faults.io
         /\ faults.io \in Nat /\ faults'.io \in Nat

LEMMA SentOrNot ==
  ASSUME TypeOK, NEW n \in Asks, NEW out \in Outputs, Sent(n, out) \/ NotSent(n, out)
  PROVE  Writes(n, out) /\ Fewer
<1>1. told' = told \/ told' = [told EXCEPT ![n] = @ \cup {out}]
  BY DEF Sent, NotSent
<1>2. faults' = faults \/ Fault
  BY DEF Sent, NotSent
<1>3. QED
  BY <1>1, <1>2, SendWrites, FaultUses, QuestionsAssumption DEF TypeOK, Fewer

(* One row goes from pending to what its claim says, or nothing happens.     *)
Settles(n, s) ==
  /\ status' \in [Asks -> Statuses]
  /\ \A m \in Asks \ {n} : status'[m] = status[m]
  /\ \/ status'[n] = status[n]
     \/ CanSettle(n) /\ status'[n] = s

LEMMA ClaimSettles ==
  ASSUME TypeOK, NEW n \in Asks, NEW s \in Statuses,
         \/ status' = status
         \/ CanSettle(n) /\ status' = [status EXCEPT ![n] = s]
  PROVE  Settles(n, s)
  BY DEF TypeOK, Settles

(* Cancelling takes every pending row, or fails.                             *)
Cancels ==
  /\ status' \in [Asks -> Statuses]
  /\ \A n \in Asks : \/ status'[n] = status[n]
                     \/ status[n] = "pending" /\ status'[n] = "cancelled"
  /\ Fewer
  /\ \/ \A n \in Asks : status'[n] # "pending"
     \/ faults'.io = faults.io - 1

LEMMA CancelPendingCancels ==
  ASSUME TypeOK, CancelPending
  PROVE  Cancels
<1>1. /\ CancelledRows \in [Asks -> Statuses]
      /\ \A n \in Asks : /\ CancelledRows[n] # "pending"
                         /\ \/ CancelledRows[n] = status[n]
                            \/ status[n] = "pending" /\ CancelledRows[n] = "cancelled"
  BY DEF TypeOK, CancelledRows, Statuses
<1>2. \/ status' = CancelledRows /\ faults' = faults
      \/ status' \in {status, CancelledRows} /\ Fault
  BY DEF CancelPending
<1>3. Fewer /\ (status' = CancelledRows \/ faults'.io = faults.io - 1)
  BY <1>2, FaultUses, QuestionsAssumption DEF TypeOK, Fewer
<1>4. QED
  BY <1>1, <1>2, <1>3 DEF Cancels, TypeOK

-----------------------------------------------------------------------------
(* Every step keeps the invariant.                                           *)

(* The model asks: the next tool call has nothing yet.                       *)
LEMMA AskAgentStep ==
  ASSUME IInv, AskAgent
  PROVE  IInv'
<1>1. /\ ask.pc = "idle"
      /\ UNCHANGED <<call, status, told, pending, undelivered, closing, timer,
                     delivery, req, poll, term, faults>>
  BY DEF AskAgent
<1>2. /\ ask' \in [pc : {"create", "reject"}, q : Asks]
      /\ ask'.q = ask.q + 1 /\ (closing => ask'.pc = "reject")
  BY QuestionsAssumption DEF IInv, TypeOK, AskAgent, Asks
<1>3. term \notin {"boot", "recover"}
  BY DEF AskAgent, SidebandOpen
<1>4. TypeOK'
  BY <1>1, <1>2, QuestionsAssumption DEF IInv, TypeOK, Asks
<1>5. AskedInOrder'
  BY <1>1, <1>2, AskNumbers DEF IInv, AskedInOrder, Unasked
<1>6. OneOpen'
  BY <1>1, <1>2 DEF IInv, OneOpen, AskedInOrder, TasksFollowRows,
    PendingHasDeadline, Unasked
<1>7. PendingHasOwner'
  BY <1>1, <1>2 DEF IInv, PendingHasOwner, AskedInOrder, TasksFollowRows, OneOpen,
    Unasked
<1>8. PendingHasDeadline'
  BY <1>1, <1>2 DEF IInv, PendingHasDeadline, AskedInOrder, OneOpen,
    TasksFollowRows, PendingHasOwner, TerminationInStep, Unasked, Settled
<1>9. TerminationInStep'
  BY <1>1, <1>2, <1>3 DEF IInv, TerminationInStep, Settled
<1>10. NoLostWakeup'
  BY <1>1, <1>2, <1>3 DEF IInv, NoLostWakeup, NewRows, PollInStep,
    TerminationInStep, AskedInOrder, Settled, Unasked
<1>11. (TasksFollowRows /\ ToldWhatWasDecided /\ OneDelivery /\ OneHolder /\
  PollInStep)'
  BY DEF IInv, AskAgent, TasksFollowRows, ToldWhatWasDecided, Decides, OneDelivery,
    OneHolder, Takes, PollInStep
<1>12. QED
  BY <1>4, <1>5, <1>6, <1>7, <1>8, <1>9, <1>10, <1>11 DEF IInv

(* The row is made only when none is open.                                   *)
LEMMA CreateQuestionStep ==
  ASSUME IInv, CreateQuestion
  PROVE  IInv'
<1>1. /\ ask.pc = "create" /\ ask.q \in Asks /\ status[ask.q] = "none"
      /\ UNCHANGED <<call, told, pending, undelivered, closing, timer, delivery, req,
                     poll, term>>
  BY DEF IInv, AskedInOrder, Unasked, CreateQuestion
<1>2. /\ ask' \in [pc : {"reject", "register", "dead"}, q : 0..MaxAsked]
      /\ ask'.q = ask.q
  BY DEF IInv, TypeOK, CreateQuestion
<1>3. \/ /\ status' = status /\ ask'.pc \in {"reject", "dead"}
      \/ /\ status' \in [Asks -> Statuses] /\ status'[ask.q] = "pending"
         /\ \A m \in Asks \ {ask.q} : status'[m] = status[m] /\ status[m] # "pending"
         /\ call = "active" /\ ask'.pc \in {"register", "dead"}
  BY <1>1 DEF IInv, TypeOK, CreateQuestion, QuestionRefused, Statuses
<1>4. Fewer /\ (ask'.pc = "dead" => faults'.io < MaxFaults)
  BY FaultUses, QuestionsAssumption DEF IInv, TypeOK, CreateQuestion, Fewer
<1>5. TypeOK'
  BY <1>1, <1>2, <1>3, <1>4 DEF IInv, TypeOK, Fewer
<1>6. AskedInOrder'
  BY <1>1, <1>2, <1>3, AskNumbers DEF IInv, AskedInOrder, Unasked
<1>7. TasksFollowRows'
  BY <1>1, <1>3 DEF IInv, TasksFollowRows, AskedInOrder, Unasked
<1>8. ToldWhatWasDecided'
  BY <1>1, <1>3, OpenIsUntold DEF IInv, ToldWhatWasDecided, Decides, AskedInOrder,
    TasksFollowRows, Unasked
<1>9. OneOpen'
  BY <1>1, <1>2, <1>3, <1>4, FaultNumbers DEF IInv, OneOpen, AskedInOrder,
    TasksFollowRows, PendingHasDeadline, Unasked, Fewer
<1>10. PendingHasOwner'
  BY <1>1, <1>2, <1>3 DEF IInv, PendingHasOwner, AskedInOrder, TasksFollowRows,
    OneOpen, Unasked
<1>11. PendingHasDeadline'
  BY <1>1, <1>2, <1>3, <1>4, FaultNumbers DEF IInv, PendingHasDeadline,
    AskedInOrder, OneOpen, TasksFollowRows, PendingHasOwner, TerminationInStep,
    Unasked, Settled, Fewer
<1>12. TerminationInStep'
  BY <1>1, <1>2, <1>3, <1>4, FaultNumbers DEF IInv, TerminationInStep, Settled,
    OneOpen, AskedInOrder, Unasked, Fewer
<1>13. NoLostWakeup'
  BY <1>1, <1>2, <1>3 DEF IInv, NoLostWakeup, NewRows, PollInStep,
    TerminationInStep, AskedInOrder, Settled, Unasked
<1>14. (OneDelivery /\ OneHolder /\ PollInStep)'
  BY DEF IInv, CreateQuestion, OneDelivery, OneHolder, Takes, PollInStep
<1>15. QED
  BY <1>5, <1>6, <1>7, <1>8, <1>9, <1>10, <1>11, <1>12, <1>13, <1>14 DEF IInv

(* A refused tool call has no row, so a rejection is the truth.              *)
LEMMA RejectAskAgentStep ==
  ASSUME IInv, RejectAskAgent
  PROVE  IInv'
<1>1. /\ ask.pc = "reject" /\ ask.q \in Asks /\ status[ask.q] = "none"
      /\ UNCHANGED <<call, status, pending, undelivered, closing, timer, delivery,
                     req, poll, term>>
  BY DEF IInv, AskedInOrder, RejectAskAgent
<1>2. /\ ask' \in [pc : {"idle", "dead"}, q : 0..MaxAsked]
      /\ ask'.q = ask.q
  BY DEF IInv, TypeOK, RejectAskAgent
<1>3. Writes(ask.q, "rejected")
  BY <1>1, SentOrNot, SendWrites DEF IInv, RejectAskAgent, Outputs
<1>4. Fewer /\ (ask'.pc = "dead" => faults'.io < MaxFaults)
  BY <1>1, SentOrNot, FaultUses, QuestionsAssumption DEF IInv, TypeOK,
    RejectAskAgent, Fewer, Outputs
<1>5. TypeOK'
  BY <1>1, <1>2, <1>3, <1>4 DEF IInv, TypeOK, Writes, Fewer
<1>6. AskedInOrder'
  BY <1>1, <1>2, <1>3, AskNumbers DEF IInv, AskedInOrder, Unasked, Writes
<1>7. ToldWhatWasDecided'
  BY <1>1, <1>3 DEF IInv, ToldWhatWasDecided, Decides, AskedInOrder,
    TasksFollowRows, Unasked, Writes
<1>8. OneOpen'
  BY <1>1, <1>2, <1>4, FaultNumbers DEF IInv, OneOpen, AskedInOrder,
    TasksFollowRows, PendingHasDeadline, Unasked, Fewer
<1>9. PendingHasOwner'
  BY <1>1, <1>2 DEF IInv, PendingHasOwner, AskedInOrder, TasksFollowRows, OneOpen,
    Unasked
<1>10. PendingHasDeadline'
  BY <1>1, <1>2, <1>4, FaultNumbers DEF IInv, PendingHasDeadline, AskedInOrder,
    OneOpen, TasksFollowRows, PendingHasOwner, TerminationInStep, Unasked, Settled,
    Fewer
<1>11. TerminationInStep'
  BY <1>1, <1>2, <1>4, FaultNumbers DEF IInv, TerminationInStep, Settled, OneOpen,
    AskedInOrder, Unasked, Fewer
<1>12. NoLostWakeup'
  BY <1>1, <1>2 DEF IInv, NoLostWakeup, NewRows, PollInStep, TerminationInStep,
    AskedInOrder, Settled, Unasked
<1>13. (TasksFollowRows /\ OneDelivery /\ OneHolder /\ PollInStep)'
  BY DEF IInv, RejectAskAgent, TasksFollowRows, OneDelivery, OneHolder, Takes,
    PollInStep
<1>14. QED
  BY <1>5, <1>6, <1>7, <1>8, <1>9, <1>10, <1>11, <1>12, <1>13 DEF IInv

(* The question becomes the one in memory and the poll is rung.              *)
LEMMA RegisterQuestionStep ==
  ASSUME IInv, RegisterQuestion
  PROVE  IInv'
<1>1. /\ ask.pc = "register" /\ ask.q \in Asks
      /\ UNCHANGED <<call, status, told, undelivered, closing, timer, delivery, req,
                     term, faults>>
  BY DEF IInv, AskedInOrder, RegisterQuestion
<1>2. /\ ask' \in [pc : {"receipt"}, q : 0..MaxAsked]
      /\ ask'.q = ask.q
  BY DEF IInv, TypeOK, RegisterQuestion
<1>3. pending' \in Entries /\ pending'.q = ask.q
  BY <1>1 DEF RegisterQuestion, Entries
<1>4. /\ poll' \in Polls /\ poll'.pc = poll.pc /\ poll'.after = poll.after
      /\ poll'.over = poll.over /\ poll'.rung
  BY PollUpdates DEF IInv, RegisterQuestion
<1>5. TypeOK'
  BY <1>1, <1>2, <1>3, <1>4 DEF IInv, TypeOK, Entries, Polls
<1>6. AskedInOrder'
  BY <1>1, <1>2, AskNumbers DEF IInv, AskedInOrder, Unasked
<1>7. OneOpen'
  BY <1>1, <1>2, <1>3 DEF IInv, OneOpen, AskedInOrder, TasksFollowRows,
    PendingHasDeadline, Unasked, Entries
<1>8. PendingHasOwner'
  BY <1>1, <1>2, <1>3, EntryNames DEF IInv, PendingHasOwner, AskedInOrder,
    TasksFollowRows, OneOpen, Unasked, Entries
<1>9. PendingHasDeadline'
  BY <1>1, <1>2 DEF IInv, PendingHasDeadline, AskedInOrder, OneOpen,
    TasksFollowRows, PendingHasOwner, TerminationInStep, Unasked, Settled
<1>10. TerminationInStep'
  BY <1>1, <1>2, <1>4 DEF IInv, TerminationInStep, Settled, OneOpen, AskedInOrder,
    Unasked, Polls
<1>11. PollInStep'
  BY <1>1, <1>4 DEF IInv, PollInStep, TerminationInStep, Settled, Polls
<1>12. NoLostWakeup'
  BY <1>1, <1>2, <1>4 DEF IInv, NoLostWakeup, NewRows, PollInStep,
    TerminationInStep, AskedInOrder, Settled, Unasked, Polls
<1>13. (TasksFollowRows /\ ToldWhatWasDecided /\ OneDelivery /\ OneHolder)'
  BY DEF IInv, RegisterQuestion, TasksFollowRows, ToldWhatWasDecided, Decides,
    OneDelivery, OneHolder, Takes
<1>14. QED
  BY <1>5, <1>6, <1>7, <1>8, <1>9, <1>10, <1>11, <1>12, <1>13 DEF IInv

LEMMA StartDeadlineStep ==
  ASSUME IInv, StartDeadline
  PROVE  IInv'
<1>1. /\ ask.pc = "receipt" /\ ask.q \in Asks
      /\ UNCHANGED <<call, status, told, pending, undelivered, closing, delivery,
                     req, poll, term>>
  BY DEF IInv, AskedInOrder, StartDeadline
<1>2. /\ ask' \in [pc : {"idle"}, q : 0..MaxAsked]
      /\ ask'.q = ask.q
  BY DEF IInv, TypeOK, StartDeadline
<1>3. timer' = [timer EXCEPT ![ask.q] = "sleeping"]
      /\ timer \in [Asks -> {"off", "sleeping", "claim", "send", "done"}]
  BY DEF IInv, TypeOK, StartDeadline
<1>4. Fewer
  BY FaultUses, QuestionsAssumption DEF IInv, TypeOK, StartDeadline, Fewer
<1>5. TypeOK'
  BY <1>1, <1>2, <1>3, <1>4 DEF IInv, TypeOK, Fewer
<1>6. AskedInOrder'
  BY <1>1, <1>2, <1>3, AskNumbers DEF IInv, AskedInOrder, Unasked
<1>7. TasksFollowRows'
  BY <1>1, <1>3 DEF IInv, TasksFollowRows, AskedInOrder, Unasked
<1>8. OneOpen'
  BY <1>1, <1>2, <1>4, FaultNumbers DEF IInv, OneOpen, AskedInOrder,
    TasksFollowRows, PendingHasDeadline, Unasked, Fewer
<1>9. PendingHasOwner'
  BY <1>1, <1>2, <1>3, EntryNames DEF IInv, PendingHasOwner, AskedInOrder,
    TasksFollowRows, OneOpen, Unasked
<1>10. PendingHasDeadline'
  BY <1>1, <1>2, <1>3, <1>4, FaultNumbers DEF IInv, PendingHasDeadline,
    AskedInOrder, OneOpen, TasksFollowRows, PendingHasOwner, TerminationInStep,
    Unasked, Settled, Fewer
<1>11. TerminationInStep'
  BY <1>1, <1>2, <1>4, FaultNumbers DEF IInv, TerminationInStep, Settled, OneOpen,
    AskedInOrder, Unasked, Fewer
<1>12. NoLostWakeup'
  BY <1>1, <1>2 DEF IInv, NoLostWakeup, NewRows, PollInStep, TerminationInStep,
    AskedInOrder, Settled, Unasked
<1>13. (ToldWhatWasDecided /\ OneDelivery /\ OneHolder /\ PollInStep)'
  BY DEF IInv, StartDeadline, ToldWhatWasDecided, Decides, OneDelivery, OneHolder,
    Takes, PollInStep
<1>14. QED
  BY <1>5, <1>6, <1>7, <1>8, <1>9, <1>10, <1>11, <1>12, <1>13 DEF IInv

LEMMA EndCallToolStep ==
  ASSUME IInv, EndCallTool
  PROVE  IInv'
<1>1. TypeOK'
  BY QuestionsAssumption DEF IInv, TypeOK, NoPending, NoRequest, NoDelivery, NoPoll,
    Statuses, Outputs, EndCallTool, SidebandOpen, Asks
<1>2. OneOpen'
  BY QuestionsAssumption DEF IInv, OneOpen, AskedInOrder, TasksFollowRows,
    PendingHasDeadline, Unasked, TypeOK, EndCallTool, SidebandOpen, Asks
<1>3. PendingHasOwner'
  BY QuestionsAssumption DEF IInv, PendingHasOwner, AskedInOrder, TasksFollowRows,
    OneOpen, Unasked, TypeOK, EndCallTool, SidebandOpen, Asks
<1>4. PendingHasDeadline'
  BY QuestionsAssumption DEF IInv, PendingHasDeadline, AskedInOrder, OneOpen,
    TasksFollowRows, PendingHasOwner, TerminationInStep, Unasked, Settled, TypeOK,
    EndCallTool, SidebandOpen, Asks
<1>5. (AskedInOrder /\ TasksFollowRows /\ ToldWhatWasDecided /\ OneDelivery /\
  OneHolder /\ TerminationInStep /\ PollInStep /\ NoLostWakeup)'
  BY DEF IInv, EndCallTool, AskedInOrder, Unasked, TasksFollowRows,
    ToldWhatWasDecided, Decides, OneDelivery, OneHolder, Takes, TerminationInStep,
    Settled, PollInStep, NoLostWakeup, NewRows
<1>6. QED
  BY <1>1, <1>2, <1>3, <1>4, <1>5 DEF IInv

LEMMA CancelVoiceEndStep ==
  ASSUME IInv, CancelVoiceEnd
  PROVE  IInv'
<1>1. /\ closing' \in BOOLEAN /\ ~closing'
      /\ UNCHANGED <<call, status, told, pending, undelivered, ask, timer, delivery,
                     req, poll, term, faults>>
  BY DEF CancelVoiceEnd
<1>2. TypeOK'
  BY <1>1 DEF IInv, TypeOK
<1>3. OneOpen'
  BY <1>1 DEF IInv, OneOpen, AskedInOrder, TasksFollowRows, PendingHasDeadline,
    Unasked
<1>4. PendingHasOwner'
  BY <1>1 DEF IInv, PendingHasOwner, AskedInOrder, TasksFollowRows, OneOpen, Unasked
<1>5. PendingHasDeadline'
  BY <1>1 DEF IInv, PendingHasDeadline, AskedInOrder, OneOpen, TasksFollowRows,
    PendingHasOwner, TerminationInStep, Unasked, Settled
<1>6. (AskedInOrder /\ TasksFollowRows /\ ToldWhatWasDecided /\ OneDelivery /\
  OneHolder /\ TerminationInStep /\ PollInStep /\ NoLostWakeup)'
  BY DEF IInv, CancelVoiceEnd, AskedInOrder, Unasked, TasksFollowRows,
    ToldWhatWasDecided, Decides, OneDelivery, OneHolder, Takes, TerminationInStep,
    Settled, PollInStep, NoLostWakeup, NewRows
<1>7. QED
  BY <1>2, <1>3, <1>4, <1>5, <1>6 DEF IInv

LEMMA DeadlineFiresStep ==
  ASSUME IInv, NEW n \in Asks, DeadlineFires(n)
  PROVE  IInv'
<1>1. /\ timer[n] = "sleeping"
      /\ UNCHANGED <<call, status, told, undelivered, closing, ask, delivery, req,
                     poll, term, faults>>
  BY DEF DeadlineFires
<1>2. /\ timer' \in [Asks -> {"off", "sleeping", "claim", "send", "done"}]
      /\ timer'[n] = IF closing THEN "done" ELSE "claim"
      /\ \A m \in Asks \ {n} : timer'[m] = timer[m]
  BY DEF IInv, TypeOK, DeadlineFires
<1>3. pending' \in Entries /\ pending'.q = pending.q
  BY EntryUpdates DEF IInv, DeadlineFires
<1>4. TypeOK'
  BY <1>1, <1>2, <1>3 DEF IInv, TypeOK, Entries
<1>5. AskedInOrder'
  BY <1>1, <1>2 DEF IInv, AskedInOrder, Unasked
<1>6. TasksFollowRows'
  BY <1>1, <1>2 DEF IInv, TasksFollowRows, AskedInOrder, Unasked
<1>7. OneOpen'
  BY <1>1, <1>3 DEF IInv, OneOpen, AskedInOrder, TasksFollowRows,
    PendingHasDeadline, Unasked, Entries
<1>8. PendingHasOwner'
  BY <1>1, <1>2, <1>3, EntryNames DEF IInv, PendingHasOwner, AskedInOrder,
    TasksFollowRows, OneOpen, Unasked, Entries
<1>9. PendingHasDeadline'
  BY <1>1, <1>2 DEF IInv, PendingHasDeadline, AskedInOrder, OneOpen,
    TasksFollowRows, PendingHasOwner, TerminationInStep, Unasked, Settled
<1>10. (ToldWhatWasDecided /\ OneDelivery /\ OneHolder /\ TerminationInStep /\
  PollInStep /\ NoLostWakeup)'
  BY DEF IInv, DeadlineFires, ToldWhatWasDecided, Decides, OneDelivery, OneHolder,
    Takes, TerminationInStep, Settled, PollInStep, NoLostWakeup, NewRows
<1>11. QED
  BY <1>4, <1>5, <1>6, <1>7, <1>8, <1>9, <1>10 DEF IInv

(* The deadline wins the row, or leaves it to the one that did.              *)
LEMMA ClaimExpiryStep ==
  ASSUME IInv, NEW n \in Asks, ClaimExpiry(n)
  PROVE  IInv'
<1>1. /\ timer[n] = "claim"
      /\ UNCHANGED <<call, told, undelivered, closing, ask, delivery, req, term>>
  BY DEF ClaimExpiry
<1>2. /\ timer' \in [Asks -> {"off", "sleeping", "claim", "send", "done"}]
      /\ timer'[n] \in {"send", "done"}
      /\ \A m \in Asks \ {n} : timer'[m] = timer[m]
  BY DEF IInv, TypeOK, ClaimExpiry
<1>3. Settles(n, "expired")
  BY ClaimSettles DEF IInv, ClaimExpiry, Statuses
<1>4. timer'[n] = "send" => status'[n] = "expired"
  BY DEF IInv, TypeOK, ClaimExpiry
<1>5. /\ pending' \in Entries
      /\ \/ pending' = pending /\ timer'[n] = "send"
         \/ pending'.q = IF pending.q = n THEN 0 ELSE pending.q
  BY <1>2, EntryUpdates DEF IInv, TypeOK, ClaimExpiry
<1>6. /\ poll' \in Polls /\ poll'.pc = poll.pc /\ poll'.after = poll.after
      /\ poll'.over = poll.over /\ (poll.rung => poll'.rung)
  BY PollUpdates DEF IInv, TypeOK, ClaimExpiry, Polls
<1>7. Fewer /\ (faults'.io = MaxFaults => status'[n] # "pending" \/ call # "active")
  BY FaultUses, QuestionsAssumption DEF IInv, TypeOK, ClaimExpiry, CanSettle, Fewer
<1>8. TypeOK'
  BY <1>1, <1>2, <1>3, <1>4, <1>5, <1>6, <1>7 DEF IInv, TypeOK, Settles, CanSettle,
    Entries, Polls, Fewer
<1>9. AskedInOrder'
  BY <1>1, <1>2, <1>3, <1>4 DEF IInv, AskedInOrder, Unasked, Settles, CanSettle
<1>10. TasksFollowRows'
  BY <1>1, <1>2, <1>3, <1>4 DEF IInv, TasksFollowRows, AskedInOrder, Unasked,
    Settles, CanSettle
<1>11. ToldWhatWasDecided'
  BY <1>1, <1>2, <1>3, <1>4, OpenIsUntold DEF IInv, ToldWhatWasDecided, Decides,
    AskedInOrder, TasksFollowRows, Unasked, Settles, CanSettle
<1>12. OneOpen'
  BY <1>1, <1>2, <1>3, <1>4, <1>5, <1>7, FaultNumbers DEF IInv, OneOpen,
    AskedInOrder, TasksFollowRows, PendingHasDeadline, Unasked, Settles, CanSettle,
    Entries, Fewer
<1>13. PendingHasOwner'
  BY <1>1, <1>2, <1>4, <1>5, EntryNames DEF IInv, PendingHasOwner, AskedInOrder,
    TasksFollowRows, OneOpen, Unasked, Entries
<1>14. PendingHasDeadline'
  BY <1>1, <1>2, <1>3, <1>4, <1>7, FaultNumbers DEF IInv, PendingHasDeadline,
    AskedInOrder, OneOpen, TasksFollowRows, PendingHasOwner, TerminationInStep,
    Unasked, Settled, Settles, CanSettle, Fewer
<1>15. TerminationInStep'
  BY <1>1, <1>2, <1>3, <1>4, <1>6, <1>7, FaultNumbers DEF IInv, TerminationInStep,
    Settled, OneOpen, AskedInOrder, Unasked, Settles, CanSettle, Polls, Fewer
<1>16. PollInStep'
  BY <1>1, <1>6 DEF IInv, PollInStep, TerminationInStep, Settled, Polls
<1>17. NoLostWakeup'
  BY <1>1, <1>2, <1>3, <1>4, <1>6 DEF IInv, NoLostWakeup, NewRows, PollInStep,
    TerminationInStep, AskedInOrder, Settled, Unasked, Settles, CanSettle, Polls
<1>18. (OneDelivery /\ OneHolder)'
  BY DEF IInv, ClaimExpiry, OneDelivery, OneHolder, Takes
<1>19. QED
  BY <1>8, <1>9, <1>10, <1>11, <1>12, <1>13, <1>14, <1>15, <1>16, <1>17, <1>18 DEF
    IInv

LEMMA TellTimeoutStep ==
  ASSUME IInv, NEW n \in Asks, TellTimeout(n)
  PROVE  IInv'
<1>1. /\ timer[n] = "send"
      /\ UNCHANGED <<call, status, undelivered, closing, ask, delivery, req, term>>
  BY DEF TellTimeout
<1>2. /\ timer' \in [Asks -> {"off", "sleeping", "claim", "send", "done"}]
      /\ timer'[n] = "done"
      /\ \A m \in Asks \ {n} : timer'[m] = timer[m]
  BY DEF IInv, TypeOK, TellTimeout
<1>3. Writes(n, "timeout")
  BY SentOrNot DEF IInv, TellTimeout, Outputs
<1>4. Fewer
  BY SentOrNot DEF IInv, TellTimeout, Outputs
<1>5. pending' \in Entries /\ pending'.q = IF pending.q = n THEN 0 ELSE pending.q
  BY EntryUpdates DEF IInv, TellTimeout
<1>6. /\ poll' \in Polls /\ poll'.pc = poll.pc /\ poll'.after = poll.after
      /\ poll'.over = poll.over /\ poll'.rung
  BY PollUpdates DEF IInv, TellTimeout
<1>7. TypeOK'
  BY <1>1, <1>2, <1>3, <1>4, <1>5, <1>6 DEF IInv, TypeOK, Writes, Fewer, Entries,
    Polls
<1>8. AskedInOrder'
  BY <1>1, <1>2, <1>3 DEF IInv, AskedInOrder, Unasked, Writes
<1>9. TasksFollowRows'
  BY <1>1, <1>2 DEF IInv, TasksFollowRows, AskedInOrder, Unasked
<1>10. ToldWhatWasDecided'
  BY <1>1, <1>3 DEF IInv, ToldWhatWasDecided, Decides, AskedInOrder,
    TasksFollowRows, Unasked, Writes
<1>11. OneOpen'
  BY <1>1, <1>4, <1>5, FaultNumbers DEF IInv, OneOpen, AskedInOrder,
    TasksFollowRows, PendingHasDeadline, Unasked, Fewer, Entries
<1>12. PendingHasOwner'
  BY <1>1, <1>2, <1>5, EntryNames DEF IInv, PendingHasOwner, AskedInOrder,
    TasksFollowRows, OneOpen, Unasked, Entries
<1>13. PendingHasDeadline'
  BY <1>1, <1>2, <1>4, FaultNumbers DEF IInv, PendingHasDeadline, AskedInOrder,
    OneOpen, TasksFollowRows, PendingHasOwner, TerminationInStep, Unasked, Settled,
    Fewer
<1>14. TerminationInStep'
  BY <1>1, <1>4, <1>6, FaultNumbers DEF IInv, TerminationInStep, Settled, OneOpen,
    AskedInOrder, Unasked, Fewer, Polls
<1>15. PollInStep'
  BY <1>1, <1>6 DEF IInv, PollInStep, TerminationInStep, Settled, Polls
<1>16. NoLostWakeup'
  BY <1>1, <1>6 DEF IInv, NoLostWakeup, NewRows, PollInStep, TerminationInStep,
    AskedInOrder, Settled, Unasked, Polls
<1>17. (OneDelivery /\ OneHolder)'
  BY DEF IInv, TellTimeout, OneDelivery, OneHolder, Takes
<1>18. QED
  BY <1>7, <1>8, <1>9, <1>10, <1>11, <1>12, <1>13, <1>14, <1>15, <1>16, <1>17 DEF
    IInv

LEMMA StartDeliveryStep ==
  ASSUME IInv, NEW n \in Asks, StartDelivery(n)
  PROVE  IInv'
<1>1. /\ delivery[n].start > 0 /\ delivery[n].start \in Nat /\ delivery[n].send \in Nat
      /\ UNCHANGED <<call, status, told, undelivered, closing, ask, timer, req, term,
                     faults>>
  BY DEF IInv, TypeOK, StartDelivery
<1>2. /\ delivery' \in [Asks -> [start : Nat, send : Nat]]
      /\ delivery'[n].start = delivery[n].start - 1
      /\ delivery'[n].send = IF closing THEN delivery[n].send ELSE delivery[n].send + 1
      /\ \A m \in Asks \ {n} : delivery'[m] = delivery[m]
  <2>1. CASE closing
    <3>1. delivery \in [Asks -> [start : Nat, send : Nat]]
      BY DEF IInv, TypeOK
    <3>2. delivery' = [delivery EXCEPT ![n].start = @ - 1]
      BY <2>1 DEF StartDelivery
    <3>3. QED
      BY <1>1, <2>1, <3>1, <3>2
  <2>2. CASE ~closing
    BY <1>1, <2>2, DeliveryStarts DEF IInv, StartDelivery
  <2>3. QED
    BY <2>1, <2>2
<1>3. /\ pending' \in Entries
      /\ pending'.q = IF closing /\ pending.q = n THEN 0 ELSE pending.q
  BY EntryUpdates DEF IInv, StartDelivery
<1>4. /\ poll' \in Polls /\ poll'.pc = poll.pc /\ poll'.after = poll.after
      /\ poll'.over = poll.over /\ (poll.rung => poll'.rung)
  BY PollUpdates DEF IInv, TypeOK, StartDelivery, Polls
<1>5. TypeOK'
  BY <1>1, <1>2, <1>3, <1>4 DEF IInv, TypeOK, Entries, Polls
<1>6. TasksFollowRows'
  BY <1>1, <1>2, DeliveryNumbers DEF IInv, TasksFollowRows, AskedInOrder, Unasked
<1>7. OneDelivery'
  BY <1>1, <1>2, DeliveryNumbers DEF IInv, OneDelivery, TasksFollowRows, OneHolder,
    Takes
<1>8. OneHolder'
  BY <1>1, <1>2, DeliveryNumbers DEF IInv, OneHolder, Takes, AskedInOrder,
    TasksFollowRows, OneDelivery, Unasked
<1>9. OneOpen'
  BY <1>1, <1>3 DEF IInv, OneOpen, AskedInOrder, TasksFollowRows,
    PendingHasDeadline, Unasked, Entries
<1>10. PendingHasOwner'
  BY <1>1, <1>2, <1>3, EntryNames, DeliveryNumbers DEF IInv, PendingHasOwner,
    AskedInOrder, TasksFollowRows, OneOpen, Unasked, Entries
<1>11. TerminationInStep'
  BY <1>1, <1>4 DEF IInv, TerminationInStep, Settled, OneOpen, AskedInOrder,
    Unasked, Polls
<1>12. PollInStep'
  BY <1>1, <1>4 DEF IInv, PollInStep, TerminationInStep, Settled, Polls
<1>13. NoLostWakeup'
  BY <1>1, <1>4 DEF IInv, NoLostWakeup, NewRows, PollInStep, TerminationInStep,
    AskedInOrder, Settled, Unasked, Polls
<1>14. (AskedInOrder /\ ToldWhatWasDecided /\ PendingHasDeadline)'
  BY DEF IInv, StartDelivery, AskedInOrder, Unasked, ToldWhatWasDecided, Decides,
    PendingHasDeadline
<1>15. QED
  BY <1>5, <1>6, <1>7, <1>8, <1>9, <1>10, <1>11, <1>12, <1>13, <1>14 DEF IInv

(* One delivery ends; another cannot be on its way.                          *)
LEMMA FinishDeliveryStep ==
  ASSUME IInv, NEW n \in Asks, FinishDelivery(n)
  PROVE  IInv'
<1>1. /\ delivery[n].send > 0 /\ delivery[n].start \in Nat /\ delivery[n].send \in Nat
      /\ UNCHANGED <<call, status, closing, ask, timer, req, term>>
  BY DEF IInv, TypeOK, FinishDelivery
<1>2. /\ delivery' \in [Asks -> [start : Nat, send : Nat]]
      /\ delivery'[n].start = delivery[n].start /\ delivery'[n].send = delivery[n].send - 1
      /\ \A m \in Asks \ {n} : delivery'[m] = delivery[m]
  BY <1>1 DEF IInv, TypeOK, FinishDelivery
<1>3. undelivered' \in {undelivered \ {n}, undelivered \cup {n}}
  BY DEF FinishDelivery
<1>4. Writes(n, "answered")
  BY SentOrNot DEF IInv, FinishDelivery, Outputs
<1>5. Fewer
  BY SentOrNot DEF IInv, FinishDelivery, Outputs
<1>6. pending' \in Entries /\ pending'.q = IF pending.q = n THEN 0 ELSE pending.q
  BY EntryUpdates DEF IInv, FinishDelivery
<1>7. /\ poll' \in Polls /\ poll'.pc = poll.pc /\ poll'.after = poll.after
      /\ poll'.over = poll.over /\ poll'.rung
  BY PollUpdates DEF IInv, FinishDelivery
<1>8. TypeOK'
  BY <1>1, <1>2, <1>3, <1>4, <1>5, <1>6, <1>7 DEF IInv, TypeOK, Writes, Fewer,
    Entries, Polls
<1>9. AskedInOrder'
  BY <1>1, <1>4, DeliveryNumbers DEF IInv, AskedInOrder, TasksFollowRows, Unasked,
    Writes
<1>10. TasksFollowRows'
  BY <1>1, <1>2, <1>3, DeliveryNumbers DEF IInv, TasksFollowRows, AskedInOrder,
    Unasked
<1>11. ToldWhatWasDecided'
  BY <1>1, <1>4 DEF IInv, ToldWhatWasDecided, Decides, AskedInOrder,
    TasksFollowRows, Unasked, Writes
<1>12. OneDelivery'
  BY <1>1, <1>2, DeliveryNumbers DEF IInv, OneDelivery, TasksFollowRows, OneHolder,
    Takes
<1>13. OneHolder'
  <2>1. \A m \in Asks : delivery[m].start + delivery[m].send = 0 =>
                          m # n /\ delivery'[m].start + delivery'[m].send = 0
    BY <1>1, <1>2, DeliveryNumbers DEF IInv
  <2>2. delivery'[n].start + delivery'[n].send = 0
    BY <1>1, <1>2, DeliveryNumbers DEF IInv, OneDelivery
  <2>3. \A a \in Agents : ~Takes(a, n)
    BY <1>1, DeliveryNumbers DEF IInv, OneHolder
  <2>4. QED
    BY <1>1, <1>3, <2>1, <2>2, <2>3, DeliveryNumbers DEF IInv, OneHolder, Takes
<1>14. OneOpen'
  BY <1>1, <1>5, <1>6, FaultNumbers DEF IInv, OneOpen, AskedInOrder,
    TasksFollowRows, PendingHasDeadline, Unasked, Fewer, Entries
<1>15. PendingHasOwner'
  BY <1>1, <1>2, <1>6, EntryNames, DeliveryNumbers DEF IInv, PendingHasOwner,
    AskedInOrder, TasksFollowRows, OneOpen, Unasked, Entries
<1>16. PendingHasDeadline'
  BY <1>1, <1>5, FaultNumbers DEF IInv, PendingHasDeadline, AskedInOrder, OneOpen,
    TasksFollowRows, PendingHasOwner, TerminationInStep, Unasked, Settled, Fewer
<1>17. TerminationInStep'
  BY <1>1, <1>5, <1>7, FaultNumbers DEF IInv, TerminationInStep, Settled, OneOpen,
    AskedInOrder, Unasked, Fewer, Polls
<1>18. PollInStep'
  BY <1>1, <1>7 DEF IInv, PollInStep, TerminationInStep, Settled, Polls
<1>19. NoLostWakeup'
  BY <1>1, <1>7 DEF IInv, NoLostWakeup, NewRows, PollInStep, TerminationInStep,
    AskedInOrder, Settled, Unasked, Polls
<1>20. QED
  BY <1>8, <1>9, <1>10, <1>11, <1>12, <1>13, <1>14, <1>15, <1>16, <1>17, <1>18,
    <1>19 DEF IInv

(* The first answer wins the row, so nothing of it is on its way.            *)
LEMMA ClaimAnswerStep ==
  ASSUME IInv, NEW a \in Agents, NEW n \in Asks, ClaimAnswer(a, n)
  PROVE  IInv'
<1>1. /\ req[a].pc = "idle" /\ status[n] # "none"
      /\ UNCHANGED <<call, told, pending, undelivered, closing, ask, timer, poll,
                     term>>
  BY DEF ClaimAnswer
<1>2. Fewer
  BY FaultUses, QuestionsAssumption DEF IInv, TypeOK, ClaimAnswer, Fewer
<1>3. /\ req' \in [Agents -> [pc : {"idle", "read", "closed", "recheck"}, q : 0..MaxAsked]]
      /\ \A b \in Agents \ {a} : req'[b] = req[b]
  BY DEF IInv, TypeOK, ClaimAnswer, Asks
<1>4. Settles(n, "answered")
  BY ClaimSettles DEF IInv, ClaimAnswer, Statuses
<1>5. \/ /\ CanSettle(n) /\ status'[n] = "answered" /\ req' = req
         /\ delivery' \in [Asks -> [start : Nat, send : Nat]]
         /\ delivery'[n].start = delivery[n].start + 1 /\ delivery'[n].send = delivery[n].send
         /\ \A m \in Asks \ {n} : delivery'[m] = delivery[m]
      \/ /\ delivery' = delivery
         /\ req' \in {req, [req EXCEPT ![a] = [pc |-> "read", q |-> n]]}
  BY DeliveryUpdates DEF IInv, TypeOK, ClaimAnswer
<1>6. TypeOK'
  BY <1>1, <1>2, <1>3, <1>4, <1>5 DEF IInv, TypeOK, Fewer, Settles, CanSettle
<1>7. AskedInOrder'
  BY <1>1, <1>4 DEF IInv, AskedInOrder, Unasked, Settles, CanSettle
<1>8. TasksFollowRows'
  BY <1>1, <1>3, <1>4, <1>5, DeliveryNumbers DEF IInv, TasksFollowRows,
    AskedInOrder, Unasked, Settles, CanSettle
<1>9. ToldWhatWasDecided'
  BY <1>1, <1>4, OpenIsUntold DEF IInv, ToldWhatWasDecided, Decides, AskedInOrder,
    TasksFollowRows, Unasked, Settles, CanSettle
<1>10. OneDelivery'
  BY <1>1, <1>5, DeliveryNumbers DEF IInv, OneDelivery, TasksFollowRows, OneHolder,
    Takes, CanSettle
<1>11. OneHolder'
  BY <1>1, <1>3, <1>5, DeliveryNumbers DEF IInv, OneHolder, Takes, AskedInOrder,
    TasksFollowRows, OneDelivery, Unasked, CanSettle
<1>12. OneOpen'
  BY <1>1, <1>2, <1>4, FaultNumbers DEF IInv, OneOpen, AskedInOrder,
    TasksFollowRows, PendingHasDeadline, Unasked, Fewer, Settles, CanSettle
<1>13. PendingHasOwner'
  BY <1>1, <1>5, EntryNames, DeliveryNumbers DEF IInv, PendingHasOwner,
    AskedInOrder, TasksFollowRows, OneOpen, Unasked, CanSettle
<1>14. PendingHasDeadline'
  BY <1>1, <1>2, <1>4, FaultNumbers DEF IInv, PendingHasDeadline, AskedInOrder,
    OneOpen, TasksFollowRows, PendingHasOwner, TerminationInStep, Unasked, Settled,
    Fewer, Settles, CanSettle
<1>15. TerminationInStep'
  BY <1>1, <1>2, <1>4, FaultNumbers DEF IInv, TerminationInStep, Settled, OneOpen,
    AskedInOrder, Unasked, Fewer, Settles, CanSettle
<1>16. NoLostWakeup'
  BY <1>1, <1>4 DEF IInv, NoLostWakeup, NewRows, PollInStep, TerminationInStep,
    AskedInOrder, Settled, Unasked, Settles, CanSettle
<1>17. PollInStep'
  BY DEF IInv, ClaimAnswer, PollInStep
<1>18. QED
  BY <1>6, <1>7, <1>8, <1>9, <1>10, <1>11, <1>12, <1>13, <1>14, <1>15, <1>16, <1>17
    DEF IInv

(* A retry takes the mark, and nobody else has it.                           *)
LEMMA ReadQuestionStep ==
  ASSUME IInv, NEW a \in Agents, ReadQuestion(a)
  PROVE  IInv'
<1>1. /\ req[a].pc = "read" /\ req[a].q \in Asks
      /\ UNCHANGED <<call, status, told, pending, closing, ask, timer, delivery,
                     poll, term, faults>>
  BY DEF IInv, TasksFollowRows, ReadQuestion
<1>2. \/ /\ req' = Retries(a) /\ status[req[a].q] = "answered"
         /\ req[a].q \in undelivered /\ undelivered' = undelivered \ {req[a].q}
      \/ req' = Ended(a) /\ undelivered' = undelivered
  BY DEF ReadQuestion, Ended
<1>3. /\ req' \in [Agents -> [pc : {"idle", "read", "closed", "recheck"}, q : 0..MaxAsked]]
      /\ \A b \in Agents \ {a} : req'[b] = req[b]
  BY <1>2, RequestUpdates DEF IInv, Requests
<1>4. \/ /\ req'[a].pc = "recheck" /\ req'[a].q = req[a].q
         /\ status[req[a].q] = "answered"
         /\ req[a].q \in undelivered /\ undelivered' = undelivered \ {req[a].q}
      \/ req'[a].pc = "idle" /\ undelivered' = undelivered
  BY <1>2, RequestUpdates DEF IInv
<1>5. TypeOK'
  BY <1>1, <1>3, <1>4 DEF IInv, TypeOK
<1>6. TasksFollowRows'
  BY <1>1, <1>3, <1>4, DeliveryNumbers DEF IInv, TasksFollowRows, AskedInOrder,
    Unasked
<1>7. OneHolder'
  BY <1>1, <1>3, <1>4, DeliveryNumbers DEF IInv, OneHolder, Takes, AskedInOrder,
    TasksFollowRows, OneDelivery, Unasked
<1>8. (AskedInOrder /\ ToldWhatWasDecided /\ OneDelivery /\ OneOpen /\
  PendingHasOwner /\ PendingHasDeadline /\ TerminationInStep /\ PollInStep /\
  NoLostWakeup)'
  BY DEF IInv, ReadQuestion, AskedInOrder, Unasked, ToldWhatWasDecided, Decides,
    OneDelivery, OneOpen, PendingHasOwner, PendingHasDeadline, TerminationInStep,
    Settled, PollInStep, NoLostWakeup, NewRows
<1>9. QED
  BY <1>5, <1>6, <1>7, <1>8 DEF IInv

LEMMA RetryDeliveryStep ==
  ASSUME IInv, NEW a \in Agents, RetryDelivery(a)
  PROVE  IInv'
<1>1. /\ req[a].pc = "recheck" /\ req[a].q \in Asks /\ status[req[a].q] = "answered"
      /\ UNCHANGED <<call, status, told, undelivered, closing, ask, timer, poll,
                     term>>
  BY DEF IInv, TasksFollowRows, RetryDelivery
<1>2. /\ req' \in [Agents -> [pc : {"idle", "read", "closed", "recheck"}, q : 0..MaxAsked]]
      /\ req'[a].pc = "idle"
      /\ \A b \in Agents \ {a} : req'[b] = req[b]
  BY RequestUpdates DEF IInv, RetryDelivery, Ended, Requests
<1>3. Fewer
  BY FaultUses, QuestionsAssumption DEF IInv, TypeOK, RetryDelivery, Fewer
<1>4. \/ /\ pending' = IF pending.q = 0 THEN [q |-> req[a].q, delivering |-> TRUE] ELSE pending
         /\ delivery' = Spawned(req[a].q)
      \/ UNCHANGED <<pending, delivery>>
  BY DEF RetryDelivery
<1>5. /\ pending' \in Entries
      /\ pending' = pending \/ (pending.q = 0 /\ pending'.q = req[a].q)
  <2>1. CASE pending' = pending
    BY <1>1, <2>1, EntryUpdates DEF IInv
  <2>2. CASE pending.q = 0 /\ pending' = [q |-> req[a].q, delivering |-> TRUE]
    BY <1>1, <2>2 DEF Entries
  <2>3. QED
    BY <1>4, <2>1, <2>2
<1>6. \/ /\ delivery' \in [Asks -> [start : Nat, send : Nat]]
         /\ delivery'[req[a].q].start = delivery[req[a].q].start + 1
         /\ delivery'[req[a].q].send = delivery[req[a].q].send
         /\ \A m \in Asks \ {req[a].q} : delivery'[m] = delivery[m]
      \/ UNCHANGED <<pending, delivery>>
  BY <1>1, <1>4, DeliveryUpdates DEF IInv
<1>7. TypeOK'
  BY <1>1, <1>2, <1>3, <1>5, <1>6 DEF IInv, TypeOK, Fewer, Entries
<1>8. TasksFollowRows'
  BY <1>1, <1>2, <1>6, DeliveryNumbers DEF IInv, TasksFollowRows, AskedInOrder,
    Unasked
<1>9. OneDelivery'
  BY <1>1, <1>2, <1>6, DeliveryNumbers DEF IInv, OneDelivery, TasksFollowRows,
    OneHolder, Takes
<1>10. OneHolder'
  BY <1>1, <1>2, <1>6, DeliveryNumbers DEF IInv, OneHolder, Takes, AskedInOrder,
    TasksFollowRows, OneDelivery, Unasked
<1>11. OneOpen'
  BY <1>1, <1>3, <1>5, FaultNumbers, EntryNames DEF IInv, OneOpen, Fewer
<1>12. PendingHasOwner'
  BY <1>1, <1>2, <1>5, <1>6, EntryNames, DeliveryNumbers DEF IInv, PendingHasOwner,
    AskedInOrder, TasksFollowRows, OneOpen, Unasked, Entries
<1>13. PendingHasDeadline'
  BY <1>1, <1>3, FaultNumbers DEF IInv, PendingHasDeadline, AskedInOrder, OneOpen,
    TasksFollowRows, PendingHasOwner, TerminationInStep, Unasked, Settled, Fewer
<1>14. TerminationInStep'
  BY <1>1, <1>3, FaultNumbers DEF IInv, TerminationInStep, Settled, OneOpen,
    AskedInOrder, Unasked, Fewer
<1>15. (AskedInOrder /\ ToldWhatWasDecided /\ PollInStep /\ NoLostWakeup)'
  BY DEF IInv, RetryDelivery, AskedInOrder, Unasked, ToldWhatWasDecided, Decides,
    PollInStep, NoLostWakeup, NewRows
<1>16. QED
  BY <1>7, <1>8, <1>9, <1>10, <1>11, <1>12, <1>13, <1>14, <1>15 DEF IInv

LEMMA ReadStateStep ==
  ASSUME IInv, ReadState
  PROVE  IInv'
<1>1. /\ poll.pc = "state" /\ Serving
      /\ UNCHANGED <<call, status, told, pending, undelivered, closing, ask, timer,
                     delivery, req, term, faults>>
  BY DEF ReadState
<1>2. poll' \in Polls /\ poll'.pc = "rows" /\ poll'.over = (call = "ended")
  BY DEF IInv, TypeOK, ReadState, Polls
<1>3. TypeOK'
  BY <1>1, <1>2 DEF IInv, TypeOK, Serving, Polls
<1>4. TerminationInStep'
  BY <1>1, <1>2 DEF IInv, TerminationInStep, Settled, OneOpen, AskedInOrder,
    Unasked, Serving, Polls
<1>5. PollInStep'
  BY <1>1, <1>2 DEF IInv, PollInStep, TerminationInStep, Settled, Serving, Polls
<1>6. NoLostWakeup'
  BY <1>1, <1>2 DEF IInv, NoLostWakeup, NewRows, PollInStep, TerminationInStep,
    AskedInOrder, Settled, Unasked, Serving, Polls
<1>7. (AskedInOrder /\ TasksFollowRows /\ ToldWhatWasDecided /\ OneDelivery /\
  OneHolder /\ OneOpen /\ PendingHasOwner /\ PendingHasDeadline)'
  BY DEF IInv, ReadState, AskedInOrder, Unasked, TasksFollowRows,
    ToldWhatWasDecided, Decides, OneDelivery, OneHolder, Takes, OneOpen,
    PendingHasOwner, PendingHasDeadline
<1>8. QED
  BY <1>3, <1>4, <1>5, <1>6, <1>7 DEF IInv

LEMMA ReadRowsStep ==
  ASSUME IInv, ReadRows
  PROVE  IInv'
<1>1. /\ poll.pc = "rows"
      /\ UNCHANGED <<call, status, told, pending, undelivered, closing, ask, timer,
                     delivery, req, term, faults>>
  BY DEF ReadRows
<1>2. \/ /\ poll' \in Polls /\ poll'.pc = "state"
      \/ /\ poll' \in Polls /\ poll'.pc = "wait" /\ NewRows = {} /\ ~poll.over
         /\ poll'.over = poll.over /\ poll'.after = poll.after /\ poll'.rung = poll.rung
  <2>1. CASE \E n \in NewRows : /\ \A m \in NewRows : m <= n
                              /\ poll' = [Subscribed EXCEPT !.after = n]
    BY <2>1, PollUpdates, QuestionsAssumption DEF IInv, Polls, NewRows, Asks
  <2>2. CASE poll' = Subscribed
    BY <2>2, PollUpdates DEF IInv
  <2>3. CASE NewRows = {} /\ ~poll.over /\ poll' = [poll EXCEPT !.pc = "wait"]
    BY <2>3 DEF IInv, TypeOK, Polls
  <2>4. QED
    BY <2>1, <2>2, <2>3 DEF ReadRows
<1>3. TypeOK'
  BY <1>1, <1>2 DEF IInv, TypeOK, Polls
<1>4. TerminationInStep'
  BY <1>1, <1>2 DEF IInv, TerminationInStep, Settled, OneOpen, AskedInOrder,
    Unasked, Polls
<1>5. PollInStep'
  BY <1>1, <1>2 DEF IInv, PollInStep, TerminationInStep, Settled, Polls
<1>6. NoLostWakeup'
  BY <1>1, <1>2 DEF IInv, NoLostWakeup, NewRows, PollInStep, TerminationInStep,
    AskedInOrder, Settled, Unasked, Polls
<1>7. (AskedInOrder /\ TasksFollowRows /\ ToldWhatWasDecided /\ OneDelivery /\
  OneHolder /\ OneOpen /\ PendingHasOwner /\ PendingHasDeadline)'
  BY DEF IInv, ReadRows, AskedInOrder, Unasked, TasksFollowRows, ToldWhatWasDecided,
    Decides, OneDelivery, OneHolder, Takes, OneOpen, PendingHasOwner,
    PendingHasDeadline
<1>8. QED
  BY <1>3, <1>4, <1>5, <1>6, <1>7 DEF IInv

LEMMA ResumeStep ==
  ASSUME IInv, Resume
  PROVE  IInv'
<1>1. /\ UNCHANGED <<call, status, told, pending, undelivered, closing, ask, timer,
                     delivery, req, term, faults>>
  BY DEF Resume
<1>2. poll' \in Polls /\ poll'.pc = "state"
  BY PollUpdates DEF IInv, Resume
<1>3. TypeOK'
  BY <1>1, <1>2 DEF IInv, TypeOK, Polls
<1>4. TerminationInStep'
  BY <1>1, <1>2 DEF IInv, TerminationInStep, Settled, OneOpen, AskedInOrder,
    Unasked, Polls
<1>5. PollInStep'
  BY <1>1, <1>2 DEF IInv, PollInStep, TerminationInStep, Settled, Polls
<1>6. NoLostWakeup'
  BY <1>1, <1>2 DEF IInv, NoLostWakeup, NewRows, PollInStep, TerminationInStep,
    AskedInOrder, Settled, Unasked, Polls
<1>7. (AskedInOrder /\ TasksFollowRows /\ ToldWhatWasDecided /\ OneDelivery /\
  OneHolder /\ OneOpen /\ PendingHasOwner /\ PendingHasDeadline)'
  BY DEF IInv, Resume, AskedInOrder, Unasked, TasksFollowRows, ToldWhatWasDecided,
    Decides, OneDelivery, OneHolder, Takes, OneOpen, PendingHasOwner,
    PendingHasDeadline
<1>8. QED
  BY <1>3, <1>4, <1>5, <1>6, <1>7 DEF IInv

LEMMA ClaimTerminationStep ==
  ASSUME IInv, ClaimTermination
  PROVE  IInv'
<1>1. /\ term = "none" /\ call = "active" /\ call' = "terminating" /\ term' = "cancel"
      /\ UNCHANGED <<status, told, undelivered, closing, ask, timer, delivery, req,
                     poll, faults>>
  BY DEF ClaimTermination
<1>2. pending' \in Entries /\ pending'.q = 0
  BY DEF ClaimTermination, Entries, NoPending
<1>3. TypeOK'
  BY <1>1, <1>2 DEF IInv, TypeOK, Entries
<1>4. OneOpen'
  BY <1>1, <1>2 DEF IInv, OneOpen, AskedInOrder, TasksFollowRows,
    PendingHasDeadline, Unasked, Entries
<1>5. PendingHasOwner'
  BY <1>1, <1>2, EntryNames DEF IInv, PendingHasOwner, AskedInOrder,
    TasksFollowRows, OneOpen, Unasked, Entries
<1>6. PendingHasDeadline'
  BY <1>1 DEF IInv, PendingHasDeadline, AskedInOrder, OneOpen, TasksFollowRows,
    PendingHasOwner, TerminationInStep, Unasked, Settled
<1>7. TerminationInStep'
  BY <1>1 DEF IInv, TerminationInStep, Settled, OneOpen, AskedInOrder, Unasked
<1>8. PollInStep'
  BY <1>1 DEF IInv, PollInStep, TerminationInStep, Settled
<1>9. NoLostWakeup'
  BY <1>1 DEF IInv, NoLostWakeup, NewRows, PollInStep, TerminationInStep,
    AskedInOrder, Settled, Unasked
<1>10. (AskedInOrder /\ TasksFollowRows /\ ToldWhatWasDecided /\ OneDelivery /\
  OneHolder)'
  BY DEF IInv, ClaimTermination, AskedInOrder, Unasked, TasksFollowRows,
    ToldWhatWasDecided, Decides, OneDelivery, OneHolder, Takes
<1>11. QED
  BY <1>3, <1>4, <1>5, <1>6, <1>7, <1>8, <1>9, <1>10 DEF IInv

LEMMA CancelAtClaimStep ==
  ASSUME IInv, CancelAtClaim
  PROVE  IInv'
<1>1. /\ term = "cancel" /\ term' = "media"
      /\ undelivered' = {} /\ closing' \in BOOLEAN /\ ~closing'
      /\ UNCHANGED <<call, told, pending, ask, timer, delivery, req>>
  BY DEF CancelAtClaim
<1>2. Cancels
  BY CancelPendingCancels DEF IInv, CancelAtClaim
<1>3. /\ poll' \in Polls /\ poll'.pc = poll.pc /\ poll'.after = poll.after
      /\ poll'.over = poll.over /\ poll'.rung
  BY PollUpdates DEF IInv, CancelAtClaim
<1>4. TypeOK'
  BY <1>1, <1>2, <1>3 DEF IInv, TypeOK, Cancels, Fewer, Polls
<1>5. AskedInOrder'
  BY <1>1, <1>2 DEF IInv, AskedInOrder, Unasked, Cancels, Fewer
<1>6. TasksFollowRows'
  BY <1>1, <1>2, DeliveryNumbers DEF IInv, TasksFollowRows, AskedInOrder, Unasked,
    Cancels, Fewer
<1>7. ToldWhatWasDecided'
  BY <1>1, <1>2, OpenIsUntold DEF IInv, ToldWhatWasDecided, Decides, AskedInOrder,
    TasksFollowRows, Unasked, Cancels, Fewer
<1>8. OneHolder'
  BY <1>1, DeliveryNumbers DEF IInv, OneHolder, Takes, AskedInOrder,
    TasksFollowRows, OneDelivery, Unasked
<1>9. OneOpen'
  BY <1>1, <1>2, FaultNumbers DEF IInv, OneOpen, AskedInOrder, TasksFollowRows,
    PendingHasDeadline, Unasked, Cancels, Fewer
<1>10. PendingHasOwner'
  BY <1>1, DeliveryNumbers DEF IInv, PendingHasOwner, AskedInOrder, TasksFollowRows,
    OneOpen, Unasked
<1>11. PendingHasDeadline'
  BY <1>1, <1>2, FaultNumbers DEF IInv, PendingHasDeadline, AskedInOrder, OneOpen,
    TasksFollowRows, PendingHasOwner, TerminationInStep, Unasked, Settled, Cancels,
    Fewer
<1>12. TerminationInStep'
  BY <1>1, <1>2, <1>3, FaultNumbers DEF IInv, TerminationInStep, Settled, OneOpen,
    AskedInOrder, Unasked, Cancels, Fewer, Polls
<1>13. PollInStep'
  BY <1>1, <1>3 DEF IInv, PollInStep, TerminationInStep, Settled, Polls
<1>14. NoLostWakeup'
  BY <1>1, <1>2, <1>3 DEF IInv, NoLostWakeup, NewRows, PollInStep,
    TerminationInStep, AskedInOrder, Settled, Unasked, Cancels, Fewer, Polls
<1>15. OneDelivery'
  BY DEF IInv, CancelAtClaim, OneDelivery
<1>16. QED
  BY <1>4, <1>5, <1>6, <1>7, <1>8, <1>9, <1>10, <1>11, <1>12, <1>13, <1>14, <1>15
    DEF IInv

LEMMA TeardownMediaStep ==
  ASSUME IInv, TeardownMedia
  PROVE  IInv'
<1>1. /\ term = "media" /\ term' = "finish"
      /\ UNCHANGED <<call, status, told, pending, undelivered, closing, ask, timer,
                     delivery, req, poll, faults>>
  BY DEF TeardownMedia
<1>2. TypeOK'
  BY <1>1 DEF IInv, TypeOK
<1>3. TerminationInStep'
  BY <1>1 DEF IInv, TerminationInStep, Settled, OneOpen, AskedInOrder, Unasked
<1>4. PollInStep'
  BY <1>1 DEF IInv, PollInStep, TerminationInStep, Settled
<1>5. NoLostWakeup'
  BY <1>1 DEF IInv, NoLostWakeup, NewRows, PollInStep, TerminationInStep,
    AskedInOrder, Settled, Unasked
<1>6. (AskedInOrder /\ TasksFollowRows /\ ToldWhatWasDecided /\ OneDelivery /\
  OneHolder /\ OneOpen /\ PendingHasOwner /\ PendingHasDeadline)'
  BY DEF IInv, TeardownMedia, AskedInOrder, Unasked, TasksFollowRows,
    ToldWhatWasDecided, Decides, OneDelivery, OneHolder, Takes, OneOpen,
    PendingHasOwner, PendingHasDeadline
<1>7. QED
  BY <1>2, <1>3, <1>4, <1>5, <1>6 DEF IInv

LEMMA FinishTerminationStep ==
  ASSUME IInv, FinishTermination
  PROVE  IInv'
<1>1. /\ term = "finish"
      /\ UNCHANGED <<status, told, ask, timer, delivery, req, poll>>
  BY DEF FinishTermination
<1>2. Fewer
  BY FaultUses, QuestionsAssumption DEF IInv, TypeOK, FinishTermination, Fewer
<1>3. \/ /\ call' = "ended" /\ undelivered' = {}
         /\ ~closing' /\ term' = "late" /\ faults' = faults
      \/ UNCHANGED <<call, undelivered, closing, term>>
  BY DEF FinishTermination
<1>4. /\ pending' \in Entries
      /\ pending' = pending \/ (pending'.q = 0 /\ call' = "ended")
  <2>1. NoPending \in Entries /\ NoPending.q = 0 /\ pending \in Entries
    BY DEF IInv, TypeOK, NoPending, Entries
  <2>2. QED
    BY <2>1 DEF FinishTermination
<1>5. closing' \in BOOLEAN
  BY DEF IInv, TypeOK, FinishTermination
<1>6. TypeOK'
  BY <1>1, <1>2, <1>3, <1>4, <1>5 DEF IInv, TypeOK, Fewer, Entries
<1>7. TasksFollowRows'
  BY <1>1, <1>3, DeliveryNumbers DEF IInv, TasksFollowRows, AskedInOrder, Unasked
<1>8. OneHolder'
  BY <1>1, <1>3, DeliveryNumbers DEF IInv, OneHolder, Takes, AskedInOrder,
    TasksFollowRows, OneDelivery, Unasked
<1>9. OneOpen'
  BY <1>1, <1>2, <1>3, <1>4, <1>5, FaultNumbers DEF IInv, OneOpen, AskedInOrder,
    TasksFollowRows, PendingHasDeadline, Unasked, Fewer, Entries
<1>10. PendingHasOwner'
  BY <1>1, <1>3, <1>4, <1>5, EntryNames, DeliveryNumbers DEF IInv, PendingHasOwner,
    AskedInOrder, TasksFollowRows, OneOpen, Unasked, Entries
<1>11. PendingHasDeadline'
  BY <1>1, <1>2, <1>3, <1>5, FaultNumbers DEF IInv, PendingHasDeadline,
    AskedInOrder, OneOpen, TasksFollowRows, PendingHasOwner, TerminationInStep,
    Unasked, Settled, Fewer
<1>12. TerminationInStep'
  BY <1>1, <1>2, <1>3, FaultNumbers DEF IInv, TerminationInStep, Settled, OneOpen,
    AskedInOrder, Unasked, Fewer
<1>13. PollInStep'
  BY <1>1, <1>3 DEF IInv, PollInStep, TerminationInStep, Settled
<1>14. NoLostWakeup'
  BY <1>1, <1>3 DEF IInv, NoLostWakeup, NewRows, PollInStep, TerminationInStep,
    AskedInOrder, Settled, Unasked
<1>15. (AskedInOrder /\ ToldWhatWasDecided /\ OneDelivery)'
  BY DEF IInv, FinishTermination, AskedInOrder, Unasked, ToldWhatWasDecided,
    Decides, OneDelivery
<1>16. QED
  BY <1>6, <1>7, <1>8, <1>9, <1>10, <1>11, <1>12, <1>13, <1>14, <1>15 DEF IInv

LEMMA CancelAtEndStep ==
  ASSUME IInv, CancelAtEnd
  PROVE  IInv'
<1>1. /\ term = "late" /\ term' = "done"
      /\ UNCHANGED <<call, told, pending, undelivered, closing, ask, timer, delivery,
                     req>>
  BY DEF CancelAtEnd
<1>2. Cancels
  BY CancelPendingCancels DEF IInv, CancelAtEnd
<1>3. /\ poll' \in Polls /\ poll'.pc = poll.pc /\ poll'.after = poll.after
      /\ poll'.over = poll.over /\ poll'.rung
  BY PollUpdates DEF IInv, CancelAtEnd
<1>4. TypeOK'
  BY <1>1, <1>2, <1>3 DEF IInv, TypeOK, Cancels, Fewer, Polls
<1>5. AskedInOrder'
  BY <1>1, <1>2 DEF IInv, AskedInOrder, Unasked, Cancels, Fewer
<1>6. TasksFollowRows'
  BY <1>1, <1>2 DEF IInv, TasksFollowRows, AskedInOrder, Unasked, Cancels, Fewer
<1>7. ToldWhatWasDecided'
  BY <1>1, <1>2, OpenIsUntold DEF IInv, ToldWhatWasDecided, Decides, AskedInOrder,
    TasksFollowRows, Unasked, Cancels, Fewer
<1>8. OneOpen'
  BY <1>1, <1>2, FaultNumbers DEF IInv, OneOpen, AskedInOrder, TasksFollowRows,
    PendingHasDeadline, Unasked, Cancels, Fewer
<1>9. PendingHasDeadline'
  BY <1>1, <1>2, FaultNumbers DEF IInv, PendingHasDeadline, AskedInOrder, OneOpen,
    TasksFollowRows, PendingHasOwner, TerminationInStep, Unasked, Settled, Cancels,
    Fewer
<1>10. TerminationInStep'
  BY <1>1, <1>2, <1>3, FaultNumbers DEF IInv, TerminationInStep, Settled, OneOpen,
    AskedInOrder, Unasked, Cancels, Fewer, Polls
<1>11. PollInStep'
  BY <1>1, <1>3 DEF IInv, PollInStep, TerminationInStep, Settled, Polls
<1>12. NoLostWakeup'
  BY <1>1, <1>2, <1>3 DEF IInv, NoLostWakeup, NewRows, PollInStep,
    TerminationInStep, AskedInOrder, Settled, Unasked, Cancels, Fewer, Polls
<1>13. (OneDelivery /\ OneHolder /\ PendingHasOwner)'
  BY DEF IInv, CancelAtEnd, OneDelivery, OneHolder, Takes, PendingHasOwner
<1>14. QED
  BY <1>4, <1>5, <1>6, <1>7, <1>8, <1>9, <1>10, <1>11, <1>12, <1>13 DEF IInv

LEMMA CrashStep ==
  ASSUME IInv, Crash
  PROVE  IInv'
<1>1. /\ undelivered' = {} /\ closing' \in BOOLEAN /\ ~closing' /\ term' = "boot"
      /\ UNCHANGED <<call, status, told>>
  BY DEF Crash
<1>2. Fewer /\ faults'.io = faults.io
  BY QuestionsAssumption DEF IInv, TypeOK, Crash, Fewer
<1>3. pending' \in Entries /\ pending'.q = 0
  BY DEF Crash, Entries, NoPending
<1>4. /\ ask' \in [pc : {"dead"}, q : 0..MaxAsked]
      /\ ask'.q = ask.q
  BY DEF IInv, TypeOK, Crash
<1>5. poll' \in Polls /\ poll'.pc = "state"
  BY DEF IInv, TypeOK, Crash, NoPoll, Polls
<1>6. /\ timer' \in [Asks -> {"off", "done"}]
      /\ \A n \in Asks : timer'[n] = "off" <=> timer[n] = "off"
  BY DEF IInv, TypeOK, Crash
<1>7. /\ delivery' \in [Asks -> [start : Nat, send : Nat]]
      /\ \A n \in Asks : delivery'[n].start = 0 /\ delivery'[n].send = 0
  BY DEF Crash, NoDelivery
<1>8. /\ req' \in [Agents -> [pc : {"idle"}, q : 0..MaxAsked]]
      /\ \A a \in Agents : req'[a].pc = "idle"
  BY QuestionsAssumption DEF Crash, NoRequest
<1>9. TypeOK'
  BY <1>1, <1>2, <1>3, <1>4, <1>5, <1>6, <1>7, <1>8 DEF IInv, TypeOK, Fewer,
    Entries, Polls
<1>10. AskedInOrder'
  BY <1>1, <1>4, <1>6, AskNumbers DEF IInv, AskedInOrder, Unasked
<1>11. TasksFollowRows'
  BY <1>1, <1>6, <1>7, <1>8, DeliveryNumbers DEF IInv, TasksFollowRows,
    AskedInOrder, Unasked
<1>12. OneDelivery'
  BY <1>1, <1>7, DeliveryNumbers DEF IInv, OneDelivery, TasksFollowRows, OneHolder,
    Takes
<1>13. OneHolder'
  BY <1>1, <1>7, <1>8, DeliveryNumbers DEF IInv, OneHolder, Takes, AskedInOrder,
    TasksFollowRows, OneDelivery, Unasked
<1>14. OneOpen'
  BY <1>1, <1>2, <1>3, <1>4, FaultNumbers DEF IInv, OneOpen, AskedInOrder,
    TasksFollowRows, PendingHasDeadline, Unasked, Fewer, Entries
<1>15. PendingHasOwner'
  BY <1>1, <1>3, <1>4, <1>6, <1>7, EntryNames, DeliveryNumbers DEF IInv,
    PendingHasOwner, AskedInOrder, TasksFollowRows, OneOpen, Unasked, Entries
<1>16. PendingHasDeadline'
  BY <1>1, <1>2, <1>4, <1>6, FaultNumbers DEF IInv, PendingHasDeadline,
    AskedInOrder, OneOpen, TasksFollowRows, PendingHasOwner, TerminationInStep,
    Unasked, Settled, Fewer
<1>17. TerminationInStep'
  BY <1>1, <1>2, <1>4, <1>5, FaultNumbers DEF IInv, TerminationInStep, Settled,
    OneOpen, AskedInOrder, Unasked, Fewer, Polls
<1>18. PollInStep'
  BY <1>1, <1>5 DEF IInv, PollInStep, TerminationInStep, Settled, Polls
<1>19. NoLostWakeup'
  BY <1>1, <1>4, <1>5 DEF IInv, NoLostWakeup, NewRows, PollInStep,
    TerminationInStep, AskedInOrder, Settled, Unasked, Polls
<1>20. ToldWhatWasDecided'
  BY DEF IInv, Crash, ToldWhatWasDecided, Decides
<1>21. QED
  BY <1>9, <1>10, <1>11, <1>12, <1>13, <1>14, <1>15, <1>16, <1>17, <1>18, <1>19,
    <1>20 DEF IInv

LEMMA CancelAtBootStep ==
  ASSUME IInv, CancelAtBoot
  PROVE  IInv'
<1>1. /\ term = "boot" /\ term' = "recover"
      /\ UNCHANGED <<call, told, pending, undelivered, closing, ask, timer, delivery,
                     req, poll>>
  BY DEF CancelAtBoot
<1>2. Cancels
  BY CancelPendingCancels DEF IInv, CancelAtBoot
<1>3. TypeOK'
  BY <1>1, <1>2 DEF IInv, TypeOK, Cancels, Fewer
<1>4. AskedInOrder'
  BY <1>1, <1>2 DEF IInv, AskedInOrder, Unasked, Cancels, Fewer
<1>5. TasksFollowRows'
  BY <1>1, <1>2 DEF IInv, TasksFollowRows, AskedInOrder, Unasked, Cancels, Fewer
<1>6. ToldWhatWasDecided'
  BY <1>1, <1>2, OpenIsUntold DEF IInv, ToldWhatWasDecided, Decides, AskedInOrder,
    TasksFollowRows, Unasked, Cancels, Fewer
<1>7. OneOpen'
  BY <1>1, <1>2, FaultNumbers DEF IInv, OneOpen, AskedInOrder, TasksFollowRows,
    PendingHasDeadline, Unasked, Cancels, Fewer
<1>8. PendingHasDeadline'
  BY <1>1, <1>2, FaultNumbers DEF IInv, PendingHasDeadline, AskedInOrder, OneOpen,
    TasksFollowRows, PendingHasOwner, TerminationInStep, Unasked, Settled, Cancels,
    Fewer
<1>9. TerminationInStep'
  BY <1>1, <1>2, FaultNumbers DEF IInv, TerminationInStep, Settled, OneOpen,
    AskedInOrder, Unasked, Cancels, Fewer
<1>10. PollInStep'
  BY <1>1 DEF IInv, PollInStep, TerminationInStep, Settled
<1>11. NoLostWakeup'
  BY <1>1, <1>2 DEF IInv, NoLostWakeup, NewRows, PollInStep, TerminationInStep,
    AskedInOrder, Settled, Unasked, Cancels, Fewer
<1>12. (OneDelivery /\ OneHolder /\ PendingHasOwner)'
  BY DEF IInv, CancelAtBoot, OneDelivery, OneHolder, Takes, PendingHasOwner
<1>13. QED
  BY <1>3, <1>4, <1>5, <1>6, <1>7, <1>8, <1>9, <1>10, <1>11, <1>12 DEF IInv

LEMMA RecoverCallStep ==
  ASSUME IInv, RecoverCall
  PROVE  IInv'
<1>1. /\ term = "recover"
      /\ \/ call # "ended" /\ call' = "terminating" /\ term' = "finish"
         \/ call = "ended" /\ term' = "done" /\ call' = call
      /\ UNCHANGED <<status, told, pending, undelivered, closing, ask, timer,
                     delivery, req, poll, faults>>
  BY DEF RecoverCall
<1>2. TypeOK'
  BY <1>1 DEF IInv, TypeOK
<1>3. OneOpen'
  BY <1>1 DEF IInv, OneOpen, AskedInOrder, TasksFollowRows, PendingHasDeadline,
    Unasked
<1>4. PendingHasDeadline'
  BY <1>1 DEF IInv, PendingHasDeadline, AskedInOrder, OneOpen, TasksFollowRows,
    PendingHasOwner, TerminationInStep, Unasked, Settled
<1>5. TerminationInStep'
  BY <1>1 DEF IInv, TerminationInStep, Settled, OneOpen, AskedInOrder, Unasked
<1>6. PollInStep'
  BY <1>1 DEF IInv, PollInStep, TerminationInStep, Settled
<1>7. NoLostWakeup'
  BY <1>1 DEF IInv, NoLostWakeup, NewRows, PollInStep, TerminationInStep,
    AskedInOrder, Settled, Unasked
<1>8. (AskedInOrder /\ TasksFollowRows /\ ToldWhatWasDecided /\ OneDelivery /\
  OneHolder /\ PendingHasOwner)'
  BY DEF IInv, RecoverCall, AskedInOrder, Unasked, TasksFollowRows,
    ToldWhatWasDecided, Decides, OneDelivery, OneHolder, Takes, PendingHasOwner
<1>9. QED
  BY <1>2, <1>3, <1>4, <1>5, <1>6, <1>7, <1>8 DEF IInv

-----------------------------------------------------------------------------
(* The theorems.                                                             *)

LEMMA InitHolds == Init => IInv
<1> SUFFICES ASSUME Init PROVE IInv
  OBVIOUS
<1>1. TypeOK
  <2>1. poll \in Polls /\ pending \in Entries
    BY QuestionsAssumption DEF Init, NoPoll, Polls, NoPending, Entries
  <2>2. /\ ask \in [pc : {"idle"}, q : 0..MaxAsked] /\ req \in [Agents -> Requests]
        /\ faults \in [io : 0..MaxFaults, restart : 0..MaxRestarts]
    BY QuestionsAssumption DEF Init, NoRequest, Requests
  <2>3. /\ status \in [Asks -> Statuses] /\ told \in [Asks -> SUBSET Outputs]
        /\ delivery \in [Asks -> [start : Nat, send : Nat]]
    BY DEF Init, Statuses, NoDelivery
  <2>4. closing \in BOOLEAN
    BY DEF Init
  <2>5. QED
    BY <2>1, <2>2, <2>3, <2>4 DEF Init, TypeOK, Polls, Entries, Requests
<1>2. AskedInOrder /\ TasksFollowRows
  BY QuestionsAssumption DEF Init, AskedInOrder, TasksFollowRows, NoDelivery, NoRequest, Asks
<1>3. ToldWhatWasDecided /\ OneDelivery /\ OneHolder
  BY DEF Init, ToldWhatWasDecided, OneDelivery, OneHolder, Takes, NoDelivery, NoRequest
<1>4. OneOpen /\ PendingHasOwner /\ PendingHasDeadline
  BY DEF Init, OneOpen, PendingHasOwner, PendingHasDeadline, NoPending
<1>5. TerminationInStep /\ PollInStep /\ NoLostWakeup
  BY DEF Init, TerminationInStep, Settled, PollInStep, NoLostWakeup, NoPoll
<1>6. QED
  BY <1>1, <1>2, <1>3, <1>4, <1>5 DEF IInv

LEMMA StutterHolds == IInv /\ UNCHANGED vars => IInv'
  BY DEF IInv, vars, TypeOK, AskedInOrder, Unasked, TasksFollowRows, ToldWhatWasDecided,
    OneDelivery, OneHolder, Takes, OneOpen, PendingHasOwner, PendingHasDeadline,
    TerminationInStep, Settled, PollInStep, NoLostWakeup, NewRows

LEMMA NextHolds == IInv /\ [Next]_vars => IInv'
<1> SUFFICES ASSUME IInv, [Next]_vars PROVE IInv'
  OBVIOUS
<1>1. CASE Dispatcher
  BY <1>1, AskAgentStep, CreateQuestionStep, RejectAskAgentStep, RegisterQuestionStep,
    StartDeadlineStep, EndCallToolStep DEF Dispatcher
<1>2. CASE CancelVoiceEnd
  BY <1>2, CancelVoiceEndStep
<1>3. CASE Deadline
  BY <1>3, DeadlineFiresStep, ClaimExpiryStep, TellTimeoutStep DEF Deadline
<1>4. CASE Deliver
  BY <1>4, StartDeliveryStep, FinishDeliveryStep DEF Deliver
<1>5. CASE Request
  BY <1>5, ClaimAnswerStep, ReadQuestionStep, RetryDeliveryStep DEF Request
<1>6. CASE Poll
  BY <1>6, ReadStateStep, ReadRowsStep, ResumeStep DEF Poll
<1>7. CASE Terminate
  BY <1>7, ClaimTerminationStep, CancelAtClaimStep, TeardownMediaStep,
    FinishTerminationStep, CancelAtEndStep DEF Terminate
<1>8. CASE Crash
  BY <1>8, CrashStep
<1>9. CASE Boot
  BY <1>9, CancelAtBootStep, RecoverCallStep DEF Boot
<1>10. CASE UNCHANGED vars
  BY <1>10, StutterHolds
<1>11. QED
  BY <1>1, <1>2, <1>3, <1>4, <1>5, <1>6, <1>7, <1>8, <1>9, <1>10 DEF Next

(* Every reachable state satisfies the inductive invariant.                  *)
THEOREM IInvAlways == Spec => []IInv
  BY InitHolds, NextHolds, PTL DEF Spec

(* Every variable keeps its type, however many requests race.                *)
THEOREM TypesHold == Spec => []TypeOK
<1>1. IInv => TypeOK
  BY DEF IInv
<1>2. QED
  BY <1>1, IInvAlways, PTL

(* The voice model is told what the database decided, and nothing else, when *)
(* an answer, the deadline and termination race for a row (questions.py, the *)
(* two claims).                                                              *)
THEOREM ModelToldTheTruth == Spec => []ToldWhatWasDecided
<1>1. IInv => ToldWhatWasDecided
  BY DEF IInv
<1>2. QED
  BY <1>1, IInvAlways, PTL

(* However many requests retry an answer, one delivery of it is on its way at *)
(* a time: the claim on the row and the take of the undelivered mark pass one *)
(* token round.                                                              *)
THEOREM AnswerDeliveredOnce == Spec => []OneDelivery
<1>1. IInv => OneDelivery
  BY DEF IInv
<1>2. QED
  BY <1>1, IInvAlways, PTL

(* A poller that waits unrung has missed neither a question nor the end.     *)
THEOREM PollMissesNothing == Spec => []NoLostWakeup
<1>1. IInv => NoLostWakeup
  BY DEF IInv
<1>2. QED
  BY <1>1, IInvAlways, PTL

(* Every open question and every entry in memory has a task that will settle *)
(* it, and the end of the call leaves none open even when one of the two     *)
(* cancellations fails.                                                      *)
THEOREM QuestionsLookedAfter == Spec => []PendingLookedAfter
<1>1. IInv => PendingLookedAfter
  BY DEF IInv, PendingLookedAfter, TerminationInStep, Settled, ClosedCallSettlesQuestions
<1>2. QED
  BY <1>1, IInvAlways, PTL
=============================================================================
