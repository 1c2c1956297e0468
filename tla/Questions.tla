------------------------------ MODULE Questions ------------------------------
(***************************************************************************)
(* The questions the voice model asks the owner's agent during one call:   *)
(* the tool dispatcher that creates them, the deadline of each, the        *)
(* agent's requests that answer or retry, the long-poll that tells the     *)
(* agent of them, the voice model's request to end the call, and the       *)
(* termination that cancels what is open (app/call_state.py over           *)
(* app/db/questions.py).  A step runs from one await to the next, with the *)
(* statement or the write it waits for.  Questions are numbered in the     *)
(* order their tool calls arrive, which is that of their sequence numbers. *)
(***************************************************************************)
EXTENDS Naturals, FiniteSets

CONSTANTS MaxAsked,      \* ask_agent tool calls of the voice model, at most
          MaxQuestions,  \* ask_agent_max_questions_per_call
          Agents,        \* concurrent answer_call_question requests
          MaxFaults,     \* failing statements and sideband writes, at most
          MaxRestarts    \* deaths of the process, at most

ASSUME QuestionsAssumption ==
  /\ MaxAsked \in Nat /\ MaxQuestions \in Nat
  /\ MaxFaults \in Nat /\ MaxRestarts \in Nat

Asks == 1..MaxAsked

VARIABLES
  call,      \* durable: the call's state
  status,    \* durable: status of each row of call_questions
  told,      \* outputs that reached the voice model, per tool call
  pending,   \* _pending_questions[call_id]; q = 0 when there is none
  undelivered, \* _undelivered_answers[call_id]
  closing,   \* call_id is in _voice_end_pending
  ask,       \* the FIFO dispatcher at an ask_agent tool call; tool calls so far
  timer,     \* the _question_deadline task of each question
  delivery,  \* _deliver_question_answer tasks of each question
  req,       \* the agent's requests
  poll,      \* the agent's long-poll
  term,      \* terminate_call, then startup recovery
  faults     \* faults left to inject

vars == <<call, status, told, pending, undelivered, closing, ask, timer,
          delivery, req, poll, term, faults>>

-----------------------------------------------------------------------------
Statuses == {"none", "pending", "answered", "expired", "cancelled"}
Outputs  == {"rejected", "answered", "timeout"}
NoPending  == [q |-> 0, delivering |-> FALSE]
NoRequest  == [pc |-> "idle", q |-> 0]
NoDelivery == [start |-> 0, send |-> 0]
NoPoll     == [pc |-> "state", after |-> 0, over |-> FALSE, rung |-> FALSE]

TypeOK ==
  /\ call \in {"active", "terminating", "ended"}
  /\ status \in [Asks -> Statuses]
  /\ told \in [Asks -> SUBSET Outputs]
  /\ pending \in {NoPending} \cup [q : Asks, delivering : BOOLEAN]
  /\ undelivered \subseteq Asks
  /\ closing \in BOOLEAN
  /\ ask \in [pc : {"idle", "create", "reject", "register", "receipt", "dead"},
              q : 0..MaxAsked]
  /\ timer \in [Asks -> {"off", "sleeping", "claim", "send", "done"}]
  /\ delivery \in [Asks -> [start : Nat, send : Nat]]
  /\ req \in [Agents -> [pc : {"idle", "read", "closed", "recheck"}, q : 0..MaxAsked]]
  /\ poll \in [pc : {"state", "rows", "wait"}, after : 0..MaxAsked,
               over : BOOLEAN, rung : BOOLEAN]
  /\ term \in {"none", "cancel", "media", "finish", "late", "done", "boot", "recover"}
  /\ faults \in [io : 0..MaxFaults, restart : 0..MaxRestarts]

Init ==
  /\ call = "active"
  /\ status = [n \in Asks |-> "none"]
  /\ told = [n \in Asks |-> {}]
  /\ pending = NoPending
  /\ undelivered = {}
  /\ closing = FALSE
  /\ ask = [pc |-> "idle", q |-> 0]
  /\ timer = [n \in Asks |-> "off"]
  /\ delivery = [n \in Asks |-> NoDelivery]
  /\ req = [a \in Agents |-> NoRequest]
  /\ poll = NoPoll
  /\ term = "none"
  /\ faults = [io |-> MaxFaults, restart |-> MaxRestarts]

-----------------------------------------------------------------------------
(* What a statement or a write can do to its caller.                         *)

Fault == faults.io > 0 /\ faults' = [faults EXCEPT !.io = @ - 1]

(* The teardown of a call, and a dispatcher that failed, close the sideband. *)
SidebandOpen == term \in {"none", "cancel", "media"} /\ ask.pc # "dead"

(* _guarded_send_tool_result returns True.  The bridge writes one output per *)
(* tool call; here a second that differs would show in told.                 *)
Sent(n, out) ==
  /\ SidebandOpen
  /\ told' = [told EXCEPT ![n] = @ \cup {out}]
  /\ UNCHANGED faults

(* It returns False: the sideband is closed; or the write fails, before or   *)
(* after the model has the output; or continuing the response fails.         *)
NotSent(n, out) ==
  \/ ~SidebandOpen /\ UNCHANGED <<told, faults>>
  \/ /\ SidebandOpen
     /\ Fault
     /\ told' \in {told, [told EXCEPT ![n] = @ \cup {out}]}

(* Seeded faults, here and below: each takes the place of the definition     *)
(* under it to show which property notices.                                  *)
MarkedAny(n)  == [pending EXCEPT !.delivering = TRUE]     \* whichever question it is
RingsNobody(p) == p                                       \* no notification

(* _clear_pending_question and _mark_question_delivering: this question only.*)
Cleared(n) == IF pending.q = n THEN NoPending ELSE pending
Marked(n)  == IF pending.q = n THEN [pending EXCEPT !.delivering = TRUE] ELSE pending

(* _notify_call_event: sets the notifier the poller holds.                   *)
Notified(p) == [p EXCEPT !.rung = TRUE]

Spawned(n) == [delivery EXCEPT ![n].start = @ + 1]

-----------------------------------------------------------------------------
(* The dispatcher.                                                           *)

(* The model calls ask_agent; the arguments or the settings may refuse it.   *)
AskAgent ==
  /\ SidebandOpen
  /\ ask.pc = "idle"
  /\ ask.q < MaxAsked
  /\ \E pc \in {"create", "reject"} :
       /\ closing => pc = "reject"
       /\ ask' = [pc |-> pc, q |-> ask.q + 1]
  /\ UNCHANGED <<call, status, told, pending, undelivered, closing, timer,
                 delivery, req, poll, term, faults>>

QuotaReached == Cardinality({m \in Asks : status[m] # "none"}) >= MaxQuestions

(* A duplicated tool call is dropped before this, by seen_tools.             *)
QuestionRefused ==
  call # "active" \/ (\E m \in Asks : status[m] = "pending") \/ QuotaReached

CreateQuestion ==
  LET created == [status EXCEPT ![ask.q] = "pending"] IN
  /\ ask.pc = "create"
  /\ \/ /\ QuestionRefused
        /\ ask' = [ask EXCEPT !.pc = "reject"]
        /\ UNCHANGED <<status, faults>>
     \/ /\ ~QuestionRefused
        /\ status' = created
        /\ ask' = [ask EXCEPT !.pc = "register"]
        /\ UNCHANGED faults
     \/ /\ Fault
        /\ status' \in {status} \cup (IF QuestionRefused THEN {} ELSE {created})
        /\ ask' = [ask EXCEPT !.pc = "dead"]
  /\ UNCHANGED <<call, told, pending, undelivered, closing, timer, delivery, req,
                 poll, term>>

(* The receipt of a rejection is written beside it, then waited for; if that *)
(* fails, the dispatcher fails with it.                                      *)
RejectAskAgent ==
  /\ ask.pc = "reject"
  /\ \/ /\ Sent(ask.q, "rejected") \/ NotSent(ask.q, "rejected")
        /\ ask' = [ask EXCEPT !.pc = "idle"]
     \/ /\ Fault
        /\ \/ UNCHANGED told
           \/ SidebandOpen /\ told' = [told EXCEPT ![ask.q] = @ \cup {"rejected"}]
        /\ ask' = [ask EXCEPT !.pc = "dead"]
  /\ UNCHANGED <<call, status, pending, undelivered, closing, timer, delivery, req, poll, term>>

RegisterQuestion ==
  /\ ask.pc = "register"
  /\ pending' = [q |-> ask.q, delivering |-> FALSE]
  /\ poll' = Notified(poll)
  /\ ask' = [ask EXCEPT !.pc = "receipt"]
  /\ UNCHANGED <<call, status, told, undelivered, closing, timer, delivery, req,
                 term, faults>>

(* The receipt may fail; the deadline is started all the same.               *)
StartDeadline ==
  /\ ask.pc = "receipt"
  /\ UNCHANGED faults \/ Fault
  /\ timer' = [timer EXCEPT ![ask.q] = "sleeping"]
  /\ ask' = [ask EXCEPT !.pc = "idle"]
  /\ UNCHANGED <<call, status, told, pending, undelivered, closing, delivery, req,
                 poll, term>>

(* finish_call_after_goodbye, as far as questions are concerned.             *)
EndCallTool ==
  /\ SidebandOpen
  /\ ask.pc = "idle"
  /\ ~closing
  /\ pending.q = 0
  /\ undelivered = {}
  /\ closing' = TRUE
  /\ UNCHANGED <<call, status, told, pending, undelivered, ask, timer, delivery,
                 req, poll, term, faults>>

(* The callee speaks in the reply window.                                    *)
CancelVoiceEnd ==
  /\ closing
  /\ closing' = FALSE
  /\ UNCHANGED <<call, status, told, pending, undelivered, ask, timer, delivery,
                 req, poll, term, faults>>

-----------------------------------------------------------------------------
(* The deadline of question n.                                               *)

DeadlineFires(n) ==
  /\ timer[n] = "sleeping"
  /\ IF closing
       THEN timer' = [timer EXCEPT ![n] = "done"] /\ UNCHANGED pending
       ELSE timer' = [timer EXCEPT ![n] = "claim"] /\ pending' = Marked(n)
  /\ UNCHANGED <<call, status, told, undelivered, closing, ask, delivery, req,
                 poll, term, faults>>

SettlesAnyRow(n) == call = "active" /\ status[n] # "none"  \* seeded: no status test

CanSettle(n) == call = "active" /\ status[n] = "pending"   \* WHERE of both claims

ClaimExpiry(n) ==
  LET expired == [status EXCEPT ![n] = "expired"] IN
  /\ timer[n] = "claim"
  /\ \/ /\ CanSettle(n)
        /\ status' = expired
        /\ timer' = [timer EXCEPT ![n] = "send"]
        /\ UNCHANGED <<pending, poll, faults>>
     \/ /\ ~CanSettle(n)
        /\ timer' = [timer EXCEPT ![n] = "done"]
        /\ pending' = Cleared(n)
        /\ UNCHANGED <<status, poll, faults>>
     \/ /\ Fault
        /\ status' \in {status} \cup (IF CanSettle(n) THEN {expired} ELSE {})
        /\ timer' = [timer EXCEPT ![n] = "done"]
        /\ pending' = Cleared(n)
        /\ poll' = Notified(poll)
  /\ UNCHANGED <<call, told, undelivered, closing, ask, delivery, req, term>>

(* Whether the write succeeds is not looked at.                              *)
TellTimeout(n) ==
  /\ timer[n] = "send"
  /\ Sent(n, "timeout") \/ NotSent(n, "timeout")
  /\ timer' = [timer EXCEPT ![n] = "done"]
  /\ pending' = Cleared(n)
  /\ poll' = Notified(poll)
  /\ UNCHANGED <<call, status, undelivered, closing, ask, delivery, req, term>>

-----------------------------------------------------------------------------
(* An answer on its way to the voice model.                                  *)

StartDelivery(n) ==
  /\ delivery[n].start > 0
  /\ IF closing
       THEN /\ delivery' = [delivery EXCEPT ![n].start = @ - 1]
            /\ pending' = Cleared(n)
            /\ poll' = Notified(poll)
       ELSE /\ delivery' = [delivery EXCEPT ![n].start = @ - 1, ![n].send = @ + 1]
            /\ pending' = Marked(n)
            /\ UNCHANGED poll
  /\ UNCHANGED <<call, status, told, undelivered, closing, ask, timer, req, term,
                 faults>>

FinishDelivery(n) ==
  /\ delivery[n].send > 0
  /\ \/ Sent(n, "answered") /\ undelivered' = undelivered \ {n}
     \/ NotSent(n, "answered") /\ undelivered' = undelivered \cup {n}
  /\ delivery' = [delivery EXCEPT ![n].send = @ - 1]
  /\ pending' = Cleared(n)
  /\ poll' = Notified(poll)
  /\ UNCHANGED <<call, status, closing, ask, timer, req, term>>

-----------------------------------------------------------------------------
(* answer_call_question, by request a for question n.                        *)

Serving == term \notin {"boot", "recover"}

ClaimAnswer(a, n) ==
  LET answered == [status EXCEPT ![n] = "answered"] IN
  /\ Serving
  /\ req[a].pc = "idle"
  /\ status[n] # "none"
  /\ \/ /\ CanSettle(n)
        /\ status' = answered
        /\ delivery' = Spawned(n)
        /\ UNCHANGED <<req, faults>>
     \/ /\ ~CanSettle(n)
        /\ req' = [req EXCEPT ![a] = [pc |-> "read", q |-> n]]
        /\ UNCHANGED <<status, delivery, faults>>
     \/ /\ Fault
        /\ CanSettle(n)
        /\ status' \in {status, answered}
        /\ UNCHANGED <<req, delivery>>
  /\ UNCHANGED <<call, told, pending, undelivered, closing, ask, timer, poll, term>>

(* The claim was lost: who won?                                              *)
Retries(a) == [req EXCEPT ![a].pc = "recheck"] \* takes the mark, then looks at the call

ReadQuestionKeepingMark(a) ==          \* seeded: the retry leaves the mark behind
  LET n == req[a].q IN
  /\ req[a].pc = "read"
  /\ req' = IF status[n] = "answered" /\ n \in undelivered
              THEN Retries(a) ELSE [req EXCEPT ![a] = NoRequest]
  /\ UNCHANGED <<call, status, told, pending, undelivered, closing, ask, timer,
                 delivery, poll, term, faults>>

ReadQuestion(a) ==
  LET n == req[a].q IN
  /\ req[a].pc = "read"
  /\ IF status[n] = "answered" /\ n \in undelivered
       THEN /\ undelivered' = undelivered \ {n}
            /\ req' = Retries(a)
       ELSE /\ req' = [req EXCEPT ![a] = NoRequest]
            /\ UNCHANGED undelivered
  /\ UNCHANGED <<call, status, told, pending, closing, ask, timer, delivery, poll,
                 term, faults>>

RetryDelivery(a) ==
  LET n == req[a].q IN
  /\ req[a].pc = "recheck"
  /\ req' = [req EXCEPT ![a] = NoRequest]
  /\ \/ /\ call = "active"
        /\ pending' = IF pending.q = 0 THEN [q |-> n, delivering |-> TRUE] ELSE pending
        /\ delivery' = Spawned(n)
        /\ UNCHANGED faults
     \/ /\ call # "active"
        /\ UNCHANGED <<pending, delivery, faults>>
     \/ /\ Fault
        /\ UNCHANGED <<pending, delivery>>
  /\ UNCHANGED <<call, status, told, undelivered, closing, ask, timer, poll, term>>

-----------------------------------------------------------------------------
(* wait_for_call_event: subscribe, read the call, read the rows, wait.  The  *)
(* agent polls again as soon as a poll returns; each time the notifier it    *)
(* subscribes with is unset.                                                 *)
Subscribed == [poll EXCEPT !.pc = "state", !.over = FALSE, !.rung = FALSE]

ReadState ==
  /\ Serving
  /\ poll.pc = "state"
  /\ poll' = [poll EXCEPT !.pc = "rows", !.over = call = "ended"]
  /\ UNCHANGED <<call, status, told, pending, undelivered, closing, ask, timer,
                 delivery, req, term, faults>>

NewRows == {n \in Asks : n > poll.after /\ status[n] # "none"}

(* Events, or the end of the call, or no time left, end the poll.            *)
ReadRows ==
  /\ poll.pc = "rows"
  /\ \/ \E n \in NewRows : /\ \A m \in NewRows : m <= n
                            /\ poll' = [Subscribed EXCEPT !.after = n]
     \/ /\ NewRows = {}
        /\ poll' = Subscribed
     \/ /\ NewRows = {}
        /\ ~poll.over
        /\ poll' = [poll EXCEPT !.pc = "wait"]
  /\ UNCHANGED <<call, status, told, pending, undelivered, closing, ask, timer,
                 delivery, req, term, faults>>

(* Woken, or out of time: read again with a fresh notifier.                  *)
Resume ==
  /\ poll.pc = "wait"
  /\ poll' = Subscribed
  /\ UNCHANGED <<call, status, told, pending, undelivered, closing, ask, timer,
                 delivery, req, term, faults>>

-----------------------------------------------------------------------------
(* Termination.                                                              *)

ClaimTermination ==
  /\ term = "none"
  /\ call = "active"
  /\ call' = "terminating"
  /\ pending' = NoPending
  /\ term' = "cancel"
  /\ UNCHANGED <<status, told, undelivered, closing, ask, timer, delivery, req,
                 poll, faults>>

CancelledRows == [n \in Asks |-> IF status[n] = "pending" THEN "cancelled" ELSE status[n]]

CancelNothing == UNCHANGED <<status, faults>>  \* seeded: the rows are left pending

(* cancel_pending_questions, whose failure is logged and passed over.        *)
CancelPending ==
  \/ status' = CancelledRows /\ UNCHANGED faults
  \/ status' \in {status, CancelledRows} /\ Fault

CancelAtClaim ==
  /\ term = "cancel"
  /\ CancelPending
  /\ poll' = Notified(poll)
  /\ undelivered' = {}                 \* _tombstone_call_activity
  /\ closing' = FALSE
  /\ term' = "media"
  /\ UNCHANGED <<call, told, pending, ask, timer, delivery, req>>

TeardownMedia ==
  /\ term = "media"
  /\ term' = "finish"
  /\ UNCHANGED <<call, status, told, pending, undelivered, closing, ask, timer,
                 delivery, req, poll, faults>>

(* finish_claimed_termination; if it fails a background retry repeats it.    *)
FinishTermination ==
  /\ term = "finish"
  /\ \/ /\ call' = "ended"
        /\ pending' = NoPending
        /\ undelivered' = {}
        /\ closing' = FALSE
        /\ term' = "late"
        /\ UNCHANGED faults
     \/ /\ Fault
        /\ UNCHANGED <<call, pending, undelivered, closing, term>>
  /\ UNCHANGED <<status, told, ask, timer, delivery, req, poll>>

CancelAtEnd ==
  /\ term = "late"
  /\ CancelPending
  /\ poll' = Notified(poll)
  /\ term' = "done"
  /\ UNCHANGED <<call, told, pending, undelivered, closing, ask, timer, delivery, req>>

-----------------------------------------------------------------------------
(* The process dies; the next one recovers before it serves requests.        *)

Crash ==
  /\ faults.restart > 0
  /\ faults' = [faults EXCEPT !.restart = @ - 1]
  /\ pending' = NoPending
  /\ undelivered' = {}
  /\ closing' = FALSE
  /\ ask' = [ask EXCEPT !.pc = "dead"]
  /\ timer' = [n \in Asks |-> IF timer[n] = "off" THEN "off" ELSE "done"]
  /\ delivery' = [n \in Asks |-> NoDelivery]
  /\ req' = [a \in Agents |-> NoRequest]
  /\ poll' = [NoPoll EXCEPT !.after = poll.after]
  /\ term' = "boot"
  /\ UNCHANGED <<call, status, told>>

CancelAtBoot ==
  /\ term = "boot"
  /\ CancelPending
  /\ term' = "recover"
  /\ UNCHANGED <<call, told, pending, undelivered, closing, ask, timer, delivery,
                 req, poll>>

RecoverCall ==
  /\ term = "recover"
  /\ \/ /\ call # "ended"
        /\ call' = "terminating"
        /\ term' = "finish"
     \/ /\ call = "ended"
        /\ term' = "done"
        /\ UNCHANGED call
  /\ UNCHANGED <<status, told, pending, undelivered, closing, ask, timer, delivery,
                 req, poll, faults>>

-----------------------------------------------------------------------------
Dispatcher == \/ AskAgent \/ CreateQuestion \/ RejectAskAgent
              \/ RegisterQuestion \/ StartDeadline \/ EndCallTool
Deadline   == \E n \in Asks : DeadlineFires(n) \/ ClaimExpiry(n) \/ TellTimeout(n)
Deliver    == \E n \in Asks : StartDelivery(n) \/ FinishDelivery(n)
Request    == \E a \in Agents :
                \/ \E n \in Asks : ClaimAnswer(a, n)
                \/ ReadQuestion(a)
                \/ RetryDelivery(a)
Poll       == ReadState \/ ReadRows \/ Resume
Terminate  == \/ ClaimTermination \/ CancelAtClaim \/ TeardownMedia
              \/ FinishTermination \/ CancelAtEnd
Boot       == CancelAtBoot \/ RecoverCall

Next == \/ Dispatcher \/ CancelVoiceEnd \/ Deadline \/ Deliver \/ Request \/ Poll
        \/ Terminate \/ Crash \/ Boot

Spec == Init /\ [][Next]_vars

-----------------------------------------------------------------------------
(* What the voice model is told is what the database decided: an answer only *)
(* of a question the agent won, a timeout only of one the deadline won, a    *)
(* rejection only of a tool call that has no row.  (questions.py, the two    *)
(* claims; an answer, the deadline and termination race.)                    *)
Decides(s) == IF s = "none" THEN "rejected" ELSE IF s = "expired" THEN "timeout" ELSE s

ToldWhatWasDecided == \A n \in Asks : told[n] \subseteq {Decides(status[n])}

(* Once the end of the call has been carried out no question of it is left   *)
(* pending, even if one of the two cancellations failed.                     *)
ClosedCallSettlesQuestions ==
  term = "done" /\ faults.io >= MaxFaults - 1 => \A n \in Asks : status[n] # "pending"

(* An entry in _pending_questions, which refuses the end of the call and     *)
(* spares it from the watchdog, belongs to a task that will clear it.        *)
PendingHasOwner ==
  LET n == pending.q IN
  n # 0 => \/ ask.pc = "receipt" /\ ask.q = n
           \/ timer[n] \in {"sleeping", "claim", "send"} /\ ~closing
           \/ delivery[n].start + delivery[n].send > 0

(* An answer is on its way to the model at most once at a time, however many *)
(* requests retry it.                                                        *)
OneDelivery == \A n \in Asks : delivery[n].start + delivery[n].send <= 1

(* A poller that waits with its notifier unset has missed nothing: a new     *)
(* question is about to be announced, and so is the end of the call.         *)
NoLostWakeup ==
  poll.pc = "wait" /\ ~poll.rung =>
    /\ NewRows # {} => ask.pc = "register" \/ (ask.pc = "dead" /\ term # "done")
    /\ call = "ended" => term # "done"


(* While the call is open somebody is going to settle a pending question:    *)
(* the dispatcher is about to start its deadline, or the deadline runs and   *)
(* will not be waved away by a goodbye, or the dispatcher failed and takes   *)
(* the call with it.  Only a failed statement excuses.                       *)
PendingHasDeadline ==
  \A n \in Asks :
    call = "active" /\ status[n] = "pending" =>
      \/ ask.pc \in {"register", "receipt"} /\ ask.q = n
      \/ timer[n] \in {"sleeping", "claim"} /\ ~closing
      \/ ask.pc = "dead"
      \/ faults.io < MaxFaults

(* Nothing about a question is left lying: each open row and each entry in   *)
(* memory has somebody to settle it, and the end of the call settles all.    *)
PendingLookedAfter ==
  ClosedCallSettlesQuestions /\ PendingHasOwner /\ PendingHasDeadline
=============================================================================
