---------------------------- MODULE LiveSideband ----------------------------
(***************************************************************************)
(* The sideband of one call (app/openai_live.py): the supervisor _run with *)
(* its three children (on_open, the reader, the dispatcher), the bounded   *)
(* queue between reader and dispatcher, the tool results and the           *)
(* continuation of the response they belong to, and the teardowns that     *)
(* drain and close it.  A step runs from one await to the next, with the   *)
(* write it waits for.  The provider sends what it likes, in the order a   *)
(* response allows; of its frames only those that the handlers act on here *)
(* are kept.                                                               *)
(***************************************************************************)
EXTENDS Naturals, Sequences, FiniteSets

CONSTANTS Responses,   \* backend responses
          Tools,       \* function calls the provider may make
          ResponseOf,  \* the response a function call belongs to
          Inline,      \* function calls whose handler sends the result itself;
                       \* the others are answered by a task of their own
          QueueMax,    \* LIVE_EVENT_QUEUE_MAXSIZE
          Drainers,    \* who may end the call: "open", its open handler, "other" tasks
          MaxFaults    \* failing writes, closes, handlers and reads, at most

ASSUME SidebandAssumption ==
  /\ IsFiniteSet(Responses)
  /\ Tools \cap {"dispatcher", "nobody"} = {}
  /\ ResponseOf \in [Tools -> Responses]
  /\ Inline \subseteq Tools
  /\ Drainers \subseteq {"open", "other"}
  /\ QueueMax \in Nat \ {0} /\ MaxFaults \in Nat

VARIABLES
  ws,         \* runtime.websocket, and the far end of it
  closing,    \* runtime.closing
  stop,       \* runtime.stop_after_current
  final,      \* runtime.closed_event is set
  registered, \* the bridge knows the runtime
  run,        \* the supervisor _run; it has been told to cancel
  open,       \* the on_open handler
  recv,       \* the reader
  disp,       \* the dispatcher, and the tool call it waits for
  queue,      \* runtime.event_queue
  tools,      \* what the reader has seen: tool calls, completed responses, and
              \* the responses with tool calls in order of appearance
  results,    \* per tool call, the send_tool_result at work on it
  emitted,    \* runtime.emitted_results
  continued,  \* runtime.continued_responses
  creates,    \* response.create events written for each response, capped at 2
  lock,       \* runtime.tool_lock: the write under it, the place in pending_tools
  drain,      \* drain_and_close: by the open handler, and by other tasks
  spawned,    \* terminations started by on_fatal, by a session.closed event
  faults

vars == <<ws, closing, stop, final, registered, run, open, recv, disp, queue, tools,
          results, emitted, continued, creates, lock, drain, spawned, faults>>

-----------------------------------------------------------------------------
Event(k, x) == [kind |-> k, of |-> x]
Nobody      == "nobody"
CloseMarker == Event("marker", Nobody)
Unlocked    == [by |-> Nobody, at |-> "free", next |-> 0, size |-> 0]

Finished(pc) == pc \in {"done", "failed", "cancelled"}

TypeOK ==
  /\ ws \in [open : BOOLEAN, far : {"up", "eof"}]
  /\ closing \in BOOLEAN /\ stop \in BOOLEAN /\ final \in BOOLEAN
  /\ registered \in BOOLEAN /\ spawned \subseteq {"fatal", "event"}
  /\ run \in [pc : {"connect", "wait", "awaitOpen", "supervise", "cleanup", "done"},
              cancel : BOOLEAN]
  /\ open \in {"off", "verify", "work", "drain", "done", "failed", "cancelled"}
  /\ recv \in {"off", "read", "marker", "done", "failed", "cancelled"}
  /\ disp \in [pc : {"off", "get", "continue", "write", "done", "failed", "cancelled"},
               tool : Tools \cup {Nobody}]
  /\ queue \in Seq([kind : {"tool", "completed", "closed", "marker"},
                    of : Responses \cup Tools \cup {Nobody}])
  /\ Len(queue) <= QueueMax
  /\ tools \in [seen : SUBSET Tools, completed : SUBSET Responses, order : Seq(Responses)]
  /\ Len(tools.order) <= Cardinality(Responses)
  /\ results \in [Tools -> {"none", "due", "waiting", "locked", "sent", "failed"}]
  /\ emitted \subseteq Tools /\ continued \subseteq Responses
  /\ creates \in [Responses -> 0..2]
  /\ lock \in [by : Tools \cup {"dispatcher", Nobody}, at : {"free", "emit", "write"},
               next : 0..Cardinality(Responses), size : 0..Cardinality(Responses)]
  /\ drain \in [Drainers -> {"off", "final", "wsclose", "join", "joinCancelled", "done", "leaked"}]
  /\ faults \in 0..MaxFaults

Init ==
  /\ ws = [open |-> FALSE, far |-> "up"]
  /\ closing = FALSE /\ stop = FALSE /\ final = FALSE
  /\ registered = TRUE /\ spawned = {}
  /\ run = [pc |-> "connect", cancel |-> FALSE]
  /\ open = "off" /\ recv = "off"
  /\ disp = [pc |-> "off", tool |-> Nobody]
  /\ queue = <<>>
  /\ tools = [seen |-> {}, completed |-> {}, order |-> <<>>]
  /\ results = [t \in Tools |-> "none"]
  /\ emitted = {} /\ continued = {}
  /\ creates = [r \in Responses |-> 0]
  /\ lock = Unlocked
  /\ drain = [d \in Drainers |-> "off"]
  /\ faults = MaxFaults

Fault == faults > 0 /\ faults' = faults - 1

supervision == <<closing, stop, registered, run, drain, spawned>>
batches     == <<results, emitted, continued, creates, lock>>

(* runtime.send gets through; it raises without a fault once the socket is   *)
(* closed at either end.                                                     *)
Writable == registered /\ ws.open /\ ws.far = "up"
Unsent   == (~Writable /\ UNCHANGED faults) \/ Fault

-----------------------------------------------------------------------------
(* The supervisor.                                                           *)

RunConnects ==
  /\ run.pc = "connect"
  /\ ~run.cancel
  /\ ws' = [ws EXCEPT !.open = TRUE]
  /\ run' = [run EXCEPT !.pc = "wait"]
  /\ open' = "verify"
  /\ recv' = "read"
  /\ disp' = [disp EXCEPT !.pc = "get"]
  /\ UNCHANGED <<closing, stop, final, registered, queue, tools, batches, drain, spawned, faults>>

(* An exception leaves _run: the socket is closed, and unless the sideband   *)
(* is being closed on_fatal starts a termination.                            *)
RunFails ==
  /\ run' = [run EXCEPT !.pc = "cleanup"]
  /\ ws' = [ws EXCEPT !.open = FALSE]
  /\ spawned' = IF closing THEN spawned ELSE spawned \cup {"fatal"}

RunReturns ==
  /\ run' = [run EXCEPT !.pc = "cleanup"]
  /\ ws' = [ws EXCEPT !.open = FALSE]
  /\ UNCHANGED spawned

ConnectFails ==
  /\ run.pc = "connect"
  /\ ~run.cancel
  /\ Fault
  /\ RunFails
  /\ UNCHANGED <<closing, stop, final, registered, open, recv, disp, queue, tools, batches, drain>>

(* on_open is done: its failure is the supervisor's, and a close it asked    *)
(* for in vain stops the supervisor here.                                    *)
AfterOpen ==
  \/ open \in {"failed", "cancelled"} /\ RunFails
  \/ open = "done" /\ stop /\ RunReturns
  \/ open = "done" /\ ~stop /\ run' = [run EXCEPT !.pc = "supervise"] /\ UNCHANGED <<ws, spawned>>

(* A child that ends before on_open is a failure, unless on_open is closing  *)
(* the sideband itself.                                                      *)
EventTaskEndsFirst ==
  /\ ~Finished(open)
  /\ Finished(recv) \/ Finished(disp.pc)
  /\ \/ closing /\ run' = [run EXCEPT !.pc = "awaitOpen"] /\ UNCHANGED <<ws, spawned>>
     \/ ~closing /\ RunFails

RunWaits ==
  /\ ~run.cancel
  /\ \/ run.pc = "wait" /\ Finished(open) /\ AfterOpen
     \/ run.pc = "wait" /\ EventTaskEndsFirst
     \/ run.pc = "awaitOpen" /\ Finished(open) /\ AfterOpen
  /\ UNCHANGED <<closing, stop, final, registered, open, recv, disp, queue, tools, batches,
                 drain, faults>>

(* _supervise_event_tasks.                                                   *)
RunSupervises ==
  /\ run.pc = "supervise"
  /\ ~run.cancel
  /\ \/ /\ \/ recv \in {"failed", "cancelled"}
           \/ disp.pc \in {"failed", "cancelled"}
           \/ disp.pc = "done" /\ ~Finished(recv)
        /\ RunFails
     \/ /\ recv = "done" /\ disp.pc = "done"
        /\ RunReturns
  /\ UNCHANGED <<closing, stop, final, registered, open, recv, disp, queue, tools, batches,
                 drain, faults>>

RunCancelled ==
  /\ run.cancel
  /\ run.pc \in {"connect", "wait", "awaitOpen", "supervise"}
  /\ RunReturns
  /\ UNCHANGED <<closing, stop, final, registered, open, recv, disp, queue, tools, batches,
                 drain, faults>>

(* The finally clause cancels each child that is not done.  A tool result    *)
(* under the lock is shielded, and so is a termination on_open waits for.    *)
CancelOpen ==
  /\ run.pc = "cleanup"
  /\ open \in {"verify", "work"}
  /\ open' = "cancelled"
  /\ UNCHANGED <<ws, final, recv, disp, queue, tools, batches, supervision, faults>>

CancelReader ==
  /\ run.pc = "cleanup"
  /\ recv \in {"read", "marker"}
  /\ recv' = "cancelled"
  /\ UNCHANGED <<ws, final, open, disp, queue, tools, batches, supervision, faults>>

CancelDispatcher ==
  /\ run.pc = "cleanup"
  /\ disp.pc \in {"get", "continue", "write"}
  /\ disp.tool # Nobody => results[disp.tool] # "locked"
  /\ disp' = [disp EXCEPT !.pc = "cancelled"]
  /\ results' = [t \in Tools |->
                   IF t = disp.tool /\ results[t] = "waiting" THEN "failed" ELSE results[t]]
  /\ lock' = IF lock.by = "dispatcher" THEN Unlocked ELSE lock
  /\ UNCHANGED <<ws, final, open, recv, queue, tools, emitted, continued, creates,
                 supervision, faults>>

RunEnds ==
  /\ run.pc = "cleanup"
  /\ open = "off" \/ (Finished(open) /\ Finished(recv) /\ Finished(disp.pc))
  /\ run' = [run EXCEPT !.pc = "done"]
  /\ registered' = (registered /\ ~closing)
  /\ UNCHANGED <<ws, closing, stop, final, open, recv, disp, queue, tools, batches, drain,
                 spawned, faults>>

-----------------------------------------------------------------------------
(* handle_sideband_open, as far as the sideband is concerned: it verifies    *)
(* the session, then works, and may find that it has to end the call.        *)

(* session.update is not sent, or not echoed in time: the call is ended.     *)
OpenUnverified ==
  /\ open = "verify"
  /\ \/ open' = "drain" /\ UNCHANGED faults
     \/ open' = "failed" /\ Fault
  /\ UNCHANGED <<ws, final, recv, disp, queue, tools, batches, supervision>>

OpenWorks ==
  /\ open = "work"
  /\ \/ open' \in {"done", "drain"} /\ UNCHANGED faults
     \/ open' = "failed" /\ Fault
  /\ UNCHANGED <<ws, final, recv, disp, queue, tools, batches, supervision>>

OpenEndsCall ==
  /\ open = "drain"
  /\ "open" \in Drainers => drain["open"] \in {"done", "leaked"}
  /\ open' = "done"
  /\ UNCHANGED <<ws, final, recv, disp, queue, tools, batches, supervision, faults>>

-----------------------------------------------------------------------------
(* The reader.                                                               *)

(* What it does with a frame before it queues it: _observe_tool_batch.       *)
Observed(e) ==
  IF e.kind = "completed"
    THEN [tools EXCEPT !.completed = @ \cup {e.of}]
    ELSE [tools EXCEPT !.seen = @ \cup {e.of},
                       !.order = IF \E u \in tools.seen : ResponseOf[u] = ResponseOf[e.of]
                                   THEN @ ELSE Append(@, ResponseOf[e.of])]

(* Seeded faults, here and below: each takes the place of the definition     *)
(* under it to show which property notices.                                  *)
QueuedPastLimit(e) ==                  \* off by one
  \/ Len(queue) <= QueueMax /\ queue' = Append(queue, e) /\ UNCHANGED recv
  \/ Len(queue) > QueueMax /\ recv' = "failed" /\ UNCHANGED queue

(* put_nowait: an overflow ends the reader.                                  *)
Queued(e) ==
  \/ Len(queue) < QueueMax /\ queue' = Append(queue, e) /\ UNCHANGED recv
  \/ Len(queue) = QueueMax /\ recv' = "failed" /\ UNCHANGED queue

Reading == recv = "read" /\ ws.open /\ ws.far = "up"

ReadEvent ==
  /\ Reading
  /\ \E e \in {Event("completed", r) : r \in Responses \ tools.completed}
              \cup {Event("tool", t) : t \in {u \in Tools \ tools.seen :
                                              ResponseOf[u] \notin tools.completed}} :
       /\ tools' = Observed(e)
       /\ Queued(e)
  /\ UNCHANGED <<ws, final, open, disp, batches, supervision, faults>>

(* The echo of session.update wakes verify_initial_session.                  *)
ReadUpdated ==
  /\ Reading
  /\ open = "verify"
  /\ open' = "work"
  /\ UNCHANGED <<ws, final, recv, disp, queue, tools, batches, supervision, faults>>

(* session.closed: the final usage is stored before the event is queued.     *)
ReadClosed ==
  /\ Reading
  /\ ~final
  /\ \/ final' = TRUE /\ Queued(Event("closed", Nobody)) /\ UNCHANGED faults
     \/ Fault /\ recv' = "failed" /\ UNCHANGED <<final, queue>>
  /\ UNCHANGED <<ws, open, disp, tools, batches, supervision>>

ReaderFails ==
  /\ Reading
  /\ Fault
  /\ recv' = "failed"
  /\ UNCHANGED <<ws, final, open, disp, queue, tools, batches, supervision>>

FarEndCloses ==
  /\ ws.open
  /\ ws.far = "up"
  /\ ws' = [ws EXCEPT !.far = "eof"]
  /\ UNCHANGED <<final, open, recv, disp, queue, tools, batches, supervision, faults>>

(* A clean close ends the loop; the marker waits for room in the queue.      *)
ReaderStops ==
  /\ \/ /\ recv = "read"
        /\ ~ws.open \/ ws.far = "eof"
        /\ recv' = "marker"
        /\ UNCHANGED queue
     \/ /\ recv = "marker"
        /\ Len(queue) < QueueMax
        /\ queue' = Append(queue, CloseMarker)
        /\ recv' = "done"
  /\ UNCHANGED <<ws, final, open, disp, tools, batches, supervision, faults>>

-----------------------------------------------------------------------------
(* The dispatcher.                                                           *)

EventDone == [pc |-> IF stop THEN "done" ELSE "get", tool |-> Nobody]

(* Takes an event to its handler.  A tool call is answered by the handler or *)
(* left to another task; session.closed starts a termination.                *)
Dispatch ==
  LET e == Head(queue) IN
  /\ disp.pc = "get"
  /\ queue # <<>>
  /\ queue' = Tail(queue)
  /\ \/ /\ e = CloseMarker
        /\ disp' = [disp EXCEPT !.pc = "done"]
        /\ UNCHANGED <<results, spawned, faults>>
     \/ /\ e.kind = "completed"
        /\ disp' = [disp EXCEPT !.pc = "continue"]
        /\ UNCHANGED <<results, spawned, faults>>
     \/ /\ e.kind = "tool"
        /\ results' = [results EXCEPT ![e.of] = IF e.of \in Inline THEN "waiting" ELSE "due"]
        /\ disp' = [pc |-> "continue", tool |-> IF e.of \in Inline THEN e.of ELSE Nobody]
        /\ UNCHANGED <<spawned, faults>>
     \/ /\ e.kind = "closed"
        /\ spawned' = spawned \cup {"event"}
        /\ disp' = EventDone
        /\ UNCHANGED <<results, faults>>
     \/ /\ e # CloseMarker
        /\ Fault                       \* the handler raises
        /\ disp' = [disp EXCEPT !.pc = "failed"]
        /\ UNCHANGED <<results, spawned>>
  /\ UNCHANGED <<ws, closing, stop, final, registered, run, open, recv, tools, emitted,
                 continued, creates, lock, drain>>

-----------------------------------------------------------------------------
(* _continue_ready_batches_locked, by the dispatcher or under a tool result. *)

ToolsOf(r) == {t \in tools.seen : ResponseOf[t] = r}

BatchComplete(r, sent) ==
  ToolsOf(r) # {} /\ ToolsOf(r) \subseteq sent /\ r \in tools.completed

ReadyBatch(r, sent, cont) == BatchComplete(r, sent) /\ r \notin cont /\ ~closing

(* The holder of the lock gives it up, done with its batches or raising.     *)
Leaves(h, how) ==
  /\ lock' = Unlocked
  /\ IF h = "dispatcher"
       THEN /\ disp' = IF how = "failed" THEN [disp EXCEPT !.pc = "failed"] ELSE EventDone
            /\ UNCHANGED results
       ELSE /\ results' = [results EXCEPT ![h] = how]
            /\ UNCHANGED disp

(* It goes on from the i-th response to the next one that is ready, with the *)
(* results sent and the responses continued as this step leaves them.        *)
ContinuesFrom(h, i, size, sent, cont) ==
  LET ready == {j \in i..size : ReadyBatch(tools.order[j], sent, cont)} IN
  /\ emitted' = sent
  /\ continued' = cont
  /\ IF ready = {}
       THEN Leaves(h, "sent")
       ELSE /\ lock' = [by |-> h, at |-> "write", size |-> size,
                        next |-> CHOOSE j \in ready : \A k \in ready : j <= k]
            /\ IF h = "dispatcher"
                 THEN disp' = [disp EXCEPT !.pc = "write"] /\ UNCHANGED results
                 ELSE results' = [results EXCEPT ![h] = "locked"] /\ UNCHANGED disp

(* After its handler, whose own result has been sent or has failed.          *)
ContinueReadyBatches ==
  /\ disp.pc = "continue"
  /\ disp.tool # Nobody => results[disp.tool] \in {"sent", "failed"}
  /\ lock.by = Nobody
  /\ ContinuesFrom("dispatcher", 1, Len(tools.order), emitted, continued)
  /\ UNCHANGED <<ws, final, open, recv, queue, tools, creates, supervision, faults>>

Created(r) == [creates EXCEPT ![r] = IF @ = 2 THEN 2 ELSE @ + 1]

(* response.create.  The dictionary must not have grown while it was being   *)
(* written: the iteration raises if it has.                                  *)
WriteContinuation ==
  LET r == tools.order[lock.next] IN
  /\ lock.at = "write"
  /\ \/ /\ Writable
        /\ creates' = Created(r)
        /\ IF Len(tools.order) = lock.size
             THEN ContinuesFrom(lock.by, lock.next + 1, lock.size, emitted, continued \cup {r})
             ELSE /\ Leaves(lock.by, "failed")
                  /\ continued' = continued \cup {r}
                  /\ UNCHANGED emitted
        /\ UNCHANGED faults
     \/ /\ Unsent
        /\ creates' \in {creates} \cup (IF Writable THEN {Created(r)} ELSE {})
        /\ Leaves(lock.by, "failed")
        /\ UNCHANGED <<emitted, continued>>
  /\ UNCHANGED <<ws, final, open, recv, queue, tools, supervision>>

-----------------------------------------------------------------------------
(* send_tool_result.                                                         *)

(* The task that owes a result starts on it, or a retry of the agent's does. *)
StartResult(t) ==
  /\ \/ results[t] = "due"
     \/ results[t] = "failed" /\ t \notin Inline
  /\ registered
  /\ results' = [results EXCEPT ![t] = "waiting"]
  /\ UNCHANGED <<ws, final, open, recv, disp, queue, tools, emitted, continued, creates, lock,
                 supervision, faults>>

(* A result that is out already only has its batch looked at again.          *)
TakeToolLock(t) ==
  /\ results[t] = "waiting"
  /\ lock.by = Nobody
  /\ IF t \in emitted
       THEN ContinuesFrom(t, 1, Len(tools.order), emitted, continued)
       ELSE /\ results' = [results EXCEPT ![t] = "locked"]
            /\ lock' = [Unlocked EXCEPT !.by = t, !.at = "emit"]
            /\ UNCHANGED <<disp, emitted, continued>>
  /\ UNCHANGED <<ws, final, open, recv, queue, tools, creates, supervision, faults>>

EmitsAndLeaves(t, cont) ==             \* the last result does not continue its batch
  emitted' = emitted \cup {t} /\ continued' = cont /\ Leaves(t, "sent")

EmitsAndGoesOn(t, cont) ==
  ContinuesFrom(t, 1, Len(tools.order), emitted \cup {t}, cont)

(* The output; the accepted end of the call is not to be continued.          *)
EmitResult ==
  LET t == lock.by IN
  /\ lock.at = "emit"
  /\ \/ /\ Writable
        /\ \/ EmitsAndGoesOn(t, continued)
           \/ t \in Inline /\ EmitsAndGoesOn(t, continued \cup {ResponseOf[t]})
        /\ UNCHANGED faults
     \/ /\ Unsent
        /\ UNCHANGED <<emitted, continued>>
        /\ Leaves(t, "failed")
  /\ UNCHANGED <<ws, final, open, recv, queue, tools, creates, supervision>>

-----------------------------------------------------------------------------
(* drain_and_close, for the call's open handler and for any other task.      *)

AfterCloseJoins(d, failed) ==          \* a child of the supervisor waits for it
  drain' = [drain EXCEPT ![d] = "join"] /\ UNCHANGED stop

AfterCloseGoesOn(d, failed) ==         \* nobody stops the supervisor after a failed close
  /\ drain' = [drain EXCEPT ![d] = IF d = "open" THEN "done" ELSE "join"]
  /\ UNCHANGED stop

AfterClose(d, failed) ==
  IF d = "open"
    THEN stop' = (stop \/ failed) /\ drain' = [drain EXCEPT ![d] = "done"]
    ELSE drain' = [drain EXCEPT ![d] = "join"] /\ UNCHANGED stop

(* session.close, and its confirmation or no time left for it.               *)
StartDrain(d) ==
  /\ drain[d] = "off"
  /\ d = "open" => open = "drain"
  /\ \/ /\ ~registered
        /\ drain' = [drain EXCEPT ![d] = "done"]
        /\ UNCHANGED <<closing, faults>>
     \/ /\ registered
        /\ closing' = TRUE
        /\ \/ Writable /\ ~final /\ drain' = [drain EXCEPT ![d] = "final"] /\ UNCHANGED faults
           \/ final /\ drain' = [drain EXCEPT ![d] = "wsclose"] /\ UNCHANGED faults
           \/ ~final /\ Unsent /\ drain' = [drain EXCEPT ![d] = "wsclose"]
  /\ UNCHANGED <<ws, stop, final, registered, run, open, recv, disp, queue, tools, batches,
                 spawned>>

AwaitFinal(d) ==
  /\ drain[d] = "final"
  /\ drain' = [drain EXCEPT ![d] = "wsclose"]
  /\ UNCHANGED <<ws, closing, stop, final, registered, run, open, recv, disp, queue, tools,
                 batches, spawned, faults>>

CloseSocket(d) ==
  /\ drain[d] = "wsclose"
  /\ \/ ws' = [ws EXCEPT !.open = FALSE] /\ AfterClose(d, FALSE) /\ UNCHANGED faults
     \/ ws.open /\ Fault /\ AfterClose(d, TRUE) /\ UNCHANGED ws
  /\ UNCHANGED <<closing, final, registered, run, open, recv, disp, queue, tools, batches,
                 spawned>>

(* Another task waits for the supervisor, cancels it, waits again, gives up. *)
JoinRun(d) ==
  /\ drain[d] \in {"join", "joinCancelled"}
  /\ \/ /\ run.pc = "done"
        /\ registered' = FALSE
        /\ drain' = [drain EXCEPT ![d] = "done"]
        /\ UNCHANGED run
     \/ /\ run.pc # "done"
        /\ drain' = [drain EXCEPT ![d] = IF @ = "join" THEN "joinCancelled" ELSE "leaked"]
        /\ run' = [run EXCEPT !.cancel = TRUE]
        /\ UNCHANGED registered
  /\ UNCHANGED <<ws, closing, stop, final, open, recv, disp, queue, tools, batches, spawned,
                 faults>>

-----------------------------------------------------------------------------
Run      == \/ RunConnects \/ ConnectFails \/ RunWaits \/ RunSupervises \/ RunCancelled
            \/ CancelOpen \/ CancelReader \/ CancelDispatcher \/ RunEnds
Opening  == OpenUnverified \/ OpenWorks \/ OpenEndsCall
Provider == ReadEvent \/ ReadUpdated \/ ReadClosed \/ ReaderFails \/ FarEndCloses
Dispatcher == Dispatch \/ ContinueReadyBatches
Loop     == WriteContinuation \/ EmitResult
Draining(d) == StartDrain(d) \/ AwaitFinal(d) \/ CloseSocket(d) \/ JoinRun(d)

Next == \/ Run \/ Opening \/ ReaderStops \/ Provider \/ Dispatcher \/ Loop
        \/ \E t \in Tools : StartResult(t) \/ TakeToolLock(t)
        \/ \E d \in Drainers : Draining(d)

Spec == Init /\ [][Next]_vars

(* Every task of the sideband goes on, and what it waits for is bounded by   *)
(* the timeouts of the code; the provider and the callee owe nothing.  A     *)
(* termination that has been started runs.                                   *)
Fairness ==
  /\ WF_vars(Run) /\ WF_vars(Opening) /\ WF_vars(ReaderStops)
  /\ WF_vars(Dispatcher) /\ WF_vars(Loop)
  /\ \A t \in Tools : WF_vars(TakeToolLock(t))
  /\ \A d \in Drainers : WF_vars((d = "other" => drain[d] # "off" \/ spawned # {}) /\ Draining(d))

FairSpec == Spec /\ Fairness

-----------------------------------------------------------------------------
(* Every response whose calls are all answered is continued, and once.       *)
(* It is continued only when it is complete and all its calls are answered;  *)
(* a second response.create needs a failed write, whose event may have got   *)
(* out all the same.  While the sideband works and no write has failed, a    *)
(* batch that is ready is still looked at by somebody: by the dispatcher on  *)
(* its event or on a later one, or by a result on its way.  The last of the  *)
(* two, the end of the response or the last of its answers, finds the batch  *)
(* whatever the order they come in.                                          *)
Continued(r) ==
  /\ creates[r] > 0 => BatchComplete(r, emitted)
  /\ creates[r] > 1 => faults < MaxFaults

Watched(r) ==
  (/\ ReadyBatch(r, emitted, continued)
   /\ run.pc \in {"wait", "supervise"} /\ ~Finished(disp.pc) /\ ~Finished(recv)
   /\ Writable /\ faults = MaxFaults) =>
    \/ \E i \in DOMAIN queue : queue[i].kind \in {"tool", "completed"}
    \/ disp.pc \in {"continue", "write"}
    \/ \E t \in Tools : results[t] \in {"due", "waiting", "locked"}

BatchContinued == \A r \in Responses : Continued(r) /\ Watched(r)

(* The sideband of a call that goes on never ends unnoticed: a termination   *)
(* has been started, or the provider closed the socket in good order, of     *)
(* which nothing here is told (the carrier's frames still count as activity, *)
(* so that the watchdog takes the call only when they stop, too).  And the   *)
(* task that ends the call from within never waits for the supervisor that   *)
(* waits for it.                                                             *)
EndsNoticed ==
  /\ run.pc = "done" /\ ~closing => "fatal" \in spawned \/ ws.far = "eof"
  /\ "open" \in Drainers => drain["open"] \notin {"join", "joinCancelled", "leaked"}

(* Once a task has begun to close the sideband, its supervisor ends.         *)
CloseFinishes == closing ~> run.pc = "done"
=============================================================================
