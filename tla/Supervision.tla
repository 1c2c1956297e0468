---------------------------- MODULE Supervision ----------------------------
(***************************************************************************)
(* What decides, without anybody asking, that an active call is over: the  *)
(* watchdog over the call's activity (app/call_activity.py and             *)
(* CallService._watchdog_once), the hold and the quiet after a tone that   *)
(* it puts up with, and the reply window after a farewell, which listens   *)
(* to the carrier's audio (app/call_audio.py).                             *)
(*                                                                         *)
(* Time is kept as what a clock comparison tells: a mark is fresh or older *)
(* than the stale limit; a hold is within its budget or over it; the       *)
(* assistant has been quiet for less or more than the reply window.        *)
(***************************************************************************)
EXTENDS Naturals

CONSTANTS Windows,     \* reply windows, one per accepted farewell, used again
          MaxFaults    \* failing statements and requests, at most

ASSUME SupervisionAssumption == MaxFaults \in Nat /\ "none" \notin Windows

VARIABLES
  row,       \* the lifecycle of the call's row, and its last_event_at
  activity,  \* CallActivityTracker: latest, dirty, the watchdog's claim, the tombstone
  tool,      \* the call is in inflight_tools
  grace,     \* it is within dtmf_listen_deadlines_ns
  hold,      \* _hold_state
  responding, \* the call is in active_response_ids
  pass,      \* the watchdog's pass: where it is, what it flushes, what it read
  stream,    \* CallAudio: connected, the outbound track, callee_speaking
  farewell,  \* the assistant has said goodbye since the callee last spoke
  token,     \* _voice_end_reply_waits: the window that may end the call, or none
  window,    \* the tasks of the windows
  faults

vars == <<row, activity, tool, grace, hold, responding, pass, stream, farewell, token, window, faults>>

-----------------------------------------------------------------------------
None  == "none"
Marks == {"fresh", "stale"}
Newest(m, n) == IF "fresh" \in {m, n} THEN "fresh" ELSE "stale"

TypeOK ==
  /\ row \in [state : {"active", "claimed", "ended"}, reason : {None, "stale", "hold", "voice", "other"},
              last : Marks]
  /\ activity \in [latest : Marks \cup {None}, dirty : Marks \cup {None},
                   claimed : BOOLEAN, tomb : BOOLEAN]
  /\ activity.dirty # None => activity.latest # None
  /\ tool \in BOOLEAN /\ grace \in BOOLEAN /\ responding \in BOOLEAN
  /\ farewell \in BOOLEAN
  /\ hold \in {"no", "entering", "held", "over"}
  /\ pass \in [pc : {"sleep", "flush", "list", "reread", "recheck", "stale", "hold", "wait"},
               flush : Marks \cup {None}, state : {None, "active", "claimed", "ended"},
               last : Marks]
  /\ stream \in [connected : BOOLEAN, out : {None, "speaking", "lost", "quiet", "drained"},
                 callee : BOOLEAN]
  /\ token \in Windows \cup {None}
  /\ window \in [Windows -> {"off", "poll", "read", "claim"}]
  /\ faults \in 0..MaxFaults

Asleep == [pc |-> "sleep", flush |-> None, state |-> None, last |-> "stale"]

Init ==
  /\ row = [state |-> "active", reason |-> None, last |-> "fresh"]
  /\ activity = [latest |-> "fresh", dirty |-> "fresh", claimed |-> FALSE, tomb |-> FALSE]
  /\ tool = FALSE /\ grace = FALSE /\ hold = "no" /\ responding = FALSE
  /\ pass = Asleep
  /\ stream = [connected |-> TRUE, out |-> None, callee |-> FALSE]
  /\ farewell = FALSE /\ token = None
  /\ window = [w \in Windows |-> "off"]
  /\ faults = MaxFaults

Fault == faults > 0 /\ faults' = faults - 1

voiceEnd == <<farewell, token, window>>
carveOut == <<tool, grace, hold, responding>>

-----------------------------------------------------------------------------
(* CallActivityTracker.                                                      *)

(* Seeded faults, here and below: each takes the place of the definition     *)
(* under it to show which property notices.                                  *)
RefusedIfClaimed == activity.claimed   \* a late frame revives an ended call

Refused == activity.claimed \/ activity.tomb

Noted == IF Refused THEN activity
                    ELSE [activity EXCEPT !.latest = "fresh", !.dirty = "fresh"]

Note == activity' = Noted

(* sip_output_playing is set and cleared with the track's own flag.          *)
Playing == stream.out \in {"speaking", "lost"}

AssistantWorkIsLive == responding \/ Playing \/ token # None \/ tool

(* Everything the call has in memory goes, the closing included.             *)
Tombstone ==
  /\ activity' = [latest |-> None, dirty |-> None, claimed |-> FALSE, tomb |-> TRUE]
  /\ tool' = FALSE /\ grace' = FALSE /\ hold' = "no" /\ responding' = FALSE
  /\ token' = None

RestoresAlways(a, failed) == [a EXCEPT !.dirty = failed]   \* of a dead call, too

(* A failed flush puts back the newest mark of a call that still has one.    *)
Restores(a, failed) ==
  IF a.latest = None THEN a ELSE [a EXCEPT !.dirty = Newest(a.latest, failed)]

-----------------------------------------------------------------------------
(* The line: what the provider and the carrier send.                         *)

(* A frame of the sideband; a webhook, which also touches the row.           *)
Frame ==
  /\ Note
  /\ \/ UNCHANGED row
     \/ row.state = "active" /\ ~Refused /\ row' = [row EXCEPT !.last = "fresh"]
  /\ UNCHANGED <<carveOut, pass, stream, voiceEnd, faults>>

(* A response opens and ends with a frame each; nothing else ends it but the *)
(* tombstone, and no frame is refused because of the row or of a claim.      *)
ResponseCreated ==
  /\ Note
  /\ ~responding
  /\ responding' = TRUE
  /\ UNCHANGED <<row, tool, grace, hold, pass, stream, voiceEnd, faults>>

ResponseEnds ==
  /\ Note
  /\ responding
  /\ responding' = FALSE
  /\ UNCHANGED <<row, tool, grace, hold, pass, stream, voiceEnd, faults>>

(* Frames of the two tracks, unless the call is claimed or gone.             *)
Carrier == Note /\ stream.connected /\ ~Refused

CancelVoiceEnd == token' = None

CalleeSpeaks ==
  /\ Carrier
  /\ ~stream.callee
  /\ stream' = [stream EXCEPT !.callee = TRUE]
  /\ farewell' = FALSE
  /\ CancelVoiceEnd
  /\ UNCHANGED <<row, carveOut, pass, window, faults>>

CalleeStops ==
  /\ Carrier
  /\ stream.callee
  /\ stream' = [stream EXCEPT !.callee = FALSE]
  /\ UNCHANGED <<row, carveOut, pass, voiceEnd, faults>>

(* AudioTrack.observe, outbound: speech starts, a burst too short for speech *)
(* moves the last voice, silence ends speech and lasts for the reply window, *)
(* a gap leaves the silence unknown until something is heard again.          *)
OutboundAudio ==
  /\ Carrier
  /\ stream' \in {[stream EXCEPT !.out = o] : o \in
       CASE stream.out = None       -> {"speaking", "quiet"}
         [] stream.out = "speaking" -> {"quiet", "lost"}
         [] stream.out = "lost"     -> {"speaking"}
         [] stream.out = "quiet"    -> {"speaking", "drained", None}
         [] stream.out = "drained"  -> {"speaking", "quiet", None}}
  /\ UNCHANGED <<row, carveOut, pass, voiceEnd, faults>>

SaysFarewell ==
  /\ Note
  /\ ~Refused
  /\ ~farewell
  /\ farewell' = TRUE
  /\ UNCHANGED <<row, carveOut, pass, stream, token, window, faults>>

(* Of a closed stream only the playback that it never saw end is left.       *)
MediaMonitorClosed ==
  /\ stream.connected
  /\ stream' = [connected |-> FALSE, out |-> IF Playing THEN "lost" ELSE None, callee |-> FALSE]
  /\ CancelVoiceEnd
  /\ UNCHANGED <<row, activity, carveOut, pass, farewell, window, faults>>

(* The stale limit passes with nothing new.  The steps of a pass between its *)
(* clock reading and its claim are short against it.  The mark of a row that *)
(* has been claimed is not followed: nobody compares it any more.            *)
Ages(m) == IF m = "fresh" THEN "stale" ELSE m

Elapse ==
  /\ pass.pc \notin {"list", "reread", "recheck"}
  /\ \/ row.state = "active" /\ row.last = "fresh"
     \/ "fresh" \in {activity.latest, activity.dirty, pass.flush}
  /\ row' = [row EXCEPT !.last = IF row.state = "active" THEN Ages(@) ELSE @]
  /\ activity' = [activity EXCEPT !.latest = Ages(@), !.dirty = Ages(@)]
  /\ pass' = [pass EXCEPT !.flush = Ages(@)]
  /\ UNCHANGED <<carveOut, stream, voiceEnd, faults>>

-----------------------------------------------------------------------------
(* Tones and hold.                                                           *)

StartTool ==
  /\ Note
  /\ row.state = "active" /\ ~tool
  /\ tool' = TRUE
  /\ UNCHANGED <<row, grace, hold, responding, pass, stream, voiceEnd, faults>>

(* The tone is out, or was refused: a quiet line is expected after it.       *)
ToolEnds ==
  /\ tool
  /\ tool' = FALSE
  /\ Note
  /\ grace' \in {grace} \cup (IF Refused THEN {} ELSE {TRUE})
  /\ UNCHANGED <<row, hold, responding, pass, stream, voiceEnd, faults>>

GraceExpires ==
  /\ grace
  /\ grace' = FALSE
  /\ UNCHANGED <<row, activity, tool, hold, responding, pass, stream, voiceEnd, faults>>

EnterHold ==
  /\ Note
  /\ row.state = "active" /\ hold = "no"
  /\ hold' = "entering"
  /\ UNCHANGED <<row, tool, grace, responding, pass, stream, voiceEnd, faults>>

(* suspend_conversation has returned, or failed.                             *)
HoldSuspended ==
  /\ hold = "entering"
  /\ \/ hold' = "held" /\ Note /\ UNCHANGED faults
     \/ Fault /\ hold' = "no" /\ UNCHANGED activity
  /\ UNCHANGED <<row, tool, grace, responding, pass, stream, voiceEnd>>

HoldElapses ==
  /\ hold = "held"
  /\ hold' = "over"
  /\ UNCHANGED <<row, activity, tool, grace, responding, pass, stream, voiceEnd, faults>>

(* The backend reports a return, which is activity itself; whether or not    *)
(* enable_conversation then works, the hold is over.                         *)
ExitHold ==
  /\ Note
  /\ hold \in {"held", "over"}
  /\ hold' = "no"
  /\ UNCHANGED <<row, tool, grace, responding, pass, stream, voiceEnd, faults>>

-----------------------------------------------------------------------------
(* Claims.  The claim is one statement; what follows it tears the call down. *)

Claims(reason) == row' = [state |-> "claimed", reason |-> reason, last |-> "fresh"]

(* Hang-ups, webhooks, the time limit, shutdown.                             *)
EndsOtherwise ==
  /\ row.state = "active"
  /\ Claims("other")
  /\ UNCHANGED <<activity, carveOut, pass, stream, voiceEnd, faults>>

(* _finish_claimed_termination: the call stops looking live at once; later   *)
(* its media and its runtime state are gone.                                 *)
FinishTermination ==
  /\ row.state = "claimed"
  /\ \/ ~activity.tomb /\ Tombstone /\ UNCHANGED <<row, stream, farewell>>
     \/ /\ activity.tomb
        /\ Tombstone
        /\ row' = [row EXCEPT !.state = "ended"]
        /\ stream' = [connected |-> FALSE, out |-> None, callee |-> FALSE]
        /\ farewell' = FALSE
  /\ UNCHANGED <<pass, window, faults>>

-----------------------------------------------------------------------------
(* The watchdog.                                                             *)

Sleeps == pass' = Asleep

PassKillsLoop == Fault /\ pass' = [Asleep EXCEPT !.pc = "dead"]   \* unhandled

(* A statement of the pass raises: the loop backs off and starts again.      *)
PassFails == Fault /\ Sleeps

(* A pass begins: dirty marks are taken out to be written.                   *)
BeginPass ==
  /\ pass.pc = "sleep"
  /\ pass' = [pass EXCEPT !.flush = activity.dirty,
                          !.pc = IF activity.dirty = None THEN "list" ELSE "flush"]
  /\ activity' = [activity EXCEPT !.dirty = None]
  /\ UNCHANGED <<row, carveOut, stream, voiceEnd, faults>>

Touched == [row EXCEPT !.last = IF row.state = "ended" THEN @ ELSE Newest(@, pass.flush)]

(* touch_calls; it may raise although it has committed.                      *)
Flush ==
  /\ pass.pc = "flush"
  /\ pass' = [pass EXCEPT !.pc = "list", !.flush = None]
  /\ \/ row' = Touched /\ UNCHANGED <<activity, faults>>
     \/ Fault /\ row' \in {row, Touched} /\ activity' = Restores(activity, pass.flush)
  /\ UNCHANGED <<carveOut, stream, voiceEnd>>

(* It claims the call in memory, and then asks the database.                 *)
WatchdogClaims(as) ==
  /\ activity' = [activity EXCEPT !.claimed = TRUE]
  /\ pass' = [pass EXCEPT !.pc = as]

Unstirred == activity.latest # "fresh"

(* The durable mark, the assistant's work and the mark in memory, in turn;   *)
(* work that is live counts as activity.                                     *)
StaleOr(last, next) ==
  \/ last = "fresh" /\ Sleeps /\ UNCHANGED activity
  \/ last = "stale" /\ AssistantWorkIsLive /\ Note /\ Sleeps
  \/ last = "stale" /\ ~AssistantWorkIsLive /\ ~Unstirred /\ Sleeps /\ UNCHANGED activity
  \/ last = "stale" /\ ~AssistantWorkIsLive /\ Unstirred /\ next

(* The calls that are not over, read and looked at; what changes in between  *)
(* is found by the second reading.                                           *)
CheckCall ==
  /\ pass.pc = "list"
  /\ \/ row.state = "claimed" /\ Tombstone /\ Sleeps /\ UNCHANGED faults
     \/ row.state = "ended" /\ Sleeps /\ UNCHANGED <<activity, carveOut, token, faults>>
     \/ /\ row.state = "active"
        /\ \/ hold = "over" /\ WatchdogClaims("hold")
           \/ hold \in {"entering", "held"} /\ Sleeps /\ UNCHANGED activity
           \/ hold = "no" /\ grace /\ Sleeps /\ UNCHANGED activity
           \/ /\ hold = "no" /\ ~grace
              /\ StaleOr(row.last, pass' = [pass EXCEPT !.pc = "reread"] /\ UNCHANGED activity)
        /\ UNCHANGED <<carveOut, token, faults>>
     \/ PassFails /\ UNCHANGED <<activity, carveOut, token>>
  /\ UNCHANGED <<row, stream, farewell, window>>

GetCall ==
  /\ pass.pc = "reread"
  /\ \/ /\ pass' = [pass EXCEPT !.pc = "recheck", !.state = row.state, !.last = row.last]
        /\ UNCHANGED faults
     \/ PassFails
  /\ UNCHANGED <<row, activity, carveOut, stream, voiceEnd>>

RecheckRowOnly ==                      \* forgets what was noted while it read
  \/ pass.last = "fresh" /\ Sleeps /\ UNCHANGED activity
  \/ pass.last = "stale" /\ WatchdogClaims("stale")

RecheckStale == StaleOr(pass.last, WatchdogClaims("stale"))

RecheckCall ==
  /\ pass.pc = "recheck"
  /\ \/ pass.state # "active" /\ Tombstone /\ Sleeps
     \/ pass.state = "active" /\ RecheckStale /\ UNCHANGED <<carveOut, token>>
  /\ UNCHANGED <<row, stream, farewell, window, faults>>

(* terminate_call for the watchdog.  A claim that is lost is taken back.     *)
WatchdogTerminates ==
  /\ pass.pc \in {"stale", "hold"}
  /\ \/ /\ row.state = "active"
        /\ Claims(pass.pc)
        /\ pass' = [pass EXCEPT !.pc = "wait"]
        /\ UNCHANGED <<activity, carveOut, token, faults>>
     \/ /\ row.state # "active"
        /\ Tombstone
        /\ Sleeps
        /\ UNCHANGED <<row, faults>>
     \/ /\ PassFails
        /\ activity' = [activity EXCEPT !.claimed = FALSE]
        /\ UNCHANGED <<row, carveOut, token>>
  /\ UNCHANGED <<stream, farewell, window>>

WatchdogWaits ==
  /\ pass.pc = "wait"
  /\ row.state = "ended"
  /\ Sleeps
  /\ UNCHANGED <<row, activity, carveOut, stream, voiceEnd, faults>>

-----------------------------------------------------------------------------
(* finish_call_after_goodbye and its reply window.                           *)

(* Accepted once the farewell has been said, heard on the line and not       *)
(* answered, with no hold and no tool at work.                               *)
AcceptEnd(w) ==
  /\ Note
  /\ farewell /\ ~stream.callee
  /\ stream.connected /\ stream.out \in {"speaking", "quiet", "drained"}
  /\ hold = "no" /\ ~tool
  /\ window[w] = "off"
  /\ token' = w
  /\ window' = [window EXCEPT ![w] = "poll"]
  /\ UNCHANGED <<row, carveOut, pass, stream, farewell, faults>>

Closes(w) == window' = [window EXCEPT ![w] = "off"]

WindowPolls(w) ==
  /\ window[w] = "poll"
  /\ \/ /\ token # w \/ ~stream.connected
        /\ Closes(w)
     \/ /\ token = w
        /\ stream.connected /\ stream.out = "drained" /\ ~stream.callee /\ ~tool
        /\ window' = [window EXCEPT ![w] = "read"]
  /\ UNCHANGED <<row, activity, carveOut, pass, stream, farewell, token, faults>>

WindowReads(w) ==
  /\ window[w] = "read"
  /\ \/ window' = [window EXCEPT ![w] = "claim"] /\ UNCHANGED faults
     \/ Fault /\ Closes(w)
  /\ UNCHANGED <<row, activity, carveOut, pass, stream, farewell, token>>

(* claim_if_still_quiet, evaluated in the transaction.                       *)
StillQuiet(w) == token = w /\ stream.connected /\ stream.out = "drained" /\ ~stream.callee

(* A claim that is refused, by the guard (frames are late, say) or by the    *)
(* row, leaves the closing to whoever it belongs to.  The guard takes it, so *)
(* that it is gone when only the commit fails after that.                    *)
WindowClaims(w) ==
  /\ window[w] = "claim"
  /\ Closes(w)
  /\ \/ /\ row.state = "active" /\ StillQuiet(w)
        /\ Claims("voice")
        /\ token' = None
        /\ UNCHANGED <<activity, carveOut, faults>>
     \/ /\ row.state = "active"
        /\ UNCHANGED <<row, token, activity, carveOut, faults>>
     \/ /\ row.state # "active"
        /\ Tombstone
        /\ UNCHANGED <<row, faults>>
     \/ /\ Fault
        /\ \/ UNCHANGED token
           \/ row.state = "active" /\ StillQuiet(w) /\ token' = None
        /\ UNCHANGED <<row, activity, carveOut>>
  /\ UNCHANGED <<pass, stream, farewell>>

-----------------------------------------------------------------------------
Line     == \/ Frame \/ ResponseCreated \/ ResponseEnds
            \/ CalleeSpeaks \/ CalleeStops \/ OutboundAudio \/ SaysFarewell
            \/ StartTool \/ EnterHold \/ ExitHold
            \/ \E w \in Windows : AcceptEnd(w)
Endings  == ToolEnds \/ GraceExpires \/ HoldSuspended \/ HoldElapses
Watchdog == \/ BeginPass \/ Flush \/ CheckCall \/ GetCall \/ RecheckCall
            \/ WatchdogTerminates \/ WatchdogWaits
Window(w) == WindowPolls(w) \/ WindowReads(w) \/ WindowClaims(w)

Next == \/ Line \/ MediaMonitorClosed \/ Endings \/ Watchdog \/ Elapse
        \/ EndsOtherwise \/ FinishTermination
        \/ \E w \in Windows : Window(w)

Spec == Init /\ [][Next]_vars

(* The watchdog's loop goes on, tools and holds end, time passes; the        *)
(* provider, the carrier and the callee owe nothing, and nothing is needed   *)
(* of the other tasks.  The endings share one condition: on a silent line    *)
(* there are finitely many of them.  Time is held up by every pass, so it    *)
(* needs the stronger fairness.                                              *)
Fairness ==
  /\ WF_vars(Watchdog)
  /\ WF_vars(Endings)
  /\ SF_vars(Elapse)

FairSpec == Spec /\ Fairness

-----------------------------------------------------------------------------
(* No call is ended by a decision that something heard, begun or said in the *)
(* meantime has overtaken.  The watchdog claims a call only if at that       *)
(* instant its hold is over, or nothing was heard within the stale limit and *)
(* no response, playback, tool, tone, hold or closing accounts for the       *)
(* silence.  The voice ends it only with a farewell that the callee has not  *)
(* answered, the reply window over, on a connected stream.                   *)
EndsForCause ==
  [][ /\ activity'.claimed /\ ~activity.claimed /\ row.state = "active" =>
           \/ hold = "over"
           \/ /\ activity.latest # "fresh" /\ row.last = "stale"
              /\ ~AssistantWorkIsLive /\ hold = "no" /\ ~grace
      /\ row'.reason = "voice" /\ row.reason = None =>
           /\ farewell /\ token # None /\ ~stream.callee
           /\ stream.connected /\ stream.out = "drained" ]_vars

(* What is in memory about a call that has been taken down stays gone:       *)
(* neither a late flush nor a late frame brings its activity back.           *)
DeadCallStaysDead == row.state = "ended" => activity.latest = None /\ activity.dirty = None

(* A call whose line is dead, for nothing arrives any more from the provider *)
(* or the carrier, is ended, once nothing the assistant does accounts for    *)
(* the silence.  What may account for it for good is playback that never     *)
(* stops, a closing that is never finished, and a response that was open     *)
(* when the line died, for only a frame of the line would end it: each keeps *)
(* the call from the watchdog, and only the carrier's time limit ends it.    *)
DeadLineReaped ==
  /\ <>[][~Line]_vars
  /\ <>[](~Playing /\ token = None /\ ~responding)
  => <>(row.state # "active")
=============================================================================
