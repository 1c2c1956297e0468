------------------------- MODULE SupervisionProofs -------------------------
(***************************************************************************)
(* No decision to end a call is overtaken, and a call that was taken down  *)
(* stays down, for every number of reply windows and faults.               *)
(***************************************************************************)
EXTENDS Supervision, TLAPS

-----------------------------------------------------------------------------
(* The inductive invariant.                                                  *)

(* The claim in memory lasts from the decision to the end of the termination *)
(* it asks for; the tombstone is only for a call that somebody has claimed.  *)
ClaimInStep ==
  /\ activity.claimed => pass.pc \in {"stale", "hold", "wait"}
  /\ pass.pc = "wait" => row.state # "active"
  /\ pass.pc = "wait" /\ row.state = "ended" => ~activity.claimed
  /\ activity.tomb => row.state # "active"

(* What the pass decided on either still holds or has been noted.            *)
PassUpToDate ==
  /\ pass.pc = "recheck" /\ pass.state # "active" => row.state # "active"
  /\ pass.pc \in {"reread", "recheck"} /\ row.state = "active" =>
       activity.latest = "fresh" \/ (hold = "no" /\ ~grace)
  /\ pass.pc = "recheck" /\ row.state = "active" =>
       activity.latest = "fresh" \/ row.last = pass.last

(* A window can end the call only after a farewell that was not answered.    *)
WindowAfterFarewell == token # None => farewell

(* A call that is over has its tombstone, and a tombstone keeps no mark.     *)
TombstoneIsBare ==
  /\ row.state = "ended" => activity.tomb
  /\ activity.tomb => activity.latest = None /\ activity.dirty = None

IInv == TypeOK /\ ClaimInStep /\ PassUpToDate /\ WindowAfterFarewell /\ TombstoneIsBare

-----------------------------------------------------------------------------
(* What the helpers of the model do.                                         *)

Rows == [state : {"active", "claimed", "ended"},
         reason : {None, "stale", "hold", "voice", "other"}, last : Marks]
Activities == {a \in [latest : Marks \cup {None}, dirty : Marks \cup {None},
                      claimed : BOOLEAN, tomb : BOOLEAN] : a.dirty # None => a.latest # None}
Passes == [pc : {"sleep", "flush", "list", "reread", "recheck", "stale", "hold", "wait"},
           flush : Marks \cup {None}, state : {None, "active", "claimed", "ended"},
           last : Marks]
Streams == [connected : BOOLEAN, out : {None, "speaking", "lost", "quiet", "drained"},
            callee : BOOLEAN]

LEMMA Types ==
  ASSUME TypeOK
  PROVE  row \in Rows /\ activity \in Activities /\ pass \in Passes /\ stream \in Streams
  BY DEF TypeOK, Rows, Activities, Passes, Streams

(* What is noted makes the mark fresh, unless the call is claimed or gone.   *)
Stirs ==
  /\ activity' \in Activities
  /\ activity'.claimed = activity.claimed /\ activity'.tomb = activity.tomb
  /\ IF Refused THEN activity' = activity ELSE activity'.latest = "fresh"

LEMMA NoteStirs ==
  ASSUME TypeOK, Note
  PROVE  Stirs
<1>1. activity \in Activities
  BY Types
<1>2. CASE Refused
  BY <1>1, <1>2 DEF Note, Noted, Stirs
<1>3. CASE ~Refused
  BY <1>1, <1>3 DEF Note, Noted, Stirs, Activities, Marks, None
<1>4. QED
  BY <1>2, <1>3

(* A tombstone leaves nothing of the call in memory.                         *)
Gone ==
  /\ activity' \in Activities /\ ~activity'.claimed /\ activity'.tomb
  /\ activity'.latest = None /\ activity'.dirty = None
  /\ tool' \in BOOLEAN /\ grace' \in BOOLEAN /\ ~grace' /\ hold' = "no"
  /\ responding' \in BOOLEAN
  /\ token' = None

LEMMA TombstoneGoes ==
  ASSUME Tombstone
  PROVE  Gone
  BY DEF Tombstone, Gone, Activities, None

Rests == pass' \in Passes /\ pass'.pc = "sleep"

LEMMA SleepsRests ==
  ASSUME Sleeps
  PROVE  Rests
  BY DEF Rests, Sleeps, Asleep, Passes, None, Marks

(* The watchdog marks the call as its own and goes on to ask for its end.    *)
ClaimedAs(as) ==
  /\ activity' \in Activities /\ activity'.claimed
  /\ activity'.latest = activity.latest /\ activity'.dirty = activity.dirty
  /\ activity'.tomb = activity.tomb
  /\ pass' \in Passes /\ pass'.pc = as

LEMMA WatchdogClaimsMarks ==
  ASSUME TypeOK, NEW as \in {"stale", "hold"}, WatchdogClaims(as)
  PROVE  ClaimedAs(as)
<1>1. activity \in Activities /\ pass \in Passes
  BY Types
<1>2. QED
  BY <1>1 DEF ClaimedAs, WatchdogClaims, Activities, Passes

LEMMA ClaimsRow ==
  ASSUME TypeOK, NEW reason \in {"stale", "hold", "voice", "other"}, Claims(reason)
  PROVE  row' \in Rows /\ row'.state = "claimed" /\ row'.reason = reason
<1>1. row \in Rows
  BY Types
<1>2. QED
  BY <1>1 DEF Claims, Rows, Marks

LEMMA FaultUses ==
  ASSUME TypeOK, Fault
  PROVE  faults' \in 0..MaxFaults
  BY SupervisionAssumption DEF TypeOK, Fault

-----------------------------------------------------------------------------
(* Every step keeps the invariant.                                           *)

LEMMA FrameStep ==
  ASSUME IInv, Frame
  PROVE  IInv'
<1>1. UNCHANGED <<tool, grace, hold, responding, pass, stream, farewell, token, window,
                  faults>>
  BY DEF Frame, carveOut, voiceEnd
<1>2. Stirs
  BY NoteStirs DEF IInv, Frame
<1>3. /\ row' \in Rows /\ row'.state = row.state
      /\ row' = row \/ (row.state = "active" /\ ~Refused)
  BY Types DEF IInv, Frame, Rows, Marks
<1>4. TypeOK'
  BY <1>1, <1>2, <1>3 DEF IInv, TypeOK, Stirs, Activities, Rows, None
<1>5. ClaimInStep'
  BY <1>1, <1>2, <1>3 DEF IInv, ClaimInStep, PassUpToDate, TombstoneIsBare, Stirs,
    Refused, Activities, Rows
<1>6. PassUpToDate'
  BY <1>1, <1>2, <1>3 DEF IInv, PassUpToDate, ClaimInStep, TombstoneIsBare, Stirs,
    Refused, Activities, Rows
<1>7. TombstoneIsBare'
  BY <1>1, <1>2, <1>3 DEF IInv, TombstoneIsBare, ClaimInStep, Stirs, Refused,
    Activities, Rows
<1>8. WindowAfterFarewell'
  BY DEF IInv, Frame, Note, Noted, Refused, carveOut, voiceEnd,
    WindowAfterFarewell
<1>9. QED
  BY <1>4, <1>5, <1>6, <1>7, <1>8 DEF IInv

LEMMA ResponseCreatedStep ==
  ASSUME IInv, ResponseCreated
  PROVE  IInv'
<1>1. UNCHANGED <<row, tool, grace, hold, pass, stream, farewell, token, window,
                  faults>>
  BY DEF ResponseCreated, voiceEnd
<1>2. Stirs
  BY NoteStirs DEF IInv, ResponseCreated
<1>3. responding' \in BOOLEAN
  BY DEF ResponseCreated
<1>4. TypeOK'
  BY <1>1, <1>2, <1>3 DEF IInv, TypeOK, Stirs, Activities, None
<1>5. ClaimInStep'
  BY <1>1, <1>2 DEF IInv, ClaimInStep, PassUpToDate, TombstoneIsBare, Stirs,
    Refused, Activities
<1>6. PassUpToDate'
  BY <1>1, <1>2 DEF IInv, PassUpToDate, ClaimInStep, TombstoneIsBare, Stirs,
    Refused, Activities
<1>7. TombstoneIsBare'
  BY <1>1, <1>2 DEF IInv, TombstoneIsBare, ClaimInStep, Stirs, Refused, Activities
<1>8. WindowAfterFarewell'
  BY <1>1 DEF IInv, WindowAfterFarewell
<1>9. QED
  BY <1>4, <1>5, <1>6, <1>7, <1>8 DEF IInv

LEMMA ResponseEndsStep ==
  ASSUME IInv, ResponseEnds
  PROVE  IInv'
<1>1. UNCHANGED <<row, tool, grace, hold, pass, stream, farewell, token, window,
                  faults>>
  BY DEF ResponseEnds, voiceEnd
<1>2. Stirs
  BY NoteStirs DEF IInv, ResponseEnds
<1>3. responding' \in BOOLEAN
  BY DEF ResponseEnds
<1>4. TypeOK'
  BY <1>1, <1>2, <1>3 DEF IInv, TypeOK, Stirs, Activities, None
<1>5. ClaimInStep'
  BY <1>1, <1>2 DEF IInv, ClaimInStep, PassUpToDate, TombstoneIsBare, Stirs,
    Refused, Activities
<1>6. PassUpToDate'
  BY <1>1, <1>2 DEF IInv, PassUpToDate, ClaimInStep, TombstoneIsBare, Stirs,
    Refused, Activities
<1>7. TombstoneIsBare'
  BY <1>1, <1>2 DEF IInv, TombstoneIsBare, ClaimInStep, Stirs, Refused, Activities
<1>8. WindowAfterFarewell'
  BY <1>1 DEF IInv, WindowAfterFarewell
<1>9. QED
  BY <1>4, <1>5, <1>6, <1>7, <1>8 DEF IInv

LEMMA CalleeSpeaksStep ==
  ASSUME IInv, CalleeSpeaks
  PROVE  IInv'
<1>1. /\ ~Refused
      /\ UNCHANGED <<row, tool, grace, hold, responding, pass, window, faults>>
  BY DEF CalleeSpeaks, carveOut, Carrier
<1>2. Stirs
  BY NoteStirs DEF IInv, CalleeSpeaks, Carrier
<1>3. stream' \in Streams
  BY Types DEF IInv, CalleeSpeaks, Streams
<1>4. farewell' \in BOOLEAN /\ token' = None
  BY DEF CalleeSpeaks, CancelVoiceEnd
<1>5. TypeOK'
  BY <1>1, <1>2, <1>3, <1>4 DEF IInv, TypeOK, Stirs, Activities, Streams, None
<1>6. ClaimInStep'
  BY <1>1, <1>2 DEF IInv, ClaimInStep, PassUpToDate, TombstoneIsBare, Stirs,
    Refused, Activities
<1>7. PassUpToDate'
  BY <1>1, <1>2 DEF IInv, PassUpToDate, ClaimInStep, TombstoneIsBare, Stirs,
    Refused, Activities
<1>8. WindowAfterFarewell'
  BY <1>1, <1>4 DEF IInv, WindowAfterFarewell
<1>9. TombstoneIsBare'
  BY <1>1, <1>2 DEF IInv, TombstoneIsBare, ClaimInStep, Stirs, Refused, Activities
<1>10. QED
  BY <1>5, <1>6, <1>7, <1>8, <1>9 DEF IInv

LEMMA CalleeStopsStep ==
  ASSUME IInv, CalleeStops
  PROVE  IInv'
<1>1. UNCHANGED <<row, tool, grace, hold, responding, pass, farewell, token, window,
                  faults>>
  BY DEF CalleeStops, carveOut, voiceEnd
<1>2. Stirs
  BY NoteStirs DEF IInv, CalleeStops, Carrier
<1>3. stream' \in Streams
  BY Types DEF IInv, CalleeStops, Streams
<1>4. TypeOK'
  BY <1>1, <1>2, <1>3 DEF IInv, TypeOK, Stirs, Activities, Streams, None
<1>5. ClaimInStep'
  BY <1>1, <1>2 DEF IInv, ClaimInStep, PassUpToDate, TombstoneIsBare, Stirs,
    Refused, Activities
<1>6. PassUpToDate'
  BY <1>1, <1>2 DEF IInv, PassUpToDate, ClaimInStep, TombstoneIsBare, Stirs,
    Refused, Activities
<1>7. TombstoneIsBare'
  BY <1>1, <1>2 DEF IInv, TombstoneIsBare, ClaimInStep, Stirs, Refused, Activities
<1>8. WindowAfterFarewell'
  BY DEF IInv, CalleeStops, Note, Noted, Refused, Carrier, carveOut,
    voiceEnd, WindowAfterFarewell
<1>9. QED
  BY <1>4, <1>5, <1>6, <1>7, <1>8 DEF IInv

LEMMA OutboundAudioStep ==
  ASSUME IInv, OutboundAudio
  PROVE  IInv'
<1>1. UNCHANGED <<row, tool, grace, hold, responding, pass, farewell, token, window,
                  faults>>
  BY DEF OutboundAudio, carveOut, voiceEnd
<1>2. Stirs
  BY NoteStirs DEF IInv, OutboundAudio, Carrier
<1>3. stream' \in Streams
  BY Types DEF IInv, OutboundAudio, Streams
<1>4. TypeOK'
  BY <1>1, <1>2, <1>3 DEF IInv, TypeOK, Stirs, Activities, Streams, None
<1>5. ClaimInStep'
  BY <1>1, <1>2 DEF IInv, ClaimInStep, PassUpToDate, TombstoneIsBare, Stirs,
    Refused, Activities
<1>6. PassUpToDate'
  BY <1>1, <1>2 DEF IInv, PassUpToDate, ClaimInStep, TombstoneIsBare, Stirs,
    Refused, Activities
<1>7. TombstoneIsBare'
  BY <1>1, <1>2 DEF IInv, TombstoneIsBare, ClaimInStep, Stirs, Refused, Activities
<1>8. WindowAfterFarewell'
  BY DEF IInv, OutboundAudio, Note, Noted, Refused, Carrier, carveOut,
    voiceEnd, WindowAfterFarewell
<1>9. QED
  BY <1>4, <1>5, <1>6, <1>7, <1>8 DEF IInv

LEMMA SaysFarewellStep ==
  ASSUME IInv, SaysFarewell
  PROVE  IInv'
<1>1. UNCHANGED <<row, tool, grace, hold, responding, pass, stream, token, window, faults>>
  BY DEF SaysFarewell, carveOut
<1>2. Stirs
  BY NoteStirs DEF IInv, SaysFarewell
<1>3. farewell' \in BOOLEAN /\ farewell'
  BY DEF SaysFarewell
<1>4. TypeOK'
  BY <1>1, <1>2, <1>3 DEF IInv, TypeOK, Stirs, Activities, None
<1>5. ClaimInStep'
  BY <1>1, <1>2 DEF IInv, ClaimInStep, PassUpToDate, TombstoneIsBare, Stirs,
    Refused, Activities
<1>6. PassUpToDate'
  BY <1>1, <1>2 DEF IInv, PassUpToDate, ClaimInStep, TombstoneIsBare, Stirs,
    Refused, Activities
<1>7. WindowAfterFarewell'
  BY <1>1, <1>3 DEF IInv, WindowAfterFarewell
<1>8. TombstoneIsBare'
  BY <1>1, <1>2 DEF IInv, TombstoneIsBare, ClaimInStep, Stirs, Refused, Activities
<1>9. QED
  BY <1>4, <1>5, <1>6, <1>7, <1>8 DEF IInv

LEMMA MediaMonitorClosedStep ==
  ASSUME IInv, MediaMonitorClosed
  PROVE  IInv'
<1>1. UNCHANGED <<row, activity, tool, grace, hold, responding, pass, farewell, window,
                  faults>>
  BY DEF MediaMonitorClosed, carveOut
<1>2. stream' \in Streams
  BY Types DEF IInv, MediaMonitorClosed, Streams
<1>3. token' = None
  BY DEF MediaMonitorClosed, CancelVoiceEnd
<1>4. TypeOK'
  BY <1>1, <1>2, <1>3 DEF IInv, TypeOK, Streams, None
<1>5. WindowAfterFarewell'
  BY <1>1, <1>3 DEF IInv, WindowAfterFarewell
<1>6. (ClaimInStep /\ PassUpToDate /\ TombstoneIsBare)'
  BY DEF IInv, MediaMonitorClosed, CancelVoiceEnd, Playing, carveOut, ClaimInStep,
    PassUpToDate, TombstoneIsBare
<1>7. QED
  BY <1>4, <1>5, <1>6 DEF IInv

LEMMA ElapseStep ==
  ASSUME IInv, Elapse
  PROVE  IInv'
<1>1. /\ pass.pc \notin {"list", "reread", "recheck"}
      /\ UNCHANGED <<tool, grace, hold, responding, stream, farewell, token, window,
                     faults>>
  BY DEF Elapse, carveOut, voiceEnd
<1>2. row' \in Rows /\ row'.state = row.state
  BY Types DEF IInv, Elapse, Ages, Rows, Marks
<1>3. /\ activity' \in Activities
      /\ activity'.claimed = activity.claimed /\ activity'.tomb = activity.tomb
      /\ activity.latest = None => activity'.latest = None
      /\ activity.dirty = None => activity'.dirty = None
  BY Types DEF IInv, Elapse, Ages, Activities, Marks, None
<1>4. pass' \in Passes /\ pass'.pc = pass.pc
  BY Types DEF IInv, Elapse, Ages, Passes, Marks
<1>5. TypeOK'
  BY <1>1, <1>2, <1>3, <1>4 DEF IInv, TypeOK, Rows, Activities, Passes, None
<1>6. ClaimInStep'
  BY <1>1, <1>2, <1>3, <1>4 DEF IInv, ClaimInStep, PassUpToDate, TombstoneIsBare,
    Rows, Activities, Passes
<1>7. PassUpToDate'
  BY <1>1, <1>2, <1>3, <1>4 DEF IInv, PassUpToDate, ClaimInStep, TombstoneIsBare,
    Rows, Activities, Passes
<1>8. TombstoneIsBare'
  BY <1>1, <1>2, <1>3 DEF IInv, TombstoneIsBare, ClaimInStep, Rows, Activities
<1>9. WindowAfterFarewell'
  BY DEF IInv, Elapse, Ages, carveOut, voiceEnd, WindowAfterFarewell
<1>10. QED
  BY <1>5, <1>6, <1>7, <1>8, <1>9 DEF IInv

LEMMA StartToolStep ==
  ASSUME IInv, StartTool
  PROVE  IInv'
<1>1. UNCHANGED <<row, grace, hold, responding, pass, stream, farewell, token, window,
                  faults>>
  BY DEF StartTool, voiceEnd
<1>2. Stirs
  BY NoteStirs DEF IInv, StartTool
<1>3. tool' \in BOOLEAN
  BY DEF StartTool
<1>4. TypeOK'
  BY <1>1, <1>2, <1>3 DEF IInv, TypeOK, Stirs, Activities, None
<1>5. ClaimInStep'
  BY <1>1, <1>2 DEF IInv, ClaimInStep, PassUpToDate, TombstoneIsBare, Stirs,
    Refused, Activities
<1>6. PassUpToDate'
  BY <1>1, <1>2 DEF IInv, PassUpToDate, ClaimInStep, TombstoneIsBare, Stirs,
    Refused, Activities
<1>7. TombstoneIsBare'
  BY <1>1, <1>2 DEF IInv, TombstoneIsBare, ClaimInStep, Stirs, Refused, Activities
<1>8. WindowAfterFarewell'
  BY DEF IInv, StartTool, Note, Noted, Refused, voiceEnd, WindowAfterFarewell
<1>9. QED
  BY <1>4, <1>5, <1>6, <1>7, <1>8 DEF IInv

LEMMA ToolEndsStep ==
  ASSUME IInv, ToolEnds
  PROVE  IInv'
<1>1. UNCHANGED <<row, hold, responding, pass, stream, farewell, token, window, faults>>
  BY DEF ToolEnds, voiceEnd
<1>2. Stirs
  BY NoteStirs DEF IInv, ToolEnds
<1>3. tool' \in BOOLEAN /\ grace' \in BOOLEAN
  BY DEF IInv, TypeOK, ToolEnds
<1>4. Refused => grace' = grace
  BY DEF ToolEnds
<1>5. TypeOK'
  BY <1>1, <1>2, <1>3, <1>4 DEF IInv, TypeOK, Stirs, Activities, None
<1>6. ClaimInStep'
  BY <1>1, <1>2 DEF IInv, ClaimInStep, PassUpToDate, TombstoneIsBare, Stirs,
    Refused, Activities
<1>7. PassUpToDate'
  BY <1>1, <1>2, <1>3, <1>4 DEF IInv, PassUpToDate, ClaimInStep, TombstoneIsBare,
    Stirs, Refused, Activities
<1>8. TombstoneIsBare'
  BY <1>1, <1>2 DEF IInv, TombstoneIsBare, ClaimInStep, Stirs, Refused, Activities
<1>9. WindowAfterFarewell'
  BY DEF IInv, ToolEnds, Note, Noted, Refused, voiceEnd, WindowAfterFarewell
<1>10. QED
  BY <1>5, <1>6, <1>7, <1>8, <1>9 DEF IInv

LEMMA GraceExpiresStep ==
  ASSUME IInv, GraceExpires
  PROVE  IInv'
<1>1. UNCHANGED <<row, activity, tool, hold, responding, pass, stream, farewell,
                  token, window, faults>>
  BY DEF GraceExpires, voiceEnd
<1>2. grace' \in BOOLEAN /\ ~grace'
  BY DEF GraceExpires
<1>3. TypeOK'
  BY <1>1, <1>2 DEF IInv, TypeOK, None
<1>4. PassUpToDate'
  BY <1>1, <1>2 DEF IInv, PassUpToDate, ClaimInStep, TombstoneIsBare
<1>5. (ClaimInStep /\ WindowAfterFarewell /\ TombstoneIsBare)'
  BY DEF IInv, GraceExpires, voiceEnd, ClaimInStep, WindowAfterFarewell,
    TombstoneIsBare
<1>6. QED
  BY <1>3, <1>4, <1>5 DEF IInv

LEMMA EnterHoldStep ==
  ASSUME IInv, EnterHold
  PROVE  IInv'
<1>1. UNCHANGED <<row, tool, grace, responding, pass, stream, farewell, token, window,
                  faults>>
  BY DEF EnterHold, voiceEnd
<1>2. Stirs
  BY NoteStirs DEF IInv, EnterHold
<1>3. hold' = "entering"
  BY DEF EnterHold
<1>4. TypeOK'
  BY <1>1, <1>2, <1>3 DEF IInv, TypeOK, Stirs, Activities, None
<1>5. ClaimInStep'
  BY <1>1, <1>2 DEF IInv, ClaimInStep, PassUpToDate, TombstoneIsBare, Stirs,
    Refused, Activities
<1>6. PassUpToDate'
  BY <1>1, <1>2, <1>3 DEF IInv, PassUpToDate, ClaimInStep, TombstoneIsBare, Stirs,
    Refused, Activities
<1>7. TombstoneIsBare'
  BY <1>1, <1>2 DEF IInv, TombstoneIsBare, ClaimInStep, Stirs, Refused, Activities
<1>8. WindowAfterFarewell'
  BY DEF IInv, EnterHold, Note, Noted, Refused, voiceEnd, WindowAfterFarewell
<1>9. QED
  BY <1>4, <1>5, <1>6, <1>7, <1>8 DEF IInv

LEMMA HoldSuspendedStep ==
  ASSUME IInv, HoldSuspended
  PROVE  IInv'
<1>1. /\ hold = "entering"
      /\ UNCHANGED <<row, tool, grace, responding, pass, stream, farewell, token, window>>
  BY DEF HoldSuspended, voiceEnd
<1>2. \/ hold' = "held" /\ Stirs
      \/ hold' = "no" /\ activity' = activity
  BY NoteStirs DEF IInv, HoldSuspended
<1>3. faults' \in 0..MaxFaults
  BY FaultUses DEF IInv, TypeOK, HoldSuspended
<1>4. TypeOK'
  BY <1>1, <1>2, <1>3 DEF IInv, TypeOK, Stirs, Activities, None
<1>5. ClaimInStep'
  BY <1>1, <1>2 DEF IInv, ClaimInStep, PassUpToDate, TombstoneIsBare, Stirs,
    Refused, Activities
<1>6. PassUpToDate'
  BY <1>1, <1>2 DEF IInv, PassUpToDate, ClaimInStep, TombstoneIsBare, Stirs,
    Refused, Activities
<1>7. TombstoneIsBare'
  BY <1>1, <1>2 DEF IInv, TombstoneIsBare, ClaimInStep, Stirs, Refused, Activities
<1>8. WindowAfterFarewell'
  BY DEF IInv, HoldSuspended, Note, Noted, Refused, Fault, voiceEnd,
    WindowAfterFarewell
<1>9. QED
  BY <1>4, <1>5, <1>6, <1>7, <1>8 DEF IInv

LEMMA HoldElapsesStep ==
  ASSUME IInv, HoldElapses
  PROVE  IInv'
<1>1. /\ hold = "held" /\ hold' = "over"
      /\ UNCHANGED <<row, activity, tool, grace, responding, pass, stream, farewell, token,
                     window, faults>>
  BY DEF HoldElapses, voiceEnd
<1>2. TypeOK'
  BY <1>1 DEF IInv, TypeOK, None
<1>3. PassUpToDate'
  BY <1>1 DEF IInv, PassUpToDate, ClaimInStep, TombstoneIsBare
<1>4. (ClaimInStep /\ WindowAfterFarewell /\ TombstoneIsBare)'
  BY DEF IInv, HoldElapses, voiceEnd, ClaimInStep, WindowAfterFarewell,
    TombstoneIsBare
<1>5. QED
  BY <1>2, <1>3, <1>4 DEF IInv

LEMMA ExitHoldStep ==
  ASSUME IInv, ExitHold
  PROVE  IInv'
<1>1. UNCHANGED <<row, tool, grace, responding, pass, stream, farewell, token, window,
                  faults>>
  BY DEF ExitHold, voiceEnd
<1>2. Stirs
  BY NoteStirs DEF IInv, ExitHold
<1>3. hold' = "no"
  BY DEF ExitHold
<1>4. TypeOK'
  BY <1>1, <1>2, <1>3 DEF IInv, TypeOK, Stirs, Activities, None
<1>5. ClaimInStep'
  BY <1>1, <1>2 DEF IInv, ClaimInStep, PassUpToDate, TombstoneIsBare, Stirs,
    Refused, Activities
<1>6. PassUpToDate'
  BY <1>1, <1>2, <1>3 DEF IInv, PassUpToDate, ClaimInStep, TombstoneIsBare, Stirs,
    Refused, Activities
<1>7. TombstoneIsBare'
  BY <1>1, <1>2 DEF IInv, TombstoneIsBare, ClaimInStep, Stirs, Refused, Activities
<1>8. WindowAfterFarewell'
  BY DEF IInv, ExitHold, Note, Noted, Refused, voiceEnd, WindowAfterFarewell
<1>9. QED
  BY <1>4, <1>5, <1>6, <1>7, <1>8 DEF IInv

LEMMA EndsOtherwiseStep ==
  ASSUME IInv, EndsOtherwise
  PROVE  IInv'
<1>1. /\ row.state = "active"
      /\ UNCHANGED <<activity, tool, grace, hold, responding, pass, stream, farewell, token,
                     window, faults>>
  BY DEF EndsOtherwise, carveOut, voiceEnd
<1>2. row' \in Rows /\ row'.state = "claimed"
  BY ClaimsRow DEF IInv, EndsOtherwise
<1>3. TypeOK'
  BY <1>1, <1>2 DEF IInv, TypeOK, Rows, None
<1>4. ClaimInStep'
  BY <1>1, <1>2 DEF IInv, ClaimInStep, PassUpToDate, TombstoneIsBare, Rows
<1>5. PassUpToDate'
  BY <1>1, <1>2 DEF IInv, PassUpToDate, ClaimInStep, TombstoneIsBare, Rows
<1>6. TombstoneIsBare'
  BY <1>1, <1>2 DEF IInv, TombstoneIsBare, ClaimInStep, Rows
<1>7. WindowAfterFarewell'
  BY DEF IInv, EndsOtherwise, Claims, carveOut, voiceEnd, WindowAfterFarewell
<1>8. QED
  BY <1>3, <1>4, <1>5, <1>6, <1>7 DEF IInv

LEMMA FinishTerminationStep ==
  ASSUME IInv, FinishTermination
  PROVE  IInv'
<1>1. /\ row.state = "claimed"
      /\ UNCHANGED <<pass, window, faults>>
  BY DEF FinishTermination
<1>2. Gone
  BY TombstoneGoes DEF FinishTermination
<1>3. /\ row' \in Rows /\ row'.state # "active"
      /\ row' = row \/ row'.state = "ended"
  BY Types DEF IInv, FinishTermination, Rows
<1>4. stream' \in Streams
  <2>1. stream \in Streams
    BY Types DEF IInv
  <2>2. [connected |-> FALSE, out |-> None, callee |-> FALSE] \in Streams
    BY DEF Streams
  <2>3. QED
    BY <2>1, <2>2 DEF FinishTermination
<1>5. farewell' \in BOOLEAN
  BY DEF IInv, TypeOK, FinishTermination
<1>6. TypeOK'
  BY <1>1, <1>2, <1>3, <1>4, <1>5 DEF IInv, TypeOK, Gone, Activities, Rows, Streams,
    None
<1>7. ClaimInStep'
  BY <1>1, <1>2, <1>3 DEF IInv, ClaimInStep, PassUpToDate, TombstoneIsBare, Gone,
    Activities, Rows
<1>8. PassUpToDate'
  BY <1>1, <1>2, <1>3 DEF IInv, PassUpToDate, ClaimInStep, TombstoneIsBare, Gone,
    Activities, Rows
<1>9. WindowAfterFarewell'
  BY <1>1, <1>2, <1>5 DEF IInv, WindowAfterFarewell, Gone, Activities
<1>10. TombstoneIsBare'
  BY <1>1, <1>2, <1>3 DEF IInv, TombstoneIsBare, ClaimInStep, Gone, Activities, Rows
<1>11. QED
  BY <1>6, <1>7, <1>8, <1>9, <1>10 DEF IInv

LEMMA BeginPassStep ==
  ASSUME IInv, BeginPass
  PROVE  IInv'
<1>1. /\ pass.pc = "sleep"
      /\ UNCHANGED <<row, tool, grace, hold, responding, stream, farewell, token, window,
                     faults>>
  BY DEF BeginPass, carveOut, voiceEnd
<1>2. /\ activity' \in Activities /\ activity'.dirty = None /\ activity'.latest = activity.latest
      /\ activity'.claimed = activity.claimed /\ activity'.tomb = activity.tomb
  BY Types DEF IInv, BeginPass, Activities
<1>3. pass' \in Passes /\ pass'.pc \in {"list", "flush"}
  BY Types DEF IInv, BeginPass, Activities, Passes
<1>4. TypeOK'
  BY <1>1, <1>2, <1>3 DEF IInv, TypeOK, Activities, Passes, None
<1>5. ClaimInStep'
  BY <1>1, <1>2, <1>3 DEF IInv, ClaimInStep, PassUpToDate, TombstoneIsBare,
    Activities, Passes
<1>6. PassUpToDate'
  BY <1>1, <1>2, <1>3 DEF IInv, PassUpToDate, ClaimInStep, TombstoneIsBare,
    Activities, Passes
<1>7. TombstoneIsBare'
  BY <1>1, <1>2 DEF IInv, TombstoneIsBare, ClaimInStep, Activities
<1>8. WindowAfterFarewell'
  BY DEF IInv, BeginPass, carveOut, voiceEnd, WindowAfterFarewell
<1>9. QED
  BY <1>4, <1>5, <1>6, <1>7, <1>8 DEF IInv

LEMMA FlushStep ==
  ASSUME IInv, Flush
  PROVE  IInv'
<1>1. /\ pass.pc = "flush"
      /\ UNCHANGED <<tool, grace, hold, responding, stream, farewell, token, window>>
  BY DEF Flush, carveOut, voiceEnd
<1>2. row' \in Rows /\ row'.state = row.state
  <2>1. row \in Rows /\ pass \in Passes
    BY Types DEF IInv
  <2>2. Touched \in Rows /\ Touched.state = row.state
    BY <2>1 DEF Touched, Newest, Rows, Marks
  <2>3. QED
    BY <2>1, <2>2 DEF Flush
<1>3. /\ activity' \in Activities /\ activity'.latest = activity.latest
      /\ activity'.claimed = activity.claimed /\ activity'.tomb = activity.tomb
      /\ activity.latest = None => activity'.dirty = activity.dirty
  <2>1. activity \in Activities /\ pass \in Passes
    BY Types DEF IInv
  <2>2. CASE activity' = activity
    BY <2>1, <2>2
  <2>3. CASE activity' = Restores(activity, pass.flush)
    BY <2>1, <2>3 DEF Restores, Newest, Activities, Passes, Marks, None
  <2>4. QED
    BY <2>2, <2>3 DEF Flush
<1>4. pass' \in Passes /\ pass'.pc = "list"
  BY Types DEF IInv, Flush, Passes
<1>5. faults' \in 0..MaxFaults
  BY FaultUses DEF IInv, TypeOK, Flush
<1>6. TypeOK'
  BY <1>1, <1>2, <1>3, <1>4, <1>5 DEF IInv, TypeOK, Rows, Activities, Passes, None
<1>7. ClaimInStep'
  BY <1>1, <1>2, <1>3, <1>4 DEF IInv, ClaimInStep, PassUpToDate, TombstoneIsBare,
    Rows, Activities, Passes
<1>8. PassUpToDate'
  BY <1>1, <1>2, <1>3, <1>4 DEF IInv, PassUpToDate, ClaimInStep, TombstoneIsBare,
    Rows, Activities, Passes
<1>9. TombstoneIsBare'
  BY <1>1, <1>2, <1>3 DEF IInv, TombstoneIsBare, ClaimInStep, Rows, Activities
<1>10. WindowAfterFarewell'
  BY DEF IInv, Flush, Touched, Restores, Newest, Fault, carveOut, voiceEnd,
    WindowAfterFarewell
<1>11. QED
  BY <1>6, <1>7, <1>8, <1>9, <1>10 DEF IInv

LEMMA CheckCallStep ==
  ASSUME IInv, CheckCall
  PROVE  IInv'
<1>1. /\ pass.pc = "list"
      /\ UNCHANGED <<row, stream, farewell, window>>
  BY DEF CheckCall, carveOut
<1>2. \/ Gone /\ row.state # "active" /\ Rests
      \/ UNCHANGED <<activity, tool, grace, hold, responding, token>> /\ Rests
      \/ Stirs /\ UNCHANGED <<tool, grace, hold, responding, token>> /\ Rests
      \/ ClaimedAs("hold") /\ row.state = "active" /\ UNCHANGED <<tool, grace, hold, responding,
                                                                  token>>
      \/ /\ UNCHANGED <<activity, tool, grace, hold, responding, token>>
         /\ hold = "no" /\ ~grace /\ pass' \in Passes /\ pass'.pc = "reread"
  BY TombstoneGoes, SleepsRests, NoteStirs, WatchdogClaimsMarks, Types DEF IInv,
    CheckCall, StaleOr, PassFails, Rests, ClaimedAs, carveOut, Passes
<1>3. faults' \in 0..MaxFaults
  BY FaultUses DEF IInv, TypeOK, CheckCall, PassFails
<1>4. TypeOK'
  BY <1>1, <1>2, <1>3 DEF IInv, TypeOK, Gone, Rests, Stirs, ClaimedAs, Activities,
    Passes, None
<1>5. ClaimInStep'
  BY <1>1, <1>2 DEF IInv, ClaimInStep, PassUpToDate, TombstoneIsBare, Gone, Rests,
    Stirs, ClaimedAs, Activities, Passes, Refused
<1>6. PassUpToDate'
  BY <1>1, <1>2 DEF IInv, PassUpToDate, ClaimInStep, TombstoneIsBare, Gone, Rests,
    Stirs, ClaimedAs, Activities, Passes, Refused
<1>7. WindowAfterFarewell'
  BY <1>1, <1>2 DEF IInv, WindowAfterFarewell, Gone, Rests, Stirs, ClaimedAs,
    Activities, Passes, Refused
<1>8. TombstoneIsBare'
  BY <1>1, <1>2 DEF IInv, TombstoneIsBare, ClaimInStep, Gone, Rests, Stirs,
    ClaimedAs, Activities, Passes, Refused
<1>9. QED
  BY <1>4, <1>5, <1>6, <1>7, <1>8 DEF IInv

LEMMA GetCallStep ==
  ASSUME IInv, GetCall
  PROVE  IInv'
<1>1. /\ pass.pc = "reread"
      /\ UNCHANGED <<row, activity, tool, grace, hold, responding, stream, farewell, token,
                     window>>
  BY DEF GetCall, carveOut, voiceEnd
<1>2. \/ Rests
      \/ /\ pass' \in Passes /\ pass'.pc = "recheck"
         /\ pass'.state = row.state /\ pass'.last = row.last
  BY SleepsRests, Types DEF IInv, GetCall, PassFails, Rests, Passes, Rows
<1>3. faults' \in 0..MaxFaults
  BY FaultUses DEF IInv, TypeOK, GetCall, PassFails
<1>4. TypeOK'
  BY <1>1, <1>2, <1>3 DEF IInv, TypeOK, Rests, Passes, None
<1>5. ClaimInStep'
  BY <1>1, <1>2 DEF IInv, ClaimInStep, PassUpToDate, TombstoneIsBare, Rests, Passes
<1>6. PassUpToDate'
  BY <1>1, <1>2 DEF IInv, PassUpToDate, ClaimInStep, TombstoneIsBare, Rests, Passes
<1>7. (WindowAfterFarewell /\ TombstoneIsBare)'
  BY DEF IInv, GetCall, PassFails, Sleeps, Asleep, Fault, carveOut, voiceEnd,
    WindowAfterFarewell, TombstoneIsBare
<1>8. QED
  BY <1>4, <1>5, <1>6, <1>7 DEF IInv

LEMMA RecheckCallStep ==
  ASSUME IInv, RecheckCall
  PROVE  IInv'
<1>1. /\ pass.pc = "recheck"
      /\ UNCHANGED <<row, stream, farewell, window, faults>>
  BY DEF RecheckCall, carveOut
<1>2. \/ Gone /\ row.state # "active" /\ Rests
      \/ UNCHANGED <<activity, tool, grace, hold, responding, token>> /\ Rests
      \/ Stirs /\ UNCHANGED <<tool, grace, hold, responding, token>> /\ Rests
      \/ ClaimedAs("stale") /\ UNCHANGED <<tool, grace, hold, responding, token>>
  BY TombstoneGoes, SleepsRests, NoteStirs, WatchdogClaimsMarks DEF IInv,
    PassUpToDate, RecheckCall, RecheckStale, StaleOr, Rests, ClaimedAs, carveOut
<1>3. TypeOK'
  BY <1>1, <1>2 DEF IInv, TypeOK, Gone, Rests, Stirs, ClaimedAs, Activities, Passes,
    None
<1>4. ClaimInStep'
  BY <1>1, <1>2 DEF IInv, ClaimInStep, PassUpToDate, TombstoneIsBare, Gone, Rests,
    Stirs, ClaimedAs, Activities, Passes, Refused
<1>5. PassUpToDate'
  BY <1>1, <1>2 DEF IInv, PassUpToDate, ClaimInStep, TombstoneIsBare, Gone, Rests,
    Stirs, ClaimedAs, Activities, Passes, Refused
<1>6. WindowAfterFarewell'
  BY <1>1, <1>2 DEF IInv, WindowAfterFarewell, Gone, Rests, Stirs, ClaimedAs,
    Activities, Passes, Refused
<1>7. TombstoneIsBare'
  BY <1>1, <1>2 DEF IInv, TombstoneIsBare, ClaimInStep, Gone, Rests, Stirs,
    ClaimedAs, Activities, Passes, Refused
<1>8. QED
  BY <1>3, <1>4, <1>5, <1>6, <1>7 DEF IInv

LEMMA WatchdogTerminatesStep ==
  ASSUME IInv, WatchdogTerminates
  PROVE  IInv'
<1>1. /\ pass.pc \in {"stale", "hold"}
      /\ UNCHANGED <<stream, farewell, window>>
  BY DEF WatchdogTerminates, carveOut
<1>2. \/ /\ row.state = "active" /\ row' \in Rows /\ row'.state = "claimed"
         /\ pass' \in Passes /\ pass'.pc = "wait"
         /\ UNCHANGED <<activity, tool, grace, hold, responding, token>>
      \/ row.state # "active" /\ row' = row /\ Gone /\ Rests
      \/ /\ row' = row /\ Rests /\ UNCHANGED <<tool, grace, hold, responding, token>>
         /\ activity' \in Activities /\ ~activity'.claimed /\ activity'.tomb = activity.tomb
         /\ activity'.latest = activity.latest /\ activity'.dirty = activity.dirty
  <2>1. row \in Rows /\ activity \in Activities /\ pass \in Passes
    BY Types DEF IInv
  <2>2. CASE /\ row.state = "active" /\ Claims(pass.pc) /\ pass' = [pass EXCEPT !.pc = "wait"]
             /\ UNCHANGED <<activity, carveOut, token>>
    BY <1>1, <2>1, <2>2, ClaimsRow DEF IInv, Passes, carveOut
  <2>3. CASE row.state # "active" /\ Tombstone /\ Sleeps /\ row' = row
    BY <2>3, TombstoneGoes, SleepsRests DEF Rests
  <2>4. CASE /\ Sleeps /\ activity' = [activity EXCEPT !.claimed = FALSE]
             /\ UNCHANGED <<row, carveOut, token>>
    BY <2>1, <2>4, SleepsRests DEF Rests, Activities, carveOut
  <2>5. QED
    BY <2>2, <2>3, <2>4 DEF WatchdogTerminates, PassFails
<1>3. faults' \in 0..MaxFaults
  BY FaultUses DEF IInv, TypeOK, WatchdogTerminates, PassFails
<1>4. TypeOK'
  BY <1>1, <1>2, <1>3 DEF IInv, TypeOK, Gone, Rests, Rows, Activities, Passes, None
<1>5. ClaimInStep'
  BY <1>1, <1>2 DEF IInv, ClaimInStep, PassUpToDate, TombstoneIsBare, Gone, Rests,
    Rows, Activities, Passes
<1>6. PassUpToDate'
  BY <1>1, <1>2 DEF IInv, PassUpToDate, ClaimInStep, TombstoneIsBare, Gone, Rests,
    Rows, Activities, Passes
<1>7. WindowAfterFarewell'
  BY <1>1, <1>2 DEF IInv, WindowAfterFarewell, Gone, Rests, Rows, Activities, Passes
<1>8. TombstoneIsBare'
  BY <1>1, <1>2 DEF IInv, TombstoneIsBare, ClaimInStep, Gone, Rests, Rows,
    Activities, Passes
<1>9. QED
  BY <1>4, <1>5, <1>6, <1>7, <1>8 DEF IInv

LEMMA WatchdogWaitsStep ==
  ASSUME IInv, WatchdogWaits
  PROVE  IInv'
<1>1. /\ pass.pc = "wait" /\ row.state = "ended"
      /\ UNCHANGED <<row, activity, tool, grace, hold, responding, stream, farewell, token,
                     window, faults>>
  BY DEF WatchdogWaits, carveOut, voiceEnd
<1>2. Rests
  BY SleepsRests DEF WatchdogWaits, Rests
<1>3. TypeOK'
  BY <1>1, <1>2 DEF IInv, TypeOK, Rests, Passes, None
<1>4. ClaimInStep'
  BY <1>1, <1>2 DEF IInv, ClaimInStep, PassUpToDate, TombstoneIsBare, Rests, Passes
<1>5. PassUpToDate'
  BY <1>1, <1>2 DEF IInv, PassUpToDate, ClaimInStep, TombstoneIsBare, Rests, Passes
<1>6. (WindowAfterFarewell /\ TombstoneIsBare)'
  BY DEF IInv, WatchdogWaits, Sleeps, Asleep, carveOut, voiceEnd,
    WindowAfterFarewell, TombstoneIsBare
<1>7. QED
  BY <1>3, <1>4, <1>5, <1>6 DEF IInv

LEMMA AcceptEndStep ==
  ASSUME IInv, NEW w \in Windows, AcceptEnd(w)
  PROVE  IInv'
<1>1. /\ farewell
      /\ UNCHANGED <<row, tool, grace, hold, responding, pass, stream, farewell, faults>>
  BY DEF AcceptEnd, carveOut
<1>2. Stirs
  BY NoteStirs DEF IInv, AcceptEnd
<1>3. token' = w
  BY DEF AcceptEnd
<1>4. window' \in [Windows -> {"off", "poll", "read", "claim"}]
  BY DEF IInv, TypeOK, AcceptEnd
<1>5. TypeOK'
  BY <1>1, <1>2, <1>3, <1>4 DEF IInv, TypeOK, Stirs, Activities, None
<1>6. ClaimInStep'
  BY <1>1, <1>2 DEF IInv, ClaimInStep, PassUpToDate, TombstoneIsBare, Stirs,
    Refused, Activities
<1>7. PassUpToDate'
  BY <1>1, <1>2 DEF IInv, PassUpToDate, ClaimInStep, TombstoneIsBare, Stirs,
    Refused, Activities
<1>8. WindowAfterFarewell'
  BY <1>1, <1>3 DEF IInv, WindowAfterFarewell
<1>9. TombstoneIsBare'
  BY <1>1, <1>2 DEF IInv, TombstoneIsBare, ClaimInStep, Stirs, Refused, Activities
<1>10. QED
  BY <1>5, <1>6, <1>7, <1>8, <1>9 DEF IInv

LEMMA WindowPollsStep ==
  ASSUME IInv, NEW w \in Windows, WindowPolls(w)
  PROVE  IInv'
<1>1. UNCHANGED <<row, activity, tool, grace, hold, responding, pass, stream, farewell,
                  token, faults>>
  BY DEF WindowPolls, carveOut
<1>2. window' \in [Windows -> {"off", "poll", "read", "claim"}]
  BY DEF IInv, TypeOK, WindowPolls, Closes
<1>3. TypeOK'
  BY <1>1, <1>2 DEF IInv, TypeOK, None
<1>4. (ClaimInStep /\ PassUpToDate /\ WindowAfterFarewell /\ TombstoneIsBare)'
  BY DEF IInv, WindowPolls, Closes, carveOut, ClaimInStep, PassUpToDate,
    WindowAfterFarewell, TombstoneIsBare
<1>5. QED
  BY <1>3, <1>4 DEF IInv

LEMMA WindowReadsStep ==
  ASSUME IInv, NEW w \in Windows, WindowReads(w)
  PROVE  IInv'
<1>1. UNCHANGED <<row, activity, tool, grace, hold, responding, pass, stream, farewell,
                  token>>
  BY DEF WindowReads, carveOut
<1>2. window' \in [Windows -> {"off", "poll", "read", "claim"}]
  BY DEF IInv, TypeOK, WindowReads, Closes
<1>3. faults' \in 0..MaxFaults
  BY FaultUses DEF IInv, TypeOK, WindowReads
<1>4. TypeOK'
  BY <1>1, <1>2, <1>3 DEF IInv, TypeOK, None
<1>5. (ClaimInStep /\ PassUpToDate /\ WindowAfterFarewell /\ TombstoneIsBare)'
  BY DEF IInv, WindowReads, Closes, Fault, carveOut, ClaimInStep, PassUpToDate,
    WindowAfterFarewell, TombstoneIsBare
<1>6. QED
  BY <1>4, <1>5 DEF IInv

LEMMA WindowClaimsStep ==
  ASSUME IInv, NEW w \in Windows, WindowClaims(w)
  PROVE  IInv'
<1>1. UNCHANGED <<pass, stream, farewell>>
  BY DEF WindowClaims, carveOut
<1>2. window' \in [Windows -> {"off", "poll", "read", "claim"}]
  BY DEF IInv, TypeOK, WindowClaims, Closes
<1>3. \/ /\ row.state = "active" /\ row' \in Rows /\ row'.state = "claimed"
         /\ token' = None /\ UNCHANGED <<activity, tool, grace, hold, responding>>
      \/ token' \in {token, None} /\ UNCHANGED <<row, activity, tool, grace, hold, responding>>
      \/ row.state # "active" /\ row' = row /\ Gone
  BY ClaimsRow, TombstoneGoes DEF IInv, WindowClaims, carveOut
<1>4. faults' \in 0..MaxFaults
  BY FaultUses DEF IInv, TypeOK, WindowClaims
<1>5. TypeOK'
  BY <1>1, <1>2, <1>3, <1>4 DEF IInv, TypeOK, Gone, Rows, Activities, None
<1>6. ClaimInStep'
  BY <1>1, <1>3 DEF IInv, ClaimInStep, PassUpToDate, TombstoneIsBare, Gone, Rows,
    Activities
<1>7. PassUpToDate'
  BY <1>1, <1>3 DEF IInv, PassUpToDate, ClaimInStep, TombstoneIsBare, Gone, Rows,
    Activities
<1>8. WindowAfterFarewell'
  BY <1>1, <1>3 DEF IInv, WindowAfterFarewell, Gone, Rows, Activities
<1>9. TombstoneIsBare'
  BY <1>1, <1>3 DEF IInv, TombstoneIsBare, ClaimInStep, Gone, Rows, Activities
<1>10. QED
  BY <1>5, <1>6, <1>7, <1>8, <1>9 DEF IInv

-----------------------------------------------------------------------------
LEMMA InitHolds == Init => IInv
<1> SUFFICES ASSUME Init PROVE IInv
  OBVIOUS
<1>1. row \in Rows /\ activity \in Activities /\ pass \in Passes
  BY DEF Init, Rows, Activities, Passes, Marks, None, Asleep
<1>2. stream \in Streams
  BY DEF Init, Streams
<1>3. /\ tool \in BOOLEAN /\ grace \in BOOLEAN /\ responding \in BOOLEAN
      /\ farewell \in BOOLEAN
      /\ ~grace
  BY DEF Init
<1>4. TypeOK
  BY <1>1, <1>2, <1>3, SupervisionAssumption
     DEF Init, TypeOK, Rows, Activities, Passes, Streams
<1>5. ClaimInStep /\ PassUpToDate /\ WindowAfterFarewell /\ TombstoneIsBare
  BY DEF Init, ClaimInStep, PassUpToDate, WindowAfterFarewell, TombstoneIsBare, Asleep
<1>6. QED
  BY <1>4, <1>5 DEF IInv

LEMMA StutterHolds == IInv /\ UNCHANGED vars => IInv'
  BY DEF IInv, vars, TypeOK, ClaimInStep, PassUpToDate, WindowAfterFarewell, TombstoneIsBare

LEMMA NextHolds == IInv /\ [Next]_vars => IInv'
<1> SUFFICES ASSUME IInv, [Next]_vars PROVE IInv'
  OBVIOUS
<1>1. CASE Line
  BY <1>1, FrameStep, ResponseCreatedStep, ResponseEndsStep, CalleeSpeaksStep,
    CalleeStopsStep, OutboundAudioStep, SaysFarewellStep, StartToolStep, EnterHoldStep,
    ExitHoldStep, AcceptEndStep DEF Line
<1>2. CASE MediaMonitorClosed \/ EndsOtherwise \/ FinishTermination
  BY <1>2, MediaMonitorClosedStep, EndsOtherwiseStep, FinishTerminationStep
<1>3. CASE Watchdog
  BY <1>3, BeginPassStep, FlushStep, CheckCallStep, GetCallStep, RecheckCallStep,
    WatchdogTerminatesStep, WatchdogWaitsStep DEF Watchdog
<1>4. CASE Elapse
  BY <1>4, ElapseStep
<1>5. CASE Endings
  BY <1>5, ToolEndsStep, GraceExpiresStep, HoldSuspendedStep, HoldElapsesStep DEF Endings
<1>6. CASE \E w \in Windows : Window(w)
  BY <1>6, WindowPollsStep, WindowReadsStep, WindowClaimsStep DEF Window
<1>7. CASE UNCHANGED vars
  BY <1>7, StutterHolds
<1>8. QED
  BY <1>1, <1>2, <1>3, <1>4, <1>5, <1>6, <1>7 DEF Next

THEOREM IInvAlways == Spec => []IInv
  BY InitHolds, NextHolds, PTL DEF Spec

(* Every variable keeps its type.                                            *)
THEOREM TypesHold == Spec => []TypeOK
<1>1. IInv => TypeOK
  BY DEF IInv
<1>2. QED
  BY <1>1, IInvAlways, PTL

(* Neither a late flush nor a late frame brings the activity of a call back  *)
(* that was taken down (call_activity.py, the tombstone).                    *)
THEOREM DeadStaysDead == Spec => []DeadCallStaysDead
<1>1. IInv => DeadCallStaysDead
  BY DEF IInv, TombstoneIsBare, DeadCallStaysDead
<1>2. QED
  BY <1>1, IInvAlways, PTL

-----------------------------------------------------------------------------
(* Who claims a call, in memory and by voice.                                *)

ClaimsInMemory == activity'.claimed /\ ~activity.claimed
ClaimsByVoice == row'.reason = "voice" /\ row.reason = None

(* What hears or notes something leaves the claim as it is.                  *)
LEMMA NoteClaimsNothing ==
  ASSUME TypeOK, Note, row'.reason = row.reason
  PROVE  ~ClaimsInMemory /\ ~ClaimsByVoice
  BY NoteStirs DEF Stirs, ClaimsInMemory, ClaimsByVoice, None

LEMMA OnlyTheWatchdogAndTheWindowClaim ==
  ASSUME IInv, Next
  PROVE  /\ ClaimsInMemory => CheckCall \/ RecheckCall
         /\ ClaimsByVoice => \E w \in Windows : WindowClaims(w)
<1> USE DEF None
<1>1. CASE Line \/ MediaMonitorClosed \/ Endings
  <2>1. row'.reason = row.reason /\ (Note \/ activity' = activity)
    BY <1>1 DEF Line, Endings, Frame, ResponseCreated, ResponseEnds, CalleeSpeaks,
      CalleeStops, OutboundAudio, SaysFarewell, MediaMonitorClosed, StartTool, EnterHold,
      ExitHold, AcceptEnd, ToolEnds, GraceExpires, HoldSuspended, HoldElapses, Carrier,
      IInv, TypeOK
  <2>2. QED
    BY <2>1, NoteClaimsNothing DEF IInv, ClaimsInMemory, ClaimsByVoice
<1>2. CASE Elapse \/ BeginPass
  BY <1>2, Types DEF Elapse, BeginPass, IInv, ClaimsInMemory, ClaimsByVoice, Activities, Rows
<1>3. CASE Flush
  <2>1. row'.reason = row.reason /\ activity'.claimed = activity.claimed
    BY <1>3, Types DEF Flush, Touched, Restores, IInv, Activities, Rows
  <2>2. QED
    BY <2>1 DEF ClaimsInMemory, ClaimsByVoice
<1>4. CASE EndsOtherwise \/ FinishTermination \/ GetCall \/ WatchdogTerminates \/ WatchdogWaits
  <2>1. row'.reason = row.reason \/ row'.reason \in {"other", "stale", "hold"}
    BY <1>4, Types, ClaimsRow DEF EndsOtherwise, FinishTermination, GetCall,
      WatchdogTerminates, WatchdogWaits, IInv, Rows
  <2>2. activity' = activity \/ ~activity'.claimed
    BY <1>4, Types, TombstoneGoes DEF EndsOtherwise, FinishTermination, GetCall,
      WatchdogTerminates, WatchdogWaits, Gone, IInv, Activities
  <2>3. QED
    BY <2>1, <2>2 DEF ClaimsInMemory, ClaimsByVoice
<1>5. CASE CheckCall \/ RecheckCall
  BY <1>5 DEF CheckCall, RecheckCall, ClaimsByVoice
<1>6. CASE \E w \in Windows : WindowPolls(w) \/ WindowReads(w)
  <2>1. row'.reason = row.reason /\ (Note \/ activity' = activity)
    BY <1>6 DEF WindowPolls, WindowReads
  <2>2. QED
    BY <2>1, NoteClaimsNothing DEF IInv, ClaimsInMemory, ClaimsByVoice
<1>7. CASE \E w \in Windows : WindowClaims(w)
  <2>1. activity' = activity \/ ~activity'.claimed
    BY <1>7, TombstoneGoes DEF WindowClaims, Gone
  <2>2. QED
    BY <1>7, <2>1 DEF ClaimsInMemory
<1>8. QED
  BY <1>1, <1>2, <1>3, <1>4, <1>5, <1>6, <1>7 DEF Next, Watchdog, Window

(* The watchdog claims a call whose hold is over, or one that it still finds *)
(* silent and unexplained at the instant of the claim.                       *)
LEMMA WatchdogHasCause ==
  ASSUME IInv, ClaimsInMemory, CheckCall \/ RecheckCall, row.state = "active"
  PROVE  \/ hold = "over"
         \/ /\ activity.latest # "fresh" /\ row.last = "stale"
            /\ ~AssistantWorkIsLive /\ hold = "no" /\ ~grace
<1>1. CASE CheckCall
  <2>1. hold = "over" \/ Note \/ activity' = activity
    BY <1>1 DEF CheckCall, StaleOr
  <2>2. QED
    BY <2>1, NoteStirs DEF Stirs, ClaimsInMemory, IInv
<1>2. CASE RecheckCall
  <2>1. pass.pc = "recheck" /\ pass.state = "active" /\ RecheckStale
    BY <1>2 DEF RecheckCall, IInv, PassUpToDate
  <2>2. pass.last = "stale" /\ ~AssistantWorkIsLive /\ Unstirred
    BY <2>1, NoteStirs DEF RecheckStale, StaleOr, Stirs, ClaimsInMemory, IInv
  <2>3. QED
    BY <2>1, <2>2 DEF Unstirred, IInv, PassUpToDate
<1>3. QED
  BY <1>1, <1>2

(* The voice ends a call only with a farewell that nobody has answered.      *)
LEMMA VoiceHasCause ==
  ASSUME IInv, ClaimsByVoice, NEW w \in Windows, WindowClaims(w)
  PROVE  /\ farewell /\ token # None /\ ~stream.callee
         /\ stream.connected /\ stream.out = "drained"
<1>1. StillQuiet(w)
  BY DEF WindowClaims, ClaimsByVoice, None
<1>2. QED
  BY <1>1, SupervisionAssumption DEF StillQuiet, IInv, WindowAfterFarewell, None

(* No call is ended, by the watchdog or by voice, on a decision that         *)
(* something heard, begun or said since has overtaken.                       *)
THEOREM DecisionsAreNotOvertaken == Spec => EndsForCause
<1>1. IInv /\ [Next]_vars =>
        [/\ activity'.claimed /\ ~activity.claimed /\ row.state = "active" =>
              \/ hold = "over"
              \/ /\ activity.latest # "fresh" /\ row.last = "stale"
                 /\ ~AssistantWorkIsLive /\ hold = "no" /\ ~grace
         /\ row'.reason = "voice" /\ row.reason = None =>
              /\ farewell /\ token # None /\ ~stream.callee
              /\ stream.connected /\ stream.out = "drained"]_vars
  BY OnlyTheWatchdogAndTheWindowClaim, WatchdogHasCause, VoiceHasCause
     DEF ClaimsInMemory, ClaimsByVoice
<1>2. QED
  BY <1>1, IInvAlways, PTL DEF Spec, EndsForCause
=============================================================================
