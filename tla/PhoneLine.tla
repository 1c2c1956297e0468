------------------------------ MODULE PhoneLine ------------------------------
(***************************************************************************)
(* What call admission promises its clients: the service is one phone line. *)
(* It carries at most one call, a confirmed plan buys at most one call, and *)
(* while a deployment holds the line nothing can be dialled.                *)
(***************************************************************************)
CONSTANTS Calls, Plans

VARIABLES
  line,    \* the calls on the line
  spent,   \* the plans that have bought their call
  held     \* a deployment holds the line

lineVars == <<line, spent, held>>

Init == line = {} /\ spent = {} /\ held = FALSE

Dial(c, p) ==
  /\ line = {} /\ ~held /\ p \notin spent
  /\ line' = {c}
  /\ spent' = spent \cup {p}
  /\ UNCHANGED held

HangUp(c) ==
  /\ c \in line
  /\ line' = line \ {c}
  /\ UNCHANGED <<spent, held>>

Hold   == line = {} /\ held' = TRUE /\ UNCHANGED <<line, spent>>
Unhold == held' = FALSE /\ UNCHANGED <<line, spent>>

Next == \/ \E c \in Calls, p \in Plans : Dial(c, p)
        \/ \E c \in Calls : HangUp(c)
        \/ Hold \/ Unhold

Spec == Init /\ [][Next]_lineVars
=============================================================================
