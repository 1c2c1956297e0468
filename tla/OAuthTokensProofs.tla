-------------------------- MODULE OAuthTokensProofs --------------------------
(***************************************************************************)
(* The OAuth server keeps its promises for every number of requests, rows, *)
(* faults and restarts: a grant is used once, and a family that someone    *)
(* was told is revoked is of no use to any later request.                  *)
(***************************************************************************)
EXTENDS OAuthTokens, TLAPS

Spent == {"consumed", "revoked", "gone"}
Dead == {"revoked", "gone"}

(* Every row names the row it came from, and that row is used up.           *)
CodeRows ==
  \A c \in Codes : /\ codes[c].st = "none" <=> codes[c].txn = None
                   /\ codes[c].st # "none" => txns[codes[c].txn] \in {"consumed", "gone"}
FamRows ==
  \A f \in Fams : /\ fams[f].st = "none" <=> fams[f].code = None
                  /\ fams[f].st # "none" => codes[fams[f].code].st = "consumed"
PairRows ==
  \A p \in Pairs :
    /\ pairs[p].jti = "none" <=> pairs[p].fam = None
    /\ pairs[p].jti = "none" => pairs[p].refresh = "none" /\ pairs[p].from = None
    /\ pairs[p].fam # None => fams[pairs[p].fam].st # "none"
    /\ pairs[p].from # None => pairs[pairs[p].from].refresh \in Spent
    /\ p \in held => pairs[p].jti # "none"

(* What a coroutine has consumed and not yet turned into the next grant.    *)
HoldsTxn(r) == req[r].pc = "insert_code"
HoldsCode(r) == req[r].pc \in {"purge", "insert_family"} /\ req[r].fam = None /\ r # Boot
HoldsRefresh(r) == req[r].pc \in {"purge", "check_family", "insert_jti"} /\ req[r].fam # None
HoldsFamily(r) == HoldsRefresh(r) \/ req[r].pc = "insert_refresh"

(* A coroutine knows rows that exist, and nothing has come of what it holds. *)
Place(r) ==
  /\ req[r].fam # None => fams[req[r].fam].st # "none"
  /\ \A f \in req[r].todo : fams[f].st # "none"
  /\ req[r].pc \in {"consent", "decide", "consume_txn", "insert_code"} => req[r].on \in Txns
  /\ HoldsTxn(r) => /\ txns[req[r].on] \in {"consumed", "gone"}
                    /\ \A c \in Codes : codes[c].txn # req[r].on
  /\ req[r].pc = "consume_code" => req[r].on \in Codes
  /\ req[r].pc \in {"consume_code", "insert_family"} => req[r].fam = None
  /\ HoldsCode(r) => /\ req[r].on \in Codes /\ codes[req[r].on].st = "consumed"
                     /\ \A f \in Fams : fams[f].code # req[r].on
  /\ req[r].pc \in {"family", "consume_refresh", "jti", "serving"} =>
       /\ req[r].on \in Pairs /\ req[r].fam # None
       /\ req[r].fam = pairs[req[r].on].fam
  /\ HoldsRefresh(r) /\ req[r].on # None =>
       /\ req[r].on \in Pairs /\ pairs[req[r].on].refresh \in Spent
       /\ pairs[req[r].on].fam = req[r].fam
       /\ \A q \in Pairs : pairs[q].from # req[r].on
  /\ req[r].pc \in {"check_family", "insert_jti", "insert_refresh", "answer",
                    "revoke_family", "revoke_refresh", "revoke_access"} => req[r].fam # None
  /\ req[r].pc \in {"insert_refresh", "answer"} =>
       /\ req[r].on \in Pairs /\ pairs[req[r].on].fam = req[r].fam
  /\ req[r].pc = "insert_refresh" => pairs[req[r].on].refresh = "none"

(* No two coroutines hold the same grant, and no token of a family can be    *)
(* used while the next one of that family is on its way.                    *)
Apart ==
  /\ \A r, s \in Actors : HoldsTxn(r) /\ HoldsTxn(s) /\ req[r].on = req[s].on => r = s
  /\ \A r, s \in Actors : HoldsCode(r) /\ HoldsCode(s) /\ req[r].on = req[s].on => r = s
  /\ \A r, s \in Actors :
       HoldsFamily(r) /\ HoldsFamily(s) /\ req[r].fam = req[s].fam => r = s
  /\ \A r \in Actors, p \in Pairs :
       HoldsFamily(r) /\ pairs[p].refresh = "live" => pairs[p].fam # req[r].fam

(* What has been told is so, and what a coroutine may still hand out or let   *)
(* in was not among it when the coroutine started.                          *)
Informed(r) ==
  /\ req[r].since \subseteq told
  /\ req[r].pc \in {"revoke_refresh", "revoke_access"} => fams[req[r].fam].st \in Dead
  /\ HoldsFamily(r) \/ req[r].pc \in {"consume_refresh", "answer", "jti", "serving"} =>
       req[r].fam \notin req[r].since
ToldIsDead ==
  /\ \A f \in told : fams[f].st \in Dead
  /\ \A r \in Actors : Informed(r)

(* The server's start works alone and reaches every family it listed.        *)
BootRevokes ==
  /\ req[Boot].pc \in {"idle", "boot", "next", "revoke_family", "revoke_refresh",
                       "revoke_access", "fingerprints", "purge"}
  /\ req[Boot].pc = "purge" => req[Boot].fam = None
  /\ req[Boot].pc # "idle" => \A r \in Requests : req[r].pc = "idle"
  /\ req[Boot].pc \in {"next", "revoke_family", "revoke_refresh", "revoke_access"} =>
       /\ req[Boot].kind = "all"
       /\ \A f \in Unrevoked : f \in req[Boot].todo
                                 \/ (req[Boot].pc = "revoke_family" /\ f = req[Boot].fam)
  /\ req[Boot].pc = "fingerprints" => Unrevoked = {}

IInv == /\ TypeOK
        /\ CodeRows /\ FamRows /\ PairRows
        /\ \A r \in Actors : Place(r)
        /\ Apart /\ GrantsUsedOnce
        /\ ToldIsDead /\ BootRevokes

------------------------------------------------------------------------------
(* A step moves one coroutine; how each of the ways to move it does.         *)
Moved(r) ==
  /\ req' \in [Actors -> Coroutines]
  /\ \A s \in Actors : s # r => req'[s] = req[s]

LEMMA GoesMoves ==
  ASSUME TypeOK, NEW r \in Actors, NEW pc \in Places, Goes(r, pc)
  PROVE  /\ Moved(r) /\ req'[r].pc = pc
         /\ req'[r].kind = req[r].kind /\ req'[r].on = req[r].on
         /\ req'[r].fam = req[r].fam
         /\ req'[r].todo = req[r].todo /\ req'[r].since = req[r].since
  BY DEF TypeOK, Goes, Moved, Coroutines

LEMMA NamesAreNumbers ==
  /\ Txns \subseteq Nat /\ Codes \subseteq Nat /\ Pairs \subseteq Nat /\ None \in Nat
  /\ None \notin Txns /\ None \notin Codes /\ None \notin Fams /\ None \notin Pairs
  BY BoundsAssumption DEF Txns, Codes, Fams, Pairs, None

LEMMA IdleType == Idle \in Coroutines
  BY DEF Idle, Doing, Coroutines, Places, Kinds, None

LEMMA AnswersMoves ==
  ASSUME TypeOK, NEW r \in Actors, Answers(r)
  PROVE  /\ Moved(r) /\ req'[r].pc = "idle"
         /\ req'[r].fam = None /\ req'[r].todo = {} /\ req'[r].since = {}
  BY IdleType DEF TypeOK, Answers, Moved, Idle, Doing

LEMMA DoingType ==
  ASSUME NEW pc \in Places, NEW kind \in Kinds, NEW on \in Nat,
         NEW fam \in Fams \cup {None}, NEW todo \in SUBSET Fams, NEW since \in SUBSET Fams
  PROVE  Doing(pc, kind, on, fam, todo, since) \in Coroutines
  BY DEF Doing, Coroutines, None

LEMMA StartsMoves ==
  ASSUME TypeOK, NEW r, NEW start \in Coroutines, Starts(r, start)
  PROVE  /\ Moved(r) /\ req'[r] = start
         /\ r \in Actors /\ r \in Requests
         /\ req[r].pc = "idle" /\ req[Boot].pc = "idle"
  BY DEF TypeOK, Starts, Moved, Actors

LEMMA RevokesMoves ==
  ASSUME TypeOK, NEW r \in Actors, NEW f \in Fams, Revokes(r, f)
  PROVE  /\ Moved(r) /\ req'[r].pc = "revoke_family"
         /\ req'[r].fam = f /\ req'[r].todo = {} /\ req'[r].since = {}
<1>1. Doing("revoke_family", "none", None, f, {}, {}) \in Coroutines
  BY DoingType DEF Places, Kinds, None
<1>2. QED
  BY <1>1 DEF TypeOK, Revokes, Moved, Doing

------------------------------------------------------------------------------
(* A step that leaves the tables alone and moves one coroutine, which takes  *)
(* hold of nothing new.                                                      *)
Quiet(r) ==
  /\ r \in Actors
  /\ UNCHANGED <<tables, told>>
  /\ Moved(r)
  /\ ~HoldsTxn(r)' /\ ~HoldsCode(r)'
  /\ HoldsFamily(r)' => HoldsFamily(r) /\ req'[r].fam = req[r].fam

LEMMA QuietKeeps ==
  ASSUME IInv, NEW r \in Actors, Quiet(r),
         PairRows', Place(r)', Informed(r)', BootRevokes',
         held' \subseteq Pairs, failures' \in 0..AttemptLimit, rotated' \in BOOLEAN,
         faults' \in 0..MaxFaults, restarts' \in 0..MaxRestarts
  PROVE  IInv'
<1>1. \A s \in Actors : s # r => req'[s] = req[s]
  BY DEF Quiet, Moved
<1>2. CodeRows' /\ FamRows' /\ GrantsUsedOnce'
  BY DEF IInv, Quiet, tables, CodeRows, FamRows, GrantsUsedOnce
<1>3. ASSUME NEW s \in Actors PROVE Place(s)' /\ Informed(s)'
  <2>1. CASE s = r
    BY <2>1
  <2>2. CASE s # r
    <3>1. Place(s) /\ Informed(s)
      BY DEF IInv, ToldIsDead
    <3>2. QED
      BY <1>1, <2>2, <3>1
      DEF Quiet, tables, Place, Informed, HoldsTxn, HoldsCode, HoldsRefresh, HoldsFamily
  <2>3. QED
    BY <2>1, <2>2
<1>4. Apart'
  BY <1>1 DEF IInv, Quiet, tables, Apart, HoldsTxn, HoldsCode, HoldsFamily, HoldsRefresh
<1>5. ToldIsDead'
  BY <1>3 DEF IInv, Quiet, tables, ToldIsDead
<1>6. TypeOK'
  BY DEF IInv, Quiet, tables, TypeOK, Moved
<1>7. QED
  BY <1>2, <1>3, <1>4, <1>5, <1>6 DEF IInv

(* A request that is under way, or may start, does not meet the server's own  *)
(* start.                                                                    *)
LEMMA RequestsMeetNoBoot ==
  ASSUME IInv, NEW r \in Requests, Moved(r),
         req[r].pc # "idle" \/ req[Boot].pc = "idle"
  PROVE  BootRevokes' /\ req[Boot].pc = "idle"
<1>1. Boot \in Actors /\ Boot # r
  BY BootAssumption DEF Actors
<1>2. req[Boot].pc = "idle"
  BY DEF IInv, BootRevokes
<1>3. req'[Boot] = req[Boot]
  BY <1>1 DEF Moved
<1>4. QED
  BY <1>2, <1>3 DEF BootRevokes

(* The two ways out of a request that leave the tables alone.                *)
LEMMA AnswersQuietly ==
  ASSUME IInv, NEW r \in Requests, Answers(r), UNCHANGED <<tables, told>>,
         req[r].pc # "idle"
  PROVE  Quiet(r) /\ Place(r)' /\ Informed(r)' /\ BootRevokes'
<1>1. r \in Actors /\ TypeOK
  BY DEF Actors, IInv
<1>2. /\ Moved(r) /\ req'[r].pc = "idle"
      /\ req'[r].fam = None /\ req'[r].todo = {} /\ req'[r].since = {}
  BY <1>1, AnswersMoves
<1>3. Quiet(r) /\ Place(r)' /\ Informed(r)'
  BY <1>1, <1>2 DEF Quiet, Place, Informed, HoldsTxn, HoldsCode, HoldsRefresh, HoldsFamily
<1>4. BootRevokes'
  BY <1>2, RequestsMeetNoBoot DEF tables
<1>5. QED
  BY <1>3, <1>4

LEMMA RevokesQuietly ==
  ASSUME IInv, NEW r \in Requests, Revokes(r, req[r].fam), UNCHANGED <<tables, told>>,
         req[r].pc # "idle", req[r].fam # None
  PROVE  Quiet(r) /\ Place(r)' /\ Informed(r)' /\ BootRevokes'
<1>1. r \in Actors /\ TypeOK /\ Place(r)
  BY DEF Actors, IInv
<1>2. req[r].fam \in Fams
  BY <1>1 DEF TypeOK, Coroutines
<1>3. /\ Moved(r) /\ req'[r].pc = "revoke_family"
      /\ req'[r].fam = req[r].fam /\ req'[r].todo = {} /\ req'[r].since = {}
  BY <1>1, <1>2, RevokesMoves
<1>4. Quiet(r) /\ Place(r)' /\ Informed(r)'
  BY <1>1, <1>2, <1>3
  DEF Quiet, tables, Place, Informed, HoldsTxn, HoldsCode, HoldsRefresh, HoldsFamily
<1>5. BootRevokes'
  BY <1>3, RequestsMeetNoBoot DEF tables
<1>6. QED
  BY <1>4, <1>5

(* A request that only reads goes on to its next statement.                  *)
LEMMA GoesQuietly ==
  ASSUME IInv, NEW r \in Requests, NEW pc \in Places, Goes(r, pc),
         UNCHANGED <<tables, told>>, req[r].pc # "idle",
         \/ req[r].pc = "consent" /\ pc = "decide"
         \/ req[r].pc = "decide" /\ pc = "consume_txn"
         \/ req[r].pc = "family" /\ pc = "consume_refresh" /\ fams[req[r].fam].st = "live"
         \/ req[r].pc = "check_family" /\ pc = "insert_jti"
         \/ req[r].pc = "jti" /\ pc = "serving"
  PROVE  Quiet(r) /\ Place(r)' /\ Informed(r)' /\ BootRevokes'
<1>1. r \in Actors /\ TypeOK /\ Place(r) /\ Informed(r)
  BY DEF Actors, IInv, ToldIsDead
<1>2. /\ Moved(r) /\ req'[r].pc = pc
      /\ req'[r].on = req[r].on /\ req'[r].fam = req[r].fam
      /\ req'[r].todo = req[r].todo /\ req'[r].since = req[r].since
  BY <1>1, GoesMoves
<1>3. Quiet(r)
  BY <1>1, <1>2 DEF Quiet, HoldsTxn, HoldsCode, HoldsRefresh, HoldsFamily
<1>4. Place(r)'
  BY <1>1, <1>2 DEF tables, Place, HoldsTxn, HoldsCode, HoldsRefresh
<1>5. Informed(r)'
  <2>1. fams[req[r].fam].st = "live" => req[r].fam \notin told
    BY DEF IInv, ToldIsDead, Dead
  <2>2. QED
    BY <1>1, <1>2, <2>1 DEF tables, Informed, HoldsRefresh, HoldsFamily
<1>6. BootRevokes'
  BY <1>2, RequestsMeetNoBoot DEF tables
<1>7. QED
  BY <1>3, <1>4, <1>5, <1>6

LEMMA ConsentPostedStep ==
  ASSUME IInv, NEW r \in Requests, NEW t \in Txns, 
         NEW kind \in {"approve", "deny", "mistaken"}, ConsentPosted(r, t, kind)
  PROVE  IInv'
<1> DEFINE start == Doing("consent", kind, t, None, {}, {})
<1>1. start \in Coroutines
  <2>1. t \in Nat /\ kind \in Kinds
    BY NamesAreNumbers DEF Kinds
  <2>2. QED
    BY <2>1, NamesAreNumbers, DoingType DEF Places, Kinds
<1>2. /\ Starts(r, start)
      /\ UNCHANGED <<tables, told, held, failures, rotated, faults, restarts>>
  BY DEF ConsentPosted
<1>3. /\ Moved(r) /\ req'[r] = start
      /\ r \in Actors /\ req[r].pc = "idle" /\ req[Boot].pc = "idle"
  BY <1>1, <1>2, StartsMoves DEF IInv
<1>4. Quiet(r)
  BY <1>2, <1>3 DEF Quiet, HoldsTxn, HoldsCode, HoldsRefresh, HoldsFamily, Doing
<1>5. Place(r)'
  BY <1>2, <1>3 DEF ConsentPosted, IInv, TypeOK, PairRows, Place, HoldsTxn, HoldsCode,
     HoldsRefresh, Doing, tables, None
<1>6. Informed(r)'
  BY <1>2, <1>3 DEF ConsentPosted, IInv, ToldIsDead, Informed, HoldsRefresh, HoldsFamily,
     Doing, tables, Dead
<1>7. PairRows' /\ BootRevokes'
  BY <1>2, <1>3, RequestsMeetNoBoot DEF IInv, PairRows, tables
<1>8. QED
  BY <1>2, <1>3, <1>4, <1>5, <1>6, <1>7, QuietKeeps DEF IInv, TypeOK

LEMMA CodePresentedStep ==
  ASSUME IInv, NEW r \in Requests, NEW c \in Codes, CodePresented(r, c)
  PROVE  IInv'
<1> DEFINE start == Doing("consume_code", "token", c, None, {}, {})
<1>1. start \in Coroutines
  <2>1. c \in Nat
    BY NamesAreNumbers
  <2>2. QED
    BY <2>1, NamesAreNumbers, DoingType DEF Places, Kinds
<1>2. /\ Starts(r, start)
      /\ UNCHANGED <<tables, told, held, failures, rotated, faults, restarts>>
  BY DEF CodePresented
<1>3. /\ Moved(r) /\ req'[r] = start
      /\ r \in Actors /\ req[r].pc = "idle" /\ req[Boot].pc = "idle"
  BY <1>1, <1>2, StartsMoves DEF IInv
<1>4. Quiet(r)
  BY <1>2, <1>3 DEF Quiet, HoldsTxn, HoldsCode, HoldsRefresh, HoldsFamily, Doing
<1>5. Place(r)'
  BY <1>2, <1>3 DEF CodePresented, IInv, TypeOK, PairRows, Place, HoldsTxn, HoldsCode,
     HoldsRefresh, Doing, tables, None
<1>6. Informed(r)'
  BY <1>2, <1>3 DEF CodePresented, IInv, ToldIsDead, Informed, HoldsRefresh, HoldsFamily,
     Doing, tables, Dead
<1>7. PairRows' /\ BootRevokes'
  BY <1>2, <1>3, RequestsMeetNoBoot DEF IInv, PairRows, tables
<1>8. QED
  BY <1>2, <1>3, <1>4, <1>5, <1>6, <1>7, QuietKeeps DEF IInv, TypeOK

LEMMA RefreshPresentedStep ==
  ASSUME IInv, NEW r \in Requests, NEW p \in Pairs, NEW kind \in {"token", "revoke"},
         RefreshPresented(r, p, kind)
  PROVE  IInv'
<1> DEFINE start == Doing("family", IF pairs[p].refresh = "live" THEN kind ELSE "reuse",
                            p, pairs[p].fam, {}, told)
<1>1. start \in Coroutines
  <2>1. p \in Nat /\ kind \in Kinds /\ pairs[p].fam \in Fams \cup {None} /\ told \in SUBSET Fams
    BY NamesAreNumbers DEF IInv, TypeOK, Kinds
  <2>2. QED
    BY <2>1, NamesAreNumbers, DoingType DEF Places, Kinds
<1>2. /\ Starts(r, start)
      /\ UNCHANGED <<tables, told, held, failures, rotated, faults, restarts>>
  BY DEF RefreshPresented
<1>3. /\ Moved(r) /\ req'[r] = start
      /\ r \in Actors /\ req[r].pc = "idle" /\ req[Boot].pc = "idle"
  BY <1>1, <1>2, StartsMoves DEF IInv
<1>4. Quiet(r)
  BY <1>2, <1>3 DEF Quiet, HoldsTxn, HoldsCode, HoldsRefresh, HoldsFamily, Doing
<1>5. Place(r)'
  BY <1>2, <1>3 DEF RefreshPresented, IInv, TypeOK, PairRows, Place, HoldsTxn, HoldsCode,
     HoldsRefresh, Doing, tables, None
<1>6. Informed(r)'
  BY <1>2, <1>3 DEF RefreshPresented, IInv, ToldIsDead, Informed, HoldsRefresh, HoldsFamily,
     Doing, tables, Dead
<1>7. PairRows' /\ BootRevokes'
  BY <1>2, <1>3, RequestsMeetNoBoot DEF IInv, PairRows, tables
<1>8. QED
  BY <1>2, <1>3, <1>4, <1>5, <1>6, <1>7, QuietKeeps DEF IInv, TypeOK

LEMMA AccessPresentedStep ==
  ASSUME IInv, NEW r \in Requests, NEW p \in Pairs, NEW kind \in {"call", "revoke"},
         AccessPresented(r, p, kind)
  PROVE  IInv'
<1> DEFINE start == Doing("jti", kind, p, pairs[p].fam, {}, told)
<1>1. start \in Coroutines
  <2>1. p \in Nat /\ kind \in Kinds /\ pairs[p].fam \in Fams \cup {None} /\ told \in SUBSET Fams
    BY NamesAreNumbers DEF IInv, TypeOK, Kinds
  <2>2. QED
    BY <2>1, NamesAreNumbers, DoingType DEF Places, Kinds
<1>2. /\ Starts(r, start)
      /\ UNCHANGED <<tables, told, held, failures, rotated, faults, restarts>>
  BY DEF AccessPresented
<1>3. /\ Moved(r) /\ req'[r] = start
      /\ r \in Actors /\ req[r].pc = "idle" /\ req[Boot].pc = "idle"
  BY <1>1, <1>2, StartsMoves DEF IInv
<1>4. Quiet(r)
  BY <1>2, <1>3 DEF Quiet, HoldsTxn, HoldsCode, HoldsRefresh, HoldsFamily, Doing
<1>5. Place(r)'
  BY <1>2, <1>3 DEF AccessPresented, IInv, TypeOK, PairRows, Place, HoldsTxn, HoldsCode,
     HoldsRefresh, Doing, tables, None
<1>6. Informed(r)'
  BY <1>2, <1>3 DEF AccessPresented, IInv, ToldIsDead, Informed, HoldsRefresh, HoldsFamily,
     Doing, tables, Dead
<1>7. PairRows' /\ BootRevokes'
  BY <1>2, <1>3, RequestsMeetNoBoot DEF IInv, PairRows, tables
<1>8. QED
  BY <1>2, <1>3, <1>4, <1>5, <1>6, <1>7, QuietKeeps DEF IInv, TypeOK

LEMMA RevokeAllPostedStep ==
  ASSUME IInv, NEW r \in Requests, RevokeAllPosted(r)
  PROVE  IInv'
<1> DEFINE start == Doing("next", "all", None, None, Unrevoked, {})
<1>1. start \in Coroutines
  <2>1. Unrevoked \in SUBSET Fams
    BY DEF Unrevoked
  <2>2. QED
    BY <2>1, NamesAreNumbers, DoingType DEF Places, Kinds
<1>2. /\ Starts(r, start)
      /\ UNCHANGED <<tables, told, held, failures, rotated, faults, restarts>>
  BY DEF RevokeAllPosted
<1>3. /\ Moved(r) /\ req'[r] = start
      /\ r \in Actors /\ req[r].pc = "idle" /\ req[Boot].pc = "idle"
  BY <1>1, <1>2, StartsMoves DEF IInv
<1>4. Quiet(r)
  BY <1>2, <1>3 DEF Quiet, HoldsTxn, HoldsCode, HoldsRefresh, HoldsFamily, Doing
<1>5. Place(r)'
  BY <1>2, <1>3 DEF RevokeAllPosted, IInv, TypeOK, PairRows, Place, HoldsTxn, HoldsCode,
     HoldsRefresh, Doing, Unrevoked, tables, None
<1>6. Informed(r)'
  BY <1>2, <1>3 DEF RevokeAllPosted, IInv, ToldIsDead, Informed, HoldsRefresh, HoldsFamily,
     Doing, tables, Dead
<1>7. PairRows' /\ BootRevokes'
  BY <1>2, <1>3, RequestsMeetNoBoot DEF IInv, PairRows, tables
<1>8. QED
  BY <1>2, <1>3, <1>4, <1>5, <1>6, <1>7, QuietKeeps DEF IInv, TypeOK

(* The steps of a request that read, or that end it.                         *)
LEMMA ReadingStep ==
  ASSUME IInv, NEW r \in Requests,
         \/ ConsentRead(r) \/ DecisionRead(r) \/ FamilyRead(r) \/ CheckFamily(r)
         \/ JtiRead(r) \/ Served(r) \/ Fault(r)
  PROVE  IInv'
<1>1. r \in Actors /\ TypeOK /\ Place(r)
  BY DEF Actors, IInv
<1>2. UNCHANGED <<tables, told, held, restarts, rotated>> /\ req[r].pc # "idle"
  BY DEF ConsentRead, DecisionRead, FamilyRead, CheckFamily, JtiRead, Served, Fault
<1>3. failures' \in 0..AttemptLimit
  BY <1>1, BoundsAssumption DEF TypeOK, Failed, ConsentRead, DecisionRead, FamilyRead,
     CheckFamily, JtiRead, Served, Fault
<1>4. faults' \in 0..MaxFaults
  BY <1>1, BoundsAssumption DEF TypeOK, ConsentRead, DecisionRead, FamilyRead,
     CheckFamily, JtiRead, Served, Fault
<1>5. \/ Answers(r)
      \/ Revokes(r, req[r].fam) /\ req[r].fam # None
      \/ \E pc \in Places : /\ Goes(r, pc)
                            /\ \/ req[r].pc = "consent" /\ pc = "decide"
                               \/ req[r].pc = "decide" /\ pc = "consume_txn"
                               \/ /\ req[r].pc = "family" /\ pc = "consume_refresh"
                                  /\ fams[req[r].fam].st = "live"
                               \/ req[r].pc = "check_family" /\ pc = "insert_jti"
                               \/ req[r].pc = "jti" /\ pc = "serving"
  BY <1>1 DEF ConsentRead, DecisionRead, FamilyRead, CheckFamily, JtiRead, Served, Fault,
     Places, Place
<1>6. Quiet(r) /\ Place(r)' /\ Informed(r)' /\ BootRevokes'
  BY <1>2, <1>5, AnswersQuietly, RevokesQuietly, GoesQuietly
<1>7. PairRows'
  BY <1>2 DEF IInv, PairRows, tables
<1>8. QED
  BY <1>1, <1>2, <1>3, <1>4, <1>6, <1>7, QuietKeeps DEF TypeOK

LEMMA AnswerPairStep ==
  ASSUME IInv, NEW r \in Requests, AnswerPair(r)
  PROVE  IInv'
<1>1. r \in Actors /\ TypeOK /\ Place(r) /\ req[r].on \in Pairs
  BY DEF Actors, IInv, TypeOK, Coroutines, AnswerPair, Place
<1>2. Quiet(r) /\ Place(r)' /\ Informed(r)' /\ BootRevokes'
  BY AnswersQuietly DEF AnswerPair
<1>3. pairs[req[r].on].jti # "none"
  BY <1>1 DEF AnswerPair, Place, IInv, PairRows
<1>4. PairRows'
  BY <1>3 DEF AnswerPair, IInv, PairRows, tables
<1>5. QED
  BY <1>1, <1>2, <1>4, QuietKeeps DEF AnswerPair, TypeOK

------------------------------------------------------------------------------
(* A step that changes rows only ever moves them forward.                    *)
Forward ==
  /\ \A t \in Txns : txns[t] \in {"consumed", "gone"} => txns'[t] \in {"consumed", "gone"}
  /\ \A c \in Codes : codes[c].st = "consumed" => codes'[c].st = "consumed"
  /\ \A f \in Fams : /\ fams[f].st # "none" => fams'[f].st # "none"
                     /\ fams[f].st \in Dead => fams'[f].st \in Dead
  /\ \A p \in Pairs : /\ pairs[p].fam # None => pairs'[p].fam = pairs[p].fam
                      /\ pairs[p].refresh \in Spent => pairs'[p].refresh \in Spent
  /\ told \subseteq told'

(* It makes nothing of what another coroutine holds.                         *)
Untouched(s) ==
  /\ HoldsTxn(s) => \A c \in Codes : codes'[c].txn # req[s].on
  /\ HoldsCode(s) => \A f \in Fams : fams'[f].code # req[s].on
  /\ HoldsRefresh(s) /\ req[s].on # None => \A q \in Pairs : pairs'[q].from # req[s].on
  /\ req[s].pc = "insert_refresh" => pairs'[req[s].on].refresh = "none"

LEMMA OthersStay ==
  ASSUME IInv, NEW s \in Actors, req'[s] = req[s], Forward, Untouched(s)
  PROVE  Place(s)' /\ Informed(s)'
<1>1. Place(s) /\ Informed(s) /\ req[s] \in Coroutines
  BY DEF IInv, ToldIsDead, TypeOK
<1>2. req[s].fam # None => req[s].fam \in Fams
  BY <1>1 DEF Coroutines
<1>3. Place(s)'
  <2>1. \A f \in req'[s].todo : fams'[f].st # "none"
    BY <1>1 DEF Place, Forward, Coroutines
  <2>2. QED
    BY <1>1, <1>2, <2>1 DEF Place, Forward, Untouched, HoldsTxn, HoldsCode, HoldsRefresh
<1>4. Informed(s)'
  BY <1>1, <1>2 DEF Place, Informed, Forward, HoldsRefresh, HoldsFamily
<1>5. QED
  BY <1>3, <1>4

(* A row nobody holds changes while every coroutine stays where it is.       *)
LEMMA AuthorizeStep ==
  ASSUME IInv, Authorize
  PROVE  IInv'
<1>1. txns' \in [Txns -> {"none", "open", "expired", "consumed", "gone"}]
  BY DEF IInv, TypeOK, Authorize, First, LiveTxns
<1>2. Forward
  BY DEF IInv, TypeOK, Authorize, First, LiveTxns, Forward
<1>3. ASSUME NEW s \in Actors PROVE Place(s)' /\ Informed(s)'
  <2>1. Untouched(s)
    BY DEF IInv, Place, Untouched, Authorize
  <2>2. QED
    BY <1>2, <2>1, OthersStay DEF Authorize
<1>4. TypeOK'
  BY <1>1 DEF IInv, TypeOK, Authorize
<1>5. CodeRows'
  BY <1>2 DEF IInv, TypeOK, CodeRows, Authorize, Forward
<1>6. FamRows' /\ PairRows' /\ Apart' /\ GrantsUsedOnce' /\ BootRevokes'
  BY DEF IInv, FamRows, PairRows, Apart, GrantsUsedOnce, BootRevokes, Authorize,
     HoldsTxn, HoldsCode, HoldsRefresh, HoldsFamily, Unrevoked
<1>7. ToldIsDead'
  BY <1>3 DEF IInv, ToldIsDead, Authorize
<1>8. QED
  BY <1>3, <1>4, <1>5, <1>6, <1>7 DEF IInv

LEMMA ExpiresStep ==
  ASSUME IInv, Expires
  PROVE  IInv'
<1>1. Forward
  BY DEF IInv, TypeOK, Expires, Forward, Dead, Spent
<1>2. /\ \A c \in Codes : codes'[c].txn = codes[c].txn
      /\ \A c \in Codes : codes'[c].st = "none" <=> codes[c].st = "none"
      /\ \A f \in Fams : fams'[f].code = fams[f].code
      /\ \A f \in Fams : fams'[f].st = "none" <=> fams[f].st = "none"
      /\ \A p \in Pairs : /\ pairs'[p].from = pairs[p].from
                          /\ pairs'[p].fam = pairs[p].fam
                          /\ pairs'[p].refresh = pairs[p].refresh
                          /\ pairs'[p].jti = "none" <=> pairs[p].jti = "none"
  BY DEF IInv, TypeOK, Expires
<1>3. ASSUME NEW s \in Actors PROVE Place(s)' /\ Informed(s)'
  <2>1. Untouched(s)
    BY <1>2 DEF IInv, TypeOK, Coroutines, Place, Untouched
  <2>2. QED
    BY <1>1, <2>1, OthersStay DEF Expires
<1>4. TypeOK'
  BY DEF IInv, TypeOK, Expires
<1>5. CodeRows' /\ FamRows' /\ PairRows'
  BY <1>1, <1>2 DEF IInv, TypeOK, CodeRows, FamRows, PairRows, Expires, Forward
<1>6. Apart' /\ GrantsUsedOnce'
  BY <1>2 DEF IInv, Apart, GrantsUsedOnce, Expires, HoldsTxn, HoldsCode, HoldsRefresh,
     HoldsFamily
<1>7. Unrevoked' = Unrevoked
  BY DEF IInv, TypeOK, Expires, Unrevoked
<1>8. BootRevokes'
  BY <1>7 DEF IInv, BootRevokes, Expires
<1>9. ToldIsDead'
  BY <1>1, <1>3 DEF IInv, TypeOK, ToldIsDead, Expires, Forward
<1>10. QED
  BY <1>3, <1>4, <1>5, <1>6, <1>8, <1>9 DEF IInv

------------------------------------------------------------------------------
(* A transaction is consumed by one coroutine, which alone makes the code.   *)
LEMMA ConsumeTxnStep ==
  ASSUME IInv, NEW r \in Requests, ConsumeTxn(r)
  PROVE  IInv'
<1> DEFINE t == req[r].on
<1>1. /\ r \in Actors /\ TypeOK /\ Place(r) /\ Informed(r) /\ t \in Txns
      /\ req[r].pc = "consume_txn"
  BY DEF Actors, IInv, ToldIsDead, ConsumeTxn, Place
<1>2. /\ UNCHANGED <<codes, fams, pairs, held, rotated, told, faults, restarts>>
      /\ failures' \in 0..AttemptLimit
  BY <1>1, BoundsAssumption DEF ConsumeTxn, Failed, TypeOK
<1>3. \/ Answers(r) /\ txns' = txns
      \/ Answers(r) /\ TxnConsumed(t)
      \/ Goes(r, "insert_code") /\ TxnConsumed(t)
  BY <1>1 DEF ConsumeTxn
<1>4. CASE Answers(r) /\ txns' = txns
  <2>1. Quiet(r) /\ Place(r)' /\ Informed(r)' /\ BootRevokes'
    BY <1>1, <1>2, <1>4, AnswersQuietly DEF tables
  <2>2. PairRows'
    BY <1>2 DEF IInv, PairRows
  <2>3. QED
    BY <1>1, <1>2, <2>1, <2>2, QuietKeeps DEF TypeOK
<1>5. CASE TxnConsumed(t) /\ (Answers(r) \/ Goes(r, "insert_code"))
  <2>1. Moved(r)
    BY <1>1, <1>5, AnswersMoves, GoesMoves DEF Places
  <2>2. \/ req'[r].pc = "idle" /\ req'[r].fam = None /\ req'[r].todo = {} /\ req'[r].since = {}
        \/ /\ req'[r].pc = "insert_code" /\ req'[r].on = t
           /\ req'[r].fam = req[r].fam
           /\ req'[r].todo = req[r].todo /\ req'[r].since = req[r].since
    BY <1>1, <1>5, AnswersMoves, GoesMoves DEF Places
  <2>3. /\ txns[t] \in {"open", "expired"} /\ txns'[t] = "consumed"
        /\ \A u \in Txns : u # t => txns'[u] = txns[u]
        /\ txns' \in [Txns -> {"none", "open", "expired", "consumed", "gone"}]
    BY <1>1, <1>5 DEF TxnConsumed, TypeOK
  <2>4. Forward
    BY <1>2, <2>3 DEF Forward
  <2>5. ASSUME NEW s \in Actors, s # r PROVE Place(s)' /\ Informed(s)'
    <3>1. Untouched(s)
      BY <1>2 DEF IInv, Place, Untouched
    <3>2. QED
      BY <2>1, <2>4, <2>5, <3>1, OthersStay DEF Moved
  <2>6. \A c \in Codes : codes[c].txn # t
    BY <1>1, <2>3, NamesAreNumbers DEF IInv, CodeRows
  <2>7. Place(r)'
    BY <1>1, <1>2, <2>2, <2>3, <2>6 DEF Place, HoldsTxn, HoldsCode, HoldsRefresh
  <2>8. Informed(r)'
    BY <1>1, <1>2, <2>2 DEF Informed, HoldsRefresh, HoldsFamily
  <2>9. TypeOK'
    BY <1>1, <1>2, <2>1, <2>3 DEF TypeOK, Moved
  <2>10. CodeRows' /\ FamRows' /\ PairRows' /\ GrantsUsedOnce'
    BY <1>2, <2>4 DEF IInv, TypeOK, CodeRows, FamRows, PairRows, GrantsUsedOnce, Forward
  <2>11. \A s \in Actors : HoldsTxn(s) => req[s].on # t
    BY <2>3 DEF IInv, Place
  <2>12. Apart'
    BY <1>1, <1>2, <2>1, <2>2, <2>11 DEF IInv, Apart, Moved, HoldsTxn, HoldsCode,
       HoldsRefresh, HoldsFamily
  <2>13. BootRevokes'
    BY <1>1, <1>2, <2>1, RequestsMeetNoBoot
  <2>14. ToldIsDead'
    BY <1>2, <2>5, <2>8 DEF IInv, ToldIsDead
  <2>15. QED
    BY <2>5, <2>7, <2>9, <2>10, <2>12, <2>13, <2>14 DEF IInv
<1>6. QED
  BY <1>3, <1>4, <1>5

LEMMA InsertCodeStep ==
  ASSUME IInv, NEW r \in Requests, InsertCode(r)
  PROVE  IInv'
<1> DEFINE t == req[r].on
<1>1. /\ r \in Actors /\ TypeOK /\ Place(r) /\ t \in Txns /\ HoldsTxn(r)
      /\ req[r].pc # "idle"
  BY DEF Actors, IInv, InsertCode, Place, HoldsTxn
<1>2. UNCHANGED <<txns, fams, pairs, held, rotated, told, faults, restarts>>
  BY DEF InsertCode
<1>3. PICK c \in Codes : /\ codes[c].st = "none"
                         /\ codes' = [codes EXCEPT ![c] = [st |-> "open", txn |-> t]]
  BY DEF InsertCode, First
<1>4. /\ codes'[c].st = "open" /\ codes'[c].txn = t
      /\ \A d \in Codes : d # c => codes'[d] = codes[d]
      /\ codes' \in [Codes -> [st : {"none", "open", "expired", "consumed", "gone"},
                               txn : Txns \cup {None}]]
  BY <1>1, <1>3 DEF TypeOK
<1>5. /\ Moved(r) /\ req'[r].pc = "idle"
      /\ req'[r].fam = None /\ req'[r].todo = {} /\ req'[r].since = {}
  BY <1>1, AnswersMoves DEF InsertCode
<1>6. Forward
  BY <1>2, <1>3, <1>4 DEF Forward
<1>7. ASSUME NEW s \in Actors, s # r PROVE Place(s)' /\ Informed(s)'
  <2>1. HoldsTxn(s) => req[s].on # t
    BY <1>1, <1>7 DEF IInv, Apart
  <2>2. Untouched(s)
    BY <1>2, <1>4, <2>1 DEF IInv, Place, Untouched
  <2>3. QED
    BY <1>5, <1>6, <1>7, <2>2, OthersStay DEF Moved
<1>8. Place(r)' /\ Informed(r)'
  BY <1>5 DEF Place, Informed, HoldsTxn, HoldsCode, HoldsRefresh, HoldsFamily
<1>9. TypeOK'
  BY <1>1, <1>2, <1>4, <1>5, BoundsAssumption DEF TypeOK, Moved, InsertCode
<1>10. \A d \in Codes : codes[d].txn # t
  BY <1>1 DEF Place
<1>11. CodeRows'
  BY <1>1, <1>2, <1>4, NamesAreNumbers DEF IInv, CodeRows, Place
<1>12. FamRows'
  BY <1>2, <1>3, <1>4, NamesAreNumbers DEF IInv, TypeOK, FamRows
<1>13. PairRows' /\ GrantsUsedOnce'
  BY <1>2, <1>4, <1>10 DEF IInv, PairRows, GrantsUsedOnce
<1>14. Apart'
  BY <1>2, <1>5 DEF IInv, Apart, Moved, HoldsTxn, HoldsCode, HoldsRefresh, HoldsFamily
<1>15. BootRevokes'
  BY <1>1, <1>2, <1>5, RequestsMeetNoBoot
<1>16. ToldIsDead'
  BY <1>2, <1>7, <1>8 DEF IInv, ToldIsDead
<1>17. QED
  BY <1>7, <1>8, <1>9, <1>11, <1>12, <1>13, <1>14, <1>15, <1>16 DEF IInv

(* A code is consumed by one coroutine, which alone starts the family.       *)
LEMMA ConsumeCodeStep ==
  ASSUME IInv, NEW r \in Requests, ConsumeCode(r)
  PROVE  IInv'
<1> DEFINE c == req[r].on
<1>1. /\ r \in Actors /\ TypeOK /\ Place(r) /\ Informed(r) /\ c \in Codes
      /\ req[r].pc = "consume_code" /\ req[r].fam = None
  BY DEF Actors, IInv, ToldIsDead, ConsumeCode, Place
<1>2. UNCHANGED <<txns, fams, pairs, held, failures, rotated, told, faults, restarts>>
  BY DEF ConsumeCode
<1>3. CASE Answers(r) /\ codes' = codes
  <2>1. Quiet(r) /\ Place(r)' /\ Informed(r)' /\ BootRevokes'
    BY <1>1, <1>2, <1>3, AnswersQuietly DEF tables
  <2>2. PairRows'
    BY <1>2 DEF IInv, PairRows
  <2>3. QED
    BY <1>1, <1>2, <2>1, <2>2, QuietKeeps DEF TypeOK
<1>4. CASE CodeConsumed(c) /\ Goes(r, "purge")
  <2>1. /\ Moved(r) /\ req'[r].pc = "purge" /\ req'[r].on = c
        /\ req'[r].fam = None /\ req'[r].todo = req[r].todo /\ req'[r].since = req[r].since
    BY <1>1, <1>4, GoesMoves DEF Places
  <2>2. /\ codes[c].st \in {"open", "expired"} /\ codes'[c].st = "consumed"
        /\ \A d \in Codes : codes'[d].txn = codes[d].txn
        /\ \A d \in Codes : d # c => codes'[d] = codes[d]
        /\ codes' \in [Codes -> [st : {"none", "open", "expired", "consumed", "gone"},
                                 txn : Txns \cup {None}]]
    BY <1>1, <1>4 DEF CodeConsumed, TypeOK
  <2>3. Forward
    BY <1>2, <2>2 DEF Forward
  <2>4. ASSUME NEW s \in Actors, s # r PROVE Place(s)' /\ Informed(s)'
    <3>1. Untouched(s)
      BY <1>2, <2>2 DEF IInv, Place, Untouched
    <3>2. QED
      BY <2>1, <2>3, <2>4, <3>1, OthersStay DEF Moved
  <2>5. \A f \in Fams : fams[f].code # c
    BY <1>1, <2>2, NamesAreNumbers DEF IInv, FamRows
  <2>6. Place(r)' /\ Informed(r)'
    BY <1>1, <1>2, <2>1, <2>2, <2>5
    DEF Place, Informed, HoldsTxn, HoldsCode, HoldsRefresh, HoldsFamily
  <2>7. TypeOK'
    BY <1>1, <1>2, <2>1, <2>2 DEF TypeOK, Moved
  <2>8. CodeRows' /\ FamRows' /\ PairRows' /\ GrantsUsedOnce'
    <3>1. CodeRows'
      BY <1>1, <1>2, <2>2 DEF IInv, CodeRows
    <3>2. FamRows'
      BY <1>2, <2>2, <2>5 DEF IInv, TypeOK, FamRows
    <3>3. QED
      BY <1>2, <2>2, <3>1, <3>2 DEF IInv, PairRows, GrantsUsedOnce
  <2>9. \A s \in Actors : HoldsCode(s) => req[s].on # c
    BY <2>2 DEF IInv, Place
  <2>10. Apart'
    BY <1>1, <1>2, <2>1, <2>9 DEF IInv, Apart, Moved, HoldsTxn, HoldsCode,
       HoldsRefresh, HoldsFamily
  <2>11. BootRevokes'
    BY <1>1, <1>2, <2>1, RequestsMeetNoBoot
  <2>12. ToldIsDead'
    BY <1>2, <2>4, <2>6 DEF IInv, ToldIsDead
  <2>13. QED
    BY <2>4, <2>6, <2>7, <2>8, <2>10, <2>11, <2>12 DEF IInv
<1>5. QED
  BY <1>3, <1>4 DEF ConsumeCode

(* A refresh token is consumed by one coroutine, which alone makes the next  *)
(* pair of the family; whoever loses revokes the family.                     *)
LEMMA ConsumeRefreshStep ==
  ASSUME IInv, NEW r \in Requests, ConsumeRefresh(r)
  PROVE  IInv'
<1> DEFINE p == req[r].on
<1>1. /\ r \in Actors /\ TypeOK /\ Place(r) /\ Informed(r) /\ p \in Pairs
      /\ req[r].pc = "consume_refresh" /\ req[r].fam # None
      /\ req[r].fam = pairs[p].fam
  BY DEF Actors, IInv, ToldIsDead, ConsumeRefresh, Place
<1>2. UNCHANGED <<txns, codes, fams, held, failures, rotated, told, faults, restarts>>
  BY DEF ConsumeRefresh
<1>3. CASE Revokes(r, req[r].fam) /\ pairs' = pairs
  <2>1. Quiet(r) /\ Place(r)' /\ Informed(r)' /\ BootRevokes'
    BY <1>1, <1>2, <1>3, RevokesQuietly DEF tables
  <2>2. PairRows'
    BY <1>2, <1>3 DEF IInv, PairRows
  <2>3. QED
    BY <1>1, <1>2, <2>1, <2>2, QuietKeeps DEF TypeOK
<1>4. CASE RefreshConsumed(p) /\ Goes(r, "purge")
  <2>1. /\ Moved(r) /\ req'[r].pc = "purge" /\ req'[r].on = p
        /\ req'[r].fam = req[r].fam
        /\ req'[r].todo = req[r].todo /\ req'[r].since = req[r].since
    BY <1>1, <1>4, GoesMoves DEF Places
  <2>2. /\ pairs[p].refresh = "live" /\ pairs'[p].refresh = "consumed"
        /\ \A q \in Pairs : /\ pairs'[q].fam = pairs[q].fam
                            /\ pairs'[q].from = pairs[q].from
                            /\ pairs'[q].jti = pairs[q].jti
        /\ \A q \in Pairs : q # p => pairs'[q] = pairs[q]
    BY <1>1, <1>4 DEF RefreshConsumed, TypeOK
  <2>3. TypeOK'
    <3>1. pairs' \in [Pairs -> [refresh : {"none", "live", "consumed", "revoked", "gone"},
                                jti : {"none", "live", "expired", "revoked", "gone"},
                                fam : Fams \cup {None}, from : Pairs \cup {None}]]
      BY <1>1, <1>4 DEF TypeOK, RefreshConsumed
    <3>2. QED
      BY <1>1, <1>2, <2>1, <3>1 DEF TypeOK, Moved
  <2>4. Forward
    BY <1>2, <2>2 DEF Forward, Spent
  <2>5. \A s \in Actors : HoldsFamily(s) => req[s].fam # pairs[p].fam
    BY <1>1, <2>2 DEF IInv, Apart
  <2>6. ASSUME NEW s \in Actors, s # r PROVE Place(s)' /\ Informed(s)'
    <3>1. Place(s)
      BY DEF IInv, TypeOK, Coroutines
    <3>2. Untouched(s)
      BY <1>2, <2>2, <3>1 DEF Place, Untouched
    <3>3. QED
      BY <2>1, <2>4, <2>6, <3>2, OthersStay DEF Moved
  <2>7. \A q \in Pairs : pairs[q].from # p
    BY <1>1, <2>2, NamesAreNumbers DEF IInv, PairRows, Spent
  <2>8. Place(r)' /\ Informed(r)'
    BY <1>1, <1>2, <2>1, <2>2, <2>7
    DEF Place, Informed, HoldsTxn, HoldsCode, HoldsRefresh, HoldsFamily, Spent
  <2>9. CodeRows' /\ FamRows' /\ PairRows' /\ GrantsUsedOnce'
    <3>1. PairRows'
      BY <1>2, <2>2, <2>4 DEF IInv, TypeOK, PairRows, Forward
    <3>2. QED
      BY <1>2, <2>2, <3>1 DEF IInv, CodeRows, FamRows, GrantsUsedOnce
  <2>10. \A q \in Pairs : pairs'[q].refresh = "live" => pairs'[q].fam # req[r].fam
    BY <1>1, <2>2 DEF IInv, GrantsUsedOnce
  <2>11. Apart'
    BY <1>1, <1>2, <2>1, <2>2, <2>5, <2>10 DEF IInv, Apart, Moved, HoldsTxn, HoldsCode,
       HoldsRefresh, HoldsFamily
  <2>12. BootRevokes'
    BY <1>1, <1>2, <2>1, RequestsMeetNoBoot
  <2>13. ToldIsDead'
    BY <1>2, <2>6, <2>8 DEF IInv, ToldIsDead
  <2>14. QED
    BY <2>3, <2>6, <2>8, <2>9, <2>11, <2>12, <2>13 DEF IInv
<1>5. QED
  BY <1>3, <1>4 DEF ConsumeRefresh

(* A family that starts is new to everybody.                                 *)
LEMMA InsertFamilyStep ==
  ASSUME IInv, NEW r \in Requests, InsertFamily(r)
  PROVE  IInv'
<1> DEFINE c == req[r].on
<1>1. /\ r \in Actors /\ TypeOK /\ Place(r) /\ Informed(r)
      /\ req[r].pc = "insert_family"
  BY DEF Actors, IInv, ToldIsDead, InsertFamily
<1>2. UNCHANGED <<txns, codes, pairs, held, failures, rotated, told, faults, restarts>>
  BY DEF InsertFamily
<1>3. PICK f \in Fams :
        /\ fams[f].st = "none"
        /\ fams' = [fams EXCEPT ![f] = [st |-> "live", code |-> c]]
        /\ req' = [req EXCEPT ![r] = Doing("insert_jti", "token", None, f, {}, {})]
  BY DEF InsertFamily, First
<1>4. HoldsCode(r) /\ c \in Codes /\ codes[c].st = "consumed"
  BY <1>1, BootAssumption DEF Place, HoldsCode
<1>5. /\ fams'[f].st = "live" /\ fams'[f].code = c
      /\ \A g \in Fams : g # f => fams'[g] = fams[g]
      /\ fams' \in [Fams -> [st : {"none", "live", "expired", "revoked", "gone"},
                             code : Codes \cup {None}]]
  BY <1>1, <1>3, <1>4 DEF TypeOK
<1>6. /\ Moved(r) /\ req'[r].pc = "insert_jti" /\ req'[r].on = None
      /\ req'[r].fam = f /\ req'[r].todo = {} /\ req'[r].since = {}
  <2>1. Doing("insert_jti", "token", None, f, {}, {}) \in Coroutines
    BY NamesAreNumbers, DoingType DEF Places, Kinds
  <2>2. QED
    BY <1>1, <1>3, <2>1 DEF Moved, Doing, TypeOK
<1>7. Forward
  BY <1>2, <1>3, <1>5 DEF Forward, Dead
<1>8. ASSUME NEW s \in Actors, s # r PROVE Place(s)' /\ Informed(s)'
  <2>1. HoldsCode(s) => req[s].on # c
    BY <1>1, <1>4, <1>8 DEF IInv, Apart
  <2>2. Untouched(s)
    BY <1>2, <1>5, <2>1 DEF IInv, Place, Untouched
  <2>3. QED
    BY <1>6, <1>7, <1>8, <2>2, OthersStay DEF Moved
<1>9. Place(r)' /\ Informed(r)'
  BY <1>5, <1>6, NamesAreNumbers
  DEF Place, Informed, HoldsTxn, HoldsCode, HoldsRefresh, HoldsFamily
<1>10. TypeOK'
  BY <1>1, <1>2, <1>5, <1>6 DEF TypeOK, Moved
<1>11. CodeRows' /\ FamRows' /\ PairRows' /\ GrantsUsedOnce'
  <2>1. FamRows'
    BY <1>2, <1>4, <1>5, NamesAreNumbers DEF IInv, FamRows
  <2>2. PairRows'
    BY <1>2, <1>3, <1>5 DEF IInv, TypeOK, PairRows
  <2>3. GrantsUsedOnce'
    BY <1>1, <1>2, <1>4, <1>5 DEF IInv, GrantsUsedOnce, Place
  <2>4. QED
    BY <1>2, <2>1, <2>2, <2>3 DEF IInv, CodeRows
<1>12. /\ \A s \in Actors : req[s].fam # f
       /\ \A p \in Pairs : pairs[p].fam # f
  BY <1>3, NamesAreNumbers DEF IInv, Place, PairRows
<1>13. Apart'
  BY <1>2, <1>6, <1>12 DEF IInv, Apart, Moved, HoldsTxn, HoldsCode, HoldsRefresh,
     HoldsFamily
<1>14. BootRevokes'
  BY <1>1, <1>6, RequestsMeetNoBoot
<1>15. ToldIsDead'
  BY <1>2, <1>3, <1>5, <1>8, <1>9 DEF IInv, ToldIsDead, Dead
<1>16. QED
  BY <1>8, <1>9, <1>10, <1>11, <1>13, <1>14, <1>15 DEF IInv

(* The next pair of a family is made by the one coroutine that holds it.     *)
LEMMA InsertJtiStep ==
  ASSUME IInv, NEW r \in Requests, InsertJti(r)
  PROVE  IInv'
<1> DEFINE o == req[r].on
           f == req[r].fam
<1>1. /\ r \in Actors /\ TypeOK /\ Place(r) /\ Informed(r)
      /\ req[r].pc = "insert_jti" /\ f # None /\ f \in Fams /\ HoldsRefresh(r)
  <2>1. r \in Actors /\ TypeOK /\ Place(r) /\ Informed(r) /\ req[r].pc = "insert_jti"
    BY DEF Actors, IInv, ToldIsDead, InsertJti
  <2>2. f # None /\ f \in Fams
    BY <2>1 DEF Place, TypeOK, Coroutines
  <2>3. QED
    BY <2>1, <2>2 DEF HoldsRefresh
<1>2. UNCHANGED <<txns, codes, fams, held, failures, rotated, told, faults, restarts>>
  BY DEF InsertJti
<1>3. CASE Answers(r) /\ pairs' = pairs
  <2>1. Quiet(r) /\ Place(r)' /\ Informed(r)' /\ BootRevokes'
    BY <1>1, <1>2, <1>3, AnswersQuietly DEF tables
  <2>2. PairRows'
    BY <1>2, <1>3 DEF IInv, PairRows
  <2>3. QED
    BY <1>1, <1>2, <2>1, <2>2, QuietKeeps DEF TypeOK
<1>4. CASE \E p \in First({i \in Pairs : pairs[i].jti = "none"}) :
             /\ pairs' = [pairs EXCEPT ![p] = [refresh |-> "none", jti |-> "live",
                                               fam |-> f, from |-> o]]
             /\ req' = [req EXCEPT ![r] =
                          Doing("insert_refresh", "token", p, f, {}, req[r].since)]
  <2>1. PICK p \in Pairs :
             /\ pairs[p].jti = "none"
             /\ pairs' = [pairs EXCEPT ![p] = [refresh |-> "none", jti |-> "live",
                                               fam |-> f, from |-> o]]
             /\ req' = [req EXCEPT ![r] =
                          Doing("insert_refresh", "token", p, f, {}, req[r].since)]
    BY <1>4 DEF First
  <2>2. /\ Moved(r) /\ req'[r].pc = "insert_refresh" /\ req'[r].on = p
        /\ req'[r].fam = f /\ req'[r].todo = {} /\ req'[r].since = req[r].since
    <3>1. req[r].since \in SUBSET Fams
      BY <1>1 DEF TypeOK, Coroutines
    <3>2. Doing("insert_refresh", "token", p, f, {}, req[r].since) \in Coroutines
      BY <1>1, <3>1, NamesAreNumbers, DoingType DEF Places, Kinds
    <3>3. QED
      BY <1>1, <2>1, <3>2 DEF Moved, Doing, TypeOK
  <2>3. /\ pairs'[p].refresh = "none" /\ pairs'[p].jti = "live"
        /\ pairs'[p].fam = f /\ pairs'[p].from = o
        /\ \A q \in Pairs : q # p => pairs'[q] = pairs[q]
    BY <1>1, <2>1 DEF TypeOK
  <2>4. TypeOK'
    <3>1. o \in Pairs \cup {None}
      BY <1>1 DEF Place
    <3>2. QED
      BY <1>1, <1>2, <2>1, <2>2, <3>1 DEF TypeOK, Moved
  <2>5. pairs[p].fam = None /\ pairs[p].refresh = "none" /\ pairs[p].from = None
    BY <2>1 DEF IInv, PairRows
  <2>6. Forward
    BY <1>2, <2>3, <2>5 DEF Forward, Spent
  <2>7. ASSUME NEW s \in Actors, s # r PROVE Place(s)' /\ Informed(s)'
    <3>1. Place(s)
      BY DEF IInv, TypeOK, Coroutines
    <3>2. HoldsRefresh(s) /\ req[s].on # None => req[s].on # o
      BY <1>1, <2>7, <3>1 DEF IInv, Apart, Place, HoldsFamily
    <3>3. Untouched(s)
      BY <1>2, <2>3, <3>1, <3>2 DEF Place, Untouched
    <3>4. QED
      BY <2>2, <2>6, <2>7, <3>3, OthersStay DEF Moved
  <2>8. o # None => o \in Pairs /\ pairs[o].refresh \in Spent /\ o # p
    BY <1>1, <2>5 DEF Place, Spent
  <2>9. Place(r)' /\ Informed(r)'
    BY <1>1, <1>2, <2>2, <2>3, NamesAreNumbers
    DEF Place, Informed, HoldsTxn, HoldsCode, HoldsRefresh, HoldsFamily
  <2>10. PairRows'
    <3>1. fams[f].st # "none"
      BY <1>1 DEF Place
    <3>2. ASSUME NEW q \in Pairs, pairs'[q].from # None
          PROVE  pairs'[pairs'[q].from].refresh \in Spent
      <4>1. (pairs[q].from # None /\ q # p) \/ (q = p /\ o # None)
        BY <2>3, <3>2
      <4>2. CASE pairs[q].from # None /\ q # p
        BY <2>3, <2>5, <3>2, <4>2 DEF IInv, TypeOK, PairRows, Spent
      <4>3. CASE q = p /\ o # None
        BY <2>3, <2>8, <4>3
      <4>4. QED
        BY <4>1, <4>2, <4>3
    <3>3. QED
      BY <1>1, <1>2, <2>3, <2>5, <3>1, <3>2 DEF IInv, PairRows
  <2>11. CodeRows' /\ FamRows' /\ GrantsUsedOnce'
    <3>1. GrantsUsedOnce'
      BY <1>1, <1>2, <2>3 DEF IInv, GrantsUsedOnce, Place
    <3>2. QED
      BY <1>2, <3>1 DEF IInv, CodeRows, FamRows
  <2>12. Apart'
    BY <1>1, <1>2, <2>2, <2>3 DEF IInv, Apart, Moved, HoldsTxn, HoldsCode,
       HoldsRefresh, HoldsFamily
  <2>13. BootRevokes'
    BY <1>1, <1>2, <2>2, RequestsMeetNoBoot
  <2>14. ToldIsDead'
    BY <1>2, <2>7, <2>9 DEF IInv, ToldIsDead
  <2>15. QED
    BY <2>4, <2>7, <2>9, <2>10, <2>11, <2>12, <2>13, <2>14 DEF IInv
<1>5. QED
  BY <1>3, <1>4 DEF InsertJti

(* With it the family's token can be used again, and nobody holds it.        *)
LEMMA InsertRefreshStep ==
  ASSUME IInv, NEW r \in Requests, InsertRefresh(r)
  PROVE  IInv'
<1> DEFINE p == req[r].on
           f == req[r].fam
<1>1. /\ r \in Actors /\ TypeOK /\ Place(r) /\ Informed(r)
      /\ req[r].pc = "insert_refresh" /\ f # None /\ p \in Pairs
      /\ pairs[p].fam = f /\ pairs[p].refresh = "none"
  BY DEF Actors, IInv, ToldIsDead, InsertRefresh, Place, TypeOK, Coroutines
<1>2. UNCHANGED <<txns, codes, fams, held, failures, rotated, told, faults, restarts>>
  BY DEF InsertRefresh
<1>3. CASE Answers(r) /\ pairs' = pairs
  <2>1. Quiet(r) /\ Place(r)' /\ Informed(r)' /\ BootRevokes'
    BY <1>1, <1>2, <1>3, AnswersQuietly DEF tables
  <2>2. PairRows'
    BY <1>2, <1>3 DEF IInv, PairRows
  <2>3. QED
    BY <1>1, <1>2, <2>1, <2>2, QuietKeeps DEF TypeOK
<1>4. CASE pairs' = [pairs EXCEPT ![p].refresh = "live"] /\ Goes(r, "answer")
  <2>1. /\ Moved(r) /\ req'[r].pc = "answer" /\ req'[r].on = p
        /\ req'[r].fam = f /\ req'[r].todo = req[r].todo /\ req'[r].since = req[r].since
    BY <1>1, <1>4, GoesMoves DEF Places
  <2>2. /\ pairs'[p].refresh = "live"
        /\ \A q \in Pairs : /\ pairs'[q].fam = pairs[q].fam
                            /\ pairs'[q].from = pairs[q].from
                            /\ pairs'[q].jti = pairs[q].jti
        /\ \A q \in Pairs : q # p => pairs'[q] = pairs[q]
    BY <1>1, <1>4 DEF TypeOK
  <2>3. TypeOK'
    BY <1>1, <1>2, <1>4, <2>1 DEF TypeOK, Moved
  <2>4. Forward
    BY <1>1, <1>2, <2>2 DEF Forward, Spent
  <2>5. \A s \in Actors : s # r /\ HoldsFamily(s) => req[s].fam # f
    BY <1>1 DEF IInv, Apart, HoldsFamily
  <2>6. \A q \in Pairs : pairs[q].refresh = "live" => pairs[q].fam # f
    BY <1>1 DEF IInv, Apart, HoldsFamily
  <2>7. ASSUME NEW s \in Actors, s # r PROVE Place(s)' /\ Informed(s)'
    <3>1. Place(s)
      BY DEF IInv, TypeOK, Coroutines
    <3>2. req[s].pc = "insert_refresh" => req[s].on # p
      BY <1>1, <2>5, <2>7, <3>1 DEF Place, HoldsFamily
    <3>3. Untouched(s)
      BY <1>2, <2>2, <3>1, <3>2 DEF Place, Untouched
    <3>4. QED
      BY <2>1, <2>4, <2>7, <3>3, OthersStay DEF Moved
  <2>8. Place(r)' /\ Informed(r)'
    BY <1>1, <1>2, <2>1, <2>2
    DEF Place, Informed, HoldsTxn, HoldsCode, HoldsRefresh, HoldsFamily
  <2>9. PairRows'
    BY <1>1, <1>2, <2>2, <2>4 DEF IInv, TypeOK, PairRows, Forward
  <2>10. CodeRows' /\ FamRows' /\ GrantsUsedOnce'
    <3>1. GrantsUsedOnce'
      BY <1>1, <1>2, <2>2, <2>6 DEF IInv, GrantsUsedOnce
    <3>2. QED
      BY <1>2, <3>1 DEF IInv, CodeRows, FamRows
  <2>11. Apart'
    BY <1>1, <1>2, <2>1, <2>2, <2>5 DEF IInv, Apart, Moved, HoldsTxn, HoldsCode,
       HoldsRefresh, HoldsFamily
  <2>12. BootRevokes'
    BY <1>1, <1>2, <2>1, RequestsMeetNoBoot
  <2>13. ToldIsDead'
    BY <1>2, <2>7, <2>8 DEF IInv, ToldIsDead
  <2>14. QED
    BY <2>3, <2>7, <2>8, <2>9, <2>10, <2>11, <2>12, <2>13 DEF IInv
<1>5. QED
  BY <1>3, <1>4 DEF InsertRefresh

------------------------------------------------------------------------------
(* A purge and a revocation make rows useless, and nothing else.             *)
Wears ==
  /\ Forward
  /\ \A t \in Txns : txns'[t] # txns[t] => txns'[t] = "gone"
  /\ \A c \in Codes : /\ codes'[c].txn = codes[c].txn
                      /\ codes'[c].st = "none" <=> codes[c].st = "none"
  /\ \A f \in Fams : /\ fams'[f].code = fams[f].code
                     /\ fams'[f].st = "none" <=> fams[f].st = "none"
                     /\ fams'[f].st # fams[f].st => fams'[f].st \in Dead
  /\ \A p \in Pairs : /\ pairs'[p].from = pairs[p].from
                      /\ pairs'[p].fam = pairs[p].fam
                      /\ pairs'[p].jti = "none" <=> pairs[p].jti = "none"
                      /\ pairs'[p].refresh # pairs[p].refresh =>
                           pairs[p].refresh # "none" /\ pairs'[p].refresh \in Spent

LEMMA WearsKeeps ==
  ASSUME IInv, Wears, NEW r \in Actors, Moved(r), TypeOK', held' = held,
         ~HoldsTxn(r)',
         HoldsCode(r)' => HoldsCode(r) /\ req'[r].on = req[r].on,
         HoldsFamily(r)' => HoldsFamily(r) /\ req'[r].fam = req[r].fam,
         Place(r)', Informed(r)', BootRevokes',
         \A f \in told' : fams'[f].st \in Dead
  PROVE  IInv'
<1>1. ASSUME NEW s \in Actors, s # r PROVE Place(s)' /\ Informed(s)'
  <2>1. Place(s)
    BY DEF IInv
  <2>2. Untouched(s)
    BY <2>1 DEF Wears, Place, Untouched, HoldsTxn, HoldsCode, HoldsRefresh
  <2>3. QED
    BY <1>1, <2>2, OthersStay DEF Moved, Wears
<1>2. CodeRows'
  BY DEF IInv, TypeOK, CodeRows, Wears, Forward
<1>3. FamRows'
  BY DEF IInv, TypeOK, FamRows, Wears, Forward
<1>4. PairRows'
  BY DEF IInv, TypeOK, PairRows, Wears, Forward
<1>5. GrantsUsedOnce'
  BY DEF IInv, GrantsUsedOnce, Wears, Spent
<1>6. \A q \in Pairs : pairs'[q].refresh = "live" => pairs[q].refresh = "live"
  BY DEF Wears, Spent
<1>7. Apart'
  BY <1>6 DEF IInv, Apart, Moved, Wears, HoldsTxn, HoldsCode, HoldsRefresh, HoldsFamily
<1>8. ToldIsDead'
  BY <1>1 DEF ToldIsDead
<1>9. QED
  BY <1>1, <1>2, <1>3, <1>4, <1>5, <1>7, <1>8 DEF IInv

LEMMA PurgeWears ==
  ASSUME IInv, PurgeExpired, told' = told
  PROVE  /\ Wears
         /\ txns' \in [Txns -> {"none", "open", "expired", "consumed", "gone"}]
         /\ codes' \in [Codes -> [st : {"none", "open", "expired", "consumed", "gone"},
                                  txn : Txns \cup {None}]]
         /\ fams' \in [Fams -> [st : {"none", "live", "expired", "revoked", "gone"},
                                code : Codes \cup {None}]]
         /\ pairs' \in [Pairs -> [refresh : {"none", "live", "consumed", "revoked", "gone"},
                                  jti : {"none", "live", "expired", "revoked", "gone"},
                                  fam : Fams \cup {None}, from : Pairs \cup {None}]]
         /\ \A f \in Fams : fams'[f].st \in Dead <=> fams[f].st \in Dead \cup {"expired"}
<1>1. TypeOK
  BY DEF IInv
<1>2. /\ txns' \in [Txns -> {"none", "open", "expired", "consumed", "gone"}]
      /\ \A t \in Txns : /\ txns'[t] # txns[t] => txns'[t] = "gone"
                         /\ txns[t] = "consumed" => txns'[t] = "gone"
  BY <1>1 DEF TypeOK, PurgeExpired, LiveTxns
<1>3. /\ codes' \in [Codes -> [st : {"none", "open", "expired", "consumed", "gone"},
                               txn : Txns \cup {None}]]
      /\ \A c \in Codes : /\ codes'[c].txn = codes[c].txn
                          /\ codes'[c].st = "none" <=> codes[c].st = "none"
                          /\ codes[c].st = "consumed" => codes'[c].st = "consumed"
  BY <1>1 DEF TypeOK, PurgeExpired
<1>4. /\ fams' \in [Fams -> [st : {"none", "live", "expired", "revoked", "gone"},
                             code : Codes \cup {None}]]
      /\ \A f \in Fams : /\ fams'[f].code = fams[f].code
                         /\ fams'[f].st = IF fams[f].st = "expired" THEN "gone" ELSE fams[f].st
  BY <1>1 DEF TypeOK, PurgeExpired, Over
<1>5. /\ pairs' \in [Pairs -> [refresh : {"none", "live", "consumed", "revoked", "gone"},
                               jti : {"none", "live", "expired", "revoked", "gone"},
                               fam : Fams \cup {None}, from : Pairs \cup {None}]]
      /\ \A p \in Pairs : /\ pairs'[p].from = pairs[p].from
                          /\ pairs'[p].fam = pairs[p].fam
                          /\ pairs'[p].refresh # pairs[p].refresh =>
                               pairs[p].refresh # "none" /\ pairs'[p].refresh = "gone"
                          /\ pairs'[p].jti # pairs[p].jti =>
                               /\ pairs'[p].jti = "gone"
                               /\ \/ pairs[p].jti = "expired"
                                  \/ pairs[p].fam \in Fams
  BY <1>1 DEF TypeOK, PurgeExpired, Over
<1>6. \A p \in Pairs : pairs'[p].jti = "none" <=> pairs[p].jti = "none"
  BY <1>5, NamesAreNumbers DEF IInv, PairRows
<1>7. Wears
  BY <1>2, <1>3, <1>4, <1>5, <1>6 DEF Wears, Forward, Dead, Spent
<1>8. QED
  BY <1>2, <1>3, <1>4, <1>5, <1>7 DEF Dead

LEMMA PurgeStep ==
  ASSUME IInv, NEW r \in Actors, Purge(r)
  PROVE  IInv'
<1>1. /\ TypeOK /\ Place(r) /\ Informed(r) /\ req[r].pc = "purge"
      /\ UNCHANGED <<held, failures, rotated, told, faults, restarts>>
  BY DEF IInv, ToldIsDead, Purge
<1>2. Wears
  BY <1>1, PurgeWears DEF Purge
<1>3. \A f \in told' : fams'[f].st \in Dead
  BY <1>1, <1>2 DEF IInv, ToldIsDead, TypeOK, Wears, Forward
<1>4. CASE r = Boot
  <2>1. /\ Moved(r) /\ req'[r].pc = "idle"
        /\ req'[r].fam = None /\ req'[r].todo = {} /\ req'[r].since = {}
    BY <1>1, <1>4, AnswersMoves DEF Purge
  <2>2. Place(r)' /\ Informed(r)'
    BY <2>1 DEF Place, Informed, HoldsTxn, HoldsCode, HoldsRefresh, HoldsFamily
  <2>3. BootRevokes'
    BY <1>4, <2>1 DEF BootRevokes
  <2>4. TypeOK'
    BY <1>1, <2>1, PurgeWears DEF TypeOK, Moved, Purge
  <2>5. QED
    BY <1>1, <1>2, <1>3, <2>1, <2>2, <2>3, <2>4, WearsKeeps
    DEF HoldsTxn, HoldsCode, HoldsRefresh, HoldsFamily
<1>5. CASE r # Boot
  <2>1. /\ Moved(r) /\ req'[r].on = req[r].on /\ req'[r].fam = req[r].fam
        /\ req'[r].todo = req[r].todo /\ req'[r].since = req[r].since
        /\ req'[r].pc = IF req[r].fam = None THEN "insert_family" ELSE "check_family"
    BY <1>1, <1>5, GoesMoves DEF Purge, Places
  <2>2. r \in Requests
    BY <1>5 DEF Actors
  <2>3. BootRevokes'
    BY <1>1, <2>1, <2>2, RequestsMeetNoBoot
  <2>4. TypeOK'
    BY <1>1, <2>1, PurgeWears DEF TypeOK, Moved, Purge
  <2>5. Place(r)'
    BY <1>1, <1>2, <2>1, <2>2, <1>5
    DEF Place, TypeOK, Coroutines, Wears, Forward, HoldsTxn, HoldsCode, HoldsRefresh
  <2>6. Informed(r)'
    BY <1>1, <2>1 DEF Informed, HoldsRefresh, HoldsFamily
  <2>7. QED
    BY <1>1, <1>2, <1>3, <1>5, <2>1, <2>3, <2>4, <2>5, <2>6, WearsKeeps
    DEF HoldsTxn, HoldsCode, HoldsRefresh, HoldsFamily
<1>6. QED
  BY <1>4, <1>5

------------------------------------------------------------------------------
(* Revocation marks the family first, so that what is under way is refused.  *)
LEMMA RevokeFamilyStep ==
  ASSUME IInv, NEW r \in Actors, RevokeFamily(r)
  PROVE  IInv'
<1> DEFINE f == req[r].fam
<1>1. /\ TypeOK /\ Place(r) /\ Informed(r) /\ req[r].pc = "revoke_family"
      /\ UNCHANGED <<txns, codes, pairs, held, failures, rotated, told, faults, restarts>>
      /\ fams' = [fams EXCEPT ![f].st = IF @ \in {"live", "expired"} THEN "revoked" ELSE @]
  BY DEF IInv, ToldIsDead, RevokeFamily, FamilyRevoked
<1>2. f \in Fams /\ fams[f].st # "none"
  BY <1>1 DEF Place, TypeOK, Coroutines
<1>3. /\ fams' \in [Fams -> [st : {"none", "live", "expired", "revoked", "gone"},
                             code : Codes \cup {None}]]
      /\ fams'[f].st \in Dead /\ fams'[f].code = fams[f].code
      /\ fams'[f].st # fams[f].st => fams[f].st \in {"live", "expired"}
      /\ \A g \in Fams : g # f => fams'[g] = fams[g]
  BY <1>1, <1>2 DEF TypeOK, Dead
<1>4. /\ Moved(r) /\ req'[r].pc = "revoke_refresh" /\ req'[r].kind = req[r].kind
      /\ req'[r].on = req[r].on /\ req'[r].fam = f
      /\ req'[r].todo = req[r].todo /\ req'[r].since = req[r].since
  BY <1>1, GoesMoves DEF RevokeFamily, Places
<1>5. Wears
  <2>1. "none" \notin Dead
    BY DEF Dead
  <2>2. Forward
    BY <1>1, <1>2, <1>3, <2>1 DEF Forward
  <2>3. QED
    BY <1>1, <1>2, <1>3, <2>1, <2>2 DEF Wears
<1>6. Place(r)' /\ Informed(r)'
  BY <1>1, <1>2, <1>3, <1>4
  DEF Place, Informed, HoldsTxn, HoldsCode, HoldsRefresh, HoldsFamily, Dead
<1>7. TypeOK'
  BY <1>1, <1>3, <1>4 DEF TypeOK, Moved
<1>8. BootRevokes'
  <2>1. CASE r # Boot
    BY <1>1, <1>4, <2>1, RequestsMeetNoBoot DEF Actors
  <2>2. CASE r = Boot
    <3>1. \A g \in Unrevoked' : g \in Unrevoked /\ g # f
      BY <1>3 DEF Unrevoked, Dead
    <3>2. \A s \in Requests : req'[s] = req[s]
      BY <1>4, <2>2, BootAssumption DEF Moved, Actors
    <3>3. QED
      BY <1>1, <1>4, <2>2, <3>1, <3>2 DEF IInv, BootRevokes
  <2>3. QED
    BY <2>1, <2>2
<1>9. \A g \in told' : fams'[g].st \in Dead
  BY <1>1, <1>5 DEF IInv, ToldIsDead, TypeOK, Wears, Forward
<1>10. QED
  BY <1>1, <1>4, <1>5, <1>6, <1>7, <1>8, <1>9, WearsKeeps
  DEF HoldsTxn, HoldsCode, HoldsRefresh, HoldsFamily

LEMMA RevokeRefreshStep ==
  ASSUME IInv, NEW r \in Actors, RevokeRefresh(r)
  PROVE  IInv'
<1> DEFINE f == req[r].fam
<1>1. /\ TypeOK /\ Place(r) /\ Informed(r) /\ req[r].pc = "revoke_refresh"
      /\ UNCHANGED <<txns, codes, fams, held, failures, rotated, told, faults, restarts>>
  BY DEF IInv, ToldIsDead, RevokeRefresh, RefreshRevoked
<1>2. /\ \A p \in Pairs : /\ pairs'[p].from = pairs[p].from
                          /\ pairs'[p].fam = pairs[p].fam
                          /\ pairs'[p].jti = pairs[p].jti
                          /\ pairs'[p].refresh # pairs[p].refresh =>
                               pairs[p].refresh # "none" /\ pairs'[p].refresh = "revoked"
      /\ pairs' \in [Pairs -> [refresh : {"none", "live", "consumed", "revoked", "gone"},
                               jti : {"none", "live", "expired", "revoked", "gone"},
                               fam : Fams \cup {None}, from : Pairs \cup {None}]]
  BY <1>1 DEF TypeOK, RevokeRefresh, RefreshRevoked
<1>3. /\ Moved(r) /\ req'[r].pc = "revoke_access" /\ req'[r].kind = req[r].kind
      /\ req'[r].on = req[r].on /\ req'[r].fam = f
      /\ req'[r].todo = req[r].todo /\ req'[r].since = req[r].since
  BY <1>1, GoesMoves DEF RevokeRefresh, Places
<1>4. Wears
  BY <1>1, <1>2 DEF Wears, Forward, Spent
<1>5. Place(r)' /\ Informed(r)'
  BY <1>1, <1>3 DEF Place, Informed, HoldsTxn, HoldsCode, HoldsRefresh, HoldsFamily
<1>6. TypeOK'
  BY <1>1, <1>2, <1>3 DEF TypeOK, Moved
<1>7. BootRevokes'
  <2>1. CASE r # Boot
    BY <1>1, <1>3, <2>1, RequestsMeetNoBoot DEF Actors
  <2>2. CASE r = Boot
    <3>1. \A s \in Requests : req'[s] = req[s]
      BY <1>3, <2>2, BootAssumption DEF Moved, Actors
    <3>2. QED
      BY <1>1, <1>3, <2>2, <3>1 DEF IInv, BootRevokes, Unrevoked
  <2>3. QED
    BY <2>1, <2>2
<1>8. \A g \in told' : fams'[g].st \in Dead
  BY <1>1 DEF IInv, ToldIsDead
<1>9. QED
  BY <1>1, <1>3, <1>4, <1>5, <1>6, <1>7, <1>8, WearsKeeps
  DEF HoldsTxn, HoldsCode, HoldsRefresh, HoldsFamily

LEMMA RevokeAccessStep ==
  ASSUME IInv, NEW r \in Actors, RevokeAccess(r)
  PROVE  IInv'
<1> DEFINE f == req[r].fam
<1>1. /\ TypeOK /\ Place(r) /\ Informed(r) /\ req[r].pc = "revoke_access"
      /\ UNCHANGED <<txns, codes, fams, held, failures, rotated, faults, restarts>>
      /\ told' = told \cup {f}
  BY DEF IInv, ToldIsDead, RevokeAccess, AccessRevoked
<1>2. /\ \A p \in Pairs : /\ pairs'[p].from = pairs[p].from
                          /\ pairs'[p].fam = pairs[p].fam
                          /\ pairs'[p].refresh = pairs[p].refresh
                          /\ pairs'[p].jti = "none" <=> pairs[p].jti = "none"
      /\ pairs' \in [Pairs -> [refresh : {"none", "live", "consumed", "revoked", "gone"},
                               jti : {"none", "live", "expired", "revoked", "gone"},
                               fam : Fams \cup {None}, from : Pairs \cup {None}]]
  BY <1>1 DEF TypeOK, RevokeAccess, AccessRevoked
<1>3. f \in Fams /\ fams[f].st \in Dead
  BY <1>1 DEF Place, Informed, TypeOK, Coroutines
<1>4. \/ /\ req[r].kind = "all" /\ Moved(r) /\ req'[r].pc = "next"
         /\ req'[r].kind = req[r].kind /\ req'[r].fam = f
         /\ req'[r].todo = req[r].todo /\ req'[r].since = req[r].since
      \/ /\ req[r].kind # "all" /\ Moved(r) /\ req'[r].pc = "idle"
         /\ req'[r].fam = None /\ req'[r].todo = {} /\ req'[r].since = {}
  BY <1>1, GoesMoves, AnswersMoves DEF RevokeAccess, Places
<1>5. Wears
  BY <1>1, <1>2 DEF Wears, Forward, Spent
<1>6. Place(r)' /\ Informed(r)'
  BY <1>1, <1>4 DEF Place, Informed, HoldsTxn, HoldsCode, HoldsRefresh, HoldsFamily
<1>7. TypeOK'
  BY <1>1, <1>2, <1>3, <1>4 DEF TypeOK, Moved
<1>8. BootRevokes'
  <2>1. CASE r # Boot
    BY <1>1, <1>4, <2>1, RequestsMeetNoBoot DEF Actors
  <2>2. CASE r = Boot
    <3>1. \A s \in Requests : req'[s] = req[s]
      BY <1>4, <2>2, BootAssumption DEF Moved, Actors
    <3>2. QED
      BY <1>1, <1>4, <2>2, <3>1 DEF IInv, BootRevokes, Unrevoked
  <2>3. QED
    BY <2>1, <2>2
<1>9. \A g \in told' : fams'[g].st \in Dead
  BY <1>1, <1>3 DEF IInv, ToldIsDead
<1>10. QED
  BY <1>1, <1>4, <1>5, <1>6, <1>7, <1>8, <1>9, WearsKeeps
  DEF HoldsTxn, HoldsCode, HoldsRefresh, HoldsFamily

LEMMA RevokeNextStep ==
  ASSUME IInv, NEW r \in Actors, RevokeNext(r)
  PROVE  IInv'
<1>1. /\ TypeOK /\ Place(r) /\ Informed(r) /\ req[r].pc = "next"
      /\ req[r].todo \in SUBSET Fams
      /\ UNCHANGED <<tables, held, failures, rotated, told, faults, restarts>>
  BY DEF IInv, ToldIsDead, RevokeNext, TypeOK, Coroutines
<1>2. ASSUME NEW f \in req[r].todo,
             req' = [req EXCEPT ![r] =
                       Doing("revoke_family", "all", None, f, req[r].todo \ {f}, {})]
      PROVE  IInv'
  <2>1. Doing("revoke_family", "all", None, f, req[r].todo \ {f}, {}) \in Coroutines
    BY <1>1, NamesAreNumbers, DoingType DEF Places, Kinds
  <2>2. /\ Moved(r) /\ req'[r].pc = "revoke_family" /\ req'[r].kind = "all"
        /\ req'[r].fam = f /\ req'[r].todo = req[r].todo \ {f} /\ req'[r].since = {}
    BY <1>1, <1>2, <2>1 DEF Moved, Doing, TypeOK
  <2>3. BootRevokes'
    <3>1. CASE r # Boot
      BY <1>1, <2>2, <3>1, RequestsMeetNoBoot DEF Actors
    <3>2. CASE r = Boot
      <4>1. \A s \in Requests : req'[s] = req[s]
        BY <2>2, <3>2, BootAssumption DEF Moved, Actors
      <4>2. QED
        BY <1>1, <2>2, <3>2, <4>1 DEF IInv, BootRevokes, Unrevoked, tables
    <3>3. QED
      BY <3>1, <3>2
  <2>4. Quiet(r) /\ Place(r)' /\ Informed(r)'
    BY <1>1, <1>2, <2>2, NamesAreNumbers
    DEF Quiet, tables, Place, Informed, HoldsTxn, HoldsCode, HoldsRefresh, HoldsFamily
  <2>5. PairRows'
    BY <1>1 DEF IInv, PairRows, tables
  <2>6. QED
    BY <1>1, <2>3, <2>4, <2>5, QuietKeeps DEF TypeOK
<1>3. ASSUME req[r].todo = {}, \/ r = Boot /\ Goes(r, "fingerprints")
                               \/ r # Boot /\ Answers(r)
      PROVE  IInv'
  <2>1. \/ /\ r = Boot /\ Moved(r) /\ req'[r].pc = "fingerprints"
           /\ req'[r].fam = req[r].fam
           /\ req'[r].todo = req[r].todo /\ req'[r].since = req[r].since
        \/ /\ r # Boot /\ Moved(r) /\ req'[r].pc = "idle"
           /\ req'[r].fam = None /\ req'[r].todo = {} /\ req'[r].since = {}
    BY <1>1, <1>3, GoesMoves, AnswersMoves DEF Places
  <2>2. Quiet(r) /\ Place(r)' /\ Informed(r)'
    BY <1>1, <2>1
    DEF Quiet, tables, Place, Informed, HoldsTxn, HoldsCode, HoldsRefresh, HoldsFamily
  <2>3. BootRevokes'
    <3>1. CASE r # Boot
      BY <1>1, <2>1, <3>1, RequestsMeetNoBoot DEF Actors
    <3>2. CASE r = Boot
      <4>1. \A s \in Requests : req'[s] = req[s]
        BY <2>1, <3>2, BootAssumption DEF Moved, Actors
      <4>2. QED
        BY <1>1, <1>3, <2>1, <3>2, <4>1 DEF IInv, BootRevokes, Unrevoked, tables
    <3>3. QED
      BY <3>1, <3>2
  <2>4. PairRows'
    BY <1>1 DEF IInv, PairRows, tables
  <2>5. QED
    BY <1>1, <2>2, <2>3, <2>4, QuietKeeps DEF TypeOK
<1>4. QED
  BY <1>2, <1>3 DEF RevokeNext
(* The start lists the families, and counts on their end only when it has    *)
(* revoked them all.                                                         *)
LEMMA BootReadsStep ==
  ASSUME IInv, BootReads
  PROVE  IInv'
<1> DEFINE start == IF rotated THEN Doing("next", "all", None, None, Unrevoked, {})
                    ELSE Doing("purge", "none", None, None, {}, {})
<1>1. /\ TypeOK /\ Boot \in Actors /\ req[Boot].pc = "boot"
      /\ UNCHANGED <<tables, held, failures, rotated, told, faults, restarts>>
  BY DEF IInv, Actors, BootReads
<1>2. start \in Coroutines
  <2>1. Unrevoked \in SUBSET Fams
    BY DEF Unrevoked
  <2>2. /\ Doing("next", "all", None, None, Unrevoked, {}) \in Coroutines
        /\ Doing("purge", "none", None, None, {}, {}) \in Coroutines
    BY <2>1, NamesAreNumbers, DoingType DEF Places, Kinds
  <2>3. QED
    BY <2>2
<1>3. Moved(Boot) /\ req'[Boot] = start
  BY <1>1, <1>2 DEF BootReads, TypeOK, Moved
<1>4. \/ /\ req'[Boot].pc = "next" /\ req'[Boot].kind = "all" /\ req'[Boot].fam = None
         /\ req'[Boot].todo = Unrevoked /\ req'[Boot].since = {}
      \/ /\ req'[Boot].pc = "purge" /\ req'[Boot].fam = None
         /\ req'[Boot].todo = {} /\ req'[Boot].since = {}
  BY <1>3 DEF Doing
<1>5. Quiet(Boot) /\ Place(Boot)' /\ Informed(Boot)'
  BY <1>1, <1>3, <1>4 DEF Quiet, tables, Place, Informed, HoldsTxn, HoldsCode, HoldsRefresh,
     HoldsFamily, Unrevoked
<1>6. BootRevokes'
  <2>1. \A s \in Requests : req'[s] = req[s]
    BY <1>3, BootAssumption DEF Moved, Actors
  <2>2. QED
    BY <1>1, <1>4, <2>1 DEF IInv, BootRevokes, Unrevoked, tables
<1>7. PairRows'
  BY <1>1 DEF IInv, PairRows, tables
<1>8. QED
  BY <1>1, <1>5, <1>6, <1>7, QuietKeeps DEF TypeOK

LEMMA StoreFingerprintsStep ==
  ASSUME IInv, StoreFingerprints
  PROVE  IInv'
<1>1. /\ TypeOK /\ Boot \in Actors /\ req[Boot].pc = "fingerprints"
      /\ UNCHANGED <<tables, held, failures, faults, restarts>>
      /\ rotated' = FALSE /\ told' = told \cup {f \in Fams : fams[f].st # "none"}
  BY DEF IInv, Actors, StoreFingerprints
<1>2. Doing("purge", "none", None, None, {}, {}) \in Coroutines
  BY NamesAreNumbers, DoingType DEF Places, Kinds
<1>3. /\ Moved(Boot) /\ req'[Boot].pc = "purge" /\ req'[Boot].fam = None
      /\ req'[Boot].todo = {} /\ req'[Boot].since = {}
  BY <1>1, <1>2 DEF StoreFingerprints, TypeOK, Moved, Doing
<1>4. \A s \in Requests : req'[s] = req[s]
  BY <1>3, BootAssumption DEF Moved, Actors
<1>5. \A f \in told' : fams'[f].st \in Dead
  BY <1>1 DEF IInv, TypeOK, BootRevokes, ToldIsDead, Unrevoked, Dead, tables
<1>6. Wears
  BY <1>1 DEF Wears, Forward, tables
<1>7. TypeOK'
  BY <1>1, <1>3 DEF TypeOK, Moved, tables
<1>8. Place(Boot)' /\ Informed(Boot)'
  BY <1>3 DEF Place, Informed, HoldsTxn, HoldsCode, HoldsRefresh, HoldsFamily
<1>9. BootRevokes'
  BY <1>1, <1>3, <1>4 DEF IInv, BootRevokes
<1>10. QED
  BY <1>1, <1>3, <1>5, <1>6, <1>7, <1>8, <1>9, WearsKeeps
  DEF HoldsTxn, HoldsCode, HoldsRefresh, HoldsFamily

------------------------------------------------------------------------------
(* The rest: nothing about a row changes, or every coroutine ends at once.   *)
LEMMA NothingKeeps ==
  ASSUME IInv, UNCHANGED <<tables, held, told, req>>, rotated' \in BOOLEAN,
         failures' \in 0..AttemptLimit,
         faults' \in 0..MaxFaults, restarts' \in 0..MaxRestarts
  PROVE  IInv'
<1>1. TypeOK' /\ CodeRows' /\ FamRows' /\ PairRows' /\ GrantsUsedOnce'
  BY DEF IInv, TypeOK, CodeRows, FamRows, PairRows, GrantsUsedOnce, tables
<1>2. \A r \in Actors : Place(r)'
  BY DEF IInv, Place, HoldsTxn, HoldsCode, HoldsRefresh, tables
<1>3. Apart'
  BY DEF IInv, Apart, HoldsTxn, HoldsCode, HoldsRefresh, HoldsFamily, tables
<1>4. ToldIsDead'
  BY DEF IInv, ToldIsDead, Informed, HoldsRefresh, HoldsFamily, tables
<1>5. BootRevokes'
  BY DEF IInv, BootRevokes, Unrevoked, tables
<1>6. QED
  BY <1>1, <1>2, <1>3, <1>4, <1>5 DEF IInv

LEMMA WindowPassesStep ==
  ASSUME IInv, WindowPasses
  PROVE  IInv'
<1>1. 0 \in 0..AttemptLimit
  BY BoundsAssumption
<1>2. QED
  BY <1>1, NothingKeeps DEF IInv, TypeOK, WindowPasses

LEMMA FaultStep ==
  ASSUME IInv, NEW r \in Actors, Fault(r)
  PROVE  IInv'
<1>1. /\ r \in Requests /\ req[r].pc # "idle" /\ TypeOK /\ Answers(r)
      /\ UNCHANGED <<tables, held, failures, rotated, told, restarts>>
      /\ faults' \in 0..MaxFaults
  BY BoundsAssumption DEF IInv, TypeOK, Fault
<1>2. Quiet(r) /\ Place(r)' /\ Informed(r)' /\ BootRevokes'
  BY <1>1, AnswersQuietly
<1>3. PairRows'
  BY <1>1 DEF IInv, PairRows, tables
<1>4. QED
  BY <1>1, <1>2, <1>3, QuietKeeps DEF TypeOK

LEMMA RestartStep ==
  ASSUME IInv, Restart
  PROVE  IInv'
<1> DEFINE boot == Doing("boot", "none", None, None, {}, {})
<1>1. /\ TypeOK /\ UNCHANGED <<tables, held, told, faults>>
      /\ failures' = 0 /\ rotated' \in {rotated, TRUE}
      /\ restarts' \in 0..MaxRestarts
  <2>1. TypeOK /\ restarts \in 0..MaxRestarts
    BY DEF IInv, TypeOK
  <2>2. /\ UNCHANGED <<tables, held, told, faults>>
        /\ failures' = 0 /\ rotated' \in {rotated, TRUE}
        /\ restarts < MaxRestarts /\ restarts' = restarts + 1
    BY DEF Restart
  <2>3. restarts' \in 0..MaxRestarts
    BY <2>1, <2>2, BoundsAssumption
  <2>4. QED
    BY <2>1, <2>2, <2>3
<1>2. boot \in Coroutines
  BY NamesAreNumbers, DoingType DEF Places, Kinds
<1>3. /\ req' \in [Actors -> Coroutines]
      /\ \A r \in Actors : req'[r] = IF r = Boot THEN boot ELSE Idle
  BY <1>2, IdleType DEF Restart
<1>4. \A r \in Actors : /\ req'[r].pc = IF r = Boot THEN "boot" ELSE "idle"
                        /\ req'[r].fam = None
                        /\ req'[r].todo = {} /\ req'[r].since = {}
  BY <1>3 DEF Doing, Idle
<1>5. TypeOK'
  <2>1. failures' \in 0..AttemptLimit
    BY <1>1, BoundsAssumption
  <2>2. QED
    BY <1>1, <1>3, <2>1 DEF TypeOK, tables
<1>6. CodeRows' /\ FamRows' /\ PairRows' /\ GrantsUsedOnce'
  BY <1>1 DEF IInv, CodeRows, FamRows, PairRows, GrantsUsedOnce, tables
<1>7. \A r \in Actors : Place(r)' /\ Informed(r)'
  BY <1>4 DEF Place, Informed, HoldsTxn, HoldsCode, HoldsRefresh, HoldsFamily
<1>8. Apart'
  BY <1>4 DEF Apart, HoldsTxn, HoldsCode, HoldsRefresh, HoldsFamily
<1>9. ToldIsDead'
  BY <1>1, <1>7 DEF IInv, ToldIsDead, tables
<1>10. BootRevokes'
  BY <1>4, BootAssumption DEF BootRevokes, Actors
<1>11. QED
  BY <1>5, <1>6, <1>7, <1>8, <1>9, <1>10 DEF IInv

------------------------------------------------------------------------------
(* The invariant holds at first and is kept by every step.                   *)
LEMMA InitIInv == Init => IInv
<1> SUFFICES ASSUME Init PROVE IInv
  OBVIOUS
<1>1. \A r \in Actors : /\ req[r] = Idle /\ req[r].pc = "idle" /\ req[r].fam = None
                        /\ req[r].todo = {} /\ req[r].since = {}
  BY DEF Init, Idle, Doing
<1>2. TypeOK
  <2>1. failures \in 0..AttemptLimit /\ faults \in 0..MaxFaults /\ restarts \in 0..MaxRestarts
    BY BoundsAssumption DEF Init
  <2>2. req \in [Actors -> Coroutines]
    BY IdleType DEF Init
  <2>3. QED
    BY <2>1, <2>2 DEF Init, TypeOK
<1>3. CodeRows /\ FamRows /\ PairRows /\ GrantsUsedOnce
  BY NamesAreNumbers DEF Init, CodeRows, FamRows, PairRows, GrantsUsedOnce
<1>4. \A r \in Actors : Place(r) /\ Informed(r)
  BY <1>1 DEF Place, Informed, HoldsTxn, HoldsCode, HoldsRefresh, HoldsFamily
<1>5. Apart
  BY <1>1 DEF Apart, HoldsTxn, HoldsCode, HoldsRefresh, HoldsFamily
<1>6. ToldIsDead
  BY <1>4 DEF Init, ToldIsDead
<1>7. BootRevokes
  BY <1>1 DEF BootRevokes, Actors
<1>8. QED
  BY <1>2, <1>3, <1>4, <1>5, <1>6, <1>7 DEF IInv

LEMMA ProceedsStep ==
  ASSUME IInv, NEW r \in Actors, Proceeds(r)
  PROVE  IInv'
<1>1. CASE r \in Requests
  <2>1. CASE ConsentRead(r) \/ DecisionRead(r) \/ FamilyRead(r) \/ CheckFamily(r)
               \/ JtiRead(r) \/ Served(r)
    BY <1>1, <2>1, ReadingStep
  <2>2. CASE ConsumeTxn(r) \/ InsertCode(r) \/ ConsumeCode(r) \/ ConsumeRefresh(r)
               \/ InsertFamily(r)
    BY <1>1, <2>2, ConsumeTxnStep, InsertCodeStep, ConsumeCodeStep, ConsumeRefreshStep,
       InsertFamilyStep
  <2>3. CASE InsertJti(r) \/ InsertRefresh(r) \/ AnswerPair(r)
    BY <1>1, <2>3, InsertJtiStep, InsertRefreshStep, AnswerPairStep
  <2>4. CASE Purge(r) \/ RevokeFamily(r) \/ RevokeRefresh(r) \/ RevokeAccess(r)
               \/ RevokeNext(r)
    BY <2>4, PurgeStep, RevokeFamilyStep, RevokeRefreshStep, RevokeAccessStep, RevokeNextStep
  <2>5. QED
    BY <2>1, <2>2, <2>3, <2>4 DEF Proceeds
<1>2. CASE r = Boot
  <2>1. Purge(r) \/ RevokeFamily(r) \/ RevokeRefresh(r) \/ RevokeAccess(r) \/ RevokeNext(r)
    BY <1>2 DEF IInv, BootRevokes, Proceeds, ConsentRead, DecisionRead, ConsumeTxn,
       InsertCode, ConsumeCode, FamilyRead, ConsumeRefresh, InsertFamily, CheckFamily,
       InsertJti, InsertRefresh, AnswerPair, JtiRead, Served
  <2>2. QED
    BY <2>1, PurgeStep, RevokeFamilyStep, RevokeRefreshStep, RevokeAccessStep, RevokeNextStep
<1>3. QED
  BY <1>1, <1>2 DEF Actors

LEMMA ArrivesStep ==
  ASSUME IInv, NEW r \in Actors, Arrives(r)
  PROVE  IInv'
<1>1. r \in Requests
  BY DEF Arrives, ConsentPosted, CodePresented, RefreshPresented, AccessPresented,
     RevokeAllPosted, Starts
<1>2. QED
  BY <1>1, ConsentPostedStep, CodePresentedStep, RefreshPresentedStep, AccessPresentedStep,
     RevokeAllPostedStep DEF Arrives

LEMMA NextKeeps == IInv /\ [Next]_vars => IInv'
<1> SUFFICES ASSUME IInv, [Next]_vars PROVE IInv'
  OBVIOUS
<1>1. CASE Authorize
  BY <1>1, AuthorizeStep
<1>2. ASSUME NEW r \in Actors, Arrives(r) PROVE IInv'
  BY <1>2, ArrivesStep
<1>3. ASSUME NEW r \in Actors, Proceeds(r) PROVE IInv'
  BY <1>3, ProceedsStep
<1>4. ASSUME NEW r \in Actors, Fault(r) PROVE IInv'
  BY <1>4, FaultStep
<1>5. CASE BootReads \/ StoreFingerprints
  BY <1>5, BootReadsStep, StoreFingerprintsStep
<1>6. CASE Expires \/ WindowPasses \/ Restart
  BY <1>6, ExpiresStep, WindowPassesStep, RestartStep
<1>7. CASE UNCHANGED vars
  BY <1>7, NothingKeeps DEF IInv, TypeOK, vars, tables
<1>8. QED
  BY <1>1, <1>2, <1>3, <1>4, <1>5, <1>6, <1>7 DEF Next

LEMMA IInvAlways == Spec => []IInv
  BY InitIInv, NextKeeps, PTL DEF Spec

(* The variables keep their types.                                           *)
THEOREM TypeCorrect == Spec => []TypeOK
<1>1. IInv => TypeOK
  BY DEF IInv
<1>2. QED
  BY <1>1, IInvAlways, PTL

(* A grant is used once: one transaction gives one code, one code one family, *)
(* one refresh token one successor, and a family has one usable refresh token *)
(* (oauth_consume_*, exchange_refresh_token), for every number of requests.   *)
THEOREM GrantsOnce == Spec => []GrantsUsedOnce
<1>1. IInv => GrantsUsedOnce
  BY DEF IInv
<1>2. QED
  BY <1>1, IInvAlways, PTL

(* A family that someone was told is revoked lets in no request that arrives  *)
(* later and gives it no token (oauth_revoke_family, _issue_token_pair,       *)
(* prepare_storage), whatever was under way.                                  *)
THEOREM RevokedDead == Spec => []RevokedStaysDead
<1>1. IInv => RevokedStaysDead
  <2>1. SUFFICES ASSUME IInv, NEW r \in Requests,
                        req[r].pc \in {"serving", "consume_refresh", "insert_refresh", "answer"}
                 PROVE  req[r].fam \notin req[r].since
    BY DEF RevokedStaysDead
  <2>2. Informed(r)
    BY <2>1 DEF IInv, ToldIsDead, Actors
  <2>3. QED
    BY <2>1, <2>2 DEF Informed, HoldsFamily
<1>2. QED
  BY <1>1, IInvAlways, PTL
==============================================================================
