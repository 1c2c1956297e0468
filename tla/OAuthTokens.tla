----------------------------- MODULE OAuthTokens -----------------------------
(***************************************************************************)
(* The self-hosted OAuth server of the browser MCP endpoint                *)
(* (app/mcp_oauth/provider.py over app/db/oauth.py): the owner's consent   *)
(* turns a transaction into a code, a code into a family of tokens, and    *)
(* each refresh token of the family into the next one.                     *)
(*                                                                         *)
(* Every request runs in its own coroutine and lets go at each database    *)
(* statement; a step here is one statement with the code up to the next    *)
(* one.  The tables outlive a restart, the requests and the count of       *)
(* failed consents do not.  A row is named by its position in its table:   *)
(* the code names rows by random text that is never drawn twice.  A row    *)
(* that is consumed or revoked answers every reader alike whether or not   *)
(* its time is over, so only rows that are neither expire.  There is one   *)
(* registered client, whose browser has one address.                       *)
(***************************************************************************)
EXTENDS Naturals, FiniteSets

CONSTANTS
  Requests,      \* the requests the server works on at once
  Boot,          \* the server's own start, which revokes after a rotation
  MaxTxns,       \* bound: authorization transactions opened
  MaxCodes,      \* bound: codes issued
  MaxFams,       \* bound: token families started
  MaxPairs,      \* bound: access and refresh token pairs issued
  TxnQuota,      \* OAUTH_TRANSACTION_MAX_COUNT
  AttemptLimit,  \* FAILED_ATTEMPT_LIMIT
  MaxFaults,     \* bound: statements that raise
  MaxRestarts    \* bound: restarts of the process

ASSUME BootAssumption == Boot \notin Requests
ASSUME BoundsAssumption ==
  /\ MaxTxns \in Nat /\ MaxCodes \in Nat /\ MaxFams \in Nat /\ MaxPairs \in Nat
  /\ TxnQuota \in Nat /\ AttemptLimit \in Nat \ {0}
  /\ MaxFaults \in Nat /\ MaxRestarts \in Nat

VARIABLES
  txns,      \* oauth_auth_transactions
  codes,     \* oauth_authorization_codes, each with the transaction it came from
  fams,      \* oauth_token_families, each with the code it came from
  pairs,     \* oauth_access_jtis and oauth_refresh_tokens: the two rows of one answer
  held,      \* the pairs whose answer reached the client
  failures,  \* FailedAttemptLimiter: failed consents in the window
  rotated,   \* the stored fingerprints differ from the configured secrets
  told,      \* families someone has been told are revoked
  req,       \* what each coroutine does
  faults, restarts

tables == <<txns, codes, fams, pairs>>
vars == <<txns, codes, fams, pairs, held, failures, rotated, told, req, faults, restarts>>

Txns == 1..MaxTxns
Codes == 1..MaxCodes
Fams == 1..MaxFams
Pairs == 1..MaxPairs
None == 0
Actors == Requests \cup {Boot}

\* What a coroutine is at, for which kind of request, with the row it works on and
\* that row's family, the families it has still to revoke, and what had been told when
\* it started.
Doing(pc, kind, on, fam, todo, since) ==
  [pc |-> pc, kind |-> kind, on |-> on, fam |-> fam, todo |-> todo, since |-> since]
Idle == Doing("idle", "none", None, None, {}, {})

Init ==
  /\ txns = [t \in Txns |-> "none"]
  /\ codes = [c \in Codes |-> [st |-> "none", txn |-> None]]
  /\ fams = [f \in Fams |-> [st |-> "none", code |-> None]]
  /\ pairs = [p \in Pairs |->
                [refresh |-> "none", jti |-> "none", fam |-> None, from |-> None]]
  /\ held = {} /\ failures = 0 /\ rotated = FALSE /\ told = {}
  /\ req = [r \in Actors |-> Idle]
  /\ faults = 0 /\ restarts = 0

\* The statements that change a table.

\* The row that is used next, of those that are free.
First(free) == {i \in free : \A j \in free : i <= j}

\* Transactions that are over are deleted (oauth_create_transaction_with_quota
\* and oauth_purge_expired).
LiveTxns == [t \in Txns |-> IF txns[t] \in {"expired", "consumed"} THEN "gone" ELSE txns[t]]

\* oauth_purge_expired: the rows whose time is over, and with a family its tokens.
Over(f) == f \in Fams /\ fams[f].st = "expired"
PurgeExpired ==
  /\ txns' = LiveTxns
  /\ codes' = [c \in Codes |->
       IF codes[c].st = "expired" THEN [codes[c] EXCEPT !.st = "gone"] ELSE codes[c]]
  /\ pairs' = [p \in Pairs |->
       [refresh |-> IF Over(pairs[p].fam) /\ pairs[p].refresh # "none"
                    THEN "gone" ELSE pairs[p].refresh,
        jti |-> IF Over(pairs[p].fam) \/ pairs[p].jti = "expired"
                THEN "gone" ELSE pairs[p].jti,
        fam |-> pairs[p].fam, from |-> pairs[p].from]]
  /\ fams' = [f \in Fams |->
       IF Over(f) THEN [fams[f] EXCEPT !.st = "gone"] ELSE fams[f]]

\* Seeded fault: the update of a refresh token does not look at the row.
RefreshConsumedBlindly(p) == pairs' = [pairs EXCEPT ![p].refresh = "consumed"]

\* The compare-and-set updates: the row was still unconsumed.
TxnConsumed(t) == /\ txns[t] \in {"open", "expired"}
                  /\ txns' = [txns EXCEPT ![t] = "consumed"]
CodeConsumed(c) == /\ codes[c].st \in {"open", "expired"}
                   /\ codes' = [codes EXCEPT ![c].st = "consumed"]
RefreshConsumed(p) == /\ pairs[p].refresh = "live"
                      /\ pairs' = [pairs EXCEPT ![p].refresh = "consumed"]

\* Seeded fault: a revocation leaves the family's own row alone.
TokensOnlyRevoked(f) == UNCHANGED <<fams, pairs>>

\* oauth_revoke_family is three statements, the family first.
FamilyRevoked(f) ==
  /\ fams' = [fams EXCEPT ![f].st = IF @ \in {"live", "expired"} THEN "revoked" ELSE @]
  /\ UNCHANGED pairs
RefreshRevoked(f) ==
  /\ pairs' = [p \in Pairs |->
       IF pairs[p].fam = f /\ pairs[p].refresh \in {"live", "consumed"}
       THEN [pairs[p] EXCEPT !.refresh = "revoked"] ELSE pairs[p]]
  /\ UNCHANGED fams
AccessRevoked(f) ==
  /\ pairs' = [p \in Pairs |->
       IF pairs[p].fam = f /\ pairs[p].jti \in {"live", "expired"}
       THEN [pairs[p] EXCEPT !.jti = "revoked"] ELSE pairs[p]]
  /\ UNCHANGED fams

Unrevoked == {f \in Fams : fams[f].st \in {"live", "expired"}}

\* A coroutine's next place; its end; its start, while the server takes requests.
Goes(r, pc) == req' = [req EXCEPT ![r].pc = pc]
Answers(r) == req' = [req EXCEPT ![r] = Idle]
Starts(r, start) ==
  /\ r \in Requests /\ req[r].pc = "idle" /\ req[Boot].pc = "idle"
  /\ req' = [req EXCEPT ![r] = start]

\* A coroutine goes on to revoke a family: nothing else it knew matters any more.
Revokes(r, f) ==
  req' = [req EXCEPT ![r] = Doing("revoke_family", "none", None, f, {}, {})]

------------------------------------------------------------------------------
\* Consent.

\* authorize: one transaction that also purges and counts.
Authorize ==
  /\ req[Boot].pc = "idle"
  /\ \E t \in First({i \in Txns : txns[i] = "none"}) :
       txns' = IF Cardinality({u \in Txns : LiveTxns[u] = "open"}) < TxnQuota
               THEN [LiveTxns EXCEPT ![t] = "open"] ELSE LiveTxns
  /\ UNCHANGED <<codes, fams, pairs, held, failures, rotated, told, req, faults, restarts>>

\* mcp_oauth_consent_submit: the limit is looked at before the form is awaited.
ConsentPosted(r, t, kind) ==
  /\ failures < AttemptLimit
  /\ txns[t] # "none"
  /\ Starts(r, Doing("consent", kind, t, None, {}, {}))
  /\ UNCHANGED <<tables, held, failures, rotated, told, faults, restarts>>

Failed == failures' = IF failures < AttemptLimit THEN failures + 1 ELSE failures

\* The transaction is read, then the owner's secret is compared.
ConsentRead(r) ==
  /\ req[r].pc = "consent"
  /\ \/ /\ txns[req[r].on] # "open"
        /\ Answers(r) /\ UNCHANGED failures
     \/ /\ txns[req[r].on] = "open" /\ req[r].kind = "mistaken"
        /\ Answers(r) /\ Failed
     \/ /\ txns[req[r].on] = "open" /\ req[r].kind # "mistaken"
        /\ Goes(r, "decide") /\ UNCHANGED failures
  /\ UNCHANGED <<tables, held, rotated, told, faults, restarts>>

\* approve_transaction and deny_transaction read the transaction again.
DecisionRead(r) ==
  /\ req[r].pc = "decide"
  /\ \/ /\ txns[req[r].on] # "open"
        /\ Answers(r)
        /\ IF req[r].kind = "approve" THEN Failed ELSE UNCHANGED failures
     \/ /\ txns[req[r].on] = "open"
        /\ Goes(r, "consume_txn") /\ UNCHANGED failures
  /\ UNCHANGED <<tables, held, rotated, told, faults, restarts>>

\* oauth_consume_transaction: a denial does not look at the outcome.
ConsumeTxn(r) ==
  /\ req[r].pc = "consume_txn"
  /\ \/ /\ TxnConsumed(req[r].on)
        /\ IF req[r].kind = "approve" THEN Goes(r, "insert_code") ELSE Answers(r)
        /\ UNCHANGED failures
     \/ /\ txns[req[r].on] \notin {"open", "expired"}
        /\ Answers(r)
        /\ IF req[r].kind = "approve" THEN Failed ELSE UNCHANGED failures
        /\ UNCHANGED txns
  /\ UNCHANGED <<codes, fams, pairs, held, rotated, told, faults, restarts>>

InsertCode(r) ==
  /\ req[r].pc = "insert_code"
  /\ \E c \in First({i \in Codes : codes[i].st = "none"}) :
       codes' = [codes EXCEPT ![c] = [st |-> "open", txn |-> req[r].on]]
  /\ failures' = 0
  /\ Answers(r)
  /\ UNCHANGED <<txns, fams, pairs, held, rotated, told, faults, restarts>>

------------------------------------------------------------------------------
\* Tokens.

\* load_authorization_code: only an open code goes on to the exchange.
CodePresented(r, c) ==
  /\ codes[c].st = "open"
  /\ Starts(r, Doing("consume_code", "token", c, None, {}, {}))
  /\ UNCHANGED <<tables, held, failures, rotated, told, faults, restarts>>

\* exchange_authorization_code
ConsumeCode(r) ==
  /\ req[r].pc = "consume_code"
  /\ \/ CodeConsumed(req[r].on) /\ Goes(r, "purge")
     \/ /\ codes[req[r].on].st \notin {"open", "expired"}
        /\ Answers(r) /\ UNCHANGED codes
  /\ UNCHANGED <<txns, fams, pairs, held, failures, rotated, told, faults, restarts>>

\* load_refresh_token, for an exchange or a revocation: the row, and then its family.
RefreshPresented(r, p, kind) ==
  /\ p \in held /\ pairs[p].refresh # "gone"
  /\ Starts(r, Doing("family", IF pairs[p].refresh = "live" THEN kind ELSE "reuse",
                     p, pairs[p].fam, {}, told))
  /\ UNCHANGED <<tables, held, failures, rotated, told, faults, restarts>>

\* A used token, or one of a revoked family, revokes the family.
FamilyRead(r) ==
  /\ req[r].pc = "family"
  /\ LET st == fams[req[r].fam].st IN
     \/ st = "gone" /\ Answers(r)
     \/ st # "gone" /\ (req[r].kind = "reuse" \/ st = "revoked") /\ Revokes(r, req[r].fam)
     \/ st = "expired" /\ req[r].kind # "reuse" /\ Answers(r)
     \/ /\ st = "live" /\ req[r].kind # "reuse"
        /\ IF req[r].kind = "token" THEN Goes(r, "consume_refresh")
           ELSE Revokes(r, req[r].fam)
  /\ UNCHANGED <<tables, held, failures, rotated, told, faults, restarts>>

\* exchange_refresh_token: who loses the compare-and-set revokes the family.
ConsumeRefresh(r) ==
  /\ req[r].pc = "consume_refresh"
  /\ \/ RefreshConsumed(req[r].on) /\ Goes(r, "purge")
     \/ /\ pairs[req[r].on].refresh # "live"
        /\ Revokes(r, req[r].fam) /\ UNCHANGED pairs
  /\ UNCHANGED <<txns, codes, fams, held, failures, rotated, told, faults, restarts>>

\* _issue_token_pair purges first, as the server's start does last.
Purge(r) ==
  /\ req[r].pc = "purge"
  /\ PurgeExpired
  /\ IF r = Boot THEN Answers(r)
     ELSE Goes(r, IF req[r].fam = None THEN "insert_family" ELSE "check_family")
  /\ UNCHANGED <<held, failures, rotated, told, faults, restarts>>

InsertFamily(r) ==
  /\ req[r].pc = "insert_family"
  /\ \E f \in First({i \in Fams : fams[i].st = "none"}) :
       /\ fams' = [fams EXCEPT ![f] = [st |-> "live", code |-> req[r].on]]
       /\ req' = [req EXCEPT ![r] = Doing("insert_jti", "token", None, f, {}, {})]
  /\ UNCHANGED <<txns, codes, pairs, held, failures, rotated, told, faults, restarts>>

CheckFamily(r) ==
  /\ req[r].pc = "check_family"
  /\ LET st == fams[req[r].fam].st IN
     \/ st \in {"gone", "revoked"} /\ Answers(r)
     \/ st = "expired" /\ Revokes(r, req[r].fam)
     \/ st = "live" /\ Goes(r, "insert_jti")
  /\ UNCHANGED <<tables, held, failures, rotated, told, faults, restarts>>

\* The foreign key refuses a row whose family has been purged meanwhile.
InsertJti(r) ==
  /\ req[r].pc = "insert_jti"
  /\ \/ /\ fams[req[r].fam].st = "gone"
        /\ Answers(r) /\ UNCHANGED pairs
     \/ /\ fams[req[r].fam].st # "gone"
        /\ \E p \in First({i \in Pairs : pairs[i].jti = "none"}) :
             /\ pairs' = [pairs EXCEPT ![p] = [refresh |-> "none", jti |-> "live",
                                               fam |-> req[r].fam, from |-> req[r].on]]
             /\ req' = [req EXCEPT ![r] = Doing("insert_refresh", "token", p,
                                                req[r].fam, {}, req[r].since)]
  /\ UNCHANGED <<txns, codes, fams, held, failures, rotated, told, faults, restarts>>

InsertRefresh(r) ==
  /\ req[r].pc = "insert_refresh"
  /\ \/ /\ fams[req[r].fam].st = "gone"
        /\ Answers(r) /\ UNCHANGED pairs
     \/ /\ fams[req[r].fam].st # "gone"
        /\ pairs' = [pairs EXCEPT ![req[r].on].refresh = "live"]
        /\ Goes(r, "answer")
  /\ UNCHANGED <<txns, codes, fams, held, failures, rotated, told, faults, restarts>>

\* The audit row is written and the client gets the pair.
AnswerPair(r) ==
  /\ req[r].pc = "answer"
  /\ held' = held \cup {req[r].on}
  /\ Answers(r)
  /\ UNCHANGED <<tables, failures, rotated, told, faults, restarts>>

\* load_access_token, for a tool call or a revocation: the family, and then the row.
\* The token says of itself when it expires.
AccessPresented(r, p, kind) ==
  /\ p \in held /\ pairs[p].jti \in {"live", "revoked"}
  /\ fams[pairs[p].fam].st \in {"live", "expired"}
  /\ Starts(r, Doing("jti", kind, p, pairs[p].fam, {}, told))
  /\ UNCHANGED <<tables, held, failures, rotated, told, faults, restarts>>

JtiRead(r) ==
  /\ req[r].pc = "jti"
  /\ \/ pairs[req[r].on].jti \notin {"live", "expired"} /\ Answers(r)
     \/ /\ pairs[req[r].on].jti \in {"live", "expired"}
        /\ IF req[r].kind = "call" THEN Goes(r, "serving") ELSE Revokes(r, req[r].fam)
  /\ UNCHANGED <<tables, held, failures, rotated, told, faults, restarts>>

\* The tool call was let in and is over.
Served(r) ==
  /\ req[r].pc = "serving"
  /\ Answers(r)
  /\ UNCHANGED <<tables, held, failures, rotated, told, faults, restarts>>

------------------------------------------------------------------------------
\* Revocation, and the server's start.

RevokeFamily(r) ==
  /\ req[r].pc = "revoke_family"
  /\ FamilyRevoked(req[r].fam)
  /\ Goes(r, "revoke_refresh")
  /\ UNCHANGED <<txns, codes, held, failures, rotated, told, faults, restarts>>

RevokeRefresh(r) ==
  /\ req[r].pc = "revoke_refresh"
  /\ RefreshRevoked(req[r].fam)
  /\ Goes(r, "revoke_access")
  /\ UNCHANGED <<txns, codes, held, failures, rotated, told, faults, restarts>>

RevokeAccess(r) ==
  /\ req[r].pc = "revoke_access"
  /\ AccessRevoked(req[r].fam)
  /\ told' = told \cup {req[r].fam}
  /\ IF req[r].kind = "all" THEN Goes(r, "next") ELSE Answers(r)
  /\ UNCHANGED <<txns, codes, held, failures, rotated, faults, restarts>>

\* oauth_revoke_all_families lists the families once and revokes them one by one.
RevokeAllPosted(r) ==
  /\ Starts(r, Doing("next", "all", None, None, Unrevoked, {}))
  /\ UNCHANGED <<tables, held, failures, rotated, told, faults, restarts>>

RevokeNext(r) ==
  /\ req[r].pc = "next"
  /\ \/ \E f \in req[r].todo :
          req' = [req EXCEPT ![r] =
                    Doing("revoke_family", "all", None, f, req[r].todo \ {f}, {})]
     \/ /\ req[r].todo = {}
        /\ IF r = Boot THEN Goes(r, "fingerprints") ELSE Answers(r)
  /\ UNCHANGED <<tables, held, failures, rotated, told, faults, restarts>>

\* prepare_storage compares the fingerprints; a difference revokes every family.
BootReads ==
  /\ req[Boot].pc = "boot"
  /\ req' = [req EXCEPT ![Boot] =
       IF rotated THEN Doing("next", "all", None, None, Unrevoked, {})
       ELSE Doing("purge", "none", None, None, {}, {})]
  /\ UNCHANGED <<tables, held, failures, rotated, told, faults, restarts>>

\* Only then are the new fingerprints stored: a start that failed is done again.
\* Whoever rotated a secret now counts on every family of before.
StoreFingerprints ==
  /\ req[Boot].pc = "fingerprints"
  /\ rotated' = FALSE
  /\ told' = told \cup {f \in Fams : fams[f].st # "none"}
  /\ req' = [req EXCEPT ![Boot] = Doing("purge", "none", None, None, {}, {})]
  /\ UNCHANGED <<tables, held, failures, faults, restarts>>

------------------------------------------------------------------------------
\* The environment.

\* The time of a transaction, a code, an access token or a family is over.
Expires ==
  /\ \/ \E t \in Txns : /\ txns[t] = "open"
                        /\ txns' = [txns EXCEPT ![t] = "expired"]
                        /\ UNCHANGED <<codes, fams, pairs>>
     \/ \E c \in Codes : /\ codes[c].st = "open"
                         /\ codes' = [codes EXCEPT ![c].st = "expired"]
                         /\ UNCHANGED <<txns, fams, pairs>>
     \/ \E f \in Fams : /\ fams[f].st = "live"
                        /\ fams' = [fams EXCEPT ![f].st = "expired"]
                        /\ UNCHANGED <<txns, codes, pairs>>
     \/ \E p \in Pairs : /\ pairs[p].jti = "live"
                         /\ pairs' = [pairs EXCEPT ![p].jti = "expired"]
                         /\ UNCHANGED <<txns, codes, fams>>
  /\ UNCHANGED <<held, failures, rotated, told, req, faults, restarts>>

WindowPasses ==
  /\ failures' = 0
  /\ UNCHANGED <<tables, held, rotated, told, req, faults, restarts>>

\* A statement raises: the request ends with a server error.
Fault(r) ==
  /\ r \in Requests /\ req[r].pc \notin {"idle", "serving"}
  /\ faults < MaxFaults /\ faults' = faults + 1
  /\ Answers(r)
  /\ UNCHANGED <<tables, held, failures, rotated, told, restarts>>

\* The process dies and starts again, perhaps with a rotated secret.
Restart ==
  /\ restarts < MaxRestarts /\ restarts' = restarts + 1
  /\ req' = [r \in Actors |->
               IF r = Boot THEN Doing("boot", "none", None, None, {}, {}) ELSE Idle]
  /\ failures' = 0
  /\ rotated' \in {rotated, TRUE}
  /\ UNCHANGED <<tables, held, told, faults>>

Arrives(r) ==
  \/ \E t \in Txns, kind \in {"approve", "deny", "mistaken"} : ConsentPosted(r, t, kind)
  \/ \E c \in Codes : CodePresented(r, c)
  \/ \E p \in Pairs : \/ \E kind \in {"token", "revoke"} : RefreshPresented(r, p, kind)
                      \/ \E kind \in {"call", "revoke"} : AccessPresented(r, p, kind)
  \/ RevokeAllPosted(r)

Proceeds(r) ==
  \/ ConsentRead(r) \/ DecisionRead(r) \/ ConsumeTxn(r) \/ InsertCode(r)
  \/ ConsumeCode(r) \/ FamilyRead(r) \/ ConsumeRefresh(r) \/ Purge(r)
  \/ InsertFamily(r) \/ CheckFamily(r) \/ InsertJti(r) \/ InsertRefresh(r)
  \/ AnswerPair(r) \/ JtiRead(r) \/ Served(r)
  \/ RevokeFamily(r) \/ RevokeRefresh(r) \/ RevokeAccess(r) \/ RevokeNext(r)

Next ==
  \/ Authorize
  \/ \E r \in Actors : Arrives(r) \/ Proceeds(r) \/ Fault(r)
  \/ BootReads \/ StoreFingerprints
  \/ Expires \/ WindowPasses \/ Restart

Spec == Init /\ [][Next]_vars

------------------------------------------------------------------------------
Places == {"idle", "consent", "decide", "consume_txn", "insert_code", "consume_code",
           "family", "consume_refresh", "purge", "insert_family", "check_family",
           "insert_jti", "insert_refresh", "answer", "jti", "serving", "revoke_family",
           "revoke_refresh", "revoke_access", "next", "boot", "fingerprints"}
Kinds == {"none", "approve", "deny", "mistaken", "token", "revoke", "reuse", "call", "all"}
Coroutines == [pc : Places, kind : Kinds, on : Nat, fam : Fams \cup {None},
               todo : SUBSET Fams, since : SUBSET Fams]

\* The type invariant.
TypeOK ==
  /\ txns \in [Txns -> {"none", "open", "expired", "consumed", "gone"}]
  /\ codes \in [Codes -> [st : {"none", "open", "expired", "consumed", "gone"},
                          txn : Txns \cup {None}]]
  /\ fams \in [Fams -> [st : {"none", "live", "expired", "revoked", "gone"},
                        code : Codes \cup {None}]]
  /\ pairs \in [Pairs -> [refresh : {"none", "live", "consumed", "revoked", "gone"},
                          jti : {"none", "live", "expired", "revoked", "gone"},
                          fam : Fams \cup {None}, from : Pairs \cup {None}]]
  /\ held \subseteq Pairs
  /\ failures \in 0..AttemptLimit
  /\ rotated \in BOOLEAN
  /\ told \subseteq Fams
  /\ req \in [Actors -> Coroutines]
  /\ faults \in 0..MaxFaults /\ restarts \in 0..MaxRestarts

\* No grant is used twice: one transaction yields one code, one code one family,
\* one refresh token one next pair, and of a family at most one refresh token can
\* still be used, however many requests present the same grant at once
\* (oauth_consume_*, exchange_refresh_token).
GrantsUsedOnce ==
  /\ \A c, d \in Codes : codes[c].txn = codes[d].txn /\ codes[c].txn # None => c = d
  /\ \A f, g \in Fams : fams[f].code = fams[g].code /\ fams[f].code # None => f = g
  /\ \A p, q \in Pairs : pairs[p].from = pairs[q].from /\ pairs[p].from # None => p = q
  /\ \A p, q \in Pairs :
       pairs[p].refresh = "live" /\ pairs[q].refresh = "live"
         /\ pairs[p].fam = pairs[q].fam => p = q

\* Once someone has been told that a family is revoked - its token was presented a
\* second time, /revoke or revoke-all answered, a start with rotated secrets is
\* over - no request that arrives later is let in with a token of that family or
\* gets a new one, whatever was under way at the revocation
\* (docs/self-hosting.md:184-190).
RevokedStaysDead ==
  \A r \in Requests :
    req[r].pc \in {"serving", "consume_refresh", "insert_refresh", "answer"} =>
      req[r].fam \notin req[r].since
==============================================================================
