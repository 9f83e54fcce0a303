---------------------------- MODULE ControlPlane ----------------------------
(***************************************************************************)
(* The administrator's account operations (src/src/http_app.rs) and the    *)
(* background OAuth refresh loop (src/src/main.rs, storage.rs), running    *)
(* concurrently over the account store and the router.                     *)
(*                                                                         *)
(* A call is one HTTP request.  Its steps are the critical sections of its *)
(* handler: each store access, and each wait for the router mutex.         *)
(* Between two steps other calls and the refresh loop run.  The account a  *)
(* handler loaded and the pool snapshot it read are locals of the call,    *)
(* and may be stale when they are used.  A store access may fail; a call   *)
(* that waits for the router mutex may be dropped with its connection.     *)
(* Session and CSRF checks come first and change nothing here.             *)
(***************************************************************************)
EXTENDS AccountStore

CONSTANTS
    Session, NoSession, NoModel, SESSION_IDLE_TIMEOUT, U32Max,  \* Routing
    Call,           \* administrator calls, each made at most once
    Offered,        \* operations administrators make
    AccountInput,   \* accounts an administrator may submit
    SecretInput,    \* credentials an administrator may submit
    StoreFaults,    \* TRUE if store accesses may fail
    CallsDropped,   \* TRUE if a waiting call may be dropped
    Concurrent,     \* how many calls may be in progress at a time
    TokenLife,      \* lifetimes a token endpoint may grant
    MaxId,          \* bound: the refresh loop writes no ciphertext above it
    MaxTime,        \* bound: last instant of the clock
    Horizon         \* bound: last instant a retry time may name

VARIABLES
    accounts, sessions,   \* the router
    calls,                \* each call's program counter and locals
    audit,                \* the calls with a row in the audit table
    refresher,            \* the refresh loop: its pass and what is left of it
    clock

R == INSTANCE Routing WITH Instant <- 0 .. Horizon

controlVars == <<rows, history, next_id, submitted, accounts, sessions,
                 calls, audit, refresher, clock>>

Op == {"none", "create", "rotate", "enable", "delete"}

ASSUME ControlAssumption ==
    /\ NoSession \notin Session
    /\ SESSION_IDLE_TIMEOUT \in Nat
    /\ U32Max \in Nat
    /\ Offered \subseteq Op
    /\ AccountInput \subseteq ProviderAccount
    /\ SecretInput \subseteq Secret
    /\ StoreFaults \in BOOLEAN
    /\ CallsDropped \in BOOLEAN
    /\ Concurrent \in Nat
    /\ TokenLife \subseteq Nat \ {0}
    /\ MaxId \in Nat
    /\ MaxTime \in Nat \ {0}
    /\ Horizon \in Nat
    /\ MaxTime <= Horizon

NoLocal == [kind |-> "none"]

\* A call's program counter and locals: the operation, the account it is
\* about, what it holds of the account and the credential, and the pool.
CallAt(pc, op, id, account, secret, snapshot) ==
    [pc |-> pc, op |-> op, id |-> id, account |-> account, secret |-> secret,
     snapshot |-> snapshot]

\* A call before it is made, one that has begun, and one that is over.
Idle == CallAt("idle", "none", 0, NoLocal, NoLocal, Empty)

Called(pc, op, id, account, secret) ==
    CallAt(pc, op, id, account, secret, Empty)

Over(pc, op, id) == Called(pc, op, id, NoLocal, NoLocal)

Done == {"ok", "error", "dropped"}

IdleRefresher == [now |-> 0, queue |-> Empty]

ControlInit ==
    /\ \E S \in SUBSET Account :
         \E found \in [S -> AccountInput], secrets \in [S -> SecretInput] :
            StoreOpen(found, secrets)
    /\ R!RouterNew(route_accounts)
    /\ calls = [c \in Call |-> Idle]
    /\ audit = {}
    /\ refresher = IdleRefresher
    /\ clock = 1

Step(c, call) == calls' = [calls EXCEPT ![c] = call]

Holding(c, pc, snapshot) ==
    LET call == calls[c]
    IN  Step(c, CallAt(pc, call.op, call.id, call.account, call.secret,
                       snapshot))

Goto(c, pc) == Holding(c, pc, Empty)

Finish(c, result) == Step(c, Over(result, calls[c].op, calls[c].id))

\* append_audit: a failure to append is ignored by every handler.
Audited(c) ==
    \/ audit' = audit \cup {c}
    \/ StoreFaults /\ audit' = audit
-----------------------------------------------------------------------------
(***************************************************************************)
(* POST /accounts                                                          *)
(***************************************************************************)
\* An OAuth account that loads is rotated, any other input is upserted; a
\* load that fails for any reason counts as an account that is not there.
CreateLoad(c, a, account, secret) ==
    /\ calls[c].pc = "idle"
    /\ \/ /\ account.kind = "oauth" /\ load_account_ok(a)
          /\ Step(c, Called("rotate", "create", a, account, secret))
       \/ /\ account.kind = "oauth" => ~ load_account_ok(a) \/ StoreFaults
          /\ Step(c, Called("upsert", "create", a, account, secret))
    /\ UNCHANGED <<storeVars, accounts, sessions, audit, refresher, clock>>

\* The write both POST /accounts and PUT /credential end in.
WriteCredential(c) ==
    LET call == calls[c]
    IN  IF call.pc = "rotate"
        THEN rotate_account_credential(call.id, call.account, call.secret,
                                       clock + Overlap, clock)
        ELSE upsert_account(call.id, call.account, call.secret)

CreateWrite(c) ==
    /\ calls[c].op = "create"
    /\ calls[c].pc \in {"rotate", "upsert"}
    /\ WriteCredential(c)
    /\ Audited(c)
    /\ Goto(c, "snapshot")
    /\ UNCHANGED <<accounts, sessions, refresher, clock>>

(***************************************************************************)
(* refresh_routes: the pool is read from the store, then, once the router  *)
(* mutex is free, put in place.                                            *)
(***************************************************************************)
ReadRoutes(c) ==
    /\ calls[c].pc = "snapshot"
    /\ Holding(c, "replace", route_accounts)
    /\ UNCHANGED <<storeVars, accounts, sessions, audit, refresher, clock>>

\* Mutant: the router is built anew.
RebuildRoutes(c) ==
    /\ calls[c].pc = "replace"
    /\ accounts' = [a \in DOMAIN calls[c].snapshot |->
                        R!FreshAccount(calls[c].snapshot[a])]
    /\ sessions' = R!NoBindings
    /\ Finish(c, "ok")
    /\ UNCHANGED <<storeVars, audit, refresher, clock>>

ReplaceRoutes(c) ==
    /\ calls[c].pc = "replace"
    /\ R!replace_accounts(calls[c].snapshot)
    /\ IF calls[c].op = "create"
       THEN Goto(c, "reset")
       ELSE Finish(c, "ok")
    /\ UNCHANGED <<storeVars, audit, refresher, clock>>

\* reset_account_health, the last step of both credential writes; a rotation
\* is audited only when the router knows the account.
ResetHealth(c) ==
    /\ calls[c].pc = "reset"
    /\ \/ /\ R!reset_account_health(calls[c].id)
          /\ IF calls[c].op = "rotate" THEN Audited(c) ELSE UNCHANGED audit
          /\ Finish(c, "ok")
       \/ /\ calls[c].id \notin DOMAIN accounts
          /\ Finish(c, "error")
          /\ UNCHANGED <<accounts, sessions, audit>>
    /\ UNCHANGED <<storeVars, refresher, clock>>

(***************************************************************************)
(* PUT /accounts/{id}/credential: the whole account is loaded, and written *)
(* back with the new credential.                                           *)
(***************************************************************************)
\* Mutant: a rotation resumes the account.
RotateResuming(c, a, secret) ==
    /\ calls[c].pc = "idle"
    /\ load_account_ok(a)
    /\ Step(c, Called("rotate", "rotate", a,
                      [PublicPart(rows[a]) EXCEPT !.enabled = TRUE], secret))
    /\ UNCHANGED <<storeVars, accounts, sessions, audit, refresher, clock>>

RotateLoad(c, a, secret) ==
    /\ calls[c].pc = "idle"
    /\ IF load_account_ok(a)
       THEN Step(c, Called(IF rows[a].kind = "oauth" THEN "rotate" ELSE "upsert",
                           "rotate", a, PublicPart(rows[a]), secret))
       ELSE Step(c, Over("error", "rotate", a))
    /\ UNCHANGED <<storeVars, accounts, sessions, audit, refresher, clock>>

RotateWrite(c) ==
    /\ calls[c].op = "rotate"
    /\ calls[c].pc \in {"rotate", "upsert"}
    /\ WriteCredential(c)
    /\ Goto(c, "reset")
    /\ UNCHANGED <<accounts, sessions, audit, refresher, clock>>

(***************************************************************************)
(* PUT /accounts/{id}/enabled                                              *)
(***************************************************************************)
EnableRead(c, a, enabled) ==
    /\ calls[c].pc = "idle"
    /\ IF a \in DOMAIN rows
       THEN Step(c, Called("write", "enable", a,
                           [PublicPart(rows[a]) EXCEPT !.enabled = enabled],
                           NoLocal))
       ELSE Step(c, Over("error", "enable", a))
    /\ UNCHANGED <<storeVars, accounts, sessions, audit, refresher, clock>>

\* Mutant: the pool is not refreshed after a pause or a resume.
EnableWriteOnly(c) ==
    /\ calls[c].pc = "write"
    /\ write_account_json(calls[c].id, calls[c].account,
                          calls[c].account.enabled)
    /\ Audited(c)
    /\ Finish(c, "ok")
    /\ UNCHANGED <<accounts, sessions, refresher, clock>>

EnableWrite(c) ==
    /\ calls[c].pc = "write"
    /\ write_account_json(calls[c].id, calls[c].account,
                          calls[c].account.enabled)
    /\ Audited(c)
    /\ Goto(c, "snapshot")
    /\ UNCHANGED <<accounts, sessions, refresher, clock>>

(***************************************************************************)
(* DELETE /accounts/{id}                                                   *)
(***************************************************************************)
DeleteWrite(c, a) ==
    /\ calls[c].pc = "idle"
    /\ \/ /\ delete_account(a)
          /\ Audited(c)
          /\ Step(c, Called("snapshot", "delete", a, NoLocal, NoLocal))
       \/ /\ a \notin DOMAIN rows
          /\ Step(c, Over("error", "delete", a))
          /\ UNCHANGED <<storeVars, audit>>
    /\ UNCHANGED <<accounts, sessions, refresher, clock>>

\* A store access fails and the handler answers with a storage error.
StoreFault(c) ==
    /\ StoreFaults
    /\ calls[c].pc \in {"rotate", "upsert", "write", "snapshot"}
    /\ Finish(c, "error")
    /\ UNCHANGED <<storeVars, accounts, sessions, audit, refresher, clock>>

\* The connection is lost while the handler waits for the router mutex.
Drop(c) ==
    /\ CallsDropped
    /\ calls[c].pc \in {"replace", "reset"}
    /\ Finish(c, "dropped")
    /\ UNCHANGED <<storeVars, accounts, sessions, audit, refresher, clock>>
-----------------------------------------------------------------------------
(***************************************************************************)
(* The refresh loop: a pass reads its candidates once, then refreshes them *)
(* one after another, awaiting the token endpoint for each.                *)
(***************************************************************************)
RefreshBegin ==
    /\ refresher = IdleRefresher
    /\ oauth_refresh_candidates_ok
    /\ DueCandidates(clock) # Empty
    /\ refresher' = [now |-> clock, queue |-> DueCandidates(clock)]
    /\ UNCHANGED <<storeVars, accounts, sessions, calls, audit, clock>>

RefreshHead ==
    CHOOSE a \in DOMAIN refresher.queue :
        \A b \in DOMAIN refresher.queue : a <= b

RefreshRest ==
    IF Cardinality(DOMAIN refresher.queue) = 1
    THEN IdleRefresher
    ELSE [now |-> refresher.now,
          queue |-> Without(refresher.queue, RefreshHead)]

\* The endpoint answered with a token that lives until expires_at.
RefreshReplace(expires_at) ==
    /\ refresher.queue # Empty
    /\ next_id <= MaxId
    /\ LET cred == refresher.queue[RefreshHead]
       IN  replace_oauth_if_current(
                RefreshHead, cred,
                [form |-> "envelope", expires_at |-> expires_at],
                PreviousValidUntil(cred, refresher.now), clock)
    /\ refresher' = RefreshRest
    /\ UNCHANGED <<accounts, sessions, calls, audit, clock>>

\* The endpoint failed, or the store did: the candidate is skipped.
RefreshFail ==
    /\ refresher.queue # Empty
    /\ refresher' = RefreshRest
    /\ UNCHANGED <<storeVars, accounts, sessions, calls, audit, clock>>

Tick ==
    /\ clock < MaxTime
    /\ clock' = clock + 1
    /\ UNCHANGED <<storeVars, accounts, sessions, calls, audit, refresher>>

CallStep(c) ==
    \/ CreateWrite(c)
    \/ ReadRoutes(c)
    \/ ReplaceRoutes(c)
    \/ ResetHealth(c)
    \/ RotateWrite(c)
    \/ EnableWrite(c)

InProgress == {c \in Call : calls[c].pc \notin Done \cup {"idle"}}

CallBegin(c) ==
    /\ Cardinality(InProgress) < Concurrent
    /\ \E a \in Account :
        \/ /\ "create" \in Offered
           /\ \E account \in AccountInput, secret \in SecretInput :
                CreateLoad(c, a, account, secret)
        \/ /\ "rotate" \in Offered
           /\ \E secret \in SecretInput : RotateLoad(c, a, secret)
        \/ /\ "enable" \in Offered
           /\ \E enabled \in BOOLEAN : EnableRead(c, a, enabled)
        \/ /\ "delete" \in Offered
           /\ DeleteWrite(c, a)

RefreshNext ==
    \/ RefreshBegin
    \/ \E life \in TokenLife : RefreshReplace(clock + life)
    \/ RefreshFail

ControlNext ==
    \/ \E c \in Call : CallBegin(c)
    \/ \E c \in Call : CallStep(c)
    \/ \E c \in Call : StoreFault(c)
    \/ \E c \in Call : Drop(c)
    \/ RefreshNext
    \/ Tick

ControlSpec == ControlInit /\ [][ControlNext]_controlVars
-----------------------------------------------------------------------------
\* Type invariant of the store and of the calls.
ControlTypeOK ==
    /\ DOMAIN rows \subseteq Account
    /\ \A a \in DOMAIN rows : rows[a] \in AccountRow
    /\ DOMAIN history \subseteq Account
    /\ \A a \in DOMAIN history : history[a] \in HistoryRow
    /\ next_id \in Nat
    /\ DOMAIN submitted = DOMAIN rows
    /\ R!RouterTypeOK
    /\ \A c \in Call : calls[c].op \in Op
    /\ audit \subseteq Call
    /\ DOMAIN refresher.queue \subseteq Account
    /\ clock \in Nat

\* The current credential is the one the administrator wrote last, or was
\* refreshed from it: the compare-and-swap (storage.rs:351-365) never lets a
\* refresh that began before an administrator's write undo that write, nor
\* bring a deleted account back.
CredentialLineage ==
    \A a \in DOMAIN rows : rows[a].cred.origin = submitted[a]

\* The credential history (storage.rs:183-186, 209-222, 366-377) holds only
\* accounts that exist, and for each an older credential than the current.
HistoryIsOlder ==
    \A a \in DOMAIN history :
        /\ a \in DOMAIN rows
        /\ history[a].cred.id < rows[a].cred.id

\* A replaced token outlives its replacement by Overlap at most, however
\* long the refresh that replaced it waited for the token endpoint
\* (storage.rs:261-265, http_app.rs:284-288, 349-353).  An administrator's
\* rotation of an OAuth account grants that overlap too, where
\* docs/authentication.md:10-11 says that it ends with the next request.
OverlapBounded ==
    \A a \in DOMAIN history : history[a].expires_at <= history[a].since + Overlap

\* Only a step of an administrator's call lets a token in that was refused
\* before it: neither time nor the refresh loop makes any token a member but
\* the one a refresh has just stored, however late the token endpoint
\* answers, and whatever was rotated, deleted or expired meanwhile
\* (storage.rs:261-265, 337-380).
RefreshRevivesNone ==
    [][calls' = calls =>
        Members(clock)' \subseteq Members(clock) \cup {next_id}]_controlVars

\* The router's pool is the store's: the same accounts, as enabled and with
\* the same models.
PoolIsStore ==
    /\ DOMAIN accounts = DOMAIN rows
    /\ \A a \in DOMAIN rows :
        /\ accounts[a].enabled = rows[a].enabled
        /\ accounts[a].models = rows[a].models

\* When no administrator call is in progress the router's pool is the
\* store's.
PoolMatchesStore == InProgress = {} => PoolIsStore

\* A create, pause, resume or delete that answers with success leaves the
\* pool equal to the store, also where earlier calls failed or were dropped
\* between their write and their refresh of the routes (http_app.rs:307, 406,
\* 435, 530-537).
PoolRepaired ==
    [][\A c \in Call :
          /\ calls[c].op # "rotate"
          /\ calls[c].pc # "ok" /\ calls'[c].pc = "ok"
          => PoolIsStore']_controlVars

\* Replacing a credential leaves the rest of the account as it is.
RotationPreservesAccount ==
    [][\A c \in Call :
          /\ calls[c].op = "rotate"
          /\ calls[c].pc \in {"rotate", "upsert"}
          /\ calls'[c].pc = "reset"
          => LET a == calls[c].id
             IN  a \in DOMAIN rows /\ PublicPart(rows'[a]) = PublicPart(rows[a])
      ]_controlVars

\* A row's account and egress columns come from one submitted account.
RowsNotTorn ==
    \A a \in DOMAIN rows : \E i \in AccountInput :
        /\ rows[a].kind = i.kind
        /\ rows[a].models = i.models
        /\ rows[a].egress = i.egress

\* A token the refresh loop replaced stays a member no longer than its own
\* expiry (storage.rs:261-265).
RefreshedTokenExpires ==
    \A a \in DOMAIN history :
        history[a].cred.origin = submitted[a] =>
            history[a].expires_at <= history[a].cred.expires_at
-----------------------------------------------------------------------------
(***************************************************************************)
(* Liveness.  The refresh loop's timer keeps firing and its pass is never  *)
(* abandoned; the token endpoint may fail any number of times, but not for *)
(* ever.                                                                   *)
(***************************************************************************)
Refreshes(a) ==
    /\ a \in DOMAIN refresher.queue
    /\ a = RefreshHead
    /\ \E life \in TokenLife : RefreshReplace(clock + life)

FairControlSpec ==
    /\ ControlSpec
    /\ WF_controlVars(RefreshBegin)
    /\ \A a \in Account : SF_controlVars(Refreshes(a))

\* No token stays due for ever: it is replaced in the end, unless its account
\* is paused, deleted or turned into another kind first (storage.rs:243-280).
\* A token endpoint may grant less than RefreshLead (storage.rs:937), and
\* then the new token is due as soon as it is stored: refreshes follow each
\* other until the model's bound on ids, after which nothing is claimed.
DueIsRefreshed ==
    \A a \in Account :
        []<> (\/ ~ (a \in RefreshRows /\ Due(rows[a].cred, clock))
              \/ next_id > MaxId)
=============================================================================
