------------------------------ MODULE PoolProofs ------------------------------
(***************************************************************************)
(* Proofs about the router's pool when administrator calls do not overlap: *)
(* what the calls promise one at a time, for every number of accounts and  *)
(* calls and beside any refreshes and requests.  Calls that overlap do     *)
(* break these promises.  The bound on the pool's counts of requests holds *)
(* for calls that overlap too.                                             *)
(***************************************************************************)
EXTENDS ControlPlaneProofs

\* Calls that do not overlap: one begins only while none is in progress.
Exclusive == \A S \in SUBSET Call : Cardinality(S) < Concurrent => S = {}
-----------------------------------------------------------------------------
(***************************************************************************)
(* Steps that change neither the public part of a row nor the pool.        *)
(***************************************************************************)
RowsSame ==
    /\ DOMAIN rows' = DOMAIN rows
    /\ \A a \in DOMAIN rows : PublicPart(rows'[a]) = PublicPart(rows[a])

PoolSame ==
    /\ DOMAIN accounts' = DOMAIN accounts
    /\ \A a \in DOMAIN accounts :
        /\ accounts'[a].enabled = accounts[a].enabled
        /\ accounts'[a].models = accounts[a].models

LEMMA PublicFacts ==
    ASSUME NEW r, NEW q, PublicPart(r) = PublicPart(q)
    PROVE  r.enabled = q.enabled /\ r.models = q.models
<1>1. /\ PublicPart(r).enabled = r.enabled /\ PublicPart(r).models = r.models
      /\ PublicPart(q).enabled = q.enabled /\ PublicPart(q).models = q.models
    BY DEF PublicPart
<1> QED BY <1>1

LEMMA RowPublic ==
    ASSUME NEW account, NEW cred
    PROVE  PublicPart(Row(account, cred)) = PublicPart(account)
BY DEF PublicPart, Row

LEMMA PublicTwice ==
    ASSUME NEW r PROVE PublicPart(PublicPart(r)) = PublicPart(r)
BY DEF PublicPart

LEMMA RoutesSame ==
    ASSUME RowsSame PROVE route_accounts' = route_accounts
<1>1. \A a \in DOMAIN rows : /\ rows'[a].enabled = rows[a].enabled
                             /\ rows'[a].models = rows[a].models
    BY PublicFacts DEF RowsSame
<1> QED BY <1>1 DEF RowsSame, route_accounts

LEMMA PoolKept ==
    ASSUME RowsSame, PoolSame, PoolIsStore PROVE PoolIsStore'
<1>1. \A a \in DOMAIN rows : /\ rows'[a].enabled = rows[a].enabled
                             /\ rows'[a].models = rows[a].models
    BY PublicFacts DEF RowsSame
<1> QED BY <1>1 DEF RowsSame, PoolSame, PoolIsStore

LEMMA RewrittenSame ==
    ASSUME NEW a \in DOMAIN rows, NEW row, rows' = With(rows, a, row),
           PublicPart(row) = PublicPart(rows[a])
    PROVE  RowsSame
BY DEF RowsSame, With
-----------------------------------------------------------------------------
(***************************************************************************)
(* The pool's entries, and what the router's operations do to them.        *)
(***************************************************************************)
Entries ==
    \A a \in DOMAIN accounts :
        "enabled" \in DOMAIN accounts[a] /\ "models" \in DOMAIN accounts[a]

LEMMA ReplacedPool ==
    ASSUME Entries, R!replace_accounts(route_accounts), UNCHANGED rows
    PROVE  Entries' /\ PoolIsStore'
<1>1. /\ DOMAIN route_accounts = DOMAIN rows
      /\ \A a \in DOMAIN rows :
            /\ route_accounts[a].enabled = rows[a].enabled
            /\ route_accounts[a].models = rows[a].models
    BY DEF route_accounts
<1>2. /\ DOMAIN accounts' = DOMAIN rows
      /\ \A a \in DOMAIN rows :
            accounts'[a] = R!Replacement(a, route_accounts[a])
    BY <1>1 DEF R!replace_accounts
<1>3. ASSUME NEW a \in DOMAIN rows
      PROVE  /\ accounts'[a].enabled = rows[a].enabled
             /\ accounts'[a].models = rows[a].models
             /\ "enabled" \in DOMAIN accounts'[a]
             /\ "models" \in DOMAIN accounts'[a]
    <2> DEFINE p == route_accounts[a]
    <2>1. CASE a \in DOMAIN accounts /\ accounts[a].enabled = p.enabled
        <3>1. accounts'[a] = [accounts[a] EXCEPT !.models = p.models]
            BY <1>2, <2>1 DEF R!Replacement
        <3>2. "enabled" \in DOMAIN accounts[a] /\ "models" \in DOMAIN accounts[a]
            BY <2>1 DEF Entries
        <3> QED BY <1>1, <2>1, <3>1, <3>2
    <2>2. CASE ~ (a \in DOMAIN accounts /\ accounts[a].enabled = p.enabled)
        <3>1. accounts'[a] = R!FreshAccount(p)
            BY <1>2, <2>2 DEF R!Replacement
        <3> QED BY <1>1, <3>1 DEF R!FreshAccount
    <2> QED BY <2>1, <2>2
<1> QED BY <1>2, <1>3 DEF Entries, PoolIsStore

LEMMA ResetPool ==
    ASSUME Entries, NEW a, R!reset_account_health(a)
    PROVE  Entries' /\ PoolSame
<1>1. /\ a \in DOMAIN accounts
      /\ accounts' = [accounts EXCEPT ![a].healthy = TRUE,
                                      ![a].depleted_until = R!NotDepleted]
    BY DEF R!reset_account_health
<1>2. "enabled" \in DOMAIN accounts[a] /\ "models" \in DOMAIN accounts[a]
    BY <1>1 DEF Entries
<1>3. /\ accounts'[a].enabled = accounts[a].enabled
      /\ accounts'[a].models = accounts[a].models
      /\ DOMAIN accounts'[a] = DOMAIN accounts[a]
    BY <1>1, <1>2
<1>4. /\ DOMAIN accounts' = DOMAIN accounts
      /\ \A b \in DOMAIN accounts : b # a => accounts'[b] = accounts[b]
    BY <1>1
<1> QED BY <1>2, <1>3, <1>4 DEF Entries, PoolSame
-----------------------------------------------------------------------------
(***************************************************************************)
(* The inductive invariant: one call at a time, which holds the account it *)
(* loaded and the pool it read as they still are.                          *)
(***************************************************************************)
CallFits(call) ==
    /\ call.pc \in Writing /\ call.op = "rotate" =>
            /\ call.id \in DOMAIN rows
            /\ call.account = PublicPart(rows[call.id])
    /\ call.pc = "replace" => call.snapshot = route_accounts
    /\ call.pc = "reset" /\ call.op # "rotate" => PoolIsStore

PoolInv ==
    /\ DOMAIN calls = Call
    /\ \A c, d \in InProgress : c = d
    /\ Entries
    /\ \A c \in Call : CallFits(calls[c])

LEMMA FitsKept ==
    ASSUME NEW call, CallFits(call), RowsSame, PoolSame
    PROVE  CallFits(call)'
BY RoutesSame, PoolKept DEF CallFits, RowsSame

LEMMA Alone ==
    ASSUME PoolInv, NEW c \in InProgress PROVE InProgress \subseteq {c}
BY DEF PoolInv

LEMMA FirstCall ==
    ASSUME Exclusive, NEW c, CallBegin(c) PROVE InProgress = {}
BY DEF Exclusive, InProgress, CallBegin

\* A step of the only call in progress.
LEMMA SerialStep ==
    ASSUME PoolInv, NEW c \in Call, InProgress \subseteq {c},
           NEW call, Step(c, call), Entries', CallFits(call)'
    PROVE  PoolInv'
<1>1. /\ DOMAIN calls' = Call /\ calls'[c] = call
      /\ \A d \in Call : d # c => calls'[d] = calls[d]
    BY DEF PoolInv, Step
<1>2. \A d \in Call : d # c => calls[d].pc \in Done \cup {"idle"}
    BY DEF InProgress
<1>3. InProgress' \subseteq {c}
    BY <1>1, <1>2 DEF InProgress
<1>4. ASSUME NEW d \in Call, d # c PROVE CallFits(calls[d])'
    BY <1>1, <1>2, <1>4 DEF CallFits, Done, Writing
<1>5. \A d \in Call : CallFits(calls[d])'
    BY <1>1, <1>4
<1> QED BY <1>1, <1>3, <1>5 DEF PoolInv

\* A step that holds nothing the invariant speaks of.
LEMMA PlainStep ==
    ASSUME PoolInv, NEW c \in Call, InProgress \subseteq {c},
           NEW call, Step(c, call), Entries',
           call.pc \notin Writing \cup {"replace", "reset"}
    PROVE  PoolInv'
<1>1. CallFits(call)'
    BY DEF CallFits
<1> QED BY <1>1, SerialStep

\* A call begins where it was idle, and leaves the pool alone.
LEMMA BeginFacts ==
    ASSUME NEW c \in Call, CallBegin(c)
    PROVE  /\ calls[c].pc = "idle"
           /\ \E call : Step(c, call)
           /\ accounts' = accounts
<1> DEFINE Goal == /\ calls[c].pc = "idle"
                   /\ \E call : Step(c, call)
                   /\ accounts' = accounts
<1>1. PICK a \in Account :
        \/ \E account \in AccountInput, secret \in SecretInput :
                CreateLoad(c, a, account, secret)
        \/ \E secret \in SecretInput : RotateLoad(c, a, secret)
        \/ \E enabled \in BOOLEAN : EnableRead(c, a, enabled)
        \/ DeleteWrite(c, a)
    BY DEF CallBegin
<1>2. ASSUME NEW account, NEW secret, CreateLoad(c, a, account, secret)
      PROVE  Goal
    BY <1>2 DEF CreateLoad
<1>3. ASSUME NEW secret, RotateLoad(c, a, secret) PROVE Goal
    BY <1>3 DEF RotateLoad
<1>4. ASSUME NEW enabled, EnableRead(c, a, enabled) PROVE Goal
    BY <1>4 DEF EnableRead
<1>5. ASSUME DeleteWrite(c, a) PROVE Goal
    BY <1>5 DEF DeleteWrite
<1> HIDE DEF Goal
<1>6. Goal
    BY <1>1, <1>2, <1>3, <1>4, <1>5
<1> QED BY <1>6 DEF Goal

\* What a call holds after its first step.
LEMMA CreateBegins ==
    ASSUME NEW c, NEW a, NEW account, NEW secret,
           CreateLoad(c, a, account, secret)
    PROVE  \E call : /\ Step(c, call) /\ call.pc \in Writing
                     /\ call.op = "create" /\ call.account = account
<1>1. PICK pc \in Writing :
        Step(c, CallAt(pc, "create", a, account, secret, Empty))
    BY Zenon DEF CreateLoad, Called, Writing
<1> QED BY <1>1, CallFacts

LEMMA RotateBegins ==
    ASSUME NEW c, NEW a, NEW secret, RotateLoad(c, a, secret)
    PROVE  \E call :
            /\ Step(c, call)
            /\ \/ /\ call.pc \in Writing /\ call.op = "rotate" /\ call.id = a
                  /\ a \in DOMAIN rows /\ call.account = PublicPart(rows[a])
               \/ call.pc = "error"
<1>1. CASE load_account_ok(a)
    <2>1. PICK pc \in Writing :
            Step(c, CallAt(pc, "rotate", a, PublicPart(rows[a]), secret, Empty))
        BY <1>1, Zenon DEF RotateLoad, Called, Writing
    <2>2. a \in DOMAIN rows
        BY <1>1 DEF load_account_ok
    <2> QED BY <2>1, <2>2, CallFacts
<1>2. CASE ~ load_account_ok(a)
    <2>1. Step(c, CallAt("error", "rotate", a, NoLocal, NoLocal, Empty))
        BY <1>2, Zenon DEF RotateLoad, Over, Called
    <2> QED BY <2>1, CallFacts
<1> QED BY <1>1, <1>2

LEMMA EnableBegins ==
    ASSUME NEW c, NEW a, NEW enabled, EnableRead(c, a, enabled)
    PROVE  \E call :
            /\ Step(c, call)
            /\ \/ /\ call.pc = "write" /\ call.id = a /\ a \in DOMAIN rows
                  /\ call.account.kind = rows[a].kind
                  /\ call.account.models = rows[a].models
               \/ call.pc = "error"
<1>1. CASE a \in DOMAIN rows
    <2>1. PICK account :
            /\ account = [PublicPart(rows[a]) EXCEPT !.enabled = enabled]
            /\ Step(c, CallAt("write", "enable", a, account, NoLocal, Empty))
        BY <1>1, Zenon DEF EnableRead, Called
    <2>2. account.kind = rows[a].kind /\ account.models = rows[a].models
        BY <2>1 DEF PublicPart
    <2>3. PICK call :
            /\ call = CallAt("write", "enable", a, account, NoLocal, Empty)
            /\ Step(c, call)
        BY <2>1, Zenon
    <2>4. call.pc = "write" /\ call.id = a /\ call.account = account
        BY <2>3, CallFacts
    <2> QED BY <1>1, <2>2, <2>3, <2>4, Zenon
<1>2. CASE a \notin DOMAIN rows
    <2>1. Step(c, CallAt("error", "enable", a, NoLocal, NoLocal, Empty))
        BY <1>2, Zenon DEF EnableRead, Over, Called
    <2> QED BY <2>1, CallFacts
<1> QED BY <1>1, <1>2

LEMMA DeleteBegins ==
    ASSUME NEW c, NEW a, DeleteWrite(c, a)
    PROVE  \E call : Step(c, call) /\ call.pc \in {"snapshot", "error"}
<1>1. PICK pc \in {"snapshot", "error"} :
        Step(c, CallAt(pc, "delete", a, NoLocal, NoLocal, Empty))
    BY Zenon DEF DeleteWrite, Over, Called
<1> QED BY <1>1, CallFacts

LEMMA PoolInitInv == ControlInit => PoolInv
<1> SUFFICES ASSUME ControlInit PROVE PoolInv
    OBVIOUS
<1>1. DOMAIN calls = Call /\ \A c \in Call : calls[c].pc = "idle"
    BY DEF ControlInit, Idle, CallAt
<1>2. Entries
    BY DEF ControlInit, R!RouterNew, R!FreshAccount, Entries, route_accounts
<1> QED BY <1>1, <1>2 DEF PoolInv, InProgress, CallFits, Writing
-----------------------------------------------------------------------------
(***************************************************************************)
(* One lemma for the steps of each kind.                                   *)
(***************************************************************************)
LEMMA PoolBegin ==
    ASSUME Exclusive, PoolInv, NEW c \in Call, CallBegin(c)
    PROVE  PoolInv'
<1>1. InProgress \subseteq {c} /\ Entries
    BY FirstCall DEF PoolInv
<1>2. PICK a \in Account :
        \/ \E account \in AccountInput, secret \in SecretInput :
                CreateLoad(c, a, account, secret)
        \/ \E secret \in SecretInput : RotateLoad(c, a, secret)
        \/ \E enabled \in BOOLEAN : EnableRead(c, a, enabled)
        \/ DeleteWrite(c, a)
    BY DEF CallBegin
<1>3. Entries'
    BY <1>1, BeginFacts DEF Entries
<1>4. ASSUME NEW account \in AccountInput, NEW secret \in SecretInput,
             CreateLoad(c, a, account, secret)
      PROVE  PoolInv'
    <2>1. PICK call : /\ Step(c, call) /\ call.pc \in Writing
                      /\ call.op = "create"
        BY <1>4, CreateBegins
    <2>2. CallFits(call)'
        BY <2>1 DEF CallFits, Writing
    <2> QED BY <1>1, <1>3, <2>1, <2>2, SerialStep
<1>5. ASSUME NEW secret \in SecretInput, RotateLoad(c, a, secret)
      PROVE  PoolInv'
    <2>1. PICK call :
            /\ Step(c, call)
            /\ \/ /\ call.pc \in Writing /\ call.op = "rotate" /\ call.id = a
                  /\ a \in DOMAIN rows /\ call.account = PublicPart(rows[a])
               \/ call.pc = "error"
        BY <1>5, RotateBegins
    <2>2. UNCHANGED rows
        BY <1>5 DEF RotateLoad, storeVars
    <2>3. CallFits(call)'
        BY <2>1, <2>2 DEF CallFits, Writing
    <2> QED BY <1>1, <1>3, <2>1, <2>3, SerialStep
<1>6. ASSUME NEW enabled \in BOOLEAN, EnableRead(c, a, enabled)
      PROVE  PoolInv'
    <2>1. PICK call : Step(c, call) /\ call.pc \in {"write", "error"}
        BY <1>6, EnableBegins
    <2> QED BY <1>1, <1>3, <2>1, PlainStep DEF Writing
<1>7. ASSUME DeleteWrite(c, a) PROVE PoolInv'
    BY <1>1, <1>3, <1>7, DeleteBegins, PlainStep DEF Writing
<1> QED BY <1>2, <1>4, <1>5, <1>6, <1>7

LEMMA HeldCall ==
    ASSUME NEW c, NEW pc, NEW snapshot, Holding(c, pc, snapshot)
    PROVE  \E call : /\ Step(c, call) /\ call.pc = pc
                     /\ call.op = calls[c].op /\ call.snapshot = snapshot
BY CallFacts DEF Holding

LEMMA FinishedCall ==
    ASSUME NEW c, NEW result, Finish(c, result)
    PROVE  \E call : Step(c, call) /\ call.pc = result
BY CallFacts DEF Finish, Over, Called

\* PUT /credential writes the account back as it is.
LEMMA RotateKeeps ==
    ASSUME PoolInv, NEW c \in Call, RotateWrite(c)
    PROVE  RowsSame /\ calls[c].id \in DOMAIN rows
<1> DEFINE call == calls[c]
<1>1. call.id \in DOMAIN rows /\ call.account = PublicPart(rows[call.id])
    BY DEF PoolInv, CallFits, RotateWrite, Writing
<1>2. rows' = With(rows, call.id,
                   Row(call.account, encrypt(call.secret, next_id)))
    BY DEF RotateWrite, WriteCredential, rotate_account_credential,
           upsert_account
<1> HIDE DEF call
<1>3. PublicPart(Row(call.account, encrypt(call.secret, next_id)))
            = PublicPart(rows[call.id])
    BY <1>1, RowPublic, PublicTwice
<1> QED BY <1>1, <1>2, <1>3, RewrittenSame DEF call

LEMMA PoolCallStep ==
    ASSUME PoolInv, NEW c \in Call, CallStep(c)
    PROVE  PoolInv'
<1> USE DEF Writing
<1>1. InProgress \subseteq {c} /\ Entries
    <2>1. c \in InProgress
        BY DEF InProgress, Done, CallStep, CreateWrite, ReadRoutes,
               ReplaceRoutes, ResetHealth, RotateWrite, EnableWrite
    <2> QED BY <2>1, Alone DEF PoolInv
<1>2. ASSUME CreateWrite(c) \/ EnableWrite(c) PROVE PoolInv'
    <2>1. Holding(c, "snapshot", Empty) /\ Entries'
        BY <1>1, <1>2 DEF CreateWrite, EnableWrite, Goto, Entries
    <2> QED BY <1>1, <2>1, HeldCall, PlainStep, SMTT(30)
<1>3. CASE ReadRoutes(c)
    <2>1. PICK call : /\ Step(c, call) /\ call.pc = "replace"
                      /\ call.snapshot = route_accounts
        BY <1>3, HeldCall, SMTT(30) DEF ReadRoutes
    <2>2. RowsSame /\ Entries'
        BY <1>1, <1>3 DEF ReadRoutes, storeVars, RowsSame, Entries
    <2>3. CallFits(call)'
        BY <2>1, <2>2, RoutesSame DEF CallFits
    <2> QED BY <1>1, <2>1, <2>2, <2>3, SerialStep
<1>4. CASE ReplaceRoutes(c)
    <2>1. calls[c].snapshot = route_accounts
        BY <1>4 DEF PoolInv, CallFits, ReplaceRoutes
    <2>2. Entries' /\ PoolIsStore'
        BY <1>1, <1>4, <2>1, ReplacedPool DEF ReplaceRoutes, storeVars
    <2>3. PICK call : Step(c, call) /\ call.pc \in {"reset", "ok"}
        BY <1>4, HeldCall, FinishedCall, SMTT(30) DEF ReplaceRoutes, Goto
    <2>4. CallFits(call)'
        BY <2>2, <2>3 DEF CallFits
    <2> QED BY <1>1, <2>2, <2>3, <2>4, SerialStep
<1>5. CASE ResetHealth(c)
    <2>1. Entries'
        BY <1>1, <1>5, ResetPool DEF ResetHealth, Entries
    <2>2. PICK call : Step(c, call) /\ call.pc \in {"ok", "error"}
        BY <1>5, FinishedCall, SMTT(30) DEF ResetHealth
    <2> QED BY <1>1, <2>1, <2>2, PlainStep
<1>6. CASE RotateWrite(c)
    <2>1. PICK call : Step(c, call) /\ call.pc = "reset" /\ call.op = "rotate"
        BY <1>6, HeldCall, SMTT(30) DEF RotateWrite, Goto
    <2>2. Entries'
        BY <1>1, <1>6 DEF RotateWrite, Entries
    <2>3. CallFits(call)'
        BY <2>1 DEF CallFits
    <2> QED BY <1>1, <2>1, <2>2, <2>3, SerialStep
<1> QED BY <1>2, <1>3, <1>4, <1>5, <1>6 DEF CallStep

LEMMA PoolLostCall ==
    ASSUME PoolInv, NEW c \in Call, StoreFault(c) \/ Drop(c)
    PROVE  PoolInv'
<1>1. c \in InProgress
    BY DEF InProgress, Done, StoreFault, Drop
<1>2. InProgress \subseteq {c} /\ Entries'
    BY <1>1, Alone DEF PoolInv, Entries, StoreFault, Drop
<1>3. PICK call : Step(c, call) /\ call.pc \in {"error", "dropped"}
    BY FinishedCall, SMTT(30) DEF StoreFault, Drop
<1> QED BY <1>2, <1>3, PlainStep DEF Writing

\* Steps of no call: a refresh replaces a credential and nothing else.
LEMMA RefreshKeeps ==
    ASSUME RefreshNext \/ Tick \/ UNCHANGED controlVars
    PROVE  RowsSame /\ UNCHANGED <<accounts, calls>>
<1>1. ASSUME NEW life \in TokenLife, RefreshReplace(clock + life)
      PROVE  RowsSame
    <2> DEFINE a == RefreshHead
               cred == refresher.queue[a]
               new == encrypt([form |-> "envelope",
                               expires_at |-> clock + life], cred.origin)
    <2>1. CASE IsCurrent(a, cred)
        <3>1. a \in DOMAIN rows /\ rows' = With(rows, a, Row(rows[a], new))
            BY <1>1, <2>1
            DEF RefreshReplace, replace_oauth_if_current, IsCurrent
        <3> HIDE DEF a, new
        <3>2. PublicPart(Row(rows[a], new)) = PublicPart(rows[a])
            BY RowPublic
        <3> QED BY <3>1, <3>2, RewrittenSame
    <2>2. CASE ~ IsCurrent(a, cred)
        <3>1. UNCHANGED rows
            BY <1>1, <2>2
            DEF RefreshReplace, replace_oauth_if_current, storeVars
        <3> QED BY <3>1 DEF RowsSame
    <2> QED BY <2>1, <2>2
<1>2. ASSUME UNCHANGED rows PROVE RowsSame
    BY <1>2 DEF RowsSame
<1> QED BY <1>1, <1>2, Zenon DEF RefreshNext, RefreshBegin, RefreshReplace,
            RefreshFail, Tick, controlVars, storeVars

LEMMA PoolNoCall ==
    ASSUME PoolInv, RefreshNext \/ Tick \/ UNCHANGED controlVars
    PROVE  PoolInv'
<1>1. RowsSame /\ PoolSame /\ UNCHANGED <<accounts, calls>>
    BY RefreshKeeps DEF PoolSame
<1>2. \A c \in Call : CallFits(calls[c])'
    BY <1>1, FitsKept DEF PoolInv
<1> QED BY <1>1, <1>2 DEF PoolInv, Entries, InProgress

LEMMA PoolNextInv ==
    Exclusive /\ PoolInv /\ [ControlNext]_controlVars => PoolInv'
BY PoolBegin, PoolCallStep, PoolLostCall, PoolNoCall DEF ControlNext

LEMMA PoolInvAlways == ASSUME Exclusive PROVE ControlSpec => []PoolInv
<1>1. PoolInv /\ [ControlNext]_controlVars => PoolInv'
    BY PoolNextInv
<1> QED BY <1>1, PoolInitInv, PTL DEF ControlSpec
-----------------------------------------------------------------------------
(***************************************************************************)
(* What a step to success, and a rotation's write, leave behind.           *)
(***************************************************************************)
\* A call's program counter changes only by a step of that call.
LEMMA OwnStep ==
    ASSUME DOMAIN calls = Call, NEW c \in Call, NEW d \in Call, NEW call,
           Step(d, call), calls'[c].pc # calls[c].pc
    PROVE  c = d /\ calls'[c] = call
BY DEF Step

\* Only a call whose last step reached the router answers with success.
LEMMA OkStep ==
    ASSUME DOMAIN calls = Call, NEW c \in Call, [ControlNext]_controlVars,
           calls[c].pc # "ok", calls'[c].pc = "ok"
    PROVE  ReplaceRoutes(c) \/ ResetHealth(c)
<1>1. ASSUME NEW d \in Call, CallBegin(d) PROVE FALSE
    <2>1. PICK call : Step(d, call) /\ call.pc # "ok"
        <3>1. PICK a \in Account :
                \/ \E account \in AccountInput, secret \in SecretInput :
                        CreateLoad(d, a, account, secret)
                \/ \E secret \in SecretInput : RotateLoad(d, a, secret)
                \/ \E enabled \in BOOLEAN : EnableRead(d, a, enabled)
                \/ DeleteWrite(d, a)
            BY <1>1 DEF CallBegin
        <3>2. PICK pc, op, account, secret :
                /\ pc # "ok"
                /\ Step(d, CallAt(pc, op, a, account, secret, Empty))
            <4>1. ASSUME NEW account, NEW secret,
                         CreateLoad(d, a, account, secret)
                  PROVE  \E pc : /\ pc # "ok"
                                 /\ Step(d, CallAt(pc, "create", a, account,
                                                   secret, Empty))
                BY <4>1 DEF CreateLoad, Called
            <4>2. ASSUME NEW secret, RotateLoad(d, a, secret)
                  PROVE  \E pc, account, held :
                            /\ pc # "ok"
                            /\ Step(d, CallAt(pc, "rotate", a, account, held,
                                              Empty))
                BY <4>2 DEF RotateLoad, Over, Called
            <4>3. ASSUME NEW enabled, EnableRead(d, a, enabled)
                  PROVE  \E pc, account :
                            /\ pc # "ok"
                            /\ Step(d, CallAt(pc, "enable", a, account,
                                              NoLocal, Empty))
                BY <4>3 DEF EnableRead, Over, Called
            <4>4. ASSUME DeleteWrite(d, a)
                  PROVE  \E pc : /\ pc # "ok"
                                 /\ Step(d, CallAt(pc, "delete", a, NoLocal,
                                                   NoLocal, Empty))
                BY <4>4 DEF DeleteWrite, Over, Called
            <4> QED BY <3>1, <4>1, <4>2, <4>3, <4>4
        <3> QED BY <3>2, CallFacts
    <2> QED BY <2>1, OwnStep
<1>2. ASSUME NEW d \in Call,
             CreateWrite(d) \/ RotateWrite(d) \/ EnableWrite(d) \/ ReadRoutes(d)
      PROVE  FALSE
    <2>1. PICK call : Step(d, call) /\ call.pc # "ok"
        BY <1>2, HeldCall, SMTT(30)
        DEF CreateWrite, RotateWrite, EnableWrite, ReadRoutes, Goto
    <2> QED BY <2>1, OwnStep
<1>3. ASSUME NEW d \in Call, StoreFault(d) \/ Drop(d) PROVE FALSE
    <2>1. PICK call : Step(d, call) /\ call.pc # "ok"
        BY <1>3, FinishedCall, SMTT(30) DEF StoreFault, Drop
    <2> QED BY <2>1, OwnStep
<1>4. ASSUME NEW d \in Call, ReplaceRoutes(d) \/ ResetHealth(d) PROVE c = d
    <2>1. PICK call : Step(d, call)
        BY <1>4 DEF ReplaceRoutes, ResetHealth, Goto, Holding, Finish
    <2> QED BY <2>1, OwnStep
<1>5. ~ (RefreshNext \/ Tick \/ UNCHANGED controlVars)
    BY RefreshKeeps
<1> QED BY <1>1, <1>2, <1>3, <1>4, <1>5 DEF ControlNext, CallStep

\* A step to success leaves the pool equal to the store.
LEMMA RepairStep ==
    ASSUME PoolInv, [ControlNext]_controlVars, NEW c \in Call,
           calls[c].op # "rotate", calls[c].pc # "ok", calls'[c].pc = "ok"
    PROVE  PoolIsStore'
<1>1. CallFits(calls[c]) /\ Entries /\ DOMAIN calls = Call
    BY DEF PoolInv
<1>2. CASE ReplaceRoutes(c)
    <2>1. calls[c].snapshot = route_accounts
        BY <1>1, <1>2, Zenon DEF CallFits, ReplaceRoutes
    <2> QED BY <1>1, <1>2, <2>1, ReplacedPool, Zenon
        DEF ReplaceRoutes, storeVars
<1>3. CASE ResetHealth(c)
    <2>1. PoolIsStore
        BY <1>1, <1>3 DEF CallFits, ResetHealth
    <2>2. RowsSame
        BY <1>3 DEF ResetHealth, storeVars, RowsSame
    <2>3. PoolSame
        BY <1>1, <1>3, ResetPool, Zenon DEF ResetHealth, PoolSame
    <2> QED BY <2>1, <2>2, <2>3, PoolKept
<1> QED BY <1>1, <1>2, <1>3, OkStep

\* Only the rotation's own write takes a rotation to its health reset.
LEMMA RotationStep ==
    ASSUME PoolInv, [ControlNext]_controlVars, NEW c \in Call,
           calls[c].op = "rotate", calls[c].pc \in {"rotate", "upsert"},
           calls'[c].pc = "reset"
    PROVE  /\ calls[c].id \in DOMAIN rows
           /\ PublicPart(rows'[calls[c].id]) = PublicPart(rows[calls[c].id])
<1>1. c \in InProgress /\ DOMAIN calls = Call
    BY DEF InProgress, Done, PoolInv
<1>2. CASE RotateWrite(c)
    BY <1>2, RotateKeeps DEF RowsSame
<1>3. CASE ~ RotateWrite(c)
    <2>1. \A d \in InProgress : c = d
        BY <1>1, Alone
    <2>2. ASSUME NEW d \in Call, CallStep(d) PROVE FALSE
        <3>1. d \in InProgress
            BY <2>2, Zenon
            DEF InProgress, Done, CallStep, CreateWrite, ReadRoutes,
                    ReplaceRoutes, ResetHealth, RotateWrite, EnableWrite
        <3> QED BY <1>3, <2>1, <2>2, <3>1, Zenon DEF CallStep, CreateWrite,
                ReadRoutes, ReplaceRoutes, ResetHealth, EnableWrite
    <2>3. ASSUME NEW d \in Call, CallBegin(d) PROVE calls'[c] = calls[c]
        <3>1. calls[d].pc = "idle" /\ \E call : Step(d, call)
            BY <2>3, BeginFacts
        <3> QED BY <3>1, <1>1 DEF Step
    <2>4. ASSUME NEW d \in Call, StoreFault(d) \/ Drop(d) PROVE FALSE
        <3>1. PICK call : Step(d, call) /\ call.pc # "reset"
            BY <2>4, FinishedCall, SMTT(30) DEF StoreFault, Drop
        <3> QED BY <1>1, <3>1, OwnStep
    <2> QED BY <2>2, <2>3, <2>4, RefreshKeeps DEF ControlNext
<1> QED BY <1>2, <1>3

\* Without failures, only a call on its way to the router leaves the pool
\* behind the store.
NoRefreshDue == \A c \in Call : calls[c].pc \notin {"snapshot", "replace"}

CleanInv == NoRefreshDue => PoolIsStore

LEMMA NoneDueBefore ==
    ASSUME DOMAIN calls = Call, NEW c \in Call, NEW call, Step(c, call),
           calls[c].pc \notin {"snapshot", "replace"}, NoRefreshDue'
    PROVE  NoRefreshDue
BY DEF Step, NoRefreshDue

LEMMA DueAfter ==
    ASSUME DOMAIN calls = Call, NEW c \in Call, NEW call, Step(c, call),
           call.pc \in {"snapshot", "replace"}
    PROVE  ~ NoRefreshDue'
BY DEF Step, NoRefreshDue

LEMMA CleanCallStep ==
    ASSUME PoolInv, CleanInv, NoRefreshDue', NEW c \in Call, CallStep(c)
    PROVE  PoolIsStore'
<1>1. Entries /\ DOMAIN calls = Call /\ CallFits(calls[c])
    BY DEF PoolInv
<1>2. ASSUME CreateWrite(c) \/ EnableWrite(c) \/ ReadRoutes(c) PROVE FALSE
    <2>1. PICK call : Step(c, call) /\ call.pc \in {"snapshot", "replace"}
        BY <1>2, HeldCall, SMTT(30) DEF CreateWrite, EnableWrite, ReadRoutes, Goto
    <2> QED BY <1>1, <2>1, DueAfter
<1>3. CASE ReplaceRoutes(c)
    <2>1. calls[c].snapshot = route_accounts
        BY <1>1, <1>3 DEF CallFits, ReplaceRoutes
    <2> QED BY <1>1, <1>3, <2>1, ReplacedPool, Zenon
        DEF ReplaceRoutes, storeVars
<1>4. CASE ResetHealth(c)
    <2>1. PICK call : Step(c, call)
        BY <1>4, Zenon DEF ResetHealth, Finish
    <2>2. PoolIsStore
        BY <1>1, <1>4, <2>1, NoneDueBefore, Zenon DEF ResetHealth, CleanInv
    <2>3. RowsSame
        BY <1>4, Zenon DEF ResetHealth, storeVars, RowsSame
    <2>4. PoolSame
        BY <1>1, <1>4, ResetPool, Zenon DEF ResetHealth, PoolSame
    <2> QED BY <2>2, <2>3, <2>4, PoolKept
<1>5. CASE RotateWrite(c)
    <2>1. PICK call : Step(c, call)
        BY <1>5, Zenon DEF RotateWrite, Goto, Holding
    <2>2. PoolIsStore
        BY <1>1, <1>5, <2>1, NoneDueBefore, Zenon DEF RotateWrite, CleanInv
    <2>3. RowsSame /\ PoolSame
        BY <1>5, RotateKeeps, Zenon DEF RotateWrite, PoolSame
    <2> QED BY <2>2, <2>3, PoolKept
<1> QED BY <1>2, <1>3, <1>4, <1>5 DEF CallStep

LEMMA CleanBegin ==
    ASSUME PoolInv, CleanInv, NoRefreshDue', NEW c \in Call, CallBegin(c)
    PROVE  PoolIsStore'
<1>1. DOMAIN calls = Call
    BY DEF PoolInv
<1>2. PICK a \in Account :
        \/ \E account \in AccountInput, secret \in SecretInput :
                CreateLoad(c, a, account, secret)
        \/ \E secret \in SecretInput : RotateLoad(c, a, secret)
        \/ \E enabled \in BOOLEAN : EnableRead(c, a, enabled)
        \/ DeleteWrite(c, a)
    BY DEF CallBegin
<1>3. UNCHANGED <<rows, accounts>>
    <2>1. CASE DeleteWrite(c, a) /\ delete_account(a)
        <3>1. ~ Step(c, CallAt("snapshot", "delete", a, NoLocal, NoLocal, Empty))
            BY <1>1, CallFacts, DueAfter
        <3>2. Step(c, CallAt("snapshot", "delete", a, NoLocal, NoLocal, Empty))
            BY <2>1 DEF DeleteWrite, delete_account, Called
        <3> QED BY <3>1, <3>2
    <2>2. CASE ~ (DeleteWrite(c, a) /\ delete_account(a))
        BY <1>2, <2>2, Zenon
        DEF CreateLoad, RotateLoad, EnableRead, DeleteWrite, storeVars
    <2> QED BY <2>1, <2>2
<1>4. calls[c].pc = "idle" /\ \E call : Step(c, call)
    BY BeginFacts
<1>5. PoolIsStore
    BY <1>1, <1>4, NoneDueBefore DEF CleanInv
<1> QED BY <1>3, <1>5 DEF PoolIsStore

LEMMA CleanNext ==
    ASSUME ~ StoreFaults, ~ CallsDropped, PoolInv, CleanInv,
           [ControlNext]_controlVars
    PROVE  CleanInv'
<1> SUFFICES ASSUME NoRefreshDue' PROVE PoolIsStore'
    BY DEF CleanInv
<1>1. ASSUME RefreshNext \/ Tick \/ UNCHANGED controlVars PROVE PoolIsStore'
    <2>1. RowsSame /\ PoolSame /\ UNCHANGED calls
        BY <1>1, RefreshKeeps DEF PoolSame
    <2>2. PoolIsStore
        BY <2>1 DEF CleanInv, NoRefreshDue
    <2> QED BY <2>1, <2>2, PoolKept
<1> QED BY <1>1, CleanCallStep, CleanBegin, Zenon
    DEF ControlNext, StoreFault, Drop

-----------------------------------------------------------------------------
(***************************************************************************)
(* A row is not torn: what a call is about to write comes from one input,  *)
(* and a pause or a resume, which writes the account's JSON and not its    *)
(* egress column, writes the kind and the models that are there.           *)
(***************************************************************************)
OneInput(x) ==
    \E i \in AccountInput :
        x.kind = i.kind /\ x.models = i.models /\ x.egress = i.egress

HoldsWhole(call) ==
    /\ call.pc \in Writing => OneInput(call.account)
    /\ call.pc = "write" =>
            /\ call.id \in DOMAIN rows
            /\ call.account.kind = rows[call.id].kind
            /\ call.account.models = rows[call.id].models

TornInv == RowsNotTorn /\ \A c \in Call : HoldsWhole(calls[c])

LEMMA PublicWhole ==
    ASSUME NEW r, NEW q, PublicPart(r) = PublicPart(q)
    PROVE  r.kind = q.kind /\ r.models = q.models /\ r.egress = q.egress
<1>1. /\ PublicPart(r).kind = r.kind /\ PublicPart(r).models = r.models
      /\ PublicPart(q).kind = q.kind /\ PublicPart(q).models = q.models
      /\ PublicPart(r).egress = r.egress /\ PublicPart(q).egress = q.egress
    BY DEF PublicPart
<1> QED BY <1>1

LEMMA RowsWhole == RowsNotTorn <=> \A a \in DOMAIN rows : OneInput(rows[a])
BY DEF RowsNotTorn, OneInput

LEMMA RowsStillWhole ==
    ASSUME RowsNotTorn, RowsSame PROVE RowsNotTorn'
<1>1. \A a \in DOMAIN rows :
        /\ rows'[a].kind = rows[a].kind /\ rows'[a].models = rows[a].models
        /\ rows'[a].egress = rows[a].egress
    BY PublicWhole DEF RowsSame
<1> QED BY <1>1 DEF RowsNotTorn, RowsSame

LEMMA WrittenWhole ==
    ASSUME RowsNotTorn, NEW a, NEW row, OneInput(row),
           rows' = With(rows, a, row)
    PROVE  RowsNotTorn'
BY DEF RowsNotTorn, OneInput, With

LEMMA RemovedWhole ==
    ASSUME RowsNotTorn, NEW a, rows' = Without(rows, a) PROVE RowsNotTorn'
BY DEF RowsNotTorn, Without, Restrict

\* A step of the only call in progress, which holds what it holds whole.
LEMMA WholeStep ==
    ASSUME PoolInv, NEW c \in Call, InProgress \subseteq {c},
           NEW call, Step(c, call), HoldsWhole(call)', RowsNotTorn'
    PROVE  TornInv'
<1>1. /\ calls'[c] = call
      /\ \A d \in Call : d # c => calls'[d] = calls[d]
    BY DEF PoolInv, Step
<1>2. \A d \in Call : d # c => calls[d].pc \in Done \cup {"idle"}
    BY DEF InProgress
<1>3. ASSUME NEW d \in Call, d # c PROVE HoldsWhole(calls[d])'
    BY <1>1, <1>2, <1>3 DEF HoldsWhole, Done, Writing
<1> QED BY <1>1, <1>3 DEF TornInv

LEMMA PlainWhole ==
    ASSUME PoolInv, NEW c \in Call, InProgress \subseteq {c},
           NEW call, Step(c, call), RowsNotTorn',
           call.pc \notin Writing \cup {"write"}
    PROVE  TornInv'
<1>1. HoldsWhole(call)'
    BY DEF HoldsWhole
<1> QED BY <1>1, WholeStep

LEMMA TornBegin ==
    ASSUME Exclusive, PoolInv, TornInv, NEW c \in Call, CallBegin(c)
    PROVE  TornInv'
<1>1. InProgress \subseteq {c} /\ RowsNotTorn
    BY FirstCall DEF TornInv
<1>2. PICK a \in Account :
        \/ \E account \in AccountInput, secret \in SecretInput :
                CreateLoad(c, a, account, secret)
        \/ \E secret \in SecretInput : RotateLoad(c, a, secret)
        \/ \E enabled \in BOOLEAN : EnableRead(c, a, enabled)
        \/ DeleteWrite(c, a)
    BY DEF CallBegin
<1>3. UNCHANGED rows => RowsNotTorn'
    BY <1>1 DEF RowsNotTorn
<1>4. ASSUME NEW account \in AccountInput, NEW secret \in SecretInput,
             CreateLoad(c, a, account, secret)
      PROVE  TornInv'
    <2>1. PICK call : /\ Step(c, call) /\ call.pc \in Writing
                      /\ call.account = account
        BY <1>4, CreateBegins
    <2>2. HoldsWhole(call)'
        BY <2>1 DEF HoldsWhole, OneInput, Writing
    <2>3. RowsNotTorn'
        BY <1>3, <1>4 DEF CreateLoad, storeVars
    <2> QED BY <1>1, <2>1, <2>2, <2>3, WholeStep
<1>5. ASSUME NEW secret \in SecretInput, RotateLoad(c, a, secret)
      PROVE  TornInv'
    <2>1. PICK call :
            /\ Step(c, call)
            /\ \/ /\ call.pc \in Writing
                  /\ a \in DOMAIN rows /\ call.account = PublicPart(rows[a])
               \/ call.pc = "error"
        BY <1>5, RotateBegins
    <2>2. RowsNotTorn'
        BY <1>3, <1>5, Zenon DEF RotateLoad, storeVars
    <2>3. ASSUME a \in DOMAIN rows PROVE OneInput(PublicPart(rows[a]))
        <3>1. OneInput(rows[a])
            BY <1>1, <2>3, RowsWhole
        <3> QED BY <3>1 DEF OneInput, PublicPart
    <2>4. HoldsWhole(call)'
        BY <2>1, <2>3 DEF HoldsWhole, OneInput, Writing
    <2> QED BY <1>1, <2>1, <2>2, <2>4, WholeStep
<1>6. ASSUME NEW enabled \in BOOLEAN, EnableRead(c, a, enabled)
      PROVE  TornInv'
    <2>1. PICK call :
            /\ Step(c, call)
            /\ \/ /\ call.pc = "write" /\ call.id = a /\ a \in DOMAIN rows
                  /\ call.account.kind = rows[a].kind
                  /\ call.account.models = rows[a].models
               \/ call.pc = "error"
        BY <1>6, EnableBegins, Zenon
    <2>2. RowsNotTorn' /\ UNCHANGED rows
        BY <1>3, <1>6 DEF EnableRead, storeVars
    <2>3. HoldsWhole(call)'
        BY <2>1, <2>2, Zenon DEF HoldsWhole, Writing
    <2> QED BY <1>1, <2>1, <2>2, <2>3, WholeStep, Zenon
<1>7. ASSUME DeleteWrite(c, a) PROVE TornInv'
    <2>1. rows' = Without(rows, a) \/ UNCHANGED rows
        BY <1>7 DEF DeleteWrite, delete_account, storeVars
    <2>2. RowsNotTorn'
        BY <1>1, <1>3, <2>1, RemovedWhole
    <2> QED BY <1>1, <1>7, <2>2, DeleteBegins, PlainWhole DEF Writing
<1> QED BY <1>2, <1>4, <1>5, <1>6, <1>7

LEMMA TornCallStep ==
    ASSUME PoolInv, TornInv, NEW c \in Call,
           CallStep(c) \/ StoreFault(c) \/ Drop(c)
    PROVE  TornInv'
<1>1. InProgress \subseteq {c} /\ RowsNotTorn /\ HoldsWhole(calls[c])
    <2>1. c \in InProgress
        BY Zenon
        DEF InProgress, Done, CallStep, CreateWrite, ReadRoutes, StoreFault,
               ReplaceRoutes, ResetHealth, RotateWrite, EnableWrite, Drop
    <2> QED BY <2>1, Alone DEF TornInv
<1>2. UNCHANGED rows => RowsNotTorn'
    BY <1>1, ZenonT(40) DEF RowsNotTorn
<1>3. ASSUME CreateWrite(c) \/ RotateWrite(c) PROVE RowsNotTorn'
    <2>1. PICK cred : rows' = With(rows, calls[c].id, Row(calls[c].account, cred))
        BY <1>3, Zenon DEF CreateWrite, RotateWrite, WriteCredential,
                    rotate_account_credential, upsert_account
    <2>2. OneInput(calls[c].account)
        BY <1>1, <1>3, Zenon DEF CreateWrite, RotateWrite, HoldsWhole, Writing
    <2>3. OneInput(Row(calls[c].account, cred))
        BY <2>2, Zenon DEF OneInput, Row
    <2> QED BY <1>1, <2>1, <2>3, WrittenWhole
<1>4. ASSUME EnableWrite(c) PROVE RowsNotTorn'
    <2>1. /\ calls[c].id \in DOMAIN rows
          /\ calls[c].account.kind = rows[calls[c].id].kind
          /\ calls[c].account.models = rows[calls[c].id].models
        BY <1>1, <1>4, Zenon DEF EnableWrite, HoldsWhole
    <2>2. PICK row :
            /\ rows' = With(rows, calls[c].id, row)
            /\ row = [kind |-> calls[c].account.kind,
                      enabled |-> calls[c].account.enabled,
                      models |-> calls[c].account.models,
                      egress |-> rows[calls[c].id].egress,
                      cred |-> rows[calls[c].id].cred]
        BY <1>4, <2>1, Zenon DEF EnableWrite, write_account_json
    <2>3. OneInput(rows[calls[c].id])
        BY <1>1, <2>1, RowsWhole, Zenon
    <2>4. OneInput(row)
        BY <2>1, <2>2, <2>3, Zenon DEF OneInput
    <2> QED BY <1>1, <2>2, <2>4, WrittenWhole, Zenon
<1>5. RowsNotTorn'
    BY <1>2, <1>3, <1>4, Zenon
    DEF CallStep, ReadRoutes, ReplaceRoutes, ResetHealth, StoreFault, Drop,
        storeVars
<1>6. \/ \E snapshot : \E pc \in {"snapshot", "replace", "reset"} :
            Holding(c, pc, snapshot)
      \/ \E result \in Done : Finish(c, result)
    BY Zenon
    DEF CallStep, CreateWrite, ReadRoutes, ReplaceRoutes, ResetHealth,
        RotateWrite, EnableWrite, StoreFault, Drop, Goto, Done
<1>7. PICK call :
        Step(c, call) /\ call.pc \in {"snapshot", "replace", "reset"} \cup Done
    <2>1. ASSUME NEW snapshot, NEW pc \in {"snapshot", "replace", "reset"},
                 Holding(c, pc, snapshot)
          PROVE  \E call : /\ Step(c, call)
                           /\ call.pc \in {"snapshot", "replace", "reset"}
        <3>1. PICK call : Step(c, call) /\ call.pc = pc
            BY <2>1, HeldCall, SMTT(30)
        <3> QED BY <3>1, Zenon
    <2>2. ASSUME NEW result \in Done, Finish(c, result)
          PROVE  \E call : Step(c, call) /\ call.pc \in Done
        <3>1. PICK call : Step(c, call) /\ call.pc = result
            BY <2>2, FinishedCall, SMTT(30)
        <3> QED BY <3>1, Zenon
    <2> QED BY <1>6, <2>1, <2>2, Zenon
<1>8. call.pc \notin Writing \cup {"write"}
    BY <1>7 DEF Done, Writing
<1> QED BY <1>1, <1>5, <1>7, <1>8, PlainWhole

LEMMA TornNoCall ==
    ASSUME TornInv, RowsSame, UNCHANGED calls PROVE TornInv'
<1>1. \A a \in DOMAIN rows :
        rows'[a].kind = rows[a].kind /\ rows'[a].models = rows[a].models
    BY PublicWhole DEF RowsSame
<1>2. ASSUME NEW c \in Call PROVE HoldsWhole(calls[c])'
    BY <1>1 DEF TornInv, HoldsWhole, RowsSame, OneInput
<1> QED BY <1>2, RowsStillWhole DEF TornInv

LEMMA TornNext ==
    Exclusive /\ PoolInv /\ TornInv /\ [ControlNext]_controlVars => TornInv'
BY TornBegin, TornCallStep, TornNoCall, RefreshKeeps DEF ControlNext

LEMMA TornInit == ControlInit => TornInv
<1> SUFFICES ASSUME ControlInit PROVE TornInv
    OBVIOUS
<1>1. \A c \in Call : calls[c].pc = "idle"
    BY DEF ControlInit, Idle, CallAt
<1>2. PICK S \in SUBSET Account :
        \E found \in [S -> AccountInput], secrets \in [S -> SecretInput] :
            StoreOpen(found, secrets)
    BY DEF ControlInit
<1>3. PICK found \in [S -> AccountInput] :
        /\ DOMAIN rows = S
        /\ \A a \in S : \E cred : rows[a] = Row(found[a], cred)
    BY <1>2 DEF StoreOpen
<1>4. RowsNotTorn
    BY <1>3 DEF RowsNotTorn, Row
<1> QED BY <1>1, <1>4 DEF TornInv, HoldsWhole, Writing
-----------------------------------------------------------------------------
(***************************************************************************)
(* The pool beside requests: they change health, load and bindings, never  *)
(* which accounts are in the pool, enabled, or for which models.           *)
(***************************************************************************)
LEMMA RequestPoolSame ==
    ASSUME Entries, NEW r \in Request, RequestStep(r) PROVE PoolSame /\ Entries'
<1>1. ASSUME UNCHANGED accounts PROVE PoolSame /\ Entries'
    BY <1>1 DEF PoolSame, Entries
<1>2. ASSUME NEW a, NEW o, NEW t, R!record_outcome(a, o, t)
      PROVE  PoolSame /\ Entries'
    BY <1>2 DEF R!record_outcome, R!Settled, PoolSame, Entries
<1>3. ASSUME NEW a, R!start_request(a) PROVE PoolSame /\ Entries'
    BY <1>3 DEF R!start_request, PoolSame, Entries
<1>4. \/ UNCHANGED accounts
      \/ \E a, o, t : R!record_outcome(a, o, t)
      \/ \E a : R!start_request(a)
    BY DEF RequestStep, SnapshotFails, Authenticate, Route, Load, Start,
           Settle, TransportFails, RouterUnchanged, R!choose, R!choose_none
<1> QED BY <1>1, <1>2, <1>3, <1>4

\* Every step is one of the control plane or leaves what it reads alone.
LEMMA DataStepKinds ==
    ASSUME Entries, [DataNext]_allVars
    PROVE  \/ [ControlNext]_controlVars /\ UNCHANGED dataVars
           \/ ControlUnchanged /\ PoolSame /\ Entries'
<1>1. ASSUME UNCHANGED accounts PROVE PoolSame /\ Entries'
    BY <1>1 DEF PoolSame, Entries
<1>2. ASSUME NEW r \in Request, NEW token, NEW s, NEW m, Arrive(r, token, s, m)
      PROVE  UNCHANGED accounts
    BY <1>2 DEF Arrive, RouterUnchanged
<1>3. ASSUME NEW r \in Request, Disconnect(r) PROVE UNCHANGED accounts
    BY <1>3 DEF Disconnect, RouterUnchanged
<1>4. ASSUME sticky_session_count PROVE UNCHANGED accounts
    BY <1>4 DEF sticky_session_count, R!session_count
<1> QED BY <1>1, <1>2, <1>3, <1>4, RequestPoolSame DEF DataNext, allVars

LEMMA DataPoolInv ==
    ASSUME Exclusive, PoolInv, [DataNext]_allVars PROVE PoolInv'
<1>1. ASSUME ControlUnchanged, PoolSame, Entries' PROVE PoolInv'
    <2>1. RowsSame /\ UNCHANGED calls
        BY <1>1 DEF ControlUnchanged, storeVars, RowsSame
    <2>2. \A c \in Call : CallFits(calls[c])'
        BY <1>1, <2>1, FitsKept DEF PoolInv
    <2> QED BY <1>1, <2>1, <2>2 DEF PoolInv, InProgress
<1>2. Entries
    BY DEF PoolInv
<1> QED BY <1>1, <1>2, PoolNextInv, DataStepKinds

LEMMA DataCleanInv ==
    ASSUME ~ StoreFaults, ~ CallsDropped, PoolInv, CleanInv, [DataNext]_allVars
    PROVE  CleanInv'
<1>1. ASSUME ControlUnchanged, PoolSame, NoRefreshDue' PROVE PoolIsStore'
    <2>1. RowsSame /\ UNCHANGED calls
        BY <1>1 DEF ControlUnchanged, storeVars, RowsSame
    <2>2. PoolIsStore
        BY <1>1, <2>1 DEF CleanInv, NoRefreshDue
    <2> QED BY <1>1, <2>1, <2>2, PoolKept
<1>2. Entries
    BY DEF PoolInv
<1> QED BY <1>1, <1>2, CleanNext, DataStepKinds DEF CleanInv

LEMMA DataPoolAlways == ASSUME Exclusive PROVE DataSpec => []PoolInv
<1>1. DataInit => PoolInv
    BY PoolInitInv DEF DataInit
<1>2. PoolInv /\ [DataNext]_allVars => PoolInv'
    BY DataPoolInv
<1> QED BY <1>1, <1>2, PTL DEF DataSpec

LEMMA CleanInit == ControlInit => CleanInv
BY DEF ControlInit, R!RouterNew, R!FreshAccount, route_accounts, PoolIsStore,
       CleanInv

LEMMA DataCleanAlways ==
    ASSUME Exclusive, ~ StoreFaults, ~ CallsDropped
    PROVE  DataSpec => [](PoolInv /\ CleanInv)
<1>1. DataInit => CleanInv
    BY CleanInit DEF DataInit
<1>2. PoolInv /\ CleanInv /\ [DataNext]_allVars => CleanInv'
    BY DataCleanInv
<1> QED BY <1>1, <1>2, DataPoolAlways, PTL DEF DataSpec

\* A chosen account is one the router holds enabled.
LEMMA SelectedEnabled ==
    ASSUME NEW s, NEW m, NEW now, NEW a \in R!Selection(s, m, now)
    PROVE  a \in DOMAIN accounts /\ accounts[a].enabled
BY Zenon
DEF R!Selection, R!Sticky, R!LeastLoaded, R!EligibleAccounts, R!eligible

\* Only Route takes a request from "route" to "load".
LEMMA LoadedByRoute ==
    ASSUME RequestShape, clock \in Nat, [DataNext]_allVars, NEW r \in Request,
           requests[r].pc = "route", requests'[r].pc = "load"
    PROVE  Route(r)
<1>1. ASSUME NEW x \in Request, OnlyRequest(x) PROVE x = r
    BY <1>1 DEF OnlyRequest
<1>2. ASSUME NEW x \in Request, NEW token, NEW s, NEW m, Arrive(x, token, s, m)
      PROVE  FALSE
    <2>1. x = r
        BY <1>1, <1>2, ArriveShape, Zenon
    <2> QED BY <1>2, <2>1 DEF Arrive
<1>3. ASSUME NEW x \in Request, Disconnect(x) PROVE FALSE
    <2>1. PICK pc \in {"lost", "dropped"} : Proceed(x, pc)
        BY <1>3 DEF Disconnect
    <2>2. OnlyRequest(x) /\ requests'[x].pc # "load"
        BY <2>1, ProceedShape, Zenon
    <2> QED BY <1>1, <2>2, Zenon
<1>4. ASSUME NEW x \in Request, RequestStep(x) PROVE Route(r)
    <2>1. x = r
        BY <1>1, <1>4, RequestStepShape
    <2> QED BY <1>4, <2>1, Zenon
            DEF RequestStep, SnapshotFails, Authenticate, Load, Start, Settle,
                TransportFails
<1> QED BY <1>2, <1>3, <1>4, Zenon
        DEF DataNext, sticky_session_count, allVars, dataVars

LEMMA ChosenStep ==
    ASSUME IInv, RequestShape, CleanInv, [DataNext]_allVars, NEW r \in Request,
           InProgress = {}, requests[r].pc = "route", requests'[r].pc = "load"
    PROVE  /\ requests'[r].account \in DOMAIN rows
           /\ rows[requests'[r].account].enabled
<1>1. Route(r)
    BY LoadedByRoute DEF IInv, TimeInv
<1>2. PICK a : /\ a \in R!Selection(requests[r].session, requests[r].model,
                                    requests[r].now)
               /\ requests' = [requests EXCEPT ![r].pc = "load",
                                               ![r].account = a]
    BY <1>1, AnswerShape DEF Route, R!choose
<1>3. requests'[r].account = a
    BY <1>2, ChosenShape, Zenon
<1>4. a \in DOMAIN accounts /\ accounts[a].enabled
    BY <1>2, SelectedEnabled
<1>5. PoolIsStore
    BY DEF CleanInv, NoRefreshDue, InProgress, Done
<1> QED BY <1>3, <1>4, <1>5 DEF PoolIsStore
-----------------------------------------------------------------------------
(***************************************************************************)
(* Requests in flight.  A count falls only with a request of its own       *)
(* account that was counted, or to zero.                                   *)
(***************************************************************************)
Unsettled(a) ==
    {r \in Request : requests[r].pc \in {"sent", "lost"}
                     /\ requests[r].account = a}

FlightInv ==
    \A a \in DOMAIN accounts :
        /\ "in_flight" \in DOMAIN accounts[a]
        /\ accounts[a].in_flight \in Nat
        /\ accounts[a].in_flight <= Cardinality(Unsettled(a))

LEMMA FlightInvBounds == FlightInv => InFlightBounded
<1>1. \A a : Waiting(a) \cup Lost(a) = Unsettled(a)
    BY DEF Waiting, Lost, Unsettled
<1> QED BY <1>1 DEF FlightInv, InFlightBounded

\* The counts a step leaves alone or sets to zero.
FlightKept ==
    \A a \in DOMAIN accounts' :
        /\ "in_flight" \in DOMAIN accounts'[a]
        /\ \/ accounts'[a].in_flight = 0
           \/ /\ a \in DOMAIN accounts
              /\ accounts'[a].in_flight = accounts[a].in_flight

\* The count of one account is set.
FlightSet(a, n) ==
    /\ a \in DOMAIN accounts /\ DOMAIN accounts' = DOMAIN accounts
    /\ \A b \in DOMAIN accounts : b # a => accounts'[b] = accounts[b]
    /\ "in_flight" \in DOMAIN accounts'[a] /\ accounts'[a].in_flight = n

LEMMA ReplaceFlight ==
    ASSUME FlightInv, NEW snapshot, R!replace_accounts(snapshot)
    PROVE  FlightKept
<1> SUFFICES ASSUME NEW a \in DOMAIN accounts'
             PROVE  /\ "in_flight" \in DOMAIN accounts'[a]
                    /\ \/ accounts'[a].in_flight = 0
                       \/ /\ a \in DOMAIN accounts
                          /\ accounts'[a].in_flight = accounts[a].in_flight
    BY DEF FlightKept
<1>1. accounts'[a] = R!Replacement(a, snapshot[a])
    BY DEF R!replace_accounts
<1>2. CASE a \in DOMAIN accounts /\ accounts[a].enabled = snapshot[a].enabled
    <2>1. accounts'[a] = [accounts[a] EXCEPT !.models = snapshot[a].models]
        BY <1>1, <1>2 DEF R!Replacement
    <2>2. "in_flight" \in DOMAIN accounts[a]
        BY <1>2 DEF FlightInv
    <2> QED BY <1>2, <2>1, <2>2
<1>3. CASE ~ (a \in DOMAIN accounts /\ accounts[a].enabled = snapshot[a].enabled)
    <2>1. accounts'[a] = R!FreshAccount(snapshot[a])
        BY <1>1, <1>3 DEF R!Replacement
    <2> QED BY <2>1 DEF R!FreshAccount
<1> QED BY <1>2, <1>3

LEMMA ResetFlight ==
    ASSUME FlightInv, NEW a, R!reset_account_health(a) PROVE FlightKept
<1>1. /\ a \in DOMAIN accounts
      /\ accounts' = [accounts EXCEPT ![a].healthy = TRUE,
                                      ![a].depleted_until = R!NotDepleted]
    BY DEF R!reset_account_health
<1> QED BY <1>1 DEF FlightInv, FlightKept

LEMMA StartFlight ==
    ASSUME FlightInv, NEW a, R!start_request(a)
    PROVE  \E n \in Nat : FlightSet(a, n) /\ n <= accounts[a].in_flight + 1
<1>1. /\ a \in DOMAIN accounts
      /\ accounts' = [accounts EXCEPT ![a].in_flight =
                          IF @ = U32Max THEN @ ELSE @ + 1]
    BY DEF R!start_request
<1>2. "in_flight" \in DOMAIN accounts[a] /\ accounts[a].in_flight \in Nat
    BY <1>1 DEF FlightInv
<1>3. PICK n \in Nat : /\ n = IF accounts[a].in_flight = U32Max
                              THEN accounts[a].in_flight
                              ELSE accounts[a].in_flight + 1
                       /\ n <= accounts[a].in_flight + 1
    BY <1>2
<1> QED BY <1>1, <1>2, <1>3 DEF FlightSet

LEMMA OutcomeFlight ==
    ASSUME FlightInv, NEW a, NEW o, NEW t, R!record_outcome(a, o, t)
    PROVE  \E n \in Nat : /\ FlightSet(a, n)
                          /\ n = 0 \/ n + 1 = accounts[a].in_flight
<1>1. /\ a \in DOMAIN accounts
      /\ accounts' = [accounts EXCEPT ![a] = R!Settled(@, o, t)]
    BY DEF R!record_outcome
<1>2. accounts[a].in_flight \in Nat
    BY <1>1 DEF FlightInv
<1>3. PICK n \in Nat : /\ n = IF accounts[a].in_flight = 0 THEN 0
                              ELSE accounts[a].in_flight - 1
                       /\ n = 0 \/ n + 1 = accounts[a].in_flight
    BY <1>2
<1>4. FlightSet(a, n)
    BY <1>1, <1>3 DEF FlightSet, R!Settled
<1> QED BY <1>3, <1>4

LEMMA ControlFlight ==
    ASSUME FlightInv, [ControlNext]_controlVars PROVE FlightKept
<1>1. ASSUME UNCHANGED accounts PROVE FlightKept
    BY <1>1 DEF FlightKept, FlightInv
<1>2. ASSUME NEW c \in Call, CallStep(c) PROVE FlightKept
    BY <1>1, <1>2, ReplaceFlight, ResetFlight, Zenon
    DEF CallStep, CreateWrite, ReadRoutes, ReplaceRoutes, ResetHealth,
        RotateWrite, EnableWrite
<1>3. ASSUME NEW c \in Call, CallBegin(c) PROVE UNCHANGED accounts
    BY <1>3, BeginFacts
<1>4. ASSUME NEW c \in Call, StoreFault(c) \/ Drop(c) PROVE UNCHANGED accounts
    BY <1>4, Zenon DEF StoreFault, Drop
<1> QED BY <1>1, <1>2, <1>3, <1>4, RefreshKeeps DEF ControlNext

\* What is used of Cardinality.
Counting ==
    \A S \in SUBSET Request :
        /\ Cardinality(S) \in Nat
        /\ \A r \in Request \ S : Cardinality(S \cup {r}) = Cardinality(S) + 1

LEMMA UnsettledCounted ==
    ASSUME Counting, NEW a
    PROVE  Unsettled(a) \in SUBSET Request /\ Cardinality(Unsettled(a)) \in Nat
<1>1. Unsettled(a) \in SUBSET Request
    BY DEF Unsettled
<1> QED BY <1>1 DEF Counting

LEMMA FlightSame ==
    ASSUME Counting, FlightInv, FlightKept,
           \A a : Unsettled(a)' = Unsettled(a)
    PROVE  FlightInv'
<1> SUFFICES ASSUME NEW a \in DOMAIN accounts'
             PROVE  /\ "in_flight" \in DOMAIN accounts'[a]
                    /\ accounts'[a].in_flight \in Nat
                    /\ accounts'[a].in_flight <= Cardinality(Unsettled(a)')
    BY DEF FlightInv
<1>1. Cardinality(Unsettled(a)) \in Nat
    BY UnsettledCounted
<1> QED BY <1>1 DEF FlightKept, FlightInv

\* The count of the account that a step of its request adjusts.
LEMMA FlightAdjusted ==
    ASSUME FlightInv, NEW a, NEW n \in Nat, FlightSet(a, n),
           n <= Cardinality(Unsettled(a)'),
           \A b : b # a => Unsettled(b)' = Unsettled(b)
    PROVE  FlightInv'
<1> SUFFICES ASSUME NEW b \in DOMAIN accounts'
             PROVE  /\ "in_flight" \in DOMAIN accounts'[b]
                    /\ accounts'[b].in_flight \in Nat
                    /\ accounts'[b].in_flight <= Cardinality(Unsettled(b)')
    BY DEF FlightInv
<1>1. CASE b = a
    BY <1>1 DEF FlightSet
<1>2. CASE b # a
    BY <1>2 DEF FlightSet, FlightInv
<1> QED BY <1>1, <1>2

\* start_request counts a request that was not counted.
LEMMA StartBounded ==
    ASSUME Counting, FlightInv, RequestShape, NEW r \in Request,
           requests[r].pc = "start", R!start_request(requests[r].account),
           requests' = [requests EXCEPT ![r].pc = "sent", ![r].sent = TRUE]
    PROVE  FlightInv'
<1>1. PICK a : a = requests[r].account
    OBVIOUS
<1>2. /\ OnlyRequest(r) /\ requests'[r].pc = "sent"
      /\ requests'[r].account = a
    BY <1>1, SentShape, Zenon
<1>3. Unsettled(a)' = Unsettled(a) \cup {r} /\ r \notin Unsettled(a)
    BY <1>1, <1>2, Zenon DEF Unsettled, OnlyRequest
<1>4. \A b : b # a => Unsettled(b)' = Unsettled(b)
    BY <1>1, <1>2, Zenon DEF Unsettled, OnlyRequest
<1>5. PICK n \in Nat : FlightSet(a, n) /\ n <= accounts[a].in_flight + 1
    BY <1>1, StartFlight
<1>6. /\ accounts[a].in_flight \in Nat
      /\ accounts[a].in_flight <= Cardinality(Unsettled(a))
      /\ Cardinality(Unsettled(a)) \in Nat
    BY <1>5, UnsettledCounted DEF FlightInv, FlightSet
<1>7. Cardinality(Unsettled(a)') = Cardinality(Unsettled(a)) + 1
    BY <1>3, UnsettledCounted, Zenon DEF Counting
<1>8. n <= Cardinality(Unsettled(a)')
    BY <1>5, <1>6, <1>7
<1> QED BY <1>4, <1>5, <1>8, FlightAdjusted

\* record_outcome discounts a request that was counted.
LEMMA OutcomeBounded ==
    ASSUME Counting, FlightInv, RequestShape, NEW r \in Request,
           requests[r].pc = "sent", NEW o, NEW t,
           R!record_outcome(requests[r].account, o, t),
           NEW answer, Answer(r, answer)
    PROVE  FlightInv'
<1>1. PICK a : a = requests[r].account
    OBVIOUS
<1>2. OnlyRequest(r) /\ requests'[r].pc = "done"
    BY AnswerShape
<1>3. Unsettled(a)' = Unsettled(a) \ {r} /\ r \in Unsettled(a)
    BY <1>1, <1>2 DEF Unsettled, OnlyRequest
<1>4. \A b : b # a => Unsettled(b)' = Unsettled(b)
    BY <1>1, <1>2 DEF Unsettled, OnlyRequest
<1>5. PICK n \in Nat : /\ FlightSet(a, n)
                       /\ n = 0 \/ n + 1 = accounts[a].in_flight
    BY <1>1, OutcomeFlight
<1>6. PICK S \in SUBSET Request : S = Unsettled(a)'
    BY Zenon DEF Unsettled
<1>7. Unsettled(a) = S \cup {r} /\ r \in Request \ S
    BY <1>3, <1>6
<1>8. Cardinality(S) \in Nat /\ Cardinality(Unsettled(a)) = Cardinality(S) + 1
    BY <1>7, Zenon DEF Counting
<1>9. accounts[a].in_flight <= Cardinality(Unsettled(a))
    BY <1>5, Zenon DEF FlightInv, FlightSet
<1>10. PICK m \in Nat : m = Cardinality(S)
    BY <1>8, Zenon
<1>11. n = 0 \/ n + 1 <= m + 1
    BY <1>5, <1>8, <1>9, <1>10, Zenon
<1>12. n <= m
    BY <1>11
<1>13. n <= Cardinality(Unsettled(a)')
    BY <1>6, <1>10, <1>12, Zenon
<1> QED BY <1>4, <1>5, <1>13, FlightAdjusted

\* A request whose account left the pool is settled with nothing to discount.
LEMMA GoneBounded ==
    ASSUME FlightInv, RequestShape, NEW r \in Request,
           requests[r].account \notin DOMAIN accounts, RouterUnchanged,
           NEW answer, Answer(r, answer)
    PROVE  FlightInv'
<1>1. OnlyRequest(r) /\ requests'[r].account = requests[r].account
    BY AnswerShape
<1>2. \A b \in DOMAIN accounts : Unsettled(b)' = Unsettled(b)
    BY <1>1 DEF Unsettled, OnlyRequest
<1> QED BY <1>2 DEF FlightInv, RouterUnchanged

\* A step of a request that neither goes upstream nor comes back.
LEMMA PlainBounded ==
    ASSUME Counting, FlightInv, NEW r \in Request, OnlyRequest(r),
           UNCHANGED accounts, requests[r].pc \notin {"sent", "lost"},
           requests'[r].pc \notin {"sent", "lost"}
    PROVE  FlightInv'
<1>1. FlightKept
    BY DEF FlightKept, FlightInv
<1>2. \A a : Unsettled(a)' = Unsettled(a)
    BY DEF Unsettled, OnlyRequest
<1> QED BY <1>1, <1>2, FlightSame

LEMMA FlightRequestStep ==
    ASSUME Counting, FlightInv, RequestShape, NEW r \in Request, RequestStep(r)
    PROVE  FlightInv'
<1>1. ASSUME NEW answer, Answer(r, answer), UNCHANGED accounts,
             requests[r].pc \notin {"sent", "lost"}
      PROVE  FlightInv'
    BY <1>1, AnswerShape, PlainBounded
<1>2. CASE SnapshotFails(r)
    BY <1>1, <1>2 DEF SnapshotFails, RouterUnchanged
<1>3. CASE Authenticate(r)
    <2>1. OnlyRequest(r) /\ requests'[r].pc \in {"route", "done"}
        BY <1>3, AnswerShape, ProceedShape, Zenon DEF Authenticate
    <2> QED BY <1>3, <2>1, PlainBounded, Zenon DEF Authenticate, RouterUnchanged
<1>4. CASE Route(r)
    <2>1. OnlyRequest(r) /\ requests'[r].pc \in {"load", "done"}
        BY <1>4, AnswerShape, ChosenShape DEF Route
    <2> QED BY <1>4, <2>1, PlainBounded DEF Route, R!choose, R!choose_none
<1>5. CASE Load(r)
    <2>1. OnlyRequest(r) /\ requests'[r].pc \in {"start", "done"}
        BY <1>5, AnswerShape, ProceedShape, Zenon DEF Load
    <2> QED BY <1>5, <2>1, PlainBounded, Zenon DEF Load, RouterUnchanged
<1>6. CASE Start(r)
    BY <1>1, <1>6, StartBounded DEF Start, RouterUnchanged
<1>7. ASSUME NEW status, NEW header, Settle(r, status, header)
      PROVE  FlightInv'
    BY <1>7, OutcomeBounded, GoneBounded, Zenon DEF Settle
<1>8. CASE TransportFails(r)
    BY <1>8, OutcomeBounded, GoneBounded, Zenon DEF TransportFails
<1> QED BY <1>2, <1>3, <1>4, <1>5, <1>6, <1>7, <1>8 DEF RequestStep

\* No step of the control plane raises a count, and a disconnected request
\* stays counted.
LEMMA FlightNext ==
    ASSUME Counting, FlightInv, RequestShape, clock \in Nat, [DataNext]_allVars
    PROVE  FlightInv'
<1>1. ASSUME [ControlNext]_controlVars, UNCHANGED dataVars PROVE FlightInv'
    <2>1. FlightKept /\ \A a : Unsettled(a)' = Unsettled(a)
        BY <1>1, ControlFlight DEF dataVars, Unsettled
    <2> QED BY <2>1, FlightSame
<1>2. ASSUME NEW r \in Request, NEW token, NEW s, NEW m, Arrive(r, token, s, m)
      PROVE  FlightInv'
    <2>1. OnlyRequest(r) /\ requests'[r].pc \in {"authenticate", "done"}
        BY <1>2, ArriveShape, Zenon
    <2> QED BY <1>2, <2>1, PlainBounded DEF Arrive, RouterUnchanged
<1>3. ASSUME NEW r \in Request, Disconnect(r) PROVE FlightInv'
    <2>1. /\ OnlyRequest(r) /\ requests'[r].account = requests[r].account
          /\ requests'[r].pc = IF requests[r].pc = "sent" THEN "lost"
                               ELSE "dropped"
        BY <1>3, ProceedShape DEF Disconnect
    <2>2. \A a : Unsettled(a)' = Unsettled(a)
        BY <1>3, <2>1 DEF Unsettled, OnlyRequest, Disconnect
    <2>3. FlightKept
        BY <1>3 DEF Disconnect, RouterUnchanged, FlightKept, FlightInv
    <2> QED BY <2>2, <2>3, FlightSame
<1>4. CASE sticky_session_count
    <2>1. FlightKept /\ \A a : Unsettled(a)' = Unsettled(a)
        BY <1>4, Zenon
        DEF sticky_session_count, dataVars, Unsettled, FlightKept,
                    FlightInv, R!session_count
    <2> QED BY <2>1, FlightSame
<1> QED BY <1>1, <1>2, <1>3, <1>4, FlightRequestStep DEF DataNext, allVars
-----------------------------------------------------------------------------
(***************************************************************************)
(* The theorems.  Calls do not overlap when one is handled at a time and   *)
(* there are finitely many.                                                *)
(***************************************************************************)
INSTANCE FiniteSetTheorems

Serial == Concurrent <= 1 /\ IsFiniteSet(Call)

LEMMA SerialExclusive == Serial => Exclusive
<1> SUFFICES ASSUME Serial, NEW S \in SUBSET Call, Cardinality(S) < Concurrent
             PROVE  S = {}
    BY DEF Exclusive
<1>1. IsFiniteSet(S)
    BY FS_Subset DEF Serial
<1>2. Cardinality(S) \in Nat
    BY <1>1, FS_CardinalityType
<1>3. Cardinality(S) = 0
    BY <1>2, ControlAssumption DEF Serial
<1> QED BY <1>1, <1>3, FS_EmptySet

\* When administrator calls do not overlap, one that creates, pauses, resumes
\* or deletes an account and answers with success leaves the router's pool
\* equal to the store, whatever failed or was dropped before it
\* (http_app.rs:307, 406, 435, 530-537).
THEOREM PoolAlwaysRepaired == ASSUME Serial PROVE ControlSpec => PoolRepaired
<1>1. PoolInv /\ [ControlNext]_controlVars =>
        \A c \in Call :
            /\ calls[c].op # "rotate"
            /\ calls[c].pc # "ok" /\ calls'[c].pc = "ok"
            => PoolIsStore'
    BY RepairStep
<1> QED BY <1>1, PoolInvAlways, SerialExclusive, PTL
        DEF ControlSpec, PoolRepaired

\* When administrator calls do not overlap, replacing a credential leaves the
\* rest of the account as it is, beside any refreshes (http_app.rs:326-376).
THEOREM RotationAlwaysPreserves ==
    ASSUME Serial PROVE ControlSpec => RotationPreservesAccount
<1>1. PoolInv /\ [ControlNext]_controlVars =>
        \A c \in Call :
            /\ calls[c].op = "rotate"
            /\ calls[c].pc \in {"rotate", "upsert"}
            /\ calls'[c].pc = "reset"
            => LET a == calls[c].id
               IN  a \in DOMAIN rows /\ PublicPart(rows'[a]) = PublicPart(rows[a])
    BY RotationStep
<1> QED BY <1>1, PoolInvAlways, SerialExclusive, PTL
        DEF ControlSpec, RotationPreservesAccount

\* When administrator calls neither overlap nor fail nor lose their
\* connection, the router's pool is the store's whenever no call is in
\* progress, beside any refreshes (http_app.rs:307, 406, 435, 530-537).
THEOREM PoolAlwaysMatches ==
    ASSUME Serial, ~ StoreFaults, ~ CallsDropped
    PROVE  ControlSpec => []PoolMatchesStore
<1>1. ControlInit => CleanInv
    BY CleanInit
<1>2. PoolInv /\ CleanInv /\ [ControlNext]_controlVars => CleanInv'
    BY CleanNext
<1>3. PoolInv /\ CleanInv => PoolMatchesStore
    BY DEF PoolMatchesStore, CleanInv, NoRefreshDue, InProgress, Done
<1> QED BY <1>1, <1>2, <1>3, PoolInvAlways, SerialExclusive, PTL
        DEF ControlSpec

\* When administrator calls do not overlap, a row's account and its egress
\* column are always those of one submitted account, although a pause or a
\* resume rewrites the one and not the other (storage.rs:155-219, 604-627).
THEOREM RowsNeverTorn == ASSUME Serial PROVE ControlSpec => []RowsNotTorn
<1>1. PoolInv /\ TornInv /\ [ControlNext]_controlVars => TornInv'
    BY TornNext, SerialExclusive
<1>2. TornInv => RowsNotTorn
    BY DEF TornInv
<1> QED BY <1>1, <1>2, TornInit, PoolInvAlways, SerialExclusive, PTL
        DEF ControlSpec

\* With client requests and refreshes running beside them, administrator
\* calls that do not overlap still repair the pool when they succeed, after
\* any failures (http_app.rs:307, 406, 435, 530-537).
THEOREM PoolRepairedInUse == ASSUME Serial PROVE DataSpec => PoolRepaired
<1>1. PoolInv /\ [DataNext]_allVars =>
        [\A c \in Call :
            /\ calls[c].op # "rotate"
            /\ calls[c].pc # "ok" /\ calls'[c].pc = "ok"
            => PoolIsStore']_controlVars
    <2> SUFFICES ASSUME PoolInv, [DataNext]_allVars, NEW c \in Call,
                        calls[c].op # "rotate", calls[c].pc # "ok",
                        calls'[c].pc = "ok"
                 PROVE  PoolIsStore'
        OBVIOUS
    <2>1. [ControlNext]_controlVars
        BY DataStepKinds DEF ControlUnchanged, PoolInv
    <2> QED BY <2>1, RepairStep
<1> QED BY <1>1, DataPoolAlways, SerialExclusive, PTL
        DEF DataSpec, PoolRepaired

\* When administrator calls neither overlap nor fail nor lose their
\* connection, an account is chosen while no call is in progress only if it
\* is stored and enabled: a pause or a delete that was answered holds for
\* every later choice (http_app.rs:530-537, routing.rs:238-245).
THEOREM ChosenAlwaysEnabled ==
    ASSUME Serial, ~ StoreFaults, ~ CallsDropped
    PROVE  DataSpec => ChosenIsEnabled
<1>1. IInv /\ RequestShape /\ PoolInv /\ CleanInv /\ [DataNext]_allVars =>
        [\A r \in Request :
            /\ InProgress = {}
            /\ requests[r].pc = "route" /\ requests'[r].pc = "load"
            => LET a == requests'[r].account
               IN  a \in DOMAIN rows /\ rows[a].enabled]_allVars
    BY ChosenStep
<1> QED BY <1>1, DataCleanAlways, DataCredentialsAlways, SerialExclusive, PTL
        DEF DataSpec, ChosenIsEnabled

LEMMA FiniteCounting == IsFiniteSet(Request) => Counting
<1> SUFFICES ASSUME IsFiniteSet(Request), NEW S \in SUBSET Request
             PROVE  /\ Cardinality(S) \in Nat
                    /\ \A r \in Request \ S :
                            Cardinality(S \cup {r}) = Cardinality(S) + 1
    BY DEF Counting
<1>1. IsFiniteSet(S)
    BY FS_Subset
<1> QED BY <1>1, FS_CardinalityType, FS_AddElement

\* For finitely many requests, an account's in_flight never exceeds those that
\* were sent on it and are not settled, whatever is paused, resumed, deleted
\* and created again while they wait and whoever disconnects: no request is
\* counted twice (routing.rs:100-106, 143, 215).
THEOREM InFlightAlwaysBounded ==
    ASSUME IsFiniteSet(Request) PROVE DataSpec => []InFlightBounded
<1>1. DataInit => FlightInv
    <2> SUFFICES ASSUME DataInit, NEW a \in DOMAIN accounts
                 PROVE  /\ "in_flight" \in DOMAIN accounts[a]
                        /\ accounts[a].in_flight \in Nat
                        /\ accounts[a].in_flight <= Cardinality(Unsettled(a))
        BY Zenon DEF FlightInv
    <2>1. "in_flight" \in DOMAIN accounts[a] /\ accounts[a].in_flight = 0
        BY DEF DataInit, ControlInit, R!RouterNew, R!FreshAccount
    <2> QED BY <2>1, UnsettledCounted, FiniteCounting
<1>2. IInv /\ RequestShape /\ FlightInv /\ [DataNext]_allVars => FlightInv'
    BY FlightNext, FiniteCounting DEF IInv, TimeInv
<1> QED BY <1>1, <1>2, FlightInvBounds, DataCredentialsAlways, PTL DEF DataSpec
=============================================================================
