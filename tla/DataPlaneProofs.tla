---------------------------- MODULE DataPlaneProofs ----------------------------
(***************************************************************************)
(* Proofs that client requests, administrator calls and refreshes, running *)
(* together over one store and one router, keep to their types and to the  *)
(* router's own specification, so that what is proved of the router holds  *)
(* in the running system.                                                  *)
(***************************************************************************)
EXTENDS DataPlane, TLAPS

\* What a call about to write is at, and the fields of a call.
Writing == {"rotate", "upsert"}

LEMMA CallFacts ==
    ASSUME NEW pc, NEW op, NEW id, NEW account, NEW secret, NEW snapshot
    PROVE  LET call == CallAt(pc, op, id, account, secret, snapshot)
           IN  /\ call.pc = pc /\ call.op = op /\ call.id = id
               /\ call.account = account /\ call.secret = secret
               /\ call.snapshot = snapshot
BY DEF CallAt
-----------------------------------------------------------------------------
(***************************************************************************)
(* Types of the store: what the writes put there is typed because the call *)
(* that writes holds typed locals, and because a refresh writes only over  *)
(* the ciphertext it read.                                                 *)
(***************************************************************************)
StoreTyped ==
    /\ DOMAIN rows \subseteq Account
    /\ \A a \in DOMAIN rows : rows[a] \in AccountRow
    /\ DOMAIN history \subseteq Account
    /\ \A a \in DOMAIN history : history[a] \in HistoryRow
    /\ next_id \in Nat
    /\ DOMAIN submitted = DOMAIN rows

LEMMA RowTyped ==
    ASSUME NEW account \in ProviderAccount, NEW cred \in Ciphertext
    PROVE  Row(account, cred) \in AccountRow
BY DEF ProviderAccount, AccountRow, Row

LEMMA EncryptTyped ==
    ASSUME next_id \in Nat, NEW secret \in Secret, NEW origin \in Nat
    PROVE  encrypt(secret, origin) \in Ciphertext
BY DEF Secret, Ciphertext, encrypt

LEMMA PreviousTyped ==
    ASSUME NEW cred \in Ciphertext, NEW until \in Nat, NEW now \in Nat
    PROVE  [cred |-> cred, expires_at |-> until, since |-> now] \in HistoryRow
BY DEF HistoryRow

LEMMA PublicTyped ==
    ASSUME NEW row \in AccountRow
    PROVE  PublicPart(row) \in ProviderAccount
BY DEF AccountRow, ProviderAccount, PublicPart

LEMMA WithTyped ==
    ASSUME NEW f, NEW a, NEW v, NEW T, \A b \in DOMAIN f : f[b] \in T, v \in T
    PROVE  /\ DOMAIN With(f, a, v) = DOMAIN f \cup {a}
           /\ \A b \in DOMAIN With(f, a, v) : With(f, a, v)[b] \in T
BY DEF With

LEMMA WithoutTyped ==
    ASSUME NEW f, NEW a, NEW T, \A b \in DOMAIN f : f[b] \in T
    PROVE  /\ DOMAIN Without(f, a) = DOMAIN f \ {a}
           /\ \A b \in DOMAIN Without(f, a) : Without(f, a)[b] \in T
BY DEF Without, Restrict

LEMMA UpsertTyped ==
    ASSUME StoreTyped, NEW a \in Account, NEW account \in ProviderAccount,
           NEW secret \in Secret, upsert_account(a, account, secret)
    PROVE  StoreTyped'
<1> DEFINE row == Row(account, encrypt(secret, next_id))
<1>1. row \in AccountRow /\ next_id \in Nat
    BY RowTyped, EncryptTyped DEF StoreTyped
<1>2. /\ rows' = With(rows, a, row) /\ history' = Without(history, a)
      /\ next_id' = next_id + 1 /\ submitted' = With(submitted, a, next_id)
    BY DEF upsert_account
<1> HIDE DEF row
<1>3. /\ DOMAIN rows' = DOMAIN rows \cup {a}
      /\ \A b \in DOMAIN rows' : rows'[b] \in AccountRow
    BY <1>1, <1>2, WithTyped, Zenon DEF StoreTyped
<1>4. /\ DOMAIN history' = DOMAIN history \ {a}
      /\ \A b \in DOMAIN history' : history'[b] \in HistoryRow
    BY <1>2, WithoutTyped, Zenon DEF StoreTyped
<1>5. DOMAIN submitted' = DOMAIN submitted \cup {a}
    BY <1>2 DEF With
<1> QED BY <1>1, <1>2, <1>3, <1>4, <1>5 DEF StoreTyped

LEMMA RotateTyped ==
    ASSUME StoreTyped, NEW a \in Account, NEW account \in ProviderAccount,
           NEW secret \in Secret, NEW until \in Nat, NEW now \in Nat,
           rotate_account_credential(a, account, secret, until, now)
    PROVE  StoreTyped'
<1> DEFINE row == Row(account, encrypt(secret, next_id))
           previous == [cred |-> rows[a].cred, expires_at |-> until,
                        since |-> now]
<1>1. row \in AccountRow /\ next_id \in Nat
    BY RowTyped, EncryptTyped DEF StoreTyped
<1>2. a \in DOMAIN rows => previous \in HistoryRow
    <2>1. a \in DOMAIN rows => rows[a].cred \in Ciphertext
        BY DEF StoreTyped, AccountRow
    <2> QED BY <2>1, PreviousTyped
<1>3. /\ rows' = With(rows, a, row)
      /\ history' = IF a \in DOMAIN rows THEN With(history, a, previous)
                    ELSE history
      /\ next_id' = next_id + 1 /\ submitted' = With(submitted, a, next_id)
    BY DEF rotate_account_credential
<1> HIDE DEF row, previous
<1>4. /\ DOMAIN rows' = DOMAIN rows \cup {a}
      /\ \A b \in DOMAIN rows' : rows'[b] \in AccountRow
    BY <1>1, <1>3, WithTyped, Zenon DEF StoreTyped
<1>5. /\ DOMAIN history' \subseteq DOMAIN history \cup {a}
      /\ \A b \in DOMAIN history' : history'[b] \in HistoryRow
    BY <1>2, <1>3, WithTyped, Zenon DEF StoreTyped
<1>6. DOMAIN submitted' = DOMAIN submitted \cup {a}
    BY <1>3 DEF With
<1> QED BY <1>1, <1>3, <1>4, <1>5, <1>6 DEF StoreTyped

LEMMA ReplaceTyped ==
    ASSUME StoreTyped, NEW a, NEW expected, NEW refreshed \in Secret,
           NEW since \in Nat, NEW now \in Nat,
           replace_oauth_if_current(a, expected, refreshed,
                                    PreviousValidUntil(expected, since), now)
    PROVE  StoreTyped'
<1>1. CASE ~ IsCurrent(a, expected)
    BY <1>1 DEF replace_oauth_if_current, storeVars, StoreTyped
<1>2. CASE IsCurrent(a, expected)
    <2> DEFINE until == PreviousValidUntil(expected, since)
               row == Row(rows[a], encrypt(refreshed, expected.origin))
               previous == [cred |-> expected, expires_at |-> until,
                            since |-> now]
    <2>1. /\ a \in DOMAIN rows /\ rows[a] \in AccountRow
          /\ expected \in Ciphertext
        BY <1>2 DEF IsCurrent, StoreTyped, AccountRow
    <2>2. expected.expires_at \in Nat /\ expected.origin \in Nat
        BY <2>1 DEF Ciphertext
    <2>3. until \in Nat
        BY <2>2, StoreAssumption DEF PreviousValidUntil
    <2>4. encrypt(refreshed, expected.origin) \in Ciphertext
        BY <2>2, EncryptTyped DEF StoreTyped
    <2>5. row \in AccountRow
        BY <2>1, <2>4 DEF AccountRow, Row
    <2>6. previous \in HistoryRow
        BY <2>1, <2>3, PreviousTyped
    <2>7. /\ rows' = With(rows, a, row) /\ history' = With(history, a, previous)
          /\ next_id' = next_id + 1 /\ submitted' = submitted
        BY <1>2 DEF replace_oauth_if_current
    <2> HIDE DEF row, previous
    <2>8. /\ DOMAIN rows' = DOMAIN rows \cup {a}
          /\ \A b \in DOMAIN rows' : rows'[b] \in AccountRow
        BY <2>5, <2>7, WithTyped, Zenon DEF StoreTyped
    <2>9. /\ DOMAIN history' = DOMAIN history \cup {a}
          /\ \A b \in DOMAIN history' : history'[b] \in HistoryRow
        BY <2>6, <2>7, WithTyped, Zenon DEF StoreTyped
    <2>10. DOMAIN rows' = DOMAIN rows /\ a \in Account /\ next_id' \in Nat
        BY <2>1, <2>7, <2>8 DEF StoreTyped
    <2> QED BY <2>7, <2>8, <2>9, <2>10 DEF StoreTyped
<1> QED BY <1>1, <1>2

LEMMA JsonTyped ==
    ASSUME StoreTyped, NEW a, NEW read \in ProviderAccount,
           NEW enabled \in BOOLEAN, write_account_json(a, read, enabled)
    PROVE  StoreTyped'
<1> DEFINE row == [kind |-> read.kind, enabled |-> enabled,
                   models |-> read.models, egress |-> rows[a].egress,
                   cred |-> rows[a].cred]
<1>1. a \in DOMAIN rows => row \in AccountRow
    BY DEF StoreTyped, AccountRow, ProviderAccount
<1>2. /\ rows' = IF a \in DOMAIN rows THEN With(rows, a, row) ELSE rows
      /\ UNCHANGED <<history, next_id, submitted>>
    BY DEF write_account_json
<1> HIDE DEF row
<1>3. /\ DOMAIN rows' = DOMAIN rows
      /\ \A b \in DOMAIN rows' : rows'[b] \in AccountRow
    <2>1. CASE a \in DOMAIN rows
        <3>1. rows' = With(rows, a, row) /\ row \in AccountRow
            BY <1>1, <1>2, <2>1
        <3>2. /\ DOMAIN rows' = DOMAIN rows \cup {a}
              /\ \A b \in DOMAIN rows' : rows'[b] \in AccountRow
            BY <3>1, WithTyped, Zenon DEF StoreTyped
        <3> QED BY <2>1, <3>2
    <2>2. CASE a \notin DOMAIN rows
        BY <1>2, <2>2 DEF StoreTyped
    <2> QED BY <2>1, <2>2
<1> QED BY <1>2, <1>3 DEF StoreTyped

LEMMA DeleteTyped ==
    ASSUME StoreTyped, NEW a, delete_account(a)
    PROVE  StoreTyped'
<1>1. /\ DOMAIN rows' = DOMAIN rows \ {a}
      /\ \A b \in DOMAIN rows' : rows'[b] \in AccountRow
    BY WithoutTyped, Zenon DEF delete_account, StoreTyped
<1>2. /\ DOMAIN history' = DOMAIN history \ {a}
      /\ \A b \in DOMAIN history' : history'[b] \in HistoryRow
    BY WithoutTyped, Zenon DEF delete_account, StoreTyped
<1>3. /\ DOMAIN submitted' = DOMAIN submitted \ {a} /\ UNCHANGED next_id
    BY DEF delete_account, Without, Restrict
<1> QED BY <1>1, <1>2, <1>3 DEF StoreTyped

\* The pool read from a typed store is one the router takes.
LEMMA RoutesTyped == StoreTyped => route_accounts \in R!Snapshot
<1> SUFFICES ASSUME StoreTyped PROVE route_accounts \in R!Snapshot
    OBVIOUS
<1>1. route_accounts \in [DOMAIN rows -> R!Profile]
    BY DEF StoreTyped, route_accounts, AccountRow, R!Profile
<1>2. DOMAIN rows \in SUBSET Account
    BY DEF StoreTyped
<1> QED BY <1>1, <1>2 DEF R!Snapshot
-----------------------------------------------------------------------------
(***************************************************************************)
(* Types of the calls' locals and of the refresh pass.  Every step of the  *)
(* control plane keeps them, and is a step of the router or none.          *)
(***************************************************************************)
CallTyped(call) ==
    /\ call.op \in Op
    /\ call.pc # "idle" => call.id \in Account
    /\ call.pc \in Writing \cup {"write"} => call.account \in ProviderAccount
    /\ call.pc \in Writing => call.secret \in Secret
    /\ call.pc = "replace" => call.snapshot \in R!Snapshot

LocalsTyped == DOMAIN calls = Call /\ \A c \in Call : CallTyped(calls[c])

QueueTyped == DOMAIN refresher.queue \subseteq Account /\ refresher.now \in Nat

ControlTyped ==
    /\ StoreTyped /\ LocalsTyped /\ QueueTyped
    /\ audit \subseteq Call
    /\ clock \in 1 .. MaxTime

LEMMA StepTyped ==
    ASSUME LocalsTyped, NEW c \in Call, NEW call, CallTyped(call), Step(c, call)
    PROVE  LocalsTyped'
BY DEF LocalsTyped, Step

LEMMA BegunTyped ==
    ASSUME NEW pc, NEW op \in Op, NEW a \in Account, NEW account, NEW secret,
           pc \in Writing \cup {"write"} => account \in ProviderAccount,
           pc \in Writing => secret \in Secret, pc # "replace"
    PROVE  CallTyped(Called(pc, op, a, account, secret))
BY CallFacts DEF CallTyped, Called

LEMMA HeldTyped ==
    ASSUME LocalsTyped, NEW c \in Call, calls[c].pc # "idle", NEW pc,
           NEW snapshot, pc \notin Writing \cup {"write"},
           pc = "replace" => snapshot \in R!Snapshot, Holding(c, pc, snapshot)
    PROVE  LocalsTyped'
<1> DEFINE call == CallAt(pc, calls[c].op, calls[c].id, calls[c].account,
                          calls[c].secret, snapshot)
<1>1. Step(c, call)
    BY Zenon DEF Holding
<1>2. /\ call.pc = pc /\ call.op = calls[c].op /\ call.id = calls[c].id
      /\ call.snapshot = snapshot
    BY CallFacts
<1> HIDE DEF call
<1>3. CallTyped(call)
    BY <1>2 DEF CallTyped, LocalsTyped
<1> QED BY <1>1, <1>3, StepTyped

LEMMA FinishTyped ==
    ASSUME LocalsTyped, NEW c \in Call, calls[c].pc # "idle",
           NEW result \in Done, Finish(c, result)
    PROVE  LocalsTyped'
<1> DEFINE call == Over(result, calls[c].op, calls[c].id)
<1>1. Step(c, call)
    BY DEF Finish
<1>2. CallTyped(call)
    BY BegunTyped, Zenon DEF Over, LocalsTyped, CallTyped, Done, Writing
<1> HIDE DEF call
<1> QED BY <1>1, <1>2, StepTyped

LEMMA InputTyped ==
    AccountInput \subseteq ProviderAccount /\ SecretInput \subseteq Secret
BY ControlAssumption

LEMMA AuditedTyped ==
    ASSUME audit \subseteq Call, NEW c \in Call, Audited(c)
    PROVE  audit' \subseteq Call
BY DEF Audited

LEMMA ControlInitTyped == ControlInit => ControlTyped /\ R!Init
<1> SUFFICES ASSUME ControlInit PROVE ControlTyped /\ R!Init
    OBVIOUS
<1>1. PICK S \in SUBSET Account : \E found \in [S -> AccountInput],
                                    secrets \in [S -> SecretInput] :
            StoreOpen(found, secrets)
    BY DEF ControlInit
<1>2. PICK found \in [S -> AccountInput], secrets \in [S -> SecretInput] :
            StoreOpen(found, secrets)
    BY <1>1
<1>3. /\ DOMAIN rows = S /\ DOMAIN submitted = S /\ DOMAIN history = {}
      /\ next_id = FirstId
    BY <1>2 DEF StoreOpen, Empty
<1>4. ASSUME NEW a \in S PROVE rows[a] \in AccountRow
    <2> DEFINE cred == [id |-> a, form |-> secrets[a].form,
                        expires_at |-> secrets[a].expires_at, origin |-> a]
    <2>1. a \in Nat /\ secrets[a] \in Secret /\ found[a] \in ProviderAccount
        BY InputTyped, StoreAssumption
    <2>2. cred \in Ciphertext
        BY <2>1 DEF Ciphertext, Secret
    <2>3. rows[a] = Row(found[a], cred)
        BY <1>2 DEF StoreOpen
    <2> HIDE DEF cred
    <2> QED BY <2>1, <2>2, <2>3, RowTyped
<1>5. StoreTyped
    BY <1>3, <1>4, StoreAssumption DEF StoreTyped
<1>6. LocalsTyped
    <2>1. Idle.op = "none" /\ Idle.pc = "idle"
        BY CallFacts DEF Idle
    <2>2. CallTyped(Idle)
        BY <2>1 DEF CallTyped, Op, Writing
    <2> QED BY <2>2 DEF LocalsTyped, ControlInit
<1>7. QueueTyped /\ audit \subseteq Call /\ clock \in 1 .. MaxTime
    BY ControlAssumption DEF ControlInit, QueueTyped, IdleRefresher, Empty
<1>8. R!Init
    BY <1>5, RoutesTyped DEF ControlInit, R!Init
<1> QED BY <1>5, <1>6, <1>7, <1>8 DEF ControlTyped

\* A step that leaves the store alone.
LEMMA StoreKept == ASSUME StoreTyped, UNCHANGED storeVars PROVE StoreTyped'
BY DEF StoreTyped, storeVars

LEMMA QueueKept == ASSUME QueueTyped, UNCHANGED refresher PROVE QueueTyped'
BY DEF QueueTyped

LEMMA BeginTyped ==
    ASSUME ControlTyped, NEW c \in Call, CallBegin(c)
    PROVE  ControlTyped' /\ UNCHANGED <<accounts, sessions>>
<1> DEFINE Goal == ControlTyped' /\ UNCHANGED <<accounts, sessions>>
<1> USE DEF ControlTyped
<1>1. PICK a \in Account :
        \/ \E account \in AccountInput, secret \in SecretInput :
                CreateLoad(c, a, account, secret)
        \/ \E secret \in SecretInput : RotateLoad(c, a, secret)
        \/ \E enabled \in BOOLEAN : EnableRead(c, a, enabled)
        \/ DeleteWrite(c, a)
    BY DEF CallBegin
<1>2. ASSUME NEW account \in AccountInput, NEW secret \in SecretInput,
             CreateLoad(c, a, account, secret)
      PROVE  Goal
    <2>1. PICK pc \in Writing : Step(c, Called(pc, "create", a, account, secret))
        BY <1>2, Zenon DEF CreateLoad, Writing
    <2>2. LocalsTyped'
        BY <2>1, BegunTyped, StepTyped, InputTyped, Zenon DEF Writing, Op
    <2> QED BY <1>2, <2>2, StoreKept, QueueKept DEF CreateLoad
<1>3. ASSUME NEW secret \in SecretInput, RotateLoad(c, a, secret)
      PROVE  Goal
    <2>1. CASE load_account_ok(a)
        <3>1. PublicPart(rows[a]) \in ProviderAccount
            BY <2>1, PublicTyped DEF load_account_ok, StoreTyped
        <3>2. PICK pc \in Writing :
                Step(c, Called(pc, "rotate", a, PublicPart(rows[a]), secret))
            BY <1>3, <2>1, Zenon DEF RotateLoad, Writing
        <3>3. LocalsTyped'
            BY <3>1, <3>2, BegunTyped, StepTyped, InputTyped, Zenon
            DEF Writing, Op
        <3> QED BY <1>3, <3>3, StoreKept, QueueKept, Zenon DEF RotateLoad
    <2>2. CASE ~ load_account_ok(a)
        <3>1. Step(c, Called("error", "rotate", a, NoLocal, NoLocal))
            BY <1>3, <2>2 DEF RotateLoad, Over
        <3>2. LocalsTyped'
            BY <3>1, BegunTyped, StepTyped, Zenon DEF Writing, Op
        <3> QED BY <1>3, <3>2, StoreKept, QueueKept DEF RotateLoad
    <2> QED BY <2>1, <2>2
<1>4. ASSUME NEW enabled \in BOOLEAN, EnableRead(c, a, enabled)
      PROVE  Goal
    <2>1. CASE a \in DOMAIN rows
        <3> DEFINE account == [PublicPart(rows[a]) EXCEPT !.enabled = enabled]
        <3>1. PublicPart(rows[a]) \in ProviderAccount
            BY <2>1, PublicTyped DEF StoreTyped
        <3>2. account \in ProviderAccount
            BY <3>1 DEF ProviderAccount
        <3>3. Step(c, Called("write", "enable", a, account, NoLocal))
            BY <1>4, <2>1 DEF EnableRead
        <3> HIDE DEF account
        <3>4. LocalsTyped'
            BY <3>2, <3>3, BegunTyped, StepTyped, Zenon DEF Writing, Op
        <3> QED BY <1>4, <3>4, StoreKept, QueueKept DEF EnableRead
    <2>2. CASE a \notin DOMAIN rows
        <3>1. Step(c, Called("error", "enable", a, NoLocal, NoLocal))
            BY <1>4, <2>2 DEF EnableRead, Over
        <3>2. LocalsTyped'
            BY <3>1, BegunTyped, StepTyped, Zenon DEF Writing, Op
        <3> QED BY <1>4, <3>2, StoreKept, QueueKept DEF EnableRead
    <2> QED BY <2>1, <2>2
<1>5. ASSUME DeleteWrite(c, a) PROVE Goal
    <2>1. StoreTyped' /\ audit' \subseteq Call
        BY <1>5, DeleteTyped, StoreKept, AuditedTyped DEF DeleteWrite
    <2>2. PICK pc \in {"snapshot", "error"} :
            Step(c, Called(pc, "delete", a, NoLocal, NoLocal))
        BY <1>5 DEF DeleteWrite, Over
    <2>3. LocalsTyped'
        BY <2>2, BegunTyped, StepTyped, Zenon DEF Writing, Op
    <2> QED BY <1>5, <2>1, <2>3, QueueKept, Zenon DEF DeleteWrite
<1> HIDE DEF Goal
<1>6. Goal
    BY <1>1, <1>2, <1>3, <1>4, <1>5
<1> QED BY <1>6 DEF Goal

LEMMA WriteTyped ==
    ASSUME ControlTyped, NEW c \in Call, calls[c].pc \in Writing,
           WriteCredential(c)
    PROVE  StoreTyped'
<1> DEFINE call == calls[c]
<1>1. /\ call.id \in Account /\ call.account \in ProviderAccount
      /\ call.secret \in Secret
    BY DEF ControlTyped, LocalsTyped, CallTyped, Writing
<1>2. clock \in Nat /\ clock + Overlap \in Nat /\ StoreTyped
    BY StoreAssumption, ControlAssumption DEF ControlTyped
<1>3. CASE call.pc = "rotate"
    <2>1. rotate_account_credential(call.id, call.account, call.secret,
                                    clock + Overlap, clock)
        BY <1>3 DEF WriteCredential
    <2> HIDE DEF call
    <2> QED BY <1>1, <1>2, <2>1, RotateTyped
<1>4. CASE call.pc # "rotate"
    <2>1. upsert_account(call.id, call.account, call.secret)
        BY <1>4 DEF WriteCredential
    <2> HIDE DEF call
    <2> QED BY <1>1, <1>2, <2>1, UpsertTyped
<1> QED BY <1>3, <1>4

LEMMA CallStepTyped ==
    ASSUME ControlTyped, NEW c \in Call, CallStep(c)
    PROVE  ControlTyped' /\ [R!Next]_(R!routerVars)
<1> DEFINE Goal == ControlTyped' /\ [R!Next]_(R!routerVars)
<1> USE DEF ControlTyped
<1>1. ASSUME UNCHANGED <<accounts, sessions>> PROVE [R!Next]_(R!routerVars)
    BY <1>1 DEF R!routerVars
<1>2. CASE CreateWrite(c)
    <2>1. StoreTyped' /\ audit' \subseteq Call
        BY <1>2, WriteTyped, AuditedTyped DEF CreateWrite, Writing
    <2>2. LocalsTyped'
        BY <1>2, HeldTyped DEF CreateWrite, Goto, Writing
    <2> QED BY <1>1, <1>2, <2>1, <2>2, QueueKept DEF CreateWrite
<1>3. CASE ReadRoutes(c)
    <2>1. LocalsTyped'
        BY <1>3, HeldTyped, RoutesTyped DEF ReadRoutes, Writing
    <2> QED BY <1>1, <1>3, <2>1, StoreKept, QueueKept DEF ReadRoutes
<1>4. CASE ReplaceRoutes(c)
    <2>1. LocalsTyped'
        BY <1>4, HeldTyped, FinishTyped
        DEF ReplaceRoutes, Goto, Writing, Done
    <2>2. calls[c].snapshot \in R!Snapshot
        BY <1>4 DEF ReplaceRoutes, LocalsTyped, CallTyped
    <2>3. R!Next
        BY <1>4, <2>2, Zenon DEF ReplaceRoutes, R!Next
    <2> QED BY <1>4, <2>1, <2>3, StoreKept, QueueKept DEF ReplaceRoutes
<1>5. CASE ResetHealth(c)
    <2>1. LocalsTyped'
        BY <1>5, FinishTyped DEF ResetHealth, Done
    <2>2. calls[c].id \in Account
        BY <1>5, Zenon DEF ResetHealth, LocalsTyped, CallTyped
    <2>3. [R!Next]_(R!routerVars)
        BY <1>1, <1>5, <2>2, Zenon DEF ResetHealth, R!Next
    <2>4. audit' \subseteq Call
        BY <1>5, AuditedTyped, Zenon DEF ResetHealth
    <2> QED BY <1>5, <2>1, <2>3, <2>4, StoreKept, QueueKept DEF ResetHealth
<1>6. CASE RotateWrite(c)
    <2>1. StoreTyped'
        BY <1>6, WriteTyped DEF RotateWrite, Writing
    <2>2. LocalsTyped'
        BY <1>6, HeldTyped DEF RotateWrite, Goto, Writing
    <2> QED BY <1>1, <1>6, <2>1, <2>2, QueueKept DEF RotateWrite
<1>7. CASE EnableWrite(c)
    <2>1. calls[c].account \in ProviderAccount
        BY <1>7 DEF EnableWrite, LocalsTyped, CallTyped
    <2>2. calls[c].account.enabled \in BOOLEAN
        BY <2>1 DEF ProviderAccount
    <2>3. StoreTyped' /\ audit' \subseteq Call
        BY <1>7, <2>1, <2>2, JsonTyped, AuditedTyped DEF EnableWrite
    <2>4. LocalsTyped'
        BY <1>7, HeldTyped DEF EnableWrite, Goto, Writing
    <2> QED BY <1>1, <1>7, <2>3, <2>4, QueueKept DEF EnableWrite
<1> QED BY <1>2, <1>3, <1>4, <1>5, <1>6, <1>7 DEF CallStep

LEMMA LostCallTyped ==
    ASSUME ControlTyped, NEW c \in Call, StoreFault(c) \/ Drop(c)
    PROVE  ControlTyped' /\ UNCHANGED <<accounts, sessions>>
<1> USE DEF ControlTyped
<1>1. LocalsTyped'
    BY FinishTyped DEF StoreFault, Drop, Done
<1> QED BY <1>1, StoreKept, QueueKept DEF StoreFault, Drop

LEMMA RestTyped ==
    ASSUME QueueTyped, refresher' = RefreshRest PROVE QueueTyped'
<1>1. CASE Cardinality(DOMAIN refresher.queue) = 1
    BY <1>1 DEF RefreshRest, IdleRefresher, QueueTyped, Empty
<1>2. CASE Cardinality(DOMAIN refresher.queue) # 1
    <2>1. /\ refresher'.now = refresher.now
          /\ refresher'.queue = Without(refresher.queue, RefreshHead)
        BY <1>2 DEF RefreshRest
    <2>2. DOMAIN refresher'.queue \subseteq DOMAIN refresher.queue
        BY <2>1 DEF Without, Restrict
    <2> QED BY <2>1, <2>2 DEF QueueTyped
<1> QED BY <1>1, <1>2

LEMMA RefreshTyped ==
    ASSUME ControlTyped, RefreshNext
    PROVE  ControlTyped' /\ UNCHANGED <<accounts, sessions>>
<1> DEFINE Goal == ControlTyped' /\ UNCHANGED <<accounts, sessions>>
<1> USE DEF ControlTyped
<1>1. clock \in Nat
    BY ControlAssumption
<1>2. CASE RefreshBegin
    <2>1. QueueTyped'
        BY <1>1, <1>2 DEF RefreshBegin, QueueTyped, DueCandidates, RefreshRows,
                          StoreTyped
    <2> QED BY <1>2, <2>1, StoreKept DEF RefreshBegin, LocalsTyped
<1>3. ASSUME NEW life \in TokenLife, RefreshReplace(clock + life)
      PROVE  Goal
    <2> DEFINE cred == refresher.queue[RefreshHead]
               refreshed == [form |-> "envelope", expires_at |-> clock + life]
    <2>1. refreshed \in Secret
        BY <1>1, ControlAssumption DEF Secret, Form
    <2>2. replace_oauth_if_current(RefreshHead, cred, refreshed,
                PreviousValidUntil(cred, refresher.now), clock)
        BY <1>3 DEF RefreshReplace
    <2> HIDE DEF cred, refreshed
    <2>3. StoreTyped'
        BY <1>1, <2>1, <2>2, ReplaceTyped DEF QueueTyped
    <2> QED BY <1>3, <2>3, RestTyped DEF RefreshReplace, LocalsTyped
<1>4. CASE RefreshFail
    BY <1>4, RestTyped, StoreKept DEF RefreshFail, LocalsTyped
<1> QED BY <1>2, <1>3, <1>4 DEF RefreshNext

LEMMA ControlStepTyped ==
    ControlTyped /\ [ControlNext]_controlVars =>
        ControlTyped' /\ [R!Next]_(R!routerVars)
<1> SUFFICES ASSUME ControlTyped, [ControlNext]_controlVars
             PROVE  ControlTyped' /\ [R!Next]_(R!routerVars)
    OBVIOUS
<1>1. ASSUME UNCHANGED <<accounts, sessions>> PROVE [R!Next]_(R!routerVars)
    BY <1>1 DEF R!routerVars
<1>2. CASE Tick
    <2>1. clock' \in 1 .. MaxTime
        BY <1>2, ControlAssumption DEF Tick, ControlTyped
    <2> QED BY <1>1, <1>2, <2>1, StoreKept, QueueKept
            DEF Tick, ControlTyped, LocalsTyped
<1>3. CASE UNCHANGED controlVars
    BY <1>1, <1>3, StoreKept, QueueKept
    DEF controlVars, storeVars, ControlTyped, LocalsTyped
<1> QED BY <1>1, <1>2, <1>3, BeginTyped, CallStepTyped, LostCallTyped,
           RefreshTyped
        DEF ControlNext
-----------------------------------------------------------------------------
(***************************************************************************)
(* Types of the requests.  A request has an account from its choice to its *)
(* settlement, and has gone upstream only once it was started.             *)
(***************************************************************************)
RequestPc == {"idle", "authenticate", "route", "load", "start", "sent", "done",
              "lost", "dropped"}

Answers == {"none", "bad_request", "unauthorized", "store_unavailable",
            "no_capacity", "upstream_unavailable", "upstream"}

RequestRecord ==
    [pc : RequestPc, token : Nat, session : Session \cup {NoSession},
     model : ModelName \cup {NoModel}, now : 0 .. MaxTime,
     account : Account \cup {0}, sent : BOOLEAN, answer : Answers]

Placed == {"load", "start", "sent", "lost"}

RequestTyped(q) ==
    /\ q \in RequestRecord
    /\ q.pc \in Placed => q.account \in Account
    /\ q.sent => q.pc \in {"sent", "done", "lost"}

RequestsTyped ==
    DOMAIN requests = Request /\ \A r \in Request : RequestTyped(requests[r])

LEMMA RequestChanged ==
    ASSUME RequestsTyped, NEW r \in Request, NEW q, RequestTyped(q),
           requests' = [requests EXCEPT ![r] = q]
    PROVE  RequestsTyped'
BY DEF RequestsTyped

LEMMA NewRequestTyped ==
    /\ NotArrived \in RequestRecord
    /\ NotArrived.pc = "idle" /\ NotArrived.sent = FALSE
<1>1. 0 \in 0 .. MaxTime
    BY ControlAssumption
<1> QED BY <1>1 DEF NotArrived, RequestRecord, RequestPc, NoToken, Answers

LEMMA AnswerTyped ==
    ASSUME RequestsTyped, NEW r \in Request, NEW answer \in Answers,
           Answer(r, answer)
    PROVE  RequestsTyped'
<1> DEFINE q == [NotArrived EXCEPT !.pc = "done",
                                   !.account = requests[r].account,
                                   !.sent = requests[r].sent,
                                   !.answer = answer]
<1>1. requests[r] \in RequestRecord
    BY DEF RequestsTyped, RequestTyped
<1>2. q \in RequestRecord /\ q.pc = "done"
    BY <1>1, NewRequestTyped, Zenon DEF RequestRecord, RequestPc
<1>3. requests' = [requests EXCEPT ![r] = q]
    BY DEF Answer
<1> HIDE DEF q
<1>4. RequestTyped(q)
    BY <1>2 DEF RequestTyped, Placed
<1> QED BY <1>3, <1>4, RequestChanged, Zenon

LEMMA ProceedTyped ==
    ASSUME RequestsTyped, NEW r \in Request, NEW pc \in RequestPc,
           pc \in Placed => requests[r].account \in Account,
           requests[r].sent => pc \in {"sent", "done", "lost"}, Proceed(r, pc)
    PROVE  RequestsTyped'
<1> DEFINE q == [requests[r] EXCEPT !.pc = pc]
<1>1. requests[r] \in RequestRecord
    BY DEF RequestsTyped, RequestTyped
<1>2. /\ q \in RequestRecord /\ q.pc = pc /\ q.account = requests[r].account
      /\ q.sent = requests[r].sent
    BY <1>1 DEF RequestRecord
<1>3. requests' = [requests EXCEPT ![r] = q]
    BY DEF Proceed
<1> HIDE DEF q
<1>4. RequestTyped(q)
    BY <1>2 DEF RequestTyped
<1> QED BY <1>3, <1>4, RequestChanged, Zenon

LEMMA CountedTyped ==
    ASSUME metrics \in [Metrics -> Nat], NEW m \in Metrics, Counted(m)
    PROVE  metrics' \in [Metrics -> Nat]
BY DEF Counted

LEMMA AppendTyped ==
    ASSUME DOMAIN proxy_audit \subseteq Request, NEW r \in Request,
           NEW outcome, append_proxy_audit(r, outcome)
    PROVE  /\ DOMAIN proxy_audit' \subseteq Request
           /\ DOMAIN proxy_audit \subseteq DOMAIN proxy_audit'
           /\ ~ StoreFaults => r \in DOMAIN proxy_audit'
BY DEF append_proxy_audit, With

LEMMA RetryTyped ==
    ASSUME NEW status \in Status, NEW header \in RetryHeader,
           NEW now \in 0 .. MaxTime
    PROVE  retry_at(status, header, now) \in 0 .. Horizon
<1>1. \A fallback \in Nat : /\ retry_after(header, fallback) \in Nat
                            /\ \/ retry_after(header, fallback) <= MaxRetryAfter
                               \/ retry_after(header, fallback) = fallback
    BY DataAssumption DEF retry_after
<1>2. CASE status = "429"
    <2>1. retry_at(status, header, now)
                = now + retry_after(header, RateLimitFallback)
        BY <1>2 DEF retry_at
    <2> QED BY <1>1, <2>1, DataAssumption, ControlAssumption
<1>3. CASE status = "529"
    <2>1. retry_at(status, header, now)
                = now + retry_after(header, OverloadFallback)
        BY <1>3 DEF retry_at
    <2> QED BY <1>1, <2>1, DataAssumption, ControlAssumption
<1>4. CASE status # "429" /\ status # "529"
    <2>1. retry_at(status, header, now) = 0
        BY <1>4 DEF retry_at
    <2> QED BY <2>1, ControlAssumption
<1> QED BY <1>2, <1>3, <1>4

LEMMA ClassifyTyped ==
    ASSUME NEW status \in Status PROVE classify_status(status) \in R!Outcome
BY DEF classify_status, R!Outcome, R!Evicting, Status
-----------------------------------------------------------------------------
(***************************************************************************)
(* Every step of the composed system keeps the types, and is a step of the *)
(* router or none.                                                         *)
(***************************************************************************)
DataTyped ==
    /\ ControlTyped /\ RequestsTyped
    /\ metrics \in [Metrics -> Nat]
    /\ DOMAIN proxy_audit \subseteq Request

\* What a request's own step has to keep.
Kept ==
    /\ RequestsTyped'
    /\ metrics' \in [Metrics -> Nat]
    /\ DOMAIN proxy_audit' \subseteq Request
    /\ [R!Next]_(R!routerVars)

LEMMA SameRouterStep == RouterUnchanged => [R!Next]_(R!routerVars)
BY DEF RouterUnchanged, R!routerVars

LEMMA ArriveKept ==
    ASSUME DataTyped, NEW r \in Request, NEW token \in Token,
           NEW s \in Session \cup {NoSession},
           NEW m \in ModelName \cup {NoModel}, Arrive(r, token, s, m)
    PROVE  Kept
<1>1. metrics' \in [Metrics -> Nat]
    BY CountedTyped DEF Arrive, DataTyped, Metrics
<1>2. RequestsTyped'
    <2> DEFINE q == [NotArrived EXCEPT !.pc = "authenticate", !.token = token,
                                       !.session = s, !.model = m,
                                       !.now = clock]
    <2>1. token \in Nat /\ clock \in 0 .. MaxTime
        BY DataAssumption, ControlAssumption DEF DataTyped, ControlTyped
    <2>2. /\ q \in RequestRecord /\ q.pc = "authenticate" /\ q.sent = FALSE
        BY <2>1, NewRequestTyped, Zenon DEF RequestRecord, RequestPc
    <2>3. \/ Answer(r, "bad_request") \/ Answer(r, "unauthorized")
          \/ requests' = [requests EXCEPT ![r] = q]
        BY DEF Arrive
    <2> HIDE DEF q
    <2>4. RequestTyped(q)
        BY <2>2 DEF RequestTyped, Placed
    <2>5. RequestsTyped /\ {"bad_request", "unauthorized"} \subseteq Answers
        BY DEF DataTyped, Answers
    <2> QED BY <2>3, <2>4, <2>5, RequestChanged, AnswerTyped
<1> QED BY <1>1, <1>2, SameRouterStep DEF Kept, Arrive, DataTyped

LEMMA AuthenticateKept ==
    ASSUME DataTyped, NEW r \in Request, SnapshotFails(r) \/ Authenticate(r)
    PROVE  Kept
<1>1. metrics' \in [Metrics -> Nat]
    BY CountedTyped DEF SnapshotFails, Authenticate, DataTyped, Metrics
<1>2. DOMAIN proxy_audit' \subseteq Request /\ [R!Next]_(R!routerVars)
    BY AppendTyped, SameRouterStep DEF SnapshotFails, Authenticate, DataTyped
<1>3. ~ requests[r].sent
    BY DEF SnapshotFails, Authenticate, DataTyped, RequestsTyped, RequestTyped
<1>4. \/ Proceed(r, "route")
      \/ \E answer \in Answers : Answer(r, answer)
    BY Zenon DEF SnapshotFails, Authenticate, Answers
<1>5. RequestsTyped'
    BY <1>3, <1>4, ProceedTyped, AnswerTyped DEF DataTyped, RequestPc, Placed
<1> QED BY <1>1, <1>2, <1>5 DEF Kept

LEMMA RouteKept ==
    ASSUME DataTyped, NEW r \in Request, Route(r)
    PROVE  Kept
<1> DEFINE q == requests[r]
<1>1. q \in RequestRecord /\ ~ q.sent /\ RequestsTyped
    BY DEF Route, DataTyped, RequestsTyped, RequestTyped
<1>2. /\ q.session \in Session \cup {NoSession}
      /\ q.model \in ModelName \cup {NoModel} /\ q.now \in 0 .. Horizon
    BY <1>1, ControlAssumption DEF RequestRecord
<1>3. UNCHANGED <<metrics, proxy_audit>>
    BY DEF Route
<1>4. ASSUME NEW a \in Account, R!choose(q.session, q.model, q.now, a),
             requests' = [requests EXCEPT ![r].pc = "load", ![r].account = a]
      PROVE  RequestsTyped' /\ R!Next
    <2> DEFINE new == [q EXCEPT !.pc = "load", !.account = a]
    <2>1. /\ new \in RequestRecord /\ new.pc = "load" /\ new.account = a
          /\ new.sent = q.sent
        BY <1>1, Zenon DEF RequestRecord, RequestPc
    <2>2. requests' = [requests EXCEPT ![r] = new]
        BY <1>4, Zenon
    <2>3. R!Choose(q.session, q.model, q.now)
        BY <1>4 DEF R!Choose
    <2> HIDE DEF new, q
    <2>4. RequestTyped(new)
        BY <1>1, <2>1 DEF RequestTyped, Placed
    <2>5. RequestsTyped'
        BY <1>1, <2>2, <2>4, RequestChanged, Zenon
    <2> QED BY <1>2, <2>3, <2>5 DEF R!Next
<1>5. ASSUME R!choose_none(q.session, q.model, q.now), Answer(r, "no_capacity")
      PROVE  RequestsTyped' /\ R!Next
    <2>1. R!Choose(q.session, q.model, q.now)
        BY <1>5 DEF R!Choose
    <2> HIDE DEF q
    <2> QED BY <1>1, <1>2, <1>5, <2>1, AnswerTyped DEF R!Next, Answers
<1>6. RequestsTyped' /\ R!Next
    BY <1>4, <1>5 DEF Route
<1> QED BY <1>3, <1>6 DEF Kept, DataTyped

LEMMA LoadKept ==
    ASSUME DataTyped, NEW r \in Request, Load(r)
    PROVE  Kept
<1>1. /\ requests[r].account \in Account /\ ~ requests[r].sent /\ RequestsTyped
    BY DEF Load, DataTyped, RequestsTyped, RequestTyped, Placed
<1>2. Proceed(r, "start") \/ \E answer \in Answers : Answer(r, answer)
    BY DEF Load, Answers
<1>3. RequestsTyped'
    BY <1>1, <1>2, ProceedTyped, AnswerTyped DEF RequestPc
<1> QED BY <1>3, SameRouterStep DEF Load, Kept, DataTyped

LEMMA StartKept ==
    ASSUME DataTyped, NEW r \in Request, Start(r)
    PROVE  Kept
<1> DEFINE q == requests[r]
<1>1. q \in RequestRecord /\ q.account \in Account /\ RequestsTyped
    BY DEF Start, DataTyped, RequestsTyped, RequestTyped, Placed
<1>2. UNCHANGED <<metrics, proxy_audit>>
    BY DEF Start
<1>3. ASSUME R!start_request(q.account),
             requests' = [requests EXCEPT ![r].pc = "sent", ![r].sent = TRUE]
      PROVE  RequestsTyped' /\ R!Next
    <2> DEFINE new == [q EXCEPT !.pc = "sent", !.sent = TRUE]
    <2>1. new \in RequestRecord /\ new.pc = "sent" /\ new.account = q.account
        BY <1>1, Zenon DEF RequestRecord, RequestPc
    <2>2. requests' = [requests EXCEPT ![r] = new]
        BY <1>3, Zenon
    <2> HIDE DEF new, q
    <2>3. RequestTyped(new)
        BY <1>1, <2>1 DEF RequestTyped
    <2>4. RequestsTyped'
        BY <1>1, <2>2, <2>3, RequestChanged, Zenon
    <2> QED BY <1>1, <1>3, <2>4 DEF R!Next
<1>4. ASSUME Answer(r, "no_capacity"), RouterUnchanged
      PROVE  RequestsTyped' /\ [R!Next]_(R!routerVars)
    BY <1>1, <1>4, AnswerTyped, SameRouterStep DEF Answers
<1>5. RequestsTyped' /\ [R!Next]_(R!routerVars)
    BY <1>3, <1>4 DEF Start
<1> QED BY <1>2, <1>5 DEF Kept, DataTyped

LEMMA SettleKept ==
    ASSUME DataTyped, NEW r \in Request, NEW status \in Status,
           NEW header \in RetryHeader, Settle(r, status, header)
    PROVE  Kept
<1> DEFINE q == requests[r]
           at == retry_at(status, header, q.now)
<1>1. /\ q \in RequestRecord /\ q.account \in Account /\ RequestsTyped
      /\ q.now \in 0 .. MaxTime
    BY Zenon
    DEF Settle, DataTyped, RequestsTyped, RequestTyped, Placed, RequestRecord
<1>2. RequestsTyped'
    BY <1>1, AnswerTyped, Zenon DEF Settle, Answers
<1>3. metrics' \in [Metrics -> Nat]
    BY CountedTyped, Zenon DEF Settle, DataTyped, Metrics
<1>4. DOMAIN proxy_audit' \subseteq Request
    BY AppendTyped, Zenon DEF Settle, DataTyped
<1>5. at \in 0 .. Horizon /\ classify_status(status) \in R!Outcome
    BY <1>1, RetryTyped, ClassifyTyped
<1>6. \/ R!record_outcome(q.account, classify_status(status), at)
      \/ RouterUnchanged
    BY Zenon DEF Settle
<1> HIDE DEF q, at
<1>7. [R!Next]_(R!routerVars)
    BY <1>1, <1>5, <1>6, SameRouterStep DEF R!Next
<1> QED BY <1>2, <1>3, <1>4, <1>7 DEF Kept

LEMMA TransportFailsKept ==
    ASSUME DataTyped, NEW r \in Request, TransportFails(r)
    PROVE  Kept
<1>1. requests[r].account \in Account /\ RequestsTyped
    BY DEF TransportFails, DataTyped, RequestsTyped, RequestTyped, Placed
<1>2. RequestsTyped'
    BY <1>1, AnswerTyped DEF TransportFails, Answers
<1>3. metrics' \in [Metrics -> Nat]
    BY CountedTyped DEF TransportFails, DataTyped, Metrics
<1>4. DOMAIN proxy_audit' \subseteq Request
    BY AppendTyped DEF TransportFails, DataTyped
<1>5. "TransientFailure" \in R!Outcome /\ 0 \in 0 .. Horizon
    BY ControlAssumption DEF R!Outcome, R!Evicting
<1>6. \/ R!record_outcome(requests[r].account, "TransientFailure", 0)
      \/ RouterUnchanged
    BY DEF TransportFails
<1>7. [R!Next]_(R!routerVars)
    BY <1>1, <1>5, <1>6, SameRouterStep DEF R!Next
<1> QED BY <1>2, <1>3, <1>4, <1>7 DEF Kept

LEMMA DisconnectKept ==
    ASSUME DataTyped, NEW r \in Request, Disconnect(r)
    PROVE  Kept
<1>1. /\ RequestTyped(requests[r]) /\ RequestsTyped
    BY DEF DataTyped, RequestsTyped
<1>2. CASE requests[r].pc = "sent"
    <2>1. Proceed(r, "lost") /\ requests[r].account \in Account
        BY <1>1, <1>2 DEF Disconnect, RequestTyped, Placed
    <2>2. RequestsTyped'
        BY <1>1, <2>1, ProceedTyped DEF RequestPc
    <2> QED BY <2>2, SameRouterStep DEF Disconnect, Kept, DataTyped
<1>3. CASE requests[r].pc # "sent"
    <2>1. Proceed(r, "dropped") /\ ~ requests[r].sent
        BY <1>1, <1>3 DEF Disconnect, RequestTyped
    <2>2. RequestsTyped'
        BY <1>1, <2>1, ProceedTyped DEF RequestPc, Placed
    <2> QED BY <2>2, SameRouterStep DEF Disconnect, Kept, DataTyped
<1> QED BY <1>2, <1>3

LEMMA CountKept ==
    ASSUME DataTyped, sticky_session_count PROVE Kept
<1>1. clock \in 0 .. Horizon
    BY ControlAssumption DEF DataTyped, ControlTyped
<1>2. R!Next
    BY <1>1 DEF sticky_session_count, R!Next
<1> QED BY <1>2 DEF sticky_session_count, dataVars, Kept, DataTyped,
            RequestsTyped

LEMMA ControlKept ==
    ASSUME ControlTyped, ControlUnchanged PROVE ControlTyped'
BY StoreKept, QueueKept DEF ControlUnchanged, ControlTyped, LocalsTyped

LEMMA DataInitTyped == DataInit => DataTyped /\ R!Init
<1> SUFFICES ASSUME DataInit PROVE DataTyped /\ R!Init
    OBVIOUS
<1>1. ControlTyped /\ R!Init
    BY ControlInitTyped DEF DataInit
<1>2. RequestTyped(NotArrived)
    BY NewRequestTyped DEF RequestTyped, Placed
<1>3. RequestsTyped
    BY <1>2 DEF DataInit, RequestsTyped
<1>4. metrics \in [Metrics -> Nat] /\ DOMAIN proxy_audit \subseteq Request
    BY DEF DataInit, Empty
<1> QED BY <1>1, <1>3, <1>4 DEF DataTyped

LEMMA DataStepTyped ==
    DataTyped /\ [DataNext]_allVars =>
        DataTyped' /\ [R!Next]_(R!routerVars)
<1> SUFFICES ASSUME DataTyped, [DataNext]_allVars
             PROVE  DataTyped' /\ [R!Next]_(R!routerVars)
    OBVIOUS
<1>1. ASSUME [ControlNext]_controlVars, UNCHANGED dataVars
      PROVE  DataTyped' /\ [R!Next]_(R!routerVars)
    <2>1. ControlTyped' /\ [R!Next]_(R!routerVars)
        BY <1>1, ControlStepTyped DEF DataTyped
    <2> QED BY <1>1, <2>1 DEF dataVars, DataTyped, RequestsTyped
<1>2. ASSUME ControlUnchanged, Kept
      PROVE  DataTyped' /\ [R!Next]_(R!routerVars)
    BY <1>2, ControlKept DEF Kept, DataTyped
<1>3. CASE UNCHANGED allVars
    BY <1>1, <1>3 DEF allVars
<1>4. ASSUME NEW r \in Request, RequestStep(r) PROVE Kept
    BY <1>4, AuthenticateKept, RouteKept, LoadKept, StartKept, SettleKept,
       TransportFailsKept
    DEF RequestStep
<1> QED BY <1>1, <1>2, <1>3, <1>4, ArriveKept, DisconnectKept, CountKept
        DEF DataNext

\* Client requests, administrator calls and refreshes together drive the
\* router only as its own specification allows: every one of their steps is
\* one router operation with the arguments it may have, or leaves the router
\* alone (data_plane.rs:236-460, http_app.rs:530-537).
THEOREM RouterAlwaysUsedAsSpecified == DataSpec => RouterUsedAsSpecified
BY DataInitTyped, DataStepTyped, PTL DEF DataSpec, RouterUsedAsSpecified, R!Spec

-----------------------------------------------------------------------------
(***************************************************************************)
(* What was proved of the router speaks of the router used here.           *)
(***************************************************************************)
\* The router's own lemmas, for the clock readings the system makes.
RP == INSTANCE RoutingProofs WITH Instant <- 0 .. Horizon

RouterInv == R!RouterTypeOK /\ R!BindingsServe

LEMMA RouterAssumed ==
    RP!RoutingAssumption /\ RP!ModelNameAssumption /\ RP!InstantAssumption
BY StoreAssumption, ControlAssumption, ModelNameAssumption
   DEF RP!RoutingAssumption, RP!ModelNameAssumption, RP!InstantAssumption,
       RP!FamilyKeys, RP!KNOWN_FAMILIES, FamilyKeys, KNOWN_FAMILIES

LEMMA SameTypes ==
    /\ R!RouteAccount = RP!RouteAccount /\ R!SessionBinding = RP!SessionBinding
    /\ R!Snapshot = RP!Snapshot /\ R!Outcome = RP!Outcome
    /\ R!routerVars = RP!routerVars
BY DEF R!RouteAccount, RP!RouteAccount, R!SessionBinding, RP!SessionBinding,
       R!Snapshot, RP!Snapshot, R!Profile, RP!Profile, R!Outcome, RP!Outcome,
       R!Evicting, RP!Evicting, R!routerVars, RP!routerVars

LEMMA SameInvariants ==
    /\ R!RouterTypeOK <=> RP!RouterTypeOK
    /\ R!BindingsServe <=> RP!BindingsServe
BY SameTypes
   DEF R!RouterTypeOK, RP!RouterTypeOK, R!BindingsServe, RP!BindingsServe

LEMMA SameInit == R!Init <=> RP!Init
BY SameTypes
   DEF R!Init, RP!Init, R!RouterNew, RP!RouterNew, R!FreshAccount,
       RP!FreshAccount, R!NotDepleted, RP!NotDepleted, R!NoBindings,
       RP!NoBindings

LEMMA SameAccepted ==
    ASSUME NEW keys, NEW m PROVE R!accepted(keys, m) <=> RP!accepted(keys, m)
BY DEF R!accepted, RP!accepted, R!family, RP!family, R!DefaultKey,
       RP!DefaultKey, R!KNOWN_FAMILIES, RP!KNOWN_FAMILIES

LEMMA SameSelection ==
    ASSUME NEW s, NEW m, NEW now
    PROVE  R!Selection(s, m, now) = RP!Selection(s, m, now)
<1>1. R!EligibleAccounts(m, now) = RP!EligibleAccounts(m, now)
    BY SameAccepted, Zenon
    DEF R!EligibleAccounts, RP!EligibleAccounts, R!eligible,
                        RP!eligible
<1> QED BY <1>1 DEF R!Selection, RP!Selection, R!Sticky, RP!Sticky,
            R!LeastLoaded, RP!LeastLoaded, R!Precedes, RP!Precedes

LEMMA SameChoose ==
    ASSUME NEW s, NEW m, NEW now
    PROVE  R!Choose(s, m, now) <=> RP!Choose(s, m, now)
BY SameSelection
   DEF R!Choose, RP!Choose, R!choose, RP!choose, R!choose_none, RP!choose_none,
       R!Bind, RP!Bind, R!Restrict, RP!Restrict

LEMMA SameCounting ==
    /\ \A a : R!start_request(a) <=> RP!start_request(a)
    /\ \A now : R!session_count(now) <=> RP!session_count(now)
BY DEF R!start_request, RP!start_request, R!session_count, RP!session_count,
       R!Restrict, RP!Restrict

LEMMA SameOutcome ==
    ASSUME NEW a, NEW o, NEW t
    PROVE  R!record_outcome(a, o, t) <=> RP!record_outcome(a, o, t)
BY DEF R!record_outcome, RP!record_outcome, R!Settled, RP!Settled, R!Evicting,
       RP!Evicting, R!WithoutAccount, RP!WithoutAccount, R!Restrict,
       RP!Restrict

LEMMA SameReset ==
    ASSUME NEW a
    PROVE  R!reset_account_health(a) <=> RP!reset_account_health(a)
BY DEF R!reset_account_health, RP!reset_account_health, R!WithoutAccount,
       RP!WithoutAccount, R!Restrict, RP!Restrict, R!NotDepleted,
       RP!NotDepleted

LEMMA SameReplace ==
    ASSUME NEW snapshot
    PROVE  R!replace_accounts(snapshot) <=> RP!replace_accounts(snapshot)
BY DEF R!replace_accounts, RP!replace_accounts, R!Restrict, RP!Restrict,
       R!NotDepleted, RP!NotDepleted, R!Replacement, RP!Replacement,
       R!FreshAccount, RP!FreshAccount

LEMMA SameNext == R!Next <=> RP!Next
BY SameTypes, SameChoose, SameCounting, SameOutcome, SameReset, SameReplace
   DEF R!Next, RP!Next

\* The router's invariants are kept by every step that is the router's.
LEMMA RouterInit == R!Init => RouterInv
BY RouterAssumed, SameInit, SameInvariants, RP!TypeInit, RP!BindingsInit
   DEF RouterInv

LEMMA RouterStep == RouterInv /\ [R!Next]_(R!routerVars) => RouterInv'
<1>1. /\ R!RouterTypeOK' <=> RP!RouterTypeOK'
      /\ R!BindingsServe' <=> RP!BindingsServe'
    BY SameTypes
    DEF R!RouterTypeOK, RP!RouterTypeOK, R!BindingsServe, RP!BindingsServe
<1>2. [R!Next]_(R!routerVars) => [RP!Next]_(RP!routerVars)
    BY SameNext, SameTypes DEF R!routerVars, RP!routerVars
<1>3. RP!RouterTypeOK /\ [RP!Next]_(RP!routerVars) => RP!RouterTypeOK'
    BY RouterAssumed, RP!TypeStep
<1>4. RP!RouterTypeOK /\ RP!BindingsServe /\ [RP!Next]_(RP!routerVars)
            => RP!BindingsServe'
    BY RouterAssumed, RP!BindingsStep
<1> QED BY <1>1, <1>2, <1>3, <1>4, SameInvariants DEF RouterInv

LEMMA RouterInvAlways == DataSpec => [](DataTyped /\ RouterInv)
BY DataInitTyped, DataStepTyped, RouterInit, RouterStep, PTL DEF DataSpec

\* Tables, locals, pool, bindings, requests and counters keep their types
\* whatever interleaves; in particular the pool stays typed under the
\* operations requests and calls perform on it.
THEOREM DataAlwaysTyped == DataSpec => []DataTypeOK
<1>1. DataTyped /\ RouterInv => DataTypeOK
    <2> SUFFICES ASSUME DataTyped, RouterInv PROVE DataTypeOK
        OBVIOUS
    <2>1. ControlTypeOK
        BY ControlAssumption
        DEF DataTyped, ControlTyped, RouterInv, ControlTypeOK, StoreTyped,
            LocalsTyped, CallTyped, QueueTyped
    <2>2. \A r \in Request :
            requests[r].pc \in RequestPc /\ requests[r].account \in Account \cup {0}
        BY DEF DataTyped, RequestsTyped, RequestTyped, RequestRecord
    <2> QED BY <2>1, <2>2 DEF DataTyped, DataTypeOK, RequestPc
<1> QED BY <1>1, RouterInvAlways, PTL

\* With requests, administrator calls and refreshes running together, every
\* sticky binding names an account that is in the pool, enabled and healthy
\* (routing.rs:112-116, 127, 220-231).
THEOREM BindingsServeInUse == DataSpec => []R!BindingsServe
<1>1. DataTyped /\ RouterInv => R!BindingsServe
    BY DEF RouterInv
<1> QED BY <1>1, RouterInvAlways, PTL

\* Clients see the router's promises in the running system: a bound session
\* moves only for a reason, and follows its account's service
\* (routing.rs:95-235).
THEOREM PromisesKeptInUse ==
    DataSpec => RP!AffinityKept /\ RP!ImplementsStickySessions
<1>1. [R!Next]_(R!routerVars) => [RP!Next]_(RP!routerVars)
    BY SameNext, SameTypes DEF R!routerVars, RP!routerVars
<1>2. DataInit => RP!Init
    BY DataInitTyped, SameInit
<1>3. DataTyped /\ [DataNext]_allVars => DataTyped' /\ [RP!Next]_(RP!routerVars)
    BY <1>1, DataStepTyped
<1>4. DataSpec => RP!Spec
    BY <1>2, <1>3, DataInitTyped, PTL DEF DataSpec, RP!Spec
<1>5. RP!Spec => RP!AffinityKept
    BY RouterAssumed, RP!AffinityHolds
<1>6. RP!Spec => RP!ImplementsStickySessions
    BY RouterAssumed, RP!RouterImplementsPromise
<1> QED BY <1>4, <1>5, <1>6, PTL
=============================================================================
