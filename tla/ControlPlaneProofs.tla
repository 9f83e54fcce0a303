-------------------------- MODULE ControlPlaneProofs --------------------------
(***************************************************************************)
(* Proofs about credentials under concurrent administrator calls and       *)
(* refreshes, for every number of accounts, calls and writes, every        *)
(* overlap, and whatever fails or is dropped; about the requests they      *)
(* admit, and about the audit rows of requests.                            *)
(***************************************************************************)
EXTENDS DataPlane, TLAPS

-----------------------------------------------------------------------------
(***************************************************************************)
(* Rows, ciphertexts and partial functions.                                *)
(***************************************************************************)
LEMMA RowFacts ==
    ASSUME NEW account, NEW cred
    PROVE  Row(account, cred).cred = cred
BY DEF Row

LEMMA EncryptFacts ==
    ASSUME NEW secret, NEW origin
    PROVE  /\ encrypt(secret, origin).id = next_id
           /\ encrypt(secret, origin).expires_at = secret.expires_at
           /\ encrypt(secret, origin).origin = origin
BY DEF encrypt
-----------------------------------------------------------------------------
(***************************************************************************)
(* The store's part of the inductive invariant.  That a rotation's history *)
(* never passes for a refresh's needs that ids and origins are older than  *)
(* the next id; that the overlap is bounded needs that a refresh pass does *)
(* not run ahead of the clock.                                             *)
(***************************************************************************)
RowOK(a) ==
    /\ rows[a].cred.id \in Nat /\ rows[a].cred.id < next_id
    /\ rows[a].cred.expires_at \in Nat
    /\ submitted[a] \in Nat /\ submitted[a] < next_id
    /\ rows[a].cred.origin = submitted[a]

PreviousOK(a) ==
    /\ history[a].cred.id \in Nat
    /\ history[a].cred.id < rows[a].cred.id
    /\ history[a].expires_at \in Nat /\ history[a].since \in Nat
    /\ history[a].expires_at <= history[a].since + Overlap
    /\ history[a].cred.origin = submitted[a] =>
            history[a].expires_at <= history[a].cred.expires_at

StoreInv ==
    /\ next_id \in Nat
    /\ DOMAIN submitted = DOMAIN rows
    /\ DOMAIN history \subseteq DOMAIN rows
    /\ \A a \in DOMAIN rows : RowOK(a)
    /\ \A a \in DOMAIN history : PreviousOK(a)

\* A row that a step leaves alone stays in order.
LEMMA RowKept ==
    ASSUME NEW a, RowOK(a), next_id \in Nat, next_id' \in Nat,
           next_id <= next_id', rows'[a].cred = rows[a].cred,
           submitted'[a] = submitted[a]
    PROVE  RowOK(a)'
BY DEF RowOK

LEMMA PreviousKept ==
    ASSUME NEW a, PreviousOK(a), history'[a] = history[a],
           rows'[a].cred = rows[a].cred, submitted'[a] = submitted[a]
    PROVE  PreviousOK(a)'
BY DEF PreviousOK

\* What the three writes of a credential have in common.
LEMMA WrittenInv ==
    ASSUME StoreInv, NEW a, NEW row, rows' = With(rows, a, row),
           next_id' = next_id + 1,
           row.cred.id = next_id, row.cred.expires_at \in Nat,
           DOMAIN submitted' = DOMAIN submitted \cup {a},
           \A b \in DOMAIN submitted : b # a => submitted'[b] = submitted[b],
           row.cred.origin = submitted'[a],
           submitted'[a] \in Nat, submitted'[a] <= next_id,
           DOMAIN history' \subseteq DOMAIN history \cup {a},
           \A b \in DOMAIN history : b # a => history'[b] = history[b],
           a \in DOMAIN history' => PreviousOK(a)'
    PROVE  StoreInv'
<1>1. /\ DOMAIN rows' = DOMAIN rows \cup {a} /\ rows'[a] = row
      /\ \A b \in DOMAIN rows : b # a => rows'[b] = rows[b]
    BY DEF With
<1>2. next_id \in Nat /\ next_id' \in Nat /\ next_id < next_id'
    BY DEF StoreInv
<1>3. RowOK(a)'
    BY <1>1, <1>2 DEF RowOK
<1>4. ASSUME NEW b \in DOMAIN rows, b # a PROVE RowOK(b)'
    BY <1>1, <1>2, <1>4, RowKept DEF StoreInv
<1>5. ASSUME NEW b \in DOMAIN history', b # a PROVE PreviousOK(b)'
    BY <1>1, <1>5, PreviousKept DEF StoreInv
<1> QED BY <1>1, <1>2, <1>3, <1>4, <1>5 DEF StoreInv

LEMMA UpsertInv ==
    ASSUME StoreInv, NEW a, NEW account, NEW secret,
           secret.expires_at \in Nat, upsert_account(a, account, secret)
    PROVE  StoreInv'
<1> DEFINE row == Row(account, encrypt(secret, next_id))
<1>1. /\ rows' = With(rows, a, row)
      /\ history' = Without(history, a)
      /\ next_id' = next_id + 1
      /\ submitted' = With(submitted, a, next_id)
    BY DEF upsert_account
<1>2. /\ row.cred.id = next_id /\ row.cred.expires_at \in Nat
      /\ row.cred.origin = next_id
    BY RowFacts, EncryptFacts
<1> HIDE DEF row
<1>3. /\ DOMAIN submitted' = DOMAIN submitted \cup {a}
      /\ submitted'[a] = next_id
      /\ \A b \in DOMAIN submitted : b # a => submitted'[b] = submitted[b]
    BY <1>1 DEF With
<1>4. /\ DOMAIN history' = DOMAIN history \ {a}
      /\ \A b \in DOMAIN history : b # a => history'[b] = history[b]
    BY <1>1 DEF Without, Restrict
<1>5. next_id \in Nat /\ next_id <= next_id
    BY DEF StoreInv
<1> QED BY <1>1, <1>2, <1>3, <1>4, <1>5, WrittenInv

LEMMA RotateInv ==
    ASSUME StoreInv, NEW a, NEW account, NEW secret, secret.expires_at \in Nat,
           clock \in Nat,
           rotate_account_credential(a, account, secret, clock + Overlap, clock)
    PROVE  StoreInv'
<1> DEFINE row == Row(account, encrypt(secret, next_id))
           previous == [cred |-> rows[a].cred, expires_at |-> clock + Overlap,
                        since |-> clock]
<1>1. /\ rows' = With(rows, a, row)
      /\ history' = IF a \in DOMAIN rows THEN With(history, a, previous)
                    ELSE history
      /\ next_id' = next_id + 1
      /\ submitted' = With(submitted, a, next_id)
    BY DEF rotate_account_credential
<1>2. /\ row.cred.id = next_id /\ row.cred.expires_at \in Nat
      /\ row.cred.origin = next_id
    BY RowFacts, EncryptFacts
<1>3. /\ previous.cred = rows[a].cred
      /\ previous.expires_at \in Nat /\ previous.since \in Nat
      /\ previous.expires_at <= previous.since + Overlap
    BY StoreAssumption
<1> HIDE DEF row, previous
<1>4. /\ DOMAIN submitted' = DOMAIN submitted \cup {a}
      /\ submitted'[a] = next_id
      /\ \A b \in DOMAIN submitted : b # a => submitted'[b] = submitted[b]
    BY <1>1 DEF With
<1>5. /\ DOMAIN history' \subseteq DOMAIN history \cup {a}
      /\ \A b \in DOMAIN history : b # a => history'[b] = history[b]
      /\ a \in DOMAIN rows => history'[a] = previous
    BY <1>1 DEF With
<1>6. next_id \in Nat /\ next_id <= next_id
    BY DEF StoreInv
<1>7. ASSUME a \in DOMAIN history' PROVE PreviousOK(a)'
    <2>1. a \in DOMAIN rows
        BY <1>1, <1>7 DEF StoreInv
    <2>2. RowOK(a) /\ rows'[a] = row /\ history'[a] = previous
        BY <1>1, <1>5, <2>1 DEF StoreInv, With
    <2>3. previous.cred.id \in Nat /\ previous.cred.id < next_id
        BY <1>3, <2>2 DEF RowOK
    <2>4. previous.cred.origin # submitted'[a]
        BY <1>3, <1>4, <1>6, <2>2 DEF RowOK
    <2> QED BY <1>2, <1>3, <2>2, <2>3, <2>4 DEF PreviousOK
<1> QED BY <1>1, <1>2, <1>4, <1>5, <1>6, <1>7, WrittenInv

LEMMA ReplaceInv ==
    ASSUME StoreInv, NEW a, NEW expected, NEW refreshed,
           refreshed.expires_at \in Nat, clock \in Nat,
           NEW now \in Nat, now <= clock,
           replace_oauth_if_current(a, expected, refreshed,
                                    PreviousValidUntil(expected, now), clock)
    PROVE  StoreInv'
<1>1. CASE ~ IsCurrent(a, expected)
    <2>1. UNCHANGED storeVars
        BY <1>1 DEF replace_oauth_if_current
    <2> QED BY <2>1 DEF storeVars, StoreInv, RowOK, PreviousOK
<1>2. CASE IsCurrent(a, expected)
    <2> DEFINE row == Row(rows[a], encrypt(refreshed, expected.origin))
               previous == [cred |-> expected,
                            expires_at |-> PreviousValidUntil(expected, now),
                            since |-> clock]
    <2>1. /\ rows' = With(rows, a, row)
          /\ history' = With(history, a, previous)
          /\ next_id' = next_id + 1
          /\ submitted' = submitted
        BY <1>2 DEF replace_oauth_if_current
    <2>2. /\ row.cred.id = next_id /\ row.cred.expires_at \in Nat
          /\ row.cred.origin = expected.origin
        BY RowFacts, EncryptFacts
    <2>3. a \in DOMAIN rows /\ expected = rows[a].cred /\ RowOK(a)
        BY <1>2 DEF IsCurrent, StoreInv
    <2>4. /\ previous.cred = expected
          /\ previous.expires_at \in Nat /\ previous.since \in Nat
          /\ previous.expires_at <= previous.since + Overlap
          /\ previous.expires_at <= expected.expires_at
        BY <2>3, StoreAssumption DEF PreviousValidUntil, RowOK
    <2> HIDE DEF row, previous
    <2>5. /\ DOMAIN submitted' = DOMAIN submitted \cup {a}
          /\ submitted'[a] \in Nat /\ submitted'[a] <= next_id
          /\ row.cred.origin = submitted'[a]
        <3>1. a \in DOMAIN submitted /\ next_id \in Nat
            BY <2>3 DEF StoreInv
        <3>2. DOMAIN submitted = DOMAIN submitted \cup {a}
            BY <3>1
        <3>3. submitted[a] \in Nat /\ submitted[a] <= next_id
            BY <2>3, <3>1 DEF RowOK
        <3>4. row.cred.origin = submitted[a]
            BY <2>2, <2>3 DEF RowOK
        <3> QED BY <2>1, <3>2, <3>3, <3>4
    <2>6. /\ DOMAIN history' = DOMAIN history \cup {a}
          /\ \A b \in DOMAIN history : b # a => history'[b] = history[b]
          /\ history'[a] = previous /\ rows'[a] = row
        BY <2>1 DEF With
    <2>7. PreviousOK(a)'
        BY <2>2, <2>3, <2>4, <2>6 DEF PreviousOK, RowOK
    <2> QED BY <2>1, <2>2, <2>5, <2>6, <2>7, WrittenInv
<1> QED BY <1>1, <1>2

LEMMA JsonInv ==
    ASSUME StoreInv, NEW a, NEW read, NEW enabled,
           write_account_json(a, read, enabled)
    PROVE  StoreInv'
<1>1. /\ DOMAIN rows' = DOMAIN rows
      /\ \A b \in DOMAIN rows : rows'[b].cred = rows[b].cred
    BY DEF write_account_json, With
<1>2. UNCHANGED <<history, next_id, submitted>>
    BY DEF write_account_json
<1>3. ASSUME NEW b \in DOMAIN rows PROVE RowOK(b)'
    BY <1>1, <1>2, RowKept DEF StoreInv
<1>4. ASSUME NEW b \in DOMAIN history PROVE PreviousOK(b)'
    BY <1>1, <1>2, PreviousKept DEF StoreInv
<1> QED BY <1>1, <1>2, <1>3, <1>4 DEF StoreInv

LEMMA DeleteInv ==
    ASSUME StoreInv, NEW a, delete_account(a)
    PROVE  StoreInv'
<1>1. /\ DOMAIN rows' = DOMAIN rows \ {a}
      /\ DOMAIN history' = DOMAIN history \ {a}
      /\ DOMAIN submitted' = DOMAIN submitted \ {a}
      /\ \A b \in DOMAIN rows' : rows'[b] = rows[b]
      /\ \A b \in DOMAIN history' : history'[b] = history[b]
      /\ \A b \in DOMAIN submitted' : submitted'[b] = submitted[b]
      /\ next_id' = next_id
    BY DEF delete_account, Without, Restrict
<1>2. ASSUME NEW b \in DOMAIN rows' PROVE RowOK(b)'
    BY <1>1, RowKept DEF StoreInv
<1>3. ASSUME NEW b \in DOMAIN history' PROVE PreviousOK(b)'
    BY <1>1, PreviousKept DEF StoreInv
<1> QED BY <1>1, <1>2, <1>3 DEF StoreInv
-----------------------------------------------------------------------------
(***************************************************************************)
(* The rest of the inductive invariant: a refresh pass is not ahead of the *)
(* clock, and a call about to write holds a submitted credential.          *)
(***************************************************************************)
TimeInv ==
    clock \in Nat /\ refresher.now \in Nat /\ refresher.now <= clock

Writing == {"rotate", "upsert"}

CallOK(call) == call.pc \in Writing => call.secret.expires_at \in Nat

CallInv == DOMAIN calls = Call /\ \A c \in Call : CallOK(calls[c])

IInv == StoreInv /\ TimeInv /\ CallInv

LEMMA SubmittedFacts ==
    ASSUME NEW secret \in SecretInput PROVE secret.expires_at \in Nat
BY ControlAssumption DEF Secret

LEMMA InitInv == ControlInit => IInv
<1> SUFFICES ASSUME ControlInit PROVE IInv
    OBVIOUS
<1>1. PICK S \in SUBSET Account : \E found \in [S -> AccountInput],
                                    secrets \in [S -> SecretInput] :
            StoreOpen(found, secrets)
    BY DEF ControlInit
<1>2. PICK found \in [S -> AccountInput], secrets \in [S -> SecretInput] :
            StoreOpen(found, secrets)
    BY <1>1
<1>3. /\ DOMAIN rows = S /\ DOMAIN submitted = S /\ DOMAIN history = {}
      /\ next_id = FirstId
      /\ \A a \in S : submitted[a] = a
    BY <1>2 DEF StoreOpen, Empty
<1>4. ASSUME NEW a \in S PROVE RowOK(a)
    <2> DEFINE cred == [id |-> a, form |-> secrets[a].form,
                        expires_at |-> secrets[a].expires_at, origin |-> a]
    <2>1. rows[a] = Row(found[a], cred)
        BY <1>2 DEF StoreOpen
    <2>2. rows[a].cred = cred
        BY <2>1, RowFacts
    <2>3. cred.id = a /\ cred.origin = a /\ cred.expires_at \in Nat
        BY SubmittedFacts
    <2> HIDE DEF cred
    <2>4. a \in Nat /\ a < FirstId
        BY StoreAssumption
    <2> QED BY <1>3, <2>2, <2>3, <2>4 DEF RowOK
<1>5. StoreInv
    BY <1>3, <1>4, StoreAssumption DEF StoreInv
<1>6. TimeInv
    BY DEF ControlInit, IdleRefresher, TimeInv
<1>7. CallInv
    BY DEF ControlInit, CallInv, CallOK, Idle, CallAt, Writing
<1> QED BY <1>5, <1>6, <1>7 DEF IInv

LEMMA CallFacts ==
    ASSUME NEW pc, NEW op, NEW id, NEW account, NEW secret, NEW snapshot
    PROVE  LET call == CallAt(pc, op, id, account, secret, snapshot)
           IN  /\ call.pc = pc /\ call.op = op /\ call.id = id
               /\ call.account = account /\ call.secret = secret
               /\ call.snapshot = snapshot
BY DEF CallAt

\* A call's step keeps the locals in order if what it holds next is.
LEMMA StepInv ==
    ASSUME CallInv, NEW c \in Call, NEW call, CallOK(call), Step(c, call)
    PROVE  CallInv'
BY DEF CallInv, Step

LEMMA BegunOK ==
    ASSUME NEW pc, NEW op, NEW id, NEW account, NEW secret \in SecretInput
    PROVE  CallOK(Called(pc, op, id, account, secret))
BY CallFacts, SubmittedFacts DEF Called, CallOK

LEMMA NotWritingOK ==
    ASSUME NEW pc, NEW op, NEW id, NEW account, NEW secret, NEW snapshot,
           pc \notin Writing
    PROVE  CallOK(CallAt(pc, op, id, account, secret, snapshot))
BY CallFacts DEF CallOK

LEMMA HoldingInv ==
    ASSUME CallInv, NEW c \in Call, NEW pc, NEW snapshot, pc \notin Writing,
           Holding(c, pc, snapshot)
    PROVE  CallInv'
BY StepInv, NotWritingOK DEF Holding

LEMMA FinishInv ==
    ASSUME CallInv, NEW c \in Call, NEW result, result \notin Writing,
           Finish(c, result)
    PROVE  CallInv'
BY StepInv, NotWritingOK DEF Finish, Over, Called
-----------------------------------------------------------------------------
(***************************************************************************)
(* One lemma for the steps of each kind.                                   *)
(***************************************************************************)
LEMMA StoreUnchanged ==
    ASSUME StoreInv, UNCHANGED storeVars PROVE StoreInv'
BY DEF StoreInv, RowOK, PreviousOK, storeVars

LEMMA TimeUnchanged ==
    ASSUME TimeInv, UNCHANGED <<refresher, clock>> PROVE TimeInv'
BY DEF TimeInv

LEMMA WriteInv ==
    ASSUME IInv, NEW c \in Call, calls[c].pc \in Writing, WriteCredential(c)
    PROVE  StoreInv'
<1> DEFINE call == calls[c]
<1>1. call.secret.expires_at \in Nat /\ clock \in Nat /\ StoreInv
    BY DEF IInv, CallInv, CallOK, TimeInv
<1>2. CASE call.pc = "rotate"
    <2>1. rotate_account_credential(call.id, call.account, call.secret,
                                    clock + Overlap, clock)
        BY <1>2 DEF WriteCredential
    <2> QED BY <1>1, <2>1, RotateInv
<1>3. CASE call.pc # "rotate"
    <2>1. upsert_account(call.id, call.account, call.secret)
        BY <1>3 DEF WriteCredential
    <2> QED BY <1>1, <2>1, UpsertInv
<1> QED BY <1>2, <1>3

LEMMA BeginInv ==
    ASSUME IInv, NEW c \in Call, CallBegin(c)
    PROVE  IInv'
<1> USE DEF IInv
<1>1. PICK a \in Account :
        \/ \E account \in AccountInput, secret \in SecretInput :
                CreateLoad(c, a, account, secret)
        \/ \E secret \in SecretInput : RotateLoad(c, a, secret)
        \/ \E enabled \in BOOLEAN : EnableRead(c, a, enabled)
        \/ DeleteWrite(c, a)
    BY DEF CallBegin
<1>2. ASSUME NEW account \in AccountInput, NEW secret \in SecretInput,
             CreateLoad(c, a, account, secret)
      PROVE  IInv'
    <2>1. UNCHANGED storeVars /\ UNCHANGED <<refresher, clock>>
        BY <1>2 DEF CreateLoad
    <2>2. PICK pc : Step(c, Called(pc, "create", a, account, secret))
        BY <1>2 DEF CreateLoad
    <2>3. CallInv'
        BY <2>2, BegunOK, StepInv
    <2> QED BY <2>1, <2>3, StoreUnchanged, TimeUnchanged
<1>3. ASSUME NEW secret \in SecretInput, RotateLoad(c, a, secret)
      PROVE  IInv'
    <2>1. UNCHANGED storeVars /\ UNCHANGED <<refresher, clock>>
        BY <1>3 DEF RotateLoad
    <2>2. CASE load_account_ok(a)
        BY <1>3, <2>1, <2>2, BegunOK, StepInv, StoreUnchanged, TimeUnchanged
        DEF RotateLoad
    <2>3. CASE ~ load_account_ok(a)
        <3>1. Step(c, CallAt("error", "rotate", a, NoLocal, NoLocal, Empty))
            BY <1>3, <2>3 DEF RotateLoad, Over, Called
        <3>2. CallInv'
            BY <3>1, NotWritingOK, StepInv DEF Writing
        <3> QED BY <2>1, <3>2, StoreUnchanged, TimeUnchanged
    <2> QED BY <2>2, <2>3
<1>4. ASSUME NEW enabled \in BOOLEAN, EnableRead(c, a, enabled)
      PROVE  IInv'
    <2>1. UNCHANGED storeVars /\ UNCHANGED <<refresher, clock>>
        BY <1>4 DEF EnableRead
    <2>2. PICK pc, account :
            /\ pc \in {"write", "error"}
            /\ Step(c, CallAt(pc, "enable", a, account, NoLocal, Empty))
        BY <1>4 DEF EnableRead, Over, Called
    <2>3. CallInv'
        BY <2>2, NotWritingOK, StepInv DEF Writing
    <2> QED BY <2>1, <2>3, StoreUnchanged, TimeUnchanged
<1>5. ASSUME DeleteWrite(c, a) PROVE IInv'
    <2>1. StoreInv' /\ UNCHANGED <<refresher, clock>>
        BY <1>5, DeleteInv, StoreUnchanged DEF DeleteWrite
    <2>2. PICK pc \in {"snapshot", "error"} :
            Step(c, CallAt(pc, "delete", a, NoLocal, NoLocal, Empty))
        BY <1>5 DEF DeleteWrite, Over, Called
    <2>3. CallInv'
        BY <2>2, NotWritingOK, StepInv DEF Writing
    <2> QED BY <2>1, <2>3, TimeUnchanged
<1> QED BY <1>1, <1>2, <1>3, <1>4, <1>5

LEMMA CallStepInv ==
    ASSUME IInv, NEW c \in Call, CallStep(c)
    PROVE  IInv'
<1> USE DEF IInv, Writing
<1>1. CASE CreateWrite(c)
    <2>1. StoreInv' /\ UNCHANGED <<refresher, clock>>
        BY <1>1, WriteInv DEF CreateWrite
    <2>2. CallInv'
        BY <1>1, HoldingInv DEF CreateWrite, Goto
    <2> QED BY <2>1, <2>2, TimeUnchanged
<1>2. CASE ReadRoutes(c)
    <2>1. CallInv'
        BY <1>2, HoldingInv DEF ReadRoutes
    <2> QED BY <1>2, <2>1, StoreUnchanged, TimeUnchanged DEF ReadRoutes
<1>3. CASE ReplaceRoutes(c)
    <2>1. CallInv'
        BY <1>3, HoldingInv, FinishInv DEF ReplaceRoutes, Goto
    <2> QED BY <1>3, <2>1, StoreUnchanged, TimeUnchanged DEF ReplaceRoutes
<1>4. CASE ResetHealth(c)
    <2>1. CallInv'
        BY <1>4, FinishInv DEF ResetHealth
    <2> QED BY <1>4, <2>1, StoreUnchanged, TimeUnchanged DEF ResetHealth
<1>5. CASE RotateWrite(c)
    <2>1. StoreInv' /\ UNCHANGED <<refresher, clock>>
        BY <1>5, WriteInv DEF RotateWrite
    <2>2. CallInv'
        BY <1>5, HoldingInv DEF RotateWrite, Goto
    <2> QED BY <2>1, <2>2, TimeUnchanged
<1>6. CASE EnableWrite(c)
    <2>1. StoreInv' /\ UNCHANGED <<refresher, clock>>
        BY <1>6, JsonInv DEF EnableWrite
    <2>2. CallInv'
        BY <1>6, HoldingInv DEF EnableWrite, Goto
    <2> QED BY <2>1, <2>2, TimeUnchanged
<1> QED BY <1>1, <1>2, <1>3, <1>4, <1>5, <1>6 DEF CallStep

LEMMA LostCallInv ==
    ASSUME IInv, NEW c \in Call, StoreFault(c) \/ Drop(c)
    PROVE  IInv'
<1>1. CallInv'
    BY FinishInv DEF StoreFault, Drop, IInv, Writing
<1> QED BY <1>1, StoreUnchanged, TimeUnchanged DEF StoreFault, Drop, IInv

LEMMA RestInv ==
    ASSUME TimeInv, refresher' = RefreshRest, UNCHANGED clock
    PROVE  TimeInv'
BY DEF RefreshRest, IdleRefresher, TimeInv

LEMMA RefreshInv ==
    ASSUME IInv, RefreshNext
    PROVE  IInv'
<1>1. CASE RefreshBegin
    <2>1. TimeInv'
        BY <1>1 DEF RefreshBegin, IInv, TimeInv
    <2> QED BY <1>1, <2>1, StoreUnchanged DEF RefreshBegin, IInv, CallInv
<1>2. ASSUME NEW life \in TokenLife, RefreshReplace(clock + life)
      PROVE  IInv'
    <2> DEFINE cred == refresher.queue[RefreshHead]
               refreshed == [form |-> "envelope", expires_at |-> clock + life]
    <2>1. /\ clock \in Nat /\ refresher.now \in Nat /\ refresher.now <= clock
          /\ clock + life \in Nat
        BY ControlAssumption DEF IInv, TimeInv
    <2>2. refreshed.expires_at \in Nat
        BY <2>1
    <2>3. replace_oauth_if_current(RefreshHead, cred, refreshed,
                PreviousValidUntil(cred, refresher.now), clock)
        BY <1>2 DEF RefreshReplace
    <2> HIDE DEF cred, refreshed
    <2>4. StoreInv'
        BY <2>1, <2>2, <2>3, ReplaceInv DEF IInv
    <2> QED BY <1>2, <2>4, RestInv DEF RefreshReplace, IInv, CallInv
<1>3. CASE RefreshFail
    BY <1>3, RestInv, StoreUnchanged DEF RefreshFail, IInv, CallInv
<1> QED BY <1>1, <1>2, <1>3 DEF RefreshNext

LEMMA TickInv == ASSUME IInv, Tick PROVE IInv'
<1>1. TimeInv'
    BY DEF Tick, IInv, TimeInv
<1> QED BY <1>1, StoreUnchanged DEF Tick, IInv, CallInv

LEMMA NextInv == IInv /\ [ControlNext]_controlVars => IInv'
<1> SUFFICES ASSUME IInv, [ControlNext]_controlVars PROVE IInv'
    OBVIOUS
<1>1. CASE UNCHANGED controlVars
    BY <1>1, StoreUnchanged, TimeUnchanged
    DEF controlVars, storeVars, IInv, CallInv
<1> QED BY <1>1, BeginInv, CallStepInv, LostCallInv, RefreshInv, TickInv
        DEF ControlNext

LEMMA InvAlways == ControlSpec => []IInv
BY InitInv, NextInv, PTL DEF ControlSpec
-----------------------------------------------------------------------------
(***************************************************************************)
(* The theorems.                                                           *)
(***************************************************************************)
\* However administrator calls, dropped connections, failing store accesses
\* and refreshes interleave, the current credential of an account is the one
\* written last by an administrator or descends from it: a late refresh never
\* undoes a write (storage.rs:351-365).
THEOREM LineageAlways == ControlSpec => []CredentialLineage
<1>1. IInv => CredentialLineage
    BY DEF IInv, StoreInv, RowOK, CredentialLineage
<1> QED BY <1>1, InvAlways, PTL

\* Every row of the credential history belongs to an account and is older
\* than its current credential (storage.rs:183-186, 209-222, 366-377).
THEOREM HistoryAlwaysOlder == ControlSpec => []HistoryIsOlder
<1>1. IInv => HistoryIsOlder
    BY DEF IInv, StoreInv, PreviousOK, HistoryIsOlder
<1> QED BY <1>1, InvAlways, PTL

\* A replaced token outlives its replacement by Overlap at most, for every
\* Overlap and however late the token endpoint answers; one an administrator
\* rotated does so too, where docs/authentication.md:10-11 grants it no
\* overlap (storage.rs:261-265, http_app.rs:284-288, 349-353).
THEOREM OverlapAlwaysBounded == ControlSpec => []OverlapBounded
<1>1. IInv => OverlapBounded
    BY DEF IInv, StoreInv, PreviousOK, OverlapBounded
<1> QED BY <1>1, InvAlways, PTL

\* A token that a refresh replaced is never listed past its own expiry
\* (storage.rs:261-265).
THEOREM RefreshedAlwaysExpires == ControlSpec => []RefreshedTokenExpires
<1>1. IInv => RefreshedTokenExpires
    BY DEF IInv, StoreInv, PreviousOK, RefreshedTokenExpires
<1> QED BY <1>1, InvAlways, PTL
-----------------------------------------------------------------------------
(***************************************************************************)
(* What the refresh loop and time do to the set of accepted tokens.        *)
(***************************************************************************)
Admits(a, token, now) ==
    /\ rows[a].enabled
    /\ \/ /\ token = rows[a].cred.id
          /\ NotExpired(rows[a].kind, rows[a].cred, now)
       \/ PreviousListed(a, now) /\ token = history[a].cred.id

LEMMA AdmitsMember ==
    ASSUME NEW now, NEW token, NEW a \in DOMAIN rows, Admits(a, token, now)
    PROVE  token \in Members(now)
<1>1. token \in MemberTokens(a, now)
    BY Zenon DEF Admits, MemberTokens
<1> QED BY <1>1 DEF Members

LEMMA MemberAdmitted ==
    ASSUME NEW token \in Members(clock)'
    PROVE  \E a \in DOMAIN rows' : Admits(a, token, clock)'
<1>1. PICK a \in DOMAIN rows' : token \in MemberTokens(a, clock)'
    BY DEF Members
<1> QED BY <1>1, Zenon DEF MemberTokens, Admits

\* A row that a step leaves alone admits no more as time passes.
LEMMA AdmittedEarlier ==
    ASSUME IInv, clock' \in Nat, clock <= clock', NEW token,
           NEW a \in DOMAIN rows, rows'[a] = rows[a],
           a \in DOMAIN history' => a \in DOMAIN history
                                    /\ history'[a] = history[a],
           Admits(a, token, clock)'
    PROVE  Admits(a, token, clock)
<1>1. clock \in Nat /\ rows[a].cred.expires_at \in Nat
    BY DEF IInv, TimeInv, StoreInv, RowOK
<1>2. a \in DOMAIN history => history[a].expires_at \in Nat
    BY DEF IInv, StoreInv, PreviousOK
<1>3. PreviousListed(a, clock)' => PreviousListed(a, clock)
    BY <1>1, <1>2 DEF PreviousListed
<1>4. NotExpired(rows[a].kind, rows[a].cred, clock)'
        => NotExpired(rows[a].kind, rows[a].cred, clock)
    BY <1>1 DEF NotExpired
<1> QED BY <1>3, <1>4 DEF Admits, PreviousListed

LEMMA RefreshAdmits ==
    ASSUME IInv, NEW expires_at, RefreshReplace(expires_at),
           NEW token, token # next_id,
           NEW a \in DOMAIN rows', Admits(a, token, clock)'
    PROVE  a \in DOMAIN rows /\ Admits(a, token, clock)
<1> DEFINE h == RefreshHead
           cred == refresher.queue[h]
           until == PreviousValidUntil(cred, refresher.now)
           refreshed == [form |-> "envelope", expires_at |-> expires_at]
           row == Row(rows[h], encrypt(refreshed, cred.origin))
           previous == [cred |-> cred, expires_at |-> until, since |-> clock]
<1>1. replace_oauth_if_current(h, cred, refreshed, until, clock)
      /\ clock' = clock /\ clock \in Nat /\ refresher.now \in Nat
    BY DEF RefreshReplace, IInv, TimeInv
<1>2. row.cred.id = next_id /\ row.enabled = rows[h].enabled
    BY EncryptFacts DEF Row
<1>3. previous.cred = cred /\ previous.expires_at = until
    OBVIOUS
<1> HIDE DEF h, refreshed
<1>4. CASE ~ IsCurrent(h, cred)
    BY <1>1, <1>4, AdmittedEarlier DEF replace_oauth_if_current, storeVars
<1>5. CASE IsCurrent(h, cred)
    <2>1. /\ rows' = With(rows, h, row) /\ history' = With(history, h, previous)
          /\ h \in DOMAIN rows /\ rows[h].cred = cred
        BY <1>1, <1>5 DEF replace_oauth_if_current, IsCurrent
    <2> HIDE DEF row, previous, cred
    <2>2. DOMAIN rows' = DOMAIN rows
        BY <2>1 DEF With
    <2>3. CASE a # h
        <3>1. rows'[a] = rows[a]
              /\ (a \in DOMAIN history' =>
                    a \in DOMAIN history /\ history'[a] = history[a])
            BY <2>1, <2>2, <2>3 DEF With
        <3> QED BY <1>1, <2>2, <3>1, AdmittedEarlier
    <2>4. CASE a = h
        <3>1. rows'[h] = row /\ history'[h] = previous
            BY <2>1 DEF With
        <3>2. /\ rows[h].enabled /\ until > clock
              /\ token = rows[h].cred.id
            BY <1>1, <1>2, <1>3, <2>1, <2>4, <3>1 DEF Admits, PreviousListed
        <3>3. rows[h].cred.expires_at \in Nat
            BY <2>1 DEF IInv, StoreInv, RowOK
        <3>4. rows[h].cred.expires_at > clock
            BY <1>1, <2>1, <3>2, <3>3, StoreAssumption DEF PreviousValidUntil
        <3> QED BY <2>1, <2>4, <3>2, <3>4 DEF Admits, NotExpired
    <2> QED BY <2>3, <2>4
<1> QED BY <1>4, <1>5

\* A step of an administrator's call moves that call on.
LEMMA CallMoves ==
    ASSUME IInv, NEW c \in Call,
           CallBegin(c) \/ CallStep(c) \/ StoreFault(c) \/ Drop(c)
    PROVE  calls' # calls
<1>1. DOMAIN calls = Call
    BY DEF IInv, CallInv
<1>2. ASSUME NEW call, Step(c, call), call.pc # calls[c].pc PROVE calls' # calls
    BY <1>1, <1>2 DEF Step
<1>3. ASSUME NEW pc, NEW snapshot, Holding(c, pc, snapshot), pc # calls[c].pc
      PROVE  calls' # calls
    BY <1>2, <1>3 DEF Holding, CallAt
<1>4. ASSUME NEW result, Finish(c, result), result # calls[c].pc
      PROVE  calls' # calls
    BY <1>2, <1>4, Zenon DEF Finish, Over, Called, CallAt
<1>5. CASE CallBegin(c)
    <2>1. PICK call : Step(c, call) /\ call.pc # "idle" /\ calls[c].pc = "idle"
        BY <1>5, ZenonT(30)
        DEF CallBegin, CreateLoad, RotateLoad, EnableRead, DeleteWrite,
                    Over, Called, CallAt
    <2> QED BY <1>2, <2>1
<1>6. CASE CallStep(c)
    BY <1>3, <1>4, <1>6, Zenon
    DEF CallStep, CreateWrite, ReadRoutes, ReplaceRoutes, ResetHealth,
        RotateWrite, EnableWrite, Goto
<1>7. CASE StoreFault(c) \/ Drop(c)
    BY <1>4, <1>7 DEF StoreFault, Drop
<1> QED BY <1>5, <1>6, <1>7

\* For every number of accounts and calls, every overlap and every lifetime
\* the token endpoint grants: without a step of an administrator's call no
\* token is accepted that was refused before, but the one a refresh has just
\* stored (storage.rs:261-265, 337-380).
THEOREM RefreshNeverRevives == ControlSpec => RefreshRevivesNone
<1> DEFINE None == calls' = calls =>
                        Members(clock)' \subseteq Members(clock) \cup {next_id}
<1>1. IInv /\ [ControlNext]_controlVars => [None]_controlVars
    <2> SUFFICES ASSUME IInv, ControlNext, calls' = calls,
                        NEW token \in Members(clock)', token # next_id
                 PROVE  token \in Members(clock)
        OBVIOUS
    <2>1. PICK a \in DOMAIN rows' : Admits(a, token, clock)'
        BY MemberAdmitted
    <2>2. ASSUME UNCHANGED storeVars, clock' \in Nat, clock <= clock'
          PROVE  a \in DOMAIN rows /\ Admits(a, token, clock)
        BY <2>1, <2>2, AdmittedEarlier DEF storeVars
    <2>3. clock \in Nat
        BY DEF IInv, TimeInv
    <2>4. CASE RefreshBegin \/ RefreshFail \/ Tick
        <3>1. UNCHANGED storeVars
            BY <2>4 DEF RefreshBegin, RefreshFail, Tick
        <3>2. clock' \in Nat /\ clock <= clock'
            BY <2>3, <2>4 DEF RefreshBegin, RefreshFail, Tick
        <3> QED BY <2>2, <3>1, <3>2, AdmitsMember
    <2>5. CASE \E life \in TokenLife : RefreshReplace(clock + life)
        BY <2>1, <2>5, RefreshAdmits, AdmitsMember
    <2> QED BY <2>4, <2>5, CallMoves DEF ControlNext, RefreshNext
<1> QED BY <1>1, InvAlways, PTL DEF ControlSpec, RefreshRevivesNone
-----------------------------------------------------------------------------
(***************************************************************************)
(* Requests beside administrator calls, as far as the credential that      *)
(* admits one needs them: a step changes one request, and what a request   *)
(* took for the time is a time.                                            *)
(***************************************************************************)
Shaped(q) == DOMAIN q = DOMAIN NotArrived /\ q.now \in Nat

RequestShape ==
    DOMAIN requests = Request /\ \A r \in Request : Shaped(requests[r])

OnlyRequest(r) ==
    \A x \in Request : x # r => requests'[x] = requests[x]

LEMMA PutShape ==
    ASSUME RequestShape, NEW r \in Request, NEW q, Shaped(q),
           requests' = [requests EXCEPT ![r] = q]
    PROVE  RequestShape' /\ OnlyRequest(r) /\ requests'[r] = q
BY DEF RequestShape, OnlyRequest

LEMMA AnswerShape ==
    ASSUME RequestShape, NEW r \in Request, NEW answer, Answer(r, answer)
    PROVE  /\ RequestShape' /\ OnlyRequest(r)
           /\ requests'[r].pc = "done" /\ requests'[r].answer = answer
           /\ requests'[r].account = requests[r].account
           /\ requests'[r].sent = requests[r].sent
<1>1. PICK q : /\ q = [NotArrived EXCEPT !.pc = "done",
                                         !.account = requests[r].account,
                                         !.sent = requests[r].sent,
                                         !.answer = answer]
               /\ requests' = [requests EXCEPT ![r] = q]
    BY Zenon DEF Answer
<1>2. /\ Shaped(q) /\ q.pc = "done" /\ q.answer = answer
      /\ q.account = requests[r].account /\ q.sent = requests[r].sent
    BY <1>1 DEF Shaped, NotArrived
<1> QED BY <1>1, <1>2, PutShape, Zenon

LEMMA ProceedShape ==
    ASSUME RequestShape, NEW r \in Request, NEW pc, Proceed(r, pc)
    PROVE  /\ RequestShape' /\ OnlyRequest(r) /\ requests'[r].pc = pc
           /\ requests'[r].account = requests[r].account
           /\ requests'[r].sent = requests[r].sent
<1>1. PICK q : /\ q = [requests[r] EXCEPT !.pc = pc]
               /\ requests' = [requests EXCEPT ![r] = q]
    BY Zenon DEF Proceed
<1>2. /\ Shaped(q) /\ q.pc = pc
      /\ q.account = requests[r].account /\ q.sent = requests[r].sent
    BY <1>1 DEF Shaped, NotArrived, RequestShape
<1> QED BY <1>1, <1>2, PutShape, Zenon

LEMMA ChosenShape ==
    ASSUME RequestShape, NEW r \in Request, NEW a,
           requests' = [requests EXCEPT ![r].pc = "load", ![r].account = a]
    PROVE  /\ RequestShape' /\ OnlyRequest(r)
           /\ requests'[r].pc = "load" /\ requests'[r].account = a
           /\ requests'[r].sent = requests[r].sent
<1>1. PICK q : /\ q = [requests[r] EXCEPT !.pc = "load", !.account = a]
               /\ requests' = [requests EXCEPT ![r] = q]
    BY Zenon
<1>2. /\ Shaped(q) /\ q.pc = "load" /\ q.account = a
      /\ q.sent = requests[r].sent
    BY <1>1 DEF Shaped, NotArrived, RequestShape
<1>3. RequestShape' /\ OnlyRequest(r) /\ requests'[r] = q
    BY <1>1, <1>2, PutShape, Zenon
<1> QED BY <1>2, <1>3

LEMMA SentShape ==
    ASSUME RequestShape, NEW r \in Request,
           requests' = [requests EXCEPT ![r].pc = "sent", ![r].sent = TRUE]
    PROVE  /\ RequestShape' /\ OnlyRequest(r) /\ requests'[r].pc = "sent"
           /\ requests'[r].account = requests[r].account
<1>1. PICK q : /\ q = [requests[r] EXCEPT !.pc = "sent", !.sent = TRUE]
               /\ requests' = [requests EXCEPT ![r] = q]
    BY Zenon
<1>2. Shaped(q) /\ q.pc = "sent" /\ q.account = requests[r].account
    BY <1>1 DEF Shaped, NotArrived, RequestShape
<1> QED BY <1>1, <1>2, PutShape, Zenon

LEMMA ArriveShape ==
    ASSUME RequestShape, clock \in Nat, NEW r \in Request, NEW token, NEW s,
           NEW m, Arrive(r, token, s, m)
    PROVE  /\ RequestShape' /\ OnlyRequest(r)
           /\ requests'[r].pc \in {"authenticate", "done"}
           /\ requests'[r].sent \in {FALSE, requests[r].sent}
<1>1. CASE \E answer : Answer(r, answer)
    BY <1>1, AnswerShape, Zenon
<1>2. CASE ~ \E answer : Answer(r, answer)
    <2>1. PICK q : /\ q = [NotArrived EXCEPT !.pc = "authenticate",
                                             !.token = token, !.session = s,
                                             !.model = m, !.now = clock]
                   /\ requests' = [requests EXCEPT ![r] = q]
        BY <1>2 DEF Arrive
    <2>2. Shaped(q) /\ q.pc = "authenticate" /\ q.sent = FALSE
        BY <2>1 DEF Shaped, NotArrived
    <2> QED BY <2>1, <2>2, PutShape, Zenon
<1> QED BY <1>1, <1>2, Zenon

LEMMA RequestStepShape ==
    ASSUME RequestShape, NEW r \in Request, RequestStep(r)
    PROVE  RequestShape' /\ OnlyRequest(r)
<1>1. CASE \E answer : Answer(r, answer)
    BY <1>1, AnswerShape
<1>2. CASE \E pc : Proceed(r, pc)
    BY <1>2, ProceedShape
<1>3. CASE Route(r) \/ Start(r)
    BY <1>1, <1>3, ChosenShape, SentShape DEF Route, Start
<1>4. \/ \E answer : Answer(r, answer)
      \/ \E pc : Proceed(r, pc)
      \/ Route(r) \/ Start(r)
    BY Zenon DEF RequestStep, SnapshotFails, Authenticate, Load, Settle,
                 TransportFails
<1> QED BY <1>1, <1>2, <1>3, <1>4

LEMMA ShapeKept ==
    ASSUME RequestShape, clock \in Nat, [DataNext]_allVars PROVE RequestShape'
<1>1. ASSUME UNCHANGED requests PROVE RequestShape'
    BY <1>1 DEF RequestShape
<1>2. ASSUME NEW r \in Request, Disconnect(r) PROVE RequestShape'
    BY <1>2, ProceedShape DEF Disconnect
<1> QED BY <1>1, <1>2, ArriveShape, RequestStepShape, Zenon
        DEF DataNext, sticky_session_count, allVars, dataVars
-----------------------------------------------------------------------------
(***************************************************************************)
(* Credentials in the running system, and what a credential must be to     *)
(* admit a request.                                                        *)
(***************************************************************************)
LEMMA DataCredentialsAlways == DataSpec => [](IInv /\ RequestShape)
<1>1. DataInit => IInv /\ RequestShape
    BY InitInv DEF DataInit, RequestShape, Shaped, NotArrived
<1>2. ASSUME ControlUnchanged, IInv PROVE IInv'
    BY <1>2, StoreUnchanged, TimeUnchanged
    DEF ControlUnchanged, storeVars, IInv, CallInv
<1>3. ASSUME [DataNext]_allVars
      PROVE  [ControlNext]_controlVars \/ ControlUnchanged
    BY <1>3 DEF DataNext, allVars
<1>4. IInv /\ [DataNext]_allVars => IInv'
    BY <1>2, <1>3, NextInv
<1>5. IInv /\ RequestShape /\ [DataNext]_allVars => RequestShape'
    BY ShapeKept DEF IInv, TimeInv
<1> QED BY <1>1, <1>4, <1>5, PTL DEF DataSpec

\* In the running system too, a late refresh never undoes an administrator's
\* write, and a replaced token stays for Overlap at most, a refreshed one no
\* longer than its own expiry (storage.rs:183-222, 261-265, 351-377).
THEOREM CredentialsKeptInUse ==
    DataSpec => [](CredentialLineage /\ HistoryIsOlder /\ OverlapBounded
                   /\ RefreshedTokenExpires)
<1>1. IInv => /\ CredentialLineage /\ HistoryIsOlder
              /\ OverlapBounded /\ RefreshedTokenExpires
    BY DEF IInv, StoreInv, RowOK, PreviousOK, CredentialLineage,
           HistoryIsOlder, OverlapBounded, RefreshedTokenExpires
<1> QED BY <1>1, DataCredentialsAlways, PTL

\* The token is the current credential of an enabled account, or the one an
\* enabled account had until less than Overlap before the instant.
Accounted(token, now) ==
    \E a \in DOMAIN rows :
        /\ rows[a].enabled
        /\ \/ token = rows[a].cred.id
           \/ /\ a \in DOMAIN history
              /\ token = history[a].cred.id
              /\ now < history[a].since + Overlap

LEMMA MembersAccounted ==
    ASSUME IInv, NEW now \in Nat, NEW token \in Members(now)
    PROVE  Accounted(token, now)
<1>1. PICK a \in DOMAIN rows : token \in MemberTokens(a, now)
    BY DEF Members
<1>2. rows[a].enabled
    BY <1>1 DEF MemberTokens
<1>3. \/ token = rows[a].cred.id
      \/ PreviousListed(a, now) /\ token = history[a].cred.id
    <2>1. CASE token = rows[a].cred.id
        BY <2>1
    <2>2. CASE token \in {history[b].cred.id : b \in {x \in {a} :
                            rows[a].enabled /\ PreviousListed(x, now)}}
        BY <2>2
    <2> QED BY <1>1, <2>1, <2>2, Zenon DEF MemberTokens
<1>4. ASSUME PreviousListed(a, now)
      PROVE  a \in DOMAIN history /\ now < history[a].since + Overlap
    <2>1. a \in DOMAIN history /\ PreviousOK(a)
        BY <1>4 DEF PreviousListed, IInv, StoreInv
    <2> QED BY <1>4, <2>1, StoreAssumption DEF PreviousListed, PreviousOK
<1> QED BY <1>2, <1>3, <1>4 DEF Accounted

\* Only Authenticate takes a request to "route".
LEMMA RoutedByAuthenticate ==
    ASSUME RequestShape, clock \in Nat, [DataNext]_allVars, NEW r \in Request,
           requests[r].pc = "authenticate", requests'[r].pc = "route"
    PROVE  Authenticate(r)
<1>1. ASSUME NEW x \in Request, OnlyRequest(x) PROVE x = r
    BY <1>1 DEF OnlyRequest
<1>2. ASSUME NEW x \in Request, NEW token, NEW s, NEW m, Arrive(x, token, s, m)
      PROVE  FALSE
    <2>1. x = r
        BY <1>1, <1>2, ArriveShape, Zenon
    <2> QED BY <1>2, <2>1 DEF Arrive
<1>3. ASSUME NEW x \in Request, Disconnect(x) PROVE FALSE
    <2>1. x = r
        BY <1>1, <1>3, ProceedShape DEF Disconnect
    <2> QED BY <1>3, <2>1 DEF Disconnect
<1>4. ASSUME NEW x \in Request, RequestStep(x) PROVE Authenticate(r)
    <2>1. x = r
        BY <1>1, <1>4, RequestStepShape
    <2>2. ~ SnapshotFails(r)
        BY AnswerShape DEF SnapshotFails
    <2> QED BY <1>4, <2>1, <2>2, Zenon
            DEF RequestStep, Route, Load, Start, Settle, TransportFails
<1> QED BY <1>2, <1>3, <1>4
        DEF DataNext, sticky_session_count, allVars, dataVars

\* When authentication is enforced, a request goes on to the router only with
\* the current token of an account that is enabled at that step, or with one
\* that was replaced less than Overlap before the request arrived; deleting or
\* pausing an account, or the end of the overlap, shuts its tokens out
\* (data_plane.rs:230-291, auth.rs:103-149, storage.rs:261-265).
THEOREM AdmittedByAccount ==
    ASSUME AuthMode = "enforce"
    PROVE  DataSpec =>
               [][\A r \in Request :
                    requests[r].pc = "authenticate" /\ requests'[r].pc = "route"
                    => Accounted(requests[r].token, requests[r].now)]_allVars
<1>1. IInv /\ RequestShape /\ [DataNext]_allVars =>
        [\A r \in Request :
            requests[r].pc = "authenticate" /\ requests'[r].pc = "route"
            => Accounted(requests[r].token, requests[r].now)]_allVars
    <2> SUFFICES ASSUME IInv, RequestShape, [DataNext]_allVars,
                        NEW r \in Request, requests[r].pc = "authenticate",
                        requests'[r].pc = "route"
                 PROVE  Accounted(requests[r].token, requests[r].now)
        OBVIOUS
    <2>1. Authenticate(r)
        BY RoutedByAuthenticate DEF IInv, TimeInv
    <2>2. requests[r].token \in Members(requests[r].now)
        BY <2>1, AnswerShape, Zenon DEF Authenticate, authorize
    <2>3. requests[r].now \in Nat
        BY DEF RequestShape, Shaped
    <2> QED BY <2>2, <2>3, MembersAccounted
<1> QED BY <1>1, DataCredentialsAlways, PTL DEF DataSpec
-----------------------------------------------------------------------------
(***************************************************************************)
(* Audit rows of requests.  The invariant adds that a request is not       *)
(* marked as sent before it is.                                            *)
(***************************************************************************)
Unsent == {"idle", "authenticate", "route", "load", "start"}

\* A request whose use of the upstream is over and was reported.
Reported(q) == q.sent /\ q.pc = "done" /\ q.answer # "no_capacity"

AuditInv ==
    \A r \in Request :
        /\ requests[r].pc \in Unsent => ~ requests[r].sent
        /\ Reported(requests[r]) => r \in DOMAIN proxy_audit

LEMMA AuditStep ==
    ASSUME AuditInv, NEW r \in Request, OnlyRequest(r),
           DOMAIN proxy_audit \subseteq DOMAIN proxy_audit',
           requests'[r].pc \in Unsent => ~ requests'[r].sent,
           Reported(requests'[r]) => r \in DOMAIN proxy_audit'
    PROVE  AuditInv'
BY DEF AuditInv, OnlyRequest

LEMMA AppendedRow ==
    ASSUME ~ StoreFaults, NEW r, NEW outcome, append_proxy_audit(r, outcome)
    PROVE  DOMAIN proxy_audit' = DOMAIN proxy_audit \cup {r}
BY DEF append_proxy_audit, With

\* A step of a request that was not sent, and is not sent by it.
LEMMA UnsentStep ==
    ASSUME AuditInv, RequestShape, NEW r \in Request, requests[r].pc \in Unsent,
           DOMAIN proxy_audit \subseteq DOMAIN proxy_audit',
           \/ \E answer : Answer(r, answer)
           \/ \E pc : Proceed(r, pc)
           \/ \E a : requests' = [requests EXCEPT ![r].pc = "load",
                                                  ![r].account = a]
    PROVE  AuditInv'
<1>1. ~ requests[r].sent
    BY DEF AuditInv
<1>2. OnlyRequest(r) /\ ~ requests'[r].sent
    BY <1>1, AnswerShape, ProceedShape, ChosenShape
<1> QED BY <1>2, AuditStep DEF Reported

LEMMA AuditRequestStep ==
    ASSUME ~ StoreFaults, RequestShape, AuditInv, NEW r \in Request,
           RequestStep(r)
    PROVE  AuditInv'
<1>1. CASE SnapshotFails(r)
    BY <1>1, UnsentStep, Zenon DEF SnapshotFails, Unsent
<1>2. CASE Authenticate(r)
    <2>1. DOMAIN proxy_audit \subseteq DOMAIN proxy_audit'
        BY <1>2, AppendedRow, Zenon DEF Authenticate
    <2>2. \/ \E answer : Answer(r, answer)
          \/ \E pc : Proceed(r, pc)
        BY <1>2, Zenon DEF Authenticate
    <2> QED BY <1>2, <2>1, <2>2, UnsentStep, Zenon DEF Authenticate, Unsent
<1>3. CASE Route(r)
    BY <1>3, UnsentStep DEF Route, Unsent
<1>4. CASE Load(r)
    BY <1>4, UnsentStep, Zenon DEF Load, Unsent
<1>5. CASE Start(r)
    <2>1. CASE Answer(r, "no_capacity")
        BY <1>5, <2>1, UnsentStep, Zenon DEF Start, Unsent
    <2>2. CASE ~ Answer(r, "no_capacity")
        <3>1. OnlyRequest(r) /\ requests'[r].pc = "sent"
            BY <1>5, <2>2, SentShape DEF Start
        <3> QED BY <1>5, <3>1, AuditStep DEF Start, Reported, Unsent
    <2> QED BY <2>1, <2>2
<1>6. ASSUME NEW outcome, append_proxy_audit(r, outcome),
             NEW answer, Answer(r, answer)
      PROVE  AuditInv'
    <2>1. OnlyRequest(r) /\ requests'[r].pc = "done"
        BY <1>6, AnswerShape
    <2> QED BY <1>6, <2>1, AppendedRow, AuditStep, Zenon DEF Unsent
<1>7. ASSUME Answer(r, "no_capacity"), UNCHANGED proxy_audit PROVE AuditInv'
    <2>1. /\ OnlyRequest(r) /\ requests'[r].pc = "done"
          /\ requests'[r].answer = "no_capacity"
        BY <1>7, AnswerShape
    <2> QED BY <1>7, <2>1, AuditStep DEF Reported, Unsent
<1>8. ASSUME NEW status, NEW header, Settle(r, status, header) PROVE AuditInv'
    BY <1>6, <1>7, <1>8, Zenon DEF Settle
<1>9. CASE TransportFails(r)
    BY <1>6, <1>9, Zenon DEF TransportFails
<1> QED BY <1>1, <1>2, <1>3, <1>4, <1>5, <1>8, <1>9 DEF RequestStep

LEMMA AuditNext ==
    ASSUME ~ StoreFaults, RequestShape, clock \in Nat, AuditInv,
           [DataNext]_allVars
    PROVE  AuditInv'
<1>1. ASSUME UNCHANGED dataVars PROVE AuditInv'
    BY <1>1 DEF dataVars, AuditInv
<1>2. ASSUME NEW r \in Request, NEW token, NEW s, NEW m, Arrive(r, token, s, m)
      PROVE  AuditInv'
    <2>1. ~ requests[r].sent
        BY <1>2 DEF Arrive, AuditInv, Unsent
    <2>2. OnlyRequest(r) /\ ~ requests'[r].sent
        BY <1>2, <2>1, ArriveShape, Zenon
    <2> QED BY <1>2, <2>2, AuditStep DEF Arrive, Reported
<1>3. ASSUME NEW r \in Request, Disconnect(r) PROVE AuditInv'
    <2>1. OnlyRequest(r) /\ requests'[r].pc \in {"lost", "dropped"}
        BY <1>3, ProceedShape DEF Disconnect
    <2> QED BY <1>3, <2>1, AuditStep DEF Disconnect, Reported, Unsent
<1> QED BY <1>1, <1>2, <1>3, AuditRequestStep
        DEF DataNext, sticky_session_count, allVars

\* While the store does not fail, every request that went upstream and was
\* answered has an audit row, whatever is paused or deleted while it waits,
\* unless its account left the pool and the client was told so
\* (data_plane.rs:387-406, 427-460).
THEOREM UpstreamUseAlwaysAudited ==
    ASSUME ~ StoreFaults PROVE DataSpec => []UpstreamUseAudited
<1>1. DataInit => AuditInv
    BY DEF DataInit, NotArrived, AuditInv, Reported
<1>2. IInv /\ RequestShape /\ AuditInv /\ [DataNext]_allVars => AuditInv'
    BY AuditNext DEF IInv, TimeInv
<1>3. AuditInv => UpstreamUseAudited
    BY DEF AuditInv, Reported, UpstreamUseAudited
<1> QED BY <1>1, <1>2, <1>3, DataCredentialsAlways, PTL DEF DataSpec
=============================================================================
