----------------------------- MODULE AccountStore -----------------------------
(***************************************************************************)
(* The account tables of the SQLite store (src/src/storage.rs) and the     *)
(* client-membership decision taken over them (src/src/auth.rs).           *)
(*                                                                         *)
(* The store serialises callers on one connection mutex and wraps each     *)
(* multi-statement write in a transaction: every operation below is one    *)
(* atomic step, except set_account_enabled, which reads and writes in two  *)
(* separate critical sections and is two operators here.                   *)
(*                                                                         *)
(* A row is its account_json (kind, enabled, models), its encrypted egress *)
(* list, and its credential ciphertext.  A ciphertext is a record with a   *)
(* fresh id (encryption draws a fresh nonce, so equal plaintexts never     *)
(* give equal ciphertexts); the id also names the token inside.  form is   *)
(* what the plaintext is: a raw token; an OAuth envelope that can be       *)
(* refreshed, or a static one that lacks what a refresh needs; a           *)
(* refreshable envelope with an empty access token; or a text that starts  *)
(* like an envelope and does not parse.  Other account fields (label, URL, *)
(* headers) never change control.                                          *)
(***************************************************************************)
EXTENDS ModelMap, Functions

CONSTANTS
    Account,       \* account ids
    Egress,        \* possible egress proxy lists
    FirstId,       \* the first ciphertext id after those of the initial rows
    RefreshLead,   \* refresh starts this long before expiry (five minutes)
    Overlap        \* how long a replaced token may live on (ten minutes)

VARIABLES
    rows,        \* provider_accounts, on the ids that exist
    history,     \* credential_history: the one previous credential, if any
    next_id,     \* the next ciphertext's id
    submitted    \* auxiliary: the ciphertext id of the last administrator
                 \* write committed for each account that has a row

storeVars == <<rows, history, next_id, submitted>>

ASSUME StoreAssumption ==
    /\ Account \subseteq Nat
    /\ FirstId \in Nat
    /\ \A a \in Account : a < FirstId
    /\ RefreshLead \in Nat
    /\ Overlap \in Nat

Kind == {"oauth", "api"}

Form == {"raw", "envelope", "static", "empty", "malformed"}

NoExpiry == 0

\* What an administrator submits as a credential.
Secret == [form : Form, expires_at : Nat]

\* origin is auxiliary: the administrator write a refreshed token descends
\* from.
Ciphertext ==
    [id : Nat, form : Form, expires_at : Nat, origin : Nat]

AccountRow ==
    [kind : Kind, enabled : BOOLEAN, models : SUBSET ModelName,
     egress : Egress, cred : Ciphertext]

\* since is auxiliary: when the credential was replaced.
HistoryRow == [cred : Ciphertext, expires_at : Nat, since : Nat]

\* ProviderAccount: what callers hand to the store besides the credential.
ProviderAccount ==
    [kind : Kind, enabled : BOOLEAN, models : SUBSET ModelName,
     egress : Egress]

PublicPart(row) ==
    [kind |-> row.kind, enabled |-> row.enabled, models |-> row.models,
     egress |-> row.egress]

Row(account, cred) ==
    [kind |-> account.kind, enabled |-> account.enabled,
     models |-> account.models, egress |-> account.egress, cred |-> cred]

encrypt(secret, origin) ==
    [id |-> next_id, form |-> secret.form, expires_at |-> secret.expires_at,
     origin |-> origin]

Empty == [a \in {} |-> 0]

\* The tables as a restarted process finds them: some accounts, each with
\* the ciphertext whose id is the account's own number.
StoreOpen(found, secrets) ==
    /\ rows = [a \in DOMAIN found |->
                Row(found[a], [id |-> a, form |-> secrets[a].form,
                               expires_at |-> secrets[a].expires_at,
                               origin |-> a])]
    /\ history = Empty
    /\ next_id = FirstId
    /\ submitted = [a \in DOMAIN found |-> a]

With(f, a, v) == [b \in DOMAIN f \cup {a} |-> IF b = a THEN v ELSE f[b]]

Without(f, a) == Restrict(f, DOMAIN f \ {a})
-----------------------------------------------------------------------------
\* decoded_credential succeeds: only OAuth accounts have envelopes to parse.
Decodes(kind, cred) == kind = "oauth" => cred.form \notin {"malformed", "empty"}

\* load_account succeeds.
load_account_ok(a) ==
    a \in DOMAIN rows /\ Decodes(rows[a].kind, rows[a].cred)

upsert_account(a, account, secret) ==
    LET cred == encrypt(secret, next_id)
    IN  /\ rows' = With(rows, a, Row(account, cred))
        /\ history' = Without(history, a)
        /\ next_id' = next_id + 1
        /\ submitted' = With(submitted, a, next_id)

\* Mutant: an existing row keeps its egress list.
rotate_keeping_egress(a, account, secret, previous_valid_until, now) ==
    /\ a \in DOMAIN rows
    /\ rows' = With(rows, a,
                    Row([account EXCEPT !.egress = rows[a].egress],
                        encrypt(secret, next_id)))
    /\ history' = With(history, a, [cred |-> rows[a].cred,
                                    expires_at |-> previous_valid_until,
                                    since |-> now])
    /\ next_id' = next_id + 1
    /\ submitted' = With(submitted, a, next_id)

rotate_account_credential(a, account, secret, previous_valid_until, now) ==
    LET cred == encrypt(secret, next_id)
    IN  /\ rows' = With(rows, a, Row(account, cred))
        /\ history' = IF a \in DOMAIN rows
                      THEN With(history, a,
                                [cred |-> rows[a].cred,
                                 expires_at |-> previous_valid_until,
                                 since |-> now])
                      ELSE history
        /\ next_id' = next_id + 1
        /\ submitted' = With(submitted, a, next_id)

\* set_account_enabled, second critical section: account_json is rewritten
\* from what the first one read; no row is left to update after a delete.
write_account_json(a, read, enabled) ==
    /\ rows' = IF a \in DOMAIN rows
               THEN With(rows, a,
                         [kind |-> read.kind, enabled |-> enabled,
                          models |-> read.models, egress |-> rows[a].egress,
                          cred |-> rows[a].cred])
               ELSE rows
    /\ UNCHANGED <<history, next_id, submitted>>

\* Mutant: the credential history outlives its account.
delete_account_only(a) ==
    /\ a \in DOMAIN rows
    /\ rows' = Without(rows, a)
    /\ submitted' = Without(submitted, a)
    /\ UNCHANGED <<history, next_id>>

\* The credential history of a deleted account goes with it (cascade).
delete_account(a) ==
    /\ a \in DOMAIN rows
    /\ rows' = Without(rows, a)
    /\ history' = Without(history, a)
    /\ submitted' = Without(submitted, a)
    /\ UNCHANGED next_id

\* Mutant: a swap without the comparison.
RowExists(a, expected) == a \in DOMAIN rows

\* The compare-and-swap of a refreshed token: it replaces the ciphertext the
\* refresh started from, or nothing.
IsCurrent(a, expected) == a \in DOMAIN rows /\ rows[a].cred = expected

\* Mutant: the account is written back as the pass read it, enabled.
replace_as_candidate(a, expected, refreshed, previous_valid_until, now) ==
    IF IsCurrent(a, expected)
    THEN /\ rows' = With(rows, a,
                        Row([rows[a] EXCEPT !.enabled = TRUE],
                            encrypt(refreshed, expected.origin)))
         /\ history' = With(history, a,
                            [cred |-> expected,
                             expires_at |-> previous_valid_until,
                             since |-> now])
         /\ next_id' = next_id + 1
         /\ UNCHANGED submitted
    ELSE UNCHANGED storeVars

replace_oauth_if_current(a, expected, refreshed, previous_valid_until, now) ==
    IF IsCurrent(a, expected)
    THEN /\ rows' = With(rows, a,
                        Row(rows[a], encrypt(refreshed, expected.origin)))
         /\ history' = With(history, a,
                            [cred |-> expected,
                             expires_at |-> previous_valid_until,
                             since |-> now])
         /\ next_id' = next_id + 1
         /\ UNCHANGED submitted
    ELSE UNCHANGED storeVars

\* Accounts the refresh loop considers: reading them fails as a whole when
\* one of them holds an envelope that does not parse; an empty access token
\* is not looked at.
RefreshRows ==
    {a \in DOMAIN rows : rows[a].kind = "oauth" /\ rows[a].enabled}

oauth_refresh_candidates_ok ==
    \A a \in RefreshRows : rows[a].cred.form # "malformed"

Due(cred, now) ==
    /\ cred.form \in {"envelope", "empty"}
    /\ cred.expires_at # NoExpiry
    /\ cred.expires_at <= now + RefreshLead

\* Mutant: an expired token is no longer refreshed.
DueUnexpired(now) ==
    [a \in {b \in RefreshRows : Due(rows[b].cred, now)
                                /\ rows[b].cred.expires_at > now}
        |-> rows[a].cred]

DueCandidates(now) ==
    [a \in {b \in RefreshRows : Due(rows[b].cred, now)} |-> rows[a].cred]

\* Mutant: the token's own expiry is forgotten.
OverlapOnly(cred, now) == now + Overlap

\* How long the token a refresh replaces stays a member: the earlier of its
\* expiry and Overlap after the refresh pass began.
PreviousValidUntil(cred, now) ==
    IF cred.expires_at < now + Overlap THEN cred.expires_at ELSE now + Overlap

\* What the router is told about the accounts.
route_accounts ==
    [a \in DOMAIN rows |-> [enabled |-> rows[a].enabled,
                            models |-> rows[a].models]]
-----------------------------------------------------------------------------
\* The previous credential is part of a snapshot until it expires.
PreviousListed(a, now) ==
    a \in DOMAIN history /\ history[a].expires_at > now

\* credential_snapshot succeeds: every row decodes, the previous ones too.
credential_snapshot_ok(now) ==
    \A a \in DOMAIN rows :
        /\ Decodes(rows[a].kind, rows[a].cred)
        /\ PreviousListed(a, now) => Decodes(rows[a].kind, history[a].cred)

\* Only an OAuth envelope carries an expiry of its own.
NotExpired(kind, cred, now) ==
    \/ kind # "oauth"
    \/ cred.form = "raw"
    \/ cred.expires_at = NoExpiry
    \/ cred.expires_at > now

\* Tokens (by ciphertext id) that authorize accepts for account a: of an
\* enabled account, the current one while it has not expired, and the
\* previous one while it is listed.
MemberTokens(a, now) ==
    LET row == rows[a]
    IN  {id \in {row.cred.id} :
            row.enabled /\ NotExpired(row.kind, row.cred, now)}
        \cup
        {history[b].cred.id : b \in {x \in {a} :
            row.enabled /\ PreviousListed(x, now)}}

Members(now) == UNION {MemberTokens(a, now) : a \in DOMAIN rows}
=============================================================================
