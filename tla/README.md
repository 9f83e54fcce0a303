# TLA+ specifications of llmap

`llmap` is a proxy that spreads LLM requests over several provider accounts. It
keeps the accounts and their encrypted credentials in SQLite, a pool of them
with health, load and sticky sessions in memory, refreshes OAuth tokens in the
background, and lets an administrator change accounts while requests run. This
directory holds TLA+ models of the parts that share state, TLC configurations
that check them on small instances, and TLAPS proofs. The parts that are used
without a server running (import, backup, the authority's files, opening an older
database) are here too, because they share files and rows with it.

Paths such as `src/src/routing.rs` start at the directory above this one.

## Inventory

| part | source | state | concurrency |
|---|---|---|---|
| account router | `routing.rs` | pool: enabled, healthy, in_flight, depleted_until; sessions: account, last use | one tokio mutex; clock readings taken before it is held |
| model maps | `models.rs` | none | pure |
| account store | `storage.rs`, `secrets.rs` | account rows, credential history, audit | one connection mutex per statement or transaction; several of them per operation |
| client authentication | `auth.rs` | none of its own; a snapshot of the stored credentials per request | the snapshot is one critical section |
| administrator account API | `http_app.rs` | locals of each handler: the loaded account, the pool snapshot | several critical sections per handler; dropped with its connection |
| OAuth refresh loop | `main.rs`, `storage.rs` | the candidates of a pass | awaits a token endpoint between reading and writing |
| data plane | `data_plane.rs` | locals of each request, counters | five critical sections and an await on the upstream |
| egress chains | `egress.rs`, `data_plane.rs` | active endpoint and counters per account | shared by the account's requests; awaits the resolver and the upstream |
| administrator sessions | `admin.rs`, `http_app.rs` | attempts per client, sessions, CSRF tokens | one mutex per call; session handlers make two calls |
| destination policy | `egress.rs` | none | pure, used around the resolver's answer |
| request preparation, SigV4 | `providers.rs` | none | pure |
| Bedrock stream translation | `providers.rs` | buffer of a stream | one consumer, arbitrary chunk boundaries |
| forward proxy, authority files | `forward_proxy.rs` | two files | several processes; crash between system calls |
| commands: serve, import, backup, ca init | `main.rs`, `migration.rs`, `storage.rs` | database, backup file, authority files | several processes; crash between statements |
| configuration | `config.rs` | none | pure |

## Modules

| module | models |
|---|---|
| `ModelMap` | `family`, `resolve`, `accepted`: which model names a model map serves |
| `Routing` | `Router`: one action per operation |
| `StickySessions` | abstract: what the router promises about sessions, without clocks, load or models |
| `AccountStore` | the rows and the history as operators, one per critical section of `SqliteStore` |
| `ControlPlane` | `AccountStore` + `Routing` + administrator calls + refresh loop + clock |
| `DataPlane` | `ControlPlane` + client requests |
| `DestinationPolicy` | host normalisation, allowlist matching, refused addresses; `Covers`, what an entry stands for |
| `EgressChain` | `ReqwestTransport::send` for one account: its `ProxyChain`, its stored list, its requests, with `DestinationPolicy` between choosing an endpoint and sending |
| `AdminSessions` | `AdminSessionManager` and the handlers that call it |
| `EventStream` | the Bedrock stream translator: buffer, frames, header cursor |
| `EventStreamReference` | abstract: what a byte string means, as a grammar without buffer or cursor |
| `AuthorityFiles` | `generate_ca` and `load_ca`, one system call at a time |
| `LegacyImport` | `parse_claudeproxy_env`: the accounts of an environment file |
| `Commands` | `AccountStore` + `LegacyImport` + `AuthorityFiles` + the processes that run commands |
| `RoutingProofs` | theorems about `Routing` and `ModelMap` |
| `ControlPlaneProofs` | theorems about credentials, in `ControlPlane` and `DataPlane`: what is stored, whom it admits, what is audited |
| `PoolProofs` | theorems about the pool, in `ControlPlane` and `DataPlane`: pool and store, rows, choices, `in_flight` |
| `DataPlaneProofs` | types of `DataPlane`, its refinement of `Routing`, and what carries over from `RoutingProofs` |
| `CommandsProofs` | theorems about `AuthorityFiles` and `Commands` |
| `AdminSessionsProofs`, `EgressChainProofs`, `EventStreamProofs` | theorems about the module of that name |
| `MC*` | values for the constants that a cfg file cannot write |

The composition: `DataPlane` extends `ControlPlane`, which extends
`AccountStore` and instantiates `Routing` as `R` over its own `accounts` and
`sessions`. So an administrator call, a refresh and a client request read and
write one store and one router. `Commands` puts other processes around the same
`AccountStore`: there a server is a process among others, and an administrator's
call is the one transaction it writes. `EgressChain`, `AdminSessions` and
`EventStream` share no state with the others and stand alone.

### How state and actions correspond to the code

*Granularity.* An action is one critical section: what the code does between
taking a mutex and releasing it, together with the local computation after it
up to the next mutex or await. A handler that takes three is three actions with
a program counter. `calls[c]` holds what a handler carries from one to the next
(the account it loaded, the pool snapshot it read), and it may be stale when
used. `requests[r]` and `handlers[h]` are the same for client requests and
session handlers.

*Routing.* `choose`, `choose_none` (the two results of `Router::choose`),
`start_request`, `record_outcome`, `reset_account_health`, `replace_accounts`
and `session_count` are the methods. `Sticky` is the binding test,
`LeastLoaded` the `min_by`. Accounts are numbers, so that ids are ordered.
Errors (`UnknownAccount`) leave the state alone and are the absence of a step;
the callers' reactions to them are in `ControlPlane` and `DataPlane`. A map
without an entry is a function without it in its domain; an absent time is 0.
`utilization_basis_points` is never set to anything but 0 and is left out.

*AccountStore.* A ciphertext is a record with a fresh id: encrypting the same
text twice gives two ciphertexts, which is what the compare-and-swap of
`replace_oauth_if_current` compares. Its `form` says how the plaintext reads: a
raw token, an OAuth envelope (refreshable; `static` without the fields a
refresh needs; `empty` with an empty access token), or text that does not
parse. `origin`, `since` and `submitted` are auxiliary: the administrator's
write a credential descends from, when a history row was written, and the
administrator's last write.

*ControlPlane.* create: `CreateLoad`, `CreateWrite`; rotate: `RotateLoad`,
`RotateWrite`; pause and resume: `EnableRead`, `EnableWrite`; delete:
`DeleteWrite`; then `ReadRoutes`, `ReplaceRoutes` (the two halves of
`refresh_routes`) and, after create and rotate, `ResetHealth`. `StoreFault` and
`Drop` end a call half way. `RefreshBegin`, `RefreshReplace` and `RefreshFail`
are a pass of the refresh loop. The end of the overlap is computed in the write
itself; the code reads the clock just before it takes the mutex.

*DataPlane.* `Arrive`, `SnapshotFails` or `Authenticate`, `Route`, `Load`,
`Start`, then `Settle` or `TransportFails`; `Disconnect` drops the handler at
an await. Whether headers, the body, the model map or the signature make a
request fail is a choice of the step where the code would find out.

*EgressChain.* `Load` takes the stored list, `selected_proxy` rebuilds the
shared chain when the list differs and returns its active endpoint,
`SendToAddress` and `SendByName` are the two ways the destination is authorised
(resolved here, or by the egress proxy), `Fail` and `Succeed` are
`record_transport_result`, `Abandon` every exit that records nothing. An empty
list stands for direct egress. A host is the sequence of its labels: a trailing
dot is an empty last label, `Lower` is `to_ascii_lowercase`.

*EventStream.* `SplitFrame`, `DecodeHeader` (one turn of the header loop),
`YieldFrame` and `InvalidLength` are the loops of the translator, `AwaitInput`,
`ReceiveChunk`, `ReceiveEnd` and `ReceiveError` the await. Length fields are one
or two bytes wide, a name or value the code compares with is one byte, and one
byte says whether the checksums match, so that frames are short enough to change
each of their bytes; offsets and comparisons are those of the code.

*AuthorityFiles.* A file is absent, partial or whole and remembers whose pair it
belongs to. The existence checks, `create_new`, the write and sync, the removal
of the key, and the two reads are separate steps.

*LegacyImport.* A line is the account it names, the spelling of its variable,
whether it holds a name or a credential, whether it is commented out, and the
fields that decide the account. Refusals are empty sets.

*Commands.* A process runs one command. `OpenRead`, `ConvertRow`, `Opened` are
`SqliteStore::open`; `ListAccounts`, `ImportAccount`, `Imported` the import;
`CreateDestination`, `CopyDatabase`, `IntegrityCheck`, `RemoveDestination` the
backup; `BuildRouter`, `UseAuthority`, `AdminWrite`, `AdminPauseRead`,
`AdminPauseWrite` (the two critical sections of `set_account_enabled`),
`AdminDelete`, `Shutdown` a server. A server has one pause or resume under way at
a time. `legacy` is the set of rows whose egress list is still in clear. `Crash`
is a process that dies or a statement that fails.

*AdminSessions.* A handler reads the clock when it begins and takes the mutex
later, so readings arrive out of order. Login (`LoginRateLimited`,
`LoginWrong`, `LoginRight`), `Authenticate`, `logout`, `issue_csrf`,
`active_session_count`. Tokens are fresh numbers.

## Runs

### Passing

| run | configuration | shows |
|---|---|---|
| `router` | `MCRouting.cfg` | `RouterTypeOK`; `BindingsServe`: every binding names an enabled, healthy account that was not depleted when the session last used it; `AffinityKept`: a session moves only for idleness, depletion or a model its account does not serve; `ImplementsStickySessions` |
| `control_serial` | `ControlSerial.cfg` | a call beside the refresh loop: `PoolMatchesStore`, `RowsNotTorn`, `RotationPreservesAccount`; `DueIsRefreshed`: no token stays due for ever, while every envelope parses |
| `control_concurrent` | `ControlConcurrent.cfg` | two calls at a time, failures and drops: `CredentialLineage` (no late refresh undoes an administrator's write), `HistoryIsOlder`, `RefreshedTokenExpires`, `RefreshRevivesNone`: neither time nor a refresh lets in a token that was refused before, but the one just stored |
| `data_serial` | `DataSerial.cfg` | `ChosenIsEnabled`: once a pause or delete is answered, no later choice takes the account; `UpstreamUseAudited`: only the exchange of an account deleted meanwhile goes unaudited; `RouterUsedAsSpecified`: the composed system refines `Routing!Spec` |
| `data_faulty` | `DataFaulty.cfg` | `InFlightBounded`: in_flight never counts a request twice, whatever is paused, resumed, deleted and created again, and whatever fails or is dropped; `PoolRepaired`: a call that succeeds brings the pool back in line with the store, whatever failed calls left behind |
| `egress` | `Egress.cfg` | `OwnListUsed`; `TargetAuthorised`: only hosts an allowlist entry stands for and only addresses that were checked; `PrefixExhausted`, `MovesForward`, and `FailsOver` under fairness |
| `admin_sessions` | `Admin.cfg` | `LockedAtLimit`, `SeenWithinLife`; `NeverRevived`: a session that ended by logout, idleness, age or a purge stays ended |
| `event_stream` | `EventStream.cfg` | `TranslationAgrees`: what is yielded is what the received bytes mean, wherever they are cut; `CursorInBounds`, `BufferBounded`; `AlwaysReturns`: the translator comes back to waiting for input |
| `commands` | `Commands.cfg` | `OpenKeepsAccounts`, `OpenedIsEncrypted`: processes that open an older database, while a server writes, pauses, resumes and deletes accounts, convert each row once and alter no account; `ImportComplete`, `ExistingSkipped`, `PausesKept` for imports; `BackupKept`; `CreatedPairStays`, `LoadedPairMatches`; `ImplementsAuthorityFiles`: the commands refine `AuthorityFiles` |

### Violations

Each of these checks a sentence of the repository's documentation or a comment
against the model, and TLC finds a behaviour of the code that contradicts it.

| run | the sentence | what happens |
|---|---|---|
| `pool_race` | `docs/architecture.md:36` account writes refresh the pool immediately | of two overlapping writes the older snapshot is put in place last, and stays |
| `rotation_race` | `docs/api.md:26` a rotation preserves the account | it writes back the account it loaded, undoing a pause in between |
| `off_mode` | `docs/authentication.md:15` off does not inspect credential state; `src/auth.rs:126` | the snapshot is taken first, and its failure answers 503 |

`PoolMatchesStore` and `RotationPreservesAccount` are checked twice: where they
hold, and where they fail. The pair says what the property depends on.

Some stronger properties do not hold in the models and have no run; the
properties that replace them say what does hold.

* An administrator's rotation of an OAuth account keeps the replaced token valid
  for ten minutes, also one that had expired (`http_app.rs:349-353`), where
  `docs/authentication.md:10-11` says that rotating "invalidates its old
  credential at the next request". That sentence is false of the code. What
  holds is weaker: `OverlapBounded`, which is proved, gives the length of the
  overlap, and `RefreshedTokenExpires` and `RefreshRevivesNone` say that
  refreshes, unlike rotations, respect a token's expiry.
* A token endpoint may grant as little as a minute (`storage.rs:937`), and a
  token is due five minutes ahead (`storage.rs:321`): such a token is due again
  when it is stored, and every pass replaces it. `DueIsRefreshed` does not say
  that there is ever a time at which nothing is due.
* One OAuth envelope that does not parse stops the refresh of every account:
  `DueIsRefreshed` needs `SecretInput` without malformed ones.
* Of two rate limits, the one answered last replaces the other even if it ends
  sooner (`routing.rs:225`).
* An account deleted while its request waits costs the client the answer and the
  audit its row: the exception in `UpstreamUseAudited`.
* A transport result does not name its endpoint, so late failures through the
  first endpoint can exhaust the second, which need not have failed at all.
  `PrefixExhausted` and `MovesForward` speak of the failures recorded while an
  endpoint was active, not of the endpoint the failed requests had used.
* A client that disconnects while its request waits leaves `in_flight` raised
  until the account is paused or removed (`data_plane.rs:360-365`):
  `InFlightBounded` counts such requests among the unsettled ones.
* A certificate that was written but could not be synced stays beside no key or,
  after another run, beside another run's key; the run that wrote it reported
  failure, which is the exception in `LoadedPairMatches`.
* A file that could not be written in full, or one a crash left behind, makes
  later `ca init` and `backup create` runs refuse until an operator removes it.
* One legacy row whose list does not parse makes every open fail.
* An import is not seen by a server that runs meanwhile, until its next account
  write: each process has its own pool.
* A name that cannot be resolved for a SOCKS5 endpoint records no failure, so the
  chain does not move: `FailsOver` speaks of sends that have results.
* Of two overlapping session calls of one session, the first answers with a CSRF
  token the second has replaced.

### Bounds

Ids, times and tokens are capped in the guards (`MaxId`, `MaxTime`, `MaxToken`,
`Horizon`, `U32Max`, `CounterMax`), and every constant of the code that is a
duration or a limit is a CONSTANT.

* Two clock readings further apart than `SESSION_IDLE_TIMEOUT` make a binding
  both fresh and idle; readings come in any order.
* Two calls, one of which may be made while the other is in progress, are
  enough for a stale local: every race of this code is between one reader and
  one writer. Each call is made at most once; its parameters are arbitrary.
  `control_serial`, where calls do not overlap, has one, on two accounts that
  are absent, OAuth, or API-key and paused in every combination; that a call
  finds what failed calls left behind is the subject of `data_faulty`, which has
  two.
* `RefreshLead < Overlap` as in the code (5 and 10 minutes); the clock
  runs from a time at which a token is due to the time it expires. No property
  of these runs needs the end of an overlap: what the history promises is
  recorded when it is written.
* Two requests on one account collide on the counter. On a chain two are under
  way at once and their slots are used again, so any number follow one another;
  `FailureLimit` is the code's 3. A list of two, a list of one and the empty list
  exercise the rebuilding of the chain. `CounterMax` stands for 255. The hosts
  and entries have a trailing dot, upper case, a star in front and one in the
  middle, an address, and a name below `localhost`; the resolver may answer
  differently each time.
* Streams have one to three frames: an event, an exception, headers of every
  class of types, each byte changed in turn, and every header section of up to
  four bytes. Chunk sizes include 0, 1, a part of a frame, a whole frame and more
  than one frame; `MaxFrame` and `MaxHeaders` are met exactly and passed by one.
* `control_serial` submits envelopes that parse (`DueIsRefreshed` needs them);
  `control_concurrent` also empty ones, which the loop replaces though they
  cannot be loaded, and malformed ones, which stop it. The data runs have no
  model names: which models an account serves matters to the router alone, and
  `router` has them.
* `MaxToken` lets a session be created and its CSRF token be replaced once. With
  `idle_timeout` 1, `absolute_timeout` 3 and the clock running to 4, a session
  that is not used ends by idleness, and one that is used at every instant ends
  by its age alone; both also end by logout and by the purge at a login.
* Three commands, two at a time: one that was interrupted, one that takes it up
  again, and one beside them. The database has a disabled account, or one whose
  list no longer parses; the files are in order, fail at their second account, or
  are refused for each reason the parser has, and in them name and credential
  lines come in both orders, each of them commented out in some file.
  `Administered` is the one account a server's administrator changes.
* `data_serial` has sessions, a token that matches and one that does not;
  `data_faulty` has none, and a second call in their place.
* `DueIsRefreshed` claims nothing once the ids are used up (`next_id > MaxId`):
  where tokens live shorter than `RefreshLead`, refreshes never end, and the
  bound ends them. `TokenLife` in `ControlSerial.cfg` has such a life and a long
  one; `MaxId` is above what a call and one long-lived refresh of each
  credential use, so that it is not reached where every life granted is long.
* `U32Max` is reached in `router` (saturation) and out of reach in the runs
  about exactness.

Deadlock checking is off where clocks, calls and requests run out by their
bounds; `router` and `egress` check it.

Symmetry is used for client requests, administrator calls, session handlers and
processes, which are interchangeable and never compared with each other in any
other way than equality, and never in a liveness run.

### Fairness

* `FairControlSpec`: weak fairness of beginning a pass (`main.rs:235-255`, a
  timer that always fires again), strong fairness of a candidate's refresh
  succeeding when its turn comes. The second is an assumption about the token
  endpoint: it may refuse any number of times, not for ever.
* `FairSpec` of `EgressChain`: weak fairness of a request's own steps (the
  runtime schedules a ready task), strong fairness of some request getting a
  route, an authorised destination and a result (not every send is abandoned).
  It assumes that requests keep coming.
* `FairSpec` of `EventStream`: weak fairness of the translator's own steps, which
  the client drives by polling the body.

## Proofs

All are for arbitrary constants that satisfy the modules' ASSUMEs.

`RoutingProofs`. `RouterTyped`, then `BindingsAlwaysServe`, whose inductive
invariant is `RouterTypeOK /\ BindingsServe`: `BindingsServe` is inductive given
types, because the four operations that take an account out of service also
evict its sessions, and a reading older than a binding's last use cannot place
a session on an account depleted at that reading. `AffinityHolds` is an action
property that follows from it: a step that moves a session is a `choose` whose
`Sticky` was empty. `RouterImplementsPromise` shows that each operation is a
step of `StickySessions` or a stutter, with `Serving` and `Bound` as the
mapping.

`AcceptedIffResolved` is about `ModelMap`: `accepted`, which the router tests, and
`resolve`, which the request uses later, agree on every map that has entries. So, as long as the account's map is not replaced between
the two, a request routed by its model has an upstream name.

`AdminSessionsProofs`. The inductive invariant adds `SlotsCausal` to the three
invariants: a handler's clock reading is not in the future, nor before the
creation of the session whose token it carries. Without it, `SeenWithinLife` is
not preserved by a handler that arrives late. `NeverRevived` then follows: the
only action that adds a session uses a fresh token.

`ControlPlaneProofs`. `LineageAlways`, `HistoryAlwaysOlder`,
`OverlapAlwaysBounded` and `RefreshedAlwaysExpires`, for any number of
overlapping calls, with failures and drops anywhere. The inductive invariant is
`StoreInv /\ TimeInv /\ CallInv`. `StoreInv` says that every ciphertext id in
use was handed out before the next one and relates a row, its history and the
administrator's last write; the ids are what makes the compare-and-swap of
`replace_oauth_if_current` exclude a late refresh. `TimeInv`: the pass's reading
of the clock is not in the future. `CallInv`: a call about to write holds a
credential the administrator submitted. Each critical section of the store has
its lemma, and each action cites the lemma of the section it runs.
`RefreshNeverRevives` is the action property `RefreshRevivesNone`: a step that
moves no call is a step of the clock or of the refresh loop (`CallMoves`), a row
left alone admits no more tokens as time passes (`AdmittedEarlier`), and the token
a refresh puts into the history was the account's current one and, by
`PreviousValidUntil`, is listed only while it has not expired (`RefreshAdmits`).

The rest of the module is about `DataSpec`. `RequestShape` says which fields a
request has, and each step of a request changes that request alone;
`CredentialsKeptInUse` then carries the four theorems over, since a request
leaves the store alone. `AdmittedByAccount` assumes `AuthMode = "enforce"`. It is
an action property that no run states: the step from `authenticate` to `route`
is taken only with a token that `Accounted` allows, the current one of an account
enabled at that very step, or one replaced less than `Overlap` before the request
read the clock. It follows from `PreviousOK`, the part of `StoreInv` about the
history. `UpstreamUseAlwaysAudited` assumes that no statement fails
(`~StoreFaults`); its invariant `AuditInv` adds that a request is not marked as
sent before it is, without which an early refusal would need a row.

`PoolProofs`. Most of these assume `Serial`: calls do not overlap, and there are
finitely many. `PoolInv` says that the call in progress holds the account and the
pool snapshot as they still are. From it follow `PoolAlwaysRepaired`, with
failures and drops, and `RotationAlwaysPreserves`. `RowsNeverTorn` adds
`TornInv`: what a call is about to write comes from one submitted account, and a
pause or resume, which does not write the egress column, holds the kind and the
models that are there. `PoolAlwaysMatches` also assumes that no statement fails and no
call is dropped, and adds `CleanInv`: the pool differs from the store only while
a call still has to refresh it. The runs `pool_race` and `rotation_race` show
that `Serial` is needed.

`PoolRepairedInUse` and `ChosenAlwaysEnabled` are the same beside client requests:
a request changes health, load and bindings, never which accounts the pool has
or which are enabled, so that `PoolInv` and `CleanInv` survive it.
`ChosenAlwaysEnabled` has the hypotheses of `PoolAlwaysMatches`; without them the
pool may be behind the store with no call in progress.

`InFlightAlwaysBounded` needs no `Serial`, only finitely many requests.
`FlightInv` says that `in_flight` of every pool entry is at most the number of `Unsettled`
requests on its account; it is an induction over the ways an entry changes: a
request starts, settles, or the entry is replaced, in which case the counter is
kept or starts again at 0. What it needs of cardinality (adding or removing one
request) is the hypothesis `Counting` of the lemmas, which `FiniteCounting` proves
for finite sets.

`DataPlaneProofs`. `ControlTyped` and `DataTyped` give the types of every
variable of the composed system: rows, history, calls with their stale locals,
the refresh pass, requests. With them each step is shown to call an operation of
`Routing` with arguments in its domain, or to leave the router alone:
`RouterAlwaysUsedAsSpecified`, the refinement that `data_serial` checks.
`RouterInv` is then the router's own invariant in the composed system, and
`DataAlwaysTyped`, `BindingsServeInUse` and `PromisesKeptInUse` follow from the
theorems of `RoutingProofs`, instantiated over the state of `DataPlane`.

`EgressChainProofs`. `MatchingIsCovering`: `host_matches` decides exactly what an
allowlist entry stands for. The inductive invariant says that the chain's
counters and index are in range and in step (`ChainOK`), and that a request
between two awaits holds an endpoint of the list it loaded and a destination
that was authorised (`RequestsOK`). `ChainTyped`, `OwnListAlwaysUsed`,
`TargetAlwaysAuthorised`, `PrefixAlwaysExhausted` and `ChainMovesForward`
follow, for every list, failure limit and number of requests. The last endpoint
of a list may be used up as well: there is none after it to move to.

`EventStreamProofs`. The invariant adds to the types, `CursorInBounds` and
`BufferBounded` that a frame whose headers are read has passed the length check
(`FrameLength`): without it the header section could reach past the frame.

`CommandsProofs`. For the authority's files, with any number of processes:
`create_new` makes one process the owner of each file. The invariant says who
(`KeyClaimed`, `CertClaimed`), that a certificate never stands without its key
unless its writer failed (`CertAccompanied`), and that a reader's certificate is
still accompanied (`ReadAccompanied`). This gives `CreatedPairIsKept` and
`LoadedPairIsOne`; `CommandsUseAuthority` shows that every step of the commands
is a step of `AuthorityFiles` or leaves the files alone, so that both hold beside
any commands (`CommandsKeepPair`, `ServersLoadOnePair`).

For the database and the backup the inductive invariant is `CommandInv`: a
process that converts holds every row still in clear, or rows others have
converted since (`Converts`), one that has opened the database finds none
(`HasOpened`), and the backup file belongs to the process that created it
(`Owns`, `BackedUp`). `OpenedAlwaysEncrypted`, `BackupAlwaysKept`,
`OpeningKeepsAccounts` and `ExistingAlwaysSkipped` follow; the first says that a
step of a conversion changes no account at all, whoever writes, pauses or resumes
accounts beside it. `ImportAlwaysComplete` adds `ImportInv`: the accounts of a
file are stored, deleted, or still in the list the import goes through. It assumes `ParsesWhole`, that parsing a file yields the
accounts it submits; this is an induction over the lines of a file, and
`MCCommands` has it as an ASSUME that TLC evaluates for the files of the run.

Only model-checked, because they are out of this prover's reach:

* `TranslationAgrees` compares with a recursive function on byte strings, and
  `PausesKept` (like `ParsesWhole`) says what a fold over the lines of a file
  computes: both are inductions over data.
* `DueIsRefreshed`, `FailsOver` and `AlwaysReturns` are liveness under fairness.
* The three violation runs are behaviours, found by search.

Every other property of a run is a theorem, under the hypotheses named above.
Those are the settings of its run: finite sets, where calls must not overlap
`Concurrent = 1`, and for `PoolMatchesStore`, `ChosenIsEnabled` and
`UpstreamUseAudited` neither failing statements nor dropped calls.

## Not modelled

* `providers.rs` outside the stream translation: the preparation of a request
  and SigV4 build one message from another, with no state. Where they can fail
  is a choice in `DataPlane`.
* `config.rs`: parsing and validation are a function of one file, read once.
* The forward proxy's connection handler: it keeps no state between connections.
  Its destination test is `DestinationPolicy`, the requests it makes are those of
  `DataPlane`, and TLS is a library's.
* Header filtering, formatting, wording, logging, metrics text; encryption,
  password and token digests beyond whether they match. None has state that the
  properties tell apart.
* `retry_decision` and `ProxyChain::make_active`: no caller in the program.
* The audit table's retention, which runs at start-up only.
