------------------------------- MODULE Routing -------------------------------
(***************************************************************************)
(* The account router (src/src/routing.rs): the pool of accounts requests  *)
(* are placed on, and the sticky bindings of sessions to accounts.         *)
(*                                                                         *)
(* Every operation runs under the data plane's router mutex, so each is    *)
(* one atomic step.  The `now` an operation works with is read by its      *)
(* caller before it waits for that mutex: readings arrive in any order.    *)
(*                                                                         *)
(* Abstractions.  Account ids are numbers, ordered like the id strings.    *)
(* Times are natural numbers and the Option depleted_until is NotDepleted  *)
(* (a time before every other) for None.  utilization_basis_points is left *)
(* out: the store gives every account 0 and nothing changes it.  provider  *)
(* is a label of the answer and is left out.                               *)
(***************************************************************************)
EXTENDS ModelMap, Functions

CONSTANTS
    Account,               \* account ids the store may ever hold
    Session,               \* session ids clients may present
    NoSession,             \* a request without a session id
    NoModel,               \* a request without a model (the empty name)
    SESSION_IDLE_TIMEOUT,  \* time units a binding outlives its last use
    U32Max                 \* where in_flight saturates

VARIABLES
    accounts,   \* pool: id -> RouteAccount, on the ids the router knows
    sessions    \* bindings: session id -> account id and last use

routerVars == <<accounts, sessions>>

ASSUME RoutingAssumption ==
    /\ Account \subseteq Nat
    /\ NoSession \notin Session
    /\ SESSION_IDLE_TIMEOUT \in Nat
    /\ U32Max \in Nat

NotDepleted == 0

RouteAccount ==
    [enabled : BOOLEAN, healthy : BOOLEAN, in_flight : 0 .. U32Max,
     models : SUBSET ModelName, depleted_until : Nat]

SessionBinding == [account_id : Account, last_seen_at : Nat]

\* What the store tells the router about an account.
Profile == [enabled : BOOLEAN, models : SUBSET ModelName]

\* A pool snapshot: a profile for each account that exists in the store.
Snapshot == UNION {[S -> Profile] : S \in SUBSET Account}

\* Outcomes of an upstream exchange; retry_at matters to the depleting ones.
Evicting == {"Unauthorized", "RateLimited", "Overloaded", "TransientFailure"}

Outcome == {"Success"} \cup Evicting

\* A pool entry as the store produces it: healthy, idle and not depleted.
FreshAccount(p) ==
    [enabled |-> p.enabled, healthy |-> TRUE, in_flight |-> 0,
     models |-> p.models, depleted_until |-> NotDepleted]

NoBindings == [s \in {} |-> 0]

\* Router::new
RouterNew(snapshot) ==
    /\ accounts = [a \in DOMAIN snapshot |-> FreshAccount(snapshot[a])]
    /\ sessions = NoBindings
-----------------------------------------------------------------------------
\* Mutant: a paused account is still eligible.
eligible_paused(account, model, now) ==
    /\ account.healthy
    /\ account.depleted_until <= now
    /\ model = NoModel \/ accepted(account.models, model)

eligible(account, model, now) ==
    /\ account.enabled
    /\ account.healthy
    /\ account.depleted_until <= now
    /\ model = NoModel \/ accepted(account.models, model)

EligibleAccounts(model, now) ==
    {a \in DOMAIN accounts : eligible(accounts[a], model, now)}

\* Fewest requests in flight first, ties broken by the account id.
Precedes(a, b) ==
    \/ accounts[a].in_flight < accounts[b].in_flight
    \/ accounts[a].in_flight = accounts[b].in_flight /\ a <= b

LeastLoaded(model, now) ==
    LET candidates == EligibleAccounts(model, now)
    IN  {a \in candidates : \A b \in candidates : Precedes(a, b)}

\* Mutant: a binding is used again only on a least-loaded account.
StickyIfLeastLoaded(s, model, now) ==
    /\ s \in DOMAIN sessions
    /\ sessions[s].last_seen_at + SESSION_IDLE_TIMEOUT >= now
    /\ sessions[s].account_id \in LeastLoaded(model, now)

\* The session's binding is used again: recent enough, its account serves.
Sticky(s, model, now) ==
    /\ s \in DOMAIN sessions
    /\ sessions[s].last_seen_at + SESSION_IDLE_TIMEOUT >= now
    /\ sessions[s].account_id \in EligibleAccounts(model, now)

\* The account choose returns, as a set of at most one: empty is the error
\* NoEligibleAccount.
Selection(s, model, now) ==
    IF Sticky(s, model, now)
    THEN {sessions[s].account_id}
    ELSE LeastLoaded(model, now)

WithoutAccount(bindings, a) ==
    Restrict(bindings,
             {s \in DOMAIN bindings : bindings[s].account_id # a})

Bind(s, a, now) ==
    [t \in DOMAIN sessions \cup {s} |->
        IF t = s THEN [account_id |-> a, last_seen_at |-> now]
                 ELSE sessions[t]]

\* choose returning account a.
choose(s, model, now, a) ==
    /\ a \in Selection(s, model, now)
    /\ sessions' = IF s = NoSession THEN sessions ELSE Bind(s, a, now)
    /\ UNCHANGED accounts

\* choose failing: the session's unusable binding is gone all the same.
choose_none(s, model, now) ==
    /\ Selection(s, model, now) = {}
    /\ sessions' = Restrict(sessions, DOMAIN sessions \ {s})
    /\ UNCHANGED accounts

\* Mutant: the count does not saturate.
start_request_unsaturated(a) ==
    /\ a \in DOMAIN accounts
    /\ accounts' = [accounts EXCEPT ![a].in_flight = @ + 1]
    /\ UNCHANGED sessions

start_request(a) ==
    /\ a \in DOMAIN accounts
    /\ accounts' = [accounts EXCEPT ![a].in_flight =
                        IF @ = U32Max THEN @ ELSE @ + 1]
    /\ UNCHANGED sessions

\* The account's entry after an exchange: in_flight falls, saturating at 0;
\* a rejected credential makes it unhealthy, a limit depletes it.
Settled(account, outcome, retry_at) ==
    [enabled |-> account.enabled,
     healthy |-> IF outcome = "Unauthorized" THEN FALSE ELSE account.healthy,
     in_flight |-> IF account.in_flight = 0 THEN 0 ELSE account.in_flight - 1,
     models |-> account.models,
     depleted_until |-> IF outcome \in {"RateLimited", "Overloaded"}
                        THEN retry_at ELSE account.depleted_until]

\* Mutant: a rejected credential does not evict the account's sessions.
record_outcome_keeping(a, outcome, retry_at) ==
    /\ a \in DOMAIN accounts
    /\ accounts' = [accounts EXCEPT ![a] = Settled(@, outcome, retry_at)]
    /\ sessions' = IF outcome \in Evicting \ {"Unauthorized"}
                   THEN WithoutAccount(sessions, a) ELSE sessions

record_outcome(a, outcome, retry_at) ==
    /\ a \in DOMAIN accounts
    /\ accounts' = [accounts EXCEPT ![a] = Settled(@, outcome, retry_at)]
    /\ sessions' = IF outcome \in Evicting
                   THEN WithoutAccount(sessions, a) ELSE sessions

reset_account_health(a) ==
    /\ a \in DOMAIN accounts
    /\ accounts' = [accounts EXCEPT ![a].healthy = TRUE,
                                    ![a].depleted_until = NotDepleted]
    /\ sessions' = WithoutAccount(sessions, a)

\* An entry of the new pool: it keeps the run-time state of the entry it
\* replaces unless the account was paused or resumed in between.
Replacement(a, p) ==
    IF a \in DOMAIN accounts /\ accounts[a].enabled = p.enabled
    THEN [accounts[a] EXCEPT !.models = p.models]
    ELSE FreshAccount(p)

\* Mutant: the sessions of a paused account keep their bindings.
replace_accounts_keeping(snapshot) ==
    /\ accounts' = [a \in DOMAIN snapshot |-> Replacement(a, snapshot[a])]
    /\ sessions' = Restrict(sessions,
                        {s \in DOMAIN sessions :
                            sessions[s].account_id \in DOMAIN snapshot})

replace_accounts(snapshot) ==
    /\ accounts' = [a \in DOMAIN snapshot |-> Replacement(a, snapshot[a])]
    /\ sessions' = Restrict(sessions,
                        {s \in DOMAIN sessions :
                            /\ sessions[s].account_id \in DOMAIN snapshot
                            /\ snapshot[sessions[s].account_id].enabled})

\* session_count drops the idle bindings before it counts.
session_count(now) ==
    /\ sessions' = Restrict(sessions,
                        {s \in DOMAIN sessions :
                            sessions[s].last_seen_at + SESSION_IDLE_TIMEOUT
                                >= now})
    /\ UNCHANGED accounts
-----------------------------------------------------------------------------
(***************************************************************************)
(* The router on its own: any caller, in any order, with any clock reading.*)
(***************************************************************************)
CONSTANT
    Instant   \* clock readings and retry times callers may pass

ASSUME InstantAssumption == Instant \subseteq Nat

Init == \E snapshot \in Snapshot : RouterNew(snapshot)

Choose(s, model, now) ==
    \/ \E a \in Account : choose(s, model, now, a)
    \/ choose_none(s, model, now)

Next ==
    \/ \E s \in Session \cup {NoSession}, m \in ModelName \cup {NoModel},
         now \in Instant :
            Choose(s, m, now)
    \/ \E a \in Account : start_request(a)
    \/ \E a \in Account, o \in Outcome, t \in Instant : record_outcome(a, o, t)
    \/ \E a \in Account : reset_account_health(a)
    \/ \E snapshot \in Snapshot : replace_accounts(snapshot)
    \/ \E now \in Instant : session_count(now)

Spec == Init /\ [][Next]_routerVars
-----------------------------------------------------------------------------
\* Type invariant of the router's pool and bindings.
RouterTypeOK ==
    /\ DOMAIN accounts \subseteq Account
    /\ accounts \in [DOMAIN accounts -> RouteAccount]
    /\ DOMAIN sessions \subseteq Session
    /\ sessions \in [DOMAIN sessions -> SessionBinding]

\* Every sticky binding names an account that is in the pool, enabled and
\* healthy, and that was not depleted when the binding was last used.  It is
\* what the evictions of record_outcome, reset_account_health and
\* replace_accounts (routing.rs:112-116, 127, 220-231) keep true, whatever
\* order the callers' clock readings arrive in.
BindingsServe ==
    \A s \in DOMAIN sessions :
        LET b == sessions[s]
        IN  /\ b.account_id \in DOMAIN accounts
            /\ accounts[b.account_id].enabled
            /\ accounts[b.account_id].healthy
            /\ accounts[b.account_id].depleted_until <= b.last_seen_at

\* A session that changes account in one step.
Moved(s) == sessions[s].account_id # sessions'[s].account_id

MoveAllowed(s) ==
    LET old == accounts[sessions[s].account_id]
        now == sessions'[s].last_seen_at
    IN  \/ sessions[s].last_seen_at + SESSION_IDLE_TIMEOUT < now
        \/ old.depleted_until > now
        \/ \E m \in ModelName : ~ accepted(old.models, m)

\* A bound session moves to another account in one step only if its binding
\* was idle too long, its account was depleted at that call, or the account
\* does not serve every model (choose, routing.rs:152-173): never because
\* some other account was less loaded.
AffinityKept ==
    [][\A s \in DOMAIN sessions \cap DOMAIN sessions' :
            Moved(s) => MoveAllowed(s)]_routerVars
-----------------------------------------------------------------------------
(***************************************************************************)
(* The abstract view of the router's state.                                *)
(***************************************************************************)
Serving == {a \in DOMAIN accounts : accounts[a].enabled /\ accounts[a].healthy}

Bound == [s \in DOMAIN sessions |-> sessions[s].account_id]

Promise == INSTANCE StickySessions WITH serving <- Serving, bound <- Bound

\* The router implements the sticky-session promise: no operation leaves a
\* session on an account that went out of service, and none drops a session
\* for a change of service that does not concern its account
\* (routing.rs:95-235).
ImplementsStickySessions == Promise!Spec
=============================================================================
