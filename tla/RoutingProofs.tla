---------------------------- MODULE RoutingProofs ----------------------------
(***************************************************************************)
(* Proofs about the router for any accounts, sessions, models, idle        *)
(* timeout and clock readings.                                             *)
(***************************************************************************)
EXTENDS Routing, TLAPS

\* The run-time fields replace_accounts carries over keep an entry typed.
LEMMA ReplacementType ==
    ASSUME RouterTypeOK, NEW a \in Account, NEW p \in Profile
    PROVE  Replacement(a, p) \in RouteAccount
BY RoutingAssumption
   DEF RouterTypeOK, Replacement, FreshAccount, RouteAccount, Profile,
       NotDepleted

\* An exchange's effect keeps an entry typed, in_flight saturating at 0.
LEMMA SettledType ==
    ASSUME NEW acc \in RouteAccount, NEW o \in Outcome, NEW t \in Nat
    PROVE  Settled(acc, o, t) \in RouteAccount
<1> DEFINE new == Settled(acc, o, t)
<1>1. new.in_flight \in 0 .. U32Max
    BY RoutingAssumption DEF Settled, RouteAccount
<1>2. new.healthy \in BOOLEAN /\ new.depleted_until \in Nat
    BY Zenon DEF Settled, RouteAccount
<1> QED BY <1>1, <1>2, Zenon DEF Settled, RouteAccount

\* A snapshot gives each of its accounts a profile.
LEMMA SnapshotShape ==
    ASSUME NEW snapshot \in Snapshot
    PROVE  /\ DOMAIN snapshot \subseteq Account
           /\ \A a \in DOMAIN snapshot : snapshot[a] \in Profile
BY DEF Snapshot

LEMMA TypeInit == Init => RouterTypeOK
<1> SUFFICES ASSUME NEW snapshot \in Snapshot, RouterNew(snapshot)
             PROVE  RouterTypeOK
    BY DEF Init
<1> QED
    BY SnapshotShape, RoutingAssumption
    DEF RouterNew, RouterTypeOK, FreshAccount, RouteAccount, Profile,
        NotDepleted, NoBindings

LEMMA TypeStep == RouterTypeOK /\ [Next]_routerVars => RouterTypeOK'
<1> SUFFICES ASSUME RouterTypeOK, [Next]_routerVars PROVE RouterTypeOK'
    OBVIOUS
<1> USE InstantAssumption, RoutingAssumption
<1>1. ASSUME NEW s \in Session \cup {NoSession},
             NEW m \in ModelName \cup {NoModel}, NEW now \in Instant,
             Choose(s, m, now)
      PROVE  RouterTypeOK'
  <2>1. ASSUME NEW a \in Account, choose(s, m, now, a)
        PROVE  RouterTypeOK'
    BY <2>1 DEF choose, Bind, RouterTypeOK, SessionBinding
  <2>2. CASE choose_none(s, m, now)
    BY <2>2 DEF choose_none, Restrict, RouterTypeOK
  <2> QED BY <1>1, <2>1, <2>2 DEF Choose
<1>2. ASSUME NEW a \in Account, start_request(a) PROVE RouterTypeOK'
    BY <1>2 DEF start_request, RouterTypeOK, RouteAccount
<1>3. ASSUME NEW a \in Account, NEW o \in Outcome, NEW t \in Instant,
             record_outcome(a, o, t)
      PROVE  RouterTypeOK'
  <2>1. Settled(accounts[a], o, t) \in RouteAccount
    BY <1>3, SettledType DEF record_outcome, RouterTypeOK
  <2> QED
    BY <1>3, <2>1 DEF record_outcome, WithoutAccount, Restrict, RouterTypeOK
<1>4. ASSUME NEW a \in Account, reset_account_health(a) PROVE RouterTypeOK'
  <2> DEFINE fresh == [accounts[a] EXCEPT !.healthy = TRUE,
                                         !.depleted_until = NotDepleted]
  <2>1. a \in DOMAIN accounts /\ accounts' = [accounts EXCEPT ![a] = fresh]
    BY <1>4, Zenon DEF reset_account_health
  <2>2. fresh \in RouteAccount
    BY <2>1, Zenon DEF RouterTypeOK, RouteAccount, NotDepleted
  <2>3. /\ DOMAIN sessions' \subseteq Session
        /\ sessions' \in [DOMAIN sessions' -> SessionBinding]
    BY <1>4 DEF reset_account_health, WithoutAccount, Restrict, RouterTypeOK
  <2> HIDE DEF fresh
  <2> QED BY <2>1, <2>2, <2>3 DEF RouterTypeOK
<1>5. ASSUME NEW snapshot \in Snapshot, replace_accounts(snapshot)
      PROVE  RouterTypeOK'
  <2>1. \A a \in DOMAIN snapshot :
            Replacement(a, snapshot[a]) \in RouteAccount
    BY ReplacementType, SnapshotShape, Zenon
  <2> QED
    BY <1>5, <2>1, SnapshotShape DEF replace_accounts, Restrict, RouterTypeOK
<1>6. ASSUME NEW now \in Instant, session_count(now) PROVE RouterTypeOK'
    BY <1>6 DEF session_count, Restrict, RouterTypeOK
<1>7. CASE UNCHANGED routerVars
    BY <1>7 DEF routerVars, RouterTypeOK
<1> QED BY <1>1, <1>2, <1>3, <1>4, <1>5, <1>6, <1>7 DEF Next

\* The pool and the bindings keep their types, in_flight within its width.
THEOREM RouterTyped == Spec => []RouterTypeOK
<1> QED BY TypeInit, TypeStep, PTL DEF Spec
-----------------------------------------------------------------------------
\* An entry that replaces an enabled one and is enabled itself keeps the
\* health and the depletion of the entry it replaces.
LEMMA ReplacementKeepsHealth ==
    ASSUME RouterTypeOK, NEW a \in DOMAIN accounts, NEW p \in Profile,
           accounts[a].enabled, p.enabled
    PROVE  /\ Replacement(a, p).enabled
           /\ Replacement(a, p).healthy = accounts[a].healthy
           /\ Replacement(a, p).depleted_until = accounts[a].depleted_until
BY DEF RouterTypeOK, Replacement, RouteAccount, Profile

LEMMA BindingsInit == Init => BindingsServe
BY DEF Init, RouterNew, NoBindings, BindingsServe

LEMMA BindingsStep ==
    RouterTypeOK /\ BindingsServe /\ [Next]_routerVars => BindingsServe'
<1> SUFFICES ASSUME RouterTypeOK, BindingsServe, [Next]_routerVars
             PROVE  BindingsServe'
    OBVIOUS
<1> USE InstantAssumption, RoutingAssumption
<1>1. ASSUME NEW s \in Session \cup {NoSession},
             NEW m \in ModelName \cup {NoModel}, NEW now \in Instant,
             Choose(s, m, now)
      PROVE  BindingsServe'
  <2>1. ASSUME NEW a \in Account, choose(s, m, now, a)
        PROVE  BindingsServe'
    <3>1. a \in EligibleAccounts(m, now)
      BY <2>1 DEF choose, Selection, Sticky, LeastLoaded
    <3>2. CASE s = NoSession
      BY <2>1, <3>2 DEF choose, BindingsServe
    <3>3. CASE s # NoSession
      <4>1. sessions' = Bind(s, a, now) /\ accounts' = accounts
        BY <2>1, <3>3 DEF choose
      <4> QED
        BY <3>1, <4>1 DEF EligibleAccounts, eligible, Bind, BindingsServe
    <3> QED BY <3>2, <3>3
  <2>2. CASE choose_none(s, m, now)
    BY <2>2 DEF choose_none, Restrict, BindingsServe
  <2> QED BY <1>1, <2>1, <2>2 DEF Choose
<1>2. ASSUME NEW a \in Account, start_request(a) PROVE BindingsServe'
    BY <1>2 DEF start_request, RouterTypeOK, RouteAccount, BindingsServe
<1>3. ASSUME NEW a \in Account, NEW o \in Outcome, NEW t \in Instant,
             record_outcome(a, o, t)
      PROVE  BindingsServe'
  <2>1. CASE o \in Evicting
    \* The bindings that are left are to other accounts, whose entries stay.
    BY <1>3, <2>1 DEF record_outcome, WithoutAccount, Restrict, RouterTypeOK,
                      BindingsServe
  <2>2. CASE o \notin Evicting
    \* A success changes in_flight alone.
    <3>1. /\ Settled(accounts[a], o, t).enabled = accounts[a].enabled
          /\ Settled(accounts[a], o, t).healthy = accounts[a].healthy
          /\ Settled(accounts[a], o, t).depleted_until
                = accounts[a].depleted_until
      BY <1>3, <2>2, Zenon
      DEF record_outcome, RouterTypeOK, RouteAccount, Settled,
                        Evicting
    <3> QED
      BY <1>3, <2>2, <3>1 DEF record_outcome, RouterTypeOK, BindingsServe
  <2> QED BY <2>1, <2>2
<1>4. ASSUME NEW a \in Account, reset_account_health(a) PROVE BindingsServe'
    BY <1>4 DEF reset_account_health, WithoutAccount, Restrict, RouterTypeOK,
                BindingsServe
<1>5. ASSUME NEW snapshot \in Snapshot, replace_accounts(snapshot)
      PROVE  BindingsServe'
  <2> SUFFICES ASSUME NEW s \in DOMAIN sessions'
               PROVE  LET b == sessions'[s]
                      IN  /\ b.account_id \in DOMAIN accounts'
                          /\ accounts'[b.account_id].enabled
                          /\ accounts'[b.account_id].healthy
                          /\ accounts'[b.account_id].depleted_until
                                <= b.last_seen_at
      BY DEF BindingsServe
  <2> DEFINE a == sessions[s].account_id
  <2>1. /\ s \in DOMAIN sessions
        /\ sessions'[s] = sessions[s]
        /\ a \in DOMAIN snapshot
        /\ snapshot[a].enabled
    BY <1>5 DEF replace_accounts, Restrict
  <2>2. /\ a \in DOMAIN accounts
        /\ accounts[a].enabled
        /\ accounts[a].healthy
        /\ accounts[a].depleted_until <= sessions[s].last_seen_at
    BY <2>1 DEF BindingsServe
  <2>3. /\ a \in DOMAIN accounts'
        /\ accounts'[a] = Replacement(a, snapshot[a])
    BY <1>5, <2>1 DEF replace_accounts
  <2>4. /\ Replacement(a, snapshot[a]).enabled
        /\ Replacement(a, snapshot[a]).healthy = accounts[a].healthy
        /\ Replacement(a, snapshot[a]).depleted_until
              = accounts[a].depleted_until
    <3>1. snapshot[a] \in Profile
      BY <2>1, SnapshotShape
    <3> QED BY <2>1, <2>2, <3>1, ReplacementKeepsHealth, Zenon
  <2> QED BY <2>1, <2>2, <2>3, <2>4
<1>6. ASSUME NEW now \in Instant, session_count(now) PROVE BindingsServe'
    BY <1>6 DEF session_count, Restrict, BindingsServe
<1>7. CASE UNCHANGED routerVars
    BY <1>7 DEF routerVars, BindingsServe
<1> QED BY <1>1, <1>2, <1>3, <1>4, <1>5, <1>6, <1>7 DEF Next

\* Every sticky binding names an enabled, healthy account of the pool that
\* was not depleted at the binding's last use (routing.rs:95-235).
THEOREM BindingsAlwaysServe == Spec => []BindingsServe
<1> QED BY RouterTyped, BindingsInit, BindingsStep, PTL DEF Spec
-----------------------------------------------------------------------------
\* A session keeps its account across a step other than choose.
LEMMA AffinityStep ==
    ASSUME RouterTypeOK, BindingsServe, [Next]_routerVars,
           NEW s \in DOMAIN sessions \cap DOMAIN sessions', Moved(s)
    PROVE  MoveAllowed(s)
<1> USE InstantAssumption, RoutingAssumption
<1>1. ASSUME NEW u \in Session \cup {NoSession},
             NEW m \in ModelName \cup {NoModel}, NEW now \in Instant,
             Choose(u, m, now)
      PROVE  MoveAllowed(s)
  <2>1. ASSUME NEW a \in Account, choose(u, m, now, a)
        PROVE  MoveAllowed(s)
    <3>1. u = s /\ sessions'[s].last_seen_at = now /\ ~ Sticky(s, m, now)
      BY <2>1 DEF choose, Bind, Moved, Selection
    <3>2. /\ sessions[s].account_id \in DOMAIN accounts
          /\ accounts[sessions[s].account_id].enabled
          /\ accounts[sessions[s].account_id].healthy
      BY DEF BindingsServe
    <3>3. CASE ~ (sessions[s].last_seen_at + SESSION_IDLE_TIMEOUT >= now)
      BY <3>1, <3>3 DEF MoveAllowed, RouterTypeOK, SessionBinding
    <3>4. CASE sessions[s].account_id \notin EligibleAccounts(m, now)
      <4>1. \/ ~ (accounts[sessions[s].account_id].depleted_until <= now)
            \/ /\ m # NoModel
               /\ ~ accepted(accounts[sessions[s].account_id].models, m)
        BY <3>2, <3>4 DEF EligibleAccounts, eligible
      <4> QED
        BY <3>1, <3>2, <4>1 DEF MoveAllowed, RouterTypeOK, RouteAccount
    <3> QED BY <3>1, <3>3, <3>4 DEF Sticky
  <2>2. CASE choose_none(u, m, now)
    BY <2>2 DEF choose_none, Restrict, Moved
  <2> QED BY <1>1, <2>1, <2>2 DEF Choose
<1>2. ASSUME NEW a \in Account, start_request(a) PROVE MoveAllowed(s)
    BY <1>2 DEF start_request, Moved
<1>3. ASSUME NEW a \in Account, NEW o \in Outcome, NEW t \in Instant,
             record_outcome(a, o, t)
      PROVE  MoveAllowed(s)
    BY <1>3 DEF record_outcome, WithoutAccount, Restrict, Moved
<1>4. ASSUME NEW a \in Account, reset_account_health(a) PROVE MoveAllowed(s)
    BY <1>4 DEF reset_account_health, WithoutAccount, Restrict, Moved
<1>5. ASSUME NEW snapshot \in Snapshot, replace_accounts(snapshot)
      PROVE  MoveAllowed(s)
    BY <1>5 DEF replace_accounts, Restrict, Moved
<1>6. ASSUME NEW now \in Instant, session_count(now) PROVE MoveAllowed(s)
    BY <1>6 DEF session_count, Restrict, Moved
<1>7. CASE UNCHANGED routerVars
    BY <1>7 DEF routerVars, Moved
<1> QED BY <1>1, <1>2, <1>3, <1>4, <1>5, <1>6, <1>7 DEF Next

\* A bound session leaves its account for another only when the binding was
\* idle, the account depleted, or the model not served (routing.rs:152-173).
THEOREM AffinityHolds == Spec => AffinityKept
<1>1. RouterTypeOK /\ BindingsServe /\ [Next]_routerVars
        => [\A s \in DOMAIN sessions \cap DOMAIN sessions' :
                Moved(s) => MoveAllowed(s)]_routerVars
    BY AffinityStep
<1> QED
    BY <1>1, RouterTyped, BindingsAlwaysServe, PTL DEF Spec, AffinityKept
-----------------------------------------------------------------------------
LEMMA PromiseInit == Init => Promise!Init
<1> SUFFICES ASSUME NEW snapshot \in Snapshot, RouterNew(snapshot)
             PROVE  Promise!Init
    BY DEF Init
<1>1. Serving \in SUBSET Account
    BY SnapshotShape DEF RouterNew, Serving
<1>2. Bound = [s \in {} |-> 0]
    BY DEF RouterNew, NoBindings, Bound
<1> QED BY <1>1, <1>2 DEF Promise!Init

\* Dropping the bindings of account a, seen abstractly.
LEMMA WithoutAccountBound ==
    ASSUME NEW a \in Account, sessions' = WithoutAccount(sessions, a)
    PROVE  Bound' = Restrict(Bound, {s \in DOMAIN Bound : Bound[s] # a})
BY DEF WithoutAccount, Restrict, Bound

LEMMA PromiseStep ==
    ASSUME RouterTypeOK, RouterTypeOK', BindingsServe, BindingsServe',
           [Next]_routerVars
    PROVE  [Promise!Next]_<<Serving, Bound>>
<1> USE InstantAssumption, RoutingAssumption
<1>a. Serving' \in SUBSET Account
    BY DEF RouterTypeOK, Serving
<1>1. ASSUME NEW s \in Session \cup {NoSession},
             NEW m \in ModelName \cup {NoModel}, NEW now \in Instant,
             Choose(s, m, now)
      PROVE  [Promise!Next]_<<Serving, Bound>>
  <2>1. ASSUME NEW a \in Account, choose(s, m, now, a)
        PROVE  [Promise!Next]_<<Serving, Bound>>
    <3>1. a \in Serving
      BY <2>1 DEF choose, Selection, Sticky, LeastLoaded, EligibleAccounts,
                  eligible, Serving
    <3>2. Serving' = Serving
      BY <2>1 DEF choose, Serving
    <3>3. CASE s = NoSession
      BY <2>1, <3>2, <3>3 DEF choose, Bound
    <3>4. CASE s # NoSession
      <4>1. Bound' = [t \in DOMAIN Bound \cup {s} |->
                          IF t = s THEN a ELSE Bound[t]]
        BY <2>1, <3>4 DEF choose, Bind, Bound
      <4>2. s \in Session
        BY <3>4
      <4> QED BY <3>1, <3>2, <4>1, <4>2 DEF Promise!Next, Promise!Place
    <3> QED BY <3>3, <3>4
  <2>2. CASE choose_none(s, m, now)
    <3>1. Serving' = Serving
      BY <2>2 DEF choose_none, Serving
    <3>2. Bound' = Restrict(Bound, DOMAIN Bound \ {s})
      BY <2>2 DEF choose_none, Restrict, Bound
    <3>3. DOMAIN Bound \ {s} = DOMAIN Bound \ ({s} \cap Session)
      BY DEF Bound, RouterTypeOK
    <3>4. Promise!Release({s} \cap Session)
      BY <3>1, <3>2, <3>3 DEF Promise!Release, Promise!Restrict, Restrict
    <3> QED BY <3>4 DEF Promise!Next
  <2> QED BY <1>1, <2>1, <2>2 DEF Choose
<1>2. ASSUME NEW a \in Account, start_request(a)
      PROVE  UNCHANGED <<Serving, Bound>>
    BY <1>2 DEF start_request, Serving, Bound, RouterTypeOK, RouteAccount
<1>3. ASSUME NEW a \in Account, NEW o \in Outcome, NEW t \in Instant,
             record_outcome(a, o, t)
      PROVE  [Promise!Next]_<<Serving, Bound>>
  <2>1. CASE o = "Unauthorized"
    <3>1. Serving' = Serving \ {a}
      BY <1>3, <2>1 DEF record_outcome, Serving, Settled, RouterTypeOK
    <3>2. Bound' = Restrict(Bound, {s \in DOMAIN Bound : Bound[s] # a})
      BY <1>3, <2>1, WithoutAccountBound DEF record_outcome, Evicting
    <3>3. \A s \in DOMAIN Bound : Bound[s] # a <=> Bound[s] \in Serving'
      BY <3>1 DEF Bound, Serving, BindingsServe
    <3>4. Promise!ChangeService(Serving')
      BY <3>2, <3>3 DEF Promise!ChangeService, Promise!Restrict, Restrict
    <3> QED BY <1>a, <3>4 DEF Promise!Next
  <2>2. CASE o # "Unauthorized"
    <3>1. Serving' = Serving
      BY <1>3, <2>2 DEF record_outcome, Serving, Settled, RouterTypeOK
    <3>2. CASE o \in Evicting
      <4>1. Promise!Evict(a)
        BY <1>3, <3>1, <3>2, WithoutAccountBound
        DEF record_outcome, Promise!Evict, Promise!Restrict, Restrict
      <4> QED BY <4>1 DEF Promise!Next
    <3>3. CASE o \notin Evicting
      BY <1>3, <3>1, <3>3 DEF record_outcome, Bound
    <3> QED BY <3>2, <3>3
  <2> QED BY <2>1, <2>2
<1>4. ASSUME NEW a \in Account, reset_account_health(a)
      PROVE  Promise!Next
  <2>1. Bound' = Restrict(Bound, {s \in DOMAIN Bound : Bound[s] # a})
    BY <1>4, WithoutAccountBound DEF reset_account_health
  <2>2. CASE a \in Serving
    <3>1. Serving' = Serving
      BY <1>4, <2>2 DEF reset_account_health, Serving, RouterTypeOK,
                        RouteAccount
    <3>2. Promise!Evict(a)
      BY <2>1, <3>1 DEF Promise!Evict, Promise!Restrict, Restrict
    <3> QED BY <3>2 DEF Promise!Next
  <2>3. CASE a \notin Serving
    <3>1. Serving \subseteq Serving'
      BY <1>4, <2>3 DEF reset_account_health, Serving, RouterTypeOK,
                        RouteAccount
    <3>2. \A s \in DOMAIN Bound : Bound[s] # a /\ Bound[s] \in Serving'
      BY <2>3, <3>1 DEF Bound, Serving, BindingsServe
    <3>3. Promise!ChangeService(Serving')
      BY <2>1, <3>2 DEF Promise!ChangeService, Promise!Restrict, Restrict
    <3> QED BY <1>a, <3>3 DEF Promise!Next
  <2> QED BY <2>2, <2>3
<1>5. ASSUME NEW snapshot \in Snapshot, replace_accounts(snapshot)
      PROVE  Promise!Next
  <2> DEFINE kept == {s \in DOMAIN sessions :
                        /\ sessions[s].account_id \in DOMAIN snapshot
                        /\ snapshot[sessions[s].account_id].enabled}
  <2>1. sessions' = Restrict(sessions, kept)
    BY <1>5 DEF replace_accounts
  <2>2. \A s \in DOMAIN sessions :
            s \in kept <=> sessions[s].account_id \in Serving'
    <3> SUFFICES ASSUME NEW s \in DOMAIN sessions
                 PROVE  s \in kept <=> sessions[s].account_id \in Serving'
        OBVIOUS
    <3> DEFINE a == sessions[s].account_id
    <3>1. CASE s \in kept
      <4>1. s \in DOMAIN sessions' /\ sessions'[s] = sessions[s]
        BY <2>1, <3>1 DEF Restrict
      <4> QED BY <3>1, <4>1 DEF BindingsServe, Serving
    <3>2. CASE s \notin kept
      <4>1. CASE a \notin DOMAIN snapshot
        BY <1>5, <3>2, <4>1 DEF replace_accounts, Serving
      <4>2. CASE a \in DOMAIN snapshot /\ ~ snapshot[a].enabled
        <5>1. snapshot[a] \in Profile /\ a \in Account
          BY <4>2, SnapshotShape
        <5>2. ~ Replacement(a, snapshot[a]).enabled
          BY <4>2, <5>1
          DEF Replacement, FreshAccount, Profile, RouterTypeOK, RouteAccount
        <5>3. ~ accounts'[a].enabled
          BY <1>5, <4>2, <5>2 DEF replace_accounts
        <5> QED BY <3>2, <5>3 DEF Serving
      <4> QED BY <3>2, <4>1, <4>2
    <3> QED BY <3>1, <3>2
  <2>3. Bound' = [s \in {u \in DOMAIN Bound : Bound[u] \in Serving'}
                    |-> Bound[s]]
    BY <2>1, <2>2 DEF Bound, Restrict
  <2>4. Promise!ChangeService(Serving')
    BY <2>3 DEF Promise!ChangeService, Promise!Restrict
  <2> QED BY <1>a, <2>4 DEF Promise!Next
<1>6. ASSUME NEW now \in Instant, session_count(now)
      PROVE  Promise!Next
  <2> DEFINE kept == {s \in DOMAIN sessions :
                  sessions[s].last_seen_at + SESSION_IDLE_TIMEOUT >= now}
             idle == DOMAIN sessions \ kept
  <2>1. Serving' = Serving
    BY <1>6 DEF session_count, Serving
  <2>2. Bound' = [s \in DOMAIN Bound \ idle |-> Bound[s]]
    BY <1>6 DEF session_count, Restrict, Bound
  <2>3. idle \in SUBSET Session
    BY DEF RouterTypeOK
  <2>4. Promise!Release(idle)
    BY <2>1, <2>2 DEF Promise!Release, Promise!Restrict
  <2> QED BY <2>3, <2>4 DEF Promise!Next
<1>7. CASE UNCHANGED routerVars
    BY <1>7 DEF routerVars, Serving, Bound
<1> QED BY <1>1, <1>2, <1>3, <1>4, <1>5, <1>6, <1>7 DEF Next

\* The router implements the sticky-session promise for every pool, every
\* set of sessions and every order of clock readings (routing.rs:95-235).
THEOREM RouterImplementsPromise == Spec => ImplementsStickySessions
<1>1. RouterTypeOK /\ RouterTypeOK' /\ BindingsServe /\ BindingsServe'
        /\ [Next]_routerVars => [Promise!Next]_<<Serving, Bound>>
    BY PromiseStep
<1> QED
    BY <1>1, PromiseInit, RouterTyped, BindingsAlwaysServe, PTL
    DEF Spec, ImplementsStickySessions, Promise!Spec, Promise!pool
-----------------------------------------------------------------------------
(***************************************************************************)
(* The router's eligibility test and the request's model resolution read   *)
(* an account's model map independently (routing.rs:244, providers.rs:115):*)
(* they agree.                                                             *)
(***************************************************************************)
\* An account with a model map is eligible for a model (accepted,
\* models.rs:20-25) exactly if the map has an upstream name for it (resolve,
\* models.rs:12-18): a routed request never carries an unmapped name upstream
\* because the two disagree.
THEOREM AcceptedIffResolved ==
    ASSUME NEW mapping, NEW m \in ModelName, DOMAIN mapping # {}
    PROVE  accepted(DOMAIN mapping, m) <=> resolve(mapping, m) # {}
<1>1. CASE m \in DOMAIN mapping
    BY <1>1 DEF accepted, resolve
<1>2. CASE m \notin DOMAIN mapping /\ family(m) \cap DOMAIN mapping # {}
  <2>1. resolve(mapping, m)
            = {mapping[k] : k \in family(m) \cap DOMAIN mapping}
    BY <1>2 DEF resolve
  <2> QED BY <1>2, <2>1 DEF accepted
<1>3. CASE m \notin DOMAIN mapping /\ family(m) \cap DOMAIN mapping = {}
    BY <1>3 DEF accepted, resolve
<1> QED BY <1>1, <1>2, <1>3
=============================================================================
