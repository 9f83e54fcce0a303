------------------------------ MODULE DataPlane ------------------------------
(***************************************************************************)
(* Client requests through the data plane (src/src/data_plane.rs),         *)
(* composed with the control plane: the same store, the same router.       *)
(*                                                                         *)
(* The steps of a request are the critical sections of DataPlane::handle.  *)
(* It reads the clock once, on arrival; the credential snapshot, the       *)
(* choice of an account, the loaded account and the outcome all use that   *)
(* reading, while other requests, administrator calls and refreshes run in *)
(* between.  A request may be dropped with its connection while it waits   *)
(* for the router mutex or for the upstream.                               *)
(*                                                                         *)
(* Abstractions.  A presented token is the id of the ciphertext it is the  *)
(* plaintext of, NoToken for a missing or unknown one.  Bodies, headers    *)
(* and signatures are left out; that one of them makes the request fail is *)
(* a nondeterministic choice at the step where the code would notice.      *)
(***************************************************************************)
EXTENDS ControlPlane

CONSTANTS
    Request,             \* client requests, each made at most once
    AuthMode,            \* "off", "observe" or "enforce"
    Token,               \* tokens clients present
    Disconnects,         \* TRUE if clients may disconnect
    RetryHeader,         \* values of Retry-After, 0 for absent or not a number
    MaxRetryAfter,       \* the largest Retry-After taken (3600)
    RateLimitFallback,   \* 60
    OverloadFallback     \* 30

VARIABLES
    requests,      \* each request's program counter and locals
    metrics,       \* the data plane's counters
    proxy_audit    \* audit rows of requests: request -> outcome

dataVars == <<requests, metrics, proxy_audit>>

allVars == <<controlVars, dataVars>>

ASSUME DataAssumption ==
    /\ AuthMode \in {"off", "observe", "enforce"}
    /\ Token \subseteq Nat
    /\ Disconnects \in BOOLEAN
    /\ RetryHeader \subseteq Nat
    /\ MaxRetryAfter \in Nat
    /\ RateLimitFallback \in Nat
    /\ OverloadFallback \in Nat
    /\ MaxTime + MaxRetryAfter <= Horizon
    /\ MaxTime + RateLimitFallback <= Horizon
    /\ MaxTime + OverloadFallback <= Horizon

NoToken == 0

NotArrived ==
    [pc |-> "idle", token |-> NoToken, session |-> NoSession,
     model |-> NoModel, now |-> 0, account |-> 0, sent |-> FALSE,
     answer |-> "none"]

Metrics == {"requests_total", "authentication_failures_total",
            "upstream_failures_total", "responses_total"}

DataInit ==
    /\ ControlInit
    /\ requests = [r \in Request |-> NotArrived]
    /\ metrics = [m \in Metrics |-> 0]
    /\ proxy_audit = Empty

\* The answer to the client; the locals are gone but the account and whether
\* anything was sent upstream, which the properties speak of.
Answer(r, answer) ==
    requests' = [requests EXCEPT ![r] =
        [NotArrived EXCEPT !.pc = "done", !.account = requests[r].account,
                           !.sent = requests[r].sent, !.answer = answer]]

Proceed(r, pc) == requests' = [requests EXCEPT ![r].pc = pc]

Counted(m) == metrics' = [metrics EXCEPT ![m] = @ + 1]

\* Mutant: the row is filed under the account.
append_audit_by_account(r, outcome) ==
    proxy_audit' = With(proxy_audit, requests[r].account, outcome)

\* append_proxy_audit: its failure is ignored.
append_proxy_audit(r, outcome) ==
    \/ proxy_audit' = With(proxy_audit, r, outcome)
    \/ StoreFaults /\ UNCHANGED proxy_audit

RouterUnchanged == UNCHANGED <<accounts, sessions>>

ControlUnchanged == UNCHANGED <<storeVars, calls, audit, refresher, clock>>
-----------------------------------------------------------------------------
\* The request is counted, its size and its token headers are checked and
\* the clock is read.
Arrive(r, token, s, model) ==
    /\ requests[r].pc = "idle"
    /\ Counted("requests_total")
    /\ \/ Answer(r, "bad_request")
       \/ Answer(r, "unauthorized")
       \/ requests' = [requests EXCEPT ![r] =
              [NotArrived EXCEPT !.pc = "authenticate", !.token = token,
                                 !.session = s, !.model = model,
                                 !.now = clock]]
    /\ UNCHANGED proxy_audit
    /\ RouterUnchanged

\* authorize, over a snapshot of the credentials that are stored now.
authorize(token, now) == AuthMode # "enforce" \/ token \in Members(now)

ObservedFailure(token, now) == AuthMode = "observe" /\ token \notin Members(now)

\* The snapshot is taken in every mode, before authorize looks at the mode.
SnapshotFails(r) ==
    /\ requests[r].pc = "authenticate"
    /\ ~ credential_snapshot_ok(requests[r].now) \/ StoreFaults
    /\ Answer(r, "store_unavailable")
    /\ UNCHANGED <<metrics, proxy_audit>>
    /\ RouterUnchanged

Authenticate(r) ==
    LET token == requests[r].token
        now == requests[r].now
    IN  /\ requests[r].pc = "authenticate"
        /\ credential_snapshot_ok(now)
        /\ \/ /\ ~ authorize(token, now)
              /\ Counted("authentication_failures_total")
              /\ append_proxy_audit(r, "authentication_failed")
              /\ Answer(r, "unauthorized")
           \/ /\ authorize(token, now)
              /\ IF ObservedFailure(token, now)
                 THEN Counted("authentication_failures_total")
                 ELSE UNCHANGED metrics
              /\ Proceed(r, "route") \/ Answer(r, "bad_request")
              /\ UNCHANGED proxy_audit
        /\ RouterUnchanged

Route(r) ==
    LET q == requests[r]
    IN  /\ q.pc = "route"
        /\ \/ \E a \in Account :
                /\ R!choose(q.session, q.model, q.now, a)
                /\ requests' = [requests EXCEPT ![r].pc = "load",
                                                ![r].account = a]
           \/ /\ R!choose_none(q.session, q.model, q.now)
              /\ Answer(r, "no_capacity")
        /\ UNCHANGED <<metrics, proxy_audit>>

\* load_account does not look at enabled.  Preparing, signing or copying
\* headers may fail on what the request or the account holds.
Load(r) ==
    /\ requests[r].pc = "load"
    /\ \/ /\ load_account_ok(requests[r].account)
          /\ \/ Proceed(r, "start")
             \/ Answer(r, "upstream_unavailable")
             \/ Answer(r, "bad_request")
       \/ /\ ~ load_account_ok(requests[r].account)
          /\ Answer(r, "no_capacity")
       \/ /\ StoreFaults
          /\ Answer(r, "store_unavailable")
    /\ UNCHANGED <<metrics, proxy_audit>>
    /\ RouterUnchanged

Start(r) ==
    LET a == requests[r].account
    IN  /\ requests[r].pc = "start"
        /\ \/ /\ R!start_request(a)
              /\ requests' = [requests EXCEPT ![r].pc = "sent",
                                              ![r].sent = TRUE]
           \/ /\ a \notin DOMAIN accounts
              /\ Answer(r, "no_capacity")
              /\ RouterUnchanged
        /\ UNCHANGED <<metrics, proxy_audit>>
-----------------------------------------------------------------------------
Status == {"2xx", "4xx", "401", "403", "429", "529", "5xx"}

retry_after(header, fallback) ==
    IF header \in 1 .. MaxRetryAfter THEN header ELSE fallback

classify_status(status) ==
    CASE status \in {"401", "403"} -> "Unauthorized"
      [] status = "429" -> "RateLimited"
      [] status = "529" -> "Overloaded"
      [] status = "5xx" -> "TransientFailure"
      [] OTHER -> "Success"

retry_at(status, header, now) ==
    CASE status = "429" -> now + retry_after(header, RateLimitFallback)
      [] status = "529" -> now + retry_after(header, OverloadFallback)
      [] OTHER -> 0

\* The upstream answered.  The outcome is recorded before anything is counted
\* or audited; when the router no longer knows the account the client gets
\* an error in place of the answer.
Settle(r, status, header) ==
    LET q == requests[r]
    IN  /\ q.pc = "sent"
        /\ \/ /\ R!record_outcome(q.account, classify_status(status),
                                  retry_at(status, header, q.now))
              /\ Counted("responses_total")
              /\ append_proxy_audit(r, classify_status(status))
              /\ Answer(r, "upstream")
           \/ /\ q.account \notin DOMAIN accounts
              /\ Answer(r, "no_capacity")
              /\ UNCHANGED <<metrics, proxy_audit>>
              /\ RouterUnchanged

\* Mutant: a transport failure returns before it is recorded.
TransportFailsEarly(r) ==
    /\ requests[r].pc = "sent"
    /\ Answer(r, "upstream_unavailable")
    /\ UNCHANGED <<metrics, proxy_audit>>
    /\ RouterUnchanged

\* The transport failed; that the router does not know the account any more
\* is ignored.
TransportFails(r) ==
    LET a == requests[r].account
    IN  /\ requests[r].pc = "sent"
        /\ \/ R!record_outcome(a, "TransientFailure", 0)
           \/ a \notin DOMAIN accounts /\ RouterUnchanged
        /\ Counted("upstream_failures_total")
        /\ append_proxy_audit(r, "transport_failure")
        /\ Answer(r, "upstream_unavailable")

\* The handler's future is dropped at an await; nothing runs in its place.
Disconnect(r) ==
    /\ Disconnects
    /\ requests[r].pc \in {"route", "start", "sent"}
    /\ Proceed(r, IF requests[r].pc = "sent" THEN "lost" ELSE "dropped")
    /\ UNCHANGED <<metrics, proxy_audit>>
    /\ RouterUnchanged

RequestStep(r) ==
    \/ SnapshotFails(r)
    \/ Authenticate(r)
    \/ Route(r)
    \/ Load(r)
    \/ Start(r)
    \/ \E status \in Status, header \in RetryHeader : Settle(r, status, header)
    \/ TransportFails(r)

\* The dashboard's session call counts the bindings and drops the idle ones.
sticky_session_count ==
    /\ R!session_count(clock)
    /\ UNCHANGED dataVars

DataNext ==
    \/ ControlNext /\ UNCHANGED dataVars
    \/ /\ ControlUnchanged
       /\ \/ \E r \in Request, token \in Token,
               s \in Session \cup {NoSession}, m \in ModelName \cup {NoModel} :
                  Arrive(r, token, s, m)
          \/ \E r \in Request : RequestStep(r)
          \/ \E r \in Request : Disconnect(r)
          \/ sticky_session_count

DataSpec == DataInit /\ [][DataNext]_allVars
-----------------------------------------------------------------------------
\* Type invariant of the composed system.
DataTypeOK ==
    /\ ControlTypeOK
    /\ \A r \in Request :
        /\ requests[r].pc \in {"idle", "authenticate", "route", "load",
                               "start", "sent", "done", "lost", "dropped"}
        /\ requests[r].account \in Account \cup {0}
    /\ metrics \in [Metrics -> Nat]
    /\ DOMAIN proxy_audit \subseteq Request

\* Requests that wait for the upstream with account a.
Waiting(a) ==
    {r \in Request : requests[r].pc = "sent" /\ requests[r].account = a}

Lost(a) == {r \in Request : requests[r].pc = "lost" /\ requests[r].account = a}

\* in_flight never exceeds the requests that were sent on the account and
\* have not been settled: whatever is paused, resumed, deleted and created
\* again while they wait, no request is counted twice
\* (routing.rs:100-106, 143, 215).
InFlightBounded ==
    \A a \in DOMAIN accounts :
        accounts[a].in_flight <= Cardinality(Waiting(a) \cup Lost(a))

\* While the store does not fail, a request that went upstream and was
\* answered has an audit row, unless its account left the pool while it waited
\* and the client was told that no account can serve it
\* (data_plane.rs:387-406, 427-460).
UpstreamUseAudited ==
    \A r \in Request :
        /\ requests[r].sent /\ requests[r].pc = "done"
        /\ requests[r].answer # "no_capacity"
        => r \in DOMAIN proxy_audit

\* With no administrator call in progress, an account is chosen only if it
\* is stored and enabled: a pause or a delete that was answered holds for
\* every later choice (http_app.rs:530-537, routing.rs:238-245).
ChosenIsEnabled ==
    [][\A r \in Request :
          /\ InProgress = {}
          /\ requests[r].pc = "route" /\ requests'[r].pc = "load"
          => LET a == requests'[r].account
             IN  a \in DOMAIN rows /\ rows[a].enabled]_allVars

\* With authentication off no request fails for the state of credentials.
OffIgnoresCredentials ==
    \A r \in Request :
        AuthMode = "off" => requests[r].answer # "store_unavailable"

\* The composed system drives the router only through its operations: each
\* of its steps is one router operation or leaves the router alone.
RouterUsedAsSpecified == R!Spec
=============================================================================
