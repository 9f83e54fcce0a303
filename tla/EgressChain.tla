----------------------------- MODULE EgressChain -----------------------------
(***************************************************************************)
(* How a request reaches its upstream: ReqwestTransport::send (src/src/    *)
(* data_plane.rs) with the account's ProxyChain and the DestinationPolicy  *)
(* (src/src/egress.rs).                                                    *)
(*                                                                         *)
(* A request carries the egress list it loaded from the store.  The        *)
(* transport picks an endpoint under the chain mutex, authorises the       *)
(* destination, which may wait for the resolver, sends, and takes the      *)
(* mutex again to record a result, which names the account but not the     *)
(* endpoint it came from.  In between other requests pick endpoints and    *)
(* record results, and the administrator may store another list.           *)
(*                                                                         *)
(* Accounts do not interact here, so one is modelled.  Stored lists parse  *)
(* (account_storage_values checks them), so building a chain never fails.  *)
(* A finished request's slot is used again by a later request.             *)
(***************************************************************************)
EXTENDS DestinationPolicy

CONSTANTS
    Request,        \* request slots
    Lists,          \* egress lists the administrator may store
    Direct,         \* the route of an account without a list
    Socks5,         \* endpoints that are told addresses, not names
    Hosts,          \* destinations of requests
    Answers,        \* sets of addresses the resolver may answer with
    Policies,       \* destination policies the proxy may run with
    FailureLimit,   \* failures that move the chain on (3)
    CounterMax      \* where the result counters saturate (255)

VARIABLES
    egress,     \* the list in the store
    chain,      \* the account's chain, NoChain if the transport has none
    requests,   \* each slot's program counter, list, route and target
    policy      \* the destination policy, which never changes

vars == <<egress, chain, requests, policy>>

Endpoint == UNION {{list[i] : i \in DOMAIN list} : list \in Lists}

ASSUME ChainAssumption ==
    /\ FailureLimit \in Nat \ {0}
    /\ CounterMax \in Nat
    /\ FailureLimit <= CounterMax
    /\ \A list \in Lists : list \in Seq(Endpoint)
    /\ Direct \notin Endpoint

\* Hosts and allowlist entries have a normal form.
ASSUME HostAssumption ==
    /\ \A host \in Hosts : Normal(host) \in Seq(STRING)
    /\ \A p \in Policies : \A entry \in p.allowlist :
        Normal(entry) \in Seq(STRING)

NoChain == [sources |-> <<>>, active |-> 0, failures |-> <<>>,
            successes |-> <<>>]

\* A target is an address, or none when the egress proxy resolves the name.
Slot(pc, sources, endpoint, destination, target) ==
    [pc |-> pc, sources |-> sources, endpoint |-> endpoint,
     destination |-> destination, target |-> target]

IdleSlot == Slot("idle", <<>>, Direct, <<>>, {})

\* ProxyChain::new
NewChain(sources) ==
    [sources |-> sources, active |-> 1,
     failures |-> [i \in 1 .. Len(sources) |-> 0],
     successes |-> [i \in 1 .. Len(sources) |-> 0]]

saturating_add(n) == IF n = CounterMax THEN n ELSE n + 1

\* The chain after a failure of its active endpoint, with the rule for what
\* is active next.
FailedInto(c, limit, next) ==
    LET failed == saturating_add(c.failures[c.active])
    IN  [sources |-> c.sources,
         active |-> IF failed >= limit THEN next ELSE c.active,
         failures |-> [c.failures EXCEPT ![c.active] = failed],
         successes |-> [c.successes EXCEPT ![c.active] = 0]]

\* Mutants: the last endpoint is left, is followed by the first, is never
\* reached; the chain moves on a failure early.
record_failure_past_end(c) == FailedInto(c, FailureLimit, c.active + 1)

record_failure_around(c) ==
    FailedInto(c, FailureLimit, (c.active % Len(c.sources)) + 1)

record_failure_short(c) ==
    FailedInto(c, FailureLimit,
               IF c.active + 1 < Len(c.sources) THEN c.active + 1 ELSE c.active)

record_failure_early(c) ==
    FailedInto(c, FailureLimit - 1,
               IF c.active < Len(c.sources) THEN c.active + 1 ELSE c.active)

record_failure(c) ==
    FailedInto(c, FailureLimit,
               IF c.active < Len(c.sources) THEN c.active + 1 ELSE c.active)

record_success(c) ==
    [sources |-> c.sources,
     active |-> c.active,
     failures |-> [c.failures EXCEPT ![c.active] = 0],
     successes |-> [c.successes EXCEPT ![c.active] = saturating_add(@)]]

\* Mutant: an existing chain is used whatever the list.
ChainKept(sources) ==
    IF sources = <<>> THEN NoChain
    ELSE IF chain = NoChain THEN NewChain(sources)
    ELSE chain

\* selected_proxy: the chain after a request with these sources asked.
ChainFor(sources) ==
    IF sources = <<>> THEN NoChain
    ELSE IF chain.sources # sources THEN NewChain(sources)
    ELSE chain

Init ==
    /\ egress \in Lists
    /\ chain = NoChain
    /\ requests = [r \in Request |-> IdleSlot]
    /\ policy \in Policies

\* The administrator stores another list.
Configure(list) ==
    /\ list # egress
    /\ egress' = list
    /\ UNCHANGED <<chain, requests, policy>>

\* load_account
Load(r) ==
    /\ requests[r].pc = "idle"
    /\ requests' = [requests EXCEPT ![r] =
            Slot("loaded", egress, Direct, <<>>, {})]
    /\ UNCHANGED <<egress, chain, policy>>

selected_proxy(r) ==
    LET sources == requests[r].sources
        used == ChainFor(sources)
        endpoint == IF sources = <<>> THEN Direct
                    ELSE used.sources[used.active]
    IN  /\ requests[r].pc = "loaded"
        /\ chain' = used
        /\ requests' = [requests EXCEPT ![r] =
                Slot("selected", sources, endpoint, <<>>, {})]
        /\ UNCHANGED <<egress, policy>>

\* destination_requires_local_resolution
ResolvesLocally(r) == requests[r].endpoint \in Socks5 \cup {Direct}

Send(r, destination, target) ==
    /\ requests' = [requests EXCEPT ![r] =
            Slot("sending", requests[r].sources, requests[r].endpoint,
                 destination, target)]
    /\ UNCHANGED <<egress, chain, policy>>

\* Mutant: the client resolves the name again.
SendToAddressUnpinned(r, destination, answer) ==
    /\ requests[r].pc = "selected"
    /\ ResolvesLocally(r)
    /\ resolve_authorized(policy, destination, answer) # {}
    /\ \E again \in Answers : \E address \in again :
        Send(r, destination, {address})

\* The addresses that were authorised are the only ones the client knows for
\* the name (resolve_to_addrs).
SendToAddress(r, destination, answer) ==
    /\ requests[r].pc = "selected"
    /\ ResolvesLocally(r)
    /\ \E address \in resolve_authorized(policy, destination, answer) :
        Send(r, destination, {address})

SendByName(r, destination) ==
    /\ requests[r].pc = "selected"
    /\ ~ ResolvesLocally(r)
    /\ authorize(policy, destination)
    /\ Send(r, destination, {})

\* record_transport_result
record_transport_result(r, after) ==
    /\ requests[r].pc = "sending"
    /\ chain' = IF chain = NoChain THEN chain ELSE after
    /\ requests' = [requests EXCEPT ![r] = IdleSlot]
    /\ UNCHANGED <<egress, policy>>

Fail(r) == record_transport_result(r, record_failure(chain))

Succeed(r) == record_transport_result(r, record_success(chain))

\* The destination is refused or not found, the proxy's URL or a header is
\* refused, or the client disconnects: no result is recorded.
Abandon(r) ==
    /\ requests[r].pc # "idle"
    /\ requests' = [requests EXCEPT ![r] = IdleSlot]
    /\ UNCHANGED <<egress, chain, policy>>

\* Some request gets its destination authorised.
Proceed ==
    \/ \E r \in Request, host \in Hosts, answer \in Answers :
        SendToAddress(r, host, answer)
    \/ \E r \in Request, host \in Hosts : SendByName(r, host)

\* Some request has a result.
Result ==
    \/ \E r \in Request : Fail(r)
    \/ \E r \in Request : Succeed(r)

Next ==
    \/ \E list \in Lists : Configure(list)
    \/ \E r \in Request : Load(r)
    \/ \E r \in Request : selected_proxy(r)
    \/ Proceed
    \/ Result
    \/ \E r \in Request : Abandon(r)

Spec == Init /\ [][Next]_vars
-----------------------------------------------------------------------------
Address ==
    (UNION Answers) \cup {Literal[host] : host \in Hosts \cap DOMAIN Literal}

Slots ==
    [pc : {"idle", "loaded", "selected", "sending"},
     sources : Lists \cup {<<>>},
     endpoint : {Direct} \cup Endpoint,
     destination : Hosts \cup {<<>>},
     target : SUBSET Address]

\* Type invariant of the chain and the requests.
ChainTypeOK ==
    /\ egress \in Lists
    /\ policy \in Policies
    /\ chain.sources \in Lists \cup {<<>>}
    /\ chain.active \in 0 .. Len(chain.sources)
    /\ chain.failures \in [1 .. Len(chain.sources) -> 0 .. CounterMax]
    /\ chain.successes \in [1 .. Len(chain.sources) -> 0 .. CounterMax]
    /\ requests \in [Request -> Slots]

\* A request is sent through an endpoint of the list it loaded, and directly
\* only if that list is empty, whatever list another request brought to the
\* shared chain in between (data_plane.rs:521-545).
OwnListUsed ==
    \A r \in Request :
        LET list == requests[r].sources
        IN  requests[r].pc \in {"selected", "sending"} =>
                IF list = <<>> THEN requests[r].endpoint = Direct
                ELSE \E i \in 1 .. Len(list) : requests[r].endpoint = list[i]

\* A request that is sent goes to a host that an entry of the allowlist
\* stands for.  Its target is an address exactly if its own route resolves
\* locally, and then it is no private address unless the policy allows
\* those, whatever the resolver answers meanwhile (data_plane.rs:560-586,
\* egress.rs:99-144).
TargetAuthorised ==
    \A r \in Request : requests[r].pc = "sending" =>
        /\ \E entry \in policy.allowlist :
            Covers(Normal(entry), Normal(requests[r].destination))
        /\ requests[r].target # {} <=> ResolvesLocally(r)
        /\ policy.private \/ requests[r].target \cap Unsafe = {}

\* While each endpoint before the active one was active, FailureLimit failures
\* in a row were recorded, and that count stays; against the endpoints after
\* the active one nothing has been recorded.  Which endpoint the failed
\* requests had used is not part of it: a result does not name its endpoint
\* (egress.rs:177-190, data_plane.rs:548-556).
PrefixExhausted ==
    \A i \in 1 .. Len(chain.sources) :
        /\ i < chain.active => chain.failures[i] = FailureLimit
        /\ i > chain.active => chain.failures[i] = 0 /\ chain.successes[i] = 0

\* Within one list the chain only moves on, one endpoint at a time, and only
\* in the step in which the endpoint it leaves reaches FailureLimit
\* (egress.rs:177-190).
MovesForward ==
    [][chain.sources = chain'.sources /\ chain.active # chain'.active =>
            /\ chain'.active = chain.active + 1
            /\ chain.failures[chain.active] = FailureLimit - 1
            /\ chain'.failures[chain.active] = FailureLimit]_vars
-----------------------------------------------------------------------------
(***************************************************************************)
(* Liveness.  Requests keep coming and are driven.  The resolver, the      *)
(* destination policy and the clients do not defeat every request: again   *)
(* and again one is given a route, one is authorised and one has a result. *)
(***************************************************************************)
FairSpec ==
    /\ Spec
    /\ WF_vars(\E r \in Request : Load(r))
    /\ SF_vars(\E r \in Request : selected_proxy(r))
    /\ SF_vars(Proceed)
    /\ SF_vars(Result)

\* No list is stored and no send succeeds any more.
Outage == egress' = egress /\ \A r \in Request : ~ Succeed(r)

\* When every send fails from some point on, the chain ends up on its last
\* endpoint and stays there.
FailsOver ==
    <>[][Outage]_vars =>
        <>[](egress # <<>> =>
                chain.sources = egress /\ chain.active = Len(egress))
=============================================================================
