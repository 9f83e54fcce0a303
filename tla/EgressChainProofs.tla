-------------------------- MODULE EgressChainProofs --------------------------
(***************************************************************************)
(* Proofs about the egress transport, for every set of lists, policies,    *)
(* hosts and requests, every failure limit and every saturation bound.     *)
(***************************************************************************)
EXTENDS EgressChain, TLAPS

-----------------------------------------------------------------------------
(***************************************************************************)
(* Destinations.                                                           *)
(***************************************************************************)
\* Sequences are equal if their elements are.
LEMMA SameElements ==
    ASSUME NEW q \in Seq(STRING), NEW r \in Seq(STRING), Len(q) = Len(r)
    PROVE  q = r <=> \A i \in 1 .. Len(r) : q[i] = r[i]
<1>1. /\ q = [i \in 1 .. Len(q) |-> q[i]]
      /\ r = [i \in 1 .. Len(r) |-> r[i]]
    OBVIOUS
<1> QED BY <1>1

\* The three branches of host_matches (egress.rs:203-217) together match
\* exactly the hosts that the entry stands for.
THEOREM MatchingIsCovering ==
    ASSUME NEW host \in Seq(STRING), NEW c \in Seq(STRING)
    PROVE  NormalMatches(host, c) <=> Covers(c, host)
<1>1. /\ Len(host) \in Nat /\ Len(c) \in Nat
      /\ host = [i \in 1 .. Len(host) |-> host[i]]
      /\ c = [i \in 1 .. Len(c) |-> c[i]]
    OBVIOUS
<1>2. ASSUME Len(host) = Len(c), NEW i \in 1 .. Len(c)
      PROVE  i + (Len(host) - Len(c)) = i
    BY <1>1, <1>2
<1>3. ASSUME ~ IsSuffixEntry(c), Covers(c, host) PROVE Len(host) = Len(c)
    <2>1. Len(host) >= Len(c) /\ ~ (Len(host) > Len(c))
        BY <1>3 DEF Covers
    <2> QED BY <2>1
<1>4. CASE IsSuffixEntry(c)
    <2> DEFINE t == Tail(c)
               s == SubSeq(host, Len(host) - Len(t) + 1, Len(host))
    <2>1. /\ t \in Seq(STRING) /\ Len(t) = Len(c) - 1
          /\ \A i \in 1 .. Len(t) : t[i] = c[i + 1]
        BY <1>4 DEF IsSuffixEntry
    <2>2. CASE Len(host) > Len(t)
        <3>1. /\ s \in Seq(STRING) /\ Len(s) = Len(t)
              /\ \A i \in 1 .. Len(t) : s[i] = host[Len(host) - Len(t) + i]
            BY <2>1, <2>2
        <3>2. s = t <=> \A i \in 1 .. Len(t) : s[i] = t[i]
            BY <2>1, <3>1, SameElements, Zenon
        <3>3. (\A i \in 1 .. Len(t) : s[i] = t[i]) <=>
                \A j \in 2 .. Len(c) : c[j] = host[j + (Len(host) - Len(c))]
            <4>1. ASSUME \A i \in 1 .. Len(t) : s[i] = t[i],
                         NEW j \in 2 .. Len(c)
                  PROVE  c[j] = host[j + (Len(host) - Len(c))]
                <5>1. j - 1 \in 1 .. Len(t) /\ (j - 1) + 1 = j
                    BY <2>1
                <5>2. Len(host) - Len(t) + (j - 1) = j + (Len(host) - Len(c))
                    BY <2>1
                <5>3. t[j - 1] = c[j]
                    BY <5>1, <2>1
                <5>4. s[j - 1] = host[j + (Len(host) - Len(c))]
                    BY <5>1, <5>2, <3>1, Zenon
                <5>5. s[j - 1] = t[j - 1]
                    BY <4>1, <5>1, Zenon
                <5> QED BY <5>3, <5>4, <5>5, Zenon
            <4>2. ASSUME \A j \in 2 .. Len(c) :
                            c[j] = host[j + (Len(host) - Len(c))],
                         NEW i \in 1 .. Len(t)
                  PROVE  s[i] = t[i]
                <5>1. i + 1 \in 2 .. Len(c)
                    BY <2>1
                <5>2. Len(host) - Len(t) + i = (i + 1) + (Len(host) - Len(c))
                    BY <2>1
                <5> QED BY <4>2, <5>1, <5>2, <2>1, <3>1
            <4> QED BY <4>1, <4>2, Zenon
        <3>4. (\A i \in 1 .. Len(c) :
                    c[i] = Star \/ c[i] = host[i + (Len(host) - Len(c))]) <=>
                \A j \in 2 .. Len(c) : c[j] = host[j + (Len(host) - Len(c))]
            <4>1. \A j \in 2 .. Len(c) : c[j] # Star
                <5>1. ASSUME NEW j \in 2 .. Len(c) PROVE c[j] # Star
                    <6>1. j - 1 \in 1 .. Len(t) /\ t[j - 1] = c[j]
                        BY <2>1
                    <6> QED BY <6>1, <1>4, StarAssumption, Zenon
                        DEF HasStar, IsSuffixEntry
                <5> QED BY <5>1
            <4> QED BY <4>1, <1>4 DEF IsSuffixEntry
        <3>5. Len(host) >= Len(c)
            BY <2>1, <2>2
        <3> QED BY <1>4, <2>2, <3>2, <3>3, <3>4, <3>5, Zenon
                DEF NormalMatches, IsSubdomain, Covers
    <2>3. CASE ~ (Len(host) > Len(t))
        BY <1>4, <2>1, <2>3 DEF NormalMatches, IsSubdomain, Covers
    <2> QED BY <2>2, <2>3
<1>5. CASE ~ IsSuffixEntry(c) /\ HasStar(c)
    <2>1. Covers(c, host) <=>
            /\ Len(host) = Len(c)
            /\ \A i \in 1 .. Len(c) : c[i] = Star \/ c[i] = host[i]
        <3>1. Covers(c, host) => Len(host) = Len(c)
            BY <1>3, <1>5
        <3>2. CASE Len(host) = Len(c)
            <4>1. \A i \in 1 .. Len(c) : i + (Len(host) - Len(c)) = i
                BY <1>2, <3>2
            <4> QED BY <1>1, <3>2, <4>1 DEF Covers
        <3> QED BY <3>1, <3>2
    <2>2. NormalMatches(host, c) <=> label_wildcard_matches(host, c)
        BY <1>5, Zenon DEF NormalMatches
    <2> QED BY <1>1, <2>1, <2>2, Zenon DEF label_wildcard_matches
<1>6. CASE ~ IsSuffixEntry(c) /\ ~ HasStar(c)
    <2>1. Covers(c, host) <=>
            /\ Len(host) = Len(c)
            /\ \A i \in 1 .. Len(c) : c[i] = Star \/ c[i] = host[i]
        <3>1. Covers(c, host) => Len(host) = Len(c)
            BY <1>3, <1>6
        <3>2. CASE Len(host) = Len(c)
            <4>1. \A i \in 1 .. Len(c) : i + (Len(host) - Len(c)) = i
                BY <1>2, <3>2
            <4> QED BY <1>1, <3>2, <4>1 DEF Covers
        <3> QED BY <3>1, <3>2
    <2>2. \A i \in 1 .. Len(c) : c[i] # Star
        BY <1>6, StarAssumption DEF HasStar
    <2>3. NormalMatches(host, c) <=> host = c
        BY <1>6, Zenon DEF NormalMatches
    <2> QED BY <1>1, <2>1, <2>2, <2>3, Zenon
<1> QED BY <1>4, <1>5, <1>6
-----------------------------------------------------------------------------
(***************************************************************************)
(* The chain.  PrefixExhausted is not inductive: that a failure moves the  *)
(* chain on exactly when it is the FailureLimit-th needs that the active   *)
(* endpoint, unless it is the last, has fewer.                             *)
(***************************************************************************)
Counters(c) == [1 .. Len(c.sources) -> 0 .. CounterMax]

Usable(c) ==
    /\ c.sources \in Lists /\ c.sources # <<>>
    /\ c.active \in 1 .. Len(c.sources)
    /\ c.failures \in Counters(c)
    /\ c.successes \in Counters(c)
    /\ \A i \in 1 .. Len(c.sources) :
        /\ i < c.active => c.failures[i] = FailureLimit
        /\ i > c.active => c.failures[i] = 0 /\ c.successes[i] = 0
    /\ c.active < Len(c.sources) => c.failures[c.active] < FailureLimit

ChainOK == chain = NoChain \/ Usable(chain)

\* A list has a length.
LEMMA ListLength ==
    ASSUME NEW list \in Lists
    PROVE  Len(list) \in Nat /\ (list # <<>> => Len(list) > 0)
BY ChainAssumption

\* ProxyChain::new starts at the first endpoint with nothing counted.
LEMMA NewChainUsable ==
    ASSUME NEW list \in Lists, list # <<>>
    PROVE  Usable(NewChain(list)) /\ NewChain(list).sources = list
BY ListLength, ChainAssumption DEF Usable, NewChain, Counters

\* A counter stays within its bound.
LEMMA CounterTyped ==
    ASSUME NEW n \in 0 .. CounterMax
    PROVE  /\ saturating_add(n) \in 0 .. CounterMax
           /\ n < FailureLimit => saturating_add(n) = n + 1
BY ChainAssumption DEF saturating_add

\* record_failure keeps the chain usable.  It moves the chain on exactly when
\* the active endpoint, not the last, reaches the limit.
LEMMA FailureUsable ==
    ASSUME NEW c, Usable(c)
    PROVE  LET d == record_failure(c)
           IN  /\ Usable(d)
               /\ d.sources = c.sources
               /\ d.active # c.active =>
                    /\ d.active = c.active + 1
                    /\ c.failures[c.active] = FailureLimit - 1
                    /\ d.failures[c.active] = FailureLimit
<1> DEFINE n == Len(c.sources)
           a == c.active
           f == saturating_add(c.failures[a])
           next == IF a < n THEN a + 1 ELSE a
           d == record_failure(c)
<1>1. n \in Nat /\ a \in 1 .. n /\ a \in Nat
    BY ListLength DEF Usable
<1>2. c.failures[a] \in 0 .. CounterMax
    BY <1>1 DEF Usable, Counters
<1>3. f \in 0 .. CounterMax /\ (c.failures[a] < FailureLimit =>
                                    f = c.failures[a] + 1)
    BY <1>2, CounterTyped
<1>4. /\ d.sources = c.sources
      /\ d.active = IF f >= FailureLimit THEN next ELSE a
      /\ d.failures = [c.failures EXCEPT ![a] = f]
      /\ d.successes = [c.successes EXCEPT ![a] = 0]
    BY DEF record_failure, FailedInto
<1> HIDE DEF d, f
<1>5. d.active \in 1 .. n
    BY <1>1, <1>4
<1>6. d.failures \in Counters(d) /\ d.successes \in Counters(d)
    BY <1>1, <1>3, <1>4, ChainAssumption, SMTT(30) DEF Usable, Counters
<1>7. d.active # a => /\ d.active = a + 1 /\ a < n
                      /\ c.failures[a] = FailureLimit - 1
                      /\ f = FailureLimit
    <2>1. d.active # a => f >= FailureLimit /\ a < n /\ d.active = a + 1
        BY <1>1, <1>4
    <2>2. a < n => c.failures[a] < FailureLimit
        BY DEF Usable
    <2> QED BY <2>1, <2>2, <1>2, <1>3, ChainAssumption
<1>8. /\ d.failures[a] = f
      /\ \A i \in 1 .. n : i # a => /\ d.failures[i] = c.failures[i]
                                    /\ d.successes[i] = c.successes[i]
    BY <1>1, <1>4 DEF Usable, Counters
<1>9. ASSUME NEW i \in 1 .. n
      PROVE  /\ i < d.active => d.failures[i] = FailureLimit
             /\ i > d.active => d.failures[i] = 0 /\ d.successes[i] = 0
    <2>1. i \in Nat /\ d.active \in Nat
        BY <1>1, <1>5
    <2>2. CASE d.active = a
        BY <1>1, <1>8, <2>1, <2>2 DEF Usable
    <2>3. CASE d.active # a
        <3>1. d.active = a + 1 /\ f = FailureLimit
            BY <1>7, <2>3
        <3>2. i < d.active => i = a \/ i < a
            BY <1>1, <2>1, <3>1
        <3>3. i > d.active => i # a /\ i > a
            BY <1>1, <2>1, <3>1
        <3> QED BY <1>8, <3>1, <3>2, <3>3, <1>1, <2>1, SMTT(30) DEF Usable
    <2> QED BY <2>2, <2>3
<1>10. d.active < n => d.failures[d.active] < FailureLimit
    <2>1. CASE d.active = a
        BY <1>1, <1>3, <1>4, <1>8, <2>1, ChainAssumption
    <2>2. CASE d.active # a
        <3>1. d.active = a + 1 /\ d.active # a /\ d.active > a
            BY <1>1, <1>7, <2>2
        <3>2. d.failures[d.active] = c.failures[d.active]
            BY <1>5, <1>8, <3>1
        <3>3. c.failures[d.active] = 0
            BY <1>5, <3>1 DEF Usable
        <3> QED BY <3>2, <3>3, ChainAssumption
    <2> QED BY <2>1, <2>2
<1>11. Usable(d)
    BY <1>4, <1>5, <1>6, <1>9, <1>10 DEF Usable
<1> QED BY <1>4, <1>7, <1>8, <1>11 DEF d

\* record_success leaves the active endpoint and the list as they are.
LEMMA SuccessUsable ==
    ASSUME NEW c, Usable(c)
    PROVE  LET d == record_success(c)
           IN  Usable(d) /\ d.sources = c.sources /\ d.active = c.active
<1> DEFINE d == record_success(c)
           a == c.active
<1>1. a \in 1 .. Len(c.sources) /\ a \in Nat /\ Len(c.sources) \in Nat
    BY ListLength DEF Usable
<1>2. saturating_add(c.successes[a]) \in 0 .. CounterMax
    BY <1>1, CounterTyped, SMTT(30) DEF Usable, Counters
<1>3. /\ d.sources = c.sources /\ d.active = a
      /\ d.failures = [c.failures EXCEPT ![a] = 0]
      /\ d.successes = [c.successes EXCEPT ![a] = saturating_add(@)]
    BY DEF record_success
<1> HIDE DEF d
<1>4. d.failures \in Counters(d) /\ d.successes \in Counters(d)
    BY <1>1, <1>2, <1>3, ChainAssumption, SMTT(30) DEF Usable, Counters
<1>5. /\ d.failures[a] = 0
      /\ \A i \in 1 .. Len(c.sources) :
            i # a => /\ d.failures[i] = c.failures[i]
                     /\ d.successes[i] = c.successes[i]
    BY <1>1, <1>3, SMTT(30) DEF Usable, Counters
<1>6. Usable(d)
    BY <1>1, <1>3, <1>4, <1>5, ChainAssumption DEF Usable
<1> QED BY <1>3, <1>6 DEF d

\* Whatever list a request brings, the chain it is given has that list.
LEMMA ChainForUsable ==
    ASSUME ChainOK, NEW sources \in Lists \cup {<<>>}
    PROVE  /\ sources = <<>> => ChainFor(sources) = NoChain
           /\ sources # <<>> => /\ Usable(ChainFor(sources))
                                /\ ChainFor(sources).sources = sources
<1>1. NoChain.sources = <<>>
    BY DEF NoChain
<1> QED BY <1>1, NewChainUsable DEF ChainFor, ChainOK
-----------------------------------------------------------------------------
(***************************************************************************)
(* The requests, slot by slot.                                             *)
(***************************************************************************)
OwnList(q) ==
    q.pc \in {"selected", "sending"} =>
        IF q.sources = <<>> THEN q.endpoint = Direct
        ELSE \E i \in 1 .. Len(q.sources) : q.endpoint = q.sources[i]

Authorised(q, p) ==
    q.pc = "sending" =>
        /\ \E entry \in p.allowlist :
            Covers(Normal(entry), Normal(q.destination))
        /\ q.target # {} <=> q.endpoint \in Socks5 \cup {Direct}
        /\ p.private \/ q.target \cap Unsafe = {}

SlotOK(q, p) == q \in Slots /\ OwnList(q) /\ Authorised(q, p)

RequestsOK ==
    /\ requests \in [Request -> Slots]
    /\ \A r \in Request : SlotOK(requests[r], policy)

Inv ==
    /\ egress \in Lists
    /\ policy \in Policies
    /\ ChainOK
    /\ RequestsOK

SlotTyped(pc, sources, endpoint, destination, target) ==
    /\ pc \in {"idle", "loaded", "selected", "sending"}
    /\ sources \in Lists \cup {<<>>}
    /\ endpoint \in {Direct} \cup Endpoint
    /\ destination \in Hosts \cup {<<>>}
    /\ target \subseteq Address

\* The fields of a slot.
LEMMA SlotFacts ==
    ASSUME NEW pc, NEW sources, NEW endpoint, NEW destination, NEW target,
           SlotTyped(pc, sources, endpoint, destination, target)
    PROVE  LET q == Slot(pc, sources, endpoint, destination, target)
           IN  /\ q \in Slots
               /\ q.pc = pc /\ q.sources = sources /\ q.endpoint = endpoint
               /\ q.destination = destination /\ q.target = target
BY DEF Slot, Slots, SlotTyped

\* The fields of any slot are typed.
LEMMA SlotFields ==
    ASSUME NEW q \in Slots
    PROVE  /\ q.sources \in Lists \cup {<<>>}
           /\ q.endpoint \in {Direct} \cup Endpoint
BY DEF Slots

\* A request that is not past the choice of its route satisfies everything.
LEMMA EarlySlotOK ==
    ASSUME NEW pc \in {"idle", "loaded"}, NEW sources \in Lists \cup {<<>>},
           NEW p
    PROVE  SlotOK(Slot(pc, sources, Direct, <<>>, {}), p)
<1> DEFINE q == Slot(pc, sources, Direct, <<>>, {})
<1>1. q \in Slots /\ q.pc = pc
    <2>1. SlotTyped(pc, sources, Direct, <<>>, {})
        BY DEF SlotTyped
    <2> QED BY <2>1, SlotFacts
<1> HIDE DEF q
<1>2. SlotOK(q, p)
    BY <1>1 DEF SlotOK, OwnList, Authorised
<1> QED BY <1>2 DEF q

\* One slot changes.
LEMMA SlotStep ==
    ASSUME RequestsOK, NEW r \in Request, NEW q, SlotOK(q, policy),
           policy' = policy, requests' = [requests EXCEPT ![r] = q]
    PROVE  RequestsOK'
<1>1. requests' \in [Request -> Slots]
    BY DEF RequestsOK, SlotOK
<1>2. \A s \in Request : SlotOK(requests'[s], policy)
    BY DEF RequestsOK
<1> QED BY <1>1, <1>2 DEF RequestsOK
-----------------------------------------------------------------------------
(***************************************************************************)
(* The steps.                                                              *)
(***************************************************************************)
LEMMA InitInv == Init => Inv
<1> SUFFICES ASSUME Init PROVE Inv
    OBVIOUS
<1>1. IdleSlot \in Slots /\ SlotOK(IdleSlot, policy)
    BY EarlySlotOK DEF IdleSlot, SlotOK
<1>2. RequestsOK
    BY <1>1 DEF Init, RequestsOK
<1> QED BY <1>2 DEF Init, Inv, ChainOK

\* A slot becomes idle.
LEMMA IdleStep ==
    ASSUME Inv, NEW r \in Request, UNCHANGED policy,
           requests' = [requests EXCEPT ![r] = IdleSlot]
    PROVE  RequestsOK'
<1>1. SlotOK(IdleSlot, policy)
    BY EarlySlotOK DEF IdleSlot
<1> QED BY <1>1, SlotStep, Zenon DEF Inv

LEMMA LoadInv ==
    ASSUME Inv, NEW r \in Request, Load(r)
    PROVE  Inv'
<1>1. SlotOK(Slot("loaded", egress, Direct, <<>>, {}), policy)
    BY EarlySlotOK DEF Inv
<1>2. RequestsOK'
    BY <1>1, SlotStep, Zenon DEF Inv, Load
<1> QED BY <1>2 DEF Inv, Load, ChainOK

LEMMA SelectInv ==
    ASSUME Inv, NEW r \in Request, selected_proxy(r)
    PROVE  Inv'
<1> DEFINE sources == requests[r].sources
           used == ChainFor(sources)
           endpoint == IF sources = <<>> THEN Direct
                       ELSE used.sources[used.active]
           q == Slot("selected", sources, endpoint, <<>>, {})
<1>1. sources \in Lists \cup {<<>>}
    BY SlotFields DEF Inv, RequestsOK
<1>2. /\ sources = <<>> => used = NoChain
      /\ sources # <<>> => Usable(used) /\ used.sources = sources
    BY <1>1, ChainForUsable DEF Inv
<1>3. /\ chain' = used /\ egress' = egress /\ policy' = policy
      /\ requests' = [requests EXCEPT ![r] = q]
    BY DEF selected_proxy
<1> HIDE DEF used
<1>4. sources # <<>> =>
        /\ used.active \in 1 .. Len(sources)
        /\ endpoint = sources[used.active]
        /\ endpoint \in Endpoint
    <2> SUFFICES ASSUME sources # <<>>
                 PROVE  /\ used.active \in 1 .. Len(sources)
                        /\ endpoint = sources[used.active]
                        /\ endpoint \in Endpoint
        OBVIOUS
    <2>1. used.active \in 1 .. Len(sources) /\ endpoint = sources[used.active]
        BY <1>2 DEF Usable
    <2>2. sources \in Seq(Endpoint)
        BY <1>1, ChainAssumption
    <2> QED BY <2>1, <2>2
<1>5. endpoint \in {Direct} \cup Endpoint
    BY <1>4
<1>6. /\ q \in Slots /\ q.pc = "selected"
      /\ q.sources = sources /\ q.endpoint = endpoint
    <2> HIDE DEF endpoint, sources
    <2>1. SlotTyped("selected", sources, endpoint, <<>>, {})
        BY <1>1, <1>5 DEF SlotTyped
    <2> QED BY <2>1, SlotFacts
<1>7. SlotOK(q, policy)
    <2>1. sources = <<>> => endpoint = Direct
        OBVIOUS
    <2> HIDE DEF q, endpoint, sources
    <2> QED BY <1>4, <1>6, <2>1 DEF SlotOK, OwnList, Authorised
<1> HIDE DEF q
<1>8. RequestsOK'
    BY <1>3, <1>7, SlotStep, Zenon DEF Inv
<1>9. ChainOK'
    BY <1>2, <1>3 DEF ChainOK
<1> QED BY <1>3, <1>8, <1>9 DEF Inv

\* A destination that authorize accepts is one that an entry stands for.
LEMMA AuthorizedCovered ==
    ASSUME NEW p \in Policies, NEW host \in Hosts, authorize(p, host)
    PROVE  \E entry \in p.allowlist : Covers(Normal(entry), Normal(host))
<1>1. PICK entry \in p.allowlist : host_matches(Normal(host), entry)
    BY DEF authorize
<1>2. Normal(entry) \in Seq(STRING) /\ Normal(host) \in Seq(STRING)
    BY HostAssumption
<1> QED BY <1>1, <1>2, MatchingIsCovering DEF host_matches

\* Any send to an authorised target.
LEMMA SendInv ==
    ASSUME Inv, NEW r \in Request, NEW host \in Hosts,
           NEW target, target \subseteq Address,
           requests[r].pc = "selected", authorize(policy, host),
           target # {} <=> ResolvesLocally(r),
           policy.private \/ target \cap Unsafe = {}, Send(r, host, target)
    PROVE  Inv'
<1> DEFINE o == requests[r]
           q == Slot("sending", o.sources, o.endpoint, host, target)
<1>1. o \in Slots /\ OwnList(o) /\ o.pc = "selected"
    BY DEF Inv, RequestsOK, SlotOK
<1>2. o.sources \in Lists \cup {<<>>} /\ o.endpoint \in {Direct} \cup Endpoint
    BY <1>1, SlotFields
<1>3. target # {} <=> o.endpoint \in Socks5 \cup {Direct}
    BY DEF ResolvesLocally
<1> HIDE DEF o
<1>4. /\ q \in Slots /\ q.pc = "sending" /\ q.sources = o.sources
      /\ q.endpoint = o.endpoint /\ q.destination = host /\ q.target = target
    <2>1. SlotTyped("sending", o.sources, o.endpoint, host, target)
        BY <1>2 DEF SlotTyped
    <2> QED BY <2>1, SlotFacts
<1>5. requests' = [requests EXCEPT ![r] = q]
    BY DEF Send, o
<1> HIDE DEF q
<1>6. \E entry \in policy.allowlist : Covers(Normal(entry), Normal(host))
    BY AuthorizedCovered DEF Inv
<1>7. OwnList(q)
    BY <1>1, <1>4 DEF OwnList
<1>8. Authorised(q, policy)
    BY <1>3, <1>4, <1>6 DEF Authorised
<1>9. RequestsOK'
    BY <1>4, <1>5, <1>7, <1>8, SlotStep, Zenon DEF Inv, SlotOK, Send
<1> QED BY <1>9 DEF Inv, Send, ChainOK

\* resolve_authorized answers with authorised addresses only.
LEMMA ResolvedFacts ==
    ASSUME NEW p, NEW host \in Hosts, NEW answer \in Answers,
           NEW address \in resolve_authorized(p, host, answer)
    PROVE  /\ authorize(p, host)
           /\ p.private \/ address \notin Unsafe
           /\ address \in Address
<1>1. CASE host \in DOMAIN Literal
    <2>1. /\ authorize(p, host)
          /\ p.private \/ \A a \in {Literal[host]} : ~ is_unsafe_ip(a)
          /\ address \in {Literal[host]}
        BY <1>1 DEF resolve_authorized
    <2> QED BY <1>1, <2>1 DEF is_unsafe_ip, Address
<1>2. CASE host \notin DOMAIN Literal
    <2>1. /\ authorize(p, host)
          /\ p.private \/ \A a \in answer : ~ is_unsafe_ip(a)
          /\ address \in answer
        BY <1>2 DEF resolve_authorized
    <2> QED BY <2>1 DEF is_unsafe_ip, Address
<1> QED BY <1>1, <1>2

LEMMA ProceedInv ==
    ASSUME Inv, Proceed
    PROVE  Inv'
<1>1. ASSUME NEW r \in Request, NEW host \in Hosts, NEW answer \in Answers,
             SendToAddress(r, host, answer)
      PROVE  Inv'
    <2>1. PICK address \in resolve_authorized(policy, host, answer) :
            Send(r, host, {address})
        BY <1>1 DEF SendToAddress
    <2>2. /\ authorize(policy, host)
          /\ policy.private \/ address \notin Unsafe
          /\ address \in Address
        BY ResolvedFacts
    <2>3. requests[r].pc = "selected" /\ ResolvesLocally(r)
        BY <1>1 DEF SendToAddress
    <2>4. /\ {address} \subseteq Address
          /\ {address} # {} <=> ResolvesLocally(r)
          /\ policy.private \/ {address} \cap Unsafe = {}
        BY <2>2, <2>3
    <2> DEFINE target == {address}
    <2>5. Send(r, host, target)
        BY <2>1
    <2> HIDE DEF target
    <2>6. /\ target \subseteq Address
          /\ target # {} <=> ResolvesLocally(r)
          /\ policy.private \/ target \cap Unsafe = {}
        BY <2>4 DEF target
    <2> QED BY <2>2, <2>3, <2>5, <2>6, SendInv
<1>2. ASSUME NEW r \in Request, NEW host \in Hosts, SendByName(r, host)
      PROVE  Inv'
    <2> DEFINE target == {}
    <2>1. /\ requests[r].pc = "selected" /\ authorize(policy, host)
          /\ Send(r, host, target)
          /\ target # {} <=> ResolvesLocally(r)
        BY <1>2 DEF SendByName
    <2>2. /\ target \subseteq Address
          /\ policy.private \/ target \cap Unsafe = {}
        OBVIOUS
    <2> HIDE DEF target
    <2> QED BY <2>1, <2>2, SendInv
<1> QED BY <1>1, <1>2 DEF Proceed

LEMMA ResultInv ==
    ASSUME Inv, Result
    PROVE  Inv'
<1>1. ASSUME NEW r \in Request, NEW after, Usable(chain) => Usable(after),
             record_transport_result(r, after)
      PROVE  Inv'
    <2>1. RequestsOK'
        BY <1>1, IdleStep, Zenon DEF record_transport_result
    <2>2. ChainOK'
        BY <1>1 DEF record_transport_result, Inv, ChainOK
    <2> QED BY <1>1, <2>1, <2>2 DEF record_transport_result, Inv
<1>2. /\ Usable(chain) => Usable(record_failure(chain))
      /\ Usable(chain) => Usable(record_success(chain))
    BY FailureUsable, SuccessUsable
<1> QED BY <1>1, <1>2 DEF Result, Fail, Succeed

LEMMA NextInv == Inv /\ [Next]_vars => Inv'
<1> SUFFICES ASSUME Inv, [Next]_vars PROVE Inv'
    OBVIOUS
<1>1. ASSUME NEW list \in Lists, Configure(list) PROVE Inv'
    BY <1>1 DEF Inv, Configure, ChainOK, RequestsOK
<1>2. ASSUME NEW r \in Request, Abandon(r) PROVE Inv'
    <2>1. RequestsOK'
        BY <1>2, IdleStep, Zenon DEF Abandon
    <2> QED BY <1>2, <2>1 DEF Abandon, Inv, ChainOK
<1>3. CASE UNCHANGED vars
    BY <1>3 DEF vars, Inv, ChainOK, RequestsOK
<1> QED BY <1>1, <1>2, <1>3, LoadInv, SelectInv, ProceedInv, ResultInv
        DEF Next
-----------------------------------------------------------------------------
\* The invariants are consequences of the inductive one.
LEMMA InvImplies ==
    Inv => ChainTypeOK /\ OwnListUsed /\ TargetAuthorised /\ PrefixExhausted
<1> SUFFICES ASSUME Inv
             PROVE  /\ ChainTypeOK /\ OwnListUsed
                    /\ TargetAuthorised /\ PrefixExhausted
    OBVIOUS
<1>1. OwnListUsed
    BY DEF Inv, RequestsOK, SlotOK, OwnList, OwnListUsed
<1>2. TargetAuthorised
    BY DEF Inv, RequestsOK, SlotOK, Authorised, TargetAuthorised,
           ResolvesLocally
<1>3. CASE chain = NoChain
    <2>1. /\ chain.sources = <<>> /\ chain.active = 0
          /\ chain.failures = <<>> /\ chain.successes = <<>>
        BY <1>3 DEF NoChain
    <2>2. Len(<<>>) = 0 /\ 1 .. 0 = {} /\ 0 \in 0 .. 0
        OBVIOUS
    <2>3. <<>> \in [1 .. 0 -> 0 .. CounterMax]
        OBVIOUS
    <2>4. ChainTypeOK
        BY <2>1, <2>2, <2>3 DEF ChainTypeOK, Inv, RequestsOK
    <2>5. PrefixExhausted
        BY <2>1, <2>2 DEF PrefixExhausted
    <2> QED BY <1>1, <1>2, <2>4, <2>5
<1>4. CASE Usable(chain)
    <2>1. ChainTypeOK
        BY <1>4, ListLength DEF ChainTypeOK, Usable, Counters, Inv, RequestsOK
    <2>2. PrefixExhausted
        BY <1>4 DEF PrefixExhausted, Usable
    <2> QED BY <1>1, <1>2, <2>1, <2>2
<1> QED BY <1>3, <1>4 DEF Inv, ChainOK

THEOREM InvAlways == Spec => []Inv
BY InitInv, NextInv, PTL DEF Spec

\* The chain and the requests stay typed: the active index never leaves the
\* list and the counters never leave their range (egress.rs:177-196).
THEOREM ChainTyped == Spec => []ChainTypeOK
BY InvAlways, InvImplies, PTL

\* However requests with different lists interleave, each goes through an
\* endpoint of its own list (data_plane.rs:521-545).
THEOREM OwnListAlwaysUsed == Spec => []OwnListUsed
BY InvAlways, InvImplies, PTL

\* What is connected to was authorised, for every policy and everything the
\* resolver may answer (data_plane.rs:560-586).
THEOREM TargetAlwaysAuthorised == Spec => []TargetAuthorised
BY InvAlways, InvImplies, PTL

\* Against every endpoint that was left FailureLimit failures are on record
\* and stay so, and against those still to come nothing is, for every limit,
\* list and order of results; the failures counted against an endpoint may
\* be those of requests sent through another (egress.rs:177-190).
THEOREM PrefixAlwaysExhausted == Spec => []PrefixExhausted
BY InvAlways, InvImplies, PTL

\* What MovesForward says of a step.
Forward ==
    chain.sources = chain'.sources /\ chain.active # chain'.active =>
        /\ chain'.active = chain.active + 1
        /\ chain.failures[chain.active] = FailureLimit - 1
        /\ chain'.failures[chain.active] = FailureLimit

LEMMA SelectForward ==
    ASSUME Inv, NEW r \in Request, selected_proxy(r)
    PROVE  Forward
<1> DEFINE sources == requests[r].sources
<1>1. sources \in Lists \cup {<<>>} /\ chain' = ChainFor(sources)
    BY SlotFields DEF Inv, RequestsOK, selected_proxy
<1>2. CASE sources = <<>>
    <2>1. chain' = NoChain /\ NoChain.sources = <<>>
        BY <1>1, <1>2 DEF ChainFor, NoChain
    <2> QED BY <2>1 DEF Forward, Inv, ChainOK, Usable
<1>3. CASE sources # <<>> /\ chain.sources # sources
    <2>1. chain'.sources = sources
        BY <1>1, <1>3, NewChainUsable DEF ChainFor
    <2> QED BY <1>3, <2>1 DEF Forward
<1>4. CASE sources # <<>> /\ chain.sources = sources
    BY <1>1, <1>4 DEF ChainFor, Forward
<1> QED BY <1>2, <1>3, <1>4

LEMMA ResultForward ==
    ASSUME Inv, Result
    PROVE  Forward
<1>1. CASE chain = NoChain
    BY <1>1 DEF Result, Fail, Succeed, record_transport_result, Forward
<1>2. CASE chain # NoChain
    <2>1. Usable(chain)
        BY <1>2 DEF Inv, ChainOK
    <2>2. chain' = record_failure(chain) \/ chain' = record_success(chain)
        BY <1>2 DEF Result, Fail, Succeed, record_transport_result
    <2> QED BY <2>1, <2>2, FailureUsable, SuccessUsable DEF Forward
<1> QED BY <1>1, <1>2

\* Within one list the chain only moves on by one endpoint, and only when
\* that endpoint reaches the limit (egress.rs:177-190).
THEOREM ChainMovesForward == Spec => MovesForward
<1>1. Inv /\ [Next]_vars => [Forward]_vars
    <2> SUFFICES ASSUME Inv, Next PROVE Forward
        OBVIOUS
    <2>1. ASSUME UNCHANGED chain PROVE Forward
        BY <2>1 DEF Forward
    <2>2. ASSUME NEW list \in Lists, Configure(list) PROVE Forward
        BY <2>1, <2>2 DEF Configure
    <2>3. ASSUME NEW r \in Request, Load(r) \/ Abandon(r) PROVE Forward
        BY <2>1, <2>3 DEF Load, Abandon
    <2>4. ASSUME Proceed PROVE Forward
        BY <2>1, <2>4, Zenon DEF Proceed, SendToAddress, SendByName, Send
    <2> QED BY <2>2, <2>3, <2>4, SelectForward, ResultForward DEF Next
<1> QED BY <1>1, InvAlways, PTL DEF Spec, MovesForward, Forward
=============================================================================
