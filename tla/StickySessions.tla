--------------------------- MODULE StickySessions ---------------------------
(***************************************************************************)
(* What sticky routing promises, without loads, clocks, depletion or model *)
(* maps: a set of accounts in service, and sessions bound to accounts in   *)
(* service.  A session is placed on an account in service, and may be      *)
(* placed anew; an account's sessions may be evicted; and when the set of  *)
(* accounts in service changes, exactly the sessions of the accounts that  *)
(* left it lose their binding, in the same step.                           *)
(***************************************************************************)
EXTENDS Functions

CONSTANTS Account, Session

VARIABLES
    serving,   \* accounts that are in the pool, enabled and healthy
    bound      \* session -> account, on the sessions that are bound

pool == <<serving, bound>>

Init ==
    /\ serving \in SUBSET Account
    /\ bound = [s \in {} |-> 0]

Place(s, a) ==
    /\ a \in serving
    /\ bound' = [t \in DOMAIN bound \cup {s} |-> IF t = s THEN a ELSE bound[t]]
    /\ UNCHANGED serving

Release(S) ==
    /\ bound' = Restrict(bound, DOMAIN bound \ S)
    /\ UNCHANGED serving

Evict(a) ==
    /\ bound' = Restrict(bound, {s \in DOMAIN bound : bound[s] # a})
    /\ UNCHANGED serving

ChangeService(new) ==
    /\ serving' = new
    /\ bound' = Restrict(bound, {s \in DOMAIN bound : bound[s] \in new})

Next ==
    \/ \E s \in Session, a \in Account : Place(s, a)
    \/ \E S \in SUBSET Session : Release(S)
    \/ \E a \in Account : Evict(a)
    \/ \E new \in SUBSET Account : ChangeService(new)

Spec == Init /\ [][Next]_pool
=============================================================================
