---------------------------- MODULE MCEgressChain ----------------------------
(***************************************************************************)
(* An instance of the egress transport.  The empty list is direct egress.  *)
(***************************************************************************)
EXTENDS EgressChain, TLC

TwoLists == {<<>>, <<"e1", "e2">>, <<"e3">>}

MCLower == [l \in {"", "*", "a", "b", "c", "com", "localhost", "10", "8"} |-> l]
            @@ [l \in {"B"} |-> "b"]

MCLiteral == <<"10", "8">> :> "private"

MCHosts == {<<"b", "com">>, <<"a", "B", "com", "">>, <<"a", "localhost">>,
            <<"10", "8">>}

MCAnswers == {{"public"}, {"public", "private"}}

\* A wildcard for subdomains, one for a middle label, and exact entries.
MCPolicies ==
    LET entries == {<<"*", "B", "com">>, <<"c", "*", "com">>,
                    <<"*", "localhost", "">>, <<"10", "8">>}
    IN  {[allowlist |-> entries, private |-> p] : p \in BOOLEAN}
=============================================================================
