----------------------------- MODULE LegacyImport -----------------------------
(***************************************************************************)
(* Reading a Claudeproxy environment file (parse_claudeproxy_env and what  *)
(* it calls in src/src/migration.rs).                                      *)
(*                                                                         *)
(* A line says which account it is about (0 when it is about none), how    *)
(* the variable is spelled (an index may have leading zeros), whether it   *)
(* holds the account's name or its credential, whether it is active or     *)
(* commented out, and what it says.  Of a name only whether it is blank    *)
(* matters; of a credential whether it is JSON, and the fields that decide *)
(* the account it becomes.                                                 *)
(***************************************************************************)
EXTENDS AccountStore, FiniteSetsExt

Endpoint == {"p1", "p2", "invalid"}

LegacyCredential ==
    [json : BOOLEAN,
     paused : BOOLEAN,
     oauth : {"none", "incomplete", "complete"},
     expires_at : Nat,                  \* of the OAuth token
     provider_type : {"bedrock", "anthropic", "other"},
     region : BOOLEAN,                  \* absent or well-formed
     aws_keys : BOOLEAN,                \* both present
     api_key : BOOLEAN,                 \* present and not empty
     base_url : {"none", "invalid", "official", "https"},
     model : BOOLEAN,                   \* a single model is given
     models : SUBSET ModelName,
     proxy_url : {"none"} \cup Endpoint,
     proxy_urls : Seq(Endpoint)]

Line == [index : Nat, key : STRING, part : {"name", "credential"},
         active : BOOLEAN, blank : BOOLEAN, credential : LegacyCredential]

\* LegacyEntry: enabled, and the name and credential lines once seen.
NewEntry(line) == [enabled |-> line.active, name |-> <<>>, credential |-> <<>>]

\* Mutant: the first line of an account decides whether it is enabled.
AddedFirst(entry, line) ==
    [enabled |-> entry.enabled,
     name |-> IF line.part = "name" THEN <<line>> ELSE entry.name,
     credential |-> IF line.part = "credential" THEN <<line>>
                    ELSE entry.credential]

Added(entry, line) ==
    [enabled |-> entry.enabled /\ line.active,
     name |-> IF line.part = "name" THEN <<line>> ELSE entry.name,
     credential |-> IF line.part = "credential" THEN <<line>>
                    ELSE entry.credential]

\* One turn of the loop over the lines.  found is a set of at most one: the
\* entries and the variables seen; none once a variable is seen twice.
ReadLine(found, line) ==
    LET entry(map) == IF line.index \in DOMAIN map THEN map[line.index]
                      ELSE NewEntry(line)
    IN  IF line.index = 0 THEN found
        ELSE {[entries |-> With(f.entries, line.index,
                                Added(entry(f.entries), line)),
               seen |-> f.seen \cup {line.key}] :
                f \in {g \in found : line.key \notin g.seen}}

\* The provider an API credential stands for, as a set of at most one.
convert_api_provider(legacy) ==
    CASE legacy.provider_type = "bedrock" ->
            {k \in {IF legacy.aws_keys THEN "bedrock-sigv4"
                    ELSE "bedrock-api-key"} :
                legacy.region /\ (legacy.aws_keys \/ legacy.api_key)}
      [] legacy.provider_type = "anthropic" ->
            {k \in {"anthropic-api-key"} :
                legacy.api_key /\ legacy.base_url # "invalid"}
      [] legacy.provider_type = "other" ->
            {k \in {IF legacy.base_url = "official" THEN "anthropic-api-key"
                    ELSE "anthropic-compatible"} :
                legacy.api_key /\ legacy.base_url \in {"official", "https"}}

ProviderKind(legacy) ==
    CASE legacy.oauth = "complete" -> {"claude-oauth"}
      [] legacy.oauth = "incomplete" -> {}
      [] legacy.oauth = "none" -> convert_api_provider(legacy)

\* The egress list: the single proxy comes first.
egress_proxies(legacy) ==
    (IF legacy.proxy_url = "none" THEN <<>> ELSE <<legacy.proxy_url>>)
        \o legacy.proxy_urls

\* The imported account and its credential, as a set of at most one.
convert_credential(index, enabled, legacy) ==
    {[id |-> index,
      account |->
        [kind |-> IF kind = "claude-oauth" THEN "oauth" ELSE "api",
         enabled |-> enabled /\ ~ legacy.paused,
         models |-> legacy.models
                    \cup (IF legacy.model THEN {DefaultKey} ELSE {}),
         egress |-> egress_proxies(legacy)],
      secret |->
        [form |-> IF kind = "claude-oauth" THEN "envelope" ELSE "raw",
         expires_at |-> IF kind = "claude-oauth" THEN legacy.expires_at
                        ELSE NoExpiry]] :
        kind \in ProviderKind(legacy)}

convert_entry(index, entry) ==
    IF /\ entry.name # <<>> /\ ~ Head(entry.name).blank
       /\ entry.credential # <<>> /\ Head(entry.credential).credential.json
    THEN convert_credential(index, entry.enabled,
                            Head(entry.credential).credential)
    ELSE {}

\* The accounts of a file in the order of their indices, as a set of at most
\* one sequence: none if any line or account is in error, or no account found.
parse_claudeproxy_env(lines) ==
    LET found == MapThenFoldSet(LAMBDA line, read : ReadLine(read, line),
                                {[entries |-> Empty, seen |-> {}]},
                                LAMBDA i : lines[i], Max, DOMAIN lines)
        ordered(map) ==
            [n \in 1 .. Cardinality(DOMAIN map) |->
                CHOOSE i \in DOMAIN map :
                    Cardinality({j \in DOMAIN map : j < i}) = n - 1]
        converted(map) ==
            [i \in DOMAIN ordered(map) |->
                CHOOSE a \in convert_entry(ordered(map)[i],
                                           map[ordered(map)[i]]) : TRUE]
    IN  {converted(f.entries) : f \in {g \in found :
            /\ DOMAIN g.entries # {}
            /\ \A i \in DOMAIN g.entries :
                convert_entry(i, g.entries[i]) # {}}}
=============================================================================
