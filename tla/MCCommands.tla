------------------------------ MODULE MCCommands ------------------------------
(***************************************************************************)
(* A database with an account that is disabled, and one whose second       *)
(* account has a list that only an earlier version accepted; environment   *)
(* files that are in order, fail half way, or are refused.                 *)
(***************************************************************************)
EXTENDS Commands, TLC

ApiCredential ==
    [json |-> TRUE, paused |-> FALSE, oauth |-> "none", expires_at |-> 0,
     provider_type |-> "other", region |-> TRUE, aws_keys |-> FALSE,
     api_key |-> TRUE, base_url |-> "https", model |-> FALSE, models |-> {},
     proxy_url |-> "none", proxy_urls |-> <<>>]

OauthCredential ==
    [ApiCredential EXCEPT !.oauth = "complete", !.expires_at = 9,
                          !.proxy_url = "p2", !.proxy_urls = <<"p1">>]

InvalidProxy == [ApiCredential EXCEPT !.proxy_url = "invalid"]

Paused == [ApiCredential EXCEPT !.paused = TRUE]

NoApiKey == [ApiCredential EXCEPT !.api_key = FALSE]

\* Keys are spelled with their index.
NameLine(i, on) ==
    [index |-> i, key |-> "name" \o ToString(i), part |-> "name", active |-> on,
     blank |-> FALSE, credential |-> ApiCredential]

CredentialLine(i, on, holding) ==
    [index |-> i, key |-> "credential" \o ToString(i), part |-> "credential",
     active |-> on, blank |-> FALSE, credential |-> holding]

MCFiles == {
    \* two accounts, the second one commented out in part
    <<CredentialLine(1, TRUE, OauthCredential), NameLine(2, FALSE),
      NameLine(1, TRUE), CredentialLine(2, TRUE, ApiCredential)>>,
    \* a credential commented out after its name, and one before; the first
    \* account cannot be stored
    <<NameLine(1, TRUE), CredentialLine(2, FALSE, ApiCredential),
      CredentialLine(1, FALSE, InvalidProxy), NameLine(2, TRUE)>>,
    \* a paused credential, and a name commented out after its credential;
    \* the second account cannot be stored
    <<NameLine(1, TRUE), CredentialLine(1, TRUE, Paused),
      CredentialLine(2, TRUE, InvalidProxy), NameLine(2, FALSE)>>,
    \* refused: a variable twice, a name missing, no key, no account
    <<NameLine(1, TRUE), CredentialLine(1, TRUE, ApiCredential),
      NameLine(1, FALSE)>>,
    <<CredentialLine(1, TRUE, ApiCredential)>>,
    <<NameLine(1, TRUE), CredentialLine(1, TRUE, NoApiKey)>>,
    <<NameLine(0, TRUE)>>}

Stored(list) ==
    [models |-> {}, kind |-> "api", enabled |-> TRUE, egress |-> list]

MCFound == {
    1 :> [Stored(<<"p1">>) EXCEPT !.enabled = FALSE],
    1 :> Stored(<<"p1">>) @@ 2 :> Stored(<<"invalid">>)}

MCInput == {Stored(<<"p2">>)}

MCFamilies == [m \in ModelName |-> {}]

ProcessSymmetry == Permutations(Process)

ASSUME FilesParseWhole == ParsesWhole

MCEgress == UNION {[1 .. n -> Endpoint] : n \in 0 .. 2}
=============================================================================
