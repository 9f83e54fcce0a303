------------------------------ MODULE ModelMap ------------------------------
(***************************************************************************)
(* Model-name resolution: which accounts may serve a requested model, and  *)
(* what name the request carries upstream (src/src/models.rs).             *)
(*                                                                         *)
(* Names are strings of a small constant set.  That a name contains a      *)
(* family key, case folded, is data, given by the constant FamiliesIn.     *)
(***************************************************************************)
EXTENDS Integers, Sequences, FiniteSets

CONSTANTS
    ModelName,    \* names a client request or a model map may contain
    FamiliesIn    \* FamiliesIn[m]: the family keys that occur in name m

KNOWN_FAMILIES == <<"opus", "sonnet", "haiku", "fable">>

FamilyKeys == {KNOWN_FAMILIES[i] : i \in DOMAIN KNOWN_FAMILIES}

DefaultKey == "default"

ASSUME ModelNameAssumption == FamiliesIn \in [ModelName -> SUBSET FamilyKeys]

\* The first known family that occurs in the name, as a set of at most one.
family(m) ==
    {KNOWN_FAMILIES[i] : i \in {j \in DOMAIN KNOWN_FAMILIES :
        /\ KNOWN_FAMILIES[j] \in FamiliesIn[m]
        /\ \A k \in 1 .. (j - 1) : KNOWN_FAMILIES[k] \notin FamiliesIn[m]}}

\* The map entry a request for m uses: exact name, then family, then default.
\* A set of at most one upstream name, empty when no entry applies.
resolve(mapping, m) ==
    LET byFamily == family(m) \cap DOMAIN mapping
    IN  CASE m \in DOMAIN mapping -> {mapping[m]}
          [] m \notin DOMAIN mapping /\ byFamily # {} ->
                {mapping[k] : k \in byFamily}
          [] m \notin DOMAIN mapping /\ byFamily = {} ->
                {mapping[k] : k \in DOMAIN mapping \cap {DefaultKey}}

\* Whether an account whose model map has these keys may serve the model.
accepted(keys, m) ==
    \/ keys = {}
    \/ m \in keys
    \/ DefaultKey \in keys
    \/ family(m) \cap keys # {}
=============================================================================
