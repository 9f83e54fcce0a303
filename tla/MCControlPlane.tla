--------------------------- MODULE MCControlPlane ---------------------------
(***************************************************************************)
(* Instances of the control plane: the accounts and the credentials the    *)
(* administrator submits, small enough for every interleaving of two calls *)
(* and a refresh pass.                                                     *)
(***************************************************************************)
EXTENDS ControlPlane, TLC

CallSymmetry == Permutations(Call)

MCFamiliesIn == [m \in ModelName |-> {}]

OauthDirect == [models |-> {}, enabled |-> TRUE, kind |-> "oauth",
                egress |-> "direct"]

ApiChained == [models |-> {"m"}, enabled |-> TRUE, kind |-> "api",
               egress |-> "chain"]

OauthChained == [OauthDirect EXCEPT !.models = {"m"}, !.egress = "chain"]

BothKinds == {OauthDirect, ApiChained}

OnePaused == {OauthDirect, [ApiChained EXCEPT !.enabled = FALSE]}

OauthOnly == {OauthDirect, OauthChained}

RawToken == [form |-> "raw", expires_at |-> NoExpiry]

Envelope(t) == [form |-> "envelope", expires_at |-> t]

Malformed == [form |-> "malformed", expires_at |-> NoExpiry]

EmptyEnvelope(t) == [form |-> "empty", expires_at |-> t]

EnvelopeOnly == {Envelope(2)}

\* An envelope the refresh loop replaces, one it replaces though it cannot be
\* loaded, and one that stops it.
OauthSecrets == {Envelope(2), EmptyEnvelope(2), Malformed}
=============================================================================
