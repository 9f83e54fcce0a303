----------------------------- MODULE MCDataPlane -----------------------------
(***************************************************************************)
(* Instances of the composed system.  Requests are interchangeable.        *)
(***************************************************************************)
EXTENDS DataPlane, MCControlPlane

RequestSymmetry == Permutations(Request)

RequestAndCallSymmetry == RequestSymmetry \cup CallSymmetry

OneOauth == {OauthDirect}

OneApi == {[ApiChained EXCEPT !.models = {}]}

RawOnly == {RawToken}

MalformedOrEnvelope == {Malformed, Envelope(2)}
=============================================================================
