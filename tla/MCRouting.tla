------------------------------ MODULE MCRouting ------------------------------
(***************************************************************************)
(* Router instance: two accounts, two sessions, a model name that only its *)
(* own key serves and a family key, and clock readings one idle timeout    *)
(* apart, so that a binding can outlive one reading and not the next.      *)
(***************************************************************************)
EXTENDS Routing

MCFamiliesIn == [m \in ModelName |-> {"opus"}]
=============================================================================
