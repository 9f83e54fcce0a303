--------------------------- MODULE MCAdminSessions ---------------------------
(***************************************************************************)
(* Instances of the session manager.  Handler slots are interchangeable.   *)
(***************************************************************************)
EXTENDS AdminSessions, TLC

HandlerSymmetry == Permutations(Handler)
=============================================================================
