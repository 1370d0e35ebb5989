---------------------------- MODULE MCExpansion ----------------------------
(* Instances of Expansion for TLC. *)
EXTENDS Expansion, TLC

CONSTANTS page, a, b, r, gone

\* r is a redirect to a.
RedirectToA == r :> a
=============================================================================
