---------------------------- MODULE MCWikiCache ----------------------------
(* Instances of WikiCache for TLC. *)
EXTENDS WikiCache

CONSTANTS h1, h2, page, html

Symmetry == Permutations(Handles) \union Permutations(Revs)
=============================================================================
