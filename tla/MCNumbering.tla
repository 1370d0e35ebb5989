---------------------------- MODULE MCNumbering ----------------------------
(* Instances of Numbering for TLC; every constant is given in the .cfg. *)
EXTENDS Numbering
=============================================================================
