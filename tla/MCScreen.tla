----------------------------- MODULE MCScreen -----------------------------
(* A viewport of two rows onto a few short lines. *)
EXTENDS Screen
=============================================================================
