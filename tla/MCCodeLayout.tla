---------------------------- MODULE MCCodeLayout ----------------------------
(***************************************************************************)
(* CodeLayout with two blocks and insertions of up to two instructions into*)
(* blocks with one free position between slots: small enough to overwrite, *)
(* to shift and to place instructions beyond the pointer.                  *)
(***************************************************************************)
EXTENDS CodeLayout
=============================================================================
