--------------------------- MODULE MCInterpretAsm ---------------------------
(***************************************************************************)
(* InterpretAsm with lists of up to three statements over one label, two   *)
(* CPUs (so that three statements need three workers) and two calls (so    *)
(* that the second one meets the cache of the first).                      *)
(***************************************************************************)
EXTENDS InterpretAsm
=============================================================================
