-------------------------- MODULE MCDefinitionCache --------------------------
(***************************************************************************)
(* DefinitionCache with two processes and two layers: enough for a process *)
(* to stop between the layers while another one imports.                   *)
(***************************************************************************)
EXTENDS DefinitionCache
=============================================================================
