---------------------------- MODULE MCExecContext ----------------------------
(***************************************************************************)
(* ExecContext with two registers, the numbers 0 and 1 as int and float,   *)
(* and regions of up to two bytes at three addresses of one base.          *)
(***************************************************************************)
EXTENDS ExecContext
=============================================================================
