---------------------------- MODULE MCBlockCalls ----------------------------
(***************************************************************************)
(* BlockCalls with blocks of up to six instructions, three per call, and   *)
(* two free positions between the slots of a new block, so that gaps fill  *)
(* up and tails are shifted.                                               *)
(***************************************************************************)
EXTENDS BlockCalls
=============================================================================
