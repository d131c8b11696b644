--------------------------- MODULE MCSynthesizer ---------------------------
(***************************************************************************)
(* Two threads at most, one pass object of each class and two of those     *)
(* that declare variables: one variable placed by register_var, one with   *)
(* an address of its own. The start and the end code define one label.     *)
(***************************************************************************)
EXTENDS Synthesizer

MCKind ==
    [block |-> "block", reserve |-> "reserve", free |-> "unreserve",
     table |-> "declare", fixed |-> "declare", start |-> "init",
     finish |-> "fini", enter |-> "init", forbid |-> "fix"]
MCPasses == DOMAIN MCKind
MCSubject ==
    [block |-> "none", reserve |-> "x5", free |-> "x5", table |-> "table",
     fixed |-> "fixed", start |-> "loop", finish |-> "loop", enter |-> NoLabel,
     forbid |-> "none"]
MCVars == {"context", "scratch", "table", "fixed"}
MCBasicVars == <<"context", "scratch">>
MCSize == [context |-> 2, scratch |-> 3, table |-> 4, fixed |-> 2]
MCAlign == [context |-> 1, scratch |-> 1, table |-> 4, fixed |-> 1]
MCPreset == [context |-> NoAddress, scratch |-> NoAddress,
             table |-> NoAddress, fixed |-> 40]
MCEnvReserved == {"x31"}
=============================================================================
