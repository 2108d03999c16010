--------------------------- MODULE MCPkrSupervisor ---------------------------
(***************************************************************************)
(* Two Supervisors, an operator, and three Assignments: the first, and the *)
(* two ids under which its recovery may be dispatched.                     *)
(***************************************************************************)
EXTENDS PkrSupervisor
=============================================================================
