------------------------------ MODULE DimmingMC ------------------------------
(***************************************************************************)
(* DimmingCommands with two commands and small sets of tasks, levels and   *)
(* clock steps.                                                            *)
(***************************************************************************)
EXTENDS DimmingCommands

=============================================================================
