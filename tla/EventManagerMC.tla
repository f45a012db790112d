--------------------------- MODULE EventManagerMC ---------------------------
(***************************************************************************)
(* Instances of EventManager for TLC.  Time is in units such that the       *)
(* smallest timeout is 2 and the resume alarm waits for 1.                  *)
(***************************************************************************)
EXTENDS EventManager

=============================================================================
