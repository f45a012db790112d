---------------------------- MODULE BrightnessMC ----------------------------
(***************************************************************************)
(* BrightnessController with small sets of tasks, levels and clock steps.  *)
(***************************************************************************)
EXTENDS BrightnessController

=============================================================================
