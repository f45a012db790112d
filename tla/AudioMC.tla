------------------------------- MODULE AudioMC -------------------------------
(***************************************************************************)
(* AudioDetector with two sinks.                                           *)
(***************************************************************************)
EXTENDS AudioDetector

=============================================================================
