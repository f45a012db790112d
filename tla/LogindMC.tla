------------------------------- MODULE LogindMC -------------------------------
(***************************************************************************)
(* LogindManager with two sleep commands and a lock command.               *)
(***************************************************************************)
EXTENDS LogindManager

=============================================================================
