---------------------------- MODULE GradualDimmer ----------------------------
(***************************************************************************)
(* What dim() and restore_brightness() promise, without tasks and threads. *)
(* The level is lowered in steps, each of which begins while the dimming   *)
(* is wanted.  When the dimming is cancelled one step may be under way; the *)
(* level is restored when it is over, and from then on belongs to the user. *)
(***************************************************************************)
EXTENDS Integers

CONSTANTS Levels, Minimum, Unknown

VARIABLES
    state,
    original,       \* the level to be restored, Unknown before the first dimming
    reached,        \* the level the dimming has come to, original if there is none
    stepping,       \* a step is under way
    level,          \* of the monitor
    settled         \* the level last restored or chosen by the user

vars == <<state, original, reached, stepping, level, settled>>

Init ==
    /\ state = "NONE"
    /\ original = Unknown /\ reached = Unknown
    /\ ~ stepping
    /\ level \in Levels /\ settled = level

Dim ==
    /\ state = "NONE"
    /\ state' = "DIMMING"
    /\ original' = IF original = Unknown THEN level ELSE original
    /\ reached' = original'
    /\ UNCHANGED <<stepping, level, settled>>

BeginStep ==
    /\ state = "DIMMING"
    /\ original > Minimum
    /\ ~ stepping /\ stepping'
    /\ UNCHANGED <<state, original, reached, level, settled>>

\* Never up again, and the level may fail to be set.
EndStep ==
    /\ stepping /\ ~ stepping'
    /\ reached' \in Minimum .. reached
    /\ level' \in {level, reached', Minimum}
    /\ UNCHANGED <<state, original, settled>>

Cancel ==
    /\ state = "DIMMING"
    /\ state' = "CANCELLED"
    /\ UNCHANGED <<original, reached, stepping, level, settled>>

Dimmed ==
    /\ state = "DIMMING" /\ ~ stepping
    /\ state' = "DIMMED"
    /\ reached' = original
    /\ UNCHANGED <<original, stepping, level, settled>>

Restored ==
    /\ state # "NONE" /\ ~ stepping
    /\ state' = "NONE"
    /\ reached' = original
    /\ level' \in {level, original} /\ settled' = level'
    /\ UNCHANGED <<original, stepping>>

UserSets ==
    /\ level' \in Levels /\ settled' = level'
    /\ UNCHANGED <<state, original, reached, stepping>>

Next == Dim \/ BeginStep \/ EndStep \/ Cancel \/ Dimmed \/ Restored \/ UserSets

Spec == Init /\ [][Next]_vars

=============================================================================
