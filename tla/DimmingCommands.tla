--------------------------- MODULE DimmingCommands ---------------------------
(***************************************************************************)
(* Timeout commands with exec=builtin:dim and resume_exec=builtin:undim:   *)
(* the event manager and the commands' activated flags drive the brightness *)
(* controller, on top of what the activity detector promises (IdleNotifier, *)
(* which EventManager is shown to implement).                               *)
(***************************************************************************)
EXTENDS BrightnessController

CONSTANT Dimmers            \* the commands; the configuration does not change

VARIABLES
    registered, notified,   \* of IdleNotifier
    activated,              \* the commands whose activated flag is set
    dimmed_by               \* history: those of them whose dim() was accepted

commandVars == <<registered, notified, activated, dimmed_by>>
allVars == <<vars, commandVars>>

Notifier == INSTANCE IdleNotifier WITH Data <- Dimmers

DimmingInit ==
    /\ Init
    /\ registered = Dimmers /\ notified = {}
    /\ activated = {} /\ dimmed_by = {}

-----------------------------------------------------------------------------
\* EVENT_ACTIVITY_TIMEOUT and Command::activate; BuiltinExecutor logs that dim()
\* was refused.
ActivityTimeout == \E c \in registered \ notified :
    /\ notified' = notified \cup {c}
    /\ activated' = activated \cup {c}
    /\ UNCHANGED registered
    /\ \/ c \in activated /\ UNCHANGED <<vars, dimmed_by>>
       \/ c \notin activated /\ Dim /\ dimmed_by' = dimmed_by \cup {c}
       \/ c \notin activated /\ ~ AcceptsDim /\ UNCHANGED <<vars, dimmed_by>>

\* restore_brightness(); a second call right after the first does nothing.
restore_brightness ==
    \/ CancelDimming
    \/ RestoreDimmed
    \/ dimming_state \in {"NONE", "CANCELLED"} /\ UNCHANGED vars

\* Mutant: a command that was activated while dim() was refused does not undim, and
\* neither do the others.
ResumedIfAllAccepted ==
    /\ activated' = {} /\ dimmed_by' = {}
    /\ IF activated # {} /\ activated = dimmed_by
       THEN restore_brightness ELSE UNCHANGED vars

handle_activity_resumed ==
    /\ activated' = {} /\ dimmed_by' = {}
    /\ IF activated # {} THEN restore_brightness ELSE UNCHANGED vars

\* EVENT_ACTIVITY_RESUME; EVENT_WAKE with wake_resumes_activity.
ActivityResume == notified # {} /\ Notifier!Resume /\ handle_activity_resumed
Wake == handle_activity_resumed /\ UNCHANGED <<registered, notified>>

\* disable_all_timeouts and enable_all_timeouts, for audio or a pause: the commands
\* that are activated stay so.
DisableTimeouts ==
    /\ registered = Dimmers
    /\ registered' = {} /\ notified' = {}
    /\ UNCHANGED <<vars, activated, dimmed_by>>

EnableTimeouts ==
    /\ registered = {}
    /\ registered' = Dimmers
    /\ UNCHANGED <<vars, notified, activated, dimmed_by>>

EventManager == ActivityTimeout \/ ActivityResume \/ Wake \/ DisableTimeouts \/ EnableTimeouts

Brightness == /\ \/ \E t \in Tasks : TaskCallback(t) \/ Thread(t)
                 \/ UserSetsBrightness
              /\ UNCHANGED commandVars

DimmingNext == EventManager \/ Brightness

\* The main loop dispatches pending callbacks, the kernel schedules threads; what
\* the user does is up to him.
DimmingSpec ==
    /\ DimmingInit /\ [][DimmingNext]_allVars
    /\ \A t \in Tasks : WF_allVars(TaskCallback(t) /\ UNCHANGED commandVars)
                        /\ WF_allVars(Thread(t) /\ UNCHANGED commandVars)

-----------------------------------------------------------------------------
(* Properties.                                                             *)

\* While the monitor is dimmed or being dimmed, a command that did it is activated:
\* the next resume that is reported undims it, also if other commands found the
\* controller busy, alarms were torn down and set up again, or a task completed
\* meanwhile.  And what it dimmed nobody undims before
\* (command.cc:180-214, brightness_controller.cc:211-245).
DimmedIffByCommand ==
    dimming_state \in {"DIMMING", "DIMMED"} <=> dimmed_by # {}

\* A dimming comes to its end, whatever calls of logind fail, unless it is undone.
DimmingEnds == dimming_state = "DIMMING" ~> (dimming_state = "DIMMED" \/ dimmed_by = {})

\* Once no command is activated the brightness is restored, unless one is activated
\* again: no dimming outlives its commands.
UndimmedWhenNoneActive == activated = {} ~> (dimming_state = "NONE" \/ activated # {})

=============================================================================
