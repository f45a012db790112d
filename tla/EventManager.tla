---------------------------- MODULE EventManager ----------------------------
(***************************************************************************)
(* The EventManager of event_manager.cc with the activation state of its   *)
(* commands (command.cc), the part of ConfigManager it reads and the       *)
(* D-Bus requests that change it, on top of the ActivityDetector and the X *)
(* server.  Every handler runs to completion in the main loop, so it is    *)
(* one action; the X server and the user run concurrently with it.         *)
(***************************************************************************)
EXTENDS ActivityDetector

CONSTANT OtherTriggers      \* the triggers that are not TIMEOUT

ASSUME TriggerAssumption == OtherTriggers \subseteq {"SLEEP", "LOCK"}

VARIABLES
    commands,               \* id_to_command
    command_id_counter,
    ignore_audio,           \* the setting IgnoreAudio
    audio_playing, paused, timeouts_are_enabled,
    owed                    \* history: TIMEOUT commands the present alarms have
                            \* activated and not yet deactivated

managerVars == <<commands, command_id_counter, ignore_audio,
                 audio_playing, paused, timeouts_are_enabled, owed>>
vars == <<idle, det, xevents, commands, command_id_counter, ignore_audio,
          audio_playing, paused, timeouts_are_enabled, owed>>

-----------------------------------------------------------------------------
Triggers == {"TIMEOUT"} \cup OtherTriggers

\* timeout_ms keeps its last value when the trigger changes; 0 if never set.
Commands == [trigger : Triggers, timeout_ms : Timeouts \cup {0}, activated : BOOLEAN]

\* Mutant: "timeout 0" is accepted.
ParsesZero(old) == {<<"TIMEOUT", t>> : t \in Timeouts \cup {0}}
                   \cup {<<trigger, old>> : trigger \in OtherTriggers}

\* set_trigger_from_str on a command that last had timeout_ms = old.
ParsedTriggers(old) == {<<"TIMEOUT", t>> : t \in Timeouts}
                       \cup {<<trigger, old>> : trigger \in OtherTriggers}

NewCommands == {[trigger |-> p[1], timeout_ms |-> p[2], activated |-> FALSE] :
                    p \in ParsedTriggers(0)}

TimeoutIds(cmds)    == {id \in DOMAIN cmds : cmds[id].trigger = "TIMEOUT"}
TimeoutValues(cmds) == [id \in TimeoutIds(cmds) |-> cmds[id].timeout_ms]

timeouts_should_be_disabled == (audio_playing /\ ~ ignore_audio) \/ paused

Init ==
    /\ idle \in 0 .. MaxIdle
    /\ xevents = <<>>
    /\ \E n \in 0 .. Cardinality(Data) :
          /\ 1 .. n \subseteq Data
          /\ commands \in [1 .. n -> NewCommands]
          /\ command_id_counter = n
    /\ ignore_audio \in BOOLEAN
    /\ audio_playing = FALSE
    /\ paused = FALSE
    /\ det = AddIdleTimeouts(NewDetector, TimeoutValues(commands))
    /\ timeouts_are_enabled = TRUE
    /\ owed = {}

-----------------------------------------------------------------------------
(* The calls the handlers share; the flags they test are the updated ones. *)

enable_all_timeouts ==
    IF timeouts_are_enabled \/ timeouts_should_be_disabled'
    THEN UNCHANGED <<det, timeouts_are_enabled, owed>>
    ELSE /\ det' = AddIdleTimeouts(det, TimeoutValues(commands))
         /\ timeouts_are_enabled' = TRUE
         /\ UNCHANGED owed

disable_all_timeouts ==
    IF timeouts_are_enabled
    THEN /\ det' = ClearTimeouts(det)
         /\ timeouts_are_enabled' = FALSE
         /\ owed' = {}
    ELSE UNCHANGED <<det, timeouts_are_enabled, owed>>

\* Mutants: a new timeout is added though timeouts are disabled; a deleted one is
\* not removed.
EnabledUnchecked(d, id, timeout_ms) == AddIdleTimeout(d, timeout_ms, id)
NotDisabled(d, id) == d

\* enable_timeout_for_new_command and disable_timeout_for_deleted_command: the
\* detector d after the call.
EnabledForNew(d, id, timeout_ms) ==
    IF timeouts_should_be_disabled THEN d
    ELSE AddIdleTimeout(d, timeout_ms, id)

DisabledForDeleted(d, id) ==
    IF timeouts_are_enabled THEN RemoveIdleTimeout(d, id) ELSE d

\* handle_activity_resumed: every command that still is a TIMEOUT command.
handle_activity_resumed ==
    /\ commands' = [id \in DOMAIN commands |->
                       IF commands[id].trigger = "TIMEOUT"
                       THEN [commands[id] EXCEPT !.activated = FALSE]
                       ELSE commands[id]]
    /\ owed' = {}

-----------------------------------------------------------------------------
(* EVENT_ACTIVITY_TIMEOUT and EVENT_ACTIVITY_RESUME: the event at the head  *)
(* of the queue is filtered and dispatched.                                *)

DeliverTimeout(id) ==
    /\ xevents # <<>>
    /\ IsTimeoutFor(Head(xevents), id)
    /\ xevents' = Tail(xevents)
    /\ commands' = [commands EXCEPT ![id].activated =
                       IF commands[id].trigger = "TIMEOUT" THEN TRUE ELSE @]
    /\ owed' = owed \cup {id}
    /\ UNCHANGED <<idle, det, command_id_counter, ignore_audio,
                   audio_playing, paused, timeouts_are_enabled>>

DropDeleted ==
    /\ xevents # <<>>
    /\ IsForDeletedAlarm(Head(xevents))
    /\ xevents' = Tail(xevents)
    /\ UNCHANGED <<idle, det>> /\ UNCHANGED managerVars

\* Mutant: a resume event is dropped when the user is idle again by now.
DeliverFreshResume ==
    /\ xevents # <<>>
    /\ IsResume(Head(xevents))
    /\ xevents' = Tail(xevents)
    /\ IF idle < Head(xevents).alarm.wait
       THEN handle_activity_resumed ELSE UNCHANGED <<commands, owed>>
    /\ UNCHANGED <<idle, det, command_id_counter, ignore_audio,
                   audio_playing, paused, timeouts_are_enabled>>

DeliverResume ==
    /\ xevents # <<>>
    /\ IsResume(Head(xevents))
    /\ xevents' = Tail(xevents)
    /\ handle_activity_resumed
    /\ UNCHANGED <<idle, det, command_id_counter, ignore_audio,
                   audio_playing, paused, timeouts_are_enabled>>

Deliver == (\E id \in Data : DeliverTimeout(id)) \/ DropDeleted \/ DeliverResume

\* EVENT_WAKE; without wake_resumes_activity, a setting read nowhere else,
\* it changes nothing here.
Wake ==
    /\ handle_activity_resumed
    /\ UNCHANGED <<idle, det, xevents, command_id_counter, ignore_audio,
                   audio_playing, paused, timeouts_are_enabled>>

-----------------------------------------------------------------------------
(* EVENT_AUDIO_RUNNING and EVENT_AUDIO_STOPPED. *)

AudioRunning ==
    /\ ~ audio_playing
    /\ audio_playing' = TRUE
    /\ IF ignore_audio THEN UNCHANGED <<det, timeouts_are_enabled, owed>>
                       ELSE disable_all_timeouts
    /\ UNCHANGED <<idle, xevents, commands, command_id_counter, ignore_audio, paused>>

AudioStopped ==
    /\ audio_playing
    /\ audio_playing' = FALSE
    /\ UNCHANGED <<idle, xevents, commands, command_id_counter, ignore_audio, paused>>
    /\ IF ignore_audio THEN UNCHANGED <<det, timeouts_are_enabled, owed>>
                       ELSE enable_all_timeouts

-----------------------------------------------------------------------------
(* Requests that reach the daemon over D-Bus. *)

\* EVENT_CONFIG_CHANGED for IgnoreAudio, after set_ignore_audio.
SetIgnoreAudio ==
    /\ ignore_audio' = ~ ignore_audio
    /\ UNCHANGED <<idle, xevents, commands, command_id_counter, audio_playing, paused>>
    /\ \/ ~ audio_playing /\ UNCHANGED <<det, timeouts_are_enabled, owed>>
       \/ audio_playing /\ ignore_audio' /\ enable_all_timeouts
       \/ audio_playing /\ ~ ignore_audio' /\ disable_all_timeouts

Pause ==
    /\ paused' = TRUE
    /\ disable_all_timeouts
    /\ UNCHANGED <<idle, xevents, commands, command_id_counter, ignore_audio, audio_playing>>

\* Mutant: unpausing enables the timeouts although audio is playing.
UnpauseUnchecked ==
    /\ paused' = FALSE
    /\ UNCHANGED <<idle, xevents, commands, command_id_counter, ignore_audio, audio_playing>>
    /\ IF timeouts_are_enabled THEN UNCHANGED <<det, timeouts_are_enabled, owed>>
       ELSE /\ det' = AddIdleTimeouts(det, TimeoutValues(commands))
            /\ timeouts_are_enabled' = TRUE
            /\ UNCHANGED owed

Unpause ==
    /\ paused' = FALSE
    /\ UNCHANGED <<idle, xevents, commands, command_id_counter, ignore_audio, audio_playing>>
    /\ enable_all_timeouts

\* handle_set_property_for_action and EVENT_COMMAND_CHANGED for Trigger: the
\* old version is deleted and the new one added, activated is kept.
SetTrigger(id) ==
    /\ id \in DOMAIN commands
    /\ \E parsed \in ParsedTriggers(commands[id].timeout_ms) :
          LET wasTimeout == commands[id].trigger = "TIMEOUT"
              removed    == IF wasTimeout THEN DisabledForDeleted(det, id) ELSE det
          IN  /\ commands' = [commands EXCEPT ![id] =
                                 [trigger    |-> parsed[1],
                                  timeout_ms |-> parsed[2],
                                  activated  |-> commands[id].activated]]
              /\ det' = IF parsed[1] = "TIMEOUT"
                        THEN EnabledForNew(removed, id, parsed[2]) ELSE removed
              /\ owed' = owed \ {id}
    /\ UNCHANGED <<idle, xevents, command_id_counter, ignore_audio,
                   audio_playing, paused, timeouts_are_enabled>>

\* on_add_action and EVENT_COMMAND_ADDED.
AddAction ==
    LET id == command_id_counter + 1
    IN  /\ id \in Data
        /\ command_id_counter' = id
        /\ \E cmd \in NewCommands :
              /\ commands' = [i \in DOMAIN commands \cup {id} |->
                                 IF i = id THEN cmd ELSE commands[i]]
              /\ det' = IF cmd.trigger = "TIMEOUT"
                        THEN EnabledForNew(det, id, cmd.timeout_ms) ELSE det
        /\ UNCHANGED <<idle, xevents, ignore_audio, audio_playing, paused,
                       timeouts_are_enabled, owed>>

\* on_remove_action and EVENT_COMMAND_REMOVED.
RemoveAction(id) ==
    /\ id \in DOMAIN commands
    /\ commands' = Restrict(commands, DOMAIN commands \ {id})
    /\ det' = IF commands[id].trigger = "TIMEOUT" THEN DisabledForDeleted(det, id) ELSE det
    /\ owed' = owed \ {id}
    /\ UNCHANGED <<idle, xevents, command_id_counter, ignore_audio,
                   audio_playing, paused, timeouts_are_enabled>>

-----------------------------------------------------------------------------
XServer == (Tick \/ UserActivity) /\ UNCHANGED det /\ UNCHANGED managerVars

Next ==
    \/ XServer
    \/ Deliver
    \/ Wake
    \/ AudioRunning \/ AudioStopped
    \/ SetIgnoreAudio \/ Pause \/ Unpause
    \/ AddAction
    \/ \E id \in Data : SetTrigger(id) \/ RemoveAction(id)

Spec == Init /\ [][Next]_vars

\* The main loop dispatches every event that waits on the X connection.
FairSpec == Spec /\ WF_vars(Deliver)

-----------------------------------------------------------------------------
TypeOK ==
    /\ DetectorTypeOK
    /\ DOMAIN commands \subseteq Data
    /\ commands \in [DOMAIN commands -> Commands]
    /\ \A id \in TimeoutIds(commands) : commands[id].timeout_ms \in Timeouts
    /\ command_id_counter \in Nat
    /\ \A id \in DOMAIN commands : id <= command_id_counter
    /\ ignore_audio \in BOOLEAN /\ audio_playing \in BOOLEAN
    /\ paused \in BOOLEAN /\ timeouts_are_enabled \in BOOLEAN
    /\ owed \subseteq TimeoutIds(commands)
    /\ \A id \in owed : commands[id].activated

(* Safety. *)

\* timeouts_are_enabled is a cache of timeouts_should_be_disabled that each of
\* five handlers refreshes under conditions of its own (event_manager.cc, the
\* comment "Possible transitions"): between handlers it is never stale.
EnabledIffAllowed == timeouts_are_enabled <=> ~ timeouts_should_be_disabled

\* The alarms are those of the present TIMEOUT commands with their present
\* timeouts, or none while timeouts are disabled: no command is left without its
\* alarm by an edit made while disabled, and lookup_command of a dispatched
\* event never returns null (receive dereferences it unchecked).
AlarmsMatchCommands ==
    /\ \A a \in det.pos_trans_alarms :
          a.data \in TimeoutIds(commands) /\ a.wait = commands[a.data].timeout_ms
    /\ timeouts_are_enabled =>
          \A id \in TimeoutIds(commands) : \E a \in det.pos_trans_alarms : a.data = id
    /\ ~ timeouts_are_enabled => det.pos_trans_alarms = {}

ResumeQueuedAfter(i)  == \E j \in DOMAIN xevents : j > i  /\ IsResume(xevents[j])
ResumeQueuedBefore(i) == \E j \in DOMAIN xevents : j < i  /\ IsResume(xevents[j])

\* The server will send a resume event at the next user activity.
ResumeArmed == /\ det.neg_trans_alarm # None
               /\ idle > det.neg_trans_alarm.wait

\* While the alarms stay in place no resume is lost: a command they activated
\* waits for user activity that the resume alarm will report, or the report is
\* on its way (activity_detector.cc, gdk_event_filter; EventManager's
\* handle_activity_resumed).
NoResumeLost == owed # {} => ResumeArmed \/ ResumeQueuedAfter(0)

\* An idle event of a registered command that is already owed its resume never
\* overtakes that resume: Command::activate's early return only ever hides
\* activations left over from alarms that were torn down.
NoDoubleTimeout ==
    \A i \in DOMAIN xevents, id \in owed :
        IsTimeoutFor(xevents[i], id) => ResumeQueuedBefore(i)

\* What the detector promises its client: the alarms, the queue and the
\* handlers implement the abstract notifier.
Notifier == INSTANCE IdleNotifier WITH
    registered <- {a.data : a \in det.pos_trans_alarms},
    notified   <- owed
NotifierSpec == Notifier!Spec

\* The order in which enable_all_timeouts walks the unordered_map of commands
\* does not matter: any order of add_idle_timeout calls leaves the same alarms
\* as AddIdleTimeouts (event_manager_test.cc: "It shouldn't matter if the timeouts
\* are passed in non-sorted order").
EnableOrderIrrelevant ==
    \A order \in SetToSeqs(TimeoutIds(commands)) :
        FoldLeft(LAMBDA d, id : AddIdleTimeout(d, commands[id].timeout_ms, id),
                 ClearTimeouts(det), order)
            = AddIdleTimeouts(ClearTimeouts(det), TimeoutValues(commands))

(* Liveness. *)

\* Once the user is back, a command the alarms activated is deactivated, or
\* the alarms or the command itself have been removed meanwhile.
ResumeDelivered == \A id \in Data : (id \in owed /\ idle = 0) ~> (id \notin owed)

-----------------------------------------------------------------------------
(* What the repository says of the program and the code does not keep.     *)

\* xidlechain.1.scd, trigger "timeout <seconds>": "Deactivated once activity
\* resumes."
DeactivatedOnceActivityResumes ==
    xevents = <<>> /\ idle = 0 =>
        \A id \in TimeoutIds(commands) : ~ commands[id].activated

\* event_manager.cc, handle_command_trigger_changed: "the new version of this
\* command is effectively a new command".
NewVersionIsNewCommand ==
    [][\A id \in DOMAIN commands \cap DOMAIN commands' :
          (commands[id].trigger # "TIMEOUT" /\ commands'[id].trigger = "TIMEOUT")
              => ~ commands'[id].activated]_vars

=============================================================================
