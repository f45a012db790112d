------------------------------ MODULE ConfigStore ------------------------------
(***************************************************************************)
(* The configuration in memory (ConfigManager), in the file and on D-Bus   *)
(* (DbusRequestHandler), over any number of runs of the daemon.  A request *)
(* changes the memory and the exported object at once, is answered, and    *)
(* leaves an idle callback that rewrites the file later.  The file is also *)
(* edited by hand, and the daemon may be killed at any point.              *)
(*                                                                         *)
(* Command strings and names are values; what matters of their text is     *)
(* whether GKeyFile can write and read it (Unwritable, Multiline).         *)
(***************************************************************************)
EXTENDS Integers, FiniteSets, SequencesExt

CONSTANTS
    Names,                  \* names of actions
    Unwritable,             \* the names that cannot be in a section header
    Commands,               \* command strings that Action::factory accepts
    Multiline,              \* those that contain a line break
    Settings,               \* the settings of [Main] that clients can set
    OtherKinds,             \* the triggers clients ask for that are not timeouts
    Seconds,                \* the timeouts clients ask for
    MsPerSecond,            \* 1000 in the code
    MaxInt,                 \* the largest int: 2^31 - 1
    HandMade,               \* what the user may replace the file by
    MaxActions,             \* bound on command_id_counter for AddAction
    MaxPending              \* bound on the idle callbacks clients cause

ASSUME NamesAssumption   == Unwritable \subseteq Names /\ IsFiniteSet(Names)
ASSUME CommandAssumption == Multiline \subseteq Commands /\ "" \notin Commands
ASSUME SettingAssumption ==
    Settings \subseteq {"ignore_audio", "wait_before_sleep", "disable_screensaver",
                        "disable_automatic_dpms_activation", "wake_resumes_activity"}
ASSUME KindAssumption    == OtherKinds \subseteq {"sleep", "lock"}
ASSUME WidthAssumption ==
    /\ MaxInt \in Nat /\ MsPerSecond \in Nat \ {0}
    /\ Seconds \subseteq 1 .. MaxInt
ASSUME BoundAssumption   == MaxPending \in Nat

VARIABLES
    up,                     \* the daemon is running
    exported,               \* the bus was acquired: clients can call
    cmds,                   \* id_to_command
    command_id_counter,
    settings,               \* the values of the keys of [Main]
    objects,                \* what the object manager shows, by id
    pending,                \* idle callbacks that will save the file
    file,                   \* the configuration file
    unsaved                 \* history: the file was edited by hand, or could not
                            \* be saved, since it was last saved or read

vars == <<up, exported, cmds, command_id_counter, settings, objects, pending,
          file, unsaved>>

-----------------------------------------------------------------------------
(* Triggers and their text.                                                *)

None == ""                  \* no command: the null pointer, the empty string

Text(kind, seconds) == [kind |-> kind, seconds |-> seconds]
Texts == [kind : {"timeout", "sleep", "lock"}, seconds : Int]

\* Those clients ask for.
ClientTexts == {Text("timeout", s) : s \in Seconds}
               \cup {Text(kind, 0) : kind \in OtherKinds}

\* The texts set_trigger_from_str accepts.
Accepted(text) == text.kind = "timeout" => text.seconds \in 1 .. MaxInt

\* set_trigger_from_str on a command whose timeout_ms is old.
Parsed(text, old) ==
    CASE text.kind = "timeout" -> [trigger    |-> "TIMEOUT",
                                   timeout_ms |-> text.seconds * MsPerSecond]
      [] text.kind = "sleep"   -> [trigger |-> "SLEEP", timeout_ms |-> old]
      [] text.kind = "lock"    -> [trigger |-> "LOCK", timeout_ms |-> old]

\* The conversion of an int64_t to int, and division as in C.
ToInt(n)   == ((n + MaxInt + 1) % (2 * (MaxInt + 1))) - (MaxInt + 1)
Quot(a, b) == IF a >= 0 THEN a \div b ELSE -((-a) \div b)

\* static_get_trigger_str, whose timeout_ms is an int.
TriggerText(cmd) ==
    CASE cmd.trigger = "TIMEOUT" -> Text("timeout", Quot(ToInt(cmd.timeout_ms), MsPerSecond))
      [] cmd.trigger = "SLEEP"   -> Text("sleep", 0)
      [] cmd.trigger = "LOCK"    -> Text("lock", 0)

-----------------------------------------------------------------------------
(* Commands, sections of the file, exported objects.                       *)

CommandStrings == Commands \cup {None}

CommandRecords ==
    [name : Names, trigger : {"TIMEOUT", "SLEEP", "LOCK"}, timeout_ms : Nat,
     exec : CommandStrings, resume_exec : CommandStrings]

NewCommand(name, text, exec, resume_exec) ==
    LET parsed == Parsed(text, 0) IN
    [name |-> name, trigger |-> parsed.trigger, timeout_ms |-> parsed.timeout_ms,
     exec |-> exec, resume_exec |-> resume_exec]

is_valid(cmd) == cmd.exec # None \/ cmd.resume_exec # None

\* A section [Action name]; None for a key that is absent.
NoTrigger == Text("none", 0)
Sections  == [trigger : Texts \cup {NoTrigger}, exec : CommandStrings,
              resume_exec : CommandStrings]

\* Mutant: keys of actions that are no longer there are left in their section.
LeavesKeys(section, cmd) ==
    [trigger     |-> TriggerText(cmd),
     exec        |-> IF cmd.exec # None THEN cmd.exec ELSE section.exec,
     resume_exec |-> IF cmd.resume_exec # None THEN cmd.resume_exec
                     ELSE section.resume_exec]

\* What save_config_to_file makes of a section for a command: each key is set or
\* removed.
Written(section, cmd) ==
    [trigger |-> TriggerText(cmd), exec |-> cmd.exec, resume_exec |-> cmd.resume_exec]

EmptySection == [trigger |-> NoTrigger, exec |-> None, resume_exec |-> None]

ExportedSwapped(cmd) ==     \* Mutant
    [Name |-> cmd.name, Trigger |-> TriggerText(cmd),
     Exec |-> cmd.resume_exec, ResumeExec |-> cmd.exec]

\* The object add_action_to_object_manager makes.
Exported(cmd) == [Name |-> cmd.name, Trigger |-> TriggerText(cmd),
                  Exec |-> cmd.exec, ResumeExec |-> cmd.resume_exec]

Objects == [Name : Names, Trigger : Texts, Exec : CommandStrings,
            ResumeExec : CommandStrings]

-----------------------------------------------------------------------------
(* The file.  Besides one with sections as expected ("ini") it may be      *)
(* missing, unreadable for GKeyFile, or have a section of another name.    *)

Keys       == Settings \cup {"enable_dbus"}
Default(k) == k # "ignore_audio"

File(kind, main, actions) == [kind |-> kind, main |-> main, actions |-> actions]
Garbled == File("garbled", <<>>, <<>>)

IsFile(f) ==
    /\ f = File(f.kind, f.main, f.actions)
    /\ f.kind \in {"ini", "missing", "garbled", "alien"}
    /\ DOMAIN f.main \subseteq Keys /\ f.main \in [DOMAIN f.main -> BOOLEAN]
    /\ DOMAIN f.actions \subseteq Names \ Unwritable
    /\ f.actions \in [DOMAIN f.actions -> Sections]

ASSUME HandMadeAssumption == \A f \in HandMade : IsFile(f)

\* parse_main_section and parse_action_section.
ReadMain(main) == [k \in Keys |-> IF k \in DOMAIN main THEN main[k] ELSE Default(k)]
ReadAction(name, section) ==
    NewCommand(name, section.trigger, section.exec, section.resume_exec)

Readable(section) ==
    /\ section.trigger # NoTrigger
    /\ Accepted(section.trigger)
    /\ section.exec # None \/ section.resume_exec # None

\* parse_config_file succeeds.
Starts(f) == f.kind = "ini" /\ \A n \in DOMAIN f.actions : Readable(f.actions[n])

\* save_config_to_file gives up: the file has to be read first.
Unsavable(f) == f.kind \in {"garbled", "alien"}

CommandNames == {cmds[id].name : id \in DOMAIN cmds}

KeptAll(f) == DOMAIN f.actions \cup (CommandNames \ Unwritable)      \* Mutant

\* The sections after a save: those of the names in use that GKeyFile accepts.
SavedNames(f) == CommandNames \ Unwritable

\* The commands of one name write the same section; the one that comes last in
\* the order of the unordered_map, last[name], decides what it contains.
LastWriters == {last \in [CommandNames -> DOMAIN cmds] :
                    \A n \in CommandNames : cmds[last[n]].name = n}

SavedActions(f, last) ==
    [n \in SavedNames(f) |->
        LET section == IF n \in DOMAIN f.actions THEN f.actions[n] ELSE EmptySection
        IN  IF n \in CommandNames THEN Written(section, cmds[last[n]]) ELSE section]

\* The text g_key_file_to_data makes: a line break in a value breaks its line.
Rendered(main, actions) ==
    IF \E n \in DOMAIN actions :
          {actions[n].exec, actions[n].resume_exec} \cap Multiline # {}
    THEN Garbled
    ELSE File("ini", main, actions)

SavedFile(f, last) == Rendered(settings, SavedActions(f, last))

\* What a write that is cut short leaves of it: [Main] without some of its keys and
\* some of the sections, one of them without its last keys or with a value that is
\* cut.  (A value of [Main] that is cut is no boolean: Garbled.)
WholeKeys(K)              == [k \in K |-> settings[k]]
WholeSections(actions, N) == [n \in N |-> actions[n]]

Cuts(section) ==
    {[section EXCEPT !.trigger = text] : text \in ClientTexts}
    \cup {[section EXCEPT !.exec = exec, !.resume_exec = None] : exec \in Commands}
    \cup {[section EXCEPT !.resume_exec = exec] : exec \in CommandStrings}

\* A section that does not parse stands for all of those.
CutSections(section) == {EmptySection} \cup {cut \in Cuts(section) : Readable(cut)}

CutFiles(actions, N, n) ==
    {Rendered(settings, [WholeSections(actions, N \cup {n}) EXCEPT ![n] = cut]) :
        cut \in CutSections(actions[n])}

\* Mutant: the file is not truncated, and what was in it follows what was written.
NotTruncated(f, last) == {Rendered(WholeKeys(K), f.actions) : K \in SUBSET Keys}

TornFile(f, last) ==
    LET actions == SavedActions(f, last)
    IN  {Garbled}
        \cup {Rendered(WholeKeys(K), WholeSections(actions, N)) :
                 K \in SUBSET Keys, N \in SUBSET DOMAIN actions}
        \cup UNION {CutFiles(actions, N, n) :
                       N \in SUBSET DOMAIN actions, n \in DOMAIN actions}

-----------------------------------------------------------------------------
(* Start and end of the daemon.                                            *)

Down == /\ up = FALSE /\ exported = FALSE
        /\ cmds = <<>> /\ command_id_counter = 0
        /\ settings = [k \in Keys |-> Default(k)]
        /\ objects = <<>> /\ pending = 0 /\ unsaved = FALSE

\* A new process starts with the same state.
GoDown ==
    /\ up' = FALSE /\ exported' = FALSE
    /\ cmds' = <<>> /\ command_id_counter' = 0
    /\ settings' = [k \in Keys |-> Default(k)]
    /\ objects' = <<>> /\ pending' = 0 /\ unsaved' = FALSE

Init == Down /\ file \in HandMade

\* parse_config_file; the sections are numbered in their order in the file.
Start ==
    /\ ~ up
    /\ Starts(file)
    /\ up' = TRUE
    /\ settings' = ReadMain(file.main)
    /\ \E order \in SetToSeqs(DOMAIN file.actions) :
          cmds' = [id \in DOMAIN order |-> ReadAction(order[id], file.actions[order[id]])]
    /\ command_id_counter' = Cardinality(DOMAIN file.actions)
    /\ UNCHANGED <<exported, objects, pending, file, unsaved>>

\* on_bus_acquired
BusAcquired ==
    /\ up /\ settings["enable_dbus"]
    /\ ~ exported
    /\ exported' = TRUE
    /\ objects' = [id \in DOMAIN cmds |-> Exported(cmds[id])]
    /\ UNCHANGED <<up, cmds, command_id_counter, settings, pending, file, unsaved>>

Killed ==
    /\ up
    /\ GoDown
    /\ UNCHANGED file

-----------------------------------------------------------------------------
(* Requests.  What the code refuses changes nothing and is left out.       *)

save_config_to_file_async == pending' = pending + 1

Request == exported /\ pending < MaxPending

\* Mutants: the counter is incremented after its use; ids are given anew.
NextIdLate   == command_id_counter
NextIdReused == Cardinality(DOMAIN cmds) + 1
NextId       == command_id_counter + 1

AddAction(name, text, exec, resume_exec) ==
    LET cmd == NewCommand(name, text, exec, resume_exec)
        id  == NextId
    IN  /\ Request
        /\ command_id_counter < MaxActions
        /\ Accepted(text)
        /\ is_valid(cmd)
        /\ command_id_counter' = command_id_counter + 1
        /\ cmds' = [i \in DOMAIN cmds \cup {id} |-> IF i = id THEN cmd ELSE cmds[i]]
        /\ objects' = [i \in DOMAIN objects \cup {id} |->
                          IF i = id THEN Exported(cmd) ELSE objects[i]]
        /\ save_config_to_file_async
        /\ UNCHANGED <<up, exported, settings, file, unsaved>>

RemoveAction(id) ==
    /\ Request
    /\ cmds' = [i \in DOMAIN cmds \ {id} |-> cmds[i]]
    /\ objects' = [i \in DOMAIN objects \ {id} |-> objects[i]]
    /\ save_config_to_file_async
    /\ UNCHANGED <<up, exported, command_id_counter, settings, file, unsaved>>

\* handle_set_property_for_action, then the generated code stores the value sent.
SetProperty(id, cmd, object) ==
    /\ Request
    /\ cmds' = [cmds EXCEPT ![id] = cmd]
    /\ objects' = [objects EXCEPT ![id] = object]
    /\ save_config_to_file_async
    /\ UNCHANGED <<up, exported, command_id_counter, settings, file, unsaved>>

SetName(id, name) ==
    SetProperty(id, [cmds[id] EXCEPT !.name = name], [objects[id] EXCEPT !.Name = name])

SetTrigger(id, text) ==
    LET parsed == Parsed(text, cmds[id].timeout_ms) IN
    /\ Accepted(text)
    /\ SetProperty(id, [cmds[id] EXCEPT !.trigger    = parsed.trigger,
                                        !.timeout_ms = parsed.timeout_ms],
                       [objects[id] EXCEPT !.Trigger = text])

SetExec(id, exec) ==
    SetProperty(id, [cmds[id] EXCEPT !.exec = exec], [objects[id] EXCEPT !.Exec = exec])

SetResumeExec(id, resume_exec) ==
    SetProperty(id, [cmds[id] EXCEPT !.resume_exec = resume_exec],
                    [objects[id] EXCEPT !.ResumeExec = resume_exec])

\* handle_set_property
SetSetting(key, value) ==
    /\ Request
    /\ settings' = [settings EXCEPT ![key] = value]
    /\ save_config_to_file_async
    /\ UNCHANGED <<up, exported, cmds, command_id_counter, objects, file, unsaved>>

Client ==
    \/ \E name \in Names, text \in ClientTexts, exec, resume_exec \in CommandStrings :
          AddAction(name, text, exec, resume_exec)
    \/ \E id \in DOMAIN cmds :
          \/ RemoveAction(id)
          \/ \E name \in Names : SetName(id, name)
          \/ \E text \in ClientTexts : SetTrigger(id, text)
          \/ \E exec \in CommandStrings : SetExec(id, exec) \/ SetResumeExec(id, exec)
    \/ \E key \in Settings, value \in BOOLEAN : SetSetting(key, value)

-----------------------------------------------------------------------------
(* Saving.                                                                 *)

\* static_save_config_to_file.  The file may not open for writing, or the disk may
\* be full; both are only logged.
Save ==
    /\ pending > 0
    /\ pending' = pending - 1
    /\ \/ file' = file /\ unsaved' = TRUE
       \/ /\ ~ Unsavable(file)
          /\ \E last \in LastWriters :
                \/ file' = SavedFile(file, last) /\ unsaved' = FALSE
                \/ file' \in TornFile(file, last) /\ unsaved' = TRUE
    /\ UNCHANGED <<up, exported, cmds, command_id_counter, settings, objects>>

KilledWhileSaving ==
    /\ pending > 0
    /\ ~ Unsavable(file)
    /\ \E last \in LastWriters : file' \in TornFile(file, last)
    /\ GoDown

UserEdits ==
    /\ file' \in HandMade
    /\ unsaved' = up
    /\ UNCHANGED <<up, exported, cmds, command_id_counter, settings, objects, pending>>

Next == Start \/ BusAcquired \/ Killed \/ Client \/ Save \/ KilledWhileSaving \/ UserEdits

Spec == Init /\ [][Next]_vars

-----------------------------------------------------------------------------
(* Properties.                                                             *)

TypeOK ==
    /\ up \in BOOLEAN /\ exported \in BOOLEAN /\ unsaved \in BOOLEAN
    /\ pending \in 0 .. MaxPending
    /\ command_id_counter \in Nat
    /\ DOMAIN cmds \subseteq 1 .. command_id_counter
    /\ cmds \in [DOMAIN cmds -> CommandRecords]
    /\ settings \in [Keys -> BOOLEAN]
    /\ objects \in [DOMAIN objects -> Objects]
    /\ IsFile(file)

\* The meaning of a command: its timeout_ms counts for TIMEOUT only.
Meaning(cmd) == IF cmd.trigger = "TIMEOUT" THEN cmd ELSE [cmd EXCEPT !.timeout_ms = 0]

\* timeout_ms survives the conversion to int.
Printable(cmd) == cmd.trigger = "TIMEOUT" => cmd.timeout_ms <= MaxInt

\* The object tells what the command is, but for a timeout that does not fit an int.
Shows(object, cmd) ==
    /\ object.Name = cmd.name
    /\ object.Exec = cmd.exec /\ object.ResumeExec = cmd.resume_exec
    /\ Printable(cmd) =>
          Meaning(NewCommand(object.Name, object.Trigger, object.Exec, object.ResumeExec))
              = Meaning(cmd)

\* A D-Bus client sees exactly the actions the daemon has, as they are, whether an
\* action came from the file, from AddAction or from changed properties
\* (dbus_request_handler.cc:186-339, 409, 466).
ViewTells ==
    exported =>
        /\ DOMAIN objects = DOMAIN cmds
        /\ \A id \in DOMAIN cmds : Shows(objects[id], cmds[id])

\* A section that reads as the command, but for a timeout that does not fit an int.
StandsFor(section, name, cmd) ==
    /\ cmd.name = name
    /\ cmd.exec = section.exec /\ cmd.resume_exec = section.resume_exec
    /\ Printable(cmd) => Meaning(ReadAction(name, section)) = Meaning(cmd)

Saved == up /\ pending = 0 /\ ~ unsaved

\* Every section of a saved file is one of the actions, whole: actions of the same
\* name are never mixed and nothing of a removed or renamed action is left
\* (config_manager.cc:320-352).
SectionsAreActions ==
    (Saved /\ file.kind = "ini") =>
        \A n \in DOMAIN file.actions :
            \E id \in DOMAIN cmds : StandsFor(file.actions[n], n, cmds[id])

\* What the file can express: names that differ and are fit for a section header,
\* commands on one line, at least one of them, and timeouts that fit an int.
Expressible ==
    /\ \A id1, id2 \in DOMAIN cmds : cmds[id1].name = cmds[id2].name => id1 = id2
    /\ \A id \in DOMAIN cmds :
          /\ cmds[id].name \notin Unwritable
          /\ {cmds[id].exec, cmds[id].resume_exec} \cap Multiline = {}
          /\ is_valid(cmds[id])
          /\ Printable(cmds[id])

ReadsBack ==
    /\ Starts(file)
    /\ ReadMain(file.main) = settings
    /\ {Meaning(ReadAction(n, file.actions[n])) : n \in DOMAIN file.actions}
          = {Meaning(cmds[id]) : id \in DOMAIN cmds}

\* Once saved, a configuration that the file can express is the one that the next
\* start will read, whatever was in memory and in the file before
\* (config_manager.cc:287, 367).
SavedIsReadBack == Saved /\ Expressible => ReadsBack

\* An id is never given to another action while the daemon runs: a client that
\* holds the id or path of a removed action cannot change another one
\* (config_manager.cc:113).
IdsNotReused ==
    [][up /\ up' => DOMAIN cmds' \cap (1 .. command_id_counter) \subseteq DOMAIN cmds]_vars

\* "At least one of exec and resume_exec must be specified" (xidlechain.1.scd:80,
\* command.cc:59), of every action the daemon has.
ActionSpecified == \A id \in DOMAIN cmds : is_valid(cmds[id])

-----------------------------------------------------------------------------
(* The configuration across restarts.                                      *)

\* What the next start would read.
Stored(f) ==
    IF Starts(f)
    THEN [settings |-> ReadMain(f.main),
          actions  |-> {Meaning(ReadAction(n, f.actions[n])) : n \in DOMAIN f.actions}]
    ELSE [settings |-> ReadMain(<<>>), actions |-> {}]

\* What the daemon uses.
InUse == [settings |-> settings,
          actions  |-> {Meaning(cmds[id]) : id \in DOMAIN cmds}]

Durable == INSTANCE DurableConfig WITH
    Defaults    <- ReadMain(<<>>),
    Edits       <- {<<Starts(f), Stored(f)>> : f \in HandMade},
    running     <- up,
    config      <- InUse,
    expressible <- Expressible,
    readable    <- Starts(file),
    stored      <- Stored(file),
    dirty       <- pending > 0 \/ unsaved

\* Across any number of restarts, kills and edits by hand: a start takes over what is
\* stored, which changes by saves and edits only; a save that succeeds stores the
\* configuration the file can express; a kill changes the file only if something was
\* left to save, and then the file does not start the daemon or has parts of the
\* configuration in use: nothing older, and one action at most that is not as it was
\* (config_manager.cc:287-366, 373-407).
DurableSpec == Durable!Spec

===============================================================================
