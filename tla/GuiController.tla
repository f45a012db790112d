---------------------------- MODULE GuiController ----------------------------
(***************************************************************************)
(* The settings program (gui/) and the daemon of ConfigStore.  The GUI     *)
(* reads settings and actions when it is activated and not again; it edits *)
(* a copy, and sends what changes, one call after the other.  Calls are    *)
(* synchronous: the GUI does nothing else until there is an answer, the    *)
(* daemon is gone or 25 s have passed.  The daemon may be waiting for a    *)
(* command meanwhile, and serves a request that was given up all the same. *)
(***************************************************************************)
EXTENDS ConfigStore

CONSTANTS
    Toggles,        \* the switches: settings and "Paused"
    EnteredSeconds, \* what is typed as the number of seconds
    Unparsable,     \* command strings that Action::factory refuses
    MaxWindows,     \* bound on the activations of the GUI
    MaxLate,        \* bound on the requests given up and not served yet
    MaxActs,        \* bound on what the user and other clients do
    Mishaps         \* what may go wrong, one kind of it in a behaviour (a bound)

ASSUME GuiAssumption ==
    /\ Names # {}
    /\ Toggles \subseteq Settings \cup {"Paused"}
    /\ EnteredSeconds \subseteq 0 .. MaxInt
    /\ Unparsable \cap (Commands \cup {""}) = {}
    /\ MaxWindows \in Nat /\ MaxLate \in Nat /\ MaxActs \in Nat
    /\ Mishaps \subseteq {"activated", "detached", "timeout", "restart", "rival"}

VARIABLES
    daemon_paused,      \* the property Paused of the daemon
    requests,           \* requests the daemon has not served yet, in order
    gui,                \* "absent", "open"; "aborted" in init, "failed" a g_assert
    id_to_action_info,  \* the copy of each action and its row
    rows,               \* of all windows: the id the buttons hold, and the label
    switches,           \* what the switches of each window show
    dialog,             \* the dialog that is open
    call,               \* the call that is being made
    acts,               \* counts what the user and other clients have done
    happened            \* history: what went wrong so far

windowVars == <<gui, id_to_action_info, rows, switches>>
allVars == <<vars, daemon_paused, requests, windowVars, dialog, call, acts, happened>>

-----------------------------------------------------------------------------
(* What is typed into a dialog, and how it differs from the copy.          *)

\* In the order in which they are sent.
Fields == <<"Name", "Trigger", "Exec", "ResumeExec">>

\* timeout_sec * 1000 is an int and wraps around.
Typed(name, text, exec, resume_exec) ==
    [NewCommand(name, text, exec, resume_exec) EXCEPT !.timeout_ms = ToInt(@)]

EnteredTexts == {Text("timeout", s) : s \in EnteredSeconds}
                \cup {Text(kind, 0) : kind \in OtherKinds}

Entries == {Typed(name, text, exec, resume_exec) :
               name \in Names, text \in EnteredTexts,
               exec \in CommandStrings \cup Unparsable, resume_exec \in CommandStrings}

\* What the entries are filled with: whole seconds.
Prefilled(cmd) ==
    [cmd EXCEPT !.timeout_ms = ToInt(Quot(@, MsPerSecond) * MsPerSecond)]

Differs(field, entry, cmd) ==
    CASE field = "Name"       -> entry.name # cmd.name
      [] field = "Trigger"    -> \/ entry.trigger # cmd.trigger
                                 \/ /\ entry.trigger = "TIMEOUT"
                                    /\ entry.timeout_ms # cmd.timeout_ms
      [] field = "Exec"       -> entry.exec # cmd.exec
      [] field = "ResumeExec" -> entry.resume_exec # cmd.resume_exec

\* Mutant: what is the same is sent as well, up to the first difference.
LeftAll(entry, cmd) ==
    {i \in DOMAIN Fields : \E j \in i .. Len(Fields) : Differs(Fields[j], entry, cmd)}

\* The fields still to be sent: each is compared when its turn comes.
Left(entry, cmd) == {i \in DOMAIN Fields : Differs(Fields[i], entry, cmd)}

\* Mutant: the copy takes all that was entered as soon as one field is accepted.
AcceptedWhole(cmd, field, entry) == entry

\* The copy once the daemon has accepted a field.
AcceptedField(cmd, field, entry) ==
    CASE field = "Name"       -> [cmd EXCEPT !.name = entry.name]
      [] field = "Trigger"    ->
            [cmd EXCEPT !.trigger    = entry.trigger,
                        !.timeout_ms = IF entry.trigger = "TIMEOUT" THEN entry.timeout_ms
                                       ELSE @]
      [] field = "Exec"       -> [cmd EXCEPT !.exec = entry.exec]
      [] field = "ResumeExec" -> [cmd EXCEPT !.resume_exec = entry.resume_exec]

-----------------------------------------------------------------------------
(* Calls.  A request is a method or property, an id and the arguments.     *)

Call(method, id, args) == [method |-> method, id |-> id, args |-> args]

NoCall == [status |-> "none", id |-> 0, of |-> Call("none", 0, <<>>)]

\* g_dbus_proxy_call_sync begins; without an owner of the bus name it fails at once.
Calls(request) ==
    /\ call.status = "none"
    /\ call' = [status |-> IF exported THEN "waiting" ELSE "error", id |-> 0,
                of |-> request]
    /\ requests' = IF exported THEN Append(requests, request) ELSE requests
    /\ UNCHANGED <<vars, daemon_paused, happened>>

\* ... and returns.
Returns(method, status) ==
    /\ call.of.method = method
    /\ call.status = status
    /\ call' = NoCall
    /\ UNCHANGED <<vars, daemon_paused, requests, happened>>

Mishap(kind) == kind \in Mishaps /\ happened \subseteq {kind} /\ happened' = {kind}

Idle == gui = "open" /\ call.status = "none"

Act == acts < MaxActs /\ acts' = acts + 1

-----------------------------------------------------------------------------
(* Activation: by the first start of the program, and by each further      *)
(* start of it while it runs.                                              *)

NoCommand == NewCommand(CHOOSE name \in Names : TRUE, Text("sleep", 0), None, None)
NoDialog  == [kind |-> "none", id |-> 0, cmd |-> NoCommand, attached |-> FALSE,
              shown |-> NoCommand, ok |-> FALSE, entry |-> NoCommand]

AtWindows == Idle /\ dialog = NoDialog

\* get_command
Got(object) == NewCommand(object.Name, object.Trigger, object.Exec, object.ResumeExec)

Loadable == exported /\ \A id \in DOMAIN objects : Accepted(objects[id].Trigger)

Shown(key) == IF key = "Paused" THEN daemon_paused ELSE settings[key]

\* get_all_actions: entries of earlier activations are replaced or kept.
Loaded == [id \in DOMAIN objects \cup DOMAIN id_to_action_info |->
              IF id \in DOMAIN objects THEN Got(objects[id]) ELSE id_to_action_info[id].cmd]

\* xidlechain_app_window_new: every entry gets a row in the new window.
LastRow     == Max(DOMAIN rows \cup {0})
RowsOf(ids) == [id \in ids |-> LastRow + Cardinality({i \in ids : i <= id})]

Activate ==
    /\ gui = "absent" \/ (Idle /\ ~ dialog.ok)
    /\ Loadable /\ requests = <<>>
    /\ Len(switches) < MaxWindows
    /\ LET cmd == Loaded
           row == RowsOf(DOMAIN cmd)
       IN  /\ id_to_action_info' = [id \in DOMAIN cmd |-> [cmd |-> cmd[id], row |-> row[id]]]
           /\ rows' = [r \in DOMAIN rows \cup Range(row) |->
                          IF r \in DOMAIN rows THEN rows[r]
                          ELSE LET id == CHOOSE i \in DOMAIN cmd : row[i] = r
                               IN  [id |-> id, label |-> cmd[id].name]]
    /\ switches' = Append(switches, [key \in Toggles |-> Shown(key)])
    /\ dialog' = [dialog EXCEPT !.attached = FALSE]
    /\ CASE gui = "absent"       -> UNCHANGED happened
         [] dialog.kind = "edit"  -> Mishap("detached")
         [] OTHER                 -> Mishap("activated")
    /\ gui' = "open"
    /\ UNCHANGED <<vars, daemon_paused, requests, call>>

\* init fails and the program aborts: no daemon, no answer, or a trigger that does
\* not parse.
ActivateInVain ==
    /\ gui = "absent" \/ (Idle /\ ~ dialog.ok)
    /\ ~ Loadable
    /\ gui' = "aborted"
    /\ UNCHANGED <<vars, daemon_paused, requests, id_to_action_info, rows, switches,
                   dialog, call, happened>>

-----------------------------------------------------------------------------
(* Settings and Paused.                                                    *)

\* on_setting_changed and on_pause_changed: the switch has changed already.
Toggle(window, key) ==
    /\ AtWindows
    /\ switches' = [switches EXCEPT ![window][key] = ~ @]
    /\ Calls(Call("Set", window, <<key, ~ switches[window][key]>>))
    /\ UNCHANGED <<gui, id_to_action_info, rows, dialog>>

\* Mutant: the old value is shown again when the call has failed.
RevertToggle ==
    \/ Returns("Set", "ok") /\ UNCHANGED <<windowVars, dialog>>
    \/ /\ Returns("Set", "error")
       /\ switches' = [switches EXCEPT ![call.of.id][call.of.args[1]] = ~ @]
       /\ UNCHANGED <<gui, id_to_action_info, rows, dialog>>

\* An error is shown; the switch stays as it is.
ToggleReturns ==
    /\ Returns("Set", "ok") \/ Returns("Set", "error")
    /\ UNCHANGED <<windowVars, dialog>>

-----------------------------------------------------------------------------
(* Rows: edit and delete.                                                  *)

\* on_action_edit_clicked and on_action_delete_clicked look up the row's id and
\* assert that it is there.
AssertionFails(row) ==
    /\ AtWindows
    /\ rows[row].id \notin DOMAIN id_to_action_info
    /\ gui' = "failed"
    /\ UNCHANGED <<vars, daemon_paused, requests, id_to_action_info, rows, switches,
                   dialog, call, happened>>

ClickEdit(row) ==
    LET id == rows[row].id
    IN  /\ AtWindows
        /\ id \in DOMAIN id_to_action_info
        /\ dialog' = [NoDialog EXCEPT !.kind = "edit", !.id = id, !.attached = TRUE,
                                      !.cmd   = id_to_action_info[id].cmd,
                                      !.shown = id_to_action_info[id].cmd]
        /\ UNCHANGED <<vars, daemon_paused, requests, windowVars, call, happened>>

ClickDelete(row) ==
    LET id == rows[row].id
    IN  /\ AtWindows
        /\ id \in DOMAIN id_to_action_info
        /\ Calls(Call("RemoveAction", id, <<>>))
        /\ UNCHANGED <<windowVars, dialog>>

\* Mutant: the row goes, its entry stays.
KeepsEntry ==
    /\ Returns("RemoveAction", "ok")
    /\ rows' = [r \in DOMAIN rows \ {id_to_action_info[call.of.id].row} |-> rows[r]]
    /\ UNCHANGED <<gui, switches, dialog, id_to_action_info>>

\* The row destroyed is the one of the entry, whichever was clicked.
Deleted ==
    /\ Returns("RemoveAction", "ok")
    /\ LET id == call.of.id
       IN  /\ rows' = [r \in DOMAIN rows \ {id_to_action_info[id].row} |-> rows[r]]
           /\ id_to_action_info' =
                 [i \in DOMAIN id_to_action_info \ {id} |-> id_to_action_info[i]]
    /\ UNCHANGED <<gui, switches, dialog>>

\* Mutant: the entry goes before the answer is looked at, the row stays.
ErasedUnchecked ==
    /\ Returns("RemoveAction", "error")
    /\ id_to_action_info' =
          [i \in DOMAIN id_to_action_info \ {call.of.id} |-> id_to_action_info[i]]
    /\ UNCHANGED <<gui, rows, switches, dialog>>

NotDeleted == Returns("RemoveAction", "error") /\ UNCHANGED <<windowVars, dialog>>

-----------------------------------------------------------------------------
(* Dialogs.  A failure leaves the dialog open, to be tried again.          *)

ClickAdd ==
    /\ AtWindows
    /\ dialog' = [NoDialog EXCEPT !.kind = "add"]
    /\ UNCHANGED <<vars, daemon_paused, requests, windowVars, call, happened>>

Cancel ==
    /\ Idle /\ dialog.kind # "none" /\ ~ dialog.ok
    /\ dialog' = NoDialog
    /\ UNCHANGED <<vars, daemon_paused, requests, windowVars, call, happened>>

Resumed == [dialog EXCEPT !.ok = FALSE, !.entry = NoCommand]

\* on_action_added; what the GUI refuses itself changes nothing and is left out.
AddOk(entry) ==
    /\ Idle /\ dialog.kind = "add" /\ ~ dialog.ok
    /\ entry.exec \notin Unparsable
    /\ command_id_counter + Len(requests) < MaxActions
    /\ dialog' = [dialog EXCEPT !.ok = TRUE, !.entry = entry]
    /\ Calls(Call("AddAction", 0, <<entry>>))
    /\ UNCHANGED windowVars

Added ==
    /\ Returns("AddAction", "ok")
    /\ LET row  == LastRow + 1
           info == [cmd |-> dialog.entry, row |-> row]
       IN  /\ id_to_action_info' =
                 [i \in DOMAIN id_to_action_info \cup {call.id} |->
                     IF i = call.id THEN info ELSE id_to_action_info[i]]
           /\ rows' = [r \in DOMAIN rows \cup {row} |->
                          IF r = row THEN [id |-> call.id, label |-> dialog.entry.name]
                          ELSE rows[r]]
    /\ dialog' = NoDialog
    /\ UNCHANGED <<gui, switches>>

NotAdded ==
    /\ Returns("AddAction", "error")
    /\ dialog' = Resumed
    /\ UNCHANGED windowVars

\* on_action_edited: the user has pressed OK; then each field that differs is sent
\* and waited for.
EditOk(entry) ==
    /\ Idle /\ dialog.kind = "edit" /\ ~ dialog.ok
    /\ dialog' = [dialog EXCEPT !.ok = TRUE, !.entry = entry]
    /\ UNCHANGED <<vars, daemon_paused, requests, windowVars, call, happened>>

NextField == LET left == Left(dialog.entry, dialog.cmd)
             IN  Fields[CHOOSE i \in left : \A j \in left : i <= j]

SendField ==
    /\ Idle /\ dialog.kind = "edit" /\ dialog.ok
    /\ Left(dialog.entry, dialog.cmd) # {}
    /\ Calls(Call(NextField, dialog.id, <<dialog.entry>>))
    /\ UNCHANGED <<windowVars, dialog>>

\* dialog.cmd is the entry of id_to_action_info, unless a new one has replaced it.
FieldTaken == \E i \in DOMAIN Fields :
    /\ Returns(Fields[i], "ok")
    /\ LET cmd == AcceptedField(dialog.cmd, Fields[i], dialog.entry)
           row == id_to_action_info[dialog.id].row
       IN  /\ dialog' = [dialog EXCEPT !.cmd = cmd]
           /\ id_to_action_info' =
                 IF dialog.attached THEN [id_to_action_info EXCEPT ![dialog.id].cmd = cmd]
                 ELSE id_to_action_info
           /\ rows' = IF Fields[i] = "Name" THEN [rows EXCEPT ![row].label = cmd.name]
                      ELSE rows
    /\ UNCHANGED <<gui, switches>>

FieldRefused == \E i \in DOMAIN Fields :
    /\ Returns(Fields[i], "error")
    /\ dialog' = Resumed
    /\ UNCHANGED windowVars

EditDone ==
    /\ Idle /\ dialog.kind = "edit" /\ dialog.ok
    /\ Left(dialog.entry, dialog.cmd) = {}
    /\ dialog' = NoDialog
    /\ UNCHANGED <<vars, daemon_paused, requests, windowVars, call, happened>>

\* What leads to a call, and what does not.
User ==
    \/ /\ Act
       /\ \/ \E w \in DOMAIN switches, key \in Toggles : Toggle(w, key)
          \/ \E row \in DOMAIN rows : ClickDelete(row)
          \/ \E entry \in Entries : AddOk(entry) \/ EditOk(entry)
    \/ /\ UNCHANGED acts
       /\ \/ Activate \/ ActivateInVain
          \/ \E row \in DOMAIN rows : ClickEdit(row) \/ AssertionFails(row)
          \/ ClickAdd \/ Cancel

Gui ==
    \/ ToggleReturns
    \/ Deleted \/ NotDeleted
    \/ Added \/ NotAdded
    \/ SendField \/ FieldTaken \/ FieldRefused \/ EditDone

-----------------------------------------------------------------------------
(* The daemon serves the request at the head of the queue.                 *)

SetPaused(value) == daemon_paused' = value /\ UNCHANGED vars

\* The request is carried out.
Does(request) ==
    LET method == request.method
        id     == request.id
        cmd    == request.args[1]
    IN  \/ /\ method = "Set" /\ request.args[1] = "Paused"
           /\ SetPaused(request.args[2])
        \/ /\ \/ /\ method = "Set" /\ request.args[1] # "Paused"
                 /\ SetSetting(request.args[1], request.args[2])
              \/ /\ method = "AddAction"
                 /\ AddAction(cmd.name, TriggerText(cmd), cmd.exec, cmd.resume_exec)
              \/ method = "RemoveAction" /\ id \in DOMAIN cmds /\ RemoveAction(id)
              \/ method = "Name" /\ id \in DOMAIN cmds /\ SetName(id, cmd.name)
              \/ method = "Trigger" /\ id \in DOMAIN cmds /\ SetTrigger(id, TriggerText(cmd))
              \/ /\ method = "Exec" /\ id \in DOMAIN cmds /\ cmd.exec \notin Unparsable
                 /\ SetExec(id, cmd.exec)
              \/ /\ method = "ResumeExec" /\ id \in DOMAIN cmds
                 /\ SetResumeExec(id, cmd.resume_exec)
           /\ UNCHANGED daemon_paused

\* The request is answered with an error.
Refuses(request) ==
    LET cmd == request.args[1]
    IN  /\ \/ /\ request.method = "AddAction"
              /\ ~ Accepted(TriggerText(cmd)) \/ ~ is_valid(cmd)
           \/ request.method \in {"RemoveAction"} \cup Range(Fields) /\ request.id \notin DOMAIN cmds
           \/ request.method = "Trigger" /\ ~ Accepted(TriggerText(cmd))
           \/ request.method = "Exec" /\ cmd.exec \in Unparsable
        /\ UNCHANGED <<vars, daemon_paused>>

\* The answer reaches the GUI if it still waits for it.
Answer(status, id) ==
    call' = IF call.status = "waiting" /\ Len(requests) = 1
            THEN [call EXCEPT !.status = status, !.id = id] ELSE call

Serve ==
    /\ exported /\ requests # <<>>
    /\ \/ Does(Head(requests)) /\ Answer("ok", command_id_counter')
       \/ Refuses(Head(requests)) /\ Answer("error", 0)
    /\ requests' = Tail(requests)
    /\ UNCHANGED <<windowVars, dialog, happened>>

Daemon ==
    /\ Start \/ BusAcquired \/ (Save /\ ~ unsaved')
    /\ UNCHANGED <<daemon_paused, requests, windowVars, dialog, call, happened>>

-----------------------------------------------------------------------------
(* What goes wrong.                                                        *)

\* No answer in time.
GiveUp ==
    /\ Mishap("timeout")
    /\ call.status = "waiting"
    /\ Len(requests) <= MaxLate
    /\ call' = [call EXCEPT !.status = "error"]
    /\ UNCHANGED <<vars, daemon_paused, requests, windowVars, dialog>>

DaemonKilled ==
    /\ Mishap("restart")
    /\ gui = "open"
    /\ Killed
    /\ daemon_paused' = FALSE
    /\ requests' = <<>>
    /\ call' = IF call.status = "waiting" THEN [call EXCEPT !.status = "error"] ELSE call
    /\ UNCHANGED <<windowVars, dialog>>

\* Another client.
Rival ==
    /\ Mishap("rival")
    /\ gui = "open"
    /\ Client
    /\ UNCHANGED <<daemon_paused, requests, windowVars, dialog, call>>

-----------------------------------------------------------------------------
GuiInit ==
    /\ Init
    /\ daemon_paused = FALSE
    /\ requests = <<>>
    /\ gui = "absent"
    /\ id_to_action_info = <<>> /\ rows = <<>> /\ switches = <<>>
    /\ dialog = NoDialog /\ call = NoCall
    /\ acts = 0 /\ happened = {}

GuiNext ==
    \/ User
    \/ Act /\ Rival
    \/ (Gui \/ Serve \/ Daemon \/ GiveUp \/ DaemonKilled) /\ UNCHANGED acts

GuiSpec == GuiInit /\ [][GuiNext]_allVars

-----------------------------------------------------------------------------
(* Properties.                                                             *)

CopyRecords == [name : Names, trigger : {"TIMEOUT", "SLEEP", "LOCK"}, timeout_ms : Int,
                exec : CommandStrings \cup Unparsable, resume_exec : CommandStrings]

GuiTypeOK ==
    /\ gui \in {"absent", "open", "aborted", "failed"}
    /\ \A id \in DOMAIN id_to_action_info :
          /\ id_to_action_info[id].cmd \in CopyRecords
          /\ id_to_action_info[id].row \in DOMAIN rows
    /\ \A r \in DOMAIN rows : rows[r].label \in Names
    /\ dialog.cmd \in CopyRecords /\ dialog.entry \in CopyRecords
    /\ dialog.kind = "edit" =>
          /\ dialog.id \in DOMAIN id_to_action_info
          /\ dialog.attached => dialog.cmd = id_to_action_info[dialog.id].cmd
    /\ call.status \in {"none", "waiting", "ok", "error"}
    /\ call.status = "waiting" => requests # <<>> /\ requests[Len(requests)] = call.of
    /\ Len(requests) <= MaxLate + 1

\* The GUI runs and nothing went wrong but some of these.
Only(mishaps) == gui = "open" /\ happened \subseteq mishaps

SameAction(copy, cmd) ==
    /\ copy.name = cmd.name /\ copy.exec = cmd.exec /\ copy.resume_exec = cmd.resume_exec
    /\ TriggerText(copy) = TriggerText(cmd)

\* As long as every call is answered by the same daemon and the GUI is its only
\* client, the GUI has a copy of each of its actions and no other, as they are:
\* also after an edit that was refused half-way, retried or given up, and whatever
\* the seconds entered become as an int (xidlechain_app_controller.cc:124-223).
CopyAgrees ==
    Only({"activated"}) /\ call.status = "none" =>
        /\ DOMAIN id_to_action_info = DOMAIN cmds
        /\ \A id \in DOMAIN cmds : SameAction(id_to_action_info[id].cmd, cmds[id])

\* While the GUI was activated once and the daemon is the one it has loaded from,
\* the rows are the actions of id_to_action_info, each with its name, whatever other
\* clients do and whichever calls fail: no button is without its action
\* (xidlechain_app_window.cc:76-124, xidlechain_app_controller.cc:229-254, 361-367).
RowsAreActions ==
    Only({"timeout", "rival"}) =>
        /\ \A r \in DOMAIN rows :
              /\ rows[r].id \in DOMAIN id_to_action_info
              /\ id_to_action_info[rows[r].id].row = r
              /\ rows[r].label = id_to_action_info[rows[r].id].cmd.name
        /\ \A id \in DOMAIN id_to_action_info : \E r \in DOMAIN rows : rows[r].id = id

\* The user has changed the field in this dialog, at this attempt or at one before.
Changed(field) == \/ Differs(field, dialog.entry, Prefilled(dialog.shown))
                  \/ Differs(field, dialog.cmd, dialog.shown)

\* An edit sends only what the user changed: what another client has set meanwhile
\* in the other fields stays.  Except that a timeout that is not in whole seconds,
\* or too long for an int, is sent with any edit
\* (xidlechain_app_controller.cc:105-109, 175-176).
OnlyChangesSent ==
    [][\A i \in DOMAIN Fields :
          (call'.status # "none" /\ call.status = "none" /\ call'.of.method = Fields[i])
          => \/ Changed(Fields[i])
             \/ Fields[i] = "Trigger" /\ Prefilled(dialog.shown) # dialog.shown]_allVars

\* A switch shows the value of its setting once the daemon has served everything,
\* also after a call that was given up, whose error leaves the switch where the user
\* put it: the request is served later (xidlechain_app_controller.cc:273-277, 387-391).
SwitchAgrees ==
    Only({"timeout"}) /\ requests = <<>> /\ call.status = "none" =>
        \A w \in DOMAIN switches, key \in Toggles : switches[w][key] = Shown(key)

\* g_assert(it != id_to_action_info.end()) in on_action_edit_clicked and
\* on_action_delete_clicked (xidlechain_app_controller.cc:94, 232).
AssertionsHold == gui # "failed"

=============================================================================
