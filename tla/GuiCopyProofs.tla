---------------------------- MODULE GuiCopyProofs ----------------------------
(***************************************************************************)
(* The rows of the GUI are the actions it has a copy of, and the copies    *)
(* are the actions of the daemon.  Each holds as long as other things do   *)
(* not go wrong, so each has an invariant of its own.                      *)
(***************************************************************************)
EXTENDS GuiTypeProofs

-----------------------------------------------------------------------------
(* The rows.  An id the GUI does not have is one the daemon has not given  *)
(* before, so that a row added never takes the place of another.           *)

RowShowsAction(r) ==
    /\ rows[r].id \in DOMAIN id_to_action_info
    /\ id_to_action_info[rows[r].id].row = r
    /\ rows[r].label = id_to_action_info[rows[r].id].cmd.name

RowsFollow ==
    /\ exported
    /\ \A r \in DOMAIN rows : RowShowsAction(r)
    /\ dialog.kind = "edit" => dialog.attached
    /\ DOMAIN id_to_action_info \subseteq 1 .. command_id_counter
    /\ call.status = "ok" /\ call.of.method = "AddAction" =>
          call.id \in 1 .. command_id_counter /\ call.id \notin DOMAIN id_to_action_info

AsLoaded == Only({"timeout", "rival"})

RowsInv == AsLoaded => RowsFollow

-----------------------------------------------------------------------------
(* Ids are counted up.                                                     *)

IdsKept == UNCHANGED <<exported, command_id_counter>>

OneMore == exported' = exported /\ command_id_counter' = command_id_counter + 1

LEMMA SetPropertyIds ==
    ASSUME NEW id, NEW cmd, NEW object, SetProperty(id, cmd, object)
    PROVE  IdsKept
  BY DEF SetProperty, IdsKept

LEMMA RequestIds ==
    ASSUME NEW id, NEW a, NEW b, NEW c, NEW d
    PROVE  /\ AddAction(a, b, c, d) => OneMore
           /\ RemoveAction(id) => IdsKept
           /\ SetName(id, a) => IdsKept
           /\ SetTrigger(id, a) => IdsKept
           /\ SetExec(id, a) => IdsKept
           /\ SetResumeExec(id, a) => IdsKept
           /\ SetSetting(a, b) => IdsKept
           /\ SetPaused(a) => IdsKept
<1>1. AddAction(a, b, c, d) => OneMore
    BY DEF AddAction, OneMore
<1>2. RemoveAction(id) => IdsKept
    BY DEF RemoveAction, IdsKept
<1>3. SetName(id, a) => IdsKept
    BY SetPropertyIds DEF SetName
<1>4. SetTrigger(id, a) => IdsKept
    BY SetPropertyIds DEF SetTrigger
<1>5. SetExec(id, a) => IdsKept
    BY SetPropertyIds DEF SetExec
<1>6. SetResumeExec(id, a) => IdsKept
    BY SetPropertyIds DEF SetResumeExec
<1>7. SetSetting(a, b) => IdsKept
    BY DEF SetSetting, IdsKept
<1>8. SetPaused(a) => IdsKept
    BY DEF SetPaused, vars, IdsKept
<1> QED
    BY <1>1, <1>2, <1>3, <1>4, <1>5, <1>6, <1>7, <1>8

LEMMA ClientIds == Client => IdsKept \/ OneMore
  BY RequestIds DEF Client

LEMMA ServedIds ==
    ASSUME NEW request, Does(request)
    PROVE  IF request.method = "AddAction" THEN OneMore ELSE IdsKept
<1> DEFINE method == request.method
           id     == request.id
           cmd    == request.args[1]
<1>1. CASE method = "AddAction"
  <2>1. AddAction(cmd.name, TriggerText(cmd), cmd.exec, cmd.resume_exec)
      BY <1>1 DEF Does
  <2> QED
      BY <1>1, <2>1, RequestIds
<1>2. CASE method # "AddAction"
  <2>1. \/ SetPaused(request.args[2]) \/ SetSetting(request.args[1], request.args[2])
        \/ RemoveAction(id) \/ SetName(id, cmd.name) \/ SetTrigger(id, TriggerText(cmd))
        \/ SetExec(id, cmd.exec) \/ SetResumeExec(id, cmd.resume_exec)
      BY <1>2 DEF Does
  <2> QED
      BY <1>2, <2>1, RequestIds
<1> QED
    BY <1>1, <1>2

-----------------------------------------------------------------------------
(* The steps.                                                              *)

\* Steps that leave the rows and the copies alone.
LEMMA RowsKept ==
    ASSUME RowsFollow, UNCHANGED <<exported, rows, id_to_action_info>>,
           command_id_counter \in Nat, command_id_counter' \in Nat,
           command_id_counter' >= command_id_counter,
           dialog'.kind = "edit" => dialog'.attached,
           call'.status # "ok" \/ call' = call
    PROVE  RowsFollow'
  BY DEF RowsFollow, RowShowsAction

LEMMA SameDaemon ==
    ASSUME GuiInv, RowsFollow, UNCHANGED <<vars, rows, id_to_action_info>>,
           dialog'.kind = "edit" => dialog'.attached,
           call'.status # "ok" \/ call' = call
    PROVE  RowsFollow'
<1>1. command_id_counter \in Nat /\ UNCHANGED <<exported, command_id_counter>>
    BY DEF vars, GuiInv, DaemonInv, Inv, TypeOK
<1> QED
    BY <1>1, RowsKept

LEMMA FirstActivation ==
    ASSUME GuiInv, Activate, AsLoaded'
    PROVE  RowsFollow'
<1>1. gui = "absent"
    BY DEF Activate, Mishap, Only, AsLoaded
<1>2. id_to_action_info = <<>> /\ DOMAIN rows = {} /\ dialog = NoDialog /\ call = NoCall
    BY <1>1 DEF GuiInv, CopyTypes, SwitchInv
<1>3. exported /\ Loadable /\ dialog' = [dialog EXCEPT !.attached = FALSE] /\ call' = call
    BY DEF Activate, Loadable
<1>4. dialog'.kind = "none" /\ call'.status = "none"
    BY <1>2, <1>3 DEF NoDialog, NoCall
<1>5. DOMAIN Loaded \subseteq 1 .. command_id_counter
  <2>1. DOMAIN Loaded = DOMAIN objects
      BY <1>2 DEF Loaded
  <2> QED
      BY <1>3, <2>1, ObjectsOfCommands DEF GuiInv, DaemonInv, Inv, TypeOK
<1>6. /\ DOMAIN id_to_action_info' = DOMAIN Loaded
      /\ \A id \in DOMAIN Loaded : id_to_action_info'[id].cmd = Loaded[id]
      /\ \A r \in DOMAIN rows' \ DOMAIN rows : \E id \in DOMAIN Loaded :
            /\ rows'[r] = [id |-> id, label |-> Loaded[id].name]
            /\ id_to_action_info'[id].row = r
    BY ActivateEffect DEF GuiInv
<1>7. ASSUME NEW r \in DOMAIN rows'
      PROVE  RowShowsAction(r)'
  <2>1. PICK id \in DOMAIN Loaded : /\ rows'[r] = [id |-> id, label |-> Loaded[id].name]
                                    /\ id_to_action_info'[id].row = r
      BY <1>2, <1>6
  <2>2. rows'[r].id = id /\ rows'[r].label = Loaded[id].name
      BY <2>1
  <2> QED
      BY <1>6, <2>1, <2>2 DEF RowShowsAction
<1>8. UNCHANGED <<exported, command_id_counter>>
    BY DEF Activate, vars
<1> QED
    BY <1>3, <1>4, <1>5, <1>6, <1>7, <1>8 DEF RowsFollow

\* What the user does with one window only changes the dialog, or begins a call.
LEMMA UserRows ==
    ASSUME GuiInv, RowsInv, User, AsLoaded'
    PROVE  RowsFollow'
<1>1. gui' = "open" /\ IsDialog(dialog)
    BY DEF AsLoaded, Only, GuiInv, CopyInv
<1>2. ASSUME AtWindows \/ Idle, UNCHANGED happened
      PROVE  RowsFollow
    BY <1>2 DEF RowsInv, AsLoaded, Only, AtWindows, Idle
<1>3. ASSUME NEW request, Calls(request)
      PROVE  UNCHANGED <<vars, happened>> /\ (call'.status # "ok" \/ call' = call)
    BY <1>3 DEF Calls
<1>4. ASSUME NEW w, NEW key, Toggle(w, key)
      PROVE  RowsFollow'
  <2>1. /\ AtWindows /\ UNCHANGED <<vars, happened>> /\ (call'.status # "ok" \/ call' = call)
        /\ UNCHANGED <<rows, id_to_action_info, dialog>>
      BY <1>3, <1>4 DEF Toggle
  <2>2. RowsFollow
      BY <1>2, <2>1
  <2>3. dialog'.kind = "edit" => dialog'.attached
      BY <2>1, <2>2 DEF RowsFollow
  <2> QED
      BY <2>1, <2>2, <2>3, SameDaemon
<1>5. ASSUME NEW row, ClickDelete(row)
      PROVE  RowsFollow'
  <2>1. /\ AtWindows /\ UNCHANGED <<vars, happened>> /\ (call'.status # "ok" \/ call' = call)
        /\ UNCHANGED <<rows, id_to_action_info, dialog>>
      BY <1>3, <1>5 DEF ClickDelete, windowVars
  <2>2. RowsFollow
      BY <1>2, <2>1
  <2>3. dialog'.kind = "edit" => dialog'.attached
      BY <2>1, <2>2 DEF RowsFollow
  <2> QED
      BY <2>1, <2>2, <2>3, SameDaemon
<1>6. ASSUME NEW entry, AddOk(entry) \/ EditOk(entry)
      PROVE  RowsFollow'
  <2>1. CASE AddOk(entry)
    <3>1. /\ Idle /\ UNCHANGED <<vars, happened>> /\ (call'.status # "ok" \/ call' = call)
          /\ UNCHANGED <<rows, id_to_action_info>>
          /\ dialog.kind = "add" /\ dialog' = [dialog EXCEPT !.ok = TRUE, !.entry = entry]
        BY <1>3, <2>1 DEF AddOk, windowVars
    <3>2. dialog'.kind = "add"
        BY <1>1, <3>1 DEF IsDialog
    <3> QED
        BY <1>2, <3>1, <3>2, SameDaemon
  <2>2. CASE EditOk(entry)
    <3>1. /\ Idle /\ UNCHANGED <<vars, happened, call>>
          /\ UNCHANGED <<rows, id_to_action_info>>
          /\ dialog' = [dialog EXCEPT !.ok = TRUE, !.entry = entry]
        BY <2>2 DEF EditOk, windowVars
    <3>2. dialog'.kind = dialog.kind /\ dialog'.attached = dialog.attached
        BY <1>1, <3>1 DEF IsDialog
    <3>3. RowsFollow
        BY <1>2, <3>1
    <3>4. dialog'.kind = "edit" => dialog'.attached
        BY <3>2, <3>3 DEF RowsFollow
    <3> QED
        BY <3>1, <3>3, <3>4, SameDaemon
  <2> QED
      BY <1>6, <2>1, <2>2
<1>7. ~ ActivateInVain /\ \A row : ~ AssertionFails(row)
    BY <1>1 DEF ActivateInVain, AssertionFails
<1>8. ASSUME ClickAdd \/ Cancel
      PROVE  RowsFollow'
  <2>1. /\ Idle /\ UNCHANGED <<vars, happened, call, rows, id_to_action_info>>
        /\ dialog' = NoDialog \/ dialog' = [NoDialog EXCEPT !.kind = "add"]
      BY <1>8 DEF ClickAdd, Cancel, AtWindows, windowVars
  <2>2. dialog'.kind # "edit"
      BY <2>1 DEF NoDialog
  <2> QED
      BY <1>2, <2>1, <2>2, SameDaemon
<1>9. ASSUME NEW row, ClickEdit(row)
      PROVE  RowsFollow'
  <2>1. PICK id, cmd : /\ Idle /\ UNCHANGED <<vars, happened, call, rows, id_to_action_info>>
                       /\ dialog' = [NoDialog EXCEPT !.kind = "edit", !.id = id,
                                     !.attached = TRUE, !.cmd = cmd, !.shown = cmd]
      BY <1>9 DEF ClickEdit, AtWindows, windowVars
  <2>2. dialog'.attached = TRUE
      BY <2>1 DEF NoDialog
  <2> QED
      BY <1>2, <2>1, <2>2, SameDaemon
<1> QED
    BY <1>4, <1>5, <1>6, <1>7, <1>8, <1>9, FirstActivation DEF User

LEMMA DeletedRows ==
    ASSUME GuiInv, RowsFollow, Deleted
    PROVE  RowsFollow'
<1> DEFINE id == call.of.id
           row == id_to_action_info[id].row
<1>1. /\ call.of.method = "RemoveAction" /\ call.status = "ok" /\ call' = NoCall
      /\ rows' = [r \in DOMAIN rows \ {row} |-> rows[r]]
      /\ id_to_action_info' = [i \in DOMAIN id_to_action_info \ {id} |-> id_to_action_info[i]]
      /\ UNCHANGED <<vars, dialog>>
    BY DEF Deleted, Returns
<1>2. dialog' = NoDialog /\ id \in DOMAIN id_to_action_info /\ call'.status = "none"
    BY <1>1 DEF GuiInv, CallInv, Matches, NoCall
<1> HIDE DEF id
<1>3. ASSUME NEW r \in DOMAIN rows'
      PROVE  RowShowsAction(r)'
  <2>1. r \in DOMAIN rows /\ rows'[r] = rows[r] /\ r # row /\ RowShowsAction(r)
      BY <1>1 DEF RowsFollow
  <2>2. rows[r].id # id /\ rows[r].id \in DOMAIN id_to_action_info'
      BY <1>1, <2>1 DEF RowShowsAction
  <2>3. id_to_action_info'[rows[r].id] = id_to_action_info[rows[r].id]
      BY <1>1, <2>2
  <2> QED
      BY <2>1, <2>2, <2>3 DEF RowShowsAction
<1>4. UNCHANGED <<exported, command_id_counter>>
    BY <1>1 DEF vars
<1>5. DOMAIN id_to_action_info' \subseteq DOMAIN id_to_action_info
    BY <1>1
<1> QED
    BY <1>2, <1>3, <1>4, <1>5, NoCommandType DEF RowsFollow

LEMMA AddedRows ==
    ASSUME GuiInv, RowsFollow, Added
    PROVE  RowsFollow'
<1> DEFINE row  == LastRow + 1
           info == [cmd |-> dialog.entry, row |-> row]
           new  == [id |-> call.id, label |-> dialog.entry.name]
<1>1. /\ id_to_action_info' = [i \in DOMAIN id_to_action_info \cup {call.id} |->
                                  IF i = call.id THEN info ELSE id_to_action_info[i]]
      /\ rows' = [r \in DOMAIN rows \cup {row} |-> IF r = row THEN new ELSE rows[r]]
      /\ dialog' = NoDialog /\ UNCHANGED vars /\ call' = NoCall
      /\ call.of.method = "AddAction" /\ call.status = "ok"
    BY DEF Added, Returns
<1>2. call.id \in 1 .. command_id_counter /\ call.id \notin DOMAIN id_to_action_info
    BY <1>1 DEF RowsFollow
<1>3. call'.status = "none" /\ UNCHANGED <<exported, command_id_counter>>
    BY <1>1 DEF NoCall, vars
<1>4. /\ info.cmd.name = dialog.entry.name /\ info.row = row
      /\ new.id = call.id /\ new.label = dialog.entry.name
    OBVIOUS
<1> HIDE DEF row, info, new
<1>5. ASSUME NEW r \in DOMAIN rows'
      PROVE  RowShowsAction(r)'
  <2>1. CASE r = row
    <3>1. rows'[r] = new /\ id_to_action_info'[call.id] = info
          /\ call.id \in DOMAIN id_to_action_info'
        BY <1>1, <2>1
    <3> QED
        BY <1>4, <2>1, <3>1 DEF RowShowsAction
  <2>2. CASE r # row
    <3>1. r \in DOMAIN rows /\ rows'[r] = rows[r] /\ RowShowsAction(r)
        BY <1>1, <2>2 DEF RowsFollow
    <3>2. rows[r].id \in DOMAIN id_to_action_info /\ rows[r].id # call.id
        BY <1>2, <3>1 DEF RowShowsAction
    <3>3. /\ id_to_action_info'[rows[r].id] = id_to_action_info[rows[r].id]
          /\ rows[r].id \in DOMAIN id_to_action_info'
        BY <1>1, <3>2
    <3> QED
        BY <3>1, <3>3 DEF RowShowsAction
  <2> QED
      BY <2>1, <2>2
<1>6. DOMAIN id_to_action_info' \subseteq 1 .. command_id_counter
    BY <1>1, <1>2 DEF RowsFollow
<1> QED
    BY <1>1, <1>3, <1>5, <1>6, NoCommandType DEF RowsFollow

LEMMA OtherFieldsKeepName ==
    ASSUME NEW cmd \in CopyRecords, NEW entry, NEW field \in {"Trigger", "Exec", "ResumeExec"}
    PROVE  AcceptedField(cmd, field, entry).name = cmd.name
<1>1. CASE field = "Trigger"
  <2> DEFINE ms == IF entry.trigger = "TIMEOUT" THEN entry.timeout_ms ELSE cmd.timeout_ms
  <2>1. AcceptedField(cmd, field, entry) =
           [cmd EXCEPT !.trigger = entry.trigger, !.timeout_ms = ms]
      BY <1>1 DEF AcceptedField
  <2> HIDE DEF ms
  <2> QED
      BY <2>1 DEF CopyRecords
<1>2. CASE field = "Exec"
    BY <1>2 DEF AcceptedField, CopyRecords
<1>3. CASE field = "ResumeExec"
    BY <1>3 DEF AcceptedField, CopyRecords
<1> QED
    BY <1>1, <1>2, <1>3

LEMMA FieldTakenRows ==
    ASSUME GuiInv, RowsFollow, FieldTaken
    PROVE  RowsFollow'
<1>1. PICK i \in DOMAIN Fields :
              LET cmd == AcceptedField(dialog.cmd, Fields[i], dialog.entry) IN
              /\ dialog.kind = "edit" /\ dialog.id \in DOMAIN id_to_action_info
              /\ dialog' = [dialog EXCEPT !.cmd = cmd]
              /\ DOMAIN id_to_action_info' = DOMAIN id_to_action_info
              /\ \A id \in DOMAIN id_to_action_info :
                    /\ id_to_action_info'[id].row = id_to_action_info[id].row
                    /\ id_to_action_info'[id].cmd =
                          IF id = dialog.id /\ dialog.attached THEN cmd
                          ELSE id_to_action_info[id].cmd
              /\ rows' = IF Fields[i] = "Name"
                         THEN [rows EXCEPT ![id_to_action_info[dialog.id].row].label = cmd.name]
                         ELSE rows
    BY FieldTakenEffect DEF GuiInv
<1> DEFINE cmd == AcceptedField(dialog.cmd, Fields[i], dialog.entry)
           row == id_to_action_info[dialog.id].row
<1>2. /\ UNCHANGED <<exported, command_id_counter>> /\ call' = NoCall
      /\ call'.status = "none"
    BY DEF FieldTaken, Returns, vars, NoCall
<1>3. dialog.attached /\ dialog.cmd = id_to_action_info[dialog.id].cmd
    BY <1>1 DEF RowsFollow, GuiInv, CopyTypes
<1>4. Fields[i] # "Name" => cmd.name = dialog.cmd.name
  <2>1. Fields[i] \in {"Name", "Trigger", "Exec", "ResumeExec"}
      BY DEF Fields
  <2>2. dialog.cmd \in CopyRecords
      BY DEF GuiInv, CopyTypes
  <2> QED
      BY <2>1, <2>2, OtherFieldsKeepName
<1>5. dialog'.kind = dialog.kind /\ dialog'.attached = dialog.attached
    BY <1>1 DEF GuiInv, CopyInv, IsDialog
<1> HIDE DEF cmd
<1>6. /\ id_to_action_info'[dialog.id].cmd = cmd
      /\ \A id \in DOMAIN id_to_action_info \ {dialog.id} :
            id_to_action_info'[id].cmd = id_to_action_info[id].cmd
    BY <1>1, <1>3 DEF cmd
<1>7. rows' = IF Fields[i] = "Name" THEN [rows EXCEPT ![row].label = cmd.name] ELSE rows
    BY <1>1 DEF cmd
<1> HIDE DEF row
<1>8. ASSUME NEW r \in DOMAIN rows'
      PROVE  RowShowsAction(r)'
  <2>1. r \in DOMAIN rows
      BY <1>7
  <2>2. RowShowsAction(r) /\ rows[r] = [id |-> rows[r].id, label |-> rows[r].label]
      BY <2>1 DEF RowsFollow, GuiInv, RowTypes
  <2>3. /\ rows'[r].id = rows[r].id
        /\ rows'[r].label = IF Fields[i] = "Name" /\ r = row THEN cmd.name ELSE rows[r].label
      BY <1>7, <2>1, <2>2
  <2>4. /\ rows[r].id \in DOMAIN id_to_action_info'
        /\ id_to_action_info'[rows[r].id].row = r
      BY <1>1, <2>2 DEF RowShowsAction
  <2>5. CASE rows[r].id = dialog.id
    <3>1. r = row
        BY <2>2, <2>5 DEF RowShowsAction, row
    <3>2. Fields[i] # "Name" => rows[r].label = cmd.name
        BY <1>3, <1>4, <2>2, <2>5 DEF RowShowsAction
    <3> QED
        BY <1>6, <2>3, <2>4, <2>5, <3>1, <3>2 DEF RowShowsAction
  <2>6. CASE rows[r].id # dialog.id
    <3>1. r # row
        BY <1>1, <2>2, <2>6 DEF RowShowsAction, row, GuiInv, RowTypes
    <3> QED
        BY <1>1, <1>6, <2>2, <2>3, <2>4, <2>6, <3>1 DEF RowShowsAction
  <2> QED
      BY <2>5, <2>6
<1> QED
    BY <1>1, <1>2, <1>5, <1>8 DEF RowsFollow

\* What follows a call: only an answer that is taken changes rows and copies.
LEMMA GuiRows ==
    ASSUME GuiInv, RowsFollow, Gui
    PROVE  RowsFollow'
<1>1. dialog.kind = "edit" => dialog.attached
    BY DEF RowsFollow
<1>2. CASE ToggleReturns \/ NotDeleted
  <2>1. UNCHANGED <<vars, rows, id_to_action_info, dialog>> /\ call' = NoCall
      BY <1>2 DEF ToggleReturns, NotDeleted, Returns, windowVars
  <2>2. call'.status # "ok"
      BY <2>1 DEF NoCall
  <2> QED
      BY <1>1, <2>1, <2>2, SameDaemon
<1>3. CASE NotAdded \/ FieldRefused
  <2>1. UNCHANGED <<vars, rows, id_to_action_info>> /\ call' = NoCall /\ dialog' = Resumed
      BY <1>3 DEF NotAdded, FieldRefused, Returns, windowVars
  <2>2. call'.status # "ok"
      BY <2>1 DEF NoCall
  <2>3. dialog'.kind = dialog.kind /\ dialog'.attached = dialog.attached
    <3>1. IsDialog(dialog)
        BY DEF GuiInv, CopyInv
    <3> QED
        BY <2>1, <3>1 DEF IsDialog, Resumed
  <2> QED
      BY <1>1, <2>1, <2>2, <2>3, SameDaemon
<1>4. CASE SendField
  <2>1. UNCHANGED <<vars, rows, id_to_action_info, dialog>> /\ call'.status # "ok"
      BY <1>4 DEF SendField, Calls, windowVars
  <2> QED
      BY <1>1, <2>1, SameDaemon
<1>5. CASE EditDone
  <2>1. UNCHANGED <<vars, rows, id_to_action_info, call>> /\ dialog' = NoDialog
      BY <1>5 DEF EditDone, windowVars
  <2> QED
      BY <2>1, NoCommandType, SameDaemon
<1> QED
    BY <1>2, <1>3, <1>4, <1>5, DeletedRows, AddedRows, FieldTakenRows DEF Gui

\* An id is answered that the GUI does not have.
LEMMA ServeRows ==
    ASSUME GuiInv, RowsFollow, Serve
    PROVE  RowsFollow'
<1> DEFINE n == Len(requests)
<1>1. /\ requests # <<>> /\ UNCHANGED <<rows, id_to_action_info, dialog>>
      /\ \/ Does(Head(requests)) /\ Answer("ok", command_id_counter')
         \/ Refuses(Head(requests)) /\ Answer("error", 0)
    BY DEF Serve, windowVars
<1>2. n \in Nat /\ n > 0 /\ Head(requests) = requests[1]
    BY <1>1, SequenceOf, TailOf DEF GuiInv, SwitchInv
<1>3. command_id_counter \in Nat
    BY DEF GuiInv, DaemonInv, Inv, TypeOK
<1>4. dialog'.kind = "edit" => dialog'.attached
    BY <1>1 DEF RowsFollow
<1>5. CASE Refuses(Head(requests)) /\ Answer("error", 0)
  <2>1. UNCHANGED vars /\ (call'.status = "error" \/ call' = call)
    <3>1. call = [status |-> call.status, id |-> call.id, of |-> call.of]
        BY DEF GuiInv, CallInv
    <3> QED
        BY <1>5, <3>1 DEF Refuses, Answer
  <2> QED
      BY <1>1, <1>4, <2>1, SameDaemon
<1>6. CASE Does(Head(requests)) /\ Answer("ok", command_id_counter')
  <2>1. \/ IdsKept /\ Head(requests).method # "AddAction"
        \/ OneMore /\ Head(requests).method = "AddAction"
      BY <1>6, ServedIds
  <2>2. /\ exported' = exported /\ command_id_counter' \in Nat
        /\ command_id_counter' >= command_id_counter
      BY <1>3, <2>1 DEF IdsKept, OneMore
  <2>3. CASE call.status = "waiting" /\ n = 1
    <3>1. call' = [status |-> "ok", id |-> command_id_counter', of |-> call.of]
      <4>1. call = [status |-> call.status, id |-> call.id, of |-> call.of]
          BY DEF GuiInv, CallInv
      <4> QED
          BY <1>6, <2>3, <4>1 DEF Answer
    <3>2. call'.of = Head(requests) /\ call'.id = command_id_counter'
        BY <1>2, <2>3, <3>1 DEF GuiInv, CallInv
    <3>3. call'.of.method = "AddAction" => command_id_counter' = command_id_counter + 1
        BY <2>1, <3>2 DEF OneMore
    <3>4. DOMAIN id_to_action_info' \subseteq 1 .. command_id_counter
        BY <1>1 DEF RowsFollow
    <3>5. call'.of.method = "AddAction" =>
             call'.id \in 1 .. command_id_counter' /\ call'.id \notin DOMAIN id_to_action_info'
        BY <1>3, <3>2, <3>3, <3>4
    <3>6. DOMAIN id_to_action_info' \subseteq 1 .. command_id_counter'
        BY <1>3, <2>2, <3>4
    <3>7. exported' /\ \A r \in DOMAIN rows' : RowShowsAction(r)'
        BY <1>1, <2>2 DEF RowsFollow, RowShowsAction
    <3> QED
        BY <1>4, <3>5, <3>6, <3>7 DEF RowsFollow
  <2>4. CASE ~ (call.status = "waiting" /\ n = 1)
    <3>1. call' = call
        BY <1>6, <2>4 DEF Answer
    <3> QED
        BY <1>1, <1>3, <1>4, <2>2, <3>1, RowsKept
  <2> QED
      BY <2>3, <2>4
<1> QED
    BY <1>1, <1>5, <1>6

\* What goes wrong, or on in the daemon.
LEMMA OtherRows ==
    ASSUME GuiInv, RowsFollow, AsLoaded', Daemon \/ GiveUp \/ DaemonKilled \/ Rival
    PROVE  RowsFollow'
<1>1. command_id_counter \in Nat /\ exported /\ up
    BY DEF GuiInv, DaemonInv, Inv, TypeOK, Phases, RowsFollow
<1>2. UNCHANGED <<rows, id_to_action_info, dialog>>
    BY DEF Daemon, GiveUp, DaemonKilled, Rival, windowVars
<1>3. dialog'.kind = "edit" => dialog'.attached
    BY <1>2 DEF RowsFollow
<1>4. CASE Daemon
  <2>1. UNCHANGED <<exported, command_id_counter, call>>
      BY <1>1, <1>4 DEF Daemon, Start, BusAcquired, Save
  <2> QED
      BY <1>1, <1>2, <1>3, <2>1, RowsKept
<1>5. CASE GiveUp
  <2>1. UNCHANGED vars /\ call'.status = "error"
    <3>1. call = [status |-> call.status, id |-> call.id, of |-> call.of]
        BY DEF GuiInv, CallInv
    <3> QED
        BY <1>5, <3>1 DEF GiveUp
  <2> QED
      BY <1>2, <1>3, <2>1, SameDaemon
<1>6. ~ DaemonKilled
    BY DEF DaemonKilled, Mishap, AsLoaded, Only
<1>7. CASE Rival
  <2>1. Client /\ UNCHANGED call
      BY <1>7 DEF Rival
  <2>2. /\ exported' = exported /\ command_id_counter' \in Nat
        /\ command_id_counter' >= command_id_counter
    <3>1. IdsKept \/ OneMore
        BY <2>1, ClientIds
    <3>2. command_id_counter \in Nat
        BY <1>1
    <3> QED
        BY <3>1, <3>2 DEF IdsKept, OneMore
  <2> QED
      BY <1>1, <1>2, <1>3, <2>1, <2>2, RowsKept
<1> QED
    BY <1>4, <1>5, <1>6, <1>7

LEMMA NextRows == GuiInv /\ RowsInv /\ [GuiNext]_allVars => RowsInv'
<1> SUFFICES ASSUME GuiInv, RowsInv, [GuiNext]_allVars, AsLoaded'
             PROVE  RowsFollow'
    BY DEF RowsInv
<1>1. CASE User
    BY <1>1, UserRows
<1>2. CASE Gui \/ Serve \/ Daemon \/ GiveUp \/ DaemonKilled \/ Rival
  <2>1. gui' = gui /\ (happened' = happened \/ Mishap("timeout") \/ Mishap("restart") \/ Mishap("rival"))
    <3>1. CASE Gui
        BY <3>1 DEF Gui, ToggleReturns, Deleted, NotDeleted, Added, NotAdded, SendField,
               FieldTaken, FieldRefused, EditDone, Returns, Calls, windowVars
    <3>2. CASE Serve \/ Daemon \/ GiveUp \/ DaemonKilled \/ Rival
        BY <3>2 DEF Serve, Daemon, GiveUp, DaemonKilled, Rival, windowVars
    <3> QED
        BY <1>2, <3>1, <3>2
  <2>2. RowsFollow
      BY <2>1 DEF Mishap, RowsInv, AsLoaded, Only
  <2> QED
      BY <1>2, <2>2, GuiRows, ServeRows, OtherRows
<1>3. CASE UNCHANGED allVars
  <2>1. /\ UNCHANGED <<vars, rows, id_to_action_info, dialog, call>>
        /\ UNCHANGED <<gui, happened>>
      BY <1>3 DEF allVars, windowVars
  <2>2. RowsFollow
      BY <2>1 DEF RowsInv, AsLoaded, Only
  <2>3. dialog'.kind = "edit" => dialog'.attached
      BY <2>1, <2>2 DEF RowsFollow
  <2> QED
      BY <2>1, <2>2, <2>3, SameDaemon
<1> QED
    BY <1>1, <1>2, <1>3 DEF GuiNext

-----------------------------------------------------------------------------
\* As long as the GUI was activated once and the daemon is the one it has loaded
\* from, rows and actions correspond one to one, whatever other clients do and
\* whichever calls fail or are given up.
THEOREM RowsFollowActions == GuiSpec => []RowsAreActions
<1>1. GuiInit => RowsInv
  <2>1. GuiInit => gui = "absent"
      BY DEF GuiInit
  <2> QED
      BY <2>1 DEF RowsInv, AsLoaded, Only
<1>2. GuiInv /\ RowsInv => RowsAreActions
  <2> SUFFICES ASSUME GuiInv, RowsInv, Only({"timeout", "rival"})
               PROVE  /\ \A r \in DOMAIN rows : RowShowsAction(r)
                      /\ \A id \in DOMAIN id_to_action_info : \E r \in DOMAIN rows : rows[r].id = id
      BY DEF RowsAreActions, RowShowsAction
  <2>1. \A r \in DOMAIN rows : RowShowsAction(r)
      BY DEF RowsInv, RowsFollow, AsLoaded
  <2>2. ASSUME NEW id \in DOMAIN id_to_action_info
        PROVE  \E r \in DOMAIN rows : rows[r].id = id
    <3> DEFINE r == id_to_action_info[id].row
    <3>1. r \in DOMAIN rows
        BY DEF GuiInv, RowTypes
    <3>2. rows[r].id \in DOMAIN id_to_action_info /\ id_to_action_info[rows[r].id].row = r
        BY <2>1, <3>1 DEF RowShowsAction
    <3>3. rows[r].id = id
        BY <3>2 DEF GuiInv, RowTypes
    <3> QED
        BY <3>1, <3>3
  <2> QED
      BY <2>1, <2>2
<1>3. GuiSpec => []RowsInv
    BY <1>1, NextRows, GuiInvariance, PTL DEF GuiSpec
<1> QED
    BY <1>2, <1>3, GuiInvariance, PTL

-----------------------------------------------------------------------------
(* The copies.  The daemon has carried out what it has answered: the       *)
(* copies agree with it once the answer is taken.                          *)

Answered(methods) == call.status = "ok" /\ call.of.method \in methods

FieldNames == {"Name", "Trigger", "Exec", "ResumeExec"}

IdsAfter ==
    IF Answered({"RemoveAction"}) THEN DOMAIN id_to_action_info \ {call.of.id}
    ELSE IF Answered({"AddAction"}) THEN DOMAIN id_to_action_info \cup {call.id}
    ELSE DOMAIN id_to_action_info

CopyAfter(id) ==
    IF Answered({"AddAction"}) /\ id = call.id THEN dialog.entry
    ELSE IF Answered(FieldNames) /\ id = dialog.id
         THEN AcceptedField(dialog.cmd, call.of.method, dialog.entry)
    ELSE id_to_action_info[id].cmd

AgreeAfter ==
    /\ IdsAfter = DOMAIN cmds
    /\ \A id \in DOMAIN cmds : SameAction(CopyAfter(id), cmds[id])

CopiesFollow ==
    /\ exported
    /\ dialog.kind = "edit" => dialog.attached
    /\ requests = IF call.status = "waiting" THEN <<call.of>> ELSE <<>>
    /\ AgreeAfter

AlwaysAnswered == Only({"activated"})

AgreeInv == AlwaysAnswered => CopiesFollow

-----------------------------------------------------------------------------
(* The same change made to an action and to its copy.                      *)

LEMMA SameTrigger ==
    ASSUME NEW c, NEW d, NEW e, NEW f,
           c.trigger = e.trigger, c.timeout_ms = e.timeout_ms,
           d.trigger = f.trigger, d.timeout_ms = f.timeout_ms,
           TriggerText(e) = TriggerText(f)
    PROVE  TriggerText(c) = TriggerText(d)
  BY TriggerOnly

\* The actions a daemon has made of what was entered, and read back.
LEMMA MadeOfEntry ==
    ASSUME NEW entry \in CopyRecords, Accepted(TriggerText(entry))
    PROVE  SameAction(entry, NewCommand(entry.name, TriggerText(entry), entry.exec,
                                        entry.resume_exec))
<1> DEFINE parsed == Parsed(TriggerText(entry), 0)
           cmd == NewCommand(entry.name, TriggerText(entry), entry.exec, entry.resume_exec)
<1>1. /\ cmd.name = entry.name /\ cmd.exec = entry.exec
      /\ cmd.resume_exec = entry.resume_exec
      /\ cmd.trigger = parsed.trigger /\ cmd.timeout_ms = parsed.timeout_ms
    BY DEF NewCommand
<1>2. TriggerText(parsed) = TriggerText(entry)
    BY CopyRecordFields DEF Reread
<1> HIDE DEF cmd, parsed
<1>3. TriggerText(cmd) = TriggerText(parsed)
    BY <1>1, TriggerOnly
<1>4. SameAction(entry, cmd)
    BY <1>1, <1>2, <1>3 DEF SameAction
<1> QED
    BY <1>4 DEF cmd

LEMMA ReadAgrees ==
    ASSUME Inv, TriggersTell, Loadable, NEW id \in DOMAIN cmds
    PROVE  id \in DOMAIN objects /\ SameAction(Got(objects[id]), cmds[id])
<1> DEFINE object == objects[id]
           parsed == Parsed(object.Trigger, 0)
           copy == Got(object)
<1>1. exported /\ id \in DOMAIN objects /\ Shows(object, cmds[id])
    BY ObjectsOfCommands DEF Loadable
<1>2. Accepted(object.Trigger) /\ TriggerText(parsed) = TriggerText(cmds[id])
    BY <1>1 DEF Loadable, TriggersTell, Reread
<1>3. /\ copy.name = object.Name /\ copy.exec = object.Exec
      /\ copy.resume_exec = object.ResumeExec
      /\ copy.trigger = parsed.trigger /\ copy.timeout_ms = parsed.timeout_ms
    BY DEF Got, NewCommand
<1> HIDE DEF copy, parsed
<1>4. TriggerText(copy) = TriggerText(parsed)
    BY <1>3, TriggerOnly
<1>5. SameAction(copy, cmds[id])
    BY <1>1, <1>2, <1>3, <1>4 DEF SameAction, Shows
<1> QED
    BY <1>1, <1>5 DEF copy

LEMMA TextFieldAgrees ==
    ASSUME NEW copy \in CopyRecords, NEW cmd \in CommandRecords, NEW entry,
           SameAction(copy, cmd)
    PROVE  /\ SameAction(AcceptedField(copy, "Name", entry), [cmd EXCEPT !.name = entry.name])
           /\ SameAction(AcceptedField(copy, "Exec", entry), [cmd EXCEPT !.exec = entry.exec])
           /\ SameAction(AcceptedField(copy, "ResumeExec", entry),
                         [cmd EXCEPT !.resume_exec = entry.resume_exec])
<1>1. ASSUME NEW value
      PROVE  /\ SameAction([copy EXCEPT !.name = value], [cmd EXCEPT !.name = value])
             /\ SameAction([copy EXCEPT !.exec = value], [cmd EXCEPT !.exec = value])
             /\ SameAction([copy EXCEPT !.resume_exec = value],
                           [cmd EXCEPT !.resume_exec = value])
  <2>1. ASSUME NEW c, NEW d,
               c.trigger = copy.trigger, c.timeout_ms = copy.timeout_ms,
               d.trigger = cmd.trigger, d.timeout_ms = cmd.timeout_ms
        PROVE  TriggerText(c) = TriggerText(d)
      BY <2>1, SameTrigger DEF SameAction
  <2>2. /\ copy.name = cmd.name /\ copy.exec = cmd.exec /\ copy.resume_exec = cmd.resume_exec
      BY DEF SameAction
  <2>3. SameAction([copy EXCEPT !.name = value], [cmd EXCEPT !.name = value])
    <3> DEFINE c == [copy EXCEPT !.name = value]
               d == [cmd EXCEPT !.name = value]
    <3>1. /\ c.trigger = copy.trigger /\ c.timeout_ms = copy.timeout_ms
          /\ d.trigger = cmd.trigger /\ d.timeout_ms = cmd.timeout_ms
          /\ c.name = d.name /\ c.exec = d.exec /\ c.resume_exec = d.resume_exec
        BY <2>2 DEF CopyRecords, CommandRecords
    <3> HIDE DEF c, d
    <3>2. SameAction(c, d)
        BY <2>1, <3>1 DEF SameAction
    <3> QED
        BY <3>2 DEF c, d
  <2>4. SameAction([copy EXCEPT !.exec = value], [cmd EXCEPT !.exec = value])
    <3> DEFINE c == [copy EXCEPT !.exec = value]
               d == [cmd EXCEPT !.exec = value]
    <3>1. /\ c.trigger = copy.trigger /\ c.timeout_ms = copy.timeout_ms
          /\ d.trigger = cmd.trigger /\ d.timeout_ms = cmd.timeout_ms
          /\ c.name = d.name /\ c.exec = d.exec /\ c.resume_exec = d.resume_exec
        BY <2>2 DEF CopyRecords, CommandRecords
    <3> HIDE DEF c, d
    <3>2. SameAction(c, d)
        BY <2>1, <3>1 DEF SameAction
    <3> QED
        BY <3>2 DEF c, d
  <2>5. SameAction([copy EXCEPT !.resume_exec = value], [cmd EXCEPT !.resume_exec = value])
    <3> DEFINE c == [copy EXCEPT !.resume_exec = value]
               d == [cmd EXCEPT !.resume_exec = value]
    <3>1. /\ c.trigger = copy.trigger /\ c.timeout_ms = copy.timeout_ms
          /\ d.trigger = cmd.trigger /\ d.timeout_ms = cmd.timeout_ms
          /\ c.name = d.name /\ c.exec = d.exec /\ c.resume_exec = d.resume_exec
        BY <2>2 DEF CopyRecords, CommandRecords
    <3> HIDE DEF c, d
    <3>2. SameAction(c, d)
        BY <2>1, <3>1 DEF SameAction
    <3> QED
        BY <3>2 DEF c, d
  <2> QED
      BY <2>3, <2>4, <2>5
<1> QED
    BY <1>1 DEF AcceptedField

LEMMA TriggerAgrees ==
    ASSUME NEW copy \in CopyRecords, NEW cmd \in CommandRecords, NEW entry \in CopyRecords,
           NEW parsed, parsed = Parsed(TriggerText(entry), cmd.timeout_ms),
           SameAction(copy, cmd), Accepted(TriggerText(entry))
    PROVE  SameAction(AcceptedField(copy, "Trigger", entry),
                      [cmd EXCEPT !.trigger = parsed.trigger, !.timeout_ms = parsed.timeout_ms])
<1> DEFINE ms == IF entry.trigger = "TIMEOUT" THEN entry.timeout_ms ELSE copy.timeout_ms
           c == [copy EXCEPT !.trigger = entry.trigger, !.timeout_ms = ms]
           d == [cmd EXCEPT !.trigger = parsed.trigger, !.timeout_ms = parsed.timeout_ms]
<1>1. AcceptedField(copy, "Trigger", entry) = c
    BY DEF AcceptedField
<1>2. TriggerText(parsed) = TriggerText(entry)
    BY CopyRecordFields, ParsedPrints
<1>3. entry.trigger = "TIMEOUT" => ms = entry.timeout_ms
    OBVIOUS
<1>4. entry.trigger \in {"TIMEOUT", "SLEEP", "LOCK"}
    BY CopyRecordFields
<1> HIDE DEF ms
<1>5. c.trigger = entry.trigger /\ c.timeout_ms = ms
      /\ d.trigger = parsed.trigger /\ d.timeout_ms = parsed.timeout_ms
      /\ c.name = copy.name /\ c.exec = copy.exec /\ c.resume_exec = copy.resume_exec
      /\ d.name = cmd.name /\ d.exec = cmd.exec /\ d.resume_exec = cmd.resume_exec
    BY DEF CopyRecords, CommandRecords
<1> HIDE DEF c, d
<1>6. TriggerText(d) = TriggerText(parsed)
    BY <1>5, TriggerOnly
<1>7. TriggerText(c) = TriggerText(entry)
    BY <1>3, <1>4, <1>5 DEF TriggerText
<1>8. SameAction(c, d)
    BY <1>2, <1>5, <1>6, <1>7 DEF SameAction
<1> QED
    BY <1>1, <1>8 DEF d

-----------------------------------------------------------------------------
(* The steps.                                                              *)

LEMMA NotAnswered ==
    ASSUME call.status # "ok"
    PROVE  /\ IdsAfter = DOMAIN id_to_action_info
           /\ \A id : CopyAfter(id) = id_to_action_info[id].cmd
  BY DEF IdsAfter, CopyAfter, Answered

LEMMA NotAnsweredYet ==
    ASSUME call'.status # "ok"
    PROVE  /\ IdsAfter' = DOMAIN id_to_action_info'
           /\ \A id : CopyAfter(id)' = id_to_action_info'[id].cmd
  BY DEF IdsAfter, CopyAfter, Answered

\* Copies and actions stay, and no answer is waiting to be taken.
LEMMA StillAgree ==
    ASSUME AgreeAfter, UNCHANGED <<cmds, id_to_action_info>>,
           call.status # "ok", call'.status # "ok"
    PROVE  AgreeAfter'
  BY NotAnswered, NotAnsweredYet DEF AgreeAfter

\* What is not about calls or copies.
LEMMA FollowKept ==
    ASSUME CopiesFollow, UNCHANGED <<exported, cmds, id_to_action_info, requests, call>>,
           call.status # "ok", dialog'.kind = "edit" => dialog'.attached
    PROVE  CopiesFollow'
  BY StillAgree DEF CopiesFollow

LEMMA CallFollows ==
    ASSUME CopiesFollow, NEW request, Calls(request), UNCHANGED id_to_action_info,
           dialog'.kind = "edit" => dialog'.attached
    PROVE  CopiesFollow'
<1>1. /\ call.status = "none" /\ UNCHANGED <<exported, cmds>>
      /\ call' = [status |-> "waiting", id |-> 0, of |-> request]
      /\ requests' = Append(requests, request)
    BY DEF Calls, CopiesFollow, vars
<1>2. call'.status = "waiting" /\ call'.of = request
    BY <1>1
<1>3. requests = <<>>
    BY <1>1 DEF CopiesFollow
<1>4. requests' = <<call'.of>>
    BY <1>1, <1>2, <1>3
<1>5. AgreeAfter'
    BY <1>1, <1>2, StillAgree DEF CopiesFollow
<1>6. exported'
    BY <1>1 DEF CopiesFollow
<1> QED
    BY <1>2, <1>4, <1>5, <1>6 DEF CopiesFollow

LEMMA ActivateFollows ==
    ASSUME GuiInv, AgreeInv, Activate, AlwaysAnswered'
    PROVE  CopiesFollow'
<1>1. /\ Loadable /\ exported /\ requests = <<>> /\ requests' = <<>> /\ call' = call
      /\ UNCHANGED <<exported, cmds>> /\ dialog' = [dialog EXCEPT !.attached = FALSE]
    BY DEF Activate, Loadable, vars
<1>2. /\ call.status = "none" /\ dialog.kind # "edit"
      /\ DOMAIN id_to_action_info \subseteq DOMAIN cmds
  <2>1. CASE gui = "absent"
    <3>1. call = NoCall /\ dialog = NoDialog /\ id_to_action_info = <<>>
        BY <2>1 DEF GuiInv, SwitchInv, CopyTypes
    <3>2. DOMAIN id_to_action_info = {}
        BY <3>1
    <3> QED
        BY <3>1, <3>2, NoCommandType DEF NoCall
  <2>2. CASE gui # "absent"
    <3>1. /\ gui = "open" /\ call.status = "none"
          /\ \/ dialog.kind = "edit" /\ Mishap("detached")
             \/ dialog.kind # "edit" /\ Mishap("activated")
        BY <2>2 DEF Activate, Idle
    <3>2. dialog.kind # "edit" /\ happened \subseteq {"activated"}
        BY <3>1 DEF Mishap, AlwaysAnswered, Only
    <3>3. CopiesFollow
        BY <3>1, <3>2 DEF AgreeInv, AlwaysAnswered, Only
    <3> QED
        BY <3>1, <3>2, <3>3, NotAnswered DEF CopiesFollow, AgreeAfter
  <2> QED
      BY <2>1, <2>2
<1>3. DOMAIN Loaded = DOMAIN cmds
    BY <1>1, <1>2, ObjectsOfCommands DEF Loaded, GuiInv, DaemonInv
<1>4. /\ DOMAIN id_to_action_info' = DOMAIN cmds
      /\ \A id \in DOMAIN cmds : id_to_action_info'[id].cmd = Loaded[id]
    BY <1>3, ActivateEffect DEF GuiInv
<1>5. \A id \in DOMAIN cmds : SameAction(Loaded[id], cmds[id])
  <2>1. \A id \in DOMAIN cmds : id \in DOMAIN objects /\ SameAction(Got(objects[id]), cmds[id])
      BY <1>1, ReadAgrees DEF GuiInv, DaemonInv
  <2>2. \A id \in DOMAIN objects : Loaded[id] = Got(objects[id])
      BY DEF Loaded
  <2> QED
      BY <2>1, <2>2
<1>6. AgreeAfter'
  <2>1. call'.status # "ok"
      BY <1>1, <1>2
  <2> QED
      BY <1>1, <1>4, <1>5, <2>1, NotAnsweredYet DEF AgreeAfter
<1>7. dialog'.kind # "edit"
    BY <1>1, <1>2 DEF GuiInv, CopyInv, IsDialog
<1>8. exported' /\ requests' = <<>> /\ call'.status = "none"
    BY <1>1, <1>2
<1> QED
    BY <1>6, <1>7, <1>8 DEF CopiesFollow

LEMMA UserFollows ==
    ASSUME GuiInv, AgreeInv, User, AlwaysAnswered'
    PROVE  CopiesFollow'
<1>1. gui' = "open" /\ IsDialog(dialog)
    BY DEF AlwaysAnswered, Only, GuiInv, CopyInv
<1>2. ASSUME AtWindows \/ Idle, UNCHANGED happened
      PROVE  /\ CopiesFollow /\ call.status # "ok"
             /\ dialog.kind = "edit" => dialog.attached
    BY <1>2 DEF AgreeInv, AlwaysAnswered, Only, AtWindows, Idle, CopiesFollow
<1>3. ASSUME NEW w, NEW key, Toggle(w, key)
      PROVE  CopiesFollow'
  <2>1. PICK request : Calls(request)
      BY <1>3 DEF Toggle
  <2>2. AtWindows /\ UNCHANGED <<happened, id_to_action_info, dialog>>
      BY <1>3, <2>1 DEF Toggle, Calls
  <2> QED
      BY <1>2, <2>1, <2>2, CallFollows
<1>4. ASSUME NEW row, ClickDelete(row)
      PROVE  CopiesFollow'
  <2>1. PICK request : Calls(request)
      BY <1>4 DEF ClickDelete
  <2>2. AtWindows /\ UNCHANGED <<happened, id_to_action_info, dialog>>
      BY <1>4, <2>1 DEF ClickDelete, Calls, windowVars
  <2> QED
      BY <1>2, <2>1, <2>2, CallFollows
<1>5. ASSUME NEW entry, AddOk(entry)
      PROVE  CopiesFollow'
  <2>1. PICK request : Calls(request)
      BY <1>5 DEF AddOk
  <2>2. /\ Idle /\ UNCHANGED <<happened, id_to_action_info>>
        /\ dialog' = [dialog EXCEPT !.ok = TRUE, !.entry = entry] /\ dialog.kind = "add"
      BY <1>5, <2>1 DEF AddOk, Calls, windowVars
  <2>3. dialog'.kind = "add"
      BY <1>1, <2>2 DEF IsDialog
  <2> QED
      BY <1>2, <2>1, <2>2, <2>3, CallFollows
<1>6. ASSUME NEW entry, EditOk(entry)
      PROVE  CopiesFollow'
  <2>1. /\ Idle /\ UNCHANGED <<happened, exported, cmds, id_to_action_info, requests, call>>
        /\ dialog' = [dialog EXCEPT !.ok = TRUE, !.entry = entry]
      BY <1>6 DEF EditOk, windowVars, vars
  <2>2. dialog'.kind = dialog.kind /\ dialog'.attached = dialog.attached
      BY <1>1, <2>1 DEF IsDialog
  <2> QED
      BY <1>2, <2>1, <2>2, FollowKept
<1>7. ~ ActivateInVain /\ \A row : ~ AssertionFails(row)
    BY <1>1 DEF ActivateInVain, AssertionFails
<1>8. ASSUME ClickAdd \/ Cancel
      PROVE  CopiesFollow'
  <2>1. /\ Idle /\ UNCHANGED <<happened, exported, cmds, id_to_action_info, requests, call>>
        /\ dialog' = NoDialog \/ dialog' = [NoDialog EXCEPT !.kind = "add"]
      BY <1>8 DEF ClickAdd, Cancel, AtWindows, windowVars, vars
  <2>2. dialog'.kind # "edit"
      BY <2>1 DEF NoDialog
  <2> QED
      BY <1>2, <2>1, <2>2, FollowKept
<1>9. ASSUME NEW row, ClickEdit(row)
      PROVE  CopiesFollow'
  <2>1. PICK id, cmd :
           /\ Idle /\ UNCHANGED <<happened, exported, cmds, id_to_action_info, requests, call>>
           /\ dialog' = [NoDialog EXCEPT !.kind = "edit", !.id = id, !.attached = TRUE,
                                         !.cmd = cmd, !.shown = cmd]
      BY <1>9 DEF ClickEdit, AtWindows, windowVars, vars
  <2>2. dialog'.attached = TRUE
      BY <2>1 DEF NoDialog
  <2> QED
      BY <1>2, <2>1, <2>2, FollowKept
<1> QED
    BY <1>3, <1>4, <1>5, <1>6, <1>7, <1>8, <1>9, ActivateFollows DEF User

\* An answer is taken: the copies become what they were to be.
LEMMA AnswerTaken ==
    ASSUME GuiInv, CopiesFollow, Deleted \/ Added \/ FieldTaken \/ ToggleReturns
    PROVE  CopiesFollow'
<1>1. /\ call' = NoCall /\ UNCHANGED <<exported, cmds, requests>>
      /\ call.status \in {"ok", "error"}
    BY DEF Deleted, Added, FieldTaken, ToggleReturns, Returns, vars
<1>2. call'.status = "none" /\ exported' /\ requests' = <<>>
    BY <1>1 DEF NoCall, CopiesFollow
<1>3. /\ IdsAfter' = DOMAIN id_to_action_info'
      /\ \A id : CopyAfter(id)' = id_to_action_info'[id].cmd
    BY <1>2, NotAnsweredYet
<1>4. SUFFICES /\ DOMAIN id_to_action_info' = IdsAfter
               /\ \A id \in IdsAfter : id_to_action_info'[id].cmd = CopyAfter(id)
               /\ dialog'.kind = "edit" => dialog'.attached
    BY <1>1, <1>2, <1>3 DEF CopiesFollow, AgreeAfter
<1>5. CASE Deleted
  <2>1. /\ Answered({"RemoveAction"}) /\ ~ Answered({"AddAction"}) /\ ~ Answered(FieldNames)
        /\ id_to_action_info' = [i \in DOMAIN id_to_action_info \ {call.of.id} |->
                                    id_to_action_info[i]]
        /\ dialog' = dialog
      BY <1>5 DEF Deleted, Returns, Answered, FieldNames
  <2> QED
      BY <2>1 DEF IdsAfter, CopyAfter, CopiesFollow
<1>6. CASE Added
  <2> DEFINE info == [cmd |-> dialog.entry, row |-> LastRow + 1]
  <2>1. /\ Answered({"AddAction"}) /\ ~ Answered({"RemoveAction"}) /\ ~ Answered(FieldNames)
        /\ id_to_action_info' = [i \in DOMAIN id_to_action_info \cup {call.id} |->
                                    IF i = call.id THEN info ELSE id_to_action_info[i]]
        /\ dialog' = NoDialog
      BY <1>6 DEF Added, Returns, Answered, FieldNames
  <2>2. info.cmd = dialog.entry
      OBVIOUS
  <2> HIDE DEF info
  <2> QED
      BY <2>1, <2>2, NoCommandType DEF IdsAfter, CopyAfter
<1>7. CASE FieldTaken
  <2>1. PICK i \in DOMAIN Fields :
              LET cmd == AcceptedField(dialog.cmd, Fields[i], dialog.entry) IN
              /\ call.of.method = Fields[i] /\ call.status = "ok"
              /\ dialog.kind = "edit"
              /\ dialog' = [dialog EXCEPT !.cmd = cmd]
              /\ DOMAIN id_to_action_info' = DOMAIN id_to_action_info
              /\ \A id \in DOMAIN id_to_action_info :
                    id_to_action_info'[id].cmd =
                          IF id = dialog.id /\ dialog.attached THEN cmd
                          ELSE id_to_action_info[id].cmd
      BY <1>7, FieldTakenEffect DEF GuiInv
  <2>2. Fields[i] \in FieldNames
      BY DEF Fields, FieldNames
  <2>3. /\ Answered(FieldNames) /\ ~ Answered({"AddAction"}) /\ ~ Answered({"RemoveAction"})
        /\ dialog.attached
      BY <2>1, <2>2 DEF Answered, FieldNames, CopiesFollow
  <2>4. dialog'.attached = dialog.attached
      BY <2>1 DEF GuiInv, CopyInv, IsDialog
  <2> QED
      BY <2>1, <2>3, <2>4 DEF IdsAfter, CopyAfter
<1>8. CASE ToggleReturns
  <2>1. call.of.method = "Set" /\ UNCHANGED <<id_to_action_info, dialog>>
      BY <1>8 DEF ToggleReturns, Returns, windowVars
  <2>2. ~ Answered({"RemoveAction"}) /\ ~ Answered({"AddAction"}) /\ ~ Answered(FieldNames)
      BY <2>1 DEF Answered, FieldNames
  <2> QED
      BY <2>1, <2>2 DEF IdsAfter, CopyAfter, CopiesFollow
<1> QED
    BY <1>5, <1>6, <1>7, <1>8

LEMMA GuiFollows ==
    ASSUME GuiInv, CopiesFollow, Gui
    PROVE  CopiesFollow'
<1>1. dialog.kind = "edit" => dialog.attached
    BY DEF CopiesFollow
<1>2. CASE NotDeleted \/ NotAdded \/ FieldRefused
  <2>1. /\ UNCHANGED <<exported, cmds, requests, id_to_action_info>> /\ call' = NoCall
        /\ call.status = "error" /\ (dialog' = dialog \/ dialog' = Resumed)
      BY <1>2 DEF NotDeleted, NotAdded, FieldRefused, Returns, windowVars, vars
  <2>2. call'.status = "none"
      BY <2>1 DEF NoCall
  <2>3. dialog'.kind = dialog.kind /\ dialog'.attached = dialog.attached
    <3>1. IsDialog(dialog)
        BY DEF GuiInv, CopyInv
    <3> QED
        BY <2>1, <3>1 DEF IsDialog, Resumed
  <2>4. requests' = <<>> /\ exported'
      BY <2>1 DEF CopiesFollow
  <2>5. AgreeAfter'
      BY <2>1, <2>2, StillAgree DEF CopiesFollow
  <2> QED
      BY <1>1, <2>2, <2>3, <2>4, <2>5 DEF CopiesFollow
<1>3. CASE SendField
  <2>1. PICK request : Calls(request)
      BY <1>3 DEF SendField
  <2>2. UNCHANGED <<id_to_action_info, dialog>>
      BY <1>3 DEF SendField, windowVars
  <2> QED
      BY <1>1, <2>1, <2>2, CallFollows
<1>4. CASE EditDone
  <2>1. /\ UNCHANGED <<exported, cmds, requests, id_to_action_info, call>>
        /\ dialog' = NoDialog /\ call.status = "none"
      BY <1>4 DEF EditDone, windowVars, vars, Idle
  <2> QED
      BY <2>1, NoCommandType, FollowKept
<1> QED
    BY <1>2, <1>3, <1>4, AnswerTaken DEF Gui

\* The daemon carries out the request the GUI waits for, the only one there is.
LEMMA ServedOne ==
    ASSUME GuiInv, CopiesFollow, Serve
    PROVE  /\ call.status = "waiting" /\ requests' = <<>>
           /\ UNCHANGED <<id_to_action_info, dialog>>
           /\ call'.of = call.of
           /\ \/ Refuses(call.of) /\ call'.status = "error"
              \/ /\ Does(call.of) /\ call'.status = "ok"
                 /\ call'.id = command_id_counter'
<1>1. /\ requests # <<>> /\ UNCHANGED <<id_to_action_info, dialog>>
      /\ requests' = Tail(requests)
      /\ \/ Does(Head(requests)) /\ Answer("ok", command_id_counter')
         \/ Refuses(Head(requests)) /\ Answer("error", 0)
    BY DEF Serve, windowVars
<1>2. call.status = "waiting" /\ requests = <<call.of>>
    BY <1>1 DEF CopiesFollow
<1>3. Len(requests) = 1 /\ Head(requests) = call.of /\ Tail(requests) = <<>>
    BY <1>2
<1>4. call = [status |-> call.status, id |-> call.id, of |-> call.of]
    BY DEF GuiInv, CallInv
<1>5. ASSUME NEW status, NEW id, Answer(status, id)
      PROVE  call'.status = status /\ call'.id = id /\ call'.of = call.of
  <2>1. call' = [call EXCEPT !.status = status, !.id = id]
      BY <1>2, <1>3, <1>5 DEF Answer
  <2>2. call' = [status |-> status, id |-> id, of |-> call.of]
      BY <1>4, <2>1
  <2> QED
      BY <2>2
<1> QED
    BY <1>1, <1>2, <1>3, <1>5

LEMMA DoneAgrees ==
    ASSUME GuiInv, CopiesFollow, UNCHANGED <<id_to_action_info, dialog>>,
           call.status = "waiting", call'.of = call.of, call'.status = "ok",
           call'.id = command_id_counter', Does(call.of)
    PROVE  AgreeAfter'
<1> DEFINE method == call.of.method
           id == call.of.id
           arg == call.of.args[1]
<1>1. /\ DOMAIN id_to_action_info = DOMAIN cmds
      /\ \A i \in DOMAIN cmds : SameAction(id_to_action_info[i].cmd, cmds[i])
    BY NotAnswered DEF CopiesFollow, AgreeAfter
<1>2. Matches
    BY DEF GuiInv, CallInv
<1>3. \A methods : Answered(methods)' <=> method \in methods
    BY DEF Answered
<1>4. /\ IdsAfter' = IF method = "RemoveAction" THEN DOMAIN id_to_action_info \ {id}
                     ELSE IF method = "AddAction"
                     THEN DOMAIN id_to_action_info \cup {command_id_counter'}
                     ELSE DOMAIN id_to_action_info
      /\ \A i : CopyAfter(i)' =
            IF method = "AddAction" /\ i = command_id_counter' THEN dialog.entry
            ELSE IF method \in FieldNames /\ i = dialog.id
            THEN AcceptedField(dialog.cmd, method, dialog.entry)
            ELSE id_to_action_info[i].cmd
    BY DEF IdsAfter, CopyAfter, Answered, FieldNames
<1>5. CASE method = "Set"
  <2>1. SetPaused(call.of.args[2]) \/ SetSetting(arg, call.of.args[2])
      BY <1>5 DEF Does
  <2>2. cmds' = cmds
      BY <2>1 DEF SetPaused, SetSetting, vars
  <2>3. method \notin FieldNames
      BY <1>5 DEF FieldNames
  <2> QED
      BY <1>1, <1>4, <1>5, <2>2, <2>3 DEF AgreeAfter
<1>6. CASE method = "RemoveAction"
  <2>1. RemoveAction(id)
      BY <1>6 DEF Does
  <2>2. cmds' = [i \in DOMAIN cmds \ {id} |-> cmds[i]]
      BY <2>1 DEF RemoveAction
  <2>3. method \notin FieldNames
      BY <1>6 DEF FieldNames
  <2> HIDE DEF method, id
  <2> QED
      BY <1>1, <1>4, <1>6, <2>2, <2>3 DEF AgreeAfter
<1>7. CASE method = "AddAction"
  <2> DEFINE entry == dialog.entry
             cmd == NewCommand(entry.name, TriggerText(entry), entry.exec, entry.resume_exec)
             new == command_id_counter + 1
  <2>1. arg = entry
      BY <1>2, <1>7 DEF Matches
  <2>2. AddAction(arg.name, TriggerText(arg), arg.exec, arg.resume_exec)
      BY <1>7 DEF Does
  <2>3. AddAction(entry.name, TriggerText(entry), entry.exec, entry.resume_exec)
      BY <2>1, <2>2
  <2>4. /\ Accepted(TriggerText(entry)) /\ command_id_counter' = new
        /\ cmds' = [i \in DOMAIN cmds \cup {new} |-> IF i = new THEN cmd ELSE cmds[i]]
      BY <2>3 DEF AddAction, NextId
  <2>5. SameAction(entry, cmd)
      BY <2>4, MadeOfEntry DEF GuiInv, CopyTypes
  <2>6. method \notin FieldNames
      BY <1>7 DEF FieldNames
  <2> HIDE DEF method, entry, cmd, new
  <2>7. IdsAfter' = DOMAIN cmds \cup {new}
      BY <1>1, <1>4, <1>7, <2>4
  <2>8. \A i : CopyAfter(i)' = IF i = new THEN entry ELSE id_to_action_info[i].cmd
      BY <1>4, <1>7, <2>4, <2>6 DEF entry
  <2> QED
      BY <1>1, <2>4, <2>5, <2>7, <2>8 DEF AgreeAfter
<1>8. CASE method \in FieldNames
  <2> DEFINE copy == dialog.cmd
             entry == dialog.entry
             cmd == cmds[id]
             taken == AcceptedField(copy, method, entry)
  <2>1. dialog.kind = "edit" /\ id = dialog.id /\ arg = entry
      BY <1>2, <1>8 DEF Matches, FieldNames
  <2>2. /\ id \in DOMAIN cmds /\ copy = id_to_action_info[id].cmd
        /\ copy \in CopyRecords /\ entry \in CopyRecords
      BY <1>1, <2>1 DEF GuiInv, CopyTypes, CopiesFollow
  <2>3. cmd \in CommandRecords /\ SameAction(copy, cmd)
      BY <1>1, <2>2 DEF GuiInv, DaemonInv, Inv, TypeOK
  <2>4. \E set : cmds' = [cmds EXCEPT ![id] = set] /\ SameAction(taken, set)
    <3>1. CASE method = "Name"
      <4> DEFINE set == [cmd EXCEPT !.name = entry.name]
      <4>1. SetName(id, entry.name)
          BY <2>1, <3>1 DEF Does
      <4>2. cmds' = [cmds EXCEPT ![id] = set]
          BY <4>1 DEF SetName, SetProperty
      <4>3. SameAction(AcceptedField(copy, "Name", entry), set)
          BY <2>2, <2>3, TextFieldAgrees
      <4> HIDE DEF set
      <4> QED
          BY <3>1, <4>2, <4>3
    <3>2. CASE method = "Exec"
      <4> DEFINE set == [cmd EXCEPT !.exec = entry.exec]
      <4>1. SetExec(id, entry.exec)
          BY <2>1, <3>2 DEF Does
      <4>2. cmds' = [cmds EXCEPT ![id] = set]
          BY <4>1 DEF SetExec, SetProperty
      <4>3. SameAction(AcceptedField(copy, "Exec", entry), set)
          BY <2>2, <2>3, TextFieldAgrees
      <4> HIDE DEF set
      <4> QED
          BY <3>2, <4>2, <4>3
    <3>3. CASE method = "ResumeExec"
      <4> DEFINE set == [cmd EXCEPT !.resume_exec = entry.resume_exec]
      <4>1. SetResumeExec(id, entry.resume_exec)
          BY <2>1, <3>3 DEF Does
      <4>2. cmds' = [cmds EXCEPT ![id] = set]
          BY <4>1 DEF SetResumeExec, SetProperty
      <4>3. SameAction(AcceptedField(copy, "ResumeExec", entry), set)
          BY <2>2, <2>3, TextFieldAgrees
      <4> HIDE DEF set
      <4> QED
          BY <3>3, <4>2, <4>3
    <3>4. CASE method = "Trigger"
      <4> DEFINE parsed == Parsed(TriggerText(entry), cmd.timeout_ms)
                 set == [cmd EXCEPT !.trigger = parsed.trigger, !.timeout_ms = parsed.timeout_ms]
      <4>1. SetTrigger(id, TriggerText(entry))
          BY <2>1, <3>4 DEF Does
      <4>2. Accepted(TriggerText(entry)) /\ cmds' = [cmds EXCEPT ![id] = set]
          BY <4>1 DEF SetTrigger, SetProperty
      <4>3. SameAction(AcceptedField(copy, "Trigger", entry), set)
          BY <2>2, <2>3, <4>2, TriggerAgrees
      <4> HIDE DEF set
      <4> QED
          BY <3>4, <4>2, <4>3
    <3> QED
        BY <1>8, <3>1, <3>2, <3>3, <3>4 DEF FieldNames
  <2>5. PICK set : cmds' = [cmds EXCEPT ![id] = set] /\ SameAction(taken, set)
      BY <2>4
  <2>6. IdsAfter' = DOMAIN cmds
      BY <1>1, <1>4, <1>8 DEF FieldNames
  <2>7. \A i : CopyAfter(i)' = IF i = id THEN taken ELSE id_to_action_info[i].cmd
      BY <1>4, <1>8, <2>1 DEF FieldNames
  <2> HIDE DEF id, taken
  <2> QED
      BY <1>1, <2>2, <2>5, <2>6, <2>7 DEF AgreeAfter
<1> QED
    BY <1>2, <1>5, <1>6, <1>7, <1>8 DEF Matches, FieldNames

LEMMA ServeFollows ==
    ASSUME GuiInv, CopiesFollow, Serve
    PROVE  CopiesFollow'
<1>1. /\ call.status = "waiting" /\ call'.status # "waiting" /\ requests' = <<>>
      /\ UNCHANGED <<id_to_action_info, dialog>>
    BY ServedOne
<1>2. dialog'.kind = "edit" => dialog'.attached
    BY <1>1 DEF CopiesFollow
<1>3. exported'
  <2>1. CASE Refuses(call.of)
      BY <2>1 DEF Refuses, CopiesFollow, vars
  <2>2. CASE Does(call.of)
      BY <2>2, ServedIds DEF IdsKept, OneMore, CopiesFollow
  <2> QED
      BY <2>1, <2>2, ServedOne
<1>4. AgreeAfter'
  <2>1. CASE Refuses(call.of) /\ call'.status = "error"
    <3>1. cmds' = cmds
        BY <2>1 DEF Refuses, vars
    <3> QED
        BY <1>1, <2>1, <3>1, StillAgree DEF CopiesFollow
  <2>2. CASE Does(call.of) /\ call'.status = "ok" /\ call'.id = command_id_counter'
      BY <1>1, <2>2, ServedOne, DoneAgrees
  <2> QED
      BY <2>1, <2>2, ServedOne
<1> QED
    BY <1>1, <1>2, <1>3, <1>4 DEF CopiesFollow

LEMMA DaemonFollows ==
    ASSUME GuiInv, CopiesFollow, Daemon
    PROVE  CopiesFollow'
<1>1. exported /\ up
    BY DEF GuiInv, DaemonInv, Inv, Phases, CopiesFollow
<1>2. UNCHANGED <<exported, cmds>>
    BY <1>1 DEF Daemon, Start, BusAcquired, Save
<1>3. UNCHANGED <<requests, id_to_action_info, dialog, call>>
    BY DEF Daemon, windowVars
<1>4. AgreeAfter'
    BY <1>2, <1>3 DEF CopiesFollow, AgreeAfter, IdsAfter, CopyAfter, Answered
<1> QED
    BY <1>2, <1>3, <1>4 DEF CopiesFollow

LEMMA NextFollows == GuiInv /\ AgreeInv /\ [GuiNext]_allVars => AgreeInv'
<1> SUFFICES ASSUME GuiInv, AgreeInv, [GuiNext]_allVars, AlwaysAnswered'
             PROVE  CopiesFollow'
    BY DEF AgreeInv
<1>1. CASE User
    BY <1>1, UserFollows
<1>2. ASSUME gui' = gui, happened' = happened
      PROVE  CopiesFollow
    BY <1>2 DEF AgreeInv, AlwaysAnswered, Only
<1>3. CASE Gui
  <2>1. gui' = gui /\ happened' = happened
      BY <1>3 DEF Gui, ToggleReturns, Deleted, NotDeleted, Added, NotAdded, SendField,
             FieldTaken, FieldRefused, EditDone, Returns, Calls, windowVars
  <2> QED
      BY <1>2, <1>3, <2>1, GuiFollows
<1>4. CASE Serve \/ Daemon
  <2>1. gui' = gui /\ happened' = happened
      BY <1>4 DEF Serve, Daemon, windowVars
  <2> QED
      BY <1>2, <1>4, <2>1, ServeFollows, DaemonFollows
<1>5. ~ GiveUp /\ ~ DaemonKilled /\ ~ Rival
    BY DEF GiveUp, DaemonKilled, Rival, Mishap, AlwaysAnswered, Only
<1>6. CASE UNCHANGED allVars
  <2>1. /\ UNCHANGED <<exported, cmds, requests, id_to_action_info, dialog, call>>
        /\ UNCHANGED <<gui, happened>>
      BY <1>6 DEF allVars, vars, windowVars
  <2>2. CopiesFollow
      BY <1>2, <2>1
  <2>3. AgreeAfter'
      BY <2>1, <2>2 DEF CopiesFollow, AgreeAfter, IdsAfter, CopyAfter, Answered
  <2> QED
      BY <2>1, <2>2, <2>3 DEF CopiesFollow
<1> QED
    BY <1>1, <1>3, <1>4, <1>5, <1>6 DEF GuiNext

-----------------------------------------------------------------------------
\* As long as every call is answered by the same daemon and the GUI is its only
\* client, the copies are the actions of the daemon: also after an edit refused
\* half-way and whatever number of seconds was entered.
THEOREM CopiesAgree == GuiSpec => []CopyAgrees
<1>1. GuiInit => AgreeInv
  <2>1. GuiInit => gui = "absent"
      BY DEF GuiInit
  <2> QED
      BY <2>1 DEF AgreeInv, AlwaysAnswered, Only
<1>2. AgreeInv => CopyAgrees
  <2> SUFFICES ASSUME AgreeInv, Only({"activated"}), call.status = "none"
               PROVE  /\ DOMAIN id_to_action_info = DOMAIN cmds
                      /\ \A id \in DOMAIN cmds : SameAction(id_to_action_info[id].cmd, cmds[id])
      BY DEF CopyAgrees
  <2>1. AgreeAfter
      BY DEF AgreeInv, AlwaysAnswered, CopiesFollow
  <2> QED
      BY <2>1, NotAnswered DEF AgreeAfter
<1>3. GuiSpec => []AgreeInv
    BY <1>1, NextFollows, GuiInvariance, PTL DEF GuiSpec
<1> QED
    BY <1>2, <1>3, PTL

=============================================================================
