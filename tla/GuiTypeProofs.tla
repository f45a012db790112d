---------------------------- MODULE GuiTypeProofs ----------------------------
(***************************************************************************)
(* The type invariant of GuiController, on top of the invariant of         *)
(* ConfigStore: the daemon with the GUI is still that daemon, what is sent *)
(* is what a client can send, and rows and copies are told apart by ids.   *)
(* Then what is proved of ConfigStore holds with the GUI, too.             *)
(***************************************************************************)
EXTENDS GuiProofs, ConfigStoreProofs, WellFoundedInduction

-----------------------------------------------------------------------------
(* Requests, and the daemon that serves them.                              *)

Carries(request) ==
    /\ request.args[1] \in CopyRecords
    /\ request.method = "AddAction" => request.args[1].exec \in CommandStrings

IsRequest(request) ==
    \/ /\ request.method = "Set"
       /\ request.args[1] \in Toggles /\ request.args[2] \in BOOLEAN
    \/ request.method = "RemoveAction"
    \/ request.method \in {"AddAction", "Name", "Trigger", "Exec", "ResumeExec"} /\ Carries(request)

\* What is read back from a trigger's text.
Reread(text) == TriggerText(Parsed(text, 0))

\* A trigger that parses is the one of the command.
TriggersTell ==
    exported => \A id \in DOMAIN cmds :
        Accepted(objects[id].Trigger) => Reread(objects[id].Trigger) = TriggerText(cmds[id])

DaemonInv == Inv /\ TriggersTell /\ \A i \in 1 .. Len(requests) : IsRequest(requests[i])

-----------------------------------------------------------------------------
(* The trigger of a copy.                                                  *)

LEMMA ToIntBound ==
    ASSUME NEW n \in Int
    PROVE  ToInt(n) <= MaxInt
<1> DEFINE w == 2 * (MaxInt + 1)
<1>1. w \in Nat /\ w > 0
    BY WidthAssumption
<1> HIDE DEF w
<1>2. (n + MaxInt + 1) % w \in 0 .. w - 1
    BY <1>1, WidthAssumption
<1> QED
    BY <1>2, WidthAssumption DEF ToInt, w

LEMMA DivisionBound ==
    ASSUME NEW a \in Nat, NEW d \in Nat \ {0}
    PROVE  a \div d \in Nat /\ (a \div d) * d <= a /\ (a \div d) * d \in Nat
  OBVIOUS

LEMMA QuotPositive ==
    ASSUME NEW n \in Int, Quot(n, MsPerSecond) > 0
    PROVE  n >= 0
<1> SUFFICES ASSUME n < 0 PROVE FALSE
    OBVIOUS
<1>1. -n \in Nat
    OBVIOUS
<1>2. (-n) \div MsPerSecond \in Nat
    BY <1>1, DivisionBound, WidthAssumption
<1> QED
    BY <1>2 DEF Quot

LEMMA RereadPrinted ==
    ASSUME NEW cmd, cmd.trigger \in {"TIMEOUT", "SLEEP", "LOCK"}, cmd.timeout_ms \in Int
    PROVE  /\ TriggerText(cmd) \in Texts
           /\ Accepted(TriggerText(cmd)) => Reread(TriggerText(cmd)) = TriggerText(cmd)
<1>1. CASE cmd.trigger = "TIMEOUT"
  <2> DEFINE n == ToInt(cmd.timeout_ms)
             s == Quot(n, MsPerSecond)
  <2>1. n \in Int /\ n <= MaxInt /\ s \in Int
      BY IntArithmetic, ToIntBound
  <2>2. TriggerText(cmd) = Text("timeout", s)
      BY <1>1 DEF TriggerText
  <2>3. ASSUME s \in 1 .. MaxInt
        PROVE  Reread(Text("timeout", s)) = Text("timeout", s)
    <3>1. n >= 0 /\ s = n \div MsPerSecond
        BY <2>1, <2>3, QuotPositive, WidthAssumption DEF Quot
    <3> HIDE DEF n, s
    <3>2. s \in Nat /\ s * MsPerSecond <= n /\ s * MsPerSecond \in Nat
        BY <2>1, <2>3, <3>1, DivisionBound, WidthAssumption
    <3>3. ToInt(s * MsPerSecond) = s * MsPerSecond
        BY <2>1, <3>2, ToIntOfInt, WidthAssumption
    <3>4. Quot(s * MsPerSecond, MsPerSecond) = s
        BY <3>2, QuotOfProduct, WidthAssumption DEF Quot
    <3>5. Parsed(Text("timeout", s), 0) = [trigger |-> "TIMEOUT", timeout_ms |-> s * MsPerSecond]
        BY DEF Parsed, Text
    <3> QED
        BY <3>3, <3>4, <3>5 DEF Reread, TriggerText
  <2> HIDE DEF s
  <2> QED
      BY <2>1, <2>2, <2>3 DEF Accepted, Text, Texts
<1>2. CASE cmd.trigger = "SLEEP"
    BY <1>2 DEF TriggerText, Text, Texts, Reread, Parsed
<1>3. CASE cmd.trigger = "LOCK"
    BY <1>3 DEF TriggerText, Text, Texts, Reread, Parsed
<1> QED
    BY <1>1, <1>2, <1>3

\* A trigger that is parsed prints as its text does when it is read back.
LEMMA ParsedPrints ==
    ASSUME NEW text \in Texts, NEW old
    PROVE  TriggerText(Parsed(text, old)) = Reread(text)
  BY DEF Texts, Parsed, TriggerText, Reread

LEMMA TriggerOnly ==
    ASSUME NEW c, NEW d, c.trigger = d.trigger, c.timeout_ms = d.timeout_ms
    PROVE  TriggerText(c) = TriggerText(d)
  BY DEF TriggerText

-----------------------------------------------------------------------------
(* The daemon's steps.                                                     *)

\* While the bus is there, an object for each command.
LEMMA ObjectsOfCommands ==
    ASSUME Inv, exported
    PROVE  /\ DOMAIN objects = DOMAIN cmds
           /\ \A id \in DOMAIN cmds : /\ cmds[id] \in CommandRecords
                                      /\ objects[id] \in Objects
                                      /\ Shows(objects[id], cmds[id])
  BY DEF Inv, TypeOK, ViewTells

LEMMA CommandTrigger ==
    ASSUME NEW cmd \in CommandRecords
    PROVE  /\ cmd.trigger \in {"TIMEOUT", "SLEEP", "LOCK"} /\ cmd.timeout_ms \in Int
           /\ TriggerText(cmd) \in Texts
           /\ Accepted(TriggerText(cmd)) => Reread(TriggerText(cmd)) = TriggerText(cmd)
<1>1. cmd.trigger \in {"TIMEOUT", "SLEEP", "LOCK"} /\ cmd.timeout_ms \in Int
    BY DEF CommandRecords
<1> QED
    BY <1>1, RereadPrinted

LEMMA AddActionTells ==
    ASSUME Inv, TriggersTell, NEW name \in Names, NEW text \in Texts,
           NEW exec \in CommandStrings, NEW resume_exec \in CommandStrings,
           AddAction(name, text, exec, resume_exec)
    PROVE  TriggersTell'
<1> DEFINE cmd == NewCommand(name, text, exec, resume_exec)
           id == command_id_counter + 1
<1>1. exported /\ Accepted(text)
    BY DEF AddAction, Request
<1>2. cmd \in CommandRecords
    BY <1>1, NewCommandType
<1> HIDE DEF cmd
<1>3. /\ cmds' = [i \in DOMAIN cmds \cup {id} |-> IF i = id THEN cmd ELSE cmds[i]]
      /\ objects' = [i \in DOMAIN objects \cup {id} |->
                        IF i = id THEN Exported(cmd) ELSE objects[i]]
    BY DEF AddAction, NextId, cmd
<1>4. Exported(cmd).Trigger = TriggerText(cmd)
    BY DEF Exported
<1> QED
    BY <1>1, <1>2, <1>3, <1>4, CommandTrigger, ObjectsOfCommands DEF TriggersTell

LEMMA RemoveActionTells ==
    ASSUME Inv, TriggersTell, NEW id, RemoveAction(id)
    PROVE  TriggersTell'
  BY ObjectsOfCommands DEF RemoveAction, Request, TriggersTell

\* What a setter makes of the trigger of the object and of the command.
LEMMA SetPropertyTells ==
    ASSUME Inv, TriggersTell, NEW id \in DOMAIN cmds, NEW cmd, NEW object,
           SetProperty(id, cmd, object),
           Accepted(object.Trigger) => Reread(object.Trigger) = TriggerText(cmd)
    PROVE  TriggersTell'
  BY ObjectsOfCommands DEF SetProperty, Request, TriggersTell

LEMMA SetterTells ==
    ASSUME Inv, TriggersTell, NEW id \in DOMAIN cmds,
           \/ \E name \in Names : SetName(id, name)
           \/ \E text \in Texts : SetTrigger(id, text)
           \/ \E exec \in CommandStrings : SetExec(id, exec) \/ SetResumeExec(id, exec)
    PROVE  TriggersTell'
<1> DEFINE old == cmds[id]
           object == objects[id]
<1>1. exported
    BY DEF SetName, SetTrigger, SetExec, SetResumeExec, SetProperty, Request
<1>2. /\ old \in CommandRecords /\ object \in Objects
      /\ Accepted(object.Trigger) => Reread(object.Trigger) = TriggerText(old)
    BY <1>1, ObjectsOfCommands DEF TriggersTell
<1> HIDE DEF old, object
<1>3. ASSUME NEW name, SetName(id, name) PROVE TriggersTell'
  <2> DEFINE c == [old EXCEPT !.name = name]
             o == [object EXCEPT !.Name = name]
  <2>1. c.trigger = old.trigger /\ c.timeout_ms = old.timeout_ms /\ o.Trigger = object.Trigger
      BY <1>2 DEF CommandRecords, Objects
  <2>2. SetProperty(id, c, o)
      BY <1>3 DEF SetName, old, object
  <2> HIDE DEF c, o
  <2>3. TriggerText(c) = TriggerText(old)
      BY <2>1, TriggerOnly
  <2> QED
      BY <1>2, <2>1, <2>2, <2>3, SetPropertyTells
<1>4. ASSUME NEW exec, SetExec(id, exec) PROVE TriggersTell'
  <2> DEFINE c == [old EXCEPT !.exec = exec]
             o == [object EXCEPT !.Exec = exec]
  <2>1. c.trigger = old.trigger /\ c.timeout_ms = old.timeout_ms /\ o.Trigger = object.Trigger
      BY <1>2 DEF CommandRecords, Objects
  <2>2. SetProperty(id, c, o)
      BY <1>4 DEF SetExec, old, object
  <2> HIDE DEF c, o
  <2>3. TriggerText(c) = TriggerText(old)
      BY <2>1, TriggerOnly
  <2> QED
      BY <1>2, <2>1, <2>2, <2>3, SetPropertyTells
<1>5. ASSUME NEW exec, SetResumeExec(id, exec) PROVE TriggersTell'
  <2> DEFINE c == [old EXCEPT !.resume_exec = exec]
             o == [object EXCEPT !.ResumeExec = exec]
  <2>1. c.trigger = old.trigger /\ c.timeout_ms = old.timeout_ms /\ o.Trigger = object.Trigger
      BY <1>2 DEF CommandRecords, Objects
  <2>2. SetProperty(id, c, o)
      BY <1>5 DEF SetResumeExec, old, object
  <2> HIDE DEF c, o
  <2>3. TriggerText(c) = TriggerText(old)
      BY <2>1, TriggerOnly
  <2> QED
      BY <1>2, <2>1, <2>2, <2>3, SetPropertyTells
<1>6. ASSUME NEW text \in Texts, SetTrigger(id, text) PROVE TriggersTell'
  <2> DEFINE parsed == Parsed(text, old.timeout_ms)
             c == [old EXCEPT !.trigger = parsed.trigger, !.timeout_ms = parsed.timeout_ms]
             o == [object EXCEPT !.Trigger = text]
  <2>1. c.trigger = parsed.trigger /\ c.timeout_ms = parsed.timeout_ms /\ o.Trigger = text
      BY <1>2 DEF CommandRecords, Objects
  <2>2. SetProperty(id, c, o)
      BY <1>6 DEF SetTrigger, old, object
  <2>3. TriggerText(parsed) = Reread(text)
      BY ParsedPrints
  <2> HIDE DEF c, o, parsed
  <2>4. TriggerText(c) = TriggerText(parsed)
      BY <2>1, TriggerOnly
  <2> QED
      BY <2>1, <2>2, <2>3, <2>4, SetPropertyTells
<1> QED
    BY <1>3, <1>4, <1>5, <1>6

\* Serving a request, and what other clients do.
LEMMA CopyRecordFields ==
    ASSUME NEW cmd \in CopyRecords
    PROVE  /\ cmd.name \in Names /\ cmd.exec \in CommandStrings \cup Unparsable
           /\ cmd.resume_exec \in CommandStrings
           /\ cmd.trigger \in {"TIMEOUT", "SLEEP", "LOCK"} /\ cmd.timeout_ms \in Int
           /\ TriggerText(cmd) \in Texts
           /\ Accepted(TriggerText(cmd)) => Reread(TriggerText(cmd)) = TriggerText(cmd)
<1>1. /\ cmd.name \in Names /\ cmd.exec \in CommandStrings \cup Unparsable
      /\ cmd.resume_exec \in CommandStrings
      /\ cmd.trigger \in {"TIMEOUT", "SLEEP", "LOCK"} /\ cmd.timeout_ms \in Int
    BY DEF CopyRecords
<1> QED
    BY <1>1, RereadPrinted

LEMMA SetSettingTells ==
    ASSUME TriggersTell, NEW key, NEW value, SetSetting(key, value)
    PROVE  TriggersTell'
  BY DEF SetSetting, TriggersTell

LEMMA DoesDaemon ==
    ASSUME Inv, TriggersTell, NEW request, IsRequest(request), Does(request)
    PROVE  Inv' /\ TriggersTell'
<1> DEFINE method == request.method
           id == request.id
           cmd == request.args[1]
<1>1. CASE method = "Set"
  <2>1. cmd \in Toggles /\ request.args[2] \in BOOLEAN
      BY <1>1 DEF IsRequest
  <2>2. CASE cmd = "Paused" /\ SetPaused(request.args[2])
    <3>1. UNCHANGED vars
        BY <2>2 DEF SetPaused
    <3> QED
        BY <3>1, NextInv DEF TriggersTell, vars
  <2>3. CASE cmd # "Paused" /\ SetSetting(cmd, request.args[2])
    <3>1. cmd \in Settings
        BY <2>1, <2>3, GuiAssumption
    <3> QED
        BY <2>1, <2>3, <3>1, SetSettingInv, SetSettingTells
  <2> QED
      BY <1>1, <2>2, <2>3 DEF Does
<1>2. CASE method = "RemoveAction"
  <2>1. RemoveAction(id)
      BY <1>2 DEF Does
  <2> QED
      BY <2>1, RemoveActionInv, RemoveActionTells
<1>3. CASE method \notin {"Set", "RemoveAction"}
  <2>1. Carries(request)
      BY <1>3 DEF IsRequest
  <2>2. /\ cmd.name \in Names /\ cmd.exec \in CommandStrings \cup Unparsable
        /\ cmd.resume_exec \in CommandStrings /\ TriggerText(cmd) \in Texts
        /\ method = "AddAction" => cmd.exec \in CommandStrings
      BY <2>1, CopyRecordFields DEF Carries
  <2>3. CASE AddAction(cmd.name, TriggerText(cmd), cmd.exec, cmd.resume_exec) /\ method = "AddAction"
      BY <2>2, <2>3, AddActionInv, AddActionTells
  <2>4. CASE /\ id \in DOMAIN cmds
             /\ \/ SetName(id, cmd.name)
                \/ SetTrigger(id, TriggerText(cmd))
                \/ cmd.exec \in CommandStrings /\ SetExec(id, cmd.exec)
                \/ SetResumeExec(id, cmd.resume_exec)
      BY <2>2, <2>4, SetterInv, SetterTells
  <2> HIDE DEF method, id, cmd
  <2>5. \/ AddAction(cmd.name, TriggerText(cmd), cmd.exec, cmd.resume_exec) /\ method = "AddAction"
        \/ /\ id \in DOMAIN cmds
           /\ \/ SetName(id, cmd.name)
              \/ SetTrigger(id, TriggerText(cmd))
              \/ cmd.exec \in CommandStrings /\ SetExec(id, cmd.exec)
              \/ SetResumeExec(id, cmd.resume_exec)
      BY <1>3, <2>2 DEF Does, method, id, cmd
  <2> QED
      BY <2>3, <2>4, <2>5
<1> QED
    BY <1>1, <1>2, <1>3

LEMMA ClientTells ==
    ASSUME Inv, TriggersTell, Client
    PROVE  TriggersTell'
<1>1. CASE \E name \in Names, text \in ClientTexts, exec, resume_exec \in CommandStrings :
              AddAction(name, text, exec, resume_exec)
    BY <1>1, ClientTextsType, AddActionTells
<1>2. CASE \E id \in DOMAIN cmds : RemoveAction(id)
    BY <1>2, RemoveActionTells
<1>3. CASE \E key \in Settings, value \in BOOLEAN : SetSetting(key, value)
    BY <1>3, SetSettingTells
<1>4. CASE \E id \in DOMAIN cmds :
              \/ \E name \in Names : SetName(id, name)
              \/ \E text \in ClientTexts : SetTrigger(id, text)
              \/ \E exec \in CommandStrings : SetExec(id, exec) \/ SetResumeExec(id, exec)
    BY <1>4, ClientTextsType, SetterTells
<1> QED
    BY <1>1, <1>2, <1>3, <1>4 DEF Client

LEMMA DaemonTells ==
    ASSUME Inv, TriggersTell, Start \/ BusAcquired \/ Save \/ Killed \/ UNCHANGED vars
    PROVE  TriggersTell'
<1>1. CASE Start
    BY <1>1 DEF Start, Inv, Phases, TriggersTell
<1>2. CASE BusAcquired
  <2>1. cmds' = cmds /\ objects' = [id \in DOMAIN cmds |-> Exported(cmds[id])]
      BY <1>2 DEF BusAcquired
  <2>2. \A id \in DOMAIN cmds : cmds[id] \in CommandRecords
      BY DEF Inv, TypeOK
  <2>3. \A id \in DOMAIN cmds : objects'[id].Trigger = TriggerText(cmds[id])
      BY <2>1 DEF Exported
  <2> QED
      BY <2>1, <2>2, <2>3, CommandTrigger DEF TriggersTell
<1>3. CASE Save \/ UNCHANGED vars
    BY <1>3 DEF Save, vars, TriggersTell
<1>4. CASE Killed
    BY <1>4 DEF Killed, GoDown, TriggersTell
<1> QED
    BY <1>1, <1>2, <1>3, <1>4

-----------------------------------------------------------------------------
(* The places of ids in their order.                                       *)

LEMMA LeastNatural ==
    ASSUME NEW T, T \subseteq Nat, T # {}
    PROVE  \E x \in T : \A y \in T : x <= y
<1> DEFINE R == OpToRel(<, Nat)
<1>1. \E x \in T : \A y \in T : ~ (<<y, x>> \in R)
    BY NatLessThanWellFounded, WFMin
<1>2. PICK x \in T : \A y \in T : ~ (<<y, x>> \in R)
    BY <1>1
<1>3. ASSUME NEW y \in T PROVE x <= y
  <2>1. x \in Nat /\ y \in Nat
      OBVIOUS
  <2>2. ~ (y < x)
      BY <1>2, <2>1 DEF OpToRel
  <2> QED
      BY <2>1, <2>2
<1> QED
    BY <1>3

LEMMA MaxOf ==
    ASSUME NEW S, S \subseteq Nat, S # {}, NEW n \in Nat, \A s \in S : s <= n
    PROVE  Max(S) \in S /\ \A s \in S : s <= Max(S)
<1> DEFINE T == {n - s : s \in S}
<1>1. \A s \in S : s \in Nat /\ n - s \in Nat
    OBVIOUS
<1>2. T \subseteq Nat
    BY <1>1
<1>3. T # {}
    OBVIOUS
<1>4. PICK x \in T : \A y \in T : x <= y
  <2> HIDE DEF T
  <2> QED
      BY <1>2, <1>3, LeastNatural
<1>5. PICK s \in S : x = n - s
    OBVIOUS
<1>6. ASSUME NEW t \in S PROVE s >= t
  <2>1. n - t \in T
      OBVIOUS
  <2>2. n - s <= n - t
      BY <1>4, <1>5, <2>1
  <2> QED
      BY <1>1, <2>2
<1>7. Max(S) \in S /\ \A t \in S : Max(S) >= t
    BY <1>6 DEF Max
<1> QED
    BY <1>1, <1>7

\* The places of ids in their order are different numbers from 1 on.
LEMMA Ranked ==
    ASSUME NEW ids, NEW n \in Nat, ids \subseteq 0 .. n
    PROVE  /\ Cardinality(ids) \in Nat
           /\ \A id \in ids : Cardinality({i \in ids : i <= id}) \in 1 .. Cardinality(ids)
           /\ \A id, jd \in ids : 
                 Cardinality({i \in ids : i <= id}) = Cardinality({i \in ids : i <= jd})
                 => id = jd
<1> DEFINE Below(id) == {i \in ids : i <= id}
<1>1. IsFiniteSet(ids)
  <2>1. IsFiniteSet(0 .. n)
      BY FS_Interval
  <2> QED
      BY <2>1, FS_Subset
<1>2. Cardinality(ids) \in Nat
    BY <1>1, FS_CardinalityType
<1>3. ASSUME NEW id \in ids
      PROVE  /\ IsFiniteSet(Below(id))
             /\ Cardinality(Below(id)) \in 1 .. Cardinality(ids)
  <2>1. Below(id) \in SUBSET ids /\ id \in Below(id)
      OBVIOUS
  <2> HIDE DEF Below
  <2>2. IsFiniteSet(Below(id)) /\ Cardinality(Below(id)) <= Cardinality(ids)
      BY <1>1, <2>1, FS_Subset
  <2>3. Cardinality(Below(id)) \in Nat /\ Cardinality(Below(id)) # 0
      BY <2>1, <2>2, FS_CardinalityType, FS_EmptySet
  <2> QED
      BY <1>2, <2>2, <2>3
<1>4. ASSUME NEW id \in ids, NEW jd \in ids, id < jd
      PROVE  Cardinality(Below(id)) # Cardinality(Below(jd))
  <2>1. \A i \in ids : i \in Int
      OBVIOUS
  <2>2. \A i \in ids : i <= id => i <= jd
      BY <1>4, <2>1
  <2>3. Below(id) \in SUBSET Below(jd)
      BY <2>2
  <2>4. jd \in Below(jd) /\ jd \notin Below(id)
      BY <1>4, <2>1
  <2> HIDE DEF Below
  <2> QED
      BY <1>3, <2>3, <2>4, FS_Subset
<1>5. \A id, jd \in ids : id = jd \/ id < jd \/ jd < id
    OBVIOUS
<1> QED
    BY <1>2, <1>3, <1>4, <1>5

-----------------------------------------------------------------------------
(* The type invariant: calls, the copies and the rows.                     *)

\* The call being made is the one of the dialog, or of no dialog.
Matches ==
    \/ call.of.method = "Set" /\ dialog = NoDialog
    \/ /\ call.of.method = "RemoveAction" /\ dialog = NoDialog
       /\ call.of.id \in DOMAIN id_to_action_info
    \/ /\ call.of.method = "AddAction" /\ dialog.kind = "add" /\ dialog.ok
       /\ call.of.args = <<dialog.entry>>
    \/ /\ call.of.method \in {"Name", "Trigger", "Exec", "ResumeExec"}
       /\ dialog.kind = "edit" /\ dialog.ok
       /\ call.of.id = dialog.id /\ call.of.args = <<dialog.entry>>

CallInv ==
    /\ call = [status |-> call.status, id |-> call.id, of |-> call.of] /\ call.id \in Nat
    /\ call.status \in {"none", "waiting", "ok", "error"}
    /\ call.status = "waiting" => requests # <<>> /\ requests[Len(requests)] = call.of
    /\ call.status = "ok" => requests = <<>>
    /\ Len(requests) <= MaxLate + 1
    /\ call.status # "waiting" => Len(requests) <= MaxLate
    /\ call.status # "none" => Matches

CopyTypes ==
    /\ gui \in {"absent", "open", "aborted", "failed"}
    /\ gui = "absent" => id_to_action_info = <<>> /\ rows = <<>> /\ dialog = NoDialog
    /\ \A id \in DOMAIN id_to_action_info : id_to_action_info[id].cmd \in CopyRecords
    /\ dialog.cmd \in CopyRecords /\ dialog.entry \in CopyRecords
    /\ dialog.shown \in CopyRecords
    /\ dialog.kind = "edit" =>
          /\ dialog.id \in DOMAIN id_to_action_info
          /\ dialog.attached => dialog.cmd = id_to_action_info[dialog.id].cmd

RowTypes ==
    /\ \E n \in Nat : DOMAIN rows \subseteq 1 .. n
    /\ \E n \in Nat : DOMAIN id_to_action_info \subseteq 0 .. n
    /\ \A id \in DOMAIN id_to_action_info : id_to_action_info[id].row \in DOMAIN rows
    /\ \A id, jd \in DOMAIN id_to_action_info :
          id_to_action_info[id].row = id_to_action_info[jd].row => id = jd
    /\ \A r \in DOMAIN rows : /\ rows[r] = [id |-> rows[r].id, label |-> rows[r].label]
                              /\ rows[r].label \in Names

GuiInv == SwitchInv /\ CopyInv /\ DaemonInv /\ CallInv /\ CopyTypes /\ RowTypes

-----------------------------------------------------------------------------
(* The daemon goes on as in ConfigStore.                                   *)

LEMMA DaemonUnchanged ==
    ASSUME DaemonInv, UNCHANGED <<vars, requests>>
    PROVE  DaemonInv'
<1>1. Inv' /\ TriggersTell'
    BY NextInv, DaemonTells DEF DaemonInv
<1> QED
    BY <1>1 DEF DaemonInv

LEMMA DaemonCalled ==
    ASSUME SwitchInv, DaemonInv, NEW request, Calls(request), IsRequest(request)
    PROVE  DaemonInv'
<1>1. UNCHANGED vars /\ Inv' /\ TriggersTell'
    BY NextInv, DaemonTells DEF DaemonInv, Calls
<1>2. IsSequence(requests) /\ \A i \in 1 .. Len(requests) : IsRequest(requests[i])
    BY DEF SwitchInv, DaemonInv
<1>3. requests' = requests \/ requests' = Append(requests, request)
    BY DEF Calls
<1>4. \A i \in 1 .. Len(requests') : IsRequest(requests'[i])
  <2>1. CASE requests' = Append(requests, request)
    <3> DEFINE n == Len(requests)
    <3>1. /\ n \in Nat /\ Len(requests') = n + 1
          /\ \A i \in 1 .. n : requests'[i] = requests[i]
          /\ requests'[n + 1] = request
        BY <1>2, <2>1, SequenceOf, Appended
    <3> QED
        BY <1>2, <3>1
  <2> QED
      BY <1>2, <1>3, <2>1
<1> QED
    BY <1>1, <1>4 DEF DaemonInv

LEMMA DaemonServes ==
    ASSUME SwitchInv, DaemonInv, Serve
    PROVE  DaemonInv'
<1> DEFINE n == Len(requests)
<1>1. /\ IsSequence(requests) /\ requests # <<>> /\ requests' = Tail(requests)
      /\ \A i \in 1 .. n : IsRequest(requests[i])
    BY DEF Serve, SwitchInv, DaemonInv
<1>2. /\ n \in Nat /\ n > 0 /\ Len(requests') = n - 1
      /\ \A i \in 1 .. n - 1 : requests'[i] = requests[i + 1]
      /\ Head(requests) = requests[1]
    BY <1>1, SequenceOf, TailOf
<1>3. Inv' /\ TriggersTell'
  <2>1. CASE Does(Head(requests))
    <3>1. IsRequest(Head(requests))
        BY <1>1, <1>2
    <3> QED
        BY <2>1, <3>1, DoesDaemon DEF DaemonInv
  <2>2. CASE Refuses(Head(requests))
      BY <2>2, NextInv, DaemonTells DEF DaemonInv, Refuses
  <2> QED
      BY <2>1, <2>2 DEF Serve
<1>4. \A i \in 1 .. Len(requests') : IsRequest(requests'[i])
    BY <1>1, <1>2
<1> QED
    BY <1>3, <1>4 DEF DaemonInv

LEMMA DaemonGoesOn ==
    ASSUME DaemonInv, Daemon \/ GiveUp \/ DaemonKilled \/ Rival
    PROVE  DaemonInv'
<1>1. CASE Daemon
  <2>1. Inv' /\ TriggersTell'
      BY <1>1, StartInv, BusAcquiredInv, SaveInv, DaemonTells DEF Daemon, DaemonInv
  <2> QED
      BY <1>1, <2>1 DEF Daemon, DaemonInv
<1>2. CASE GiveUp
    BY <1>2, DaemonUnchanged DEF GiveUp
<1>3. CASE DaemonKilled
  <2>1. Inv' /\ TriggersTell'
    <3>1. Killed
        BY <1>3 DEF DaemonKilled
    <3> QED
        BY <3>1, NextInv, DaemonTells DEF DaemonInv, Next
  <2>2. Len(requests') = 0
      BY <1>3, EmptySequence DEF DaemonKilled
  <2> QED
      BY <2>1, <2>2 DEF DaemonInv
<1>4. CASE Rival
  <2>1. Inv' /\ TriggersTell'
      BY <1>4, ClientInv, ClientTells DEF Rival, DaemonInv
  <2> QED
      BY <1>4, <2>1 DEF Rival, DaemonInv
<1> QED
    BY <1>1, <1>2, <1>3, <1>4

-----------------------------------------------------------------------------
(* Calls begin, are answered and end.                                      *)

LEMMA CallBegins ==
    ASSUME SwitchInv, CallInv, NEW request, Calls(request), call'.of = request => Matches'
    PROVE  CallInv'
<1> DEFINE n == Len(requests)
<1>1. /\ call.status = "none" /\ IsSequence(requests) /\ n <= MaxLate
      /\ call' = [status |-> IF exported THEN "waiting" ELSE "error", id |-> 0,
                  of |-> request]
      /\ requests' = IF exported THEN Append(requests, request) ELSE requests
    BY DEF Calls, CallInv, SwitchInv
<1>2. n \in Nat /\ MaxLate \in Nat
    BY <1>1, SequenceOf, GuiAssumption
<1>3. Matches'
    BY <1>1
<1>4. CASE exported
  <2>1. /\ Len(requests') = n + 1 /\ requests'[n + 1] = request
        /\ call'.status = "waiting" /\ call'.of = request /\ IsSequence(requests')
      BY <1>1, <1>2, <1>4, Appended
  <2>2. requests' # <<>>
      BY <1>2, <2>1, SequenceOf
  <2> QED
      BY <1>1, <1>2, <1>3, <2>1, <2>2 DEF CallInv
<1>5. CASE ~ exported
  <2>1. call'.status = "error" /\ requests' = requests
      BY <1>1, <1>5
  <2> QED
      BY <1>1, <1>2, <1>3, <2>1 DEF CallInv
<1> QED
    BY <1>4, <1>5

LEMMA CallEnds ==
    ASSUME CallInv, NEW method, NEW status \in {"ok", "error"}, Returns(method, status)
    PROVE  CallInv'
<1>1. /\ call.status = status /\ requests' = requests
      /\ call' = [status |-> "none", id |-> 0, of |-> NoCall.of]
    BY DEF Returns, NoCall
<1> QED
    BY <1>1 DEF CallInv

LEMMA NoCallMade ==
    ASSUME CallInv, call.status = "none", UNCHANGED <<requests, call>>
    PROVE  CallInv'
  BY DEF CallInv

LEMMA CallAnswered ==
    ASSUME SwitchInv, DaemonInv, CallInv, Serve
    PROVE  CallInv'
<1> DEFINE n == Len(requests)
<1>1. /\ IsSequence(requests) /\ requests # <<>> /\ requests' = Tail(requests)
      /\ UNCHANGED <<id_to_action_info, dialog>>
      /\ \E status \in {"ok", "error"}, id \in Nat : Answer(status, id)
  <2>1. command_id_counter' \in Nat
      BY DaemonServes DEF DaemonInv, Inv, TypeOK
  <2> QED
      BY <2>1 DEF Serve, SwitchInv, windowVars
<1>6. /\ n \in Nat /\ n > 0 /\ Len(requests') = n - 1 /\ IsSequence(requests')
      /\ \A i \in 1 .. n - 1 : requests'[i] = requests[i + 1]
    BY <1>1, SequenceOf, TailOf
<1>2. /\ n \in Nat /\ n > 0 /\ Len(requests') = n - 1 /\ IsSequence(requests')
      /\ \A i \in 1 .. n - 1 : requests'[i] = requests[i + 1]
      /\ MaxLate \in Nat /\ n <= MaxLate + 1 /\ call.status # "ok"
    BY <1>1, <1>6, GuiAssumption DEF CallInv
<1>3. PICK status \in {"ok", "error"}, id \in Nat : Answer(status, id)
    BY <1>1
<1>4. CASE call.status = "waiting" /\ n = 1
  <2>1. call' = [call EXCEPT !.status = status, !.id = id]
      BY <1>3, <1>4 DEF Answer
  <2>5. call' = [status |-> status, id |-> id, of |-> call.of]
      BY <2>1 DEF CallInv
  <2>2. Matches /\ requests' = <<>> /\ call'.of = call.of
      BY <1>2, <1>4, <2>5, SequenceOf DEF CallInv
  <2>3. Matches'
      BY <1>1, <2>2 DEF Matches
  <2> QED
      BY <1>2, <2>2, <2>3, <2>5 DEF CallInv
<1>5. CASE ~ (call.status = "waiting" /\ n = 1)
  <2>1. call' = call
      BY <1>3, <1>5 DEF Answer
  <2>2. call.status = "waiting" => requests' # <<>> /\ requests'[Len(requests')] = requests[n]
      BY <1>2, <1>5, SequenceOf
  <2>3. Matches => Matches'
      BY <1>1, <2>1 DEF Matches
  <2> QED
      BY <1>2, <2>1, <2>2, <2>3 DEF CallInv
<1> QED
    BY <1>4, <1>5

LEMMA CallGoesOn ==
    ASSUME SwitchInv, CallInv, Daemon \/ GiveUp \/ DaemonKilled \/ Rival
    PROVE  CallInv'
<1>1. UNCHANGED <<id_to_action_info, dialog>>
    BY DEF Daemon, GiveUp, DaemonKilled, Rival, windowVars
<1>2. CASE Daemon \/ Rival
    BY <1>1, <1>2 DEF Daemon, Rival, CallInv, Matches
<1>3. CASE GiveUp
    BY <1>1, <1>3 DEF GiveUp, CallInv, Matches
<1>4. CASE DaemonKilled
  <2>1. /\ requests' = <<>> /\ Len(requests') = 0 /\ MaxLate \in Nat
        /\ call' = IF call.status = "waiting" THEN [call EXCEPT !.status = "error"] ELSE call
      BY <1>4, EmptySequence, GuiAssumption DEF DaemonKilled
  <2>2. call' = [status |-> IF call.status = "waiting" THEN "error" ELSE call.status,
                 id |-> call.id, of |-> call.of]
      BY <2>1 DEF CallInv
  <2>3. call.status # "none" => Matches'
      BY <1>1, <2>2 DEF CallInv, Matches
  <2> QED
      BY <2>1, <2>2, <2>3 DEF CallInv
<1> QED
    BY <1>2, <1>3, <1>4

-----------------------------------------------------------------------------
(* The windows.                                                            *)

LEMMA NoCommandType ==
    NoCommand \in CopyRecords /\ NoDialog.cmd = NoCommand /\ NoDialog.entry = NoCommand
    /\ NoDialog.shown = NoCommand /\ NoDialog.kind = "none" /\ NoDialog.attached = FALSE
<1>1. (CHOOSE name \in Names : TRUE) \in Names
    BY GuiAssumption
<1>2. NoCommand \in CopyRecords
    BY <1>1 DEF NoCommand, NewCommand, Parsed, Text, CopyRecords, CommandStrings, None
<1> QED
    BY <1>2 DEF NoDialog

LEMMA LastRowIs ==
    ASSUME RowTypes
    PROVE  LastRow \in Nat /\ \A r \in DOMAIN rows : r \in Nat /\ r > 0 /\ r <= LastRow
<1> DEFINE S == DOMAIN rows \cup {0}
<1>1. PICK n \in Nat : DOMAIN rows \subseteq 1 .. n
    BY DEF RowTypes
<1>2. S \subseteq Nat /\ S # {} /\ \A s \in S : s <= n
    BY <1>1
<1> HIDE DEF S
<1>3. Max(S) \in S /\ \A s \in S : s <= Max(S)
    BY <1>2, MaxOf
<1> QED
    BY <1>1, <1>2, <1>3 DEF LastRow, S

LEMMA WindowsKept ==
    ASSUME CopyTypes, RowTypes, UNCHANGED <<id_to_action_info, rows, dialog>>,
           gui' = gui \/ gui' \in {"aborted", "failed"}
    PROVE  CopyTypes' /\ RowTypes'
  BY DEF CopyTypes, RowTypes

\* A dialog that opens, goes on or closes.
LEMMA DialogChanges ==
    ASSUME CopyTypes, RowTypes, UNCHANGED <<gui, id_to_action_info, rows>>,
           gui = "open",
           dialog'.cmd \in CopyRecords, dialog'.entry \in CopyRecords,
           dialog'.shown \in CopyRecords,
           dialog'.kind = "edit" =>
              /\ dialog'.id \in DOMAIN id_to_action_info
              /\ dialog'.attached => dialog'.cmd = id_to_action_info[dialog'.id].cmd
    PROVE  CopyTypes' /\ RowTypes'
  BY DEF CopyTypes, RowTypes

LEMMA LoadedType ==
    ASSUME DaemonInv, CopyTypes, RowTypes, Loadable
    PROVE  /\ \A id \in DOMAIN Loaded : Loaded[id] \in CopyRecords
           /\ \E n \in Nat : DOMAIN Loaded \subseteq 0 .. n
           /\ DOMAIN Loaded = DOMAIN objects \cup DOMAIN id_to_action_info
<1>1. DOMAIN Loaded = DOMAIN objects \cup DOMAIN id_to_action_info
    BY DEF Loaded
<1>2. ASSUME NEW id \in DOMAIN objects
      PROVE  Got(objects[id]) \in CopyRecords
  <2>1. objects[id] \in Objects /\ Accepted(objects[id].Trigger)
      BY DEF DaemonInv, Inv, TypeOK, Loadable
  <2>2. Got(objects[id]) \in CommandRecords
      BY <2>1, NewCommandType DEF Got, Objects
  <2> QED
      BY <2>2 DEF CommandRecords, CopyRecords
<1>3. \A id \in DOMAIN Loaded : Loaded[id] \in CopyRecords
    BY <1>1, <1>2 DEF Loaded, CopyTypes
<1>4. \E n \in Nat : DOMAIN Loaded \subseteq 0 .. n
  <2>1. PICK n \in Nat : DOMAIN id_to_action_info \subseteq 0 .. n
      BY DEF RowTypes
  <2>2. command_id_counter \in Nat /\ DOMAIN objects \subseteq 1 .. command_id_counter
      BY ObjectsOfCommands DEF DaemonInv, Inv, TypeOK, Loadable
  <2>3. DOMAIN Loaded \subseteq 0 .. n + command_id_counter
      BY <1>1, <2>1, <2>2
  <2> QED
      BY <2>2, <2>3
<1> QED
    BY <1>1, <1>3, <1>4

LEMMA NewRows ==
    ASSUME RowTypes, NEW ids, NEW n \in Nat, ids \subseteq 0 .. n
    PROVE  /\ DOMAIN RowsOf(ids) = ids
           /\ \A id \in ids : RowsOf(ids)[id] \in LastRow + 1 .. LastRow + Cardinality(ids)
           /\ \A id \in ids : RowsOf(ids)[id] \notin DOMAIN rows
           /\ \A id, jd \in ids : RowsOf(ids)[id] = RowsOf(ids)[jd] => id = jd
           /\ LastRow + Cardinality(ids) \in Nat
<1> DEFINE place(id) == Cardinality({i \in ids : i <= id})
<1>1. /\ Cardinality(ids) \in Nat
      /\ \A id \in ids : place(id) \in 1 .. Cardinality(ids)
      /\ \A id, jd \in ids : place(id) = place(jd) => id = jd
    BY Ranked
<1>2. /\ DOMAIN RowsOf(ids) = ids
      /\ \A id \in ids : RowsOf(ids)[id] = LastRow + place(id)
    BY DEF RowsOf
<1>3. LastRow \in Nat /\ \A r \in DOMAIN rows : r \in Nat /\ r <= LastRow
    BY LastRowIs
<1> HIDE DEF place
<1>4. \A id \in ids : /\ RowsOf(ids)[id] \in LastRow + 1 .. LastRow + Cardinality(ids)
                      /\ RowsOf(ids)[id] > LastRow
    BY <1>1, <1>2, <1>3
<1>5. \A id \in ids : RowsOf(ids)[id] \notin DOMAIN rows
    BY <1>3, <1>4
<1>6. \A id, jd \in ids : RowsOf(ids)[id] = RowsOf(ids)[jd] => id = jd
    BY <1>1, <1>2, <1>3
<1> QED
    BY <1>1, <1>2, <1>3, <1>4, <1>5, <1>6

\* What Activate makes of the copies and the rows.
LEMMA ActivateEffect ==
    ASSUME DaemonInv, CopyTypes, RowTypes, Activate
    PROVE  /\ DOMAIN id_to_action_info' = DOMAIN Loaded
           /\ \A id \in DOMAIN Loaded : id_to_action_info'[id].cmd = Loaded[id]
           /\ \A id \in DOMAIN Loaded : /\ id_to_action_info'[id].row \in DOMAIN rows'
                                        /\ id_to_action_info'[id].row \notin DOMAIN rows
           /\ \A id, jd \in DOMAIN Loaded :
                 id_to_action_info'[id].row = id_to_action_info'[jd].row => id = jd
           /\ \A r \in DOMAIN rows : r \in DOMAIN rows' /\ rows'[r] = rows[r]
           /\ \A r \in DOMAIN rows' \ DOMAIN rows : \E id \in DOMAIN Loaded :
                 /\ rows'[r] = [id |-> id, label |-> Loaded[id].name]
                 /\ id_to_action_info'[id].row = r
           /\ \E n \in Nat : DOMAIN rows' \subseteq 1 .. n
<1> DEFINE cmd == Loaded
           row == RowsOf(DOMAIN cmd)
<1>1. /\ id_to_action_info' = [id \in DOMAIN cmd |-> [cmd |-> cmd[id], row |-> row[id]]]
      /\ rows' = [r \in DOMAIN rows \cup Range(row) |->
                     IF r \in DOMAIN rows THEN rows[r]
                     ELSE LET id == CHOOSE i \in DOMAIN cmd : row[i] = r
                          IN  [id |-> id, label |-> cmd[id].name]]
    BY DEF Activate
<1>2. PICK n \in Nat : DOMAIN cmd \subseteq 0 .. n
    BY LoadedType DEF Activate
<1> HIDE DEF cmd
<1>3. /\ DOMAIN row = DOMAIN cmd
      /\ \A id \in DOMAIN cmd : row[id] \in LastRow + 1 .. LastRow + Cardinality(DOMAIN cmd)
      /\ \A id \in DOMAIN cmd : row[id] \notin DOMAIN rows
      /\ \A id, jd \in DOMAIN cmd : row[id] = row[jd] => id = jd
      /\ LastRow + Cardinality(DOMAIN cmd) \in Nat
    BY <1>2, NewRows
<1>4. LastRow \in Nat /\ \A r \in DOMAIN rows : r \in Nat /\ r > 0 /\ r <= LastRow
    BY LastRowIs
<1> HIDE DEF row
<1>5. Range(row) = {row[id] : id \in DOMAIN cmd}
    BY <1>3 DEF Range
<1>6. /\ DOMAIN id_to_action_info' = DOMAIN cmd
      /\ \A id \in DOMAIN cmd : /\ id_to_action_info'[id].cmd = cmd[id]
                                /\ id_to_action_info'[id].row = row[id]
    BY <1>1
<1>7. DOMAIN rows' = DOMAIN rows \cup Range(row)
    BY <1>1
<1>8. ASSUME NEW r \in DOMAIN rows' \ DOMAIN rows
      PROVE  \E id \in DOMAIN cmd : /\ rows'[r] = [id |-> id, label |-> cmd[id].name]
                                    /\ row[id] = r
  <2> DEFINE id == CHOOSE i \in DOMAIN cmd : row[i] = r
  <2>1. id \in DOMAIN cmd /\ row[id] = r
      BY <1>5, <1>7
  <2>2. rows'[r] = [id |-> id, label |-> cmd[id].name]
      BY <1>1, <1>7
  <2> QED
      BY <2>1, <2>2
<1>9. \A r \in DOMAIN rows : r \in DOMAIN rows' /\ rows'[r] = rows[r]
    BY <1>1
<1>10. DOMAIN rows' \subseteq 1 .. LastRow + Cardinality(DOMAIN cmd)
  <2> DEFINE last == LastRow + Cardinality(DOMAIN cmd)
  <2>1. last \in Nat /\ \A id \in DOMAIN cmd : row[id] \in 1 .. last
      BY <1>3, <1>4
  <2>2. LastRow <= last
      BY <1>2, <1>4, Ranked
  <2> HIDE DEF last
  <2>3. \A r \in DOMAIN rows : r \in 1 .. last
      BY <1>4, <2>1, <2>2
  <2> QED
      BY <1>5, <1>7, <2>1, <2>3 DEF last
<1> QED
    BY <1>3, <1>5, <1>6, <1>7, <1>8, <1>9, <1>10 DEF cmd

LEMMA ActivateTypes ==
    ASSUME DaemonInv, CopyInv, CopyTypes, RowTypes, Activate
    PROVE  CopyTypes' /\ RowTypes'
<1>1. /\ gui' = "open" /\ dialog' = [dialog EXCEPT !.attached = FALSE] /\ Loadable
    BY DEF Activate
<1>2. /\ \A id \in DOMAIN Loaded : Loaded[id] \in CopyRecords
      /\ \E n \in Nat : DOMAIN Loaded \subseteq 0 .. n
      /\ DOMAIN id_to_action_info \subseteq DOMAIN Loaded
    BY <1>1, LoadedType
<1>3. /\ dialog'.kind = dialog.kind /\ dialog'.id = dialog.id /\ dialog'.cmd = dialog.cmd
      /\ dialog'.shown = dialog.shown /\ dialog'.entry = dialog.entry
      /\ dialog'.attached = FALSE
    BY <1>1 DEF CopyInv, IsDialog
<1>4. CopyTypes'
    BY <1>1, <1>2, <1>3, ActivateEffect DEF CopyTypes
<1>5. RowTypes'
  <2>1. \A r \in DOMAIN rows' : /\ rows'[r] = [id |-> rows'[r].id, label |-> rows'[r].label]
                                /\ rows'[r].label \in Names
    <3>1. ASSUME NEW r \in DOMAIN rows
          PROVE  /\ rows'[r] = [id |-> rows'[r].id, label |-> rows'[r].label]
                 /\ rows'[r].label \in Names
        BY ActivateEffect DEF RowTypes
    <3>2. ASSUME NEW r \in DOMAIN rows' \ DOMAIN rows
          PROVE  /\ rows'[r] = [id |-> rows'[r].id, label |-> rows'[r].label]
                 /\ rows'[r].label \in Names
      <4>1. PICK id \in DOMAIN Loaded : rows'[r] = [id |-> id, label |-> Loaded[id].name]
          BY ActivateEffect
      <4>2. Loaded[id].name \in Names
          BY <1>2, CopyRecordFields
      <4> QED
          BY <4>1, <4>2
    <3> QED
        BY <3>1, <3>2
  <2> QED
      BY <1>2, <2>1, ActivateEffect DEF RowTypes
<1> QED
    BY <1>4, <1>5

\* An answer is taken: the action is deleted, added or changed in one field.
LEMMA DeletedTypes ==
    ASSUME CallInv, CopyTypes, RowTypes, Deleted
    PROVE  CopyTypes' /\ RowTypes'
<1> DEFINE id == call.of.id
           row == id_to_action_info[id].row
<1>1. /\ call.of.method = "RemoveAction" /\ call.status = "ok"
      /\ rows' = [r \in DOMAIN rows \ {row} |-> rows[r]]
      /\ id_to_action_info' = [i \in DOMAIN id_to_action_info \ {id} |-> id_to_action_info[i]]
      /\ UNCHANGED <<gui, dialog>>
    BY DEF Deleted, Returns
<1>2. dialog = NoDialog /\ id \in DOMAIN id_to_action_info
    BY <1>1 DEF CallInv, Matches
<1> HIDE DEF id
<1>3. CopyTypes'
    BY <1>1, <1>2, NoCommandType DEF CopyTypes
<1>4. RowTypes'
  <2>1. DOMAIN id_to_action_info' = DOMAIN id_to_action_info \ {id} /\ DOMAIN rows' = DOMAIN rows \ {row}
      BY <1>1
  <2>2. \A i \in DOMAIN id_to_action_info' :
           /\ id_to_action_info'[i] = id_to_action_info[i]
           /\ id_to_action_info[i].row # row
      BY <1>1, <1>2 DEF RowTypes
  <2>3. \A r \in DOMAIN rows' : rows'[r] = rows[r]
      BY <1>1
  <2> HIDE DEF row
  <2> QED
      BY <2>1, <2>2, <2>3 DEF RowTypes
<1> QED
    BY <1>3, <1>4

LEMMA AddedTypes ==
    ASSUME CallInv, CopyTypes, RowTypes, Added
    PROVE  CopyTypes' /\ RowTypes'
<1> DEFINE row  == LastRow + 1
           info == [cmd |-> dialog.entry, row |-> row]
           new  == [id |-> call.id, label |-> dialog.entry.name]
<1>1. /\ id_to_action_info' = [i \in DOMAIN id_to_action_info \cup {call.id} |->
                                  IF i = call.id THEN info ELSE id_to_action_info[i]]
      /\ rows' = [r \in DOMAIN rows \cup {row} |-> IF r = row THEN new ELSE rows[r]]
      /\ dialog' = NoDialog /\ gui' = gui
      /\ call.of.method = "AddAction" /\ call.status = "ok"
    BY DEF Added, Returns
<1>2. dialog # NoDialog /\ dialog.entry \in CopyRecords /\ dialog.entry.name \in Names
  <2>1. dialog.kind = "add"
      BY <1>1 DEF CallInv, Matches
  <2> QED
      BY <2>1, NoCommandType, CopyRecordFields DEF CopyTypes
<1>3. row \in Nat /\ row > 0 /\ \A r \in DOMAIN rows : r \in Nat /\ r > 0 /\ r < row
    BY LastRowIs
<1>4. info.cmd = dialog.entry /\ info.row = row
    OBVIOUS
<1> HIDE DEF row, info
<1>5. CopyTypes'
    BY <1>1, <1>2, <1>4, NoCommandType DEF CopyTypes
<1>6. RowTypes'
  <2>1. DOMAIN rows' \subseteq 1 .. row
      BY <1>1, <1>3
  <2>2. \E n \in Nat : DOMAIN id_to_action_info' \subseteq 0 .. n
    <3>1. PICK n \in Nat : DOMAIN id_to_action_info \subseteq 0 .. n
        BY DEF RowTypes
    <3>2. call.id \in Nat
        BY DEF CallInv
    <3>3. DOMAIN id_to_action_info' \subseteq 0 .. n + call.id
        BY <1>1, <3>1, <3>2
    <3> QED
        BY <3>2, <3>3
  <2>3. /\ \A id \in DOMAIN id_to_action_info' : id_to_action_info'[id].row \in DOMAIN rows'
        /\ \A id, jd \in DOMAIN id_to_action_info' :
              id_to_action_info'[id].row = id_to_action_info'[jd].row => id = jd
      BY <1>1, <1>3, <1>4 DEF RowTypes
  <2>4. \A r \in DOMAIN rows' : /\ rows'[r] = [id |-> rows'[r].id, label |-> rows'[r].label]
                                /\ rows'[r].label \in Names
    <3>1. new.id = call.id /\ new.label = dialog.entry.name
        OBVIOUS
    <3> QED
        BY <1>1, <1>2, <3>1 DEF RowTypes
  <2> QED
      BY <1>3, <2>1, <2>2, <2>3, <2>4 DEF RowTypes
<1> QED
    BY <1>5, <1>6

LEMMA AcceptedFieldType ==
    ASSUME NEW cmd \in CopyRecords, NEW entry \in CopyRecords,
           NEW field \in {"Name", "Trigger", "Exec", "ResumeExec"}
    PROVE  AcceptedField(cmd, field, entry) \in CopyRecords
<1>1. CASE field = "Name"
    BY <1>1 DEF AcceptedField, CopyRecords
<1>2. CASE field = "Trigger"
  <2> DEFINE ms == IF entry.trigger = "TIMEOUT" THEN entry.timeout_ms ELSE cmd.timeout_ms
  <2>1. /\ entry.trigger \in {"TIMEOUT", "SLEEP", "LOCK"} /\ ms \in Int
        /\ AcceptedField(cmd, field, entry) =
              [cmd EXCEPT !.trigger = entry.trigger, !.timeout_ms = ms]
      BY <1>2 DEF AcceptedField, CopyRecords
  <2> HIDE DEF ms
  <2> QED
      BY <2>1 DEF CopyRecords
<1>3. CASE field = "Exec"
    BY <1>3 DEF AcceptedField, CopyRecords
<1>4. CASE field = "ResumeExec"
    BY <1>4 DEF AcceptedField, CopyRecords
<1> QED
    BY <1>1, <1>2, <1>3, <1>4

\* What FieldTaken changes.
LEMMA FieldTakenEffect ==
    ASSUME CopyInv, CallInv, CopyTypes, FieldTaken
    PROVE  \E i \in DOMAIN Fields :
              LET cmd == AcceptedField(dialog.cmd, Fields[i], dialog.entry) IN
              /\ call.of.method = Fields[i] /\ call.status = "ok"
              /\ dialog.kind = "edit" /\ dialog.id \in DOMAIN id_to_action_info
              /\ call.of.id = dialog.id /\ call.of.args = <<dialog.entry>>
              /\ dialog' = [dialog EXCEPT !.cmd = cmd]
              /\ DOMAIN id_to_action_info' = DOMAIN id_to_action_info
              /\ \A id \in DOMAIN id_to_action_info :
                    /\ id_to_action_info'[id].row = id_to_action_info[id].row
                    /\ id_to_action_info'[id].cmd =
                          IF id = dialog.id /\ dialog.attached THEN cmd
                          ELSE id_to_action_info[id].cmd
              /\ rows' = IF Fields[i] = "Name"
                         THEN [rows EXCEPT ![id_to_action_info[dialog.id].row].label = cmd.name]
                         ELSE rows
              /\ UNCHANGED <<gui, switches>>
<1>1. PICK i \in DOMAIN Fields :
         /\ Returns(Fields[i], "ok")
         /\ LET cmd == AcceptedField(dialog.cmd, Fields[i], dialog.entry)
                row == id_to_action_info[dialog.id].row
            IN  /\ dialog' = [dialog EXCEPT !.cmd = cmd]
                /\ id_to_action_info' =
                      IF dialog.attached THEN [id_to_action_info EXCEPT ![dialog.id].cmd = cmd]
                      ELSE id_to_action_info
                /\ rows' = IF Fields[i] = "Name" THEN [rows EXCEPT ![row].label = cmd.name]
                           ELSE rows
    BY DEF FieldTaken
<1> DEFINE cmd == AcceptedField(dialog.cmd, Fields[i], dialog.entry)
<1>2. call.of.method = Fields[i] /\ call.status = "ok"
    BY <1>1 DEF Returns
<1>3. Fields[i] \notin {"Set", "RemoveAction", "AddAction"}
    BY DEF Fields
<1>4. dialog.kind = "edit" /\ call.of.id = dialog.id /\ call.of.args = <<dialog.entry>>
    BY <1>2, <1>3 DEF CallInv, Matches
<1>5. dialog.id \in DOMAIN id_to_action_info
    BY <1>4 DEF CopyTypes
<1> HIDE DEF cmd
<1>6. id_to_action_info' = IF dialog.attached THEN [id_to_action_info EXCEPT ![dialog.id].cmd = cmd]
                           ELSE id_to_action_info
    BY <1>1 DEF cmd
<1>7. DOMAIN id_to_action_info' = DOMAIN id_to_action_info
    BY <1>6
<1>8. ASSUME NEW id \in DOMAIN id_to_action_info
      PROVE  /\ id_to_action_info'[id].row = id_to_action_info[id].row
             /\ id_to_action_info'[id].cmd =
                   IF id = dialog.id /\ dialog.attached THEN cmd
                   ELSE id_to_action_info[id].cmd
  <2>1. IsInfo(id_to_action_info[id])
      BY DEF CopyInv
  <2> QED
      BY <1>6, <2>1 DEF IsInfo
<1>9. UNCHANGED <<gui, switches>>
    BY DEF FieldTaken
<1> QED
    BY <1>1, <1>2, <1>4, <1>5, <1>7, <1>8, <1>9 DEF cmd

LEMMA FieldTakenTypes ==
    ASSUME CopyInv, CallInv, CopyTypes, RowTypes, FieldTaken
    PROVE  CopyTypes' /\ RowTypes'
<1>1. PICK i \in DOMAIN Fields :
              LET cmd == AcceptedField(dialog.cmd, Fields[i], dialog.entry) IN
              /\ dialog.kind = "edit" /\ dialog.id \in DOMAIN id_to_action_info
              /\ dialog' = [dialog EXCEPT !.cmd = cmd]
              /\ DOMAIN id_to_action_info' = DOMAIN id_to_action_info
              /\ \A id \in DOMAIN id_to_action_info :
                    /\ id_to_action_info'[id].row = id_to_action_info[id].row
                    /\ id_to_action_info'[id].cmd =
                          IF id = dialog.id /\ dialog.attached THEN cmd
                          ELSE id_to_action_info[id].cmd
              /\ rows' = IF Fields[i] = "Name"
                         THEN [rows EXCEPT ![id_to_action_info[dialog.id].row].label = cmd.name]
                         ELSE rows
              /\ UNCHANGED <<gui, switches>>
    BY FieldTakenEffect
<1> DEFINE cmd == AcceptedField(dialog.cmd, Fields[i], dialog.entry)
           row == id_to_action_info[dialog.id].row
<1>2. cmd \in CopyRecords /\ cmd.name \in Names
  <2>1. Fields[i] \in {"Name", "Trigger", "Exec", "ResumeExec"}
      BY DEF Fields
  <2>2. cmd \in CopyRecords
      BY <2>1, AcceptedFieldType DEF CopyTypes
  <2> HIDE DEF cmd
  <2> QED
      BY <2>2, CopyRecordFields
<1> HIDE DEF cmd
<1>3. /\ dialog'.kind = dialog.kind /\ dialog'.id = dialog.id /\ dialog'.cmd = cmd
      /\ dialog'.shown = dialog.shown /\ dialog'.entry = dialog.entry
      /\ dialog'.attached = dialog.attached
    BY <1>1 DEF CopyInv, IsDialog, cmd
<1>4. CopyTypes'
  <2>1. gui # "absent"
    <3>1. dialog # NoDialog
        BY <1>1, NoCommandType
    <3> QED
        BY <3>1 DEF CopyTypes
  <2>2. gui' = gui
      BY <1>1
  <2>3. \A id \in DOMAIN id_to_action_info :
           id_to_action_info'[id].cmd = IF id = dialog.id /\ dialog.attached THEN cmd
                                        ELSE id_to_action_info[id].cmd
      BY <1>1 DEF cmd
  <2>4. DOMAIN id_to_action_info' = DOMAIN id_to_action_info /\ dialog.id \in DOMAIN id_to_action_info
      BY <1>1
  <2> QED
      BY <1>2, <1>3, <2>1, <2>2, <2>3, <2>4 DEF CopyTypes
<1>5. RowTypes'
  <2>1. rows' = rows \/ rows' = [rows EXCEPT ![row].label = cmd.name]
      BY <1>1 DEF cmd
  <2>2. DOMAIN rows' = DOMAIN rows
      BY <2>1
  <2>3. \A r \in DOMAIN rows' : /\ rows'[r] = [id |-> rows'[r].id, label |-> rows'[r].label]
                                /\ rows'[r].label \in Names
    <3>1. \A r \in DOMAIN rows : /\ rows[r] = [id |-> rows[r].id, label |-> rows[r].label]
                                 /\ rows[r].label \in Names
        BY DEF RowTypes
    <3> HIDE DEF row
    <3> QED
        BY <1>2, <2>1, <3>1
  <2> QED
      BY <1>1, <2>2, <2>3 DEF RowTypes
<1> QED
    BY <1>4, <1>5

\* What the user does in the main window.
LEMMA EntryType ==
    ASSUME NEW entry \in Entries
    PROVE  entry \in CopyRecords
<1>1. PICK name \in Names, text \in EnteredTexts, exec \in CommandStrings \cup Unparsable,
           resume_exec \in CommandStrings : entry = Typed(name, text, exec, resume_exec)
    BY DEF Entries
<1> DEFINE parsed == Parsed(text, 0)
<1>2. parsed.trigger \in {"TIMEOUT", "SLEEP", "LOCK"} /\ parsed.timeout_ms \in Int
  <2>1. MsPerSecond \in Int /\ \A sec \in EnteredSeconds : sec \in Int
    <3>1. \A sec \in EnteredSeconds : sec \in 0 .. MaxInt
        BY GuiAssumption
    <3>2. MaxInt \in Nat /\ MsPerSecond \in Int
        BY WidthAssumption
    <3> QED
        BY <3>1, <3>2
  <2>2. \A sec \in Int : sec * MsPerSecond \in Int
      BY <2>1
  <2> QED
      BY <2>1, <2>2, KindAssumption DEF EnteredTexts, Text, Parsed
<1> HIDE DEF parsed
<1>3. ToInt(parsed.timeout_ms) \in Int
    BY <1>2, IntArithmetic
<1>4. entry = [name |-> name, trigger |-> parsed.trigger,
               timeout_ms |-> ToInt(parsed.timeout_ms), exec |-> exec,
               resume_exec |-> resume_exec]
    BY <1>1 DEF Typed, NewCommand, parsed
<1> QED
    BY <1>2, <1>3, <1>4 DEF CopyRecords

LEMMA ToggleTypes ==
    ASSUME GuiInv, NEW w \in DOMAIN switches, NEW key \in Toggles, Toggle(w, key)
    PROVE  DaemonInv' /\ CallInv' /\ CopyTypes' /\ RowTypes'
<1> DEFINE value == ~ switches[w][key]
           request == Call("Set", w, <<key, value>>)
<1>1. /\ Calls(request) /\ dialog = NoDialog
      /\ UNCHANGED <<gui, id_to_action_info, rows, dialog>>
    BY DEF Toggle, AtWindows
<1>2. value \in BOOLEAN
    BY Zenon
<1> HIDE DEF value
<1>3. request.method = "Set" /\ IsRequest(request)
    BY <1>2 DEF Call, IsRequest
<1> HIDE DEF request
<1>4. call'.of = request => Matches'
    BY <1>1, <1>3 DEF Matches
<1> QED
    BY <1>1, <1>3, <1>4, DaemonCalled, CallBegins, WindowsKept DEF GuiInv

LEMMA ClickDeleteTypes ==
    ASSUME GuiInv, NEW row, ClickDelete(row)
    PROVE  DaemonInv' /\ CallInv' /\ CopyTypes' /\ RowTypes'
<1> DEFINE request == Call("RemoveAction", rows[row].id, <<>>)
<1>1. /\ Calls(request) /\ dialog = NoDialog /\ rows[row].id \in DOMAIN id_to_action_info
      /\ UNCHANGED <<gui, id_to_action_info, rows, dialog>>
    BY DEF ClickDelete, AtWindows, windowVars
<1>2. request.method = "RemoveAction" /\ request.id = rows[row].id /\ IsRequest(request)
    BY DEF Call, IsRequest
<1> HIDE DEF request
<1>3. call'.of = request => Matches'
    BY <1>1, <1>2 DEF Matches
<1> QED
    BY <1>1, <1>2, <1>3, DaemonCalled, CallBegins, WindowsKept DEF GuiInv

LEMMA AddOkTypes ==
    ASSUME GuiInv, NEW entry \in Entries, AddOk(entry)
    PROVE  DaemonInv' /\ CallInv' /\ CopyTypes' /\ RowTypes'
<1> DEFINE request == Call("AddAction", 0, <<entry>>)
<1>1. /\ Calls(request) /\ dialog.kind = "add" /\ entry \notin {} /\ gui = "open"
      /\ entry.exec \notin Unparsable
      /\ dialog' = [dialog EXCEPT !.ok = TRUE, !.entry = entry]
      /\ UNCHANGED <<gui, id_to_action_info, rows>>
    BY DEF AddOk, Idle, windowVars
<1>2. entry \in CopyRecords /\ entry.exec \in CommandStrings
    BY <1>1, EntryType, CopyRecordFields
<1>3. /\ dialog'.kind = "add" /\ dialog'.ok /\ dialog'.entry = entry
      /\ dialog'.cmd = dialog.cmd /\ dialog'.shown = dialog.shown
    BY <1>1 DEF GuiInv, CopyInv, IsDialog
<1>4. request.method = "AddAction" /\ request.args = <<entry>>
    BY DEF Call
<1> HIDE DEF request
<1>5. IsRequest(request)
    BY <1>2, <1>4 DEF IsRequest, Carries
<1>6. call'.of = request => Matches'
    BY <1>3, <1>4 DEF Matches
<1>7. CopyTypes' /\ RowTypes'
    BY <1>1, <1>2, <1>3, DialogChanges DEF GuiInv, CopyTypes
<1> QED
    BY <1>1, <1>5, <1>6, <1>7, DaemonCalled, CallBegins DEF GuiInv

LEMMA EditOkTypes ==
    ASSUME GuiInv, NEW entry \in Entries, EditOk(entry)
    PROVE  DaemonInv' /\ CallInv' /\ CopyTypes' /\ RowTypes'
<1>1. /\ gui = "open" /\ call.status = "none"
      /\ dialog' = [dialog EXCEPT !.ok = TRUE, !.entry = entry]
      /\ UNCHANGED <<vars, requests, call, gui, id_to_action_info, rows>>
    BY DEF EditOk, Idle, windowVars
<1>2. /\ dialog'.kind = dialog.kind /\ dialog'.entry = entry /\ dialog'.id = dialog.id
      /\ dialog'.cmd = dialog.cmd /\ dialog'.shown = dialog.shown
      /\ dialog'.attached = dialog.attached
    BY <1>1 DEF GuiInv, CopyInv, IsDialog
<1>3. CopyTypes' /\ RowTypes'
    BY <1>1, <1>2, EntryType, DialogChanges DEF GuiInv, CopyTypes
<1> QED
    BY <1>1, <1>3, DaemonUnchanged, NoCallMade DEF GuiInv

LEMMA DialogTypes ==
    ASSUME GuiInv, ClickAdd \/ Cancel \/ EditDone \/ \E row \in DOMAIN rows : ClickEdit(row)
    PROVE  DaemonInv' /\ CallInv' /\ CopyTypes' /\ RowTypes'
<1>1. /\ gui = "open" /\ call.status = "none"
      /\ UNCHANGED <<vars, requests, call, gui, id_to_action_info, rows>>
    BY DEF ClickAdd, Cancel, EditDone, ClickEdit, AtWindows, Idle, windowVars
<1>2. DaemonInv' /\ CallInv'
    BY <1>1, DaemonUnchanged, NoCallMade DEF GuiInv
<1>3. CASE ClickAdd \/ Cancel \/ EditDone
  <2>1. dialog' = [NoDialog EXCEPT !.kind = "add"] \/ dialog' = NoDialog
      BY <1>3 DEF ClickAdd, Cancel, EditDone
  <2>2. /\ dialog'.cmd = NoCommand /\ dialog'.entry = NoCommand /\ dialog'.shown = NoCommand
        /\ dialog'.kind # "edit"
      BY <2>1 DEF NoDialog
  <2> QED
      BY <1>1, <1>2, <2>2, NoCommandType, DialogChanges DEF GuiInv
<1>4. CASE \E row \in DOMAIN rows : ClickEdit(row)
  <2>1. PICK row \in DOMAIN rows : ClickEdit(row)
      BY <1>4
  <2> DEFINE id == rows[row].id
             cmd == id_to_action_info[id].cmd
  <2>2. /\ id \in DOMAIN id_to_action_info
        /\ dialog' = [NoDialog EXCEPT !.kind = "edit", !.id = id, !.attached = TRUE,
                                      !.cmd = cmd, !.shown = cmd]
      BY <2>1 DEF ClickEdit
  <2>3. cmd \in CopyRecords
      BY <2>2 DEF GuiInv, CopyTypes
  <2> HIDE DEF id, cmd
  <2>4. /\ dialog'.cmd = cmd /\ dialog'.entry = NoCommand /\ dialog'.shown = cmd
        /\ dialog'.id = id
      BY <2>2 DEF NoDialog
  <2> QED
      BY <1>1, <1>2, <2>2, <2>3, <2>4, NoCommandType, DialogChanges DEF GuiInv, cmd
<1> QED
    BY <1>3, <1>4

LEMMA UserTypes ==
    ASSUME GuiInv, User
    PROVE  DaemonInv' /\ CallInv' /\ CopyTypes' /\ RowTypes'
<1>1. CASE Activate
  <2>1. UNCHANGED <<vars, requests, call>> /\ requests = <<>>
      BY <1>1 DEF Activate
  <2>2. call.status = "none"
      BY <1>1 DEF Activate, Idle, GuiInv, SwitchInv, NoCall
  <2> QED
      BY <1>1, <2>1, <2>2, ActivateTypes, DaemonUnchanged, NoCallMade DEF GuiInv
<1>2. CASE ActivateInVain \/ \E row : AssertionFails(row)
  <2>1. /\ UNCHANGED <<vars, requests, call, id_to_action_info, rows, dialog>>
        /\ gui' \in {"aborted", "failed"}
      BY <1>2 DEF ActivateInVain, AssertionFails
  <2>2. call.status = "none"
      BY <1>2 DEF ActivateInVain, AssertionFails, AtWindows, Idle, GuiInv, SwitchInv, NoCall
  <2> QED
      BY <2>1, <2>2, WindowsKept, DaemonUnchanged, NoCallMade DEF GuiInv
<1> QED
    BY <1>1, <1>2, ToggleTypes, ClickDeleteTypes, AddOkTypes, EditOkTypes, DialogTypes DEF User

\* What follows a call.
LEMMA SendFieldTypes ==
    ASSUME GuiInv, SendField
    PROVE  DaemonInv' /\ CallInv' /\ CopyTypes' /\ RowTypes'
<1> DEFINE request == Call(NextField, dialog.id, <<dialog.entry>>)
<1>1. /\ Calls(request) /\ dialog.kind = "edit" /\ dialog.ok
      /\ UNCHANGED <<gui, id_to_action_info, rows, dialog>>
    BY DEF SendField, windowVars
<1>2. NextField \in {"Name", "Trigger", "Exec", "ResumeExec"}
  <2>1. \E i \in DOMAIN Fields : NextField = Fields[i]
      BY FieldChosen DEF SendField
  <2>2. \A i \in DOMAIN Fields : Fields[i] \in {"Name", "Trigger", "Exec", "ResumeExec"}
      BY DEF Fields
  <2> QED
      BY <2>1, <2>2
<1>3. /\ request.method = NextField /\ request.id = dialog.id
      /\ request.args = <<dialog.entry>>
    BY DEF Call
<1> HIDE DEF request
<1>4. IsRequest(request)
    BY <1>2, <1>3 DEF IsRequest, Carries, GuiInv, CopyTypes
<1>5. call'.of = request => Matches'
    BY <1>1, <1>2, <1>3 DEF Matches
<1> QED
    BY <1>1, <1>4, <1>5, DaemonCalled, CallBegins, WindowsKept DEF GuiInv

LEMMA GuiTypes ==
    ASSUME GuiInv, Gui
    PROVE  DaemonInv' /\ CallInv' /\ CopyTypes' /\ RowTypes'
<1>1. ASSUME NEW method, NEW status \in {"ok", "error"}, Returns(method, status)
      PROVE  DaemonInv' /\ CallInv'
    BY <1>1, DaemonUnchanged, CallEnds DEF GuiInv, Returns
<1>2. CASE ToggleReturns \/ NotDeleted
  <2>1. \E method : \E status \in {"ok", "error"} : Returns(method, status)
    <3>1. \/ Returns("Set", "ok") \/ Returns("Set", "error")
          \/ Returns("RemoveAction", "error")
        BY <1>2 DEF ToggleReturns, NotDeleted
    <3> QED
        BY <3>1, Zenon
  <2> QED
      BY <1>1, <1>2, <2>1, WindowsKept DEF ToggleReturns, NotDeleted, windowVars, GuiInv
<1>3. CASE Deleted
    BY <1>1, <1>3, DeletedTypes DEF GuiInv, Deleted
<1>4. CASE Added
    BY <1>1, <1>4, AddedTypes DEF GuiInv, Added
<1>5. CASE FieldTaken
    BY <1>1, <1>5, FieldTakenTypes DEF GuiInv, FieldTaken
<1>6. CASE NotAdded \/ FieldRefused
  <2>1. /\ dialog' = Resumed /\ UNCHANGED windowVars
        /\ \E method \in {"AddAction", "Name", "Trigger", "Exec", "ResumeExec"} :
              Returns(method, "error")
      BY <1>6 DEF NotAdded, FieldRefused, Fields
  <2>2. /\ dialog'.kind = dialog.kind /\ dialog'.id = dialog.id /\ dialog'.cmd = dialog.cmd
        /\ dialog'.attached = dialog.attached /\ dialog'.shown = dialog.shown
        /\ dialog'.entry = NoCommand
    <3>1. IsDialog(dialog)
        BY DEF GuiInv, CopyInv
    <3> QED
        BY <2>1, <3>1 DEF IsDialog, Resumed
  <2>3. dialog # NoDialog
    <3>1. dialog.kind \in {"add", "edit"}
        BY <2>1 DEF GuiInv, CallInv, Matches, Returns
    <3> QED
        BY <3>1, NoCommandType
  <2>4. CopyTypes' /\ RowTypes'
      BY <2>1, <2>2, <2>3, NoCommandType DEF GuiInv, CopyTypes, RowTypes, windowVars
  <2> QED
      BY <1>1, <2>1, <2>4
<1> QED
    BY <1>2, <1>3, <1>4, <1>5, <1>6, SendFieldTypes, DialogTypes DEF Gui

LEMMA InitTypes == GuiInit => GuiInv
<1> SUFFICES ASSUME GuiInit PROVE GuiInv
    OBVIOUS
<1>1. SwitchInv /\ CopyInv
    BY InitSwitches, InitCopies
<1>2. /\ Inv /\ exported = FALSE
    BY InitInv DEF GuiInit, Init, Down
<1>3. requests = <<>> /\ Len(requests) = 0
    BY EmptySequence DEF GuiInit
<1>4. DaemonInv
    BY <1>2, <1>3 DEF DaemonInv, TriggersTell
<1>5. CallInv
  <2>1. call = [status |-> "none", id |-> 0, of |-> Call("none", 0, <<>>)]
      BY DEF GuiInit, NoCall
  <2>2. /\ call = [status |-> call.status, id |-> call.id, of |-> call.of]
        /\ call.status = "none" /\ call.id = 0
      BY <2>1
  <2>3. MaxLate \in Nat
      BY GuiAssumption
  <2> QED
      BY <1>3, <2>2, <2>3 DEF CallInv
<1>6. DOMAIN id_to_action_info = {} /\ DOMAIN rows = {}
    BY DEF GuiInit
<1>7. CopyTypes
    BY <1>6, NoCommandType DEF GuiInit, CopyTypes
<1>8. RowTypes
  <2>1. 0 \in Nat /\ {} \subseteq 1 .. 0
      OBVIOUS
  <2> QED
      BY <1>6, <2>1 DEF RowTypes
<1> QED
    BY <1>1, <1>4, <1>5, <1>7, <1>8 DEF GuiInv

LEMMA NextTypes == GuiInv /\ [GuiNext]_allVars => GuiInv'
<1> SUFFICES ASSUME GuiInv, [GuiNext]_allVars PROVE GuiInv'
    OBVIOUS
<1>1. SwitchInv' /\ CopyInv'
    BY NextSwitches, NextCopies DEF GuiInv
<1>2. CASE Serve \/ Daemon \/ GiveUp \/ DaemonKilled \/ Rival
  <2>1. UNCHANGED <<id_to_action_info, rows, dialog, gui>>
      BY <1>2 DEF Serve, Daemon, GiveUp, DaemonKilled, Rival, windowVars
  <2>2. DaemonInv' /\ CallInv'
      BY <1>2, DaemonServes, DaemonGoesOn, CallAnswered, CallGoesOn DEF GuiInv
  <2> QED
      BY <1>1, <2>1, <2>2, WindowsKept DEF GuiInv
<1>3. CASE UNCHANGED allVars
  <2>1. UNCHANGED <<vars, requests, call, id_to_action_info, rows, dialog, gui>>
      BY <1>3 DEF allVars, windowVars
  <2>2. CallInv'
      BY <2>1 DEF GuiInv, CallInv, Matches
  <2> QED
      BY <1>1, <2>1, <2>2, DaemonUnchanged, WindowsKept DEF GuiInv
<1>4. CASE User \/ Gui
    BY <1>1, <1>4, UserTypes, GuiTypes DEF GuiInv
<1> QED
    BY <1>2, <1>3, <1>4 DEF GuiNext

LEMMA GuiInvariance == GuiSpec => []GuiInv
  BY InitTypes, NextTypes, PTL DEF GuiSpec

-----------------------------------------------------------------------------
\* All state keeps its type; the copies are records a command can have, every row
\* entered is there, and the call that is waited for is the last request.
THEOREM GuiTypeCorrect == GuiSpec => []GuiTypeOK
<1>1. GuiInv => GuiTypeOK
    BY DEF GuiInv, CallInv, CopyTypes, RowTypes, GuiTypeOK
<1> QED
    BY <1>1, GuiInvariance, PTL

-----------------------------------------------------------------------------
(* The settings program is a client like any other.                        *)

\* The store with clients that ask for any trigger and any number of seconds.
Store == INSTANCE ConfigStoreProofs WITH
    Seconds    <- 1 .. MaxInt,
    OtherKinds <- {"sleep", "lock"}

LEMMA StoreAssumptions ==
    /\ Store!NamesAssumption /\ Store!CommandAssumption /\ Store!SettingAssumption
    /\ Store!KindAssumption /\ Store!WidthAssumption /\ Store!BoundAssumption
    /\ Store!HandMadeAssumption
<1>1. Store!NamesAssumption
    BY NamesAssumption
    DEF Store!NamesAssumption, Store!IsFiniteSet, IsFiniteSet
<1>2. Store!HandMadeAssumption
    BY HandMadeAssumption
    DEF Store!HandMadeAssumption, Store!IsFile, IsFile, Store!File, File, Store!Keys, Keys,
        Store!Sections, Sections, Store!Texts, Texts, Store!NoTrigger, NoTrigger,
        Store!Text, Text, Store!CommandStrings, CommandStrings, Store!None, None
<1>3. Store!WidthAssumption
    BY WidthAssumption DEF Store!WidthAssumption
<1> QED
    BY <1>1, <1>2, <1>3, CommandAssumption, SettingAssumption, BoundAssumption
    DEF Store!CommandAssumption, Store!SettingAssumption, Store!KindAssumption,
        Store!BoundAssumption

\* What does not depend on what clients ask for is the same in both.
LEMMA SameRecords ==
    ASSUME NEW name, NEW text, NEW exec, NEW resume_exec, NEW old, NEW cmd
    PROVE  /\ Store!NewCommand(name, text, exec, resume_exec)
                 = NewCommand(name, text, exec, resume_exec)
           /\ Store!Parsed(text, old) = Parsed(text, old)
           /\ Store!Exported(cmd) = Exported(cmd)
           /\ Store!is_valid(cmd) <=> is_valid(cmd)
           /\ Store!Accepted(text) <=> Accepted(text)
  BY DEF Store!NewCommand, NewCommand, Store!Parsed, Parsed, Store!Exported, Exported,
         Store!TriggerText, TriggerText, Store!Text, Text, Store!Quot, Quot, Store!ToInt,
         ToInt, Store!is_valid, is_valid, Store!None, None, Store!Accepted, Accepted

LEMMA SameInit == Store!Init <=> Init
  BY DEF Store!Init, Init, Store!Down, Down, Store!Keys, Keys, Store!Default, Default

LEMMA SameStart == Store!Start <=> Start
  BY DEF Store!Start, Start, Store!Starts, Starts, Store!Readable, Readable,
         Store!NoTrigger, NoTrigger, Store!Text, Text, Store!None, None,
         Store!Accepted, Accepted, Store!ReadMain, ReadMain, Store!Keys, Keys,
         Store!Default, Default, Store!SetToSeqs, SetToSeqs, Store!Cardinality, Cardinality,
         Store!ReadAction, ReadAction, Store!NewCommand, NewCommand, Store!Parsed, Parsed

LEMMA SameBus == Store!BusAcquired <=> BusAcquired
  BY DEF Store!BusAcquired, BusAcquired, Store!Exported, Exported, Store!TriggerText,
         TriggerText, Store!Text, Text, Store!Quot, Quot, Store!ToInt, ToInt

LEMMA SameKill == Store!Killed <=> Killed
  BY DEF Store!Killed, Killed, Store!GoDown, GoDown, Store!Keys, Keys, Store!Default,
         Default

LEMMA SameSave ==
    ASSUME Save, ~ unsaved'
    PROVE  Store!Save
  BY DEF Store!Save, Save, Store!Unsavable, Unsavable, Store!LastWriters, LastWriters,
         Store!CommandNames, CommandNames, Store!SavedFile, SavedFile, Store!Rendered,
         Rendered, Store!Garbled, Garbled, Store!File, File, Store!SavedActions,
         SavedActions, Store!SavedNames, SavedNames, Store!EmptySection, EmptySection,
         Store!NoTrigger, NoTrigger, Store!Text, Text, Store!None, None, Store!Written,
         Written, Store!TriggerText, TriggerText, Store!Quot, Quot, Store!ToInt, ToInt

LEMMA SameAdd ==
    ASSUME NEW name, NEW text, NEW exec, NEW resume_exec
    PROVE  Store!AddAction(name, text, exec, resume_exec)
              <=> AddAction(name, text, exec, resume_exec)
  BY DEF Store!AddAction, AddAction, Store!NextId, NextId, Store!Request, Request,
         Store!save_config_to_file_async, save_config_to_file_async,
         Store!NewCommand, NewCommand, Store!Parsed, Parsed, Store!Exported, Exported,
         Store!TriggerText, TriggerText, Store!Text, Text, Store!Quot, Quot, Store!ToInt,
         ToInt, Store!is_valid, is_valid, Store!None, None, Store!Accepted, Accepted

LEMMA SameChanges ==
    ASSUME NEW id, NEW name, NEW text, NEW exec, NEW key, NEW value
    PROVE  /\ Store!RemoveAction(id) <=> RemoveAction(id)
           /\ Store!SetName(id, name) <=> SetName(id, name)
           /\ Store!SetTrigger(id, text) <=> SetTrigger(id, text)
           /\ Store!SetExec(id, exec) <=> SetExec(id, exec)
           /\ Store!SetResumeExec(id, exec) <=> SetResumeExec(id, exec)
           /\ Store!SetSetting(key, value) <=> SetSetting(key, value)
  BY DEF Store!RemoveAction, RemoveAction, Store!SetName, SetName, Store!SetTrigger,
         SetTrigger, Store!SetExec, SetExec, Store!SetResumeExec, SetResumeExec,
         Store!SetProperty, SetProperty, Store!SetSetting, SetSetting, Store!Request,
         Request, Store!save_config_to_file_async, save_config_to_file_async,
         Store!Parsed, Parsed, Store!Accepted, Accepted

LEMMA TextAskedFor ==
    /\ ClientTexts \subseteq Store!ClientTexts
    /\ \A cmd \in CopyRecords : Accepted(TriggerText(cmd)) => TriggerText(cmd) \in Store!ClientTexts
<1>1. ASSUME NEW text \in ClientTexts PROVE text \in Store!ClientTexts
    BY <1>1, WidthAssumption, KindAssumption
    DEF ClientTexts, Store!ClientTexts, Store!Text, Text
<1>2. ASSUME NEW cmd \in CopyRecords, Accepted(TriggerText(cmd))
      PROVE  TriggerText(cmd) \in Store!ClientTexts
  <2>1. cmd.trigger \in {"TIMEOUT", "SLEEP", "LOCK"}
      BY CopyRecordFields
  <2> DEFINE s == Quot(ToInt(cmd.timeout_ms), MsPerSecond)
  <2>2. CASE cmd.trigger = "TIMEOUT"
    <3> HIDE DEF s
    <3>1. TriggerText(cmd) = Text("timeout", s)
        BY <2>2 DEF TriggerText, s
    <3>2. s \in 1 .. MaxInt
        BY <1>2, <3>1 DEF Accepted, Text
    <3> QED
        BY <3>1, <3>2 DEF Store!ClientTexts, Store!Text, Text
  <2>3. CASE cmd.trigger # "TIMEOUT"
    <3>1. TriggerText(cmd) \in {Text("sleep", 0), Text("lock", 0)}
        BY <2>1, <2>3 DEF TriggerText
    <3> QED
        BY <3>1 DEF Store!ClientTexts, Store!Text, Text
  <2> QED
      BY <2>2, <2>3
<1> QED
    BY <1>1, <1>2

LEMMA SameStrings == Store!CommandStrings = CommandStrings
  BY DEF Store!CommandStrings, CommandStrings, Store!None, None

\* What a client of ConfigStore does, and what the daemon does for the GUI.
LEMMA SameClient ==
    ASSUME Client
    PROVE  Store!Client
<1>1. CASE \E name \in Names, text \in ClientTexts, exec, resume_exec \in CommandStrings :
              AddAction(name, text, exec, resume_exec)
    BY <1>1, SameAdd, SameStrings, TextAskedFor DEF Store!Client
<1>2. CASE \E id \in DOMAIN cmds :
              \/ RemoveAction(id)
              \/ \E name \in Names : SetName(id, name)
              \/ \E text \in ClientTexts : SetTrigger(id, text)
              \/ \E exec \in CommandStrings : SetExec(id, exec) \/ SetResumeExec(id, exec)
    BY <1>2, SameChanges, SameStrings, TextAskedFor DEF Store!Client
<1>3. CASE \E key \in Settings, value \in BOOLEAN : SetSetting(key, value)
    BY <1>3, SameChanges DEF Store!Client
<1> QED
    BY <1>1, <1>2, <1>3 DEF Client

LEMMA DoesAsClient ==
    ASSUME NEW request, IsRequest(request), Does(request)
    PROVE  UNCHANGED vars \/ Store!Client
<1> DEFINE method == request.method
           id == request.id
           cmd == request.args[1]
<1>1. CASE method = "Set"
  <2>1. cmd \in Toggles /\ request.args[2] \in BOOLEAN
      BY <1>1 DEF IsRequest
  <2>2. CASE cmd = "Paused" /\ SetPaused(request.args[2])
      BY <2>2 DEF SetPaused
  <2>3. CASE cmd # "Paused" /\ SetSetting(cmd, request.args[2])
    <3>1. cmd \in Settings
        BY <2>1, <2>3, GuiAssumption
    <3> QED
        BY <2>1, <2>3, <3>1, SameChanges DEF Store!Client
  <2> QED
      BY <1>1, <2>2, <2>3 DEF Does
<1>2. CASE method = "RemoveAction"
  <2>1. id \in DOMAIN cmds /\ RemoveAction(id)
      BY <1>2 DEF Does
  <2> QED
      BY <2>1, SameChanges DEF Store!Client
<1>3. CASE method \notin {"Set", "RemoveAction"}
  <2>1. Carries(request)
      BY <1>3 DEF IsRequest
  <2>2. /\ cmd \in CopyRecords
        /\ cmd.name \in Names /\ cmd.exec \in CommandStrings \cup Unparsable
        /\ cmd.resume_exec \in CommandStrings
        /\ method = "AddAction" => cmd.exec \in CommandStrings
      BY <2>1, CopyRecordFields DEF Carries
  <2>3. Accepted(TriggerText(cmd)) => TriggerText(cmd) \in Store!ClientTexts
      BY <2>2, TextAskedFor
  <2> HIDE DEF method, id, cmd
  <2>4. CASE method = "AddAction" /\ AddAction(cmd.name, TriggerText(cmd), cmd.exec, cmd.resume_exec)
    <3>1. Accepted(TriggerText(cmd))
        BY <2>4 DEF AddAction
    <3> QED
        BY <2>2, <2>3, <2>4, <3>1, SameAdd, SameStrings DEF Store!Client
  <2>5. CASE id \in DOMAIN cmds /\ SetTrigger(id, TriggerText(cmd))
    <3>1. Accepted(TriggerText(cmd))
        BY <2>5 DEF SetTrigger
    <3> QED
        BY <2>3, <2>5, <3>1, SameChanges DEF Store!Client
  <2>6. CASE /\ id \in DOMAIN cmds
             /\ \/ SetName(id, cmd.name)
                \/ cmd.exec \in CommandStrings /\ SetExec(id, cmd.exec)
                \/ SetResumeExec(id, cmd.resume_exec)
      BY <2>2, <2>6, SameChanges, SameStrings DEF Store!Client
  <2>7. \/ method = "AddAction" /\ AddAction(cmd.name, TriggerText(cmd), cmd.exec, cmd.resume_exec)
        \/ id \in DOMAIN cmds /\ SetTrigger(id, TriggerText(cmd))
        \/ /\ id \in DOMAIN cmds
           /\ \/ SetName(id, cmd.name)
              \/ cmd.exec \in CommandStrings /\ SetExec(id, cmd.exec)
              \/ SetResumeExec(id, cmd.resume_exec)
      BY <1>3, <2>2 DEF Does, method, id, cmd
  <2> QED
      BY <2>4, <2>5, <2>6, <2>7
<1> QED
    BY <1>1, <1>2, <1>3

LEMMA StoreStep == GuiInv /\ [GuiNext]_allVars => [Store!Next]_(Store!vars)
<1> SUFFICES ASSUME GuiInv, [GuiNext]_allVars PROVE UNCHANGED vars \/ Store!Next
    BY DEF vars, Store!vars
<1>1. CASE Serve
  <2> DEFINE request == Head(requests)
  <2>1. IsRequest(request)
    <3>1. /\ IsSequence(requests) /\ requests # <<>>
          /\ \A i \in 1 .. Len(requests) : IsRequest(requests[i])
        BY <1>1 DEF Serve, GuiInv, SwitchInv, DaemonInv
    <3> QED
        BY <3>1, SequenceOf, TailOf
  <2> HIDE DEF request
  <2>2. Does(request) \/ Refuses(request)
      BY <1>1 DEF Serve, request
  <2>3. Refuses(request) => UNCHANGED vars
      BY DEF Refuses
  <2> QED
      BY <2>1, <2>2, <2>3, DoesAsClient DEF Store!Next
<1>2. CASE Daemon
    BY <1>2, SameStart, SameBus, SameSave DEF Daemon, Store!Next
<1>3. CASE DaemonKilled
    BY <1>3, SameKill DEF DaemonKilled, Store!Next
<1>4. CASE Rival
    BY <1>4, SameClient DEF Rival, Store!Next
<1>5. CASE User \/ Gui \/ GiveUp \/ UNCHANGED allVars
  <2>1. CASE User
      BY <2>1 DEF User, Toggle, ClickDelete, AddOk, EditOk, Calls, Activate,
                  ActivateInVain, ClickEdit, AssertionFails, ClickAdd, Cancel
  <2>2. CASE Gui
      BY <2>2 DEF Gui, ToggleReturns, Deleted, NotDeleted, Added, NotAdded, SendField,
                  Calls, FieldTaken, FieldRefused, EditDone, Returns
  <2> QED
      BY <1>5, <2>1, <2>2 DEF GiveUp, allVars
<1> QED
    BY <1>1, <1>2, <1>3, <1>4, <1>5 DEF GuiNext

\* The settings program is a client of ConfigStore whatever goes wrong: what it
\* makes the daemon do, other clients may have asked for, so that nothing proved of
\* the daemon on its own is lost with it (xidlechain_app_controller.cc,
\* dbus_request_handler.cc).
THEOREM GuiIsAClient == GuiSpec => Store!Spec
<1>1. GuiInit => Store!Init
    BY SameInit DEF GuiInit
<1> QED
    BY <1>1, StoreStep, GuiInvariance, PTL DEF GuiSpec, Store!Spec

\* With the settings program too, clients see the actions as they are, no id is
\* given to another action, and the file is a durable store of the configuration.
THEOREM StoreHoldsWithGui ==
    GuiSpec => []Store!ViewTells /\ Store!IdsNotReused /\ Store!DurableSpec
<1>1. Store!Spec => []Store!ViewTells
    BY Store!ClientsSeeActions, StoreAssumptions
<1>2. Store!Spec => Store!IdsNotReused
    BY Store!RemovedIdsStayUnused, StoreAssumptions
<1>3. Store!Spec => Store!DurableSpec
    BY Store!ConfigIsDurable, StoreAssumptions
<1> QED
    BY <1>1, <1>2, <1>3, GuiIsAClient, PTL

=============================================================================
