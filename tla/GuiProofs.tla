------------------------------ MODULE GuiProofs ------------------------------
(***************************************************************************)
(* Theorems about GuiController, for any names, commands and switches, any *)
(* number of actions, windows, acts and late requests.                     *)
(***************************************************************************)
EXTENDS GuiController, TLAPS

-----------------------------------------------------------------------------
(* The switches: what a switch shows is what the last request about it     *)
(* that the daemon has not served sets, and without one what the daemon    *)
(* has.                                                                    *)

IsSequence(s) == s \in Seq(Range(s))

Sets(request, key) == request.method = "Set" /\ request.args[1] = key

NoneSets(key) == \A i \in 1 .. Len(requests) : ~ Sets(requests[i], key)

LastSets(key, value) ==
    \E i \in 1 .. Len(requests) :
        /\ Sets(requests[i], key) /\ requests[i].args[2] = value
        /\ \A j \in i + 1 .. Len(requests) : ~ Sets(requests[j], key)

Follows(key) == \/ NoneSets(key) /\ switches[1][key] = Shown(key)
                \/ LastSets(key, switches[1][key])

SwitchInv ==
    /\ IsSequence(requests)
    /\ DOMAIN settings = Keys
    /\ exported => up
    /\ gui = "absent" => requests = <<>> /\ switches = <<>> /\ call = NoCall /\ happened = {}
    /\ Only({"timeout"}) =>
          /\ exported
          /\ DOMAIN switches = {1} /\ DOMAIN switches[1] = Toggles
          /\ \A key \in Toggles : Follows(key)

-----------------------------------------------------------------------------
(* Lemmas about sequences of requests.                                     *)

LEMMA SequenceOf ==
    ASSUME NEW s, IsSequence(s)
    PROVE  /\ Len(s) \in Nat /\ DOMAIN s = 1 .. Len(s)
           /\ s = <<>> <=> Len(s) = 0
  BY DEF IsSequence

\* A sequence of anything is one of the values it has.
LEMMA SequenceIs ==
    ASSUME NEW T, NEW s \in Seq(T)
    PROVE  IsSequence(s)
<1> DEFINE R == Range(s)
<1>1. Len(s) \in Nat /\ s \in [1 .. Len(s) -> T]
    OBVIOUS
<1>2. \A i \in 1 .. Len(s) : s[i] \in R
    BY <1>1 DEF Range
<1> HIDE DEF R
<1>3. s \in [1 .. Len(s) -> R]
    BY <1>1, <1>2
<1>4. s \in Seq(R)
    BY <1>1, <1>3
<1> QED
    BY <1>4 DEF IsSequence, R

LEMMA Appended ==
    ASSUME NEW s, IsSequence(s), NEW e
    PROVE  /\ IsSequence(Append(s, e))
           /\ Len(Append(s, e)) = Len(s) + 1
           /\ \A i \in 1 .. Len(s) : Append(s, e)[i] = s[i]
           /\ Append(s, e)[Len(s) + 1] = e
<1> DEFINE R == Range(s)
           T == R \cup {e}
<1>1. s \in Seq(R)
    BY DEF IsSequence
<1> HIDE DEF R
<1>2. s \in Seq(T) /\ e \in T
    BY <1>1
<1> HIDE DEF T
<1>3. Append(s, e) \in Seq(T)
    BY <1>2
<1>4. IsSequence(Append(s, e))
    BY <1>3, SequenceIs
<1> QED
    BY <1>2, <1>4

LEMMA TailOf ==
    ASSUME NEW s, IsSequence(s), s # <<>>
    PROVE  /\ IsSequence(Tail(s))
           /\ Len(Tail(s)) = Len(s) - 1
           /\ \A i \in 1 .. Len(s) - 1 : Tail(s)[i] = s[i + 1]
           /\ Head(s) = s[1]
<1> DEFINE R == Range(s)
<1>1. s \in Seq(R)
    BY DEF IsSequence
<1> HIDE DEF R
<1>2. Tail(s) \in Seq(R)
    BY <1>1
<1>3. IsSequence(Tail(s))
    BY <1>2, SequenceIs
<1> QED
    BY <1>1, <1>3

LEMMA EmptySequence ==
    IsSequence(<<>>) /\ Len(<<>>) = 0
<1>1. <<>> \in Seq({})
    OBVIOUS
<1> QED
    BY <1>1, SequenceIs

-----------------------------------------------------------------------------
(* Which field is sent.                                                    *)

\* The least of a set of positions.
LEMMA LeastOf ==
    ASSUME NEW S \in SUBSET (1 .. 4), S # {}
    PROVE  \E i \in S : \A j \in S : i <= j
<1>1. CASE 1 \in S
    BY <1>1
<1>2. CASE 1 \notin S /\ 2 \in S
    BY <1>2
<1>3. CASE 1 \notin S /\ 2 \notin S /\ 3 \in S
    BY <1>3
<1>4. CASE 1 \notin S /\ 2 \notin S /\ 3 \notin S
  <2>1. \A i \in S : i = 4
      BY <1>4
  <2>2. 4 \in S
      BY <2>1
  <2> QED
      BY <2>1, <2>2
<1> QED
    BY <1>1, <1>2, <1>3, <1>4

LEMMA FieldChosen ==
    ASSUME Left(dialog.entry, dialog.cmd) # {}
    PROVE  \E i \in DOMAIN Fields : NextField = Fields[i] /\ i \in Left(dialog.entry, dialog.cmd)
<1> DEFINE left == Left(dialog.entry, dialog.cmd)
<1>1. left \subseteq DOMAIN Fields /\ DOMAIN Fields = 1 .. 4
    BY DEF Left, Fields
<1> HIDE DEF left
<1>2. \E i \in left : \A j \in left : i <= j
    BY <1>1, LeastOf DEF left
<1>3. (CHOOSE i \in left : \A j \in left : i <= j) \in left
    BY <1>2
<1> QED
    BY <1>1, <1>3 DEF NextField, left

-----------------------------------------------------------------------------
(* Steps and the switches. *)

LEMMA InitSwitches == GuiInit => SwitchInv
  BY EmptySequence DEF GuiInit, Init, Down, SwitchInv, Only

\* What leaves the switches, the settings and the requests as they are.
LEMMA KeptSwitches ==
    ASSUME SwitchInv,
           UNCHANGED <<up, exported, settings, daemon_paused, requests, switches>>,
           happened \subseteq happened', gui' = "open" => gui = "open",
           gui' = "absent" => gui = "absent" /\ call' = call /\ happened' = happened
    PROVE  SwitchInv'
  BY DEF SwitchInv, Only, IsSequence, Follows, NoneSets, LastSets, Sets, Shown

\* The same for what another kind of mishap happens in.
LEMMA OtherMishap ==
    ASSUME SwitchInv, NEW kind \in {"activated", "detached", "restart", "rival"},
           happened' = {kind}, gui' # "absent",
           IsSequence(requests'), DOMAIN settings' = Keys, exported' => up'
    PROVE  SwitchInv'
  BY DEF SwitchInv, Only

\* A call that sets nothing.
LEMMA CallKeepsSwitches ==
    ASSUME SwitchInv, NEW request, request.method # "Set", Calls(request),
           gui = "open", UNCHANGED <<gui, switches>>
    PROVE  SwitchInv'
<1>1. UNCHANGED <<up, exported, settings, daemon_paused, happened>>
    BY DEF Calls, vars
<1>2. CASE ~ exported
    BY <1>1, <1>2, KeptSwitches DEF Calls
<1>3. CASE exported
  <2> DEFINE n == Len(requests)
  <2>1. /\ requests' = Append(requests, request)
        /\ IsSequence(requests)
      BY <1>3 DEF Calls, SwitchInv
  <2>2. /\ n \in Nat /\ Len(requests') = n + 1
        /\ \A i \in 1 .. n : requests'[i] = requests[i]
        /\ requests'[n + 1] = request
        /\ IsSequence(requests')
      BY <2>1, SequenceOf, Appended
  <2> HIDE DEF n
  <2>3. ASSUME Only({"timeout"}), NEW key \in Toggles
        PROVE  Follows(key)'
    <3>1. Follows(key) /\ switches' = switches /\ Shown(key)' = Shown(key)
        BY <2>3, <1>1 DEF SwitchInv, Shown
    <3>2. ~ Sets(request, key)
        BY DEF Sets
    <3>3. CASE NoneSets(key) /\ switches[1][key] = Shown(key)
      <4>1. NoneSets(key)'
          BY <2>2, <3>2, <3>3 DEF NoneSets, n
      <4> QED
          BY <4>1, <3>1, <3>3 DEF Follows
    <3>4. CASE LastSets(key, switches[1][key])
      <4>1. LastSets(key, switches[1][key])'
          BY <2>2, <3>1, <3>2, <3>4 DEF LastSets, n
      <4> QED
          BY <4>1 DEF Follows
    <3> QED
        BY <3>1, <3>3, <3>4 DEF Follows
  <2> QED
      BY <1>1, <2>2, <2>3 DEF SwitchInv, Only
<1> QED
    BY <1>2, <1>3

LEMMA ToggleSwitches ==
    ASSUME SwitchInv, NEW w \in DOMAIN switches, NEW k \in Toggles, Toggle(w, k)
    PROVE  SwitchInv'
<1> DEFINE value == ~ switches[w][k]
           request == Call("Set", w, <<k, value>>)
           n == Len(requests)
<1>1. /\ gui = "open" /\ UNCHANGED <<gui, up, exported, settings, daemon_paused, happened>>
      /\ switches' = [switches EXCEPT ![w][k] = ~ @]
      /\ requests' = IF exported THEN Append(requests, request) ELSE requests
      /\ IsSequence(requests)
    BY DEF Toggle, Calls, vars, AtWindows, Idle, SwitchInv
<1>2. IsSequence(requests')
    BY <1>1, Appended
<1>3. ASSUME Only({"timeout"}), NEW key \in Toggles
      PROVE  Follows(key)'
  <2>1. /\ exported /\ DOMAIN switches = {1} /\ DOMAIN switches[1] = Toggles /\ w = 1
        /\ Follows(key)
      BY <1>3 DEF SwitchInv
  <2>2. /\ n \in Nat /\ Len(requests') = n + 1
        /\ \A i \in 1 .. n : requests'[i] = requests[i]
        /\ requests'[n + 1] = request
      BY <1>1, <2>1, SequenceOf, Appended
  <2>3. request.method = "Set" /\ request.args[1] = k /\ request.args[2] = value
      BY DEF Call
  <2> HIDE DEF n, request
  <2>4. CASE key = k
    <3>1. switches'[1][key] = value
        BY <1>1, <2>1, <2>4
    <3> HIDE DEF value
    <3>2. LastSets(key, switches[1][key])'
      <4>1. requests'[n + 1].args[2] = switches'[1][key]
          BY <2>2, <2>3, <3>1
      <4>2. Sets(requests'[n + 1], key)
          BY <2>2, <2>3, <2>4 DEF Sets
      <4> QED
          BY <2>2, <4>1, <4>2 DEF LastSets
    <3> QED
        BY <3>2 DEF Follows
  <2>5. CASE key # k
    <3>1. switches'[1][key] = switches[1][key] /\ Shown(key)' = Shown(key)
        BY <1>1, <2>1, <2>5 DEF Shown
    <3>2. ~ Sets(request, key)
        BY <2>3, <2>5 DEF Sets
    <3>3. CASE NoneSets(key) /\ switches[1][key] = Shown(key)
      <4>1. NoneSets(key)'
          BY <2>2, <3>2, <3>3 DEF NoneSets, n
      <4> QED
          BY <4>1, <3>1, <3>3 DEF Follows
    <3>4. CASE LastSets(key, switches[1][key])
      <4>1. LastSets(key, switches[1][key])'
          BY <2>2, <3>1, <3>2, <3>4 DEF LastSets, n
      <4> QED
          BY <4>1 DEF Follows
    <3> QED
        BY <2>1, <3>3, <3>4 DEF Follows
  <2> QED
      BY <2>4, <2>5
<1>4. Only({"timeout"}) => DOMAIN switches' = {1} /\ DOMAIN switches'[1] = Toggles
    BY <1>1 DEF SwitchInv
<1> QED
    BY <1>1, <1>2, <1>3, <1>4 DEF SwitchInv, Only

\* Serving a request that sets a switch, and any other.
LEMMA ServeEffect ==
    ASSUME DOMAIN settings = Keys, NEW request, Does(request) \/ Refuses(request)
    PROVE  /\ UNCHANGED <<up, exported>> /\ DOMAIN settings' = Keys
           /\ \A key \in Toggles :
                 Shown(key)' = IF Sets(request, key) THEN request.args[2] ELSE Shown(key)
<1> DEFINE k == request.args[1]
           value == request.args[2]
<1>1. CASE request.method = "Set" /\ k = "Paused" /\ SetPaused(value)
    BY <1>1 DEF SetPaused, vars, Shown, Sets
<1>2. CASE request.method = "Set" /\ k # "Paused" /\ SetSetting(k, value) /\ UNCHANGED daemon_paused
  <2>1. /\ settings' = [settings EXCEPT ![k] = value]
        /\ UNCHANGED <<up, exported, daemon_paused>>
      BY <1>2 DEF SetSetting
  <2>2. ASSUME NEW key \in Toggles
        PROVE  Shown(key)' = IF Sets(request, key) THEN value ELSE Shown(key)
    <3>1. key = "Paused" \/ key \in Keys
        BY GuiAssumption DEF Keys
    <3> QED
        BY <1>2, <2>1, <3>1 DEF Shown, Sets
  <2> QED
      BY <2>1, <2>2
<1>3. CASE request.method # "Set" /\ UNCHANGED <<up, exported, settings, daemon_paused>>
    BY <1>3 DEF Shown, Sets
<1>4. Does(request) => \/ request.method = "Set" /\ k = "Paused" /\ SetPaused(value)
                       \/ request.method = "Set" /\ k # "Paused" /\ SetSetting(k, value) /\ UNCHANGED daemon_paused
                       \/ request.method # "Set" /\ UNCHANGED <<up, exported, settings, daemon_paused>>
    BY DEF Does, AddAction, RemoveAction, SetName, SetTrigger, SetExec, SetResumeExec, SetProperty
<1>5. Refuses(request) => /\ request.method # "Set"
                          /\ UNCHANGED <<up, exported, settings, daemon_paused>>
    BY DEF Refuses, vars, Range, Fields
<1> QED
    BY <1>1, <1>2, <1>3, <1>4, <1>5

LEMMA ServeSwitches ==
    ASSUME SwitchInv, Serve
    PROVE  SwitchInv'
<1> DEFINE n == Len(requests)
           request == Head(requests)
<1>1. /\ IsSequence(requests) /\ requests # <<>> /\ requests' = Tail(requests)
      /\ UNCHANGED <<gui, switches, happened>> /\ DOMAIN settings = Keys
      /\ Does(request) \/ Refuses(request)
    BY DEF Serve, windowVars, SwitchInv
<1>2. /\ IsSequence(requests') /\ n \in Nat /\ n > 0 /\ Len(requests') = n - 1
      /\ \A i \in 1 .. n - 1 : requests'[i] = requests[i + 1]
      /\ request = requests[1]
    BY <1>1, SequenceOf, TailOf
<1>3. /\ UNCHANGED <<up, exported>> /\ DOMAIN settings' = Keys
      /\ \A key \in Toggles :
            Shown(key)' = IF Sets(request, key) THEN request.args[2] ELSE Shown(key)
    BY <1>1, ServeEffect
<1> HIDE DEF request
<1>4. ASSUME Only({"timeout"}), NEW key \in Toggles
      PROVE  Follows(key)'
  <2>1. Follows(key)
      BY <1>4 DEF SwitchInv
  <2>2. CASE NoneSets(key) /\ switches[1][key] = Shown(key)
    <3>1. ~ Sets(request, key) /\ NoneSets(key)'
        BY <1>2, <2>2 DEF NoneSets, n
    <3> QED
        BY <1>1, <1>3, <2>2, <3>1 DEF Follows
  <2>3. CASE LastSets(key, switches[1][key])
    <3>1. PICK i \in 1 .. n :
             /\ Sets(requests[i], key) /\ requests[i].args[2] = switches[1][key]
             /\ \A j \in i + 1 .. n : ~ Sets(requests[j], key)
        BY <2>3 DEF LastSets, n
    <3>2. CASE i = 1
      <4>1. NoneSets(key)'
          BY <1>2, <3>1, <3>2 DEF NoneSets, n
      <4>2. Shown(key)' = switches[1][key]
          BY <1>2, <1>3, <3>1, <3>2
      <4> QED
          BY <1>1, <4>1, <4>2 DEF Follows
    <3>3. CASE i > 1
      <4>1. /\ i - 1 \in 1 .. n - 1 /\ requests'[i - 1] = requests[i]
            /\ \A j \in i .. n - 1 : ~ Sets(requests'[j], key)
          BY <1>2, <3>1, <3>3
      <4>2. /\ i - 1 \in 1 .. Len(requests') /\ Sets(requests'[i - 1], key)
            /\ requests'[i - 1].args[2] = switches'[1][key]
            /\ \A j \in (i - 1) + 1 .. Len(requests') : ~ Sets(requests'[j], key)
          BY <1>1, <1>2, <3>1, <3>3, <4>1
      <4>3. LastSets(key, switches[1][key])'
          BY <4>2 DEF LastSets
      <4> QED
          BY <4>3 DEF Follows
    <3> QED
        BY <3>1, <3>2, <3>3
  <2> QED
      BY <2>1, <2>2, <2>3 DEF Follows
<1>5. gui # "absent"
    BY <1>1 DEF SwitchInv
<1> QED
    BY <1>1, <1>2, <1>3, <1>4, <1>5 DEF SwitchInv, Only

LEMMA ActivateSwitches ==
    ASSUME SwitchInv, Activate
    PROVE  SwitchInv'
<1>1. /\ UNCHANGED <<up, exported, settings, daemon_paused, requests, call>>
      /\ exported /\ requests = <<>> /\ gui' = "open"
      /\ switches' = Append(switches, [key \in Toggles |-> Shown(key)])
    BY DEF Activate, vars, Loadable
<1>2. CASE gui = "absent"
  <2>1. switches = <<>> /\ happened = {}
      BY <1>2 DEF SwitchInv
  <2>2. switches' = <<[key \in Toggles |-> Shown(key)]>>
      BY <1>1, <2>1
  <2>3. DOMAIN switches' = {1} /\ switches'[1] = [key \in Toggles |-> Shown(key)]
      BY <2>2
  <2>5. \A key \in Toggles : NoneSets(key)' /\ switches'[1][key] = Shown(key)'
      BY <1>1, <2>3, EmptySequence DEF NoneSets, Shown
  <2> QED
      BY <1>1, <2>3, <2>5 DEF SwitchInv, Only, Follows
<1>3. CASE gui # "absent"
  <2>1. happened' = {"detached"} \/ happened' = {"activated"}
      BY <1>3 DEF Activate, Mishap
  <2> QED
      BY <1>1, <2>1, OtherMishap DEF SwitchInv
<1> QED
    BY <1>2, <1>3

\* A client changes neither the domain of the settings nor whether the daemon runs.
LEMMA ClientKeeps ==
    ASSUME DOMAIN settings = Keys, Client
    PROVE  UNCHANGED <<up, exported>> /\ DOMAIN settings' = Keys
  BY DEF Client, AddAction, RemoveAction, SetName, SetTrigger, SetExec, SetResumeExec,
         SetProperty, SetSetting

LEMMA MishapSwitches ==
    ASSUME SwitchInv, GiveUp \/ DaemonKilled \/ Rival
    PROVE  SwitchInv'
<1>1. CASE GiveUp
  <2>1. gui # "absent"
      BY <1>1 DEF GiveUp, SwitchInv, NoCall
  <2> QED
      BY <1>1, <2>1, KeptSwitches DEF GiveUp, vars, windowVars, Mishap
<1>2. CASE DaemonKilled
  <2>1. DOMAIN settings' = Keys /\ exported' = FALSE /\ requests' = <<>>
      BY <1>2 DEF DaemonKilled, Killed, GoDown
  <2> QED
      BY <1>2, <2>1, OtherMishap, EmptySequence DEF DaemonKilled, windowVars, Mishap
<1>3. CASE Rival
  <2>1. DOMAIN settings' = Keys /\ UNCHANGED <<up, exported>>
      BY <1>3, ClientKeeps DEF Rival, SwitchInv
  <2> QED
      BY <1>3, <2>1, OtherMishap DEF Rival, windowVars, Mishap, SwitchInv
<1> QED
    BY <1>1, <1>2, <1>3

LEMMA DaemonSwitches ==
    ASSUME SwitchInv, Daemon
    PROVE  SwitchInv'
<1>1. UNCHANGED <<daemon_paused, requests, gui, switches, call, happened>>
    BY DEF Daemon, windowVars
<1>2. CASE Start
  <2>1. ~ exported /\ exported' = exported /\ DOMAIN settings' = Keys
      BY <1>2 DEF Start, SwitchInv, ReadMain
  <2> QED
      BY <1>1, <2>1 DEF SwitchInv, Only
<1>3. CASE BusAcquired
  <2>1. up /\ exported' /\ ~ exported /\ UNCHANGED <<up, settings>>
      BY <1>3 DEF BusAcquired
  <2> QED
      BY <1>1, <2>1 DEF SwitchInv, Only
<1>4. CASE Save
  <2>1. UNCHANGED <<up, exported, settings>>
      BY <1>4 DEF Save
  <2> QED
      BY <1>1, <2>1, KeptSwitches
<1> QED
    BY <1>2, <1>3, <1>4 DEF Daemon

LEMMA UserSwitches ==
    ASSUME SwitchInv, User
    PROVE  SwitchInv'
<1>1. ASSUME NEW row, ClickDelete(row)
      PROVE  SwitchInv'
  <2>1. Call("RemoveAction", rows[row].id, <<>>).method # "Set"
      BY DEF Call
  <2> QED
      BY <1>1, <2>1, CallKeepsSwitches DEF ClickDelete, windowVars, AtWindows, Idle
<1>2. ASSUME NEW entry, AddOk(entry)
      PROVE  SwitchInv'
  <2>1. Call("AddAction", 0, <<entry>>).method # "Set"
      BY DEF Call
  <2> QED
      BY <1>2, <2>1, CallKeepsSwitches DEF AddOk, windowVars, Idle
<1>3. ASSUME NEW entry, EditOk(entry)
      PROVE  SwitchInv'
    BY <1>3, KeptSwitches DEF EditOk, windowVars, vars, Idle
<1>4. CASE ActivateInVain
    BY <1>4, KeptSwitches DEF ActivateInVain, vars
<1>5. ASSUME NEW row, ClickEdit(row) \/ AssertionFails(row)
      PROVE  SwitchInv'
    BY <1>5, KeptSwitches DEF ClickEdit, AssertionFails, vars, windowVars, AtWindows, Idle
<1>6. CASE ClickAdd \/ Cancel
    BY <1>6, KeptSwitches DEF ClickAdd, Cancel, vars, windowVars, AtWindows, Idle
<1> QED
    BY <1>1, <1>2, <1>3, <1>4, <1>5, <1>6, ActivateSwitches, ToggleSwitches DEF User

LEMMA GuiSwitches ==
    ASSUME SwitchInv, Gui
    PROVE  SwitchInv'
<1>1. CASE SendField
  <2>1. Call(NextField, dialog.id, <<dialog.entry>>).method # "Set"
    <3>1. Left(dialog.entry, dialog.cmd) # {}
        BY <1>1 DEF SendField
    <3>2. \A i \in DOMAIN Fields : Fields[i] # "Set"
        BY DEF Fields
    <3> QED
        BY <3>1, <3>2, FieldChosen DEF Call
  <2> QED
      BY <1>1, <2>1, CallKeepsSwitches DEF SendField, windowVars, Idle
<1>2. CASE EditDone
    BY <1>2, KeptSwitches DEF EditDone, vars, windowVars, Idle
<1>3. CASE \E method, status : Returns(method, status) /\ UNCHANGED <<gui, switches>> /\ status # "none"
  <2>1. gui # "absent"
      BY <1>3 DEF Returns, SwitchInv, NoCall
  <2> QED
      BY <1>3, <2>1, KeptSwitches DEF Returns, vars
<1>4. Gui => \/ SendField \/ EditDone
             \/ \E method, status : Returns(method, status) /\ UNCHANGED <<gui, switches>> /\ status # "none"
  <2>1. ToggleReturns \/ Deleted \/ NotDeleted \/ Added \/ NotAdded =>
           \E method, status : Returns(method, status) /\ UNCHANGED <<gui, switches>> /\ status # "none"
      BY DEF ToggleReturns, Deleted, NotDeleted, Added, NotAdded, windowVars
  <2>2. FieldTaken \/ FieldRefused =>
           \E method, status : Returns(method, status) /\ UNCHANGED <<gui, switches>> /\ status # "none"
      BY DEF FieldTaken, FieldRefused, windowVars
  <2> QED
      BY <2>1, <2>2 DEF Gui
<1> QED
    BY <1>1, <1>2, <1>3, <1>4

LEMMA NextSwitches == SwitchInv /\ [GuiNext]_allVars => SwitchInv'
<1>1. SwitchInv /\ UNCHANGED allVars => SwitchInv'
    BY KeptSwitches DEF allVars, vars, windowVars
<1> QED
    BY <1>1, UserSwitches, GuiSwitches, MishapSwitches, DaemonSwitches, ServeSwitches
    DEF GuiNext

-----------------------------------------------------------------------------
(* The copies are records, so that an edit of a field changes it.          *)

IsCopy(cmd) == cmd = [name |-> cmd.name, trigger |-> cmd.trigger,
                      timeout_ms |-> cmd.timeout_ms, exec |-> cmd.exec,
                      resume_exec |-> cmd.resume_exec]

IsInfo(info) == info = [cmd |-> info.cmd, row |-> info.row] /\ IsCopy(info.cmd)

IsDialog(d) ==
    /\ d = [kind |-> d.kind, id |-> d.id, cmd |-> d.cmd, attached |-> d.attached,
            shown |-> d.shown, ok |-> d.ok, entry |-> d.entry]
    /\ IsCopy(d.cmd) /\ IsCopy(d.shown) /\ IsCopy(d.entry)

CopyInv == /\ \A id \in DOMAIN id_to_action_info : IsInfo(id_to_action_info[id])
           /\ IsDialog(dialog)

LEMMA NewIsCopy ==
    ASSUME NEW name, NEW text, NEW exec, NEW resume_exec
    PROVE  /\ IsCopy(NewCommand(name, text, exec, resume_exec))
           /\ IsCopy(Typed(name, text, exec, resume_exec))
  BY DEF IsCopy, NewCommand, Typed

LEMMA FieldSet ==
    ASSUME NEW cmd, IsCopy(cmd), NEW value
    PROVE  /\ IsCopy([cmd EXCEPT !.name = value])
           /\ IsCopy([cmd EXCEPT !.timeout_ms = value])
           /\ IsCopy([cmd EXCEPT !.trigger = value])
           /\ IsCopy([cmd EXCEPT !.exec = value])
           /\ IsCopy([cmd EXCEPT !.resume_exec = value])
  BY DEF IsCopy

LEMMA EditsAreCopies ==
    ASSUME NEW cmd, IsCopy(cmd), NEW entry
    PROVE  /\ IsCopy(Prefilled(cmd))
           /\ \A i \in DOMAIN Fields : IsCopy(AcceptedField(cmd, Fields[i], entry))
<1>2. ASSUME NEW t, NEW ms
      PROVE  IsCopy([cmd EXCEPT !.trigger = t, !.timeout_ms = ms])
  <2> DEFINE set == [cmd EXCEPT !.trigger = t]
  <2>1. IsCopy(set)
      BY FieldSet
  <2> HIDE DEF set
  <2>2. IsCopy([set EXCEPT !.timeout_ms = ms])
      BY <2>1, FieldSet
  <2> QED
      BY <2>2 DEF set
<1>3. IsCopy(Prefilled(cmd))
    BY FieldSet DEF Prefilled
<1>4. ASSUME NEW field \in {"Name", "Trigger", "Exec", "ResumeExec"}
      PROVE  IsCopy(AcceptedField(cmd, field, entry))
  <2>1. CASE field = "Name"
      BY FieldSet, <2>1 DEF AcceptedField
  <2>2. CASE field = "Trigger"
      BY <1>2, <2>2 DEF AcceptedField
  <2>3. CASE field = "Exec"
      BY FieldSet, <2>3 DEF AcceptedField
  <2>4. CASE field = "ResumeExec"
      BY FieldSet, <2>4 DEF AcceptedField
  <2> QED
      BY <2>1, <2>2, <2>3, <2>4
<1>5. \A i \in DOMAIN Fields : Fields[i] \in {"Name", "Trigger", "Exec", "ResumeExec"}
    BY DEF Fields
<1> QED
    BY <1>3, <1>4, <1>5

\* What Prefilled changes of a copy is its timeout.
LEMMA PrefilledFields ==
    ASSUME NEW cmd, IsCopy(cmd)
    PROVE  /\ Prefilled(cmd).name = cmd.name /\ Prefilled(cmd).trigger = cmd.trigger
           /\ Prefilled(cmd).exec = cmd.exec
           /\ Prefilled(cmd).resume_exec = cmd.resume_exec
  BY DEF IsCopy, Prefilled

\* A field that differs between an entry and what the copy has become was changed by
\* the user, or is a timeout that the entry could not be filled with.
LEMMA DifferenceIsChange ==
    ASSUME NEW shown, IsCopy(shown), NEW entry, NEW cmd, NEW i \in DOMAIN Fields,
           Differs(Fields[i], entry, cmd)
    PROVE  \/ Differs(Fields[i], entry, Prefilled(shown))
           \/ Differs(Fields[i], cmd, shown)
           \/ Fields[i] = "Trigger" /\ Prefilled(shown) # shown
<1>1. DOMAIN Fields = 1 .. 4
    BY DEF Fields
<1>2. CASE i = 1
    BY <1>2, PrefilledFields DEF Differs, Fields
<1>3. CASE i = 2
    BY <1>3, PrefilledFields DEF Differs, Fields
<1>4. CASE i = 3
    BY <1>4, PrefilledFields DEF Differs, Fields
<1>5. CASE i = 4
    BY <1>5, PrefilledFields DEF Differs, Fields
<1> QED
    BY <1>1, <1>2, <1>3, <1>4, <1>5

LEMMA InitCopies == GuiInit => CopyInv
<1> SUFFICES ASSUME GuiInit PROVE CopyInv
    OBVIOUS
<1>1. DOMAIN id_to_action_info = {}
    BY DEF GuiInit
<1>2. IsCopy(NoCommand)
    BY NewIsCopy DEF NoCommand
<1>3. IsDialog(NoDialog)
    BY <1>2 DEF IsDialog, NoDialog
<1> QED
    BY <1>1, <1>3 DEF CopyInv, GuiInit

LEMMA NoDialogIsDialog == IsDialog(NoDialog) /\ IsCopy(NoCommand)
<1>1. IsCopy(NoCommand)
    BY NewIsCopy DEF NoCommand
<1> QED
    BY <1>1 DEF IsDialog, NoDialog

LEMMA OkSet ==
    ASSUME NEW d, IsDialog(d), NEW value
    PROVE  IsDialog([d EXCEPT !.ok = value])
  BY DEF IsDialog

LEMMA ActivateCopies ==
    ASSUME CopyInv, Activate
    PROVE  CopyInv'
<1> DEFINE cmd == Loaded
           row == RowsOf(DOMAIN cmd)
<1>1. /\ id_to_action_info' = [id \in DOMAIN cmd |-> [cmd |-> cmd[id], row |-> row[id]]]
      /\ dialog' = [dialog EXCEPT !.attached = FALSE]
    BY DEF Activate
<1>2. \A id \in DOMAIN cmd : IsCopy(cmd[id])
  <2>1. \A id \in DOMAIN objects : IsCopy(Got(objects[id]))
      BY NewIsCopy DEF Got
  <2> QED
      BY <2>1 DEF Loaded, CopyInv, IsInfo
<1> HIDE DEF cmd, row
<1>3. \A id \in DOMAIN id_to_action_info' : IsInfo(id_to_action_info'[id])
    BY <1>1, <1>2 DEF IsInfo
<1>4. IsDialog(dialog')
    BY <1>1 DEF CopyInv, IsDialog
<1> QED
    BY <1>3, <1>4 DEF CopyInv

LEMMA UserCopies ==
    ASSUME CopyInv, User
    PROVE  CopyInv'
<1>1. \A entry \in Entries : IsCopy(entry)
    BY NewIsCopy DEF Entries
<1>2. ASSUME NEW entry \in Entries, AddOk(entry) \/ EditOk(entry)
      PROVE  CopyInv'
  <2>1. /\ id_to_action_info' = id_to_action_info
        /\ dialog' = [dialog EXCEPT !.ok = TRUE, !.entry = entry]
      BY <1>2 DEF AddOk, EditOk, windowVars
  <2>2. IsDialog(dialog')
      BY <1>1, <2>1 DEF CopyInv, IsDialog
  <2> QED
      BY <2>1, <2>2 DEF CopyInv
<1>3. ASSUME NEW row, ClickEdit(row)
      PROVE  CopyInv'
  <2> DEFINE cmd == id_to_action_info[rows[row].id].cmd
  <2>1. /\ IsCopy(cmd) /\ id_to_action_info' = id_to_action_info
        /\ dialog' = [NoDialog EXCEPT !.kind = "edit", !.id = rows[row].id,
                                      !.attached = TRUE, !.cmd = cmd, !.shown = cmd]
      BY <1>3 DEF ClickEdit, CopyInv, IsInfo, windowVars
  <2> HIDE DEF cmd
  <2>2. IsDialog(dialog')
      BY <2>1, NoDialogIsDialog DEF IsDialog
  <2> QED
      BY <2>1, <2>2 DEF CopyInv
<1>4. CASE ClickAdd \/ Cancel
  <2>1. /\ id_to_action_info' = id_to_action_info
        /\ dialog' = [NoDialog EXCEPT !.kind = "add"] \/ dialog' = NoDialog
      BY <1>4 DEF ClickAdd, Cancel, windowVars
  <2>2. IsDialog(dialog')
      BY <2>1, NoDialogIsDialog DEF IsDialog
  <2> QED
      BY <2>1, <2>2 DEF CopyInv
<1>5. ASSUME UNCHANGED <<id_to_action_info, dialog>>
      PROVE  CopyInv'
    BY <1>5 DEF CopyInv
<1>6. ASSUME NEW w, NEW key, Toggle(w, key)
      PROVE  CopyInv'
    BY <1>5, <1>6 DEF Toggle
<1>7. ASSUME NEW row, ClickDelete(row) \/ AssertionFails(row)
      PROVE  CopyInv'
    BY <1>5, <1>7 DEF ClickDelete, AssertionFails, windowVars
<1>8. CASE ActivateInVain
    BY <1>5, <1>8 DEF ActivateInVain
<1> QED
    BY <1>2, <1>3, <1>4, <1>6, <1>7, <1>8, ActivateCopies DEF User

LEMMA GuiCopies ==
    ASSUME CopyInv, Gui
    PROVE  CopyInv'
<1>1. IsDialog(dialog) /\ \A id \in DOMAIN id_to_action_info : IsInfo(id_to_action_info[id])
    BY DEF CopyInv
<1>2. IsDialog(Resumed)
  <2> DEFINE d == [dialog EXCEPT !.ok = FALSE]
  <2>1. Resumed = [d EXCEPT !.entry = NoCommand]
      BY DEF Resumed
  <2>2. IsDialog(d)
      BY <1>1, OkSet
  <2> HIDE DEF d
  <2> QED
      BY <2>1, <2>2, NoDialogIsDialog DEF IsDialog
<1>3. CASE ToggleReturns \/ NotDeleted \/ SendField
    BY <1>3, <1>1 DEF ToggleReturns, NotDeleted, SendField, windowVars, CopyInv
<1>4. CASE NotAdded \/ FieldRefused
    BY <1>4, <1>1, <1>2 DEF NotAdded, FieldRefused, windowVars, CopyInv
<1>5. CASE EditDone
    BY <1>5, <1>1, NoDialogIsDialog DEF EditDone, windowVars, CopyInv
<1>6. CASE Deleted
  <2>1. /\ dialog' = dialog
        /\ id_to_action_info' = [i \in DOMAIN id_to_action_info \ {call.of.id} |->
                                    id_to_action_info[i]]
      BY <1>6 DEF Deleted
  <2> QED
      BY <1>1, <2>1 DEF CopyInv
<1>7. CASE Added
  <2> DEFINE info == [cmd |-> dialog.entry, row |-> LastRow + 1]
  <2>1. /\ dialog' = NoDialog
        /\ id_to_action_info' = [i \in DOMAIN id_to_action_info \cup {call.id} |->
                                    IF i = call.id THEN info ELSE id_to_action_info[i]]
      BY <1>7 DEF Added
  <2>2. IsInfo(info)
      BY <1>1 DEF IsInfo, IsDialog
  <2> HIDE DEF info
  <2> QED
      BY <1>1, <2>1, <2>2, NoDialogIsDialog DEF CopyInv
<1>8. ASSUME NEW i \in DOMAIN Fields,
             dialog' = [dialog EXCEPT !.cmd = AcceptedField(dialog.cmd, Fields[i], dialog.entry)],
             id_to_action_info' =
                 IF dialog.attached
                 THEN [id_to_action_info EXCEPT ![dialog.id].cmd =
                          AcceptedField(dialog.cmd, Fields[i], dialog.entry)]
                 ELSE id_to_action_info
      PROVE  CopyInv'
  <2> DEFINE cmd == AcceptedField(dialog.cmd, Fields[i], dialog.entry)
  <2>1. IsCopy(cmd)
      BY <1>1, EditsAreCopies DEF IsDialog
  <2> HIDE DEF cmd
  <2>2. IsDialog(dialog')
      BY <1>1, <1>8, <2>1 DEF IsDialog, cmd
  <2>3. \A id \in DOMAIN id_to_action_info' : IsInfo(id_to_action_info'[id])
    <3>1. CASE dialog.attached
      <4>1. id_to_action_info' = [id_to_action_info EXCEPT ![dialog.id].cmd = cmd]
          BY <1>8, <3>1 DEF cmd
      <4> QED
          BY <1>1, <2>1, <4>1 DEF IsInfo
    <3>2. CASE ~ dialog.attached
        BY <1>1, <1>8, <3>2
    <3> QED
        BY <3>1, <3>2
  <2> QED
      BY <2>2, <2>3 DEF CopyInv
<1>9. CASE FieldTaken
    BY <1>8, <1>9 DEF FieldTaken
<1> QED
    BY <1>3, <1>4, <1>5, <1>6, <1>7, <1>9 DEF Gui

LEMMA NextCopies == CopyInv /\ [GuiNext]_allVars => CopyInv'
<1>1. CopyInv /\ UNCHANGED <<id_to_action_info, dialog>> => CopyInv'
    BY DEF CopyInv
<1>2. UNCHANGED allVars \/ Serve \/ Daemon \/ GiveUp \/ DaemonKilled \/ Rival
         => UNCHANGED <<id_to_action_info, dialog>>
    BY DEF allVars, windowVars, Serve, Daemon, GiveUp, DaemonKilled, Rival
<1> QED
    BY <1>1, <1>2, UserCopies, GuiCopies DEF GuiNext

\* A call that begins is SendField's, or of a method that is no field.
LEMMA OnlyFieldsSent ==
    ASSUME CopyInv, [GuiNext]_allVars, NEW i \in DOMAIN Fields,
           call.status = "none", call'.status # "none", call'.of.method = Fields[i]
    PROVE  \/ Changed(Fields[i])
           \/ Fields[i] = "Trigger" /\ Prefilled(dialog.shown) # dialog.shown
<1>1. Fields[i] \notin {"none", "Set", "RemoveAction", "AddAction"}
    BY DEF Fields
<1>2. ASSUME NEW request, Calls(request)
      PROVE  request.method = Fields[i]
    BY <1>2 DEF Calls
<1>3. ASSUME NEW method, NEW id, NEW args, Calls(Call(method, id, args))
      PROVE  method = Fields[i]
    BY <1>2, <1>3 DEF Call
<1>4. CASE SendField
  <2>1. /\ NextField = Fields[i]
        /\ Left(dialog.entry, dialog.cmd) # {}
      BY <1>3, <1>4 DEF SendField
  <2>2. PICK j \in DOMAIN Fields :
           Fields[i] = Fields[j] /\ Differs(Fields[j], dialog.entry, dialog.cmd)
      BY <2>1, FieldChosen DEF Left
  <2>3. IsCopy(dialog.shown)
      BY DEF CopyInv, IsDialog
  <2> QED
      BY <2>2, <2>3, DifferenceIsChange DEF Changed
<1>5. ~ User
  <2>1. ASSUME NEW w, NEW key, Toggle(w, key) PROVE FALSE
      BY <1>1, <1>3, <2>1 DEF Toggle
  <2>2. ASSUME NEW row, ClickDelete(row) PROVE FALSE
      BY <1>1, <1>3, <2>2 DEF ClickDelete
  <2>3. ASSUME NEW entry, AddOk(entry) PROVE FALSE
      BY <1>1, <1>3, <2>3 DEF AddOk
  <2>4. ASSUME NEW entry, EditOk(entry) PROVE FALSE
      BY <2>4 DEF EditOk
  <2>5. ASSUME NEW row, ClickEdit(row) \/ AssertionFails(row) PROVE FALSE
      BY <2>5 DEF ClickEdit, AssertionFails
  <2>6. ~ (Activate \/ ActivateInVain \/ ClickAdd \/ Cancel)
      BY DEF Activate, ActivateInVain, ClickAdd, Cancel
  <2> QED
      BY <2>1, <2>2, <2>3, <2>4, <2>5, <2>6 DEF User
<1>6. Gui => SendField
    BY DEF Gui, ToggleReturns, Deleted, NotDeleted, Added, NotAdded, FieldTaken,
           FieldRefused, EditDone, Returns, NoCall
<1>7. ~ (UNCHANGED allVars \/ Serve \/ Daemon \/ GiveUp \/ DaemonKilled \/ Rival)
    BY DEF allVars, Serve, Answer, Daemon, GiveUp, DaemonKilled, Rival
<1> QED
    BY <1>4, <1>5, <1>6, <1>7 DEF GuiNext

-----------------------------------------------------------------------------
(* Theorems.                                                               *)

\* Without another mishap than calls given up, a switch shows the value of its
\* setting once the daemon has served everything (on_setting_changed,
\* on_pause_changed).
THEOREM SwitchesAgree == GuiSpec => []SwitchAgrees
<1>1. SwitchInv => SwitchAgrees
    BY EmptySequence DEF SwitchInv, SwitchAgrees, Follows, LastSets
<1> QED
    BY <1>1, InitSwitches, NextSwitches, PTL DEF GuiSpec

\* An edit sends a field the user has changed, or a timeout that the dialog cannot
\* show, in every state of the copy and of the daemon (on_action_edited).
THEOREM EditsSendChanges == GuiSpec => OnlyChangesSent
<1>1. CopyInv /\ [GuiNext]_allVars =>
         [\A i \in DOMAIN Fields :
             (call'.status # "none" /\ call.status = "none" /\ call'.of.method = Fields[i])
             => \/ Changed(Fields[i])
                \/ Fields[i] = "Trigger" /\ Prefilled(dialog.shown) # dialog.shown]_allVars
    BY OnlyFieldsSent
<1> QED
    BY <1>1, InitCopies, NextCopies, PTL DEF GuiSpec, OnlyChangesSent

=============================================================================
