-------------------------- MODULE ConfigStoreProofs --------------------------
(***************************************************************************)
(* Theorems about ConfigStore, for any names, commands, timeouts, width of *)
(* int, hand-made files and number of actions and pending saves.           *)
(***************************************************************************)
EXTENDS ConfigStore, FiniteSetTheorems, TLAPS

-----------------------------------------------------------------------------
(* The inductive invariant.                                                *)

\* A timeout is a number of seconds that set_trigger_from_str has accepted.
WholeSeconds(cmd) ==
    cmd.trigger = "TIMEOUT" => \E s \in 1 .. MaxInt : cmd.timeout_ms = s * MsPerSecond

\* Before the bus is acquired nobody calls; a process that is down has no state.
Phases ==
    /\ exported => up
    /\ pending > 0 => exported
    /\ unsaved => up
    /\ ~ up => DOMAIN cmds = {}

\* A section that also parses, if the timeout of its command can be printed.
Represents(section, name, cmd) ==
    /\ StandsFor(section, name, cmd)
    /\ Printable(cmd) => section.trigger \in Texts /\ Accepted(section.trigger)

\* What the file is between a save and the next change.
Faithful ==
    \/ /\ file = Garbled
       /\ \E id \in DOMAIN cmds : {cmds[id].exec, cmds[id].resume_exec} \cap Multiline # {}
    \/ /\ file.kind = "ini"
       /\ ReadMain(file.main) = settings
       /\ \A id \in DOMAIN cmds :
             cmds[id].name \notin Unwritable => cmds[id].name \in DOMAIN file.actions
       /\ \A n \in DOMAIN file.actions :
             \E id \in DOMAIN cmds : Represents(file.actions[n], n, cmds[id])

Inv == /\ TypeOK
       /\ Phases
       /\ \A id \in DOMAIN cmds : WholeSeconds(cmds[id])
       /\ ViewTells
       /\ Saved => Faithful

-----------------------------------------------------------------------------
(* Lemmas about the trigger's text.                                        *)

\* Division undoes the multiplication, and a product that fits an int is not
\* changed by its conversion.
LEMMA QuotOfProduct ==
    ASSUME NEW s \in Nat, NEW m \in Nat \ {0}
    PROVE  /\ s * m \in Nat
           /\ (s * m) \div m = s
  OBVIOUS

LEMMA ToIntOfInt ==
    ASSUME NEW n \in Nat, n <= MaxInt
    PROVE  ToInt(n) = n
<1> DEFINE w == 2 * (MaxInt + 1)
           k == n + MaxInt + 1
<1>1. w \in Nat /\ k \in Nat /\ w > 0 /\ k < w
    BY WidthAssumption
<1> HIDE DEF w, k
<1>2. k % w = k
    BY <1>1
<1> QED
    BY <1>2, WidthAssumption DEF ToInt, w, k

LEMMA IntArithmetic ==
    ASSUME NEW n \in Int
    PROVE  /\ ToInt(n) \in Int
           /\ Quot(n, MsPerSecond) \in Int
<1> DEFINE w == 2 * (MaxInt + 1)
<1>1. w \in Nat /\ w > 0
    BY WidthAssumption
<1> HIDE DEF w
<1>2. (n + MaxInt + 1) % w \in Int
    BY <1>1, WidthAssumption
<1>3. ToInt(n) \in Int
    BY <1>2, WidthAssumption DEF ToInt, w
<1>4. \A i \in Int : i \div MsPerSecond \in Int
    BY WidthAssumption
<1>5. -n \in Int
    OBVIOUS
<1>6. -((-n) \div MsPerSecond) \in Int
    BY <1>4, <1>5
<1> QED
    BY <1>3, <1>4, <1>6 DEF Quot

LEMMA ParsedType ==
    ASSUME NEW text \in Texts, Accepted(text), NEW old \in Nat
    PROVE  /\ Parsed(text, old).trigger \in {"TIMEOUT", "SLEEP", "LOCK"}
           /\ Parsed(text, old).timeout_ms \in Nat
           /\ Parsed(text, old).trigger = "TIMEOUT" =>
                 \E s \in 1 .. MaxInt : Parsed(text, old).timeout_ms = s * MsPerSecond
           /\ Parsed(text, old).trigger = Parsed(text, 0).trigger
           /\ Parsed(text, old).trigger = "TIMEOUT" =>
                 Parsed(text, old).timeout_ms = Parsed(text, 0).timeout_ms
<1>1. CASE text.kind = "timeout"
    <2>1. text.seconds \in 1 .. MaxInt /\ text.seconds \in Nat
        BY <1>1, WidthAssumption DEF Accepted
    <2>2. text.seconds * MsPerSecond \in Nat
        BY <2>1, QuotOfProduct, WidthAssumption
    <2>3. \A o : Parsed(text, o) = [trigger    |-> "TIMEOUT",
                                    timeout_ms |-> text.seconds * MsPerSecond]
        BY <1>1 DEF Parsed
    <2> QED
        BY <2>1, <2>2, <2>3
<1>2. CASE text.kind = "sleep"
    BY <1>2 DEF Parsed
<1>3. CASE text.kind = "lock"
    BY <1>3 DEF Parsed
<1> QED
    BY <1>1, <1>2, <1>3 DEF Texts

LEMMA NewCommandType ==
    ASSUME NEW name \in Names, NEW text \in Texts, Accepted(text),
           NEW exec \in CommandStrings, NEW resume_exec \in CommandStrings
    PROVE  /\ NewCommand(name, text, exec, resume_exec) \in CommandRecords
           /\ WholeSeconds(NewCommand(name, text, exec, resume_exec))
<1>1. /\ Parsed(text, 0).trigger \in {"TIMEOUT", "SLEEP", "LOCK"}
      /\ Parsed(text, 0).timeout_ms \in Nat
      /\ Parsed(text, 0).trigger = "TIMEOUT" =>
                 \E s \in 1 .. MaxInt : Parsed(text, 0).timeout_ms = s * MsPerSecond
    BY ParsedType
<1> QED
    BY <1>1 DEF NewCommand, CommandRecords, WholeSeconds

\* Two commands mean the same if they agree on what counts.
SameMeaning(c, d) ==
    /\ c.name = d.name /\ c.trigger = d.trigger
    /\ c.exec = d.exec /\ c.resume_exec = d.resume_exec
    /\ c.trigger = "TIMEOUT" => c.timeout_ms = d.timeout_ms

\* The records that reading any text may give.
AnyCommand == [name : Names, trigger : {"TIMEOUT", "SLEEP", "LOCK"}, timeout_ms : Int,
               exec : CommandStrings, resume_exec : CommandStrings]

LEMMA MeaningFields ==
    ASSUME NEW c \in AnyCommand, NEW d \in AnyCommand
    PROVE  Meaning(c) = Meaning(d) <=> SameMeaning(c, d)
<1>1. \A e \in AnyCommand :
         /\ Meaning(e) = [name |-> e.name, trigger |-> e.trigger,
                          timeout_ms |-> IF e.trigger = "TIMEOUT" THEN e.timeout_ms ELSE 0,
                          exec |-> e.exec, resume_exec |-> e.resume_exec]
    BY DEF AnyCommand, Meaning
<1> QED
    BY <1>1 DEF SameMeaning

LEMMA AnyCommandType ==
    /\ CommandRecords \subseteq AnyCommand
    /\ \A name \in Names, text \in Texts, exec, resume_exec \in CommandStrings :
          NewCommand(name, text, exec, resume_exec) \in AnyCommand
<1>1. ASSUME NEW text \in Texts
      PROVE  /\ Parsed(text, 0).trigger \in {"TIMEOUT", "SLEEP", "LOCK"}
             /\ Parsed(text, 0).timeout_ms \in Int
    BY <1>1, WidthAssumption DEF Texts, Parsed
<1>2. \A text \in Texts : /\ Parsed(text, 0).trigger \in {"TIMEOUT", "SLEEP", "LOCK"}
                          /\ Parsed(text, 0).timeout_ms \in Int
    BY <1>1
<1> QED
    BY <1>2 DEF AnyCommand, CommandRecords, NewCommand

\* The text printed for a command is a text, and reads as the command if its timeout
\* fits an int.
LEMMA TextReadsBack ==
    ASSUME NEW cmd \in CommandRecords, WholeSeconds(cmd)
    PROVE  /\ TriggerText(cmd) \in Texts
           /\ Printable(cmd) =>
                 /\ Accepted(TriggerText(cmd))
                 /\ Meaning(NewCommand(cmd.name, TriggerText(cmd), cmd.exec,
                                       cmd.resume_exec)) = Meaning(cmd)
<1> DEFINE text == TriggerText(cmd)
           read == NewCommand(cmd.name, text, cmd.exec, cmd.resume_exec)
<1>1. text \in Texts
    <2>1. Quot(ToInt(cmd.timeout_ms), MsPerSecond) \in Int
        BY IntArithmetic DEF CommandRecords
    <2> QED
        BY <2>1 DEF TriggerText, Text, Texts, CommandRecords
<1>2. ASSUME Printable(cmd)
      PROVE  Accepted(text) /\ SameMeaning(read, cmd)
    <2>1. CASE cmd.trigger = "TIMEOUT"
        <3>1. PICK s \in 1 .. MaxInt : cmd.timeout_ms = s * MsPerSecond
            BY <2>1 DEF WholeSeconds
        <3>2. s \in Nat /\ cmd.timeout_ms \in Nat /\ cmd.timeout_ms <= MaxInt
            BY <1>2, <2>1, <3>1, WidthAssumption DEF Printable, CommandRecords
        <3>3. ToInt(cmd.timeout_ms) = cmd.timeout_ms
            BY <3>2, ToIntOfInt
        <3>4. Quot(cmd.timeout_ms, MsPerSecond) = s
            BY <3>1, <3>2, QuotOfProduct, WidthAssumption DEF Quot
        <3>5. text = Text("timeout", s)
            BY <2>1, <3>3, <3>4 DEF TriggerText
        <3> QED
            BY <2>1, <3>1, <3>5 DEF Text, Accepted, Parsed, NewCommand, SameMeaning
    <2>2. CASE cmd.trigger = "SLEEP"
        BY <2>2 DEF TriggerText, Text, Accepted, Parsed, NewCommand, SameMeaning
    <2>3. CASE cmd.trigger = "LOCK"
        BY <2>3 DEF TriggerText, Text, Accepted, Parsed, NewCommand, SameMeaning
    <2> QED
        BY <2>1, <2>2, <2>3 DEF CommandRecords
<1>3. cmd \in AnyCommand /\ read \in AnyCommand
    BY <1>1, AnyCommandType DEF CommandRecords
<1> QED
    BY <1>1, <1>2, <1>3, MeaningFields

-----------------------------------------------------------------------------
(* The start of the daemon and its end.                                    *)

LEMMA EmptyFunction ==
    /\ DOMAIN <<>> = {}
    /\ \A S : <<>> \in [{} -> S]
    /\ \A S : <<>> \in [DOMAIN <<>> -> S]
  OBVIOUS

LEMMA ReadActionType ==
    ASSUME IsFile(file), Starts(file), NEW n \in DOMAIN file.actions
    PROVE  LET cmd == ReadAction(n, file.actions[n]) IN
           /\ cmd \in CommandRecords
           /\ WholeSeconds(cmd)
           /\ Represents(file.actions[n], n, cmd)
           /\ cmd.name = n
<1> DEFINE section == file.actions[n]
<1>1. /\ n \in Names
      /\ section \in Sections
      /\ section.trigger \in Texts /\ Accepted(section.trigger)
    BY DEF IsFile, Starts, Readable, Sections
<1>2. section.exec \in CommandStrings /\ section.resume_exec \in CommandStrings
    BY <1>1 DEF Sections
<1>3. /\ ReadAction(n, section) \in CommandRecords
      /\ WholeSeconds(ReadAction(n, section))
    BY <1>1, <1>2, NewCommandType DEF ReadAction
<1>4. /\ ReadAction(n, section).name = n
      /\ ReadAction(n, section).exec = section.exec
      /\ ReadAction(n, section).resume_exec = section.resume_exec
    BY DEF ReadAction, NewCommand
<1> QED
    BY <1>1, <1>3, <1>4 DEF Represents, StandsFor

\* The sections of a file in any order: each is there, and once.
LEMMA OrderType ==
    ASSUME IsFile(file), NEW order \in SetToSeqs(DOMAIN file.actions)
    PROVE  LET S == DOMAIN file.actions
               n == Cardinality(S) IN
           /\ n \in Nat
           /\ order \in [1 .. n -> S]
           /\ \A s \in S : \E i \in 1 .. n : order[i] = s
<1> DEFINE S == DOMAIN file.actions
           n == Cardinality(S)
<1>1. IsFiniteSet(S) /\ n \in Nat
    <2>1. S \in SUBSET Names
        BY DEF IsFile
    <2> QED
        BY <2>1, NamesAssumption, FS_Subset, FS_CardinalityType
<1>2. order \in [1 .. n -> S] /\ \A i, j \in 1 .. n : i # j => order[i] # order[j]
    BY DEF SetToSeqs
<1>3. \A s \in S : \E i \in 1 .. n : order[i] = s
    <2>1. order \in Injection(1 .. n, S)
        BY <1>2 DEF Injection, IsInjective
    <2>2. Cardinality(1 .. n) = n
        BY <1>1, FS_Interval
    <2>3. order \in Surjection(1 .. n, S)
        BY <1>1, <2>1, <2>2, FS_Injection
    <2> QED
        BY <2>3 DEF Surjection
<1> QED
    BY <1>1, <1>2, <1>3

LEMMA StartInv ==
    ASSUME Inv, Start
    PROVE  Inv'
<1> DEFINE S == DOMAIN file.actions
           n == Cardinality(S)
<1>1. IsFile(file) /\ Starts(file) /\ file' = file
    BY DEF Inv, TypeOK, Start
<1>2. /\ up' = TRUE /\ exported' = FALSE /\ pending' = 0 /\ unsaved' \in BOOLEAN
      /\ settings' = ReadMain(file.main) /\ command_id_counter' = n
      /\ objects' = objects
    BY BoundAssumption DEF Inv, TypeOK, Phases, Start
<1>3. PICK order \in SetToSeqs(S) :
         cmds' = [id \in DOMAIN order |-> ReadAction(order[id], file.actions[order[id]])]
    BY DEF Start
<1>4. n \in Nat
    BY <1>1, <1>3, OrderType
<1>5. order \in [1 .. n -> S]
    BY <1>1, OrderType
<1>6. \A s \in S : \E i \in 1 .. n : order[i] = s
    BY <1>1, OrderType
<1>7. DOMAIN cmds' = 1 .. n /\ cmds' \in [DOMAIN cmds' -> CommandRecords]
    BY <1>1, <1>3, <1>5, ReadActionType
<1>8. \A id \in 1 .. n :
         /\ WholeSeconds(cmds'[id])
         /\ Represents(file.actions[order[id]], order[id], cmds'[id])
         /\ cmds'[id].name = order[id]
         /\ order[id] \in S
    BY <1>1, <1>3, <1>5, ReadActionType
<1>9. settings' \in [Keys -> BOOLEAN]
    BY <1>1, <1>2 DEF ReadMain, IsFile, Default
<1>10. TypeOK'
    <2>1. pending' \in 0 .. MaxPending
        BY <1>2, BoundAssumption
    <2>2. command_id_counter' \in Nat /\ DOMAIN cmds' \subseteq 1 .. command_id_counter'
        BY <1>2, <1>4, <1>7
    <2>3. up' \in BOOLEAN /\ exported' \in BOOLEAN /\ unsaved' \in BOOLEAN
        BY <1>2
    <2>4. objects' \in [DOMAIN objects' -> Objects]
        BY <1>2 DEF Inv, TypeOK
    <2> QED
        BY <1>1, <1>7, <1>9, <2>1, <2>2, <2>3, <2>4 DEF TypeOK
<1>11. Faithful'
    <2>1. \A s \in S : \E id \in DOMAIN cmds' : Represents(file.actions[s], s, cmds'[id])
        BY <1>6, <1>7, <1>8
    <2>2. file.kind = "ini"
        BY <1>1 DEF Starts
    <2>3. /\ ReadMain(file.main)' = settings'
          /\ \A id \in DOMAIN cmds' :
                cmds'[id].name \notin Unwritable => cmds'[id].name \in S
        BY <1>1, <1>2, <1>7, <1>8 DEF ReadMain
    <2> QED
        BY <1>1, <2>1, <2>2, <2>3 DEF Faithful, Represents, StandsFor, Printable
<1> QED
    BY <1>1, <1>2, <1>7, <1>8, <1>10, <1>11 DEF Inv, Phases, ViewTells, WholeSeconds

LEMMA DownInv ==
    ASSUME GoDown, IsFile(file')
    PROVE  Inv'
<1>1. /\ up' = FALSE /\ exported' = FALSE /\ pending' = 0 /\ unsaved' = FALSE
      /\ DOMAIN cmds' = {} /\ DOMAIN objects' = {} /\ command_id_counter' = 0
      /\ settings' \in [Keys -> BOOLEAN]
      /\ cmds' \in [DOMAIN cmds' -> CommandRecords]
      /\ objects' \in [DOMAIN objects' -> Objects]
    BY EmptyFunction DEF GoDown, Default
<1>2. TypeOK'
    <2>1. pending' \in 0 .. MaxPending
        BY <1>1, BoundAssumption
    <2>2. command_id_counter' \in Nat /\ DOMAIN cmds' \subseteq 1 .. command_id_counter'
        BY <1>1
    <2>3. up' \in BOOLEAN /\ exported' \in BOOLEAN /\ unsaved' \in BOOLEAN
        BY <1>1
    <2> QED
        BY <1>1, <2>1, <2>2, <2>3 DEF TypeOK
<1> QED
    BY <1>1, <1>2 DEF Inv, Phases, ViewTells, Saved

LEMMA InitInv ==
    ASSUME Init
    PROVE  Inv
<1>1. /\ up = FALSE /\ exported = FALSE /\ pending = 0 /\ unsaved = FALSE
      /\ DOMAIN cmds = {} /\ DOMAIN objects = {} /\ command_id_counter = 0
      /\ settings \in [Keys -> BOOLEAN]
      /\ cmds \in [DOMAIN cmds -> CommandRecords]
      /\ objects \in [DOMAIN objects -> Objects]
    BY EmptyFunction DEF Init, Down, Default
<1>2. IsFile(file)
    BY HandMadeAssumption DEF Init
<1>3. TypeOK
    <2>1. pending \in 0 .. MaxPending
        BY <1>1, BoundAssumption
    <2>2. command_id_counter \in Nat
        BY <1>1
    <2>3. DOMAIN cmds \subseteq 1 .. command_id_counter
        BY <1>1
    <2>4. up \in BOOLEAN /\ exported \in BOOLEAN /\ unsaved \in BOOLEAN
        BY <1>1
    <2> QED
        BY <1>1, <1>2, <2>1, <2>2, <2>3, <2>4 DEF TypeOK
<1> QED
    BY <1>1, <1>3 DEF Inv, Phases, ViewTells, Saved

-----------------------------------------------------------------------------
(* What clients see.                                                       *)

View(objs, commands) ==
    /\ DOMAIN objs = DOMAIN commands
    /\ \A id \in DOMAIN commands : Shows(objs[id], commands[id])

LEMMA ViewTellsMeans ==
    /\ ViewTells <=> (exported => View(objects, cmds))
    /\ ViewTells' <=> (exported' => View(objects', cmds'))
  BY DEF ViewTells, View

LEMMA ExportedShows ==
    ASSUME NEW cmd \in CommandRecords, WholeSeconds(cmd)
    PROVE  Exported(cmd) \in Objects /\ Shows(Exported(cmd), cmd)
<1>1. TriggerText(cmd) \in Texts
    BY TextReadsBack
<1>2. Exported(cmd) \in Objects
    BY <1>1 DEF Exported, Objects, CommandRecords
<1> QED
    BY <1>2, TextReadsBack DEF Exported, Shows

LEMMA BusAcquiredInv ==
    ASSUME Inv, BusAcquired
    PROVE  Inv'
<1>1. /\ up /\ up' = up /\ exported' = TRUE /\ unsaved' = unsaved /\ cmds' = cmds
      /\ command_id_counter' = command_id_counter /\ settings' = settings
      /\ pending' = pending /\ file' = file
      /\ objects' = [id \in DOMAIN cmds |-> Exported(cmds[id])]
    BY DEF BusAcquired
<1>2. \A id \in DOMAIN cmds : cmds[id] \in CommandRecords /\ WholeSeconds(cmds[id])
    BY DEF Inv, TypeOK
<1>3. \A id \in DOMAIN cmds : Exported(cmds[id]) \in Objects /\ Shows(Exported(cmds[id]), cmds[id])
    BY <1>2, ExportedShows
<1>4. objects' \in [DOMAIN objects' -> Objects] /\ View(objects', cmds')
    BY <1>1, <1>3 DEF View
<1>5. TypeOK'
    BY <1>1, <1>4 DEF Inv, TypeOK
<1>6. Phases' /\ (\A id \in DOMAIN cmds : WholeSeconds(cmds[id]))' /\ ViewTells'
    BY <1>1, <1>4, ViewTellsMeans DEF Inv, Phases
<1>7. Saved' => Saved
    BY <1>1 DEF Saved
<1>8. Faithful => Faithful'
    BY <1>1 DEF Faithful
<1> QED
    BY <1>5, <1>6, <1>7, <1>8 DEF Inv

\* A request leaves the file to be saved: nothing is claimed of the file till then.
LEMMA RequestInv ==
    ASSUME Inv, Request, save_config_to_file_async,
           UNCHANGED <<up, exported, file, unsaved>>,
           command_id_counter' \in Nat,
           DOMAIN cmds' \subseteq 1 .. command_id_counter',
           cmds' \in [DOMAIN cmds' -> CommandRecords],
           \A id \in DOMAIN cmds' : WholeSeconds(cmds'[id]),
           settings' \in [Keys -> BOOLEAN],
           objects' \in [DOMAIN objects' -> Objects],
           View(objects', cmds')
    PROVE  Inv'
<1>1. /\ exported /\ up /\ up' = up /\ exported' = exported /\ file' = file
      /\ unsaved' = unsaved /\ unsaved \in BOOLEAN
      /\ IsFile(file)
    BY DEF Inv, TypeOK, Phases, Request
<1>2. pending' \in 1 .. MaxPending
    BY BoundAssumption DEF Inv, TypeOK, Request, save_config_to_file_async
<1>3. pending' \in 0 .. MaxPending /\ pending' > 0
    BY <1>2, BoundAssumption
<1>4. up' \in BOOLEAN /\ exported' \in BOOLEAN
    BY <1>1 DEF Inv, TypeOK
<1>5. TypeOK'
    BY <1>1, <1>3, <1>4 DEF TypeOK
<1>6. ~ Saved' /\ Phases' /\ ViewTells'
    BY <1>1, <1>3, ViewTellsMeans DEF Saved, Phases
<1> QED
    BY <1>5, <1>6 DEF Inv

LEMMA ClientTextsType ==
    \A text \in ClientTexts : text \in Texts
<1>1. \A sec \in Seconds : sec \in Int
    BY WidthAssumption
<1> QED
    BY <1>1, KindAssumption DEF ClientTexts, Text, Texts

LEMMA AddActionInv ==
    ASSUME Inv, NEW name \in Names, NEW text \in Texts,
           NEW exec \in CommandStrings, NEW resume_exec \in CommandStrings,
           AddAction(name, text, exec, resume_exec)
    PROVE  Inv'
<1> DEFINE cmd == NewCommand(name, text, exec, resume_exec)
           id == command_id_counter + 1
<1>1. cmd \in CommandRecords /\ WholeSeconds(cmd)
    BY NewCommandType DEF AddAction
<1>2. Exported(cmd) \in Objects /\ Shows(Exported(cmd), cmd)
    BY <1>1, ExportedShows
<1> HIDE DEF cmd
<1>3. /\ Request /\ save_config_to_file_async
      /\ UNCHANGED <<up, exported, file, unsaved>>
      /\ settings' = settings
      /\ command_id_counter' = id
      /\ cmds' = [i \in DOMAIN cmds \cup {id} |-> IF i = id THEN cmd ELSE cmds[i]]
      /\ objects' = [i \in DOMAIN objects \cup {id} |->
                        IF i = id THEN Exported(cmd) ELSE objects[i]]
    BY DEF AddAction, NextId, cmd
<1>4. /\ command_id_counter \in Nat
      /\ DOMAIN cmds \subseteq 1 .. command_id_counter
      /\ cmds \in [DOMAIN cmds -> CommandRecords]
      /\ objects \in [DOMAIN objects -> Objects]
      /\ settings \in [Keys -> BOOLEAN]
      /\ \A i \in DOMAIN cmds : WholeSeconds(cmds[i])
    BY DEF Inv, TypeOK
<1>5. View(objects, cmds)
    BY <1>3, ViewTellsMeans DEF Inv, Request
<1>6. command_id_counter' \in Nat /\ DOMAIN cmds' \subseteq 1 .. command_id_counter'
    BY <1>3, <1>4
<1>7. /\ cmds' \in [DOMAIN cmds' -> CommandRecords]
      /\ \A i \in DOMAIN cmds' : WholeSeconds(cmds'[i])
    BY <1>1, <1>3, <1>4
<1>8. objects' \in [DOMAIN objects' -> Objects]
    BY <1>2, <1>3, <1>4
<1>9. View(objects', cmds')
    BY <1>2, <1>3, <1>5 DEF View
<1> QED
    BY <1>3, <1>4, <1>6, <1>7, <1>8, <1>9, RequestInv

LEMMA RemoveActionInv ==
    ASSUME Inv, NEW id, RemoveAction(id)
    PROVE  Inv'
<1>1. /\ Request /\ save_config_to_file_async
      /\ UNCHANGED <<up, exported, file, unsaved>>
      /\ settings' = settings
      /\ command_id_counter' = command_id_counter
      /\ cmds' = [i \in DOMAIN cmds \ {id} |-> cmds[i]]
      /\ objects' = [i \in DOMAIN objects \ {id} |-> objects[i]]
    BY DEF RemoveAction
<1>2. View(objects, cmds)
    BY <1>1, ViewTellsMeans DEF Inv, Request
<1>3. /\ command_id_counter' \in Nat
      /\ DOMAIN cmds' \subseteq 1 .. command_id_counter'
      /\ cmds' \in [DOMAIN cmds' -> CommandRecords]
      /\ settings' \in [Keys -> BOOLEAN]
      /\ \A i \in DOMAIN cmds' : WholeSeconds(cmds'[i])
    BY <1>1 DEF Inv, TypeOK
<1>4. objects' \in [DOMAIN objects' -> Objects]
    BY <1>1 DEF Inv, TypeOK
<1>5. View(objects', cmds')
    BY <1>1, <1>2 DEF View
<1> QED
    BY <1>1, <1>3, <1>4, <1>5, RequestInv

LEMMA SetSettingInv ==
    ASSUME Inv, NEW key \in Settings, NEW value \in BOOLEAN, SetSetting(key, value)
    PROVE  Inv'
<1>1. /\ Request /\ save_config_to_file_async
      /\ UNCHANGED <<up, exported, file, unsaved>>
      /\ settings' = [settings EXCEPT ![key] = value]
      /\ command_id_counter' = command_id_counter
      /\ cmds' = cmds /\ objects' = objects
    BY DEF SetSetting
<1>2. settings' \in [Keys -> BOOLEAN]
    BY <1>1 DEF Inv, TypeOK
<1>3. View(objects, cmds)
    BY <1>1, ViewTellsMeans DEF Inv, Request
<1>4. /\ command_id_counter' \in Nat
      /\ DOMAIN cmds' \subseteq 1 .. command_id_counter'
      /\ cmds' \in [DOMAIN cmds' -> CommandRecords]
      /\ objects' \in [DOMAIN objects' -> Objects]
      /\ \A i \in DOMAIN cmds' : WholeSeconds(cmds'[i])
    BY <1>1 DEF Inv, TypeOK
<1> QED
    BY <1>1, <1>2, <1>3, <1>4, RequestInv

-----------------------------------------------------------------------------
(* Properties of an action.                                                *)

LEMMA SetPropertyInv ==
    ASSUME Inv, NEW id \in DOMAIN cmds, NEW cmd \in CommandRecords, NEW object \in Objects,
           WholeSeconds(cmd), Shows(object, cmd), SetProperty(id, cmd, object)
    PROVE  Inv'
<1>1. /\ Request /\ save_config_to_file_async
      /\ UNCHANGED <<up, exported, file, unsaved>>
      /\ settings' = settings
      /\ command_id_counter' = command_id_counter
      /\ cmds' = [cmds EXCEPT ![id] = cmd]
      /\ objects' = [objects EXCEPT ![id] = object]
    BY DEF SetProperty
<1>2. View(objects, cmds)
    BY <1>1, ViewTellsMeans DEF Inv, Request
<1>3. /\ command_id_counter' \in Nat
      /\ DOMAIN cmds' \subseteq 1 .. command_id_counter'
      /\ cmds' \in [DOMAIN cmds' -> CommandRecords]
      /\ settings' \in [Keys -> BOOLEAN]
      /\ \A i \in DOMAIN cmds' : WholeSeconds(cmds'[i])
    BY <1>1 DEF Inv, TypeOK
<1>4. objects' \in [DOMAIN objects' -> Objects]
    BY <1>1, <1>2 DEF Inv, TypeOK, View
<1>5. View(objects', cmds')
    BY <1>1, <1>2 DEF View, Inv, TypeOK
<1> QED
    BY <1>1, <1>3, <1>4, <1>5, RequestInv

\* Shows, field by field.
LEMMA ShowsFields ==
    ASSUME NEW object \in Objects, NEW cmd \in CommandRecords
    PROVE  Shows(object, cmd) <=>
              /\ object.Name = cmd.name
              /\ object.Exec = cmd.exec /\ object.ResumeExec = cmd.resume_exec
              /\ Printable(cmd) =>
                    /\ Parsed(object.Trigger, 0).trigger = cmd.trigger
                    /\ cmd.trigger = "TIMEOUT" =>
                          Parsed(object.Trigger, 0).timeout_ms = cmd.timeout_ms
<1> DEFINE read == NewCommand(object.Name, object.Trigger, object.Exec, object.ResumeExec)
<1>1. read \in AnyCommand /\ cmd \in AnyCommand
    BY AnyCommandType DEF Objects
<1>2. /\ read.name = object.Name
      /\ read.exec = object.Exec /\ read.resume_exec = object.ResumeExec
      /\ read.trigger = Parsed(object.Trigger, 0).trigger
      /\ read.timeout_ms = Parsed(object.Trigger, 0).timeout_ms
    BY DEF NewCommand
<1>3. Meaning(read) = Meaning(cmd) <=> SameMeaning(read, cmd)
    BY <1>1, MeaningFields
<1> QED
    BY <1>2, <1>3 DEF Shows, SameMeaning

LEMMA SetterInv ==
    ASSUME Inv, NEW id \in DOMAIN cmds,
           \/ \E name \in Names : SetName(id, name)
           \/ \E text \in Texts : SetTrigger(id, text)
           \/ \E exec \in CommandStrings : SetExec(id, exec) \/ SetResumeExec(id, exec)
    PROVE  Inv'
<1> DEFINE old == cmds[id]
           object == objects[id]
<1>1. exported
    BY DEF SetName, SetTrigger, SetExec, SetResumeExec, SetProperty, Request
<1>2. old \in CommandRecords /\ object \in Objects /\ WholeSeconds(old) /\ Shows(object, old)
    BY <1>1, ViewTellsMeans DEF Inv, TypeOK, View
<1>3. /\ object.Name = old.name
      /\ object.Exec = old.exec /\ object.ResumeExec = old.resume_exec
      /\ Printable(old) =>
            /\ Parsed(object.Trigger, 0).trigger = old.trigger
            /\ old.trigger = "TIMEOUT" =>
                  Parsed(object.Trigger, 0).timeout_ms = old.timeout_ms
    BY <1>2, ShowsFields
<1> HIDE DEF old, object
<1>4. ASSUME NEW name \in Names, SetName(id, name) PROVE Inv'
    <2> DEFINE cmd == [old EXCEPT !.name = name]
               obj == [object EXCEPT !.Name = name]
    <2>1. cmd \in CommandRecords /\ obj \in Objects /\ WholeSeconds(cmd)
        BY <1>2 DEF CommandRecords, Objects, WholeSeconds
    <2>2. Shows(obj, cmd)
        BY <1>2, <1>3, <2>1, ShowsFields DEF CommandRecords, Objects, Printable
    <2> QED
        BY <1>4, <2>1, <2>2, SetPropertyInv DEF SetName, old, object
<1>5. ASSUME NEW text \in Texts, SetTrigger(id, text) PROVE Inv'
    <2> DEFINE parsed == Parsed(text, old.timeout_ms)
               cmd == [old EXCEPT !.trigger = parsed.trigger,
                                  !.timeout_ms = parsed.timeout_ms]
               obj == [object EXCEPT !.Trigger = text]
    <2>1. text \in Texts /\ Accepted(text) /\ old.timeout_ms \in Nat
        BY <1>2, <1>5 DEF SetTrigger, CommandRecords
    <2>2. /\ parsed.trigger \in {"TIMEOUT", "SLEEP", "LOCK"}
          /\ parsed.timeout_ms \in Nat
          /\ parsed.trigger = "TIMEOUT" =>
                \E s \in 1 .. MaxInt : parsed.timeout_ms = s * MsPerSecond
          /\ parsed.trigger = Parsed(text, 0).trigger
          /\ parsed.trigger = "TIMEOUT" => parsed.timeout_ms = Parsed(text, 0).timeout_ms
        BY <2>1, ParsedType
    <2> HIDE DEF parsed
    <2>3. cmd \in CommandRecords /\ obj \in Objects /\ WholeSeconds(cmd)
        BY <1>2, <2>1, <2>2 DEF CommandRecords, Objects, WholeSeconds
    <2>4. Shows(obj, cmd)
        BY <1>2, <1>3, <2>2, <2>3, ShowsFields DEF CommandRecords, Objects, Printable
    <2> QED
        BY <1>5, <2>3, <2>4, SetPropertyInv DEF SetTrigger, old, object, parsed
<1>6. ASSUME NEW exec \in CommandStrings, SetExec(id, exec) PROVE Inv'
    <2> DEFINE cmd == [old EXCEPT !.exec = exec]
               obj == [object EXCEPT !.Exec = exec]
    <2>1. cmd \in CommandRecords /\ obj \in Objects /\ WholeSeconds(cmd)
        BY <1>2 DEF CommandRecords, Objects, WholeSeconds
    <2>2. Shows(obj, cmd)
        BY <1>2, <1>3, <2>1, ShowsFields DEF CommandRecords, Objects, Printable
    <2> QED
        BY <1>6, <2>1, <2>2, SetPropertyInv DEF SetExec, old, object
<1>7. ASSUME NEW exec \in CommandStrings, SetResumeExec(id, exec) PROVE Inv'
    <2> DEFINE cmd == [old EXCEPT !.resume_exec = exec]
               obj == [object EXCEPT !.ResumeExec = exec]
    <2>1. cmd \in CommandRecords /\ obj \in Objects /\ WholeSeconds(cmd)
        BY <1>2 DEF CommandRecords, Objects, WholeSeconds
    <2>2. Shows(obj, cmd)
        BY <1>2, <1>3, <2>1, ShowsFields DEF CommandRecords, Objects, Printable
    <2> QED
        BY <1>7, <2>1, <2>2, SetPropertyInv DEF SetResumeExec, old, object
<1> QED
    BY <1>4, <1>5, <1>6, <1>7

LEMMA ClientInv ==
    ASSUME Inv, Client
    PROVE  Inv'
<1>1. CASE \E name \in Names, text \in ClientTexts, exec, resume_exec \in CommandStrings :
              AddAction(name, text, exec, resume_exec)
    BY <1>1, ClientTextsType, AddActionInv
<1>2. CASE \E id \in DOMAIN cmds : RemoveAction(id)
    BY <1>2, RemoveActionInv
<1>3. CASE \E key \in Settings, value \in BOOLEAN : SetSetting(key, value)
    BY <1>3, SetSettingInv
<1>4. CASE \E id \in DOMAIN cmds :
              \/ \E name \in Names : SetName(id, name)
              \/ \E text \in ClientTexts : SetTrigger(id, text)
              \/ \E exec \in CommandStrings : SetExec(id, exec) \/ SetResumeExec(id, exec)
    BY <1>4, ClientTextsType, SetterInv
<1> QED
    BY <1>1, <1>2, <1>3, <1>4 DEF Client

-----------------------------------------------------------------------------
(* Saving.                                                                 *)

\* What a save makes of the sections: one for each name in use that can be written,
\* from a command of that name.
LEMMA SavedActionsType ==
    ASSUME Inv, NEW last \in LastWriters
    PROVE  LET actions == SavedActions(file, last) IN
           /\ DOMAIN actions = CommandNames \ Unwritable
           /\ DOMAIN actions \subseteq Names \ Unwritable
           /\ actions \in [DOMAIN actions -> Sections]
           /\ \A n \in DOMAIN actions :
                 /\ last[n] \in DOMAIN cmds
                 /\ actions[n].exec = cmds[last[n]].exec
                 /\ actions[n].resume_exec = cmds[last[n]].resume_exec
                 /\ Represents(actions[n], n, cmds[last[n]])
<1> DEFINE actions == SavedActions(file, last)
           section(n) == IF n \in DOMAIN file.actions THEN file.actions[n] ELSE EmptySection
<1>1. \A id \in DOMAIN cmds : cmds[id] \in CommandRecords /\ WholeSeconds(cmds[id])
    BY DEF Inv, TypeOK
<1>2. DOMAIN actions = CommandNames \ Unwritable
    BY DEF SavedActions, SavedNames
<1>3. CommandNames \subseteq Names
    BY <1>1 DEF CommandNames, CommandRecords
<1> HIDE DEF section
<1>4. \A n \in DOMAIN actions : actions[n] = Written(section(n), cmds[last[n]])
    BY <1>2 DEF SavedActions, SavedNames, section
<1>5. \A n \in DOMAIN actions : last[n] \in DOMAIN cmds /\ cmds[last[n]].name = n
    BY <1>2 DEF LastWriters
<1> HIDE DEF actions
<1>6. ASSUME NEW n \in DOMAIN actions
      PROVE  /\ actions[n] \in Sections
             /\ actions[n].exec = cmds[last[n]].exec
             /\ actions[n].resume_exec = cmds[last[n]].resume_exec
             /\ Represents(actions[n], n, cmds[last[n]])
    <2> DEFINE cmd == cmds[last[n]]
    <2>1. cmd \in CommandRecords /\ WholeSeconds(cmd) /\ cmd.name = n
        BY <1>1, <1>5
    <2> HIDE DEF cmd
    <2>2. /\ TriggerText(cmd) \in Texts
          /\ Printable(cmd) =>
                /\ Accepted(TriggerText(cmd))
                /\ Meaning(NewCommand(cmd.name, TriggerText(cmd), cmd.exec,
                                      cmd.resume_exec)) = Meaning(cmd)
        BY <2>1, TextReadsBack
    <2>3. actions[n] = [trigger |-> TriggerText(cmd), exec |-> cmd.exec,
                        resume_exec |-> cmd.resume_exec]
        BY <1>4 DEF Written, cmd
    <2>4. actions[n] \in Sections
        BY <2>1, <2>2, <2>3 DEF Sections, CommandRecords
    <2>5. Represents(actions[n], n, cmd)
        BY <2>1, <2>2, <2>3 DEF Represents, StandsFor, ReadAction
    <2> QED
        BY <2>3, <2>4, <2>5 DEF cmd
<1>7. actions \in [DOMAIN actions -> Sections]
    <2>1. actions = [n \in DOMAIN actions |-> actions[n]]
        BY DEF SavedActions, actions
    <2> QED
        BY <1>6, <2>1
<1> QED
    BY <1>2, <1>3, <1>5, <1>6, <1>7 DEF actions

LEMMA IsFileFields ==
    ASSUME NEW kind \in {"ini", "missing", "garbled", "alien"},
           NEW main, DOMAIN main \subseteq Keys, main \in [DOMAIN main -> BOOLEAN],
           NEW actions, DOMAIN actions \subseteq Names \ Unwritable,
           actions \in [DOMAIN actions -> Sections]
    PROVE  IsFile(File(kind, main, actions))
  BY DEF IsFile, File

LEMMA GarbledIsFile ==
    IsFile(Garbled)
<1>1. DOMAIN <<>> \subseteq Keys /\ DOMAIN <<>> \subseteq Names \ Unwritable
    BY EmptyFunction
<1>2. <<>> \in [DOMAIN <<>> -> BOOLEAN] /\ <<>> \in [DOMAIN <<>> -> Sections]
    BY EmptyFunction
<1> QED
    BY <1>1, <1>2, IsFileFields DEF Garbled

LEMMA RenderedIsFile ==
    ASSUME NEW main, DOMAIN main \subseteq Keys, main \in [DOMAIN main -> BOOLEAN],
           NEW actions, DOMAIN actions \subseteq Names \ Unwritable,
           actions \in [DOMAIN actions -> Sections]
    PROVE  IsFile(Rendered(main, actions))
<1>1. IsFile(File("ini", main, actions))
    BY IsFileFields
<1> QED
    BY <1>1, GarbledIsFile DEF Rendered

LEMMA SavedFileIsFaithful ==
    ASSUME Inv, NEW last \in LastWriters, file' = SavedFile(file, last),
           cmds' = cmds, settings' = settings
    PROVE  IsFile(file') /\ Faithful'
<1> DEFINE actions == SavedActions(file, last)
<1>1. /\ DOMAIN actions = CommandNames \ Unwritable
      /\ DOMAIN actions \subseteq Names \ Unwritable
      /\ actions \in [DOMAIN actions -> Sections]
      /\ \A n \in DOMAIN actions :
            /\ last[n] \in DOMAIN cmds
            /\ actions[n].exec = cmds[last[n]].exec
            /\ actions[n].resume_exec = cmds[last[n]].resume_exec
            /\ Represents(actions[n], n, cmds[last[n]])
    BY SavedActionsType
<1>2. DOMAIN settings = Keys /\ settings \in [DOMAIN settings -> BOOLEAN]
    BY DEF Inv, TypeOK
<1>3. file' = Rendered(settings, actions)
    BY DEF SavedFile
<1> HIDE DEF actions
<1>4. IsFile(file')
    BY <1>1, <1>2, <1>3, RenderedIsFile
<1>5. CASE \E n \in DOMAIN actions :
              {actions[n].exec, actions[n].resume_exec} \cap Multiline # {}
    <2>1. file' = Garbled
        BY <1>3, <1>5 DEF Rendered
    <2>2. \E id \in DOMAIN cmds : {cmds[id].exec, cmds[id].resume_exec} \cap Multiline # {}
        BY <1>1, <1>5
    <2> QED
        BY <1>4, <2>1, <2>2 DEF Faithful
<1>6. CASE ~ \E n \in DOMAIN actions :
                {actions[n].exec, actions[n].resume_exec} \cap Multiline # {}
    <2>1. file' = File("ini", settings, actions)
        BY <1>3, <1>6 DEF Rendered
    <2>2. file'.kind = "ini" /\ file'.main = settings /\ file'.actions = actions
        BY <2>1 DEF File
    <2>3. ReadMain(settings) = settings
        BY <1>2 DEF ReadMain, Inv, TypeOK
    <2>4. \A id \in DOMAIN cmds :
             cmds[id].name \notin Unwritable => cmds[id].name \in DOMAIN actions
        BY <1>1 DEF CommandNames
    <2>5. \A n \in DOMAIN actions : \E id \in DOMAIN cmds : Represents(actions[n], n, cmds[id])
        BY <1>1
    <2> QED
        BY <1>4, <2>2, <2>3, <2>4, <2>5 DEF Faithful
<1> QED
    BY <1>4, <1>5, <1>6

LEMMA CutSectionsType ==
    ASSUME NEW section \in Sections, NEW cut \in CutSections(section)
    PROVE  cut \in Sections
<1>1. EmptySection \in Sections
    BY DEF EmptySection, Sections, CommandStrings
<1>2. \A text \in ClientTexts : [section EXCEPT !.trigger = text] \in Sections
    BY ClientTextsType DEF Sections
<1>3. \A exec \in Commands :
         [section EXCEPT !.exec = exec, !.resume_exec = None] \in Sections
    BY DEF Sections, CommandStrings
<1>4. \A exec \in CommandStrings : [section EXCEPT !.resume_exec = exec] \in Sections
    BY DEF Sections
<1>5. ASSUME NEW c \in Cuts(section)
      PROVE  \/ \E text \in ClientTexts : c = [section EXCEPT !.trigger = text]
             \/ \E exec \in Commands : c = [section EXCEPT !.exec = exec, !.resume_exec = None]
             \/ \E exec \in CommandStrings : c = [section EXCEPT !.resume_exec = exec]
    BY Zenon DEF Cuts
<1>6. ASSUME NEW c \in Cuts(section)
      PROVE  c \in Sections
    <2>1. CASE \E text \in ClientTexts : c = [section EXCEPT !.trigger = text]
        BY <1>2, <2>1, Zenon
    <2>2. CASE \E exec \in Commands :
                  c = [section EXCEPT !.exec = exec, !.resume_exec = None]
        BY <1>3, <2>2, Zenon
    <2>3. CASE \E exec \in CommandStrings : c = [section EXCEPT !.resume_exec = exec]
        BY <1>4, <2>3, Zenon
    <2> QED
        BY <1>5, <2>1, <2>2, <2>3, Zenon
<1> QED
    BY <1>1, <1>6 DEF CutSections

\* The three kinds of a torn file.
LEMMA TornFileCases ==
    ASSUME NEW last, NEW torn \in TornFile(file, last)
    PROVE  LET actions == SavedActions(file, last) IN
           \/ torn = Garbled
           \/ \E K \in SUBSET Keys, N \in SUBSET DOMAIN actions :
                 torn = Rendered(WholeKeys(K), WholeSections(actions, N))
           \/ \E n \in DOMAIN actions, N \in SUBSET DOMAIN actions :
                 \E cut \in CutSections(actions[n]) :
                    torn = Rendered(settings,
                               [WholeSections(actions, N \cup {n}) EXCEPT ![n] = cut])
<1> DEFINE actions == SavedActions(file, last)
           whole   == {Rendered(WholeKeys(K), WholeSections(actions, N)) :
                         K \in SUBSET Keys, N \in SUBSET DOMAIN actions}
           parts   == {CutFiles(actions, N, n) :
                         N \in SUBSET DOMAIN actions, n \in DOMAIN actions}
<1>1. torn \in {Garbled} \cup whole \cup UNION parts
    BY DEF TornFile
<1> HIDE DEF actions
<1>2. ASSUME torn \in whole
      PROVE  \E K \in SUBSET Keys, N \in SUBSET DOMAIN actions :
                torn = Rendered(WholeKeys(K), WholeSections(actions, N))
    BY <1>2
<1>3. ASSUME NEW n \in DOMAIN actions, NEW N \in SUBSET DOMAIN actions,
             torn \in CutFiles(actions, N, n)
      PROVE  \E cut \in CutSections(actions[n]) :
                torn = Rendered(settings,
                           [WholeSections(actions, N \cup {n}) EXCEPT ![n] = cut])
    BY <1>3, Zenon DEF CutFiles
<1>4. ASSUME NEW part \in parts, torn \in part
      PROVE  \E n \in DOMAIN actions, N \in SUBSET DOMAIN actions :
                torn \in CutFiles(actions, N, n)
    BY <1>4
<1> HIDE DEF whole, parts
<1> QED
    BY <1>1, <1>2, <1>3, <1>4 DEF actions

LEMMA TornFileIsFile ==
    ASSUME Inv, NEW last \in LastWriters, NEW torn \in TornFile(file, last)
    PROVE  IsFile(torn)
<1> DEFINE actions == SavedActions(file, last)
<1>1. /\ DOMAIN actions \subseteq Names \ Unwritable
      /\ actions \in [DOMAIN actions -> Sections]
    BY SavedActionsType
<1>2. DOMAIN settings = Keys /\ settings \in [DOMAIN settings -> BOOLEAN]
    BY DEF Inv, TypeOK
<1>3. \/ torn = Garbled
      \/ \E K \in SUBSET Keys, N \in SUBSET DOMAIN actions :
            torn = Rendered(WholeKeys(K), WholeSections(actions, N))
      \/ \E n \in DOMAIN actions, N \in SUBSET DOMAIN actions :
            \E cut \in CutSections(actions[n]) :
               torn = Rendered(settings,
                          [WholeSections(actions, N \cup {n}) EXCEPT ![n] = cut])
    BY TornFileCases
<1> HIDE DEF actions
<1>4. ASSUME NEW K \in SUBSET Keys, NEW N \in SUBSET DOMAIN actions
      PROVE  IsFile(Rendered(WholeKeys(K), WholeSections(actions, N)))
    <2> DEFINE main == WholeKeys(K)
               kept == WholeSections(actions, N)
    <2>1. DOMAIN kept \subseteq Names \ Unwritable /\ kept \in [DOMAIN kept -> Sections]
        BY <1>1 DEF WholeSections
    <2>2. DOMAIN main \subseteq Keys /\ main \in [DOMAIN main -> BOOLEAN]
        BY <1>2 DEF WholeKeys
    <2> QED
        BY <2>1, <2>2, RenderedIsFile
<1>5. ASSUME NEW n \in DOMAIN actions, NEW N \in SUBSET DOMAIN actions,
             NEW cut \in CutSections(actions[n])
      PROVE  IsFile(Rendered(settings,
                        [WholeSections(actions, N \cup {n}) EXCEPT ![n] = cut]))
    <2> DEFINE kept == [WholeSections(actions, N \cup {n}) EXCEPT ![n] = cut]
    <2>1. cut \in Sections
        BY <1>1, CutSectionsType
    <2>2. DOMAIN kept \subseteq Names \ Unwritable /\ kept \in [DOMAIN kept -> Sections]
        BY <1>1, <2>1 DEF WholeSections
    <2> QED
        BY <1>2, <2>2, RenderedIsFile
<1> QED
    BY <1>3, <1>4, <1>5, GarbledIsFile

\* A step that changes the file only, or what is to be saved.
LEMMA FileStepInv ==
    ASSUME Inv, IsFile(file'), pending' \in 0 .. pending,
           unsaved' \in BOOLEAN, unsaved' => up,
           UNCHANGED <<up, exported, cmds, command_id_counter, settings, objects>>,
           Saved' => Faithful'
    PROVE  Inv'
<1>1. pending \in 0 .. MaxPending /\ (pending > 0 => exported)
    BY DEF Inv, TypeOK, Phases
<1>2. pending' \in 0 .. MaxPending /\ (pending' > 0 => exported)
    BY <1>1, BoundAssumption
<1>3. TypeOK'
    BY <1>2 DEF Inv, TypeOK
<1>4. Phases' /\ ViewTells' /\ (\A id \in DOMAIN cmds : WholeSeconds(cmds[id]))'
    BY <1>2, ViewTellsMeans DEF Inv, Phases
<1> QED
    BY <1>3, <1>4 DEF Inv

LEMMA SaveInv ==
    ASSUME Inv, Save
    PROVE  Inv'
<1>1. /\ pending' \in 0 .. pending
      /\ UNCHANGED <<up, exported, cmds, command_id_counter, settings, objects>>
    BY BoundAssumption DEF Inv, TypeOK, Save
<1>2. up
    BY BoundAssumption DEF Inv, TypeOK, Phases, Save
<1>3. CASE file' = file /\ unsaved' = TRUE
    BY <1>2, <1>1, <1>3, FileStepInv DEF Saved, Inv, TypeOK
<1>4. CASE \E last \in LastWriters : file' = SavedFile(file, last) /\ unsaved' = FALSE
    <2>1. IsFile(file') /\ Faithful'
        BY <1>1, <1>4, SavedFileIsFaithful
    <2> QED
        BY <1>2, <1>1, <1>4, <2>1, FileStepInv
<1>5. CASE \E last \in LastWriters : file' \in TornFile(file, last) /\ unsaved' = TRUE
    <2>1. IsFile(file')
        BY <1>5, TornFileIsFile
    <2> QED
        BY <1>2, <1>1, <1>5, <2>1, FileStepInv DEF Saved
<1> QED
    BY <1>3, <1>4, <1>5 DEF Save

LEMMA UserEditsInv ==
    ASSUME Inv, UserEdits
    PROVE  Inv'
<1>1. /\ pending' \in 0 .. pending
      /\ UNCHANGED <<up, exported, cmds, command_id_counter, settings, objects>>
      /\ unsaved' \in BOOLEAN /\ (unsaved' => up)
      /\ ~ Saved'
    BY BoundAssumption DEF Inv, TypeOK, UserEdits, Saved
<1>2. IsFile(file')
    BY HandMadeAssumption DEF UserEdits
<1> QED
    BY <1>1, <1>2, FileStepInv

LEMMA NextInv ==
    ASSUME Inv, [Next]_vars
    PROVE  Inv'
<1>1. CASE Killed
    BY <1>1, DownInv DEF Killed, Inv, TypeOK
<1>2. CASE KilledWhileSaving
    <2>1. IsFile(file')
        BY <1>2, TornFileIsFile DEF KilledWhileSaving
    <2> QED
        BY <1>2, <2>1, DownInv DEF KilledWhileSaving
<1>3. CASE UNCHANGED vars
    <2>1. UNCHANGED <<up, exported, cmds, command_id_counter, settings, objects, pending,
                      file, unsaved>>
        BY <1>3 DEF vars
    <2>2. pending' \in 0 .. pending /\ IsFile(file')
         /\ unsaved' \in BOOLEAN /\ (unsaved' => up)
        BY <2>1, BoundAssumption DEF Inv, TypeOK, Phases
    <2>3. Saved' => Faithful'
        BY <2>1 DEF Inv, Saved, Faithful
    <2> QED
        BY <2>1, <2>2, <2>3, FileStepInv
<1> QED
    BY <1>1, <1>2, <1>3, StartInv, BusAcquiredInv, ClientInv, SaveInv, UserEditsInv DEF Next

LEMMA Invariance ==
    Spec => []Inv
  BY InitInv, NextInv, PTL DEF Spec

-----------------------------------------------------------------------------
(* What is stored.                                                         *)

\* A file that is faithful to commands it can express reads as they are.
LEMMA FaithfulReadsBack ==
    Inv /\ Faithful /\ Expressible => ReadsBack
<1> SUFFICES ASSUME Inv, Faithful, Expressible
             PROVE  ReadsBack
    OBVIOUS
<1>1. \A id \in DOMAIN cmds :
         /\ {cmds[id].exec, cmds[id].resume_exec} \cap Multiline = {}
         /\ cmds[id].name \notin Unwritable
         /\ is_valid(cmds[id]) /\ Printable(cmds[id])
    BY DEF Expressible
<1>2. /\ file.kind = "ini"
      /\ ReadMain(file.main) = settings
      /\ \A id \in DOMAIN cmds : cmds[id].name \in DOMAIN file.actions
      /\ \A n \in DOMAIN file.actions :
            \E id \in DOMAIN cmds : Represents(file.actions[n], n, cmds[id])
    BY <1>1 DEF Faithful, Garbled, File
<1>3. ASSUME NEW n \in DOMAIN file.actions
      PROVE  /\ Readable(file.actions[n])
             /\ \E id \in DOMAIN cmds :
                   /\ cmds[id].name = n
                   /\ Meaning(ReadAction(n, file.actions[n])) = Meaning(cmds[id])
    <2>1. PICK id \in DOMAIN cmds : Represents(file.actions[n], n, cmds[id])
        BY <1>2
    <2>2. /\ file.actions[n].trigger \in Texts /\ Accepted(file.actions[n].trigger)
          /\ StandsFor(file.actions[n], n, cmds[id])
        BY <1>1, <2>1 DEF Represents
    <2>3. file.actions[n].trigger # NoTrigger
        BY <2>2 DEF Texts, NoTrigger, Text
    <2> QED
        BY <1>1, <2>2, <2>3 DEF Readable, StandsFor, is_valid
<1>4. Starts(file)
    BY <1>2, <1>3 DEF Starts
<1>5. ASSUME NEW id \in DOMAIN cmds
      PROVE  \E n \in DOMAIN file.actions :
                Meaning(ReadAction(n, file.actions[n])) = Meaning(cmds[id])
    <2>1. \A other \in DOMAIN cmds : cmds[other].name = cmds[id].name => other = id
        BY DEF Expressible
    <2> QED
        BY <1>2, <1>3, <2>1
<1> QED
    BY <1>2, <1>3, <1>4, <1>5 DEF ReadsBack

LEMMA FaithfulIsStored ==
    Inv /\ Faithful /\ Expressible => Starts(file) /\ Stored(file) = InUse
  BY FaithfulReadsBack DEF ReadsBack, Stored, InUse

LEMMA FaithfulIsStoredNext ==
    (Inv /\ Faithful /\ Expressible => Starts(file) /\ Stored(file) = InUse)'
  BY FaithfulIsStored, PTL

\* A torn file that starts the daemon has parts of the configuration in use.
LEMMA TornIsPart ==
    ASSUME Inv, Expressible, NEW last \in LastWriters, NEW torn \in TornFile(file, last),
           Starts(torn)
    PROVE  Durable!PartOf(Stored(torn), InUse)
<1> DEFINE actions == SavedActions(file, last)
           read(acts) == {Meaning(ReadAction(m, acts[m])) : m \in DOMAIN acts}
<1>1. \A n \in DOMAIN actions :
         /\ last[n] \in DOMAIN cmds
         /\ Represents(actions[n], n, cmds[last[n]])
    BY SavedActionsType
<1>2. \A n \in DOMAIN actions :
         /\ cmds[last[n]].name = n
         /\ Meaning(ReadAction(n, actions[n])) = Meaning(cmds[last[n]])
    BY <1>1 DEF Represents, StandsFor, Expressible
<1>3. \A n \in DOMAIN actions : Meaning(ReadAction(n, actions[n])) \in InUse.actions
    BY <1>1, <1>2 DEF InUse
<1>4. \A n : \A section :
         /\ Meaning(ReadAction(n, section)).name = n
    BY DEF Meaning, ReadAction, NewCommand
<1>5. \/ torn = Garbled
      \/ \E K \in SUBSET Keys, N \in SUBSET DOMAIN actions :
            torn = Rendered(WholeKeys(K), WholeSections(actions, N))
      \/ \E n \in DOMAIN actions, N \in SUBSET DOMAIN actions :
            \E cut \in CutSections(actions[n]) :
               torn = Rendered(settings,
                          [WholeSections(actions, N \cup {n}) EXCEPT ![n] = cut])
    BY TornFileCases
<1> HIDE DEF actions
<1>6. torn # Garbled
    BY DEF Starts, Garbled, File
<1>7. \A main, acts : torn = Rendered(main, acts) =>
         Stored(torn) = [settings |-> ReadMain(main), actions |-> read(acts)]
    BY <1>6 DEF Rendered, File, Stored
<1> HIDE DEF read
<1>8. \A K \in SUBSET Keys : \A k \in DOMAIN ReadMain(<<>>) :
         ReadMain(WholeKeys(K))[k] \in {settings[k], ReadMain(<<>>)[k]}
    BY EmptyFunction DEF ReadMain, WholeKeys
<1>9. CASE \E K \in SUBSET Keys, N \in SUBSET DOMAIN actions :
              torn = Rendered(WholeKeys(K), WholeSections(actions, N))
    <2>1. PICK K \in SUBSET Keys, N \in SUBSET DOMAIN actions :
             torn = Rendered(WholeKeys(K), WholeSections(actions, N))
        BY <1>9
    <2>2. Stored(torn) = [settings |-> ReadMain(WholeKeys(K)),
                          actions |-> read(WholeSections(actions, N))]
        BY <1>7, <2>1
    <2>3. read(WholeSections(actions, N)) \subseteq InUse.actions
        BY <1>3 DEF read, WholeSections
    <2> QED
        BY <1>8, <2>2, <2>3 DEF Durable!PartOf, InUse
<1>10. CASE \E n \in DOMAIN actions, N \in SUBSET DOMAIN actions :
              \E cut \in CutSections(actions[n]) :
                 torn = Rendered(settings,
                            [WholeSections(actions, N \cup {n}) EXCEPT ![n] = cut])
    <2>1. PICK n \in DOMAIN actions, N \in SUBSET DOMAIN actions :
              \E cut \in CutSections(actions[n]) :
                 torn = Rendered(settings,
                            [WholeSections(actions, N \cup {n}) EXCEPT ![n] = cut])
        BY <1>10
    <2>2. PICK cut \in CutSections(actions[n]) :
             torn = Rendered(settings,
                        [WholeSections(actions, N \cup {n}) EXCEPT ![n] = cut])
        BY <2>1
    <2> DEFINE acts == [WholeSections(actions, N \cup {n}) EXCEPT ![n] = cut]
               odd == Meaning(ReadAction(n, cut))
    <2>3. Stored(torn) = [settings |-> ReadMain(settings), actions |-> read(acts)]
        BY <1>7, <2>2
    <2>4. /\ DOMAIN acts = N \cup {n}
          /\ acts[n] = cut
          /\ \A m \in N \cup {n} : m # n => acts[m] = actions[m]
        BY DEF WholeSections
    <2> HIDE DEF acts
    <2>5. odd \in read(acts)
        BY <2>4 DEF read
    <2>6. \A a \in read(acts) : a # odd => a \in InUse.actions
        BY <1>3, <2>4 DEF read
    <2>7. Meaning(ReadAction(n, actions[n])) \in InUse.actions
          /\ Meaning(ReadAction(n, actions[n])).name = odd.name
        BY <1>3, <1>4
    <2>8. settings = WholeKeys(Keys)
        BY DEF Inv, TypeOK, WholeKeys
    <2>9. \A k \in DOMAIN ReadMain(<<>>) :
             ReadMain(settings)[k] \in {settings[k], ReadMain(<<>>)[k]}
        BY <1>8, <2>8
    <2> HIDE DEF odd
    <2> QED
        BY <2>3, <2>5, <2>6, <2>7, <2>9 DEF Durable!PartOf, InUse
<1> QED
    BY <1>5, <1>6, <1>9, <1>10

\* A step that stores what the file can express, or parts of it.
LEMMA SavedIsWritten ==
    ASSUME Inv, NEW last \in LastWriters, file' = SavedFile(file, last), Inv',
           UNCHANGED <<cmds, settings>>
    PROVE  Durable!Written
<1>1. Faithful'
    BY SavedFileIsFaithful
<1>2. (Inv /\ Faithful /\ Expressible => Starts(file) /\ Stored(file) = InUse)'
    BY FaithfulIsStoredNext
<1>3. Expressible => Expressible' /\ InUse' = InUse
    BY DEF Expressible, InUse
<1> QED
    BY <1>1, <1>2, <1>3 DEF Durable!Written

LEMMA TornIsCutShort ==
    ASSUME Inv, NEW last \in LastWriters, file' \in TornFile(file, last)
    PROVE  Durable!CutShort
  BY TornIsPart DEF Durable!CutShort, Stored, Starts

LEMMA StartIsStart ==
    ASSUME Inv, Start
    PROVE  Durable!Start
<1> DEFINE S == DOMAIN file.actions
<1>1. PICK order \in SetToSeqs(S) :
         cmds' = [id \in DOMAIN order |-> ReadAction(order[id], file.actions[order[id]])]
    BY DEF Start
<1>2. /\ order \in [1 .. Cardinality(S) -> S]
      /\ \A s \in S : \E i \in 1 .. Cardinality(S) : order[i] = s
    BY OrderType DEF Inv, TypeOK
<1>3. {Meaning(cmds'[id]) : id \in DOMAIN cmds'}
         = {Meaning(ReadAction(n, file.actions[n])) : n \in S}
    BY <1>1, <1>2
<1>4. /\ ~ up /\ up' /\ Starts(file) /\ file' = file
      /\ settings' = ReadMain(file.main)
      /\ pending' = pending /\ unsaved' = unsaved
    BY DEF Start
<1>5. InUse' = Stored(file)
    BY <1>3, <1>4 DEF InUse, Stored
<1>6. ~ (pending' > 0 \/ unsaved')
    BY <1>4 DEF Inv, Phases, TypeOK
<1> QED
    BY <1>4, <1>5, <1>6 DEF Durable!Start

LEMMA SaveIsSave ==
    ASSUME Inv, Inv', Save
    PROVE  Durable!Save
<1>1. /\ up /\ up' /\ up' = up /\ pending > 0
      /\ cmds' = cmds /\ settings' = settings
      /\ unsaved' \in BOOLEAN
    BY DEF Inv, Phases, TypeOK, Save
<1>2. UNCHANGED <<up, InUse, Expressible>>
    BY <1>1 DEF InUse, Expressible
<1>3. CASE file' = file /\ unsaved' = TRUE
    BY <1>1, <1>2, <1>3 DEF Durable!Save, Durable!NotWritten
<1>4. CASE \E last \in LastWriters : file' = SavedFile(file, last)
    <2>1. Durable!Written
        BY <1>1, <1>4, SavedIsWritten
    <2>2. ~ (pending' > 0 \/ unsaved') \/ (pending' > 0 \/ unsaved')
        OBVIOUS
    <2> QED
        BY <1>1, <1>2, <2>1, <2>2 DEF Durable!Save
<1>5. CASE \E last \in LastWriters : file' \in TornFile(file, last) /\ unsaved' = TRUE
    <2>1. Durable!CutShort
        BY <1>5, TornIsCutShort
    <2> QED
        BY <1>1, <1>2, <1>5, <2>1 DEF Durable!Save
<1> QED
    BY <1>3, <1>4, <1>5 DEF Save

LEMMA DurableStep ==
    ASSUME Inv, Inv', [Next]_vars
    PROVE  [Durable!Next]_(Durable!durableVars)
<1>1. CASE Start
    BY <1>1, StartIsStart DEF Durable!Next
<1>2. CASE BusAcquired
    BY <1>2 DEF BusAcquired, InUse, Expressible, Durable!durableVars
<1>3. CASE Killed
    <2>1. up /\ ~ up' /\ file' = file /\ ~ (pending' > 0 \/ unsaved')
        BY <1>3 DEF Killed, GoDown
    <2>2. UNCHANGED <<Starts(file), Stored(file)>>
        BY <2>1
    <2> QED
        BY <2>1, <2>2 DEF Durable!Next, Durable!Crash, Durable!NotWritten
<1>4. CASE Client
    <2>1. up' = up /\ exported /\ file' = file /\ pending' = pending + 1
        BY <1>4 DEF Client, AddAction, RemoveAction, SetName, SetTrigger, SetExec,
                    SetResumeExec, SetProperty, SetSetting, Request,
                    save_config_to_file_async
    <2>2. up /\ up' /\ (pending' > 0 \/ unsaved')
        BY <2>1, BoundAssumption DEF Inv, TypeOK, Phases
    <2>3. UNCHANGED <<Starts(file), Stored(file)>>
        BY <2>1
    <2> QED
        BY <2>2, <2>3 DEF Durable!Next, Durable!Change
<1>5. CASE Save
    BY <1>5, SaveIsSave DEF Durable!Next
<1>6. CASE KilledWhileSaving
    <2>1. up /\ ~ up' /\ pending > 0 /\ ~ (pending' > 0 \/ unsaved')
        BY <1>6 DEF KilledWhileSaving, GoDown, Inv, Phases
    <2>2. Durable!CutShort
        BY <1>6, TornIsCutShort DEF KilledWhileSaving
    <2> QED
        BY <2>1, <2>2 DEF Durable!Next, Durable!Crash
<1>7. CASE UserEdits
    <2>1. /\ file' \in HandMade /\ up' = up /\ cmds' = cmds /\ settings' = settings
          /\ pending' = pending /\ unsaved' = up
        BY <1>7 DEF UserEdits
    <2>2. (pending' > 0 \/ unsaved') <=> up
        BY <2>1 DEF Inv, Phases, TypeOK
    <2>3. UNCHANGED <<up, InUse, Expressible>>
        BY <2>1 DEF InUse, Expressible
    <2>4. <<Starts(file'), Stored(file')>> \in {<<Starts(f), Stored(f)>> : f \in HandMade}
        BY <2>1
    <2> QED
        BY <2>2, <2>3, <2>4 DEF Durable!Next, Durable!Edited
<1>8. CASE UNCHANGED vars
    BY <1>8 DEF vars, InUse, Expressible, Durable!durableVars
<1> QED
    BY <1>1, <1>2, <1>3, <1>4, <1>5, <1>6, <1>7, <1>8 DEF Next

-----------------------------------------------------------------------------
(* The theorems.                                                           *)

\* Ids are bounded by the counter, and whatever is written, torn or edited by hand,
\* the sections of the file have a name that fits a section header
\* (config_manager.cc:113, 320).
THEOREM ConfigTypeCorrect ==
    Spec => []TypeOK
<1>1. Inv => TypeOK
    BY DEF Inv
<1> QED
    BY <1>1, Invariance, PTL

\* Clients see the daemon's actions as they are (dbus_request_handler.cc:186-339,
\* 409, 466).
THEOREM ClientsSeeActions ==
    Spec => []ViewTells
<1>1. Inv => ViewTells
    BY DEF Inv
<1> QED
    BY <1>1, Invariance, PTL

\* A saved file has no section that is not one of the actions, whole, in whatever
\* order commands of the same name were written (config_manager.cc:320-352).
THEOREM SavedSectionsAreActions ==
    Spec => []SectionsAreActions
<1>1. ASSUME Inv PROVE SectionsAreActions
    <2>1. ASSUME Saved, file.kind = "ini", NEW n \in DOMAIN file.actions
          PROVE  \E id \in DOMAIN cmds : StandsFor(file.actions[n], n, cmds[id])
        <3>1. Faithful /\ file # Garbled
            BY <1>1, <2>1 DEF Inv, Garbled, File
        <3> QED
            BY <2>1, <3>1 DEF Faithful, Represents
    <2> QED
        BY <2>1 DEF SectionsAreActions
<1> QED
    BY <1>1, Invariance, PTL

\* What the file can express is read back by the next start
\* (config_manager.cc:287, 367).
THEOREM SavedReadsBack ==
    Spec => []SavedIsReadBack
<1>1. Inv => SavedIsReadBack
    BY FaithfulReadsBack DEF SavedIsReadBack, Inv
<1> QED
    BY <1>1, Invariance, PTL

\* A removed id stays unused (config_manager.cc:113).
THEOREM RemovedIdsStayUnused ==
    Spec => IdsNotReused
<1>1. ASSUME Inv, Next, up, up'
      PROVE  DOMAIN cmds' \cap (1 .. command_id_counter) \subseteq DOMAIN cmds
    <2>1. command_id_counter \in Nat /\ command_id_counter + 1 \notin 1 .. command_id_counter
        BY <1>1 DEF Inv, TypeOK
    <2>2. CASE Client
        <3>1. \/ DOMAIN cmds' \subseteq DOMAIN cmds
              \/ DOMAIN cmds' = DOMAIN cmds \cup {command_id_counter + 1}
            BY <2>2 DEF Client, AddAction, NextId, RemoveAction, SetName, SetTrigger,
                        SetExec, SetResumeExec, SetProperty, SetSetting
        <3> QED
            BY <2>1, <3>1
    <2>3. CASE BusAcquired \/ Save \/ UserEdits
        BY <2>3 DEF BusAcquired, Save, UserEdits
    <2> QED
        BY <1>1, <2>2, <2>3 DEF Next, Start, Killed, KilledWhileSaving, GoDown
<1>2. Inv /\ [Next]_vars =>
         [up /\ up' => DOMAIN cmds' \cap (1 .. command_id_counter) \subseteq DOMAIN cmds]_vars
    BY <1>1
<1> QED
    BY <1>2, Invariance, PTL DEF Spec, IdsNotReused

\* Across restarts, kills and edits by hand the file is a store of the configuration
\* (config_manager.cc:287-366, 373-407).
THEOREM ConfigIsDurable ==
    Spec => DurableSpec
<1>1. Init => Durable!Init
    <2> SUFFICES ASSUME Init PROVE Durable!Init
        OBVIOUS
    <2>1. ~ up /\ ~ (pending > 0 \/ unsaved)
        BY DEF Init, Down
    <2>2. <<Starts(file), Stored(file)>> \in {<<Starts(f), Stored(f)>> : f \in HandMade}
        BY DEF Init
    <2> QED
        BY <2>1, <2>2 DEF Durable!Init
<1>2. ASSUME Inv, Inv', [Next]_vars
      PROVE  [Durable!Next]_(Durable!durableVars)
    BY <1>2, DurableStep
<1> QED
    BY <1>1, <1>2, Invariance, PTL DEF Spec, DurableSpec, Durable!Spec

===============================================================================
