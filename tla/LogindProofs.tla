----------------------------- MODULE LogindProofs -----------------------------
(***************************************************************************)
(* Theorems about LogindManager, for any commands, descriptors and number  *)
(* of signals under way.                                                   *)
(***************************************************************************)
EXTENDS LogindManager, SequenceTheorems, TLAPS

-----------------------------------------------------------------------------
(* The inductive invariant.                                                *)

Coming(signal) == \E i \in DOMAIN signals : signals[i] = signal

\* The wake-up after which the lock is to be taken again is still to come.
WakeUpComes == power # "awake" \/ Coming("WAKE")

EverySleepEnds ==
    \A i \in DOMAIN signals : signals[i] = "SLEEP" =>
        power # "awake" \/ \E j \in DOMAIN signals : i < j /\ signals[j] = "WAKE"

\* The request to suspend that found the lock held is the only one to handle, and
\* the lock is held until that is done.
Delayed ==
    /\ handling \/ Coming("SLEEP") => locks # {}
    /\ ~ (handling /\ Coming("SLEEP"))
    /\ \A i, j \in DOMAIN signals : signals[i] = "SLEEP" /\ signals[j] = "SLEEP" => i = j

Inv == /\ TypeOK
       /\ LockTracked
       /\ power # "awake" => Len(signals) < MaxSignals
       /\ ~ handling => todo = {} /\ ~ Waiting
       /\ EverySleepEnds
       /\ handling \/ (locks = {} /\ ~ failed) => WakeUpComes
       /\ power = "preparing" /\ covered => Delayed
       /\ SleepActionsFirst

-----------------------------------------------------------------------------
(* Signals. *)

LEMMA Dequeued ==
    ASSUME TypeOK, NEW signal \in Signals, Received(signal)
    PROVE  /\ signals' \in Seq(Signals) /\ Len(signals') = Len(signals) - 1
           /\ Len(signals) \in Nat \ {0} /\ signals[1] = signal
           /\ DOMAIN signals = 1 .. Len(signals) /\ DOMAIN signals' = 1 .. Len(signals')
           /\ \A i \in DOMAIN signals' : signals'[i] = signals[i + 1]
<1>1. signals \in Seq(Signals) /\ signals # <<>> /\ signals' = Tail(signals)
      /\ Head(signals) = signal
    BY DEF TypeOK, Received
<1> QED
    BY <1>1, HeadTailProperties

LEMMA Queued ==
    ASSUME TypeOK, NEW signal \in Signals, signals' = Append(signals, signal)
    PROVE  /\ signals' \in Seq(Signals) /\ Len(signals') = Len(signals) + 1
           /\ Len(signals) \in Nat /\ signals'[Len(signals) + 1] = signal
           /\ DOMAIN signals = 1 .. Len(signals) /\ DOMAIN signals' = 1 .. Len(signals')
           /\ \A i \in DOMAIN signals : signals'[i] = signals[i]
<1>1. signals \in Seq(Signals)
    BY DEF TypeOK
<1> QED
    BY <1>1, AppendProperties

\* What is left of the queue still ends every suspension in it.
LEMMA RestEnds ==
    ASSUME EverySleepEnds, NEW signal \in Signals, TypeOK, Received(signal),
           power' = power
    PROVE  EverySleepEnds'
<1>1. /\ Len(signals') = Len(signals) - 1 /\ Len(signals) \in Nat
      /\ DOMAIN signals = 1 .. Len(signals) /\ DOMAIN signals' = 1 .. Len(signals')
      /\ \A i \in DOMAIN signals' : signals'[i] = signals[i + 1]
    BY Dequeued
<1>2. SUFFICES ASSUME NEW i \in DOMAIN signals', signals'[i] = "SLEEP", power = "awake"
               PROVE  \E j \in DOMAIN signals' : i < j /\ signals'[j] = "WAKE"
    BY DEF EverySleepEnds
<1>3. i + 1 \in DOMAIN signals /\ signals[i + 1] = "SLEEP"
    BY <1>1, <1>2
<1>4. PICK k \in DOMAIN signals : i + 1 < k /\ signals[k] = "WAKE"
    BY <1>2, <1>3 DEF EverySleepEnds
<1>5. k - 1 \in DOMAIN signals' /\ i < k - 1 /\ (k - 1) + 1 = k
    BY <1>1, <1>4
<1>6. signals'[k - 1] = "WAKE"
    BY <1>1, <1>4, <1>5
<1> QED
    BY <1>5, <1>6

-----------------------------------------------------------------------------
(* The lock. *)

\* Taking the lock keeps it tracked and leaves none untaken but by a failure, or
\* because a suspension is under way.
LEMMA AcquireKeepsTrack ==
    ASSUME Inv, acquire_sleep_lock
    PROVE  /\ LockTracked' /\ sleep_lock_fd' \in Fds \cup {NoFd} /\ locks' \subseteq Fds
           /\ failed' \in BOOLEAN
           /\ locks # {} => UNCHANGED lockVars
           /\ locks' = {} /\ ~ failed' => power # "awake"
<1>1. /\ sleep_lock_fd \in Fds \cup {NoFd} /\ locks = {sleep_lock_fd} \ {NoFd}
      /\ Fds \subseteq Nat /\ locks \subseteq Fds /\ failed \in BOOLEAN
    BY LogindAssumption DEF Inv, TypeOK, LockTracked
<1>2. CASE sleep_lock_fd >= 0
  <2>1. UNCHANGED lockVars
      BY <1>2 DEF acquire_sleep_lock
  <2>2. locks # {}
      BY <1>1, <1>2 DEF NoFd
  <2>3. sleep_lock_fd' = sleep_lock_fd /\ locks' = locks /\ failed' = failed
      BY <2>1 DEF lockVars
  <2>4. LockTracked'
      BY <1>1, <2>3 DEF LockTracked
  <2> QED
      BY <1>1, <2>1, <2>2, <2>3, <2>4
<1>3. CASE ~ (sleep_lock_fd >= 0)
  <2>1. locks = {} /\ sleep_lock_fd = NoFd
      BY <1>1, <1>3 DEF NoFd
  <2>2. CASE /\ power = "awake"
             /\ \E fd \in Fds \ locks : sleep_lock_fd' = fd /\ locks' = locks \cup {fd}
             /\ failed' = FALSE
    <3>1. PICK fd \in Fds \ locks : sleep_lock_fd' = fd /\ locks' = locks \cup {fd}
        BY <2>2
    <3>2. fd # NoFd /\ locks' = {fd} /\ sleep_lock_fd' = fd
        BY <1>1, <2>1, <3>1 DEF NoFd
    <3> QED
        BY <1>1, <2>1, <2>2, <3>2 DEF LockTracked
  <2>3. CASE failed' = (power = "awake") /\ UNCHANGED <<sleep_lock_fd, locks>>
      BY <1>1, <2>1, <2>3 DEF LockTracked
  <2> QED
      BY <1>3, <2>2, <2>3 DEF acquire_sleep_lock, Inhibit
<1> QED
    BY <1>2, <1>3

LEMMA CloseKeepsTrack ==
    ASSUME Inv, close_sleep_lock
    PROVE  /\ LockTracked' /\ sleep_lock_fd' \in Fds \cup {NoFd} /\ locks' \subseteq Fds
           /\ failed' \in BOOLEAN /\ locks' = {}
  BY DEF Inv, TypeOK, LockTracked, close_sleep_lock

-----------------------------------------------------------------------------
(* Processes nobody waits for. *)

LEMMA AsyncNotWaitedFor ==
    ASSUME NEW cmds \in SUBSET (SleepCommands \cup LockCommands),
           NEW action \in {"exec", "resume_exec"}, processes \subseteq Processes, ~ Waiting,
           processes' = processes \cup AsyncProcesses(cmds, action)
    PROVE  processes' \subseteq Processes /\ ~ Waiting'
<1>1. ASSUME NEW p \in AsyncProcesses(cmds, action)
      PROVE  p \in Processes /\ ~ p.sync
  <2>1. PICK cmd \in cmds : p = Process(cmd, action, FALSE)
      BY DEF AsyncProcesses
  <2> QED
      BY <2>1 DEF Process, Processes
<1> QED
    BY <1>1 DEF Waiting

-----------------------------------------------------------------------------
(* Initial states and steps. *)

LEMMA InitInv == Init => Inv
<1> SUFFICES ASSUME Init PROVE Inv
    OBVIOUS
<1>1. /\ signals \in Seq(Signals) /\ Len(signals) <= MaxSignals
      /\ DOMAIN signals = 1 .. Len(signals)
      /\ EverySleepEnds
  <2>1. CASE signals = <<>>
      BY <2>1, LogindAssumption DEF EverySleepEnds
  <2>2. CASE signals = <<"WAKE">>
      BY <2>2, LogindAssumption DEF EverySleepEnds, Signals
  <2>3. CASE signals = <<"SLEEP", "WAKE">>
      BY <2>3, LogindAssumption DEF EverySleepEnds, Signals
  <2> QED
      BY <2>1, <2>2, <2>3 DEF Init
<1>2. TypeOK
    BY <1>1 DEF Init, TypeOK, Powers
<1>3. LockTracked /\ locks # {}
  <2>1. sleep_lock_fd # NoFd
      BY LogindAssumption DEF Init, NoFd
  <2> QED
      BY <2>1 DEF Init, LockTracked
<1> QED
    BY <1>1, <1>2, <1>3 DEF Init, Inv, Waiting, SleepActionsFirst

LEMMA PrepareForSleepInv == Inv /\ PrepareForSleep => Inv'
<1> SUFFICES ASSUME Inv, PrepareForSleep PROVE Inv'
    OBVIOUS
<1>1. /\ Received("SLEEP") /\ power # "asleep" /\ ~ handling
      /\ handling' = TRUE /\ todo' = SleepCommands
      /\ sleep_lock_fd' = sleep_lock_fd /\ locks' = locks /\ failed' = failed
      /\ power' = power /\ timed_out' = timed_out /\ covered' = covered
      /\ wait_before_sleep' = wait_before_sleep /\ processes' = processes
    BY DEF PrepareForSleep, Received, Running, lockVars, logindVars
<1>2. /\ signals' \in Seq(Signals) /\ Len(signals') = Len(signals) - 1
      /\ Len(signals) \in Nat \ {0} /\ signals[1] = "SLEEP"
      /\ DOMAIN signals = 1 .. Len(signals) /\ DOMAIN signals' = 1 .. Len(signals')
      /\ \A i \in DOMAIN signals' : signals'[i] = signals[i + 1]
    BY <1>1, Dequeued DEF Inv, Signals
<1>3. TypeOK' /\ (power' # "awake" => Len(signals') < MaxSignals)
    BY <1>1, <1>2, LogindAssumption DEF Inv, TypeOK
<1>4. LockTracked' /\ SleepActionsFirst'
    BY <1>1 DEF Inv, LockTracked, SleepActionsFirst
<1>5. EverySleepEnds'
    BY <1>1, RestEnds DEF Inv, Signals
<1>6. WakeUpComes'
  <2>1. SUFFICES ASSUME power = "awake" PROVE Coming("WAKE")'
      BY <1>1 DEF WakeUpComes
  <2>2. PICK j \in DOMAIN signals : 1 < j /\ signals[j] = "WAKE"
      BY <1>2, <2>1 DEF Inv, EverySleepEnds
  <2>3. j - 1 \in DOMAIN signals' /\ signals'[j - 1] = "WAKE"
      BY <1>2, <2>2
  <2> QED
      BY <2>3 DEF Coming
<1>7. power' = "preparing" /\ covered' => Delayed'
    BY <1>1, <1>2 DEF Inv, Delayed, Coming
<1> QED
    BY <1>1, <1>3, <1>4, <1>5, <1>6, <1>7 DEF Inv

LEMMA ActivateSleepCommandInv ==
    ASSUME NEW cmd \in SleepCommands, Inv, ActivateSleepCommand(cmd) PROVE Inv'
<1>1. /\ power # "asleep" /\ handling /\ handling' = TRUE /\ todo' = todo \ {cmd}
      /\ processes' = processes \cup {Process(cmd, "exec", wait_before_sleep)}
      /\ sleep_lock_fd' = sleep_lock_fd /\ locks' = locks /\ failed' = failed
      /\ power' = power /\ timed_out' = timed_out /\ covered' = covered
      /\ wait_before_sleep' = wait_before_sleep /\ signals' = signals
    BY DEF ActivateSleepCommand, Running, lockVars, logindVars, Inv, TypeOK
<1>2. processes' \subseteq Processes
    BY <1>1 DEF Inv, TypeOK, Process, Processes
<1>3. TypeOK' /\ (power' # "awake" => Len(signals') < MaxSignals)
    BY <1>1, <1>2 DEF Inv, TypeOK
<1>4. LockTracked' /\ SleepActionsFirst'
    BY <1>1 DEF Inv, LockTracked, SleepActionsFirst
<1>5. EverySleepEnds' /\ WakeUpComes' /\ (power' = "preparing" /\ covered' => Delayed')
    BY <1>1 DEF Inv, EverySleepEnds, WakeUpComes, Coming, Delayed
<1> QED
    BY <1>1, <1>3, <1>4, <1>5 DEF Inv

\* The lock is given up at the end, when every sleep action is done.
LEMMA ReadyForSleepInv == Inv /\ ReadyForSleep => Inv'
<1> SUFFICES ASSUME Inv, ReadyForSleep PROVE Inv'
    OBVIOUS
<1>1. /\ power # "asleep" /\ handling /\ handling' = FALSE
      /\ todo = {} /\ todo' = todo /\ ~ Waiting /\ processes' = processes
      /\ power' = power /\ timed_out' = timed_out /\ covered' = covered
      /\ wait_before_sleep' = wait_before_sleep /\ signals' = signals
    BY DEF ReadyForSleep, Running, logindVars
<1>2. /\ LockTracked' /\ sleep_lock_fd' \in Fds \cup {NoFd} /\ locks' \subseteq Fds
      /\ failed' \in BOOLEAN /\ locks' = {}
    BY CloseKeepsTrack DEF ReadyForSleep
<1>3. TypeOK' /\ (power' # "awake" => Len(signals') < MaxSignals)
    BY <1>1, <1>2 DEF Inv, TypeOK
<1>4. SleepActionsFirst' /\ todo' = {} /\ ~ Waiting'
    BY <1>1 DEF SleepActionsFirst, Waiting
<1>5. EverySleepEnds' /\ WakeUpComes'
    BY <1>1 DEF Inv, EverySleepEnds, WakeUpComes, Coming
<1>6. power' = "preparing" /\ covered' => Delayed'
    BY <1>1 DEF Inv, Delayed, Coming
<1> QED
    BY <1>1, <1>2, <1>3, <1>4, <1>5, <1>6 DEF Inv

\* The lock is taken again, or another suspension is under way already, or the
\* call failed.
LEMMA WokeUpInv == Inv /\ WokeUp => Inv'
<1> SUFFICES ASSUME Inv, WokeUp PROVE Inv'
    OBVIOUS
<1>1. /\ Received("WAKE") /\ power # "asleep" /\ ~ handling
      /\ handling' = FALSE /\ todo' = todo /\ todo = {} /\ ~ Waiting
      /\ processes' = processes \cup AsyncProcesses(SleepCommands, "resume_exec")
      /\ power' = power /\ timed_out' = timed_out /\ covered' = covered
      /\ wait_before_sleep' = wait_before_sleep
    BY DEF WokeUp, Received, Running, handlerVars, logindVars, Inv, TypeOK
<1>2. /\ LockTracked' /\ sleep_lock_fd' \in Fds \cup {NoFd} /\ locks' \subseteq Fds
      /\ failed' \in BOOLEAN
      /\ locks # {} => UNCHANGED lockVars
      /\ locks' = {} /\ ~ failed' => power # "awake"
    BY AcquireKeepsTrack DEF WokeUp
<1>3. /\ signals' \in Seq(Signals) /\ Len(signals') = Len(signals) - 1
      /\ Len(signals) \in Nat \ {0} /\ signals[1] = "WAKE"
      /\ DOMAIN signals = 1 .. Len(signals) /\ DOMAIN signals' = 1 .. Len(signals')
      /\ \A i \in DOMAIN signals' : signals'[i] = signals[i + 1]
    BY <1>1, Dequeued DEF Inv, Signals
<1>4. processes' \subseteq Processes /\ ~ Waiting'
    BY <1>1, AsyncNotWaitedFor DEF Inv, TypeOK
<1>5. TypeOK' /\ (power' # "awake" => Len(signals') < MaxSignals)
  <2>1. Len(signals') < MaxSignals
      BY <1>3, LogindAssumption DEF Inv, TypeOK
  <2>2. Len(signals') <= MaxSignals /\ processes' \subseteq Processes
      BY <1>3, <1>4, <2>1, LogindAssumption
  <2>3. /\ power' \in Powers /\ timed_out' \in BOOLEAN /\ covered' \in BOOLEAN
        /\ wait_before_sleep' \in BOOLEAN /\ handling' \in BOOLEAN
        /\ todo' \subseteq SleepCommands
      BY <1>1 DEF Inv, TypeOK
  <2> QED
      BY <1>2, <1>3, <2>1, <2>2, <2>3 DEF TypeOK
<1>6. SleepActionsFirst'
    BY <1>1 DEF SleepActionsFirst
<1>7. EverySleepEnds'
    BY <1>1, RestEnds DEF Inv, Signals
<1>8. locks' = {} /\ ~ failed' => WakeUpComes'
    BY <1>1, <1>2 DEF WakeUpComes
<1>9. power' = "preparing" /\ covered' => Delayed'
  <2>1. Coming("SLEEP")' => (Coming("SLEEP") /\ UNCHANGED lockVars) \/ locks = {}
      BY <1>2, <1>3 DEF Coming
  <2> QED
      BY <1>1, <1>3, <2>1 DEF Inv, Delayed, Coming, lockVars
<1> QED
    BY <1>1, <1>2, <1>4, <1>5, <1>6, <1>7, <1>8, <1>9 DEF Inv

LEMMA SessionSignalInv == Inv /\ login1_session_signal_cb => Inv'
<1> SUFFICES ASSUME Inv, login1_session_signal_cb PROVE Inv'
    OBVIOUS
<1>1. PICK signal \in {"LOCK", "UNLOCK"}, action \in {"exec", "resume_exec"} :
          /\ Received(signal)
          /\ processes' = processes \cup AsyncProcesses(LockCommands, action)
    BY DEF login1_session_signal_cb
<1>2. /\ power # "asleep" /\ ~ handling
      /\ handling' = FALSE /\ todo' = todo /\ todo = {} /\ ~ Waiting
      /\ power' = power /\ timed_out' = timed_out /\ covered' = covered
      /\ sleep_lock_fd' = sleep_lock_fd /\ locks' = locks /\ failed' = failed
      /\ wait_before_sleep' = wait_before_sleep
    BY <1>1 DEF login1_session_signal_cb, Received, Running, handlerVars, logindVars,
                lockVars, Inv, TypeOK
<1>3. /\ signals' \in Seq(Signals) /\ Len(signals') = Len(signals) - 1
      /\ Len(signals) \in Nat \ {0} /\ signals[1] = signal
      /\ DOMAIN signals = 1 .. Len(signals) /\ DOMAIN signals' = 1 .. Len(signals')
      /\ \A i \in DOMAIN signals' : signals'[i] = signals[i + 1]
    BY <1>1, Dequeued DEF Inv, Signals
<1>4. processes' \subseteq Processes /\ ~ Waiting'
    BY <1>1, <1>2, AsyncNotWaitedFor DEF Inv, TypeOK
<1>5. TypeOK' /\ (power' # "awake" => Len(signals') < MaxSignals)
  <2>1. Len(signals') < MaxSignals
      BY <1>3, LogindAssumption DEF Inv, TypeOK
  <2>2. Len(signals') <= MaxSignals /\ processes' \subseteq Processes
      BY <1>3, <1>4, <2>1, LogindAssumption
  <2> QED
      BY <1>2, <1>3, <2>1, <2>2 DEF Inv, TypeOK
<1>6. LockTracked' /\ SleepActionsFirst'
    BY <1>2 DEF Inv, LockTracked, SleepActionsFirst
<1>7. EverySleepEnds'
    BY <1>1, <1>2, RestEnds DEF Inv, Signals
<1>8. Coming("WAKE") => Coming("WAKE")'
  <2>1. SUFFICES ASSUME NEW j \in DOMAIN signals, signals[j] = "WAKE"
                 PROVE  Coming("WAKE")'
      BY DEF Coming
  <2>2. j # 1
      BY <1>3, <2>1
  <2>3. j - 1 \in DOMAIN signals' /\ signals'[j - 1] = "WAKE"
      BY <1>3, <2>1, <2>2
  <2> QED
      BY <2>3 DEF Coming
<1>9. locks' = {} /\ ~ failed' => WakeUpComes'
    BY <1>2, <1>8 DEF Inv, WakeUpComes
<1>10. power' = "preparing" /\ covered' => Delayed'
    BY <1>2, <1>3 DEF Inv, Delayed, Coming
<1> QED
    BY <1>2, <1>4, <1>5, <1>6, <1>7, <1>9, <1>10 DEF Inv

LEMMA SetWaitInv == ASSUME NEW value \in BOOLEAN, Inv, set_wait_before_sleep(value) PROVE Inv'
<1>1. UNCHANGED <<sleep_lock_fd, handling, todo, processes, signals, power, locks, failed,
                  timed_out, covered>> /\ wait_before_sleep' \in BOOLEAN
    BY DEF set_wait_before_sleep, handlerVars, logindVars, lockVars
<1> QED
    BY <1>1 DEF Inv, TypeOK, LockTracked, Waiting, EverySleepEnds, WakeUpComes, Coming,
                Delayed, SleepActionsFirst, SleepActionsDone

LEMMA FinishInv == ASSUME NEW p \in processes, Inv, Finish(p) PROVE Inv'
<1>1. /\ UNCHANGED <<sleep_lock_fd, wait_before_sleep, handling, todo, signals, power,
                     locks, failed, timed_out, covered>>
      /\ power # "asleep" /\ processes' \subseteq processes
    BY DEF Finish, Running, handlerVars, logindVars, lockVars
<1> QED
    BY <1>1 DEF Inv, TypeOK, LockTracked, Waiting, EverySleepEnds, WakeUpComes, Coming,
                Delayed, SleepActionsFirst

\* A request is to be answered by a wake-up, for which there is room left.
LEMMA RequestSleepInv == Inv /\ RequestSleep => Inv'
<1> SUFFICES ASSUME Inv, RequestSleep PROVE Inv'
    OBVIOUS
<1>1. /\ power = "awake" /\ power' = "preparing" /\ Len(signals) + 2 <= MaxSignals
      /\ signals' = Append(signals, "SLEEP") /\ timed_out' = FALSE
      /\ covered' = (locks # {} /\ ~ handling /\ \A i \in DOMAIN signals : signals[i] # "SLEEP")
      /\ wait_before_sleep' = wait_before_sleep /\ processes' = processes
      /\ handling' = handling /\ todo' = todo
      /\ sleep_lock_fd' = sleep_lock_fd /\ locks' = locks /\ failed' = failed
    BY DEF RequestSleep, handlerVars, lockVars
<1>2. /\ signals' \in Seq(Signals) /\ Len(signals') = Len(signals) + 1
      /\ Len(signals) \in Nat /\ signals'[Len(signals) + 1] = "SLEEP"
      /\ DOMAIN signals = 1 .. Len(signals) /\ DOMAIN signals' = 1 .. Len(signals')
      /\ \A i \in DOMAIN signals : signals'[i] = signals[i]
    BY <1>1, Queued DEF Inv, Signals
<1>3. TypeOK' /\ (power' # "awake" => Len(signals') < MaxSignals)
  <2>1. Len(signals') < MaxSignals
      BY <1>1, <1>2, LogindAssumption
  <2>2. covered' \in BOOLEAN
      BY <1>1, Zenon
  <2>3. UNCHANGED <<sleep_lock_fd, wait_before_sleep, handling, todo, processes, locks,
                    failed>> /\ power' = "preparing" /\ timed_out' = FALSE
      BY <1>1
  <2>4. /\ sleep_lock_fd' \in Fds \cup {NoFd} /\ locks' \subseteq Fds
        /\ wait_before_sleep' \in BOOLEAN /\ handling' \in BOOLEAN
        /\ todo' \subseteq SleepCommands /\ processes' \subseteq Processes
        /\ failed' \in BOOLEAN /\ timed_out' \in BOOLEAN
      BY <2>3 DEF Inv, TypeOK
  <2>5. Len(signals') <= MaxSignals
      BY <1>2, <2>1, LogindAssumption
  <2> QED
      BY <1>2, <2>1, <2>2, <2>3, <2>4, <2>5 DEF TypeOK, Powers
<1>4. LockTracked' /\ SleepActionsFirst' /\ (~ handling' => todo' = {} /\ ~ Waiting')
    BY <1>1 DEF Inv, LockTracked, SleepActionsFirst, Waiting
<1>5. EverySleepEnds' /\ WakeUpComes'
    BY <1>1 DEF EverySleepEnds, WakeUpComes
<1>6. covered' => Delayed'
  <2>1. covered' => locks # {} /\ ~ handling /\ \A i \in DOMAIN signals : signals[i] # "SLEEP"
      BY <1>1, Zenon
  <2>2. SUFFICES ASSUME locks' # {}, ~ handling',
                        \A i \in DOMAIN signals : signals[i] # "SLEEP"
                 PROVE  Delayed'
      BY <1>1, <2>1
  <2> QED
      BY <1>2, <2>2 DEF Delayed
<1> QED
    BY <1>3, <1>4, <1>5, <1>6 DEF Inv

LEMMA DelayExpiresInv == Inv /\ DelayExpires => Inv'
<1> SUFFICES ASSUME Inv, DelayExpires PROVE Inv'
    OBVIOUS
<1>1. /\ UNCHANGED <<sleep_lock_fd, wait_before_sleep, handling, todo, processes, signals,
                     power, locks, failed, covered>>
      /\ timed_out' = TRUE
    BY DEF DelayExpires, handlerVars, lockVars
<1> QED
    BY <1>1 DEF Inv, TypeOK, LockTracked, Waiting, EverySleepEnds, WakeUpComes, Coming,
                Delayed, SleepActionsFirst

\* Without its lock the program has done what the request is delayed for.
LEMMA SuspendInv == Inv /\ Suspend => Inv'
<1> SUFFICES ASSUME Inv, Suspend PROVE Inv'
    OBVIOUS
<1>1. /\ UNCHANGED <<sleep_lock_fd, wait_before_sleep, handling, todo, processes, signals,
                     locks, failed, timed_out, covered>>
      /\ power = "preparing" /\ (locks = {} \/ timed_out) /\ power' = "asleep"
    BY DEF Suspend, handlerVars, lockVars
<1>2. SleepActionsFirst'
    BY <1>1 DEF Inv, Delayed, Coming, SleepActionsFirst, SleepActionsDone, Waiting
<1> QED
    BY <1>1, <1>2 DEF Inv, TypeOK, Powers, LockTracked, Waiting, EverySleepEnds, WakeUpComes

LEMMA ResumeInv == Inv /\ Resume => Inv'
<1> SUFFICES ASSUME Inv, Resume PROVE Inv'
    OBVIOUS
<1>1. /\ power = "asleep" /\ power' = "awake" /\ signals' = Append(signals, "WAKE")
      /\ UNCHANGED <<sleep_lock_fd, wait_before_sleep, handling, todo, processes,
                     locks, failed, timed_out, covered>>
    BY DEF Resume, handlerVars, lockVars
<1>2. /\ signals' \in Seq(Signals) /\ Len(signals') = Len(signals) + 1
      /\ Len(signals) \in Nat /\ signals'[Len(signals) + 1] = "WAKE"
      /\ DOMAIN signals = 1 .. Len(signals) /\ DOMAIN signals' = 1 .. Len(signals')
      /\ \A i \in DOMAIN signals : signals'[i] = signals[i]
    BY <1>1, Queued DEF Inv, Signals
<1>3. TypeOK'
  <2>1. Len(signals') <= MaxSignals
      BY <1>1, <1>2, LogindAssumption DEF Inv
  <2> QED
      BY <1>1, <1>2, <2>1 DEF Inv, TypeOK, Powers
<1>4. LockTracked' /\ SleepActionsFirst' /\ (~ handling' => todo' = {} /\ ~ Waiting')
    BY <1>1 DEF Inv, LockTracked, SleepActionsFirst, Waiting
<1>5. WakeUpComes'
    BY <1>2 DEF WakeUpComes, Coming
<1>6. EverySleepEnds'
  <2>1. ASSUME NEW i \in DOMAIN signals', signals'[i] = "SLEEP"
        PROVE  i < Len(signals) + 1
      BY <1>2, <2>1
  <2> QED
      BY <1>2, <2>1 DEF EverySleepEnds
<1> QED
    BY <1>1, <1>3, <1>4, <1>5, <1>6 DEF Inv

LEMMA LockSessionInv ==
    ASSUME NEW signal \in {"LOCK", "UNLOCK"}, Inv, LockSession(signal) PROVE Inv'
<1>1. /\ power # "asleep" /\ Len(signals) + 2 <= MaxSignals
      /\ signals' = Append(signals, signal)
      /\ UNCHANGED <<sleep_lock_fd, wait_before_sleep, handling, todo, processes, power,
                     locks, failed, timed_out, covered>>
    BY DEF LockSession, Running, handlerVars, logindVars, lockVars
<1>2. /\ signals' \in Seq(Signals) /\ Len(signals') = Len(signals) + 1
      /\ Len(signals) \in Nat /\ signals'[Len(signals) + 1] = signal
      /\ DOMAIN signals = 1 .. Len(signals) /\ DOMAIN signals' = 1 .. Len(signals')
      /\ \A i \in DOMAIN signals : signals'[i] = signals[i]
    BY <1>1, Queued DEF Inv, Signals
<1>3. TypeOK' /\ (power' # "awake" => Len(signals') < MaxSignals)
  <2>1. Len(signals') < MaxSignals
      BY <1>1, <1>2, LogindAssumption
  <2> QED
      BY <1>1, <1>2, <2>1, LogindAssumption DEF Inv, TypeOK
<1>4. LockTracked' /\ SleepActionsFirst' /\ (~ handling' => todo' = {} /\ ~ Waiting')
    BY <1>1 DEF Inv, LockTracked, SleepActionsFirst, Waiting
<1>5. \A i \in DOMAIN signals' : signals'[i] \in {"SLEEP", "WAKE"} =>
          i \in DOMAIN signals /\ signals'[i] = signals[i]
    BY <1>2
<1>6. EverySleepEnds' /\ (handling' \/ (locks' = {} /\ ~ failed') => WakeUpComes')
    BY <1>1, <1>2, <1>5 DEF Inv, EverySleepEnds, WakeUpComes, Coming
<1>7. power' = "preparing" /\ covered' => Delayed'
    BY <1>1, <1>5 DEF Inv, Delayed, Coming
<1> QED
    BY <1>3, <1>4, <1>6, <1>7 DEF Inv

LEMMA StutterInv == Inv /\ UNCHANGED vars => Inv'
  BY DEF vars, Inv, TypeOK, LockTracked, Waiting, EverySleepEnds, WakeUpComes, Coming,
         Delayed, SleepActionsFirst, SleepActionsDone

LEMMA NextInv == Inv /\ [Next]_vars => Inv'
  BY PrepareForSleepInv, ActivateSleepCommandInv, ReadyForSleepInv, WokeUpInv,
     SessionSignalInv, SetWaitInv, FinishInv, RequestSleepInv, DelayExpiresInv, SuspendInv,
     ResumeInv, LockSessionInv, StutterInv DEF Next, Handler

THEOREM InvariantHolds == Spec => []Inv
<1> QED
    BY InitInv, NextInv, PTL DEF Spec

-----------------------------------------------------------------------------
(* Theorems. *)

\* All state keeps its type: however many signals lag, the descriptor is one the
\* kernel gave, or -1.
THEOREM LogindTypeCorrect == Spec => []TypeOK
<1>1. Inv => TypeOK
    BY DEF Inv
<1> QED
    BY <1>1, InvariantHolds, PTL

\* No inhibitor lock is leaked, and no stale descriptor is kept
\* (acquire_sleep_lock, close_sleep_lock).
THEOREM NoLockLeaked == Spec => []LockTracked
<1>1. Inv => LockTracked
    BY DEF Inv
<1> QED
    BY <1>1, InvariantHolds, PTL

\* A suspension requested while the lock was held starts after its sleep actions,
\* in every interleaving with wake-ups, lock signals and processes
\* (login1_manager_signal_cb).
THEOREM SleepWaitsForActions == Spec => []SleepActionsFirst
<1>1. Inv => SleepActionsFirst
    BY DEF Inv
<1> QED
    BY <1>1, InvariantHolds, PTL

\* Once the program has handled what logind told it, it holds the lock again, unless
\* a call that should have been granted failed (acquire_sleep_lock).
THEOREM LockTakenAgain == Spec => []LockHeldAgain
<1>1. Inv => LockHeldAgain
    BY DEF Inv, WakeUpComes, Coming, LockHeldAgain
<1> QED
    BY <1>1, InvariantHolds, PTL

=============================================================================
