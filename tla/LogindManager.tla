---------------------------- MODULE LogindManager ----------------------------
(***************************************************************************)
(* The DbusLogindManager of logind_manager.cc with what EventManager does   *)
(* for its events, and systemd-logind (external), which suspends the system *)
(* once nobody delays it.  Signals reach the main loop in order, late, and  *)
(* not while the loop waits for a sleep action.  builtin:suspend is one of  *)
(* the requests to suspend; an action that is not a shell command finishes  *)
(* at once.                                                                 *)
(***************************************************************************)
EXTENDS Integers, Sequences, FiniteSets

CONSTANTS
    SleepCommands, LockCommands,    \* ids of the commands with these triggers
    Fds,                            \* descriptors the kernel may give
    MaxSignals                      \* bound: signals under way

ASSUME LogindAssumption ==
    /\ SleepCommands \cap LockCommands = {}
    /\ Fds \subseteq Nat /\ Cardinality(Fds) >= 1
    /\ MaxSignals \in Nat /\ MaxSignals >= 2    \* those that may wait at the start

VARIABLES
    sleep_lock_fd,
    wait_before_sleep,
    handling,       \* whether the main loop is inside receive(EVENT_SLEEP)
    todo,           \* and the commands it has still to activate there
    processes,      \* of the commands, running; equal ones are counted once
    signals,        \* from logind, not dispatched yet
    power,          \* what logind is doing
    locks,          \* open descriptors of inhibitor locks of this program
    failed,         \* history: the last Inhibit failed although it was permitted
    timed_out,      \* history: InhibitDelayMaxSec passed in this suspension
    covered         \* history: the request to suspend found the lock held and
                    \* no earlier request unhandled

handlerVars == <<handling, todo>>
logindVars  == <<power, timed_out, covered>>
lockVars    == <<sleep_lock_fd, locks, failed>>
vars == <<sleep_lock_fd, wait_before_sleep, handling, todo, processes, signals, power,
          locks, failed, timed_out, covered>>

-----------------------------------------------------------------------------
NoFd    == -1
Signals == {"SLEEP", "WAKE", "LOCK", "UNLOCK"}  \* PrepareForSleep(true), (false), ...
Powers  == {"awake", "preparing", "asleep"}

Process(cmd, action, sync) == [cmd |-> cmd, action |-> action, sync |-> sync]
Processes == [cmd : SleepCommands \cup LockCommands, action : {"exec", "resume_exec"},
              sync : BOOLEAN]

AsyncProcesses(cmds, action) == {Process(cmd, action, FALSE) : cmd \in cmds}

Waiting == \E p \in processes : p.sync      \* in g_spawn_sync
Running == power # "asleep"                 \* asleep, no process runs

\* After init: the signals subscribed to before the lock was acquired may hold
\* the end of a suspension, or all of it.
Init ==
    /\ sleep_lock_fd \in Fds
    /\ locks = {sleep_lock_fd}
    /\ wait_before_sleep \in BOOLEAN
    /\ handling = FALSE /\ todo = {}
    /\ processes = {}
    /\ signals \in {<<>>, <<"WAKE">>, <<"SLEEP", "WAKE">>}
    /\ power = "awake"
    /\ failed = FALSE /\ timed_out = FALSE /\ covered = FALSE

-----------------------------------------------------------------------------
(* The main loop. *)

\* logind refuses a lock on what is already under way.
Inhibit ==
    \/ /\ power = "awake"
       /\ \E fd \in Fds \ locks : sleep_lock_fd' = fd /\ locks' = locks \cup {fd}
       /\ failed' = FALSE
    \/ /\ failed' = (power = "awake")
       /\ UNCHANGED <<sleep_lock_fd, locks>>

\* Mutant: acquires another lock whether or not it holds one.
acquire_unchecked == Inhibit

\* Mutant: takes the index into the list of descriptors for the descriptor.
acquire_index ==
    IF sleep_lock_fd >= 0 THEN UNCHANGED lockVars
    ELSE /\ power = "awake"
         /\ \E fd \in Fds \ locks : locks' = locks \cup {fd}
         /\ sleep_lock_fd' = 0
         /\ failed' = FALSE

acquire_sleep_lock == IF sleep_lock_fd >= 0 THEN UNCHANGED lockVars ELSE Inhibit

\* Mutant: the descriptor is not forgotten.
close_only ==
    locks' = locks \ {sleep_lock_fd} /\ UNCHANGED <<sleep_lock_fd, failed>>

\* close(-1) closes nothing.
close_sleep_lock ==
    sleep_lock_fd' = NoFd /\ locks' = locks \ {sleep_lock_fd} /\ UNCHANGED failed

Received(signal) ==
    /\ Running /\ ~ handling
    /\ signals # <<>> /\ Head(signals) = signal
    /\ signals' = Tail(signals)

\* Mutant: lets logind go on before the sleep actions ran.
PrepareAndClose ==
    /\ Received("SLEEP")
    /\ handling' = TRUE /\ todo' = SleepCommands
    /\ close_sleep_lock
    /\ UNCHANGED <<wait_before_sleep, processes>> /\ UNCHANGED logindVars

PrepareForSleep ==
    /\ Received("SLEEP")
    /\ handling' = TRUE /\ todo' = SleepCommands
    /\ UNCHANGED <<wait_before_sleep, processes>> /\ UNCHANGED logindVars
    /\ UNCHANGED lockVars

\* The commands are an unordered map's.
ActivateSleepCommand(cmd) ==
    /\ Running /\ handling /\ ~ Waiting
    /\ cmd \in todo
    /\ todo' = todo \ {cmd}
    /\ processes' = processes \cup {Process(cmd, "exec", wait_before_sleep)}
    /\ UNCHANGED <<handling, wait_before_sleep, signals>> /\ UNCHANGED logindVars
    /\ UNCHANGED lockVars

ReadyForSleep ==
    /\ Running /\ handling /\ ~ Waiting
    /\ todo = {}
    /\ handling' = FALSE
    /\ close_sleep_lock
    /\ UNCHANGED <<todo, wait_before_sleep, processes, signals>> /\ UNCHANGED logindVars

WokeUp ==
    /\ Received("WAKE")
    /\ processes' = processes \cup AsyncProcesses(SleepCommands, "resume_exec")
    /\ acquire_sleep_lock
    /\ UNCHANGED wait_before_sleep /\ UNCHANGED handlerVars /\ UNCHANGED logindVars

login1_session_signal_cb ==
    /\ \/ /\ Received("LOCK")
          /\ processes' = processes \cup AsyncProcesses(LockCommands, "exec")
       \/ /\ Received("UNLOCK")
          /\ processes' = processes \cup AsyncProcesses(LockCommands, "resume_exec")
    /\ UNCHANGED wait_before_sleep /\ UNCHANGED handlerVars /\ UNCHANGED logindVars
    /\ UNCHANGED lockVars

\* A D-Bus client sets WaitBeforeSleep.
set_wait_before_sleep(value) ==
    /\ Running /\ ~ handling
    /\ wait_before_sleep' = value
    /\ UNCHANGED <<processes, signals>> /\ UNCHANGED handlerVars
    /\ UNCHANGED logindVars /\ UNCHANGED lockVars

Handler == PrepareForSleep \/ ReadyForSleep \/ WokeUp \/ login1_session_signal_cb
           \/ \E cmd \in SleepCommands : ActivateSleepCommand(cmd)

-----------------------------------------------------------------------------
(* The processes and logind (external). *)

Finish(p) ==
    /\ Running
    /\ p \in processes
    /\ processes' = processes \ {p}
    /\ UNCHANGED <<wait_before_sleep, signals>> /\ UNCHANGED handlerVars
    /\ UNCHANGED logindVars /\ UNCHANGED lockVars

\* The answer, PrepareForSleep(false), must still fit.
RequestSleep ==
    /\ power = "awake"
    /\ Len(signals) + 2 <= MaxSignals
    /\ power' = "preparing"
    /\ signals' = Append(signals, "SLEEP")
    /\ timed_out' = FALSE
    /\ covered' = (locks # {} /\ ~ handling /\ \A i \in DOMAIN signals : signals[i] # "SLEEP")
    /\ UNCHANGED <<wait_before_sleep, processes>> /\ UNCHANGED handlerVars
    /\ UNCHANGED lockVars

DelayExpires ==
    /\ power = "preparing"
    /\ ~ timed_out
    /\ timed_out' = TRUE
    /\ UNCHANGED <<wait_before_sleep, processes, signals, power, covered>>
    /\ UNCHANGED handlerVars /\ UNCHANGED lockVars

Suspend ==
    /\ power = "preparing"
    /\ locks = {} \/ timed_out
    /\ power' = "asleep"
    /\ UNCHANGED <<wait_before_sleep, processes, signals, timed_out, covered>>
    /\ UNCHANGED handlerVars /\ UNCHANGED lockVars

Resume ==
    /\ power = "asleep"
    /\ power' = "awake"
    /\ signals' = Append(signals, "WAKE")
    /\ UNCHANGED <<wait_before_sleep, processes, timed_out, covered>>
    /\ UNCHANGED handlerVars /\ UNCHANGED lockVars

LockSession(signal) ==
    /\ Running
    /\ Len(signals) + 2 <= MaxSignals
    /\ signals' = Append(signals, signal)
    /\ UNCHANGED <<wait_before_sleep, processes>> /\ UNCHANGED handlerVars
    /\ UNCHANGED logindVars /\ UNCHANGED lockVars

Next ==
    \/ Handler
    \/ \E value \in BOOLEAN : set_wait_before_sleep(value)
    \/ \E p \in processes : Finish(p)
    \/ RequestSleep \/ DelayExpires \/ Suspend \/ Resume
    \/ \E signal \in {"LOCK", "UNLOCK"} : LockSession(signal)

Spec == Init /\ [][Next]_vars

\* The main loop runs, the commands it waits for end, logind suspends when it
\* may.  Nobody has to ask for anything, and the delay need not expire.
FairSpec == /\ Spec
            /\ WF_vars(Handler)
            /\ WF_vars(\E p \in processes : p.sync /\ Finish(p))
            /\ WF_vars(Suspend)

-----------------------------------------------------------------------------
TypeOK ==
    /\ sleep_lock_fd \in Fds \cup {NoFd} /\ locks \subseteq Fds
    /\ wait_before_sleep \in BOOLEAN
    /\ handling \in BOOLEAN /\ todo \subseteq SleepCommands
    /\ processes \subseteq Processes
    /\ signals \in Seq(Signals) /\ Len(signals) <= MaxSignals
    /\ power \in Powers
    /\ failed \in BOOLEAN /\ timed_out \in BOOLEAN /\ covered \in BOOLEAN

\* No inhibitor lock is open but the one whose descriptor the program knows, and
\* it knows none that is not open: a lock nobody can close would delay every
\* suspension, a stale descriptor would keep acquire_sleep_lock from taking a
\* new one.
LockTracked == locks = {sleep_lock_fd} \ {NoFd}

\* Every sleep action has been started, and those to be waited for are over.
SleepActionsDone ==
    /\ \A i \in DOMAIN signals : signals[i] # "SLEEP"
    /\ ~ handling /\ todo = {} /\ ~ Waiting

\* A suspension requested while the lock was held and no other was being handled
\* starts only after its sleep actions, unless logind's delay ran out
\* (login1_manager_signal_cb closes the lock after receive).  One that begins
\* after a wake-up and before the lock is taken again is not delayed.
SleepActionsFirst ==
    power = "asleep" /\ covered /\ ~ timed_out => SleepActionsDone

\* However requests to suspend, wake-ups and slow actions overlap, and although
\* logind refuses a lock while it prepares to suspend, the lock is held again
\* when the program has handled what logind told it, unless a call that logind
\* should have granted failed: acquire_sleep_lock does not try again.
LockHeldAgain ==
    /\ ~ failed
    /\ power = "awake" /\ ~ handling
    /\ \A i \in DOMAIN signals : signals[i] \notin {"SLEEP", "WAKE"}
    => locks # {}

\* The program does not delay a suspension for ever: logind waits for the lock,
\* the lock for the sleep actions, and none of these waits for another in turn.
SuspendNotBlocked == power = "preparing" ~> power = "asleep"

=============================================================================
