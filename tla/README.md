# A TLA+ verification of xidlechain

xidlechain runs commands when the user of an X11 session has been idle for a
while, when the user comes back, when the system goes to sleep or wakes up, and
when the session is locked or unlocked. This directory models the daemon,
checks the models with TLC and proves the central ones with TLAPS.

## 1. The system

The daemon (`xidlechain.cc`) is a single GLib main loop. Every handler runs to
completion: synchronous D-Bus calls and `g_spawn_sync` block the loop without
re-entering it. Concurrency comes from what the loop talks to: the X server,
logind, PulseAudio, D-Bus clients (the GUI among them), the processes it
spawns, and one worker thread of its own. `main` reads the configuration, then
initialises the activity, audio, logind and brightness parts, then the
EventManager (which enables the timeouts), then the D-Bus interface.

| Component | State | Operations | Talks to |
|---|---|---|---|
| EventManager (`event_manager.cc`) | `audio_playing`, `paused`, `timeouts_are_enabled` | `receive` of 14 events | is called by all detectors and the D-Bus handler; calls the activity detector and runs commands |
| XsyncActivityDetector (`activity_detector.cc`) | idle alarms by id and by data, one resume alarm, `min_timeout` | add, remove, clear; the GDK event filter | X server: alarms out, alarm events in, in order but late |
| Command (`command.cc`) | trigger, `timeout_ms`, the two actions, `activated` | activate, deactivate, `set_trigger_from_str` | spawner, brightness, logind |
| ConfigManager (`config_manager.cc`) | command map, id counter, settings, the file | parse, save, edit | EventManager reads it, the D-Bus handler changes it |
| DbusRequestHandler (`dbus_request_handler.cc`) | exported objects | set properties, AddAction, RemoveAction, Pause, Unpause | ConfigManager, EventManager |
| PulseAudioDetector (`audio_detector.cc`) | `running_sinks`, `sent_first_message` | callbacks of the PulseAudio client | PulseAudio: requests and answers in order, sinks change meanwhile |
| DbusBrightnessController (`brightness_controller.cc`) | `dimming_state`, `original_brightness`, the cancellable | dim, restore; dimmer thread; completion callback | GTask thread, logind's SetBrightness, udev |
| DbusLogindManager (`logind_manager.cc`) | the sleep inhibitor lock's descriptor | signals PrepareForSleep, Lock, Unlock; suspend, idle hint | logind |
| GProcessSpawner (`process_spawner.cc`) | none | run a command, waiting or not | processes |
| GUI (`gui/`) | a copy of the daemon's actions, the rows and switches of its windows, a dialog | load at activation; add, edit, delete, switch | the daemon, by synchronous calls; it listens to no signal |

What is hard here, and which component has it:

* *Stale events.* Alarm events queue up while the loop is busy; alarms and
  commands change meanwhile (detector, EventManager).
* *A cached flag* that five handlers refresh, each under conditions of its own
  (EventManager).
* *A history in a flag:* `activated` outlives the alarms and the trigger that
  set it (Command).
* *Two threads and a cancellation protocol* (brightness).
* *Answers about the past:* sinks change while they are asked about (audio).
* *A handshake with a third party that may go on without us:* the inhibitor
  lock is closed, refused, re-acquired while new suspensions begin (logind).
* *Edges:* the resume alarm at `min_timeout - 1`, truncating division in the
  dimming, an `int64_t` narrowed to `int`.
* *A file* rewritten in place, later than the reply (configuration).
* *A copy* that is read once and edited field by field, over calls that may be
  refused half-way, given up and served late, or reach another daemon (GUI).

`PROJECT.json` lists each hazard at its line.

What makes each component correct: the detector tells its client once that the
user went idle and once that the user is back; the EventManager has alarms
exactly for the present timeout commands exactly while they are allowed; the
brightness controller restores what it dimmed, once, and its thread never
writes after that; the audio detector's last event agrees with the sinks; the
logind manager lets the system sleep neither too early nor never; the
configuration shows clients what the daemon has, and a saved file is read back
as what was saved; the monitor is dimmed exactly while a command that dimmed it
is activated; the GUI shows what the daemon has and sends what the user changed.

## 2. Modules

| Module | Models | State and actions |
|---|---|---|
| `IdleNotifier` | the promise of the interface `ActivityDetector` | who is registered, who has been notified; re-registration, timeout, resume |
| `ActivityDetector` | the Xsync detector and, external, the X server | `det` is the object (alarms, `min_timeout`) with the alarms it holds at the server; the interface's calls are operators from detector to detector, so that a handler that makes several composes them in one step. `Tick` and `UserActivity` move IDLETIME and send alarm events |
| `EventManager` | EventManager, the activation flag of commands, the command map, the requests of D-Bus clients | extends `ActivityDetector`; one action per event. `owed` is history: which commands the present alarms have activated and not yet deactivated |
| `EventManagerProofs` | theorems about the above | |
| `BrightnessController` | the controller, the dimmer thread, GTask's cancellation | `Dim`, `CancelDimming`, `RestoreDimmed`, `TaskCallback` in the loop; the thread's steps `Start` to `Return`, split where GTask is called, where the backlight is written and where the thread sleeps |
| `GradualDimmer` | what `dim` and `restore_brightness` promise, without tasks and threads | the level reached, whether a step is under way, the level last restored or chosen by the user; dim, begin and end of a step, cancel, dimmed, restored |
| `DimmingCommands` | timeout commands that dim, with the controller and what the detector promises | extends `BrightnessController`; `registered` and `notified` are `IdleNotifier`'s, whose action `Resume` it uses; `activated` are the commands' flags. `dimmed_by` is history: the activated commands whose `dim()` was accepted |
| `DimmingProofs` | theorems about `BrightnessController` and `DimmingCommands` | |
| `AudioDetector` | the callbacks; external, the PulseAudio server | two message sequences; `running_sinks` is the view, `sinks` the truth |
| `AudioProofs` | theorems about it | |
| `LogindManager` | the inhibitor lock, sleep, wake and lock events with the processes they run; external, logind | the handler of PrepareForSleep is split into one step per command, since it waits; everything else is one step |
| `LogindProofs` | theorems about it | |
| `ConfigStore` | ConfigManager's command map, settings and file, the requests of D-Bus clients, restarts of the daemon; external, GKeyFile, the user's editor and the clients | `cmds` and `command_id_counter` are the map, `objects` the exported tree, `pending` the idle callbacks that will save. A request is one action of the loop, `Save` another; `KilledWhileSaving` and a `Save` that fails leave a torn file. `unsaved` is history: what is on disk is not known to be what was saved |
| `DurableConfig` | what a store of the configuration promises across restarts | the configuration in use and the one stored, and whether the store is dirty; start, change, save, crash, edit by hand |
| `ConfigStoreProofs` | theorems about the above | |
| `GuiController` | the GUI with the daemon of `ConfigStore`; external, the user and other clients | extends `ConfigStore`; `id_to_action_info` is the copy, `rows` and `switches` are what the windows show, `dialog` the edit under way, `call` the one synchronous call, `requests` what the daemon has not served. One action per click, per call made, per answer; `GiveUp`, `DaemonKilled`, `Rival` and a second `Activate` are what goes wrong |
| `GuiProofs`, `GuiTypeProofs`, `GuiCopyProofs` | theorems about it: switches and what edits send; types; rows and copies | |
| `EventManagerMC`, `DimmingMC`, `BrightnessMC`, `AudioMC`, `LogindMC`, `ConfigMC`, `GuiMC` | instances for TLC | |

`EventManager` composes the detector with its client: the same X server, queue
and alarms. `LogindManager` models what EventManager does for the events of
sleep and lock, which change nothing but processes; EventManager's own `Wake`
is the part of a wake-up that deactivates timeout commands. The setting
`wake_resumes_activity` only chooses whether `Wake` happens.

`EventManager` and `ConfigStore` share the command map: each models what the
requests of D-Bus clients do to its part of it, the first the timeouts and
activation flags, the second names, triggers and strings.

`DimmingCommands` puts commands on top of the brightness controller. Of idleness
it takes what `IdleNotifier` promises, which `EventManager` is proved to
implement, so that neither alarms nor queues have to be repeated; `Wake`,
`DisableTimeouts` and `EnableTimeouts` are the other ways in which EventManager
changes who is registered and activated. Without its commands' variables, its
behaviours are those of `BrightnessController`: `dim()` may be called whenever
it is accepted, `restore_brightness()` whenever something is dimmed.

`GuiController` puts the GUI on top of `ConfigStore`: a request that is served is
one of its actions (`Does`), or is refused (`Refuses`). A call blocks the GUI; the
daemon may be busy waiting for a command meanwhile, so that the call is given up
and the request is served later. An `int` that overflows (`timeout_sec * 1000`)
is undefined in C++ and wraps around in the builds of the Makefile; it is modelled
so. Left out are what the GUI refuses by itself, which changes nothing, the error
dialogs, and closing one of two windows. What a window loads by two calls, `GetAll`
and `GetManagedObjects`, it loads in one step. The daemon's saves succeed here;
`ConfigMC` has those that fail.

Abstractions. In `EventManager` commands have no names or strings; in
`ConfigStore` these are values, of which it only matters whether GKeyFile can
hold them. An alarm is a record of
its data, its wait value and a serial number that stands for its XID: an alarm
created anew differs from every alarm that is live or has events under way, so
an event of a deleted alarm is told apart as the code tells it, by XID. Several
alarms passed by one step of the counter send their events in any order.
Requests that the code refuses change nothing and are left out, except in
`GuiController`.

A trigger's text is a record of its kind and its number of seconds;
`TriggerText` and `Parsed` do the arithmetic of the code, `ToInt` its narrowing
of an `int64_t` to `int`. Of GKeyFile the model assumes, from its use with raw
values (`g_key_file_set_value`): a section whose name has brackets or control
characters is refused without a word (`Unwritable`), and a value with a line
break comes out as two lines of which the second is no key (`Multiline`). A
file that cannot be read for a reason that has the error code of a missing file
but another domain is left out.

## 3. Checks

`tlc -config R.cfg M` for each run; all passing runs explore their state space
completely.

| Run | Question | Bounds |
|---|---|---|
| `EventManagerMC` | type, `EnabledIffAllowed`, `AlarmsMatchCommands`, `ResumeAlarmCovers`, `NoAlarmLeaked`, `DataUnique`, `NoResumeLost`, `NoDoubleTimeout`, `EnableOrderIrrelevant`, the refinement `NotifierSpec`, and `ResumeDelivered` | 2 commands, timeouts {2, 3}, 2 events in flight, a trigger besides TIMEOUT |
| `DimmingMC` | `ReportedOnce`, `RestoredStaysRestored`, `DimmedIffByCommand`, `DimsGradually`, `ThreadsComeToEnd`, the refinement `DimmerSpec`, `DimmingEnds`, `UndimmedWhenNoneActive` | 2 commands, 2 tasks at a time, levels 0..2, minimum 0, 3 clock steps, writes may fail |
| `AudioMC` | `LastEventTells`, `ViewCatchesUp`, `SilenceReported` | 2 sinks, 4 messages |
| `LogindMC` | `LockTracked`, `SleepActionsFirst`, `LockHeldAgain`, `SuspendNotBlocked` | 2 sleep commands, 1 lock command, 3 signals, 2 descriptors |
| `ConfigMC` | `ViewTells`, `SectionsAreActions`, `SavedIsReadBack`, `IdsNotReused`, and the refinement `DurableSpec` | 2 names and one that cannot be written, 1 command string, clients set timeout 1, files have 1 and 4, with 5-bit `int`s and 4 ms to the second, ids up to 2, 1 pending save, 6 files made by hand; the two names are symmetric |
| `GuiMC` | `CopyAgrees`, `RowsAreActions`, `SwitchAgrees`, `OnlyChangesSent` | 2 names, 1 command string and one that is refused, a file with 1 action, ids up to 2, 3 acts of the user and others, 1 late request, 2 windows, one kind of mishap in a behaviour; of the seconds entered one overflows to a negative `int`, one to another positive one |

Why the bounds are enough to meet the interesting cases. Two commands with two
timeouts are the fewest for a minimum that changes, stays behind after its
command is gone, or is shared. A queue of two holds an idle event and the
resume behind it while alarms are replaced; for longer queues, and input that is
noticed late, the invariants are proved. Time is counted in units in which the
smallest timeout is 2, so that the resume alarm at 1 is above the counter's
reset value 0. `MaxIdle` stops IDLETIME once every alarm has been passed. Two
tasks let a new dimming start while the thread of a cancelled one has not ended,
two commands let one be activated while the controller is busy with the other.
With a minimum of 0 the elapsed share of 2 levels in 3 steps is rounded.
Three signals are the end of one suspension, the next and its end.
With two ids, two actions can share a name, swap names, and one can be removed
and another added, by several saves, kills and restarts in a row; with five
bits, 4 s are 16 ms and come back as -16 ms. Each condition of `Expressible` is
there because TLC found `SavedIsReadBack` violated without it: two actions of
one name leave one section, an unwritable name none, an action without commands
or with a negative timeout stops the next start, a line break garbles the file.
`ConfigMC` has no command with a line break; that such a file is garbled and
nothing worse is in the proof. Its symmetry is sound: no property of the run is
a liveness property, and names are only compared. Three acts are an edit that is
refused half-way, its correction and a deletion, or an edit with one of a rival
before and one after it; the two windows are those of `GuiAssert`.

The audio runs do not check for deadlock: when the connection has failed, or
all sinks have been removed, nothing is left to happen; nor do those of the GUI,
which aborts when it cannot load. All other runs do.

### Fairness

* `EventManager`: the main loop dispatches the events of the X connection
  (weak fairness of `Deliver`). Nothing makes the user act or time pass.
* `DimmingCommands`: callbacks that wait in the main loop are dispatched,
  threads are scheduled. Nothing makes the user idle or come back.
* `AudioDetector`: both ends serve their connection. No sink has to change.
* `LogindManager`: the loop runs, a command that is waited for ends, logind
  suspends when it may. Requests, wake-ups and the expiry of the delay are not
  fair: `SuspendNotBlocked` holds without logind's time limit. It does rest on
  sleep actions ending: one that never does blocks the whole daemon.
* `ConfigStore`, `GuiController`: none, and no liveness. Saving is an idle
  callback, which GLib dispatches after D-Bus requests: clients that keep calling
  keep it waiting.

### What the code does not keep

Each of these runs checks one statement of the repository and TLC finds it
violated.

| Run | Statement | What happens |
|---|---|---|
| `LostResume` | a timeout action is "Deactivated once activity resumes" (`xidlechain.1.scd:87`) | Audio starts, or the daemon is paused, while the user is idle: all alarms are destroyed, the resume alarm included, and the activated command stays activated. `NoResumeLost` says what does hold: no resume is lost while the alarms stay |
| `NewVersion` | a retriggered command "is effectively a new command" (`event_manager.cc:148`) | its flag `activated` survives, so its first timeout does nothing |
| `StaleBrightness` | undim restores the brightness "from before the dimming started" (`xidlechain.1.scd:107`) | the attribute is read from the device object's cache, so it is the level from before the first dimming |
| `AudioUnwatched` | events tell whether a sink runs (`audio_detector.h:15`) | a sink that changes between the answer to the list and the subscription is missed |
| `ConfigUnspecified` | "At least one of *exec* and *resume_exec* must be specified" (`xidlechain.1.scd:80`) | a client may empty both, one after the other; the action is saved so, and the daemon does not start with that file again |
| `GuiAssert` | a button's action exists (`g_assert`, `xidlechain_app_controller.cc:94`, `:232`) | the GUI is started again while it runs: a second window gets rows of the same entries, each of which remembers one row. An action deleted through either window leaves the older row, and a click on it aborts the program |

That xidlechain waits for sleep actions (`xidlechain.1.scd:42`) is true with a
limit: a suspension that begins after a wake-up and before the lock is taken again
is not delayed. `SleepActionsFirst` says when waiting is guaranteed.

A restart of the daemon numbers the actions anew, and the GUI does not notice: an
edit then goes to whichever action has the id. `GuiMC` has the restart, but
nothing in the repository promises otherwise. An activated dim command that is
removed or retriggered leaves the monitor dim, for the same reason as in
`NewVersion` and `RemoveAction`: nobody deactivates it.

Three comments are imprecise in a way that changes little: "An initial event is
always sent" (`audio_detector.h:27`; not if there is no sink), "timeouts are always
enabled if audio is not running" (`event_manager.cc:118`; not while paused, but
the early return it justifies is right, see `EnabledIffAllowed`), and the list
of transitions at `brightness_controller.h:24` (a cancelled dimming goes to
NONE, never to DIMMED).

`StaleBrightness` rests on what is known of libgudev, outside the repository:
`g_udev_device_get_sysfs_attr` caches values in the device object.
`LockHeldAgain` rests on logind's rule that a delay lock is refused while the
suspension it is to delay is under way.

## 4. Proofs

`EventManagerProofs` holds for every set of commands and timeouts, every queue
length and every bound of the model; `tlapm EventManagerProofs.tla` checks it.
Assumed are the constants' named assumptions only: ids are positive numbers and
finitely many, timeouts lie between 2 (the code's assertion) and the largest
`int64_t`.

| Theorem | Says |
|---|---|
| `TypeCorrect` | `TypeOK` |
| `EnabledExactlyWhenAllowed` | `EnabledIffAllowed` |
| `AlarmsFollowCommands` | `AlarmsMatchCommands` |
| `DetectorSound` | `ResumeAlarmCovers`, `NoAlarmLeaked`, `DataUnique` |
| `EveryIdleAlarmCovered`, `DataStaysUnique` | its first and last part by themselves |
| `AddingOrderIrrelevant` | `EnableOrderIrrelevant` |
| `EnablingIsTheLoop` | every step that enables the timeouts leaves what the code's loop leaves, in any order |
| `ResumeNeverLost`, `NeverTimedOutTwice` | `NoResumeLost`, `NoDoubleTimeout`, given `ShortLag` |
| `ImplementsNotifier` | `NotifierSpec`, given `ShortLag` |

The argument has three layers.

1. `Inv` = types, `GoodDetector(det)`, `AlarmsMatchCommands`,
   `EnabledIffAllowed`. `ResumeAlarmCovers` alone is not inductive: that a new
   idle alarm lies above the resume alarm follows only if `min_timeout` is the
   minimum the resume alarm was made for, even after that command is gone
   (`MinimumTracked`). Each detector call has a lemma (`AddIsGood`,
   `AddAllIsGood`, `RemoveIsGood`, `ClearIsNew`), each action one that builds on
   them.
2. `QueueInv` orders the events in flight against the counter, the owed
   commands and the live alarms. All client actions only shrink what it speaks
   of (`ClientStep`), so they share one proof; the X server's two actions and
   the three kinds of delivery have their own. This layer needs `ShortLag`: the
   counter is reset below every resume alarm. It is needed: if input is noticed
   so late that the counter is seen at exactly `min_timeout - 1`, the event
   counts as an idle event (`activity_detector.cc:87`), its alarm is not found,
   and the resume is dropped.
3. Refinement: every step of `EventManager` re-registers, times out, resumes or
   stutters in `IdleNotifier`; a timeout must not be of a datum notified
   already, which is `NoDoubleTimeout`'s content.

The model enables all timeouts in one operator, where the code calls
`add_idle_timeout` for one command after the other, in the order of a hash table.
`AddingOrderIrrelevant` and `EnablingIsTheLoop` say that this is the same.
`EnableOrderIrrelevant` folds over the orders; the fold is unfolded to the recursive
function it is defined by, and the operator, on the commands at some places of the
order, satisfies the same recursion (`AllOfIsFold`). Two functions that do are equal,
since there would be a smallest set of places on which they differ (`FoldIsUnique`):
this stands for the induction, which the provers cannot instantiate. The content is
one lemma: adding a timeout to the alarms of some leaves the alarms of all of them,
whether or not it is the new minimum.

`ConfigStoreProofs` holds for every set of names, commands and timeouts, every
width of `int` and length of a second, every set of files made by hand and
every number of actions and pending saves. Assumed are the named assumptions of
the constants: names are finitely many, the empty string is no command,
timeouts are positive `int`s, and the files made by hand are files.

| Theorem | Says |
|---|---|
| `ConfigTypeCorrect` | `TypeOK` |
| `ClientsSeeActions` | `ViewTells` |
| `SavedSectionsAreActions` | `SectionsAreActions` |
| `SavedReadsBack` | `SavedIsReadBack` |
| `RemovedIdsStayUnused` | `IdsNotReused` |
| `ConfigIsDurable` | `DurableSpec`: `ConfigStore` implements `DurableConfig` |

The invariant adds three facts to the types and `ViewTells`. A timeout is a
whole number of seconds (`WholeSeconds`), without which text would not read
back (`TextReadsBack`, the arithmetic of the proof). Requests come only while
the tree is exported (`Phases`). And while nothing is pending or unsaved, the
file is `Faithful`: it has a section for every writable name, each of them an
action's, or it is garbled by a line break. Requests leave a save pending, so
that nothing is claimed of the file until `Save` (`RequestInv`); `Start` makes
it faithful from the other side, by numbering the sections one to one.

The refinement rests on that invariant. A faithful file that is expressible stores
the configuration in use (`FaithfulIsStored`, `SavedIsWritten`), a file cut short
is a part of it in which one action at most is not as it was (`TornIsPart`,
`TornIsCutShort`), and then one lemma says what each step is in `DurableConfig`
(`DurableStep`).

`DimmingProofs` holds for every number of tasks and commands, every range of the
backlight and every duration of the dimming; assumed is `BrightnessAssumption`
only: the constants have their types, the minimum is 0 or 1, as the code chooses it
by the device, and the dimming takes some time.

| Theorem | Says |
|---|---|
| `BrightnessTypeCorrect` | `TypeOK` |
| `EveryDimmingReportedOnce` | `ReportedOnce` |
| `RestorationIsFinal` | `RestoredStaysRestored` |
| `DimmingIsGradual` | `DimsGradually` |
| `DimmingThreadsEnd` | `ThreadsComeToEnd` |
| `ImplementsDimmer` | `DimmerSpec`: `BrightnessController` implements `GradualDimmer` |
| `CommandsUseController` | `DimmingSpec => Spec`: `DimmingCommands` implements `BrightnessController` |
| `DimmedOnlyByCommands` | `DimmedIffByCommand` |

`ReportedOnce` and `RestoredStaysRestored` are not inductive: nothing in them says
where a thread may be when its task is completed early. `GoodTask` says it. A task
is completed before its thread returns only where it may return on cancel, outside
the part of the loop that sleeps and writes. So a thread there has a task that is
not complete; by `ReportedOnce` it is the present one, `original_brightness` is the
level it started from, and its level is that of the time it has counted. That levels
fall and stay above the minimum is arithmetic of a rounded quotient
(`ShareBounded`, `ShareGrows`, `NextBounded`, `NextFalls`). Each action has one lemma.

The refinement forgets the tasks: a step of the dimmer is under way while some
thread is between forbidding the cancellation of its task and having written, and the
level reached is the current task's. It needs that the level to be restored is the
attribute that was read, and that the task is cancelled or complete in the state
CANCELLED (`LevelInv`). Then the only thread that may write is the current task's
(`WriterIsCurrent`): one left over from an earlier dimming finds its task complete before
it would write again. Each action has one lemma that says what it is in
`GradualDimmer`.

`ThreadsComeToEnd` is the safety half of `DimmingEnds`, which is left to TLC: the steps
a thread has left (`StepsLeft`) become fewer with each of them, so a thread that is
scheduled comes to its end. It needs that the clock moves while the thread sleeps
(`CLOCK_BOOTTIME`, `brightness_controller.cc:164`).

For the commands it remains that only activated ones have dimmed and that a refused
`dim()` leaves the state as it was (`CommandInv`).

`LogindProofs` holds for every set of commands and descriptors and any number of
signals that lag behind, from `LogindAssumption`: a command has one trigger,
descriptors are natural numbers, and there is room for the signals that may wait at
the start.

| Theorem | Says |
|---|---|
| `LogindTypeCorrect` | `TypeOK` |
| `NoLockLeaked` | `LockTracked` |
| `SleepWaitsForActions` | `SleepActionsFirst` |
| `LockTakenAgain` | `LockHeldAgain` |

`LockTracked` is inductive by itself; the other two need what is still in the queue of
signals. For `SleepActionsFirst`, the request that found the lock held is the only
one to handle, either still queued or being handled, and the lock is held as long
(`Delayed`). For `LockHeldAgain`, every queued request is followed by its wake-up,
unless logind has still to send it (`EverySleepEnds`), so that a lock given up is
always followed by the wake-up that takes it again (`WakeUpComes`).

`AudioProofs` holds for every finite set of sinks and any number of messages under
way.

| Theorem | Says |
|---|---|
| `AudioTypeCorrect` | `TypeOK` |
| `EventsFollowView` | `LastEventTells` |
| `ViewIsRightAtLast` | `ViewCatchesUp` |

`ViewCatchesUp` speaks only of states in which nothing is under way. Its invariant
says of every other state what will come of the messages: for each sink that is
watched, the detector asks or will ask about it, or the last message about it, or
else the view, tells the truth (`KnownOrAsked`). A sink's change makes the first true,
the answer the second. That the answer to the first request leaves out no sink is
the only place where the sinks have to be finitely many (`OrderIsComplete`). `Phases`
says which requests may be under way.

The proofs about `GuiController` hold for every set of names, commands, switches and
numbers entered, every width of `int`, any number of actions, windows, acts and late
requests. Besides the assumptions of `ConfigStore` they have `GuiAssumption`: the
constants have their types and there is a name.

| Theorem | Module | Says |
|---|---|---|
| `GuiTypeCorrect` | `GuiTypeProofs` | `GuiTypeOK` |
| `GuiIsAClient` | `GuiTypeProofs` | `GuiController` implements `ConfigStore` |
| `StoreHoldsWithGui` | `GuiTypeProofs` | `ViewTells`, `IdsNotReused` and `DurableSpec` hold with the GUI, too |
| `SwitchesAgree` | `GuiProofs` | `SwitchAgrees` |
| `EditsSendChanges` | `GuiProofs` | `OnlyChangesSent` |
| `RowsFollowActions` | `GuiCopyProofs` | `RowsAreActions` |
| `CopiesAgree` | `GuiCopyProofs` | `CopyAgrees` |

The daemon under the GUI keeps `ConfigStore`'s invariant, since what the GUI sends is
what a client may send (`IsRequest`); the seconds entered are not checked by the GUI,
so this takes the range of `ToInt` and what the daemon refuses. `GuiInv` adds that
the call being made belongs to the dialog (`Matches`), and that a row belongs to one
entry (`RowTypes`).

`GuiIsAClient` instantiates `ConfigStoreProofs` with clients that may ask for any
trigger and for any number of seconds (`Store`): whatever a late, repeated or refused
request of the GUI does to the daemon is a step of that store or leaves it as it is
(`StoreStep`). `StoreHoldsWithGui` then cites the theorems about the store. Neither is
a property of a run: TLC would have to enumerate the requests of all clients at each
step, and `ConfigMC` checks the same properties with clients of its own.

`SwitchAgrees` speaks of an empty queue; of any other, `SwitchInv` says that a
switch shows what the last request about it will set. `RowsAreActions` needs that
an id the daemon answers is one the GUI does not have, although other clients add
actions too: ids are only counted up, and the GUI has none above the counter
(`RowsFollow`). `CopyAgrees` speaks of states without a call. In between, the daemon has
done what the GUI still has to take over from its answer: the copies as they will be
then (`CopyAfter`) agree with it from the moment the request is served
(`DoneAgrees`), and taking the answer makes them so (`AnswerTaken`). That the copy of
a trigger agrees rests on `RereadPrinted`: a text the daemon accepts means the same
when it is printed, parsed and printed again, however the `int` wrapped around.

Only model-checked: liveness, which is out of TLAPS's reach here (`ResumeDelivered`,
`DimmingEnds`, `UndimmedWhenNoneActive`, `SuspendNotBlocked`, `SilenceReported`). Every
invariant, action property and refinement that a passing run checks is proved.

## 5. Plan

Done: all components, with their compositions: detector and EventManager, dimming
commands and brightness, configuration and GUI; proofs of every safety property and
every refinement that a run checks, and of the GUI as a client of the store. Left: the trigger's parser at the level of characters, against a
reference.

## 6. Not modelled

* The layout and texts of the GUI's widgets, option parsing, the iterator
  templates: no state of their own beyond what is modelled.
* Choice of the backlight device: made once, at start.
* `SetIdleHint` and `SetBrightness` as D-Bus traffic: single synchronous calls;
  of the latter the effect on the backlight and its failure are modelled.
* Changes to the set of sleep and lock commands while the system goes to sleep:
  `LogindManager` takes the sets as constants; the loop does not run while it
  waits for a sleep action.
* Changes to the configuration while commands dim: `DimmingCommands` takes the set
  of commands as a constant; what edits do to activated commands is in
  `EventManager`.
* Restarts in the other modules: the daemon keeps nothing but the configuration
  file. Start-up during a suspension is in `LogindManager`'s `Init`.
* That the old file survives a failed save: the code truncates it first
  (`config_manager.cc:355`) and promises nothing. `ConfigStore` has the torn
  files, so that what is claimed of later saves holds after them. A file that
  GKeyFile cannot read, or that has a section of another name, is never
  replaced again, as in the code.
