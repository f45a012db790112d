------------------------ MODULE BrightnessController ------------------------
(***************************************************************************)
(* The DbusBrightnessController of brightness_controller.cc: dim() and      *)
(* restore_brightness() run in the main loop, the dimmer in the thread of a *)
(* GTask, and the task's completion callback in the main loop again.  The   *)
(* GTask (external) decides when a cancelled task completes: at once while  *)
(* its return_on_cancel is set, else when the thread sets it again or       *)
(* returns.  A task that is complete may still have a thread.               *)
(***************************************************************************)
EXTENDS Integers

CONSTANTS
    Tasks, NoTask,      \* bound: GTasks whose thread or callback is not done
    MaxBrightness,
    min_brightness,     \* 1 for intel_backlight, else 0
    total_millis,       \* duration of the dimming, in steps of the clock
    WriteOutcomes       \* whether calls of logind's SetBrightness succeed

ASSUME BrightnessAssumption == /\ NoTask \notin Tasks
                               /\ MaxBrightness \in Nat
                               /\ min_brightness \in {0, 1}
                               /\ total_millis \in Nat \ {0}
                               /\ WriteOutcomes \subseteq BOOLEAN

VARIABLES
    dimming_state,
    original_brightness,
    dimmer_task_cancellable,    \* the task it cancels, or NoTask
    tasks,                      \* the GTasks and the locals of their threads
    attr,                       \* the attribute the GUdevDevice has cached
    brightness,                 \* of the backlight
    settled,                    \* history: the level after the last restoration
                                \* or choice of the user
    before                      \* history: the level when the dimming started

controllerVars == <<dimming_state, original_brightness, dimmer_task_cancellable>>
vars == <<dimming_state, original_brightness, dimmer_task_cancellable, tasks, attr,
          brightness, settled, before>>

-----------------------------------------------------------------------------
Unread == -1

DimmingStates == {"NONE", "DIMMING", "CANCELLED", "DIMMED"}
Levels        == 0 .. MaxBrightness

\* Where the thread is in dimmer_task_func.
Places == {"queued", "head", "asleep", "stepped", "finishing", "returning", "gone"}

TaskRecords == [place            : Places,
                cancelled        : BOOLEAN,     \* thread_cancelled
                return_on_cancel : BOOLEAN,
                complete         : BOOLEAN,     \* thread_complete
                callback         : BOOLEAN,     \* completion callback pending
                cur_brightness   : Levels,
                millis_elapsed   : 0 .. total_millis]

NewTask == [place |-> "queued", cancelled |-> FALSE, return_on_cancel |-> FALSE,
            complete |-> FALSE, callback |-> FALSE,
            cur_brightness |-> 0, millis_elapsed |-> 0]

DoneTask == [NewTask EXCEPT !.place = "gone", !.complete = TRUE]

Init ==
    /\ dimming_state = "NONE"
    /\ original_brightness = 0
    /\ dimmer_task_cancellable = NoTask
    /\ tasks = [t \in Tasks |-> DoneTask]
    /\ attr = Unread
    /\ brightness \in Levels
    /\ settled = brightness
    /\ before = brightness

-----------------------------------------------------------------------------
(* Calls shared by the two threads. *)

\* LogindManager::set_brightness; no caller looks at its result.
set_brightness(value) == \E ok \in WriteOutcomes :
    brightness' = IF ok THEN value ELSE brightness

\* Completing a task queues its callback in the main loop, once.
Completed(task) ==
    IF task.complete THEN task
    ELSE [task EXCEPT !.complete = TRUE, !.callback = TRUE]

\* Mutant: a cancelled dimming ends as an ordinary one.
FinishAsDimmed ==
    /\ dimmer_task_cancellable' = NoTask
    /\ dimming_state' = "DIMMED"
    /\ UNCHANGED <<brightness, settled>>

\* dimmer_task_complete_cb in state CANCELLED and in state DIMMING.
RestoreInCallback ==
    /\ dimmer_task_cancellable' = NoTask
    /\ set_brightness(original_brightness)
    /\ dimming_state' = "NONE"
    /\ settled' = brightness'

dimmer_task_complete_cb ==
    IF dimming_state = "CANCELLED" THEN RestoreInCallback
    ELSE /\ dimmer_task_cancellable' = NoTask
         /\ dimming_state' = "DIMMED"
         /\ UNCHANGED <<brightness, settled>>

-----------------------------------------------------------------------------
(* The main loop. *)

\* Mutant: dim() does not look at the state.
AcceptsAnyDim == TRUE

AcceptsDim == dimming_state = "NONE"

\* dim(); in any other state it only returns false.  The attribute is read from
\* the device the first time and from GUdevDevice's cache from then on.
Dim == \E t \in Tasks :
    /\ AcceptsDim
    /\ tasks[t] = DoneTask
    /\ attr' = IF attr = Unread THEN brightness ELSE attr
    /\ original_brightness' = attr'
    /\ dimming_state' = "DIMMING"
    /\ dimmer_task_cancellable' = t
    /\ tasks' = [tasks EXCEPT ![t] = NewTask]
    /\ before' = brightness
    /\ UNCHANGED <<brightness, settled>>

\* restore_brightness() while dimming: cancelling a task that may return on
\* cancel completes it, and GTask then calls back at once or from the main loop.
CancelDimming ==
    /\ dimming_state = "DIMMING"
    /\ UNCHANGED <<original_brightness, attr, before>>
    /\ LET t         == dimmer_task_cancellable
           cancelled == IF tasks[t].complete THEN tasks[t]
                        ELSE [tasks[t] EXCEPT !.cancelled = TRUE]
       IN \/ /\ tasks' = [tasks EXCEPT ![t] = IF cancelled.return_on_cancel
                                              THEN Completed(cancelled) ELSE cancelled]
             /\ dimming_state' = "CANCELLED"
             /\ UNCHANGED <<dimmer_task_cancellable, brightness, settled>>
          \/ /\ cancelled.return_on_cancel /\ ~ cancelled.complete
             /\ tasks' = [tasks EXCEPT ![t] = [cancelled EXCEPT !.complete = TRUE]]
             /\ RestoreInCallback

RestoreDimmed ==
    /\ dimming_state = "DIMMED"
    /\ set_brightness(original_brightness)
    /\ settled' = brightness'
    /\ dimming_state' = "NONE"
    /\ UNCHANGED <<original_brightness, dimmer_task_cancellable, tasks, attr, before>>

TaskCallback(t) ==
    /\ tasks[t].callback
    /\ tasks' = [tasks EXCEPT ![t] = IF @.place = "gone" THEN DoneTask
                                     ELSE [@ EXCEPT !.callback = FALSE]]
    /\ dimmer_task_complete_cb
    /\ UNCHANGED <<original_brightness, attr, before>>

-----------------------------------------------------------------------------
(* The thread: dimmer_task_func. *)

ThreadStep(t, from, after) ==
    /\ tasks[t].place = from
    /\ tasks' = [tasks EXCEPT ![t] = after]
    /\ UNCHANGED controllerVars /\ UNCHANGED <<attr, settled, before>>

\* Up to the loop; nothing to do at the minimum or without a clock.
Start(t) == \E place \in {"head", "returning"} :
    /\ original_brightness <= min_brightness => place = "returning"
    /\ ThreadStep(t, "queued", [tasks[t] EXCEPT !.place = place,
                                                !.cur_brightness = original_brightness])
    /\ UNCHANGED brightness

\* Mutant: the result of g_task_set_return_on_cancel(task, FALSE) is ignored.
ForbidCancelUnchecked(t) ==
    /\ ThreadStep(t, "head", [tasks[t] EXCEPT !.place = "asleep",
                                              !.return_on_cancel = FALSE])
    /\ UNCHANGED brightness

ForbidCancel(t) ==
    /\ ThreadStep(t, "head",
           IF tasks[t].cancelled THEN [tasks[t] EXCEPT !.place = "returning"]
           ELSE [tasks[t] EXCEPT !.place = "asleep", !.return_on_cancel = FALSE])
    /\ UNCHANGED brightness

\* Mutants: the elapsed share is what remains; one level per time step.
next_brightness_rising(millis_elapsed) ==
    LET total_delta == original_brightness - min_brightness
    IN  (millis_elapsed * total_delta) \div total_millis

next_brightness_unscaled(millis_elapsed) ==
    original_brightness - min_brightness - millis_elapsed

next_brightness(millis_elapsed) ==
    LET total_delta == original_brightness - min_brightness
    IN  total_delta - (millis_elapsed * total_delta) \div total_millis

\* One step of the loop.
StepDownAt(t, millis) ==
    IF millis >= total_millis
    THEN /\ ThreadStep(t, "asleep", [tasks[t] EXCEPT !.place = "finishing"])
         /\ UNCHANGED brightness
    ELSE /\ ThreadStep(t, "asleep",
                [tasks[t] EXCEPT !.place = "stepped",
                                 !.millis_elapsed = millis,
                                 !.cur_brightness = next_brightness(millis)])
         /\ IF next_brightness(millis) # tasks[t].cur_brightness
            THEN set_brightness(next_brightness(millis)) ELSE UNCHANGED brightness

\* Mutant: a clock that does not count the sleep.
StepDownCpuClock(t) ==
    \E millis \in tasks[t].millis_elapsed .. total_millis : StepDownAt(t, millis)

\* Any time may have passed since the last step.
StepDown(t) ==
    \E millis \in tasks[t].millis_elapsed + 1 .. total_millis : StepDownAt(t, millis)

\* g_task_set_return_on_cancel(task, TRUE) completes a task cancelled meanwhile.
AllowCancel(t) ==
    /\ ThreadStep(t, "stepped",
           IF tasks[t].cancelled THEN [Completed(tasks[t]) EXCEPT !.place = "head"]
           ELSE [tasks[t] EXCEPT !.place = "head", !.return_on_cancel = TRUE])
    /\ UNCHANGED brightness

Finish(t) ==
    /\ ThreadStep(t, "finishing", [tasks[t] EXCEPT !.place = "returning"])
    /\ IF tasks[t].cur_brightness > min_brightness
       THEN set_brightness(min_brightness) ELSE UNCHANGED brightness

Return(t) ==
    /\ ThreadStep(t, "returning",
           LET done == [Completed(tasks[t]) EXCEPT !.place = "gone"]
           IN  IF done.callback THEN done ELSE DoneTask)
    /\ UNCHANGED brightness

Thread(t) == \/ Start(t) \/ ForbidCancel(t) \/ StepDown(t)
             \/ AllowCancel(t) \/ Finish(t) \/ Return(t)

-----------------------------------------------------------------------------
\* Brightness keys and other programs (external).
UserSetsBrightness == \E level \in Levels \ {brightness} :
    /\ brightness' = level
    /\ settled' = level
    /\ UNCHANGED controllerVars /\ UNCHANGED <<tasks, attr, before>>

Next ==
    \/ Dim
    \/ CancelDimming
    \/ RestoreDimmed
    \/ \E t \in Tasks : TaskCallback(t) \/ Thread(t)
    \/ UserSetsBrightness

Spec == Init /\ [][Next]_vars

-----------------------------------------------------------------------------
TypeOK ==
    /\ dimming_state \in DimmingStates
    /\ original_brightness \in Levels
    /\ dimmer_task_cancellable \in Tasks \cup {NoTask}
    /\ tasks \in [Tasks -> TaskRecords]
    /\ attr \in Levels \cup {Unread}
    /\ brightness \in Levels
    /\ settled \in Levels /\ before \in Levels

\* The task's callback is still to come.
Unreported(t) == ~ tasks[t].complete \/ tasks[t].callback

\* dimmer_task_complete_cb asserts that the state is DIMMING or CANCELLED and
\* drops the cancellable: every dimming is reported exactly once, whichever of
\* the thread and the cancellation completes its task, and never after the
\* next one has begun.
ReportedOnce ==
    /\ \A t \in Tasks : Unreported(t) <=> t = dimmer_task_cancellable
    /\ dimmer_task_cancellable # NoTask <=> dimming_state \in {"DIMMING", "CANCELLED"}

\* Once a restoration is done, no thread of an earlier dimming touches the
\* backlight again: it has the level it was restored to or the user chose since.
RestoredStaysRestored == dimming_state = "NONE" => brightness = settled

\* Dimming only ever dims: no step sets a level above the one before, whatever
\* time passed in between, and none below the minimum, at which some firmware
\* resumes from sleep at full brightness (comment on intel_backlight).
DimsGradually ==
    [][\A t \in Tasks : tasks[t].place = "asleep" =>
          /\ tasks'[t].cur_brightness <= tasks[t].cur_brightness
          /\ tasks'[t].cur_brightness >= min_brightness]_vars

\* A bound on the steps a thread still has to make: at most three to a step of time.
StepsLeft(task) ==
    LET ofPlace == [queued |-> 5, stepped |-> 5, head |-> 4, asleep |-> 3,
                    finishing |-> 2, returning |-> 1]
    IN  IF task.place = "gone" THEN 0
        ELSE 4 * (total_millis - task.millis_elapsed) + ofPlace[task.place]

\* A thread that was started comes nearer to its end with each of its steps, also
\* when calls of logind fail and its task is cancelled or complete long since, and
\* nothing that others do sets it back: no dimming goes on for ever, which the main
\* loop, waiting for its completion, could not see (brightness_controller.cc:156-181).
ThreadsComeToEnd ==
    [][\A t \in Tasks : tasks[t].place # "gone" =>
          \/ UNCHANGED <<tasks[t].place, tasks[t].millis_elapsed>>
          \/ StepsLeft(tasks[t])' < StepsLeft(tasks[t])]_vars

\* A thread that writes, or is about to.
Writing(t) == tasks[t].place \in {"asleep", "finishing"}

Stepping == \E t \in Tasks : Writing(t)

Reached ==
    IF dimmer_task_cancellable = NoTask THEN attr
    ELSE IF tasks[dimmer_task_cancellable].place = "queued" THEN attr
    ELSE tasks[dimmer_task_cancellable].cur_brightness

Dimmer == INSTANCE GradualDimmer WITH
    Minimum  <- min_brightness,
    Unknown  <- Unread,
    state    <- dimming_state,
    original <- attr,
    reached  <- Reached,
    stepping <- Stepping,
    level    <- brightness

\* Tasks, threads and the ways to cancel a GTask together are a dimmer that begins
\* no step once it is cancelled, restores the level only when none is under way,
\* and leaves it alone from then on (brightness_controller.cc:134-245).
DimmerSpec == Dimmer!Spec

-----------------------------------------------------------------------------
(* What the repository says of the program and the code does not keep.     *)

\* xidlechain.1.scd, builtin:undim: "Restore the monitor's brightness from before
\* the dimming started."
UndimRestoresBrightness ==
    [][dimming_state # "NONE" /\ dimming_state' = "NONE" => brightness' = before]_vars

=============================================================================
