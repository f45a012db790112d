---------------------------- MODULE DimmingProofs ----------------------------
(***************************************************************************)
(* Theorems about BrightnessController and DimmingCommands, for any number *)
(* of tasks and commands, any range of brightness and any duration.        *)
(***************************************************************************)
EXTENDS DimmingCommands, TLAPS

-----------------------------------------------------------------------------
(* The inductive invariant.                                                *)

\* The places between the start of the loop and its end.
Looping == {"head", "asleep", "stepped", "finishing"}

\* A task is completed early only where it may return on cancel; until it is
\* complete, its thread is at the level of the time it has counted.
GoodTask(task, original) ==
    /\ task.callback => task.complete
    /\ task.complete => task.place \in {"head", "returning", "gone"}
    /\ task.return_on_cancel => task.place \in {"head", "returning", "gone"}
    /\ task.complete /\ task.place = "head" => task.cancelled
    /\ task.place = "queued" => task.millis_elapsed = 0
    /\ task.place \in Looping /\ ~ task.complete =>
          /\ original > min_brightness
          /\ task.millis_elapsed < total_millis
          /\ task.cur_brightness = IF task.millis_elapsed = 0 THEN original
                                   ELSE next_brightness(task.millis_elapsed)

Inv == /\ TypeOK
       /\ \A t \in Tasks : GoodTask(tasks[t], original_brightness)
       /\ ReportedOnce
       /\ RestoredStaysRestored

-----------------------------------------------------------------------------
(* The arithmetic of the dimming.                                          *)

LEMMA Product ==
    ASSUME NEW a \in Nat, NEW b \in Nat, NEW d \in Nat
    PROVE  /\ a * d \in Nat
           /\ a <= b => a * d <= b * d
           /\ a < b /\ d > 0 => a * d < b * d
  OBVIOUS

LEMMA Division ==
    ASSUME NEW a \in Nat, NEW d \in Nat \ {0}
    PROVE  /\ a \div d \in Nat
           /\ (a \div d) * d <= a
           /\ a < (a \div d + 1) * d
  OBVIOUS

\* The share of the time that has passed, of a number of levels.
LEMMA ShareBounded ==
    ASSUME NEW d \in Nat \ {0}, NEW total \in Nat \ {0}, NEW m \in Nat, m < total
    PROVE  (m * d) \div total \in 0 .. d - 1
<1> DEFINE q == (m * d) \div total
<1>1. m * d \in Nat /\ m * d < total * d
    BY Product
<1>2. q \in Nat /\ q * total <= m * d
    BY <1>1, Division
<1> HIDE DEF q
<1>3. q < d
  <2>1. SUFFICES ASSUME d <= q PROVE FALSE
      BY <1>2
  <2>2. d * total <= q * total
      BY <1>2, <2>1, Product
  <2>3. d * total = total * d
      OBVIOUS
  <2> QED
      BY <1>1, <1>2, <2>2, <2>3
<1> QED
    BY <1>2, <1>3 DEF q

LEMMA ShareGrows ==
    ASSUME NEW d \in Nat, NEW total \in Nat \ {0}, NEW m \in Nat, NEW n \in Nat, m <= n
    PROVE  (m * d) \div total <= (n * d) \div total
<1> DEFINE q == (m * d) \div total
           r == (n * d) \div total
<1>1. m * d \in Nat /\ n * d \in Nat /\ m * d <= n * d
    BY Product
<1>2. q \in Nat /\ q * total <= m * d
    BY <1>1, Division
<1>3. r \in Nat /\ n * d < (r + 1) * total
    BY <1>1, Division
<1> HIDE DEF q, r
<1>4. q <= r
  <2>1. SUFFICES ASSUME r + 1 <= q PROVE FALSE
      BY <1>2, <1>3
  <2>2. (r + 1) * total <= q * total
      BY <1>2, <1>3, <2>1, Product
  <2> QED
      BY <1>1, <1>2, <1>3, <2>2
<1> QED
    BY <1>4 DEF q, r

\* While there is time left, the next level lies between 1 and the distance to the
\* minimum, which is below the level at the start.
LEMMA NextBounded ==
    ASSUME original_brightness \in Levels, original_brightness > min_brightness,
           NEW m \in Nat, m < total_millis
    PROVE  /\ next_brightness(m) \in 1 .. original_brightness - min_brightness
           /\ next_brightness(m) \in Levels
           /\ next_brightness(m) >= min_brightness
           /\ next_brightness(m) <= original_brightness
<1> DEFINE d == original_brightness - min_brightness
<1>1. d \in Nat \ {0} /\ d <= original_brightness
    BY BrightnessAssumption DEF Levels
<1> HIDE DEF d
<1>2. (m * d) \div total_millis \in 0 .. d - 1
    BY <1>1, ShareBounded, BrightnessAssumption
<1>3. next_brightness(m) = d - (m * d) \div total_millis
    BY DEF next_brightness, d
<1>4. next_brightness(m) \in 1 .. d
    BY <1>1, <1>2, <1>3
<1>5. d = original_brightness - min_brightness
    BY DEF d
<1> QED
    BY <1>1, <1>4, <1>5, BrightnessAssumption DEF Levels

LEMMA NextFalls ==
    ASSUME original_brightness \in Levels, original_brightness > min_brightness,
           NEW m \in Nat, NEW n \in Nat, m <= n
    PROVE  next_brightness(n) <= next_brightness(m)
<1> DEFINE d == original_brightness - min_brightness
<1>1. d \in Nat
    BY BrightnessAssumption DEF Levels
<1> HIDE DEF d
<1>2. (m * d) \div total_millis <= (n * d) \div total_millis
    BY <1>1, ShareGrows, BrightnessAssumption
<1>3. /\ m * d \in Nat /\ n * d \in Nat
      /\ (m * d) \div total_millis \in Nat /\ (n * d) \div total_millis \in Nat
    BY <1>1, Product, Division, BrightnessAssumption
<1> QED
    BY <1>1, <1>2, <1>3 DEF next_brightness, d

-----------------------------------------------------------------------------
(* The invariant holds at the start and is preserved by every step.        *)

LEMMA TasksTyped == DoneTask \in TaskRecords /\ NewTask \in TaskRecords
<1>1. 0 \in Levels /\ 0 \in 0 .. total_millis
    BY BrightnessAssumption DEF Levels
<1> QED
    BY <1>1 DEF DoneTask, NewTask, TaskRecords, Places

LEMMA InitInv == Init => Inv
<1> SUFFICES ASSUME Init PROVE Inv
    OBVIOUS
<1>1. DoneTask \in TaskRecords
    BY TasksTyped
<1>2. TypeOK
    BY <1>1, BrightnessAssumption DEF Init, TypeOK, DimmingStates, Levels, Unread
<1>3. GoodTask(DoneTask, original_brightness)
    BY DEF GoodTask, DoneTask, NewTask, Looping
<1>4. ReportedOnce
    BY BrightnessAssumption DEF Init, ReportedOnce, Unreported, DoneTask, NewTask
<1> QED
    BY <1>2, <1>3, <1>4 DEF Inv, Init, RestoredStaysRestored

\* A task that is not reported belongs to the dimming under way, of which there is
\* none while nothing is dimmed or being dimmed.
LEMMA OneDimming ==
    ASSUME Inv, NEW t \in Tasks
    PROVE  /\ Unreported(t) => dimming_state \in {"DIMMING", "CANCELLED"}
           /\ dimming_state \notin {"DIMMING", "CANCELLED"} => tasks[t].complete
  BY BrightnessAssumption DEF Inv, ReportedOnce, Unreported

\* set_brightness, whatever logind answers.
LEMMA SetBrightness ==
    ASSUME brightness \in Levels, NEW value \in Levels, set_brightness(value)
    PROVE  brightness' \in Levels
  BY DEF set_brightness

\* A step of a thread may change the backlight while its task is not reported, and
\* may complete the task if its callback is queued.
LEMMA ThreadStepInv ==
    ASSUME Inv, NEW t \in Tasks, NEW from, NEW after \in TaskRecords,
           ThreadStep(t, from, after),
           GoodTask(after, original_brightness),
           (~ after.complete \/ after.callback) <=> Unreported(t),
           brightness' \in Levels,
           brightness' = brightness \/ Unreported(t)
    PROVE  Inv'
<1> USE DEF ThreadStep, controllerVars, Inv
<1>1. TypeOK'
    BY DEF TypeOK
<1>2. \A u \in Tasks : tasks'[u] = IF u = t THEN after ELSE tasks[u]
    BY DEF TypeOK
<1>3. \A u \in Tasks : GoodTask(tasks[u], original_brightness)'
  <2>1. SUFFICES ASSUME NEW u \in Tasks PROVE GoodTask(tasks[u], original_brightness)'
      OBVIOUS
  <2>2. GoodTask(tasks'[u], original_brightness)
      BY <1>2
  <2> QED
      BY <2>2 DEF GoodTask, next_brightness
<1>4. ReportedOnce'
    BY <1>2 DEF ReportedOnce, Unreported
<1>5. RestoredStaysRestored'
    BY OneDimming DEF RestoredStaysRestored
<1> QED
    BY <1>1, <1>3, <1>4, <1>5

LEMMA ThreadInv ==
    ASSUME Inv, NEW t \in Tasks, Thread(t)
    PROVE  Inv'
<1> DEFINE task == tasks[t]
<1>1. /\ task \in TaskRecords /\ GoodTask(task, original_brightness)
      /\ original_brightness \in Levels /\ brightness \in Levels
    BY DEF Inv, TypeOK
<1>2. min_brightness \in Levels \/ original_brightness <= min_brightness
    BY <1>1, BrightnessAssumption DEF Levels
<1>3. CASE Start(t)
  <2>1. PICK place \in {"head", "returning"} :
           /\ original_brightness <= min_brightness => place = "returning"
           /\ ThreadStep(t, "queued", [task EXCEPT !.place = place,
                                         !.cur_brightness = original_brightness])
           /\ UNCHANGED brightness
      BY <1>3 DEF Start
  <2> DEFINE after == [task EXCEPT !.place = place, !.cur_brightness = original_brightness]
  <2>2. task.place = "queued"
      BY <2>1 DEF ThreadStep
  <2>3. after \in TaskRecords
      BY <1>1 DEF TaskRecords, Places
  <2>4. GoodTask(after, original_brightness)
      BY <1>1, <2>1, <2>2, BrightnessAssumption DEF GoodTask, Looping, TaskRecords, Levels
  <2>5. (~ after.complete \/ after.callback) <=> Unreported(t)
      BY <1>1 DEF Unreported, TaskRecords
  <2> HIDE DEF after
  <2> QED
      BY <1>1, <2>1, <2>3, <2>4, <2>5, ThreadStepInv DEF after
<1>4. CASE ForbidCancel(t)
  <2> DEFINE after == IF task.cancelled THEN [task EXCEPT !.place = "returning"]
                      ELSE [task EXCEPT !.place = "asleep", !.return_on_cancel = FALSE]
  <2>1. ThreadStep(t, "head", after) /\ UNCHANGED brightness /\ task.place = "head"
      BY <1>4 DEF ForbidCancel, ThreadStep
  <2>2. after \in TaskRecords
      BY <1>1 DEF TaskRecords, Places
  <2>3. GoodTask(after, original_brightness)
      BY <1>1, <2>1 DEF GoodTask, Looping, TaskRecords
  <2>4. (~ after.complete \/ after.callback) <=> Unreported(t)
      BY <1>1 DEF Unreported, TaskRecords
  <2> HIDE DEF after
  <2> QED
      BY <1>1, <2>1, <2>2, <2>3, <2>4, ThreadStepInv
<1>5. CASE StepDown(t)
  <2>1. PICK m \in task.millis_elapsed + 1 .. total_millis : StepDownAt(t, m)
      BY <1>5 DEF StepDown
  <2>2. m \in Nat \ {0} /\ m <= total_millis
      BY <1>1, <2>1, BrightnessAssumption DEF TaskRecords
  <2>3. task.place = "asleep" /\ ~ task.complete
      BY <1>1, <2>1 DEF StepDownAt, ThreadStep, GoodTask
  <2>4. Unreported(t)
      BY <2>3 DEF Unreported
  <2>5. original_brightness > min_brightness
      BY <1>1, <2>3 DEF GoodTask, Looping
  <2>6. CASE m >= total_millis
    <3> DEFINE after == [task EXCEPT !.place = "finishing"]
    <3>1. ThreadStep(t, "asleep", after) /\ UNCHANGED brightness
        BY <2>1, <2>6 DEF StepDownAt
    <3>2. after \in TaskRecords
        BY <1>1 DEF TaskRecords, Places
    <3>3. GoodTask(after, original_brightness)
        BY <1>1, <2>3 DEF GoodTask, Looping, TaskRecords
    <3>4. (~ after.complete \/ after.callback) <=> Unreported(t)
        BY <1>1 DEF Unreported, TaskRecords
    <3> HIDE DEF after
    <3> QED
        BY <1>1, <3>1, <3>2, <3>3, <3>4, ThreadStepInv
  <2>7. CASE m < total_millis
    <3> DEFINE level == next_brightness(m)
               after == [task EXCEPT !.place = "stepped", !.millis_elapsed = m,
                                     !.cur_brightness = level]
    <3>1. level \in Levels
        BY <1>1, <2>2, <2>5, <2>7, NextBounded
    <3> HIDE DEF level
    <3>2. /\ ThreadStep(t, "asleep", after)
          /\ set_brightness(level) \/ UNCHANGED brightness
        BY <2>1, <2>2, <2>7, BrightnessAssumption DEF StepDownAt, level
    <3>3. after \in TaskRecords
      <4>1. m \in 0 .. total_millis
          BY <2>2, <2>7, BrightnessAssumption
      <4> QED
          BY <1>1, <3>1, <4>1 DEF TaskRecords, Places
    <3>4. GoodTask(after, original_brightness)
        BY <1>1, <2>2, <2>3, <2>5, <2>7 DEF GoodTask, Looping, TaskRecords, level
    <3>5. (~ after.complete \/ after.callback) <=> Unreported(t)
        BY <1>1 DEF Unreported, TaskRecords
    <3>6. brightness' \in Levels
        BY <1>1, <3>1, <3>2, SetBrightness
    <3> HIDE DEF after
    <3> QED
        BY <2>4, <3>2, <3>3, <3>4, <3>5, <3>6, ThreadStepInv
  <2> QED
      BY <2>2, <2>6, <2>7, BrightnessAssumption
<1>6. CASE AllowCancel(t)
  <2> DEFINE after == IF task.cancelled THEN [Completed(task) EXCEPT !.place = "head"]
                      ELSE [task EXCEPT !.place = "head", !.return_on_cancel = TRUE]
  <2>1. ThreadStep(t, "stepped", after) /\ UNCHANGED brightness /\ task.place = "stepped"
      BY <1>6 DEF AllowCancel, ThreadStep
  <2>2. after \in TaskRecords
      BY <1>1 DEF TaskRecords, Places, Completed
  <2>3. GoodTask(after, original_brightness)
      BY <1>1, <2>1 DEF GoodTask, Looping, TaskRecords, Completed
  <2>4. (~ after.complete \/ after.callback) <=> Unreported(t)
      BY <1>1 DEF Unreported, TaskRecords, Completed
  <2> HIDE DEF after
  <2> QED
      BY <1>1, <2>1, <2>2, <2>3, <2>4, ThreadStepInv
<1>7. CASE Finish(t)
  <2> DEFINE after == [task EXCEPT !.place = "returning"]
  <2>1. /\ ThreadStep(t, "finishing", after) /\ task.place = "finishing"
        /\ set_brightness(min_brightness) \/ UNCHANGED brightness
      BY <1>7 DEF Finish, ThreadStep
  <2>2. after \in TaskRecords
      BY <1>1 DEF TaskRecords, Places
  <2>3. GoodTask(after, original_brightness)
      BY <1>1, <2>1 DEF GoodTask, Looping, TaskRecords
  <2>4. (~ after.complete \/ after.callback) <=> Unreported(t)
      BY <1>1 DEF Unreported, TaskRecords
  <2>5. Unreported(t) /\ original_brightness > min_brightness
      BY <1>1, <2>1 DEF GoodTask, Looping, Unreported
  <2>6. brightness' \in Levels
      BY <1>1, <1>2, <2>1, <2>5, SetBrightness, BrightnessAssumption DEF Levels
  <2> HIDE DEF after
  <2> QED
      BY <2>1, <2>2, <2>3, <2>4, <2>5, <2>6, ThreadStepInv
<1>8. CASE Return(t)
  <2> DEFINE done  == [Completed(task) EXCEPT !.place = "gone"]
             after == IF done.callback THEN done ELSE DoneTask
  <2>1. ThreadStep(t, "returning", after) /\ UNCHANGED brightness
      BY <1>8 DEF Return
  <2>2. done \in TaskRecords /\ DoneTask \in TaskRecords
    <3>1. Completed(task) \in TaskRecords
        BY <1>1 DEF TaskRecords, Completed
    <3>2. done \in TaskRecords
        BY <3>1 DEF TaskRecords, Places
    <3> QED
        BY <3>2, TasksTyped
  <2>3. GoodTask(after, original_brightness)
      BY <1>1 DEF GoodTask, Looping, TaskRecords, Completed, DoneTask, NewTask
  <2>4. (~ after.complete \/ after.callback) <=> Unreported(t)
      BY <1>1 DEF Unreported, TaskRecords, Completed, DoneTask, NewTask
  <2>5. after \in TaskRecords
      BY <2>2
  <2> HIDE DEF after, done
  <2> QED
      BY <1>1, <2>1, <2>3, <2>4, <2>5, ThreadStepInv
<1> QED
    BY <1>3, <1>4, <1>5, <1>6, <1>7, <1>8 DEF Thread

LEMMA DimInv ==
    ASSUME Inv, Dim
    PROVE  Inv'
<1>1. PICK t \in Tasks :
         /\ AcceptsDim /\ tasks[t] = DoneTask
         /\ attr' = IF attr = Unread THEN brightness ELSE attr
         /\ original_brightness' = attr'
         /\ dimming_state' = "DIMMING"
         /\ dimmer_task_cancellable' = t
         /\ tasks' = [tasks EXCEPT ![t] = NewTask]
         /\ before' = brightness
         /\ UNCHANGED <<brightness, settled>>
    BY DEF Dim
<1>2. dimming_state = "NONE"
    BY <1>1 DEF AcceptsDim
<1>3. \A u \in Tasks : tasks'[u] = IF u = t THEN NewTask ELSE tasks[u]
    BY <1>1 DEF Inv, TypeOK
<1>4. TypeOK'
    BY <1>1, TasksTyped DEF Inv, TypeOK, DimmingStates
<1>5. \A u \in Tasks : tasks[u].complete /\ ~ Unreported(u)
    BY <1>2, OneDimming
<1>6. \A u \in Tasks : GoodTask(tasks[u], original_brightness)'
  <2>1. SUFFICES ASSUME NEW u \in Tasks PROVE GoodTask(tasks[u], original_brightness)'
      OBVIOUS
  <2>2. CASE u = t
      BY <1>3, <2>2 DEF GoodTask, NewTask, Looping
  <2>3. CASE u # t
    <3>1. tasks'[u] = tasks[u] /\ tasks[u].complete
        BY <1>3, <1>5, <2>3
    <3>2. GoodTask(tasks[u], original_brightness)
        BY DEF Inv
    <3> QED
        BY <3>1, <3>2 DEF GoodTask
  <2> QED
      BY <2>2, <2>3
<1>7. ReportedOnce'
  <2>1. \A u \in Tasks : Unreported(u)' <=> u = t
      BY <1>3, <1>5 DEF Unreported, NewTask
  <2> QED
      BY <1>1, <2>1, BrightnessAssumption DEF ReportedOnce
<1>8. RestoredStaysRestored'
    BY <1>1 DEF RestoredStaysRestored
<1> QED
    BY <1>4, <1>6, <1>7, <1>8 DEF Inv

LEMMA CancelDimmingInv ==
    ASSUME Inv, CancelDimming
    PROVE  Inv'
<1> DEFINE t         == dimmer_task_cancellable
           cancelled == IF tasks[t].complete THEN tasks[t]
                        ELSE [tasks[t] EXCEPT !.cancelled = TRUE]
           after     == IF cancelled.return_on_cancel THEN Completed(cancelled)
                        ELSE cancelled
           restored  == [cancelled EXCEPT !.complete = TRUE]
<1>1. /\ t \in Tasks /\ Unreported(t)
      /\ tasks[t] \in TaskRecords /\ GoodTask(tasks[t], original_brightness)
    BY DEF CancelDimming, Inv, TypeOK, ReportedOnce
<1>2. cancelled \in TaskRecords
    BY <1>1 DEF TaskRecords
<1>3. after \in TaskRecords /\ restored \in TaskRecords
    BY <1>2 DEF TaskRecords, Completed
<1>4. /\ dimming_state = "DIMMING"
      /\ UNCHANGED <<original_brightness, attr, before>>
      /\ \/ /\ tasks' = [tasks EXCEPT ![t] = after]
            /\ dimming_state' = "CANCELLED"
            /\ UNCHANGED <<dimmer_task_cancellable, brightness, settled>>
         \/ /\ cancelled.return_on_cancel /\ ~ cancelled.complete
            /\ tasks' = [tasks EXCEPT ![t] = restored]
            /\ RestoreInCallback
    BY DEF CancelDimming
<1>5. GoodTask(after, original_brightness)
    BY <1>1 DEF GoodTask, Looping, TaskRecords, Completed
<1>6. ~ after.complete \/ after.callback
    BY <1>1 DEF Unreported, TaskRecords, Completed
<1>7. cancelled.return_on_cancel /\ ~ cancelled.complete =>
         /\ GoodTask(restored, original_brightness)
         /\ restored.complete /\ ~ restored.callback
    BY <1>1 DEF GoodTask, Looping, TaskRecords, Unreported
<1> HIDE DEF after, restored, cancelled
<1>8. CASE /\ tasks' = [tasks EXCEPT ![t] = after]
           /\ dimming_state' = "CANCELLED"
           /\ UNCHANGED <<dimmer_task_cancellable, brightness, settled>>
  <2>1. \A u \in Tasks : tasks'[u] = IF u = t THEN after ELSE tasks[u]
      BY <1>8 DEF Inv, TypeOK
  <2>2. TypeOK'
      BY <1>3, <1>4, <1>8 DEF Inv, TypeOK, DimmingStates
  <2>3. \A u \in Tasks : GoodTask(tasks'[u], original_brightness)
      BY <1>5, <2>1 DEF Inv
  <2>4. \A u \in Tasks : GoodTask(tasks[u], original_brightness)'
      BY <1>4, <2>3 DEF GoodTask, next_brightness
  <2>5. ReportedOnce'
      BY <1>1, <1>4, <1>6, <1>8, <2>1 DEF Inv, ReportedOnce, Unreported
  <2> QED
      BY <1>8, <2>2, <2>4, <2>5 DEF Inv, RestoredStaysRestored
<1>9. CASE /\ cancelled.return_on_cancel /\ ~ cancelled.complete
           /\ tasks' = [tasks EXCEPT ![t] = restored]
           /\ RestoreInCallback
  <2>1. \A u \in Tasks : tasks'[u] = IF u = t THEN restored ELSE tasks[u]
      BY <1>9 DEF Inv, TypeOK
  <2>2. /\ dimmer_task_cancellable' = NoTask /\ dimming_state' = "NONE"
        /\ settled' = brightness' /\ brightness' \in Levels
      BY <1>9, SetBrightness DEF RestoreInCallback, Inv, TypeOK
  <2>3. TypeOK'
      BY <1>3, <1>4, <1>9, <2>2 DEF Inv, TypeOK, DimmingStates
  <2>4. \A u \in Tasks : GoodTask(tasks'[u], original_brightness)
      BY <1>7, <1>9, <2>1 DEF Inv
  <2>5. \A u \in Tasks : GoodTask(tasks[u], original_brightness)'
      BY <1>4, <2>4 DEF GoodTask, next_brightness
  <2>6. \A u \in Tasks : ~ Unreported(u)'
      BY <1>7, <1>9, <2>1 DEF Inv, ReportedOnce, Unreported
  <2>7. ReportedOnce'
      BY <2>2, <2>6, BrightnessAssumption DEF ReportedOnce
  <2> QED
      BY <2>2, <2>3, <2>5, <2>7 DEF Inv, RestoredStaysRestored
<1> QED
    BY <1>4, <1>8, <1>9

LEMMA RestoreDimmedInv ==
    ASSUME Inv, RestoreDimmed
    PROVE  Inv'
<1>1. /\ dimming_state = "DIMMED" /\ dimming_state' = "NONE"
      /\ settled' = brightness' /\ brightness' \in Levels
      /\ UNCHANGED <<original_brightness, dimmer_task_cancellable, tasks, attr, before>>
    BY SetBrightness DEF RestoreDimmed, Inv, TypeOK
<1>2. TypeOK'
    BY <1>1 DEF Inv, TypeOK, DimmingStates
<1>3. \A u \in Tasks : GoodTask(tasks[u], original_brightness)'
    BY <1>1 DEF Inv, GoodTask, next_brightness
<1>4. ReportedOnce'
    BY <1>1 DEF Inv, ReportedOnce, Unreported
<1> QED
    BY <1>1, <1>2, <1>3, <1>4 DEF Inv, RestoredStaysRestored

LEMMA TaskCallbackInv ==
    ASSUME Inv, NEW t \in Tasks, TaskCallback(t)
    PROVE  /\ Inv'
           /\ dimming_state \in {"DIMMING", "CANCELLED"}
           /\ dimming_state' = IF dimming_state = "DIMMING" THEN "DIMMED" ELSE "NONE"
<1> DEFINE after == IF tasks[t].place = "gone" THEN DoneTask
                    ELSE [tasks[t] EXCEPT !.callback = FALSE]
<1>1. /\ tasks[t].callback /\ dimmer_task_complete_cb
      /\ tasks' = [tasks EXCEPT ![t] = after]
      /\ UNCHANGED <<original_brightness, attr, before>>
    BY DEF TaskCallback, Inv, TypeOK
<1>2. /\ tasks[t] \in TaskRecords /\ GoodTask(tasks[t], original_brightness)
      /\ tasks[t].complete
    BY <1>1 DEF Inv, TypeOK, GoodTask
<1>3. Unreported(t) /\ t = dimmer_task_cancellable
    BY <1>1 DEF Inv, ReportedOnce, Unreported
<1>4. after \in TaskRecords
    BY <1>2, TasksTyped DEF TaskRecords
<1>5. GoodTask(after, original_brightness) /\ after.complete /\ ~ after.callback
    BY <1>2 DEF GoodTask, Looping, TaskRecords, DoneTask, NewTask
<1> HIDE DEF after
<1>6. dimming_state \in {"DIMMING", "CANCELLED"}
    BY <1>3, OneDimming
<1>7. /\ dimmer_task_cancellable' = NoTask
      /\ dimming_state' = IF dimming_state = "DIMMING" THEN "DIMMED" ELSE "NONE"
      /\ brightness' \in Levels /\ settled' \in Levels
      /\ dimming_state' = "NONE" => settled' = brightness'
    BY <1>1, <1>6, SetBrightness
    DEF dimmer_task_complete_cb, RestoreInCallback, Inv, TypeOK
<1>8. \A u \in Tasks : tasks'[u] = IF u = t THEN after ELSE tasks[u]
    BY <1>1 DEF Inv, TypeOK
<1>9. TypeOK'
    BY <1>1, <1>4, <1>7 DEF Inv, TypeOK, DimmingStates
<1>10. \A u \in Tasks : GoodTask(tasks[u], original_brightness)'
  <2>1. \A u \in Tasks : GoodTask(tasks'[u], original_brightness)
      BY <1>5, <1>8 DEF Inv
  <2> QED
      BY <1>1, <2>1 DEF GoodTask, next_brightness
<1>11. ReportedOnce'
  <2>1. \A u \in Tasks : ~ Unreported(u)'
      BY <1>3, <1>5, <1>8 DEF Inv, ReportedOnce, Unreported
  <2> QED
      BY <1>7, <2>1, BrightnessAssumption DEF ReportedOnce
<1> QED
    BY <1>6, <1>7, <1>9, <1>10, <1>11 DEF Inv, RestoredStaysRestored

LEMMA UserInv ==
    ASSUME Inv, UserSetsBrightness
    PROVE  Inv'
<1>1. /\ brightness' \in Levels /\ settled' = brightness'
      /\ UNCHANGED controllerVars /\ UNCHANGED <<tasks, attr, before>>
    BY DEF UserSetsBrightness
<1>2. \A u \in Tasks : GoodTask(tasks[u], original_brightness)'
    BY <1>1 DEF controllerVars, Inv, GoodTask, next_brightness
<1>3. TypeOK' /\ ReportedOnce'
    BY <1>1 DEF controllerVars, Inv, TypeOK, ReportedOnce, Unreported
<1> QED
    BY <1>1, <1>2, <1>3 DEF Inv, RestoredStaysRestored

LEMMA StutterInv ==
    ASSUME Inv, UNCHANGED vars
    PROVE  Inv'
<1>1. \A u \in Tasks : GoodTask(tasks[u], original_brightness)'
    BY DEF vars, Inv, GoodTask, next_brightness
<1> QED
    BY <1>1 DEF vars, Inv, TypeOK, ReportedOnce, Unreported, RestoredStaysRestored

LEMMA NextInv == Inv /\ [Next]_vars => Inv'
<1> SUFFICES ASSUME Inv, [Next]_vars PROVE Inv'
    OBVIOUS
<1> QED
    BY DimInv, CancelDimmingInv, RestoreDimmedInv, TaskCallbackInv, ThreadInv, UserInv,
       StutterInv DEF Next

THEOREM InvariantHolds == Spec => []Inv
<1>1. Init => Inv
    BY InitInv
<1>2. Inv /\ [Next]_vars => Inv'
    BY NextInv
<1> QED
    BY <1>1, <1>2, PTL DEF Spec

-----------------------------------------------------------------------------
(* Theorems about the controller, whoever calls dim() and restore_brightness. *)

\* All state keeps its type: no step of the dimming leaves the range of the
\* backlight (dimmer_task_func, for any range and duration).
THEOREM BrightnessTypeCorrect == Spec => []TypeOK
<1>1. Inv => TypeOK
    BY DEF Inv
<1> QED
    BY <1>1, InvariantHolds, PTL

\* Every dimming is reported once, to the state it belongs to
\* (dimmer_task_complete_cb).
THEOREM EveryDimmingReportedOnce == Spec => []ReportedOnce
<1>1. Inv => ReportedOnce
    BY DEF Inv
<1> QED
    BY <1>1, InvariantHolds, PTL

\* No thread touches the backlight after the restoration (restore_brightness and
\* dimmer_task_func under GTask's rules).
THEOREM RestorationIsFinal == Spec => []RestoredStaysRestored
<1>1. Inv => RestoredStaysRestored
    BY DEF Inv
<1> QED
    BY <1>1, InvariantHolds, PTL

\* What a thread that sleeps knows: it is not complete, and its level is that of the
\* last step.
LEMMA AsleepLevel ==
    ASSUME Inv, NEW t \in Tasks, tasks[t].place = "asleep"
    PROVE  /\ ~ tasks[t].complete
           /\ original_brightness \in Levels
           /\ original_brightness > min_brightness
           /\ tasks[t].millis_elapsed \in Nat
           /\ tasks[t].millis_elapsed < total_millis
           /\ tasks[t].cur_brightness =
                 IF tasks[t].millis_elapsed = 0 THEN original_brightness
                 ELSE next_brightness(tasks[t].millis_elapsed)
           /\ tasks[t].cur_brightness \in Levels
           /\ tasks[t].cur_brightness >= min_brightness
<1>1. /\ GoodTask(tasks[t], original_brightness) /\ tasks[t] \in TaskRecords
      /\ original_brightness \in Levels
    BY DEF Inv, TypeOK
<1>2. /\ ~ tasks[t].complete
      /\ original_brightness > min_brightness
      /\ tasks[t].millis_elapsed < total_millis
      /\ tasks[t].cur_brightness =
            IF tasks[t].millis_elapsed = 0 THEN original_brightness
            ELSE next_brightness(tasks[t].millis_elapsed)
    BY <1>1 DEF GoodTask, Looping
<1>3. /\ tasks[t].millis_elapsed \in Nat
      /\ tasks[t].cur_brightness \in Levels
    BY <1>1, BrightnessAssumption DEF TaskRecords
<1>4. tasks[t].cur_brightness >= min_brightness
    BY <1>1, <1>2, <1>3, NextBounded, BrightnessAssumption DEF Levels
<1> QED
    BY <1>1, <1>2, <1>3, <1>4

\* Only its own steps change the level of a thread that sleeps.
LEMMA OthersLeaveLevel ==
    ASSUME Inv, [Next]_vars, NEW t \in Tasks, tasks[t].place = "asleep", ~ StepDown(t)
    PROVE  tasks'[t].cur_brightness = tasks[t].cur_brightness
<1>1. /\ ~ tasks[t].complete /\ ~ tasks[t].callback
      /\ tasks[t] \in TaskRecords /\ tasks \in [Tasks -> TaskRecords]
    BY AsleepLevel DEF Inv, TypeOK, GoodTask
<1>2. CASE Dim
    BY <1>1, <1>2 DEF Dim, DoneTask, NewTask
<1>3. CASE CancelDimming
  <2>1. \E r \in TaskRecords :
           /\ r.cur_brightness = tasks[dimmer_task_cancellable].cur_brightness
           /\ tasks' = [tasks EXCEPT ![dimmer_task_cancellable] = r]
    <3> DEFINE c == dimmer_task_cancellable
               cancelled == IF tasks[c].complete THEN tasks[c]
                            ELSE [tasks[c] EXCEPT !.cancelled = TRUE]
               after == IF cancelled.return_on_cancel THEN Completed(cancelled)
                        ELSE cancelled
               restored == [cancelled EXCEPT !.complete = TRUE]
    <3>1. tasks[c] \in TaskRecords
        BY <1>3 DEF CancelDimming, Inv, TypeOK, ReportedOnce
    <3>2. cancelled \in TaskRecords /\ cancelled.cur_brightness = tasks[c].cur_brightness
        BY <3>1 DEF TaskRecords
    <3>3. /\ after \in TaskRecords /\ after.cur_brightness = tasks[c].cur_brightness
          /\ restored \in TaskRecords
          /\ restored.cur_brightness = tasks[c].cur_brightness
        BY <3>2 DEF TaskRecords, Completed
    <3>4. \/ tasks' = [tasks EXCEPT ![c] = after]
          \/ tasks' = [tasks EXCEPT ![c] = restored]
        BY <1>3 DEF CancelDimming
    <3> QED
        BY <3>3, <3>4
  <2> QED
      BY <1>1, <2>1
<1>4. CASE RestoreDimmed
    BY <1>4 DEF RestoreDimmed
<1>5. CASE \E u \in Tasks : TaskCallback(u)
  <2>1. PICK u \in Tasks : TaskCallback(u)
      BY <1>5
  <2>2. u # t
      BY <1>1, <2>1 DEF TaskCallback
  <2> QED
      BY <1>1, <2>1, <2>2 DEF TaskCallback
<1>6. CASE \E u \in Tasks : Thread(u)
  <2>1. PICK u \in Tasks : Thread(u)
      BY <1>6
  <2>2. CASE u = t
      BY <2>1, <2>2
      DEF Thread, Start, ForbidCancel, AllowCancel, Finish, Return, ThreadStep
  <2>3. CASE u # t
    <3>1. \E from, after : ThreadStep(u, from, after)
        BY <2>1 DEF Thread, Start, ForbidCancel, StepDown, StepDownAt, AllowCancel,
                    Finish, Return
    <3> QED
        BY <1>1, <2>3, <3>1 DEF ThreadStep
  <2> QED
      BY <2>2, <2>3
<1>7. CASE UserSetsBrightness
    BY <1>7 DEF UserSetsBrightness
<1>8. CASE UNCHANGED vars
    BY <1>8 DEF vars
<1> QED
    BY <1>2, <1>3, <1>4, <1>5, <1>6, <1>7, <1>8 DEF Next

LEMMA StepsDown ==
    ASSUME Inv, NEW t \in Tasks, tasks[t].place = "asleep", StepDown(t)
    PROVE  /\ tasks'[t].cur_brightness <= tasks[t].cur_brightness
           /\ tasks'[t].cur_brightness >= min_brightness
<1> DEFINE passed == tasks[t].millis_elapsed
           level  == tasks[t].cur_brightness
<1>1. PICK m \in passed + 1 .. total_millis : StepDownAt(t, m)
    BY DEF StepDown
<1>2. /\ original_brightness \in Levels /\ original_brightness > min_brightness
      /\ passed \in Nat /\ level \in Levels /\ level >= min_brightness
      /\ level = IF passed = 0 THEN original_brightness ELSE next_brightness(passed)
    BY AsleepLevel
<1>3. m \in Nat /\ passed <= m /\ tasks \in [Tasks -> TaskRecords]
    BY <1>1, <1>2, BrightnessAssumption DEF Inv, TypeOK
<1> HIDE DEF passed, level
<1>4. CASE m >= total_millis
  <2>1. tasks'[t].cur_brightness = level
      BY <1>1, <1>3, <1>4 DEF StepDownAt, ThreadStep, TaskRecords, level
  <2> QED
      BY <1>2, <2>1, BrightnessAssumption DEF level, Levels
<1>5. CASE m < total_millis
  <2>1. tasks'[t].cur_brightness = next_brightness(m)
    <3>1. ~ (m >= total_millis)
        BY <1>3, <1>5, BrightnessAssumption
    <3>2. ThreadStep(t, "asleep", [tasks[t] EXCEPT !.place = "stepped",
                                                   !.millis_elapsed = m,
                                                   !.cur_brightness = next_brightness(m)])
        BY <1>1, <3>1, Zenon DEF StepDownAt
    <3> DEFINE next == next_brightness(m)
    <3> HIDE DEF next
    <3>3. tasks' = [tasks EXCEPT ![t] = [tasks[t] EXCEPT !.place = "stepped",
                                                         !.millis_elapsed = m,
                                                         !.cur_brightness = next]]
        BY <3>2, Zenon DEF ThreadStep, next
    <3>4. tasks'[t].cur_brightness = next
        BY <1>3, <3>3 DEF TaskRecords
    <3> QED
        BY <3>4 DEF next
  <2>2. /\ next_brightness(m) \in Levels /\ next_brightness(m) >= min_brightness
        /\ next_brightness(m) <= original_brightness
      BY <1>2, <1>3, <1>5, NextBounded
  <2>3. next_brightness(m) <= next_brightness(passed)
      BY <1>2, <1>3, NextFalls
  <2> QED
      BY <1>2, <2>1, <2>2, <2>3 DEF level
<1> QED
    BY <1>3, <1>4, <1>5, BrightnessAssumption

\* Dimming never brightens and never goes below the minimum, whatever the range of
\* the backlight, the duration and the time that passes between two steps: the
\* formula of dimmer_task_func is one level off at times, never on the wrong side.
THEOREM DimmingIsGradual == Spec => DimsGradually
<1> DEFINE Gradual ==
      \A t \in Tasks : tasks[t].place = "asleep" =>
          /\ tasks'[t].cur_brightness <= tasks[t].cur_brightness
          /\ tasks'[t].cur_brightness >= min_brightness
<1>1. Inv /\ [Next]_vars => [Gradual]_vars
  <2>1. SUFFICES ASSUME Inv, [Next]_vars, NEW t \in Tasks, tasks[t].place = "asleep"
                 PROVE  /\ tasks'[t].cur_brightness <= tasks[t].cur_brightness
                        /\ tasks'[t].cur_brightness >= min_brightness
      OBVIOUS
  <2>2. CASE StepDown(t)
      BY <2>1, <2>2, StepsDown
  <2>3. CASE ~ StepDown(t)
    <3>1. tasks'[t].cur_brightness = tasks[t].cur_brightness
        BY <2>1, <2>3, OthersLeaveLevel
    <3> QED
        BY <2>1, <3>1, AsleepLevel, BrightnessAssumption DEF Levels
  <2> QED
      BY <2>2, <2>3
<1> QED
    BY <1>1, InvariantHolds, PTL DEF Spec, DimsGradually

-----------------------------------------------------------------------------
(* Threads come to their end.                                              *)

\* A thread that makes a step leaves its place, and its number of steps left falls;
\* what others do to its task leaves both as they are.
LEMMA FallsIfEarlierOrLater ==
    ASSUME NEW task \in TaskRecords, NEW after \in TaskRecords,
           after.millis_elapsed = task.millis_elapsed,
           \/ task.place = "queued" /\ after.place \in {"head", "returning"}
           \/ task.place = "head" /\ after.place \in {"asleep", "returning"}
           \/ task.place = "asleep" /\ after.place = "finishing"
           \/ task.place = "stepped" /\ after.place = "head"
           \/ task.place = "finishing" /\ after.place = "returning"
    PROVE  StepsLeft(after) < StepsLeft(task)
<1>1. task.millis_elapsed \in Nat /\ total_millis \in Nat
    BY BrightnessAssumption DEF TaskRecords
<1> QED
    BY <1>1 DEF StepsLeft

LEMMA FallsWithTime ==
    ASSUME NEW task \in TaskRecords, NEW after \in TaskRecords,
           task.place = "asleep", after.place = "stepped",
           after.millis_elapsed > task.millis_elapsed
    PROVE  StepsLeft(after) < StepsLeft(task)
<1>1. /\ task.millis_elapsed \in Nat /\ total_millis \in Nat
      /\ after.millis_elapsed \in Nat
    BY BrightnessAssumption DEF TaskRecords
<1> QED
    BY <1>1 DEF StepsLeft

LEMMA FallsAtTheEnd ==
    ASSUME NEW task \in TaskRecords, task.place = "returning", NEW after,
           after.place = "gone"
    PROVE  StepsLeft(after) < StepsLeft(task)
<1>1. /\ task.millis_elapsed \in Nat /\ total_millis \in Nat
      /\ task.millis_elapsed <= total_millis
    BY BrightnessAssumption DEF TaskRecords
<1> QED
    BY <1>1 DEF StepsLeft

LEMMA ThreadNearsEnd ==
    ASSUME Inv, NEW t \in Tasks, Thread(t)
    PROVE  StepsLeft(tasks'[t]) < StepsLeft(tasks[t])
<1> DEFINE task == tasks[t]
<1>1. task \in TaskRecords /\ original_brightness \in Levels
    BY DEF Inv, TypeOK
<1>2. ASSUME NEW from, NEW after, ThreadStep(t, from, after)
      PROVE  task.place = from /\ tasks'[t] = after
    BY <1>2 DEF ThreadStep, Inv, TypeOK
<1>3. CASE Start(t)
  <2>1. PICK place \in {"head", "returning"} :
           ThreadStep(t, "queued", [task EXCEPT !.place = place,
                                         !.cur_brightness = original_brightness])
      BY <1>3 DEF Start
  <2> DEFINE after == [task EXCEPT !.place = place, !.cur_brightness = original_brightness]
  <2>2. after \in TaskRecords /\ after.place = place
        /\ after.millis_elapsed = task.millis_elapsed
      BY <1>1 DEF TaskRecords, Places
  <2> HIDE DEF after
  <2> QED
      BY <1>1, <1>2, <2>1, <2>2, FallsIfEarlierOrLater DEF after
<1>4. CASE ForbidCancel(t)
  <2> DEFINE after == IF task.cancelled THEN [task EXCEPT !.place = "returning"]
                      ELSE [task EXCEPT !.place = "asleep", !.return_on_cancel = FALSE]
  <2>1. ThreadStep(t, "head", after)
      BY <1>4 DEF ForbidCancel
  <2>2. after \in TaskRecords /\ after.place \in {"asleep", "returning"}
        /\ after.millis_elapsed = task.millis_elapsed
      BY <1>1 DEF TaskRecords, Places
  <2> HIDE DEF after
  <2> QED
      BY <1>1, <1>2, <2>1, <2>2, FallsIfEarlierOrLater
<1>5. CASE StepDown(t)
  <2>1. PICK m \in task.millis_elapsed + 1 .. total_millis : StepDownAt(t, m)
      BY <1>5 DEF StepDown
  <2>2. m \in Nat /\ m > task.millis_elapsed /\ m \in 0 .. total_millis
      BY <1>1, <2>1, BrightnessAssumption DEF TaskRecords
  <2>3. CASE m >= total_millis
    <3> DEFINE after == [task EXCEPT !.place = "finishing"]
    <3>1. ThreadStep(t, "asleep", after)
        BY <2>1, <2>3 DEF StepDownAt
    <3>2. after \in TaskRecords /\ after.place = "finishing"
          /\ after.millis_elapsed = task.millis_elapsed
        BY <1>1 DEF TaskRecords, Places
    <3> HIDE DEF after
    <3> QED
        BY <1>1, <1>2, <3>1, <3>2, FallsIfEarlierOrLater
  <2>4. CASE ~ (m >= total_millis)
    <3> DEFINE next == next_brightness(m)
               after == [task EXCEPT !.place = "stepped", !.millis_elapsed = m,
                                     !.cur_brightness = next]
    <3>1. ThreadStep(t, "asleep", after) /\ task.place = "asleep"
        BY <2>1, <2>4, Zenon DEF StepDownAt, ThreadStep
    <3>2. next \in Levels
        BY <1>1, <2>2, <2>4, <3>1, AsleepLevel, NextBounded, BrightnessAssumption
    <3> HIDE DEF next
    <3>3. after \in TaskRecords /\ after.place = "stepped" /\ after.millis_elapsed = m
        BY <1>1, <2>2, <3>2 DEF TaskRecords, Places
    <3> HIDE DEF after
    <3> QED
        BY <1>1, <1>2, <2>2, <3>1, <3>3, FallsWithTime
  <2> QED
      BY <2>3, <2>4
<1>6. CASE AllowCancel(t)
  <2> DEFINE after == IF task.cancelled THEN [Completed(task) EXCEPT !.place = "head"]
                      ELSE [task EXCEPT !.place = "head", !.return_on_cancel = TRUE]
  <2>1. ThreadStep(t, "stepped", after)
      BY <1>6 DEF AllowCancel
  <2>2. after \in TaskRecords /\ after.place = "head"
        /\ after.millis_elapsed = task.millis_elapsed
      BY <1>1 DEF TaskRecords, Places, Completed
  <2> HIDE DEF after
  <2> QED
      BY <1>1, <1>2, <2>1, <2>2, FallsIfEarlierOrLater
<1>7. CASE Finish(t)
  <2> DEFINE after == [task EXCEPT !.place = "returning"]
  <2>1. ThreadStep(t, "finishing", after)
      BY <1>7 DEF Finish
  <2>2. after \in TaskRecords /\ after.place = "returning"
        /\ after.millis_elapsed = task.millis_elapsed
      BY <1>1 DEF TaskRecords, Places
  <2> HIDE DEF after
  <2> QED
      BY <1>1, <1>2, <2>1, <2>2, FallsIfEarlierOrLater
<1>8. CASE Return(t)
  <2> DEFINE done  == [Completed(task) EXCEPT !.place = "gone"]
             after == IF done.callback THEN done ELSE DoneTask
  <2>1. ThreadStep(t, "returning", after)
      BY <1>8 DEF Return
  <2>2. after.place = "gone"
      BY <1>1 DEF TaskRecords, Completed, DoneTask, NewTask
  <2> HIDE DEF after
  <2> QED
      BY <1>1, <1>2, <2>1, <2>2, FallsAtTheEnd
<1> QED
    BY <1>3, <1>4, <1>5, <1>6, <1>7, <1>8 DEF Thread

LEMMA OthersLeavePlace ==
    ASSUME Inv, [Next]_vars, NEW t \in Tasks, tasks[t].place # "gone", ~ Thread(t)
    PROVE  UNCHANGED <<tasks[t].place, tasks[t].millis_elapsed>>
<1> DEFINE Same(after) == /\ after.place = tasks[t].place
                          /\ after.millis_elapsed = tasks[t].millis_elapsed
<1>1. tasks[t] \in TaskRecords /\ tasks \in [Tasks -> TaskRecords]
    BY DEF Inv, TypeOK
<1>2. CASE Dim
    BY <1>1, <1>2 DEF Dim, DoneTask, NewTask
<1>3. CASE CancelDimming
  <2> DEFINE c == dimmer_task_cancellable
             cancelled == IF tasks[c].complete THEN tasks[c]
                          ELSE [tasks[c] EXCEPT !.cancelled = TRUE]
             after == IF cancelled.return_on_cancel THEN Completed(cancelled)
                      ELSE cancelled
             restored == [cancelled EXCEPT !.complete = TRUE]
  <2>1. c \in Tasks /\ tasks[c] \in TaskRecords
      BY <1>3 DEF CancelDimming, Inv, TypeOK, ReportedOnce
  <2>2. /\ cancelled \in TaskRecords /\ cancelled.place = tasks[c].place
        /\ cancelled.millis_elapsed = tasks[c].millis_elapsed
      BY <2>1 DEF TaskRecords
  <2> HIDE DEF cancelled
  <2>3. /\ after.place = tasks[c].place /\ after.millis_elapsed = tasks[c].millis_elapsed
        /\ restored.place = tasks[c].place
        /\ restored.millis_elapsed = tasks[c].millis_elapsed
      BY <2>2 DEF TaskRecords, Completed
  <2>4. \/ tasks' = [tasks EXCEPT ![c] = after]
        \/ tasks' = [tasks EXCEPT ![c] = restored]
      BY <1>3 DEF CancelDimming, cancelled
  <2> HIDE DEF after, restored
  <2> QED
      BY <1>1, <2>1, <2>3, <2>4
<1>4. CASE RestoreDimmed \/ UserSetsBrightness \/ UNCHANGED vars
    BY <1>4 DEF RestoreDimmed, UserSetsBrightness, vars
<1>5. CASE \E u \in Tasks : TaskCallback(u)
  <2>1. PICK u \in Tasks : TaskCallback(u)
      BY <1>5
  <2>2. tasks' = [tasks EXCEPT ![u] = IF tasks[u].place = "gone" THEN DoneTask
                                      ELSE [tasks[u] EXCEPT !.callback = FALSE]]
      BY <1>1, <2>1 DEF TaskCallback
  <2> QED
      BY <1>1, <2>2 DEF TaskRecords
<1>6. CASE \E u \in Tasks : Thread(u)
  <2>1. PICK u \in Tasks : Thread(u)
      BY <1>6
  <2>2. u # t
      BY <2>1
  <2>3. \E from, after : ThreadStep(u, from, after)
      BY <2>1 DEF Thread, Start, ForbidCancel, StepDown, StepDownAt, AllowCancel,
                  Finish, Return
  <2> QED
      BY <1>1, <2>2, <2>3 DEF ThreadStep
<1> QED
    BY <1>2, <1>3, <1>4, <1>5, <1>6 DEF Next

\* A thread makes at most three steps to a step of the clock, whatever range, duration
\* and delays: with the fairness of the scheduler this is why a dimming ends
\* (dimmer_task_func).
THEOREM DimmingThreadsEnd == Spec => ThreadsComeToEnd
<1> DEFINE Nears ==
      \A t \in Tasks : tasks[t].place # "gone" =>
          \/ UNCHANGED <<tasks[t].place, tasks[t].millis_elapsed>>
          \/ StepsLeft(tasks[t])' < StepsLeft(tasks[t])
<1>1. Inv /\ [Next]_vars => [Nears]_vars
  <2>1. SUFFICES ASSUME Inv, [Next]_vars, NEW t \in Tasks, tasks[t].place # "gone"
                 PROVE  \/ UNCHANGED <<tasks[t].place, tasks[t].millis_elapsed>>
                        \/ StepsLeft(tasks[t])' < StepsLeft(tasks[t])
      OBVIOUS
  <2>2. CASE Thread(t)
    <3>1. StepsLeft(tasks'[t]) < StepsLeft(tasks[t])
        BY <2>1, <2>2, ThreadNearsEnd
    <3> QED
        BY <3>1 DEF StepsLeft
  <2>3. CASE ~ Thread(t)
      BY <2>1, <2>3, OthersLeavePlace
  <2> QED
      BY <2>2, <2>3
<1> QED
    BY <1>1, InvariantHolds, PTL DEF Spec, ThreadsComeToEnd

-----------------------------------------------------------------------------
(* The controller implements the dimmer.                                   *)

\* The level to be restored is the attribute that was read, which there is once
\* anything was dimmed; and CANCELLED is a state of the task, too.
LevelInv ==
    /\ attr # Unread => original_brightness = attr
    /\ dimming_state # "NONE" => attr # Unread
    /\ dimming_state = "CANCELLED" => \/ tasks[dimmer_task_cancellable].cancelled
                                      \/ tasks[dimmer_task_cancellable].complete

LEMMA InitLevelInv == Init => LevelInv
  BY DEF Init, LevelInv

\* The one thread that may write is that of the dimming under way.
LEMMA WriterIsCurrent ==
    ASSUME Inv, LevelInv, NEW t \in Tasks, ~ tasks[t].complete
    PROVE  /\ t = dimmer_task_cancellable /\ t # NoTask
           /\ dimming_state \in {"DIMMING", "CANCELLED"}
           /\ attr \in Levels /\ original_brightness = attr
<1>1. Unreported(t)
    BY DEF Unreported
<1>2. t = dimmer_task_cancellable /\ dimming_state \in {"DIMMING", "CANCELLED"}
    BY <1>1, OneDimming DEF Inv, ReportedOnce
<1> QED
    BY <1>2, BrightnessAssumption DEF LevelInv, Inv, TypeOK

LEMMA SteppingIsCurrent ==
    Inv => /\ \A t \in Tasks : Writing(t) => /\ t = dimmer_task_cancellable
                                             /\ ~ tasks[t].complete
                                             /\ ~ tasks[t].return_on_cancel
           /\ Stepping <=> /\ dimmer_task_cancellable \in Tasks
                           /\ Writing(dimmer_task_cancellable)
<1>1. ASSUME Inv, NEW t \in Tasks, Writing(t)
      PROVE  /\ t = dimmer_task_cancellable
             /\ ~ tasks[t].complete /\ ~ tasks[t].return_on_cancel
    BY <1>1 DEF Inv, GoodTask, Writing, Unreported, ReportedOnce
<1> QED
    BY <1>1 DEF Stepping

LEMMA SteppingIsBoolean == Stepping \in BOOLEAN /\ Stepping' \in BOOLEAN
  BY DEF Stepping

\* What a step of the thread of the dimming under way does to the dimmer.
LEMMA OwnStep ==
    ASSUME Inv, Inv', NEW t \in Tasks, NEW from, NEW after \in TaskRecords,
           ThreadStep(t, from, after), t = dimmer_task_cancellable
    PROVE  /\ Stepping <=> tasks[t].place \in {"asleep", "finishing"}
           /\ Stepping' <=> after.place \in {"asleep", "finishing"}
           /\ Reached = IF tasks[t].place = "queued" THEN attr
                        ELSE tasks[t].cur_brightness
           /\ Reached' = IF after.place = "queued" THEN attr ELSE after.cur_brightness
           /\ UNCHANGED <<dimming_state, attr, settled>>
<1>1. /\ UNCHANGED <<dimming_state, dimmer_task_cancellable, attr, settled>>
      /\ tasks'[t] = after /\ t # NoTask
    BY BrightnessAssumption DEF ThreadStep, controllerVars, Inv, TypeOK
<1>2. Stepping <=> tasks[t].place \in {"asleep", "finishing"}
    BY SteppingIsCurrent DEF Writing, Stepping
<1>3. Stepping' <=> tasks'[t].place \in {"asleep", "finishing"}
  <2>1. (Stepping <=> /\ dimmer_task_cancellable \in Tasks
                      /\ Writing(dimmer_task_cancellable))'
      BY SteppingIsCurrent, PTL
  <2> QED
      BY <1>1, <2>1 DEF Stepping, Writing
<1> QED
    BY <1>1, <1>2, <1>3 DEF Reached

LEMMA OtherStep ==
    ASSUME Inv, NEW t \in Tasks, NEW from, NEW after \in TaskRecords,
           ThreadStep(t, from, after), t # dimmer_task_cancellable,
           after.place \notin {"asleep", "finishing"},
           tasks[t].place \notin {"asleep", "finishing"}
    PROVE  UNCHANGED <<dimming_state, attr, Reached, Stepping, settled>>
<1>1. /\ UNCHANGED <<dimming_state, dimmer_task_cancellable, attr, settled>>
      /\ \A u \in Tasks : tasks'[u] = IF u = t THEN after ELSE tasks[u]
    BY DEF ThreadStep, controllerVars, Inv, TypeOK
<1>2. Stepping' <=> Stepping
    BY <1>1 DEF Stepping, Writing
<1>3. Stepping' = Stepping
    BY <1>2, SteppingIsBoolean, Zenon
<1>4. Reached' = Reached
    BY <1>1 DEF Reached, Inv, TypeOK
<1> QED
    BY <1>1, <1>3, <1>4

LEMMA ThreadStepLevel ==
    ASSUME Inv, LevelInv, NEW t \in Tasks, NEW from, NEW after,
           ThreadStep(t, from, after),
           tasks[t].cancelled \/ tasks[t].complete => after.cancelled \/ after.complete
    PROVE  LevelInv'
<1>1. \A u \in Tasks : tasks'[u] = IF u = t THEN after ELSE tasks[u]
    BY DEF ThreadStep, Inv, TypeOK
<1>2. dimming_state = "CANCELLED" => dimmer_task_cancellable \in Tasks
    BY BrightnessAssumption DEF Inv, TypeOK, ReportedOnce
<1> QED
    BY <1>1, <1>2 DEF ThreadStep, controllerVars, LevelInv

LEMMA ThreadLevelInv ==
    ASSUME Inv, LevelInv, NEW t \in Tasks, Thread(t)
    PROVE  LevelInv'
<1> DEFINE task == tasks[t]
<1>1. task \in TaskRecords
    BY DEF Inv, TypeOK
<1>2. CASE Start(t)
    BY <1>1, <1>2, ThreadStepLevel DEF Start, TaskRecords
<1>3. CASE ForbidCancel(t)
    BY <1>1, <1>3, ThreadStepLevel DEF ForbidCancel, TaskRecords
<1>4. CASE StepDown(t)
  <2>1. PICK m : StepDownAt(t, m)
      BY <1>4 DEF StepDown
  <2> DEFINE level == next_brightness(m)
             stepped == [task EXCEPT !.place = "stepped", !.millis_elapsed = m,
                                     !.cur_brightness = level]
             finishing == [task EXCEPT !.place = "finishing"]
  <2>2. ThreadStep(t, "asleep", stepped) \/ ThreadStep(t, "asleep", finishing)
      BY <2>1, Zenon DEF StepDownAt
  <2> HIDE DEF level
  <2>3. /\ stepped.cancelled = task.cancelled /\ stepped.complete = task.complete
        /\ finishing.cancelled = task.cancelled /\ finishing.complete = task.complete
      BY <1>1 DEF TaskRecords
  <2> HIDE DEF stepped, finishing
  <2> QED
      BY <2>2, <2>3, ThreadStepLevel
<1>5. CASE AllowCancel(t)
    BY <1>1, <1>5, ThreadStepLevel DEF AllowCancel, TaskRecords, Completed
<1>6. CASE Finish(t)
    BY <1>1, <1>6, ThreadStepLevel DEF Finish, TaskRecords
<1>7. CASE Return(t)
  <2> DEFINE done  == [Completed(task) EXCEPT !.place = "gone"]
             after == IF done.callback THEN done ELSE DoneTask
  <2>1. ThreadStep(t, "returning", after)
      BY <1>7 DEF Return
  <2>2. after.complete
      BY <1>1 DEF TaskRecords, Completed, DoneTask, NewTask
  <2> HIDE DEF after
  <2> QED
      BY <2>1, <2>2, ThreadStepLevel
<1> QED
    BY <1>2, <1>3, <1>4, <1>5, <1>6, <1>7 DEF Thread

DimmerStep == [Dimmer!Next]_(Dimmer!vars)

LEMMA Stutters ==
    ASSUME UNCHANGED <<dimming_state, attr, Reached, Stepping, brightness, settled>>
    PROVE  DimmerStep
  BY DEF DimmerStep, Dimmer!vars

\* A step of a thread begins or ends a step of the dimmer, or is none.
LEMMA ThreadMaps ==
    ASSUME Inv, Inv', LevelInv, NEW t \in Tasks, Thread(t)
    PROVE  DimmerStep
<1> DEFINE task == tasks[t]
<1>1. /\ task \in TaskRecords /\ GoodTask(task, original_brightness)
      /\ original_brightness \in Levels /\ brightness \in Levels
    BY DEF Inv, TypeOK
<1>2. ~ task.complete => /\ t = dimmer_task_cancellable
                         /\ dimming_state \in {"DIMMING", "CANCELLED"}
                         /\ attr \in Levels /\ original_brightness = attr
    BY WriterIsCurrent
\* A step that neither begins nor ends a step of the dimmer.
<1>3. ASSUME NEW from, NEW after \in TaskRecords, ThreadStep(t, from, after),
             UNCHANGED brightness,
             after.place \in {"asleep", "finishing"}
                <=> task.place \in {"asleep", "finishing"},
             after.place # "queued",
             t = dimmer_task_cancellable =>
                after.cur_brightness = IF task.place = "queued" THEN attr
                                       ELSE task.cur_brightness
      PROVE  DimmerStep
  <2>1. CASE t = dimmer_task_cancellable
    <3>1. Stepping' = Stepping
        BY <1>3, <2>1, OwnStep, SteppingIsBoolean, Zenon
    <3> QED
        BY <1>3, <2>1, <3>1, OwnStep, Stutters
  <2>2. CASE t # dimmer_task_cancellable
    <3>1. task.place \notin {"asleep", "finishing"}
        BY <1>1, <1>2, <2>2 DEF GoodTask
    <3> QED
        BY <1>3, <2>2, <3>1, OtherStep, Stutters
  <2> QED
      BY <2>1, <2>2
<1>4. CASE Start(t)
  <2>1. PICK place \in {"head", "returning"} :
           /\ ThreadStep(t, "queued", [task EXCEPT !.place = place,
                                         !.cur_brightness = original_brightness])
           /\ UNCHANGED brightness
      BY <1>4 DEF Start
  <2> DEFINE after == [task EXCEPT !.place = place, !.cur_brightness = original_brightness]
  <2>2. task.place = "queued" /\ ~ task.complete
      BY <1>1, <2>1 DEF ThreadStep, GoodTask
  <2>3. after \in TaskRecords /\ after.place = place
        /\ after.cur_brightness = original_brightness
      BY <1>1 DEF TaskRecords, Places
  <2> HIDE DEF after
  <2> QED
      BY <1>2, <1>3, <2>1, <2>2, <2>3 DEF after
<1>5. CASE ForbidCancel(t)
  <2>1. CASE task.cancelled
    <3> DEFINE after == [task EXCEPT !.place = "returning"]
    <3>1. ThreadStep(t, "head", after) /\ UNCHANGED brightness /\ task.place = "head"
        BY <1>5, <2>1 DEF ForbidCancel, ThreadStep
    <3>2. after \in TaskRecords /\ after.place = "returning"
          /\ after.cur_brightness = task.cur_brightness
        BY <1>1 DEF TaskRecords, Places
    <3> HIDE DEF after
    <3> QED
        BY <1>3, <3>1, <3>2
  <2>2. CASE ~ task.cancelled
    <3> DEFINE after == [task EXCEPT !.place = "asleep", !.return_on_cancel = FALSE]
    <3>1. ThreadStep(t, "head", after) /\ UNCHANGED brightness /\ task.place = "head"
        BY <1>5, <2>2 DEF ForbidCancel, ThreadStep
    <3>2. after \in TaskRecords /\ after.place = "asleep"
          /\ after.cur_brightness = task.cur_brightness
        BY <1>1 DEF TaskRecords, Places
    <3>3. ~ task.complete /\ original_brightness > min_brightness
        BY <1>1, <2>2, <3>1 DEF GoodTask, Looping
    <3>4. dimming_state = "DIMMING"
        BY <1>2, <2>2, <3>3 DEF LevelInv
    <3> HIDE DEF after
    <3>5. /\ ~ Stepping /\ Stepping' /\ Reached' = Reached
          /\ UNCHANGED <<dimming_state, attr, settled>>
        BY <1>2, <3>1, <3>2, <3>3, OwnStep
    <3>6. attr > min_brightness
        BY <1>2, <3>3
    <3> QED
        BY <3>1, <3>4, <3>5, <3>6 DEF DimmerStep, Dimmer!Next, Dimmer!BeginStep
  <2> QED
      BY <2>1, <2>2
<1>6. CASE StepDown(t)
  <2>1. PICK m \in task.millis_elapsed + 1 .. total_millis : StepDownAt(t, m)
      BY <1>6 DEF StepDown
  <2>2. m \in Nat \ {0} /\ m <= total_millis
      BY <1>1, <2>1, BrightnessAssumption DEF TaskRecords
  <2>3. task.place = "asleep" /\ ~ task.complete
      BY <1>1, <2>1 DEF StepDownAt, ThreadStep, GoodTask
  <2>4. original_brightness > min_brightness
      BY <1>1, <2>3 DEF GoodTask, Looping
  <2>5. CASE m >= total_millis
    <3> DEFINE after == [task EXCEPT !.place = "finishing"]
    <3>1. ThreadStep(t, "asleep", after) /\ UNCHANGED brightness
        BY <2>1, <2>5 DEF StepDownAt
    <3>2. after \in TaskRecords /\ after.place = "finishing"
          /\ after.cur_brightness = task.cur_brightness
        BY <1>1 DEF TaskRecords, Places
    <3> HIDE DEF after
    <3> QED
        BY <1>3, <2>3, <3>1, <3>2
  <2>6. CASE m < total_millis
    <3> DEFINE next == next_brightness(m)
               after == [task EXCEPT !.place = "stepped", !.millis_elapsed = m,
                                     !.cur_brightness = next]
    <3>1. next \in Levels
        BY <1>1, <2>2, <2>4, <2>6, NextBounded
    <3>2. ~ (m >= total_millis)
        BY <2>2, <2>6, BrightnessAssumption
    <3>3. ThreadStep(t, "asleep", after) /\ (set_brightness(next) \/ UNCHANGED brightness)
        BY <2>1, <3>2, Zenon DEF StepDownAt
    <3> HIDE DEF next
    <3>4. after \in TaskRecords /\ after.place = "stepped" /\ after.cur_brightness = next
      <4>1. m \in 0 .. total_millis
          BY <2>2, BrightnessAssumption
      <4> QED
          BY <1>1, <3>1, <4>1 DEF TaskRecords, Places
    <3> HIDE DEF after
    <3>5. tasks'[t].cur_brightness = next
        BY <3>3, <3>4 DEF ThreadStep, Inv, TypeOK
    <3>6. task.cur_brightness \in Nat /\ next \in min_brightness .. task.cur_brightness
        BY <1>1, <1>6, <2>3, <3>1, <3>5, StepsDown, BrightnessAssumption
        DEF Levels, TaskRecords
    <3>7. /\ Stepping /\ ~ Stepping' /\ Reached' = next /\ Reached = task.cur_brightness
          /\ UNCHANGED <<dimming_state, attr, settled>>
        BY <1>2, <2>3, <3>3, <3>4, OwnStep
    <3>8. brightness' \in {brightness, next}
        BY <3>3 DEF set_brightness
    <3> QED
        BY <3>6, <3>7, <3>8 DEF DimmerStep, Dimmer!Next, Dimmer!EndStep
  <2> QED
      BY <2>2, <2>5, <2>6, BrightnessAssumption
<1>7. CASE AllowCancel(t)
  <2> DEFINE after == IF task.cancelled THEN [Completed(task) EXCEPT !.place = "head"]
                      ELSE [task EXCEPT !.place = "head", !.return_on_cancel = TRUE]
  <2>1. ThreadStep(t, "stepped", after) /\ UNCHANGED brightness /\ task.place = "stepped"
      BY <1>7 DEF AllowCancel, ThreadStep
  <2>2. after \in TaskRecords /\ after.place = "head"
        /\ after.cur_brightness = task.cur_brightness
      BY <1>1 DEF TaskRecords, Places, Completed
  <2> HIDE DEF after
  <2> QED
      BY <1>3, <2>1, <2>2
<1>8. CASE Finish(t)
  <2> DEFINE after == [task EXCEPT !.place = "returning"]
  <2>1. /\ ThreadStep(t, "finishing", after) /\ task.place = "finishing"
        /\ set_brightness(min_brightness) \/ UNCHANGED brightness
      BY <1>8 DEF Finish, ThreadStep
  <2>2. after \in TaskRecords /\ after.place = "returning"
        /\ after.cur_brightness = task.cur_brightness
      BY <1>1 DEF TaskRecords, Places
  <2>3. /\ ~ task.complete /\ original_brightness > min_brightness
        /\ task.millis_elapsed \in Nat /\ task.millis_elapsed < total_millis
        /\ task.cur_brightness = IF task.millis_elapsed = 0 THEN original_brightness
                                 ELSE next_brightness(task.millis_elapsed)
      BY <1>1, <2>1, BrightnessAssumption DEF GoodTask, Looping, TaskRecords
  <2>4. task.cur_brightness \in Nat /\ task.cur_brightness >= min_brightness
      BY <1>1, <2>3, NextBounded, BrightnessAssumption DEF TaskRecords, Levels
  <2> HIDE DEF after
  <2>5. /\ Stepping /\ ~ Stepping'
        /\ Reached' = task.cur_brightness /\ Reached = task.cur_brightness
        /\ UNCHANGED <<dimming_state, attr, settled>>
      BY <1>2, <2>1, <2>2, <2>3, OwnStep
  <2>6. brightness' \in {brightness, min_brightness}
      BY <2>1 DEF set_brightness
  <2>7. Reached' \in min_brightness .. Reached
      BY <2>4, <2>5, BrightnessAssumption
  <2> QED
      BY <2>5, <2>6, <2>7 DEF DimmerStep, Dimmer!Next, Dimmer!EndStep
<1>9. CASE Return(t)
  <2> DEFINE done  == [Completed(task) EXCEPT !.place = "gone"]
             after == IF done.callback THEN done ELSE DoneTask
  <2>1. ThreadStep(t, "returning", after) /\ UNCHANGED brightness
        /\ task.place = "returning"
      BY <1>9 DEF Return, ThreadStep
  <2>2. after \in TaskRecords /\ after.place = "gone"
      BY <1>1, TasksTyped DEF TaskRecords, Places, Completed, DoneTask, NewTask
  <2>3. t = dimmer_task_cancellable => after.cur_brightness = task.cur_brightness
    <3>1. t = dimmer_task_cancellable => Unreported(t)
        BY DEF Inv, ReportedOnce
    <3> QED
        BY <1>1, <3>1 DEF TaskRecords, Completed, Unreported
  <2> HIDE DEF after
  <2> QED
      BY <1>3, <2>1, <2>2, <2>3
<1> QED
    BY <1>4, <1>5, <1>6, <1>7, <1>8, <1>9 DEF Thread

LEMMA DimMaps ==
    ASSUME Inv, LevelInv, Dim
    PROVE  LevelInv' /\ DimmerStep
<1>1. PICK t \in Tasks :
         /\ AcceptsDim /\ tasks[t] = DoneTask
         /\ attr' = IF attr = Unread THEN brightness ELSE attr
         /\ original_brightness' = attr'
         /\ dimming_state' = "DIMMING"
         /\ dimmer_task_cancellable' = t
         /\ tasks' = [tasks EXCEPT ![t] = NewTask]
         /\ UNCHANGED <<brightness, settled>>
    BY DEF Dim
<1>2. dimming_state = "NONE"
    BY <1>1 DEF AcceptsDim
<1>3. \A u \in Tasks : tasks'[u] = IF u = t THEN NewTask ELSE tasks[u]
    BY <1>1 DEF Inv, TypeOK
<1>4. attr' \in Levels /\ attr' # Unread
    BY <1>1, BrightnessAssumption DEF Inv, TypeOK, Levels, Unread
<1>5. Stepping' <=> Stepping
  <2>1. tasks[t].place = "gone" /\ tasks'[t].place = "queued"
      BY <1>1, <1>3 DEF DoneTask, NewTask
  <2>2. \A u \in Tasks : u # t => tasks'[u] = tasks[u]
      BY <1>3
  <2> QED
      BY <2>1, <2>2 DEF Stepping, Writing
<1>6. Stepping' = Stepping
    BY <1>5, SteppingIsBoolean, Zenon
<1>7. Reached' = attr'
    BY <1>1, <1>3 DEF Reached, NewTask
<1>8. LevelInv'
    BY <1>1, <1>4 DEF LevelInv
<1> QED
    BY <1>1, <1>2, <1>6, <1>7, <1>8 DEF DimmerStep, Dimmer!Next, Dimmer!Dim

\* While no thread may write, and the one that is cancelled does not.
LEMMA QuietUnlessCurrentWrites ==
    ASSUME Inv,
           \/ dimmer_task_cancellable = NoTask
           \/ tasks[dimmer_task_cancellable].complete
           \/ tasks[dimmer_task_cancellable].return_on_cancel
    PROVE  ~ Stepping
  BY SteppingIsCurrent, BrightnessAssumption DEF Stepping

\* A restoration, or the end of the dimming: the cancellable is dropped.
LEMMA DropsCancellable ==
    ASSUME Inv, dimmer_task_cancellable' = NoTask, attr' = attr,
           \A u \in Tasks : tasks'[u].place = tasks[u].place \/ tasks'[u] = DoneTask,
           ~ Stepping
    PROVE  Reached' = attr /\ ~ Stepping' /\ Stepping' = Stepping
<1>1. Reached' = attr
    BY DEF Reached
<1>2. ~ Stepping'
    BY DEF Stepping, Writing, DoneTask, NewTask
<1>3. Stepping' = Stepping
    BY <1>2, SteppingIsBoolean, Zenon
<1> QED
    BY <1>1, <1>2, <1>3

LEMMA CancelDimmingMaps ==
    ASSUME Inv, Inv', LevelInv, CancelDimming
    PROVE  LevelInv' /\ DimmerStep
<1> DEFINE t         == dimmer_task_cancellable
           cancelled == IF tasks[t].complete THEN tasks[t]
                        ELSE [tasks[t] EXCEPT !.cancelled = TRUE]
           after     == IF cancelled.return_on_cancel THEN Completed(cancelled)
                        ELSE cancelled
           restored  == [cancelled EXCEPT !.complete = TRUE]
<1>1. t \in Tasks /\ t # NoTask /\ tasks[t] \in TaskRecords
    BY BrightnessAssumption DEF CancelDimming, Inv, TypeOK, ReportedOnce
<1>2. /\ cancelled \in TaskRecords
      /\ cancelled.place = tasks[t].place
      /\ cancelled.cur_brightness = tasks[t].cur_brightness
      /\ cancelled.return_on_cancel = tasks[t].return_on_cancel
      /\ cancelled.cancelled \/ cancelled.complete
    BY <1>1 DEF TaskRecords
<1>3. /\ dimming_state = "DIMMING"
      /\ UNCHANGED <<original_brightness, attr, before>>
      /\ \/ /\ tasks' = [tasks EXCEPT ![t] = after]
            /\ dimming_state' = "CANCELLED"
            /\ UNCHANGED <<dimmer_task_cancellable, brightness, settled>>
         \/ /\ cancelled.return_on_cancel
            /\ tasks' = [tasks EXCEPT ![t] = restored]
            /\ RestoreInCallback
    BY DEF CancelDimming
<1> HIDE DEF cancelled
<1>4. /\ after.place = tasks[t].place /\ restored.place = tasks[t].place
      /\ after.cur_brightness = tasks[t].cur_brightness
      /\ after.cancelled \/ after.complete
    BY <1>2 DEF TaskRecords, Completed
<1> HIDE DEF after, restored
<1>5. CASE /\ tasks' = [tasks EXCEPT ![t] = after]
           /\ dimming_state' = "CANCELLED"
           /\ UNCHANGED <<dimmer_task_cancellable, brightness, settled>>
  <2>1. \A u \in Tasks : tasks'[u] = IF u = t THEN after ELSE tasks[u]
      BY <1>5 DEF Inv, TypeOK
  <2>2. LevelInv'
      BY <1>1, <1>3, <1>4, <1>5, <2>1 DEF LevelInv
  <2>3. Stepping' <=> Stepping
      BY <1>4, <2>1 DEF Stepping, Writing
  <2>4. Stepping' = Stepping
      BY <2>3, SteppingIsBoolean, Zenon
  <2>5. Reached' = Reached
      BY <1>1, <1>3, <1>4, <1>5, <2>1 DEF Reached
  <2> QED
      BY <1>3, <1>5, <2>2, <2>4, <2>5 DEF DimmerStep, Dimmer!Next, Dimmer!Cancel
<1>6. CASE /\ cancelled.return_on_cancel
           /\ tasks' = [tasks EXCEPT ![t] = restored]
           /\ RestoreInCallback
  <2>1. \A u \in Tasks : tasks'[u] = IF u = t THEN restored ELSE tasks[u]
      BY <1>6 DEF Inv, TypeOK
  <2>2. /\ dimmer_task_cancellable' = NoTask /\ dimming_state' = "NONE"
        /\ settled' = brightness' /\ brightness' \in {brightness, original_brightness}
      BY <1>6 DEF RestoreInCallback, set_brightness
  <2>3. attr # Unread /\ original_brightness = attr
      BY <1>3 DEF LevelInv
  <2>4. LevelInv'
      BY <1>3, <2>2, <2>3 DEF LevelInv
  <2>5. ~ Stepping
      BY <1>2, <1>6, QuietUnlessCurrentWrites
  <2>6. \A u \in Tasks : tasks'[u].place = tasks[u].place
      BY <1>4, <2>1
  <2>7. Reached' = attr /\ Stepping' = Stepping
      BY <1>3, <2>2, <2>5, <2>6, DropsCancellable
  <2> QED
      BY <1>3, <2>2, <2>3, <2>4, <2>5, <2>7 DEF DimmerStep, Dimmer!Next, Dimmer!Restored
<1> QED
    BY <1>3, <1>5, <1>6

LEMMA RestoreDimmedMaps ==
    ASSUME Inv, LevelInv, RestoreDimmed
    PROVE  LevelInv' /\ DimmerStep
<1>1. /\ dimming_state = "DIMMED" /\ dimming_state' = "NONE"
      /\ settled' = brightness' /\ brightness' \in {brightness, original_brightness}
      /\ UNCHANGED <<original_brightness, dimmer_task_cancellable, tasks, attr>>
    BY DEF RestoreDimmed, set_brightness
<1>2. dimmer_task_cancellable = NoTask
    BY <1>1 DEF Inv, ReportedOnce
<1>3. attr # Unread /\ original_brightness = attr
    BY <1>1 DEF LevelInv
<1>4. ~ Stepping
    BY <1>2, QuietUnlessCurrentWrites
<1>5. Reached' = attr /\ Stepping' = Stepping
    BY <1>1, <1>2, <1>4, DropsCancellable
<1>6. LevelInv'
    BY <1>1, <1>3 DEF LevelInv
<1> QED
    BY <1>1, <1>3, <1>4, <1>5, <1>6 DEF DimmerStep, Dimmer!Next, Dimmer!Restored

LEMMA TaskCallbackMaps ==
    ASSUME Inv, LevelInv, NEW t \in Tasks, TaskCallback(t)
    PROVE  LevelInv' /\ DimmerStep
<1>1. /\ tasks[t].callback /\ dimmer_task_complete_cb
      /\ UNCHANGED <<original_brightness, attr>>
      /\ tasks' = [tasks EXCEPT ![t] = IF @.place = "gone" THEN DoneTask
                                       ELSE [@ EXCEPT !.callback = FALSE]]
    BY DEF TaskCallback
<1>2. /\ tasks[t] \in TaskRecords /\ tasks[t].complete /\ t = dimmer_task_cancellable
    BY <1>1 DEF Inv, TypeOK, GoodTask, ReportedOnce, Unreported
<1>3. \A u \in Tasks : tasks'[u].place = tasks[u].place \/ tasks'[u] = DoneTask
    BY <1>1, <1>2 DEF Inv, TypeOK, TaskRecords
<1>4. ~ Stepping
    BY <1>2, QuietUnlessCurrentWrites
<1>5. dimmer_task_cancellable' = NoTask
    BY <1>1 DEF dimmer_task_complete_cb, RestoreInCallback
<1>6. Reached' = attr /\ Stepping' = Stepping
    BY <1>1, <1>3, <1>4, <1>5, DropsCancellable
<1>7. dimming_state \in {"DIMMING", "CANCELLED"}
    BY TaskCallbackInv
<1>8. attr # Unread /\ original_brightness = attr
    BY <1>7 DEF LevelInv
<1>9. CASE dimming_state = "CANCELLED"
  <2>1. /\ dimming_state' = "NONE" /\ settled' = brightness'
        /\ brightness' \in {brightness, original_brightness}
      BY <1>1, <1>9 DEF dimmer_task_complete_cb, RestoreInCallback, set_brightness
  <2> QED
      BY <1>1, <1>4, <1>6, <1>8, <1>9, <2>1
      DEF LevelInv, DimmerStep, Dimmer!Next, Dimmer!Restored
<1>10. CASE dimming_state = "DIMMING"
  <2>1. dimming_state' = "DIMMED" /\ UNCHANGED <<brightness, settled>>
      BY <1>1, <1>10 DEF dimmer_task_complete_cb
  <2> QED
      BY <1>1, <1>4, <1>6, <1>8, <1>10, <2>1
      DEF LevelInv, DimmerStep, Dimmer!Next, Dimmer!Dimmed
<1> QED
    BY <1>7, <1>9, <1>10

LEMMA UserMaps ==
    ASSUME LevelInv, UserSetsBrightness
    PROVE  LevelInv' /\ DimmerStep
<1>1. /\ brightness' \in Levels /\ settled' = brightness'
      /\ UNCHANGED <<dimming_state, original_brightness, dimmer_task_cancellable, tasks,
                     attr>>
    BY DEF UserSetsBrightness, controllerVars
<1>2. Reached' = Reached
    BY <1>1 DEF Reached
<1>3. Stepping' <=> Stepping
    BY <1>1 DEF Stepping, Writing
<1>4. Stepping' = Stepping
    BY <1>3, SteppingIsBoolean, Zenon
<1> QED
    BY <1>1, <1>2, <1>4 DEF LevelInv, DimmerStep, Dimmer!Next, Dimmer!UserSets

LEMMA UnchangedMaps ==
    ASSUME LevelInv, UNCHANGED vars
    PROVE  LevelInv' /\ DimmerStep
<1>1. UNCHANGED <<dimming_state, original_brightness, dimmer_task_cancellable, tasks,
                  attr, brightness, settled>>
    BY DEF vars
<1>2. Reached' = Reached
    BY <1>1 DEF Reached
<1>3. Stepping' <=> Stepping
    BY <1>1 DEF Stepping, Writing
<1>4. Stepping' = Stepping
    BY <1>3, SteppingIsBoolean, Zenon
<1> QED
    BY <1>1, <1>2, <1>4, Stutters DEF LevelInv

LEMMA NextMaps == Inv /\ Inv' /\ LevelInv /\ [Next]_vars => LevelInv' /\ DimmerStep
<1> SUFFICES ASSUME Inv, Inv', LevelInv, [Next]_vars PROVE LevelInv' /\ DimmerStep
    OBVIOUS
<1> QED
    BY DimMaps, CancelDimmingMaps, RestoreDimmedMaps, TaskCallbackMaps, ThreadLevelInv,
       ThreadMaps, UserMaps, UnchangedMaps DEF Next

LEMMA InitMaps == Init => Dimmer!Init
<1> SUFFICES ASSUME Init PROVE Dimmer!Init
    OBVIOUS
<1>1. ~ Stepping
    BY DEF Init, Stepping, Writing, DoneTask, NewTask
<1>2. Reached = attr
    BY DEF Init, Reached
<1> QED
    BY <1>1, <1>2 DEF Init, Dimmer!Init

\* GTasks and threads implement the dimmer, for any number of tasks, any range, any
\* duration and whatever calls of logind fail: no step begins once the dimming is
\* cancelled, and the level is restored when the last one is over
\* (dimmer_task_func, dimmer_task_complete_cb, restore_brightness).
THEOREM ImplementsDimmer == Spec => DimmerSpec
<1>1. Init => LevelInv /\ Dimmer!Init
    BY InitLevelInv, InitMaps
<1>2. Inv /\ Inv' /\ LevelInv /\ [Next]_vars
         => LevelInv' /\ [Dimmer!Next]_(Dimmer!vars)
    BY NextMaps DEF DimmerStep
<1> QED
    BY <1>1, <1>2, InvariantHolds, PTL DEF Spec, DimmerSpec, Dimmer!Spec

-----------------------------------------------------------------------------
(* Theorems about the commands.                                            *)

LEMMA DimmingStep == [DimmingNext]_allVars => [Next]_vars
<1> SUFFICES ASSUME [DimmingNext]_allVars PROVE [Next]_vars
    OBVIOUS
<1>1. restore_brightness => [Next]_vars
    BY DEF restore_brightness, Next
<1>2. CASE EventManager
    BY <1>1, <1>2
    DEF EventManager, ActivityTimeout, ActivityResume, Wake, handle_activity_resumed,
        DisableTimeouts, EnableTimeouts, Next
<1>3. CASE Brightness
    BY <1>3 DEF Brightness, Next
<1>4. CASE UNCHANGED allVars
    BY <1>4 DEF allVars
<1> QED
    BY <1>2, <1>3, <1>4 DEF DimmingNext

\* The commands call the controller as anybody may: what holds of it on its own
\* holds here (Command::activate and deactivate, DimAction, UndimAction).
THEOREM CommandsUseController == DimmingSpec => Spec
<1>1. DimmingInit => Init
    BY DEF DimmingInit
<1>2. [DimmingNext]_allVars => [Next]_vars
    BY DimmingStep
<1> QED
    BY <1>1, <1>2, PTL DEF DimmingSpec, Spec

\* With it, only commands that are activated have dimmed.
CommandInv == dimmed_by \subseteq activated /\ DimmedIffByCommand

LEMMA InitCommandInv == DimmingInit => CommandInv
  BY DEF DimmingInit, Init, CommandInv, DimmedIffByCommand

LEMMA NextCommandInv == Inv /\ CommandInv /\ [DimmingNext]_allVars => CommandInv'
<1> SUFFICES ASSUME Inv, CommandInv, [DimmingNext]_allVars PROVE CommandInv'
    OBVIOUS
<1> USE DEF CommandInv, DimmedIffByCommand
<1>1. CASE ActivityTimeout
  <2>1. PICK c \in registered \ notified :
           /\ activated' = activated \cup {c}
           /\ \/ UNCHANGED <<vars, dimmed_by>>
              \/ Dim /\ dimmed_by' = dimmed_by \cup {c}
      BY <1>1 DEF ActivityTimeout
  <2>2. CASE UNCHANGED <<vars, dimmed_by>>
      BY <2>1, <2>2 DEF vars
  <2>3. CASE Dim /\ dimmed_by' = dimmed_by \cup {c}
    <3>1. dimming_state' = "DIMMING"
        BY <2>3 DEF Dim
    <3> QED
        BY <2>1, <2>3, <3>1
  <2> QED
      BY <2>1, <2>2, <2>3
<1>2. CASE handle_activity_resumed
  <2>1. CASE activated # {}
    <3>1. restore_brightness
        BY <1>2, <2>1 DEF handle_activity_resumed
    <3>2. dimming_state' \notin {"DIMMING", "DIMMED"}
        BY <3>1 DEF restore_brightness, CancelDimming, RestoreInCallback, RestoreDimmed,
                    vars
    <3> QED
        BY <1>2, <3>2 DEF handle_activity_resumed
  <2>2. CASE activated = {}
      BY <1>2, <2>2 DEF handle_activity_resumed, vars
  <2> QED
      BY <2>1, <2>2
<1>3. CASE DisableTimeouts \/ EnableTimeouts
    BY <1>3 DEF DisableTimeouts, EnableTimeouts, vars
<1>4. CASE Brightness
  <2>1. UNCHANGED <<activated, dimmed_by>>
      BY <1>4 DEF Brightness, commandVars
  <2>2. CASE \E t \in Tasks : TaskCallback(t)
      BY <2>1, <2>2, TaskCallbackInv
  <2>3. CASE \E t \in Tasks : Thread(t)
    <3>1. dimming_state' = dimming_state
        BY <2>3 DEF Thread, Start, ForbidCancel, StepDown, StepDownAt, AllowCancel,
                    Finish, Return, ThreadStep, controllerVars
    <3> QED
        BY <2>1, <3>1
  <2>4. CASE UserSetsBrightness
      BY <2>1, <2>4 DEF UserSetsBrightness, controllerVars
  <2> QED
      BY <1>4, <2>2, <2>3, <2>4 DEF Brightness
<1>5. CASE UNCHANGED allVars
    BY <1>5 DEF allVars, vars, commandVars
<1> QED
    BY <1>1, <1>2, <1>3, <1>4, <1>5
    DEF DimmingNext, EventManager, ActivityResume, Wake

\* The monitor is dimmed, or being dimmed, exactly while a command whose dim() was
\* accepted is activated, for any number of commands: the flag activated and the
\* state of the controller never disagree about whether there is something to undo
\* (Command::deactivate, restore_brightness).
THEOREM DimmedOnlyByCommands == DimmingSpec => []DimmedIffByCommand
<1>1. DimmingInit => CommandInv
    BY InitCommandInv
<1>2. Inv /\ CommandInv /\ [DimmingNext]_allVars => CommandInv'
    BY NextCommandInv
<1>3. CommandInv => DimmedIffByCommand
    BY DEF CommandInv
<1> QED
    BY <1>1, <1>2, <1>3, CommandsUseController, InvariantHolds, PTL DEF DimmingSpec

=============================================================================
