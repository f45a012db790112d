-------------------------- MODULE ActivityDetector --------------------------
(***************************************************************************)
(* The XSyncActivityDetector of activity_detector.cc and, as its           *)
(* environment, the X server's IDLETIME counter with the SYNC alarms the   *)
(* detector creates on it.                                                 *)
(*                                                                         *)
(* The detector is one record, det, updated by operators that return the   *)
(* detector after a call, so that a client handler that makes several      *)
(* calls (EventManager removes a timeout and adds another in one handler)  *)
(* composes them into one atomic step: the daemon's main loop never yields *)
(* inside a handler.                                                       *)
(*                                                                         *)
(* An alarm is a record: the wait value and the (immutable) client data it *)
(* was created with, and a serial that stands for its XID: a new idle      *)
(* alarm equals neither a live one nor one that still has events in        *)
(* flight.  A resume alarm needs none, since events are looked up by XID   *)
(* for idle alarms only and a new one always has a smaller wait value.     *)
(***************************************************************************)
EXTENDS Integers, Sequences, FiniteSets, FiniteSetsExt, SequencesExt

CONSTANTS
    Data,           \* the client data of timeouts: command ids, never 0 (NULL)
    Timeouts,       \* the timeout values clients ask for
    NoTimeout,      \* numeric_limits<int64_t>::max()
    MaxIdle,        \* bound: IDLETIME is not followed past this value
    MaxQueue,       \* bound: alarm events in flight to the daemon
    Lags            \* values IDLETIME may be seen at right after an input event

ASSUME DataAssumption    == /\ Data \subseteq Nat \ {0}
                            /\ IsFiniteSet(Data)
\* g_assert(timeout_ms > 1); int64 timeouts are below its maximum.
ASSUME TimeoutAssumption == /\ NoTimeout \in Nat
                            /\ Timeouts \subseteq 2 .. NoTimeout - 1
ASSUME BoundAssumption   == /\ MaxIdle \in Nat
                            /\ MaxQueue \in Nat
                            /\ Lags \subseteq Nat

VARIABLES
    idle,           \* the X server's IDLETIME counter
    det,            \* the detector and the alarms it holds at the server
    xevents         \* alarm events sent by the server, not yet dispatched

detectorVars == <<idle, det, xevents>>

-----------------------------------------------------------------------------
NULL == 0                                   \* user_data of the resume alarm
None == [data |-> NULL, wait |-> 0, serial |-> 0]

Alarm(data, wait, serial) == [data |-> data, wait |-> wait, serial |-> serial]
ResumeAlarm(wait)         == Alarm(NULL, wait, 0)

\* One for every event in flight, a live alarm and a new one.
Serials == 0 .. MaxQueue + 1

IdleAlarms   == [data : Data, wait : Timeouts, serial : Serials]
ResumeAlarms == [data : {NULL}, wait : Nat, serial : {0}]

Detectors == [pos_trans_alarms : SUBSET IdleAlarms,
              neg_trans_alarm  : ResumeAlarms \cup {None},
              min_timeout      : Timeouts \cup {NoTimeout},
              server           : SUBSET (IdleAlarms \cup ResumeAlarms)]

\* What an XSyncAlarmNotifyEvent carries; its alarm_value is alarm.wait.
Events == [alarm : IdleAlarms \cup ResumeAlarms, counter_value : Nat]

NewDetector == [pos_trans_alarms |-> {},
                neg_trans_alarm  |-> None,
                min_timeout      |-> NoTimeout,
                server           |-> {}]

-----------------------------------------------------------------------------
(* The calls of the ActivityDetector interface. *)

AlarmsInUse(d) == d.server \cup {xevents[i].alarm : i \in DOMAIN xevents}
FreshSerial(d, data) ==
    CHOOSE n \in Serials : \A a \in AlarmsInUse(d) : a.data = data => a.serial # n

IdleAlarm(d, timeout_ms, data) == Alarm(data, timeout_ms, FreshSerial(d, data))

\* Mutant: the replaced resume alarm is not destroyed at the server.
AddLeavesOldResume(d, timeout_ms, data) ==
    LET idleAlarm   == IdleAlarm(d, timeout_ms, data)
        resumeAlarm == ResumeAlarm(timeout_ms - 1)
    IN  IF timeout_ms < d.min_timeout
        THEN [pos_trans_alarms |-> d.pos_trans_alarms \cup {idleAlarm},
              neg_trans_alarm  |-> resumeAlarm,
              min_timeout      |-> timeout_ms,
              server           |-> d.server \cup {idleAlarm, resumeAlarm}]
        ELSE [d EXCEPT !.pos_trans_alarms = @ \cup {idleAlarm},
                       !.server           = @ \cup {idleAlarm}]

\* add_idle_timeout: a smaller minimum first replaces the resume alarm.
AddIdleTimeout(d, timeout_ms, data) ==
    LET idleAlarm   == IdleAlarm(d, timeout_ms, data)
        resumeAlarm == ResumeAlarm(timeout_ms - 1)
    IN  IF timeout_ms < d.min_timeout
        THEN [pos_trans_alarms |-> d.pos_trans_alarms \cup {idleAlarm},
              neg_trans_alarm  |-> resumeAlarm,
              min_timeout      |-> timeout_ms,
              server |-> (d.server \ {d.neg_trans_alarm}) \cup {idleAlarm, resumeAlarm}]
        ELSE [d EXCEPT !.pos_trans_alarms = @ \cup {idleAlarm},
                       !.server           = @ \cup {idleAlarm}]

\* What a loop of add_idle_timeout calls leaves behind: one idle alarm for
\* each data of the function timeout_ms, and the resume alarm of the smallest.
AddIdleTimeouts(d, timeout_ms) ==
    LET idleAlarms == {IdleAlarm(d, timeout_ms[data], data) : data \in DOMAIN timeout_ms}
        least      == Min({timeout_ms[data] : data \in DOMAIN timeout_ms}
                          \cup {d.min_timeout})
        neg        == IF least < d.min_timeout
                      THEN ResumeAlarm(least - 1) ELSE d.neg_trans_alarm
    IN  [pos_trans_alarms |-> d.pos_trans_alarms \cup idleAlarms,
         neg_trans_alarm  |-> neg,
         min_timeout      |-> least,
         server           |-> (d.server \ {d.neg_trans_alarm})
                              \cup idleAlarms \cup ({neg} \ {None})]

\* Mutant: removing the smallest timeout destroys the resume alarm too.
RemoveTakesResume(d, data) ==
    LET removed == {a \in d.pos_trans_alarms : a.data = data}
    IN  IF \E a \in removed : a.wait = d.min_timeout
        THEN [pos_trans_alarms |-> d.pos_trans_alarms \ removed,
              neg_trans_alarm  |-> None,
              min_timeout      |-> NoTimeout,
              server           |-> d.server \ (removed \cup {d.neg_trans_alarm})]
        ELSE [d EXCEPT !.pos_trans_alarms = @ \ removed, !.server = @ \ removed]

\* remove_idle_timeout: the resume alarm and min_timeout stay as they are.
RemoveIdleTimeout(d, data) ==
    LET removed == {a \in d.pos_trans_alarms : a.data = data}
    IN  [d EXCEPT !.pos_trans_alarms = @ \ removed, !.server = @ \ removed]

\* Mutants: min_timeout is not reset; the resume alarm is forgotten, not destroyed.
ClearKeepsMinimum(d) ==
    [NewDetector EXCEPT
        !.min_timeout = d.min_timeout,
        !.server      = d.server \ (d.pos_trans_alarms \cup {d.neg_trans_alarm})]
ClearLeavesResume(d) ==
    [NewDetector EXCEPT !.server = d.server \ d.pos_trans_alarms]

\* clear_timeouts: destroys every alarm and forgets the minimum.
ClearTimeouts(d) ==
    [NewDetector EXCEPT
        !.server = d.server \ (d.pos_trans_alarms \cup {d.neg_trans_alarm})]

-----------------------------------------------------------------------------
(* gdk_event_filter: how the event at the head of the queue is dispatched. *)

IsIdle(e)   == ~ (e.counter_value < e.alarm.wait)
IsResume(e) == ~ IsIdle(e)

\* Mutant: the event is dispatched by the data it carries, live alarm or not.
IsTimeoutForAny(e, data) == IsIdle(e) /\ e.alarm.data = data

\* An idle event of an alarm that was removed in the meantime is dropped.
IsTimeoutFor(e, data) ==
    IsIdle(e) /\ e.alarm \in det.pos_trans_alarms /\ e.alarm.data = data
IsForDeletedAlarm(e) == IsIdle(e) /\ e.alarm \notin det.pos_trans_alarms

-----------------------------------------------------------------------------
(* The X server (external): alarms fire on the transition of the counter   *)
(* through their wait value, never because it is already past it.  Alarms   *)
(* that fire together send their events in any order.                      *)

Event(a, value) == [alarm |-> a, counter_value |-> value]

Send(due, value) ==
    /\ Len(xevents) + Cardinality(due) <= MaxQueue
    /\ \E order \in SetToSeqs(due) :
          xevents' = xevents \o [i \in DOMAIN order |-> Event(order[i], value)]

\* XSyncPositiveTransition: the user stays idle for one more unit of time.
Tick ==
    /\ idle < MaxIdle
    /\ idle' = idle + 1
    /\ Send({a \in det.server : a.data # NULL /\ a.wait = idle + 1}, idle + 1)

\* XSyncNegativeTransition: the user acts and the counter drops to value.
UserActivity ==
    \E value \in Lags :
        /\ value < idle
        /\ idle' = value
        /\ Send({a \in det.server : /\ a.data = NULL
                                    /\ idle > a.wait
                                    /\ value <= a.wait}, value)

\* Input is noticed before the counter has grown back to the resume alarm.
ShortLag == \A value \in Lags, t \in Timeouts : value + 1 < t

-----------------------------------------------------------------------------
(* Properties of the detector's own data. *)

DetectorTypeOK == /\ idle \in Nat
                  /\ det \in Detectors
                  /\ IsFiniteSet(det.server)
                  /\ xevents \in Seq(Events)
                  /\ Len(xevents) <= MaxQueue

\* Every idle alarm has a resume alarm below it (activity_detector.cc, the
\* comment on min_timeout - 1): what went idle can be seen to come back, also
\* after the command with the smallest timeout is removed.
ResumeAlarmCovers ==
    \A a \in det.pos_trans_alarms :
        /\ det.neg_trans_alarm # None
        /\ det.neg_trans_alarm.wait < a.wait

\* The server holds the alarms the detector knows of and no other: no path
\* that forgets an alarm leaves it firing at the server.
NoAlarmLeaked ==
    det.server = det.pos_trans_alarms \cup ({det.neg_trans_alarm} \ {None})

\* add_idle_timeout asserts that its data has no alarm yet: two alarms never
\* carry the same data, through any order of adds, removals and clears.
DataUnique ==
    \A a, b \in det.pos_trans_alarms : a.data = b.data => a = b

=============================================================================
