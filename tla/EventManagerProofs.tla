------------------------- MODULE EventManagerProofs -------------------------
(***************************************************************************)
(* Theorems about EventManager and the ActivityDetector below it, for any  *)
(* commands, timeouts, queue length and idle time.                         *)
(***************************************************************************)
EXTENDS EventManager, FiniteSetTheorems, SequenceTheorems, WellFoundedInduction, TLAPS

-----------------------------------------------------------------------------
(* The inductive invariant. *)

\* min_timeout is the wait value the resume alarm was made from, and no idle
\* alarm is below it; remove_idle_timeout may leave it smaller than necessary.
MinimumTracked(d) ==
    IF d.neg_trans_alarm = None
    THEN d.min_timeout = NoTimeout /\ d.pos_trans_alarms = {}
    ELSE /\ d.min_timeout \in Timeouts
         /\ d.neg_trans_alarm = ResumeAlarm(d.min_timeout - 1)
         /\ \A a \in d.pos_trans_alarms : d.min_timeout <= a.wait

GoodDetector(d) ==
    /\ d \in Detectors
    /\ IsFiniteSet(d.server)
    /\ d.server = d.pos_trans_alarms \cup ({d.neg_trans_alarm} \ {None})
    /\ \A a, b \in d.pos_trans_alarms : a.data = b.data => a = b
    /\ MinimumTracked(d)

Inv == TypeOK /\ GoodDetector(det) /\ AlarmsMatchCommands /\ EnabledIffAllowed

IsLive(i) == IsIdle(xevents[i]) /\ xevents[i].alarm \in det.pos_trans_alarms

\* Where each activation and each event in flight stands between the idle
\* event that caused it and the resume event that will end it.
Q1 == \A id \in owed : \E a \in det.pos_trans_alarms :
          a.data = id /\ (idle >= a.wait \/ ResumeQueuedAfter(0))
Q2 == \A i \in DOMAIN xevents :
          IsLive(i) => idle >= xevents[i].alarm.wait \/ ResumeQueuedAfter(i)
Q3 == \A i \in DOMAIN xevents :
          IsLive(i) /\ xevents[i].alarm.data \in owed => ResumeQueuedBefore(i)
Q4 == \A i, k \in DOMAIN xevents :
          i < k /\ IsLive(i) /\ IsLive(k) /\ xevents[i].alarm = xevents[k].alarm
              => \E j \in i + 1 .. k - 1 : IsResume(xevents[j])
QueueInv == Q1 /\ Q2 /\ Q3 /\ Q4


-----------------------------------------------------------------------------
(* Lemmas about the operators of the detector.                             *)

LEMMA TimeoutRange ==
    NoTimeout \in Nat /\ \A t \in Timeouts : t \in Nat /\ 1 < t /\ t < NoTimeout
BY TimeoutAssumption

\* A non-empty set of naturals has a least element, which Min returns.
LEMMA MinIsLeast ==
    ASSUME NEW S, S \subseteq Nat, S # {}
    PROVE  /\ Min(S) \in S
           /\ \A y \in S : Min(S) <= y
<1> DEFINE Less == OpToRel(<, Nat)
<1>1. IsWellFoundedOn(Less, Nat)
    BY NatLessThanWellFounded
<1>2. \A x, y \in Nat : y < x => <<y, x>> \in Less
    BY DEF OpToRel
<1> HIDE DEF Less
<1>3. \E x \in S : \A y \in S : ~ (<<y, x>> \in Less)
    BY <1>1, WFMin
<1>4. PICK x \in S : \A y \in S : ~ (<<y, x>> \in Less)
    BY <1>3
<1>5. ASSUME NEW y \in S PROVE x <= y
  <2>1. x \in Nat /\ y \in Nat
      OBVIOUS
  <2>2. ~ (y < x)
      BY <1>2, <1>4, <2>1
  <2>3. QED
      BY <2>1, <2>2
<1>6. QED
    BY <1>5 DEF Min

\* The serials suffice: an idle alarm of data that has no live alarm can be given
\* one that no alarm in use has (the code gets it from the X server).
LEMMA FreshSerialExists ==
    ASSUME NEW d \in Detectors, NEW data \in Data,
           xevents \in Seq(Events), Len(xevents) <= MaxQueue,
           \A a \in d.server : a.data # data
    PROVE  /\ FreshSerial(d, data) \in Serials
           /\ \A a \in AlarmsInUse(d) : a.data = data => a.serial # FreshSerial(d, data)
<1> DEFINE n == Len(xevents)
           inFlight == {xevents[i].alarm.serial : i \in 1 .. n}
<1>1. n \in Nat /\ DOMAIN xevents = 1 .. n /\ n < MaxQueue + 2
    BY BoundAssumption
<1>2. IsFiniteSet(inFlight) /\ Cardinality(inFlight) <= n
  <2>1. IsFiniteSet(1 .. n) /\ Cardinality(1 .. n) = n
    <3>1. 1 \in Int /\ n \in Int /\ n - 1 + 1 = n /\ (1 > n => n = 0)
        BY <1>1
    <3> HIDE DEF n
    <3>2. QED
        BY <3>1, FS_Interval
  <2> DEFINE f == [i \in 1 .. n |-> xevents[i].alarm.serial]
  <2>2. f \in Surjection(1 .. n, inFlight)
      BY DEF Surjection
  <2>3. QED
      BY <2>1, <2>2, FS_Surjection DEF ExistsSurjection
<1>3. IsFiniteSet(Serials) /\ Cardinality(Serials) = MaxQueue + 2
    BY FS_Interval, BoundAssumption DEF Serials
<1>4. ~ (Serials \subseteq inFlight)
  <2>1. SUFFICES ASSUME Serials \subseteq inFlight PROVE FALSE
      OBVIOUS
  <2>2. Cardinality(Serials) <= Cardinality(inFlight)
      BY <1>2, <2>1, FS_Subset
  <2>3. Cardinality(inFlight) \in Nat
      BY <1>2, FS_CardinalityType
  <2>4. QED
      BY <1>1, <1>2, <1>3, <2>2, <2>3, BoundAssumption
<1>5. \E m \in Serials : \A a \in AlarmsInUse(d) : a.data = data => a.serial # m
    BY <1>1, <1>4 DEF AlarmsInUse
<1>6. QED
    BY <1>5 DEF FreshSerial

\* The value of an idle alarm made by add_idle_timeout, and that it is new.
IsNewAlarm(a, d) == /\ a \in IdleAlarms
                    /\ a \notin AlarmsInUse(d)

LEMMA IdleAlarmIsNew ==
    ASSUME NEW d, GoodDetector(d), NEW data \in Data, NEW timeout_ms \in Timeouts,
           xevents \in Seq(Events), Len(xevents) <= MaxQueue,
           \A a \in d.pos_trans_alarms : a.data # data
    PROVE  IsNewAlarm(IdleAlarm(d, timeout_ms, data), d)
<1>1. \A a \in d.server : a.data # data
    BY DataAssumption
       DEF GoodDetector, Detectors, MinimumTracked, ResumeAlarm, Alarm, NULL
<1>2. d \in Detectors
    BY DEF GoodDetector
<1>3. /\ FreshSerial(d, data) \in Serials
      /\ \A a \in AlarmsInUse(d) : a.data = data => a.serial # FreshSerial(d, data)
    BY <1>1, <1>2, FreshSerialExists
<1>4. QED
    BY <1>3 DEF IsNewAlarm, IdleAlarm, Alarm, IdleAlarms

LEMMA NewIsGood == GoodDetector(NewDetector)
BY FS_EmptySet
   DEF GoodDetector, NewDetector, Detectors, MinimumTracked, None, NULL

LEMMA AddIsGood ==
    ASSUME NEW d, GoodDetector(d), NEW data \in Data, NEW timeout_ms \in Timeouts,
           IsNewAlarm(IdleAlarm(d, timeout_ms, data), d),
           \A a \in d.pos_trans_alarms : a.data # data
    PROVE  /\ GoodDetector(AddIdleTimeout(d, timeout_ms, data))
           /\ AddIdleTimeout(d, timeout_ms, data).pos_trans_alarms
                = d.pos_trans_alarms \cup {IdleAlarm(d, timeout_ms, data)}
<1> DEFINE new == IdleAlarm(d, timeout_ms, data)
           e   == AddIdleTimeout(d, timeout_ms, data)
<1>1. /\ new \in IdleAlarms /\ new.data = data /\ new.wait = timeout_ms
    BY DEF IsNewAlarm, IdleAlarm, Alarm
<1>2. timeout_ms \in Nat /\ timeout_ms > 1 /\ timeout_ms < NoTimeout
    BY TimeoutRange
<1>3. ResumeAlarm(timeout_ms - 1) \in ResumeAlarms /\ ResumeAlarm(timeout_ms - 1) # None
    BY <1>2 DEF ResumeAlarm, Alarm, ResumeAlarms, None
<1>4. d.min_timeout \in Nat
    BY TimeoutRange DEF GoodDetector, Detectors
<1> HIDE DEF new
<1>5. CASE timeout_ms < d.min_timeout
  <2>1. e = [pos_trans_alarms |-> d.pos_trans_alarms \cup {new},
             neg_trans_alarm  |-> ResumeAlarm(timeout_ms - 1),
             min_timeout      |-> timeout_ms,
             server |-> (d.server \ {d.neg_trans_alarm})
                        \cup {new, ResumeAlarm(timeout_ms - 1)}]
      BY <1>5 DEF AddIdleTimeout, new
  <2>2. e \in Detectors
      BY <1>1, <1>3, <2>1 DEF GoodDetector, Detectors
  <2>3. IsFiniteSet(e.server)
    <3>1. IsFiniteSet(d.server \ {d.neg_trans_alarm})
        BY FS_RemoveElement DEF GoodDetector
    <3>2. IsFiniteSet((d.server \ {d.neg_trans_alarm}) \cup {new})
        BY <3>1, FS_AddElement
    <3>3. IsFiniteSet(((d.server \ {d.neg_trans_alarm}) \cup {new})
                      \cup {ResumeAlarm(timeout_ms - 1)})
        BY <3>2, FS_AddElement
    <3>4. e.server = ((d.server \ {d.neg_trans_alarm}) \cup {new})
                      \cup {ResumeAlarm(timeout_ms - 1)}
        BY <2>1
    <3>5. QED
        BY <3>3, <3>4
  <2>4. e.server = e.pos_trans_alarms \cup ({e.neg_trans_alarm} \ {None})
    <3>1. d.neg_trans_alarm \notin d.pos_trans_alarms
        BY DataAssumption DEF GoodDetector, Detectors, IdleAlarms, ResumeAlarms, None, NULL
    <3>2. QED
        BY <1>3, <2>1, <3>1 DEF GoodDetector
  <2>5. \A a, b \in e.pos_trans_alarms : a.data = b.data => a = b
      BY <1>1, <2>1 DEF GoodDetector
  <2>6. MinimumTracked(e)
    <3>1. \A a \in d.pos_trans_alarms : timeout_ms <= a.wait
      <4>1. SUFFICES ASSUME NEW a \in d.pos_trans_alarms PROVE timeout_ms <= a.wait
          OBVIOUS
      <4>2. a.wait \in Nat
          BY TimeoutRange DEF GoodDetector, Detectors, IdleAlarms
      <4>3. d.min_timeout <= a.wait
          BY DEF GoodDetector, MinimumTracked
      <4>4. QED
          BY <1>2, <1>4, <1>5, <4>2, <4>3
    <3>2. QED
        BY <1>1, <1>2, <1>3, <2>1, <3>1 DEF MinimumTracked
  <2>7. QED
      BY <2>1, <2>2, <2>3, <2>4, <2>5, <2>6 DEF GoodDetector, new
<1>6. CASE ~ (timeout_ms < d.min_timeout)
  <2>1. e = [d EXCEPT !.pos_trans_alarms = @ \cup {new}, !.server = @ \cup {new}]
      BY <1>6 DEF AddIdleTimeout, new
  <2>2. d \in Detectors /\ d.neg_trans_alarm # None
    <3>1. d.min_timeout # NoTimeout
        BY <1>2, <1>6
    <3>2. QED
        BY <3>1 DEF GoodDetector, MinimumTracked
  <2>3. e = [pos_trans_alarms |-> d.pos_trans_alarms \cup {new},
             neg_trans_alarm  |-> d.neg_trans_alarm,
             min_timeout      |-> d.min_timeout,
             server           |-> d.server \cup {new}]
      BY <2>1, <2>2 DEF Detectors
  <2>4. e \in Detectors
      BY <1>1, <2>2, <2>3 DEF Detectors
  <2>5. IsFiniteSet(e.server)
      BY <2>3, FS_AddElement DEF GoodDetector
  <2>6. e.server = e.pos_trans_alarms \cup ({e.neg_trans_alarm} \ {None})
      BY <2>3 DEF GoodDetector
  <2>7. \A a, b \in e.pos_trans_alarms : a.data = b.data => a = b
      BY <1>1, <2>3 DEF GoodDetector
  <2>8. MinimumTracked(e)
      BY <1>1, <1>2, <1>4, <1>6, <2>2, <2>3 DEF GoodDetector, MinimumTracked
  <2>9. QED
      BY <2>3, <2>4, <2>5, <2>6, <2>7, <2>8 DEF GoodDetector, new
<1>7. QED
    BY <1>5, <1>6

LEMMA AddAllIsGood ==
    ASSUME NEW d, GoodDetector(d), d.pos_trans_alarms = {},
           NEW tm, DOMAIN tm \subseteq Data, tm \in [DOMAIN tm -> Timeouts],
           \A data \in DOMAIN tm : IsNewAlarm(IdleAlarm(d, tm[data], data), d)
    PROVE  /\ GoodDetector(AddIdleTimeouts(d, tm))
           /\ AddIdleTimeouts(d, tm).pos_trans_alarms
                = {IdleAlarm(d, tm[data], data) : data \in DOMAIN tm}
<1> DEFINE new   == {IdleAlarm(d, tm[data], data) : data \in DOMAIN tm}
           bound == {tm[data] : data \in DOMAIN tm} \cup {d.min_timeout}
           least == Min(bound)
           neg   == IF least < d.min_timeout
                    THEN ResumeAlarm(least - 1) ELSE d.neg_trans_alarm
           e     == AddIdleTimeouts(d, tm)
<1>1. /\ new \subseteq IdleAlarms
      /\ \A a \in new : a.data \in DOMAIN tm /\ a.wait = tm[a.data]
                        /\ a = IdleAlarm(d, tm[a.data], a.data)
    BY DEF IsNewAlarm, IdleAlarm, Alarm
<1>2. IsFiniteSet(new)
  <2> DEFINE f == [data \in DOMAIN tm |-> IdleAlarm(d, tm[data], data)]
  <2>1. IsFiniteSet(DOMAIN tm)
      BY DataAssumption, FS_Subset
  <2>2. f \in Surjection(DOMAIN tm, new)
      BY DEF Surjection
  <2> HIDE DEF f, new
  <2>3. QED
      BY <2>1, <2>2, FS_Surjection
<1>3. /\ d.min_timeout \in Nat /\ d.min_timeout \in Timeouts \cup {NoTimeout}
      /\ bound \subseteq Nat /\ bound # {}
    BY TimeoutRange DEF GoodDetector, Detectors
<1>4. least \in bound /\ \A y \in bound : least <= y
    BY <1>3, MinIsLeast
<1>5. least \in Nat /\ least <= d.min_timeout /\ \A a \in new : least <= a.wait
    BY <1>1, <1>3, <1>4
<1>6. e = [pos_trans_alarms |-> new, neg_trans_alarm |-> neg, min_timeout |-> least,
           server |-> (d.server \ {d.neg_trans_alarm}) \cup new \cup ({neg} \ {None})]
    BY DEF AddIdleTimeouts
<1> HIDE DEF e, least, new
<1>7. CASE least < d.min_timeout
  <2>1. least \in Timeouts /\ 1 < least /\ neg = ResumeAlarm(least - 1)
      BY <1>4, <1>5, <1>7, TimeoutRange
  <2>2. neg \in ResumeAlarms /\ neg # None
      BY <1>5, <2>1 DEF ResumeAlarm, Alarm, ResumeAlarms, None
  <2>3. d.server \ {d.neg_trans_alarm} = {}
      BY DEF GoodDetector
  <2>4. e.server = new \cup {neg}
      BY <1>6, <2>2, <2>3
  <2>5. IsFiniteSet(e.server)
      BY <1>2, <2>4, FS_AddElement
  <2>6. e \in Detectors
      BY <1>1, <1>6, <2>1, <2>2, <2>4 DEF Detectors
  <2>7. \A a, b \in e.pos_trans_alarms : a.data = b.data => a = b
      BY <1>1, <1>6
  <2>8. MinimumTracked(e)
      BY <1>5, <1>6, <2>1, <2>2 DEF MinimumTracked
  <2>9. QED
      BY <1>6, <2>2, <2>4, <2>5, <2>6, <2>7, <2>8 DEF GoodDetector, e, new
<1>8. CASE ~ (least < d.min_timeout)
  <2>1. least = d.min_timeout /\ neg = d.neg_trans_alarm
      BY <1>3, <1>5, <1>8
  <2>2. neg \in ResumeAlarms \cup {None} /\ d.server = {neg} \ {None}
      BY <2>1 DEF GoodDetector, Detectors
  <2>3. e.server = new \cup ({neg} \ {None})
      BY <1>6, <2>1, <2>2
  <2>4. IsFiniteSet(e.server)
      BY <1>2, <2>2, <2>3, FS_Union DEF GoodDetector
  <2>5. e \in Detectors
      BY <1>1, <1>3, <1>6, <2>1, <2>2, <2>3 DEF Detectors
  <2>6. \A a, b \in e.pos_trans_alarms : a.data = b.data => a = b
      BY <1>1, <1>6
  <2>7. MinimumTracked(e)
    <3>1. CASE neg = None
      <4>1. d.min_timeout = NoTimeout
          BY <2>1, <3>1 DEF GoodDetector, MinimumTracked
      <4>2. \A a \in new : FALSE
          BY <1>1, <1>5, <2>1, <4>1, TimeoutRange
      <4>3. QED
          BY <1>6, <2>1, <3>1, <4>1, <4>2 DEF MinimumTracked
    <3>2. CASE neg # None
        BY <1>5, <1>6, <2>1, <3>2 DEF GoodDetector, MinimumTracked
    <3>3. QED
        BY <3>1, <3>2
  <2>8. QED
      BY <1>6, <2>3, <2>4, <2>5, <2>6, <2>7 DEF GoodDetector, e, new
<1>9. QED
    BY <1>7, <1>8

LEMMA RemoveIsGood ==
    ASSUME NEW d, GoodDetector(d), NEW data \in Data
    PROVE  /\ GoodDetector(RemoveIdleTimeout(d, data))
           /\ RemoveIdleTimeout(d, data).pos_trans_alarms
                = {a \in d.pos_trans_alarms : a.data # data}
           /\ RemoveIdleTimeout(d, data).neg_trans_alarm = d.neg_trans_alarm
<1> DEFINE removed == {a \in d.pos_trans_alarms : a.data = data}
           e       == RemoveIdleTimeout(d, data)
<1>1. e = [pos_trans_alarms |-> d.pos_trans_alarms \ removed,
           neg_trans_alarm  |-> d.neg_trans_alarm,
           min_timeout      |-> d.min_timeout,
           server           |-> d.server \ removed]
  <2>1. e = [d EXCEPT !.pos_trans_alarms = @ \ removed, !.server = @ \ removed]
      BY DEF RemoveIdleTimeout
  <2>2. d \in Detectors
      BY DEF GoodDetector
  <2> HIDE DEF e, removed
  <2>3. QED
      BY <2>1, <2>2 DEF Detectors
<1>2. d.neg_trans_alarm \notin removed
    BY DataAssumption DEF GoodDetector, Detectors, ResumeAlarms, None, NULL
<1>3. IsFiniteSet(e.server)
    BY <1>1, FS_Subset DEF GoodDetector
<1>4. e \in Detectors
    BY <1>1 DEF GoodDetector, Detectors
<1>5. e.server = e.pos_trans_alarms \cup ({e.neg_trans_alarm} \ {None})
    BY <1>1, <1>2 DEF GoodDetector
<1>6. MinimumTracked(e)
    BY <1>1 DEF GoodDetector, MinimumTracked
<1>7. QED
    BY <1>1, <1>3, <1>4, <1>5, <1>6 DEF GoodDetector

\* No path leaves an alarm behind that the next regime of alarms could meet.
LEMMA ClearIsNew ==
    ASSUME NEW d, GoodDetector(d)
    PROVE  ClearTimeouts(d) = NewDetector
<1>1. d.server \ (d.pos_trans_alarms \cup {d.neg_trans_alarm}) = {}
    BY DEF GoodDetector
<1>2. NewDetector.server = {}
    BY DEF NewDetector
<1>3. QED
    BY <1>1, <1>2 DEF ClearTimeouts, NewDetector

-----------------------------------------------------------------------------
(* Lemmas about the queue of alarm events.                                 *)

\* What sending the events of the alarms due appends: one event for each.
LEMMA SendQueue ==
    ASSUME DetectorTypeOK, NEW due \in SUBSET det.server, NEW value \in Nat,
           Send(due, value)
    PROVE  /\ Len(xevents) \in Nat /\ DOMAIN xevents = 1 .. Len(xevents)
           /\ xevents' \in Seq(Events) /\ DOMAIN xevents' = 1 .. Len(xevents')
           /\ Len(xevents') \in Nat
           /\ Len(xevents') <= MaxQueue /\ Len(xevents) <= Len(xevents')
           /\ \A i \in 1 .. Len(xevents) : xevents'[i] = xevents[i]
           /\ \A i \in Len(xevents) + 1 .. Len(xevents') :
                 xevents'[i].alarm \in due /\ xevents'[i].counter_value = value
           /\ \A i, k \in Len(xevents) + 1 .. Len(xevents') :
                 i # k => xevents'[i].alarm # xevents'[k].alarm
           /\ \A a \in due :
                 \E i \in Len(xevents) + 1 .. Len(xevents') : xevents'[i].alarm = a
<1> DEFINE q  == xevents
           q2 == xevents'
<1>q. /\ q \in Seq(Events) /\ IsFiniteSet(due)
      /\ due \subseteq IdleAlarms \cup ResumeAlarms
    BY FS_Subset DEF DetectorTypeOK, Detectors
<1>s. PICK order \in SetToSeqs(due) :
          q2 = q \o [i \in DOMAIN order |-> Event(order[i], value)]
    BY DEF Send
<1> DEFINE n == Cardinality(due)
           sent == [i \in DOMAIN order |-> Event(order[i], value)]
<1>c. Len(q) + n <= MaxQueue
    BY DEF Send
<1> HIDE DEF q, q2
<1>1. n \in Nat
    BY <1>q, FS_CardinalityType
<1>2. order \in [1 .. n -> due] /\ \A i, j \in 1 .. n : i # j => order[i] # order[j]
    BY <1>s DEF SetToSeqs
<1>3. \A a \in due : \E i \in 1 .. n : order[i] = a
  <2>1. order \in Injection(1 .. n, due)
      BY <1>2 DEF Injection, IsInjective
  <2>2. Cardinality(1 .. n) = n
    <3>1. 1 \in Int /\ n \in Int /\ n - 1 + 1 = n /\ (1 > n => n = 0)
        BY <1>1
    <3> HIDE DEF n
    <3>2. QED
        BY <3>1, FS_Interval
  <2>3. order \in Surjection(1 .. n, due)
      BY <1>q, <2>1, <2>2, FS_Injection
  <2>4. QED
      BY <2>3 DEF Surjection
<1>4. sent \in Seq(Events) /\ Len(sent) = n
      /\ \A i \in 1 .. n : sent[i].alarm = order[i] /\ sent[i].counter_value = value
  <2>1. \A i \in 1 .. n : Event(order[i], value) \in Events
      BY <1>q, <1>2 DEF Event, Events
  <2>2. DOMAIN order = 1 .. n
      BY <1>2
  <2>3. sent \in [1 .. n -> Events]
      BY <2>1, <2>2
  <2>4. sent \in Seq(Events) /\ Len(sent) = n
      BY <1>1, <2>3
  <2>5. QED
      BY <2>2, <2>4 DEF Event
<1> HIDE DEF sent, n
<1>5. q2 = q \o sent
    BY <1>s DEF sent
<1>6. /\ q2 \in Seq(Events) /\ Len(q2) = Len(q) + n /\ Len(q) \in Nat
      /\ \A i \in 1 .. Len(q) : q2[i] = q[i]
      /\ \A i \in Len(q) + 1 .. Len(q2) : q2[i] = sent[i - Len(q)] /\ i - Len(q) \in 1 .. n
  <2>1. Len(q) \in Nat /\ DOMAIN q = 1 .. Len(q)
      BY <1>q, LenProperties
  <2>2. /\ q2 \in Seq(Events)
        /\ Len(q2) = Len(q) + n
        /\ \A i \in 1 .. Len(q) + n :
              q2[i] = IF i <= Len(q) THEN q[i] ELSE sent[i - Len(q)]
    <3>1. sent \in Seq(Events) /\ Len(sent) = n
        BY <1>4
    <3>2. /\ q \o sent \in Seq(Events)
          /\ Len(q \o sent) = Len(q) + Len(sent)
          /\ \A i \in 1 .. Len(q) + Len(sent) : (q \o sent)[i] =
                IF i <= Len(q) THEN q[i] ELSE sent[i - Len(q)]
        BY <1>q, <3>1, ConcatProperties
    <3>3. QED
        BY <1>5, <3>1, <3>2
  <2>3. ASSUME NEW i \in 1 .. Len(q) PROVE q2[i] = q[i]
      BY <1>1, <2>1, <2>2
  <2>4. ASSUME NEW i \in Len(q) + 1 .. Len(q2)
        PROVE  q2[i] = sent[i - Len(q)] /\ i - Len(q) \in 1 .. n
      BY <1>1, <2>1, <2>2
  <2>5. QED
      BY <2>1, <2>2, <2>3, <2>4
<1>7. \A i \in Len(q) + 1 .. Len(q2) : q2[i].alarm = order[i - Len(q)]
                                        /\ q2[i].counter_value = value
    BY <1>4, <1>6
<1>8. ASSUME NEW i \in 1 .. n
      PROVE  Len(q) + i \in Len(q) + 1 .. Len(q2) /\ q2[Len(q) + i].alarm = order[i]
  <2>1. /\ Len(q) + i \in Len(q) + 1 .. Len(q2)
        /\ (Len(q) + i) - Len(q) = i
      BY <1>1, <1>6
  <2>2. QED
      BY <1>7, <2>1
<1>9. ASSUME NEW i \in Len(q) + 1 .. Len(q2), NEW k \in Len(q) + 1 .. Len(q2), i # k
      PROVE  q2[i].alarm # q2[k].alarm
  <2>1. i - Len(q) \in 1 .. n /\ k - Len(q) \in 1 .. n /\ i - Len(q) # k - Len(q)
      BY <1>6, <1>9
  <2>2. QED
      BY <1>2, <1>7, <2>1
<1>10. \A i \in Len(q) + 1 .. Len(q2) : q2[i].alarm \in due
    BY <1>2, <1>6, <1>7
<1>11. \A a \in due : \E i \in Len(q) + 1 .. Len(q2) : q2[i].alarm = a
    BY <1>3, <1>8
<1>12. /\ DOMAIN q = 1 .. Len(q) /\ DOMAIN q2 = 1 .. Len(q2) /\ Len(q2) \in Nat
       /\ Len(q2) <= MaxQueue /\ Len(q) <= Len(q2)
    BY <1>q, <1>c, <1>1, <1>6 DEF n
<1>13. QED
    BY <1>1, <1>6, <1>7, <1>9, <1>10, <1>11, <1>12 DEF q, q2

\* Dispatching the head moves every other event one place forward.
LEMMA TailEvents ==
    ASSUME NEW q \in Seq(Events), q # <<>>
    PROVE  /\ Head(q) = q[1]
           /\ Tail(q) \in Seq(Events)
           /\ Len(Tail(q)) = Len(q) - 1
           /\ Len(q) \in Nat \ {0}
           /\ \A i \in 1 .. Len(q) - 1 : Tail(q)[i] = q[i + 1]
OBVIOUS

-----------------------------------------------------------------------------
(* The invariant, handler by handler.  ClientStep is what every handler    *)
(* that does not dispatch an alarm event does to the alarms: it revives no *)
(* alarm with events in flight and keeps those of the commands owed.       *)

ClientStep ==
    /\ xevents' = xevents /\ idle' = idle
    /\ \A i \in DOMAIN xevents :
          xevents[i].alarm \in det'.pos_trans_alarms
              => xevents[i].alarm \in det.pos_trans_alarms
    /\ owed' \subseteq owed
    /\ \A a \in det.pos_trans_alarms : a.data \in owed' => a \in det'.pos_trans_alarms

\* What set_trigger_from_str accepts.
LEMMA ParsedTriggerType ==
    ASSUME NEW old, NEW p \in ParsedTriggers(old)
    PROVE  /\ p[1] \in Triggers
           /\ p[2] \in Timeouts \cup {old}
           /\ p[1] = "TIMEOUT" => p[2] \in Timeouts
<1>1. CASE p \in {<<"TIMEOUT", t>> : t \in Timeouts}
    BY <1>1 DEF Triggers
<1>2. CASE p \in {<<trigger, old>> : trigger \in OtherTriggers}
  <2>1. PICK trigger \in OtherTriggers : p = <<trigger, old>>
      BY <1>2
  <2>2. trigger # "TIMEOUT"
      BY TriggerAssumption
  <2>3. QED
      BY <2>1, <2>2 DEF Triggers
<1>3. QED
    BY <1>1, <1>2 DEF ParsedTriggers

LEMMA NewCommandType ==
    ASSUME NEW cmd \in NewCommands
    PROVE  /\ cmd \in Commands
           /\ cmd.trigger = "TIMEOUT" => cmd.timeout_ms \in Timeouts
<1>1. PICK p \in ParsedTriggers(0) :
          cmd = [trigger |-> p[1], timeout_ms |-> p[2], activated |-> FALSE]
    BY DEF NewCommands
<1>2. QED
    BY <1>1, ParsedTriggerType DEF Commands

LEMMA InitInv == ASSUME Init PROVE Inv
<1>1. PICK n \in 0 .. Cardinality(Data) :
          /\ 1 .. n \subseteq Data
          /\ commands \in [1 .. n -> NewCommands]
          /\ command_id_counter = n
    BY DEF Init
<1>2. n \in Nat /\ DOMAIN commands = 1 .. n
    BY <1>1, FS_CardinalityType, DataAssumption
<1>3. \A cmd \in NewCommands : /\ cmd \in Commands
                               /\ cmd.trigger = "TIMEOUT" => cmd.timeout_ms \in Timeouts
    BY NewCommandType
<1>4. /\ commands \in [DOMAIN commands -> Commands]
      /\ \A id \in TimeoutIds(commands) : commands[id].timeout_ms \in Timeouts
    BY <1>1, <1>2, <1>3 DEF TimeoutIds
<1> DEFINE tm == TimeoutValues(commands)
<1>5. /\ DOMAIN tm = TimeoutIds(commands) /\ DOMAIN tm \subseteq Data
      /\ tm \in [DOMAIN tm -> Timeouts]
      /\ \A id \in DOMAIN tm : tm[id] = commands[id].timeout_ms
    BY <1>1, <1>2, <1>4 DEF TimeoutValues, TimeoutIds
<1> HIDE DEF tm
<1>6. xevents = <<>> /\ xevents \in Seq(Events) /\ Len(xevents) = 0
    BY DEF Init
<1>7. ASSUME NEW data \in DOMAIN tm
      PROVE  IsNewAlarm(IdleAlarm(NewDetector, tm[data], data), NewDetector)
  <2>1. /\ data \in Data /\ tm[data] \in Timeouts
        /\ \A a \in NewDetector.pos_trans_alarms : a.data # data
      BY <1>5 DEF NewDetector
  <2>2. Len(xevents) <= MaxQueue
      BY <1>6, BoundAssumption
  <2>3. QED
      BY <1>6, <2>1, <2>2, NewIsGood, IdleAlarmIsNew
<1>8. /\ GoodDetector(det)
      /\ det.pos_trans_alarms = {IdleAlarm(NewDetector, tm[data], data) : data \in DOMAIN tm}
  <2>1. NewDetector.pos_trans_alarms = {}
      BY DEF NewDetector
  <2>2. det = AddIdleTimeouts(NewDetector, tm)
      BY DEF Init, tm
  <2>3. QED
      BY <1>5, <1>7, <2>1, <2>2, NewIsGood, AddAllIsGood
<1>9. AlarmsMatchCommands
  <2>1. timeouts_are_enabled = TRUE
      BY DEF Init
  <2>2. \A data \in DOMAIN tm : /\ IdleAlarm(NewDetector, tm[data], data).data = data
                                 /\ IdleAlarm(NewDetector, tm[data], data).wait = tm[data]
      BY DEF IdleAlarm, Alarm
  <2>3. QED
      BY <1>5, <1>8, <2>1, <2>2 DEF AlarmsMatchCommands
<1>10. TypeOK
  <2>1. idle \in Nat
      BY BoundAssumption DEF Init
  <2>2. DetectorTypeOK
      BY <1>6, <1>8, <2>1, BoundAssumption DEF DetectorTypeOK, GoodDetector
  <2>3. owed = {} /\ ignore_audio \in BOOLEAN /\ audio_playing = FALSE /\ paused = FALSE
        /\ timeouts_are_enabled = TRUE
      BY DEF Init
  <2>4. DOMAIN commands \subseteq Data /\ command_id_counter \in Nat
        /\ \A id \in DOMAIN commands : id <= command_id_counter
      BY <1>1, <1>2
  <2>5. QED
      BY <1>4, <2>2, <2>3, <2>4 DEF TypeOK
<1>11. EnabledIffAllowed
    BY DEF Init, EnabledIffAllowed, timeouts_should_be_disabled
<1>12. QED
    BY <1>8, <1>9, <1>10, <1>11 DEF Inv

\* While timeouts are disabled there is no alarm, so enabling them adds new ones.
LEMMA EnableAllInv ==
    ASSUME Inv, enable_all_timeouts,
           UNCHANGED <<idle, xevents, commands, command_id_counter>>,
           ignore_audio' \in BOOLEAN, audio_playing' \in BOOLEAN, paused' \in BOOLEAN,
           timeouts_are_enabled => ~ timeouts_should_be_disabled'
    PROVE  Inv' /\ ClientStep
<1> USE DEF Inv
<1>1. CASE timeouts_are_enabled \/ timeouts_should_be_disabled'
  <2>1. UNCHANGED <<det, timeouts_are_enabled, owed>>
      BY <1>1 DEF enable_all_timeouts
  <2>2. TypeOK' /\ GoodDetector(det') /\ AlarmsMatchCommands'
      BY <2>1 DEF TypeOK, DetectorTypeOK, AlarmsMatchCommands
  <2>3. EnabledIffAllowed'
    <3>1. timeouts_are_enabled <=> ~ timeouts_should_be_disabled'
        BY <1>1
    <3>2. QED
        BY <2>1, <3>1 DEF EnabledIffAllowed
  <2>4. ClientStep
      BY <2>1 DEF ClientStep
  <2>5. QED
      BY <2>2, <2>3, <2>4
<1>2. CASE ~ (timeouts_are_enabled \/ timeouts_should_be_disabled')
  <2> DEFINE tm == TimeoutValues(commands)
  <2>1. /\ det' = AddIdleTimeouts(det, tm)
        /\ timeouts_are_enabled' = TRUE
        /\ owed' = owed
      BY <1>2 DEF enable_all_timeouts
  <2>2. /\ DOMAIN tm = TimeoutIds(commands) /\ DOMAIN tm \subseteq Data
        /\ tm \in [DOMAIN tm -> Timeouts]
        /\ \A id \in DOMAIN tm : tm[id] = commands[id].timeout_ms
      BY DEF TimeoutValues, TimeoutIds, TypeOK
  <2> HIDE DEF tm
  <2>3. det.pos_trans_alarms = {}
      BY <1>2 DEF AlarmsMatchCommands
  <2>4. ASSUME NEW data \in DOMAIN tm
        PROVE  IsNewAlarm(IdleAlarm(det, tm[data], data), det)
    <3>1. data \in Data /\ tm[data] \in Timeouts
        BY <2>2
    <3>2. QED
        BY <2>3, <3>1, IdleAlarmIsNew DEF TypeOK, DetectorTypeOK
  <2>5. /\ GoodDetector(det')
        /\ det'.pos_trans_alarms = {IdleAlarm(det, tm[data], data) : data \in DOMAIN tm}
      BY <2>1, <2>2, <2>3, <2>4, AddAllIsGood
  <2>6. \A data \in DOMAIN tm : /\ IdleAlarm(det, tm[data], data).data = data
                                 /\ IdleAlarm(det, tm[data], data).wait = tm[data]
      BY DEF IdleAlarm, Alarm
  <2>7. AlarmsMatchCommands'
      BY <2>1, <2>2, <2>5, <2>6 DEF AlarmsMatchCommands, TimeoutIds
  <2>8. TypeOK'
      BY <2>1, <2>5 DEF TypeOK, DetectorTypeOK, GoodDetector, TimeoutIds
  <2>9. EnabledIffAllowed'
      BY <1>2, <2>1 DEF EnabledIffAllowed
  <2>10. ClientStep
    <3>1. \A i \in DOMAIN xevents : xevents[i].alarm \notin det'.pos_trans_alarms
        BY <2>4, <2>5 DEF IsNewAlarm, AlarmsInUse
    <3>2. QED
        BY <2>1, <2>3, <3>1 DEF ClientStep
  <2>11. QED
      BY <2>5, <2>7, <2>8, <2>9, <2>10
<1>3. QED
    BY <1>1, <1>2

LEMMA DisableAllInv ==
    ASSUME Inv, disable_all_timeouts,
           UNCHANGED <<idle, xevents, commands, command_id_counter>>,
           ignore_audio' \in BOOLEAN, audio_playing' \in BOOLEAN, paused' \in BOOLEAN,
           timeouts_should_be_disabled'
    PROVE  Inv' /\ ClientStep
<1> USE DEF Inv
<1>1. CASE timeouts_are_enabled
  <2>1. det' = NewDetector /\ timeouts_are_enabled' = FALSE /\ owed' = {}
      BY <1>1, ClearIsNew DEF disable_all_timeouts
  <2>2. GoodDetector(det') /\ det'.pos_trans_alarms = {}
      BY <2>1, NewIsGood DEF NewDetector
  <2>3. AlarmsMatchCommands'
      BY <2>1, <2>2 DEF AlarmsMatchCommands
  <2>4. TypeOK'
      BY <2>1, <2>2 DEF TypeOK, DetectorTypeOK, GoodDetector, TimeoutIds
  <2>5. EnabledIffAllowed'
      BY <2>1 DEF EnabledIffAllowed
  <2>6. ClientStep
      BY <2>1, <2>2 DEF ClientStep
  <2>7. QED
      BY <2>2, <2>3, <2>4, <2>5, <2>6
<1>2. CASE ~ timeouts_are_enabled
  <2>1. UNCHANGED <<det, timeouts_are_enabled, owed>>
      BY <1>2 DEF disable_all_timeouts
  <2>2. TypeOK' /\ GoodDetector(det') /\ AlarmsMatchCommands'
      BY <2>1 DEF TypeOK, DetectorTypeOK, AlarmsMatchCommands
  <2>3. EnabledIffAllowed'
      BY <1>2, <2>1 DEF EnabledIffAllowed
  <2>4. ClientStep
      BY <2>1 DEF ClientStep
  <2>5. QED
      BY <2>2, <2>3, <2>4
<1>3. QED
    BY <1>1, <1>2

LEMMA FlagHandlersInv ==
    ASSUME Inv, AudioRunning \/ AudioStopped \/ SetIgnoreAudio \/ Pause \/ Unpause
    PROVE  Inv' /\ ClientStep
<1> DEFINE Same == UNCHANGED <<idle, xevents, commands, command_id_counter>>
           Flags == ignore_audio' \in BOOLEAN /\ audio_playing' \in BOOLEAN /\ paused' \in BOOLEAN
<1>1. ignore_audio \in BOOLEAN /\ audio_playing \in BOOLEAN /\ paused \in BOOLEAN
      /\ timeouts_are_enabled \in BOOLEAN
    BY DEF Inv, TypeOK
<1>2. timeouts_are_enabled <=> ~ ((audio_playing /\ ~ ignore_audio) \/ paused)
    BY DEF Inv, EnabledIffAllowed, timeouts_should_be_disabled
\* A handler that leaves timeouts alone because nothing they depend on changed.
<1>3. ASSUME Same, Flags, UNCHANGED <<det, timeouts_are_enabled, owed>>,
             timeouts_should_be_disabled' <=> timeouts_should_be_disabled
      PROVE  Inv' /\ ClientStep
    BY <1>3 DEF Inv, TypeOK, DetectorTypeOK, AlarmsMatchCommands, EnabledIffAllowed,
                ClientStep, TimeoutIds
<1>4. CASE AudioRunning
  <2>1. Same /\ Flags /\ ~ audio_playing /\ audio_playing' = TRUE
        /\ ignore_audio' = ignore_audio /\ paused' = paused
      BY <1>1, <1>4 DEF AudioRunning
  <2>2. CASE ignore_audio
    <3>1. timeouts_should_be_disabled' <=> timeouts_should_be_disabled
        BY <2>1, <2>2 DEF timeouts_should_be_disabled
    <3>2. QED
        BY <1>3, <1>4, <2>1, <2>2, <3>1 DEF AudioRunning
  <2>3. CASE ~ ignore_audio
    <3>1. timeouts_should_be_disabled'
        BY <2>1, <2>3 DEF timeouts_should_be_disabled
    <3>2. disable_all_timeouts
        BY <1>4, <2>3 DEF AudioRunning
    <3>3. QED
        BY <2>1, <3>1, <3>2, DisableAllInv
  <2>4. QED
      BY <2>2, <2>3
<1>5. CASE AudioStopped
  <2>1. Same /\ Flags /\ audio_playing' = FALSE
        /\ ignore_audio' = ignore_audio /\ paused' = paused
      BY <1>1, <1>5 DEF AudioStopped
  <2>2. CASE ignore_audio
    <3>1. timeouts_should_be_disabled' <=> timeouts_should_be_disabled
        BY <2>1, <2>2 DEF timeouts_should_be_disabled
    <3>2. QED
        BY <1>3, <1>5, <2>1, <2>2, <3>1 DEF AudioStopped
  <2>3. CASE ~ ignore_audio
    <3>1. timeouts_are_enabled => ~ timeouts_should_be_disabled'
        BY <1>2, <2>1 DEF timeouts_should_be_disabled
    <3>2. enable_all_timeouts
        BY <1>5, <2>3 DEF AudioStopped
    <3>3. QED
        BY <2>1, <3>1, <3>2, EnableAllInv
  <2>4. QED
      BY <2>2, <2>3
<1>6. CASE SetIgnoreAudio
  <2>1. Same /\ Flags /\ ignore_audio' = ~ ignore_audio
        /\ audio_playing' = audio_playing /\ paused' = paused
      BY <1>1, <1>6 DEF SetIgnoreAudio
  <2>2. CASE ~ audio_playing /\ UNCHANGED <<det, timeouts_are_enabled, owed>>
    <3>1. timeouts_should_be_disabled' <=> timeouts_should_be_disabled
        BY <2>1, <2>2 DEF timeouts_should_be_disabled
    <3>2. QED
        BY <1>3, <2>1, <2>2, <3>1
  <2>3. CASE audio_playing /\ ignore_audio' /\ enable_all_timeouts
    <3>1. timeouts_are_enabled => ~ timeouts_should_be_disabled'
        BY <1>2, <2>1, <2>3 DEF timeouts_should_be_disabled
    <3>2. QED
        BY <2>1, <2>3, <3>1, EnableAllInv
  <2>4. CASE audio_playing /\ ~ ignore_audio' /\ disable_all_timeouts
    <3>1. timeouts_should_be_disabled'
        BY <2>1, <2>4 DEF timeouts_should_be_disabled
    <3>2. QED
        BY <2>1, <2>4, <3>1, DisableAllInv
  <2>5. QED
      BY <1>6, <2>2, <2>3, <2>4 DEF SetIgnoreAudio
<1>7. CASE Pause
  <2>1. Same /\ Flags /\ disable_all_timeouts /\ paused' = TRUE
      BY <1>1, <1>7 DEF Pause
  <2>2. timeouts_should_be_disabled'
      BY <2>1 DEF timeouts_should_be_disabled
  <2>3. QED
      BY <2>1, <2>2, DisableAllInv
<1>8. CASE Unpause
  <2>1. Same /\ Flags /\ enable_all_timeouts /\ paused' = FALSE
        /\ ignore_audio' = ignore_audio /\ audio_playing' = audio_playing
      BY <1>1, <1>8 DEF Unpause
  <2>2. timeouts_are_enabled => ~ timeouts_should_be_disabled'
      BY <1>2, <2>1 DEF timeouts_should_be_disabled
  <2>3. QED
      BY <2>1, <2>2, EnableAllInv
<1>9. QED
    BY <1>4, <1>5, <1>6, <1>7, <1>8

LEMMA SetActivatedType ==
    ASSUME NEW cmd \in Commands, NEW b \in BOOLEAN
    PROVE  LET new == [cmd EXCEPT !.activated = b]
           IN  /\ new \in Commands
               /\ new.trigger = cmd.trigger
               /\ new.timeout_ms = cmd.timeout_ms
               /\ new.activated = b
BY DEF Commands

\* Deactivating every TIMEOUT command leaves triggers and timeouts as they are.
LEMMA ResumeKeepsTypes ==
    ASSUME TypeOK, handle_activity_resumed
    PROVE  /\ DOMAIN commands' = DOMAIN commands
           /\ commands' \in [DOMAIN commands -> Commands]
           /\ \A id \in DOMAIN commands :
                 /\ commands'[id].trigger = commands[id].trigger
                 /\ commands'[id].timeout_ms = commands[id].timeout_ms
           /\ TimeoutIds(commands') = TimeoutIds(commands)
           /\ owed' = {}
<1>1. commands \in [DOMAIN commands -> Commands]
    BY DEF TypeOK
<1>3. DOMAIN commands' = DOMAIN commands /\ owed' = {}
    BY DEF handle_activity_resumed
<1>4. ASSUME NEW id \in DOMAIN commands
      PROVE  /\ commands'[id] \in Commands
             /\ commands'[id].trigger = commands[id].trigger
             /\ commands'[id].timeout_ms = commands[id].timeout_ms
  <2>1. commands[id] \in Commands
      BY <1>1
  <2>2. \/ commands'[id] = commands[id]
        \/ commands'[id] = [commands[id] EXCEPT !.activated = FALSE]
      BY DEF handle_activity_resumed
  <2>3. QED
      BY <2>1, <2>2, SetActivatedType
<1>5. commands' = [id \in DOMAIN commands |-> commands'[id]]
    BY DEF handle_activity_resumed
<1>6. QED
    BY <1>3, <1>4, <1>5 DEF TimeoutIds

LEMMA WakeInv == ASSUME Inv, Wake PROVE Inv' /\ ClientStep
<1>1. /\ handle_activity_resumed /\ TypeOK
      /\ UNCHANGED <<idle, det, xevents, command_id_counter, ignore_audio,
                     audio_playing, paused, timeouts_are_enabled>>
    BY DEF Wake, Inv
<1>2. TypeOK'
  <2>1. DetectorTypeOK'
      BY <1>1 DEF TypeOK, DetectorTypeOK
  <2>2. /\ DOMAIN commands' = DOMAIN commands
        /\ commands' \in [DOMAIN commands' -> Commands]
        /\ \A id \in TimeoutIds(commands') : commands'[id].timeout_ms \in Timeouts
        /\ owed' = {}
      BY <1>1, ResumeKeepsTypes DEF TypeOK, TimeoutIds
  <2>3. QED
      BY <1>1, <2>1, <2>2 DEF TypeOK
<1>3. AlarmsMatchCommands'
    BY <1>1, ResumeKeepsTypes DEF Inv, AlarmsMatchCommands, TimeoutIds
<1>4. EnabledIffAllowed' /\ GoodDetector(det')
    BY <1>1 DEF Inv, EnabledIffAllowed, timeouts_should_be_disabled
<1>5. ClientStep
    BY <1>1, ResumeKeepsTypes DEF ClientStep
<1>6. QED
    BY <1>2, <1>3, <1>4, <1>5 DEF Inv


-----------------------------------------------------------------------------
(* Edits of one command.                                                   *)

LEMMA DeletedIsGood ==
    ASSUME Inv, NEW id \in Data, NEW e,
           \/ e = DisabledForDeleted(det, id)
           \/ e = det /\ \A a \in det.pos_trans_alarms : a.data # id
    PROVE  /\ GoodDetector(e)
           /\ e.pos_trans_alarms = {a \in det.pos_trans_alarms : a.data # id}
<1>1. CASE e = RemoveIdleTimeout(det, id)
    BY <1>1, RemoveIsGood DEF Inv
<1>2. CASE e = det /\ \A a \in det.pos_trans_alarms : a.data # id
    BY <1>2 DEF Inv
<1>3. CASE e = det /\ ~ timeouts_are_enabled
    BY <1>3 DEF Inv, AlarmsMatchCommands
<1>4. QED
    BY <1>1, <1>2, <1>3 DEF DisabledForDeleted

LEMMA AddedIsGood ==
    ASSUME Inv, NEW id \in Data, NEW timeout_ms \in Timeouts, NEW e,
           GoodDetector(e),
           e.pos_trans_alarms = {a \in det.pos_trans_alarms : a.data # id}
    PROVE  LET f == EnabledForNew(e, id, timeout_ms)
           IN  /\ GoodDetector(f)
               /\ e.pos_trans_alarms \subseteq f.pos_trans_alarms
               /\ \A a \in f.pos_trans_alarms :
                     \/ a \in e.pos_trans_alarms
                     \/ /\ timeouts_are_enabled
                        /\ a.data = id /\ a.wait = timeout_ms
                        /\ \A i \in DOMAIN xevents : xevents[i].alarm # a
               /\ timeouts_are_enabled => \E a \in f.pos_trans_alarms : a.data = id
<1> DEFINE f == EnabledForNew(e, id, timeout_ms)
           new == IdleAlarm(e, timeout_ms, id)
<1>1. timeouts_are_enabled <=> ~ timeouts_should_be_disabled
    BY DEF Inv, EnabledIffAllowed
<1>2. CASE timeouts_should_be_disabled
  <2>1. f = e
      BY <1>2 DEF EnabledForNew
  <2>2. QED
      BY <1>1, <1>2, <2>1
<1>3. CASE ~ timeouts_should_be_disabled
  <2>1. f = AddIdleTimeout(e, timeout_ms, id)
      BY <1>3 DEF EnabledForNew
  <2>2. IsNewAlarm(new, e)
      BY IdleAlarmIsNew DEF Inv, TypeOK, DetectorTypeOK
  <2>3. GoodDetector(f) /\ f.pos_trans_alarms = e.pos_trans_alarms \cup {new}
      BY <2>1, <2>2, AddIsGood
  <2>4. new.data = id /\ new.wait = timeout_ms
      BY DEF IdleAlarm, Alarm
  <2>5. \A i \in DOMAIN xevents : xevents[i].alarm # new
      BY <2>2 DEF IsNewAlarm, AlarmsInUse
  <2> HIDE DEF new, f
  <2>6. QED
      BY <1>1, <1>3, <2>3, <2>4, <2>5 DEF f
<1>4. QED
    BY <1>2, <1>3

\* An edit of the command id that leaves the alarms of the others alone.
LEMMA EditInv ==
    ASSUME Inv, NEW id \in Data,
           UNCHANGED <<idle, xevents, ignore_audio, audio_playing, paused,
                       timeouts_are_enabled>>,
           DOMAIN commands' \subseteq DOMAIN commands \cup {id},
           DOMAIN commands \ {id} \subseteq DOMAIN commands',
           \A i \in DOMAIN commands : i # id => commands'[i] = commands[i],
           GoodDetector(det'),
           owed' = owed \ {id},
           \A a \in det.pos_trans_alarms : a.data # id => a \in det'.pos_trans_alarms,
           \A a \in det'.pos_trans_alarms :
               \/ a.data # id /\ a \in det.pos_trans_alarms
               \/ /\ timeouts_are_enabled
                  /\ a.data = id /\ id \in TimeoutIds(commands')
                  /\ a.wait = commands'[id].timeout_ms
                  /\ \A i \in DOMAIN xevents : xevents[i].alarm # a,
           timeouts_are_enabled /\ id \in TimeoutIds(commands')
               => \E a \in det'.pos_trans_alarms : a.data = id
    PROVE  AlarmsMatchCommands' /\ EnabledIffAllowed' /\ ClientStep
<1>1. AlarmsMatchCommands /\ EnabledIffAllowed
    BY DEF Inv
<1>2. \A i \in DOMAIN commands :
         i # id => (i \in TimeoutIds(commands) <=> i \in TimeoutIds(commands'))
    BY DEF TimeoutIds
<1>3. AlarmsMatchCommands'
  <2>1. ASSUME NEW a \in det'.pos_trans_alarms
        PROVE  a.data \in TimeoutIds(commands') /\ a.wait = commands'[a.data].timeout_ms
      BY <1>1, <1>2 DEF AlarmsMatchCommands, TimeoutIds
  <2>2. ASSUME timeouts_are_enabled, NEW i \in TimeoutIds(commands')
        PROVE  \E a \in det'.pos_trans_alarms : a.data = i
    <3>1. CASE i = id
        BY <2>2, <3>1
    <3>2. CASE i # id
      <4>1. i \in TimeoutIds(commands)
          BY <1>2, <2>2, <3>2 DEF TimeoutIds
      <4>2. PICK a \in det.pos_trans_alarms : a.data = i
          BY <1>1, <2>2, <4>1 DEF AlarmsMatchCommands
      <4>3. QED
          BY <3>2, <4>2
    <3>3. QED
        BY <3>1, <3>2
  <2>3. ~ timeouts_are_enabled => det'.pos_trans_alarms = {}
      BY <1>1 DEF AlarmsMatchCommands
  <2>4. QED
      BY <2>1, <2>2, <2>3 DEF AlarmsMatchCommands
<1>4. EnabledIffAllowed'
    BY <1>1 DEF EnabledIffAllowed, timeouts_should_be_disabled
<1>5. ClientStep
    BY DEF ClientStep
<1>6. QED
    BY <1>3, <1>4, <1>5

LEMMA SetTriggerInv ==
    ASSUME Inv, NEW id \in Data, SetTrigger(id) PROVE Inv' /\ ClientStep
<1> DEFINE old == commands[id]
           wasTimeout == old.trigger = "TIMEOUT"
           removed == IF wasTimeout THEN DisabledForDeleted(det, id) ELSE det
<1>1. /\ id \in DOMAIN commands
      /\ UNCHANGED <<idle, xevents, command_id_counter, ignore_audio,
                     audio_playing, paused, timeouts_are_enabled>>
    BY DEF SetTrigger
<1>2. PICK p \in ParsedTriggers(old.timeout_ms) :
          /\ commands' = [commands EXCEPT ![id] =
                             [trigger    |-> p[1],
                              timeout_ms |-> p[2],
                              activated  |-> old.activated]]
          /\ det' = IF p[1] = "TIMEOUT"
                    THEN EnabledForNew(removed, id, p[2]) ELSE removed
          /\ owed' = owed \ {id}
    BY DEF SetTrigger
<1>3. commands \in [DOMAIN commands -> Commands] /\ TypeOK
    BY DEF Inv, TypeOK
<1>4. /\ p[1] \in Triggers /\ p[2] \in Timeouts \cup {0}
      /\ p[1] = "TIMEOUT" => p[2] \in Timeouts
  <2>1. old \in Commands
      BY <1>1, <1>3
  <2>2. old.timeout_ms \in Timeouts \cup {0}
      BY <2>1 DEF Commands
  <2>3. QED
      BY <2>2, ParsedTriggerType
<1>5. /\ DOMAIN commands' = DOMAIN commands
      /\ \A i \in DOMAIN commands : i # id => commands'[i] = commands[i]
      /\ commands'[id] \in Commands
      /\ commands'[id].trigger = p[1] /\ commands'[id].timeout_ms = p[2]
  <2>1. old \in Commands
      BY <1>1, <1>3
  <2>2. commands'[id] = [trigger |-> p[1], timeout_ms |-> p[2],
                         activated |-> old.activated]
      BY <1>1, <1>2
  <2>3. commands'[id] \in Commands
      BY <1>4, <2>1, <2>2 DEF Commands
  <2>4. QED
      BY <1>1, <1>2, <2>2, <2>3
<1>6. /\ GoodDetector(removed)
      /\ removed.pos_trans_alarms = {a \in det.pos_trans_alarms : a.data # id}
  <2>1. ~ wasTimeout => \A a \in det.pos_trans_alarms : a.data # id
      BY DEF Inv, AlarmsMatchCommands, TimeoutIds
  <2>2. QED
      BY <2>1, DeletedIsGood
<1>7. id \in TimeoutIds(commands') <=> p[1] = "TIMEOUT"
    BY <1>1, <1>5 DEF TimeoutIds
<1>8. /\ GoodDetector(det')
      /\ removed.pos_trans_alarms \subseteq det'.pos_trans_alarms
      /\ \A a \in det'.pos_trans_alarms :
            \/ a \in removed.pos_trans_alarms
            \/ /\ timeouts_are_enabled
               /\ a.data = id /\ p[1] = "TIMEOUT" /\ a.wait = p[2]
               /\ \A i \in DOMAIN xevents : xevents[i].alarm # a
      /\ timeouts_are_enabled /\ p[1] = "TIMEOUT"
            => \E a \in det'.pos_trans_alarms : a.data = id
  <2> HIDE DEF removed
  <2>1. CASE p[1] = "TIMEOUT"
      BY <1>2, <1>4, <1>6, <2>1, AddedIsGood
  <2>2. CASE p[1] # "TIMEOUT"
      BY <1>2, <1>6, <2>2
  <2>3. QED
      BY <2>1, <2>2
<1> HIDE DEF removed, old
<1>9. AlarmsMatchCommands' /\ EnabledIffAllowed' /\ ClientStep
  <2>1. /\ \A a \in det.pos_trans_alarms : a.data # id => a \in det'.pos_trans_alarms
        /\ \A a \in det'.pos_trans_alarms :
               \/ a.data # id /\ a \in det.pos_trans_alarms
               \/ /\ timeouts_are_enabled
                  /\ a.data = id /\ id \in TimeoutIds(commands')
                  /\ a.wait = commands'[id].timeout_ms
                  /\ \A i \in DOMAIN xevents : xevents[i].alarm # a
      BY <1>5, <1>6, <1>7, <1>8
  <2>2. /\ timeouts_are_enabled /\ id \in TimeoutIds(commands')
             => \E a \in det'.pos_trans_alarms : a.data = id
        /\ GoodDetector(det') /\ owed' = owed \ {id}
      BY <1>2, <1>7, <1>8
  <2>3. /\ DOMAIN commands' \subseteq DOMAIN commands \cup {id}
        /\ DOMAIN commands \ {id} \subseteq DOMAIN commands'
        /\ \A i \in DOMAIN commands : i # id => commands'[i] = commands[i]
      BY <1>5
  <2>4. QED
      BY <1>1, <2>1, <2>2, <2>3, EditInv
<1>10. TypeOK'
  <2>1. DetectorTypeOK'
      BY <1>1, <1>3, <1>8 DEF TypeOK, DetectorTypeOK, GoodDetector
  <2>2. commands' \in [DOMAIN commands' -> Commands]
      BY <1>2, <1>3, <1>5
  <2>3. /\ \A i \in TimeoutIds(commands') : commands'[i].timeout_ms \in Timeouts
        /\ owed' \subseteq TimeoutIds(commands')
        /\ \A i \in owed' : commands'[i].activated
      BY <1>2, <1>3, <1>4, <1>5, <1>7 DEF TypeOK, TimeoutIds
  <2>4. QED
      BY <1>1, <1>3, <1>5, <2>1, <2>2, <2>3 DEF TypeOK
<1>11. QED
    BY <1>8, <1>9, <1>10 DEF Inv

LEMMA AddActionInv ==
    ASSUME Inv, AddAction PROVE Inv' /\ ClientStep
<1> DEFINE id == command_id_counter + 1
<1>1. /\ id \in Data /\ command_id_counter' = id
      /\ UNCHANGED <<idle, xevents, ignore_audio, audio_playing, paused,
                     timeouts_are_enabled, owed>>
    BY DEF AddAction
<1>2. PICK cmd \in NewCommands :
          /\ commands' = [i \in DOMAIN commands \cup {id} |->
                             IF i = id THEN cmd ELSE commands[i]]
          /\ det' = IF cmd.trigger = "TIMEOUT"
                    THEN EnabledForNew(det, id, cmd.timeout_ms) ELSE det
    BY DEF AddAction
<1>3. cmd \in Commands /\ (cmd.trigger = "TIMEOUT" => cmd.timeout_ms \in Timeouts)
    BY NewCommandType
<1>4. TypeOK /\ id \in Nat /\ id \notin DOMAIN commands
      /\ (\A i \in DOMAIN commands : i \in Nat /\ i <= id)
    BY DataAssumption DEF Inv, TypeOK
<1> HIDE DEF id
<1>5. /\ DOMAIN commands' = DOMAIN commands \cup {id}
      /\ commands'[id] = cmd
      /\ \A i \in DOMAIN commands : i # id /\ commands'[i] = commands[i]
    BY <1>2, <1>4
<1>6. det.pos_trans_alarms = {a \in det.pos_trans_alarms : a.data # id}
    BY <1>4 DEF Inv, AlarmsMatchCommands, TimeoutIds
<1>7. id \in TimeoutIds(commands') <=> cmd.trigger = "TIMEOUT"
    BY <1>5 DEF TimeoutIds
<1>8. /\ GoodDetector(det')
      /\ det.pos_trans_alarms \subseteq det'.pos_trans_alarms
      /\ \A a \in det'.pos_trans_alarms :
            \/ a \in det.pos_trans_alarms
            \/ /\ timeouts_are_enabled
               /\ a.data = id /\ cmd.trigger = "TIMEOUT" /\ a.wait = cmd.timeout_ms
               /\ \A i \in DOMAIN xevents : xevents[i].alarm # a
      /\ timeouts_are_enabled /\ cmd.trigger = "TIMEOUT"
            => \E a \in det'.pos_trans_alarms : a.data = id
  <2>1. CASE cmd.trigger = "TIMEOUT"
    <3>1. GoodDetector(det)
        BY DEF Inv
    <3>2. QED
        BY <1>1, <1>2, <1>3, <1>6, <2>1, <3>1, AddedIsGood
  <2>2. CASE cmd.trigger # "TIMEOUT"
      BY <1>2, <2>2 DEF Inv
  <2>3. QED
      BY <2>1, <2>2
<1>9. AlarmsMatchCommands' /\ EnabledIffAllowed' /\ ClientStep
  <2>1. /\ \A a \in det.pos_trans_alarms : a.data # id => a \in det'.pos_trans_alarms
        /\ \A a \in det'.pos_trans_alarms :
               \/ a.data # id /\ a \in det.pos_trans_alarms
               \/ /\ timeouts_are_enabled
                  /\ a.data = id /\ id \in TimeoutIds(commands')
                  /\ a.wait = commands'[id].timeout_ms
                  /\ \A i \in DOMAIN xevents : xevents[i].alarm # a
      BY <1>5, <1>6, <1>7, <1>8
  <2>2. /\ timeouts_are_enabled /\ id \in TimeoutIds(commands')
             => \E a \in det'.pos_trans_alarms : a.data = id
        /\ GoodDetector(det')
      BY <1>7, <1>8
  <2>3. owed' = owed \ {id}
      BY <1>1, <1>4 DEF TypeOK, TimeoutIds
  <2>4. QED
      BY <1>1, <1>5, <2>1, <2>2, <2>3, EditInv
<1>10. TypeOK'
  <2>1. DetectorTypeOK'
      BY <1>1, <1>4, <1>8 DEF TypeOK, DetectorTypeOK, GoodDetector
  <2>2. commands' \in [DOMAIN commands' -> Commands]
      BY <1>2, <1>3, <1>4, <1>5 DEF TypeOK
  <2>3. /\ \A i \in TimeoutIds(commands') : commands'[i].timeout_ms \in Timeouts
        /\ owed' \subseteq TimeoutIds(commands')
        /\ \A i \in owed' : commands'[i].activated
      BY <1>1, <1>3, <1>4, <1>5, <1>7 DEF TypeOK, TimeoutIds
  <2>4. /\ DOMAIN commands' \subseteq Data /\ command_id_counter' \in Nat
        /\ \A i \in DOMAIN commands' : i <= command_id_counter'
      BY <1>1, <1>4, <1>5 DEF TypeOK
  <2>5. QED
      BY <1>1, <1>4, <2>1, <2>2, <2>3, <2>4 DEF TypeOK
<1>11. QED
    BY <1>8, <1>9, <1>10 DEF Inv

LEMMA RemoveActionInv ==
    ASSUME Inv, NEW id \in Data, RemoveAction(id) PROVE Inv' /\ ClientStep
<1>1. /\ id \in DOMAIN commands
      /\ commands' = [i \in DOMAIN commands \ {id} |-> commands[i]]
      /\ owed' = owed \ {id}
      /\ UNCHANGED <<idle, xevents, command_id_counter, ignore_audio,
                     audio_playing, paused, timeouts_are_enabled>>
    BY DEF RemoveAction, Restrict
<1>2. /\ GoodDetector(det')
      /\ det'.pos_trans_alarms = {a \in det.pos_trans_alarms : a.data # id}
  <2>1. CASE commands[id].trigger = "TIMEOUT"
    <3>1. det' = DisabledForDeleted(det, id)
        BY <2>1 DEF RemoveAction
    <3>2. QED
        BY <3>1, DeletedIsGood
  <2>2. CASE commands[id].trigger # "TIMEOUT"
    <3>1. det' = det
        BY <2>2 DEF RemoveAction
    <3>2. \A a \in det.pos_trans_alarms : a.data # id
        BY <2>2 DEF Inv, AlarmsMatchCommands, TimeoutIds
    <3>3. QED
        BY <3>1, <3>2, DeletedIsGood
  <2>3. QED
      BY <2>1, <2>2
<1>3. TypeOK /\ commands \in [DOMAIN commands -> Commands]
    BY DEF Inv, TypeOK
<1>4. /\ DOMAIN commands' = DOMAIN commands \ {id}
      /\ \A i \in DOMAIN commands : i # id => commands'[i] = commands[i]
      /\ id \notin TimeoutIds(commands')
    BY <1>1 DEF TimeoutIds
<1>5. AlarmsMatchCommands' /\ EnabledIffAllowed' /\ ClientStep
    BY <1>1, <1>2, <1>4, EditInv
<1>6. TypeOK'
  <2>1. DetectorTypeOK'
      BY <1>1, <1>2, <1>3 DEF TypeOK, DetectorTypeOK, GoodDetector
  <2>2. commands' \in [DOMAIN commands' -> Commands]
      BY <1>1, <1>3, <1>4
  <2>3. /\ \A i \in TimeoutIds(commands') : commands'[i].timeout_ms \in Timeouts
        /\ owed' \subseteq TimeoutIds(commands')
        /\ \A i \in owed' : commands'[i].activated
      BY <1>1, <1>3, <1>4 DEF TypeOK, TimeoutIds
  <2>4. QED
      BY <1>1, <1>3, <1>4, <2>1, <2>2, <2>3 DEF TypeOK
<1>7. QED
    BY <1>2, <1>5, <1>6 DEF Inv

-----------------------------------------------------------------------------
(* The events and the X server.                                            *)

LEMMA DeliverInv ==
    ASSUME Inv, Deliver PROVE Inv'
<1>1. /\ xevents # <<>> /\ xevents' = Tail(xevents)
      /\ UNCHANGED <<idle, det, command_id_counter, ignore_audio,
                     audio_playing, paused, timeouts_are_enabled>>
    BY DEF Deliver, DeliverTimeout, DropDeleted, DeliverResume, managerVars
<1>2. TypeOK /\ commands \in [DOMAIN commands -> Commands]
    BY DEF Inv, TypeOK
<1>3. DetectorTypeOK'
  <2>1. xevents \in Seq(Events) /\ Len(xevents) <= MaxQueue
      BY <1>2 DEF TypeOK, DetectorTypeOK
  <2>2. xevents' \in Seq(Events) /\ Len(xevents') <= MaxQueue
      BY <1>1, <2>1, TailEvents, BoundAssumption
  <2>3. QED
      BY <1>1, <1>2, <2>2 DEF TypeOK, DetectorTypeOK
<1> DEFINE Kept ==
               /\ DOMAIN commands' = DOMAIN commands
               /\ commands' \in [DOMAIN commands -> Commands]
               /\ \A id \in DOMAIN commands :
                     /\ commands'[id].trigger = commands[id].trigger
                     /\ commands'[id].timeout_ms = commands[id].timeout_ms
               /\ owed' \subseteq TimeoutIds(commands)
               /\ \A id \in owed' : commands'[id].activated
<1>4. Kept
  <2>1. ASSUME NEW id \in Data, DeliverTimeout(id) PROVE Kept
    <3>1. id \in TimeoutIds(commands) /\ id \in DOMAIN commands
        BY <2>1 DEF Inv, AlarmsMatchCommands, TimeoutIds, DeliverTimeout, IsTimeoutFor
    <3>2. owed' = owed \cup {id} /\ owed \subseteq TimeoutIds(commands)
          /\ \A i \in owed : commands[i].activated
        BY <1>2, <2>1 DEF DeliverTimeout, TypeOK
    <3>3. commands' = [commands EXCEPT ![id] = [commands[id] EXCEPT !.activated = TRUE]]
        BY <2>1, <3>1 DEF DeliverTimeout, TimeoutIds
    <3>4. commands[id] \in Commands
        BY <1>2, <3>1
    <3>5. /\ [commands[id] EXCEPT !.activated = TRUE] \in Commands
          /\ [commands[id] EXCEPT !.activated = TRUE].trigger = commands[id].trigger
          /\ [commands[id] EXCEPT !.activated = TRUE].timeout_ms = commands[id].timeout_ms
          /\ [commands[id] EXCEPT !.activated = TRUE].activated
        BY <3>4, SetActivatedType
    <3> DEFINE new == [commands[id] EXCEPT !.activated = TRUE]
    <3> HIDE DEF new
    <3>6. /\ new \in Commands /\ new.trigger = commands[id].trigger
          /\ new.timeout_ms = commands[id].timeout_ms /\ new.activated
          /\ commands' = [commands EXCEPT ![id] = new]
        BY <3>3, <3>5 DEF new
    <3>7. QED
        BY <1>2, <3>1, <3>2, <3>6
  <2>2. CASE DropDeleted
      BY <1>2, <2>2 DEF DropDeleted, managerVars, TypeOK
  <2>3. CASE DeliverResume
      BY <1>2, <2>3, ResumeKeepsTypes DEF DeliverResume
  <2>4. QED
      BY <2>1, <2>2, <2>3 DEF Deliver
<1>5. TimeoutIds(commands') = TimeoutIds(commands)
    BY <1>4 DEF TimeoutIds
<1>6. TypeOK'
    BY <1>1, <1>2, <1>3, <1>4, <1>5 DEF TypeOK, TimeoutIds
<1>7. AlarmsMatchCommands'
    BY <1>1, <1>4, <1>5 DEF Inv, AlarmsMatchCommands, TimeoutIds
<1>8. EnabledIffAllowed' /\ GoodDetector(det')
    BY <1>1 DEF Inv, EnabledIffAllowed, timeouts_should_be_disabled
<1>9. QED
    BY <1>6, <1>7, <1>8 DEF Inv

LEMMA XServerInv ==
    ASSUME Inv, XServer PROVE Inv'
<1>1. /\ UNCHANGED <<det, commands, command_id_counter, ignore_audio,
                     audio_playing, paused, timeouts_are_enabled, owed>>
    BY DEF XServer, managerVars
<1>2. TypeOK /\ DetectorTypeOK /\ idle \in Nat
    BY DEF Inv, TypeOK, DetectorTypeOK
<1>3. PICK due \in SUBSET det.server, value \in Nat : Send(due, value) /\ idle' = value
  <2>1. CASE Tick
      BY <1>2, <2>1 DEF Tick
  <2>2. CASE UserActivity
      BY <1>2, <2>2, BoundAssumption DEF UserActivity
  <2>3. QED
      BY <2>1, <2>2 DEF XServer
<1>4. DetectorTypeOK'
  <2>1. xevents' \in Seq(Events) /\ Len(xevents') <= MaxQueue
      BY <1>2, <1>3, SendQueue
  <2>2. QED
      BY <1>1, <1>2, <1>3, <2>1 DEF DetectorTypeOK
<1>5. TypeOK' /\ AlarmsMatchCommands' /\ EnabledIffAllowed' /\ GoodDetector(det')
    BY <1>1, <1>4 DEF Inv, TypeOK, TimeoutIds, AlarmsMatchCommands, EnabledIffAllowed,
                      timeouts_should_be_disabled
<1>6. QED
    BY <1>5 DEF Inv

LEMMA NextInv ==
    ASSUME Inv, [Next]_vars PROVE Inv'
<1>1. CASE UNCHANGED vars
    BY <1>1 DEF vars, Inv, TypeOK, DetectorTypeOK, TimeoutIds, AlarmsMatchCommands,
                EnabledIffAllowed, timeouts_should_be_disabled
<1>2. CASE Next
    BY <1>2, XServerInv, DeliverInv, WakeInv, FlagHandlersInv, AddActionInv,
       SetTriggerInv, RemoveActionInv DEF Next
<1>3. QED
    BY <1>1, <1>2

LEMMA InvariantHolds == Spec => []Inv
<1>1. Init => Inv
    BY InitInv
<1>2. Inv /\ [Next]_vars => Inv'
    BY NextInv
<1>3. QED
    BY <1>1, <1>2, PTL DEF Spec

-----------------------------------------------------------------------------
(* Theorems: types and alarms.                                             *)

\* Every variable keeps its type; in particular the serials suffice and only
\* present TIMEOUT commands are owed a resume, each of them activated.
THEOREM TypeCorrect == Spec => []TypeOK
<1>1. Inv => TypeOK
    BY DEF Inv
<1>2. QED
    BY <1>1, InvariantHolds, PTL

\* Whatever the order of audio events, setting changes, pauses and edits, the
\* cached timeouts_are_enabled is the value of timeouts_should_be_disabled,
\* negated, after every handler.
THEOREM EnabledExactlyWhenAllowed == Spec => []EnabledIffAllowed
<1>1. Inv => EnabledIffAllowed
    BY DEF Inv
<1>2. QED
    BY <1>1, InvariantHolds, PTL

\* The idle alarms are always those of the present TIMEOUT commands with their
\* present timeouts, or none while timeouts are disabled.
THEOREM AlarmsFollowCommands == Spec => []AlarmsMatchCommands
<1>1. Inv => AlarmsMatchCommands
    BY DEF Inv
<1>2. QED
    BY <1>1, InvariantHolds, PTL

\* A resume alarm lies below every idle alarm.
LEMMA GoodDetectorCovers == Inv => ResumeAlarmCovers
<1>1. SUFFICES ASSUME Inv, NEW a \in det.pos_trans_alarms
               PROVE  det.neg_trans_alarm # None /\ det.neg_trans_alarm.wait < a.wait
    BY DEF ResumeAlarmCovers
<1>2. /\ det.neg_trans_alarm # None /\ det.min_timeout \in Timeouts
      /\ det.neg_trans_alarm = ResumeAlarm(det.min_timeout - 1)
      /\ det.min_timeout <= a.wait
    BY <1>1 DEF Inv, GoodDetector, MinimumTracked
<1>3. a.wait \in Nat
    BY <1>1, TimeoutRange DEF Inv, GoodDetector, Detectors, IdleAlarms
<1>4. det.min_timeout \in Nat /\ det.neg_trans_alarm.wait = det.min_timeout - 1
    BY <1>2, TimeoutRange DEF ResumeAlarm, Alarm
<1>5. QED
    BY <1>2, <1>3, <1>4

\* The detector's own bookkeeping: every idle alarm is covered by the resume
\* alarm, the server holds no alarm the detector has forgotten, and no two
\* alarms carry the same data (the assertion of add_idle_timeout).
THEOREM DetectorSound ==
    Spec => [](ResumeAlarmCovers /\ NoAlarmLeaked /\ DataUnique)
<1>1. Inv => NoAlarmLeaked /\ DataUnique
    BY DEF Inv, GoodDetector, NoAlarmLeaked, DataUnique
<1>2. QED
    BY <1>1, GoodDetectorCovers, InvariantHolds, PTL

\* What went idle can be seen to come back: there is a resume alarm below every
\* idle alarm, also after the command with the smallest timeout was removed or
\* given a larger one, which leaves min_timeout and the resume alarm as they were.
THEOREM EveryIdleAlarmCovered == Spec => []ResumeAlarmCovers
BY DetectorSound, PTL

\* add_idle_timeout's assertion that its data has no alarm yet never fails.
THEOREM DataStaysUnique == Spec => []DataUnique
BY DetectorSound, PTL

-----------------------------------------------------------------------------
(* The order in which timeouts are added.  The induction over the ids in   *)
(* their order is a minimal counterexample: a smallest set of places whose *)
(* fold is not AddIdleTimeouts of the ids at these places.                 *)

LEMMA MinOfOneMore ==
    ASSUME NEW S, S \subseteq Nat, S # {}, NEW t \in Nat
    PROVE  Min(S \cup {t}) = IF t < Min(S) THEN t ELSE Min(S)
<1> DEFINE m == Min(S)
           k == Min(S \cup {t})
<1>1. m \in S /\ \A y \in S : m <= y
    BY MinIsLeast
<1>2. k \in S \cup {t} /\ \A y \in S \cup {t} : k <= y
    BY MinIsLeast
<1> HIDE DEF m, k
<1>3. m \in Nat /\ k \in Nat /\ k <= t /\ k <= m
    BY <1>1, <1>2
<1>4. k = t \/ m <= k
    BY <1>1, <1>2
<1>5. k = IF t < m THEN t ELSE m
    BY <1>3, <1>4
<1> QED
    BY <1>5 DEF m, k

\* Alarms of other data do not matter to the choice of a serial, which stands for
\* the XID the X server gives.
LEMMA SameFreshSerial ==
    ASSUME NEW d, NEW e, NEW data,
           \A a \in d.server \cup e.server : a.data # data
    PROVE  FreshSerial(d, data) = FreshSerial(e, data)
<1> DEFINE P(f, n) == \A a \in AlarmsInUse(f) : a.data = data => a.serial # n
<1>1. ASSUME NEW n PROVE P(d, n) <=> P(e, n)
    BY DEF AlarmsInUse
<1>2. \A n : (n \in Serials /\ P(d, n)) <=> (n \in Serials /\ P(e, n))
    BY <1>1
<1> HIDE DEF P
<1>3. (CHOOSE n : n \in Serials /\ P(d, n)) = (CHOOSE n : n \in Serials /\ P(e, n))
    BY <1>2
<1>4. (CHOOSE n \in Serials : P(d, n)) = (CHOOSE n \in Serials : P(e, n))
    BY <1>3
<1> QED
    BY <1>4 DEF FreshSerial, P

\* The timeouts of some of the ids.
Some(tm, ids)  == [id \in ids |-> tm[id]]
AllOf(tm, ids) == AddIdleTimeouts(NewDetector, Some(tm, ids))
LeastOf(tm, ids) == Min({tm[id] : id \in ids} \cup {NoTimeout})
NegOf(tm, ids) == IF LeastOf(tm, ids) < NoTimeout
                  THEN ResumeAlarm(LeastOf(tm, ids) - 1) ELSE None

LEMMA AllOfValue ==
    ASSUME NEW tm, NEW ids \in SUBSET Data, \A id \in ids : tm[id] \in Timeouts
    PROVE  /\ LeastOf(tm, ids) \in Nat
           /\ NegOf(tm, ids).data = NULL
           /\ AllOf(tm, ids) =
                [pos_trans_alarms |-> {IdleAlarm(NewDetector, tm[id], id) : id \in ids},
                 neg_trans_alarm  |-> NegOf(tm, ids),
                 min_timeout      |-> LeastOf(tm, ids),
                 server           |-> {IdleAlarm(NewDetector, tm[id], id) : id \in ids}
                                      \cup ({NegOf(tm, ids)} \ {None})]
<1>1. LeastOf(tm, ids) \in Nat
  <2> DEFINE S == {tm[id] : id \in ids} \cup {NoTimeout}
  <2>1. S \subseteq Nat /\ S # {}
      BY TimeoutRange
  <2> HIDE DEF S
  <2>2. Min(S) \in Nat
      BY <2>1, MinIsLeast
  <2> QED
      BY <2>2 DEF S, LeastOf
<1>2. NegOf(tm, ids).data = NULL
    BY DEF NegOf, ResumeAlarm, Alarm, None
<1> DEFINE f == Some(tm, ids)
           idleAlarms == {IdleAlarm(NewDetector, f[id], id) : id \in DOMAIN f}
           least == Min({f[id] : id \in DOMAIN f} \cup {NewDetector.min_timeout})
           neg   == IF least < NewDetector.min_timeout
                    THEN ResumeAlarm(least - 1) ELSE NewDetector.neg_trans_alarm
<1>3. AllOf(tm, ids) =
        [pos_trans_alarms |-> NewDetector.pos_trans_alarms \cup idleAlarms,
         neg_trans_alarm  |-> neg,
         min_timeout      |-> least,
         server           |-> (NewDetector.server \ {NewDetector.neg_trans_alarm})
                              \cup idleAlarms \cup ({neg} \ {None})]
    BY DEF AllOf, AddIdleTimeouts
<1>4. DOMAIN f = ids /\ \A id \in ids : f[id] = tm[id]
    BY DEF Some
<1>5. idleAlarms = {IdleAlarm(NewDetector, tm[id], id) : id \in ids}
    BY <1>4
<1>6. {f[id] : id \in DOMAIN f} = {tm[id] : id \in ids}
    BY <1>4
<1>7. least = LeastOf(tm, ids)
    BY <1>6 DEF LeastOf, NewDetector
<1>8. neg = NegOf(tm, ids)
    BY <1>7 DEF NegOf, NewDetector
<1>9. NewDetector.server = {} /\ NewDetector.pos_trans_alarms = {}
    BY DEF NewDetector
<1> HIDE DEF f, idleAlarms, least, neg
<1> QED
    BY <1>1, <1>2, <1>3, <1>5, <1>7, <1>8, <1>9

\* One more add_idle_timeout call: the order of the calls before it is forgotten.
LEMMA AddOneMore ==
    ASSUME NEW tm, NEW ids \in SUBSET Data, \A i \in ids : tm[i] \in Timeouts,
           NEW id \in Data, id \notin ids, tm[id] \in Timeouts
    PROVE  AddIdleTimeout(AllOf(tm, ids), tm[id], id) = AllOf(tm, ids \cup {id})
<1> DEFINE d     == AllOf(tm, ids)
           more  == ids \cup {id}
           alarm(i) == IdleAlarm(NewDetector, tm[i], i)
           alarms   == {alarm(i) : i \in ids}
           t     == tm[id]
           least == LeastOf(tm, ids)
           neg   == NegOf(tm, ids)
           R     == ResumeAlarm(t - 1)
<1>1. \A i \in Data : alarm(i).data = i /\ i # NULL
    BY DataAssumption DEF IdleAlarm, Alarm, NULL
<1>2. /\ least \in Nat /\ neg.data = NULL
      /\ d = [pos_trans_alarms |-> alarms, neg_trans_alarm |-> neg,
              min_timeout |-> least, server |-> alarms \cup ({neg} \ {None})]
    BY AllOfValue
<1>3. more \in SUBSET Data /\ \A i \in more : tm[i] \in Timeouts
    OBVIOUS
<1>4. AllOf(tm, more) =
        [pos_trans_alarms |-> {alarm(i) : i \in more},
         neg_trans_alarm  |-> NegOf(tm, more),
         min_timeout      |-> LeastOf(tm, more),
         server           |-> {alarm(i) : i \in more} \cup ({NegOf(tm, more)} \ {None})]
  <2> HIDE DEF more
  <2> QED
      BY <1>3, AllOfValue
<1>5. {alarm(i) : i \in more} = alarms \cup {alarm(id)}
    OBVIOUS
<1>6. t \in Nat /\ 1 < t /\ t < NoTimeout /\ NoTimeout \in Nat
    BY TimeoutRange
<1>7. LeastOf(tm, more) = IF t < least THEN t ELSE least
  <2> DEFINE S == {tm[i] : i \in ids} \cup {NoTimeout}
  <2>1. S \subseteq Nat /\ S # {}
      BY TimeoutRange
  <2>2. {tm[i] : i \in more} \cup {NoTimeout} = S \cup {t}
      OBVIOUS
  <2> HIDE DEF S, more, t
  <2>3. Min(S \cup {t}) = IF t < Min(S) THEN t ELSE Min(S)
      BY <1>6, <2>1, MinOfOneMore
  <2> QED
      BY <2>2, <2>3 DEF S, LeastOf
<1>8. IdleAlarm(d, t, id) = alarm(id)
  <2>1. \A a \in alarms : a.data # id
      BY <1>1
  <2>2. \A a \in d.server \cup NewDetector.server : a.data # id
    <3>1. NewDetector.server = {}
        BY DEF NewDetector
    <3>2. \A a \in {neg} \ {None} : a.data # id
        BY <1>1, <1>2
    <3> HIDE DEF d, alarms, neg
    <3> QED
        BY <1>2, <2>1, <3>1, <3>2
  <2>3. FreshSerial(d, id) = FreshSerial(NewDetector, id)
    <3> HIDE DEF d
    <3> QED
        BY <2>2, SameFreshSerial
  <2> QED
      BY <2>3 DEF IdleAlarm
<1>9. R # None
    BY <1>6 DEF ResumeAlarm, Alarm, None
<1>10. neg \notin alarms
    BY <1>1, <1>2
<1> HIDE DEF d, more, alarm, alarms, t, least, neg, R
<1>11. CASE t < least
  <2>1. AddIdleTimeout(d, t, id) =
          [pos_trans_alarms |-> d.pos_trans_alarms \cup {IdleAlarm(d, t, id)},
           neg_trans_alarm  |-> R,
           min_timeout      |-> t,
           server |-> (d.server \ {d.neg_trans_alarm}) \cup {IdleAlarm(d, t, id), R}]
      BY <1>2, <1>11 DEF AddIdleTimeout, R
  <2>2. LeastOf(tm, more) = t /\ NegOf(tm, more) = R
      BY <1>6, <1>7, <1>11 DEF NegOf, R
  <2>3. (d.server \ {d.neg_trans_alarm}) \cup {IdleAlarm(d, t, id), R}
          = (alarms \cup {alarm(id)}) \cup ({R} \ {None})
      BY <1>2, <1>8, <1>9, <1>10
  <2>4. d.pos_trans_alarms = alarms
      BY <1>2
  <2>5. AddIdleTimeout(d, t, id) = AllOf(tm, more)
      BY <1>4, <1>5, <1>8, <2>1, <2>2, <2>3, <2>4
  <2> QED
      BY <2>5 DEF d, t, more
<1>12. CASE ~ (t < least)
  <2>1. AddIdleTimeout(d, t, id) = [d EXCEPT !.pos_trans_alarms = @ \cup {IdleAlarm(d, t, id)},
                                             !.server = @ \cup {IdleAlarm(d, t, id)}]
      BY <1>2, <1>12 DEF AddIdleTimeout
  <2>2. AddIdleTimeout(d, t, id) =
          [pos_trans_alarms |-> alarms \cup {alarm(id)}, neg_trans_alarm |-> neg,
           min_timeout |-> least, server |-> alarms \cup ({neg} \ {None}) \cup {alarm(id)}]
      BY <1>2, <1>8, <2>1
  <2>3. LeastOf(tm, more) = least /\ NegOf(tm, more) = neg
      BY <1>7, <1>12 DEF NegOf, neg, least
  <2>4. alarms \cup ({neg} \ {None}) \cup {alarm(id)}
          = (alarms \cup {alarm(id)}) \cup ({neg} \ {None})
      OBVIOUS
  <2>5. AddIdleTimeout(d, t, id) = AllOf(tm, more)
      BY <1>4, <1>5, <2>2, <2>3, <2>4
  <2> QED
      BY <2>5 DEF d, t, more
<1> QED
    BY <1>11, <1>12

\* The function by which FoldLeft is defined: the fold of the places s of order.
IsFold(iter, base, order) ==
    iter = [s \in SUBSET DOMAIN order |->
              IF s = {} THEN base
              ELSE AddIdleTimeout(iter[s \ {Max(s)}], commands[order[Max(s)]].timeout_ms,
                                  order[Max(s)])]

LEMMA FoldIsIter ==
    ASSUME NEW base, NEW order
    PROVE  FoldLeft(LAMBDA d, id : AddIdleTimeout(d, commands[id].timeout_ms, id), base, order)
             = (CHOOSE iter : IsFold(iter, base, order))[DOMAIN order]
BY DEF FoldLeft, MapThenFoldSet, IsFold

\* The places of a finite order, each of which occurs once.
Places(order, n, ids) ==
    /\ n \in Nat /\ order \in [1 .. n -> ids]
    /\ \A i, j \in 1 .. n : i # j => order[i] # order[j]

LEMMA LastPlace ==
    ASSUME NEW n \in Nat, NEW s \in SUBSET (1 .. n), s # {}
    PROVE  Max(s) \in s /\ \A i \in s : i <= Max(s)
<1> DEFINE T == {n - i : i \in s}
           k == Min(T)
<1>1. T \subseteq Nat /\ T # {}
  <2>1. \A i \in s : n - i \in Nat
      OBVIOUS
  <2> QED
      BY <2>1
<1>2. k \in T /\ \A y \in T : k <= y
  <2> HIDE DEF T
  <2> QED
      BY <1>1, MinIsLeast
<1>3. PICK i \in s : k = n - i
    BY <1>2
<1> HIDE DEF k
<1>4. ASSUME NEW j \in s PROVE i >= j
  <2>1. k <= n - j
      BY <1>2
  <2> QED
      BY <1>3, <2>1
<1> HIDE DEF T
<1>5. Max(s) \in s /\ \A j \in s : Max(s) >= j
    BY <1>4 DEF Max
<1> QED
    BY <1>5

\* Adding the timeouts of the ids at some places one after the other satisfies the
\* equation of the fold.
LEMMA AllOfIsFold ==
    ASSUME NEW tm, NEW ids \in SUBSET Data, NEW order, NEW n, Places(order, n, ids),
           \A id \in ids : tm[id] \in Timeouts /\ tm[id] = commands[id].timeout_ms
    PROVE  IsFold([s \in SUBSET (1 .. n) |-> AllOf(tm, {order[i] : i \in s})],
                  NewDetector, order)
<1> DEFINE G == [s \in SUBSET (1 .. n) |-> AllOf(tm, {order[i] : i \in s})]
           Step(s) == AddIdleTimeout(G[s \ {Max(s)}], commands[order[Max(s)]].timeout_ms,
                                     order[Max(s)])
<1>1. n \in Nat /\ DOMAIN order = 1 .. n
    BY DEF Places
<1>2. G[{}] = NewDetector
  <2>1. {} \in SUBSET (1 .. n) /\ {order[i] : i \in {}} = {}
      OBVIOUS
  <2>2. G[{}] = AllOf(tm, {order[i] : i \in {}})
      BY <2>1
  <2>3. G[{}] = AllOf(tm, {})
      BY <2>1, <2>2
  <2>4. LeastOf(tm, {}) = NoTimeout /\ NegOf(tm, {}) = None
    <3>1. {tm[id] : id \in {}} \cup {NoTimeout} = {NoTimeout}
        OBVIOUS
    <3>2. Min({NoTimeout}) = NoTimeout
        BY MinIsLeast, TimeoutRange
    <3>3. LeastOf(tm, {}) = NoTimeout
        BY <3>1, <3>2 DEF LeastOf
    <3> QED
        BY <3>3, TimeoutRange DEF NegOf
  <2>5. AllOf(tm, {}) = [pos_trans_alarms |-> {IdleAlarm(NewDetector, tm[id], id) : id \in {}},
                         neg_trans_alarm  |-> None, min_timeout |-> NoTimeout,
                         server |-> {IdleAlarm(NewDetector, tm[id], id) : id \in {}}
                                    \cup ({None} \ {None})]
    <3>1. \A id \in {} : tm[id] \in Timeouts
        OBVIOUS
    <3>2. {} \in SUBSET Data
        OBVIOUS
    <3> QED
        BY <2>4, <3>1, <3>2, AllOfValue
  <2>6. AllOf(tm, {}) = NewDetector
      BY <2>5 DEF NewDetector
  <2> QED
      BY <2>3, <2>6
<1>3. ASSUME NEW s \in SUBSET (1 .. n), s # {} PROVE G[s] = Step(s)
  <2> DEFINE last == Max(s)
             rest == s \ {last}
             earlier == {order[i] : i \in rest}
  <2>1. last \in s /\ last \in 1 .. n
      BY <1>1, <1>3, LastPlace
  <2> HIDE DEF last
  <2>2. order[last] \in ids /\ earlier \in SUBSET Data /\ earlier \subseteq ids
      BY <2>1 DEF Places
  <2>3. order[last] \notin earlier
      BY <2>1 DEF Places
  <2>4. {order[i] : i \in s} = earlier \cup {order[last]}
      BY <2>1
  <2>5. G[s] = AllOf(tm, earlier \cup {order[last]})
    <3>1. G[s] = AllOf(tm, {order[i] : i \in s})
        OBVIOUS
    <3> HIDE DEF G, earlier
    <3> QED
        BY <2>4, <3>1
  <2>6. G[rest] = AllOf(tm, earlier)
      OBVIOUS
  <2> HIDE DEF earlier
  <2>7. AddIdleTimeout(AllOf(tm, earlier), tm[order[last]], order[last])
          = AllOf(tm, earlier \cup {order[last]})
      BY <2>2, <2>3, AddOneMore
  <2>8. tm[order[last]] = commands[order[last]].timeout_ms
      BY <2>2
  <2> HIDE DEF G, rest
  <2>9. G[s] = AddIdleTimeout(G[rest], commands[order[last]].timeout_ms, order[last])
      BY <2>5, <2>6, <2>7, <2>8
  <2> QED
      BY <2>9 DEF rest, last
<1>4. \A s \in SUBSET (1 .. n) : G[s] = IF s = {} THEN NewDetector ELSE Step(s)
  <2> HIDE DEF G, Step
  <2> QED
      BY <1>2, <1>3
<1>5. G = [s \in SUBSET (1 .. n) |-> IF s = {} THEN NewDetector ELSE Step(s)]
  <2>1. G = [s \in SUBSET (1 .. n) |-> G[s]]
      OBVIOUS
  <2> HIDE DEF G, Step
  <2> QED
      BY <1>4, <2>1
<1> HIDE DEF G
<1>6. IsFold(G, NewDetector, order)
    BY <1>1, <1>5 DEF IsFold
<1> QED
    BY <1>6 DEF G

\* There is one solution of the equation of the fold.
LEMMA FoldIsUnique ==
    ASSUME NEW n \in Nat, NEW order, DOMAIN order = 1 .. n, NEW base,
           NEW f, NEW g, IsFold(f, base, order), IsFold(g, base, order)
    PROVE  f = g
<1> DEFINE Wrong == {s \in SUBSET (1 .. n) : f[s] # g[s]}
           Sizes == {Cardinality(s) : s \in Wrong}
<1>1. IsFiniteSet(1 .. n)
    BY FS_Interval
<1>2. \A s \in SUBSET (1 .. n) : IsFiniteSet(s) /\ Cardinality(s) \in Nat
  <2>1. ASSUME NEW s \in SUBSET (1 .. n) PROVE IsFiniteSet(s)
      BY <1>1, FS_Subset
  <2> QED
      BY <2>1, FS_CardinalityType
<1>3. Sizes \subseteq Nat
    BY <1>2
<1>4. Wrong = {}
  <2>1. SUFFICES ASSUME Wrong # {} PROVE FALSE
      OBVIOUS
  <2>2. Sizes # {}
      BY <2>1
  <2>3. Min(Sizes) \in Sizes /\ \A k \in Sizes : Min(Sizes) <= k
    <3> HIDE DEF Sizes
    <3> QED
        BY <1>3, <2>2, MinIsLeast
  <2>4. PICK s \in Wrong : Cardinality(s) = Min(Sizes)
      BY <2>3
  <2>5. s \in SUBSET (1 .. n) /\ f[s] # g[s]
      OBVIOUS
  <2>6. /\ f[s] = IF s = {} THEN base
                  ELSE AddIdleTimeout(f[s \ {Max(s)}], commands[order[Max(s)]].timeout_ms,
                                      order[Max(s)])
        /\ g[s] = IF s = {} THEN base
                  ELSE AddIdleTimeout(g[s \ {Max(s)}], commands[order[Max(s)]].timeout_ms,
                                      order[Max(s)])
      BY <2>5 DEF IsFold
  <2>7. s # {} /\ f[s \ {Max(s)}] # g[s \ {Max(s)}]
      BY <2>5, <2>6
  <2>8. Max(s) \in s
      BY <2>5, <2>7, LastPlace
  <2>9. s \ {Max(s)} \in Wrong
      BY <2>5, <2>7
  <2>10. Cardinality(s \ {Max(s)}) = Cardinality(s) - 1
      BY <1>2, <2>5, <2>8, FS_RemoveElement
  <2>11. Cardinality(s \ {Max(s)}) \in Sizes
      BY <2>9
  <2>12. Min(Sizes) <= Cardinality(s) - 1
      BY <2>3, <2>10, <2>11
  <2> QED
      BY <1>2, <2>4, <2>5, <2>12
<1>5. \A s \in SUBSET (1 .. n) : f[s] = g[s]
    BY <1>4
<1>6. /\ f = [s \in SUBSET (1 .. n) |-> f[s]]
      /\ g = [s \in SUBSET (1 .. n) |-> g[s]]
    BY DEF IsFold
<1> QED
    BY <1>5, <1>6

\* A sequence without repetition of all elements of a finite set.
LEMMA OrderOfAll ==
    ASSUME NEW ids, IsFiniteSet(ids), NEW order \in SetToSeqs(ids)
    PROVE  /\ Places(order, Cardinality(ids), ids)
           /\ {order[i] : i \in 1 .. Cardinality(ids)} = ids
<1> DEFINE n == Cardinality(ids)
           seen == {order[i] : i \in 1 .. n}
<1>1. n \in Nat
    BY FS_CardinalityType
<1>2. Places(order, n, ids)
    BY <1>1 DEF SetToSeqs, Places
<1>3. IsFiniteSet(1 .. n) /\ Cardinality(1 .. n) = n
  <2> HIDE DEF n
  <2>1. 1 \in Int /\ n \in Int /\ n - 1 + 1 = n /\ (1 > n => n = 0)
      BY <1>1
  <2> QED
      BY <2>1, FS_Interval
<1>4. order \in Injection(1 .. n, ids)
  <2> HIDE DEF n
  <2> QED
      BY <1>2 DEF Places, Injection, IsInjective
<1>5. order \in Surjection(1 .. n, ids)
  <2> HIDE DEF n
  <2>1. Cardinality(1 .. n) = Cardinality(ids)
      BY <1>3 DEF n
  <2> QED
      BY <1>4, <2>1, FS_Injection
<1>6. seen = ids
  <2> HIDE DEF n
  <2> QED
      BY <1>5, <1>2 DEF Surjection, Places
<1> QED
    BY <1>2, <1>6

\* In any order, enable_all_timeouts leaves the alarms of all ids.
LEMMA AnyOrder ==
    ASSUME Inv, NEW order \in SetToSeqs(TimeoutIds(commands))
    PROVE  FoldLeft(LAMBDA d, id : AddIdleTimeout(d, commands[id].timeout_ms, id),
                    ClearTimeouts(det), order)
             = AddIdleTimeouts(ClearTimeouts(det), TimeoutValues(commands))
<1> DEFINE ids == TimeoutIds(commands)
           tm  == TimeoutValues(commands)
           n   == Cardinality(ids)
           G   == [s \in SUBSET (1 .. n) |-> AllOf(tm, {order[i] : i \in s})]
<1>1. ids \in SUBSET Data /\ \A id \in ids : tm[id] \in Timeouts
                                             /\ tm[id] = commands[id].timeout_ms
    BY DEF Inv, TypeOK, TimeoutIds, TimeoutValues
<1>2. IsFiniteSet(ids)
    BY <1>1, DataAssumption, FS_Subset
<1>3. ClearTimeouts(det) = NewDetector
    BY ClearIsNew DEF Inv
<1> HIDE DEF tm
<1>4. Places(order, n, ids) /\ {order[i] : i \in 1 .. n} = ids
    BY <1>2, OrderOfAll
<1>5. n \in Nat /\ DOMAIN order = 1 .. n
    BY <1>4 DEF Places
<1> HIDE DEF ids, n
<1>6. IsFold(G, NewDetector, order)
    BY <1>1, <1>4, AllOfIsFold
<1> DEFINE iter == CHOOSE f : IsFold(f, NewDetector, order)
<1>7. IsFold(iter, NewDetector, order)
  <2> HIDE DEF G
  <2> QED
      BY <1>6
<1>8. iter = G
  <2> HIDE DEF iter, G
  <2> QED
      BY <1>5, <1>6, <1>7, FoldIsUnique
<1>9. G[1 .. n] = AllOf(tm, ids)
  <2>1. G[1 .. n] = AllOf(tm, {order[i] : i \in 1 .. n})
      OBVIOUS
  <2> HIDE DEF G
  <2> QED
      BY <1>4, <2>1
<1>10. AllOf(tm, ids) = AddIdleTimeouts(NewDetector, tm)
  <2>1. Some(tm, ids) = tm
      BY DEF Some, tm, ids, TimeoutValues
  <2> QED
      BY <2>1 DEF AllOf
<1>11. FoldLeft(LAMBDA d, id : AddIdleTimeout(d, commands[id].timeout_ms, id),
                NewDetector, order) = iter[DOMAIN order]
    BY FoldIsIter
<1> HIDE DEF iter, G
<1>12. iter[DOMAIN order] = AddIdleTimeouts(NewDetector, tm)
    BY <1>5, <1>8, <1>9, <1>10
<1> QED
    BY <1>3, <1>11, <1>12 DEF tm

\* enable_all_timeouts leaves the same alarms in whatever order it walks the hash
\* table of commands.
THEOREM AddingOrderIrrelevant == Spec => []EnableOrderIrrelevant
<1>1. Inv => EnableOrderIrrelevant
    BY AnyOrder DEF EnableOrderIrrelevant
<1>2. QED
    BY <1>1, InvariantHolds, PTL

\* Disabling leaves nothing behind, and nothing is added until timeouts are enabled.
NewWhileDisabled == ~ timeouts_are_enabled => det = NewDetector

LEMMA EditKeepsNew ==
    ASSUME Inv, NewWhileDisabled,
           AddAction \/ \E id \in Data : SetTrigger(id) \/ RemoveAction(id)
    PROVE  NewWhileDisabled'
<1>1. timeouts_are_enabled' = timeouts_are_enabled
    BY DEF AddAction, SetTrigger, RemoveAction
<1>2. SUFFICES ASSUME ~ timeouts_are_enabled PROVE det' = det
    BY <1>1 DEF NewWhileDisabled
<1>3. timeouts_should_be_disabled
    BY <1>2 DEF Inv, EnabledIffAllowed
<1>4. \A d, id, t : EnabledForNew(d, id, t) = d
    BY <1>3 DEF EnabledForNew
<1>5. \A d, id : DisabledForDeleted(d, id) = d
    BY <1>2 DEF DisabledForDeleted
<1>6. CASE AddAction
    BY <1>4, <1>6 DEF AddAction
<1>7. CASE \E id \in Data : SetTrigger(id)
    BY <1>4, <1>5, <1>7 DEF SetTrigger
<1>8. CASE \E id \in Data : RemoveAction(id)
    BY <1>5, <1>8 DEF RemoveAction
<1>9. QED
    BY <1>6, <1>7, <1>8

LEMMA StepKeepsNew ==
    ASSUME Inv, NewWhileDisabled, [Next]_vars
    PROVE  NewWhileDisabled'
<1>1. CASE disable_all_timeouts
    BY <1>1, ClearIsNew DEF disable_all_timeouts, NewWhileDisabled, Inv
<1>2. CASE enable_all_timeouts
    BY <1>2 DEF enable_all_timeouts, NewWhileDisabled
<1>3. CASE UNCHANGED <<det, timeouts_are_enabled>>
    BY <1>3 DEF NewWhileDisabled
<1>4. CASE XServer \/ Deliver \/ Wake \/ UNCHANGED vars
    BY <1>3, <1>4 DEF XServer, managerVars, Deliver, DeliverTimeout, DropDeleted,
                      DeliverResume, Wake, vars
<1>5. CASE AudioRunning \/ AudioStopped \/ SetIgnoreAudio \/ Pause \/ Unpause
    BY <1>1, <1>2, <1>3, <1>5 DEF AudioRunning, AudioStopped, SetIgnoreAudio, Pause, Unpause
<1>6. QED
    BY <1>4, <1>5, EditKeepsNew DEF Next

\* Whenever timeouts become enabled, the detector is what the loop of
\* add_idle_timeout calls makes of the one it finds, in whatever order the loop
\* walks the commands.
EnabledByLoop ==
    ~ timeouts_are_enabled /\ timeouts_are_enabled' =>
        \A order \in SetToSeqs(TimeoutIds(commands)) :
            det' = FoldLeft(LAMBDA d, id : AddIdleTimeout(d, commands[id].timeout_ms, id),
                            det, order)

LEMMA StepEnablesByLoop ==
    ASSUME Inv, NewWhileDisabled, [Next]_vars
    PROVE  EnabledByLoop
<1>1. SUFFICES ASSUME ~ timeouts_are_enabled, timeouts_are_enabled',
                      NEW order \in SetToSeqs(TimeoutIds(commands))
               PROVE  det' = FoldLeft(LAMBDA d, id :
                                 AddIdleTimeout(d, commands[id].timeout_ms, id), det, order)
    BY DEF EnabledByLoop
<1>2. enable_all_timeouts \/ disable_all_timeouts
      \/ timeouts_are_enabled' = timeouts_are_enabled
    BY DEF Next, XServer, managerVars, Deliver, DeliverTimeout, DropDeleted,
           DeliverResume, Wake, vars, AudioRunning, AudioStopped, SetIgnoreAudio,
           Pause, Unpause, AddAction, SetTrigger, RemoveAction
<1>3. det' = AddIdleTimeouts(det, TimeoutValues(commands))
    BY <1>1, <1>2 DEF enable_all_timeouts, disable_all_timeouts
<1>4. ClearTimeouts(det) = det
    BY <1>1, ClearIsNew DEF Inv, NewWhileDisabled
<1>5. QED
    BY <1>3, <1>4, AnyOrder

\* The model's single step of enabling stands for the loop of the code.
THEOREM EnablingIsTheLoop == Spec => [][EnabledByLoop]_vars
<1>1. Init => NewWhileDisabled
    BY DEF Init, NewWhileDisabled
<1>2. Inv /\ NewWhileDisabled /\ [Next]_vars => NewWhileDisabled'
    BY StepKeepsNew
<1>3. Inv /\ NewWhileDisabled /\ [Next]_vars => [EnabledByLoop]_vars
    BY StepEnablesByLoop
<1>4. QED
    BY <1>1, <1>2, <1>3, InvariantHolds, PTL DEF Spec

-----------------------------------------------------------------------------
(* The events in flight.  A handler that dispatches none of them disturbs  *)
(* nothing; a dispatch moves the others one place forward; a tick appends   *)
(* idle events and a user activity, when the resume alarm is due, a resume. *)

LEMMA InitQueue == ASSUME Init PROVE QueueInv
BY DEF Init, QueueInv, Q1, Q2, Q3, Q4

LEMMA ClientQueue == ASSUME QueueInv, ClientStep PROVE QueueInv'
<1>1. \A i \in DOMAIN xevents' : IsLive(i)' => i \in DOMAIN xevents /\ IsLive(i)
    BY DEF ClientStep, IsLive
<1>2. \A i : /\ ResumeQueuedAfter(i)' <=> ResumeQueuedAfter(i)
             /\ ResumeQueuedBefore(i)' <=> ResumeQueuedBefore(i)
    BY DEF ClientStep, ResumeQueuedAfter, ResumeQueuedBefore
<1>3. /\ xevents' = xevents /\ idle' = idle /\ owed' \subseteq owed
      /\ \A a \in det.pos_trans_alarms : a.data \in owed' => a \in det'.pos_trans_alarms
    BY DEF ClientStep
<1>4. Q1'
    BY <1>2, <1>3 DEF QueueInv, Q1
<1>5. Q2'
    BY <1>1, <1>2, <1>3 DEF QueueInv, Q2
<1>6. Q3'
    BY <1>1, <1>2, <1>3 DEF QueueInv, Q3
<1>7. Q4'
    BY <1>1, <1>3 DEF QueueInv, Q4
<1>8. QED
    BY <1>4, <1>5, <1>6, <1>7 DEF QueueInv

LEMMA DeliverQueue == ASSUME Inv, QueueInv, Deliver PROVE QueueInv'
<1> DEFINE n == Len(xevents)
<1>1. /\ xevents # <<>> /\ xevents' = Tail(xevents) /\ idle' = idle /\ det' = det
    BY DEF Deliver, DeliverTimeout, DropDeleted, DeliverResume, managerVars
<1>2. xevents \in Seq(Events)
    BY DEF Inv, TypeOK, DetectorTypeOK
<1>3. /\ n \in Nat \ {0} /\ DOMAIN xevents = 1 .. n /\ DOMAIN xevents' = 1 .. n - 1
      /\ \A i \in 1 .. n - 1 : xevents'[i] = xevents[i + 1]
      /\ Head(xevents) = xevents[1]
    BY <1>1, <1>2, TailEvents
<1> HIDE DEF n
<1>4. \A i \in 1 .. n - 1 : i + 1 \in 1 .. n /\ (IsLive(i)' <=> IsLive(i + 1))
    BY <1>1, <1>3 DEF IsLive
<1>5. ASSUME NEW i \in 0 .. n - 1, ResumeQueuedAfter(i + 1) PROVE ResumeQueuedAfter(i)'
  <2>1. PICK j \in 1 .. n : j > i + 1 /\ IsResume(xevents[j])
      BY <1>3, <1>5 DEF ResumeQueuedAfter
  <2>2. j - 1 \in 1 .. n - 1 /\ j - 1 > i /\ xevents'[j - 1] = xevents[j]
      BY <1>3, <2>1
  <2>3. QED
      BY <1>3, <2>1, <2>2 DEF ResumeQueuedAfter
<1>6. ASSUME IsIdle(xevents[1]), NEW i \in 1 .. n - 1, ResumeQueuedBefore(i + 1)
      PROVE  ResumeQueuedBefore(i)'
  <2>1. PICK j \in 1 .. n : j < i + 1 /\ IsResume(xevents[j])
      BY <1>3, <1>6 DEF ResumeQueuedBefore
  <2>2. j # 1
      BY <1>6, <2>1 DEF IsResume
  <2>3. j - 1 \in 1 .. n - 1 /\ j - 1 < i /\ xevents'[j - 1] = xevents[j]
      BY <1>3, <2>1, <2>2
  <2>4. QED
      BY <1>3, <2>1, <2>3 DEF ResumeQueuedBefore
<1>7. ASSUME IsIdle(xevents[1]), ResumeQueuedAfter(0) PROVE ResumeQueuedAfter(1)
    BY <1>3, <1>7 DEF ResumeQueuedAfter, IsResume
<1>8. Q2'
  <2>1. SUFFICES ASSUME NEW i \in 1 .. n - 1, IsLive(i)'
                 PROVE  (idle >= xevents[i].alarm.wait)' \/ ResumeQueuedAfter(i)'
      BY <1>3 DEF Q2
  <2>2. idle >= xevents[i + 1].alarm.wait \/ ResumeQueuedAfter(i + 1)
      BY <1>3, <1>4, <2>1 DEF QueueInv, Q2
  <2>3. QED
      BY <1>1, <1>3, <1>5, <2>2
<1>9. Q4'
  <2>1. SUFFICES ASSUME NEW i \in 1 .. n - 1, NEW k \in 1 .. n - 1,
                        i < k, IsLive(i)', IsLive(k)',
                        xevents'[i].alarm = xevents'[k].alarm
                 PROVE  \E j \in i + 1 .. k - 1 : IsResume(xevents'[j])
      BY <1>3 DEF Q4
  <2>2. PICK j \in i + 2 .. k : IsResume(xevents[j])
    <3>1. /\ i + 1 \in 1 .. n /\ k + 1 \in 1 .. n /\ i + 1 < k + 1
          /\ IsLive(i + 1) /\ IsLive(k + 1)
          /\ xevents[i + 1].alarm = xevents[k + 1].alarm
        BY <1>3, <1>4, <2>1
    <3>2. \E j \in (i + 1) + 1 .. (k + 1) - 1 : IsResume(xevents[j])
        BY <1>3, <3>1 DEF QueueInv, Q4
    <3>3. (i + 1) + 1 = i + 2 /\ (k + 1) - 1 = k
        OBVIOUS
    <3>4. QED
        BY <3>2, <3>3
  <2>3. /\ j - 1 \in i + 1 .. k - 1 /\ j - 1 \in 1 .. n - 1 /\ (j - 1) + 1 = j
      BY <1>3
  <2>4. QED
      BY <1>3, <2>2, <2>3
<1>10. ASSUME IsIdle(xevents[1]), NEW id \in owed
       PROVE  /\ \E a \in det.pos_trans_alarms :
                    a.data = id /\ (idle >= a.wait \/ ResumeQueuedAfter(0)')
              /\ \A i \in 1 .. n - 1 :
                    IsLive(i)' /\ xevents'[i].alarm.data = id => ResumeQueuedBefore(i)'
  <2>1. PICK a \in det.pos_trans_alarms :
            a.data = id /\ (idle >= a.wait \/ ResumeQueuedAfter(0))
      BY <1>10 DEF QueueInv, Q1
  <2>2. ResumeQueuedAfter(0) => ResumeQueuedAfter(0)'
    <3>1. 0 \in 0 .. n - 1 /\ 0 + 1 = 1
        BY <1>3
    <3>2. QED
        BY <1>5, <1>7, <1>10, <3>1
  <2>3. ASSUME NEW i \in 1 .. n - 1, IsLive(i)', xevents'[i].alarm.data = id
        PROVE  ResumeQueuedBefore(i)'
    <3>1. ResumeQueuedBefore(i + 1)
        BY <1>3, <1>4, <1>10, <2>3 DEF QueueInv, Q3
    <3>2. QED
        BY <1>6, <1>10, <3>1
  <2>4. QED
      BY <2>1, <2>2, <2>3
<1>11. Q1' /\ Q3'
  <2>1. ASSUME NEW id \in Data, DeliverTimeout(id) PROVE Q1' /\ Q3'
    <3>1. /\ IsIdle(xevents[1]) /\ xevents[1].alarm \in det.pos_trans_alarms
          /\ xevents[1].alarm.data = id /\ owed' = owed \cup {id}
        BY <1>3, <2>1 DEF DeliverTimeout, IsTimeoutFor
    <3>2. idle >= xevents[1].alarm.wait \/ ResumeQueuedAfter(0)'
      <4>1. idle >= xevents[1].alarm.wait \/ ResumeQueuedAfter(1)
          BY <1>3, <3>1 DEF QueueInv, Q2, IsLive
      <4>2. 0 \in 0 .. n - 1 /\ 0 + 1 = 1
          BY <1>3
      <4>3. QED
          BY <1>5, <4>1, <4>2
    <3>3. ASSUME NEW i \in 1 .. n - 1, IsLive(i)', xevents'[i].alarm.data = id
          PROVE  ResumeQueuedBefore(i)'
      <4>1. IsLive(1) /\ IsLive(i + 1) /\ xevents[1].alarm = xevents[i + 1].alarm
        <5>1. IsLive(1) /\ IsLive(i + 1) /\ xevents[i + 1].alarm.data = id
            BY <1>3, <1>4, <3>1, <3>3 DEF IsLive
        <5>2. QED
            BY <3>1, <5>1 DEF IsLive, Inv, GoodDetector
      <4>2. 1 \in 1 .. n /\ i + 1 \in 1 .. n /\ 1 < i + 1 /\ 1 + 1 = 2 /\ (i + 1) - 1 = i
          BY <1>3
      <4>3. PICK j \in 2 .. i : IsResume(xevents[j])
        <5>1. \E j \in 1 + 1 .. (i + 1) - 1 : IsResume(xevents[j])
            BY <1>3, <4>1, <4>2 DEF QueueInv, Q4
        <5>2. QED
            BY <4>2, <5>1
      <4>4. j - 1 \in 1 .. n - 1 /\ j - 1 < i /\ xevents'[j - 1] = xevents[j]
          BY <1>3, <4>3
      <4>5. QED
          BY <1>3, <4>3, <4>4 DEF ResumeQueuedBefore
    <3>4. Q1'
        BY <1>1, <1>10, <3>1, <3>2 DEF Q1
    <3>5. Q3'
        BY <1>3, <1>10, <3>1, <3>3 DEF Q3
    <3>6. QED
        BY <3>4, <3>5
  <2>2. CASE DropDeleted
    <3>1. IsIdle(xevents[1]) /\ owed' = owed
        BY <1>3, <2>2 DEF DropDeleted, IsForDeletedAlarm, managerVars
    <3>2. QED
        BY <1>1, <1>3, <1>10, <3>1 DEF Q1, Q3
  <2>3. CASE DeliverResume
    <3>1. owed' = {}
        BY <2>3 DEF DeliverResume, handle_activity_resumed
    <3>2. QED
        BY <3>1 DEF Q1, Q3
  <2>4. QED
      BY <2>1, <2>2, <2>3 DEF Deliver
<1>12. QED
    BY <1>8, <1>9, <1>11 DEF QueueInv

LEMMA TickQueue ==
    ASSUME Inv, QueueInv, Tick, UNCHANGED det, UNCHANGED owed PROVE QueueInv'
<1> DEFINE n   == Len(xevents)
           n2  == Len(xevents')
           due == {a \in det.server : a.data # NULL /\ a.wait = idle + 1}
<1>1. /\ idle' = idle + 1 /\ idle \in Nat /\ idle + 1 \in Nat /\ Send(due, idle + 1)
      /\ det' = det /\ owed' = owed /\ DetectorTypeOK /\ due \in SUBSET det.server
    BY DEF Tick, Inv, TypeOK, DetectorTypeOK
<1>2. due \subseteq det.pos_trans_alarms
    BY DEF Inv, GoodDetector, Detectors, ResumeAlarms, None
<1>3. \A a \in det.pos_trans_alarms : a.wait \in Nat
    BY TimeoutRange DEF Inv, GoodDetector, Detectors, IdleAlarms
<1>4. \A a \in due : a.wait = idle + 1
    OBVIOUS
<1> HIDE DEF due
<1>5. /\ n \in Nat /\ n2 \in Nat /\ DOMAIN xevents = 1 .. n /\ DOMAIN xevents' = 1 .. n2
      /\ n <= n2
      /\ \A i \in 1 .. n : xevents'[i] = xevents[i]
      /\ \A i \in n + 1 .. n2 :
            xevents'[i].alarm \in due /\ xevents'[i].counter_value = idle + 1
      /\ \A i, k \in n + 1 .. n2 : i # k => xevents'[i].alarm # xevents'[k].alarm
    BY <1>1, SendQueue
<1> HIDE DEF n, n2
<1>6. \A i \in 1 .. n : IsLive(i)' <=> IsLive(i)
    BY <1>1, <1>5 DEF IsLive
<1>7. \A i \in 1 .. n2 : i \in 1 .. n \/ i \in n + 1 .. n2
    BY <1>5
<1>8. /\ \A i : ResumeQueuedAfter(i) => ResumeQueuedAfter(i)'
      /\ \A i : ResumeQueuedBefore(i) => ResumeQueuedBefore(i)'
  <2>1. \A j \in 1 .. n : j \in 1 .. n2
      BY <1>5
  <2>2. QED
      BY <1>5, <2>1 DEF ResumeQueuedAfter, ResumeQueuedBefore
<1>9. Q1'
  <2>1. ASSUME NEW id \in owed
        PROVE  \E a \in det.pos_trans_alarms :
                  a.data = id /\ (idle + 1 >= a.wait \/ ResumeQueuedAfter(0)')
    <3>1. PICK a \in det.pos_trans_alarms :
              a.data = id /\ (idle >= a.wait \/ ResumeQueuedAfter(0))
        BY <2>1 DEF QueueInv, Q1
    <3>2. idle >= a.wait => idle + 1 >= a.wait
        BY <1>1, <1>3
    <3>3. QED
        BY <1>8, <3>1, <3>2
  <2>2. QED
      BY <1>1, <2>1 DEF Q1
<1>10. Q2'
  <2>1. SUFFICES ASSUME NEW i \in 1 .. n2, IsLive(i)'
                 PROVE  idle + 1 >= xevents'[i].alarm.wait \/ ResumeQueuedAfter(i)'
      BY <1>1, <1>5 DEF Q2
  <2>2. CASE i \in 1 .. n
    <3>1. IsLive(i) /\ xevents'[i] = xevents[i]
        BY <1>5, <1>6, <2>1, <2>2
    <3>2. idle >= xevents[i].alarm.wait \/ ResumeQueuedAfter(i)
        BY <1>5, <2>2, <3>1 DEF QueueInv, Q2
    <3>3. xevents[i].alarm.wait \in Nat
        BY <1>3, <3>1 DEF IsLive
    <3>4. QED
        BY <1>1, <1>8, <3>1, <3>2, <3>3
  <2>3. CASE i \in n + 1 .. n2
      BY <1>1, <1>4, <1>5, <2>3
  <2>4. QED
      BY <1>7, <2>2, <2>3
<1>11. Q3'
  <2>1. SUFFICES ASSUME NEW i \in 1 .. n2, IsLive(i)', xevents'[i].alarm.data \in owed
                 PROVE  ResumeQueuedBefore(i)'
      BY <1>1, <1>5 DEF Q3
  <2>2. CASE i \in 1 .. n
      BY <1>5, <1>6, <1>8, <2>1, <2>2 DEF QueueInv, Q3
  <2>3. CASE i \in n + 1 .. n2
    <3>1. PICK a \in det.pos_trans_alarms :
              /\ a.data = xevents'[i].alarm.data
              /\ idle >= a.wait \/ ResumeQueuedAfter(0)
        BY <2>1 DEF QueueInv, Q1
    <3>2. a = xevents'[i].alarm
        BY <1>2, <1>5, <2>3, <3>1 DEF Inv, GoodDetector
    <3>3. a.wait = idle + 1
        BY <1>4, <1>5, <2>3, <3>2
    <3>4. PICK j \in 1 .. n : IsResume(xevents[j])
        BY <1>1, <1>5, <3>1, <3>3 DEF ResumeQueuedAfter
    <3>5. j \in 1 .. n2 /\ j < i /\ xevents'[j] = xevents[j]
        BY <1>5, <2>3
    <3>6. QED
        BY <1>5, <3>4, <3>5 DEF ResumeQueuedBefore
  <2>4. QED
      BY <1>7, <2>2, <2>3
<1>12. Q4'
  <2>1. SUFFICES ASSUME NEW i \in 1 .. n2, NEW k \in 1 .. n2,
                        i < k, IsLive(i)', IsLive(k)',
                        xevents'[i].alarm = xevents'[k].alarm
                 PROVE  \E j \in i + 1 .. k - 1 : IsResume(xevents'[j])
      BY <1>5 DEF Q4
  <2>2. CASE i \in 1 .. n /\ k \in 1 .. n
    <3>1. PICK j \in i + 1 .. k - 1 : IsResume(xevents[j])
        BY <1>5, <1>6, <2>1, <2>2 DEF QueueInv, Q4
    <3>2. j \in 1 .. n
        BY <1>5, <2>2
    <3>3. QED
        BY <1>5, <3>1, <3>2
  <2>3. CASE i \in 1 .. n /\ k \in n + 1 .. n2
    <3>1. IsLive(i) /\ xevents'[i] = xevents[i] /\ xevents[i].alarm.wait = idle + 1
        BY <1>4, <1>5, <1>6, <2>1, <2>3
    <3>2. ResumeQueuedAfter(i)
        BY <1>1, <1>5, <2>3, <3>1 DEF QueueInv, Q2
    <3>3. PICK j \in 1 .. n : j > i /\ IsResume(xevents[j])
        BY <1>5, <3>2 DEF ResumeQueuedAfter
    <3>4. j \in i + 1 .. k - 1 /\ xevents'[j] = xevents[j]
        BY <1>5, <2>3, <3>3
    <3>5. QED
        BY <3>3, <3>4
  <2>4. CASE i \in n + 1 .. n2
    <3>1. k \in n + 1 .. n2 /\ i # k
        BY <1>5, <2>1, <2>4
    <3>2. QED
        BY <1>5, <2>1, <2>4, <3>1
  <2>5. QED
      BY <1>7, <2>2, <2>3, <2>4
<1>13. QED
    BY <1>9, <1>10, <1>11, <1>12 DEF QueueInv

LEMMA UserActivityQueue ==
    ASSUME ShortLag, Inv, QueueInv, UserActivity, UNCHANGED det, UNCHANGED owed
    PROVE  QueueInv'
<1> DEFINE n   == Len(xevents)
           n2  == Len(xevents')
           neg == det.neg_trans_alarm
<1>1. PICK value \in Lags :
          /\ value < idle /\ idle' = value
          /\ Send({a \in det.server : /\ a.data = NULL
                                      /\ idle > a.wait
                                      /\ value <= a.wait}, value)
    BY DEF UserActivity
<1> DEFINE due == {a \in det.server : /\ a.data = NULL
                                      /\ idle > a.wait
                                      /\ value <= a.wait}
<1>2. /\ Send(due, value) /\ value \in Nat /\ idle \in Nat /\ due \in SUBSET det.server
      /\ det' = det /\ owed' = owed /\ DetectorTypeOK
    BY <1>1, BoundAssumption DEF Inv, TypeOK, DetectorTypeOK
<1>3. \A a \in due : neg # None /\ a = neg /\ idle > neg.wait
  <2>1. \A a \in det.pos_trans_alarms : a.data # NULL
      BY DataAssumption DEF Inv, GoodDetector, Detectors, IdleAlarms, NULL
  <2>2. QED
      BY <2>1 DEF Inv, GoodDetector
<1>4. \A a \in det.pos_trans_alarms :
         /\ neg # None /\ neg.wait \in Nat /\ neg.wait < a.wait /\ a.wait \in Nat
  <2>1. ResumeAlarmCovers /\ \A a \in det.pos_trans_alarms : a.wait \in Nat
      BY GoodDetectorCovers, TimeoutRange DEF Inv, GoodDetector, Detectors, IdleAlarms
  <2>2. neg # None => neg.wait \in Nat
      BY DEF Inv, GoodDetector, Detectors, ResumeAlarms
  <2>3. QED
      BY <2>1, <2>2 DEF ResumeAlarmCovers
<1>5. neg # None => /\ value < neg.wait /\ neg.data = NULL /\ neg \in det.server
  <2>1. SUFFICES ASSUME neg # None
                 PROVE  value < neg.wait /\ neg.data = NULL /\ neg \in det.server
      OBVIOUS
  <2>2. det.min_timeout \in Timeouts /\ neg = ResumeAlarm(det.min_timeout - 1)
      BY <2>1 DEF Inv, GoodDetector, MinimumTracked
  <2>3. value + 1 < det.min_timeout /\ det.min_timeout \in Nat
      BY <2>2, TimeoutRange DEF ShortLag
  <2>4. neg.wait = det.min_timeout - 1 /\ neg.data = NULL
      BY <2>2 DEF ResumeAlarm, Alarm
  <2>5. neg \in det.server
      BY <2>1 DEF Inv, GoodDetector
  <2>6. QED
      BY <1>2, <2>3, <2>4, <2>5
<1>6. neg # None /\ idle > neg.wait => neg \in due
  <2>1. SUFFICES ASSUME neg # None, idle > neg.wait PROVE neg \in due
      OBVIOUS
  <2>2. value <= neg.wait
    <3>1. neg.wait \in Nat
        BY <2>1 DEF Inv, GoodDetector, Detectors, ResumeAlarms
    <3>2. QED
        BY <1>2, <1>5, <2>1, <3>1
  <2>3. QED
      BY <1>5, <2>1, <2>2
<1>7. neg = None => due = {}
    BY <1>3
<1> HIDE DEF due
<1>8. /\ n \in Nat /\ n2 \in Nat /\ DOMAIN xevents = 1 .. n /\ DOMAIN xevents' = 1 .. n2
      /\ n <= n2
      /\ \A i \in 1 .. n : xevents'[i] = xevents[i]
      /\ \A i \in n + 1 .. n2 :
            xevents'[i].alarm \in due /\ xevents'[i].counter_value = value
      /\ \A a \in due : \E i \in n + 1 .. n2 : xevents'[i].alarm = a
    BY <1>2, SendQueue
<1> HIDE DEF n, n2
<1>9. \A i \in 1 .. n : IsLive(i)' <=> IsLive(i)
    BY <1>2, <1>8 DEF IsLive
<1>10. \A i \in n + 1 .. n2 : IsResume(xevents'[i])
    BY <1>3, <1>5, <1>7, <1>8 DEF IsResume, IsIdle
<1>11. \A i \in 1 .. n2 : IsLive(i)' => i \in 1 .. n /\ IsLive(i)
  <2>1. \A i \in 1 .. n2 : i \in 1 .. n \/ i \in n + 1 .. n2
      BY <1>8
  <2>2. QED
      BY <1>9, <1>10, <2>1 DEF IsLive, IsResume
<1>12. /\ \A i : ResumeQueuedAfter(i) => ResumeQueuedAfter(i)'
       /\ \A i : ResumeQueuedBefore(i) => ResumeQueuedBefore(i)'
  <2>1. \A j \in 1 .. n : j \in 1 .. n2
      BY <1>8
  <2>2. QED
      BY <1>8, <2>1 DEF ResumeQueuedAfter, ResumeQueuedBefore
\* Either the resume alarm fires now, or no alarm's time had come.
<1>13. ASSUME NEW a \in det.pos_trans_alarms, NEW i \in 0 .. n,
              idle >= a.wait \/ ResumeQueuedAfter(i)
       PROVE  ResumeQueuedAfter(i)'
  <2>1. CASE ResumeQueuedAfter(i)
      BY <1>12, <2>1
  <2>2. CASE idle >= a.wait
    <3>1. neg \in due
        BY <1>2, <1>4, <1>6, <2>2
    <3>2. PICK j \in n + 1 .. n2 : xevents'[j].alarm = neg
        BY <1>8, <3>1
    <3>3. j \in 1 .. n2 /\ j > i /\ IsResume(xevents'[j])
        BY <1>8, <1>10, <3>2
    <3>4. QED
        BY <1>8, <3>3 DEF ResumeQueuedAfter
  <2>3. QED
      BY <1>13, <2>1, <2>2
<1>14. Q1'
  <2>1. ASSUME NEW id \in owed
        PROVE  \E a \in det.pos_trans_alarms : a.data = id /\ ResumeQueuedAfter(0)'
    <3>1. PICK a \in det.pos_trans_alarms :
              a.data = id /\ (idle >= a.wait \/ ResumeQueuedAfter(0))
        BY <2>1 DEF QueueInv, Q1
    <3>2. 0 \in 0 .. n
        BY <1>8
    <3>3. QED
        BY <1>13, <3>1, <3>2
  <2>2. QED
      BY <1>2, <2>1 DEF Q1
<1>15. Q2'
  <2>1. SUFFICES ASSUME NEW i \in 1 .. n2, IsLive(i)' PROVE ResumeQueuedAfter(i)'
      BY <1>8 DEF Q2
  <2>2. i \in 1 .. n /\ IsLive(i) /\ i \in 0 .. n
      BY <1>11, <2>1
  <2>3. idle >= xevents[i].alarm.wait \/ ResumeQueuedAfter(i)
      BY <1>8, <2>2 DEF QueueInv, Q2
  <2>4. QED
      BY <1>13, <2>2, <2>3 DEF IsLive
<1>16. Q3'
    BY <1>2, <1>8, <1>11, <1>12 DEF QueueInv, Q3
<1>17. Q4'
  <2>1. SUFFICES ASSUME NEW i \in 1 .. n2, NEW k \in 1 .. n2,
                        i < k, IsLive(i)', IsLive(k)',
                        xevents'[i].alarm = xevents'[k].alarm
                 PROVE  \E j \in i + 1 .. k - 1 : IsResume(xevents'[j])
      BY <1>8 DEF Q4
  <2>2. i \in 1 .. n /\ IsLive(i) /\ k \in 1 .. n /\ IsLive(k)
      BY <1>11, <2>1
  <2>3. PICK j \in i + 1 .. k - 1 : IsResume(xevents[j])
      BY <1>8, <2>1, <2>2 DEF QueueInv, Q4
  <2>4. j \in 1 .. n
      BY <1>8, <2>2
  <2>5. QED
      BY <1>8, <2>3, <2>4
<1>18. QED
    BY <1>14, <1>15, <1>16, <1>17 DEF QueueInv

LEMMA NextQueue ==
    ASSUME ShortLag, Inv, QueueInv, [Next]_vars PROVE QueueInv'
<1>1. CASE UNCHANGED vars
  <2>1. ClientStep
      BY <1>1 DEF vars, ClientStep
  <2>2. QED
      BY <2>1, ClientQueue
<1>2. CASE XServer
    BY <1>2, TickQueue, UserActivityQueue DEF XServer, managerVars
<1>3. CASE Deliver
    BY <1>3, DeliverQueue
<1>4. CASE \/ Wake \/ AudioRunning \/ AudioStopped \/ SetIgnoreAudio \/ Pause \/ Unpause
           \/ AddAction \/ \E id \in Data : SetTrigger(id) \/ RemoveAction(id)
  <2>1. ClientStep
      BY <1>4, WakeInv, FlagHandlersInv, AddActionInv, SetTriggerInv, RemoveActionInv
  <2>2. QED
      BY <2>1, ClientQueue
<1>5. QED
    BY <1>1, <1>2, <1>3, <1>4 DEF Next

LEMMA QueueInvariantHolds == ShortLag => (Spec => [](Inv /\ QueueInv))
<1> SUFFICES ASSUME ShortLag PROVE Spec => [](Inv /\ QueueInv)
    OBVIOUS
<1>1. Init => Inv /\ QueueInv
    BY InitInv, InitQueue
<1>2. Inv /\ QueueInv /\ [Next]_vars => (Inv /\ QueueInv)'
    BY NextInv, NextQueue
<1>3. QED
    BY <1>1, <1>2, PTL DEF Spec

-----------------------------------------------------------------------------
(* Theorems: activations and resumes.                                      *)

\* When input is noticed before IDLETIME has grown back to the resume alarm, no
\* command that its alarms activated is ever left without a resume to come.
THEOREM ResumeNeverLost == ShortLag => (Spec => []NoResumeLost)
<1>1. Inv /\ QueueInv => NoResumeLost
  <2>1. SUFFICES ASSUME Inv, QueueInv, owed # {}
                 PROVE  ResumeArmed \/ ResumeQueuedAfter(0)
      BY DEF NoResumeLost
  <2>2. PICK a \in det.pos_trans_alarms : idle >= a.wait \/ ResumeQueuedAfter(0)
      BY <2>1 DEF QueueInv, Q1
  <2>3. det.neg_trans_alarm # None /\ det.neg_trans_alarm.wait < a.wait
      BY <2>1, GoodDetectorCovers DEF ResumeAlarmCovers
  <2>4. det.neg_trans_alarm.wait \in Nat /\ a.wait \in Nat /\ idle \in Nat
      BY <2>1, <2>3, TimeoutRange
         DEF Inv, TypeOK, DetectorTypeOK, GoodDetector, Detectors, IdleAlarms, ResumeAlarms
  <2>5. QED
      BY <2>2, <2>3, <2>4 DEF ResumeArmed
<1>2. QED
    BY <1>1, QueueInvariantHolds, PTL

\* Under the same assumption no idle event overtakes the resume event between
\* it and the activation before it.
THEOREM NeverTimedOutTwice == ShortLag => (Spec => []NoDoubleTimeout)
<1>1. Inv /\ QueueInv => NoDoubleTimeout
    BY DEF NoDoubleTimeout, QueueInv, Q3, IsLive, IsTimeoutFor
<1>2. QED
    BY <1>1, QueueInvariantHolds, PTL

-----------------------------------------------------------------------------
(* Theorem: the detector with its client implements the abstract notifier. *)

registeredData == {a.data : a \in det.pos_trans_alarms}

LEMMA NotifierInit == ASSUME Init PROVE Notifier!Init
<1>1. det.pos_trans_alarms \subseteq IdleAlarms
    BY InitInv DEF Inv, GoodDetector, Detectors
<1>2. registeredData \subseteq Data /\ owed = {}
    BY <1>1 DEF registeredData, IdleAlarms, Init
<1>3. QED
    BY <1>2 DEF registeredData, Notifier!Init

LEMMA NotifierStep ==
    ASSUME ShortLag, Inv, QueueInv, [Next]_vars
    PROVE  [Notifier!Next]_Notifier!vars
<1>1. owed \subseteq registeredData
    BY DEF QueueInv, Q1, registeredData
<1>2. registeredData' \subseteq Data
    BY NextInv DEF Inv, GoodDetector, Detectors, IdleAlarms, registeredData
<1>3. ASSUME det' = det, owed' = owed PROVE UNCHANGED Notifier!vars
    BY <1>3 DEF Notifier!vars
<1>4. ASSUME ClientStep PROVE Notifier!Reregister
  <2>1. owed' \in SUBSET registeredData /\ registeredData' \in SUBSET Data
      BY <1>1, <1>2, <1>4 DEF ClientStep
  <2>2. owed' \subseteq registeredData'
    <3>1. ASSUME NEW id \in owed' PROVE id \in registeredData'
      <4>1. id \in registeredData /\ id \in owed
          BY <1>1, <1>4, <3>1 DEF ClientStep
      <4>2. PICK a \in det.pos_trans_alarms : a.data = id
          BY <4>1 DEF registeredData
      <4>3. a \in det'.pos_trans_alarms
          BY <1>4, <3>1, <4>2 DEF ClientStep
      <4>4. QED
          BY <4>2, <4>3 DEF registeredData
    <3>2. QED
        BY <3>1
  <2>3. registeredData' = owed' \cup registeredData' /\ owed' = owed \cap owed'
      BY <1>4, <2>2 DEF ClientStep
  <2>4. QED
      BY <2>1, <2>3 DEF Notifier!Reregister, registeredData
<1>5. CASE UNCHANGED vars
    BY <1>3, <1>5 DEF vars
<1>6. CASE XServer
    BY <1>3, <1>6 DEF XServer, managerVars
<1>7. ASSUME NEW id \in Data, DeliverTimeout(id) PROVE Notifier!Timeout
  <2>1. /\ xevents # <<>> /\ IsTimeoutFor(Head(xevents), id)
        /\ det' = det /\ owed' = owed \cup {id}
      BY <1>7 DEF DeliverTimeout
  <2>2. id \in registeredData /\ registeredData' = registeredData
      BY <2>1 DEF IsTimeoutFor, registeredData
  <2>3. id \notin owed
    <3>1. xevents \in Seq(Events)
        BY DEF Inv, TypeOK, DetectorTypeOK
    <3>2. Head(xevents) = xevents[1] /\ 1 \in DOMAIN xevents
          /\ \A j \in DOMAIN xevents : ~ (j < 1)
        BY <2>1, <3>1, TailEvents
    <3>3. IsLive(1) /\ xevents[1].alarm.data = id
        BY <2>1, <3>2 DEF IsTimeoutFor, IsLive
    <3>4. QED
        BY <3>2, <3>3 DEF QueueInv, Q3, ResumeQueuedBefore
  <2>4. QED
      BY <2>1, <2>2, <2>3 DEF Notifier!Timeout, registeredData
<1>8. CASE DropDeleted
    BY <1>3, <1>8 DEF DropDeleted, managerVars
<1>9. ASSUME DeliverResume PROVE Notifier!Resume
    BY <1>9 DEF DeliverResume, handle_activity_resumed, Notifier!Resume
<1>10. ASSUME \/ Wake \/ AudioRunning \/ AudioStopped \/ SetIgnoreAudio \/ Pause \/ Unpause
            \/ AddAction \/ \E id \in Data : SetTrigger(id) \/ RemoveAction(id)
       PROVE  Notifier!Reregister
    BY <1>4, <1>10, WakeInv, FlagHandlersInv, AddActionInv, SetTriggerInv, RemoveActionInv
<1>11. QED
    BY <1>4, <1>5, <1>6, <1>7, <1>8, <1>9, <1>10 DEF Next, Deliver, Notifier!Next

\* Under the same assumption every step of the daemon and of the X server is,
\* for the commands with alarms and those owed a resume, a step of the abstract
\* notifier: a registered command is told once of each inactivity, a command
\* that is no longer registered never.
THEOREM ImplementsNotifier == ShortLag => (Spec => NotifierSpec)
<1> SUFFICES ASSUME ShortLag PROVE Spec => NotifierSpec
    OBVIOUS
<1>1. Init => Notifier!Init
    BY NotifierInit
<1>2. Inv /\ QueueInv /\ [Next]_vars => [Notifier!Next]_Notifier!vars
    BY NotifierStep
<1>3. Spec => [](Inv /\ QueueInv)
    BY QueueInvariantHolds
<1>4. QED
    BY <1>1, <1>2, <1>3, PTL DEF Spec, NotifierSpec, Notifier!Spec

=============================================================================
