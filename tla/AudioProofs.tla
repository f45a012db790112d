------------------------------ MODULE AudioProofs ------------------------------
(***************************************************************************)
(* Theorems about AudioDetector, for any finite set of sinks and any       *)
(* number of messages under way.                                           *)
(***************************************************************************)
EXTENDS AudioDetector, FiniteSetTheorems, SequenceTheorems, TLAPS

-----------------------------------------------------------------------------
(* The inductive invariant.                                                *)

ListAndSubscribe == <<[type |-> "get_sink_info_list"], [type |-> "subscribe"]>>
SubscribeOnly    == <<[type |-> "subscribe"]>>

\* The order of what the detector asks: the list, then the events, then about sinks.
Phases ==
    /\ connection = "CONNECTING" => running_sinks = {}
    /\ connection # "READY" => to_server = <<>> /\ to_client = <<>> /\ ~ subscribed
    /\ connection = "READY" /\ ~ subscribed =>
          \/ to_server = ListAndSubscribe /\ to_client = <<>> /\ running_sinks = {}
          \/ /\ to_server = SubscribeOnly
             /\ \A i \in DOMAIN to_client : to_client[i].type = "info"
    /\ connection = "READY" /\ subscribed =>
          \A i \in DOMAIN to_server : to_server[i].type = "get_sink_info_by_index"

\* The i-th message to the detector changes its view of s; it says that s runs.
About(i, s) == to_client[i].type # "CHANGE" /\ to_client[i].sink = s
SaysRunning(i) == to_client[i].type = "info" /\ to_client[i].state = "RUNNING"

\* The detector is asking about s, or will be.
Asks(s) ==
    \/ \E i \in DOMAIN to_server : /\ to_server[i].type = "get_sink_info_by_index"
                                   /\ to_server[i].sink = s
    \/ \E i \in DOMAIN to_client : to_client[i].type = "CHANGE" /\ to_client[i].sink = s

\* The last message under way about s tells the truth; without one, the view does.
IsTold(s) ==
    /\ (\A i \in DOMAIN to_client : ~ About(i, s)) =>
          (s \in running_sinks <=> sinks[s] = "RUNNING")
    /\ \A i \in DOMAIN to_client :
          About(i, s) /\ (\A j \in DOMAIN to_client : i < j => ~ About(j, s)) =>
              (SaysRunning(i) <=> sinks[s] = "RUNNING")

KnownOrAsked(s) == (s \in Existing /\ Asks(s)) \/ IsTold(s)

\* The list has been answered.
Listed == connection = "READY" /\ to_server # ListAndSubscribe

Inv == /\ TypeOK
       /\ LastEventTells
       /\ ~ sent_first_message => running_sinks = {}
       /\ Phases
       /\ Listed => \A s \in Sinks \ missed : KnownOrAsked(s)

-----------------------------------------------------------------------------
(* Messages. *)

LEMMA TailOf ==
    ASSUME NEW S, NEW q \in Seq(S), q # <<>>
    PROVE  /\ Tail(q) \in Seq(S) /\ Len(Tail(q)) = Len(q) - 1
           /\ Len(q) \in Nat \ {0} /\ q[1] = Head(q) /\ Head(q) \in S
           /\ DOMAIN q = 1 .. Len(q) /\ DOMAIN Tail(q) = 1 .. Len(Tail(q))
           /\ \A i \in DOMAIN Tail(q) : Tail(q)[i] = q[i + 1]
           /\ \A i \in DOMAIN q : i # 1 => i - 1 \in DOMAIN Tail(q) /\ Tail(q)[i - 1] = q[i]
<1>1. /\ Tail(q) \in Seq(S) /\ Len(Tail(q)) = Len(q) - 1 /\ Len(q) \in Nat \ {0}
      /\ q[1] = Head(q) /\ Head(q) \in S
      /\ DOMAIN q = 1 .. Len(q) /\ DOMAIN Tail(q) = 1 .. Len(Tail(q))
      /\ \A i \in 1 .. Len(Tail(q)) : Tail(q)[i] = q[i + 1]
    BY HeadTailProperties, EmptySeq
<1>2. ASSUME NEW i \in DOMAIN q, i # 1
      PROVE  i - 1 \in DOMAIN Tail(q) /\ Tail(q)[i - 1] = q[i]
  <2>1. i \in Int /\ i - 1 \in 1 .. Len(Tail(q)) /\ (i - 1) + 1 = i
      BY <1>1, <1>2
  <2> QED
      BY <1>1, <2>1
<1> QED
    BY <1>1, <1>2

LEMMA AppendOf ==
    ASSUME NEW S, NEW q \in Seq(S), NEW m \in S
    PROVE  /\ Append(q, m) \in Seq(S) /\ Len(Append(q, m)) = Len(q) + 1 /\ Len(q) \in Nat
           /\ DOMAIN q = 1 .. Len(q) /\ DOMAIN Append(q, m) = 1 .. Len(q) + 1
           /\ Append(q, m)[Len(q) + 1] = m
           /\ \A i \in DOMAIN q : Append(q, m)[i] = q[i]
  BY AppendProperties

\* The detector handles a message: what is still under way is as true as before.
LEMMA ToldByTheRest ==
    ASSUME TypeOK, to_client # <<>>, to_client' = Tail(to_client), NEW s \in Sinks,
           sinks' = sinks, IsTold(s),
           s \in running_sinks' <=> IF About(1, s) THEN SaysRunning(1) ELSE s \in running_sinks
    PROVE  IsTold(s)'
<1>1. /\ Len(to_client) \in Nat \ {0} /\ DOMAIN to_client = 1 .. Len(to_client)
      /\ DOMAIN to_client' = 1 .. Len(to_client) - 1
      /\ \A i \in DOMAIN to_client' : to_client'[i] = to_client[i + 1]
      /\ \A i \in DOMAIN to_client : i # 1 => i - 1 \in DOMAIN to_client'
    BY TailOf DEF TypeOK
<1>2. \A i \in DOMAIN to_client' : /\ About(i, s)' = About(i + 1, s)
                                   /\ SaysRunning(i)' = SaysRunning(i + 1)
    BY <1>1 DEF About, SaysRunning
<1>3. ASSUME \A i \in DOMAIN to_client' : ~ About(i, s)'
      PROVE  s \in running_sinks' <=> sinks[s] = "RUNNING"
  <2>1. ASSUME NEW i \in DOMAIN to_client, i # 1 PROVE ~ About(i, s)
    <3>1. i - 1 \in DOMAIN to_client' /\ (i - 1) + 1 = i
        BY <1>1, <2>1
    <3> QED
        BY <1>2, <1>3, <3>1
  <2>2. 1 \in DOMAIN to_client /\ \A i \in DOMAIN to_client : 1 < i => i # 1
      BY <1>1
  <2>3. CASE About(1, s)
      BY <2>1, <2>2, <2>3 DEF IsTold
  <2>4. CASE ~ About(1, s)
      BY <2>1, <2>4 DEF IsTold
  <2> QED
      BY <2>3, <2>4
<1>4. ASSUME NEW i \in DOMAIN to_client', About(i, s)',
             \A j \in DOMAIN to_client' : i < j => ~ About(j, s)'
      PROVE  SaysRunning(i)' <=> sinks[s] = "RUNNING"
  <2>1. i + 1 \in DOMAIN to_client /\ About(i + 1, s)
      BY <1>1, <1>2, <1>4
  <2>2. ASSUME NEW j \in DOMAIN to_client, i + 1 < j PROVE ~ About(j, s)
    <3>1. j - 1 \in DOMAIN to_client' /\ (j - 1) + 1 = j /\ i < j - 1
        BY <1>1, <2>2
    <3> QED
        BY <1>2, <1>4, <3>1
  <2>3. SaysRunning(i + 1) <=> sinks[s] = "RUNNING"
      BY <2>1, <2>2 DEF IsTold
  <2> QED
      BY <1>2, <2>3
<1> QED
    BY <1>3, <1>4 DEF IsTold

\* A message about another sink, or that a sink changed.
LEMMA ToldDespite ==
    ASSUME TypeOK, NEW m \in Messages, to_client' = Append(to_client, m),
           NEW s \in Sinks, m.type = "CHANGE" \/ m.sink # s,
           sinks'[s] = sinks[s], running_sinks' = running_sinks, IsTold(s)
    PROVE  IsTold(s)'
<1>1. /\ Len(to_client) \in Nat /\ DOMAIN to_client = 1 .. Len(to_client)
      /\ DOMAIN to_client' = 1 .. Len(to_client) + 1
      /\ to_client'[Len(to_client) + 1] = m
      /\ \A i \in DOMAIN to_client : to_client'[i] = to_client[i]
    BY AppendOf DEF TypeOK
<1>2. \A i \in DOMAIN to_client : /\ About(i, s)' = About(i, s)
                                  /\ SaysRunning(i)' = SaysRunning(i)
    BY <1>1 DEF About, SaysRunning
<1>3. \A i \in DOMAIN to_client' : About(i, s)' => i \in DOMAIN to_client
    BY <1>1 DEF About
<1>4. DOMAIN to_client \subseteq DOMAIN to_client'
    BY <1>1
<1> QED
    BY <1>2, <1>3, <1>4 DEF IsTold

\* A message with the truth about the sink.
LEMMA ToldBy ==
    ASSUME TypeOK, NEW m \in Messages, to_client' = Append(to_client, m), NEW s \in Sinks,
           m.type # "CHANGE", m.sink = s,
           (m.type = "info" /\ m.state = "RUNNING") <=> sinks'[s] = "RUNNING"
    PROVE  IsTold(s)'
<1>1. PICK last \in Nat : DOMAIN to_client' = 1 .. last /\ to_client'[last] = m /\ last >= 1
  <2>1. /\ Len(to_client) \in Nat
        /\ DOMAIN to_client' = 1 .. Len(to_client) + 1
        /\ to_client'[Len(to_client) + 1] = m
      BY AppendOf DEF TypeOK
  <2> WITNESS Len(to_client) + 1 \in Nat
  <2> QED
      BY <2>1
<1>2. About(last, s)' /\ last \in DOMAIN to_client'
      /\ (SaysRunning(last)' <=> sinks'[s] = "RUNNING")
    BY <1>1 DEF About, SaysRunning
<1>3. ASSUME NEW i \in DOMAIN to_client',
             \A j \in DOMAIN to_client' : i < j => ~ About(j, s)'
      PROVE  i = last
  <2>1. ~ (i < last)
      BY <1>2, <1>3
  <2> QED
      BY <1>1, <2>1
<1> QED
    BY <1>2, <1>3 DEF IsTold

-----------------------------------------------------------------------------
(* The detector's view and what it reports. *)

LEMMA SinkAdded ==
    ASSUME Inv, NEW s \in Sinks, add_sink(s)
    PROVE  /\ running_sinks' = running_sinks \cup {s} /\ LastEventTells'
           /\ sent_first_message' \in BOOLEAN
           /\ last_event' \in {"none", "AUDIO_RUNNING", "AUDIO_STOPPED"}
           /\ ~ sent_first_message' => running_sinks' = {}
<1>1. /\ running_sinks' = running_sinks \cup {s} /\ sent_first_message \in BOOLEAN
      /\ last_event \in {"none", "AUDIO_RUNNING", "AUDIO_STOPPED"}
    BY DEF Inv, TypeOK, add_sink
<1>2. CASE running_sinks = {}
  <2>1. last_event' = "AUDIO_RUNNING" /\ sent_first_message' = TRUE
      BY <1>1, <1>2 DEF add_sink, Emit
  <2> QED
      BY <1>1, <2>1 DEF LastEventTells
<1>3. CASE running_sinks # {}
  <2>1. sent_first_message /\ ~ (s \notin running_sinks /\ running_sinks' = {s})
      BY <1>1, <1>3 DEF Inv
  <2>2. last_event' = last_event /\ sent_first_message' = sent_first_message
      BY <2>1 DEF add_sink, Emit
  <2> QED
      BY <1>1, <1>3, <2>1, <2>2 DEF Inv, LastEventTells
<1> QED
    BY <1>2, <1>3

LEMMA SinkTakenOut ==
    ASSUME Inv, NEW s \in Sinks, remove_sink(s)
    PROVE  /\ running_sinks' = running_sinks \ {s} /\ LastEventTells'
           /\ sent_first_message' \in BOOLEAN
           /\ last_event' \in {"none", "AUDIO_RUNNING", "AUDIO_STOPPED"}
           /\ ~ sent_first_message' => running_sinks' = {}
<1>1. /\ running_sinks' = running_sinks \ {s} /\ sent_first_message \in BOOLEAN
      /\ last_event \in {"none", "AUDIO_RUNNING", "AUDIO_STOPPED"}
    BY DEF Inv, TypeOK, remove_sink
<1>2. CASE (s \in running_sinks /\ running_sinks' = {}) \/ ~ sent_first_message
  <2>1. last_event' = "AUDIO_STOPPED" /\ sent_first_message' = TRUE
      BY <1>2 DEF remove_sink, Emit
  <2> QED
      BY <1>1, <1>2, <2>1 DEF Inv, LastEventTells
<1>3. CASE ~ (s \in running_sinks /\ running_sinks' = {}) /\ sent_first_message
  <2>1. last_event' = last_event /\ sent_first_message' = sent_first_message
      BY <1>3 DEF remove_sink, Emit
  <2>2. running_sinks' = {} <=> running_sinks = {}
      BY <1>1, <1>3
  <2> QED
      BY <1>1, <1>3, <2>1, <2>2 DEF Inv, LastEventTells
<1> QED
    BY <1>2, <1>3

-----------------------------------------------------------------------------
(* Initial states and steps. *)

LEMMA InitInv == Init => Inv
<1> SUFFICES ASSUME Init PROVE Inv
    OBVIOUS
<1>1. TypeOK
    BY EmptySeq DEF Init, TypeOK, SinkStates
<1> QED
    BY <1>1 DEF Init, Inv, LastEventTells, Phases, Listed

LEMMA ListComesFirst ==
    /\ DOMAIN ListAndSubscribe = 1 .. 2 /\ ListAndSubscribe # <<>>
    /\ Head(ListAndSubscribe).type = "get_sink_info_list"
    /\ ListAndSubscribe[1].type = "get_sink_info_list"
    /\ Tail(ListAndSubscribe) = SubscribeOnly
    /\ DOMAIN SubscribeOnly = 1 .. 1 /\ SubscribeOnly # <<>>
    /\ Head(SubscribeOnly).type = "subscribe" /\ SubscribeOnly[1].type = "subscribe"
    /\ Tail(SubscribeOnly) = <<>> /\ SubscribeOnly # ListAndSubscribe
  BY DEF ListAndSubscribe, SubscribeOnly

\* What the detector asks about while it is subscribed is single sinks.
LEMMA SubscribedIsListed ==
    ASSUME Phases, connection = "READY", subscribed
    PROVE  Listed
<1>1. \A i \in DOMAIN to_server : to_server[i].type = "get_sink_info_by_index"
    BY DEF Phases
<1> QED
    BY <1>1, ListComesFirst DEF Listed

LEMMA Receiving ==
    ASSUME Inv, to_client # <<>>, to_client' = Tail(to_client),
           connection' = connection, subscribed' = subscribed
    PROVE  /\ connection = "READY" /\ Listed
           /\ Head(to_client) \in Messages /\ to_client[1] = Head(to_client)
           /\ to_client' \in Seq(Messages)
           /\ ~ subscribed => Head(to_client).type = "info"
           /\ to_server' = to_server => Phases'
<1>1. connection = "READY" /\ Listed
    BY SubscribedIsListed, ListComesFirst DEF Inv, Phases, Listed
<1>2. /\ Head(to_client) \in Messages /\ to_client[1] = Head(to_client)
      /\ to_client' \in Seq(Messages) /\ 1 \in DOMAIN to_client
      /\ \A i \in DOMAIN to_client' : to_client'[i] = to_client[i + 1]
                                      /\ i + 1 \in DOMAIN to_client
    BY TailOf DEF Inv, TypeOK
<1>3. CASE subscribed
    BY <1>1, <1>2, <1>3 DEF Inv, Phases
<1>4. CASE ~ subscribed
  <2>1. to_server = SubscribeOnly /\ \A i \in DOMAIN to_client : to_client[i].type = "info"
      BY <1>1, <1>4 DEF Inv, Phases, Listed
  <2> QED
      BY <1>1, <1>2, <1>4, <2>1 DEF Phases
<1> QED
    BY <1>1, <1>2, <1>3, <1>4

LEMMA AsksStill ==
    ASSUME TypeOK, to_client # <<>>, to_client' = Tail(to_client), NEW s \in Sinks,
           \A i \in DOMAIN to_server : i \in DOMAIN to_server' /\ to_server'[i] = to_server[i],
           ~ (Head(to_client).type = "CHANGE" /\ Head(to_client).sink = s),
           Asks(s)
    PROVE  Asks(s)'
<1>1. /\ to_client[1] = Head(to_client)
      /\ \A i \in DOMAIN to_client : i # 1 => i - 1 \in DOMAIN to_client'
                                              /\ to_client'[i - 1] = to_client[i]
    BY TailOf DEF TypeOK
<1>2. CASE \E i \in DOMAIN to_client : to_client[i].type = "CHANGE" /\ to_client[i].sink = s
    BY <1>1, <1>2 DEF Asks
<1> QED
    BY <1>2 DEF Asks

LEMMA SinkInfoInv == Inv /\ SinkInfo => Inv'
<1> SUFFICES ASSUME Inv, SinkInfo PROVE Inv'
    OBVIOUS
<1> DEFINE m == Head(to_client)
<1>1. /\ to_client # <<>> /\ m.type = "info" /\ to_client' = Tail(to_client)
      /\ to_server' = to_server /\ connection' = connection
      /\ sinks' = sinks /\ subscribed' = subscribed /\ missed' = missed
      /\ IF m.state = "RUNNING" THEN add_sink(m.sink) ELSE remove_sink(m.sink)
    BY DEF SinkInfo, serverVars
<1>2. /\ connection = "READY" /\ Listed /\ to_client' \in Seq(Messages)
      /\ m \in Messages /\ to_client[1] = m /\ Phases'
    BY <1>1, Receiving
<1> HIDE DEF m
<1>3. m.sink \in Sinks
    BY <1>1, <1>2 DEF Messages
<1>4. /\ running_sinks' = IF m.state = "RUNNING" THEN running_sinks \cup {m.sink}
                          ELSE running_sinks \ {m.sink}
      /\ LastEventTells' /\ sent_first_message' \in BOOLEAN
      /\ last_event' \in {"none", "AUDIO_RUNNING", "AUDIO_STOPPED"}
      /\ ~ sent_first_message' => running_sinks' = {}
    BY <1>1, <1>3, SinkAdded, SinkTakenOut
<1>5. TypeOK'
    BY <1>1, <1>2, <1>3, <1>4 DEF Inv, TypeOK
<1>6. ASSUME NEW s \in Sinks \ missed PROVE KnownOrAsked(s)'
  <2>1. CASE s \in Existing /\ Asks(s)
      BY <1>1, <2>1, AsksStill DEF Inv, KnownOrAsked, Existing, m
  <2>2. CASE IsTold(s)
    <3>1. s \in running_sinks' <=> IF About(1, s) THEN SaysRunning(1) ELSE s \in running_sinks
        BY <1>1, <1>2, <1>4 DEF About, SaysRunning
    <3> QED
        BY <1>1, <2>2, <3>1, ToldByTheRest DEF Inv, KnownOrAsked
  <2> QED
      BY <1>2, <2>1, <2>2 DEF Inv, KnownOrAsked
<1> QED
    BY <1>1, <1>2, <1>4, <1>5, <1>6 DEF Inv

LEMMA SinkRemovedInv == Inv /\ SinkRemoved => Inv'
<1> SUFFICES ASSUME Inv, SinkRemoved PROVE Inv'
    OBVIOUS
<1> DEFINE m == Head(to_client)
<1>1. /\ to_client # <<>> /\ m.type = "REMOVE" /\ to_client' = Tail(to_client)
      /\ to_server' = to_server /\ connection' = connection
      /\ sinks' = sinks /\ subscribed' = subscribed /\ missed' = missed
      /\ remove_sink(m.sink)
    BY DEF SinkRemoved, serverVars
<1>2. /\ connection = "READY" /\ Listed /\ to_client' \in Seq(Messages)
      /\ m \in Messages /\ to_client[1] = m /\ Phases'
    BY <1>1, Receiving
<1> HIDE DEF m
<1>3. m.sink \in Sinks
    BY <1>1, <1>2 DEF Messages
<1>4. /\ running_sinks' = running_sinks \ {m.sink}
      /\ LastEventTells' /\ sent_first_message' \in BOOLEAN
      /\ last_event' \in {"none", "AUDIO_RUNNING", "AUDIO_STOPPED"}
      /\ ~ sent_first_message' => running_sinks' = {}
    BY <1>1, <1>3, SinkTakenOut
<1>5. TypeOK'
    BY <1>1, <1>2, <1>3, <1>4 DEF Inv, TypeOK
<1>6. ASSUME NEW s \in Sinks \ missed PROVE KnownOrAsked(s)'
  <2>1. CASE s \in Existing /\ Asks(s)
      BY <1>1, <2>1, AsksStill DEF Inv, KnownOrAsked, Existing, m
  <2>2. CASE IsTold(s)
    <3>1. s \in running_sinks' <=> IF About(1, s) THEN SaysRunning(1) ELSE s \in running_sinks
        BY <1>1, <1>2, <1>4 DEF About, SaysRunning
    <3> QED
        BY <1>1, <2>2, <3>1, ToldByTheRest DEF Inv, KnownOrAsked
  <2> QED
      BY <1>2, <2>1, <2>2 DEF Inv, KnownOrAsked
<1> QED
    BY <1>1, <1>2, <1>4, <1>5, <1>6 DEF Inv

\* The change is forgotten only when the detector has asked what it was.
LEMMA SinkChangedInv == Inv /\ SinkChanged => Inv'
<1> SUFFICES ASSUME Inv, SinkChanged PROVE Inv'
    OBVIOUS
<1> DEFINE m == Head(to_client)
           request == [type |-> "get_sink_info_by_index", sink |-> m.sink]
<1>1. /\ to_client # <<>> /\ m.type = "CHANGE" /\ to_client' = Tail(to_client)
      /\ to_server' = Append(to_server, request) /\ connection' = connection
      /\ sinks' = sinks /\ subscribed' = subscribed /\ missed' = missed
      /\ running_sinks' = running_sinks /\ sent_first_message' = sent_first_message
      /\ last_event' = last_event
    BY DEF SinkChanged, serverVars, detectorVars
<1>2. /\ connection = "READY" /\ Listed /\ to_client' \in Seq(Messages)
      /\ m \in Messages /\ to_client[1] = m /\ subscribed
  <2>1. ~ subscribed => m.type = "info"
      BY <1>1, Receiving
  <2> QED
      BY <1>1, <2>1, Receiving
<1> HIDE DEF m
<1>3. m.sink \in Sinks
    BY <1>1, <1>2 DEF Messages
<1>4. request \in Requests /\ request.type = "get_sink_info_by_index" /\ request.sink = m.sink
    BY <1>3 DEF Requests
<1> HIDE DEF request
<1>5. PICK last \in Nat : /\ to_server' \in Seq(Requests) /\ DOMAIN to_server' = 1 .. last
                          /\ last >= 1 /\ to_server'[last] = request
                          /\ DOMAIN to_server = 1 .. last - 1
                          /\ \A i \in DOMAIN to_server : to_server'[i] = to_server[i]
  <2>1. /\ to_server' \in Seq(Requests) /\ Len(to_server) \in Nat
        /\ DOMAIN to_server' = 1 .. Len(to_server) + 1
        /\ to_server'[Len(to_server) + 1] = request
        /\ DOMAIN to_server = 1 .. Len(to_server)
        /\ \A i \in DOMAIN to_server : to_server'[i] = to_server[i]
      BY <1>1, <1>4, AppendOf DEF Inv, TypeOK
  <2>2. (Len(to_server) + 1) - 1 = Len(to_server)
      BY <2>1
  <2> WITNESS Len(to_server) + 1 \in Nat
  <2> QED
      BY <2>1, <2>2
<1>6. TypeOK'
    BY <1>1, <1>2, <1>5 DEF Inv, TypeOK
<1>7. Phases'
  <2>1. ASSUME NEW i \in DOMAIN to_server'
        PROVE  to_server'[i].type = "get_sink_info_by_index"
    <3>1. i = last \/ i \in DOMAIN to_server
        BY <1>5, <2>1
    <3> QED
        BY <1>2, <1>4, <1>5, <3>1 DEF Inv, Phases
  <2> QED
      BY <1>1, <1>2, <2>1 DEF Phases
<1>8. ASSUME NEW s \in Sinks \ missed PROVE KnownOrAsked(s)'
  <2>1. CASE s \in Existing /\ Asks(s) /\ s # m.sink
    <3>1. \A i \in DOMAIN to_server : i \in DOMAIN to_server' /\ to_server'[i] = to_server[i]
        BY <1>5
    <3>2. Asks(s)'
        BY <1>1, <2>1, <3>1, AsksStill DEF Inv, m
    <3> QED
        BY <1>1, <2>1, <3>2 DEF KnownOrAsked, Existing
  <2>2. CASE s \in Existing /\ s = m.sink
    <3>1. last \in DOMAIN to_server'
        BY <1>5
    <3>2. Asks(s)'
        BY <1>4, <1>5, <2>2, <3>1 DEF Asks
    <3> QED
        BY <1>1, <2>2, <3>2 DEF KnownOrAsked, Existing
  <2>3. CASE IsTold(s)
    <3>1. s \in running_sinks' <=> IF About(1, s) THEN SaysRunning(1) ELSE s \in running_sinks
        BY <1>1, <1>2 DEF About
    <3> QED
        BY <1>1, <2>3, <3>1, ToldByTheRest DEF Inv, KnownOrAsked
  <2> QED
      BY <1>2, <2>1, <2>2, <2>3 DEF Inv, KnownOrAsked
<1> QED
    BY <1>1, <1>6, <1>7, <1>8 DEF Inv, LastEventTells

LEMMA ReadyInv == Inv /\ Ready => Inv'
<1> SUFFICES ASSUME Inv, Ready PROVE Inv'
    OBVIOUS
<1>1. /\ connection = "CONNECTING" /\ connection' = "READY"
      /\ to_server' = ListAndSubscribe /\ to_client' = to_client
      /\ sinks' = sinks /\ subscribed' = subscribed /\ missed' = missed
      /\ running_sinks' = running_sinks /\ sent_first_message' = sent_first_message
      /\ last_event' = last_event
    BY DEF Ready, serverVars, detectorVars, ListAndSubscribe
<1>2. to_server' \in Seq(Requests)
    BY <1>1 DEF ListAndSubscribe, Requests
<1>3. TypeOK'
    BY <1>1, <1>2 DEF Inv, TypeOK
<1>4. Phases' /\ ~ Listed'
    BY <1>1 DEF Inv, Phases, Listed
<1> QED
    BY <1>1, <1>3, <1>4 DEF Inv, LastEventTells

LEMMA FailedInv == Inv /\ Failed => Inv'
<1> SUFFICES ASSUME Inv, Failed PROVE Inv'
    OBVIOUS
<1>1. /\ connection' = "FAILED" /\ to_server' = <<>> /\ to_client' = <<>>
      /\ subscribed' = FALSE /\ sinks' = sinks /\ missed' = missed
      /\ running_sinks' = running_sinks /\ sent_first_message' = sent_first_message
      /\ last_event' = last_event
    BY DEF Failed, detectorVars
<1>2. TypeOK'
    BY <1>1, EmptySeq DEF Inv, TypeOK
<1>3. Phases' /\ ~ Listed'
    BY <1>1 DEF Phases, Listed
<1> QED
    BY <1>1, <1>2, <1>3 DEF Inv, LastEventTells

\* An order of a finite set leaves nothing out.
LEMMA OrderIsComplete ==
    ASSUME NEW S, IsFiniteSet(S), NEW order \in SetToSeqs(S)
    PROVE  /\ DOMAIN order = 1 .. Cardinality(S) /\ Cardinality(S) \in Nat
           /\ \A i \in DOMAIN order : order[i] \in S
           /\ \A s \in S : \E i \in DOMAIN order : order[i] = s
<1> DEFINE n == Cardinality(S)
<1>1. n \in Nat
    BY FS_CardinalityType
<1>2. order \in [1 .. n -> S] /\ \A i, j \in 1 .. n : i # j => order[i] # order[j]
    BY DEF SetToSeqs
<1>3. IsFiniteSet(1 .. n) /\ Cardinality(1 .. n) = n
    BY <1>1, FS_Interval
<1>4. order \in Injection(1 .. n, S)
    BY <1>2 DEF Injection, IsInjective
<1>5. order \in Surjection(1 .. n, S)
    BY <1>3, <1>4, FS_Injection
<1> QED
    BY <1>1, <1>2, <1>5 DEF Surjection

LEMMA ListAnswered ==
    ASSUME Inv, NEW order \in SetToSeqs(Existing),
           to_server = ListAndSubscribe, to_server' = SubscribeOnly,
           to_client' = to_client \o [i \in DOMAIN order |-> Info(order[i])],
           UNCHANGED <<sinks, missed, connection, subscribed, running_sinks,
                       sent_first_message, last_event>>
    PROVE  Inv'
<1> DEFINE infos == [i \in DOMAIN order |-> Info(order[i])]
<1>1. connection = "READY" /\ ~ subscribed /\ to_client = <<>> /\ running_sinks = {}
  <2>1. connection = "READY"
      BY ListComesFirst DEF Inv, Phases
  <2>2. ~ subscribed
      BY <2>1, SubscribedIsListed DEF Inv, Listed
  <2> QED
      BY <2>1, <2>2, ListComesFirst DEF Inv, Phases
<1>2. Existing \subseteq Sinks /\ IsFiniteSet(Existing)
    BY FS_Subset, AudioAssumption DEF Existing
<1>3. /\ DOMAIN order = 1 .. Cardinality(Existing) /\ Cardinality(Existing) \in Nat
      /\ \A i \in DOMAIN order : order[i] \in Existing
      /\ \A s \in Existing : \E i \in DOMAIN order : order[i] = s
    BY <1>2, OrderIsComplete
<1>4. \A i \in DOMAIN order : /\ Info(order[i]) \in Messages /\ Info(order[i]).type = "info"
                              /\ Info(order[i]).sink = order[i]
                              /\ Info(order[i]).state = sinks[order[i]]
    BY <1>2, <1>3 DEF Info, Messages, Existing
<1>5. infos \in Seq(Messages) /\ DOMAIN infos = DOMAIN order
    BY <1>3, <1>4
<1>6. to_client' = infos
    BY <1>1, <1>5, ConcatEmptySeq
<1>7. \A i \in DOMAIN order : to_client'[i] = Info(order[i])
    BY <1>6
<1>8. DOMAIN to_client' = DOMAIN order
    BY <1>5, <1>6
<1> HIDE DEF infos
<1>9. TypeOK'
  <2>1. to_server' \in Seq(Requests)
      BY DEF SubscribeOnly, Requests
  <2> QED
      BY <1>5, <1>6, <2>1 DEF Inv, TypeOK
<1>10. Phases'
    BY <1>1, <1>4, <1>7, <1>8 DEF Phases
<1>11. ASSUME NEW s \in Sinks PROVE IsTold(s)'
  <2>1. ASSUME NEW i \in DOMAIN to_client', About(i, s)'
        PROVE  s \in Existing /\ (SaysRunning(i)' <=> sinks[s] = "RUNNING")
      BY <1>3, <1>4, <1>7, <1>8, <2>1 DEF About, SaysRunning
  <2>2. ASSUME s \in Existing PROVE \E i \in DOMAIN to_client' : About(i, s)'
    <3>1. PICK i \in DOMAIN order : order[i] = s
        BY <1>3, <2>2
    <3>2. i \in DOMAIN to_client' /\ About(i, s)'
        BY <1>4, <1>7, <1>8, <3>1 DEF About
    <3> QED
        BY <3>2
  <2>3. s \notin Existing => sinks[s] # "RUNNING"
      BY DEF Existing
  <2> QED
      BY <1>1, <2>1, <2>2, <2>3 DEF IsTold
<1> QED
    BY <1>9, <1>10, <1>11 DEF Inv, LastEventTells, KnownOrAsked

LEMMA SubscriptionAnswered ==
    ASSUME Inv, connection = "READY", to_server = SubscribeOnly, to_server' = <<>>,
           subscribed' = TRUE,
           UNCHANGED <<sinks, missed, connection, to_client, running_sinks,
                       sent_first_message, last_event>>
    PROVE  Inv'
<1>1. TypeOK'
    BY EmptySeq DEF Inv, TypeOK
<1>2. Phases' /\ Listed
    BY ListComesFirst DEF Inv, Phases, Listed
<1>3. ASSUME NEW s \in Sinks \ missed PROVE KnownOrAsked(s)'
  <2>1. \A i \in DOMAIN to_server : to_server[i].type # "get_sink_info_by_index"
      BY ListComesFirst
  <2>2. Asks(s) => Asks(s)'
      BY <2>1 DEF Asks
  <2>3. IsTold(s) => IsTold(s)'
      BY DEF IsTold, About, SaysRunning
  <2> QED
      BY <1>2, <2>2, <2>3 DEF Inv, KnownOrAsked, Existing
<1> QED
    BY <1>1, <1>2, <1>3 DEF Inv, LastEventTells

\* The answer is as fresh as the server's sinks; only for one that is gone there is none.
LEMMA SinkAnswered ==
    ASSUME Inv, subscribed, to_server # <<>>, to_server' = Tail(to_server),
           to_client' = IF Head(to_server).sink \in Existing
                        THEN Append(to_client, Info(Head(to_server).sink)) ELSE to_client,
           UNCHANGED <<sinks, missed, connection, subscribed, running_sinks,
                       sent_first_message, last_event>>
    PROVE  Inv'
<1>0. PICK asked : asked = Head(to_server).sink
    OBVIOUS
<1>1. connection = "READY" /\ Listed
    BY SubscribedIsListed DEF Inv, Phases
<1>2. /\ to_server' \in Seq(Requests) /\ to_server[1] = Head(to_server)
      /\ \A i \in DOMAIN to_server' : i + 1 \in DOMAIN to_server
                                      /\ to_server'[i] = to_server[i + 1]
      /\ \A i \in DOMAIN to_server : i # 1 => i - 1 \in DOMAIN to_server'
                                              /\ to_server'[i - 1] = to_server[i]
    BY TailOf DEF Inv, TypeOK
<1>3. Phases'
    BY <1>1, <1>2 DEF Inv, Phases
<1>4. CASE asked \in Existing
  <2>1. /\ Info(asked) \in Messages /\ Info(asked).type = "info" /\ Info(asked).sink = asked
        /\ Info(asked).state = sinks[asked] /\ asked \in Sinks
      BY <1>4 DEF Info, Messages, Existing
  <2>2. PICK info : info = Info(asked)
      OBVIOUS
  <2>3. /\ to_client' = Append(to_client, info)
        /\ info \in Messages /\ info.type = "info" /\ info.sink = asked
        /\ info.state = sinks[asked] /\ asked \in Sinks
      BY <1>0, <1>4, <2>1, <2>2
  <2>4. /\ to_client' \in Seq(Messages)
        /\ \A i \in DOMAIN to_client : i \in DOMAIN to_client' /\ to_client'[i] = to_client[i]
      BY <2>3, AppendOf DEF Inv, TypeOK
  <2>5. TypeOK'
      BY <1>2, <2>4 DEF Inv, TypeOK
  <2>6. IsTold(asked)'
      BY <2>3, ToldBy DEF Inv
  <2>7. ASSUME NEW s \in Sinks \ missed, s # asked PROVE KnownOrAsked(s)'
    <3>1. Asks(s) => Asks(s)'
        BY <1>0, <1>2, <2>4, <2>7 DEF Asks
    <3>2. IsTold(s) => IsTold(s)'
        BY <2>3, <2>7, ToldDespite DEF Inv
    <3> QED
        BY <1>1, <3>1, <3>2 DEF Inv, KnownOrAsked, Existing
  <2> QED
      BY <1>3, <2>5, <2>6, <2>7 DEF Inv, LastEventTells, KnownOrAsked
<1>5. CASE asked \notin Existing
  <2>1. to_client' = to_client
      BY <1>0, <1>5
  <2>2. TypeOK'
      BY <1>2, <2>1 DEF Inv, TypeOK
  <2>3. ASSUME NEW s \in Sinks \ missed PROVE KnownOrAsked(s)'
    <3>1. s # asked /\ Asks(s) => Asks(s)'
        BY <1>0, <1>2, <2>1 DEF Asks
    <3>2. IsTold(s) => IsTold(s)'
        BY <2>1 DEF IsTold, About, SaysRunning
    <3> QED
        BY <1>1, <1>5, <3>1, <3>2 DEF Inv, KnownOrAsked, Existing
  <2> QED
      BY <1>3, <2>2, <2>3 DEF Inv, LastEventTells
<1> QED
    BY <1>4, <1>5

LEMMA ServerAnswersInv == Inv /\ ServerAnswers => Inv'
<1> SUFFICES ASSUME Inv, ServerAnswers PROVE Inv'
    OBVIOUS
<1> DEFINE request == Head(to_server)
<1>1. /\ to_server # <<>> /\ to_server' = Tail(to_server)
      /\ UNCHANGED <<sinks, missed, connection, running_sinks, sent_first_message, last_event>>
    BY DEF ServerAnswers, detectorVars
<1>2. \/ /\ request.type = "get_sink_info_list"
         /\ \E order \in SetToSeqs(Existing) :
               to_client' = to_client \o [i \in DOMAIN order |-> Info(order[i])]
         /\ subscribed' = subscribed
      \/ /\ request.type = "get_sink_info_by_index"
         /\ to_client' = IF request.sink \in Existing
                         THEN Append(to_client, Info(request.sink)) ELSE to_client
         /\ subscribed' = subscribed
      \/ request.type = "subscribe" /\ subscribed' = TRUE /\ to_client' = to_client
    BY DEF ServerAnswers
<1>3. connection = "READY"
    BY <1>1 DEF Inv, Phases
<1>4. CASE subscribed
  <2>1. request.type = "get_sink_info_by_index"
    <3>1. 1 \in DOMAIN to_server /\ to_server[1] = request
        BY <1>1, TailOf DEF Inv, TypeOK
    <3> QED
        BY <1>3, <1>4, <3>1 DEF Inv, Phases
  <2> QED
      BY <1>1, <1>2, <1>4, <2>1, SinkAnswered
<1>5. CASE ~ subscribed /\ to_server = ListAndSubscribe
  <2>1. request.type = "get_sink_info_list" /\ to_server' = SubscribeOnly
      BY <1>1, <1>5, ListComesFirst
  <2> QED
      BY <1>1, <1>2, <1>5, <2>1, ListAnswered
<1>6. CASE ~ subscribed /\ to_server = SubscribeOnly
  <2>1. request.type = "subscribe" /\ to_server' = <<>>
      BY <1>1, <1>6, ListComesFirst
  <2> QED
      BY <1>1, <1>2, <1>3, <1>6, <2>1, SubscriptionAnswered
<1> QED
    BY <1>3, <1>4, <1>5, <1>6 DEF Inv, Phases

\* Who is subscribed hears of it; who is between list and subscription misses it.
LEMMA SinkChangesInv == ASSUME NEW s \in Sinks, Inv, SinkChanges(s) PROVE Inv'
<1>1. PICK state \in SinkStates \ {sinks[s]} :
          /\ state # "NEW"
          /\ sinks' = [sinks EXCEPT ![s] = state]
          /\ to_client' = IF subscribed
                          THEN Append(to_client, [type |-> IF state = "REMOVED" THEN "REMOVE"
                                                           ELSE "CHANGE", sink |-> s])
                          ELSE to_client
          /\ missed' = IF Unwatched THEN missed \cup {s}
                       ELSE IF subscribed THEN missed \ {s} ELSE missed
    BY DEF SinkChanges
<1>2. /\ subscribed' = subscribed /\ to_server' = to_server /\ connection' = connection
      /\ running_sinks' = running_sinks /\ sent_first_message' = sent_first_message
      /\ last_event' = last_event
    BY DEF SinkChanges, detectorVars
<1>3. /\ sinks' \in [Sinks -> SinkStates] /\ missed' \subseteq Sinks
      /\ sinks'[s] = state /\ \A r \in Sinks \ {s} : sinks'[r] = sinks[r]
      /\ state \in {"IDLE", "RUNNING", "REMOVED"}
    BY <1>1 DEF Inv, TypeOK, SinkStates
<1>4. CASE subscribed
  <2>1. connection = "READY" /\ Listed /\ ~ Unwatched
      BY <1>4, SubscribedIsListed DEF Inv, Phases, Unwatched
  <2>2. PICK m : m = [type |-> IF state = "REMOVED" THEN "REMOVE" ELSE "CHANGE", sink |-> s]
      OBVIOUS
  <2>3. /\ to_client' = Append(to_client, m) /\ m \in Messages /\ m.sink = s
        /\ m.type = IF state = "REMOVED" THEN "REMOVE" ELSE "CHANGE"
      BY <1>1, <1>4, <2>2 DEF Messages
  <2>4. /\ to_client' \in Seq(Messages)
        /\ \A i \in DOMAIN to_client : i \in DOMAIN to_client' /\ to_client'[i] = to_client[i]
        /\ \E i \in DOMAIN to_client' : to_client'[i] = m
    <3>1. /\ to_client' \in Seq(Messages) /\ Len(to_client) \in Nat
          /\ DOMAIN to_client = 1 .. Len(to_client)
          /\ DOMAIN to_client' = 1 .. Len(to_client) + 1
          /\ to_client'[Len(to_client) + 1] = m
          /\ \A i \in DOMAIN to_client : to_client'[i] = to_client[i]
        BY <2>3, AppendOf DEF Inv, TypeOK
    <3>2. Len(to_client) + 1 \in 1 .. Len(to_client) + 1
        BY <3>1
    <3> QED
        BY <3>1, <3>2
  <2>5. TypeOK'
      BY <1>2, <1>3, <2>4 DEF Inv, TypeOK
  <2>6. Phases'
      BY <1>2, <1>4, <2>1 DEF Inv, Phases
  <2>7. KnownOrAsked(s)'
    <3>1. CASE state = "REMOVED"
        BY <1>3, <2>3, <3>1, ToldBy DEF Inv, KnownOrAsked
    <3>2. CASE state # "REMOVED"
        BY <1>3, <2>3, <2>4, <3>2 DEF KnownOrAsked, Asks, Existing
    <3> QED
        BY <3>1, <3>2
  <2>8. ASSUME NEW r \in Sinks \ missed, r # s PROVE KnownOrAsked(r)'
    <3>1. Asks(r) => Asks(r)'
        BY <1>2, <2>4 DEF Asks
    <3>2. IsTold(r) => IsTold(r)'
        BY <1>2, <1>3, <2>3, <2>8, ToldDespite DEF Inv
    <3> QED
        BY <1>3, <2>1, <2>8, <3>1, <3>2 DEF Inv, KnownOrAsked, Existing
  <2>9. missed' = missed \ {s}
      BY <1>1, <1>4, <2>1
  <2> QED
      BY <1>2, <2>5, <2>6, <2>7, <2>8, <2>9 DEF Inv, LastEventTells
<1>5. CASE ~ subscribed
  <2>1. to_client' = to_client
      BY <1>1, <1>5
  <2>2. TypeOK' /\ Phases'
      BY <1>2, <1>3, <2>1 DEF Inv, TypeOK, Phases
  <2>3. ASSUME Listed', NEW r \in Sinks \ missed' PROVE KnownOrAsked(r)'
    <3>1. Listed /\ connection = "READY"
        BY <1>2, <2>3 DEF Listed
    <3>2. Unwatched
        BY <1>5, <3>1, ListComesFirst DEF Inv, Phases, Unwatched, Listed
    <3>3. r # s /\ r \in Sinks \ missed
        BY <1>1, <2>3, <3>2
    <3>4. KnownOrAsked(r)
        BY <3>1, <3>3 DEF Inv
    <3>5. sinks'[r] = sinks[r] /\ (Asks(r) => Asks(r)')
        BY <1>2, <1>3, <2>1, <3>3 DEF Asks
    <3>6. IsTold(r) => IsTold(r)'
        BY <1>2, <2>1, <3>5 DEF IsTold, About, SaysRunning
    <3> QED
        BY <3>3, <3>4, <3>5, <3>6 DEF KnownOrAsked, Existing
  <2> QED
      BY <1>2, <2>2, <2>3 DEF Inv, LastEventTells
<1> QED
    BY <1>4, <1>5

LEMMA StutterInv == Inv /\ UNCHANGED vars => Inv'
  BY DEF vars, Inv, TypeOK, LastEventTells, Phases, Listed, KnownOrAsked, Existing, Asks,
         IsTold, About, SaysRunning

LEMMA NextInv == Inv /\ [Next]_vars => Inv'
  BY ReadyInv, SinkInfoInv, SinkRemovedInv, SinkChangedInv, FailedInv, ServerAnswersInv,
     SinkChangesInv, StutterInv DEF Next, Detector

THEOREM InvariantHolds == Spec => []Inv
<1> QED
    BY InitInv, NextInv, PTL DEF Spec

-----------------------------------------------------------------------------
(* Theorems. *)

\* All state keeps its type, whatever the order of requests, answers and events.
THEOREM AudioTypeCorrect == Spec => []TypeOK
<1>1. Inv => TypeOK
    BY DEF Inv
<1> QED
    BY <1>1, InvariantHolds, PTL

\* The EventManager's last event is about the set of running sinks as it is: no
\* order of sinks starting, stopping and vanishing, and no first message, leaves
\* them apart (add_sink, remove_sink).
THEOREM EventsFollowView == Spec => []LastEventTells
<1>1. Inv => LastEventTells
    BY DEF Inv
<1> QED
    BY <1>1, InvariantHolds, PTL

\* When nothing is under way, the view is right about every sink that was watched,
\* however answers about the past and changes overlapped (sink_info_cb,
\* context_subscribe_cb).
THEOREM ViewIsRightAtLast == Spec => []ViewCatchesUp
<1>1. Inv => ViewCatchesUp
  <2>1. SUFFICES ASSUME Inv, Quiet, NEW s \in Sinks \ missed
                 PROVE  s \in running_sinks <=> sinks[s] = "RUNNING"
      BY DEF ViewCatchesUp
  <2>2. to_server = <<>> /\ to_client = <<>> /\ Listed
      BY <2>1, SubscribedIsListed DEF Inv, Quiet
  <2>3. DOMAIN to_server = {} /\ DOMAIN to_client = {}
      BY <2>2
  <2>4. ~ Asks(s)
      BY <2>3 DEF Asks
  <2>5. IsTold(s)
      BY <2>1, <2>2, <2>4 DEF Inv, KnownOrAsked
  <2> QED
      BY <2>3, <2>5 DEF IsTold
<1> QED
    BY <1>1, InvariantHolds, PTL

=============================================================================
