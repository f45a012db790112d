----------------------------- MODULE AudioDetector -----------------------------
(***************************************************************************)
(* The PulseAudioDetector of audio_detector.cc and the PulseAudio server    *)
(* (external) it asks about sinks.  Requests and answers travel in order;   *)
(* sinks change while they are under way, so the detector's running_sinks   *)
(* is a view of the past.                                                   *)
(***************************************************************************)
EXTENDS Integers, Sequences, SequencesExt

CONSTANTS
    Sinks,          \* sink indexes; PulseAudio does not reuse them
    MaxMessages     \* bound: messages under way when a sink changes

ASSUME AudioAssumption == IsFiniteSet(Sinks) /\ MaxMessages \in Nat

VARIABLES
    sinks,          \* the server's sinks
    subscribed,     \* whether the server sends events to the detector
    to_server, to_client,
    connection,     \* pa_context_get_state
    running_sinks, sent_first_message,
    last_event,     \* the event the EventManager received last
    missed          \* history: sinks that changed after they were listed and
                    \* before the subscription, and not since

serverVars   == <<sinks, subscribed, missed>>
detectorVars == <<running_sinks, sent_first_message, last_event>>
vars == <<sinks, subscribed, to_server, to_client, connection, running_sinks,
          sent_first_message, last_event, missed>>

-----------------------------------------------------------------------------
SinkStates == {"NEW", "IDLE", "RUNNING", "REMOVED"}     \* NEW: not there yet
Existing   == {s \in Sinks : sinks[s] \in {"IDLE", "RUNNING"}}

Requests == [type : {"get_sink_info_list", "subscribe"}]
            \cup [type : {"get_sink_info_by_index"}, sink : Sinks]
Info(s)   == [type |-> "info", sink |-> s, state |-> sinks[s]]
Messages == [type : {"info"}, sink : Sinks, state : {"IDLE", "RUNNING"}]
            \cup [type : {"CHANGE", "REMOVE"}, sink : Sinks]

Init ==
    /\ sinks \in [Sinks -> {"NEW", "IDLE", "RUNNING"}]
    /\ subscribed = FALSE
    /\ to_server = <<>> /\ to_client = <<>>
    /\ connection = "CONNECTING"
    /\ running_sinks = {}
    /\ sent_first_message = FALSE
    /\ last_event = "none"
    /\ missed = {}

-----------------------------------------------------------------------------
(* The detector. *)

Emit(event, if) ==
    IF if \/ ~ sent_first_message
    THEN last_event' = event /\ sent_first_message' = TRUE
    ELSE UNCHANGED <<last_event, sent_first_message>>

add_sink(s) ==
    /\ running_sinks' = running_sinks \cup {s}
    /\ Emit("AUDIO_RUNNING", s \notin running_sinks /\ running_sinks' = {s})

\* Mutant: AUDIO_STOPPED whenever a running sink stops.
remove_any_sink(s) ==
    /\ running_sinks' = running_sinks \ {s}
    /\ Emit("AUDIO_STOPPED", s \in running_sinks)

remove_sink(s) ==
    /\ running_sinks' = running_sinks \ {s}
    /\ Emit("AUDIO_STOPPED", s \in running_sinks /\ running_sinks' = {})

\* context_notify_cb.
Ready ==
    /\ connection = "CONNECTING"
    /\ connection' = "READY"
    /\ to_server' = <<[type |-> "get_sink_info_list"], [type |-> "subscribe"]>>
    /\ UNCHANGED to_client /\ UNCHANGED serverVars /\ UNCHANGED detectorVars

Failed ==
    /\ connection # "FAILED"
    /\ connection' = "FAILED"
    /\ to_server' = <<>> /\ to_client' = <<>>
    /\ subscribed' = FALSE
    /\ UNCHANGED <<sinks, missed>> /\ UNCHANGED detectorVars

\* sink_info_cb, for the list and for a single sink.
SinkInfo ==
    /\ to_client # <<>> /\ Head(to_client).type = "info"
    /\ to_client' = Tail(to_client)
    /\ IF Head(to_client).state = "RUNNING" THEN add_sink(Head(to_client).sink)
                                            ELSE remove_sink(Head(to_client).sink)
    /\ UNCHANGED <<to_server, connection>> /\ UNCHANGED serverVars

\* Mutant: a removed sink is only noticed if it still can be asked about.
SinkRemovedAsksInfo ==
    /\ to_client # <<>> /\ Head(to_client).type = "REMOVE"
    /\ to_client' = Tail(to_client)
    /\ to_server' = Append(to_server,
                       [type |-> "get_sink_info_by_index", sink |-> Head(to_client).sink])
    /\ UNCHANGED connection /\ UNCHANGED serverVars /\ UNCHANGED detectorVars

\* context_subscribe_cb.
SinkRemoved ==
    /\ to_client # <<>> /\ Head(to_client).type = "REMOVE"
    /\ to_client' = Tail(to_client)
    /\ remove_sink(Head(to_client).sink)
    /\ UNCHANGED <<to_server, connection>> /\ UNCHANGED serverVars

\* Mutant: asks about the default sink, PA_INVALID_INDEX.
SinkChangedAsksDefault ==
    /\ to_client # <<>> /\ Head(to_client).type = "CHANGE"
    /\ to_client' = Tail(to_client)
    /\ to_server' = Append(to_server, [type |-> "get_sink_info_by_index", sink |-> -1])
    /\ UNCHANGED connection /\ UNCHANGED serverVars /\ UNCHANGED detectorVars

SinkChanged ==
    /\ to_client # <<>> /\ Head(to_client).type = "CHANGE"
    /\ to_client' = Tail(to_client)
    /\ to_server' = Append(to_server,
                       [type |-> "get_sink_info_by_index", sink |-> Head(to_client).sink])
    /\ UNCHANGED connection /\ UNCHANGED serverVars /\ UNCHANGED detectorVars

Detector == Ready \/ SinkInfo \/ SinkRemoved \/ SinkChanged

-----------------------------------------------------------------------------
(* PulseAudio (external). *)

\* A request for a sink that is gone is answered with an error, which
\* sink_info_cb only logs.
ServerAnswers ==
    /\ to_server # <<>>
    /\ to_server' = Tail(to_server)
    /\ LET request == Head(to_server)
       IN  \/ /\ request.type = "get_sink_info_list"
              /\ \E order \in SetToSeqs(Existing) :
                    to_client' = to_client \o [i \in DOMAIN order |-> Info(order[i])]
              /\ UNCHANGED subscribed
           \/ /\ request.type = "get_sink_info_by_index"
              /\ to_client' = IF request.sink \in Existing
                              THEN Append(to_client, Info(request.sink)) ELSE to_client
              /\ UNCHANGED subscribed
           \/ /\ request.type = "subscribe"
              /\ subscribed' = TRUE
              /\ UNCHANGED to_client
    /\ UNCHANGED <<sinks, missed, connection>> /\ UNCHANGED detectorVars

\* The list has been answered, the subscription is still to be.
Unwatched == /\ connection = "READY"
             /\ ~ subscribed
             /\ to_server[1].type = "subscribe"

SinkChanges(s) == \E state \in SinkStates \ {sinks[s]} :
    /\ sinks[s] # "REMOVED" /\ state # "NEW"
    /\ sinks[s] = "NEW" => state # "REMOVED"
    /\ Len(to_client) + Len(to_server) < MaxMessages
    /\ sinks' = [sinks EXCEPT ![s] = state]
    /\ to_client' = IF subscribed
                    THEN Append(to_client, [type |-> IF state = "REMOVED" THEN "REMOVE"
                                                     ELSE "CHANGE", sink |-> s])
                    ELSE to_client
    /\ missed' = IF Unwatched THEN missed \cup {s}
                 ELSE IF subscribed THEN missed \ {s} ELSE missed
    /\ UNCHANGED <<subscribed, to_server, connection>> /\ UNCHANGED detectorVars

Next == Detector \/ Failed \/ ServerAnswers \/ \E s \in Sinks : SinkChanges(s)

Spec == Init /\ [][Next]_vars

\* Both sides serve their connection; nothing makes a sink change.
FairSpec == Spec /\ WF_vars(Detector) /\ WF_vars(ServerAnswers)

-----------------------------------------------------------------------------
TypeOK ==
    /\ sinks \in [Sinks -> SinkStates]
    /\ subscribed \in BOOLEAN
    /\ to_server \in Seq(Requests) /\ to_client \in Seq(Messages)
    /\ connection \in {"CONNECTING", "READY", "FAILED"}
    /\ running_sinks \subseteq Sinks
    /\ sent_first_message \in BOOLEAN
    /\ last_event \in {"none", "AUDIO_RUNNING", "AUDIO_STOPPED"}
    /\ missed \subseteq Sinks

\* Nothing is under way, so the detector knows all it will ever be told.
Quiet == connection = "READY" /\ subscribed /\ to_server = <<>> /\ to_client = <<>>

\* The EventManager is told exactly when the set of running sinks becomes empty
\* or ceases to be (audio_detector.h, comment on running_sinks), in every order
\* of sinks starting, stopping and vanishing.
LastEventTells == last_event = "AUDIO_RUNNING" <=> running_sinks # {}

\* Although a sink may change again before its information arrives, and may be
\* gone by then, the view catches up with every sink that did not change
\* unwatched between the listing and the subscription.
ViewCatchesUp ==
    Quiet => \A s \in Sinks \ missed : s \in running_sinks <=> sinks[s] = "RUNNING"

\* Sound that stops for good is eventually reported to have stopped.
SilenceReported ==
    <>[](connection = "READY" /\ missed = {} /\ \A s \in Sinks : sinks[s] # "RUNNING")
        => <>[](last_event # "AUDIO_RUNNING")

-----------------------------------------------------------------------------
(* What the repository says of the program and the code does not keep.     *)

\* audio_detector.h, AudioDetector: "Emits an AUDIO_RUNNING event when at least
\* one sink is running, and an AUDIO_STOPPED event when all sinks are idle."
EmitsWhatRuns ==
    Quiet /\ last_event # "none" =>
        (last_event = "AUDIO_RUNNING" <=> \E s \in Sinks : sinks[s] = "RUNNING")

=============================================================================
