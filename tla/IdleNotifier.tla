---------------------------- MODULE IdleNotifier ----------------------------
(***************************************************************************)
(* What the ActivityDetector interface promises its client                 *)
(* (activity_detector.h): after |timeout_ms| of inactivity one             *)
(* ACTIVITY_TIMEOUT is emitted with the data the timeout was added with,   *)
(* and when activity resumes an ACTIVITY_RESUME.  The abstraction has no   *)
(* alarms and no queue: a registered client datum is notified at most once *)
(* until the next resume, and one that is no longer registered never is.   *)
(***************************************************************************)
EXTENDS Naturals

CONSTANT Data

VARIABLES
    registered,     \* data with a timeout
    notified        \* those told of the user's inactivity and not of its end

vars == <<registered, notified>>

TypeOK == registered \subseteq Data /\ notified \subseteq registered

Init == registered \subseteq Data /\ notified = {}

\* A client handler removes some timeouts and adds others; what is added
\* starts out not notified, even if the same datum was registered before.
Reregister == \E kept \in SUBSET registered, added \in SUBSET Data :
    /\ registered' = kept \cup added
    /\ notified' = notified \cap kept

Timeout == \E d \in registered \ notified :
    /\ notified' = notified \cup {d}
    /\ UNCHANGED registered

Resume == notified' = {} /\ UNCHANGED registered

Next == Reregister \/ Timeout \/ Resume

Spec == Init /\ [][Next]_vars

=============================================================================
