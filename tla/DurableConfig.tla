---------------------------- MODULE DurableConfig ----------------------------
(***************************************************************************)
(* What a store of the configuration promises across restarts.  There is   *)
(* the configuration in use and the one stored, which the next start       *)
(* reads; they may differ while the store is dirty.  Sooner or later the   *)
(* store is written; a write cut short may lose part of the configuration, *)
(* but leaves nothing older and spoils one action at most.                 *)
(***************************************************************************)
CONSTANTS
    Defaults,       \* the settings of an empty configuration
    Edits           \* what others may store: <<readable, stored>>

VARIABLES
    running,        \* a configuration is in use
    config,         \* the one in use: its settings and its set of actions
    expressible,    \* it can be stored
    readable,       \* what is stored can be read
    stored,         \* the configuration stored, if readable
    dirty           \* config was not stored since it changed, or was replaced

durableVars == <<running, config, expressible, readable, stored, dirty>>

Init == ~ running /\ ~ dirty /\ <<readable, stored>> \in Edits

Start ==
    /\ ~ running /\ readable
    /\ running'
    /\ config' = stored
    /\ ~ dirty'
    /\ UNCHANGED <<readable, stored>>

Change ==
    /\ running /\ running'
    /\ dirty'
    /\ UNCHANGED <<readable, stored>>

PartOf(part, whole) ==
    /\ \A k \in DOMAIN Defaults : part.settings[k] \in {whole.settings[k], Defaults[k]}
    /\ \/ part.actions \subseteq whole.actions
       \/ \E odd \in part.actions :
             /\ part.actions \ {odd} \subseteq whole.actions
             /\ \E action \in whole.actions : action.name = odd.name

Written  == expressible => readable' /\ stored' = config
CutShort == expressible /\ readable' => PartOf(stored', config)
NotWritten == UNCHANGED <<readable, stored>>

Save ==
    /\ running /\ dirty
    /\ \/ ~ dirty' /\ Written
       \/ dirty' /\ (Written \/ CutShort \/ NotWritten)
    /\ UNCHANGED <<running, config, expressible>>

Crash ==
    /\ running /\ ~ running'
    /\ ~ dirty'
    /\ NotWritten \/ (dirty /\ (Written \/ CutShort))

Edited ==
    /\ <<readable', stored'>> \in Edits
    /\ dirty' <=> running
    /\ UNCHANGED <<running, config, expressible>>

Next == Start \/ Change \/ Save \/ Crash \/ Edited

Spec == Init /\ [][Next]_durableVars

=============================================================================
