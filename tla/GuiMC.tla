-------------------------------- MODULE GuiMC --------------------------------
(***************************************************************************)
(* GuiController with a file that has one action, or none.  An int has five *)
(* bits and a second three milliseconds: of the seconds entered, 6 become   *)
(* negative, 12 become 4 ms.                                                *)
(***************************************************************************)
EXTENDS GuiController

FilesByHand ==
    {File("ini", <<>>, [n \in {name} |->
        [trigger |-> Text("timeout", 1), exec |-> CHOOSE c \in Commands : TRUE,
         resume_exec |-> None]]) : name \in {CHOOSE n \in Names : TRUE}}

=============================================================================
