------------------------------- MODULE ConfigMC -------------------------------
(***************************************************************************)
(* ConfigStore with a few names and one command.  An int has five bits and *)
(* a second four milliseconds: "timeout 4" no longer fits.                 *)
(***************************************************************************)
EXTENDS ConfigStore

\* The names that can be written are alike.
NameSymmetry == Permutations(Names \ Unwritable)

\* A section of every name that can have one.
ByHand(timeout) ==
    [n \in Names \ Unwritable |->
             [trigger |-> Text("timeout", timeout), exec |-> CHOOSE c \in Commands : TRUE,
              resume_exec |-> None]]

\* No file, a file the daemon does not start with, one with defaults only, two
\* with actions, and one without D-Bus.
FilesByHand ==
    {File("missing", <<>>, <<>>), File("alien", <<>>, <<>>), File("ini", <<>>, <<>>),
     File("ini", <<>>, ByHand(1)), File("ini", <<>>, ByHand(4)),
     File("ini", [k \in {"enable_dbus"} |-> FALSE], <<>>)}

===============================================================================
