------------------------------ MODULE Commands ------------------------------
(***************************************************************************)
(* The commands that run an engine: `irimi shadow` and `irimi replay`,     *)
(* which run an agent under one, and `irimi serve`, which waits; and the   *)
(* maps that each loads and gives requests to services by.  A process is   *)
(* one of the commands; its maps take no step of its.                      *)
(***************************************************************************)
EXTENDS RunCommands, Serve, ServiceMaps

VARIABLE part   \* what is looked at: a command, serve, or the maps

vars == <<part, commandVars, serveVars, mapVars>>

Init ==
    /\ part \in {"command", "serve", "maps"}
    /\ CommandInit
    /\ part # "command" => banner = "shadow"
    /\ ServeInit
    /\ MapsInit /\ (part # "maps" => maps = <<>> /\ allow = {})

Next ==
    \/ part = "command" /\ CommandNext /\ UNCHANGED <<part, serveVars, mapVars>>
    \/ part = "serve" /\ ServeNext /\ UNCHANGED <<part, commandVars, mapVars>>
    \/ part = "maps" /\ MapsNext /\ UNCHANGED <<part, commandVars, serveVars>>

\* Each thread of irimi goes on; nothing makes the command exit, or a signal come.
FairSpec ==
    /\ Init /\ [][Next]_vars
    /\ WF_vars(part = "command" /\ CommandProceeds /\ UNCHANGED <<part, serveVars, mapVars>>)
    /\ WF_vars(part = "serve" /\ ServeProceeds /\ UNCHANGED <<part, commandVars, mapVars>>)
    /\ WF_vars(part = "serve" /\ Watch /\ UNCHANGED <<part, commandVars, mapVars>>)

\* Every command ends once it is told to, or has lost its engine.
CommandsEnd == InterruptEnds /\ ServeEnds

=============================================================================
