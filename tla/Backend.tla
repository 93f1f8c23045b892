------------------------------- MODULE Backend -------------------------------
(***************************************************************************)
(* A connection and the links made over it: between two calls of           *)
(* Lifecycle, the host thread of a connected backend links and unlinks     *)
(* ports while the context thread dispatches the registry and everything   *)
(* else, the data loop runs and the server may go away.                    *)
(*                                                                         *)
(* connect_ports and disconnect_ports do not check for a connection: they  *)
(* are called for a connected backend only.  The registry of a connection  *)
(* begins empty and ends with it.                                          *)
(***************************************************************************)
EXTENDS Lifecycle, Links

backendVars == <<lifeVars, linkVars>>

BackendInit == LifeInit /\ LinkInit

Online == op = "none" /\ filter # "none" /\ ~crashed

\* make_connection constructs the registry, close_connection destroys it.
RegistryEmpty ==
    /\ objects' = Nothing /\ mirror' = Nothing
    /\ requests' = <<>> /\ events' = <<>>
    /\ link' = NoCall
    /\ made' = NoId /\ kept' = FALSE

LifeStep ==
    /\ LifeNext
    /\ op' # op => link = NoCall
    /\ IF op' = op THEN UNCHANGED linkVars ELSE RegistryEmpty

ServerAnswers ==
    /\ Online /\ alive
    /\ ServerStep
    /\ UNCHANGED lifeVars

ClientLinks ==
    /\ Online
    /\ LinkStep
    /\ UNCHANGED lifeVars

BackendNext == LifeStep \/ ServerAnswers \/ ClientLinks

BackendSpec == BackendInit /\ [][BackendNext]_backendVars /\ LifeFairness
=============================================================================
