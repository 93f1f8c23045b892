--------------------------- MODULE ClientSession ---------------------------
(***************************************************************************)
(* What a client of the backend is told about its connection (callbacks_t):*)
(* the order in which the library calls back in one session, from the      *)
(* start of connect to the end of disconnect, or of a connect that fails.  *)
(*                                                                         *)
(* The client of test/mtest/client.cpp asserts the part of this order that *)
(* does not involve on_connection_lost.  It takes a lost connection for a  *)
(* disconnected one, and asserts that it is connected in each callback     *)
(* from on_activated on; the library goes on with the session.  The two    *)
(* actions named AfterLoss are what the library does and that client does  *)
(* not expect; every other step satisfies its assertions.  on_process and  *)
(* on_io_changed have no place in the order.                               *)
(***************************************************************************)

VARIABLES open,     \* a session is going on
          told,     \* the last callback that was called, or that the client refused it
          lost      \* on_connection_lost was called in this session

sessionVars == <<open, told, lost>>

SessionInit == open = FALSE /\ told = "nothing" /\ lost = FALSE

Begin ==
    /\ ~open
    /\ open' = TRUE
    /\ told' = "nothing"
    /\ lost' = FALSE

\* on_connected, on_activated and on_deactivated come once each, in this order, unless
\* the client refuses one of the first two.
Follows(a, b) ==
    <<a, b>> \in {<<"nothing", "connected">>, <<"connected", "activated">>,
                  <<"activated", "deactivated">>,
                  <<"nothing", "refused">>, <<"connected", "refused">>}

\* `connected' of client.cpp after on_connected, except that a loss reported before
\* on_connected, which the client forgets, counts too.
Connected == told \in {"connected", "activated", "deactivated"} /\ ~lost

Tell ==
    /\ open
    /\ told = "nothing" \/ Connected
    /\ \E t \in {"connected", "activated", "deactivated", "refused"} : Follows(told, t) /\ told' = t
    /\ UNCHANGED <<open, lost>>

\* on_activated and on_deactivated come after on_connection_lost too, where lines 84
\* and 236 of client.cpp assert that the client is connected.
TellAfterLoss ==
    /\ open
    /\ lost
    /\ told \in {"connected", "activated"}
    /\ \E t \in {"activated", "deactivated", "refused"} : Follows(told, t) /\ told' = t
    /\ UNCHANGED <<open, lost>>

\* on_connection_lost may come at any time, from the context thread.
Lose ==
    /\ open
    /\ lost' = TRUE
    /\ UNCHANGED <<open, told>>

\* A session the client never heard of ends in silence.
EndUnnoticed ==
    /\ open
    /\ told = "nothing"
    /\ open' = FALSE
    /\ UNCHANGED <<told, lost>>

\* connect failed half-way, and has reported the connection as lost.
EndLost ==
    /\ open
    /\ lost
    /\ told \in {"refused", "deactivated"}
    /\ open' = FALSE
    /\ UNCHANGED <<told, lost>>

\* on_disconnected is the last callback of a session that was established.
EndDisconnected ==
    /\ open
    /\ told = "deactivated"
    /\ Connected
    /\ open' = FALSE
    /\ told' = "disconnected"
    /\ UNCHANGED lost

\* A connection that was lost is disconnected like any other, and the client is told
\* so, where line 257 of client.cpp asserts that it is connected.
EndDisconnectedAfterLoss ==
    /\ open
    /\ told = "deactivated"
    /\ lost
    /\ open' = FALSE
    /\ told' = "disconnected"
    /\ UNCHANGED lost

SessionNext == Begin \/ Tell \/ TellAfterLoss \/ Lose \/ EndUnnoticed \/ EndLost
               \/ EndDisconnected \/ EndDisconnectedAfterLoss

SessionSpec == SessionInit /\ [][SessionNext]_sessionVars
=============================================================================
