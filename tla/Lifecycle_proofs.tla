-------------------------- MODULE Lifecycle_proofs --------------------------
(***************************************************************************)
(* Theorems about Lifecycle.  The inductive invariant is LifeInv, which    *)
(* says where each step of a call finds the threads (ThreadInv) and the    *)
(* client (ClientInv).  What the properties promise of a backend between   *)
(* two calls is not inductive: it is earned step by step within a call,    *)
(* while the context thread and the data loop interfere.                   *)
(***************************************************************************)
EXTENDS Lifecycle, TLAPS

Opening     == {"opening", "ports", "on_connected", "on_activated", "activate"}
Activating  == {"activating", "wait_ports", "undo"}
Ending      == {"deactivating", "on_deactivated"}
Connecting  == Opening \cup Activating \cup {"report_lost"}
Either      == {"unregister", "close", "stop"}
Disconnecting == Ending \cup {"on_disconnected"}

LifeTypes ==
    /\ op \in {"none", "connect", "disconnect", "destroy"}
    /\ step \in {"none"} \cup Connecting \cup Either \cup Disconnecting
    /\ step = "none" <=> op = "none"
    /\ step \in Connecting => op = "connect"
    /\ step \in Disconnecting => op \in {"disconnect", "destroy"}
    /\ filter \in {"none", "created", "active", "inactive", "disconnected"}
    /\ context \in BOOLEAN /\ running \in BOOLEAN /\ processing \in BOOLEAN
    /\ event \in BOOLEAN /\ bActivated \in BOOLEAN /\ alive \in BOOLEAN
    /\ crashed \in BOOLEAN /\ destroyed \in BOOLEAN /\ lost \in BOOLEAN

Closed == filter = "none" /\ ~context /\ ~running /\ ~event /\ ~bActivated

Playing == filter # "none" /\ context /\ ((running /\ filter = "active") \/ lost)

ThreadInv ==
    /\ processing => running /\ filter = "active"
    /\ op \in {"disconnect", "destroy"} => filter \in {"disconnected", "none"}
    /\ bActivated => step \in {"none", "wait_ports", "undo", "deactivating"}
    /\ step \in Opening => filter = "created"
    /\ step \in Connecting => filter # "none" /\ context
    /\ step = "stop" => filter = "none" /\ ~running
    /\ step \in {"activating", "wait_ports"} => Playing
    /\ step = "wait_ports" => bActivated
    /\ step = "on_disconnected" => Closed
    /\ step = "none" => (bActivated /\ Playing) \/ Closed
    /\ destroyed => step = "none" /\ Closed

ClientInv ==
    /\ step \in {"opening", "ports", "on_connected"} => told = "nothing"
    /\ step = "on_activated" => told = "connected"
    /\ step \in {"activate", "activating", "wait_ports", "undo"} \cup Ending => told = "activated"
    /\ step = "report_lost" => told \in {"refused", "deactivated"}
    /\ op = "connect" /\ step = "unregister" => told = "nothing"
    /\ op = "connect" /\ step \in {"close", "stop"} =>
          told = "nothing" \/ (lost /\ told \in {"refused", "deactivated"})
    /\ op \in {"disconnect", "destroy"} /\ step \in Either \cup {"on_disconnected"} =>
          told = "deactivated"
    /\ step = "none" /\ bActivated => told = "activated"

LifeInv == LifeTypes /\ ThreadInv /\ ClientInv

-----------------------------------------------------------------------------
\* The steps of connect.
LEMMA ConnectStepInv ==
    ASSUME LifeInv,
           \/ BadState
           \/ ConnectFails
           \/ Connect
           \/ \E ok \in BOOLEAN : Opened(ok)
           \/ \E ok \in BOOLEAN : PortsRegistered(ok)
           \/ OnConnected
           \/ OnActivated
           \/ Activate
           \/ ActivateFails
           \/ Activated
           \/ ActivateSyncFails
           \/ PortsAnnounced
           \/ PortsTimedOut
           \/ Undo
           \/ ReportLost
    PROVE  LifeInv'
<1> USE DEF LifeInv, LifeTypes, ThreadInv, ClientInv, Closed, Playing,
        Opening, Activating, Ending, Connecting, Either, Disconnecting,
        threadVars, clientVars, At, Goto, Return
<1>1. CASE BadState
  BY <1>1 DEF BadState, lifeVars
<1>2. CASE ConnectFails
  BY <1>2 DEF ConnectFails
<1>3. CASE Connect
  BY <1>3 DEF Connect
<1>4. ASSUME NEW ok \in BOOLEAN, Opened(ok) PROVE LifeInv'
  BY <1>4 DEF Opened
<1>5. ASSUME NEW ok \in BOOLEAN, PortsRegistered(ok) PROVE LifeInv'
  BY <1>5 DEF PortsRegistered
<1>6. CASE OnConnected
  BY <1>6 DEF OnConnected
<1>7. CASE OnActivated
  BY <1>7 DEF OnActivated
<1>8. CASE Activate
  BY <1>8 DEF Activate
<1>9. CASE ActivateFails
  BY <1>9 DEF ActivateFails
<1>10. CASE Activated
  BY <1>10 DEF Activated
<1>11. CASE ActivateSyncFails
  BY <1>11 DEF ActivateSyncFails
<1>12. CASE PortsAnnounced
  BY <1>12 DEF PortsAnnounced
<1>13. CASE PortsTimedOut
  BY <1>13 DEF PortsTimedOut
<1>14. CASE Undo
  BY <1>14 DEF Undo
<1>15. CASE ReportLost
  BY <1>15 DEF ReportLost
<1> HIDE DEF LifeInv
<1> QED
  BY <1>1, <1>2, <1>3, <1>4, <1>5, <1>6, <1>7, <1>8, <1>9, <1>10, <1>11, <1>12, <1>13, <1>14, <1>15

\* The steps of close_connection, disconnect and destroy.
LEMMA EndStepInv ==
    ASSUME LifeInv,
           \/ Close
           \/ Stop
           \/ \E name \in {"disconnect", "destroy"} : Disconnect(name)
           \/ \E ok \in BOOLEAN : Deactivated(ok)
           \/ OnDeactivated
           \/ \E ok \in BOOLEAN : PortsUnregistered(ok)
           \/ OnDisconnected
           \/ DestroyOffline
    PROVE  LifeInv'
<1> USE DEF LifeInv, LifeTypes, ThreadInv, ClientInv, Closed, Playing,
        Opening, Activating, Ending, Connecting, Either, Disconnecting,
        threadVars, clientVars, At, Goto, Return
<1>1. CASE Close
  BY <1>1 DEF Close
<1>2. CASE Stop
  BY <1>2 DEF Stop
<1>3. ASSUME NEW name \in {"disconnect", "destroy"}, Disconnect(name) PROVE LifeInv'
  BY <1>3 DEF Disconnect
<1>4. ASSUME NEW ok \in BOOLEAN, Deactivated(ok) PROVE LifeInv'
  BY <1>4 DEF Deactivated
<1>5. CASE OnDeactivated
  BY <1>5 DEF OnDeactivated
<1>6. ASSUME NEW ok \in BOOLEAN, PortsUnregistered(ok) PROVE LifeInv'
  BY <1>6 DEF PortsUnregistered
<1>7. CASE OnDisconnected
  BY <1>7 DEF OnDisconnected
<1>8. CASE DestroyOffline
  BY <1>8 DEF DestroyOffline
<1> HIDE DEF LifeInv
<1> QED
  BY <1>1, <1>2, <1>3, <1>4, <1>5, <1>6, <1>7, <1>8

\* The data loop, the context thread and the server.
LEMMA ThreadStepInv ==
    ASSUME LifeInv,
           \/ BeginProcess
           \/ EndProcess
           \/ SameLatency
           \/ UpdateLatency
           \/ UpdateFails
           \/ UpdateWithoutFilter
           \/ UpdateSampleRate
           \/ SampleRateFails
           \/ FilterError
           \/ Break
           \/ Over
    PROVE  LifeInv'
<1> USE DEF LifeInv, LifeTypes, ThreadInv, ClientInv, Closed, Playing,
        Opening, Activating, Ending, Connecting, Either, Disconnecting,
        threadVars, clientVars, At, Goto, Return
<1>1. CASE BeginProcess
  BY <1>1, ZenonT(60) DEF BeginProcess
<1>2. CASE EndProcess
  BY <1>2, ZenonT(60) DEF EndProcess
<1>3. CASE SameLatency
  <2>1. LifeTypes'
    BY <1>3, ZenonT(60) DEF SameLatency, Dispatching
  <2>2. ThreadInv'
    BY <1>3 DEF SameLatency, Dispatching
  <2>3. ClientInv'
    BY <1>3 DEF SameLatency, Dispatching
  <2> QED
    BY <2>1, <2>2, <2>3
<1>4. CASE UpdateLatency
  <2>1. LifeTypes'
    BY <1>4 DEF UpdateLatency, Restarted, Dispatching
  <2>2. ThreadInv'
    BY <1>4 DEF UpdateLatency, Restarted, Dispatching
  <2>3. ClientInv'
    BY <1>4 DEF UpdateLatency, Restarted, Dispatching
  <2> QED
    BY <2>1, <2>2, <2>3
<1>5. CASE UpdateFails
  <2>1. LifeTypes'
    BY <1>5, ZenonT(60) DEF UpdateFails, HalfRestarted, Dispatching
  <2>2. ThreadInv'
    <3>1. CASE UNCHANGED <<running, filter>>
      BY <1>5, <3>1 DEF UpdateFails, Dispatching
    <3>2. CASE /\ ~processing
               /\ running' \in {running, FALSE}
               /\ filter' = filter \/ (filter = "active" /\ filter' = "inactive")
      BY <1>5, <3>2 DEF UpdateFails, Dispatching
    <3> QED
      BY <1>5, <3>1, <3>2 DEF UpdateFails, HalfRestarted
  <2>3. ClientInv'
    BY <1>5 DEF UpdateFails, HalfRestarted, Dispatching
  <2> QED
    BY <2>1, <2>2, <2>3
<1>6. CASE UpdateWithoutFilter
  BY <1>6 DEF UpdateWithoutFilter, Dispatching
<1>7. CASE UpdateSampleRate
  <2>1. LifeTypes'
    BY <1>7 DEF UpdateSampleRate, Restarted, Connected, Dispatching
  <2>2. ThreadInv'
    BY <1>7 DEF UpdateSampleRate, Restarted, Connected, Dispatching
  <2>3. ClientInv'
    BY <1>7 DEF UpdateSampleRate, Restarted, Connected, Dispatching
  <2> QED
    BY <2>1, <2>2, <2>3
<1>8. CASE SampleRateFails
  <2>1. LifeTypes'
    BY <1>8, ZenonT(60) DEF SampleRateFails, HalfRestarted, Connected, Dispatching
  <2>2. ThreadInv'
    <3>1. CASE UNCHANGED <<running, filter>>
      BY <1>8, <3>1 DEF SampleRateFails, Connected, Dispatching
    <3>2. CASE /\ ~processing
               /\ running' \in {running, FALSE}
               /\ filter' = filter \/ (filter = "active" /\ filter' = "inactive")
      BY <1>8, <3>2 DEF SampleRateFails, Connected, Dispatching
    <3> QED
      BY <1>8, <3>1, <3>2 DEF SampleRateFails, HalfRestarted
  <2>3. ClientInv'
    BY <1>8 DEF SampleRateFails, HalfRestarted, Connected, Dispatching
  <2> QED
    BY <2>1, <2>2, <2>3
<1>9. CASE FilterError
  BY <1>9 DEF FilterError, Dispatching
<1>10. CASE Break
  <2>1. LifeTypes'
    BY <1>10, ZenonT(60) DEF Break
  <2>2. ThreadInv'
    BY <1>10 DEF Break
  <2>3. ClientInv'
    BY <1>10 DEF Break
  <2> QED
    BY <2>1, <2>2, <2>3
<1>11. CASE Over
  BY <1>11 DEF Over, lifeVars
<1> HIDE DEF LifeInv
<1> QED
  BY <1>1, <1>2, <1>3, <1>4, <1>5, <1>6, <1>7, <1>8, <1>9, <1>10, <1>11

-----------------------------------------------------------------------------
\* A step of the specification is a step of one of these groups.
LEMMA NextStepInv == LifeInv /\ [LifeNext]_lifeVars => LifeInv'
<1> SUFFICES ASSUME LifeInv, [LifeNext]_lifeVars PROVE LifeInv'
  OBVIOUS
<1>1. CASE Call
  BY <1>1, ConnectStepInv, EndStepInv DEF Call
<1>2. CASE Proceed
  BY <1>2, ConnectStepInv, EndStepInv DEF Proceed
<1>3. CASE Fail
  BY <1>3, ConnectStepInv, EndStepInv DEF Fail
<1>4. CASE ContextStep
  BY <1>4, ThreadStepInv DEF ContextStep
<1>5. CASE BeginProcess \/ EndProcess \/ Break \/ Over
  BY <1>5, ThreadStepInv
<1>6. CASE UNCHANGED lifeVars
  BY <1>6 DEF LifeInv, LifeTypes, ThreadInv, ClientInv, Closed, Playing, Opening, Activating,
              Ending, Connecting, Either, Disconnecting, lifeVars, threadVars, clientVars
<1> QED
  BY <1>1, <1>2, <1>3, <1>4, <1>5, <1>6 DEF LifeNext

\* Whatever the other threads do meanwhile, every step of a call finds the threads,
\* the filter and the client as LifeInv says.
THEOREM LifecycleCorrect == LifeSpec => []LifeInv
<1>1. LifeInit => LifeInv
  BY DEF LifeInit, LifeInv, LifeTypes, ThreadInv, ClientInv, Closed, Playing,
         Opening, Activating, Ending, Connecting, Either, Disconnecting
<1> QED
  BY <1>1, NextStepInv, PTL DEF LifeSpec

\* The variables keep their types, and a destroyed backend has nothing left.
THEOREM LifecycleTypeOK == LifeSpec => []LifeTypeOK
<1>1. LifeInv => LifeTypeOK
  BY DEF LifeInv, LifeTypes, ThreadInv, LifeTypeOK, Closed
<1> QED
  BY <1>1, LifecycleCorrect, PTL

\* connect and disconnect end with a backend that is connected and activated, or
\* closed, whichever of their steps failed.
THEOREM CallsLeaveNothingHalfDone == LifeSpec => []ConnectedOrClosed
<1>1. LifeInv => ConnectedOrClosed
  BY DEF LifeInv, LifeTypes, ThreadInv, ClientInv, ConnectedOrClosed, Closed, Playing
<1> QED
  BY <1>1, LifecycleCorrect, PTL

\* No process callback runs after disconnect has stopped the data loop, although a
\* latency change may start the loop again.
THEOREM DisconnectSilences == LifeSpec => []NoProcessAfterDisconnect
<1>1. LifeInv => NoProcessAfterDisconnect
  BY DEF LifeInv, LifeTypes, ThreadInv, NoProcessAfterDisconnect
<1> QED
  BY <1>1, LifecycleCorrect, PTL

\* An active backend plays, or its client was told that the connection is lost.
THEOREM SilenceIsReported == LifeSpec => []SilentOnlyIfReported
<1>1. LifeInv => SilentOnlyIfReported
  BY DEF LifeInv, LifeTypes, ThreadInv, SilentOnlyIfReported, Closed, Playing
<1> QED
  BY <1>1, LifecycleCorrect, PTL

-----------------------------------------------------------------------------
\* What a step of the backend is for its client: a callback, or nothing.
LEMMA StepImplementsSession ==
    ASSUME LifeInv, LifeNext
    PROVE  [Session!SessionNext]_(Session!sessionVars)
<1> USE DEF LifeInv, LifeTypes, ThreadInv, ClientInv, Closed, Playing,
        Opening, Activating, Ending, Connecting, Either, Disconnecting,
        threadVars, clientVars, lifeVars, At, Goto, Return, Session!sessionVars
<1>1. CASE Call
  <2>1. CASE BadState
    BY <2>1 DEF BadState
  <2>2. CASE ConnectFails \/ Connect
    <3>1. Session!Begin
      BY <2>2 DEF ConnectFails, Connect, Session!Begin
    <3> QED
      BY <3>1 DEF Session!SessionNext
  <2>3. ASSUME NEW name \in {"disconnect", "destroy"}, Disconnect(name)
        PROVE  UNCHANGED Session!sessionVars
    BY <2>3 DEF Disconnect
  <2>4. CASE DestroyOffline
    BY <2>4 DEF DestroyOffline
  <2> QED
    BY <1>1, <2>1, <2>2, <2>3, <2>4 DEF Call
<1>2. CASE OnConnected
  <2>1. /\ told' \in {"connected", "refused"}
        /\ Session!Follows(told, told')
    BY <1>2 DEF OnConnected, Session!Follows
  <2>2. Session!Tell \/ Session!TellAfterLoss
    BY <1>2, <2>1 DEF OnConnected, Session!Tell, Session!TellAfterLoss, Session!Connected
  <2> QED
    BY <2>2 DEF Session!SessionNext
<1>3. CASE OnActivated
  <2>1. /\ told' \in {"activated", "refused"}
        /\ Session!Follows(told, told')
    BY <1>3 DEF OnActivated, Session!Follows
  <2>2. Session!Tell \/ Session!TellAfterLoss
    BY <1>3, <2>1 DEF OnActivated, Session!Tell, Session!TellAfterLoss, Session!Connected
  <2> QED
    BY <2>2 DEF Session!SessionNext
<1>4. CASE Undo \/ OnDeactivated
  <2>1. told' = "deactivated" /\ Session!Follows(told, "deactivated")
    BY <1>4 DEF Undo, OnDeactivated, Session!Follows
  <2>2. Session!Tell \/ Session!TellAfterLoss
    BY <1>4, <2>1 DEF Undo, OnDeactivated, Session!Tell, Session!TellAfterLoss, Session!Connected
  <2> QED
    BY <2>2 DEF Session!SessionNext
<1>5. CASE ReportLost
  <2>1. Session!Lose
    BY <1>5 DEF ReportLost, Session!Lose
  <2> QED
    BY <2>1 DEF Session!SessionNext
<1>6. CASE Stop
  <2>1. CASE op = "connect" /\ told = "nothing"
    <3>1. Session!EndUnnoticed
      BY <1>6, <2>1 DEF Stop, Session!EndUnnoticed
    <3> QED
      BY <3>1 DEF Session!SessionNext
  <2>2. CASE op = "connect" /\ told # "nothing"
    <3>1. Session!EndLost
      BY <1>6, <2>2 DEF Stop, Session!EndLost
    <3> QED
      BY <3>1 DEF Session!SessionNext
  <2>3. CASE op # "connect"
    BY <1>6, <2>3 DEF Stop
  <2> QED
    BY <2>1, <2>2, <2>3
<1>7. CASE OnDisconnected
  <2>1. Session!EndDisconnected \/ Session!EndDisconnectedAfterLoss
    BY <1>7 DEF OnDisconnected, Session!EndDisconnected, Session!EndDisconnectedAfterLoss,
       Session!Connected
  <2> QED
    BY <2>1 DEF Session!SessionNext
<1>8. ASSUME NEW ok \in BOOLEAN, Opened(ok) \/ PortsRegistered(ok) \/ Deactivated(ok) \/ PortsUnregistered(ok)
      PROVE  UNCHANGED Session!sessionVars
  BY <1>8 DEF Opened, PortsRegistered, Deactivated, PortsUnregistered
<1>9. CASE Activate \/ ActivateFails \/ Activated \/ ActivateSyncFails
  BY <1>9 DEF Activate, ActivateFails, Activated, ActivateSyncFails
<1>10. CASE PortsAnnounced \/ PortsTimedOut \/ Close
  BY <1>10 DEF PortsAnnounced, PortsTimedOut, Close
<1>11. CASE UpdateFails \/ SampleRateFails
  <2>1. filter # "none" /\ (filter' = filter \/ filter' = "inactive")
    BY <1>11 DEF UpdateFails, SampleRateFails, HalfRestarted, Connected
  <2>2. lost' = TRUE /\ UNCHANGED <<op, told>>
    BY <1>11 DEF UpdateFails, SampleRateFails
  <2>3. Session!Lose
    BY <2>1, <2>2 DEF Session!Lose
  <2> QED
    BY <2>3 DEF Session!SessionNext
<1>12. CASE FilterError
  <2>1. Session!Lose
    BY <1>12 DEF FilterError, Session!Lose
  <2> QED
    BY <2>1 DEF Session!SessionNext
<1>13. CASE SameLatency \/ UpdateLatency \/ UpdateWithoutFilter \/ UpdateSampleRate
  BY <1>13 DEF SameLatency, UpdateLatency, UpdateWithoutFilter, UpdateSampleRate, Restarted, Connected, Dispatching
<1>14. CASE BeginProcess \/ EndProcess \/ Break \/ Over
  BY <1>14 DEF BeginProcess, EndProcess, Break, Over
<1> HIDE DEF LifeInv
<1> QED
  BY <1>1, <1>2, <1>3, <1>4, <1>5, <1>6, <1>7, <1>8, <1>9, <1>10, <1>11, <1>12, <1>13, <1>14
     DEF LifeNext, Proceed, Fail, ContextStep

\* The backend makes its callbacks in the order of ClientSession: as client.cpp asserts
\* them until the connection is reported as lost, and in the same order after that.
THEOREM LifecycleImplementsSession == LifeSpec => ImplementsSession
<1>1. LifeInit => Session!SessionInit
  BY DEF LifeInit, Session!SessionInit
<1>2. LifeInv /\ [LifeNext]_lifeVars => [Session!SessionNext]_(Session!sessionVars)
  <2>1. UNCHANGED lifeVars => UNCHANGED Session!sessionVars
    BY DEF lifeVars, threadVars, clientVars, Session!sessionVars
  <2> QED
    BY <2>1, StepImplementsSession
<1> QED
  BY <1>1, <1>2, LifecycleCorrect, PTL DEF LifeSpec, ImplementsSession, Session!SessionSpec
=============================================================================
