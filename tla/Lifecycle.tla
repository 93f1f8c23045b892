----------------------------- MODULE Lifecycle -----------------------------
(***************************************************************************)
(* The life of a connection (backend.cpp): connect, disconnect and destroy *)
(* called by the host thread, against the context thread, which dispatches *)
(* filter errors and latency changes, and the data loop, which runs the    *)
(* process callback.                                                       *)
(*                                                                         *)
(* A step of the host thread is a section under the loop lock up to the    *)
(* wait of a sync_core, or a callback.  The context thread dispatches      *)
(* between two of them.  SyncCore and PortRegistration say what a          *)
(* synchronisation and the ports do; here a synchronisation succeeds or    *)
(* fails, and the wait for the ports succeeds or times out.                *)
(***************************************************************************)
EXTENDS Naturals

VARIABLES op,           \* the call of the host thread: "none" between calls
          step,         \* what it does next
          context,      \* the context thread runs
          filter,       \* pFilter: "none", "created", "active", "inactive", "disconnected"
          running,      \* the data loop runs
          processing,   \* it is in on_filter_process
          event,        \* the event of the ring buffer is signalled
          bActivated,
          alive,        \* the server answers
          crashed,      \* a NULL pointer was used: what follows is undefined
          destroyed,    \* the backend was freed
          told, lost    \* what the client was told: see ClientSession

threadVars == <<context, running, processing, event, filter>>
clientVars == <<told, lost>>
lifeVars   == <<op, step, threadVars, bActivated, alive, crashed, destroyed, clientVars>>

LifeInit ==
    /\ op = "none" /\ step = "none"
    /\ context = FALSE
    /\ filter = "none"
    /\ running = FALSE /\ processing = FALSE /\ event = FALSE
    /\ bActivated = FALSE
    /\ alive = TRUE /\ crashed = FALSE /\ destroyed = FALSE
    /\ told = "nothing" /\ lost = FALSE

At(s)   == step = s /\ ~crashed
Goto(s) == step' = s /\ UNCHANGED op
Return  == step' = "none" /\ op' = "none"

-----------------------------------------------------------------------------
(* connect *)

\* A connected backend refuses to connect, and one that is not to disconnect.
BadState == op = "none" /\ UNCHANGED lifeVars

\* make_connection stops half-way: the context thread runs or not, and there is
\* a filter only when it does.
ConnectFails ==
    /\ op = "none" /\ ~destroyed /\ ~crashed
    /\ filter = "none"
    /\ op' = "connect" /\ step' = "close"
    /\ context' \in BOOLEAN
    /\ bActivated' = FALSE
    /\ told' = "nothing" /\ lost' = FALSE
    /\ UNCHANGED <<filter, running, processing, event, alive, crashed, destroyed>>

\* It gets as far as its sync_core.
Connect ==
    /\ op = "none" /\ ~destroyed /\ ~crashed
    /\ filter = "none"
    /\ op' = "connect" /\ step' = "opening"
    /\ context' = TRUE
    /\ filter' = "created"
    /\ bActivated' = FALSE
    /\ told' = "nothing" /\ lost' = FALSE
    /\ UNCHANGED <<running, processing, event, alive, crashed, destroyed>>

\* A sync_core ends: the server has answered, or a spurious wakeup ends it early.
Synced(ok) == ok => alive

Opened(ok) ==
    /\ At("opening")
    /\ Synced(ok)
    /\ Goto(IF ok THEN "ports" ELSE "close")
    /\ UNCHANGED <<threadVars, bActivated, alive, crashed, destroyed, clientVars>>

\* register_ports
PortsRegistered(ok) ==
    /\ At("ports")
    /\ Synced(ok)
    /\ Goto(IF ok THEN "on_connected" ELSE "unregister")
    /\ UNCHANGED <<threadVars, bActivated, alive, crashed, destroyed, clientVars>>

\* The two callbacks before the activation; each may refuse.
OnConnected ==
    /\ At("on_connected")
    /\ \/ told' = "connected" /\ Goto("on_activated")
       \/ told' = "refused" /\ Goto("report_lost")
    /\ UNCHANGED <<threadVars, bActivated, alive, crashed, destroyed, lost>>

OnActivated ==
    /\ At("on_activated")
    /\ \/ told' = "activated" /\ Goto("activate")
       \/ told' = "refused" /\ Goto("report_lost")
    /\ UNCHANGED <<threadVars, bActivated, alive, crashed, destroyed, lost>>

\* activate up to its sync_core: the data loop, the filter, then the node.
Activate ==
    /\ At("activate")
    /\ running' = TRUE
    /\ filter' = "active"
    /\ Goto("activating")
    /\ UNCHANGED <<context, processing, event, bActivated, alive, crashed, destroyed, clientVars>>

\* One of the three fails; the data loop is stopped again.
ActivateFails ==
    /\ At("activate")
    /\ filter' \in {"created", "inactive"}
    /\ Goto("undo")
    /\ UNCHANGED <<context, running, processing, event, bActivated, alive, crashed,
                   destroyed, clientVars>>

Activated ==
    /\ At("activating")
    /\ Synced(TRUE)
    /\ bActivated' = TRUE
    /\ Goto("wait_ports")
    /\ UNCHANGED <<threadVars, alive, crashed, destroyed, clientVars>>

\* pw_data_loop_stop joins the data loop: the process callback has returned.
ActivateSyncFails ==
    /\ At("activating")
    /\ ~processing
    /\ running' = FALSE
    /\ Goto("undo")
    /\ UNCHANGED <<context, filter, processing, event, bActivated, alive, crashed,
                   destroyed, clientVars>>

\* wait_all_ports_registered
PortsAnnounced ==
    /\ At("wait_ports")
    /\ Return
    /\ UNCHANGED <<threadVars, bActivated, alive, crashed, destroyed, clientVars>>

PortsTimedOut ==
    /\ At("wait_ports")
    /\ Goto("undo")
    /\ UNCHANGED <<threadVars, bActivated, alive, crashed, destroyed, clientVars>>

\* Mutants of Undo: the backend stays activated; the client is not told.
UndoKeepsActivated ==
    /\ At("undo")
    /\ told' = "deactivated"
    /\ Goto("report_lost")
    /\ UNCHANGED <<threadVars, bActivated, alive, crashed, destroyed, lost>>

UndoInSilence ==
    /\ At("undo")
    /\ bActivated' = FALSE
    /\ Goto("report_lost")
    /\ UNCHANGED <<threadVars, alive, crashed, destroyed, clientVars>>

\* connect gives up after on_activated: the data loop may still be running.
Undo ==
    /\ At("undo")
    /\ bActivated' = FALSE
    /\ told' = "deactivated"
    /\ Goto("report_lost")
    /\ UNCHANGED <<threadVars, alive, crashed, destroyed, lost>>

\* The two lsp_finally blocks of connect, for a backend that is not activated.
ReportLost ==
    /\ At("report_lost")
    /\ IF bActivated
         THEN Return /\ UNCHANGED lost
         ELSE Goto("close") /\ lost' = TRUE
    /\ UNCHANGED <<threadVars, bActivated, alive, crashed, destroyed, told>>

-----------------------------------------------------------------------------
(* close_connection, at the end of connect and disconnect *)

\* The first part runs under the loop lock and destroys the filter and the context,
\* and with them the data loop, ...
Close ==
    /\ At("close")
    /\ ~processing
    /\ filter' = "none"
    /\ running' = FALSE
    /\ Goto("stop")
    /\ UNCHANGED <<context, processing, event, bActivated, alive, crashed, destroyed, clientVars>>

\* ... the second one stops the context thread and frees the rest.
Stop ==
    /\ At("stop")
    /\ context' = FALSE
    /\ event' = FALSE
    /\ alive' = TRUE
    /\ IF op = "connect" THEN Return ELSE Goto("on_disconnected")
    /\ UNCHANGED <<filter, running, processing, bActivated, crashed, destroyed, clientVars>>

-----------------------------------------------------------------------------
(* disconnect, destroy *)

\* Mutant of Disconnect: deactivate stops the data loop and leaves the filter alone.
DisconnectStopsOnly(name) ==
    /\ op = "none" /\ ~destroyed /\ ~crashed
    /\ filter # "none"
    /\ ~processing
    /\ op' = name
    /\ running' = FALSE
    /\ step' = "deactivating"
    /\ UNCHANGED <<context, filter, processing, event, bActivated, alive, crashed,
                   destroyed, clientVars>>

\* deactivate up to its sync_core.
Disconnect(name) ==
    /\ op = "none" /\ ~destroyed /\ ~crashed
    /\ filter # "none"
    /\ op' = name
    /\ IF bActivated
         THEN /\ ~processing
              /\ running' = FALSE
              /\ filter' = "disconnected"
              /\ step' = "deactivating"
         ELSE /\ step' = "unregister"
              /\ UNCHANGED <<running, filter>>
    /\ UNCHANGED <<context, processing, event, bActivated, alive, crashed, destroyed, clientVars>>

\* It ends whether the synchronisation succeeds or not.
Deactivated(ok) ==
    /\ At("deactivating")
    /\ Synced(ok)
    /\ bActivated' = FALSE
    /\ Goto("on_deactivated")
    /\ UNCHANGED <<threadVars, alive, crashed, destroyed, clientVars>>

OnDeactivated ==
    /\ At("on_deactivated")
    /\ told' = "deactivated"
    /\ Goto("unregister")
    /\ UNCHANGED <<threadVars, bActivated, alive, crashed, destroyed, lost>>

\* unregister_ports, also after register_ports has failed.
PortsUnregistered(ok) ==
    /\ At("unregister")
    /\ Synced(ok)
    /\ Goto("close")
    /\ UNCHANGED <<threadVars, bActivated, alive, crashed, destroyed, clientVars>>

OnDisconnected ==
    /\ At("on_disconnected")
    /\ told' = "disconnected"
    /\ destroyed' = (op = "destroy")
    /\ Return
    /\ UNCHANGED <<threadVars, bActivated, alive, crashed, lost>>

\* Mutant of DestroyOffline: destroy does not disconnect first.
DestroyAnyway ==
    /\ op = "none" /\ ~destroyed /\ ~crashed
    /\ destroyed' = TRUE
    /\ UNCHANGED <<op, step, threadVars, bActivated, alive, crashed, clientVars>>

\* destroy of a backend that is not connected frees it.
DestroyOffline ==
    /\ op = "none" /\ ~destroyed /\ ~crashed
    /\ filter = "none"
    /\ destroyed' = TRUE
    /\ UNCHANGED <<op, step, threadVars, bActivated, alive, crashed, clientVars>>

-----------------------------------------------------------------------------
(* The data loop: on_filter_process, which may call set_latency. *)

BeginProcess ==
    /\ ~crashed
    /\ running
    /\ filter = "active"
    /\ ~processing
    /\ processing' = TRUE
    /\ UNCHANGED <<op, step, context, filter, running, event, bActivated, alive,
                   crashed, destroyed, clientVars>>

\* Mutant of EndProcess: set_latency takes the loop lock instead of the ring buffer,
\* and waits for a close_connection that holds it.
EndProcessLocked ==
    /\ ~crashed
    /\ processing
    /\ step # "close"
    /\ processing' = FALSE
    /\ event' \in {event, TRUE}
    /\ UNCHANGED <<op, step, context, filter, running, bActivated, alive,
                   crashed, destroyed, clientVars>>

\* The callback returns, with or without a new latency.
EndProcess ==
    /\ ~crashed
    /\ processing
    /\ processing' = FALSE
    /\ event' \in {event, TRUE}
    /\ UNCHANGED <<op, step, context, filter, running, bActivated, alive,
                   crashed, destroyed, clientVars>>

-----------------------------------------------------------------------------
(* The context thread *)

Dispatching == context /\ ~crashed

\* on_ringbuffer_data_received, when the latency has not changed.
SameLatency ==
    /\ Dispatching
    /\ event
    /\ event' = FALSE
    /\ UNCHANGED <<op, step, context, filter, running, processing, bActivated, alive,
                   crashed, destroyed, clientVars>>

\* The data loop is stopped and started again, which joins it and waits for the
\* callback, or a step of this fails, the first one without any effect.
Restarted ==
    /\ ~processing
    /\ running' = TRUE
    /\ filter' = IF filter = "inactive" THEN "active" ELSE filter

HalfRestarted ==
    \/ UNCHANGED <<running, filter>>
    \/ /\ ~processing
       /\ running' \in {running, FALSE}
       /\ filter' = filter \/ (filter = "active" /\ filter' = "inactive")

\* update_latency restarts the data loop, ...
UpdateLatency ==
    /\ Dispatching
    /\ event
    /\ filter # "none"
    /\ event' = FALSE
    /\ Restarted
    /\ UNCHANGED <<op, step, context, processing, bActivated, alive, crashed,
                   destroyed, clientVars>>

\* Mutant of UpdateFails: the failure is not reported.
UpdateFailsSilently ==
    /\ Dispatching
    /\ event
    /\ filter # "none"
    /\ event' = FALSE
    /\ HalfRestarted
    /\ UNCHANGED <<op, step, context, processing, bActivated, alive, crashed, destroyed,
                   clientVars>>

\* ... or fails on the way: the connection is reported as lost, ...
UpdateFails ==
    /\ Dispatching
    /\ event
    /\ filter # "none"
    /\ event' = FALSE
    /\ HalfRestarted
    /\ lost' = TRUE
    /\ UNCHANGED <<op, step, context, processing, bActivated, alive, crashed, destroyed, told>>

\* ... and it uses pFilter without a check.
UpdateWithoutFilter ==
    /\ Dispatching
    /\ event
    /\ filter = "none"
    /\ crashed' = TRUE
    /\ UNCHANGED <<op, step, threadVars, bActivated, alive, destroyed, clientVars>>

\* update_sample_rate does the same, with on_io_changed in between, when the format
\* of a connected filter changes; the callback may refuse.
Connected == filter \in {"active", "inactive"}

UpdateSampleRate ==
    /\ Dispatching
    /\ Connected
    /\ Restarted
    /\ UNCHANGED <<op, step, context, processing, event, bActivated, alive, crashed,
                   destroyed, clientVars>>

SampleRateFails ==
    /\ Dispatching
    /\ Connected
    /\ HalfRestarted
    /\ lost' = TRUE
    /\ UNCHANGED <<op, step, context, processing, event, bActivated, alive, crashed,
                   destroyed, told>>

\* on_filter_state_changed: an error of the filter.
FilterError ==
    /\ Dispatching
    /\ filter # "none"
    /\ lost' = TRUE
    /\ UNCHANGED <<op, step, threadVars, bActivated, alive, crashed, destroyed, told>>

\* The server goes away.
Break ==
    /\ context /\ ~crashed
    /\ alive
    /\ alive' = FALSE
    /\ UNCHANGED <<op, step, threadVars, bActivated, crashed, destroyed, clientVars>>

\* Nothing is left to happen.
Over == (destroyed \/ crashed) /\ UNCHANGED lifeVars

-----------------------------------------------------------------------------
\* What a call does next when nothing fails.
Proceed ==
    \/ Opened(TRUE) \/ PortsRegistered(TRUE)
    \/ OnConnected \/ OnActivated \/ Activate \/ Activated \/ PortsAnnounced
    \/ Undo \/ ReportLost
    \/ Close \/ Stop
    \/ Deactivated(TRUE) \/ OnDeactivated \/ PortsUnregistered(TRUE) \/ OnDisconnected

Fail ==
    \/ Opened(FALSE) \/ PortsRegistered(FALSE)
    \/ ActivateFails \/ ActivateSyncFails \/ PortsTimedOut
    \/ Deactivated(FALSE) \/ PortsUnregistered(FALSE)

Call ==
    \/ BadState \/ ConnectFails \/ Connect
    \/ Disconnect("disconnect") \/ Disconnect("destroy") \/ DestroyOffline

ContextStep == SameLatency \/ UpdateLatency \/ UpdateFails \/ UpdateWithoutFilter
               \/ UpdateSampleRate \/ SampleRateFails \/ FilterError

LifeNext == Call \/ Proceed \/ Fail \/ BeginProcess \/ EndProcess \/ ContextStep \/ Break \/ Over

\* A call that has begun goes on, and a process callback returns; the data loop
\* runs between two of them, but not so as to starve a thread that wants to stop it.
LifeFairness == WF_lifeVars(EndProcess) /\ SF_lifeVars(Proceed)

LifeSpec == LifeInit /\ [][LifeNext]_lifeVars /\ LifeFairness

-----------------------------------------------------------------------------
(* Properties *)

\* Nothing of a backend outlives its destruction; the process callback runs in a
\* running data loop.
LifeTypeOK ==
    /\ op \in {"none", "connect", "disconnect", "destroy"}
    /\ step = "none" <=> op = "none"
    /\ filter \in {"none", "created", "active", "inactive", "disconnected"}
    /\ {context, event, bActivated, alive, crashed, lost} \subseteq BOOLEAN
    /\ processing => running /\ filter = "active"
    /\ destroyed => filter = "none" /\ ~context /\ ~running /\ ~event

\* connect and disconnect leave nothing half-done: when a call returns, the backend
\* is connected and activated with its threads running, or everything is closed
\* and a new connect may begin, whichever step failed (lsp_finally in connect).
ConnectedOrClosed ==
    op = "none" =>
        \/ bActivated /\ filter # "none" /\ context /\ told = "activated"
        \/ ~bActivated /\ filter = "none" /\ ~context /\ ~running /\ ~event

\* deactivate disconnects the filter besides stopping the data loop, which a latency
\* change may start again during its sync_core: no process callback runs once
\* disconnect has stopped the loop.
NoProcessAfterDisconnect ==
    op \in {"disconnect", "destroy"} => ~processing

\* An active backend processes audio unless the client was told that the connection
\* is lost: no change of latency or sample rate leaves the data loop stopped in silence.
SilentOnlyIfReported ==
    op = "none" /\ bActivated => (running /\ filter = "active") \/ lost

\* A call returns while the server answers, and is never stuck on the data loop.
LifeCallsReturn == step # "none" ~> (step = "none" \/ ~alive \/ crashed)

\* Whatever fails and whenever the context thread reports an error, the callbacks come
\* in the order of ClientSession, none outside a session: what client.cpp asserts of
\* them holds as long as the connection is not reported as lost, and when it is, the
\* session ends with the same callbacks, although the client then asserts the contrary.
Session == INSTANCE ClientSession WITH open <- op # "none" \/ filter # "none"
ImplementsSession == Session!SessionSpec

\* client.cpp asserts in on_process that it is activated.
ProcessOnlyWhenActivated == processing => told = "activated"
=============================================================================
