--------------------------- MODULE PortRegistration ---------------------------
(***************************************************************************)
(* Ports of a connected backend (backend.cpp): how the calls of the host   *)
(* thread on the table of PortTable interleave with the server and the     *)
(* context thread of SyncCore.  A port is attached to the filter, the      *)
(* connection is synchronised, and an active backend waits on pMutex until *)
(* the registry has announced every port (wait_all_ports_registered).      *)
(*                                                                         *)
(* One host thread calls the API: the table has no lock.  pMutex is held   *)
(* only within a step, except by mutex_wait, which gives it up.  The       *)
(* connection itself (make_connection) is opened and closed in one step.   *)
(***************************************************************************)
EXTENDS PortTable, SyncCore

CONSTANTS Host,             \* the one thread that calls the API
          StatusTimedOut,   \* STATUS_TIMED_OUT, STATUS_NO_MEM: statuses are positive
          StatusNoMem,
          MaxCalls,         \* bound: calls of the API
          LateEvents        \* may a registry event trail the answer to a sync?

ASSUME HostAssumption == Hosts = {Host} /\ Ops = Names
ASSUME StatusAssumption == {StatusTimedOut, StatusNoMem} \subseteq Nat /\ MaxCalls \in Nat /\ LateEvents \in BOOLEAN

VARIABLES conn,     \* "offline": no filter; "online": pFilter; "active": bActivated too
          handle,   \* pHandle and sFullId of each slot: the request that made it, 0 when NULL
          nId,      \* global identifier of each slot: the request that made it
          pending,  \* ports of the server whose registry event is still to come
          step,     \* what the current call does next; "none" between calls
          cur,      \* the slot it is about
          asleep,   \* the host thread is in mutex_wait
          call,     \* the current or last call (ghost)
          before,   \* the used slots and the handles when it began (ghost)
          calls     \* how many calls there were

regVars == <<conn, handle, nId, pending, step, cur, asleep, call, before, calls>>
table   == <<vPorts, nPortCapacity, nPortFirst>>
allVars == <<table, ret, syncVars, regVars>>

AllSlots   == 0 .. MaxSlots - 1
UNDEFINED  == -1        \* memory realloc left uninitialised
INVALID_ID == 0         \* SPA_ID_INVALID

-----------------------------------------------------------------------------
RegInit ==
    /\ TableInit
    /\ SyncInit
    /\ conn = "offline"
    /\ handle = [i \in AllSlots |-> 0]
    /\ nId = [i \in AllSlots |-> UNDEFINED]
    /\ pending = {}
    /\ step = "none"
    /\ cur = 0
    /\ asleep = FALSE
    /\ call = "none"
    /\ before = [used |-> UsedSlots, handle |-> handle]
    /\ calls = 0

\* A call of the API begins.
Begin(name) ==
    /\ step = "none"
    /\ calls < MaxCalls
    /\ calls' = calls + 1
    /\ call' = name
    /\ before' = [used |-> UsedSlots, handle |-> handle]

Goto(s)   == step' = s /\ UNCHANGED <<call, before, calls>>
Return(r) == Goto("none") /\ ret' = r

\* connect continues after the callback.
Resume(s) == step' = s /\ call' = "connect" /\ UNCHANGED <<before, calls>>

\* Mutant of FreeSlot: the handle is kept.
FreeSlotKeepsHandle(i) == FreePort(i) /\ UNCHANGED <<handle, nId>>

\* free_port on top of the table: init_port resets the handle, not nId.
FreeSlot(i) == FreePort(i) /\ handle' = [handle EXCEPT ![i] = 0] /\ UNCHANGED nId

\* Mutant of AttachSlot: the identifier of the port is not reset.
AttachSlotKeepsId(i) ==
    /\ Send(Host, vPorts[i].sID)
    /\ handle' = [handle EXCEPT ![i] = Len(log')]
    /\ UNCHANGED nId

\* The private register_port: the filter gets a port.
AttachSlot(i) ==
    /\ Send(Host, vPorts[i].sID)
    /\ handle' = [handle EXCEPT ![i] = Len(log')]
    /\ nId' = [nId EXCEPT ![i] = INVALID_ID]

\* The private unregister_port, for a set of slots: the handle is forgotten, the
\* port of the filter stays.
DetachSlots(S) ==
    LET attached == {i \in S : handle[i] # 0}
    IN  /\ handle' = [i \in AllSlots |-> IF i \in attached THEN 0 ELSE handle[i]]
        /\ nId' = [i \in AllSlots |-> IF i \in attached THEN INVALID_ID ELSE nId[i]]

\* The loop is unlocked without a sync.
Release ==
    /\ loop' = Nobody
    /\ pc' = [pc EXCEPT ![Host] = "idle"]
    /\ UNCHANGED <<mark, result, nSyncRequestId, nSyncResponseId, nSyncError, connVars>>

-----------------------------------------------------------------------------
(* register_port *)

RegisterCall(id, flags) ==
    /\ Begin("register")
    /\ \/ /\ \E st \in Rejection(id, flags) : ret' = Failed(st)
          /\ UNCHANGED <<table, step, cur>>
       \/ /\ Rejection(id, flags) = {}
          /\ AllocNoMemory \/ AllocNoSlot
          /\ ret' = Failed("NO_MEM")
          /\ UNCHANGED <<step, cur>>
       \/ /\ Rejection(id, flags) = {}
          /\ \E i \in FreeSlots :
                /\ AllocPort(id, flags, i)
                /\ cur' = i
                /\ IF conn = "offline"
                     THEN ret' = Returned(i) /\ UNCHANGED step
                     ELSE step' = "attach" /\ UNCHANGED ret
    /\ UNCHANGED <<syncVars, conn, handle, nId, pending, asleep>>

\* Under the loop lock: pw_filter_add_port, ...
Attach ==
    /\ step = "attach"
    /\ AttachSlot(cur)
    /\ Goto("attached")
    /\ UNCHANGED <<table, ret, conn, pending, cur, asleep>>

\* ... which may fail for lack of memory: the status is negated, and negated again
\* when it is that of dictionary::put.
AttachNoMemory ==
    /\ step = "attach"
    /\ pc[Host] = "locked"
    /\ Release
    /\ Goto("free")
    /\ \E port \in {-1, StatusNoMem} : ret' = [st |-> "NO_MEM", port |-> port]
    /\ UNCHANGED <<table, conn, handle, nId, pending, cur, asleep>>

\* Mutant of AttachFailed: the slot is not freed.
AttachFailedKeepsSlot ==
    /\ step = "attached"
    /\ result[Host] < 0
    /\ Unlock(Host)
    /\ DetachSlots({cur})
    /\ Return(Failed("UNKNOWN_ERR"))
    /\ UNCHANGED <<table, conn, pending, cur, asleep>>

\* sync_core failed.
AttachFailed ==
    /\ step = "attached"
    /\ result[Host] < 0
    /\ Unlock(Host)
    /\ DetachSlots({cur})
    /\ Goto("free")
    /\ ret' = Failed("UNKNOWN_ERR")
    /\ UNCHANGED <<table, conn, pending, cur, asleep>>

\* A backend that is not active does not wait for the registry.
AttachDone ==
    /\ step = "attached"
    /\ result[Host] >= 0
    /\ conn = "online"
    /\ Unlock(Host)
    /\ Return(Returned(cur))
    /\ UNCHANGED <<table, conn, handle, nId, pending, cur, asleep>>

\* An active one does, with the loop still locked.
AttachWait ==
    /\ step = "attached"
    /\ pc[Host] = "synced"
    /\ result[Host] >= 0
    /\ conn = "active"
    /\ Goto("wait_locked")
    /\ UNCHANGED <<table, ret, syncVars, conn, handle, nId, pending, cur, asleep>>

\* Mutant of AllRegistered: the search ends at the first free slot.
RegisteredUpToFree ==
    \A i \in UsedSlots : (0 .. i) \subseteq UsedSlots => nId[i] # INVALID_ID

AllRegistered == \A i \in UsedSlots : nId[i] # INVALID_ID

AttachRegistered ==
    /\ step = "wait_locked"
    /\ ~asleep
    /\ AllRegistered
    /\ Unlock(Host)
    /\ Return(Returned(cur))
    /\ UNCHANGED <<table, conn, handle, nId, pending, cur, asleep>>

\* The status of a wait that failed is returned as it is, a positive number.
AttachTimedOut ==
    /\ step = "wait_locked"
    /\ Unlock(Host)
    /\ Goto("free")
    /\ ret' = [st |-> "TIMED_OUT", port |-> StatusTimedOut]
    /\ asleep' = FALSE
    /\ UNCHANGED <<table, conn, handle, nId, pending, cur>>

\* free_port at the end of a registration that failed, and of unregister_port.
Free ==
    /\ step = "free"
    /\ FreeSlot(cur)
    /\ Goto("none")
    /\ UNCHANGED <<ret, syncVars, conn, pending, cur, asleep>>

-----------------------------------------------------------------------------
(* unregister_port *)

UnregisterCall(i) ==
    /\ Begin("unregister")
    /\ \/ /\ i \notin UsedSlots
          /\ ret' = Failed("INVALID_VALUE")
          /\ UNCHANGED <<table, handle, nId, step, cur>>
       \/ /\ i \in UsedSlots
          /\ conn = "offline"
          /\ FreeSlot(i)
          /\ ret' = Returned(0)
          /\ cur' = i
          /\ UNCHANGED step
       \/ /\ i \in UsedSlots
          /\ conn # "offline"
          /\ DetachSlots({i})
          /\ step' = "detached"
          /\ cur' = i
          /\ UNCHANGED <<table, ret>>
    /\ UNCHANGED <<syncVars, conn, pending, asleep>>

\* The slot is freed only after a successful sync.
Detached ==
    /\ step = "detached"
    /\ Unlock(Host)
    /\ IF result[Host] < 0
         THEN Return(Failed("UNKNOWN_ERR"))
         ELSE Goto("free") /\ ret' = Returned(0)
    /\ UNCHANGED <<table, conn, handle, nId, pending, cur, asleep>>

-----------------------------------------------------------------------------
(* connect: between ConnectCall and ActivateCall the on_connected callback runs,
   which may register and unregister ports. *)

ConnectCall ==
    /\ conn = "offline"
    /\ Begin("connect")
    /\ conn' = "online"
    /\ step' = "attach_all"
    /\ cur' = 0
    /\ UNCHANGED <<table, ret, syncVars, handle, nId, pending, asleep>>

\* register_ports attaches the slots in use in one go under the lock, ...
AttachNext ==
    /\ step = "attach_all"
    /\ pc[Host] = "locked"
    /\ cur < nPortCapacity
    /\ cur' = cur + 1
    /\ IF Used(cur) THEN AttachSlot(cur) ELSE UNCHANGED <<syncVars, handle, nId>>
    /\ UNCHANGED <<table, ret, conn, pending, step, asleep, call, before, calls>>

\* ... unless one of them fails, ...
AttachNextNoMemory ==
    /\ step = "attach_all"
    /\ pc[Host] = "locked"
    /\ cur \in UsedSlots
    /\ Release
    /\ Goto("detach_all")
    /\ ret' = Failed("NO_MEM")
    /\ UNCHANGED <<table, conn, handle, nId, pending, cur, asleep>>

\* ... then synchronises.
AttachedAll ==
    /\ step = "attach_all"
    /\ pc[Host] = "locked"
    /\ cur = nPortCapacity
    /\ Release
    /\ Goto("sync_all")
    /\ UNCHANGED <<table, ret, conn, handle, nId, pending, cur, asleep>>

SyncedAll ==
    /\ step = "sync_all"
    /\ Unlock(Host)
    /\ IF result[Host] < 0
         THEN Goto("detach_all") /\ ret' = Failed("UNKNOWN_ERR")
         ELSE Return(Returned(0))
    /\ UNCHANGED <<table, conn, handle, nId, pending, cur, asleep>>

\* The callback refuses the connection.
CallbackRefuses ==
    /\ conn = "online" /\ step = "none"
    /\ Resume("close")
    /\ ret' = Failed("REFUSED")
    /\ UNCHANGED <<table, syncVars, conn, handle, nId, pending, cur, asleep>>

ActivateCall ==
    /\ conn = "online" /\ step = "none"
    /\ Resume("activate")
    /\ UNCHANGED <<table, ret, syncVars, conn, handle, nId, pending, cur, asleep>>

Activated ==
    /\ step = "activate"
    /\ Unlock(Host)
    /\ IF result[Host] < 0
         THEN Goto("close") /\ ret' = Failed("DISCONNECTED") /\ UNCHANGED conn
         ELSE Goto("wait_all") /\ conn' = "active" /\ UNCHANGED ret
    /\ UNCHANGED <<table, handle, nId, pending, cur, asleep>>

\* wait_all_ports_registered, here without the loop lock.
AllAnnounced ==
    /\ step = "wait_all"
    /\ ~asleep
    /\ AllRegistered
    /\ Return(Returned(0))
    /\ UNCHANGED <<table, syncVars, conn, handle, nId, pending, cur, asleep>>

WaitAllTimedOut ==
    /\ step = "wait_all"
    /\ Goto("close")
    /\ ret' = [st |-> "TIMED_OUT", port |-> StatusTimedOut]
    /\ conn' = "online"
    /\ asleep' = FALSE
    /\ UNCHANGED <<table, syncVars, handle, nId, pending, cur>>

\* Mutant of Close: the next connection inherits the response to the last sync.
CloseKeepsResponse ==
    /\ step = "close"
    /\ conn' = "offline"
    /\ Goto("none")
    /\ log' = << >> /\ served' = 0 /\ handled' = 0 /\ alive' = TRUE
    /\ nSyncRequestId' = EINVAL /\ nSyncError' = 0
    /\ mark' = [h \in Hosts |-> 0]
    /\ result' = [h \in Hosts |-> 0]
    /\ pending' = {}
    /\ UNCHANGED <<table, ret, loop, pc, nSyncResponseId, handle, nId, cur, asleep>>

\* close_connection at the end of connect and disconnect: the next connection
\* starts afresh.
Close ==
    /\ step = "close"
    /\ conn' = "offline"
    /\ Goto("none")
    /\ log' = << >> /\ served' = 0 /\ handled' = 0 /\ alive' = TRUE
    /\ nSyncRequestId' = EINVAL /\ nSyncResponseId' = EINVAL /\ nSyncError' = 0
    /\ mark' = [h \in Hosts |-> 0]
    /\ result' = [h \in Hosts |-> 0]
    /\ pending' = {}
    /\ UNCHANGED <<table, ret, loop, pc, handle, nId, cur, asleep>>

-----------------------------------------------------------------------------
(* disconnect *)

DisconnectCall ==
    /\ conn = "active"
    /\ Begin("disconnect")
    /\ step' = "deactivate"
    /\ UNCHANGED <<table, ret, syncVars, conn, handle, nId, pending, cur, asleep>>

\* An error of deactivate is reported, and does not stop the disconnection.
Deactivated ==
    /\ step = "deactivate"
    /\ Unlock(Host)
    /\ ret' = IF result[Host] < 0 THEN Failed("UNKNOWN_ERR") ELSE Returned(0)
    /\ conn' = "online"
    /\ Goto("detach_all")
    /\ UNCHANGED <<table, handle, nId, pending, cur, asleep>>

\* unregister_ports, also when register_ports failed.
DetachAll ==
    /\ step = "detach_all"
    /\ DetachSlots(UsedSlots)
    /\ Goto("sync_detached")
    /\ UNCHANGED <<table, ret, syncVars, conn, pending, cur, asleep>>

\* Mutant of SyncedDetached: the loop stays locked.
SyncedDetachedLocked ==
    /\ step = "sync_detached"
    /\ pc[Host] = "synced"
    /\ Goto("close")
    /\ UNCHANGED <<table, ret, syncVars, conn, handle, nId, pending, cur, asleep>>

\* A synchronisation that failed is only logged.
SyncedDetached ==
    /\ step = "sync_detached"
    /\ Unlock(Host)
    /\ Goto("close")
    /\ UNCHANGED <<table, ret, conn, handle, nId, pending, cur, asleep>>

-----------------------------------------------------------------------------
(* Waiting: the steps of SyncCore within a call, and mutex_wait. *)

LockSteps == {"attach", "attach_all", "sync_all", "activate", "detached",
              "deactivate", "sync_detached"}
SyncSteps == {"attached", "sync_all", "activate", "detached",
              "deactivate", "sync_detached"}

SyncStep ==
    /\ \/ step \in LockSteps /\ Lock(Host)
       \/ step \in SyncSteps /\ RequestSync(Host)
       \/ SleepAgain(Host)
       \/ FinishSync(Host)
    /\ UNCHANGED <<table, ret, regVars>>

SpuriousWakeup == WakeSpuriously(Host) /\ UNCHANGED <<table, ret, regVars>>

MutexWait ==
    /\ step \in {"wait_locked", "wait_all"}
    /\ ~asleep
    /\ ~AllRegistered
    /\ asleep' = TRUE
    /\ UNCHANGED <<table, ret, syncVars, conn, handle, nId, pending, step, cur,
                   call, before, calls>>

\* A second passes only when there is nothing the server and the context thread
\* could do meanwhile.
OthersAreDone ==
    ~alive \/ loop # Nobody \/ (handled = Len(log) /\ pending = {})

TimeOut == asleep /\ OthersAreDone /\ (AttachTimedOut \/ WaitAllTimedOut)

-----------------------------------------------------------------------------
(* The server and the context thread. *)

\* on_registry_event_global for a port of the filter, the one request p made.
PortAnnounced(p) ==
    LET S == Matches(log[p])
    IN  /\ nId' = [i \in AllSlots |-> IF i \in S THEN p ELSE nId[i]]
        /\ asleep' = (asleep /\ S = {})

\* The registry event of a port comes with the answer to the request that made
\* it, or later.
ContextStep ==
    /\ Dispatch
    /\ IF log[handled + 1] = Sync
         THEN UNCHANGED <<nId, asleep, pending>>
         ELSE \/ PortAnnounced(handled + 1) /\ UNCHANGED pending
              \/ /\ LateEvents
                 /\ pending' = pending \cup {handled + 1}
                 /\ UNCHANGED <<nId, asleep>>
    /\ UNCHANGED <<table, ret, conn, handle, step, cur, call, before, calls>>

LateEvent ==
    /\ alive
    /\ loop = Nobody
    /\ \E p \in pending : PortAnnounced(p) /\ pending' = pending \ {p}
    /\ UNCHANGED <<table, ret, syncVars, conn, handle, step, cur, call, before, calls>>

ServerStep == (Serve \/ Break) /\ conn # "offline" /\ UNCHANGED <<table, ret, regVars>>

-----------------------------------------------------------------------------
RegisterStep == Attach \/ AttachNoMemory \/ AttachFailed \/ AttachDone \/ AttachWait
                \/ AttachRegistered \/ Free \/ Detached
ConnectStep  == AttachNext \/ AttachNextNoMemory \/ AttachedAll \/ SyncedAll
                \/ Activated \/ AllAnnounced \/ Close \/ Deactivated
                \/ DetachAll \/ SyncedDetached
CallStep     == RegisterStep \/ ConnectStep \/ SyncStep \/ MutexWait \/ TimeOut

RegNext ==
    \/ \E id \in Names \cup BadNames, flags \in Flags : RegisterCall(id, flags)
    \/ \E i \in -1 .. nPortCapacity : UnregisterCall(i)
    \/ ConnectCall \/ CallbackRefuses \/ ActivateCall \/ DisconnectCall
    \/ CallStep
    \/ SpuriousWakeup
    \/ ContextStep \/ LateEvent
    \/ ServerStep

\* A call that has begun goes on, and so do the server and the context thread.
RegFairness ==
    /\ WF_allVars(CallStep)
    /\ WF_allVars(ContextStep)
    /\ WF_allVars(LateEvent)
    /\ WF_allVars(Serve /\ ServerStep)

RegSpec == RegInit /\ [][RegNext]_allVars /\ RegFairness
-----------------------------------------------------------------------------
(* Properties *)

RegTypeOK ==
    /\ TableTypeOK
    /\ SyncTypeOK
    /\ conn \in {"offline", "online", "active"}
    /\ handle \in [AllSlots -> Nat]
    /\ nId \in [AllSlots -> {UNDEFINED, INVALID_ID} \cup Nat]
    /\ pending \subseteq 1 .. handled
    /\ step \in LockSteps \cup SyncSteps \cup
               {"none", "free", "wait_locked", "wait_all", "detach_all", "close"}
    /\ cur \in -1 .. MaxSlots
    /\ asleep \in BOOLEAN

\* The slots in S have the handles they had when the call began.
Kept(S) == \A i \in S : handle[i] = before.handle[i]

\* register_port adds the one port it returns, attached if there is a filter, or
\* changes nothing; unregister_port takes away the one port, or changes nothing, or
\* is left half done, and that only when its synchronisation fails: the slot and its
\* name stay taken by a port that has no handle any more.  Neither touches another
\* port, whatever the server, the synchronisation or the wait does.
OnlyUnregisterHalfDone ==
    step = "none" =>
        /\ call = "register" /\ ret.st = "OK" =>
              /\ ret.port \notin before.used
              /\ UsedSlots = before.used \cup {ret.port}
              /\ conn # "offline" => handle[ret.port] # 0
              /\ Kept(before.used)
        /\ call = "unregister" /\ ret.st = "OK" =>
              /\ UsedSlots = before.used \ {cur}
              /\ Kept(UsedSlots)
        /\ call \in {"register", "unregister"} /\ ret.st # "OK" =>
              /\ UsedSlots = before.used
              /\ \/ Kept(UsedSlots)
                 \/ /\ call = "unregister" /\ ret.st = "UNKNOWN_ERR" /\ cur \in UsedSlots
                    /\ handle[cur] = 0 /\ Kept(UsedSlots \ {cur})

\* The requests of this connection that made a port of the name and were announced.
AnnouncedAs(name) == {p \in 1 .. handled : p \notin pending /\ log[p] = name}

\* Between calls, the identifier of each port that is attached to an active backend
\* is one that the registry has announced in this connection for a port of its name:
\* of the port itself, unless an earlier one of the name was given up, for the event
\* of which a registry event that trails it may be taken.
ActivePortsAnnounced ==
    conn = "active" /\ step = "none" =>
        \A i \in UsedSlots : handle[i] # 0 =>
            /\ nId[i] \in AnnouncedAs(vPorts[i].sID)
            /\ nId[i] # handle[i] => \E p \in 1 .. handle[i] - 1 : log[p] = vPorts[i].sID

\* Neither wait reads an nId that realloc left uninitialised: every port in use has
\* been attached once by then (init_port does not set nId).
NoUndefinedIdRead ==
    step \in {"wait_locked", "wait_all"} => \A i \in UsedSlots : nId[i] # UNDEFINED

\* The hint and the names of PortTable hold with the calls taken apart, where a port
\* that is being registered or rolled back holds its slot and its name; and a handle,
\* through which the process callback and the filter events reach a slot, never
\* outlives the registration it belongs to.
TableStaysSound ==
    /\ NothingFreeBelowHint
    /\ NamesUnique
    /\ \A i \in AllSlots : handle[i] # 0 => i \in UsedSlots

\* A call returns while the connection is up, through every wait it has.
CallsReturn == step # "none" ~> (step = "none" \/ ~alive)

\* client.cpp takes a result of register_port that is not negative for the
\* identifier of the new port.
ResultIsAPort ==
    step = "none" /\ call = "register" /\ ret.port >= 0 => ret.port \in UsedSlots
=============================================================================
