------------------------------ MODULE SyncCore ------------------------------
(***************************************************************************)
(* How a host thread waits for the PipeWire server (backend.cpp:           *)
(* sync_core, on_core_done).  A host thread locks the thread loop, issues  *)
(* requests, then a sync, and sleeps in pw_thread_loop_wait, which gives   *)
(* the loop up until the context thread has dispatched the server's answer *)
(* and signals it.                                                         *)
(*                                                                         *)
(* The connection is in order in both directions and the server answers    *)
(* every request, so one log stands for both directions: requests up to    *)
(* `served' have been carried out, and the events of those up to `handled' *)
(* have been dispatched by the context thread.  The sequence number of a   *)
(* sync is its position in the log.  Server and library are external.      *)
(*                                                                         *)
(* The response, the request and the error are members of the backend,     *)
(* shared by all the threads that sync.                                    *)
(***************************************************************************)
EXTENDS Integers, Sequences

CONSTANTS Hosts,            \* threads that call the API
          Nobody,           \* the loop is free: the context thread may dispatch
          Ops,              \* requests other than a sync
          Sync,             \* the request of pw_proxy_sync
          MaxRequests,      \* bound: no call begins once the log is this long
          SpuriousWakeups,  \* may a condition variable wake without a signal?
          Breakable         \* may the connection to the server break?

ASSUME HostsAssumption == Nobody \notin Hosts
ASSUME OpsAssumption == Sync \notin Ops
ASSUME BoundAssumption == MaxRequests \in Nat
ASSUME ChoicesAssumption == SpuriousWakeups \in BOOLEAN /\ Breakable \in BOOLEAN

VARIABLES loop,             \* owner of the lock of pContextThreadLoop
          pc,               \* where each host thread is in its call
          mark,             \* the sync each host thread is waiting for
          result,           \* what sync_core returned to it
          nSyncRequestId, nSyncResponseId, nSyncError,
          log, served, handled,
          alive             \* the connection is up

connVars == <<log, served, handled, alive>>
syncVars == <<loop, pc, mark, result, nSyncRequestId, nSyncResponseId,
              nSyncError, connVars>>

EINVAL == -22
EPIPE  == -32

\* A waiting thread is woken by a signal, or startled: awake without one.
Phases == {"idle", "locked", "waiting", "woken", "startled", "synced"}

-----------------------------------------------------------------------------
SyncInit ==
    /\ loop = Nobody
    /\ pc = [h \in Hosts |-> "idle"]
    /\ mark = [h \in Hosts |-> 0]
    /\ result = [h \in Hosts |-> 0]
    /\ nSyncRequestId = EINVAL
    /\ nSyncResponseId = EINVAL
    /\ nSyncError = 0
    /\ log = << >>
    /\ served = 0
    /\ handled = 0
    /\ alive = TRUE

\* pw_thread_loop_lock.
Lock(h) ==
    /\ pc[h] = "idle"
    /\ loop = Nobody
    /\ Len(log) < MaxRequests
    /\ loop' = h
    /\ pc' = [pc EXCEPT ![h] = "locked"]
    /\ UNCHANGED <<mark, result, nSyncRequestId, nSyncResponseId, nSyncError, connVars>>

\* A request of the host: add a port, create or destroy a link, ...
Send(h, op) ==
    /\ pc[h] = "locked"
    /\ Len(log) < MaxRequests
    /\ log' = Append(log, op)
    /\ UNCHANGED <<loop, pc, mark, result, nSyncRequestId, nSyncResponseId,
                   nSyncError, served, handled, alive>>

\* Mutants of RequestSync: the wait keeps the loop locked; the number of the
\* request is off by one; it is not stored.
RequestSyncLocked(h) ==
    /\ pc[h] = "locked"
    /\ nSyncError # EPIPE
    /\ nSyncError' = 0
    /\ nSyncResponseId' = EINVAL
    /\ log' = Append(log, Sync)
    /\ nSyncRequestId' = Len(log')
    /\ mark' = [mark EXCEPT ![h] = Len(log')]
    /\ pc' = [pc EXCEPT ![h] = "waiting"]
    /\ UNCHANGED <<loop, result, served, handled, alive>>

RequestSyncOffByOne(h) ==
    /\ pc[h] = "locked"
    /\ nSyncError # EPIPE
    /\ nSyncError' = 0
    /\ nSyncResponseId' = EINVAL
    /\ log' = Append(log, Sync)
    /\ nSyncRequestId' = Len(log)
    /\ mark' = [mark EXCEPT ![h] = Len(log')]
    /\ pc' = [pc EXCEPT ![h] = "waiting"]
    /\ loop' = Nobody
    /\ UNCHANGED <<result, served, handled, alive>>

RequestSyncForgets(h) ==
    /\ pc[h] = "locked"
    /\ nSyncError # EPIPE
    /\ nSyncError' = 0
    /\ nSyncResponseId' = EINVAL
    /\ log' = Append(log, Sync)
    /\ mark' = [mark EXCEPT ![h] = Len(log')]
    /\ pc' = [pc EXCEPT ![h] = "waiting"]
    /\ loop' = Nobody
    /\ UNCHANGED <<nSyncRequestId, result, served, handled, alive>>

\* sync_core up to its first wait, which releases the loop.  Nothing ever sets
\* nSyncError to -EPIPE, so the early return never happens.
RequestSync(h) ==
    /\ pc[h] = "locked"
    /\ nSyncError # EPIPE
    /\ nSyncError' = 0
    /\ nSyncResponseId' = EINVAL
    /\ log' = Append(log, Sync)
    /\ nSyncRequestId' = Len(log')
    /\ mark' = [mark EXCEPT ![h] = Len(log')]
    /\ pc' = [pc EXCEPT ![h] = "waiting"]
    /\ loop' = Nobody
    /\ UNCHANGED <<result, served, handled, alive>>

\* Mutant of KeepWaiting: the thread waits once, whatever woke it.
KeepWaitingOnce == FALSE

\* The wait returns when the loop can be locked again; a response to some other
\* request sends the thread back to sleep, an invalid one ends the call.
KeepWaiting == nSyncResponseId >= 0 /\ nSyncRequestId # nSyncResponseId

SleepAgain(h) ==
    /\ pc[h] \in {"woken", "startled"}
    /\ loop = Nobody
    /\ KeepWaiting
    /\ pc' = [pc EXCEPT ![h] = "waiting"]
    /\ UNCHANGED <<loop, mark, result, nSyncRequestId, nSyncResponseId, nSyncError, connVars>>

\* Mutant of FinishSync: the response is consumed by the first thread to read it.
FinishSyncConsumes(h) ==
    /\ pc[h] \in {"woken", "startled"}
    /\ loop = Nobody
    /\ ~KeepWaiting
    /\ loop' = h
    /\ pc' = [pc EXCEPT ![h] = "synced"]
    /\ result' = [result EXCEPT ![h] = nSyncResponseId]
    /\ nSyncResponseId' = EINVAL
    /\ UNCHANGED <<mark, nSyncRequestId, nSyncError, connVars>>

\* The loop is locked again, and a response that is an error is kept.
FinishSync(h) ==
    /\ pc[h] \in {"woken", "startled"}
    /\ loop = Nobody
    /\ ~KeepWaiting
    /\ loop' = h
    /\ pc' = [pc EXCEPT ![h] = "synced"]
    /\ result' = [result EXCEPT ![h] = nSyncResponseId]
    /\ nSyncError' = IF nSyncResponseId < 0 THEN nSyncResponseId ELSE nSyncError
    /\ UNCHANGED <<mark, nSyncRequestId, nSyncResponseId, connVars>>

Unlock(h) ==
    /\ pc[h] = "synced"
    /\ loop' = Nobody
    /\ pc' = [pc EXCEPT ![h] = "idle"]
    /\ UNCHANGED <<mark, result, nSyncRequestId, nSyncResponseId, nSyncError, connVars>>

-----------------------------------------------------------------------------
\* The wakeups POSIX allows pw_thread_loop_wait to report without a signal.
WakeSpuriously(h) ==
    /\ SpuriousWakeups
    /\ pc[h] = "waiting"
    /\ pc' = [pc EXCEPT ![h] = "startled"]
    /\ UNCHANGED <<loop, mark, result, nSyncRequestId, nSyncResponseId, nSyncError, connVars>>

Serve ==
    /\ alive
    /\ served < Len(log)
    /\ served' = served + 1
    /\ UNCHANGED <<loop, pc, mark, result, nSyncRequestId, nSyncResponseId,
                   nSyncError, log, handled, alive>>

\* Mutant of OnCoreDone: the response is compared before it is stored.
OnCoreDoneEarly(seq) ==
    /\ nSyncResponseId' = seq
    /\ pc' = IF nSyncRequestId = nSyncResponseId
               THEN [h \in Hosts |-> IF pc[h] = "waiting" THEN "woken" ELSE pc[h]]
               ELSE pc

\* on_core_done: pw_thread_loop_signal wakes every waiting thread.
OnCoreDone(seq) ==
    /\ nSyncResponseId' = seq
    /\ pc' = IF nSyncRequestId = seq \/ seq < 0
               THEN [h \in Hosts |-> IF pc[h] = "waiting" THEN "woken" ELSE pc[h]]
               ELSE pc

\* The context thread dispatches the next event; it holds the loop meanwhile.
Dispatch ==
    /\ alive
    /\ loop = Nobody
    /\ handled < served
    /\ handled' = handled + 1
    /\ IF log[handled + 1] = Sync
         THEN OnCoreDone(handled + 1)
         ELSE UNCHANGED <<nSyncResponseId, pc>>
    /\ UNCHANGED <<loop, mark, result, nSyncRequestId, nSyncError, log, served, alive>>

\* The server goes away: on_core_error is told, and does nothing.
Break ==
    /\ Breakable
    /\ alive
    /\ alive' = FALSE
    /\ UNCHANGED <<loop, pc, mark, result, nSyncRequestId, nSyncResponseId,
                   nSyncError, log, served, handled>>

\* The host threads make no more calls.
Rest ==
    /\ \A h \in Hosts : pc[h] = "idle"
    /\ handled = Len(log)
    /\ UNCHANGED syncVars

HostStep(h) ==
    \/ Lock(h)
    \/ \E op \in Ops : Send(h, op)
    \/ RequestSync(h)
    \/ SleepAgain(h)
    \/ FinishSync(h)
    \/ Unlock(h)
    \/ WakeSpuriously(h)

SyncNext ==
    \/ \E h \in Hosts : HostStep(h)
    \/ Serve
    \/ Dispatch
    \/ Break
    \/ Rest

\* The server and the context thread keep going, and a call that has begun
\* continues as soon as it can; nothing says that a host thread begins one.
SyncFairness ==
    /\ WF_syncVars(Serve)
    /\ WF_syncVars(Dispatch)
    /\ \A h \in Hosts :
          /\ WF_syncVars(RequestSync(h))
          /\ WF_syncVars(SleepAgain(h) \/ FinishSync(h))
          /\ WF_syncVars(Unlock(h))

SyncSpec == SyncInit /\ [][SyncNext]_syncVars /\ SyncFairness

-----------------------------------------------------------------------------
(* Properties *)

\* The loop has one owner, the thread that is between its waits; the log is
\* served and dispatched in order.
SyncTypeOK ==
    /\ loop \in Hosts \cup {Nobody}
    /\ pc \in [Hosts -> Phases]
    /\ \A h \in Hosts : pc[h] \in {"locked", "synced"} <=> loop = h
    /\ log \in Seq(Ops \cup {Sync})
    /\ served \in 0 .. Len(log)
    /\ handled \in 0 .. served
    /\ nSyncRequestId \in {EINVAL} \cup 1 .. Len(log)
    /\ nSyncResponseId \in {EINVAL} \cup 1 .. handled
    /\ nSyncError \in {0, EINVAL}
    /\ mark \in [Hosts -> 0 .. Len(log)]
    /\ result \in [Hosts -> {EINVAL} \cup 0 .. Len(log)]
    /\ alive \in BOOLEAN

\* sync_core is a barrier: when it reports success, the server has carried out
\* everything the thread asked for before and the context thread has dispatched
\* all the events this produced, whichever thread's answer woke it.
SyncIsBarrier ==
    \A h \in Hosts : pc[h] = "synced" /\ result[h] >= 0 => mark[h] <= handled

\* No wakeup is lost: a thread that sleeps in pw_thread_loop_wait is not waiting
\* for an answer the context thread has already dispatched.
AnswerStillToCome ==
    \A h \in Hosts : pc[h] = "waiting" => handled < nSyncRequestId

\* A thread that was woken by a signal, whoever else synchronises and whatever
\* the others made of the response before it locks the loop, finds an answer:
\* its sync_core fails only if another one, which resets the shared response,
\* has overtaken it.
FailsOnlyWhenOvertaken ==
    \A h \in Hosts : pc[h] = "woken" => mark[h] < nSyncRequestId \/ nSyncResponseId >= 0

\* A thread in sync_core gets out of it while the connection is up.
SyncReturnsWhileAlive ==
    \A h \in Hosts : pc[h] = "waiting" ~> (pc[h] = "synced" \/ ~alive)

\* ... and when it breaks: register_port, activate and the others have an error
\* path for a synchronisation that failed (sync_core returns nSyncError when it
\* is -EPIPE), so every call that synchronises returns.
SyncReturns == \A h \in Hosts : pc[h] = "waiting" ~> pc[h] = "synced"
=============================================================================
