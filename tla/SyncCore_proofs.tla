--------------------------- MODULE SyncCore_proofs ---------------------------
(***************************************************************************)
(* Theorems about SyncCore, for every set of host threads and requests,    *)
(* with or without spurious wakeups and a breaking connection.             *)
(*                                                                         *)
(* That nobody sleeps through its answer needs three facts about the       *)
(* shared request and response: the current request is the last sync of    *)
(* the log (LastSync), its answer, once dispatched, stays the response     *)
(* (AnswerKept), and nobody waits for a later one (MarksBehind).           *)
(***************************************************************************)
EXTENDS SyncCore, SequenceTheorems, TLAPS

\* The current request is a sync, and the last one of the log.
LastSync ==
    /\ nSyncRequestId > 0 => log[nSyncRequestId] = Sync
    /\ \A k \in 1 .. Len(log) : nSyncRequestId < k => log[k] # Sync

\* Once its event is dispatched, the current request has its answer.
AnswerKept == nSyncRequestId \in 1 .. handled => nSyncResponseId = nSyncRequestId

\* A thread in sync_core waits for the current request or an earlier one.
MarksBehind ==
    \A h \in Hosts : pc[h] \in {"waiting", "woken", "startled"} =>
        /\ nSyncRequestId > 0
        /\ mark[h] <= nSyncRequestId

\* A thread woken by a signal finds its answer unless it was overtaken.
WokenForAReason ==
    \A h \in Hosts : pc[h] = "woken" =>
        mark[h] < nSyncRequestId \/ nSyncResponseId = nSyncRequestId

SyncInv ==
    /\ SyncTypeOK
    /\ LastSync
    /\ AnswerKept
    /\ MarksBehind
    /\ WokenForAReason
    /\ SyncIsBarrier
    /\ AnswerStillToCome
    /\ FailsOnlyWhenOvertaken

-----------------------------------------------------------------------------
LEMMA SyncInitInv == SyncInit => SyncInv
<1> SUFFICES ASSUME SyncInit PROVE SyncInv
  OBVIOUS
<1>1. log = << >> /\ Len(log) = 0 /\ log \in Seq(Ops \cup {Sync})
  BY DEF SyncInit
<1>2. SyncTypeOK
  BY <1>1, HostsAssumption DEF SyncInit, SyncTypeOK, Phases, EINVAL
<1> QED
  BY <1>1, <1>2 DEF SyncInit, SyncInv, LastSync, AnswerKept, MarksBehind,
     WokenForAReason, SyncIsBarrier, AnswerStillToCome, FailsOnlyWhenOvertaken, EINVAL

\* The log grows by one entry and keeps the others.
LEMMA LogGrows ==
    ASSUME NEW e \in Ops \cup {Sync}, log \in Seq(Ops \cup {Sync}), log' = Append(log, e)
    PROVE  /\ log' \in Seq(Ops \cup {Sync})
           /\ Len(log) \in Nat
           /\ Len(log') = Len(log) + 1
           /\ log'[Len(log) + 1] = e
           /\ \A k \in 1 .. Len(log) : log'[k] = log[k]
  BY AppendProperties

LEMMA LockInv == ASSUME SyncInv, NEW h \in Hosts, Lock(h) PROVE SyncInv'
<1>1. SyncTypeOK'
  BY HostsAssumption DEF SyncInv, SyncTypeOK, Lock, connVars, Phases
<1>2. /\ LastSync' /\ AnswerKept' /\ MarksBehind' /\ WokenForAReason'
  BY DEF SyncInv, SyncTypeOK, Lock, connVars, LastSync, AnswerKept, MarksBehind, WokenForAReason
<1>3. SyncIsBarrier' /\ AnswerStillToCome' /\ FailsOnlyWhenOvertaken'
  BY DEF SyncInv, SyncTypeOK, Lock, connVars, SyncIsBarrier, AnswerStillToCome, FailsOnlyWhenOvertaken
<1> QED
  BY <1>1, <1>2, <1>3 DEF SyncInv

LEMMA SendInv ==
    ASSUME SyncInv, NEW h \in Hosts, NEW op \in Ops, Send(h, op) PROVE SyncInv'
<1>1. /\ log' \in Seq(Ops \cup {Sync})
      /\ Len(log) \in Nat
      /\ Len(log') = Len(log) + 1
      /\ log'[Len(log) + 1] = op
      /\ \A k \in 1 .. Len(log) : log'[k] = log[k]
  BY LogGrows DEF SyncInv, SyncTypeOK, Send
<1>2. SyncTypeOK'
  BY <1>1 DEF SyncInv, SyncTypeOK, Send
<1>3. LastSync'
  BY <1>1, OpsAssumption DEF SyncInv, SyncTypeOK, Send, LastSync, EINVAL
<1>4. AnswerKept' /\ MarksBehind' /\ WokenForAReason'
  BY <1>1 DEF SyncInv, SyncTypeOK, Send, AnswerKept, MarksBehind, WokenForAReason
<1>5. SyncIsBarrier' /\ AnswerStillToCome' /\ FailsOnlyWhenOvertaken'
  BY <1>1 DEF SyncInv, SyncTypeOK, Send, SyncIsBarrier, AnswerStillToCome, FailsOnlyWhenOvertaken
<1> QED
  BY <1>2, <1>3, <1>4, <1>5 DEF SyncInv

LEMMA RequestSyncInv == ASSUME SyncInv, NEW h \in Hosts, RequestSync(h) PROVE SyncInv'
<1>1. /\ log' \in Seq(Ops \cup {Sync})
      /\ Len(log) \in Nat
      /\ Len(log') = Len(log) + 1
      /\ log'[Len(log) + 1] = Sync
      /\ \A k \in 1 .. Len(log) : log'[k] = log[k]
  BY LogGrows DEF SyncInv, SyncTypeOK, RequestSync
<1>2. SyncTypeOK'
  BY <1>1, HostsAssumption DEF SyncInv, SyncTypeOK, RequestSync, Phases
<1>3. LastSync' /\ AnswerKept'
  BY <1>1 DEF SyncInv, SyncTypeOK, RequestSync, LastSync, AnswerKept
<1>4. \A g \in Hosts : mark'[g] <= nSyncRequestId' /\ (g # h => mark'[g] < nSyncRequestId')
  BY <1>1 DEF SyncInv, SyncTypeOK, RequestSync
<1>5. MarksBehind' /\ WokenForAReason'
  BY <1>1, <1>4 DEF SyncInv, SyncTypeOK, RequestSync, MarksBehind, WokenForAReason
<1>6. SyncIsBarrier' /\ AnswerStillToCome' /\ FailsOnlyWhenOvertaken'
  BY <1>1, <1>4 DEF SyncInv, SyncTypeOK, RequestSync, SyncIsBarrier, AnswerStillToCome,
     FailsOnlyWhenOvertaken
<1> QED
  BY <1>2, <1>3, <1>5, <1>6 DEF SyncInv

\* A woken thread goes back to sleep only before its answer is dispatched.
LEMMA SleepAgainInv == ASSUME SyncInv, NEW h \in Hosts, SleepAgain(h) PROVE SyncInv'
<1>1. handled < nSyncRequestId
  BY DEF SyncInv, SyncTypeOK, SleepAgain, KeepWaiting, AnswerKept, MarksBehind, EINVAL
<1>2. SyncTypeOK'
  BY HostsAssumption DEF SyncInv, SyncTypeOK, SleepAgain, connVars, Phases
<1>3. LastSync' /\ AnswerKept' /\ MarksBehind' /\ WokenForAReason'
  BY DEF SyncInv, SyncTypeOK, SleepAgain, connVars, LastSync, AnswerKept, MarksBehind, WokenForAReason
<1>4. SyncIsBarrier' /\ AnswerStillToCome' /\ FailsOnlyWhenOvertaken'
  BY <1>1 DEF SyncInv, SyncTypeOK, SleepAgain, connVars, SyncIsBarrier, AnswerStillToCome,
     FailsOnlyWhenOvertaken
<1> QED
  BY <1>2, <1>3, <1>4 DEF SyncInv

LEMMA FinishSyncInv == ASSUME SyncInv, NEW h \in Hosts, FinishSync(h) PROVE SyncInv'
<1>1. SyncTypeOK'
  BY HostsAssumption DEF SyncInv, SyncTypeOK, FinishSync, connVars, Phases, EINVAL
<1>2. LastSync' /\ AnswerKept' /\ MarksBehind' /\ WokenForAReason'
  BY DEF SyncInv, SyncTypeOK, FinishSync, connVars, LastSync, AnswerKept, MarksBehind, WokenForAReason
<1>3. nSyncResponseId >= 0 => mark[h] <= handled
  BY DEF SyncInv, SyncTypeOK, FinishSync, KeepWaiting, MarksBehind, EINVAL
<1>4. \A g \in Hosts : pc'[g] = "synced" => g = h
  BY <1>1 DEF SyncTypeOK, FinishSync
<1>5. SyncIsBarrier' /\ AnswerStillToCome' /\ FailsOnlyWhenOvertaken'
  BY <1>3, <1>4 DEF SyncInv, SyncTypeOK, FinishSync, connVars, SyncIsBarrier, AnswerStillToCome,
     FailsOnlyWhenOvertaken
<1> QED
  BY <1>1, <1>2, <1>5 DEF SyncInv

LEMMA UnlockInv == ASSUME SyncInv, NEW h \in Hosts, Unlock(h) PROVE SyncInv'
<1>1. SyncTypeOK'
  BY HostsAssumption DEF SyncInv, SyncTypeOK, Unlock, connVars, Phases
<1>2. LastSync' /\ AnswerKept' /\ MarksBehind' /\ WokenForAReason'
  BY DEF SyncInv, SyncTypeOK, Unlock, connVars, LastSync, AnswerKept, MarksBehind, WokenForAReason
<1>3. SyncIsBarrier' /\ AnswerStillToCome' /\ FailsOnlyWhenOvertaken'
  BY DEF SyncInv, SyncTypeOK, Unlock, connVars, SyncIsBarrier, AnswerStillToCome, FailsOnlyWhenOvertaken
<1> QED
  BY <1>1, <1>2, <1>3 DEF SyncInv

LEMMA WakeInv == ASSUME SyncInv, NEW h \in Hosts, WakeSpuriously(h) PROVE SyncInv'
<1>1. SyncTypeOK'
  BY HostsAssumption DEF SyncInv, SyncTypeOK, WakeSpuriously, connVars, Phases
<1>2. LastSync' /\ AnswerKept' /\ MarksBehind' /\ WokenForAReason'
  BY DEF SyncInv, SyncTypeOK, WakeSpuriously, connVars, LastSync, AnswerKept, MarksBehind, WokenForAReason
<1>3. SyncIsBarrier' /\ AnswerStillToCome' /\ FailsOnlyWhenOvertaken'
  BY DEF SyncInv, SyncTypeOK, WakeSpuriously, connVars, SyncIsBarrier, AnswerStillToCome,
     FailsOnlyWhenOvertaken
<1> QED
  BY <1>1, <1>2, <1>3 DEF SyncInv

\* Serve and Break touch nothing the host threads look at.
LEMMA ServerInv == ASSUME SyncInv, Serve \/ Break PROVE SyncInv'
<1>1. SyncTypeOK'
  <2>1. CASE Serve
    BY <2>1 DEF SyncInv, SyncTypeOK, Serve
  <2>2. CASE Break
    BY <2>2 DEF SyncInv, SyncTypeOK, Break
  <2> QED
    BY <2>1, <2>2
<1>2. LastSync' /\ AnswerKept' /\ MarksBehind' /\ WokenForAReason'
  BY DEF SyncInv, Serve, Break, LastSync, AnswerKept, MarksBehind, WokenForAReason
<1>3. SyncIsBarrier' /\ AnswerStillToCome' /\ FailsOnlyWhenOvertaken'
  BY DEF SyncInv, Serve, Break, SyncIsBarrier, AnswerStillToCome, FailsOnlyWhenOvertaken
<1> QED
  BY <1>1, <1>2, <1>3 DEF SyncInv

\* The answer to the current request wakes every sleeper.
LEMMA DispatchInv == ASSUME SyncInv, Dispatch PROVE SyncInv'
<1> DEFINE seq == handled + 1
<1>1. /\ handled \in Nat /\ handled' = seq /\ seq \in 1 .. served /\ seq \in 1 .. Len(log)
      /\ log' = log /\ served' = served /\ nSyncRequestId' = nSyncRequestId
      /\ mark' = mark /\ result' = result /\ loop' = loop /\ nSyncError' = nSyncError
      /\ alive' = alive
  BY DEF SyncInv, SyncTypeOK, Dispatch
<1>2. seq = nSyncRequestId => log[seq] = Sync
  BY <1>1 DEF SyncInv, LastSync
<1>3. nSyncRequestId > 0 /\ nSyncRequestId < seq => log[seq] # Sync
  BY <1>1 DEF SyncInv, SyncTypeOK, LastSync
<1>4. CASE log[seq] # Sync
  <2>1. pc' = pc /\ nSyncResponseId' = nSyncResponseId
    BY <1>4 DEF Dispatch
  <2>2. SyncTypeOK'
    BY <1>1, <2>1 DEF SyncInv, SyncTypeOK
  <2>3. LastSync' /\ MarksBehind' /\ WokenForAReason'
    BY <1>1, <2>1 DEF SyncInv, LastSync, MarksBehind, WokenForAReason
  <2>4. AnswerKept'
    BY <1>1, <1>2, <1>4, <2>1 DEF SyncInv, SyncTypeOK, AnswerKept
  <2>5. SyncIsBarrier' /\ AnswerStillToCome' /\ FailsOnlyWhenOvertaken'
    BY <1>1, <1>2, <1>4, <2>1 DEF SyncInv, SyncTypeOK, SyncIsBarrier, AnswerStillToCome,
       FailsOnlyWhenOvertaken, EINVAL
  <2> QED
    BY <2>2, <2>3, <2>4, <2>5 DEF SyncInv
<1>5. CASE log[seq] = Sync /\ seq = nSyncRequestId
  <2>1. /\ nSyncResponseId' = seq
        /\ pc' = [h \in Hosts |-> IF pc[h] = "waiting" THEN "woken" ELSE pc[h]]
    BY <1>5 DEF Dispatch, OnCoreDone
  <2>2. SyncTypeOK'
    BY <1>1, <2>1 DEF SyncInv, SyncTypeOK, Phases
  <2>3. LastSync' /\ AnswerKept' /\ MarksBehind' /\ WokenForAReason'
    BY <1>1, <1>5, <2>1 DEF SyncInv, SyncTypeOK, LastSync, AnswerKept, MarksBehind, WokenForAReason
  <2>4. SyncIsBarrier' /\ AnswerStillToCome' /\ FailsOnlyWhenOvertaken'
    BY <1>1, <2>1 DEF SyncInv, SyncTypeOK, SyncIsBarrier, AnswerStillToCome, FailsOnlyWhenOvertaken
  <2> QED
    BY <2>2, <2>3, <2>4 DEF SyncInv
<1>6. CASE log[seq] = Sync /\ seq # nSyncRequestId
  <2>1. nSyncResponseId' = seq /\ pc' = pc
    BY <1>1, <1>6 DEF Dispatch, OnCoreDone
  <2>2. nSyncRequestId > 0 => seq < nSyncRequestId
    BY <1>1, <1>3, <1>6 DEF SyncInv, SyncTypeOK, EINVAL
  <2>3. SyncTypeOK'
    BY <1>1, <2>1 DEF SyncInv, SyncTypeOK
  <2>4. LastSync' /\ AnswerKept' /\ MarksBehind'
    BY <1>1, <2>1, <2>2 DEF SyncInv, SyncTypeOK, LastSync, AnswerKept, MarksBehind
  <2>5. WokenForAReason'
    BY <1>1, <2>1, <2>2 DEF SyncInv, SyncTypeOK, WokenForAReason, MarksBehind, EINVAL
  <2>6. SyncIsBarrier' /\ AnswerStillToCome' /\ FailsOnlyWhenOvertaken'
    BY <1>1, <2>1, <2>2 DEF SyncInv, SyncTypeOK, MarksBehind, SyncIsBarrier, AnswerStillToCome,
       FailsOnlyWhenOvertaken
  <2> QED
    BY <2>3, <2>4, <2>5, <2>6 DEF SyncInv
<1> QED
  BY <1>4, <1>5, <1>6

LEMMA StutterInv == ASSUME SyncInv, UNCHANGED syncVars PROVE SyncInv'
<1>1. SyncTypeOK'
  BY DEF SyncInv, SyncTypeOK, syncVars, connVars
<1>2. LastSync' /\ AnswerKept' /\ MarksBehind' /\ WokenForAReason'
  BY DEF SyncInv, syncVars, connVars, LastSync, AnswerKept, MarksBehind, WokenForAReason
<1>3. SyncIsBarrier' /\ AnswerStillToCome' /\ FailsOnlyWhenOvertaken'
  BY DEF SyncInv, syncVars, connVars, SyncIsBarrier, AnswerStillToCome, FailsOnlyWhenOvertaken
<1> QED
  BY <1>1, <1>2, <1>3 DEF SyncInv

LEMMA SyncStepInv == SyncInv /\ [SyncNext]_syncVars => SyncInv'
<1> SUFFICES ASSUME SyncInv, [SyncNext]_syncVars
             PROVE  SyncInv'
  OBVIOUS
<1>1. ASSUME NEW h \in Hosts, HostStep(h)
      PROVE  SyncInv'
  BY <1>1, LockInv, SendInv, RequestSyncInv, SleepAgainInv, FinishSyncInv, UnlockInv, WakeInv
  DEF HostStep
<1>2. CASE Serve \/ Break
  BY <1>2, ServerInv
<1>3. CASE Dispatch
  BY <1>3, DispatchInv
<1>4. CASE Rest \/ UNCHANGED syncVars
  BY <1>4, StutterInv DEF Rest
<1> QED
  BY <1>1, <1>2, <1>3, <1>4 DEF SyncNext

-----------------------------------------------------------------------------
\* The invariant holds in every reachable state of sync_core and on_core_done.
THEOREM SyncCorrect == SyncSpec => []SyncInv
<1>1. SyncInit => SyncInv
  BY SyncInitInv
<1>2. SyncInv /\ [SyncNext]_syncVars => SyncInv'
  BY SyncStepInv
<1> QED
  BY <1>1, <1>2, PTL DEF SyncSpec

\* Types, lock ownership and the order of the connection (backend_t members).
THEOREM SyncTypes == SyncSpec => []SyncTypeOK
<1>1. SyncInv => SyncTypeOK
  BY DEF SyncInv
<1> QED
  BY <1>1, SyncCorrect, PTL

\* A successful sync_core is a barrier for any number of threads.
THEOREM SyncBarrier == SyncSpec => []SyncIsBarrier
<1>1. SyncInv => SyncIsBarrier
  BY DEF SyncInv
<1> QED
  BY <1>1, SyncCorrect, PTL

\* No thread sleeps through the answer to its sync_core.
THEOREM NoLostWakeup == SyncSpec => []AnswerStillToCome
<1>1. SyncInv => AnswerStillToCome
  BY DEF SyncInv
<1> QED
  BY <1>1, SyncCorrect, PTL

\* A thread woken by a signal fails in sync_core only if it was overtaken.
THEOREM FailureExplained == SyncSpec => []FailsOnlyWhenOvertaken
<1>1. SyncInv => FailsOnlyWhenOvertaken
  BY DEF SyncInv
<1> QED
  BY <1>1, SyncCorrect, PTL
=============================================================================
