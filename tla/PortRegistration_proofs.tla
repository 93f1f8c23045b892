----------------------- MODULE PortRegistration_proofs -----------------------
(***************************************************************************)
(* Theorems about PortRegistration, for every set of names and flags,      *)
(* every size of the table and any number of calls, with late events or    *)
(* without, whatever the server does.                                      *)
(*                                                                         *)
(* The inductive invariant, RegInv, takes Sound from PortTable_proofs and  *)
(* SyncInv from SyncCore_proofs.  What it adds says what a call has done   *)
(* by each of its steps: to the lock (PhaseInv), to the table and to the   *)
(* handles (CallInv), to the identifiers (IdsDefined), which port the      *)
(* registry may not have announced yet (AnnouncedBut), and whose           *)
(* identifiers an attached port may have (IdsFit).                         *)
(***************************************************************************)
EXTENDS PortRegistration, PortTable_proofs, SyncCore_proofs

Unlocked     == {"none", "free", "wait_all", "detach_all", "close"}
Registering  == {"attach", "attached", "wait_locked"}
Connecting   == {"attach_all", "sync_all", "activate", "wait_all", "detach_all",
                 "sync_detached", "close", "deactivate"}
Dropping     == {"detach_all", "sync_detached", "close"}

\* A slot is taken and not yet returned, or to be freed and not yet free.
Adding   == step \in Registering \/ (step = "free" /\ call = "register")
Removing == step = "detached" \/ (step = "free" /\ call = "unregister")

\* Where sync_core is at each step, and what a backend without a filter has not.
PhaseInv ==
    /\ step \in Unlocked => pc[Host] = "idle"
    /\ step \in {"attach", "attach_all"} => pc[Host] \in {"idle", "locked"}
    /\ step = "wait_locked" => pc[Host] = "synced"
    /\ step \in {"attach_all", "sync_all", "activate"} => conn = "online"
    /\ conn = "offline" => step = "none" /\ log = << >> /\ pending = {}

\* What a call has done to the table so far.
CallInv ==
    /\ step \in Registering => call = "register"
    /\ step = "free" => call \in {"register", "unregister"}
    /\ step = "detached" => call = "unregister"
    /\ step \in Connecting => call \in {"connect", "disconnect"}
    /\ Adding => /\ cur \notin before.used /\ UsedSlots = before.used \cup {cur}
                 /\ Kept(before.used)
    /\ step \in {"attached", "wait_locked"} => handle[cur] # 0
    /\ Removing => /\ cur \in before.used /\ UsedSlots = before.used
                   /\ handle[cur] = 0 /\ Kept(UsedSlots \ {cur})
    /\ step = "free" => (ret.st = "OK" <=> call = "unregister")
    /\ step = "attach_all" => cur \in 0 .. nPortCapacity

\* Only a port that is yet to be attached has an undefined identifier.
IdsDefined ==
    \A i \in UsedSlots : nId[i] = UNDEFINED =>
        \/ conn = "offline"
        \/ step = "attach_all" /\ i >= cur
        \/ step \in {"attach", "free"} /\ i = cur
        \/ step \in Dropping

\* Only the port that is being registered is attached and not announced.
AnnouncedBut ==
    conn = "active" /\ step \in Registering \cup {"none", "free", "detached"} =>
        \A i \in UsedSlots : handle[i] # 0 /\ nId[i] = INVALID_ID =>
            i = cur /\ step \in Registering \cup {"free"}

\* A slot has a port of this connection.
Attached(i) ==
    /\ conn # "offline" /\ step \notin Dropping
    /\ handle[i] # 0
    /\ ~(step = "attach_all" /\ i >= cur)

\* The handle of such a slot is the last request for a port of its name, and its
\* identifier is that of a port of the name which the registry has announced.
OwnIds(i) ==
    /\ handle[i] \in 1 .. Len(log)
    /\ log[handle[i]] = vPorts[i].sID
    /\ \A p \in handle[i] + 1 .. Len(log) : log[p] # vPorts[i].sID
    /\ nId[i] \notin {UNDEFINED, INVALID_ID} =>
           nId[i] \in AnnouncedAs(vPorts[i].sID) /\ nId[i] <= handle[i]

IdsFit == \A i \in UsedSlots : Attached(i) => OwnIds(i)

HandlesUsed == \A i \in AllSlots : handle[i] # 0 => i \in UsedSlots

\* The variables PortRegistration adds.
RegVarsOK ==
    /\ conn \in {"offline", "online", "active"}
    /\ handle \in [AllSlots -> Nat]
    /\ nId \in [AllSlots -> {UNDEFINED, INVALID_ID} \cup Nat]
    /\ pending \subseteq 1 .. handled
    /\ step \in LockSteps \cup SyncSteps \cup
               {"none", "free", "wait_locked", "wait_all", "detach_all", "close"}
    /\ cur \in -1 .. MaxSlots
    /\ asleep \in BOOLEAN

CallRest ==
    /\ RegVarsOK
    /\ HandlesUsed
    /\ PhaseInv
    /\ CallInv
    /\ IdsDefined
    /\ AnnouncedBut
    /\ IdsFit
    /\ OnlyUnregisterHalfDone

RegInv == Sound /\ SyncInv /\ CallRest

-----------------------------------------------------------------------------
(* What the steps of SyncCore do to the host thread. *)

LEMMA OneHost == Host \in Hosts /\ Hosts = {Host}
  BY HostAssumption

LEMMA HostPhase == ASSUME SyncTypeOK PROVE pc \in [{Host} -> Phases] /\ handled \in Nat /\ Len(log) \in Nat
  BY OneHost DEF SyncTypeOK

LEMMA UnlockStep ==
    ASSUME SyncInv, Unlock(Host)
    PROVE  /\ SyncInv'
           /\ pc[Host] = "synced" /\ pc'[Host] = "idle"
           /\ log' = log /\ handled' = handled
  BY UnlockInv, OneHost, HostPhase DEF SyncInv, Unlock, connVars

\* The loop is unlocked without a sync.
LEMMA ReleaseStep ==
    ASSUME SyncInv, Release, pc[Host] = "locked"
    PROVE  /\ SyncInv'
           /\ pc'[Host] = "idle"
           /\ log' = log /\ handled' = handled
<1>1. SyncTypeOK'
  BY HostsAssumption, OneHost DEF SyncInv, SyncTypeOK, Release, connVars, Phases
<1>2. LastSync' /\ AnswerKept' /\ MarksBehind' /\ WokenForAReason'
  BY OneHost DEF SyncInv, SyncTypeOK, Release, connVars, LastSync, AnswerKept, MarksBehind, WokenForAReason
<1>3. SyncIsBarrier' /\ AnswerStillToCome' /\ FailsOnlyWhenOvertaken'
  BY OneHost DEF SyncInv, SyncTypeOK, Release, connVars, SyncIsBarrier, AnswerStillToCome,
     FailsOnlyWhenOvertaken
<1>4. pc'[Host] = "idle" /\ log' = log /\ handled' = handled
  BY OneHost, HostPhase DEF SyncInv, Release, connVars
<1> QED
  BY <1>1, <1>2, <1>3, <1>4 DEF SyncInv

LEMMA SendStep ==
    ASSUME SyncInv, NEW op \in Ops, Send(Host, op)
    PROVE  /\ SyncInv'
           /\ pc' = pc /\ pc[Host] = "locked"
           /\ Len(log') \in Nat /\ Len(log') # 0 /\ log' # << >>
           /\ handled' = handled
<1>1. SyncInv'
  BY SendInv, OneHost
<1>2. Len(log') = Len(log) + 1 /\ Len(log) \in Nat
  BY LogGrows DEF SyncInv, SyncTypeOK, Send
<1>3. log' # << >> /\ Len(log') # 0
  BY <1>2
<1> QED
  BY <1>1, <1>2, <1>3 DEF Send

\* A step within sync_core.
LEMMA SyncStepFacts ==
    ASSUME SyncInv, SyncStep
    PROVE  /\ SyncInv'
           /\ handled' = handled
           /\ \/ step \in LockSteps /\ pc[Host] = "idle" /\ pc'[Host] = "locked" /\ log' = log
              \/ step \in SyncSteps /\ pc[Host] = "locked" /\ pc'[Host] = "waiting"
              \/ /\ pc[Host] \in {"woken", "startled"} /\ pc'[Host] \in {"waiting", "synced"}
                 /\ log' = log
<1>1. SyncInv'
  BY LockInv, RequestSyncInv, SleepAgainInv, FinishSyncInv, OneHost DEF SyncStep
<1> QED
  BY <1>1, OneHost, HostPhase DEF SyncInv, SyncStep, Lock, RequestSync, SleepAgain, FinishSync, connVars

\* A new connection.
LEMMA CloseStep ==
    ASSUME SyncInv, Close, pc[Host] = "idle"
    PROVE  SyncInv' /\ log' = << >> /\ pc' = pc /\ handled' = 0
<1>1. SyncTypeOK'
  <2>1. log' = << >> /\ Len(log') = 0 /\ log' \in Seq(Ops \cup {Sync})
    BY DEF Close
  <2> QED
    BY <2>1 DEF Close, SyncInv, SyncTypeOK, EINVAL
<1>2. \A h \in Hosts : pc'[h] = "idle"
  BY OneHost DEF Close
<1>3. LastSync' /\ AnswerKept' /\ MarksBehind' /\ WokenForAReason'
  BY <1>2 DEF Close, LastSync, AnswerKept, MarksBehind, WokenForAReason, EINVAL
<1>4. SyncIsBarrier' /\ AnswerStillToCome' /\ FailsOnlyWhenOvertaken'
  BY <1>2 DEF Close, SyncIsBarrier, AnswerStillToCome, FailsOnlyWhenOvertaken
<1> QED
  BY <1>1, <1>3, <1>4 DEF SyncInv, Close

-----------------------------------------------------------------------------
(* Steps that leave the table alone *)

LEMMA UsedInRange == ASSUME Sound PROVE UsedSlots \subseteq AllSlots
  BY SlotsAssumption DEF Sound, TableTypeOK, UsedSlots, Slots, AllSlots

\* The ports attached stay as they are, and so does what the server was asked and said.
LEMMA SameIdsFit ==
    ASSUME IdsFit, UNCHANGED <<log, handled, pending>>,
           \A i \in UsedSlots' : Attached(i)' =>
               /\ i \in UsedSlots /\ Attached(i)
               /\ vPorts'[i] = vPorts[i] /\ handle'[i] = handle[i] /\ nId'[i] = nId[i]
    PROVE  IdsFit'
<1> SUFFICES ASSUME NEW i \in UsedSlots', Attached(i)'
             PROVE  OwnIds(i)'
  BY DEF IdsFit
<1> QED
  BY DEF IdsFit, OwnIds, AnnouncedAs

\* A request is added that does not make a port of the name.
LEMMA RequestKeepsIds ==
    ASSUME SyncTypeOK, NEW i, OwnIds(i),
           NEW op \in Ops \cup {Sync}, log' = Append(log, op), op # vPorts[i].sID,
           UNCHANGED <<handled, pending>>,
           vPorts'[i] = vPorts[i], handle'[i] = handle[i], nId'[i] = nId[i]
    PROVE  OwnIds(i)'
<1>1. /\ log' \in Seq(Ops \cup {Sync}) /\ Len(log) \in Nat /\ Len(log') = Len(log) + 1
      /\ log'[Len(log) + 1] = op /\ \A k \in 1 .. Len(log) : log'[k] = log[k]
  BY LogGrows DEF SyncTypeOK
<1>2. handled \in Nat /\ handled <= Len(log)
  BY <1>1 DEF SyncTypeOK
<1>3. AnnouncedAs(vPorts[i].sID)' = AnnouncedAs(vPorts[i].sID)
  BY <1>1, <1>2 DEF AnnouncedAs
<1>4. \A p \in handle[i] + 1 .. Len(log') : log'[p] # vPorts[i].sID
  BY <1>1 DEF OwnIds
<1> QED
  BY <1>1, <1>3, <1>4 DEF OwnIds

LEMMA AttachDoneInv == ASSUME RegInv, AttachDone PROVE RegInv'
<1>1. Sound' /\ UsedSlots' = UsedSlots /\ nPortCapacity' = nPortCapacity
  BY SameKeepsSound DEF RegInv, AttachDone, table
<1>2. SyncInv' /\ pc[Host] = "synced" /\ pc'[Host] = "idle" /\ log' = log /\ handled' = handled
  BY UnlockStep DEF RegInv, AttachDone
<1>3. RegVarsOK'
  BY <1>2 DEF RegInv, CallRest, RegVarsOK, AttachDone, Goto, Return, LockSteps, SyncSteps
<1>4. HandlesUsed' /\ PhaseInv'
  BY <1>1, <1>2 DEF RegInv, CallRest, HandlesUsed, PhaseInv, Unlocked, AttachDone, Goto, Return,
     RegVarsOK
<1>5. CallInv' /\ OnlyUnregisterHalfDone'
  BY <1>1 DEF RegInv, CallRest, CallInv, OnlyUnregisterHalfDone, Kept, Adding, Removing, Registering, Connecting,
     AttachDone, Goto, Return, Failed, Returned
<1>6. IdsDefined' /\ AnnouncedBut'
  BY <1>1 DEF RegInv, CallRest, IdsDefined, AnnouncedBut, PhaseInv, Registering, Dropping, AllRegistered,
     AttachDone, Goto, Return, RegVarsOK, UNDEFINED, INVALID_ID
<1>7. IdsFit'
  BY <1>1, <1>2, SameIdsFit DEF RegInv, CallRest, PhaseInv, Attached, Dropping, table,
     AttachDone, Goto, Return
<1> QED
  BY <1>1, <1>2, <1>3, <1>4, <1>5, <1>6, <1>7 DEF RegInv, CallRest

LEMMA AttachRegisteredInv == ASSUME RegInv, AttachRegistered PROVE RegInv'
<1>1. Sound' /\ UsedSlots' = UsedSlots /\ nPortCapacity' = nPortCapacity
  BY SameKeepsSound DEF RegInv, AttachRegistered, table
<1>2. SyncInv' /\ pc[Host] = "synced" /\ pc'[Host] = "idle" /\ log' = log /\ handled' = handled
  BY UnlockStep DEF RegInv, AttachRegistered
<1>3. RegVarsOK'
  BY <1>2 DEF RegInv, CallRest, RegVarsOK, AttachRegistered, Goto, Return, LockSteps, SyncSteps
<1>4. HandlesUsed' /\ PhaseInv'
  BY <1>1, <1>2 DEF RegInv, CallRest, HandlesUsed, PhaseInv, Unlocked, AttachRegistered, Goto, Return,
     RegVarsOK
<1>5. CallInv' /\ OnlyUnregisterHalfDone'
  BY <1>1 DEF RegInv, CallRest, CallInv, OnlyUnregisterHalfDone, Kept, Adding, Removing, Registering, Connecting,
     AttachRegistered, Goto, Return, Failed, Returned
<1>6. IdsDefined' /\ AnnouncedBut'
  BY <1>1 DEF RegInv, CallRest, IdsDefined, AnnouncedBut, PhaseInv, Registering, Dropping, AllRegistered,
     AttachRegistered, Goto, Return, RegVarsOK, UNDEFINED, INVALID_ID
<1>7. IdsFit'
  BY <1>1, <1>2, SameIdsFit DEF RegInv, CallRest, PhaseInv, Attached, Dropping, table,
     AttachRegistered, Goto, Return
<1> QED
  BY <1>1, <1>2, <1>3, <1>4, <1>5, <1>6, <1>7 DEF RegInv, CallRest

LEMMA AttachTimedOutInv == ASSUME RegInv, AttachTimedOut PROVE RegInv'
<1>1. Sound' /\ UsedSlots' = UsedSlots /\ nPortCapacity' = nPortCapacity
  BY SameKeepsSound DEF RegInv, AttachTimedOut, table
<1>2. SyncInv' /\ pc[Host] = "synced" /\ pc'[Host] = "idle" /\ log' = log /\ handled' = handled
  BY UnlockStep DEF RegInv, AttachTimedOut
<1>3. RegVarsOK'
  BY <1>2 DEF RegInv, CallRest, RegVarsOK, AttachTimedOut, Goto, Return, LockSteps, SyncSteps
<1>4. HandlesUsed' /\ PhaseInv'
  BY <1>1, <1>2 DEF RegInv, CallRest, HandlesUsed, PhaseInv, Unlocked, AttachTimedOut, Goto, Return,
     RegVarsOK
<1>5. CallInv' /\ OnlyUnregisterHalfDone'
  BY <1>1 DEF RegInv, CallRest, CallInv, OnlyUnregisterHalfDone, Kept, Adding, Removing, Registering, Connecting,
     AttachTimedOut, Goto, Return, Failed, Returned
<1>6. IdsDefined' /\ AnnouncedBut'
  BY <1>1 DEF RegInv, CallRest, IdsDefined, AnnouncedBut, PhaseInv, Registering, Dropping, AllRegistered,
     AttachTimedOut, Goto, Return, RegVarsOK, UNDEFINED, INVALID_ID
<1>7. IdsFit'
  BY <1>1, <1>2, SameIdsFit DEF RegInv, CallRest, PhaseInv, Attached, Dropping, table,
     AttachTimedOut, Goto, Return
<1> QED
  BY <1>1, <1>2, <1>3, <1>4, <1>5, <1>6, <1>7 DEF RegInv, CallRest

LEMMA AttachFailedInv == ASSUME RegInv, AttachFailed PROVE RegInv'
<1>1. Sound' /\ UsedSlots' = UsedSlots /\ nPortCapacity' = nPortCapacity
  BY SameKeepsSound DEF RegInv, AttachFailed, table
<1>2. SyncInv' /\ pc[Host] = "synced" /\ pc'[Host] = "idle" /\ log' = log /\ handled' = handled
  BY UnlockStep DEF RegInv, AttachFailed
<1>3. RegVarsOK'
  BY <1>2 DEF RegInv, CallRest, RegVarsOK, AttachFailed, Goto, Return, DetachSlots, LockSteps, SyncSteps
<1>4. HandlesUsed' /\ PhaseInv'
  BY <1>1, <1>2 DEF RegInv, CallRest, HandlesUsed, PhaseInv, Unlocked, AttachFailed, Goto, Return, DetachSlots,
     RegVarsOK
<1>5. CallInv' /\ OnlyUnregisterHalfDone'
  <2>1. /\ step = "attached" /\ step' = "free" /\ call = "register"
        /\ ret'.st # "OK" /\ UNCHANGED <<cur, call, before>>
    BY DEF AttachFailed, Goto, Failed, RegInv, CallRest, CallInv, Registering
  <2>2. /\ cur \notin before.used /\ UsedSlots = before.used \cup {cur}
        /\ \A i \in before.used : handle'[i] = before.handle[i]
    <3>1. cur \notin before.used /\ UsedSlots = before.used \cup {cur} /\ Kept(before.used)
      BY <2>1 DEF RegInv, CallRest, CallInv, Adding, Registering
    <3>2. \A i \in AllSlots : i # cur => handle'[i] = handle[i]
      BY DEF AttachFailed, DetachSlots, RegInv, CallRest, RegVarsOK
    <3> QED
      BY <3>1, <3>2, UsedInRange DEF RegInv, Kept
  <2> QED
    BY <1>1, <2>1, <2>2 DEF CallInv, OnlyUnregisterHalfDone, Kept, Adding, Removing, Registering, Connecting
<1>6. /\ \A i \in AllSlots : handle'[i] = IF i = cur THEN 0 ELSE handle[i]
      /\ \A i \in AllSlots : nId'[i] = nId[i] \/ (i = cur /\ nId'[i] = INVALID_ID)
  BY DEF RegInv, CallRest, RegVarsOK, AttachFailed, DetachSlots
<1>7. UsedSlots \subseteq AllSlots
  BY UsedInRange DEF RegInv
<1>8. step = "attached" /\ step' = "free" /\ UNCHANGED <<vPorts, cur, conn, pending>>
  BY DEF AttachFailed, Goto, table
<1>9. IdsDefined' /\ AnnouncedBut'
  BY <1>1, <1>6, <1>7, <1>8 DEF RegInv, CallRest, IdsDefined, AnnouncedBut, Registering, Dropping,
     UNDEFINED, INVALID_ID
<1>10. IdsFit'
  <2>1. \A i \in UsedSlots : handle'[i] = 0 \/ (handle'[i] = handle[i] /\ nId'[i] = nId[i])
    BY <1>6, <1>7
  <2> QED
    BY <1>1, <1>2, <1>8, <2>1, SameIdsFit DEF RegInv, CallRest, Attached, Dropping
<1> QED
  BY <1>1, <1>2, <1>3, <1>4, <1>5, <1>9, <1>10 DEF RegInv, CallRest

LEMMA DetachedInv == ASSUME RegInv, Detached PROVE RegInv'
<1>1. Sound' /\ UsedSlots' = UsedSlots /\ nPortCapacity' = nPortCapacity
  BY SameKeepsSound DEF RegInv, Detached, table
<1>2. SyncInv' /\ pc[Host] = "synced" /\ pc'[Host] = "idle" /\ log' = log /\ handled' = handled
  BY UnlockStep DEF RegInv, Detached
<1>3. RegVarsOK'
  BY <1>2 DEF RegInv, CallRest, RegVarsOK, Detached, Goto, Return, LockSteps, SyncSteps
<1>4. HandlesUsed' /\ PhaseInv'
  BY <1>1, <1>2 DEF RegInv, CallRest, HandlesUsed, PhaseInv, Unlocked, Detached, Goto, Return,
     RegVarsOK
<1>5. CallInv' /\ OnlyUnregisterHalfDone'
  BY <1>1 DEF RegInv, CallRest, CallInv, OnlyUnregisterHalfDone, Kept, Adding, Removing, Registering, Connecting,
     Detached, Goto, Return, Failed, Returned
<1>6. IdsDefined' /\ AnnouncedBut'
  BY <1>1 DEF RegInv, CallRest, IdsDefined, AnnouncedBut, PhaseInv, Registering, Dropping, AllRegistered,
     Detached, Goto, Return, RegVarsOK, UNDEFINED, INVALID_ID
<1>7. IdsFit'
  BY <1>1, <1>2, SameIdsFit DEF RegInv, CallRest, PhaseInv, Attached, Dropping, table,
     Detached, Goto, Return
<1> QED
  BY <1>1, <1>2, <1>3, <1>4, <1>5, <1>6, <1>7 DEF RegInv, CallRest

LEMMA SyncedAllInv == ASSUME RegInv, SyncedAll PROVE RegInv'
<1>1. Sound' /\ UsedSlots' = UsedSlots /\ nPortCapacity' = nPortCapacity
  BY SameKeepsSound DEF RegInv, SyncedAll, table
<1>2. SyncInv' /\ pc[Host] = "synced" /\ pc'[Host] = "idle" /\ log' = log /\ handled' = handled
  BY UnlockStep DEF RegInv, SyncedAll
<1>3. RegVarsOK'
  BY <1>2 DEF RegInv, CallRest, RegVarsOK, SyncedAll, Goto, Return, LockSteps, SyncSteps
<1>4. HandlesUsed' /\ PhaseInv'
  BY <1>1, <1>2 DEF RegInv, CallRest, HandlesUsed, PhaseInv, Unlocked, SyncedAll, Goto, Return,
     RegVarsOK
<1>5. CallInv' /\ OnlyUnregisterHalfDone'
  BY <1>1 DEF RegInv, CallRest, CallInv, OnlyUnregisterHalfDone, Kept, Adding, Removing, Registering, Connecting,
     SyncedAll, Goto, Return, Failed, Returned
<1>6. IdsDefined' /\ AnnouncedBut'
  BY <1>1 DEF RegInv, CallRest, IdsDefined, AnnouncedBut, PhaseInv, Registering, Dropping, AllRegistered,
     SyncedAll, Goto, Return, RegVarsOK, UNDEFINED, INVALID_ID
<1>7. IdsFit'
  BY <1>1, <1>2, SameIdsFit DEF RegInv, CallRest, PhaseInv, Attached, Dropping, table,
     SyncedAll, Goto, Return
<1> QED
  BY <1>1, <1>2, <1>3, <1>4, <1>5, <1>6, <1>7 DEF RegInv, CallRest

LEMMA ActivatedInv == ASSUME RegInv, Activated PROVE RegInv'
<1>1. Sound' /\ UsedSlots' = UsedSlots /\ nPortCapacity' = nPortCapacity
  BY SameKeepsSound DEF RegInv, Activated, table
<1>2. SyncInv' /\ pc[Host] = "synced" /\ pc'[Host] = "idle" /\ log' = log /\ handled' = handled
  BY UnlockStep DEF RegInv, Activated
<1>3. RegVarsOK'
  BY <1>2 DEF RegInv, CallRest, RegVarsOK, Activated, Goto, Return, LockSteps, SyncSteps
<1>4. HandlesUsed' /\ PhaseInv'
  BY <1>1, <1>2 DEF RegInv, CallRest, HandlesUsed, PhaseInv, Unlocked, Activated, Goto, Return,
     RegVarsOK
<1>5. CallInv' /\ OnlyUnregisterHalfDone'
  BY <1>1 DEF RegInv, CallRest, CallInv, OnlyUnregisterHalfDone, Kept, Adding, Removing, Registering, Connecting,
     Activated, Goto, Return, Failed, Returned
<1>6. IdsDefined' /\ AnnouncedBut'
  BY <1>1 DEF RegInv, CallRest, IdsDefined, AnnouncedBut, PhaseInv, Registering, Dropping, AllRegistered,
     Activated, Goto, Return, RegVarsOK, UNDEFINED, INVALID_ID
<1>7. IdsFit'
  BY <1>1, <1>2, SameIdsFit DEF RegInv, CallRest, PhaseInv, Attached, Dropping, table,
     Activated, Goto, Return
<1> QED
  BY <1>1, <1>2, <1>3, <1>4, <1>5, <1>6, <1>7 DEF RegInv, CallRest

LEMMA DeactivatedInv == ASSUME RegInv, Deactivated PROVE RegInv'
<1>1. Sound' /\ UsedSlots' = UsedSlots /\ nPortCapacity' = nPortCapacity
  BY SameKeepsSound DEF RegInv, Deactivated, table
<1>2. SyncInv' /\ pc[Host] = "synced" /\ pc'[Host] = "idle" /\ log' = log /\ handled' = handled
  BY UnlockStep DEF RegInv, Deactivated
<1>3. RegVarsOK'
  BY <1>2 DEF RegInv, CallRest, RegVarsOK, Deactivated, Goto, Return, LockSteps, SyncSteps
<1>4. HandlesUsed' /\ PhaseInv'
  BY <1>1, <1>2 DEF RegInv, CallRest, HandlesUsed, PhaseInv, Unlocked, Deactivated, Goto, Return,
     RegVarsOK
<1>5. CallInv' /\ OnlyUnregisterHalfDone'
  BY <1>1 DEF RegInv, CallRest, CallInv, OnlyUnregisterHalfDone, Kept, Adding, Removing, Registering, Connecting,
     Deactivated, Goto, Return, Failed, Returned
<1>6. IdsDefined' /\ AnnouncedBut'
  BY <1>1 DEF RegInv, CallRest, IdsDefined, AnnouncedBut, PhaseInv, Registering, Dropping, AllRegistered,
     Deactivated, Goto, Return, RegVarsOK, UNDEFINED, INVALID_ID
<1>7. IdsFit'
  BY <1>1, <1>2, SameIdsFit DEF RegInv, CallRest, PhaseInv, Attached, Dropping, table,
     Deactivated, Goto, Return
<1> QED
  BY <1>1, <1>2, <1>3, <1>4, <1>5, <1>6, <1>7 DEF RegInv, CallRest

LEMMA SyncedDetachedInv == ASSUME RegInv, SyncedDetached PROVE RegInv'
<1>1. Sound' /\ UsedSlots' = UsedSlots /\ nPortCapacity' = nPortCapacity
  BY SameKeepsSound DEF RegInv, SyncedDetached, table
<1>2. SyncInv' /\ pc[Host] = "synced" /\ pc'[Host] = "idle" /\ log' = log /\ handled' = handled
  BY UnlockStep DEF RegInv, SyncedDetached
<1>3. RegVarsOK'
  BY <1>2 DEF RegInv, CallRest, RegVarsOK, SyncedDetached, Goto, Return, LockSteps, SyncSteps
<1>4. HandlesUsed' /\ PhaseInv'
  BY <1>1, <1>2 DEF RegInv, CallRest, HandlesUsed, PhaseInv, Unlocked, SyncedDetached, Goto, Return,
     RegVarsOK
<1>5. CallInv' /\ OnlyUnregisterHalfDone'
  BY <1>1 DEF RegInv, CallRest, CallInv, OnlyUnregisterHalfDone, Kept, Adding, Removing, Registering, Connecting,
     SyncedDetached, Goto, Return, Failed, Returned
<1>6. IdsDefined' /\ AnnouncedBut'
  BY <1>1 DEF RegInv, CallRest, IdsDefined, AnnouncedBut, PhaseInv, Registering, Dropping, AllRegistered,
     SyncedDetached, Goto, Return, RegVarsOK, UNDEFINED, INVALID_ID
<1>7. IdsFit'
  BY <1>1, <1>2, SameIdsFit DEF RegInv, CallRest, PhaseInv, Attached, Dropping, table,
     SyncedDetached, Goto, Return
<1> QED
  BY <1>1, <1>2, <1>3, <1>4, <1>5, <1>6, <1>7 DEF RegInv, CallRest

LEMMA AttachNoMemoryInv == ASSUME RegInv, AttachNoMemory PROVE RegInv'
<1>1. Sound' /\ UsedSlots' = UsedSlots /\ nPortCapacity' = nPortCapacity
  BY SameKeepsSound DEF RegInv, AttachNoMemory, table
<1>2. SyncInv' /\ pc[Host] = "locked" /\ pc'[Host] = "idle" /\ log' = log /\ handled' = handled
  BY ReleaseStep DEF RegInv, AttachNoMemory
<1>3. RegVarsOK'
  BY <1>2 DEF RegInv, CallRest, RegVarsOK, AttachNoMemory, Goto, Return, LockSteps, SyncSteps
<1>4. HandlesUsed' /\ PhaseInv'
  BY <1>1, <1>2 DEF RegInv, CallRest, HandlesUsed, PhaseInv, Unlocked, AttachNoMemory, Goto, Return,
     RegVarsOK
<1>5. CallInv' /\ OnlyUnregisterHalfDone'
  BY <1>1 DEF RegInv, CallRest, CallInv, OnlyUnregisterHalfDone, Kept, Adding, Removing, Registering, Connecting,
     AttachNoMemory, Goto, Return, Failed, Returned
<1>6. IdsDefined' /\ AnnouncedBut'
  BY <1>1 DEF RegInv, CallRest, IdsDefined, AnnouncedBut, PhaseInv, Registering, Dropping, AllRegistered,
     AttachNoMemory, Goto, Return, RegVarsOK, UNDEFINED, INVALID_ID
<1>7. IdsFit'
  BY <1>1, <1>2, SameIdsFit DEF RegInv, CallRest, PhaseInv, Attached, Dropping, table,
     AttachNoMemory, Goto, Return
<1> QED
  BY <1>1, <1>2, <1>3, <1>4, <1>5, <1>6, <1>7 DEF RegInv, CallRest

LEMMA AttachNextNoMemoryInv == ASSUME RegInv, AttachNextNoMemory PROVE RegInv'
<1>1. Sound' /\ UsedSlots' = UsedSlots /\ nPortCapacity' = nPortCapacity
  BY SameKeepsSound DEF RegInv, AttachNextNoMemory, table
<1>2. SyncInv' /\ pc[Host] = "locked" /\ pc'[Host] = "idle" /\ log' = log /\ handled' = handled
  BY ReleaseStep DEF RegInv, AttachNextNoMemory
<1>3. RegVarsOK'
  BY <1>2 DEF RegInv, CallRest, RegVarsOK, AttachNextNoMemory, Goto, Return, LockSteps, SyncSteps
<1>4. HandlesUsed' /\ PhaseInv'
  BY <1>1, <1>2 DEF RegInv, CallRest, HandlesUsed, PhaseInv, Unlocked, AttachNextNoMemory, Goto, Return,
     RegVarsOK
<1>5. CallInv' /\ OnlyUnregisterHalfDone'
  BY <1>1 DEF RegInv, CallRest, CallInv, OnlyUnregisterHalfDone, Kept, Adding, Removing, Registering, Connecting,
     AttachNextNoMemory, Goto, Return, Failed, Returned
<1>6. IdsDefined' /\ AnnouncedBut'
  BY <1>1 DEF RegInv, CallRest, IdsDefined, AnnouncedBut, PhaseInv, Registering, Dropping, AllRegistered,
     AttachNextNoMemory, Goto, Return, RegVarsOK, UNDEFINED, INVALID_ID
<1>7. IdsFit'
  BY <1>1, <1>2, SameIdsFit DEF RegInv, CallRest, PhaseInv, Attached, Dropping, table,
     AttachNextNoMemory, Goto, Return
<1> QED
  BY <1>1, <1>2, <1>3, <1>4, <1>5, <1>6, <1>7 DEF RegInv, CallRest

LEMMA AttachedAllInv == ASSUME RegInv, AttachedAll PROVE RegInv'
<1>1. Sound' /\ UsedSlots' = UsedSlots /\ nPortCapacity' = nPortCapacity
  BY SameKeepsSound DEF RegInv, AttachedAll, table
<1>2. SyncInv' /\ pc[Host] = "locked" /\ pc'[Host] = "idle" /\ log' = log /\ handled' = handled
  BY ReleaseStep DEF RegInv, AttachedAll
<1>3. RegVarsOK'
  BY <1>2 DEF RegInv, CallRest, RegVarsOK, AttachedAll, Goto, Return, LockSteps, SyncSteps
<1>4. HandlesUsed' /\ PhaseInv'
  BY <1>1, <1>2 DEF RegInv, CallRest, HandlesUsed, PhaseInv, Unlocked, AttachedAll, Goto, Return,
     RegVarsOK
<1>5. CallInv' /\ OnlyUnregisterHalfDone'
  BY <1>1 DEF RegInv, CallRest, CallInv, OnlyUnregisterHalfDone, Kept, Adding, Removing, Registering, Connecting,
     AttachedAll, Goto, Return, Failed, Returned
<1>6. IdsDefined' /\ AnnouncedBut'
  <2>1. \A i \in UsedSlots : ~(i >= cur)
    BY DEF AttachedAll, RegInv, Sound, TableTypeOK, UsedSlots, Slots
  <2> QED
    BY <1>1, <2>1 DEF RegInv, CallRest, IdsDefined, AnnouncedBut, PhaseInv, Registering, Dropping,
       AttachedAll, Goto
<1>7. IdsFit'
  <2>1. \A i \in UsedSlots : ~(i >= cur)
    BY DEF AttachedAll, RegInv, Sound, TableTypeOK, UsedSlots, Slots
  <2>2. /\ step = "attach_all" /\ step' = "sync_all"
        /\ UNCHANGED <<vPorts, handle, nId, pending, conn>>
    BY DEF AttachedAll, Goto, table
  <2> QED
    BY <1>1, <1>2, <2>1, <2>2, SameIdsFit DEF RegInv, CallRest, Attached, Dropping
<1> QED
  BY <1>1, <1>2, <1>3, <1>4, <1>5, <1>6, <1>7 DEF RegInv, CallRest

LEMMA AttachWaitInv == ASSUME RegInv, AttachWait PROVE RegInv'
<1>1. Sound' /\ UsedSlots' = UsedSlots /\ nPortCapacity' = nPortCapacity
  BY SameKeepsSound DEF RegInv, AttachWait, table
<1>2. SyncInv' /\ pc' = pc /\ log' = log /\ handled' = handled
  BY StutterInv DEF RegInv, AttachWait, syncVars, connVars
<1>3. RegVarsOK'
  BY <1>2 DEF RegInv, CallRest, RegVarsOK, AttachWait, Goto, Return, LockSteps, SyncSteps
<1>4. HandlesUsed' /\ PhaseInv'
  BY <1>1, <1>2 DEF RegInv, CallRest, HandlesUsed, PhaseInv, Unlocked, AttachWait, Goto, Return,
     RegVarsOK
<1>5. CallInv' /\ OnlyUnregisterHalfDone'
  BY <1>1 DEF RegInv, CallRest, CallInv, OnlyUnregisterHalfDone, Kept, Adding, Removing, Registering, Connecting,
     AttachWait, Goto, Return, Failed, Returned
<1>6. IdsDefined' /\ AnnouncedBut'
  BY <1>1 DEF RegInv, CallRest, IdsDefined, AnnouncedBut, PhaseInv, Registering, Dropping, AllRegistered,
     AttachWait, Goto, Return, RegVarsOK, UNDEFINED, INVALID_ID
<1>7. IdsFit'
  BY <1>1, <1>2, SameIdsFit DEF RegInv, CallRest, PhaseInv, Attached, Dropping, table,
     AttachWait, Goto, Return
<1> QED
  BY <1>1, <1>2, <1>3, <1>4, <1>5, <1>6, <1>7 DEF RegInv, CallRest

LEMMA AllAnnouncedInv == ASSUME RegInv, AllAnnounced PROVE RegInv'
<1>1. Sound' /\ UsedSlots' = UsedSlots /\ nPortCapacity' = nPortCapacity
  BY SameKeepsSound DEF RegInv, AllAnnounced, table
<1>2. SyncInv' /\ pc' = pc /\ log' = log /\ handled' = handled
  BY StutterInv DEF RegInv, AllAnnounced, syncVars, connVars
<1>3. RegVarsOK'
  BY <1>2 DEF RegInv, CallRest, RegVarsOK, AllAnnounced, Goto, Return, LockSteps, SyncSteps
<1>4. HandlesUsed' /\ PhaseInv'
  BY <1>1, <1>2 DEF RegInv, CallRest, HandlesUsed, PhaseInv, Unlocked, AllAnnounced, Goto, Return,
     RegVarsOK
<1>5. CallInv' /\ OnlyUnregisterHalfDone'
  BY <1>1 DEF RegInv, CallRest, CallInv, OnlyUnregisterHalfDone, Kept, Adding, Removing, Registering, Connecting,
     AllAnnounced, Goto, Return, Failed, Returned
<1>6. IdsDefined' /\ AnnouncedBut'
  BY <1>1 DEF RegInv, CallRest, IdsDefined, AnnouncedBut, PhaseInv, Registering, Dropping, AllRegistered,
     AllAnnounced, Goto, Return, RegVarsOK, UNDEFINED, INVALID_ID
<1>7. IdsFit'
  BY <1>1, <1>2, SameIdsFit DEF RegInv, CallRest, PhaseInv, Attached, Dropping, table,
     AllAnnounced, Goto, Return
<1> QED
  BY <1>1, <1>2, <1>3, <1>4, <1>5, <1>6, <1>7 DEF RegInv, CallRest

LEMMA WaitAllTimedOutInv == ASSUME RegInv, WaitAllTimedOut PROVE RegInv'
<1>1. Sound' /\ UsedSlots' = UsedSlots /\ nPortCapacity' = nPortCapacity
  BY SameKeepsSound DEF RegInv, WaitAllTimedOut, table
<1>2. SyncInv' /\ pc' = pc /\ log' = log /\ handled' = handled
  BY StutterInv DEF RegInv, WaitAllTimedOut, syncVars, connVars
<1>3. RegVarsOK'
  BY <1>2 DEF RegInv, CallRest, RegVarsOK, WaitAllTimedOut, Goto, Return, LockSteps, SyncSteps
<1>4. HandlesUsed' /\ PhaseInv'
  BY <1>1, <1>2 DEF RegInv, CallRest, HandlesUsed, PhaseInv, Unlocked, WaitAllTimedOut, Goto, Return,
     RegVarsOK
<1>5. CallInv' /\ OnlyUnregisterHalfDone'
  BY <1>1 DEF RegInv, CallRest, CallInv, OnlyUnregisterHalfDone, Kept, Adding, Removing, Registering, Connecting,
     WaitAllTimedOut, Goto, Return, Failed, Returned
<1>6. IdsDefined' /\ AnnouncedBut'
  BY <1>1 DEF RegInv, CallRest, IdsDefined, AnnouncedBut, PhaseInv, Registering, Dropping, AllRegistered,
     WaitAllTimedOut, Goto, Return, RegVarsOK, UNDEFINED, INVALID_ID
<1>7. IdsFit'
  BY <1>1, <1>2, SameIdsFit DEF RegInv, CallRest, PhaseInv, Attached, Dropping, table,
     WaitAllTimedOut, Goto, Return
<1> QED
  BY <1>1, <1>2, <1>3, <1>4, <1>5, <1>6, <1>7 DEF RegInv, CallRest

LEMMA DetachAllInv == ASSUME RegInv, DetachAll PROVE RegInv'
<1>1. Sound' /\ UsedSlots' = UsedSlots /\ nPortCapacity' = nPortCapacity
  BY SameKeepsSound DEF RegInv, DetachAll, table
<1>2. SyncInv' /\ pc' = pc /\ log' = log /\ handled' = handled
  BY StutterInv DEF RegInv, DetachAll, syncVars, connVars
<1>3. RegVarsOK'
  BY <1>2 DEF RegInv, CallRest, RegVarsOK, DetachAll, Goto, Return, DetachSlots, LockSteps, SyncSteps
<1>4. HandlesUsed' /\ PhaseInv'
  BY <1>1, <1>2 DEF RegInv, CallRest, HandlesUsed, PhaseInv, Unlocked, DetachAll, Goto, Return, DetachSlots,
     RegVarsOK
<1>5. CallInv' /\ OnlyUnregisterHalfDone'
  BY <1>1 DEF RegInv, CallRest, CallInv, OnlyUnregisterHalfDone, Kept, Adding, Removing, Registering, Connecting,
     DetachAll, Goto, Return, DetachSlots, Failed, Returned
<1>6. IdsDefined' /\ AnnouncedBut'
  BY <1>1 DEF RegInv, CallRest, IdsDefined, AnnouncedBut, PhaseInv, Registering, Dropping, AllRegistered,
     DetachAll, Goto, Return, DetachSlots, RegVarsOK, UNDEFINED, INVALID_ID
<1>7. IdsFit'
  BY <1>1, <1>2, SameIdsFit DEF RegInv, CallRest, PhaseInv, Attached, Dropping, table,
     DetachAll, Goto, Return, DetachSlots
<1> QED
  BY <1>1, <1>2, <1>3, <1>4, <1>5, <1>6, <1>7 DEF RegInv, CallRest

LEMMA ConnectCallInv == ASSUME RegInv, ConnectCall PROVE RegInv'
<1>1. Sound' /\ UsedSlots' = UsedSlots /\ nPortCapacity' = nPortCapacity
  BY SameKeepsSound DEF RegInv, ConnectCall, table
<1>2. SyncInv' /\ pc' = pc /\ log' = log /\ handled' = handled
  BY StutterInv DEF RegInv, ConnectCall, syncVars, connVars
<1>3. /\ step = "none" /\ step' = "attach_all" /\ conn' = "online" /\ cur' = 0
      /\ call' = "connect" /\ UNCHANGED <<handle, nId, pending, asleep>>
  BY DEF ConnectCall, Begin
<1>4. 0 \in 0 .. nPortCapacity /\ 0 \in -1 .. MaxSlots /\ \A i \in UsedSlots : i >= 0
  BY SlotsAssumption DEF RegInv, Sound, TableTypeOK, UsedSlots, Slots
<1>5. RegVarsOK'
  BY <1>2, <1>3, <1>4 DEF RegInv, CallRest, RegVarsOK, LockSteps
<1>6. HandlesUsed' /\ PhaseInv'
  BY <1>1, <1>2, <1>3 DEF RegInv, CallRest, HandlesUsed, PhaseInv, Unlocked
<1>7. CallInv' /\ OnlyUnregisterHalfDone'
  BY <1>1, <1>3, <1>4 DEF CallInv, OnlyUnregisterHalfDone, Kept, Adding, Removing, Registering, Connecting
<1>8. IdsDefined' /\ AnnouncedBut'
  BY <1>1, <1>3, <1>4 DEF IdsDefined, AnnouncedBut
<1>9. IdsFit'
  BY <1>1, <1>2, <1>3, <1>4 DEF IdsFit, Attached
<1> QED
  BY <1>1, <1>2, <1>5, <1>6, <1>7, <1>8, <1>9 DEF RegInv, CallRest

LEMMA CallbackRefusesInv == ASSUME RegInv, CallbackRefuses PROVE RegInv'
<1>1. Sound' /\ UsedSlots' = UsedSlots /\ nPortCapacity' = nPortCapacity
  BY SameKeepsSound DEF RegInv, CallbackRefuses, table
<1>2. SyncInv' /\ pc' = pc /\ log' = log /\ handled' = handled
  BY StutterInv DEF RegInv, CallbackRefuses, syncVars, connVars
<1>3. RegVarsOK'
  BY <1>2 DEF RegInv, CallRest, RegVarsOK, CallbackRefuses, Resume, LockSteps, SyncSteps
<1>4. HandlesUsed' /\ PhaseInv'
  BY <1>1, <1>2 DEF RegInv, CallRest, HandlesUsed, PhaseInv, Unlocked, CallbackRefuses, Resume,
     RegVarsOK
<1>5. CallInv' /\ OnlyUnregisterHalfDone'
  BY <1>1 DEF RegInv, CallRest, CallInv, OnlyUnregisterHalfDone, Kept, Adding, Removing, Registering, Connecting,
     CallbackRefuses, Resume, Failed, Returned
<1>6. IdsDefined' /\ AnnouncedBut'
  BY <1>1 DEF RegInv, CallRest, IdsDefined, AnnouncedBut, PhaseInv, Registering, Dropping, AllRegistered,
     CallbackRefuses, Resume, RegVarsOK, UNDEFINED, INVALID_ID
<1>7. IdsFit'
  BY <1>1, <1>2, SameIdsFit DEF RegInv, CallRest, PhaseInv, Attached, Dropping, table,
     CallbackRefuses, Resume
<1> QED
  BY <1>1, <1>2, <1>3, <1>4, <1>5, <1>6, <1>7 DEF RegInv, CallRest

LEMMA ActivateCallInv == ASSUME RegInv, ActivateCall PROVE RegInv'
<1>1. Sound' /\ UsedSlots' = UsedSlots /\ nPortCapacity' = nPortCapacity
  BY SameKeepsSound DEF RegInv, ActivateCall, table
<1>2. SyncInv' /\ pc' = pc /\ log' = log /\ handled' = handled
  BY StutterInv DEF RegInv, ActivateCall, syncVars, connVars
<1>3. RegVarsOK'
  BY <1>2 DEF RegInv, CallRest, RegVarsOK, ActivateCall, Resume, LockSteps, SyncSteps
<1>4. HandlesUsed' /\ PhaseInv'
  BY <1>1, <1>2 DEF RegInv, CallRest, HandlesUsed, PhaseInv, Unlocked, ActivateCall, Resume,
     RegVarsOK
<1>5. CallInv' /\ OnlyUnregisterHalfDone'
  BY <1>1 DEF RegInv, CallRest, CallInv, OnlyUnregisterHalfDone, Kept, Adding, Removing, Registering, Connecting,
     ActivateCall, Resume, Failed, Returned
<1>6. IdsDefined' /\ AnnouncedBut'
  BY <1>1 DEF RegInv, CallRest, IdsDefined, AnnouncedBut, PhaseInv, Registering, Dropping, AllRegistered,
     ActivateCall, Resume, RegVarsOK, UNDEFINED, INVALID_ID
<1>7. IdsFit'
  BY <1>1, <1>2, SameIdsFit DEF RegInv, CallRest, PhaseInv, Attached, Dropping, table,
     ActivateCall, Resume
<1> QED
  BY <1>1, <1>2, <1>3, <1>4, <1>5, <1>6, <1>7 DEF RegInv, CallRest

LEMMA DisconnectCallInv == ASSUME RegInv, DisconnectCall PROVE RegInv'
<1>1. Sound' /\ UsedSlots' = UsedSlots /\ nPortCapacity' = nPortCapacity
  BY SameKeepsSound DEF RegInv, DisconnectCall, table
<1>2. SyncInv' /\ pc' = pc /\ log' = log /\ handled' = handled
  BY StutterInv DEF RegInv, DisconnectCall, syncVars, connVars
<1>3. RegVarsOK'
  BY <1>2 DEF RegInv, CallRest, RegVarsOK, DisconnectCall, Begin, LockSteps, SyncSteps
<1>4. HandlesUsed' /\ PhaseInv'
  BY <1>1, <1>2 DEF RegInv, CallRest, HandlesUsed, PhaseInv, Unlocked, DisconnectCall, Begin,
     RegVarsOK
<1>5. CallInv' /\ OnlyUnregisterHalfDone'
  BY <1>1 DEF RegInv, CallRest, CallInv, OnlyUnregisterHalfDone, Kept, Adding, Removing, Registering, Connecting,
     DisconnectCall, Begin, Failed, Returned
<1>6. IdsDefined' /\ AnnouncedBut'
  BY <1>1 DEF RegInv, CallRest, IdsDefined, AnnouncedBut, PhaseInv, Registering, Dropping, AllRegistered,
     DisconnectCall, Begin, RegVarsOK, UNDEFINED, INVALID_ID
<1>7. IdsFit'
  BY <1>1, <1>2, SameIdsFit DEF RegInv, CallRest, PhaseInv, Attached, Dropping, table,
     DisconnectCall, Begin
<1> QED
  BY <1>1, <1>2, <1>3, <1>4, <1>5, <1>6, <1>7 DEF RegInv, CallRest

LEMMA MutexWaitInv == ASSUME RegInv, MutexWait PROVE RegInv'
<1>1. Sound' /\ UsedSlots' = UsedSlots /\ nPortCapacity' = nPortCapacity
  BY SameKeepsSound DEF RegInv, MutexWait, table
<1>2. SyncInv' /\ pc' = pc /\ log' = log /\ handled' = handled
  BY StutterInv DEF RegInv, MutexWait, syncVars, connVars
<1>3. RegVarsOK'
  BY <1>2 DEF RegInv, CallRest, RegVarsOK, MutexWait, Goto, Return, LockSteps, SyncSteps
<1>4. HandlesUsed' /\ PhaseInv'
  BY <1>1, <1>2 DEF RegInv, CallRest, HandlesUsed, PhaseInv, Unlocked, MutexWait, Goto, Return,
     RegVarsOK
<1>5. CallInv' /\ OnlyUnregisterHalfDone'
  BY <1>1 DEF RegInv, CallRest, CallInv, OnlyUnregisterHalfDone, Kept, Adding, Removing, Registering, Connecting,
     MutexWait, Goto, Return, Failed, Returned
<1>6. IdsDefined' /\ AnnouncedBut'
  BY <1>1 DEF RegInv, CallRest, IdsDefined, AnnouncedBut, PhaseInv, Registering, Dropping, AllRegistered,
     MutexWait, Goto, Return, RegVarsOK, UNDEFINED, INVALID_ID
<1>7. IdsFit'
  BY <1>1, <1>2, SameIdsFit DEF RegInv, CallRest, PhaseInv, Attached, Dropping, table,
     MutexWait, Goto, Return
<1> QED
  BY <1>1, <1>2, <1>3, <1>4, <1>5, <1>6, <1>7 DEF RegInv, CallRest

LEMMA CloseInv == ASSUME RegInv, Close PROVE RegInv'
<1>1. Sound' /\ UsedSlots' = UsedSlots /\ nPortCapacity' = nPortCapacity
  BY SameKeepsSound DEF RegInv, Close, table
<1>2. SyncInv' /\ pc[Host] = "idle" /\ pc' = pc /\ log' = << >> /\ handled' = 0
  BY CloseStep DEF RegInv, CallRest, PhaseInv, Unlocked, Close
<1>3. RegVarsOK'
  BY <1>2 DEF RegInv, CallRest, RegVarsOK, Close, Goto, Return, LockSteps, SyncSteps
<1>4. HandlesUsed' /\ PhaseInv'
  BY <1>1, <1>2 DEF RegInv, CallRest, HandlesUsed, PhaseInv, Unlocked, Close, Goto, Return,
     RegVarsOK
<1>5. CallInv' /\ OnlyUnregisterHalfDone'
  BY <1>1 DEF RegInv, CallRest, CallInv, OnlyUnregisterHalfDone, Kept, Adding, Removing, Registering, Connecting,
     Close, Goto, Return, Failed, Returned
<1>6. IdsDefined' /\ AnnouncedBut'
  BY <1>1 DEF RegInv, CallRest, IdsDefined, AnnouncedBut, PhaseInv, Registering, Dropping, AllRegistered,
     Close, Goto, Return, RegVarsOK, UNDEFINED, INVALID_ID
<1>7. IdsFit'
  BY DEF IdsFit, Attached, Close
<1> QED
  BY <1>1, <1>2, <1>3, <1>4, <1>5, <1>6, <1>7 DEF RegInv, CallRest

-----------------------------------------------------------------------------
(* Attaching a port *)

\* The request names the port of the slot.
LEMMA AttachSlotStep ==
    ASSUME RegInv, NEW i \in UsedSlots, AttachSlot(i), UNCHANGED <<vPorts, pending>>
    PROVE  /\ SyncInv'
           /\ pc' = pc /\ pc[Host] = "locked" /\ log' # << >> /\ handled' = handled
           /\ handle' \in [AllSlots -> Nat] /\ nId' \in [AllSlots -> {UNDEFINED, INVALID_ID} \cup Nat]
           /\ i \in AllSlots /\ nId'[i] = INVALID_ID
           /\ \A j \in AllSlots : j # i => handle'[j] = handle[j] /\ nId'[j] = nId[j]
           /\ handle'[i] # 0 /\ OwnIds(i)'
           /\ \A j \in UsedSlots : j # i /\ OwnIds(j) => OwnIds(j)'
<1>1. i \in AllSlots
  BY UsedInRange DEF RegInv
<1>2. vPorts[i].sID \in Ops
  <2>1. vPorts[i] \in Port
    BY UsedIsPort DEF RegInv, Sound, TableTypeOK, UsedSlots, Used
  <2> QED
    BY <2>1, HostAssumption DEF Port
<1>3. /\ SyncInv' /\ pc' = pc /\ pc[Host] = "locked" /\ log' # << >> /\ handled' = handled
      /\ Len(log') \in Nat /\ Len(log') # 0
  BY <1>2, SendStep DEF RegInv, AttachSlot
<1>4. /\ handle \in [AllSlots -> Nat] /\ nId \in [AllSlots -> {UNDEFINED, INVALID_ID} \cup Nat]
      /\ handle' = [handle EXCEPT ![i] = Len(log')] /\ nId' = [nId EXCEPT ![i] = INVALID_ID]
  BY DEF RegInv, CallRest, RegVarsOK, AttachSlot
<1>5. OwnIds(i)'
  <2>1. log' = Append(log, vPorts[i].sID) /\ log \in Seq(Ops \cup {Sync})
    BY DEF AttachSlot, Send, RegInv, SyncInv, SyncTypeOK
  <2>2. Len(log') = Len(log) + 1 /\ log'[Len(log) + 1] = vPorts[i].sID /\ Len(log) \in Nat
    BY <1>2, <2>1, LogGrows
  <2>3. handle'[i] = Len(log') /\ nId'[i] = INVALID_ID
    BY <1>1, <1>4
  <2> QED
    BY <2>2, <2>3 DEF OwnIds
<1>6. ASSUME NEW j \in UsedSlots, j # i, OwnIds(j)
      PROVE  OwnIds(j)'
  <2>1. vPorts[j].sID # vPorts[i].sID
    BY <1>6 DEF RegInv, Sound, NamesUnique
  <2>2. j \in AllSlots
    BY UsedInRange DEF RegInv
  <2> QED
    BY <1>2, <1>4, <1>6, <2>1, <2>2, RequestKeepsIds DEF RegInv, SyncInv, AttachSlot, Send
<1> QED
  BY <1>1, <1>3, <1>4, <1>5, <1>6

LEMMA AttachInv == ASSUME RegInv, Attach PROVE RegInv'
<1>1. Sound' /\ UsedSlots' = UsedSlots /\ nPortCapacity' = nPortCapacity
  BY SameKeepsSound DEF RegInv, Attach, table
<1>2. /\ step = "attach" /\ step' = "attached" /\ conn # "offline" /\ cur \in UsedSlots /\ AttachSlot(cur)
      /\ UNCHANGED <<conn, pending, cur, asleep, call, before, ret>>
  BY DEF Attach, Goto, RegInv, CallRest, PhaseInv, CallInv, Adding, Registering
<1>3. /\ SyncInv'
      /\ pc' = pc /\ pc[Host] = "locked" /\ log' # << >> /\ handled' = handled
      /\ handle' \in [AllSlots -> Nat] /\ nId' \in [AllSlots -> {UNDEFINED, INVALID_ID} \cup Nat]
      /\ cur \in AllSlots /\ nId'[cur] = INVALID_ID
      /\ \A j \in AllSlots : j # cur => handle'[j] = handle[j] /\ nId'[j] = nId[j]
      /\ handle'[cur] # 0
      /\ \A j \in UsedSlots : j = cur \/ OwnIds(j) => OwnIds(j)'
  <2>1. PICK k \in UsedSlots : k = cur /\ AttachSlot(k)
    BY <1>2
  <2> QED
    BY <1>2, <2>1, AttachSlotStep DEF Attach, table
<1>4. RegVarsOK'
  BY <1>2, <1>3 DEF RegInv, CallRest, RegVarsOK, SyncSteps
<1>5. HandlesUsed' /\ PhaseInv'
  BY <1>1, <1>2, <1>3 DEF RegInv, CallRest, HandlesUsed, PhaseInv, Unlocked
<1>6. CallInv' /\ OnlyUnregisterHalfDone'
  BY <1>1, <1>2, <1>3, UsedInRange DEF RegInv, CallRest, CallInv, OnlyUnregisterHalfDone, Kept, Adding, Removing, Registering, Connecting
<1>7. IdsDefined' /\ AnnouncedBut'
  <2>1. UsedSlots \subseteq AllSlots
    BY UsedInRange DEF RegInv
  <2> QED
    BY <1>1, <1>2, <1>3, <2>1 DEF RegInv, CallRest, IdsDefined, AnnouncedBut, Registering, Dropping,
       UNDEFINED, INVALID_ID
<1>8. IdsFit'
  <2>1. ASSUME NEW j \in UsedSlots, j # cur, Attached(j)'
        PROVE  OwnIds(j)
    <3>1. j \in AllSlots
      BY UsedInRange DEF RegInv
    <3>2. Attached(j)
      BY <1>2, <1>3, <2>1, <3>1 DEF Attached, Dropping
    <3> QED
      BY <3>2 DEF RegInv, CallRest, IdsFit
  <2> QED
    BY <1>1, <1>3, <2>1 DEF IdsFit
<1> QED
  BY <1>1, <1>3, <1>4, <1>5, <1>6, <1>7, <1>8 DEF RegInv, CallRest

LEMMA AttachNextInv == ASSUME RegInv, AttachNext PROVE RegInv'
<1>1. Sound' /\ UsedSlots' = UsedSlots /\ nPortCapacity' = nPortCapacity
  BY SameKeepsSound DEF RegInv, AttachNext, table
<1>2. /\ step = "attach_all" /\ conn = "online" /\ pc[Host] = "locked"
      /\ call \in {"connect", "disconnect"}
      /\ cur' = cur + 1
      /\ UNCHANGED <<conn, pending, step, asleep, call, before, ret>>
  BY DEF AttachNext, RegInv, CallRest, PhaseInv, CallInv, Connecting
<1>3. /\ cur \in 0 .. nPortCapacity - 1 /\ cur' \in 0 .. nPortCapacity /\ cur' \in -1 .. MaxSlots
      /\ cur \in Int /\ UsedSlots \subseteq AllSlots /\ UsedSlots \subseteq Int
  BY <1>2, SlotsAssumption, UsedInRange DEF AttachNext, RegInv, CallRest, CallInv, Sound, TableTypeOK,
     UsedSlots, Slots
<1>4. /\ SyncInv' /\ pc' = pc /\ handled' = handled
      /\ handle' \in [AllSlots -> Nat] /\ nId' \in [AllSlots -> {UNDEFINED, INVALID_ID} \cup Nat]
      /\ cur \in UsedSlots => nId'[cur] = INVALID_ID
      /\ \A j \in AllSlots : j # cur \/ cur \notin UsedSlots => handle'[j] = handle[j] /\ nId'[j] = nId[j]
      /\ \A j \in UsedSlots : j = cur \/ OwnIds(j) => OwnIds(j)'
  <2>1. CASE cur \in UsedSlots
    <3>1. AttachSlot(cur)
      BY <2>1 DEF AttachNext, UsedSlots
    <3> QED
      <4>1. UNCHANGED <<vPorts, pending>>
        BY DEF AttachNext, table
      <4>2. PICK k \in UsedSlots : k = cur /\ AttachSlot(k)
        BY <2>1, <3>1
      <4> QED
        BY <2>1, <4>1, <4>2, AttachSlotStep
  <2>2. CASE cur \notin UsedSlots
    <3>1. UNCHANGED <<syncVars, handle, nId>>
      BY <1>3, <2>2 DEF AttachNext, UsedSlots, Slots
    <3>2. SyncInv' /\ pc' = pc /\ handled' = handled
      BY <3>1, StutterInv DEF RegInv, syncVars, connVars
    <3>3. ASSUME NEW j \in UsedSlots, OwnIds(j)
          PROVE  OwnIds(j)'
      BY <3>1, <3>3 DEF OwnIds, AnnouncedAs, syncVars, connVars, AttachNext, table
    <3> QED
      BY <2>2, <3>1, <3>2, <3>3 DEF RegInv, CallRest, RegVarsOK
  <2> QED
    BY <2>1, <2>2
<1>5. RegVarsOK'
  BY <1>2, <1>3, <1>4 DEF RegInv, CallRest, RegVarsOK
<1>6. HandlesUsed' /\ PhaseInv'
  BY <1>1, <1>2, <1>4 DEF RegInv, CallRest, HandlesUsed, PhaseInv, Unlocked
<1>7. CallInv' /\ OnlyUnregisterHalfDone'
  BY <1>1, <1>2, <1>3 DEF CallInv, OnlyUnregisterHalfDone, Kept, Adding, Removing, Registering, Connecting
<1>8. IdsDefined' /\ AnnouncedBut'
  <2>1. ASSUME NEW i \in UsedSlots, nId'[i] = UNDEFINED
        PROVE  i >= cur'
    <3>1. i # cur /\ nId[i] = UNDEFINED
      BY <1>3, <1>4, <2>1 DEF UNDEFINED, INVALID_ID
    <3>2. i >= cur
      BY <1>2, <3>1 DEF RegInv, CallRest, IdsDefined, Dropping
    <3> QED
      BY <1>2, <1>3, <3>1, <3>2
  <2> QED
    BY <1>1, <1>2, <2>1 DEF IdsDefined, AnnouncedBut
<1>9. IdsFit'
  <2>1. ASSUME NEW j \in UsedSlots, j # cur, Attached(j)'
        PROVE  OwnIds(j)
    <3>1. j \in AllSlots /\ j \in Int
      BY <1>3
    <3>2. ~(j >= cur)
      BY <1>2, <1>3, <2>1, <3>1 DEF Attached
    <3>3. Attached(j)
      BY <1>2, <1>4, <2>1, <3>1, <3>2 DEF Attached
    <3> QED
      BY <3>3 DEF RegInv, CallRest, IdsFit
  <2> QED
    BY <1>1, <1>4, <2>1 DEF IdsFit
<1> QED
  BY <1>1, <1>4, <1>5, <1>6, <1>7, <1>8, <1>9 DEF RegInv, CallRest

-----------------------------------------------------------------------------
(* Waiting, the server and the context thread *)

LEMMA WaitingInv == ASSUME RegInv, SyncStep PROVE RegInv'
<1>1. Sound' /\ UsedSlots' = UsedSlots /\ nPortCapacity' = nPortCapacity
  BY SameKeepsSound DEF RegInv, SyncStep, table
<1>2. /\ UNCHANGED <<conn, handle, nId, pending, step, cur, asleep, call, before, ret>>
  BY DEF SyncStep, regVars
<1>3. /\ SyncInv' /\ handled' = handled
      /\ \/ step \in LockSteps /\ pc[Host] = "idle" /\ pc'[Host] = "locked" /\ log' = log
         \/ step \in SyncSteps /\ pc[Host] = "locked" /\ pc'[Host] = "waiting"
         \/ /\ pc[Host] \in {"woken", "startled"} /\ pc'[Host] \in {"waiting", "synced"}
            /\ log' = log
  BY SyncStepFacts DEF RegInv
<1>4. RegVarsOK' /\ HandlesUsed'
  BY <1>1, <1>2, <1>3 DEF RegInv, CallRest, RegVarsOK, HandlesUsed
<1>5. PhaseInv'
  BY <1>2, <1>3 DEF RegInv, CallRest, PhaseInv, Unlocked, LockSteps, SyncSteps
<1>6. CallInv' /\ OnlyUnregisterHalfDone' /\ IdsDefined' /\ AnnouncedBut'
  BY <1>1, <1>2 DEF RegInv, CallRest, CallInv, OnlyUnregisterHalfDone, Kept, IdsDefined,
     AnnouncedBut, Adding, Removing
<1>7. vPorts' = vPorts
  BY DEF SyncStep, table
<1>8. IdsFit'
  <2>1. CASE log' = log
    BY <1>1, <1>2, <1>3, <1>7, <2>1, SameIdsFit DEF RegInv, CallRest, Attached
  <2>2. CASE log' = Append(log, Sync)
    <3> SUFFICES ASSUME NEW i \in UsedSlots, Attached(i)'
                 PROVE  OwnIds(i)'
      BY <1>1 DEF IdsFit
    <3>1. OwnIds(i)
      BY <1>2 DEF RegInv, CallRest, IdsFit, Attached
    <3>2. vPorts[i].sID # Sync
      <4>1. vPorts[i] \in Port
        BY UsedIsPort DEF RegInv, Sound, TableTypeOK, UsedSlots, Used
      <4> QED
        BY <4>1, HostAssumption, OpsAssumption DEF Port
    <3> QED
      BY <1>2, <1>3, <1>7, <2>2, <3>1, <3>2, RequestKeepsIds DEF RegInv, SyncInv
  <2> QED
    BY <2>1, <2>2, <1>3 DEF SyncStep, Lock, RequestSync, SleepAgain, FinishSync, connVars
<1> QED
  BY <1>1, <1>3, <1>4, <1>5, <1>6, <1>8 DEF RegInv, CallRest

\* Wakeups, the server and the end of the connection.
LEMMA OutsideInv == ASSUME RegInv, SpuriousWakeup \/ ServerStep \/ UNCHANGED allVars PROVE RegInv'
<1>1. Sound' /\ UsedSlots' = UsedSlots /\ nPortCapacity' = nPortCapacity
  BY SameKeepsSound DEF RegInv, SpuriousWakeup, ServerStep, allVars, table
<1>2. UNCHANGED <<conn, handle, nId, pending, step, cur, asleep, call, before, ret>>
  BY DEF SpuriousWakeup, ServerStep, allVars, regVars
<1>3. /\ SyncInv' /\ handled' = handled /\ log' = log
      /\ pc'[Host] = pc[Host] \/ (pc[Host] = "waiting" /\ pc'[Host] = "startled")
  <2>1. CASE SpuriousWakeup
    BY <2>1, WakeInv, OneHost, HostPhase DEF RegInv, SyncInv, SpuriousWakeup, WakeSpuriously, connVars
  <2>2. CASE ServerStep
    BY <2>2, ServerInv DEF RegInv, ServerStep, Serve, Break
  <2>3. CASE UNCHANGED allVars
    BY <2>3, StutterInv DEF RegInv, allVars, syncVars, connVars
  <2> QED
    BY <2>1, <2>2, <2>3
<1>4. RegVarsOK' /\ HandlesUsed'
  BY <1>1, <1>2, <1>3 DEF RegInv, CallRest, RegVarsOK, HandlesUsed
<1>5. PhaseInv'
  BY <1>2, <1>3 DEF RegInv, CallRest, PhaseInv, Unlocked
<1>6. CallInv' /\ OnlyUnregisterHalfDone' /\ IdsDefined' /\ AnnouncedBut'
  BY <1>1, <1>2 DEF RegInv, CallRest, CallInv, OnlyUnregisterHalfDone, Kept, IdsDefined,
     AnnouncedBut, Adding, Removing
<1>7. IdsFit'
  BY <1>1, <1>2, <1>3, SameIdsFit DEF RegInv, CallRest, Attached, SpuriousWakeup, ServerStep, allVars, table
<1> QED
  BY <1>1, <1>3, <1>4, <1>5, <1>6, <1>7 DEF RegInv, CallRest

\* An announcement gives identifiers and takes none away.
LEMMA AnnouncedIds ==
    ASSUME RegInv, NEW p \in Nat \ {0},
           PortAnnounced(p) \/ UNCHANGED <<nId, asleep>>
    PROVE  /\ nId' \in [AllSlots -> {UNDEFINED, INVALID_ID} \cup Nat]
           /\ asleep' \in BOOLEAN
           /\ \A i \in AllSlots : nId'[i] = nId[i] \/ nId'[i] \notin {UNDEFINED, INVALID_ID}
<1>1. asleep \in BOOLEAN /\ nId \in [AllSlots -> {UNDEFINED, INVALID_ID} \cup Nat]
  BY DEF RegInv, CallRest, RegVarsOK
<1>2. CASE PortAnnounced(p)
  <2> DEFINE S == Matches(log[p])
  <2>1. nId' = [i \in AllSlots |-> IF i \in S THEN p ELSE nId[i]]
    BY <1>2 DEF PortAnnounced
  <2>2. asleep' = (asleep /\ S = {})
    BY <1>2 DEF PortAnnounced
  <2> HIDE DEF S
  <2>3. asleep' \in BOOLEAN
    BY <2>2
  <2> QED
    BY <1>1, <2>1, <2>3 DEF UNDEFINED, INVALID_ID
<1>3. CASE UNCHANGED <<nId, asleep>>
  BY <1>1, <1>3
<1> QED
  BY <1>2, <1>3

LEMMA ContextInv == ASSUME RegInv, ContextStep \/ LateEvent PROVE RegInv'
<1>1. Sound' /\ UsedSlots' = UsedSlots /\ nPortCapacity' = nPortCapacity
  BY SameKeepsSound DEF RegInv, ContextStep, LateEvent, table
<1>2. UNCHANGED <<conn, handle, step, cur, call, before, ret, log>>
  BY DEF ContextStep, LateEvent, Dispatch, syncVars, connVars
<1>3. /\ SyncInv'
      /\ pc'[Host] = pc[Host] \/ (pc[Host] = "waiting" /\ pc'[Host] = "woken")
      /\ pending' \subseteq 1 .. handled'
      /\ conn = "offline" => pending' = {}
      /\ handled' \in Nat /\ handled <= handled'
      /\ \A q \in 1 .. handled : q \notin pending => q \notin pending'
      /\ \E p \in Nat \ {0} :
            \/ PortAnnounced(p) /\ p \in 1 .. handled' /\ p \notin pending'
            \/ UNCHANGED <<nId, asleep>>
  <2>0. handled \in Nat /\ pending \subseteq 1 .. handled
    BY HostPhase DEF RegInv, SyncInv, CallRest, RegVarsOK
  <2>1. CASE ContextStep
    <3>1. SyncInv' /\ handled' = handled + 1
      BY <2>1, DispatchInv DEF RegInv, ContextStep, Dispatch
    <3>2. pc'[Host] = pc[Host] \/ (pc[Host] = "waiting" /\ pc'[Host] = "woken")
      BY <2>1, OneHost, HostPhase DEF RegInv, SyncInv, ContextStep, Dispatch, OnCoreDone
    <3>3. handled + 1 \in Nat \ {0} /\ pending' \subseteq pending \cup {handled + 1}
      BY <2>0, <2>1 DEF ContextStep
    <3>4. conn # "offline"
      <4>1. log # << >>
        <5>1. served \in 0 .. Len(log) /\ handled < served
          BY <2>1 DEF RegInv, SyncInv, SyncTypeOK, ContextStep, Dispatch
        <5>2. Len(<< >>) = 0
          OBVIOUS
        <5> QED
          BY <2>0, <5>1, <5>2
      <4> QED
        BY <4>1 DEF RegInv, CallRest, PhaseInv
    <3>5. \/ PortAnnounced(handled + 1) /\ handled + 1 \in 1 .. handled' /\ handled + 1 \notin pending'
          \/ UNCHANGED <<nId, asleep>>
      <4>1. handled + 1 \in 1 .. handled' /\ handled + 1 \notin pending
        BY <2>0, <3>1
      <4> QED
        BY <2>1, <4>1 DEF ContextStep
    <3>6. handled <= handled' /\ handled' \in Nat /\ handled + 1 \notin 1 .. handled
      BY <2>0, <3>1
    <3> QED
      BY <2>0, <3>1, <3>2, <3>3, <3>4, <3>5, <3>6
  <2>2. CASE LateEvent
    <3>1. SyncInv' /\ pc' = pc /\ handled' = handled
      BY <2>2, StutterInv DEF RegInv, LateEvent, syncVars, connVars
    <3>2. PICK p \in pending : PortAnnounced(p) /\ pending' = pending \ {p}
      BY <2>2 DEF LateEvent
    <3> QED
      BY <2>0, <3>1, <3>2 DEF RegInv, CallRest, PhaseInv
  <2> QED
    BY <2>1, <2>2
<1>4. /\ nId' \in [AllSlots -> {UNDEFINED, INVALID_ID} \cup Nat] /\ asleep' \in BOOLEAN
      /\ \A i \in AllSlots : nId'[i] = nId[i] \/ nId'[i] \notin {UNDEFINED, INVALID_ID}
  BY <1>3, AnnouncedIds
<1>5. RegVarsOK' /\ HandlesUsed'
  BY <1>1, <1>2, <1>3, <1>4 DEF RegInv, CallRest, RegVarsOK, HandlesUsed
<1>6. PhaseInv'
  BY <1>2, <1>3 DEF RegInv, CallRest, PhaseInv, Unlocked
<1>7. CallInv' /\ OnlyUnregisterHalfDone'
  BY <1>1, <1>2 DEF RegInv, CallRest, CallInv, OnlyUnregisterHalfDone, Kept, Adding, Removing
<1>8. IdsDefined' /\ AnnouncedBut'
  <2>1. UsedSlots \subseteq AllSlots
    BY UsedInRange DEF RegInv
  <2> QED
    BY <1>1, <1>2, <1>4, <2>1 DEF RegInv, CallRest, IdsDefined, AnnouncedBut
<1>9. IdsFit'
  <2> SUFFICES ASSUME NEW i \in UsedSlots, Attached(i)'
               PROVE  OwnIds(i)'
    BY <1>1 DEF IdsFit
  <2>1. OwnIds(i) /\ i \in AllSlots
    BY <1>2, UsedInRange DEF RegInv, CallRest, IdsFit, Attached
  <2>2. vPorts' = vPorts /\ handle' = handle /\ log' = log /\ handled \in Nat
    BY <1>2, HostPhase DEF ContextStep, LateEvent, table, RegInv, SyncInv
  <2>3. AnnouncedAs(vPorts[i].sID) \subseteq AnnouncedAs(vPorts[i].sID)'
    BY <1>3, <2>2 DEF AnnouncedAs
  <2>4. CASE nId'[i] = nId[i]
    BY <2>1, <2>2, <2>3, <2>4 DEF OwnIds
  <2>5. CASE nId'[i] # nId[i]
    <3>1. PICK p \in Nat \ {0} : PortAnnounced(p) /\ p \in 1 .. handled' /\ p \notin pending'
      BY <1>3, <2>5
    <3>2. nId'[i] = p /\ log[p] = vPorts[i].sID
      BY <2>1, <2>5, <3>1 DEF PortAnnounced, Matches
    <3>3. p \in AnnouncedAs(vPorts[i].sID)'
      BY <2>2, <3>1, <3>2 DEF AnnouncedAs
    <3>4. p <= handle[i]
      <4>1. handled' <= Len(log) /\ Len(log) \in Nat
        BY <1>2, <1>3, HostPhase DEF SyncInv, SyncTypeOK
      <4>2. p \in 1 .. Len(log) /\ handle[i] \in Nat
        BY <2>1, <3>1, <4>1, <1>3 DEF OwnIds
      <4>3. p \notin handle[i] + 1 .. Len(log)
        BY <2>1, <3>2 DEF OwnIds
      <4> QED
        BY <4>1, <4>2, <4>3
    <3> QED
      BY <2>1, <2>2, <3>2, <3>3, <3>4 DEF OwnIds
  <2> QED
    BY <2>4, <2>5
<1> QED
  BY <1>1, <1>3, <1>5, <1>6, <1>7, <1>8, <1>9 DEF RegInv, CallRest

-----------------------------------------------------------------------------
(* Steps that change the table *)

LEMMA RegisterCallInv ==
    ASSUME RegInv, NEW id \in Names \cup BadNames, NEW flags \in Flags, RegisterCall(id, flags)
    PROVE  RegInv'
<1>1. /\ step = "none" /\ call' = "register" /\ before' = [used |-> UsedSlots, handle |-> handle]
      /\ UNCHANGED <<syncVars, conn, handle, nId, pending, asleep>>
  BY DEF RegisterCall, Begin
<1>2. SyncInv' /\ pc' = pc /\ log' = log /\ handled' = handled
  BY <1>1, StutterInv DEF RegInv, syncVars, connVars
\* Nothing is registered.
<1>3. ASSUME Sound', UsedSlots' = UsedSlots, UNCHANGED vPorts \/ UNCHANGED table, UNCHANGED <<step, cur>>,
             \E st \in {"INVALID_VALUE", "TOO_BIG", "ALREADY_EXISTS", "NO_MEM"} : ret' = Failed(st)
      PROVE  RegInv'
  <2>1. ret'.st # "OK"
    BY <1>3 DEF Failed
  <2>2. RegVarsOK' /\ HandlesUsed' /\ PhaseInv'
    BY <1>1, <1>2, <1>3 DEF RegInv, CallRest, RegVarsOK, HandlesUsed, PhaseInv, Unlocked
  <2>3. CallInv' /\ OnlyUnregisterHalfDone'
    BY <1>1, <1>3, <2>1 DEF CallInv, OnlyUnregisterHalfDone, Kept, Adding, Removing, Registering, Connecting
  <2>4. IdsDefined' /\ AnnouncedBut'
    BY <1>1, <1>3 DEF RegInv, CallRest, IdsDefined, AnnouncedBut
  <2>5. IdsFit'
    BY <1>1, <1>2, <1>3, SameIdsFit DEF RegInv, CallRest, Attached, table
  <2> QED
    BY <1>2, <1>3, <2>2, <2>3, <2>4, <2>5 DEF RegInv, CallRest
<1>4. CASE /\ \E st \in Rejection(id, flags) : ret' = Failed(st)
           /\ UNCHANGED <<table, step, cur>>
  <2>1. Sound' /\ UsedSlots' = UsedSlots
    BY <1>4, SameKeepsSound DEF RegInv, table
  <2> QED
    BY <1>3, <1>4, <2>1 DEF Rejection
<1>5. CASE /\ AllocNoMemory \/ AllocNoSlot
           /\ ret' = Failed("NO_MEM")
           /\ UNCHANGED <<step, cur>>
  BY <1>3, <1>5, NoMemoryKeepsSound DEF RegInv, AllocNoMemory, AllocNoSlot
\* A slot is taken.
<1>6. ASSUME Rejection(id, flags) = {}, NEW i, AllocPort(id, flags, i), cur' = i,
             IF conn = "offline" THEN ret' = Returned(i) /\ UNCHANGED step
                                 ELSE step' = "attach" /\ UNCHANGED ret
      PROVE  RegInv'
  <2>1. id \in Names /\ flags \in GoodFlags /\ Matches(id) = {}
    BY <1>6 DEF Rejection
  <2>2. Sound' /\ i \in AllSlots /\ i \notin UsedSlots /\ UsedSlots' = UsedSlots \cup {i}
    BY <1>6, <2>1, AllocKeepsSound DEF RegInv, AllSlots
  <2>3. /\ cur' \in -1 .. MaxSlots
        /\ \A j \in UsedSlots : j \in AllSlots
        /\ handle[i] = 0
    <3>1. i \in -1 .. MaxSlots
      BY <2>2, SlotsAssumption DEF AllSlots
    <3> QED
      BY <1>6, <2>2, <3>1, UsedInRange DEF RegInv, CallRest, HandlesUsed
  <2>4. RegVarsOK' /\ HandlesUsed' /\ PhaseInv'
    BY <1>1, <1>2, <1>6, <2>2, <2>3 DEF RegInv, CallRest, RegVarsOK, HandlesUsed, PhaseInv, Unlocked,
       LockSteps
  <2>5. CallInv' /\ OnlyUnregisterHalfDone'
    BY <1>1, <1>6, <2>2, <2>3 DEF CallInv, OnlyUnregisterHalfDone, Kept, Adding, Removing, Registering, Connecting, Returned
  <2>6. IdsDefined' /\ AnnouncedBut'
    BY <1>1, <1>6, <2>2, <2>3 DEF RegInv, CallRest, IdsDefined, AnnouncedBut, Registering, Dropping
  <2>7. IdsFit'
    <3>1. \A j \in UsedSlots : vPorts'[j] = vPorts[j]
      <4>1. \A j \in Slots : j \in 0 .. NewCapacity - 1 /\ Enlarged[j] = vPorts[j]
        BY <1>6, EnlargedTable DEF RegInv, Sound, TableTypeOK, Slots, AllocPort
      <4>2. \A j \in UsedSlots : j # i /\ j \in Slots
        BY <2>2 DEF UsedSlots
      <4>3. Enlarged = [j \in 0 .. NewCapacity - 1 |-> Enlarged[j]]
        BY DEF Enlarged
      <4>4. vPorts' = [Enlarged EXCEPT ![i] = [nType |-> flags, sID |-> id]]
        BY <1>6 DEF AllocPort
      <4> QED
        BY <4>1, <4>2, <4>3, <4>4
    <3>2. handle'[i] = 0
      BY <1>1, <2>3
    <3> QED
      BY <1>1, <1>2, <1>6, <2>2, <3>1, <3>2, SameIdsFit DEF RegInv, CallRest, Attached, Dropping
  <2> QED
    BY <1>2, <2>2, <2>4, <2>5, <2>6, <2>7 DEF RegInv, CallRest
<1> QED
  BY <1>4, <1>5, <1>6 DEF RegisterCall

\* What free_port does on top of the table.
LEMMA FreeSlotStep ==
    ASSUME RegInv, NEW i \in UsedSlots, FreeSlot(i)
    PROVE  /\ Sound' /\ UsedSlots' = UsedSlots \ {i} /\ i \in AllSlots
           /\ handle' \in [AllSlots -> Nat] /\ nId' = nId
           /\ handle'[i] = 0
           /\ \A j \in AllSlots : j # i => handle'[j] = handle[j]
           /\ \A j \in UsedSlots : j # i => vPorts'[j] = vPorts[j]
<1>1. \A j \in UsedSlots : j # i => vPorts'[j] = vPorts[j]
  BY DEF FreeSlot, FreePort, RegInv, Sound, TableTypeOK, UsedSlots, Slots
<1> QED
  BY <1>1, FreeKeepsSound, UsedInRange DEF RegInv, CallRest, RegVarsOK, FreeSlot

LEMMA FreeInv == ASSUME RegInv, Free PROVE RegInv'
<1>1. /\ step = "free" /\ step' = "none" /\ FreeSlot(cur)
      /\ UNCHANGED <<ret, syncVars, conn, pending, cur, asleep, call, before>>
  BY DEF Free, Goto
<1>2. SyncInv' /\ pc' = pc /\ log' = log /\ handled' = handled
  BY <1>1, StutterInv DEF RegInv, syncVars, connVars
<1>3. cur \in UsedSlots /\ conn # "offline"
  BY <1>1 DEF RegInv, CallRest, CallInv, PhaseInv, Adding, Removing
<1>4. /\ Sound' /\ UsedSlots' = UsedSlots \ {cur} /\ cur \in AllSlots
      /\ handle' \in [AllSlots -> Nat] /\ nId' = nId
      /\ handle'[cur] = 0
      /\ \A j \in AllSlots : j # cur => handle'[j] = handle[j]
      /\ \A j \in UsedSlots : j # cur => vPorts'[j] = vPorts[j]
  BY <1>1, <1>3, FreeSlotStep
<1>5. RegVarsOK' /\ HandlesUsed' /\ PhaseInv'
  BY <1>1, <1>2, <1>3, <1>4 DEF RegInv, CallRest, RegVarsOK, HandlesUsed, PhaseInv, Unlocked
<1>6. CallInv' /\ OnlyUnregisterHalfDone'
  BY <1>1, <1>4, UsedInRange DEF RegInv, CallRest, CallInv, OnlyUnregisterHalfDone, Kept, Adding, Removing, Registering, Connecting
<1>7. IdsDefined' /\ AnnouncedBut'
  BY <1>1, <1>4, UsedInRange DEF RegInv, CallRest, IdsDefined, AnnouncedBut, Registering, Dropping
<1>8. IdsFit'
  BY <1>1, <1>2, <1>4, UsedInRange, SameIdsFit DEF RegInv, CallRest, Attached, Dropping
<1> QED
  BY <1>2, <1>4, <1>5, <1>6, <1>7, <1>8 DEF RegInv, CallRest

LEMMA UnregisterCallInv ==
    ASSUME RegInv, NEW i \in -1 .. nPortCapacity, UnregisterCall(i)
    PROVE  RegInv'
<1>1. /\ step = "none" /\ call' = "unregister" /\ before' = [used |-> UsedSlots, handle |-> handle]
      /\ UNCHANGED <<syncVars, conn, pending, asleep>>
  BY DEF UnregisterCall, Begin
<1>2. SyncInv' /\ pc' = pc /\ log' = log /\ handled' = handled
  BY <1>1, StutterInv DEF RegInv, syncVars, connVars
<1>3. CASE /\ ret' = Failed("INVALID_VALUE")
           /\ UNCHANGED <<table, handle, nId, step, cur>>
  <2>1. Sound' /\ UsedSlots' = UsedSlots /\ ret'.st # "OK"
    BY <1>3, SameKeepsSound DEF RegInv, table, Failed
  <2>2. RegVarsOK' /\ HandlesUsed' /\ PhaseInv'
    BY <1>1, <1>2, <1>3, <2>1 DEF RegInv, CallRest, RegVarsOK, HandlesUsed, PhaseInv, Unlocked
  <2>3. CallInv' /\ OnlyUnregisterHalfDone'
    BY <1>1, <1>3, <2>1 DEF CallInv, OnlyUnregisterHalfDone, Kept, Adding, Removing, Registering, Connecting
  <2>4. IdsDefined' /\ AnnouncedBut'
    BY <1>1, <1>3, <2>1 DEF RegInv, CallRest, IdsDefined, AnnouncedBut
  <2>5. IdsFit'
    BY <1>1, <1>2, <1>3, <2>1, SameIdsFit DEF RegInv, CallRest, Attached, table
  <2> QED
    BY <1>2, <2>1, <2>2, <2>3, <2>4, <2>5 DEF RegInv, CallRest
<1>4. i \in -1 .. MaxSlots
  BY SlotsAssumption DEF RegInv, Sound, TableTypeOK
\* Without a filter the slot is free at once.
<1>5. CASE /\ i \in UsedSlots /\ conn = "offline" /\ FreeSlot(i)
           /\ ret' = Returned(0) /\ cur' = i /\ UNCHANGED step
  <2>1. /\ Sound' /\ UsedSlots' = UsedSlots \ {i} /\ i \in AllSlots
        /\ handle' \in [AllSlots -> Nat] /\ nId' = nId
        /\ handle'[i] = 0
        /\ \A j \in AllSlots : j # i => handle'[j] = handle[j]
    BY <1>5, FreeSlotStep
  <2>2. RegVarsOK' /\ HandlesUsed' /\ PhaseInv'
    BY <1>1, <1>2, <1>4, <1>5, <2>1 DEF RegInv, CallRest, RegVarsOK, HandlesUsed, PhaseInv, Unlocked
  <2>3. CallInv' /\ OnlyUnregisterHalfDone'
    BY <1>1, <1>5, <2>1, UsedInRange DEF RegInv, CallInv, OnlyUnregisterHalfDone, Kept, Adding, Removing, Registering, Connecting, Returned
  <2>4. IdsDefined' /\ AnnouncedBut'
    BY <1>1, <1>5, <2>1 DEF IdsDefined, AnnouncedBut
  <2>5. IdsFit'
    BY <1>1, <1>5 DEF IdsFit, Attached
  <2> QED
    BY <1>2, <2>1, <2>2, <2>3, <2>4, <2>5 DEF RegInv, CallRest
\* With one, the port is detached first.
<1>6. CASE /\ i \in UsedSlots /\ conn # "offline" /\ DetachSlots({i})
           /\ step' = "detached" /\ cur' = i /\ UNCHANGED <<table, ret>>
  <2>1. Sound' /\ UsedSlots' = UsedSlots /\ UsedSlots \subseteq AllSlots
    BY <1>6, SameKeepsSound, UsedInRange DEF RegInv, table
  <2>2. /\ handle' \in [AllSlots -> Nat] /\ nId' \in [AllSlots -> {UNDEFINED, INVALID_ID} \cup Nat]
        /\ \A j \in AllSlots : handle'[j] = IF j = i THEN 0 ELSE handle[j]
        /\ \A j \in AllSlots : nId'[j] = nId[j] \/ (j = i /\ nId'[j] = INVALID_ID)
    BY <1>6 DEF RegInv, CallRest, RegVarsOK, DetachSlots
  <2>3. RegVarsOK' /\ HandlesUsed' /\ PhaseInv'
    BY <1>1, <1>2, <1>4, <1>6, <2>1, <2>2 DEF RegInv, CallRest, RegVarsOK, HandlesUsed, PhaseInv,
       Unlocked, LockSteps
  <2>4. CallInv' /\ OnlyUnregisterHalfDone'
    BY <1>1, <1>6, <2>1, <2>2 DEF CallInv, OnlyUnregisterHalfDone, Kept, Adding, Removing, Registering, Connecting
  <2>5. IdsDefined' /\ AnnouncedBut'
    BY <1>1, <1>6, <2>1, <2>2 DEF RegInv, CallRest, IdsDefined, AnnouncedBut, Registering, Dropping,
       UNDEFINED, INVALID_ID
  <2>6. IdsFit'
    <3>1. \A j \in UsedSlots : nId'[j] = nId[j] \/ handle'[j] = 0
      BY <2>1, <2>2
    <3> QED
      BY <1>1, <1>2, <1>6, <2>1, <2>2, <3>1, SameIdsFit DEF RegInv, CallRest, Attached, Dropping, table
  <2> QED
    BY <1>2, <2>1, <2>3, <2>4, <2>5, <2>6 DEF RegInv, CallRest
<1> QED
  BY <1>3, <1>5, <1>6 DEF UnregisterCall

-----------------------------------------------------------------------------
LEMMA RegInitInv == RegInit => RegInv
<1> SUFFICES ASSUME RegInit PROVE RegInv
  OBVIOUS
<1>1. Sound /\ UsedSlots = {}
  <2>1. Sound
    BY TableInitInv DEF RegInit, TableInv
  <2>2. UsedSlots = {}
    BY DEF RegInit, TableInit, UsedSlots, Slots
  <2> QED
    BY <2>1, <2>2
<1>2. SyncInv /\ pc[Host] = "idle" /\ log = << >>
  BY SyncInitInv, OneHost DEF RegInit, SyncInit
<1>3. RegVarsOK
  <2>1. 0 \in -1 .. MaxSlots /\ {} \subseteq 1 .. handled
    BY SlotsAssumption
  <2>2. /\ handle \in [AllSlots -> Nat]
        /\ nId \in [AllSlots -> {UNDEFINED, INVALID_ID} \cup Nat]
    BY DEF RegInit
  <2> QED
    BY <2>1, <2>2 DEF RegInit, RegVarsOK
<1>4. HandlesUsed /\ PhaseInv /\ CallInv /\ OnlyUnregisterHalfDone
  BY <1>2 DEF RegInit, HandlesUsed, PhaseInv, CallInv, OnlyUnregisterHalfDone, Kept, Adding, Removing, Registering,
     Connecting, Unlocked
<1>5. IdsDefined /\ AnnouncedBut /\ IdsFit
  BY <1>1 DEF IdsDefined, AnnouncedBut, IdsFit
<1> QED
  BY <1>1, <1>2, <1>3, <1>4, <1>5 DEF RegInv, CallRest

LEMMA RegStepInv == RegInv /\ [RegNext]_allVars => RegInv'
<1> SUFFICES ASSUME RegInv, [RegNext]_allVars
             PROVE  RegInv'
  OBVIOUS
<1>1. ASSUME NEW id \in Names \cup BadNames, NEW flags \in Flags, RegisterCall(id, flags)
      PROVE  RegInv'
  BY <1>1, RegisterCallInv
<1>2. ASSUME NEW i \in -1 .. nPortCapacity, UnregisterCall(i)
      PROVE  RegInv'
  BY <1>2, UnregisterCallInv
<1>3. CASE ConnectCall \/ CallbackRefuses \/ ActivateCall \/ DisconnectCall
  BY <1>3, ConnectCallInv, CallbackRefusesInv, ActivateCallInv, DisconnectCallInv
<1>4. CASE RegisterStep
  BY <1>4, AttachInv, AttachNoMemoryInv, AttachFailedInv, AttachDoneInv, AttachWaitInv,
     AttachRegisteredInv, FreeInv, DetachedInv DEF RegisterStep
<1>5. CASE ConnectStep
  BY <1>5, AttachNextInv, AttachNextNoMemoryInv, AttachedAllInv, SyncedAllInv, ActivatedInv,
     AllAnnouncedInv, CloseInv, DeactivatedInv, DetachAllInv, SyncedDetachedInv DEF ConnectStep
<1>6. CASE SyncStep \/ MutexWait \/ TimeOut
  BY <1>6, WaitingInv, MutexWaitInv, AttachTimedOutInv, WaitAllTimedOutInv DEF TimeOut
<1>7. CASE SpuriousWakeup \/ ServerStep \/ UNCHANGED allVars
  BY <1>7, OutsideInv
<1>8. CASE ContextStep \/ LateEvent
  BY <1>8, ContextInv
<1> QED
  BY <1>1, <1>2, <1>3, <1>4, <1>5, <1>6, <1>7, <1>8 DEF RegNext, CallStep

-----------------------------------------------------------------------------
(* Theorems *)

\* The invariant holds whenever a connected backend can be looked at.
THEOREM RegCorrect == RegSpec => []RegInv
<1>1. RegInit => RegInv
  BY RegInitInv
<1>2. RegInv /\ [RegNext]_allVars => RegInv'
  BY RegStepInv
<1> QED
  BY <1>1, <1>2, PTL DEF RegSpec

\* Types of the table, of the synchronisation and of what a call keeps (backend_t).
THEOREM RegTypes == RegSpec => []RegTypeOK
<1>1. RegInv => RegTypeOK
  BY DEF RegInv, CallRest, RegVarsOK, RegTypeOK, Sound, SyncInv
<1> QED
  BY <1>1, RegCorrect, PTL

\* What is left when a call returns, whatever fails on the way: register_port has added
\* an attached port or changed nothing, unregister_port has taken its port away, changed
\* nothing, or, when its synchronisation failed, left the slot to a port without a
\* handle; no other port has lost or changed its handle.
THEOREM CallOutcomes == RegSpec => []OnlyUnregisterHalfDone
<1>1. RegInv => OnlyUnregisterHalfDone
  BY DEF RegInv, CallRest
<1> QED
  BY <1>1, RegCorrect, PTL

\* The hint, the names and the handles hold in the middle of every call too.
THEOREM TableSound == RegSpec => []TableStaysSound
<1>1. RegInv => TableStaysSound
  BY DEF RegInv, CallRest, Sound, HandlesUsed, TableStaysSound
<1> QED
  BY <1>1, RegCorrect, PTL

\* The attached ports of an active backend have identifiers that the registry has
\* announced in this connection for ports of their names: for themselves, or for an
\* earlier port of the name that was given up.
THEOREM PortsAnnounced == RegSpec => []ActivePortsAnnounced
<1>1. RegInv => ActivePortsAnnounced
  <2> SUFFICES ASSUME RegInv, conn = "active", step = "none", NEW i \in UsedSlots, handle[i] # 0
               PROVE  /\ nId[i] \in AnnouncedAs(vPorts[i].sID)
                      /\ nId[i] # handle[i] => \E p \in 1 .. handle[i] - 1 : log[p] = vPorts[i].sID
    BY DEF ActivePortsAnnounced
  <2>1. nId[i] \notin {UNDEFINED, INVALID_ID}
    BY DEF RegInv, CallRest, AnnouncedBut, IdsDefined, Registering, Dropping
  <2>2. OwnIds(i)
    BY DEF RegInv, CallRest, IdsFit, Attached, Dropping
  <2>3. nId[i] \in AnnouncedAs(vPorts[i].sID) /\ nId[i] <= handle[i]
    BY <2>1, <2>2 DEF OwnIds
  <2>4. nId[i] \in Nat \ {0} /\ log[nId[i]] = vPorts[i].sID /\ handle[i] \in Nat
    BY <2>2, <2>3 DEF AnnouncedAs, OwnIds
  <2> QED
    BY <2>3, <2>4
<1> QED
  BY <1>1, RegCorrect, PTL

\* wait_all_ports_registered reads no nId that nothing has written.
THEOREM IdsRead == RegSpec => []NoUndefinedIdRead
<1>1. RegInv => NoUndefinedIdRead
  BY DEF RegInv, CallRest, PhaseInv, IdsDefined, NoUndefinedIdRead, Dropping
<1> QED
  BY <1>1, RegCorrect, PTL
=============================================================================
