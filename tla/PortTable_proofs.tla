-------------------------- MODULE PortTable_proofs --------------------------
(***************************************************************************)
(* Theorems about PortTable, for every set of names and flags and every    *)
(* memory limit.                                                           *)
(*                                                                         *)
(* The inductive invariant is TableInv: the types, the hint and the names. *)
(* NoMemoryOnlyWhenFull needs the hint: a failed search has looked at the  *)
(* slots from the hint on, and only NothingFreeBelowHint says that those   *)
(* before it are taken too.                                                *)
(***************************************************************************)
EXTENDS PortTable, TLAPS

\* What every operation on the table keeps, whatever the call returns.
Sound ==
    /\ TableTypeOK
    /\ NothingFreeBelowHint
    /\ NamesUnique

TableInv ==
    /\ Sound
    /\ NoMemoryOnlyWhenFull
    /\ RetryGrows

-----------------------------------------------------------------------------
\* The doubled table keeps every slot and adds only free ones.
LEMMA EnlargedTable ==
    ASSUME TableTypeOK, ~AtEnd \/ NewCapacity <= MaxSlots
    PROVE  /\ NewCapacity \in 0 .. MaxSlots
           /\ nPortCapacity <= NewCapacity
           /\ AtEnd => nPortCapacity < NewCapacity
           /\ Enlarged \in [0 .. NewCapacity - 1 -> Port \cup {NoPort}]
           /\ \A i \in Slots : Enlarged[i] = vPorts[i]
           /\ \A i \in nPortCapacity .. NewCapacity - 1 : Enlarged[i] = NoPort
  BY SlotsAssumption DEF TableTypeOK, AtEnd, NewCapacity, Larger, Enlarged, Slots

\* A slot holds a port exactly when it is not free.
LEMMA UsedIsPort ==
    ASSUME NEW p \in Port \cup {NoPort}
    PROVE  (p.nType # FREE) <=> p \in Port
  BY FlagsAssumption DEF Port, NoPort

-----------------------------------------------------------------------------
\* alloc_port keeps the table sound and takes one free slot.
LEMMA AllocKeepsSound ==
    ASSUME Sound,
           NEW id \in Names, NEW flags \in GoodFlags, NEW i,
           Matches(id) = {},
           AllocPort(id, flags, i)
    PROVE  /\ Sound'
           /\ i \in 0 .. MaxSlots - 1
           /\ i \notin UsedSlots
           /\ UsedSlots' = UsedSlots \cup {i}
<1>1. /\ i \in FreeSlots /\ i \in 0 .. NewCapacity - 1 /\ nPortFirst <= i
      /\ ~AtEnd \/ NewCapacity <= MaxSlots
      /\ Enlarged[i].nType = FREE
  BY DEF AllocPort, FreeSlots, Sound, TableTypeOK
<1>2. /\ NewCapacity \in 0 .. MaxSlots
      /\ nPortCapacity <= NewCapacity
      /\ Enlarged \in [0 .. NewCapacity - 1 -> Port \cup {NoPort}]
      /\ \A j \in Slots : Enlarged[j] = vPorts[j]
      /\ \A j \in nPortCapacity .. NewCapacity - 1 : Enlarged[j] = NoPort
  BY <1>1, EnlargedTable DEF Sound
<1> DEFINE new == [nType |-> flags, sID |-> id]
<1>3. new \in Port /\ new.nType # FREE /\ new.sID = id
  BY FlagsAssumption DEF Port
<1>4. /\ vPorts' = [Enlarged EXCEPT ![i] = new]
      /\ nPortCapacity' = NewCapacity
      /\ nPortFirst' = i + 1
  BY DEF AllocPort
<1>5. /\ vPorts'[i] = new
      /\ \A j \in 0 .. NewCapacity - 1 : j # i => vPorts'[j] = Enlarged[j]
  BY <1>1, <1>2, <1>4
<1>6. TableTypeOK'
  BY <1>1, <1>2, <1>3, <1>4 DEF TableTypeOK, Slots
<1>7. NothingFreeBelowHint'
  <2> SUFFICES ASSUME NEW j \in 0 .. i
               PROVE  vPorts'[j].nType # FREE
    BY <1>1, <1>2, <1>4 DEF NothingFreeBelowHint, Used
  <2>1. CASE j = i
    BY <2>1, <1>3, <1>5
  <2>2. CASE j < nPortFirst
    <3>1. j \in Slots /\ j # i /\ j \in 0 .. NewCapacity - 1
      BY <2>2, <1>1, <1>2 DEF Sound, TableTypeOK, Slots
    <3>2. vPorts[j].nType # FREE
      BY <2>2 DEF Sound, TableTypeOK, NothingFreeBelowHint, Used
    <3> QED
      BY <3>1, <3>2, <1>2, <1>5
  <2>3. CASE nPortFirst <= j /\ j < i
    <3>1. j \in nPortFirst .. i - 1 /\ j \in nPortFirst .. NewCapacity - 1 /\ j # i
      BY <2>3, <1>1, <1>2 DEF Sound, TableTypeOK
    <3>2. Enlarged[j].nType # FREE
      BY <3>1 DEF AllocPort, FreeSlots
    <3> QED
      BY <3>1, <3>2, <1>1, <1>2, <1>5 DEF Sound, TableTypeOK
  <2> QED
    BY <2>1, <2>2, <2>3, <1>1, <1>2 DEF Sound, TableTypeOK
<1>8. ASSUME NEW j \in 0 .. NewCapacity - 1, j # i, vPorts'[j].nType # FREE
      PROVE  j \in UsedSlots /\ vPorts'[j] = vPorts[j] /\ vPorts[j].sID # id
  <2>1. j \in Slots /\ vPorts'[j] = vPorts[j]
    BY <1>2, <1>5, <1>8 DEF Slots, NoPort, Sound, TableTypeOK
  <2> QED
    BY <2>1, <1>8 DEF UsedSlots, Used, Matches
<1>9. NamesUnique'
  <2> SUFFICES ASSUME NEW j \in UsedSlots', NEW k \in UsedSlots',
                      vPorts'[j].sID = vPorts'[k].sID
               PROVE  j = k
    BY DEF NamesUnique
  <2>1. /\ j \in 0 .. NewCapacity - 1 /\ vPorts'[j].nType # FREE
        /\ k \in 0 .. NewCapacity - 1 /\ vPorts'[k].nType # FREE
    BY <1>4 DEF UsedSlots, Used, Slots
  <2>2. CASE j = i /\ k # i
    BY <2>1, <2>2, <1>3, <1>5, <1>8
  <2>3. CASE j # i /\ k = i
    BY <2>1, <2>3, <1>3, <1>5, <1>8
  <2>4. CASE j # i /\ k # i
    BY <2>1, <2>4, <1>8 DEF Sound, NamesUnique
  <2> QED
    BY <2>2, <2>3, <2>4
<1>10. i \notin UsedSlots /\ i \in 0 .. MaxSlots - 1
  BY <1>1, <1>2, SlotsAssumption DEF UsedSlots, Used
<1>11. \A j \in UsedSlots : j \in 0 .. NewCapacity - 1 /\ vPorts'[j].nType # FREE
  BY <1>2, <1>5, <1>10 DEF UsedSlots, Used, Slots, Sound, TableTypeOK
<1>12. UsedSlots' = UsedSlots \cup {i}
  BY <1>1, <1>3, <1>4, <1>5, <1>8, <1>11 DEF UsedSlots, Used, Slots
<1> QED
  BY <1>6, <1>7, <1>9, <1>10, <1>12 DEF Sound

\* A failed alloc_port has found the table full.
LEMMA NoMemoryKeepsSound ==
    ASSUME Sound, AllocNoMemory \/ AllocNoSlot
    PROVE  /\ Sound' /\ RetryGrows'
           /\ UsedSlots = Slots
           /\ UsedSlots' = UsedSlots /\ Slots' = Slots
<1>1. vPorts' = vPorts /\ nPortCapacity' = nPortCapacity
  BY DEF AllocNoMemory, AllocNoSlot
<1>2. UsedSlots = Slots
  <2>1. CASE AllocNoMemory
    <3>1. nPortFirst = nPortCapacity
      BY <2>1 DEF AllocNoMemory, AtEnd, Sound, TableTypeOK
    <3> QED
      BY <3>1 DEF Sound, NothingFreeBelowHint, UsedSlots, Slots
  <2>2. CASE AllocNoSlot
    <3>1. ASSUME NEW j \in Slots, nPortFirst <= j
          PROVE  Used(j)
      <4>1. ~AtEnd /\ NewCapacity = nPortCapacity /\ FreeSlots = {}
        BY <2>2 DEF AllocNoSlot, NewCapacity
      <4>2. j \in nPortFirst .. NewCapacity - 1 /\ Enlarged[j] = vPorts[j]
        BY <3>1, <4>1, EnlargedTable DEF Slots, Sound, TableTypeOK
      <4> QED
        BY <4>1, <4>2 DEF FreeSlots, Used
    <3>2. ASSUME NEW j \in Slots, j < nPortFirst
          PROVE  Used(j)
      BY <3>2 DEF Slots, Sound, TableTypeOK, NothingFreeBelowHint
    <3> QED
      BY <3>1, <3>2 DEF UsedSlots, Slots, Sound, TableTypeOK
  <2> QED
    BY <2>1, <2>2
<1>3. nPortFirst' \in {nPortFirst, nPortCapacity}
  BY DEF AllocNoMemory, AllocNoSlot
<1>4. UsedSlots' = UsedSlots /\ Slots' = Slots
  BY <1>1 DEF UsedSlots, Slots, Used
<1>5. TableTypeOK'
  BY <1>1, <1>3 DEF Sound, TableTypeOK, Slots
<1>6. NothingFreeBelowHint'
  BY <1>1, <1>2, <1>3 DEF Sound, TableTypeOK, NothingFreeBelowHint, Used, UsedSlots, Slots
<1>7. NamesUnique'
  BY <1>1, <1>4 DEF Sound, NamesUnique
<1>8. RetryGrows'
  <2>1. CASE AllocNoMemory
    BY <2>1 DEF AllocNoMemory, RetryGrows, AtEnd
  <2>2. CASE AllocNoSlot
    BY <2>2 DEF AllocNoSlot, RetryGrows, AtEnd, Sound, TableTypeOK
  <2> QED
    BY <2>1, <2>2
<1> QED
  BY <1>2, <1>4, <1>5, <1>6, <1>7, <1>8 DEF Sound

\* free_port lowers the hint to the slot it frees.
LEMMA FreeKeepsSound ==
    ASSUME Sound, NEW i \in UsedSlots, FreePort(i)
    PROVE  Sound' /\ UsedSlots' = UsedSlots \ {i}
<1>1. /\ i \in Slots
      /\ vPorts' = [vPorts EXCEPT ![i] = NoPort]
      /\ nPortCapacity' = nPortCapacity
      /\ nPortFirst' = IF i < nPortFirst THEN i ELSE nPortFirst
  BY DEF FreePort, UsedSlots
<1>2. /\ vPorts'[i] = NoPort
      /\ \A j \in Slots : j # i => vPorts'[j] = vPorts[j]
  BY <1>1 DEF Sound, TableTypeOK
<1>3. TableTypeOK'
  BY <1>1 DEF Sound, TableTypeOK, Slots
<1>4. NothingFreeBelowHint'
  BY <1>1, <1>2 DEF Sound, TableTypeOK, NothingFreeBelowHint, Used, Slots
<1>5. \A j \in UsedSlots' : j \in UsedSlots /\ vPorts'[j] = vPorts[j]
  BY <1>1, <1>2 DEF UsedSlots, Used, Slots, NoPort
<1>6. NamesUnique'
  BY <1>5 DEF Sound, NamesUnique
<1>7. UsedSlots' = UsedSlots \ {i}
  BY <1>1, <1>2, <1>5 DEF UsedSlots, Used, Slots, NoPort
<1> QED
  BY <1>3, <1>4, <1>6, <1>7 DEF Sound

\* What is no step of the table.
LEMMA SameKeepsSound ==
    ASSUME Sound, UNCHANGED <<vPorts, nPortCapacity, nPortFirst>>
    PROVE  Sound' /\ UsedSlots' = UsedSlots /\ Slots' = Slots
<1>1. TableTypeOK' /\ NothingFreeBelowHint'
  BY DEF Sound, TableTypeOK, NothingFreeBelowHint, Used, Slots
<1>2. UsedSlots' = UsedSlots /\ Slots' = Slots
  BY DEF UsedSlots, Used, Slots
<1> QED
  BY <1>1, <1>2 DEF Sound, NamesUnique

\* The calls of PortTable keep the whole invariant.
LEMMA AllocPreserves ==
    ASSUME TableInv,
           NEW id \in Names, NEW flags \in GoodFlags, NEW i,
           Matches(id) = {},
           AllocPort(id, flags, i),
           ret'.st # "NO_MEM"
    PROVE  TableInv'
  BY AllocKeepsSound DEF TableInv, NoMemoryOnlyWhenFull, RetryGrows

LEMMA NoMemoryPreserves ==
    ASSUME TableInv, AllocNoMemory \/ AllocNoSlot
    PROVE  TableInv'
  BY NoMemoryKeepsSound DEF TableInv, NoMemoryOnlyWhenFull

LEMMA FreePreserves ==
    ASSUME TableInv, NEW i \in UsedSlots, FreePort(i), ret'.st # "NO_MEM"
    PROVE  TableInv'
  BY FreeKeepsSound DEF TableInv, NoMemoryOnlyWhenFull, RetryGrows

\* A call that leaves the table alone.
LEMMA SamePreserves ==
    ASSUME TableInv,
           UNCHANGED <<vPorts, nPortCapacity, nPortFirst>>,
           ret'.st # "NO_MEM" \/ ret' = ret
    PROVE  TableInv'
  BY SameKeepsSound DEF TableInv, NoMemoryOnlyWhenFull, RetryGrows, AtEnd

-----------------------------------------------------------------------------
LEMMA TableInitInv == TableInit => TableInv
  BY SlotsAssumption DEF TableInit, TableInv, Sound, TableTypeOK, NothingFreeBelowHint,
     NamesUnique, NoMemoryOnlyWhenFull, RetryGrows, Slots, UsedSlots, Failed

LEMMA TableStepInv == TableInv /\ [TableNext]_tableVars => TableInv'
<1> SUFFICES ASSUME TableInv, [TableNext]_tableVars
             PROVE  TableInv'
  OBVIOUS
<1>1. ASSUME NEW id \in Names \cup BadNames, NEW flags \in Flags,
             RegisterPort(id, flags)
      PROVE  TableInv'
  <2>1. id \in Names /\ flags \in GoodFlags /\ Matches(id) = {}
    BY <1>1 DEF RegisterPort, Rejection
  <2>2. PICK i \in FreeSlots : AllocPort(id, flags, i) /\ ret' = Returned(i)
    BY <1>1 DEF RegisterPort
  <2> QED
    BY <2>1, <2>2, AllocPreserves DEF Returned
<1>2. ASSUME NEW id \in Names \cup BadNames, NEW flags \in Flags,
             RegisterNoMemory(id, flags)
      PROVE  TableInv'
  BY <1>2, NoMemoryPreserves DEF RegisterNoMemory
<1>3. ASSUME NEW id \in Names \cup BadNames, NEW flags \in Flags,
             RegisterRejected(id, flags)
      PROVE  TableInv'
  <2>1. ret'.st \in {"INVALID_VALUE", "TOO_BIG", "ALREADY_EXISTS"}
    BY <1>3 DEF RegisterRejected, Rejection, Failed
  <2> QED
    BY <2>1, <1>3, SamePreserves DEF RegisterRejected
<1>4. ASSUME NEW i, UnregisterPort(i)
      PROVE  TableInv'
  BY <1>4, FreePreserves DEF UnregisterPort, Returned
<1>5. ASSUME NEW i, UnregisterRejected(i)
      PROVE  TableInv'
  BY <1>5, SamePreserves DEF UnregisterRejected, Failed
<1>6. CASE UNCHANGED tableVars
  BY <1>6, SamePreserves DEF tableVars
<1> QED
  BY <1>1, <1>2, <1>3, <1>4, <1>5, <1>6 DEF TableNext

\* Everything PortTable.cfg checks of the table's states, for every table.
THEOREM TableCorrect == TableSpec => []TableInv
<1>1. TableInit => TableInv
  BY TableInitInv
<1>2. TableInv /\ [TableNext]_tableVars => TableInv'
  BY TableStepInv
<1> QED
  BY <1>1, <1>2, PTL DEF TableSpec

\* The table is well formed in every reachable state (vPorts, nPortCapacity,
\* nPortFirst of backend_t).
THEOREM TableTypes == TableSpec => []TableTypeOK
<1>1. TableInv => TableTypeOK
  BY DEF TableInv, Sound
<1> QED
  BY <1>1, TableCorrect, PTL

\* No two live ports share a name (register_port after find_port).
THEOREM PortNamesUnique == TableSpec => []NamesUnique
<1>1. TableInv => NamesUnique
  BY DEF TableInv, Sound
<1> QED
  BY <1>1, TableCorrect, PTL

\* alloc_port gives up only when no slot is free.
THEOREM FreeSlotFound == TableSpec => []NoMemoryOnlyWhenFull
<1>1. TableInv => NoMemoryOnlyWhenFull
  BY DEF TableInv, Sound
<1> QED
  BY <1>1, TableCorrect, PTL

\* After a failed search the next registration asks realloc for a larger table.
THEOREM RetryAsksForMemory == TableSpec => []RetryGrows
<1>1. TableInv => RetryGrows
  BY DEF TableInv, Sound
<1> QED
  BY <1>1, TableCorrect, PTL

-----------------------------------------------------------------------------
(* The table implements the directory. *)

LEMMA DirectoryInit == TableInit => Directory!DirInit
  BY DEF TableInit, Directory!DirInit, UsedSlots, Used, Slots, Failed, Directory!Failed

LEMMA DirectoryRegister ==
    ASSUME TableInv,
           NEW id \in Names \cup BadNames, NEW flags \in Flags,
           RegisterPort(id, flags)
    PROVE  Directory!Register(id, flags)
<1>1. id \in Names /\ flags \in GoodFlags /\ Matches(id) = {}
  BY DEF RegisterPort, Rejection
<1>2. PICK i \in FreeSlots : AllocPort(id, flags, i) /\ ret' = Returned(i)
  BY DEF RegisterPort
<1>3. /\ NewCapacity \in 0 .. MaxSlots
      /\ nPortCapacity <= NewCapacity
      /\ Enlarged \in [0 .. NewCapacity - 1 -> Port \cup {NoPort}]
      /\ \A j \in Slots : Enlarged[j] = vPorts[j]
      /\ \A j \in nPortCapacity .. NewCapacity - 1 : Enlarged[j] = NoPort
  BY <1>2, EnlargedTable DEF TableInv, Sound, AllocPort
<1>4. /\ i \in 0 .. NewCapacity - 1 /\ Enlarged[i].nType = FREE
      /\ vPorts' = [Enlarged EXCEPT ![i] = [nType |-> flags, sID |-> id]]
      /\ nPortCapacity' = NewCapacity
  BY <1>2, <1>3 DEF AllocPort, FreeSlots, TableInv, Sound, TableTypeOK
<1>5. i \in 0 .. MaxSlots - 1 /\ i \notin UsedSlots
  BY <1>3, <1>4, SlotsAssumption DEF UsedSlots, Used
<1>6. UsedSlots' = UsedSlots \cup {i}
  <2>1. ASSUME NEW j \in UsedSlots' PROVE j \in UsedSlots \cup {i}
    BY <2>1, <1>3, <1>4 DEF UsedSlots, Used, Slots, NoPort, TableInv, Sound, TableTypeOK
  <2>2. ASSUME NEW j \in UsedSlots PROVE j \in UsedSlots'
    BY <2>2, <1>3, <1>4, <1>5 DEF UsedSlots, Used, Slots, TableInv, Sound, TableTypeOK
  <2>3. i \in UsedSlots'
    BY <1>1, <1>3, <1>4, FlagsAssumption DEF UsedSlots, Used, Slots
  <2> QED
    BY <2>1, <2>2, <2>3
<1>7. /\ vPorts'[i] = [nType |-> flags, sID |-> id]
      /\ \A j \in UsedSlots : vPorts'[j] = vPorts[j]
  BY <1>3, <1>4, <1>5 DEF UsedSlots, Slots, TableInv, Sound, TableTypeOK
<1> DEFINE dir == [j \in UsedSlots |-> [sID |-> vPorts[j].sID, nType |-> vPorts[j].nType]]
           dirNew == [j \in UsedSlots' |-> [sID |-> vPorts'[j].sID, nType |-> vPorts'[j].nType]]
<1>8. dirNew = [j \in DOMAIN dir \cup {i} |->
                  IF j = i THEN [sID |-> id, nType |-> flags] ELSE dir[j]]
  BY <1>5, <1>6, <1>7
<1>9. ~Directory!Taken(id)
  BY <1>1 DEF Directory!Taken, Matches, UsedSlots
<1>10. ret' = Directory!Returned(i)
  BY <1>2 DEF Returned, Directory!Returned
<1> QED
  BY <1>1, <1>5, <1>8, <1>9, <1>10 DEF Directory!Register

LEMMA DirectoryUnregister ==
    ASSUME TableInv, NEW i, UnregisterPort(i)
    PROVE  i \in 0 .. MaxSlots - 1 /\ Directory!Unregister(i)
<1>1. /\ i \in UsedSlots /\ i \in Slots
      /\ vPorts' = [vPorts EXCEPT ![i] = NoPort]
      /\ nPortCapacity' = nPortCapacity
      /\ ret' = Returned(0)
  BY DEF UnregisterPort, FreePort, UsedSlots
<1>2. UsedSlots' = UsedSlots \ {i}
  BY <1>1 DEF TableInv, Sound, TableTypeOK, UsedSlots, Used, Slots, NoPort
<1>3. \A j \in UsedSlots' : vPorts'[j] = vPorts[j]
  BY <1>1, <1>2 DEF TableInv, Sound, TableTypeOK, UsedSlots, Slots
<1> DEFINE dir == [j \in UsedSlots |-> [sID |-> vPorts[j].sID, nType |-> vPorts[j].nType]]
           dirNew == [j \in UsedSlots' |-> [sID |-> vPorts'[j].sID, nType |-> vPorts'[j].nType]]
<1>4. dirNew = [j \in DOMAIN dir \ {i} |-> dir[j]]
  BY <1>2, <1>3
<1>5. i \in 0 .. MaxSlots - 1
  BY <1>1, SlotsAssumption DEF Slots, TableInv, Sound, TableTypeOK
<1> QED
  BY <1>1, <1>4, <1>5 DEF Directory!Unregister, Returned, Directory!Returned

\* A refused call leaves the directory alone and names the same reason.
LEMMA DirectoryRefuse ==
    ASSUME TableInv,
           NEW id \in Names \cup BadNames, NEW flags \in Flags,
           RegisterNoMemory(id, flags) \/ RegisterRejected(id, flags)
    PROVE  Directory!Refuse(id, flags)
<1>1. vPorts' = vPorts /\ nPortCapacity' = nPortCapacity
  BY DEF RegisterNoMemory, RegisterRejected, AllocNoMemory, AllocNoSlot
<1>2. UsedSlots' = UsedSlots
  BY <1>1 DEF UsedSlots, Used, Slots
<1>3. Directory!Taken(id) <=> Matches(id) # {}
  BY DEF Directory!Taken, Matches, UsedSlots
<1>4. CASE RegisterNoMemory(id, flags)
  <2>1. id \in Names /\ flags \in GoodFlags /\ Matches(id) = {}
    BY <1>4 DEF RegisterNoMemory, Rejection
  <2> QED
    BY <2>1, <1>1, <1>2, <1>3, <1>4
    DEF RegisterNoMemory, Directory!Refuse, Failed, Directory!Failed
<1>5. CASE RegisterRejected(id, flags)
  BY <1>1, <1>2, <1>3, <1>5, NamesAssumption
  DEF RegisterRejected, Rejection, Directory!Refuse, Failed, Directory!Failed
<1> QED
  BY <1>4, <1>5

LEMMA DirectoryStep ==
    TableInv /\ [TableNext]_tableVars => [Directory!DirNext]_(Directory!dirVars)
<1> SUFFICES ASSUME TableInv, [TableNext]_tableVars
             PROVE  Directory!DirNext \/ UNCHANGED Directory!dirVars
  OBVIOUS
<1>1. ASSUME NEW id \in Names \cup BadNames, NEW flags \in Flags,
             \/ RegisterPort(id, flags)
             \/ RegisterNoMemory(id, flags)
             \/ RegisterRejected(id, flags)
      PROVE  Directory!DirNext
  BY <1>1, DirectoryRegister, DirectoryRefuse DEF Directory!DirNext
<1>2. ASSUME NEW i, UnregisterPort(i)
      PROVE  Directory!DirNext
  BY <1>2, DirectoryUnregister DEF Directory!DirNext
<1>3. ASSUME NEW i, UnregisterRejected(i)
      PROVE  Directory!DirNext
  BY <1>3 DEF UnregisterRejected, Directory!DirNext, Directory!UnregisterUnknown,
     Failed, Directory!Failed, UsedSlots, Used, Slots
<1>4. CASE UNCHANGED tableVars
  BY <1>4 DEF tableVars, Directory!dirVars, UsedSlots, Used, Slots
<1> QED
  BY <1>1, <1>2, <1>3, <1>4 DEF TableNext

\* The port API keeps the promise of PortDirectory, call by call.
THEOREM TableImplementsDirectory == TableSpec => ImplementsDirectory
<1>1. TableInit => Directory!DirInit
  BY DirectoryInit
<1>2. TableInv /\ [TableNext]_tableVars => [Directory!DirNext]_(Directory!dirVars)
  BY DirectoryStep
<1> QED
  BY <1>1, <1>2, TableCorrect, PTL DEF TableSpec, ImplementsDirectory, Directory!DirSpec
=============================================================================
