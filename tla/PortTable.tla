------------------------------ MODULE PortTable ------------------------------
(***************************************************************************)
(* The table of ports of the backend (backend.cpp): an array of slots that *)
(* doubles when it is full, and a hint, nPortFirst, below which no slot is *)
(* expected to be free.  A port identifier is a slot index, handed out by  *)
(* register_port and used by the host and by the real-time thread for as   *)
(* long as the port lives, across every growth of the table.               *)
(*                                                                         *)
(* Only the host thread changes the table.  This module takes each call    *)
(* as one step, as it is for a backend that is not connected;              *)
(* PortRegistration takes the same operations apart for a connected one.   *)
(***************************************************************************)
EXTENDS Integers

CONSTANTS Names,        \* legal port names: 1 .. MAX_PORT_ID_BYTES-1 bytes
          BadNames,     \* NULL, empty and over-long names
          Flags,        \* port flags a caller may pass
          GoodFlags,    \* those that name an audio, MIDI or MIDI2 port
          FREE,         \* PORT_TYPE_FREE, no flags a caller can pass
          NoName,       \* the empty name of a free slot
          MaxSlots      \* bound: realloc always fails beyond this many slots

ASSUME NamesAssumption == NoName \notin Names /\ Names \cap BadNames = {}
ASSUME FlagsAssumption == GoodFlags \subseteq Flags /\ FREE \notin GoodFlags
ASSUME SlotsAssumption == MaxSlots \in Nat

VARIABLES vPorts,          \* the slots, 0 .. nPortCapacity-1
          nPortCapacity,
          nPortFirst,      \* where the search for a free slot starts
          ret              \* what the last call returned

tableVars == <<vPorts, nPortCapacity, nPortFirst, ret>>

-----------------------------------------------------------------------------
Port   == [nType : GoodFlags, sID : Names]
NoPort == [nType |-> FREE, sID |-> NoName]

Failed(st)  == [st |-> st, port |-> -1]
Returned(i) == [st |-> "OK", port |-> i]

Slots     == 0 .. nPortCapacity - 1
Used(i)   == vPorts[i].nType # FREE
UsedSlots == {i \in Slots : Used(i)}

\* Mutant of Matches: the search stops at the hint.
MatchesBelowHint(id) == {i \in 0 .. nPortFirst - 1 : Used(i) /\ vPorts[i].sID = id}

\* The slots find_port matches: used ones with that name.
Matches(id) == {i \in Slots : Used(i) /\ vPorts[i].sID = id}

\* Mutant of Enlarged: the table is allocated anew, and its ports are not copied.
EnlargedForgets ==
    [i \in 0 .. (IF nPortFirst >= nPortCapacity THEN 2 * nPortCapacity + 4
                                                ELSE nPortCapacity) - 1 |->
        IF i < nPortCapacity /\ nPortFirst < nPortCapacity THEN vPorts[i] ELSE NoPort]

\* The table alloc_port searches, doubled first when the hint is at its end.
AtEnd       == nPortFirst >= nPortCapacity
Larger(a, b) == IF a > b THEN a ELSE b
NewCapacity == IF AtEnd THEN Larger(2 * nPortCapacity, 4) ELSE nPortCapacity
Enlarged    == [i \in 0 .. NewCapacity - 1 |->
                   IF i < nPortCapacity THEN vPorts[i] ELSE NoPort]
FreeSlots   == {i \in nPortFirst .. NewCapacity - 1 : Enlarged[i].nType = FREE}

-----------------------------------------------------------------------------
TableInit ==
    /\ nPortCapacity = 0
    /\ vPorts = [i \in 0 .. -1 |-> NoPort]
    /\ nPortFirst = 0
    /\ ret = Failed("NONE")

\* Mutant of AllocPort: the hint moves one slot too far.
AllocPortSkips(id, flags, i) ==
    /\ ~AtEnd \/ NewCapacity <= MaxSlots
    /\ i \in FreeSlots
    /\ \A j \in nPortFirst .. i - 1 : j \notin FreeSlots
    /\ vPorts' = [Enlarged EXCEPT ![i] = [nType |-> flags, sID |-> id]]
    /\ nPortCapacity' = NewCapacity
    /\ nPortFirst' = i + 2

\* alloc_port takes the first free slot from the hint on.
AllocPort(id, flags, i) ==
    /\ ~AtEnd \/ NewCapacity <= MaxSlots
    /\ i \in FreeSlots
    /\ \A j \in nPortFirst .. i - 1 : j \notin FreeSlots
    /\ vPorts' = [Enlarged EXCEPT ![i] = [nType |-> flags, sID |-> id]]
    /\ nPortCapacity' = NewCapacity
    /\ nPortFirst' = i + 1

\* realloc fails, as it may at any time: nothing has changed yet.
AllocNoMemory ==
    /\ AtEnd
    /\ UNCHANGED <<vPorts, nPortCapacity, nPortFirst>>

\* Mutant of AllocNoSlot: the hint stays where it was.
AllocNoSlotKeepsHint ==
    /\ ~AtEnd
    /\ FreeSlots = {}
    /\ UNCHANGED <<vPorts, nPortCapacity, nPortFirst>>

\* The search runs off the end of a table that was not grown, moves the hint
\* there and gives up.
AllocNoSlot ==
    /\ ~AtEnd
    /\ FreeSlots = {}
    /\ nPortFirst' = nPortCapacity
    /\ UNCHANGED <<vPorts, nPortCapacity>>

\* Mutant of FreePort: the hint is not lowered.
FreePortKeepsHint(i) ==
    /\ vPorts' = [vPorts EXCEPT ![i] = NoPort]
    /\ UNCHANGED <<nPortFirst, nPortCapacity>>

\* free_port empties the slot and lowers the hint to it.
FreePort(i) ==
    /\ vPorts' = [vPorts EXCEPT ![i] = NoPort]
    /\ nPortFirst' = IF i < nPortFirst THEN i ELSE nPortFirst
    /\ UNCHANGED nPortCapacity

\* The checks register_port makes before it touches the table, in their order.
Rejection(id, flags) ==
    IF id \in BadNames THEN {"INVALID_VALUE", "TOO_BIG"}
    ELSE IF Matches(id) # {} THEN {"ALREADY_EXISTS"}
    ELSE IF flags \notin GoodFlags THEN {"INVALID_VALUE"}
    ELSE {}

-----------------------------------------------------------------------------
RegisterPort(id, flags) ==
    /\ Rejection(id, flags) = {}
    /\ \E i \in FreeSlots : AllocPort(id, flags, i) /\ ret' = Returned(i)

RegisterNoMemory(id, flags) ==
    /\ Rejection(id, flags) = {}
    /\ AllocNoMemory \/ AllocNoSlot
    /\ ret' = Failed("NO_MEM")

RegisterRejected(id, flags) ==
    /\ \E st \in Rejection(id, flags) : ret' = Failed(st)
    /\ UNCHANGED <<vPorts, nPortCapacity, nPortFirst>>

UnregisterPort(i) ==
    /\ i \in UsedSlots
    /\ FreePort(i)
    /\ ret' = Returned(0)

UnregisterRejected(i) ==
    /\ i \notin UsedSlots
    /\ ret' = Failed("INVALID_VALUE")
    /\ UNCHANGED <<vPorts, nPortCapacity, nPortFirst>>

TableNext ==
    \/ \E id \in Names \cup BadNames, flags \in Flags :
          \/ RegisterPort(id, flags)
          \/ RegisterNoMemory(id, flags)
          \/ RegisterRejected(id, flags)
    \/ \E i \in -1 .. nPortCapacity : UnregisterPort(i) \/ UnregisterRejected(i)

TableSpec == TableInit /\ [][TableNext]_tableVars

-----------------------------------------------------------------------------
(* Properties *)

\* The table is an array of ports and free slots, as large as the capacity says,
\* which never exceeds what memory has room for.
TableTypeOK ==
    /\ nPortCapacity \in 0 .. MaxSlots
    /\ nPortFirst \in 0 .. nPortCapacity
    /\ vPorts \in [Slots -> Port \cup {NoPort}]

\* alloc_port searches from nPortFirst on and free_port lowers it: no free slot
\* is ever left below the hint, where no later search would find it.
NothingFreeBelowHint == \A i \in 0 .. nPortFirst - 1 : Used(i)

\* find_port, the duplicate check of register_port: no two live ports share a
\* name, whatever order ports were registered, unregistered and moved in.
NamesUnique ==
    \A i, j \in UsedSlots : vPorts[i].sID = vPorts[j].sID => i = j

\* A registration fails for lack of memory only when every slot is taken: a slot
\* that was freed is always found again.
NoMemoryOnlyWhenFull == ret.st = "NO_MEM" => UsedSlots = Slots

\* A registration that finds no slot leaves the hint at the end of the table, so that
\* the next one asks realloc for more: two in a row fail only if that fails.
RetryGrows == ret.st = "NO_MEM" => AtEnd

\* client.cpp asserts that a registration with a new name returns an identifier:
\* a port is refused for lack of memory only when realloc could not provide it.
NoMemoryOnlyWhenReallocFails ==
    [][ret.st # "NO_MEM" /\ ret'.st = "NO_MEM" => AtEnd]_tableVars

\* The table keeps the promise of the port API, call by call: identifiers are
\* fresh and stable, names unique, and a failed call changes no port.
Directory == INSTANCE PortDirectory WITH
                Ids <- 0 .. MaxSlots - 1,
                ports <- [i \in UsedSlots |-> [sID |-> vPorts[i].sID, nType |-> vPorts[i].nType]]
ImplementsDirectory == Directory!DirSpec
=============================================================================
