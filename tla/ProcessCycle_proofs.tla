------------------------- MODULE ProcessCycle_proofs -------------------------
(***************************************************************************)
(* Theorems about ProcessCycle, for tables, connections and events of any  *)
(* number and size, when the client registers its ports while the data     *)
(* loop is stopped (~Live).                                                *)
(*                                                                         *)
(* CycleInv says of each slot what the cycle has made of it by the time it *)
(* is where it is (BuffersInv), what the host thread has (PortsInv) and    *)
(* what room a MIDI output has left (RoomInv).  EventInv says of the       *)
(* buffers and of the wire that their events lie one behind the other, so  *)
(* that a reader goes from one to the next.                                *)
(***************************************************************************)
EXTENDS ProcessCycle, WellFoundedInduction, TLAPS

\* The table, the slots and the two program counters have their shape.
ShapeInv ==
    /\ nPortCapacity \in Nat
    /\ session \in Nat
    /\ vPorts = [i \in Slots |-> vPorts[i]]
    /\ \A i \in Slots :
          vPorts[i] = [nType |-> vPorts[i].nType, pHandle |-> vPorts[i].pHandle,
                       pBuffer |-> vPorts[i].pBuffer]
    /\ cycle.at \in {"idle", "dequeue", "store", "process", "queue"}
    /\ cycle.i \in Nat
    /\ cycle.at = "store" => cycle.i \in Slots
    /\ call = [op |-> call.op, slot |-> call.slot]
    /\ call.op \in {"none", "register", "registering", "unregister"}
    /\ call.op # "none" => call.slot \in Slots /\ Used(call.slot)

\* The data loop runs only while the host thread makes no call.
QuietInv ==
    /\ cycle.at # "idle" => running
    /\ running => connected /\ call.op = "none"
    /\ moved = FALSE

\* The port of a slot is made, or a call is about to make it, or to remove it.
PortsInv ==
    connected =>
        /\ \A i \in Slots : Used(i) =>
              \/ vPorts[i].pHandle = session
              \/ i \in orphans
              \/ call.op # "none" /\ call.slot = i
        /\ call.op = "registering" => vPorts[call.slot].pHandle = session

\* A slot has its buffer from the step that stores it to the one that queues it.
BuffersInv ==
    /\ dequeued \subseteq Slots
    /\ \A i \in Slots :
          /\ i \in dequeued => Used(i)
          /\ cycle.at = "store" /\ i = cycle.i
                => i \in dequeued /\ vPorts[i].pBuffer = NULL
          /\ ~(cycle.at = "store" /\ i = cycle.i)
                => (i \in dequeued <=> vPorts[i].pBuffer # NULL)
          /\ cycle.at = "idle" => i \notin dequeued
          /\ cycle.at = "dequeue" /\ i >= cycle.i => i \notin dequeued
          /\ cycle.at = "store" /\ i > cycle.i => i \notin dequeued
          /\ cycle.at = "queue" /\ i < cycle.i => i \notin dequeued

\* The events of a buffer lie in it, and there is room for the header to come.
HasRoom(b) ==
    /\ b.chunk \in Nat
    /\ b.chunk + SequenceHeader <= MaxSize
    /\ \A o \in DOMAIN b.at : b.at[o].size <= Word - MaxSize - 8 => DataEnd(b, o) <= MaxSize

RoomInv ==
    /\ \A i \in Slots : IsMidiOut(vPorts[i].nType) => \A b \in vPorts[i].pBuffer : HasRoom(b)
    /\ cycle.at = "store" =>
          /\ cycle.buf # NULL
          /\ IsMidiOut(vPorts[cycle.i].nType) => cycle.buf = {Blank}

CycleInv == ShapeInv /\ QuietInv /\ PortsInv /\ BuffersInv /\ RoomInv

-----------------------------------------------------------------------------
(* The room for an event *)

LEMMA AlignUpBounds ==
    ASSUME NEW n \in Nat
    PROVE  AlignUp(n) \in Nat /\ n <= AlignUp(n) /\ AlignUp(n) <= n + 7
  BY DEF AlignUp

LEMMA ModSmall == ASSUME NEW w \in Nat \ {0}, NEW x \in 0 .. w - 1 PROVE x % w = x
  OBVIOUS

LEMMA ModRange == ASSUME NEW w \in Nat \ {0}, NEW x \in Nat PROVE x % w \in Nat
  OBVIOUS

\* The new size of a small event does not wrap.
LEMMA NewSizeExact ==
    ASSUME NEW b, NEW size \in Nat, b.chunk \in Nat, b.chunk + SequenceHeader <= MaxSize,
           size <= Word - MaxSize - 8
    PROVE  NewSize(b, size) = b.chunk + ItemHeader + AlignUp(size)
<1>1. Word \in Nat \ {0} /\ MaxSize \in Nat
  BY WordAssumption, MaxSizeAssumption
<1>2. AlignUp(size) \in Nat /\ AlignUp(size) <= size + 7
  BY AlignUpBounds
<1>3. AlignUp(size) % Word = AlignUp(size)
  BY <1>1, <1>2, ModSmall DEF SequenceHeader
<1>4. (ItemHeader + AlignUp(size)) % Word = ItemHeader + AlignUp(size)
  BY <1>1, <1>2, ModSmall DEF SequenceHeader, ItemHeader
<1>5. (b.chunk + (ItemHeader + AlignUp(size))) % Word = b.chunk + (ItemHeader + AlignUp(size))
  BY <1>1, <1>2, ModSmall DEF SequenceHeader, ItemHeader
<1> QED
  BY <1>1, <1>2, <1>3, <1>4, <1>5 DEF NewSize, ItemHeader

\* write_midi_event leaves room for the header, and its event within the buffer.
LEMMA WrittenHasRoom ==
    ASSUME NEW b, NEW kind, NEW size \in Nat, HasRoom(b), ~Overflows(b, size)
    PROVE  HasRoom(Written(b, kind, size))
<1> DEFINE c == Written(b, kind, size)
<1>1. Word \in Nat \ {0} /\ MaxSize \in Nat /\ b.chunk \in Nat
  BY WordAssumption, MaxSizeAssumption DEF HasRoom
<1>2. NewSize(b, size) \in Nat
  <2>1. AlignUp(size) % Word \in Nat
    BY <1>1, AlignUpBounds, ModRange
  <2>2. (ItemHeader + (AlignUp(size) % Word)) % Word \in Nat
    BY <1>1, <2>1, ModRange DEF ItemHeader
  <2>3. (b.chunk + ((ItemHeader + (AlignUp(size) % Word)) % Word)) % Word \in Nat
    BY <1>1, <2>2, ModRange
  <2> QED
    BY <2>3 DEF NewSize
<1>3. /\ c.chunk = NewSize(b, size)
      /\ DOMAIN c.at = DOMAIN b.at \cup {b.chunk}
      /\ c.at[b.chunk] = [kind |-> kind, size |-> size]
      /\ \A o \in DOMAIN b.at : o # b.chunk => c.at[o] = b.at[o]
  BY DEF Written
<1>4. c.chunk \in Nat /\ c.chunk + SequenceHeader <= MaxSize
  BY <1>1, <1>2, <1>3 DEF Overflows, SequenceHeader
<1>5. ASSUME NEW o \in DOMAIN c.at, c.at[o].size <= Word - MaxSize - 8
      PROVE  DataEnd(c, o) <= MaxSize
  <2>1. CASE o = b.chunk
    <3>1. size <= Word - MaxSize - 8
      BY <1>3, <1>5, <2>1
    <3>2. NewSize(b, size) = b.chunk + ItemHeader + AlignUp(size)
      BY <3>1, NewSizeExact DEF HasRoom
    <3> QED
      BY <1>1, <1>3, <2>1, <3>2, AlignUpBounds DEF DataEnd, Overflows, ItemHeader, SequenceHeader
  <2>2. CASE o # b.chunk
    <3>1. o \in DOMAIN b.at /\ c.at[o] = b.at[o]
      BY <1>3, <2>2
    <3> QED
      BY <1>5, <3>1 DEF HasRoom, DataEnd
  <2> QED
    BY <2>1, <2>2
<1> QED
  BY <1>4, <1>5 DEF HasRoom

LEMMA BlankHasRoom == HasRoom(Blank)
  BY MaxSizeAssumption DEF HasRoom, Blank, SequenceHeader

-----------------------------------------------------------------------------
(* The steps *)

\* One slot of the table is written, and the others are kept.
Updated(i, t, h, b) ==
    /\ Slots' = Slots
    /\ nPortCapacity' = nPortCapacity
    /\ vPorts' = [j \in Slots |-> vPorts'[j]]
    /\ vPorts'[i] = [nType |-> t, pHandle |-> h, pBuffer |-> b]
    /\ \A j \in Slots : j # i => vPorts'[j] = vPorts[j]

LEMMA SetSlot ==
    ASSUME ShapeInv, NEW i \in Slots, NEW t, NEW h, NEW b, nPortCapacity' = nPortCapacity,
           vPorts' = [vPorts EXCEPT ![i] = [nType |-> t, pHandle |-> h, pBuffer |-> b]]
    PROVE  Updated(i, t, h, b)
  BY DEF ShapeInv, Updated, Slots

\* The table keeps its shape.
LEMMA UpdatedShape ==
    ASSUME ShapeInv, NEW i \in Slots, NEW t, NEW h, NEW b, Updated(i, t, h, b)
    PROVE  /\ vPorts' = [j \in Slots' |-> vPorts'[j]]
           /\ \A j \in Slots' :
                 vPorts'[j] = [nType |-> vPorts'[j].nType, pHandle |-> vPorts'[j].pHandle,
                               pBuffer |-> vPorts'[j].pBuffer]
           /\ \A j \in Slots : j # i => Used(j)' = Used(j)
  BY DEF ShapeInv, Updated, Used


\* The ports in use are made, all of them.
LEMMA ConnectInv == ASSUME CycleInv, ~Live, Connect PROVE CycleInv'
<1>1. ShapeInv'
  BY DEF CycleInv, QuietInv, ShapeInv, Slots, Used, Connect, Attached, WithHandle, HostIsFree,
     NoCall, cycleVars
<1>2. QuietInv'
  BY DEF CycleInv, ShapeInv, QuietInv, Connect, Attached, WithHandle, HostIsFree, NoCall,
     cycleVars
<1>3. PortsInv'
  BY DEF CycleInv, ShapeInv, QuietInv, PortsInv, Slots, Used, Connect, Attached, WithHandle,
     HostIsFree, NoCall, cycleVars
<1>4. BuffersInv'
  BY DEF CycleInv, ShapeInv, QuietInv, BuffersInv, Slots, Used, Connect, Attached, WithHandle,
     HostIsFree, NoCall, NULL, cycleVars
<1>5. RoomInv'
  BY DEF CycleInv, ShapeInv, QuietInv, RoomInv, Slots, Connect, Attached, WithHandle, HostIsFree,
     NoCall, NULL, cycleVars
<1> QED
  BY <1>1, <1>2, <1>3, <1>4, <1>5 DEF CycleInv

LEMMA DisconnectInv == ASSUME CycleInv, ~Live, Disconnect PROVE CycleInv'
<1>1. /\ Slots' = Slots /\ nPortCapacity' = nPortCapacity
      /\ vPorts' = [i \in Slots |-> vPorts'[i]]
      /\ \A i \in Slots :
            vPorts'[i] = [nType |-> vPorts[i].nType, pHandle |-> 0, pBuffer |-> NULL]
  BY DEF CycleInv, ShapeInv, Disconnect, Detached, WithHandle, WithBuffer, Slots
<1>2. /\ dequeued' = {} /\ connected' = FALSE
      /\ UNCHANGED <<session, call, running, cycle, moved>>
      /\ ~running /\ cycle.at = "idle" /\ call.op = "none"
  BY DEF CycleInv, QuietInv, Disconnect, HostIsFree, NoCall
<1>3. ShapeInv'
  BY <1>1, <1>2 DEF CycleInv, ShapeInv
<1>4. QuietInv' /\ PortsInv'
  BY <1>2 DEF CycleInv, QuietInv, PortsInv
<1>5. BuffersInv' /\ RoomInv'
  BY <1>1, <1>2 DEF BuffersInv, RoomInv, NULL
<1> QED
  BY <1>3, <1>4, <1>5 DEF CycleInv

LEMMA ConnectFailsInv == ASSUME CycleInv, ~Live, ConnectFails PROVE CycleInv'
<1>1. ShapeInv'
  BY DEF CycleInv, QuietInv, ShapeInv, Slots, Used, ConnectFails, HostIsFree, NoCall, tableVars
<1>2. QuietInv'
  BY DEF CycleInv, ShapeInv, QuietInv, ConnectFails, HostIsFree, NoCall, tableVars
<1>3. PortsInv'
  BY DEF CycleInv, ShapeInv, QuietInv, PortsInv, Slots, Used, ConnectFails, HostIsFree, NoCall,
     tableVars
<1>4. BuffersInv'
  BY DEF CycleInv, ShapeInv, QuietInv, BuffersInv, Slots, Used, ConnectFails, HostIsFree, NoCall,
     NULL, tableVars
<1>5. RoomInv'
  BY DEF CycleInv, ShapeInv, QuietInv, RoomInv, Slots, ConnectFails, HostIsFree, NoCall, NULL,
     tableVars
<1> QED
  BY <1>1, <1>2, <1>3, <1>4, <1>5 DEF CycleInv

LEMMA LoopInv == ASSUME CycleInv, ~Live, StartLoop \/ StopLoop PROVE CycleInv'
<1>1. ShapeInv'
  BY DEF CycleInv, QuietInv, ShapeInv, Slots, Used, StartLoop, StopLoop, HostIsFree, NoCall,
     tableVars, cycleVars
<1>2. QuietInv'
  BY DEF CycleInv, ShapeInv, QuietInv, StartLoop, StopLoop, HostIsFree, NoCall, tableVars,
     cycleVars
<1>3. PortsInv'
  BY DEF CycleInv, ShapeInv, QuietInv, PortsInv, Slots, Used, StartLoop, StopLoop, HostIsFree,
     NoCall, tableVars, cycleVars
<1>4. BuffersInv'
  BY DEF CycleInv, ShapeInv, QuietInv, BuffersInv, Slots, Used, StartLoop, StopLoop, HostIsFree,
     NoCall, NULL, tableVars, cycleVars
<1>5. RoomInv'
  BY DEF CycleInv, ShapeInv, QuietInv, RoomInv, Slots, StartLoop, StopLoop, HostIsFree, NoCall,
     NULL, tableVars, cycleVars
<1> QED
  BY <1>1, <1>2, <1>3, <1>4, <1>5 DEF CycleInv

\* A slot that was free has no buffer.
LEMMA AllocPortInv == ASSUME CycleInv, ~Live, NEW t \in Types, AllocPort(t) PROVE CycleInv'
<1>1. PICK i \in FreeSlots : /\ vPorts' = [vPorts EXCEPT ![i] = Port(t)]
                            /\ call' = [op |-> "register", slot |-> i]
  BY DEF AllocPort
<1>2. i \in Slots /\ ~Used(i)
  BY <1>1 DEF FreeSlots
<1>3. Updated(i, t, 0, NULL)
  BY <1>1, <1>2, SetSlot DEF CycleInv, AllocPort, Port
<1>4. /\ UNCHANGED <<connected, session, orphans, running, cycle, dequeued, moved>>
      /\ cycle.at = "idle" /\ ~running
      /\ t # FREE
  BY FreeAssumption DEF CycleInv, QuietInv, AllocPort, MayChangePorts, cycleVars
<1>5. ShapeInv'
  BY <1>1, <1>2, <1>3, <1>4, UpdatedShape DEF CycleInv, ShapeInv, Updated, Used
<1>6. QuietInv'
  BY <1>4 DEF CycleInv, QuietInv
<1>7. PortsInv'
  BY <1>1, <1>2, <1>3, <1>4 DEF CycleInv, ShapeInv, PortsInv, Updated, Used, AllocPort, MayChangePorts,
     HostIsFree, NoCall
<1>8. BuffersInv'
  BY <1>2, <1>3, <1>4 DEF CycleInv, BuffersInv, Updated, Used, NULL
<1>9. RoomInv'
  BY <1>2, <1>3, <1>4 DEF CycleInv, RoomInv, Updated, NULL
<1> QED
  BY <1>5, <1>6, <1>7, <1>8, <1>9 DEF CycleInv

\* The slots of the larger table are the old ones, the new port, and free ones.
LEMMA GrowTableInv == ASSUME CycleInv, ~Live, NEW t \in Types, GrowTable(t) PROVE CycleInv'
<1> DEFINE n == nPortCapacity
<1>1. /\ nPortCapacity' \in Nat /\ n \in Nat /\ n < nPortCapacity'
      /\ Slots = 0 .. n - 1 /\ Slots' = 0 .. nPortCapacity' - 1
      /\ Slots \subseteq Slots' /\ n \in Slots' /\ n \notin Slots
  BY TableAssumption DEF CycleInv, ShapeInv, GrowTable, Slots
<1>2. /\ vPorts' = [j \in Slots' |-> vPorts'[j]]
      /\ \A j \in Slots : vPorts'[j] = vPorts[j]
      /\ vPorts'[n] = Port(t)
      /\ \A j \in Slots' : j \notin Slots /\ j # n => vPorts'[j] = NoPort
  BY <1>1 DEF GrowTable
<1>3. /\ call' = [op |-> "register", slot |-> n]
      /\ UNCHANGED <<connected, session, orphans, running, cycle, dequeued>>
      /\ cycle.at = "idle" /\ ~running /\ call.op = "none"
      /\ moved' = FALSE
      /\ t # FREE
  BY FreeAssumption DEF CycleInv, QuietInv, GrowTable, MayChangePorts, HostIsFree, NoCall, cycleVars
<1>4. ShapeInv'
  <2>1. \A j \in Slots' :
           vPorts'[j] = [nType |-> vPorts'[j].nType, pHandle |-> vPorts'[j].pHandle,
                         pBuffer |-> vPorts'[j].pBuffer]
    BY <1>1, <1>2 DEF CycleInv, ShapeInv, Port, NoPort
  <2> QED
    BY <1>1, <1>2, <1>3, <2>1 DEF CycleInv, ShapeInv, Used, Port
<1>5. QuietInv'
  BY <1>3 DEF CycleInv, QuietInv
<1>6. PortsInv'
  BY <1>1, <1>2, <1>3 DEF CycleInv, PortsInv, Used, Port, NoPort
<1>7. BuffersInv'
  BY <1>1, <1>2, <1>3 DEF CycleInv, BuffersInv, Used, Port, NoPort, NULL
<1>8. RoomInv'
  BY <1>1, <1>2, <1>3 DEF CycleInv, RoomInv, Port, NoPort, NULL
<1> QED
  BY <1>4, <1>5, <1>6, <1>7, <1>8 DEF CycleInv

LEMMA KeepPortInv == ASSUME CycleInv, ~Live, KeepPort \/ PortAdded PROVE CycleInv'
<1>1. /\ UNCHANGED <<tableVars, connected, session, orphans, running, cycle, dequeued,
                     moved>>
      /\ call' = NoCall /\ cycle.at = "idle" /\ ~running
  BY DEF CycleInv, QuietInv, KeepPort, PortAdded, tableVars, cycleVars
<1>2. connected => call.op = "registering"
  BY DEF KeepPort, PortAdded
<1>3. ShapeInv' /\ QuietInv'
  BY <1>1 DEF CycleInv, ShapeInv, QuietInv, tableVars, NoCall, Slots, Used
<1>4. PortsInv'
  BY <1>1, <1>2 DEF CycleInv, PortsInv, tableVars, NoCall, Slots, Used
<1>5. BuffersInv' /\ RoomInv'
  BY <1>1 DEF CycleInv, BuffersInv, RoomInv, tableVars, Slots, Used
<1> QED
  BY <1>3, <1>4, <1>5 DEF CycleInv

LEMMA AddPortInv == ASSUME CycleInv, ~Live, AddPort PROVE CycleInv'
<1> DEFINE i == call.slot
<1>1. i \in Slots /\ Used(i) /\ call.op = "register"
  BY DEF CycleInv, ShapeInv, AddPort
<1>2. Updated(i, vPorts[i].nType, session, vPorts[i].pBuffer)
  BY <1>1, SetSlot DEF CycleInv, AddPort, WithHandle
<1>3. /\ call' = [op |-> "registering", slot |-> i]
      /\ UNCHANGED <<connected, session, orphans, running, cycle, moved>>
      /\ cycle.at = "idle" /\ ~running
      /\ dequeued' = dequeued /\ i \notin dequeued
  BY <1>1 DEF CycleInv, ShapeInv, QuietInv, BuffersInv, AddPort
<1>4. ShapeInv'
  BY <1>1, <1>2, <1>3, UpdatedShape DEF CycleInv, ShapeInv, Updated, Used
<1>5. QuietInv'
  BY <1>3 DEF CycleInv, QuietInv
<1>6. PortsInv'
  BY <1>1, <1>2, <1>3 DEF CycleInv, PortsInv, Updated, Used
<1>7. BuffersInv'
  BY <1>1, <1>2, <1>3 DEF CycleInv, BuffersInv, Updated, Used
<1>8. RoomInv'
  BY <1>1, <1>2, <1>3 DEF CycleInv, RoomInv, Updated
<1> QED
  BY <1>4, <1>5, <1>6, <1>7, <1>8 DEF CycleInv

LEMMA RegisterFailsInv == ASSUME CycleInv, ~Live, RegisterFails PROVE CycleInv'
<1>1. ShapeInv'
  BY DEF CycleInv, QuietInv, ShapeInv, Slots, Used, RegisterFails, FreePort, NoCall, Port, NoPort,
     NULL, cycleVars
<1>2. QuietInv'
  BY DEF CycleInv, ShapeInv, QuietInv, RegisterFails, FreePort, NoCall, Port, NoPort, NULL,
     cycleVars
<1>3. PortsInv'
  BY DEF CycleInv, ShapeInv, QuietInv, PortsInv, Slots, Used, RegisterFails, FreePort, NoCall,
     Port, NoPort, NULL, cycleVars
<1>4. BuffersInv'
  BY DEF CycleInv, ShapeInv, QuietInv, BuffersInv, Slots, Used, RegisterFails, FreePort, NoCall,
     Port, NoPort, NULL, cycleVars
<1>5. RoomInv'
  BY DEF CycleInv, ShapeInv, QuietInv, RoomInv, Slots, RegisterFails, FreePort, NoCall, Port,
     NoPort, NULL, cycleVars
<1> QED
  BY <1>1, <1>2, <1>3, <1>4, <1>5 DEF CycleInv

LEMMA DropPortInv == ASSUME CycleInv, ~Live, NEW i \in Slots, DropPort(i) PROVE CycleInv'
<1>1. ShapeInv'
  BY DEF CycleInv, QuietInv, ShapeInv, Slots, Used, DropPort, FreePort, HostIsFree,
     MayChangePorts, NoCall, Port, NoPort, NULL, hostVars, cycleVars
<1>2. QuietInv'
  BY DEF CycleInv, ShapeInv, QuietInv, DropPort, FreePort, HostIsFree, MayChangePorts, NoCall,
     Port, NoPort, NULL, hostVars, cycleVars
<1>3. PortsInv'
  BY DEF CycleInv, ShapeInv, QuietInv, PortsInv, Slots, Used, DropPort, FreePort, HostIsFree,
     MayChangePorts, NoCall, Port, NoPort, NULL, hostVars, cycleVars
<1>4. BuffersInv'
  BY DEF CycleInv, ShapeInv, QuietInv, BuffersInv, Slots, Used, DropPort, FreePort, HostIsFree,
     MayChangePorts, NoCall, Port, NoPort, NULL, hostVars, cycleVars
<1>5. RoomInv'
  BY DEF CycleInv, ShapeInv, QuietInv, RoomInv, Slots, DropPort, FreePort, HostIsFree,
     MayChangePorts, NoCall, Port, NoPort, NULL, hostVars, cycleVars
<1> QED
  BY <1>1, <1>2, <1>3, <1>4, <1>5 DEF CycleInv

LEMMA RemovePortInv == ASSUME CycleInv, ~Live, NEW i \in Slots, RemovePort(i) PROVE CycleInv'
<1>1. Updated(i, vPorts[i].nType, 0, NULL)
  <2>1. Detached(i) = [nType |-> vPorts[i].nType, pHandle |-> 0, pBuffer |-> NULL]
    BY DEF Detached, WithHandle, WithBuffer
  <2> QED
    BY <2>1, SetSlot DEF CycleInv, RemovePort
<1>2. /\ call' = [op |-> "unregister", slot |-> i]
      /\ UNCHANGED <<connected, session, orphans, running, cycle, dequeued, moved>>
      /\ cycle.at = "idle" /\ ~running /\ call.op = "none" /\ Used(i)
  BY DEF CycleInv, QuietInv, RemovePort, MayChangePorts, HostIsFree, NoCall, cycleVars
<1>3. ShapeInv'
  BY <1>1, <1>2, UpdatedShape DEF CycleInv, ShapeInv, Updated, Used
<1>4. QuietInv'
  BY <1>2 DEF CycleInv, QuietInv
<1>5. PortsInv'
  BY <1>1, <1>2 DEF CycleInv, PortsInv, Updated, Used
<1>6. BuffersInv'
  BY <1>1, <1>2 DEF CycleInv, BuffersInv, Updated, Used, NULL
<1>7. RoomInv'
  BY <1>1, <1>2 DEF CycleInv, RoomInv, Updated, NULL
<1> QED
  BY <1>3, <1>4, <1>5, <1>6, <1>7 DEF CycleInv

LEMMA PortRemovedInv == ASSUME CycleInv, ~Live, PortRemoved PROVE CycleInv'
<1>1. ShapeInv'
  BY DEF CycleInv, QuietInv, ShapeInv, Slots, Used, PortRemoved, FreePort, NoCall, Port, NoPort,
     NULL, cycleVars
<1>2. QuietInv'
  BY DEF CycleInv, ShapeInv, QuietInv, PortRemoved, FreePort, NoCall, Port, NoPort, NULL,
     cycleVars
<1>3. PortsInv'
  BY DEF CycleInv, ShapeInv, QuietInv, PortsInv, Slots, Used, PortRemoved, FreePort, NoCall, Port,
     NoPort, NULL, cycleVars
<1>4. BuffersInv'
  BY DEF CycleInv, ShapeInv, QuietInv, BuffersInv, Slots, Used, PortRemoved, FreePort, NoCall,
     Port, NoPort, NULL, cycleVars
<1>5. RoomInv'
  BY DEF CycleInv, ShapeInv, QuietInv, RoomInv, Slots, PortRemoved, FreePort, NoCall, Port,
     NoPort, NULL, cycleVars
<1> QED
  BY <1>1, <1>2, <1>3, <1>4, <1>5 DEF CycleInv

LEMMA UnregisterFailsInv == ASSUME CycleInv, ~Live, UnregisterFails PROVE CycleInv'
<1>1. ShapeInv'
  BY DEF CycleInv, QuietInv, ShapeInv, Slots, Used, UnregisterFails, NoCall, tableVars, cycleVars
<1>2. QuietInv'
  BY DEF CycleInv, ShapeInv, QuietInv, UnregisterFails, NoCall, tableVars, cycleVars
<1>3. PortsInv'
  BY DEF CycleInv, ShapeInv, QuietInv, PortsInv, Slots, Used, UnregisterFails, NoCall, tableVars,
     cycleVars
<1>4. BuffersInv'
  BY DEF CycleInv, ShapeInv, QuietInv, BuffersInv, Slots, Used, UnregisterFails, NoCall, NULL,
     tableVars, cycleVars
<1>5. RoomInv'
  BY DEF CycleInv, ShapeInv, QuietInv, RoomInv, Slots, UnregisterFails, NoCall, NULL, tableVars,
     cycleVars
<1> QED
  BY <1>1, <1>2, <1>3, <1>4, <1>5 DEF CycleInv

LEMMA BeginCycleInv == ASSUME CycleInv, ~Live, BeginCycle PROVE CycleInv'
<1>1. ShapeInv'
  BY DEF CycleInv, QuietInv, ShapeInv, Slots, Used, BeginCycle, In, Goto, slot, NULL, tableVars,
     hostVars
<1>2. QuietInv'
  BY DEF CycleInv, ShapeInv, QuietInv, BeginCycle, In, Goto, slot, NULL, tableVars, hostVars
<1>3. PortsInv'
  BY DEF CycleInv, ShapeInv, QuietInv, PortsInv, Slots, Used, BeginCycle, In, Goto, slot, NULL,
     tableVars, hostVars
<1>4. BuffersInv'
  BY DEF CycleInv, ShapeInv, QuietInv, BuffersInv, Slots, Used, BeginCycle, In, Goto, slot, NULL,
     tableVars, hostVars
<1>5. RoomInv'
  BY DEF CycleInv, ShapeInv, QuietInv, RoomInv, Slots, BeginCycle, In, Goto, slot, NULL,
     tableVars, hostVars
<1> QED
  BY <1>1, <1>2, <1>3, <1>4, <1>5 DEF CycleInv

LEMMA DequeueNothingInv == ASSUME CycleInv, ~Live, DequeueNothing PROVE CycleInv'
<1>1. ShapeInv'
  BY DEF CycleInv, QuietInv, ShapeInv, Slots, Used, DequeueNothing, In, Goto, slot, NULL,
     tableVars, hostVars
<1>2. QuietInv'
  BY DEF CycleInv, ShapeInv, QuietInv, DequeueNothing, In, Goto, slot, NULL, tableVars, hostVars
<1>3. PortsInv'
  BY DEF CycleInv, ShapeInv, QuietInv, PortsInv, Slots, Used, DequeueNothing, In, Goto, slot,
     NULL, tableVars, hostVars
<1>4. BuffersInv'
  BY DEF CycleInv, ShapeInv, QuietInv, BuffersInv, Slots, Used, DequeueNothing, In, Goto, slot,
     NULL, tableVars, hostVars
<1>5. RoomInv'
  BY DEF CycleInv, ShapeInv, QuietInv, RoomInv, Slots, DequeueNothing, In, Goto, slot, NULL,
     tableVars, hostVars
<1> QED
  BY <1>1, <1>2, <1>3, <1>4, <1>5 DEF CycleInv

\* The slot waits for the buffer that was dequeued.
LEMMA DequeueInv == ASSUME CycleInv, ~Live, Dequeue PROVE CycleInv'
<1>1. ShapeInv'
  BY DEF CycleInv, QuietInv, ShapeInv, Slots, Used, Dequeue, In, slot, tableVars, hostVars
<1>2. QuietInv'
  BY DEF CycleInv, ShapeInv, QuietInv, Dequeue, In, slot, tableVars, hostVars
<1>3. PortsInv'
  BY DEF CycleInv, ShapeInv, QuietInv, PortsInv, Slots, Used, Dequeue, In, slot, tableVars,
     hostVars
<1>4. BuffersInv'
  BY DEF CycleInv, ShapeInv, QuietInv, BuffersInv, Slots, Used, Dequeue, In, slot, NULL,
     tableVars, hostVars
<1>5. RoomInv'
  BY DEF CycleInv, ShapeInv, QuietInv, RoomInv, Slots, Dequeue, In, slot, NULL, tableVars,
     hostVars, IsMidiIn, IsMidiOut, Used
<1> QED
  BY <1>1, <1>2, <1>3, <1>4, <1>5 DEF CycleInv

LEMMA DequeueNullInv == ASSUME CycleInv, ~Live, DequeueNull PROVE CycleInv'
<1>1. ShapeInv'
  BY DEF CycleInv, QuietInv, ShapeInv, Slots, Used, DequeueNull, In, Crash, slot, tableVars,
     hostVars
<1>2. QuietInv'
  BY DEF CycleInv, ShapeInv, QuietInv, DequeueNull, In, Crash, slot, tableVars, hostVars
<1>3. PortsInv'
  BY DEF CycleInv, ShapeInv, QuietInv, PortsInv, Slots, Used, DequeueNull, In, Crash, slot,
     tableVars, hostVars
<1>4. BuffersInv'
  BY DEF CycleInv, ShapeInv, QuietInv, BuffersInv, Slots, Used, DequeueNull, In, Crash, slot,
     NULL, tableVars, hostVars
<1>5. RoomInv'
  BY DEF CycleInv, ShapeInv, QuietInv, RoomInv, Slots, DequeueNull, In, Crash, slot, NULL,
     tableVars, hostVars
<1> QED
  BY <1>1, <1>2, <1>3, <1>4, <1>5 DEF CycleInv

\* The pointer to the slot is good, since nobody has moved the table.
LEMMA StoreInv == ASSUME CycleInv, ~Live, Store PROVE CycleInv'
<1> DEFINE i == cycle.i
<1>1. i \in Slots /\ cycle.at = "store" /\ i \in Nat /\ i + 1 \in Nat
  BY DEF CycleInv, ShapeInv, Store, In
<1>2. Updated(i, vPorts[i].nType, vPorts[i].pHandle, cycle.buf)
  BY <1>1, SetSlot DEF CycleInv, QuietInv, Store, WithBuffer, slot
<1>3. /\ UNCHANGED <<connected, session, call, orphans, running, dequeued, moved>>
      /\ cycle' = [at |-> "dequeue", i |-> i + 1, buf |-> NULL]
  BY DEF CycleInv, QuietInv, Store, Goto, hostVars
<1>4. ShapeInv'
  BY <1>1, <1>2, <1>3, UpdatedShape DEF CycleInv, ShapeInv, Updated, Used
<1>5. QuietInv'
  BY <1>1, <1>3 DEF CycleInv, QuietInv
<1>6. PortsInv'
  BY <1>1, <1>2, <1>3 DEF CycleInv, PortsInv, QuietInv, Updated, Used
<1>7. BuffersInv'
  BY <1>1, <1>2, <1>3 DEF CycleInv, ShapeInv, BuffersInv, RoomInv, Updated, Used, Slots
<1>8. RoomInv'
  BY <1>1, <1>2, <1>3, BlankHasRoom DEF CycleInv, RoomInv, Updated
<1> QED
  BY <1>4, <1>5, <1>6, <1>7, <1>8 DEF CycleInv

LEMMA AllDequeuedInv == ASSUME CycleInv, ~Live, AllDequeued PROVE CycleInv'
<1>1. ShapeInv'
  BY DEF CycleInv, QuietInv, ShapeInv, Slots, Used, AllDequeued, In, Goto, slot, NULL, tableVars,
     hostVars
<1>2. QuietInv'
  BY DEF CycleInv, ShapeInv, QuietInv, AllDequeued, In, Goto, slot, NULL, tableVars, hostVars
<1>3. PortsInv'
  BY DEF CycleInv, ShapeInv, QuietInv, PortsInv, Slots, Used, AllDequeued, In, Goto, slot, NULL,
     tableVars, hostVars
<1>4. BuffersInv'
  BY DEF CycleInv, ShapeInv, QuietInv, BuffersInv, Slots, Used, AllDequeued, In, Goto, slot, NULL,
     tableVars, hostVars
<1>5. RoomInv'
  BY DEF CycleInv, ShapeInv, QuietInv, RoomInv, Slots, AllDequeued, In, Goto, slot, NULL,
     tableVars, hostVars
<1> QED
  BY <1>1, <1>2, <1>3, <1>4, <1>5 DEF CycleInv

LEMMA WriteInv ==
    ASSUME CycleInv, ~Live, NEW i \in Slots, NEW size \in EventSizes, WriteMidiEvent(i, size)
    PROVE  CycleInv'
<1> DEFINE kind == KindOf(vPorts[i].nType)
<1>1. PICK b \in vPorts[i].pBuffer :
         /\ ~Overflows(b, size)
         /\ vPorts' = [vPorts EXCEPT ![i] = WithBuffer(vPorts[i], {Written(b, kind, size)})]
  BY DEF WriteMidiEvent
<1>2. Updated(i, vPorts[i].nType, vPorts[i].pHandle, {Written(b, kind, size)})
  BY <1>1, SetSlot DEF CycleInv, WriteMidiEvent, WithBuffer
<1>3. /\ UNCHANGED <<connected, session, call, orphans, running, cycle, dequeued, moved>>
      /\ cycle.at = "process"
  BY DEF WriteMidiEvent, In, hostVars, cycleVars
<1>4. HasRoom(Written(b, kind, size))
  <2>1. size \in Nat
    BY SizesAssumption, WordAssumption
  <2> QED
    BY <1>1, <2>1, WrittenHasRoom DEF CycleInv, RoomInv, WriteMidiEvent
<1>5. ShapeInv'
  BY <1>2, <1>3, UpdatedShape DEF CycleInv, ShapeInv, Updated, Used
<1>6. QuietInv'
  BY <1>3 DEF CycleInv, QuietInv
<1>7. PortsInv'
  BY <1>2, <1>3 DEF CycleInv, PortsInv, QuietInv, Updated, Used
<1>8. BuffersInv'
  <2>1. vPorts[i].pBuffer # NULL /\ vPorts'[i].pBuffer # NULL
    BY <1>1, <1>2 DEF Updated, NULL
  <2>2. \A j \in Slots : (vPorts'[j].pBuffer # NULL <=> vPorts[j].pBuffer # NULL) /\ Used(j)' = Used(j)
    BY <1>2, <2>1 DEF Updated, Used
  <2>3. Slots' = Slots
    BY <1>2 DEF Updated
  <2> QED
    BY <1>3, <2>2, <2>3 DEF CycleInv, BuffersInv
<1>9. RoomInv'
  BY <1>2, <1>3, <1>4 DEF CycleInv, RoomInv, Updated
<1> QED
  BY <1>5, <1>6, <1>7, <1>8, <1>9 DEF CycleInv

LEMMA ReadInv == ASSUME CycleInv, ~Live, NEW i \in Slots, ReadMidiEvent(i) PROVE CycleInv'
<1>1. ShapeInv'
  BY DEF CycleInv, QuietInv, ShapeInv, Slots, Used, ReadMidiEvent, In, slot, tableVars, hostVars
<1>2. QuietInv'
  BY DEF CycleInv, ShapeInv, QuietInv, ReadMidiEvent, In, slot, tableVars, hostVars
<1>3. PortsInv'
  BY DEF CycleInv, ShapeInv, QuietInv, PortsInv, Slots, Used, ReadMidiEvent, In, slot, tableVars,
     hostVars
<1>4. BuffersInv'
  BY DEF CycleInv, ShapeInv, QuietInv, BuffersInv, Slots, Used, ReadMidiEvent, In, slot, NULL,
     tableVars, hostVars
<1>5. RoomInv'
  BY DEF CycleInv, ShapeInv, QuietInv, RoomInv, Slots, ReadMidiEvent, In, slot, NULL, tableVars,
     hostVars
<1> QED
  BY <1>1, <1>2, <1>3, <1>4, <1>5 DEF CycleInv

LEMMA EndProcessInv == ASSUME CycleInv, ~Live, EndProcess PROVE CycleInv'
<1>1. ShapeInv'
  BY DEF CycleInv, QuietInv, ShapeInv, Slots, Used, EndProcess, In, Goto, slot, NULL, tableVars,
     hostVars
<1>2. QuietInv'
  BY DEF CycleInv, ShapeInv, QuietInv, EndProcess, In, Goto, slot, NULL, tableVars, hostVars
<1>3. PortsInv'
  BY DEF CycleInv, ShapeInv, QuietInv, PortsInv, Slots, Used, EndProcess, In, Goto, slot, NULL,
     tableVars, hostVars
<1>4. BuffersInv'
  BY DEF CycleInv, ShapeInv, QuietInv, BuffersInv, Slots, Used, EndProcess, In, Goto, slot, NULL,
     tableVars, hostVars
<1>5. RoomInv'
  BY DEF CycleInv, ShapeInv, QuietInv, RoomInv, Slots, EndProcess, In, Goto, slot, NULL,
     tableVars, hostVars
<1> QED
  BY <1>1, <1>2, <1>3, <1>4, <1>5 DEF CycleInv

LEMMA QueueNothingInv == ASSUME CycleInv, ~Live, QueueNothing PROVE CycleInv'
<1>1. ShapeInv'
  BY DEF CycleInv, QuietInv, ShapeInv, Slots, Used, QueueNothing, Returnable, In, Goto, slot,
     NULL, tableVars, hostVars
<1>2. QuietInv'
  BY DEF CycleInv, ShapeInv, QuietInv, QueueNothing, Returnable, In, Goto, slot, NULL, tableVars,
     hostVars
<1>3. PortsInv'
  BY DEF CycleInv, ShapeInv, QuietInv, PortsInv, Slots, Used, QueueNothing, Returnable, In, Goto,
     slot, NULL, tableVars, hostVars
<1>4. BuffersInv'
  BY DEF CycleInv, ShapeInv, QuietInv, BuffersInv, Slots, Used, QueueNothing, Returnable, In,
     Goto, slot, NULL, tableVars, hostVars
<1>5. RoomInv'
  BY DEF CycleInv, ShapeInv, QuietInv, RoomInv, Slots, QueueNothing, Returnable, In, Goto, slot,
     NULL, tableVars, hostVars
<1> QED
  BY <1>1, <1>2, <1>3, <1>4, <1>5 DEF CycleInv

LEMMA QueueInv == ASSUME CycleInv, ~Live, Queue PROVE CycleInv'
<1> DEFINE i == cycle.i
<1>1. i \in Slots /\ cycle.at = "queue" /\ i \in Nat /\ i + 1 \in Nat
  BY DEF CycleInv, ShapeInv, Queue, In, Slots
<1>2. CASE slot.pHandle # session
  <2>1. UNCHANGED <<tableVars, hostVars, cycle, dequeued, moved>>
    BY <1>2 DEF Queue, Crash, tableVars
  <2> QED
    BY <2>1 DEF CycleInv, ShapeInv, QuietInv, PortsInv, BuffersInv, RoomInv, Slots, Used,
       tableVars, hostVars
<1>3. CASE slot.pHandle = session
  <2>1. Updated(i, vPorts[i].nType, vPorts[i].pHandle, NULL)
    BY <1>1, <1>3, SetSlot DEF CycleInv, Queue, WithBuffer, slot
  <2>2. /\ UNCHANGED <<connected, session, call, orphans, running, moved>>
        /\ cycle' = [at |-> "queue", i |-> i + 1, buf |-> NULL]
        /\ dequeued' = dequeued \ {i}
    BY <1>3 DEF Queue, Goto, hostVars
  <2>3. ShapeInv'
    BY <1>1, <2>1, <2>2, UpdatedShape DEF CycleInv, ShapeInv, Updated, Used
  <2>4. QuietInv'
    BY <1>1, <2>2 DEF CycleInv, QuietInv
  <2>5. PortsInv'
    BY <1>1, <2>1, <2>2 DEF CycleInv, PortsInv, QuietInv, Updated, Used
  <2>6. BuffersInv'
    BY <1>1, <2>1, <2>2 DEF CycleInv, ShapeInv, BuffersInv, Updated, Used, Slots, NULL
  <2>7. RoomInv'
    BY <1>1, <2>1, <2>2 DEF CycleInv, RoomInv, Updated, NULL
  <2> QED
    BY <2>3, <2>4, <2>5, <2>6, <2>7 DEF CycleInv
<1> QED
  BY <1>2, <1>3

LEMMA EndCycleInv == ASSUME CycleInv, ~Live, EndCycle PROVE CycleInv'
<1>1. ShapeInv'
  BY DEF CycleInv, QuietInv, ShapeInv, Slots, Used, EndCycle, In, slot, Idle, NULL, tableVars,
     hostVars
<1>2. QuietInv'
  BY DEF CycleInv, ShapeInv, QuietInv, EndCycle, In, slot, Idle, NULL, tableVars, hostVars
<1>3. PortsInv'
  BY DEF CycleInv, ShapeInv, QuietInv, PortsInv, Slots, Used, EndCycle, In, slot, Idle, NULL,
     tableVars, hostVars
<1>4. BuffersInv'
  BY DEF CycleInv, ShapeInv, QuietInv, BuffersInv, Slots, Used, EndCycle, In, slot, Idle, NULL,
     tableVars, hostVars
<1>5. RoomInv'
  BY DEF CycleInv, ShapeInv, QuietInv, RoomInv, Slots, EndCycle, In, slot, Idle, NULL, tableVars,
     hostVars
<1> QED
  BY <1>1, <1>2, <1>3, <1>4, <1>5 DEF CycleInv

LEMMA StutterInv == ASSUME CycleInv, UNCHANGED vars PROVE CycleInv'
  BY DEF CycleInv, ShapeInv, QuietInv, PortsInv, BuffersInv, RoomInv, Slots, Used, vars, tableVars,
     hostVars, cycleVars

LEMMA CycleInitInv == Init => CycleInv
  BY DEF Init, CycleInv, ShapeInv, QuietInv, PortsInv, BuffersInv, RoomInv, Slots, Used,
     NoCall, Idle, NULL

LEMMA CycleStepInv == CycleInv /\ ~Live /\ [Next]_vars => CycleInv'
<1> SUFFICES ASSUME CycleInv, ~Live, [Next]_vars
             PROVE  CycleInv'
  OBVIOUS
<1>1. CASE HostStep
  BY <1>1, ConnectInv, DisconnectInv, ConnectFailsInv, LoopInv, AllocPortInv, GrowTableInv, KeepPortInv,
     AddPortInv, RegisterFailsInv, DropPortInv, RemovePortInv, PortRemovedInv, UnregisterFailsInv
  DEF HostStep
<1>2. CASE BeginCycle \/ CycleStep
  BY <1>2, BeginCycleInv, DequeueNothingInv, DequeueInv, DequeueNullInv, StoreInv, AllDequeuedInv,
     EndProcessInv, QueueNothingInv, QueueInv, EndCycleInv
  DEF CycleStep
<1>3. CASE ClientStep
  BY <1>3, WriteInv, ReadInv DEF ClientStep
<1>4. CASE Undefined \/ UNCHANGED vars
  BY <1>4, StutterInv DEF Undefined
<1> QED
  BY <1>1, <1>2, <1>3, <1>4 DEF Next

-----------------------------------------------------------------------------
\* The invariant holds in every reachable state of the cycles and the calls.
THEOREM CycleCorrect == ~Live /\ Spec => []CycleInv
<1>1. Init => CycleInv
  BY CycleInitInv
<1>2. CycleInv /\ ~Live /\ [Next]_vars => CycleInv'
  BY CycleStepInv
<1>3. CASE Live
  BY <1>3
<1>4. CASE ~Live
  BY <1>1, <1>2, <1>4, PTL DEF Spec
<1> QED
  BY <1>3, <1>4

\* on_filter_process queues back every buffer that it dequeued.
THEOREM EveryBufferReturned == ~Live /\ Spec => []BuffersReturned
<1>1. CycleInv => BuffersReturned
  BY DEF CycleInv, BuffersInv, BuffersReturned
<1> QED
  BY <1>1, CycleCorrect, PTL

\* on_filter_process uses the ports of the present connection.
THEOREM EveryHandleCurrent == ~Live /\ Spec => []HandlesAreCurrent
<1>1. CycleInv => HandlesAreCurrent
  BY DEF CycleInv, QuietInv, PortsInv, HandlesAreCurrent
<1> QED
  BY <1>1, CycleCorrect, PTL

\* write_midi_event grants no room outside of the buffer.
THEOREM EveryEventFits == ~Live /\ Spec => []GrantedRoomFits
<1>1. CycleInv => GrantedRoomFits
  BY DEF CycleInv, RoomInv, HasRoom, GrantedRoomFits
<1> QED
  BY <1>1, CycleCorrect, PTL

-----------------------------------------------------------------------------
(* Reading the events of a buffer *)

\* The items of a buffer lie one behind the other, from 0 to `end'.
Tiled(b, end) ==
    /\ end \in Nat
    /\ DOMAIN b.at \subseteq Nat
    /\ \A o \in DOMAIN b.at :
          /\ b.at[o].size \in Nat
          /\ After(b, o) \in DOMAIN b.at \cup {end}
          /\ After(b, o) <= end
          /\ \A p \in DOMAIN b.at : o < p => After(b, o) <= p
    /\ 0 \in DOMAIN b.at \cup {end}

\* The end of the items of a buffer that the server has made.
WireEnd(b) == IF b.pod = 0 THEN 0 ELSE b.pod - 8

\* It is empty, or a sequence of items with its header.
OnWire(b) ==
    /\ b.pod \in Nat
    /\ b = Blank \/ (b.pod >= 8 /\ b.chunk = b.pod + 8)
    /\ Tiled(b, WireEnd(b))

\* One step of the search of read_midi_event, given the rest, and all of it.
FindStep(b, kind, rest, o) ==
    IF o + ItemHeader > ItemsEnd(b) THEN Outcome("NO_DATA", o)
    ELSE IF o \notin DOMAIN b.at    THEN Outcome("GARBAGE", o)
    ELSE IF b.at[o].kind = kind     THEN Outcome("OK", o)
    ELSE rest[Skip(b, o)]

Find(b, kind) == CHOOSE f : f = [o \in Nat |-> FindStep(b, kind, f, o)]

LEMMA ReadIsFind ==
    ASSUME NEW b, NEW kind, NEW index
    PROVE  ReadEvent(b, kind, index) =
              IF ~IsSequence(b) \/ index = ItemsEnd(b) THEN Outcome("NO_DATA", index)
              ELSE IF index > ItemsEnd(b)              THEN Outcome("OVERFLOW", index)
              ELSE Find(b, kind)[index]
  BY DEF ReadEvent, Find, FindStep

LEMMA AfterIs ==
    ASSUME NEW b, NEW o \in Nat, b.at[o].size \in Nat
    PROVE  /\ After(b, o) \in Nat /\ o + ItemHeader <= After(b, o) /\ o < After(b, o)
           /\ b.at[o].size % 8 = 0 => Skip(b, o) = After(b, o)
<1>1. AlignUp(b.at[o].size) \in Nat
  BY AlignUpBounds
<1>2. b.at[o].size % 8 = 0 => AlignUp(b.at[o].size) = b.at[o].size
  BY DEF AlignUp
<1> QED
  BY <1>1, <1>2 DEF After, Skip, ItemHeader

LEMMA SequenceEnd ==
    ASSUME NEW b, OnWire(b)
    PROVE  IsSequence(b) => ItemsEnd(b) = WireEnd(b) /\ WireEnd(b) \in Nat
  BY DEF OnWire, IsSequence, ItemsEnd, WireEnd, Blank, SequenceHeader

\* The events of a kind from an offset on; what the search comes to there.
EventsFrom(b, kind, o) == {p \in EventsOf(b, kind) : p >= o}

Found(b, kind, o, r) ==
    IF EventsFrom(b, kind, o) = {}
      THEN r.st = "NO_DATA"
      ELSE r.st = "OK" /\ r.at \in EventsFrom(b, kind, o)
           /\ \A p \in EventsFrom(b, kind, o) : r.at <= p

\* The events that are left at an item, and at the one behind it.
LEMMA EventsBehind ==
    ASSUME NEW b, NEW end, Tiled(b, end), NEW kind, NEW o \in DOMAIN b.at
    PROVE  EventsFrom(b, kind, o) =
              IF b.at[o].kind = kind THEN {o} \cup EventsFrom(b, kind, After(b, o))
              ELSE EventsFrom(b, kind, After(b, o))
<1>1. o \in Nat /\ After(b, o) \in Nat /\ o < After(b, o)
  BY AfterIs DEF Tiled
<1>2. \A p \in DOMAIN b.at : p \in Nat /\ (p >= o <=> p = o \/ p >= After(b, o))
  BY <1>1 DEF Tiled
<1> QED
  BY <1>1, <1>2 DEF EventsFrom, EventsOf

LEMMA NoneBehindEnd ==
    ASSUME NEW b, NEW end, Tiled(b, end), NEW kind
    PROVE  EventsFrom(b, kind, end) = {}
<1>1. \A p \in DOMAIN b.at : p \in Nat /\ p < end
  BY AfterIs DEF Tiled
<1> QED
  BY <1>1 DEF EventsFrom, EventsOf, Tiled

\* What the search comes to at each offset.
FindResult(b, kind, o) ==
    IF o + ItemHeader > ItemsEnd(b) THEN Outcome("NO_DATA", o)
    ELSE IF o \notin DOMAIN b.at    THEN Outcome("GARBAGE", o)
    ELSE IF EventsFrom(b, kind, o) = {} THEN Outcome("NO_DATA", ItemsEnd(b))
    ELSE Outcome("OK", CHOOSE p \in EventsFrom(b, kind, o) :
                          \A q \in EventsFrom(b, kind, o) : p <= q)

LEMMA FindExists ==
    ASSUME NEW b, NEW kind, OnWire(b), IsSequence(b), OthersAligned(b, kind)
    PROVE  Find(b, kind) = [o \in Nat |-> FindStep(b, kind, Find(b, kind), o)]
<1> DEFINE end == ItemsEnd(b)
           G == [o \in Nat |-> FindResult(b, kind, o)]
<1>1. Tiled(b, end) /\ end \in Nat
  BY SequenceEnd DEF OnWire
<1>2. ASSUME NEW o \in Nat
      PROVE  G[o] = FindStep(b, kind, G, o)
  <2>1. CASE o + ItemHeader > end \/ o \notin DOMAIN b.at
    BY <2>1 DEF FindStep, FindResult
  <2>2. CASE ~(o + ItemHeader > end) /\ o \in DOMAIN b.at /\ b.at[o].kind = kind
    <3>1. o \in EventsFrom(b, kind, o) /\ \A q \in EventsFrom(b, kind, o) : o <= q
      BY <1>1, <2>2 DEF EventsFrom, EventsOf, Tiled
    <3>2. (CHOOSE p \in EventsFrom(b, kind, o) : \A q \in EventsFrom(b, kind, o) : p <= q) = o
      <4> DEFINE c == CHOOSE p \in EventsFrom(b, kind, o) : \A q \in EventsFrom(b, kind, o) : p <= q
      <4>1. c \in EventsFrom(b, kind, o) /\ \A q \in EventsFrom(b, kind, o) : c <= q
        BY <3>1
      <4>2. c \in Nat /\ c <= o /\ o <= c
        BY <1>1, <3>1, <4>1 DEF EventsFrom, EventsOf, Tiled
      <4> QED
        BY <4>2
    <3> QED
      BY <2>2, <3>1, <3>2 DEF FindStep, FindResult
  <2>3. CASE ~(o + ItemHeader > end) /\ o \in DOMAIN b.at /\ b.at[o].kind # kind
    <3> DEFINE q == After(b, o)
    <3>1. Skip(b, o) = q /\ q \in Nat /\ q \in DOMAIN b.at \cup {end} /\ q <= end
      BY <1>1, <2>3, AfterIs DEF Tiled, OthersAligned
    <3>2. EventsFrom(b, kind, o) = EventsFrom(b, kind, q)
      BY <1>1, <2>3, EventsBehind
    <3>3. FindStep(b, kind, G, o) = FindResult(b, kind, q)
      BY <2>3, <3>1 DEF FindStep
    <3>4. CASE q = end
      <4>1. EventsFrom(b, kind, o) = {}
        BY <1>1, <3>2, <3>4, NoneBehindEnd
      <4> QED
        BY <1>1, <2>3, <3>3, <3>4, <4>1 DEF FindResult, ItemHeader
    <3>5. CASE q \in DOMAIN b.at /\ q # end
      <4>1. ~(q + ItemHeader > end)
        BY <1>1, <3>1, <3>5, AfterIs DEF Tiled, ItemHeader
      <4> QED
        BY <2>3, <3>2, <3>3, <3>5, <4>1 DEF FindResult
    <3> QED
      BY <3>1, <3>4, <3>5
  <2> QED
    BY <2>1, <2>2, <2>3
<1>3. G = [o \in Nat |-> FindStep(b, kind, G, o)]
  BY <1>2
<1>4. \E f : f = [o \in Nat |-> FindStep(b, kind, f, o)]
  BY <1>3
<1> QED
  BY <1>4 DEF Find

LEMMA Largest ==
    ASSUME NEW end \in Nat, NEW T, T \subseteq 0 .. end, T # {}
    PROVE  \E m \in T : \A n \in T : n <= m
<1> DEFINE U == {end - n : n \in T}
<1>1. U \subseteq Nat /\ U # {}
  <2>1. \A n \in T : n \in Nat /\ end - n \in Nat
    OBVIOUS
  <2> QED
    BY <2>1
<1>2. IsWellFoundedOn(OpToRel(<, Nat), Nat)
  BY NatLessThanWellFounded
<1>3. PICK u \in U : \A n \in U : <<n, u>> \notin OpToRel(<, Nat)
  BY <1>1, <1>2, WFMin
<1>4. \A n \in U : ~(n < u)
  BY <1>1, <1>3 DEF OpToRel
<1>5. PICK m \in T : u = end - m
  BY <1>3
<1>6. ASSUME NEW n \in T
      PROVE  n <= m
  <2>1. end - n \in U /\ n \in 0 .. end /\ m \in 0 .. end
    OBVIOUS
  <2>2. ~(end - n < end - m)
    BY <1>4, <1>5, <2>1
  <2> QED
    BY <2>1, <2>2
<1> QED
  BY <1>6

\* The search finds the next event of its kind, or that there is none: were there an
\* offset where it does not, the last of them would not be one.
LEMMA FindIs ==
    ASSUME NEW b, NEW kind, OnWire(b), IsSequence(b), OthersAligned(b, kind),
           NEW index \in DOMAIN b.at \cup {ItemsEnd(b)}
    PROVE  Found(b, kind, index, Find(b, kind)[index])
<1> DEFINE end == ItemsEnd(b)
           f == Find(b, kind)
           bad == {o \in DOMAIN b.at \cup {end} : ~Found(b, kind, o, f[o])}
<1>1. Tiled(b, end) /\ end \in Nat
  BY SequenceEnd DEF OnWire
<1>2. \A o \in Nat : f[o] = FindStep(b, kind, f, o)
  BY FindExists
<1>3. ASSUME bad # {}
      PROVE  FALSE
  <2>1. bad \subseteq 0 .. end
    BY <1>1, AfterIs DEF Tiled
  <2>2. PICK o \in bad : \A p \in bad : p <= o
    BY <1>1, <1>3, <2>1, Largest
  <2>3. o \in Nat /\ o \in DOMAIN b.at \cup {end}
    BY <2>1, <2>2
  <2>4. CASE o = end
    <3>1. f[o] = Outcome("NO_DATA", o)
      BY <1>1, <1>2, <2>4 DEF FindStep, ItemHeader
    <3> QED
      BY <1>1, <2>2, <2>4, <3>1, NoneBehindEnd DEF Found, Outcome
  <2>5. CASE o # end /\ b.at[o].kind = kind
    <3>1. f[o] = Outcome("OK", o)
      BY <1>1, <1>2, <2>3, <2>5, AfterIs DEF FindStep, ItemHeader, Tiled
    <3>2. o \in EventsFrom(b, kind, o) /\ \A q \in EventsFrom(b, kind, o) : o <= q
      BY <1>1, <2>3, <2>5 DEF EventsFrom, EventsOf, Tiled
    <3> QED
      BY <2>2, <3>1, <3>2 DEF Found, Outcome
  <2>6. CASE o # end /\ b.at[o].kind # kind
    <3> DEFINE q == After(b, o)
    <3>1. Skip(b, o) = q /\ q \in Nat /\ q \in DOMAIN b.at \cup {end} /\ o < q /\ o + ItemHeader <= end
      BY <1>1, <2>3, <2>6, AfterIs DEF Tiled, OthersAligned, ItemHeader
    <3>2. f[o] = f[q]
      BY <1>1, <1>2, <2>3, <2>6, <3>1 DEF FindStep, ItemHeader
    <3>3. q \notin bad
      BY <2>2, <2>3, <3>1
    <3>4. EventsFrom(b, kind, o) = EventsFrom(b, kind, q)
      BY <1>1, <2>3, <2>6, EventsBehind
    <3> QED
      BY <2>2, <3>1, <3>2, <3>3, <3>4 DEF Found
  <2> QED
    BY <2>4, <2>5, <2>6
<1> QED
  BY <1>3

\* read_midi_event from an item, or from the end, on.
LEMMA ReadIs ==
    ASSUME NEW b, NEW kind, OnWire(b), OthersAligned(b, kind),
           NEW index \in DOMAIN b.at \cup {WireEnd(b)}
    PROVE  Found(b, kind, index, ReadEvent(b, kind, index))
<1>1. CASE ~IsSequence(b)
  <2>1. DOMAIN b.at = {}
    <3>1. WireEnd(b) = 0
      BY <1>1 DEF OnWire, IsSequence, WireEnd, Blank
    <3> QED
      BY <3>1, AfterIs DEF OnWire, Tiled
  <2>2. EventsFrom(b, kind, index) = {}
    BY <2>1 DEF EventsFrom, EventsOf
  <2> QED
    BY <1>1, <2>2, ReadIsFind DEF Found, Outcome
<1>2. CASE IsSequence(b)
  <2>1. Tiled(b, ItemsEnd(b)) /\ ItemsEnd(b) = WireEnd(b) /\ ItemsEnd(b) \in Nat
    BY <1>2, SequenceEnd DEF OnWire
  <2>2. CASE index = ItemsEnd(b)
    BY <2>1, <2>2, NoneBehindEnd, ReadIsFind DEF Found, Outcome
  <2>3. CASE index # ItemsEnd(b)
    <3>1. ~(index > ItemsEnd(b))
      BY <2>1, AfterIs DEF Tiled
    <3> QED
      BY <1>2, <2>1, <2>3, <3>1, FindIs, ReadIsFind
  <2> QED
    BY <2>2, <2>3
<1> QED
  BY <1>1, <1>2

-----------------------------------------------------------------------------
(* Buffers that are written, sealed and joined *)

LEMMA BlankIsTiled == Tiled(Blank, 0) /\ OnWire(Blank) /\ Blank.chunk = 0
  BY DEF Tiled, OnWire, WireEnd, Blank

\* An event whose data lies within the buffer has a size that does not wrap.
LEMMA InsideIsExact ==
    ASSUME NEW b, NEW kind, NEW size \in Nat, b.chunk \in Nat,
           DataEnd(Written(b, kind, size), b.chunk) <= MaxSize
    PROVE  NewSize(b, size) = b.chunk + ItemHeader + AlignUp(size)
<1>1. Word \in Nat \ {0} /\ MaxSize \in Nat /\ MaxSize <= Word - 8
  BY WordAssumption, MaxSizeAssumption
<1>2. b.chunk + SequenceHeader + ItemHeader + size <= MaxSize
  BY DEF DataEnd, Written, SequenceHeader, ItemHeader
<1>3. AlignUp(size) \in Nat /\ AlignUp(size) <= size + 7
  BY AlignUpBounds
<1>4. AlignUp(size) % Word = AlignUp(size)
  BY <1>1, <1>2, <1>3, ModSmall DEF SequenceHeader, ItemHeader
<1>5. (ItemHeader + AlignUp(size)) % Word = ItemHeader + AlignUp(size)
  BY <1>1, <1>2, <1>3, ModSmall DEF SequenceHeader, ItemHeader
<1>6. (b.chunk + (ItemHeader + AlignUp(size))) % Word = b.chunk + (ItemHeader + AlignUp(size))
  <2> DEFINE n == b.chunk + (ItemHeader + AlignUp(size))
  <2>1. n \in 0 .. Word - 1
    BY <1>1, <1>2, <1>3 DEF SequenceHeader, ItemHeader
  <2> HIDE DEF n
  <2>2. n % Word = n
    BY <1>1, <2>1, ModSmall
  <2> QED
    BY <2>2 DEF n
<1> QED
  BY <1>1, <1>3, <1>4, <1>5, <1>6 DEF NewSize, ItemHeader

\* A new event is put behind the others.
LEMMA WrittenIsTiled ==
    ASSUME NEW b, NEW kind, NEW size \in Nat, Tiled(b, b.chunk),
           DataEnd(Written(b, kind, size), b.chunk) <= MaxSize
    PROVE  Tiled(Written(b, kind, size), Written(b, kind, size).chunk)
<1> DEFINE c == Written(b, kind, size)
           end == b.chunk
<1>1. end \in Nat
  BY DEF Tiled
<1>2. c.chunk = end + ItemHeader + AlignUp(size) /\ AlignUp(size) \in Nat
  BY <1>1, InsideIsExact, AlignUpBounds DEF Written
<1>3. /\ DOMAIN c.at = DOMAIN b.at \cup {end}
      /\ c.at[end] = [kind |-> kind, size |-> size]
      /\ \A o \in DOMAIN b.at : o # end => c.at[o] = b.at[o]
  BY DEF Written
<1>4. \A o \in DOMAIN b.at :
         /\ o \in Nat /\ b.at[o].size \in Nat /\ o < After(b, o) /\ After(b, o) \in Nat
         /\ After(b, o) <= end /\ o < end
         /\ c.at[o] = b.at[o] /\ After(c, o) = After(b, o)
  BY <1>1, <1>3, AfterIs DEF Tiled, After
<1>5. After(c, end) = c.chunk /\ end < c.chunk
  BY <1>1, <1>2, <1>3 DEF After, ItemHeader
<1>6. ASSUME NEW o \in DOMAIN c.at
      PROVE  /\ c.at[o].size \in Nat
             /\ After(c, o) \in DOMAIN c.at \cup {c.chunk}
             /\ After(c, o) <= c.chunk
             /\ \A p \in DOMAIN c.at : o < p => After(c, o) <= p
  <2>1. CASE o = end
    <3>1. \A p \in DOMAIN c.at : ~(o < p)
      BY <1>1, <1>3, <1>4, <2>1
    <3>2. c.at[o].size = size
      BY <1>3, <2>1
    <3>3. c.chunk \in Nat
      BY <1>1, <1>2 DEF ItemHeader
    <3>4. After(c, o) = c.chunk
      BY <1>5, <2>1
    <3> HIDE DEF c
    <3> QED
      BY <3>1, <3>2, <3>3, <3>4
  <2>2. CASE o \in DOMAIN b.at
    <3>1. c.at[o].size \in Nat /\ After(c, o) \in DOMAIN b.at \cup {end}
      BY <1>4, <2>2 DEF Tiled
    <3>2. \A p \in DOMAIN b.at : o < p => After(c, o) <= p
      BY <1>4, <2>2 DEF Tiled
    <3>3. After(c, o) <= end
      BY <1>4, <2>2
    <3> QED
      BY <1>1, <1>2, <1>3, <1>4, <1>5, <2>2, <3>1, <3>2, <3>3 DEF ItemHeader
  <2> QED
    BY <1>3, <2>1, <2>2
<1>7. c.chunk \in Nat /\ DOMAIN c.at \subseteq Nat /\ 0 \in DOMAIN c.at
  BY <1>1, <1>2, <1>3, <1>4 DEF Tiled, ItemHeader
<1> QED
  BY <1>6, <1>7 DEF Tiled

LEMMA SealedIsOnWire ==
    ASSUME NEW b, b = [chunk |-> b.chunk, pod |-> b.pod, at |-> b.at], Tiled(b, b.chunk)
    PROVE  OnWire(Sealed(b)) /\ Sealed(b).pod >= 8
<1>1. /\ Sealed(b).pod = 8 + b.chunk /\ Sealed(b).chunk = b.chunk + SequenceHeader
      /\ Sealed(b).at = b.at
  BY DEF Sealed
<1>2. b.chunk \in Nat
  BY DEF Tiled
<1>3. WireEnd(Sealed(b)) = b.chunk
  BY <1>1, <1>2 DEF WireEnd
<1>4. Tiled(Sealed(b), b.chunk)
  BY <1>1 DEF Tiled, After
<1> QED
  BY <1>1, <1>2, <1>3, <1>4 DEF OnWire, SequenceHeader

\* The items of a second output are put behind those of the first.
LEMMA JoinedIsOnWire ==
    ASSUME NEW b, NEW c, OnWire(b), OnWire(c), c.pod >= 8
    PROVE  OnWire(Joined(b, c))
<1>1. CASE b.pod = 0
  BY <1>1 DEF Joined
<1>2. CASE b.pod # 0
  <2> DEFINE d == ItemsEnd(b)
             e == ItemsEnd(c)
             j == Joined(b, c)
             behind == {d + p : p \in DOMAIN c.at}
  <2>1. /\ b.pod \in Nat /\ b.pod >= 8 /\ b.chunk = b.pod + 8 /\ d = b.pod - 8 /\ d \in Nat
        /\ c.pod \in Nat /\ c.chunk = c.pod + 8 /\ e = c.pod - 8 /\ e \in Nat
        /\ Tiled(b, d) /\ Tiled(c, e)
    <3>1. /\ b.pod \in Nat /\ b.pod >= 8 /\ b.chunk = b.pod + 8 /\ Tiled(b, b.pod - 8)
          /\ c.pod \in Nat /\ c.chunk = c.pod + 8 /\ Tiled(c, c.pod - 8)
      BY <1>2 DEF OnWire, WireEnd, Blank
    <3>2. d = b.pod - 8 /\ e = c.pod - 8
      BY <3>1 DEF ItemsEnd, SequenceHeader
    <3> QED
      BY <3>1, <3>2
  <2>2. /\ j.chunk = b.chunk + e /\ j.pod = b.pod + e
        /\ DOMAIN j.at = DOMAIN b.at \cup behind
        /\ \A o \in DOMAIN j.at : j.at[o] = IF o \in DOMAIN b.at THEN b.at[o] ELSE c.at[o - d]
    BY <1>2 DEF Joined
  <2>3. j.pod \in Nat /\ j.pod >= 8 /\ j.chunk = j.pod + 8 /\ WireEnd(j) = d + e
    BY <2>1, <2>2 DEF WireEnd
  <2>4. \A o \in DOMAIN b.at :
           /\ o \in Nat /\ o < d /\ o \in DOMAIN j.at /\ j.at[o] = b.at[o]
           /\ b.at[o].size \in Nat /\ After(j, o) = After(b, o) /\ After(b, o) \in Nat /\ After(b, o) <= d
    <3>1. \A o \in DOMAIN b.at : o \in Nat /\ b.at[o].size \in Nat /\ After(b, o) <= d
      BY <2>1 DEF Tiled
    <3>2. \A o \in DOMAIN b.at : After(b, o) \in Nat /\ o < After(b, o)
      BY <3>1, AfterIs
    <3>3. \A o \in DOMAIN b.at : o \in DOMAIN j.at /\ j.at[o] = b.at[o]
      BY <2>2
    <3>4. \A o \in DOMAIN b.at : After(j, o) = After(b, o)
      BY <3>3 DEF After
    <3>5. \A o \in DOMAIN b.at : o < d
      BY <2>1, <3>1, <3>2
    <3> QED
      BY <3>1, <3>2, <3>3, <3>4, <3>5
  <2>5. ASSUME NEW p \in DOMAIN c.at
        PROVE  /\ p \in Nat /\ d + p \in DOMAIN j.at /\ d + p \notin DOMAIN b.at
               /\ j.at[d + p] = c.at[p] /\ c.at[p].size \in Nat
               /\ After(c, p) \in Nat /\ After(j, d + p) = d + After(c, p)
    <3>1. p \in Nat /\ c.at[p].size \in Nat
      BY <2>1 DEF Tiled
    <3>2. d + p \notin DOMAIN b.at /\ d + p \in DOMAIN j.at
      BY <2>1, <2>2, <2>4, <3>1
    <3>3. j.at[d + p] = c.at[p]
      BY <2>1, <2>2, <3>1, <3>2
    <3>4. AlignUp(c.at[p].size) \in Nat
      BY <3>1, AlignUpBounds
    <3> QED
      BY <2>1, <3>1, <3>2, <3>3, <3>4 DEF After, ItemHeader
  <2>6. d \in DOMAIN j.at \cup {d + e}
    <3>1. CASE 0 \in DOMAIN c.at
      BY <2>1, <2>5, <3>1
    <3>2. CASE e = 0
      BY <2>1, <3>2
    <3> QED
      BY <2>1, <3>1, <3>2 DEF Tiled
  <2>7. ASSUME NEW o \in DOMAIN j.at
        PROVE  /\ o \in Nat
               /\ j.at[o].size \in Nat
               /\ After(j, o) \in DOMAIN j.at \cup {d + e}
               /\ After(j, o) <= d + e
               /\ \A q \in DOMAIN j.at : o < q => After(j, o) <= q
    <3>1. CASE o \in DOMAIN b.at
      <4>1. o \in Nat /\ j.at[o].size \in Nat /\ After(j, o) <= d + e
        BY <2>1, <2>4, <3>1
      <4>2. After(b, o) \in DOMAIN b.at \cup {d} /\ \A q \in DOMAIN b.at : o < q => After(b, o) <= q
        BY <2>1, <3>1 DEF Tiled
      <4>3. After(j, o) \in DOMAIN j.at \cup {d + e}
        BY <2>4, <2>6, <3>1, <4>2
      <4>4. \A q \in behind : After(j, o) <= q
        BY <2>1, <2>4, <2>5, <3>1
      <4>5. \A q \in DOMAIN b.at : o < q => After(j, o) <= q
        BY <2>4, <3>1, <4>2
      <4> QED
        BY <2>2, <4>1, <4>3, <4>4, <4>5
    <3>2. CASE o \in behind
      <4>1. PICK p \in DOMAIN c.at : o = d + p
        BY <3>2
      <4>2. /\ After(c, p) \in DOMAIN c.at \cup {e} /\ After(c, p) <= e
            /\ \A q \in DOMAIN c.at : p < q => After(c, p) <= q
        BY <2>1 DEF Tiled
      <4>3. /\ o \in Nat /\ j.at[o].size \in Nat /\ After(j, o) = d + After(c, p)
            /\ After(c, p) \in Nat
        BY <2>1, <2>5, <4>1
      <4>4. After(j, o) \in DOMAIN j.at \cup {d + e} /\ After(j, o) <= d + e
        BY <2>1, <2>5, <4>2, <4>3
      <4>5. \A q \in DOMAIN b.at : ~(o < q)
        BY <2>1, <2>4, <2>5, <4>1
      <4>6. \A q \in behind : o < q => After(j, o) <= q
        BY <2>1, <2>5, <4>1, <4>2, <4>3
      <4> QED
        BY <2>2, <4>3, <4>4, <4>5, <4>6
    <3> QED
      BY <2>2, <3>1, <3>2
  <2>8. 0 \in DOMAIN j.at \cup {d + e}
    BY <2>1, <2>2, <2>6 DEF Tiled
  <2>9. Tiled(j, d + e)
    BY <2>1, <2>7, <2>8 DEF Tiled
  <2> QED
    BY <2>3, <2>9 DEF OnWire
<1> QED
  BY <1>1, <1>2

-----------------------------------------------------------------------------
(* The events of a cycle *)

\* A slot has one buffer at most: of an input the events on the wire, of an output
\* those that were written to it, unless one was beyond the memory.
BufferIs(t, b) ==
    /\ IsMidiIn(t) => OnWire(b)
    /\ IsMidiOut(t) /\ ~crashed =>
          b = [chunk |-> b.chunk, pod |-> b.pod, at |-> b.at] /\ Tiled(b, b.chunk)

BufferOf(t, buf) ==
    /\ \A b, c \in buf : b = c
    /\ \A b \in buf : BufferIs(t, b)

\* The client has read the events up to where it reads on, or all of them.
ReadSoFar(b, kind) ==
    /\ reader.got \in Seq(EventsOf(b, kind))
    /\ \A m, n \in DOMAIN reader.got : m < n => reader.got[m] < reader.got[n]
    /\ \/ /\ reader.st = "OK"
          /\ reader.index \in DOMAIN b.at \cup {WireEnd(b)}
          /\ Range(reader.got) = {p \in EventsOf(b, kind) : p < reader.index}
       \/ /\ reader.st = "NO_DATA"
          /\ Range(reader.got) = EventsOf(b, kind)

ReaderInv ==
    /\ reader.port = NoInput \/ cycle.at # "process" => reader = Unread
    /\ reader.port # NoInput =>
          /\ reader.port \in Slots
          /\ IsMidiIn(vPorts[reader.port].nType)
          /\ \A b \in vPorts[reader.port].pBuffer :
                LET kind == KindOf(vPorts[reader.port].nType)
                IN  OthersAligned(b, kind) => ReadSoFar(b, kind)

EventInv ==
    /\ OnWire(wire)
    /\ \A i \in Slots : BufferOf(vPorts[i].nType, vPorts[i].pBuffer)
    /\ cycle.at = "store" => BufferOf(slot.nType, cycle.buf)
    /\ ReaderInv

\* Between two cycles no slot has a buffer, whatever the host thread does.
LEMMA HostEvents ==
    ASSUME CycleInv, CycleInv', EventInv, ~Live, HostStep
    PROVE  EventInv'
<1>1. cycle.at = "idle" /\ cycle' = cycle
  BY DEF CycleInv, QuietInv, HostStep, Connect, Disconnect, ConnectFails, StartLoop, StopLoop, AllocPort,
     GrowTable, KeepPort, AddPort, PortAdded, RegisterFails, DropPort, RemovePort, PortRemoved,
     UnregisterFails, MayChangePorts, HostIsFree, NoCall, cycleVars
<1>2. reader' = reader /\ wire' \in {wire, Blank}
  BY DEF HostStep, Connect, Disconnect, ConnectFails, StartLoop, StopLoop, AllocPort,
     GrowTable, KeepPort, AddPort, PortAdded, RegisterFails, DropPort, RemovePort, PortRemoved,
     UnregisterFails, cycleVars
<1>3. \A i \in Slots' : vPorts'[i].pBuffer = {}
  BY <1>1 DEF CycleInv, BuffersInv, NULL
<1>4. reader = Unread
  BY <1>1 DEF EventInv, ReaderInv
<1>5. OnWire(wire)'
  BY <1>2, BlankIsTiled DEF EventInv
<1>6. ReaderInv'
  BY <1>2, <1>4 DEF ReaderInv, Unread
<1> QED
  BY <1>1, <1>3, <1>5, <1>6 DEF EventInv, BufferOf

\* A step of the data loop that touches no buffer.
LEMMA QuietEvents ==
    ASSUME EventInv, UNCHANGED <<tableVars, wire>>, crashed => crashed',
           \/ cycle' = cycle /\ reader' = reader
           \/ cycle'.at # "store" /\ reader' = Unread
    PROVE  EventInv'
<1>1. Slots' = Slots /\ vPorts' = vPorts /\ wire' = wire
  BY DEF tableVars, Slots
<1>2. \A t, b : BufferIs(t, b) => BufferIs(t, b)'
  BY DEF BufferIs
<1>3. \A t, buf : BufferOf(t, buf) => BufferOf(t, buf)'
  BY <1>2 DEF BufferOf
<1>4. \A i \in Slots' : BufferOf(vPorts[i].nType, vPorts[i].pBuffer)'
  BY <1>1, <1>3 DEF EventInv
<1>5. CASE cycle' = cycle /\ reader' = reader
  <2>1. ReaderInv'
    BY <1>1, <1>5 DEF EventInv, ReaderInv, ReadSoFar
  <2>2. (cycle.at = "store" => BufferOf(slot.nType, cycle.buf))'
    BY <1>1, <1>3, <1>5 DEF EventInv, slot
  <2> QED
    BY <1>1, <1>4, <2>1, <2>2 DEF EventInv
<1>6. CASE cycle'.at # "store" /\ reader' = Unread
  <2>1. ReaderInv'
    BY <1>6 DEF ReaderInv, Unread
  <2> QED
    BY <1>1, <1>4, <1>6, <2>1 DEF EventInv
<1> QED
  BY <1>5, <1>6

LEMMA DequeueEvents ==
    ASSUME CycleInv, EventInv, ~Live, Dequeue
    PROVE  EventInv'
<1>1. /\ Slots' = Slots /\ UNCHANGED <<vPorts, wire, reader, crashed>>
      /\ cycle' = [at |-> "store", i |-> cycle.i,
                   buf |-> {IF IsMidiIn(slot.nType) THEN wire ELSE Blank}]
      /\ cycle.at = "dequeue"
  BY DEF Dequeue, In, tableVars, Slots
<1>2. reader = Unread
  BY <1>1 DEF EventInv, ReaderInv
<1>3. \A t, b : BufferIs(t, b)' = BufferIs(t, b)
  BY <1>1 DEF BufferIs
<1>4. \A t, buf : BufferOf(t, buf)' <=> BufferOf(t, buf)
  BY <1>3 DEF BufferOf
<1>5. BufferOf(slot.nType, {IF IsMidiIn(slot.nType) THEN wire ELSE Blank})
  <2>1. IsMidiOut(slot.nType) => ~IsMidiIn(slot.nType)
    BY DEF IsMidiIn, IsMidiOut
  <2>2. Blank = [chunk |-> Blank.chunk, pod |-> Blank.pod, at |-> Blank.at] /\ Tiled(Blank, Blank.chunk)
    BY BlankIsTiled DEF Blank
  <2> QED
    BY <2>1, <2>2 DEF BufferOf, BufferIs, EventInv
<1>6. slot' = slot
  BY <1>1 DEF slot
<1>7. ReaderInv'
  BY <1>1, <1>2 DEF ReaderInv, Unread
<1> QED
  BY <1>1, <1>4, <1>5, <1>6, <1>7 DEF EventInv

\* A buffer is put into a slot, or taken from it.
LEMMA SlotEvents ==
    ASSUME EventInv, NEW i \in Slots, NEW t, NEW h, NEW buf, Updated(i, t, h, buf),
           t = vPorts[i].nType, crashed' = crashed, BufferOf(t, buf)
    PROVE  \A j \in Slots' : BufferOf(vPorts[j].nType, vPorts[j].pBuffer)'
<1>1. \A u, b : BufferIs(u, b)' = BufferIs(u, b)
  BY DEF BufferIs
<1>2. \A u, c : BufferOf(u, c)' <=> BufferOf(u, c)
  BY <1>1 DEF BufferOf
<1> QED
  BY <1>2 DEF EventInv, Updated

LEMMA StoreEvents ==
    ASSUME CycleInv, EventInv, ~Live, Store
    PROVE  EventInv'
<1> DEFINE i == cycle.i
<1>1. i \in Slots /\ cycle.at = "store"
  BY DEF CycleInv, ShapeInv, Store, In
<1>2. Updated(i, vPorts[i].nType, vPorts[i].pHandle, cycle.buf)
  BY <1>1, SetSlot DEF CycleInv, QuietInv, Store, WithBuffer, slot
<1>3. UNCHANGED <<wire, reader, crashed>> /\ cycle'.at = "dequeue"
  BY DEF CycleInv, QuietInv, Store, Goto
<1>4. reader = Unread
  BY <1>1 DEF EventInv, ReaderInv
<1>5. \A j \in Slots' : BufferOf(vPorts[j].nType, vPorts[j].pBuffer)'
  BY <1>1, <1>2, <1>3, SlotEvents DEF EventInv, slot
<1>6. ReaderInv'
  BY <1>3, <1>4 DEF ReaderInv, Unread
<1> QED
  BY <1>3, <1>5, <1>6 DEF EventInv

\* The header of the sequence is written, and the server takes the events over.
LEMMA QueueEvents ==
    ASSUME CycleInv, EventInv, ~Live, Queue
    PROVE  EventInv'
<1> DEFINE i == cycle.i
<1>1. i \in Slots /\ cycle.at = "queue" /\ ~crashed
  BY DEF CycleInv, ShapeInv, Queue, In, Slots
<1>2. CASE slot.pHandle # session
  <2>1. UNCHANGED <<tableVars, wire, cycle, reader>> /\ crashed'
    BY <1>2 DEF Queue, Crash, tableVars
  <2> QED
    BY <2>1, QuietEvents
<1>3. CASE slot.pHandle = session
  <2>1. Updated(i, vPorts[i].nType, vPorts[i].pHandle, NULL)
    BY <1>1, <1>3, SetSlot DEF CycleInv, Queue, WithBuffer, slot
  <2>2. UNCHANGED <<reader, crashed>> /\ cycle'.at = "queue"
    BY <1>3 DEF Queue, Goto
  <2>3. reader = Unread
    BY <1>1 DEF EventInv, ReaderInv
  <2>4. BufferOf(vPorts[i].nType, NULL)
    BY DEF BufferOf, NULL
  <2>5. \A j \in Slots' : BufferOf(vPorts[j].nType, vPorts[j].pBuffer)'
    BY <1>1, <2>1, <2>2, <2>4, SlotEvents
  <2>6. PICK b \in slot.pBuffer :
           wire' = IF IsMidiOut(slot.nType) THEN Joined(wire, Sealed(b)) ELSE wire
    BY <1>3 DEF Queue
  <2>7. OnWire(wire')
    <3>1. CASE IsMidiOut(slot.nType)
      <4>1. b = [chunk |-> b.chunk, pod |-> b.pod, at |-> b.at] /\ Tiled(b, b.chunk)
        BY <1>1, <2>6, <3>1 DEF EventInv, BufferOf, BufferIs, slot
      <4>2. OnWire(Sealed(b)) /\ Sealed(b).pod >= 8
        BY <4>1, SealedIsOnWire
      <4> QED
        BY <2>6, <3>1, <4>2, JoinedIsOnWire DEF EventInv
    <3>2. CASE ~IsMidiOut(slot.nType)
      BY <2>6, <3>2 DEF EventInv
    <3> QED
      BY <3>1, <3>2
  <2>8. ReaderInv'
    BY <2>2, <2>3 DEF ReaderInv, Unread
  <2>9. OnWire(wire)'
    BY <2>7 DEF OnWire, Tiled, WireEnd, After
  <2> QED
    BY <2>2, <2>5, <2>8, <2>9 DEF EventInv
<1> QED
  BY <1>2, <1>3

\* An event that is written changes no buffer of an input.
LEMMA WriteEvents ==
    ASSUME CycleInv, EventInv, ~Live, NEW i \in Slots, NEW size \in EventSizes,
           WriteMidiEvent(i, size)
    PROVE  EventInv'
<1> DEFINE kind == KindOf(vPorts[i].nType)
<1>1. PICK b \in vPorts[i].pBuffer :
         /\ vPorts' = [vPorts EXCEPT ![i] = WithBuffer(vPorts[i], {Written(b, kind, size)})]
         /\ crashed' = (DataEnd(Written(b, kind, size), b.chunk) > MaxSize)
  BY DEF WriteMidiEvent
<1>2. Updated(i, vPorts[i].nType, vPorts[i].pHandle, {Written(b, kind, size)})
  BY <1>1, SetSlot DEF CycleInv, WriteMidiEvent, WithBuffer
<1>3. /\ UNCHANGED <<cycle, wire, reader>>
      /\ cycle.at = "process" /\ ~crashed /\ IsMidiOut(vPorts[i].nType)
  BY DEF WriteMidiEvent, In, cycleVars
<1>4. ~IsMidiIn(vPorts[i].nType)
  BY <1>3 DEF IsMidiIn, IsMidiOut
<1>5. \A u, b1 : BufferIs(u, b1) => BufferIs(u, b1)'
  BY <1>3 DEF BufferIs
<1>6. \A u, c : BufferOf(u, c) => BufferOf(u, c)'
  BY <1>5 DEF BufferOf
<1>7. BufferIs(vPorts[i].nType, Written(b, kind, size))'
  <2>1. Written(b, kind, size) = [chunk |-> Written(b, kind, size).chunk,
                                  pod |-> Written(b, kind, size).pod,
                                  at |-> Written(b, kind, size).at]
    BY DEF Written
  <2>2. size \in Nat
    BY SizesAssumption, WordAssumption
  <2>3. Tiled(b, b.chunk)
    BY <1>3 DEF EventInv, BufferOf, BufferIs
  <2>4. DataEnd(Written(b, kind, size), b.chunk) \in Int
    <3>1. DataEnd(Written(b, kind, size), b.chunk) = SequenceHeader + b.chunk + ItemHeader + size
      BY DEF DataEnd, Written
    <3> QED
      BY <2>2, <2>3, <3>1 DEF Tiled, SequenceHeader, ItemHeader
  <2>5. ~crashed' => DataEnd(Written(b, kind, size), b.chunk) <= MaxSize
    <3>1. ~crashed' => ~(DataEnd(Written(b, kind, size), b.chunk) > MaxSize)
      BY <1>1, Zenon
    <3>2. MaxSize \in Int
      BY MaxSizeAssumption, WordAssumption
    <3> QED
      BY <2>4, <3>1, <3>2
  <2>6. ~crashed' => Tiled(Written(b, kind, size), Written(b, kind, size).chunk)
    BY <2>2, <2>3, <2>5, WrittenIsTiled
  <2> QED
    BY <1>2, <1>4, <2>1, <2>6 DEF BufferIs, Updated
<1>8. \A j \in Slots' : BufferOf(vPorts[j].nType, vPorts[j].pBuffer)'
  <2>1. \A j \in Slots : j # i => BufferOf(vPorts[j].nType, vPorts[j].pBuffer)'
    BY <1>2, <1>6 DEF EventInv, Updated
  <2>2. BufferOf(vPorts[i].nType, vPorts[i].pBuffer)'
    BY <1>2, <1>7 DEF BufferOf, Updated
  <2> QED
    BY <1>2, <2>1, <2>2 DEF Updated
<1>9. ReaderInv'
  <2>1. reader.port # NoInput => reader.port # i /\ reader.port \in Slots /\ vPorts'[reader.port] = vPorts[reader.port]
    BY <1>2, <1>4 DEF EventInv, ReaderInv, Updated
  <2> QED
    BY <1>2, <1>3, <2>1 DEF EventInv, ReaderInv, ReadSoFar, Updated
<1> QED
  BY <1>3, <1>8, <1>9 DEF EventInv

-----------------------------------------------------------------------------
\* The next event is read, or there is none.
LEMMA ReadsOn ==
    ASSUME NEW b, NEW kind, OnWire(b), OthersAligned(b, kind), ReadSoFar(b, kind), reader.st = "OK",
           reader' = [port |-> reader'.port, st |-> ReadEvent(b, kind, reader.index).st,
                      index |-> IF ReadEvent(b, kind, reader.index).st = "OK"
                                  THEN After(b, ReadEvent(b, kind, reader.index).at) ELSE reader.index,
                      got |-> IF ReadEvent(b, kind, reader.index).st = "OK"
                                THEN Append(reader.got, ReadEvent(b, kind, reader.index).at) ELSE reader.got]
    PROVE  ReadSoFar(b, kind)'
<1> DEFINE r == ReadEvent(b, kind, reader.index)
           sent == EventsOf(b, kind)
<1>1. /\ reader.index \in DOMAIN b.at \cup {WireEnd(b)}
      /\ Range(reader.got) = {p \in sent : p < reader.index}
      /\ reader.got \in Seq(sent)
      /\ \A m, n \in DOMAIN reader.got : m < n => reader.got[m] < reader.got[n]
  BY DEF ReadSoFar
<1>2. Found(b, kind, reader.index, r)
  BY <1>1, ReadIs
<1>3. Tiled(b, WireEnd(b)) /\ sent \subseteq DOMAIN b.at /\ sent \subseteq Nat /\ reader.index \in Nat
  BY <1>1 DEF OnWire, Tiled, EventsOf
<1>4. CASE EventsFrom(b, kind, reader.index) = {}
  <2>1. r.st = "NO_DATA"
    BY <1>2, <1>4 DEF Found
  <2>2. sent = {p \in sent : p < reader.index}
    BY <1>3, <1>4 DEF EventsFrom
  <2>3. reader'.st = "NO_DATA" /\ reader'.got = reader.got
    BY <2>1
  <2> QED
    BY <1>1, <2>2, <2>3 DEF ReadSoFar, EventsOf
<1>5. CASE EventsFrom(b, kind, reader.index) # {}
  <2>1. /\ r.st = "OK" /\ r.at \in sent /\ r.at >= reader.index
        /\ \A p \in sent : p >= reader.index => r.at <= p
    BY <1>2, <1>5 DEF Found, EventsFrom
  <2>2. reader'.st = "OK" /\ reader'.got = Append(reader.got, r.at) /\ reader'.index = After(b, r.at)
    BY <2>1
  <2>3. /\ r.at \in Nat /\ After(b, r.at) \in Nat /\ r.at < After(b, r.at)
        /\ After(b, r.at) \in DOMAIN b.at \cup {WireEnd(b)}
        /\ \A p \in sent : r.at < p => After(b, r.at) <= p
    BY <1>3, <2>1, AfterIs DEF Tiled
  <2>4. {p \in sent : p < After(b, r.at)} = {p \in sent : p < reader.index} \cup {r.at}
    BY <1>3, <2>1, <2>3
  <2> DEFINE n == Len(reader.got)
  <2>5. /\ n \in Nat /\ DOMAIN reader.got = 1 .. n
        /\ DOMAIN reader'.got = 1 .. n + 1
        /\ reader'.got[n + 1] = r.at
        /\ \A m \in 1 .. n : reader'.got[m] = reader.got[m]
        /\ reader'.got \in Seq(sent)
    BY <1>1, <2>1, <2>2
  <2>6. \A m \in 1 .. n : reader.got[m] \in Range(reader.got)
    BY <2>5 DEF Range
  <2>7. ASSUME NEW m \in 1 .. n
        PROVE  reader.got[m] \in Nat /\ reader.got[m] < r.at
    <3>1. reader.got[m] \in sent /\ reader.got[m] < reader.index
      BY <1>1, <2>6
    <3> QED
      BY <1>3, <2>1, <2>3, <3>1
  <2>8. ASSUME NEW m \in 1 .. n + 1, NEW k \in 1 .. n + 1, m < k
        PROVE  reader'.got[m] < reader'.got[k]
    <3>1. m \in 1 .. n /\ reader'.got[m] = reader.got[m]
      BY <2>5, <2>8
    <3>2. CASE k \in 1 .. n
      BY <1>1, <2>5, <2>8, <3>1, <3>2
    <3>3. CASE k = n + 1
      BY <2>5, <2>7, <3>1, <3>3
    <3>4. k \in 1 .. n \/ k = n + 1
      BY <2>5
    <3> QED
      BY <3>2, <3>3, <3>4
  <2>9. Range(reader'.got) = Range(reader.got) \cup {r.at}
    <3>1. /\ Range(reader.got) = {reader.got[m] : m \in 1 .. n}
          /\ Range(reader'.got) = {reader'.got[m] : m \in 1 .. n + 1}
      BY <2>5 DEF Range
    <3>2. /\ \A m \in 1 .. n : m \in 1 .. n + 1
          /\ n + 1 \in 1 .. n + 1
          /\ \A m \in 1 .. n + 1 : m \in 1 .. n \/ m = n + 1
      BY <2>5
    <3> QED
      BY <2>5, <3>1, <3>2
  <2>10. Range(reader'.got) = {p \in sent : p < reader'.index}
    BY <1>1, <2>2, <2>4, <2>9
  <2> QED
    BY <2>2, <2>3, <2>5, <2>8, <2>10 DEF ReadSoFar, EventsOf, WireEnd, Range
<1> QED
  BY <1>4, <1>5

LEMMA ReadBegins ==
    ASSUME NEW b, NEW kind, OnWire(b), reader = Unread
    PROVE  ReadSoFar(b, kind)
<1>1. reader.got = << >> /\ reader.index = 0 /\ reader.st = "OK"
  BY DEF Unread
<1>2. Range(reader.got) = {} /\ reader.got \in Seq(EventsOf(b, kind)) /\ DOMAIN reader.got = {}
  BY <1>1 DEF Range
<1>3. {p \in EventsOf(b, kind) : p < 0} = {}
  BY DEF OnWire, Tiled, EventsOf
<1>4. 0 \in DOMAIN b.at \cup {WireEnd(b)}
  BY DEF OnWire, Tiled
<1> QED
  BY <1>1, <1>2, <1>3, <1>4 DEF ReadSoFar

LEMMA ReadEvents ==
    ASSUME CycleInv, EventInv, ~Live, NEW i \in Slots, ReadMidiEvent(i)
    PROVE  EventInv'
<1> DEFINE kind == KindOf(vPorts[i].nType)
<1>1. PICK b \in vPorts[i].pBuffer :
         reader' = [port |-> i, st |-> ReadEvent(b, kind, reader.index).st,
                    index |-> IF ReadEvent(b, kind, reader.index).st = "OK"
                                THEN After(b, ReadEvent(b, kind, reader.index).at) ELSE reader.index,
                    got |-> IF ReadEvent(b, kind, reader.index).st = "OK"
                              THEN Append(reader.got, ReadEvent(b, kind, reader.index).at) ELSE reader.got]
  BY DEF ReadMidiEvent
<1>2. /\ UNCHANGED <<vPorts, nPortCapacity, cycle, wire, crashed>> /\ Slots' = Slots
      /\ cycle.at = "process" /\ IsMidiIn(vPorts[i].nType)
      /\ reader.port \in {NoInput, i} /\ reader.st = "OK"
  BY DEF ReadMidiEvent, In, tableVars, Slots
<1>3. OnWire(b) /\ \A c \in vPorts[i].pBuffer : c = b
  BY <1>2 DEF EventInv, BufferOf, BufferIs
<1>4. OthersAligned(b, kind) => ReadSoFar(b, kind)
  BY <1>2, <1>3, ReadBegins DEF EventInv, ReaderInv
<1>5. reader'.port = i /\ i # NoInput
  BY <1>1 DEF NoInput, Slots
<1>6. OthersAligned(b, kind) => ReadSoFar(b, kind)'
  BY <1>1, <1>2, <1>3, <1>4, <1>5, ReadsOn
<1>7. ReaderInv'
  BY <1>2, <1>3, <1>5, <1>6 DEF ReaderInv
<1>8. \A t, c : BufferIs(t, c)' = BufferIs(t, c)
  BY <1>2 DEF BufferIs
<1>9. \A t, buf : BufferOf(t, buf)' <=> BufferOf(t, buf)
  BY <1>8 DEF BufferOf
<1> QED
  BY <1>2, <1>7, <1>9 DEF EventInv

LEMMA EventInitInv == Init => EventInv
<1> SUFFICES ASSUME Init PROVE EventInv
  OBVIOUS
<1>1. Slots = {} /\ wire = Blank /\ reader = Unread /\ cycle.at = "idle"
  BY DEF Init, Slots, Idle
<1>2. ReaderInv
  BY <1>1 DEF ReaderInv, Unread
<1> QED
  BY <1>1, <1>2, BlankIsTiled DEF EventInv

LEMMA EventStepInv == CycleInv /\ CycleInv' /\ ~Live /\ EventInv /\ [Next]_vars => EventInv'
<1> SUFFICES ASSUME CycleInv, CycleInv', ~Live, EventInv, [Next]_vars
             PROVE  EventInv'
  OBVIOUS
<1>1. CASE HostStep
  BY <1>1, HostEvents
<1>2. ASSUME In("idle") \/ In("dequeue") \/ In("queue"), NEW at \in {"dequeue", "process", "queue", "idle"},
             cycle'.at = at, UNCHANGED <<tableVars, wire, reader, crashed>>
      PROVE  EventInv'
  <2>1. reader = Unread
    BY <1>2 DEF In, EventInv, ReaderInv
  <2> QED
    BY <1>2, <2>1, QuietEvents
<1>3. CASE BeginCycle \/ DequeueNothing \/ AllDequeued
  BY <1>2, <1>3 DEF BeginCycle, DequeueNothing, AllDequeued, Goto
<1>4. CASE QueueNothing \/ EndCycle
  <2>1. In("queue") /\ UNCHANGED <<tableVars, wire, reader, crashed>>
    BY <1>4 DEF QueueNothing, EndCycle
  <2>2. cycle'.at \in {"queue", "idle"}
    BY <1>4 DEF QueueNothing, EndCycle, Goto, Idle
  <2> QED
    BY <1>2, <2>1, <2>2
<1>5. CASE DequeueNull
  BY <1>5, QuietEvents DEF DequeueNull, Crash, In
<1>6. CASE EndProcess
  <2>1. \A t, b : BufferIs(t, b)' = BufferIs(t, b)
    BY <1>6 DEF EndProcess, BufferIs
  <2>2. \A t, buf : BufferOf(t, buf)' <=> BufferOf(t, buf)
    BY <2>1 DEF BufferOf
  <2>3. ReaderInv'
    BY <1>6 DEF EndProcess, ReaderInv, Unread
  <2>4. OnWire(wire)'
    BY <1>6, BlankIsTiled DEF EndProcess
  <2> QED
    BY <1>6, <2>2, <2>3, <2>4 DEF EndProcess, EventInv, Goto, tableVars, Slots
<1>7. CASE Dequeue \/ Store \/ Queue
  BY <1>7, DequeueEvents, StoreEvents, QueueEvents
<1>8. CASE ClientStep
  BY <1>8, WriteEvents, ReadEvents DEF ClientStep
<1>9. CASE Undefined \/ UNCHANGED vars
  <2>1. UNCHANGED <<tableVars, wire, cycle, reader, crashed>>
    BY <1>9 DEF Undefined, vars, cycleVars
  <2> QED
    BY <2>1, QuietEvents
<1> QED
  BY <1>1, <1>3, <1>4, <1>5, <1>6, <1>7, <1>8, <1>9 DEF Next, CycleStep

\* The buffers are tiled by their events, and the client reads from one to the next.
THEOREM EventsCorrect == ~Live /\ Spec => []EventInv
<1>1. Init => EventInv
  BY EventInitInv
<1>2. CycleInv /\ CycleInv' /\ ~Live /\ EventInv /\ [Next]_vars => EventInv'
  BY EventStepInv
<1>3. CASE Live
  BY <1>3
<1>4. CASE ~Live
  <2>1. Spec => []CycleInv
    BY <1>4, CycleCorrect
  <2> QED
    BY <1>1, <1>2, <1>4, <2>1, PTL DEF Spec
<1> QED
  BY <1>3, <1>4

\* read_midi_event finds what write_midi_event wrote, through the header that the cycle
\* adds and the server that joins the outputs.
THEOREM EventsRead == ~Live /\ Spec => []WrittenEventsAreRead
<1>1. EventInv => WrittenEventsAreRead
  <2> SUFFICES ASSUME EventInv, reader.port # NoInput, NEW b \in vPorts[reader.port].pBuffer,
                      OthersAligned(b, KindOf(vPorts[reader.port].nType))
               PROVE  LET sent == EventsOf(b, KindOf(vPorts[reader.port].nType))
                          read == Range(reader.got)
                      IN  /\ \A m, n \in DOMAIN reader.got : m < n => reader.got[m] < reader.got[n]
                          /\ read \subseteq sent
                          /\ \A o \in read, p \in sent : p < o => p \in read
                          /\ reader.st # "OK" => reader.st = "NO_DATA" /\ read = sent
    BY DEF WrittenEventsAreRead
  <2> DEFINE kind == KindOf(vPorts[reader.port].nType)
  <2>1. ReadSoFar(b, kind)
    BY DEF EventInv, ReaderInv
  <2>2. OnWire(b)
    BY DEF EventInv, ReaderInv, BufferOf, BufferIs
  <2>3. EventsOf(b, kind) \subseteq Nat /\ DOMAIN b.at \cup {WireEnd(b)} \subseteq Nat
    <3>1. Tiled(b, WireEnd(b))
      BY <2>2 DEF OnWire
    <3> QED
      BY <3>1 DEF Tiled, EventsOf
  <2>4. CASE reader.st = "OK"
    <3>1. Range(reader.got) = {p \in EventsOf(b, kind) : p < reader.index} /\ reader.index \in Nat
      BY <2>1, <2>3, <2>4 DEF ReadSoFar
    <3> QED
      BY <2>1, <2>3, <2>4, <3>1 DEF ReadSoFar
  <2>5. CASE reader.st # "OK"
    BY <2>1, <2>5 DEF ReadSoFar
  <2> QED
    BY <2>4, <2>5
<1> QED
  BY <1>1, EventsCorrect, PTL
=============================================================================
