---------------------------- MODULE ProcessCycle ----------------------------
(***************************************************************************)
(* One cycle after the other of the data loop (backend.cpp:                *)
(* on_filter_process), against the host thread, which connects,            *)
(* disconnects and registers ports.  The cycle takes no lock: it walks     *)
(* vPorts twice, to dequeue a buffer for each port in use and, after the   *)
(* callback of the client, to queue it back.  It is taken apart where it   *)
(* reads and writes a slot.                                                *)
(*                                                                         *)
(* In the callback the client writes events to its MIDI outputs and reads  *)
(* them from its MIDI inputs, to which the server has linked the outputs.  *)
(*                                                                         *)
(* PortTable says how a slot is found, SyncCore and Lifecycle how the      *)
(* calls wait and fail; here a synchronisation succeeds or fails.          *)
(***************************************************************************)
EXTENDS MidiBuffer, SequencesExt

CONSTANTS Types,          \* the port types the client registers
          EventSizes,     \* the sizes of the events it writes
          FREE,           \* PORT_TYPE_FREE
          FirstCapacity,  \* of the table (4 in the code)
          MaxSlots,       \* bound: realloc fails beyond this many slots
          MaxSessions,    \* bound: number of connections
          Live            \* does the client register ports while the data loop runs?

ASSUME TypesAssumption ==
    Types \subseteq {"audio_in", "audio_out", "midi_in", "midi_out", "midi2_in", "midi2_out"}
ASSUME SizesAssumption == EventSizes \subseteq 0 .. Word - 1
ASSUME FreeAssumption == FREE \notin Types
ASSUME TableAssumption == FirstCapacity \in Nat \ {0} /\ MaxSlots \in Nat /\ MaxSessions \in Nat
ASSUME LiveAssumption == Live \in BOOLEAN

VARIABLES vPorts,         \* the slots 0 .. nPortCapacity-1
          nPortCapacity,
          connected,      \* pFilter is set
          session,        \* how many connections there have been
          call,           \* the call of the host thread: what is left of it, for which slot
          orphans,        \* slots whose port was given up by a failed unregister_port (ghost)
          running,        \* the data loop runs the cycle of the filter
          cycle,          \* where the data loop is, at which slot, with which buffer
          moved,          \* realloc has moved the table since it took the pointer of its slot
          dequeued,       \* ports whose buffer is with the client
          wire,           \* the events on their way to the inputs
          reader,         \* how far the client has read the events of an input
          crashed         \* memory was used that is not there: what follows is undefined

tableVars == <<vPorts, nPortCapacity>>
hostVars  == <<connected, session, call, orphans, running>>
cycleVars == <<cycle, dequeued, wire, reader>>
vars      == <<tableVars, hostVars, cycleVars, moved, crashed>>

IsMidiIn(t)  == t \in {"midi_in", "midi2_in"}
IsMidiOut(t) == t \in {"midi_out", "midi2_out"}
KindOf(t)    == IF t \in {"midi_in", "midi_out"} THEN "midi" ELSE "ump"

\* pHandle is the number of the connection the port was made for, 0 for NULL;
\* pBuffer is the set of the one buffer it points to, empty for NULL.
NULL      == {}
Port(t)   == [nType |-> t, pHandle |-> 0, pBuffer |-> NULL]
NoPort    == Port(FREE)
WithHandle(p, s) == [nType |-> p.nType, pHandle |-> s, pBuffer |-> p.pBuffer]
WithBuffer(p, b) == [nType |-> p.nType, pHandle |-> p.pHandle, pBuffer |-> b]

Slots     == 0 .. nPortCapacity - 1
Used(i)   == vPorts[i].nType # FREE
FreeSlots == {i \in Slots : ~Used(i)}

NoCall  == [op |-> "none", slot |-> 0]
Idle    == [at |-> "idle", i |-> 0, buf |-> NULL]
NoInput == -1
Unread  == [port |-> NoInput, index |-> 0, got |-> << >>, st |-> "OK"]

Init ==
    /\ vPorts = [i \in {} |-> NoPort]
    /\ nPortCapacity = 0
    /\ connected = FALSE /\ session = 0
    /\ call = NoCall /\ orphans = {}
    /\ running = FALSE
    /\ cycle = Idle
    /\ moved = FALSE
    /\ dequeued = {}
    /\ wire = Blank
    /\ reader = Unread
    /\ crashed = FALSE

-----------------------------------------------------------------------------
(* The host thread *)

HostIsFree == call = NoCall /\ ~crashed
MayChangePorts == HostIsFree /\ (Live \/ ~running)

\* Mutant of Attached: ports that have a handle are taken for registered.
AttachedOnce(s) ==
    [i \in Slots |-> IF Used(i) /\ vPorts[i].pHandle = 0
                       THEN WithHandle(vPorts[i], s) ELSE vPorts[i]]

\* The handles that register_ports and unregister_ports leave.
Attached(s)  == [i \in Slots |-> IF Used(i) THEN WithHandle(vPorts[i], s) ELSE vPorts[i]]
Detached(i)  == WithHandle(WithBuffer(vPorts[i], NULL), 0)

\* connect up to the on_connected callback.
Connect ==
    /\ HostIsFree
    /\ ~connected
    /\ session < MaxSessions
    /\ connected' = TRUE
    /\ session' = session + 1
    /\ vPorts' = Attached(session + 1)
    /\ orphans' = {}
    /\ UNCHANGED <<nPortCapacity, call, running, cycleVars, moved, crashed>>

\* disconnect, or a connect whose register_ports fails: the ports are unregistered.
Disconnect ==
    /\ HostIsFree
    /\ connected /\ ~running
    /\ connected' = FALSE
    /\ vPorts' = [i \in Slots |-> Detached(i)]
    /\ dequeued' = {} /\ orphans' = {}
    /\ UNCHANGED <<nPortCapacity, session, call, running, cycle, wire, reader, moved, crashed>>

\* Any later failure of connect closes the connection and leaves the ports as they are.
ConnectFails ==
    /\ HostIsFree
    /\ connected /\ ~running
    /\ connected' = FALSE
    /\ dequeued' = {}
    /\ UNCHANGED <<tableVars, session, call, orphans, running, cycle, wire, reader, moved, crashed>>

\* activate, or a latency that was applied: pw_data_loop_start.
StartLoop ==
    /\ HostIsFree
    /\ connected /\ ~running
    /\ running' = TRUE
    /\ UNCHANGED <<tableVars, connected, session, call, orphans, cycleVars, moved, crashed>>

\* deactivate, or a latency to apply: pw_data_loop_stop joins the data loop.
StopLoop ==
    /\ HostIsFree
    /\ running
    /\ cycle.at = "idle"
    /\ running' = FALSE
    /\ wire' = Blank
    /\ UNCHANGED <<tableVars, connected, session, call, orphans, cycle, dequeued, reader,
                   moved, crashed>>

\* register_port takes the first free slot, ...
AllocPort(t) ==
    /\ MayChangePorts
    /\ \E i \in FreeSlots :
          /\ \A j \in FreeSlots : i <= j
          /\ vPorts' = [vPorts EXCEPT ![i] = Port(t)]
          /\ call' = [op |-> "register", slot |-> i]
    /\ UNCHANGED <<nPortCapacity, connected, session, orphans, running, cycleVars, moved, crashed>>

\* ... or enlarges a table that is full, which realloc may move.
GrowTable(t) ==
    /\ MayChangePorts
    /\ FreeSlots = {}
    /\ nPortCapacity' = IF 2 * nPortCapacity > FirstCapacity THEN 2 * nPortCapacity ELSE FirstCapacity
    /\ nPortCapacity' <= MaxSlots
    /\ vPorts' = [i \in 0 .. nPortCapacity' - 1 |->
                     IF i < nPortCapacity THEN vPorts[i]
                     ELSE IF i = nPortCapacity THEN Port(t) ELSE NoPort]
    /\ call' = [op |-> "register", slot |-> nPortCapacity]
    /\ moved' \in {moved, cycle.at = "store"}
    /\ UNCHANGED <<connected, session, orphans, running, cycleVars, crashed>>

\* The rest of register_port, of a backend that is not connected.
KeepPort ==
    /\ call.op = "register" /\ ~connected /\ ~crashed
    /\ call' = NoCall
    /\ UNCHANGED <<tableVars, connected, session, orphans, running, cycleVars, moved, crashed>>

\* The private register_port, then the wait of sync_core.
AddPort ==
    /\ call.op = "register" /\ connected /\ ~crashed
    /\ vPorts' = [vPorts EXCEPT ![call.slot] = WithHandle(vPorts[call.slot], session)]
    /\ call' = [call EXCEPT !.op = "registering"]
    /\ dequeued' = dequeued \ {call.slot}
    /\ UNCHANGED <<nPortCapacity, connected, session, orphans, running, cycle, wire, reader,
                   moved, crashed>>

PortAdded ==
    /\ call.op = "registering" /\ ~crashed
    /\ call' = NoCall
    /\ UNCHANGED <<tableVars, connected, session, orphans, running, cycleVars, moved, crashed>>

\* init_port
FreePort(i) == vPorts' = [vPorts EXCEPT ![i] = NoPort]

\* Every failure of register_port after alloc_port ends in free_port.
RegisterFails ==
    /\ call.op \in {"register", "registering"} /\ connected /\ ~crashed
    /\ FreePort(call.slot)
    /\ call' = NoCall
    /\ UNCHANGED <<nPortCapacity, connected, session, orphans, running, cycleVars, moved, crashed>>

\* unregister_port of a backend that is not connected.
DropPort(i) ==
    /\ MayChangePorts
    /\ ~connected
    /\ Used(i)
    /\ FreePort(i)
    /\ UNCHANGED <<nPortCapacity, hostVars, cycleVars, moved, crashed>>

\* The private unregister_port, then the wait of sync_core.
RemovePort(i) ==
    /\ MayChangePorts
    /\ connected
    /\ Used(i)
    /\ vPorts' = [vPorts EXCEPT ![i] = Detached(i)]
    /\ call' = [op |-> "unregister", slot |-> i]
    /\ UNCHANGED <<nPortCapacity, connected, session, orphans, running, cycleVars, moved, crashed>>

PortRemoved ==
    /\ call.op = "unregister" /\ ~crashed
    /\ FreePort(call.slot)
    /\ call' = NoCall
    /\ orphans' = orphans \ {call.slot}
    /\ UNCHANGED <<nPortCapacity, connected, session, running, cycleVars, moved, crashed>>

\* The synchronisation fails: the slot stays in use, without a port.
UnregisterFails ==
    /\ call.op = "unregister" /\ ~crashed
    /\ call' = NoCall
    /\ orphans' = orphans \cup {call.slot}
    /\ UNCHANGED <<tableVars, connected, session, running, cycleVars, moved, crashed>>

-----------------------------------------------------------------------------
(* The data loop *)

Goto(at, i) == cycle' = [at |-> at, i |-> i, buf |-> NULL]
Crash == crashed' = TRUE /\ UNCHANGED cycle
In(at) == cycle.at = at /\ ~crashed

slot == vPorts[cycle.i]

BeginCycle ==
    /\ running
    /\ In("idle")
    /\ Goto("dequeue", 0)
    /\ UNCHANGED <<tableVars, hostVars, dequeued, wire, reader, moved, crashed>>

\* The slot is free, or the port has no buffer this time.
DequeueNothing ==
    /\ In("dequeue")
    /\ cycle.i < nPortCapacity
    /\ slot.nType # FREE => slot.pHandle = session
    /\ Goto("dequeue", cycle.i + 1)
    /\ UNCHANGED <<tableVars, hostVars, dequeued, wire, reader, moved, crashed>>

\* pw_filter_dequeue_buffer; each port has one buffer.
Dequeue ==
    /\ In("dequeue")
    /\ cycle.i < nPortCapacity
    /\ slot.nType # FREE /\ slot.pHandle = session
    /\ cycle.i \notin dequeued
    /\ dequeued' = dequeued \cup {cycle.i}
    /\ cycle' = [at |-> "store", i |-> cycle.i,
                 buf |-> {IF IsMidiIn(slot.nType) THEN wire ELSE Blank}]
    /\ moved' = FALSE
    /\ UNCHANGED <<tableVars, hostVars, wire, reader, crashed>>

\* ... of a port that is not there.
DequeueNull ==
    /\ In("dequeue")
    /\ cycle.i < nPortCapacity
    /\ slot.nType # FREE /\ slot.pHandle # session
    /\ Crash
    /\ UNCHANGED <<tableVars, hostVars, dequeued, wire, reader, moved>>

\* Mutant of Store: a buffer without data is passed over before it is stored.
StoreSkips ==
    /\ In("store")
    /\ \/ vPorts' = [vPorts EXCEPT ![cycle.i] = WithBuffer(slot, cycle.buf)]
       \/ UNCHANGED vPorts
    /\ Goto("dequeue", cycle.i + 1)
    /\ UNCHANGED <<nPortCapacity, hostVars, dequeued, wire, reader, moved, crashed>>

\* port->pBuffer = buf
Store ==
    /\ In("store")
    /\ IF moved
         THEN Crash /\ UNCHANGED vPorts
         ELSE /\ vPorts' = [vPorts EXCEPT ![cycle.i] = WithBuffer(slot, cycle.buf)]
              /\ Goto("dequeue", cycle.i + 1)
              /\ UNCHANGED crashed
    /\ UNCHANGED <<nPortCapacity, hostVars, dequeued, wire, reader, moved>>

AllDequeued ==
    /\ In("dequeue")
    /\ cycle.i >= nPortCapacity
    /\ Goto("process", 0)
    /\ UNCHANGED <<tableVars, hostVars, dequeued, wire, reader, moved, crashed>>

\* The client writes an event: all the bytes of the room it was granted.  It
\* touches no input, so it is enough to let it write when it has nothing to read.
WriteMidiEvent(i, size) ==
    /\ In("process")
    /\ wire = Blank
    /\ IsMidiOut(vPorts[i].nType)
    /\ \E b \in vPorts[i].pBuffer :
          LET c == Written(b, KindOf(vPorts[i].nType), size)
          IN  /\ ~Overflows(b, size)
              /\ vPorts' = [vPorts EXCEPT ![i] = WithBuffer(vPorts[i], {c})]
              /\ crashed' = (DataEnd(c, b.chunk) > MaxSize)
    /\ UNCHANGED <<nPortCapacity, hostVars, cycleVars, moved>>

\* The client reads one input of its choice from the start until there is no
\* event left.
ReadMidiEvent(i) ==
    /\ In("process")
    /\ IsMidiIn(vPorts[i].nType)
    /\ reader.port \in {NoInput, i} /\ reader.st = "OK"
    /\ \E b \in vPorts[i].pBuffer :
          LET r == ReadEvent(b, KindOf(vPorts[i].nType), reader.index)
          IN  reader' = [port |-> i, st |-> r.st,
                         index |-> IF r.st = "OK" THEN After(b, r.at) ELSE reader.index,
                         got |-> IF r.st = "OK" THEN Append(reader.got, r.at) ELSE reader.got]
    /\ UNCHANGED <<tableVars, hostVars, cycle, dequeued, wire, moved, crashed>>

\* on_process returns.
EndProcess ==
    /\ In("process")
    /\ Goto("queue", 0)
    /\ reader' = Unread
    /\ wire' = Blank
    /\ UNCHANGED <<tableVars, hostVars, dequeued, moved, crashed>>

\* Mutant of Returnable: only outputs are queued back.
ReturnableOutput(p) == p.nType # FREE /\ p.pBuffer # NULL /\ ~IsMidiIn(p.nType)

Returnable(p) == p.nType # FREE /\ p.pBuffer # NULL

QueueNothing ==
    /\ In("queue")
    /\ cycle.i < nPortCapacity
    /\ ~Returnable(slot)
    /\ Goto("queue", cycle.i + 1)
    /\ UNCHANGED <<tableVars, hostVars, dequeued, wire, reader, moved, crashed>>

\* pw_filter_queue_buffer; a MIDI output gets its header first.
Queue ==
    /\ In("queue")
    /\ cycle.i < nPortCapacity
    /\ Returnable(slot)
    /\ IF slot.pHandle # session
         THEN Crash /\ UNCHANGED <<vPorts, dequeued, wire>>
         ELSE /\ vPorts' = [vPorts EXCEPT ![cycle.i] = WithBuffer(slot, NULL)]
              /\ dequeued' = dequeued \ {cycle.i}
              /\ \E b \in slot.pBuffer :
                    wire' = IF IsMidiOut(slot.nType) THEN Joined(wire, Sealed(b)) ELSE wire
              /\ Goto("queue", cycle.i + 1)
              /\ UNCHANGED crashed
    /\ UNCHANGED <<nPortCapacity, hostVars, reader, moved>>

EndCycle ==
    /\ In("queue")
    /\ cycle.i >= nPortCapacity
    /\ cycle' = Idle
    /\ UNCHANGED <<tableVars, hostVars, dequeued, wire, reader, moved, crashed>>

-----------------------------------------------------------------------------
\* What follows a crash is undefined: nothing more is said of it.
Undefined == crashed /\ UNCHANGED vars

HostStep ==
    \/ Connect
    \/ Disconnect
    \/ ConnectFails
    \/ StartLoop
    \/ StopLoop
    \/ \E t \in Types : AllocPort(t)
    \/ \E t \in Types : GrowTable(t)
    \/ KeepPort
    \/ AddPort
    \/ PortAdded
    \/ RegisterFails
    \/ \E i \in Slots : DropPort(i)
    \/ \E i \in Slots : RemovePort(i)
    \/ PortRemoved
    \/ UnregisterFails

CycleStep ==
    \/ DequeueNothing
    \/ Dequeue
    \/ DequeueNull
    \/ Store
    \/ AllDequeued
    \/ EndProcess
    \/ QueueNothing
    \/ Queue
    \/ EndCycle

ClientStep ==
    \/ \E i \in Slots, size \in EventSizes : WriteMidiEvent(i, size)
    \/ \E i \in Slots : ReadMidiEvent(i)

Next == HostStep \/ BeginCycle \/ CycleStep \/ ClientStep \/ Undefined

\* The data loop, once woken, gets to the end of its cycle: the callback returns.
Spec == Init /\ [][Next]_vars /\ WF_vars(CycleStep)

-----------------------------------------------------------------------------
(* Properties *)

\* A cycle gives back what it took: between two cycles every buffer is with the
\* filter and no slot refers to one, whatever buffers the ports had and
\* whatever the host thread did to the table and the connection in between.
BuffersReturned ==
    cycle.at = "idle" => dequeued = {} /\ \A i \in Slots : vPorts[i].pBuffer = NULL

\* A cycle uses ports of the present connection only, never one of an earlier
\* connection that failed after its ports were registered, nor one that is still
\* to be made; except for a slot that a failed unregister_port has left in use.
HandlesAreCurrent ==
    \A i \in Slots :
        cycle.at # "idle" /\ Used(i) => vPorts[i].pHandle = session \/ i \in orphans

\* Dequeue all port buffers: each slot in use has a port to dequeue from.
DequeuedPortExists ==
    cycle.at = "dequeue" /\ cycle.i < nPortCapacity /\ slot.nType # FREE
        => slot.pHandle = session

\* The room write_midi_event grants lies within the buffer, with the header of
\* the sequence still to come, unless the size is so large that sums of it wrap.
GrantedRoomFits ==
    \A i \in Slots :
        IsMidiOut(vPorts[i].nType) =>
            \A b \in vPorts[i].pBuffer : \A o \in DOMAIN b.at :
                b.at[o].size <= Word - MaxSize - 8 => DataEnd(b, o) <= MaxSize

\* The offsets of the events of a kind.
EventsOf(b, kind) == {o \in DOMAIN b.at : b.at[o].kind = kind}

\* No event of another kind needs padding.
OthersAligned(b, kind) ==
    \A o \in DOMAIN b.at : b.at[o].kind # kind => b.at[o].size % 8 = 0

\* A client that reads an input until it is told that there is no more has read
\* each event of its kind that was written to the linked outputs in the last
\* cycle, once and in order, if the events of the other kind it had to skip
\* need no padding.
WrittenEventsAreRead ==
    reader.port # NoInput =>
        \A b \in vPorts[reader.port].pBuffer :
            LET kind == KindOf(vPorts[reader.port].nType)
                sent == EventsOf(b, kind)
                read == Range(reader.got)
            IN  OthersAligned(b, kind) =>
                    /\ \A m, n \in DOMAIN reader.got : m < n => reader.got[m] < reader.got[n]
                    /\ read \subseteq sent
                    /\ \A o \in read, p \in sent : p < o => p \in read
                    /\ reader.st # "OK" => reader.st = "NO_DATA" /\ read = sent

\* A buffer taken from a port comes back to it, or something undefined happened.
BuffersComeBack ==
    \A i \in 0 .. MaxSlots - 1 : i \in dequeued ~> (i \notin dequeued \/ crashed)
=============================================================================
