----------------------------- MODULE LatencyRing -----------------------------
(***************************************************************************)
(* The ring buffer that carries latency changes from the real-time thread  *)
(* to the context thread without a lock (ringbuffer.cpp, messages.cpp,     *)
(* set_latency, on_ringbuffer_data_received, update_latency).              *)
(*                                                                         *)
(* A cell stands for four bytes: a message is two cells of header and one  *)
(* of latency.  RING_BUFFER_SIZE is not a multiple of a message, so that   *)
(* messages wrap around the end of the buffer at every offset; the size    *)
(* divides the range of the indices, which wrap around too.  One thread    *)
(* writes: set_latency is called from the process callback.                *)
(***************************************************************************)
EXTENDS Integers, Sequences

CONSTANTS Latencies,    \* the values set_latency is called with
          RingSize,     \* RING_BUFFER_SIZE, in cells
          IndexRange,   \* the indices count modulo this (2^32 bytes)
          Magic, Length,  \* the two cells of a header
          Junk          \* what malloc left in a cell

ASSUME RingAssumption ==
    /\ RingSize \in Nat /\ RingSize >= 3
    /\ IndexRange \in Nat /\ IndexRange % RingSize = 0 /\ IndexRange >= 4 * RingSize
    /\ Latencies \subseteq Nat \ {0}
    /\ {Junk, Magic, Length} \cap Nat = {}

VARIABLES open,         \* the ring is initialised: vBuffer and nSize are set
          cells,        \* vBuffer
          writeIndex, readIndex,
          event,        \* the event of the context loop is signalled
          writer,       \* what set_latency does next
          writing,      \* the latency it sends
          copied,       \* how many cells of its message are in the buffer
          reader,       \* what on_ringbuffer_data_received does next
          header, body, \* the cells it has read
          latency,      \* its local latency
          nLatency,     \* the latency of the filter
          lost,         \* on_connection_lost was called
          sent          \* the last latency accepted, 0 if none (ghost)

writerVars == <<writer, writing, copied>>
readerVars == <<reader, header, body, latency>>
ringVars   == <<open, cells, writeIndex, readIndex, event, writerVars,
                readerVars, nLatency, lost, sent>>

HeaderSize  == 2
MessageSize == 3
GoodHeader  == <<Magic, Length>>
Cell(l, n)  == CASE n = 0 -> Magic [] n = 1 -> Length [] n = 2 -> l

\* Indices wrap; their difference is a signed number.
Wrap(i)      == i % IndexRange
Signed(d)    == IF d >= IndexRange \div 2 THEN d - IndexRange ELSE d
Filled       == Signed(Wrap(writeIndex - readIndex))
At(i)        == cells[i % RingSize]

-----------------------------------------------------------------------------
RingInit ==
    /\ open = FALSE
    /\ cells = [i \in 0 .. RingSize - 1 |-> Junk]
    /\ writeIndex = 0 /\ readIndex = 0
    /\ event = FALSE
    /\ writer = "idle" /\ writing = 0 /\ copied = 0
    /\ reader = "idle" /\ header = << >> /\ body = 0 /\ latency = 0
    /\ nLatency = 0
    /\ lost = FALSE
    /\ sent = 0

\* ringbuffer::init and the reset of nLatency, in make_connection.
Open ==
    /\ ~open
    /\ open' = TRUE
    /\ cells' = [i \in 0 .. RingSize - 1 |-> Junk]
    /\ writeIndex' = 0 /\ readIndex' = 0
    /\ event' = FALSE
    /\ nLatency' = 0
    /\ lost' = FALSE
    /\ sent' = 0
    /\ UNCHANGED <<writerVars, readerVars>>

\* ringbuffer::destroy in close_connection, when both loops are stopped.
Destroy ==
    /\ open
    /\ writer = "idle" /\ reader = "idle"
    /\ open' = FALSE
    /\ UNCHANGED <<cells, writeIndex, readIndex, event, writerVars, readerVars,
                   nLatency, lost, sent>>

-----------------------------------------------------------------------------
(* set_latency: write_message, ringbuffer::write *)

\* Mutant of Refused: there must only be some room.
RefusedWhenFull == ~open \/ Filled >= RingSize

\* A closed ring has no room at all (STATUS_TOO_BIG), a full one none at the
\* moment (STATUS_RETRY).
Refused == ~open \/ RingSize - Filled < MessageSize

SetLatency(l) ==
    /\ writer = "idle"
    /\ ~Refused
    /\ writer' = "copy"
    /\ writing' = l
    /\ copied' = 0
    /\ UNCHANGED <<open, cells, writeIndex, readIndex, event, readerVars, nLatency, lost, sent>>

\* Mutant of CopyCell: a message that wraps is written past the end of the buffer.
CopyCellUnwrapped ==
    /\ writer = "copy"
    /\ copied < MessageSize
    /\ cells' = IF (writeIndex % RingSize) + copied < RingSize
                  THEN [cells EXCEPT ![(writeIndex + copied) % RingSize] = Cell(writing, copied)]
                  ELSE cells
    /\ copied' = copied + 1
    /\ UNCHANGED <<open, writeIndex, readIndex, event, writer, writing, readerVars,
                   nLatency, lost, sent>>

\* The message goes to the cells behind the write index, around the end.
CopyCell ==
    /\ writer = "copy"
    /\ copied < MessageSize
    /\ cells' = [cells EXCEPT ![(writeIndex + copied) % RingSize] = Cell(writing, copied)]
    /\ copied' = copied + 1
    /\ UNCHANGED <<open, writeIndex, readIndex, event, writer, writing, readerVars,
                   nLatency, lost, sent>>

\* Mutant of Publish: the write index does not wrap.
PublishUnwrapped ==
    /\ writer = "copy"
    /\ copied = MessageSize
    /\ writeIndex' = writeIndex + MessageSize
    /\ writer' = "signal"
    /\ sent' = writing
    /\ UNCHANGED <<open, cells, readIndex, event, writing, copied, readerVars, nLatency, lost>>

\* spa_ringbuffer_write_update.
Publish ==
    /\ writer = "copy"
    /\ copied = MessageSize
    /\ writeIndex' = Wrap(writeIndex + MessageSize)
    /\ writer' = "signal"
    /\ sent' = writing
    /\ UNCHANGED <<open, cells, readIndex, event, writing, copied, readerVars, nLatency, lost>>

\* Mutant of Signal: the event is forgotten.
SignalForgotten ==
    /\ writer = "signal"
    /\ writer' = "idle"
    /\ UNCHANGED <<open, cells, writeIndex, readIndex, event, writing, copied, readerVars,
                   nLatency, lost, sent>>

\* pw_loop_signal_event.
Signal ==
    /\ writer = "signal"
    /\ event' = TRUE
    /\ writer' = "idle"
    /\ UNCHANGED <<open, cells, writeIndex, readIndex, writing, copied, readerVars,
                   nLatency, lost, sent>>

-----------------------------------------------------------------------------
(* on_ringbuffer_data_received: read_message, ringbuffer::read *)

Receive ==
    /\ open
    /\ reader = "idle"
    /\ event
    /\ event' = FALSE
    /\ latency' = nLatency
    /\ reader' = "header"
    /\ UNCHANGED <<open, cells, writeIndex, readIndex, writerVars, header, body,
                   nLatency, lost, sent>>

\* What ringbuffer::read answers when it is asked for count cells.
Answer(count) ==
    IF Filled < 0 THEN "UNDERFLOW"
    ELSE IF Filled > RingSize THEN "OVERFLOW"
    ELSE IF Filled = 0 THEN "NO_DATA"
    ELSE IF Filled < count THEN "CORRUPTED"
    ELSE "OK"

\* The header is copied out, then given back to the writer, ...
ReadHeader ==
    /\ reader = "header"
    /\ LET answer == Answer(HeaderSize)
       IN  /\ reader' = IF answer = "OK" THEN "free header"
                      ELSE IF answer = "NO_DATA" THEN "apply" ELSE "corrupted"
           /\ header' = IF answer = "OK" THEN <<At(readIndex), At(readIndex + 1)>> ELSE header
    /\ UNCHANGED <<open, cells, writeIndex, readIndex, event, writerVars, body, latency,
                   nLatency, lost, sent>>

\* ... and checked: checksum, length and type.
FreeHeader ==
    /\ reader = "free header"
    /\ readIndex' = Wrap(readIndex + HeaderSize)
    /\ reader' = IF header = GoodHeader THEN "body" ELSE "corrupted"
    /\ UNCHANGED <<open, cells, writeIndex, event, writerVars, header, body, latency,
                   nLatency, lost, sent>>

ReadBody ==
    /\ reader = "body"
    /\ LET answer == Answer(MessageSize - HeaderSize)
       IN  /\ reader' = IF answer = "OK" THEN "free body"
                      ELSE IF answer = "NO_DATA" THEN "apply" ELSE "corrupted"
           /\ body' = IF answer = "OK" THEN At(readIndex) ELSE body
    /\ UNCHANGED <<open, cells, writeIndex, readIndex, event, writerVars, header, latency,
                   nLatency, lost, sent>>

\* Mutant of FreeBody: the latency of the message is dropped.
FreeBodyDrops ==
    /\ reader = "free body"
    /\ readIndex' = Wrap(readIndex + MessageSize - HeaderSize)
    /\ reader' = "header"
    /\ UNCHANGED <<open, cells, writeIndex, event, writerVars, header, body, latency,
                   nLatency, lost, sent>>

\* The body is given back to the writer, and its latency becomes the one to apply.
FreeBody ==
    /\ reader = "free body"
    /\ readIndex' = Wrap(readIndex + MessageSize - HeaderSize)
    /\ latency' = body
    /\ reader' = "header"
    /\ UNCHANGED <<open, cells, writeIndex, event, writerVars, header, body,
                   nLatency, lost, sent>>

\* Nothing to change.
Ignore ==
    /\ reader = "apply"
    /\ latency = nLatency
    /\ reader' = "idle"
    /\ UNCHANGED <<open, cells, writeIndex, readIndex, event, writerVars, header, body, latency,
                   nLatency, lost, sent>>

\* Mutant of UpdateLatency: the new latency is not kept.
UpdateLatencyForgets ==
    /\ reader = "apply"
    /\ latency # nLatency
    /\ reader' = "idle"
    /\ UNCHANGED <<open, cells, writeIndex, readIndex, event, writerVars, header, body, latency,
                   nLatency, lost, sent>>

\* update_latency: the filter takes the new latency, ...
UpdateLatency ==
    /\ reader = "apply"
    /\ latency # nLatency
    /\ nLatency' = latency
    /\ reader' = "idle"
    /\ UNCHANGED <<open, cells, writeIndex, readIndex, event, writerVars, header, body, latency,
                   lost, sent>>

\* ... or a step of it fails, before or after pw_filter_update_params, and the
\* connection is reported lost.
UpdateFails ==
    /\ reader = "apply"
    /\ latency # nLatency
    /\ nLatency' \in {nLatency, latency}
    /\ lost' = TRUE
    /\ reader' = "idle"
    /\ UNCHANGED <<open, cells, writeIndex, readIndex, event, writerVars, header, body, latency, sent>>

-----------------------------------------------------------------------------
ReaderStep == Receive \/ ReadHeader \/ FreeHeader \/ ReadBody \/ FreeBody
              \/ Ignore \/ UpdateLatency \/ UpdateFails
WriterStep == CopyCell \/ Publish \/ Signal

RingNext ==
    \/ Open \/ Destroy
    \/ \E l \in Latencies : SetLatency(l)
    \/ WriterStep
    \/ ReaderStep

\* The context loop dispatches its events, and set_latency does not block.
RingFairness == WF_ringVars(WriterStep) /\ WF_ringVars(ReaderStep)

RingSpec == RingInit /\ [][RingNext]_ringVars /\ RingFairness

-----------------------------------------------------------------------------
(* Properties *)

RingTypeOK ==
    /\ open \in BOOLEAN /\ event \in BOOLEAN /\ lost \in BOOLEAN
    /\ cells \in [0 .. RingSize - 1 -> {Junk, Magic, Length} \cup Latencies]
    /\ writeIndex \in 0 .. IndexRange - 1
    /\ readIndex \in 0 .. IndexRange - 1
    /\ writer \in {"idle", "copy", "signal"}
    /\ writing \in Latencies \cup {0}
    /\ copied \in 0 .. MessageSize
    /\ reader \in {"idle", "header", "free header", "body", "free body", "apply", "corrupted"}
    /\ latency \in Latencies \cup {0}
    /\ nLatency \in Latencies \cup {0}
    /\ sent \in Latencies \cup {0}

\* read_message never finds the ring out of step: however the two threads
\* interleave and wherever a message wraps, no header is torn, no body is missing
\* and the indices never cross, so the connection is never given up as corrupted.
NeverCorrupted == reader # "corrupted"

\* The writer never touches a cell the reader has not given back: the message it
\* copies fits between the two indices.
WriterStaysAhead ==
    /\ Filled \in 0 .. RingSize
    /\ writer = "copy" => Filled + MessageSize <= RingSize

\* No message is stranded in the ring: when there is something to read, the event
\* is signalled, or about to be, or the reader is still looking.
EventCoversData ==
    open /\ Filled > 0 =>
        \/ event
        \/ writer = "signal"
        \/ reader \notin {"idle", "apply"}

\* The last latency set_latency accepted takes effect, unless a later one, a
\* failure or a disconnection comes first.  The handler applies nothing before it
\* has found the ring empty: a writer that never pauses could keep it reading.
LatencyApplied ==
    <>[](writer = "idle") =>
        \A l \in Latencies :
            (open /\ sent = l) ~> (nLatency = l \/ sent # l \/ lost \/ ~open)

\* The messages in the buffer, from the one being read on.
UnreadFrom == IF reader = "body" \/ reader = "free body" THEN HeaderSize ELSE 0
InRing == [n \in 1 .. (Filled + UnreadFrom) \div MessageSize |->
              At(readIndex + IndexRange - UnreadFrom + MessageSize * n - 1)]

\* The ring delivers what it accepted: whole, in order, exactly once.
Queue == INSTANCE LatencyQueue WITH
            queue <- IF open THEN InRing ELSE << >>,
            seen <- IF reader = "idle" THEN (IF open THEN nLatency ELSE 0) ELSE latency,
            current <- IF open THEN nLatency ELSE 0,
            lost <- open /\ lost
ImplementsQueue == Queue!QueueSpec
=============================================================================
