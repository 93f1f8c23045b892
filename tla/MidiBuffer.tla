----------------------------- MODULE MidiBuffer -----------------------------
(***************************************************************************)
(* The bytes of a MIDI buffer (backend.cpp: write_midi_event,              *)
(* read_midi_event, and the header that on_filter_process adds before the  *)
(* buffer is queued).                                                      *)
(*                                                                         *)
(* A buffer is a sequence POD: its header, then one item per event, made   *)
(* of a control header, the header of a bytes POD and the data, padded.    *)
(* Of the memory, `at' keeps what is in the two headers of each item that  *)
(* was written, by its offset after the header of the sequence: whoever    *)
(* reads a header anywhere else reads data, padding or nothing.            *)
(***************************************************************************)
EXTENDS Integers

CONSTANTS Word,       \* sizes are 32-bit: they count modulo 2^32
          MaxSize     \* maxsize of the memory of an output buffer

ASSUME WordAssumption == Word \in Nat \ {0} /\ Word % 8 = 0
ASSUME MaxSizeAssumption == MaxSize \in 16 .. Word - 8

SequenceHeader == 16    \* spa_pod_sequence: the POD and the body, 8 bytes each
ItemHeader     == 16    \* control_header_t and spa_pod

\* align_size(n, SPA_POD_ALIGN)
AlignUp(n) == ((n + 7) \div 8) * 8

\* chunk->size, pod.size (0: no sequence) and the items.
Blank == [chunk |-> 0, pod |-> 0, at |-> [o \in {} |-> 0]]

-----------------------------------------------------------------------------
\* new_size, which wraps.
NewSize(b, size) == (b.chunk + ((ItemHeader + (AlignUp(size) % Word)) % Word)) % Word

\* Mutant of Overflows: the header of the sequence is forgotten.
OverflowsLate(b, size) == NewSize(b, size) > MaxSize

Overflows(b, size) == NewSize(b, size) + SequenceHeader > MaxSize

\* write_midi_event that was granted its room.
Written(b, kind, size) ==
    [chunk |-> NewSize(b, size),
     pod   |-> b.pod,
     at    |-> [o \in DOMAIN b.at \cup {b.chunk} |->
                   IF o = b.chunk THEN [kind |-> kind, size |-> size] ELSE b.at[o]]]

\* Where the data of an item ends in memory.
DataEnd(b, o) == SequenceHeader + o + ItemHeader + b.at[o].size

\* What on_filter_process writes before it queues the buffer.
Sealed(b) == [b EXCEPT !.pod = 8 + b.chunk, !.chunk = b.chunk + SequenceHeader]

-----------------------------------------------------------------------------
\* `end', from the first item on: what the chunk holds and the POD claims.
ItemsEnd(b) ==
    LET claimed == b.pod + 8
    IN  (IF b.chunk < claimed THEN b.chunk ELSE claimed) - SequenceHeader

IsSequence(b) == b.chunk >= 0 /\ b.pod > 8

\* An item of another kind is skipped by the size of its data, without its padding.
Skip(b, o) == o + ItemHeader + b.at[o].size

\* Mutant of After: the next event is sought before the padding of this one.
AfterUnpadded(b, o) == o + ItemHeader + b.at[o].size

\* The index a reader is left with after an event.
After(b, o) == o + ItemHeader + AlignUp(b.at[o].size)

Outcome(st, o) == [st |-> st, at |-> o]

\* read_midi_event from *index on.  A header read where none was written is
\* "GARBAGE".
ReadEvent(b, kind, index) ==
    LET find[o \in Nat] ==
            IF o + ItemHeader > ItemsEnd(b) THEN Outcome("NO_DATA", o)
            ELSE IF o \notin DOMAIN b.at    THEN Outcome("GARBAGE", o)
            ELSE IF b.at[o].kind = kind     THEN Outcome("OK", o)
            ELSE find[Skip(b, o)]
    IN  IF ~IsSequence(b) \/ index = ItemsEnd(b) THEN Outcome("NO_DATA", index)
        ELSE IF index > ItemsEnd(b)              THEN Outcome("OVERFLOW", index)
        ELSE find[index]

-----------------------------------------------------------------------------
\* What the server makes of the buffers of two ports linked to the same input:
\* the items of both in one sequence (external).
Joined(b, c) ==
    IF b.pod = 0 THEN c
    ELSE LET d == ItemsEnd(b)
         IN  [chunk |-> b.chunk + ItemsEnd(c),
              pod   |-> b.pod + ItemsEnd(c),
              at    |-> [o \in DOMAIN b.at \cup {d + p : p \in DOMAIN c.at} |->
                            IF o \in DOMAIN b.at THEN b.at[o] ELSE c.at[o - d]]]
=============================================================================
