# lsp-audio-pipewire-lib in TLA+

A model of the PipeWire backend of LSP plug-ins (`src/src/main`, the headers under
`src/include`), checked with TLC on small instances and, all but liveness, proved with TLAPS
for every instance. All line numbers are those of `src/src/main/backend.cpp` unless a file is
named.

## 1. The system

The library gives a host (the *client*) a connection to a PipeWire server: it opens a
filter node, gives it ports, calls the client's `on_process` for each audio cycle, and
tells the client what happens to the connection through callbacks.

Three threads of the program and one external process take part:

* the **host thread** calls the API (`connect`, `register_port`, ...), takes the lock of
  the PipeWire thread loop where it talks to the server, and sleeps in
  `pw_thread_loop_wait` or in `mutex_wait` until another thread wakes it;
* the **context thread** (`pw_thread_loop`) dispatches what the server sends
  (`on_core_done`, `on_registry_event_global`, `on_filter_state_changed`,
  `on_ringbuffer_data_received`) with the loop lock held;
* the **data loop** (`pw_data_loop`) runs `on_filter_process`, which takes no lock and may
  call `set_latency`;
* the **server** answers requests and announces objects, in order, and may go away.

### Inventory

| Component | Code | State | Operations | What makes it correct | Module |
|---|---|---|---|---|---|
| Port table | 1026-1128, 1989-2069 | `vPorts`, `nPortCapacity`, `nPortFirst` | `register_port`, `unregister_port` (offline), `find_port`, `alloc_port`, `free_port` | identifiers are stable, names unique, a free slot is always found again | `PortTable`, `PortDirectory` |
| Core synchronisation | 812-846, 1545-1562 | `nSyncRequestId`, `nSyncResponseId`, `nSyncError`, the loop lock | `sync_core`, `on_core_done`, `on_core_error` | a synchronisation is a barrier; no wakeup is lost; calls return | `SyncCore` |
| Ports of a connected backend | 896-1128, 1486-1509, 1722-1742, `impl/mutex.h` | the above, `pHandle`, `sFullId`, `nId`, `pMutex` | `register_port`, `unregister_port`, `register_ports`, `unregister_ports`, `wait_all_ports_registered`, `mutex_wait` | only an `unregister_port` that fails to synchronise leaves anything half done; an active port is announced; waits end | `PortRegistration` |
| Lifecycle and callbacks | 217-703, 705-810, 860-879, 1627-1720 | `pFilter`, the loops, `bActivated`, `pCallbacks` | `connect`, `disconnect`, `destroy`, `activate`, `deactivate`, `close_connection`, `update_latency`, `update_sample_rate` | every failure path closes everything; callbacks keep their order | `Lifecycle`, `ClientSession` |
| Latency ring | `ringbuffer.cpp`, `messages.cpp`, 848-858, 1925-1962 | `sRing`, `vBuffer`, the event, `nLatency` | `init`, `destroy`, `read`, `write`, `set_latency`, `on_ringbuffer_data_received` | messages arrive whole, in order; the last one is applied | `LatencyRing`, `LatencyQueue` |
| Registry | `registry.cpp` | sorted arrays of nodes, ports, clients, devices, ... by identifier | `process_add`, `process_remove`, `process_metadata`, lookups by name | it mirrors the server; unique names lead to their nodes | `Registry` |
| Links | 1144-1232, 1906-1910, `registry.cpp` 945-966 | none of its own | `connect_ports`, `disconnect_ports`, `find_link`, `on_link_error` | what a call reports is what happened; a link outlives the call | `Links`, `Backend` |
| Process cycle | 1769-1884 | `pHandle` and `pBuffer` of each slot | `on_filter_process`, the buffer accessors | every buffer dequeued is queued back; no slot is used half-made | `ProcessCycle` (without the read-only accessors and `sIOPosition`) |
| MIDI buffer | 1268-1385, 1866-1879 | the headers in a buffer | `read_midi_event`, `write_midi_event` | what is written is read back, within the buffer | `MidiBuffer`, used by `ProcessCycle` |
| Dictionary | `dictionary.cpp` | sorted array of items, cached string | `put`, `set`, `swap`, lookups | sorted and unique | left out |
| Metadata proxy | 1412-1437, 1564-1586 | `pMetadata`, its hooks | bind, `on_metadata_destroy`, `on_metadata_removed`, `on_metadata_property` | defaults come from a bound metadata | `Registry` |
| Parameters | `pod.cpp` | none | encoding of format and latency | pure encoding by the SPA builder | left out |
| Thread utilities | 1588-1623 | none | delegation to the previous implementation | nothing can change | left out |
| Factory, exports, build | `factory.cpp`, `exports.cpp`, `src/src/export`, `make` | none | entry points | nothing can change | left out |

How they interact: `connect` opens the connection, then registers the ports of the table,
calls the client, activates and waits; every one of these synchronises with the server.
`register_port` of a connected backend does the same for one port. The registry event of
the context thread completes it by writing `nId` and notifying `pMutex`. The data loop
feeds the latency ring, and the context thread empties it and restarts the data loop. What
is hard to test lies between these threads: each hazard known to us is listed in
`PROJECT.json` at its line, with the properties that would catch it.

## 2. The modules

### `PortDirectory`, `PortTable`, `MCPortTable`

`PortDirectory` is what the port API promises: a map from identifiers to named ports, where
a registration adds one entry under a fresh identifier or is refused with a reason.
`PortTable` is the code: the array, its capacity, and the hint `nPortFirst`. Each API call is
one action; its steps are operators named after the functions: `AllocPort`, `AllocNoMemory`
(`realloc` fails) and `AllocNoSlot` (the search runs off the end of a table that was not
grown) are the three outcomes of `alloc_port`; `FreePort` is `free_port`, `Matches` is
`find_port`, and `Rejection` lists the argument checks in their order. Names and flags are
model values. `RegisterPort` leaves the filter out: this is the table of a backend that is
not connected. `MCPortTable` adds the symmetry of names.

`realloc` may fail at any time (`AllocNoMemory`), and always does beyond `MaxSlots`, the
bound of the model. The refinement maps the directory to the used slots of the table.

### `SyncCore`

Any number of host threads call `sync_core`, with requests before it, under the loop lock.
`pc[h]` is where thread `h` is; "waiting" is sleep in `pw_thread_loop_wait` without the
lock, "woken" is after the signal and before the lock is taken again. One log stands for the
connection in both directions: a request is served, then its events are dispatched
(`served`, `handled`), in order. The sequence number of a sync is its position in the log.
`OnCoreDone` is `on_core_done`; `pw_thread_loop_signal` wakes every thread that waits.
`SpuriousWakeups` adds the wakeups POSIX permits: a thread woken by one is "startled", and
differs from one that is woken only in what the properties expect of it. `Breakable` lets the
server go away. `mark` (the sync a thread itself asked for) and `result` are read by properties only.

### `PortRegistration`

It extends both modules above: the steps of `PortTable` inside the calls that `SyncCore`
makes wait. `step` is where the current call of the one host thread is; a step that needs
the loop first takes `Lock(Host)`, and one that synchronises goes through `RequestSync`,
the wait and `FinishSync`. `handle` is `pHandle` and `sFullId`, which the code sets
and clears together (0 is NULL, otherwise the request that made the port). `nId` is the identifier the registry has
announced for a slot, told by the request that made the port it belongs to, or one of `SPA_ID_INVALID` and memory that
`realloc` left undefined; the event names a port and not a slot (1498), so that the identifier and the handle of a slot may be of
different requests. `before` (ghost) keeps which slots were used, and their handles, when the current call began. `connect` is taken apart between `ConnectCall` and `ActivateCall`:
in between, `on_connected` runs and may register ports. `mutex_wait` (`asleep`) gives up
`pMutex`, but not the loop lock of `register_port`, so no event can end that wait. A wait
times out (`TimeOut`) only when the others can do nothing more (`OthersAreDone`): a
second is long for the context thread. `LateEvents` lets the registry event of a port trail
the answer to the sync that follows its request.

### `ClientSession`, `Lifecycle`

`ClientSession` is the order in which the library calls back: `on_connected`, `on_activated` and
`on_deactivated` come once each and in this order, nothing but a lost connection follows
a callback that was refused, `on_disconnected` ends a session that was established, a failed connect
reports `on_connection_lost` if the client had heard of the connection at all, and nothing comes
outside a session. The client of `test/mtest/client.cpp` asserts this order as long as the connection is not lost. It takes a
lost connection for a disconnected one (`client.cpp:248`) and asserts in each callback that it is connected (84, 236, 257), while the
library goes on with the session: the two actions `TellAfterLoss` and `EndDisconnectedAfterLoss` are these callbacks, kept apart from
those that the client expects.

`Lifecycle` is the code. A step of the host thread is a section under the loop lock up to the
wait of a `sync_core`, or a callback; synchronisation and the wait for ports end either way
here. Between two steps the context thread may dispatch a filter error (`FilterError`), a
new sample rate (`UpdateSampleRate`) or a new latency (`UpdateLatency`), both of which
restart the data loop or fail half-way (`HalfRestarted`), and the data loop may begin
and end a process callback. `filter` is the state of `pFilter`; a filter that was
disconnected is never active again. `pw_data_loop_stop` joins the loop: an action that calls
it waits for `~processing`. `close_connection` is two steps, because it gives the lock up
between destroying the filter and stopping the context thread; a latency event dispatched
in between finds `pFilter` NULL (`UpdateWithoutFilter`), after which behaviour is
undefined (`crashed`) and nothing more is said of it.

### `Links`, `Backend`

`objects` are the ports and links the server has, `mirror` those the registry of the client knows;
`requests` and `events` are on their way, in order. `ConnectPorts` and `DisconnectPorts` are the two
calls up to the wait of `sync_core`, `LinkSynced` is its end with what follows it, and `LinkReturns` the return;
`LinkRefused` is every return before anything is sent. A request to link names each port by its node and its number there,
as the code does, and is refused or served by whatever port is at that place then; a request to
unlink names an identifier. The server uses an identifier again as soon as it is free. How names lead to ports is in
`Registry`, and here a place stands for the name of its port.

`Backend` composes `Links` with `Lifecycle`: links are made and removed between the calls
of the lifecycle, while the data loop and the context thread run and the server may go away
or the connection be reported as lost. The other clients rest while the host thread connects or disconnects, since
nothing reads the registry then that `Registry` and `PortRegistration` do not model.

### `MidiBuffer`, `ProcessCycle`

`MidiBuffer` is the layout of a MIDI buffer: of its bytes it keeps the headers of the items that were
written, at their offsets. `NewSize` is the arithmetic of `write_midi_event` in words that wrap;
`ReadEvent` the loop of `read_midi_event`, which comes out at "GARBAGE" if it takes for a header what is none.
`Joined` is external: the server puts the items of all outputs that are linked to an input in one sequence.

`ProcessCycle` is `on_filter_process` against the host thread. A cycle is taken apart where it reads
and writes a slot: `Dequeue` reads `nType` and `pHandle`, `Store` writes `pBuffer`, through a pointer
that a `realloc` in between makes invalid (`moved`); `Queue` gives the buffer back. `pHandle` is the
number of the connection it was made for (0 is NULL), so that a handle that is stale shows;
`pBuffer` is a set of at most one buffer. In the callback the client writes events to its
outputs and reads an input from its start until it is told that there is no more; the server has
linked each output to each input. `Live` says whether the client registers
ports while the data loop runs. Calls are taken apart at the waits of `sync_core`, which succeed or
fail; `orphans` (ghost) are slots that a failed `unregister_port` has left in use without a port.
`crashed` stands for undefined behaviour, after which nothing more is said.

### `LatencyQueue`, `LatencyRing`

`LatencyQueue` is a queue of latencies whose last element taken is applied. `LatencyRing` is
`ringbuffer::read` and `write` at the grain of the memory they share: each cell copied and
each index published is a step, a message is two reads, the header and the body. Indices
count modulo `IndexRange` (2^32 in the code) and their difference is signed. A cell stands
for four bytes, so a message is three cells; the size of the ring is no multiple of a
message, as in the code. The refinement reads the queue out of the cells themselves.

### `Registry`, `MCRegistry`

`store` holds the five arrays; `StorageIndexOf` is the binary search, `StoreObject` and
`RemoveById` what the code does with its result, index for index. A lookup returns a set of at most
one object, empty for NULL: `FirstOf` is the loop over a storage that stops at the first match. A name is a sequence:
`<<"a">>` is "a", and `<<"a", 3>>` both the name "a-3" and what `make_unique_id` makes of
"a" for object 3, so that a made name can meet one that is announced. `FullId` joins the name of a node and that of a
port with `Colon`, a character that either may contain, and `FindPort` cuts what it is given at the last one, whatever it was joined from
(`Separator`, `NodePart`, `PortPart`). An `Announce` is the whole
of `on_registry_event_global` for a node or another object, up to its port part, which is
`PortAnnounced` in `PortRegistration`: the name of the client is looked up, the object
stored, and the unique name of the node taken over. `clientName` is the prefix of every full
port name. `AnnounceRefused` is every way in which `process_add` keeps nothing: a property is
missing, memory is short, the type is not one it stores. `metadata` is `pMetadata` with its hooks: the default metadata
is bound when it is announced, its properties are the defaults, and after `MetadataRemoved` no other is bound. `announced` is what the server has
announced (ghost), `None` for what was refused. `MCRegistry` chooses the properties of the objects.

### Mutants

A definition named in a comment "Mutant of X" is X with a bug someone could have made: a
missing reset, a compare the wrong way round, a skipped rollback. It is used by no
specification. Putting it in the place of X violates the property it was written
for, which shows that the property depends on that code. `PROJECT.json` lists the pairs.

## 3. The runs

| Run | Instance | Shows |
|---|---|---|
| `PortTable` | 5 names, 8 slots, symmetry | the table stays sound, implements the directory, and runs out of memory only when full |
| `PortTableFragmented` | the same | **violated**: a full table that could grow refuses a port |
| `SyncCore` | 2 threads, log of 5, spurious wakeups, may break | barrier, no lost wakeup, no stale answer taken for a later one, failures explained, calls return while the server lives |
| `SyncCoreBroken` | 1 thread, log of 3 | **violated**: a call does not return when the server goes away |
| `PortRegistration` | 2 names, 4 slots, 4 calls, late events, spurious wakeups, may break | what a call leaves when it succeeds and when it fails, waits are sound and end |
| `PortRegistrationResult` | 2 calls | **violated**: a failed registration returns what looks like a port |
| `LatencyRing` | 2 latencies, 8 cells, indices modulo 32 | the ring is a queue, and the last latency takes effect |
| `Lifecycle` | module `Backend`; an output and an input, 4 identifiers | failures leave nothing half-done, callbacks keep their order, calls on links report what happened |
| `Registry` | 3 identifiers, 4 kinds of foreign nodes, 3 kinds of ports, links, clients, devices | the registry mirrors the server, and names lead where they should |
| `ProcessCycle` | 3 slots, 2 connections, 4 types, 3 sizes of events, buffers of 72 bytes, words of 256 | buffers come back, handles are current, events fit and are read as written |
| `ProcessCycleLive` | 4 slots in tables of 2, 1 connection, ports come while the loop runs | **violated**: a cycle dequeues from a port that is not there yet |
| `LifecycleTimedOut` | module `Lifecycle`, complete | **violated**: `on_process` may run after `on_deactivated` |

**Bounds.** `PortTable`: the first table has 4 slots and the second 8, so five names fill the
first, force the growth, and leave holes on both sides of the hint; nothing depends on a
third growth, and the proofs cover every size. `SyncCore`: two threads are needed for one to
overtake the other; five entries hold two overlapping calls with a request each and one more sync.
`FailsOnlyWhenOvertaken` speaks of threads that a signal has woken, whatever wakes the others. `PortRegistration`: four calls are enough
for connect, register, unregister and register again, or for two sessions (connect,
disconnect, connect, disconnect); `MaxRequests` is never reached by four calls. The table is
not grown beyond 4 slots here: growth is in `PortTable`. `LatencyRing`: eight cells hold two messages and the
third wraps, at every offset in turn; indices modulo 32 wrap four times
as often as the ring; the difference of indices is far from the sign bit, as 2^32 is from the
size of the ring in the code. `Lifecycle` has no bound of its own; of links,
one output and one input are enough for a link to be made, refused and removed on both sides, and four identifiers for
one to be used again before the client knows. `MaxEvents` (2) and `MaxRequests` (0) bound what a new call finds on its way: the
leftovers of one call that failed.
`ProcessCycle`: three slots hold two outputs and an input linked to them, of one kind or two; two connections are what a
stale handle takes; a buffer of 72 bytes holds two events and not a third; events of 3 and 8 bytes need
padding and none, and one of 250 wraps. The table is enlarged once, from nothing, while the loop stands; a table
that grows while it is walked is in `ProcessCycleLive`. The client writes before any event of the last cycle is on the wire, and reads one input per callback:
reading changes no buffer and writing no input.
`Registry`: three objects in one array exercise every branch of the search and of the insertion; three
nodes are what it takes to make a name with an index ("a", "a-3", then another "a" as number
3); a foreign node, the client's own and a port of it are what a confusion of names takes. A port called "x:x" and a node of the
client called "p:x" have colons on either side of the one between node and port.
Identifiers are used again without limit.

**Deadlock** is checked in `PortTable`, `LatencyRing`, `Registry`, `ProcessCycle` and `Lifecycle` (whose `Over` step, like
`Undefined` of `ProcessCycle`, stands for a backend that is no more). In `SyncCore` and `PortRegistration` it is not, because a host whose server
went away is stuck (see the findings) and the number of calls is bounded; there the
liveness properties say that nobody is stuck otherwise.

**Fairness.** A host thread never has to begin a call. A call that has begun goes on, the
server serves, the context thread dispatches: weak fairness, since these are threads the
kernel schedules and an event loop. In `Lifecycle` the host is given *strong* fairness for
`Proceed`, because joining the data loop is possible only between two process
callbacks, over and over: `pw_data_loop_stop` asks the loop to end before it joins it, so the
loop does not begin new callbacks for ever. A process callback returns (weak fairness, in `ProcessCycle` of every step of a cycle). In
`LatencyRing`, `LatencyApplied` assumes that `set_latency` is not called for ever without a
pause: the handler applies nothing until it has found the ring empty.

## 4. Findings

1. **A full table is not always grown** (2020, 2051). `alloc_port` grows the table only if the
   hint is at its end. After a slot in a full table is freed and taken again, the hint is
   lower: the next registration searches the rest, finds nothing, moves the hint to the end
   and returns `-STATUS_NO_MEM` without having asked for memory. A second attempt
   succeeds (`RetryGrows`, proved).
2. **A broken connection hangs the caller** (1558). `sync_core` and its callers handle an
   `-EPIPE`, but nothing sets `nSyncError`, and `on_core_error` does not signal the loop.
3. **A failed registration may return a positive number** (917, 1087), which callers take
   for a port.
4. **`on_process` after `on_deactivated`** (657). A connect that times out waiting for its
   ports says `on_deactivated` while the data loop is running; it ends only in
   `close_connection`.

5. **A port in use without a handle** (1783). `alloc_port` marks the slot as used before the port is
   added to the filter, and `unregister_port` clears the handle before the slot is freed; the process
   callback takes no lock, looks at the mark, and passes the handle on unchecked. A client that registers or
   unregisters ports while it is active, which the code provides for (1082), may have its data loop
   dequeue from NULL. If it changes ports only while the data loop is stopped, this cannot happen
   (`EveryHandleCurrent`, proved), but for a slot that a failed `unregister_port` left behind.

Seen while modelling and not stated as a violated property, since no document of the
repository says otherwise: a latency event between the two halves of `close_connection`
uses a NULL filter (555, 1691); `register_port` waits for a registry event with the loop
locked, so that one that is late is never seen (1085); a port whose unregistration failed
keeps its slot and its name without a handle (961-964), and makes every later wait time out (1116), until it is unregistered again:
`OnlyUnregisterHalfDone` shows that this is the only thing a call leaves half done, and it happens on a live connection too, where a synchronisation
may fail after a spurious wakeup; a registry event that trails a registration which was given up fills in the identifier of
a new port of the same name (1498), and the new registration returns before its own port is announced, though line 1082 says
"Wait until all ports have been successfully registered" (`ActivePortsAnnounced` says when); after `on_connection_lost`, which may come
at any time, a client is still told `on_activated`, `on_deactivated` and `on_disconnected`, where `client.cpp` asserts at 84, 236 and 257 that
it is `connected`, which it has cleared at 248; `register_port` accepts a name with a colon (1026-1036), and `find_port` cuts the full name at the last
one (`registry.cpp:917`), so that such a port is looked for under another node and not found;
`store_object` compares an index with an identifier (`registry.cpp:268`) under the comment
"Replace value if matches", and replaces nothing: an object announced twice would be stored
twice, which a server does not do; a client that kept its own name, because no node of that
name was there when its node was announced, can later find the ports of another node
under it (1410); the default metadata is bound once per connection, so that after a session manager was
restarted the default devices stay what they were (1418, 1571); `disconnect_ports` destroys the identifier it found,
which may by then be another object's (1229), and is not told when the server refuses; a `connect_ports`
whose synchronisation failed reports an error, and the link may still be made; neither checks for a connection (1151); `read_midi_event` skips
an event of another type by its size without padding (1327), so that the events behind it are misread unless that
size is a multiple of 8, and ignores the offset of the chunk; sizes within 16 bytes and a buffer of 2^32
wrap and pass the check of `write_midi_event` (1356); the second loop of a cycle does not check `n_datas` (1870), as
the first does (1788), and `get_audio_buffer` accepts the index `n_datas` (1262).

## 5. The proofs

Everything below is proved by TLAPS for every value of the constants that satisfies the
assumptions named in the modules: those on sizes (`MaxSlots`, the size of a ring, the width of a word), those that keep
apart values that must differ (`FREE` and the types, `NoId`, `Gone` and the identifiers), and those listed
with a component. Every safety property that a run finds to hold is also a theorem, listed in `PROJECT.json`.

**`PortTable_proofs`**. The invariant `TableInv` is the conjunction of the table's properties,
and inductive. That a registration fails for lack of memory only in a full table needs the hint:
a failed search has seen only the slots from the hint on, and `NothingFreeBelowHint` says
that those before it are taken. The step lemmas follow the code: what the enlarged table
contains, what a successful `alloc_port`, a failed one and a `free_port` preserve. `Sound` is the part of the
invariant that says nothing of the last result: calls that are made of several steps keep it too. From
the invariant: `TableTypes`, `PortNamesUnique`, `FreeSlotFound`, `RetryAsksForMemory`, and
`TableImplementsDirectory`, that every step of the table is one of the directory.

**`SyncCore_proofs`**. For any set of threads and any log. The properties are not inductive
alone; `SyncInv` adds that the current request is the last sync of the log (`LastSync`), that its
answer, once dispatched, stays the response (`AnswerKept`), that nobody waits for a later
request (`MarksBehind`), and that a signalled thread finds its answer or has been overtaken
(`WokenForAReason`). From it: `SyncTypes`, `SyncBarrier`, `NoLostWakeup`,
`FailureExplained`.

**`PortRegistration_proofs`**. For any names and flags, any size of the table, any number of calls, with late events or without.
`RegInv` joins `Sound` of the table and `SyncInv` of the synchronisation, whose step lemmas are used again as they
are, to what a call has done by each of its steps: where it is with the lock (`PhaseInv`), that the table differs
from the one at its start by the current slot and no other (`CallInv`), which identifiers may still be what `realloc` left
(`IdsDefined`), which port may be attached and not announced (`AnnouncedBut`), and of which requests the identifiers are (`IdsFit`: each is of a request for
a port of the slot's name that was announced, and of an earlier one than the handle's if it is not the same). What a call leaves
(`OnlyUnregisterHalfDone`) is so only at its end; in between it is `CallInv` that says what there is to undo. From it:
`RegTypes`, `CallOutcomes`, `TableSound`, `PortsAnnounced`, `IdsRead`. `HostAssumption` says that there is one host thread.

**`Lifecycle_proofs`**. `LifeInv` says for each step of a call where it finds the threads
(`ThreadInv`) and what the client has been told (`ClientInv`); what `ConnectedOrClosed`
promises between calls is earned step by step within one, against a context
thread that restarts the data loop and a data loop that runs. From it:
`LifecycleTypeOK`, `CallsLeaveNothingHalfDone`, `DisconnectSilences`, `SilenceIsReported`, and
`LifecycleImplementsSession`, where each step is a step of `ClientSession`, after a loss as well as before one, or leaves it
unchanged.

**`Backend_proofs`**. For any places and identifiers and any number of requests and events on their way.
What the registry of the client holds and what is the case differ as long as events are on their way;
`MirrorFollows` of `LinkInv` says how: the last event about an identifier says what has become of it, and where there is none the two
agree. `CallInv` follows the request of a call to the server and its answer back: not served yet (`Asked`), served with an outcome that a coming error betrays
(`Decided`), or answered behind all that is about its link (`Answered`), so that nothing about it is left
when the call returns. From it: `LinkMade` (`LinkStands`) and `LinkRemoved` (`LinkGone`), against ports, links and clients that come
and go, identifiers used again, refusals and a connection that breaks. `BackendImplementsLifecycle` shows that
each step of the composition is a step of `Lifecycle` or leaves it unchanged, fairness included, so that all
of `Lifecycle_proofs` holds of it (`LifeOfBackend`).

**`LatencyRing_proofs`**. For every size of the ring that holds a message, every range of indices that it divides and that is four times
as large (`RingAssumption`: the code has 2^32 and a power of two), and any latencies. `RingInv` describes what lies
between the two indices, which is what no property says alone: whole messages, the first perhaps without the header the reader has
taken (`WholeMessages`), cell by cell what a message has there (`Contents`), and behind them what the writer has copied and
not yet published (`Copied`). Indices wrap at one number and cells at another: the first lemmas are about remainders,
and show that a wrapped index leads to the same cell and that the signed difference of two indices is the number of cells in use. From it: `RingTypes`,
`MessagesWhole`, `NothingOverwritten`, `NothingStranded`, and `RingImplementsQueue`, where the step that publishes the write index
appends to the queue, the one that frees a body takes from it, and all others leave it as it is.

**`Registry_proofs`**. For every set of identifiers and any objects (`RegistryAssumption`: their kinds are those the registry stores, and an object
is told from none). `RegInv` says that the storages are sorted, hold the identifiers that the server has announced and that were not
refused, that the unique names of nodes differ, and that the name the client has taken over is that of its node. It rests on four arguments.
*The search*: the recursion of `StorageIndexOf` has a solution, and any solution splits a sorted
storage at the identifier (`Splits`); the solution is given outright, since none can be built by induction here, and the parts of the storage where
another one would differ have a shortest, which does not differ. *The place*: `store_object` compares the index where an
identifier belongs with the identifier itself; in a sorted storage of natural numbers an object at index *i* has an identifier of at least *i*
(`AtLeastIndex`), so that the comparison replaces nothing that another identifier stands for, and insertion keeps the order.
*The name*: the loop of `make_unique_id` has no bound, and needs none: of the names with the indices up to the number of nodes one is free (`SomeFree`, by the
pigeonhole principle). *The cut*: what `FullId` joins is cut into the same two parts if the name of the port has no colon, whatever
the name of the node has. From it: `RegistryTypes`, `MirrorTrue`, `NodesToldApart`, `OwnPortsFound`, `PortsAsAsked`.

**`ProcessCycle_proofs`**. For any set of port types, any sizes of events, of words and of
buffers, any number of slots and connections, under the assumption `~Live`: the client changes ports only while the data loop is stopped.
The invariant `CycleInv` says what the table looks like (`ShapeInv`), that while a
cycle runs the backend is connected and the host thread is between two calls (`QuietInv`), which handles slots have (`PortsInv`), that a slot has
a buffer exactly when the cycle has dequeued it and not yet queued it back (`BuffersInv`), and
that the events of an output end within the buffer and leave room for the header (`RoomInv`). The last needs that a
size that does not wrap is added up exactly (`NewSizeExact`). From it: `EveryBufferReturned`, `EveryHandleCurrent`
and `EveryEventFits`. That the assumption is needed is what `ProcessCycleLive` shows.
A second invariant, `EventInv`, follows the events: in an output, on the wire and in an input they lie one behind the other from the start to the end
(`Tiled`), which `write_midi_event`, the header of the cycle and the joining of outputs preserve; and the client has read those
before the offset where it reads on (`ReadSoFar`). An event whose size wraps breaks the order only if it is also beyond the memory, where the model says nothing more
(`InsideIsExact`). The loop of `read_midi_event` is a recursive function: as in the registry, its solution is
given outright, and the last offset at which another would differ does not differ (`FindIs`). From it: `EventsRead`.

**Model-checked only.** Liveness: `SyncReturnsWhileAlive`, `CallsReturn`, `LatencyApplied`,
`LifeCallsReturn` and `BuffersComeBack`, which the prover does not reach. The runs that find a violation need no proof: their
counterexample is one.

## 6. Assumptions and limits

* Only `sync_core` sends core syncs, so every `done` event of the core answers one.
  (`pw_core_sync` has no other use in the library.)
* One host thread uses the port table, as in `client.cpp`: it has no lock. `SyncCore` alone
  allows several threads.
* Each port has one buffer with one block of data, at offset 0 of its memory, and the server joins outputs
  that are linked to one input.
* `connect_ports` and `disconnect_ports` are called by the host thread for a connected backend.
* One thread at a time writes to the latency ring; the callback calls `set_latency` in `client.cpp`.
* A wait for the registry times out only when no event can end it any more. A scheduler that stalls
  the context thread for more than a second adds timeouts, and no other outcome.
* `make_connection` and `close_connection` are one step each in `PortRegistration`, and
  taken apart in `Lifecycle`; the failures inside `make_connection` are one nondeterministic
  step, since all leave the same things to close.
* From callbacks, only port registration (in `on_connected`) and `set_latency` (in `on_process`)
  call back into the API. `disconnect` from the context thread is not modelled;
  nor is `sync_core` in that thread, which returns 0 at once and changes nothing.
* A server announces an identifier once before it removes it, a node before its ports and these
  before their links, removes them in the opposite order, and keeps the node of the filter
  until the connection is closed.
* `pw_filter`, the loops and the server are external: modelled from how the code uses them.

## 7. Not modelled

* **Dictionary.** A sequential container that builds the properties of one request or copies those of the
  client and the context; no two threads share one. What the requests say is modelled where they are
  made.
* **Parameters** (`pod.cpp`): calls of the SPA builder that encode a format or a latency; no state, and no
  decision but its format.
* **Thread utilities, factory, exports**: delegate or return a constant.
* **`sIOPosition`** and the conversion of bars to beats in `on_filter_process`: floating point, which neither tool computes with.
* **Buffer accessors** (`audio_buffers_count`, `get_audio_buffer`): read one slot and return.

## 8. Plan

Done, in this order: `PortDirectory`/`PortTable` with proofs, `SyncCore` with proofs,
`PortRegistration`, `LatencyQueue`/`LatencyRing`, `ClientSession`/`Lifecycle` with proofs, `Registry`,
`MidiBuffer`/`ProcessCycle` with proofs, `Links` and `Backend`. Then the proofs of `PortRegistration`, `LatencyRing`, `Links` and `Backend`, `Registry`, and of the events in `ProcessCycle`.

Left: `Registry` and `PortRegistration` each model a part of `on_registry_event_global`; a module that composes them, as `Backend` does
with `Links` and `Lifecycle`, would show that the name a port is found by in `register_port` is the one the registry gives it. The lemmas on the
solution of a recursive function are alike in `Registry_proofs` and `ProcessCycle_proofs`, and could be stated once.
