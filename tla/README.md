# Verification of BS2-exercise

The repository is a workspace of four small systems in Rust, one per crate. They share no code at
run time and are verified one by one:

| crate | what it is | what makes it hard |
|---|---|---|
| `spsc` | a bounded single-producer single-consumer channel on a lock-free ring | two threads, atomics with release/acquire orderings, `unsafe` slots, panicking destructors |
| `wal` | a key-value store rebuilt from a write-ahead log, with compaction | crashes between any two calls to the file system, torn frames, renames, failing calls |
| `locks` | a lock server, once with a thread per client and once with an event loop | blocking sockets, condition variables, edge-triggered readiness, hang-ups at any time |
| `gfs` | a simplified Google File System: master, chunk servers, client | RPC between tasks, replication, heartbeats, timeouts, lazy deletion, failed writes |

All four are modelled and checked. Proved for every value of the constants is every safety property
that a passing run checks, and that each system implements its abstract specification: the ring the
channel, the log the store, both lock servers the lock service, the cluster the file service (the ring
and the log under assumptions that section 5 names). Liveness is only model-checked.

## 1. Inventory

### spsc (`src/spsc/src/lib.rs`)

- *State.* `slots`, `head`, `tail` (monotonic counters, slot index modulo the capacity),
  `producer_alive`, `consumer_alive`, the count of the `Arc` that shares them.
- *Operations.* `send` and `recv` spin; dropping a side stores its flag and releases the `Arc`;
  dropping the ring drops the elements left, also when a destructor panics (`PanicGuard`). The
  iterator calls `recv` until it fails.
- *Interaction.* The two threads meet only in the atomics and the slots.
- *Correct when* no access to a slot races with another, messages arrive first in first out and
  exactly once, `recv` fails only when the producer is gone and everything was received, a spinning
  call ends when the other side is dropped, every element is dropped once.
- Left out: `src/spsc/src/main.rs` and the benchmarks, which have no state of their own.

### wal (`src/wal/src/lib.rs`, `src/wal/src/fs_ext.rs`)

- *State.* The map in memory, the handle of the log, the log on disk (frames of length, checksum,
  payload), the directory entries of the store and of the snapshot.
- *Operations.* `open` removes an orphaned snapshot and replays the log; `set` and `delete` append a
  frame in three writes, sync it, then change the map; `compact` writes a snapshot, syncs, renames it
  over the log, syncs the directory, reopens. `get`, `scan`, `len` only read the map.
- *Correct when* an acknowledged update survives every crash at every point, also of a compaction;
  the map in memory is always what the next `open` would rebuild; errors leave a usable store.
- Left out: `src/wal/src/main.rs`, a shell over these methods.

### locks

- *Protocol and clients* (`src/locks/src/lib.rs`, `src/locks/src/bin/client.rs`): lines `ACQUIRE`,
  `TRY_ACQUIRE`, `RELEASE`, `STATUS`, `LIST` and their replies. A client may send without waiting,
  read late, and hang up at any time.
- *LineFramer* (`src/locks/src/lib.rs`): a double-buffered input, a bounded line length, an output
  buffer flushed without blocking.
- *Thread server* (`src/locks/src/bin/thread_server.rs`): the table of locks (holder and queue per
  lock) behind the store mutex; one thread per client, its set `held`, and a condition variable with
  a state (`Waiting`, `Granted`, `Evicted`) for each wait. Replies are written with blocking writes.
- *Event server* (`src/locks/src/bin/event_server.rs`): one thread, `poll` with edge-triggered
  readiness, a slab of clients (`framer`, `held`, `waiting_for`, `wants_write`), the same table.
- *Async server* (`src/locks/src/bin/async_server.rs`): a stub of `todo!()`; nothing to model.
- *Correct when* a lock has one holder and passes on in the order of the requests; table, queues and
  per-client state agree at every step; a client reads `GRANTED` only for a lock that is its own; no
  wake-up, readiness event or reply is lost; whatever a leaving client held or waited for is cleaned
  up.

### gfs

- *Master* (`src/gfs/src/master.rs`, `lib.rs`): namespace, chunk table (replicas, `deleted`), server
  table (`addr`, `last_seen`, `online`), counters, `rr_cursor`. Operations `allocate`, `lookup`,
  `delete`, `register`, `heartbeat` and the task `detect_timeouts`, each under one mutex.
- *Chunk server* (`src/gfs/src/chunk.rs`, `store.rs`): the chunks in memory; a heartbeat loop that
  takes a report, awaits the master and applies `drop_chunks`; a data plane whose primary stores a
  chunk and then forwards it to the secondary before it acknowledges.
- *Client* (`src/gfs/src/main.rs`): `put` = `allocate` and then one write per chunk, `get` = `lookup`
  and one read per chunk with a second try at the secondary, `delete`.
- *Framing and binaries* (`src/gfs/src/data.rs`, `src/gfs/src/bin/*`): length-prefixed frames and two
  `main` functions.
- *Interaction.* Clients and chunk servers call the master over RPC; chunk data goes over plain
  connections, client to primary and primary to secondary. A heartbeat carries a report to the
  master and orders back.
- *Correct when* replicas of a chunk are distinct servers; namespace and chunk table agree; no server
  is told to drop a chunk that the master wants there; `get` returns the whole of one `put` or an
  error; an acknowledged chunk stays on its replicas that have not stopped and can be read from any
  that is online; a deleted chunk is gone at last from the servers that live, and forgotten.

The hazards found in the survey, each with its line and the properties that watch it, are the list
`hazards` of `PROJECT.json`.

## 2. Modules

```
SpscChannel  <--implements--  SpscRing      <--  MCSpscRing        (TLC)
                                            <--  SpscRingProofs    (TLAPS)
KvStore      <--implements--  WalStore      <--  MCWalStore        (TLC)
                                            <--  WalStoreProofs    (TLAPS)
                 LockClients --> ThreadServer  <--  MCThreadServer (TLC)
LockService  <--implements--  ThreadServer  <--  ThreadServerProofs (TLAPS)
                 LockClients --> EventServer   <--  MCEventServer  (TLC)
LockService  <--implements--  EventServer   <--  EventServerProofs (TLAPS)
                 LockClients   <--  LockClientsProofs, used by the proofs of both servers
                                LineFramer  <--  (TLC), LineFramerProofs (TLAPS)
                 GfsMaster --> GfsCluster   <--  MCGfsCluster      (TLC)
FileService  <--implements--  GfsCluster    <--  GfsMasterProofs, GfsClusterProofs (TLAPS)
```

The definitions marked *mutant* in a module stand in for a plausible bug of the definition after
them; nothing but the mutation runs uses them.

### SpscRing

One action per access to shared memory. `head` and `tail` count stores; the machine word is the count
modulo `WordSize`. The memory model is release/acquire: a load may return any value from the last one
its thread has seen up to the newest, and an acquire load of a value learns what the storing thread
knew when it released it (`HeadMessage`, `TailMessage`, `ProducerDropMessage`; `prod.taken` and
`cons.filled` are the part of that knowledge the slots need). A slot access without the knowledge
that the other side is done with the slot is a data race. `Terminated` is the end of the ring;
nothing else may stop, so deadlock is checked.

The abstract `SpscChannel` is a bounded queue with calls that begin and end. Under the refinement
mapping a message enters it at the store to `head` and leaves it at the store to `tail`.

### WalStore

One action per call to the file system. `data` is what the process wrote, `synced[i]` the length of
inode `i` that is on disk, `dirs` the directory on disk followed by every later state of it. A loss
of power picks one of the directories and one image of the log that extends what was synced; with
`MayTear` the image may end in a part of a frame. A kill keeps everything written. Choices made:

- Only POSIX `rename_durably` is modelled (rename, then sync of the directory). The sync of the
  directory is an action of its own, so that a crash may come before it.
- `SyncsEntry` says whether syncing a file also makes its own directory entry durable, which POSIX
  does not promise and journalling file systems do in practice. The code relies on it nowhere but
  for a new store file and in one case more (section 4).
- The snapshot of `compact` is one action: it is not read before the rename, and a crash in the
  middle of it leaves a file that `open` only removes. A failed `sync_all` leaves the data unsynced;
  losing dirty pages after a failed sync is not modelled.
- A frame that is cut in the middle of the log makes replay either fail or stop
  (`ReplayFails` is a choice), because what follows is read at shifted offsets.
- `BigValues` are values whose payload is longer than `MAX_RECORD`: `set` accepts them and replay
  stops at them.

`maybe` is a history variable, and the state of the abstract `KvStore`: per key, the last
acknowledged value and the values of later updates that failed or were cut short. `buried` is another:
something was written behind an item that replay cannot read (`Buries`).

Four properties say what becomes of an update. `CrashSafe` is about the disk at every moment: the
readable frames of each image that a loss of power may leave have the acknowledged updates, and `open`
refuses exactly the images that end in a cut payload. `MemoryMatchesLog` relates the map to the file.
`AcknowledgedSurvives` and `EntriesSurvive` are the promises of the docs: an open store serves what was
acknowledged, and a store that cannot be opened has broken the second one too. The docs are kept only
under the conditions of section 5; section 4 has what breaks them.

### LockClients, ThreadServer, EventServer

`LockClients` has the client side and the sockets: `inbox` and `replies` are bounded sequences of
lines and replies, `owned` is what a client takes itself to own: it has read `GRANTED` and has not
sent `RELEASE` since. A connection stands for its `ClientId`, slot, and token; ids are never reused
in the code. A client keeps at most one `RELEASE` of a lock unanswered, since it could not tell what
the answers are about; replies in the model carry the lock they are about. Hanging up closes both
directions.

`ThreadServer`: what a thread does under the store mutex is one action, and writing a reply is one of
its own because the socket blocks. `AcquireRejected` keeps the mutex until the reply is written, as
the code does. `Wake` is the return of the condition variable's wait; a spurious wake-up returns to
the wait at once and changes nothing. The state `Evicted` is set by a thread that has stopped
waiting, and so never wakes anybody. This server has no limit on the length of a line.

`EventServer`: an event of `poll` is delivered once per edge (new bytes, end of stream, room in a full
socket) or per registration. An iteration is `Poll`, then `Accept`, `Writable` or `Refresh` per event
with one action per line, then `FlushAll` and `Drop`. The framer is modelled with whole lines as the
unit; a line longer than `MAX_LINE` is accepted or rejected depending on whether its end has arrived.

The abstract `LockService` has only `holder`, `queue`, and the clients' `owned`. It lets the server take
a lock back only from a client that does not own it, so that two clients never own one lock; both
servers implement it, with the same client model and the same mapping (`queue <- waiters`).

### LineFramer

The framer alone, on bytes: `Refresh` appends one byte (a read of several is several of them, since
nothing happens in between), `NextLine` and `LineTooLong` are the two results of `next_line` that
change its state, `Write`, `Swap` and `Drain` are `write` and the turns of the loop of
`flush_nonblocking`, which may return after each. The reader and the writer share nothing. `EventServer`
uses lines as the unit and so relies on `LinesExact`: that they do not depend on how the stream was
cut or when the buffer was compacted. Errors of the stream change nothing and are left out, and so is
whether a line is valid UTF-8; its bytes are consumed either way.

### GfsMaster, GfsCluster

`GfsMaster` is `master.rs`: each handler, and each server found late by `detect_timeouts`, is one action,
because each holds the one mutex from its first read to its last write and awaits nothing in between.
Choices made:

- Time is left out: any online server may be found to have missed its heartbeats. In `GfsCluster` this
  costs one of `MaxFaults` while the server serves, and nothing once it has stopped.
- Chunk ids count from 0 and server ids from 1; `register` draws its ids from the length of the table.
- `replicas` is a vector that only loses elements. The model keeps its first two elements and the set
  `holders` of those still in it; a lookup is only ever of a chunk that is not deleted, whose vector
  is whole (`NamespaceSound`).
- `rr_cursor` is a word of `WordSize` values, an even number as of every `usize`.
- The master keeps its state in memory and is not restarted in the repository; a restart is not
  modelled.

`GfsCluster` adds chunk servers, puts and gets. A put is `Put` (its `allocate`) and one write per chunk,
of which each leg is an action: `SendChunk`, `PrimaryStores`, `Forward`, `SecondaryStores`,
`ForwardAnswered`, `ChunkWritten`. A write that fails or whose client has gone goes on where it was sent.
A get keeps the chunks and addresses of its lookup. A heartbeat is `Report`, `MasterHears`, `ApplyDrops`:
between them writes, deletions and other heartbeats go on. Choices made:

- A server that stops is never the same again: to start is to `Register`, which gives a new id, perhaps
  at an address that another server had. A registration whose reply is lost is a server that starts
  and crashes. `Start` needs an address at which nobody listens.
- `crashed` loses the store and breaks connections. `aborted` is `ChunkServerHandles::abort`: no
  heartbeats, no new connections; those that were accepted are still served.
- A heartbeat that misses its deadline is `GiveUp`: its report may still arrive (`late`), its answer is
  lost. An answer without orders has nothing to apply, so that it ends the heartbeat at once.
- A frame arrives whole or its connection breaks; payloads are known by their put and position.
- Requests that the master refuses change nothing and are no steps. A `put` in the model knows the
  number of its chunks, not the bytes of each.
- `ReadRange` and the listing of servers change no state and are left out.

The abstract `FileService` has files with a size, the file that a path names, and gets that answer with
the whole of the file that they opened, or fail. A put enters it at `allocate`, since the path is taken
from then on; what a failed put has left behind makes gets fail and never answer with a part.

## 3. Runs

| run | instance | question and answer |
|---|---|---|
| `spsc_ring` | 2 slots, 5 sends, word of 4 values, elements 1 and 3 panic, fairness | Every interleaving and every stale load: no data race, no full slot overwritten, order, end of channel, accounting of every element. Two laps of the ring and a wrap of the word. Spinning calls end when the other side goes; every step is a step of `SpscChannel`. |
| `wal_crash` | 2 keys, 1 value, 3 updates, 1 compaction, 2 losses of power, torn frames, failing writes, directory entries not synced with the file | The readable frames of every image a loss of power may leave have the acknowledged updates, and `open` refuses exactly the images that end in a cut payload (until something is appended to an unreadable tail); an idle store's map is what the log replays to. |
| `wal_store` | 2 keys, 3 updates, 2 compactions, a kill, a loss of power, failing sync, snapshot and rename, from no file | While frames stay whole, values short, and a synced file keeps its name, the log implements `KvStore`. |
| `wal_torn_tail` | 1 key, 2 kills, torn frames | Violation: finding 1. |
| `thread_table` | 3 clients, 2 locks, `ACQUIRE` and `RELEASE`, 2 lines each | Table, queues and threads agree through hang-ups in every state; a client that owns a lock is its holder; the server implements `LockService`. |
| `thread_fair` | 2 clients, 2 locks, every kind of line, 2 lines each, fairness | Every sleeping thread is served, and a client that hung up, in whatever state, holds nothing at last; excepted are threads that wait for each other's locks (`Stuck`), finding 3. |
| `event_table` | 2 clients, 2 locks, every kind of line, 2 lines each | Table, queues and slab agree; whatever is in a buffer at `poll` will be flushed; the server implements `LockService`. |
| `event_fair` | 2 clients, 1 lock, `ACQUIRE` and `RELEASE`, 2 lines each, fairness | Every waiter is served or found gone; a client that hung up holds nothing at last. |
| `event_eof` | 1 client, 3 lines, `ACQUIRE` and blank lines, fairness | Violation: finding 2. |
| `line_framer` | 3 kinds of bytes, 7 in, 3 out, lines of 3 | Lines do not depend on how input is cut and compacted; output leaves in order and completely. |
| `gfs_files` | 2 puts of up to 2 and 1 chunks on one path, 3 chunks in all, a deletion at any step, 1 get, 3 servers that do not stop | Namespace and chunk table agree; the replicas of a chunk differ, also of one placed after `rr_cursor` has wrapped; what a get returns is one file (`FileService`). 1.6 million states. |
| `gfs_fair` | 1 put of a chunk, 3 servers at 2 addresses, 1 fault (crash, abort, lost heartbeat, slow server), fairness | No drop order touches a wanted chunk; acknowledged chunks stay and can be read; what the master stops to want it never wants again; deleted chunks vanish and are forgotten; the master learns who serves. |

*Bounds.* Two slots and five sends reach a full ring, an empty one, two laps and the wrap of the
word. Two keys tell a lost update from a mixture of old and new ones; three inodes are the log, the
log it replaces and a snapshot, and the guard `Unused` never runs out of them in these runs. Two
losses and three updates allow crash, reopen, write, crash. Three clients give a queue of two, whose
order matters (in `thread_table`; `event_table` has two clients and a queue of one, and the order of its
queues is left to the theorem `Implementation`). Two locks let a client hold one while it waits for the
other, and let two clients wait crosswise. `RoomOut = 1` makes every second reply meet a full
socket. Larger instances were checked once: the thread server with 2 clients, 2 locks, all kinds and
3 lines (3.6 million states), the event server with 3 clients and 1 lock (1.4 million) and with 2
clients, 2 locks and 3 lines (3.8 million), all without error. So was `GfsCluster` under the properties
of its runs: 2 puts, 2 servers, 1 fault, no get (2.7 million states); 1 put, 3 servers, 1 get, 2 faults
(6.6 million); 1 put and 1 get of 2 chunks, 3 servers, 1 fault (6.1 million).

In `gfs_files`, two puts on one path let a get hold the lookup of a file whose path names another one by
then. `WordSize = 4` and three chunks place the third one after the cursor has wrapped, and three servers
do not divide four: a cursor that wrapped between the two picks of a chunk would pick one server twice,
and the mutant `AllocateExtra`, which makes it odd, is found out that way. To keep this small
`MCGfsCluster` lets all servers start before the first put (`gfs_fair` lets them start at any time), lets
only the first file have two chunks, has one heartbeat under way at a time (`MaxBeats`; `gfs_fair` has
any number) and sends the first two chunks only (`MaxWritten`): the third is allocated, its put fails,
and the file is looked up and deleted. What this run leaves to the theorems is the clause of `NamespaceSound` about two paths (`NamespaceAlwaysSound`)
and gets among servers that stop (`ServiceImplemented`).

In `gfs_fair`, three servers at two addresses let a server start where another one stopped in the middle
of a write. One fault is enough for each of its properties, whose proofs (section 5) cover any number.

`MaxSends`, `MaxUpdates`, `MaxCompacts`, `MaxKills`, `MaxLosses`, `MaxIn`, `MaxOut`, `MaxChunks`, `MaxPuts`,
`MaxIds`, `MaxGets`, `MaxServers`, `MaxFaults` and the rooms of the sockets are the only bounds in guards
of the models (the rooms of the sockets are finite in reality too); `MaxWritten` and `MaxBeats` bound the
run `gfs_files` alone, from `MCGfsCluster`. The runs of `wal`, `locks` and `gfs` do
not check deadlock: the bounds on calls and lines end them.

*Fairness.* In `spsc` both threads run inside a call (weak fairness), and a store becomes visible in
finite time, as the language promises of atomics: the loads of the newest value are strongly fair.
Beginning a call or dropping a side is never forced. In the thread server every thread runs when it
can, and clients hang up at last; they need not read their replies, since hanging up frees a blocked
write. (A client that neither reads nor hangs up can stop this server, whose threads write with the
mutex held at `thread_server.rs:215`; the fairness leaves that out.) In the event server the loop runs,
clients read, and hang up at last. Without the hang-ups a client may keep a lock for ever, which the
protocol allows. In `gfs` the heartbeat loop of a server that
serves, the writes under way, the gets and the master's ticker go on (weak fairness, each on its own);
faults, puts, deletions, starts and reports that are late are never forced. With it,
`DeletedVanish` and `LivenessTracked` hold because heartbeats are repeated for ever, not because a
particular one arrives.

*Symmetry* is used only in `thread_table`, `event_table` and `gfs_files`, which check no liveness;
connections, locks and addresses are never compared or chosen in a fixed order in the modules.

## 4. Findings

Two runs of the list end in a violation:

1. `wal_torn_tail` (code bug). `open` stops at a torn tail (`src/wal/src/lib.rs:78`) but leaves it in
   the file; the next session appends behind it, and the `open` after that stops before the new,
   acknowledged frames. The doc of `open` says the tail "must be truncated".
2. `event_eof` (code bug). `refresh` returns `Ok` when it read both bytes and the end of the stream
   (`src/locks/src/lib.rs:447`); with edge-triggered readiness the end is not reported again unless
   the socket is registered again, which happens only if the line is answered.

Beside them stand configurations that are not in the list of runs, each of which TLC finds violated in
some seconds (`tlc -config <name>.cfg <module>`):

| | configuration | module | violated | what the code does |
|---|---|---|---|---|
| 3 | `thread_crosswise` | `MCThreadServer` | `DisconnectReleases` | A thread asleep in `ACQUIRE` does not read its socket, so it does not notice a hang-up (`src/locks/src/bin/thread_server.rs:247`). Two whose clients wait for each other's lock and hang up keep both for ever; test 4 of `src/locks/tests/integration.rs` says that a disconnecting client releases every lock. `HangUpReleases` and `WaitersServed`, which `thread_fair` checks, except these threads and no others. |
| 4 | `wal_refused` | `MCWalStore` | `EntriesSurvive` | When the payload of the last frame is cut short, `read_exact` (`src/wal/src/lib.rs:93`) fails and `open` returns its error, at every retry: "every entry before it must survive" (line 51), and none is served. `CrashSafe`, which `wal_crash` checks, says that this happens to these images and to no others. |
| 5 | `wal_failed_write` | `MCWalStore` | `AcknowledgedSurvives` | A `set` that fails leaves a partial frame in the log (line 142), and updates acknowledged afterwards in the same session are lost by the next `open`; "an acknowledged `set` is crash-safe" (line 128). |
| 6 | `wal_big_value` | `MCWalStore` | `AcknowledgedSurvives` | `set` acknowledges a record longer than `MAX_RECORD`, and `open` takes it for a corrupted tail (line 86): it and all that follows are lost. |
| 7 | `wal_relative_path` | `MCWalStore` | `AcknowledgedSurvives` | When the sync of the directory fails after the rename (line 210), `compact` leaves the handle on the replaced file, and later acknowledged updates go to a file without a name. A path without a directory part has an empty parent, which cannot be opened; the shell's default `wal.db` (`src/wal/src/main.rs:7`) is one, so that every compaction of it ends like this. |
| 8 | `wal_new_file` | `MCWalStore` | `AcknowledgedSurvives` | A new store file is never synced into its directory (line 64), which line 11 asks for: where syncing a file does not sync its name, a loss of power takes acknowledged updates with it. |
| 9 | `wal_killed_compaction` | `MCWalStore` | `AcknowledgedSurvives` | After a process that died between the rename of a compaction and the sync of the directory, `open` does not sync it, and the next session acknowledges updates in the new file while the directory on disk may still name the old one; a loss of power brings that one back. |
| 10 | `line_too_long` | `LineFramer` | `LinesBounded` | `src/locks/src/lib.rs:33` and line 78 say that lines longer than `MAX_LINE` are an error; `next_line` returns them when their end has arrived (line 466), and the length is only looked at when it has not. |
| 11 | `gfs_replaced` | `GfsCluster` | `AckReachesReplicas` | "The ack means the data reached both replicas" (`src/gfs/src/chunk.rs:184`): those of the chain, which is made of addresses, and not those the master has. When a server has started at the address of one that stopped, the write goes there, is acknowledged, and a replica misses it; a master that still holds the registration of the server that was replaced may pick both at one address, so that the acknowledged bytes are in one place. With a second fault both servers may be replaced, and the acknowledged bytes are on no replica and dropped at the next heartbeats. `AckedKept`, which `gfs_fair` checks, says what does hold: no replica that has not stopped misses an acknowledged chunk. |

Seen with the same modules and other constants:

- With `Capacity = 3` and `WordSize = 8` the ring of `spsc` writes to a full slot when the word wraps
  (`WritesToEmptySlot`): the index jumps where the capacity does not divide the number of words. On a
  64-bit machine nobody lives to see it.
- The reply `ERR line too long` of the event server goes away with the buffer it is put in.
- `abort` is said to be "indistinguishable from a process crash" (`src/gfs/src/chunk.rs:285`); connections
  that were accepted go on, so that such a server can still acknowledge a write.
- `src/gfs/src/lib.rs:203` says that a chunk that disappears from the reports tells the master that the
  server does not hold it any more; the master looks at this only for deleted chunks (`master.rs:341`).

## 5. Proofs

**SpscRingProofs.** Assumed: `RingAssumption` (the constants are what the code makes of them) and, for
the theorems, `WholeLaps`: either the counters do not wrap within a run (`MaxSends < WordSize`), or the
number of words is a multiple of the capacity, in which case they may wrap as often as they like. Without
either the property is false (section 4). Proved for every capacity, number of messages and set of
panicking elements, over every stale load the memory model allows:

| theorem | what it says |
|---|---|
| `Typing` | `TypeOK` |
| `RaceFreedom` | the two unsafe accesses to a slot are ordered by happens-before (`NoDataRace`) |
| `EmptySlots` | `send` writes only to a slot that holds nothing (`WritesToEmptySlot`) |
| `Fifo` | the messages received, then those dropped with the ring, are those sent, in order (`InOrder`) |
| `DrainBeforeError` | `recv` fails only when the producer is gone and everything was received (`FailsOnlyWhenDrained`) |
| `Accounting` | when the ring is gone every element was received, returned or dropped, once (`EveryElementOnce`) |
| `Implementation` | `Spec => ImplementsChannel`: to its two users the ring is a bounded queue |

None of these is inductive. `IInv` adds to `TypeOK` and `InOrder` what a thread may rely on in the
middle of a call: `ProducerInv` and `ConsumerInv` bound the last value a thread loaded by the true
counter and say what that load made visible, `SlotInv` says which slots are full, `RingInv` relates
the two counters. The point of the argument is that a stale load errs on the safe side: a producer
that sees an old `tail` takes the ring to be fuller than it is. A wrap does no harm because two counters
that are compared are at most one lap apart, less than a word (`SameWord`), and because the slot of a
wrapped counter is that of the counter when a word is a whole number of laps (`SlotIs`).

For the refinement, `QueueIs` says that the slots from `tail` up to `head` hold the messages of their
positions, so that the queue of the channel is the run of numbers `Messages(tail, head)`:

| step | `SpscChannel` |
|---|---|
| `Send`, `SendFails`, `Recv` | the same |
| `Publish`, the store to `head` | `SendOk` |
| `Advance`, the store to `tail` | `RecvOk` |
| `LoadHeadAgain` that finds nothing | `RecvFails` |
| `DropProducer`, `DropConsumer` | `CloseProducer`, `CloseConsumer` |
| `DropNext`, `GuardDropNext` | `Discard` |
| every other step | stutters |

**LockClientsProofs.** What both servers rest on: sequences as queues, and `Sound`, which relates what a
client knows to the table through everything in the two directions of its socket. For each lock there
is at most one `RELEASE` among the lines or its answer among the replies, never both; and a `GRANTED` on
the way is true unless the answer to a `RELEASE` follows it. So a client that reads `GRANTED` and waits
for no answer to a `RELEASE` is the holder, and a server that reads `RELEASE` finds a client that does
not own the lock any more. The lemmas `LineTaken` ... `LineSent` show that each thing that may happen
to a socket keeps it sound.

**ThreadServerProofs.** Assumed: `ClientsAssumption` (`None` is neither a connection nor a lock; the numbers
are numbers). Proved for every number of clients, locks, lines and every room in the sockets:
`TableTyping` (`TypeOK`), `HoldersAgree` (`HoldersKnow`), `QueuesAgree` (`QueuesExact`). The invariant adds only `SleepersNamed`, that a
parked thread knows the name of its lock. The argument is in `PromotionKeeps`: the waiters at the
front of several queues are different connections, because a thread sleeps for one lock at a time,
so that a clean-up that promotes many of them at once makes each the holder of exactly the lock it
waits for. An eviction finds nobody (`RemoveAbsent`): a thread that cleans up is not asleep.

Then `Ownership` (`OwnersHold`) and `Implementation` (`Spec => ImplementsLockService`), from the soundness of
the sockets (`SInv`). `ThreadServes` and `ClientServed` map each step to a step of `LockService` or to none:

| step | `LockService` |
|---|---|
| `AcquireFree`, `TryAcquire` of a free lock | `Grant` |
| `AcquireWait` | `Enqueue` |
| `Release` | `PassOn` |
| `EndOfFile`, `ReadError` | `Leave` |
| `Receive` of a `GRANTED` without a later `RELEASE` | `Learn` |
| `Send` of any line, `HangUp` | `GiveUp` of the lock released, of none, or of all |
| every other step | stutters |

**EventServerProofs.** Assumed: `ClientsAssumption`. Proved for every number of clients, locks, lines and
every room in the sockets:

| theorem | what it says |
|---|---|
| `Typing` | `TypeOK` |
| `HoldersAgree` | the table and the sets `held` of the slab agree (`HoldersKnow`) |
| `QueuesAgree` | the queues are of live clients, each once, and none is at a free lock (`QueuesLive`) |
| `OutputWakes` | no reply is stuck in a buffer when the loop sleeps (`OutputArmed`) |
| `Ownership` | a client that owns a lock, for all it has read and sent, is its holder |
| `Implementation` | `Spec => ImplementsLockService` |

`IInv` adds three things. `SlabRight`: a connection that is not in the slab has left nothing there.
`LoopRight`: events and lines are handled between two polls only, for clients in the slab, and nobody is
doomed outside the end of an iteration. `OutputKept`: whoever has output has `wants_write`, at every step,
and outside an iteration its socket is full or has an event to come, unless it is about to be dropped;
`OutputArmed` alone is not inductive, since it says nothing of the inside of an iteration, where the
output is written into the buffers. The heart is `PromotionKeeps`: a disconnect hands over all locks
of a client in one step, skipping waiters that are gone, and one client may get several of them
(this server lets a client wait for more than one lock, as it reads on while it waits; `waiting_for`
names only the last), so that each promotion is a fact about all of `held` at once (`GetsIs`, `RetainIs`).

`SInv` adds that every socket is `Sound`, where the lines on the way are those in the framer and then
those in the socket, and the replies those in the socket and then those in the buffer (`In`, `Out`): to
read from a socket, to write to it, and to flush moves the border between the two and changes neither
(`Moved`, `FlushMoves`). The steps map as those of the thread server do: `AcquireFree` and a `TryAcquire`
of a free lock are `Grant`, `AcquireWait` is `Enqueue`, `Release` is `PassOn`, `Drop` and the other
disconnects are `Leave`, and clients as above; what the loop does with readiness stutters.

**LineFramerProofs.** Assumed: `BytesAssumption`, `BoundsAssumption`. Proved for every set of bytes, every
`MAX_LINE` and every amount of input and output: `LinesRight` (`LinesExact`) and `OutputRight`
(`OutputExact`). Reader and writer have an invariant each, as they share nothing. `ReaderInv` says byte for
byte (`Agree`) that what is not consumed in the buffer is the input after the last line, and of each line
returned that it ends at the LF with as many LFs up to it as its number (`CutAt`). A new byte does not
move these ends (`EndsStay`), and the first LF in the buffer is the next end of the input, whatever was
compacted before (`NextEnd`). `WriterInv` has the one order of the bytes on the stream, those left in the
buffer that drains, and those in the other; a swap keeps it because it waits for the first to be empty.

**GfsMasterProofs.** Assumed: `AddrAssumption`, `ChunksAssumption`, `WordAssumption`. About the master among
servers that report whatever they like (`MasterSpec`): `TypeCorrect`, `NamespaceAlwaysSound`,
`ReplicasAlwaysDistinct`, `NeverWantedAgain`. The invariant `IInv` adds that the cursor is even
(`CursorEven`). Two picks in a row differ because the remainders of neighbours do
(`NeighboursDiffer`) and an even number is never the last of an even number of words
(`EvenRemainder`), and because two positions of a list in order hold two servers (`PlacesApart`,
from `NthExists`, an induction done as an argument about the least counterexample).

**GfsClusterProofs.** Also assumed: `BoundsAssumption`. `ClusterTypeCorrect`, by the invariant `Types`; and
`ClusterImplementsMaster`, from which the results about the master carry over to the cluster. Each
action has a lemma that says what it does to nodes, puts and the master (`Becomes`, `Moved`, `Good`);
the proofs above it use only those.

`DropsAlwaysUnwanted` and `AckedAlwaysKept`, by the invariant `WInv`. An order is right
when it is given and stays right because the master never wants a chunk again (`StepUnwanted`). That
an acknowledged chunk is where it is wanted needs four facts about addresses: at most one server
listens at each (`AtUnique`), no two writes have one id (`IdsUnique`), the client was given the
addresses of the servers that the master wants the chunk on (`Placement`), and so a write that is
under way goes to those of them that have not stopped (`Tracks`). `Progress` says what has been stored
at each leg of the write.

`ServiceImplemented` (`Spec => ImplementsFileService`) and `AckedAlwaysReadable`, by the
invariant `FInv`: the file at a path is that of the last put which the path accepted (`FileMatches`), what
is in a store under an id was sent by the put that owns it (`StoredRight`), and a get has read the
chunks of one put in order (`GetRight`).

| step | `FileService` |
|---|---|
| `Put` | `Create` |
| `DeleteFile` | `Remove` |
| `Get` | `Open` |
| `ReadChunk` of the last chunk, or that fails at both replicas | `Answer` |
| every other step | stutters |

**WalStoreProofs.** Assumed: `WalAssumption` and, for the crash theorems, `Durable`: no value is longer than
replay accepts (finding 6), the sync of the directory and the reopen after a rename do not fail (finding
7: with the shell's default path that sync always fails, and so these theorems do not apply once such a
store was compacted), and either syncing a file makes its name durable, or the name is durable from the
start and the process dies only with the machine (findings 8 and 9). Proved for every number of keys,
values, files, calls and crashes, torn frames and failing writes, syncs and renames included:

| theorem | also assumed | what it says |
|---|---|---|
| `Typing` | `Durable` is not needed | `TypeOK` |
| `CrashSafety` | | the readable frames of what a loss of power leaves have the acknowledged updates, and `open` refuses exactly the images that end in a cut payload (`CrashSafe`) |
| `AcknowledgedUntilBuried` | | an open store serves every acknowledged update (`AcknowledgedSurvives`) until something is written behind an unreadable tail |
| `MemoryIsLog` | `sync_all` of the log does not fail | an idle store's map is the replay of its file (`MemoryMatchesLog`) |
| `StoreImplemented` | no torn frames, no failing writes (`Tearless`) | `Spec => ImplementsKvStore` |
| `AcknowledgedKept` | the same | the promises of the docs: every `open` succeeds and serves every acknowledged update (`AcknowledgedSurvives`, `EntriesSurvive`) |

What `Tearless` adds to `Durable` is not an idle hypothesis either: torn frames break the promises by
findings 1 and 4, failing writes by finding 5. So the docs of the store hold where nothing tears a frame
and no write fails, for values within the limit, in a store with a durable name and a path whose
directory can be synced, and each of these conditions is one that the code does not bring about.

The invariant speaks of every directory a crash may leave, not of the last one. `Names` says that a
snapshot is never the store's file in any of them and that, when an update is about to be
acknowledged, all of them name the file it was written to. `Kept` says that the log of each is
`Safe`: every length of it that may survive replays to values that may be. `Safe` is kept by what a
write can do to the end of a log (`SafeJunk`, `SafeReplaced`) and by the loss itself (`ImageSafe`);
once the whole log is on disk only its full replay counts (`SafeWhole`), which is why the sync comes
before the acknowledgement and before the rename. `ValueInNext` and `SnapshotLog` say what a frame
and a snapshot mean to replay. That `open` refuses no other image follows from `NearlyWhole`: as long as
nothing is buried, a log has at most one unreadable item, its last, so that a loss can leave nothing
in the middle that replay could run into (`NearlyReplayed`).

| step | `KvStore` |
|---|---|
| `Begin` | `Begin` |
| `Acknowledge` | `Acknowledge` |
| `SyncFails` | `Fail` |
| `Open` that succeeds | `Start` |
| `Kill`, `PowerLoss` of an open store | `Stop` |
| every other step | stutters |

Only model-checked: everything under fairness, since TLAPS proves neither ENABLED nor liveness. That is
`DropReleasesSender` and `DropReleasesReceiver`, `WaitersServed` of both servers, `HangUpReleases` of the
thread server and `DisconnectReleases` of the event server,
`DeletedVanish`, `DeletedForgotten` and `LivenessTracked`. Induction over data is out of its reach as well, so
the modules say what a replay or a compaction results in directly, without recursion.

## 6. Not modelled

- Of `gfs`: the encoding of frames and the limit on their length, `ReadRange`, the two main functions, the
  interactive shell, and a restart of the master, whose state is not persistent.
- Whether the bytes of a line are valid UTF-8.
- Parsing and printing of the protocol's lines and of the two shells; `client.rs` is covered by
  `LockClients`, which does more than it ever sends.
- `rename_durably` on Windows and on other systems.
- A store whose name ends in `.tmp`, or two stores that share a snapshot name (`a.x` and `a.y`):
  `with_extension("tmp")` would make them collide; the model has one store in its directory.
- The contents of `STATUS` and `LIST` replies.
- `async_server.rs`, a stub; demo programs and benchmarks.
