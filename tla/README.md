# TLA+ verification of cloudeagle

cloudeagle is a C code base for collecting and analysing network traffic. Its logic is in four
directories:

* `src/ce_util`: the utility library. Its centre is the shared-memory IPC (`ce_ipc_shm.c`, 2500
  lines), through which a collector process hands records to analysing processes; around it are
  threads, memory pools, timers, poll sets, a file system monitor, semaphores and containers.
* `src/cwaf`: a kernel module: the codec of the records it exchanges with user space, VLAN devices
  and the forwarding table.
* `src/collectors/wireshark`: the collector: reassembly and analysis of captured TCP connections,
  the HTTP dissector, and the JSON trees results are printed with.
* `src/security_analyze_engine`: the engine that analyses what was collected; what it holds so far
  is the loading of modules and the reading of a configuration.

`src/lib_src` holds libjson. This directory holds TLA+ modules of that logic, configurations with
which TLC checks them on small instances, and proofs that TLAPS checks for all instances.
`PROJECT.json` lists the components, the runs, which lines every definition stands for, for each
property a plausible mistake in the code that makes it fail, the findings, the hazards and the
theorems. Line numbers below are lines of `src/ce_util/ce_ipc_shm.c` unless another file is named.

## 1. The system

| Component | State it keeps | Operations | What is hard | What makes it correct |
|---|---|---|---|---|
| Record queue (`ce_ipc_shm.c`) | in shared memory: the queue header (block lists, `cur_w_dbk`, `readers[]`, `ref_count`, two spin locks) and the data blocks (`rcd_num`, `dbk_pos`, `dbk_state`, `read_count`, `reader_pid[]`, records); one ZeroMQ PUB socket per queue | `ipc_shm_record_write`, timeout publication, shutdown publication, reader registration, reading, search for dead readers, restart | threads and processes interleave on memory that is only partly locked; processes die and are started again; a slow reader must hold the writer up | every registered reader gets every published record once, in order; no block is reused while somebody has to read it; no block is lost; records stay inside their block; every write returns |
| Queue geometry (`calculate_queue_args` 1151, `ipc_shm_queue_create` 1185, `ce_align`) | offsets and sizes | sizing from the configuration | division and alignment; a short last block | the blocks cover the queue without gap or overlap |
| Shared memory region (`ce_shm.c`, `ce_ipc_shm.c`) | a System V segment with a header and a list of queues | create, remove what a dead creator left, link queues, attach, detach | a segment survives its creator; attaching races removal | readers use the region that is served; its queues lie inside and apart |
| IPC context and facade (`ce_ipc_context.c`) | none of its own | forwards with argument checks | - | - |
| Data block FIFO (`ce_ipc_dbk_queue.h`) | array queue, unused by `ce_ipc_shm.c` | in, out | wrap-around | first in, first out |
| Threads (`ce_thread.c`, `ce_thread_proc.h`) | `THD_*` state of a thread | create, exit request, acknowledgement | the acknowledgement races the thread | who waits for an exit sees it; who exited touches nothing |
| Memory pools (`ce_palloc.c`) | chain of blocks, large chunks, clean-up records | alloc, free, reset, destroy | boundaries of blocks, the pool's own nodes in its own blocks | pieces do not overlap; every chunk is freed once |
| Timers (`ce_timer.c`) | a thread per timer and a record they share | start, start with a beat, stop | cancellation at any point | the record outlives the thread |
| Poll sets (`ce_epoll.c`, `ce_ring.h`) | rings of query, free and dead elements | add, remove, poll | removal during a poll | reports are of what is registered; no element is lost |
| File system monitor (`ce_fs_monitor.c`) | list of watched paths | register, unregister, read events | the list changes between look-up and use | every event is dealt with |
| Semaphores (`ce_sem.c`) | a System V semaphore set under a key | create, open, lock, trylock, unlock, destroy | creation and removal race; processes die | one holder; the unit is neither doubled nor lost |
| Containers (`ce_map.c`, `ce_maptree.c`, `ce_rbtree.c`, `ce_tables.c`, `ce_array.c`) | tables and trees in memory | set, get, delete, merge, overlay | dummies, rotations, arrays shared by copies | they are dictionaries; trees are balanced |
| Kernel record codec (`csp_kernel_record.c`) | cursor and length of a record | append and get of fields | sizes counted by hand on both sides | get inverts append |
| Kernel manager (`csp_kernel_manager.c`) | list of handlers per message type | register, unregister, dispatch | the list changes without its lock | a message reaches its handler |
| Virtual devices (`csp_vdev`) | VLAN devices in groups, filters of the real device | register, events, open, stop, receive | receivers run under RCU while devices go | what a receiver holds stays; the real device's filters balance |
| Forwarding table (`csp_forward`) | an LC-trie of routes, shared nexthop records, the routes of addresses | insert, delete, flush, look-up, device events | lock-free readers beside a writer that restructures | look-ups find the longest match; every record is given back once |
| Security analysis engine (`config.c`, `util_cfgtree.c`) | modules, configuration vectors, a tree of directives | load, read, walk, merge, restart | files and sections spliced into a tree while it is built | no directive is lost or moved; vectors are merged in order |
| Collectors (`packet-tcp.c`, `packet-http.c`, `cJSON.c`) | per connection: lists of PDUs, sequence numbers, requests | dissect a packet, first and second pass | segments cut, lost, repeated, out of order | every PDU once and whole; losses are reported and nothing else is |
| libjson (`json.c`, `jsonlint.c`) | parser state, buffers, a DOM stack | parse a piece, print an event | a document arrives in arbitrary pieces | what is printed is read back |
| Data readers, writers, records (`ce_data_*.c`) | cursor in a buffer | encode and decode fields | byte order | decode inverts encode |
| Strings, files, sockets, time | - | wrappers, formatting | - | - |

How they meet: writer and reader processes use the queue through the shared region, whose creation
decides which region that is; the queue's timeout thread works on the region and ends with the
context (`ThreadExit`); block offsets go through ZeroMQ. Messages, contexts, readers, engine
modules and containers get their memory from pools. The routes of one prefix hang in a leaf of the
trie, the routes of addresses are inserted into it. The timeout thread and the writers send on one
ZeroMQ socket (456) without a lock, which ZeroMQ does not allow; what the socket then does is
outside the sources and not modelled.

## 2. The modules

| Module | What it holds |
|---|---|
| `ShmQueue` | one record queue: writers, timeout thread, shutdown, readers, registration, dead-reader search, crashes, restart |
| `RecordStream` | the abstract specification of a queue: numbered records, written, broadcast, handed to each reader in order |
| `ShmQueueClaims` | what comments and assertions say of the queue and the code does not keep |
| `QueueGeometry`, `ShmRegion` | sizing of a queue; the shared region, its creation, its queues and their readers (`ShmRegion` uses `QueueGeometry`) |
| `Semaphore` | the semaphore as a lock between processes |
| `ThreadExit` | the end of a context with its timeout thread |
| `Pool`, `Arena` | a memory pool; the abstract specification: pieces that nobody else has and that stay |
| `Pollset`, `FsMonitor`, `Timer` | the components that wait for something |
| `HashMap`, `MapTree`, `Tables` | the containers |
| `FibTrie`, `FibRoutes`, `FibFrontend` | the trie with its readers; the routes of one prefix and their nexthop records; the kernel's own routes for addresses |
| `Vlan` | VLAN devices, their groups, their receivers and what they ask of the real device |
| `KernelRecord` | the record codec of the kernel module |
| `TcpReassembly`, `TcpAnalysis`, `Http`, `CJson` | the collector |
| `Json` | libjson |
| `ConfigModules`, `Config`, `ConfigCalls` | the engine: modules and configuration vectors; reading and walking the configuration; the calling conventions of commands and `.htaccess` |
| `MCShmQueue`, `MCLibrary`, `MCEvents`, `MCFib`, `MCKernel`, `MCTcp`, `MCCollector` | instances for TLC |
| `ShmQueueProofs`, `ShmQueueDelivery` | theorems about the queue: types and safety; delivery, extending the first |
| `PoolProofs`, `EventProofs`, `IpcProofs`, `VlanProofs`, `FibRoutesProofs`, `ConfigProofs` | theorems about the pool; timer, exit and poll set; semaphore and region; VLAN receivers and what the real device is told; routes and nexthop records; the engine's modules, their slots and what servers keep in them |

`MCLibrary`, `MCEvents`, `MCKernel` and `MCCollector` put components side by side that share
nothing; `MCKernel` extends `FibRoutes`, `MCCollector` extends `Json` and `ConfigModules`, and the
others are instances (`T == INSTANCE MCFib`). Their first state chooses one, `unit`, and only that one moves: the run checks each
component by itself, and no product of their states is built. A property of the run
(`RegionSound`, say) is the property of the component's module (`R!RegionSound`).

Operators named for a mistake (`FullOffByOne`, `LockUntested`, `SendDrops`, ...) are plausible
wrong versions of the definition they stand before. Nothing in the specifications uses them; each
is there because some property fails when it takes the place of that definition.

### ShmQueue

State. The queue header is `curW` (`cur_w_dbk`), `dbkList` and `freeList` (the lists that begin at
`dbk_header` and `free_dbk_header`, as sequences), `writeMark` and `infoMark` (`dbk_write_mark`,
`reader_info_mark`, with the owner the code does not record), `refCount`, `readers` and `failCnt`.
A block is `rcdNum`, `pos`, `state`, `readCount`, `slots` (`reader_pid[]`) and `mem`, the records
as a function from addresses to a start mark with length and a payload, which is the number of the
record. `aged` says whether five seconds have passed since `first_write_time`. Each thread has a
program counter `pc` and its local variables `blk`, `cur`, `nxt`, `idx`, `cnt`, `size`, `addr`. A
reader process has its ZeroMQ subscription (`connected`, `inbox`) and the iterator of `dbk_next`
(`rpos`, `rlen`, `rnum`). `nextRcd`, `sent`, `seen` and `due`
(the blocks opened and not broadcast since) are history; `restarts` and `fails` count
towards bounds.

Actions. One action stands for the accesses between two points at which another thread can see or
change something that matters:

| Code | Actions |
|---|---|
| `ipc_shm_record_write`, lock to unlock (1787-1878) | `Begin`, `Lock`, ..., `Area`, `Mark`, `Body`, `Stamp`, `Fail` |
| `ipc_queue_dbk_get` (1524-1578) | `ReadCur`, `Reread`, `Count`, `Alloc`, `Pick`, `Link`, `SetCur`, `SetWrite` |
| `ipc_dbk_collect`, `ipc_queue_dbk_mov`, `ipc_queue_dbk_add` | `Collect`, `Reclaim`, `Unlink`, `BlockInit` |
| `ipc_publisher_dbk`, `check_and_pub_timeout_dbk`, `exit_pub_dbk` (the same statements three times) | `Cas`, `Pub`, `Copy`, `Send` |
| `timeout_write_thread_fn` | `Wake`, `TimeoutCheck`, and time in `Age` |
| `destory_ipc_context` | `Destroy`, `ExitRead` |
| `ipc_shm_reader_register`, `ipc_shm_queue_reader_add` | `Register`, `Connect`, `AddLock`, `Add` |
| `read_thread_fn`, `dbk_next`, `do_dkb_data_record_read` | `Recv`, `Read`, `Finish`, `Dec`, `Recheck`, `SetRead` |
| the search of 1827-1850, `_ipc_clear_dbk_for_reader`, `ipc_shm_queue_reader_info_clean` | `Scan`, `Visit`, `Visited`, `VisitSet`, `Clean` |
| a reader process that dies; a writer process that dies and attaches to the surviving region | `ReaderCrash`, `Restart` |

What is abstracted:

* Sizes are in units, not bytes: in the runs a block has 1 or 2 units, a record takes 1 or 2. The
  comparison of `ipc_queue_dbk_full` and the advance of `dbk_pos` are kept exactly.
* A record is a start mark with its length and one payload. Its header and payload are written in
  two steps, since a reader or publisher between them sees a torn record.
* `time() - first_write_time >= DBK_WRITE_TIME_OUT` is the Boolean `aged`, which `Stamp` clears
  where the code sets `first_write_time` and time (`Age`) sets.
* The loop that copies pids runs under `reader_info_mark` and is one step.
* ZeroMQ delivers a broadcast to every subscriber that is connected, in order. Its high-water
  marks and the time a subscription takes are not modelled.
* A process id names one process for good: reuse of ids by the operating system is left out.
* `wild`: where the code writes through offset 0 or unlinks what is not there, nothing that
  follows is defined by the source. The model records that and stops.
* The caller ends its writes before it calls `destory_ipc_context`.
* One queue. Queues of one context share nothing but the timeout thread, which visits them one
  after another.

### ShmRegion, QueueGeometry, Semaphore, ThreadExit

A segment is a number; `keyed` is the one under the key, `head` and `queues` are what is in it,
`att` who is attached. The creator goes through `ce_shm_del` (`DelGet`, `Stat`, `Rmid`; the result
of `shmctl` is not looked at, `StatIgnored`), `Excl`, `Attach`, `Header`, `FreePos`, or through
`Get` when it finds a region to take over, then creates queues (`CreateQueue`, `InitQueue`,
`LinkQueue`, `CountQueue`) and may die between any two steps that the header survives
(`CrashAnywhere = FALSE`; with `TRUE` it may die inside `ipc_shm_header_init`, which does not
survive it). `late` is history: who attached between the test of `shm_nattch` and the removal.
`QueueGeometry` is the arithmetic of `calculate_queue_args` on numbers of `Bits` bits; `Blocks` is
what it cuts. `ce_align` clears the low bits and aligns only for powers of two (1219 passes
others); the model clears the bits the code clears. The assertion at 1167 fails for some sizes
that callers may pass; `SizesAccepted` states that it does not, and does not hold.

In `Semaphore`, `at` is where a process is in `ce_sem_create`, `ce_sem_lock` and so on. A process
that dies as holder stops the others for good (no `SEM_UNDO`), and one that dies inside
`ce_sem_create` leaves a semaphore nobody can take, so processes die elsewhere only.
`WaiterServed` under `FairSpec` (a waiter gets the lock or is told that the set is gone) holds for
three processes, but no run is spent on it: that a waiter goes on is mostly what `semop` does.

`ThreadExit` is the handshake of `CE_THREAD_EXIT` with `destory_ipc_context`: `Ask`, `Answered`,
`PublishRest`, `Detach`, `Pools` on one side, `Test`, `Check`, `Asked`, `Exited`, `Cleanup` on the
other. `ThreadGoneFirst` (pools are destroyed after the thread has ended) does not hold: the
thread acknowledges before it is through with its clean-up.

### Pool

The blocks are three variables: `last` (`d.last` as an offset), `failed` and `current`. All blocks
have the size of the first, and the first header is longer than the others (`PoolT`, `DataT`).
`large` is the list of large chunks with the place of each node, since the nodes are cut from the
blocks; `cleanup` is the list of clean-up records, which are too. `heap` is what malloc gave and
did not get back. `held` is history: every piece cut since the last reset. Sizes are those of a
64-bit build, in bytes. `Small` is the part that all functions share: the search of `ce_palloc`
and `ce_pnalloc` for a block with room and `ce_palloc_block`, for which memory may run out at any
call. It is an operator from the blocks to the possible outcomes, so that `CleanupAdd` and
`PallocLarge`, which allocate twice, are one step each.

`PoolAssumption` says of the callers what holds of all calls of `ce_create_pool` in the
repository: the size is a multiple of the alignment and no less than `CE_MIN_POOL_SIZE`. For other
sizes the test of `ce_palloc.c:157` is wrong: `end - m` is negative when aligning has moved `m`
behind the end, and as a `size_t` it has room for everything. `ResetWithCleanup = FALSE` says that
a pool with clean-up records is not reset, which holds of the two pools `src/` resets (`tmp_pool`
and `ipc_writer->pool`): `ce_reset_pool` leaves the list of records as it is and hands their
memory out again. Seen while modelling: a block is given up at its sixth failure, the comment at
`ce_palloc.c:251` says four; a large node is looked for among the first five, the comment at 114
says three; blocks before `current` are not used again after a reset, so that a pool that is
filled with eight blocks or more and reset each time can grow by one block each time.

### Pollset, FsMonitor, Timer

`Pollset`: `query`, `dead`, `free` are the rings; elements are numbers, `pfd` what an element
holds; the kernel's epoll instance is an interest table and a ready list that is delivered from
the front and rotated. A poll is `Wait`, `Copy` (into `result_set`), `Shift` (dead ring to free
ring), `Serve`. `result_set` belongs to the set, so two polls at a time overwrite each other's
results; a set has one poller.

`FsMonitor`: the list is locked for each look-up and unlocked before what was found is used. The
monitor's `pfd` is static and shared by all monitors, `pre_event_name` is not initialised at
`ce_fs_monitor.c:102`, and the `list_del` at 288 meets a node that may be deleted already; a
handler may run once more after its path was unregistered (82). One monitor, and a path that is
registered by one user thread, keep the model within what the source defines.

`Timer`: when `select` is interrupted, `ce_timer.c:59-64` frees the record and the clean-up
handler and the owner use it: undefined, and followed no further (`Interrupted`).

### HashMap, MapTree, Tables

`HashMap` is open addressing with dummies for strings of up to six bytes (the folding of longer
hashes is left out); `MapTree` is the red-black tree through `rb_insert_color` and `rb_erase` with
each rotation, where `cleaned` detects a node handed back twice; `Tables` keeps arrays as memory
that several tables may share, with an index by the first character and a checksum that folds
case. Left out are uses that break them and that no caller makes: deleting a key a map does not
have turns an empty slot into a dummy that `usable` does not count (`DeleteAbsent`); a set after
`ce_clear_map` frees the static table; NULL values vanish when the table is rebuilt; an overlay on
an empty table shares the overlay's array (`EmptyBase`).

### FibTrie, FibRoutes, FibFrontend

In `FibTrie` the writer's update is computed as the sequence of stores it makes to memory readers
can see, and `Carry` makes them one by one; a look-up's loads (`Read`) come between them.
Deallocation waits for the reader (`call_rcu`); reading the list of a leaf is one step.
`max_work--` stands in the condition of the inflate loop, so that a node with full children is
never halved even if it was not inflated, contrary to the comment at `fib_trie.c:636`. The model
follows the code.

`FibRoutes` is one prefix: `aliases` in order, `infos` with their reference counts, devices going
down and up, and `fib_select_multipath`, which shares only `fib_multipath_lock` with the writer
(`MarkDead` and `TakePower` are apart, since `RTNH_F_DEAD` is set outside the lock). Left out:
metrics, where a failed allocation frees a record that is not counted yet (`fib_semantics.c:759`),
and deletes that name several gateways (`attrlen < 0` at 472 never compares them).

`FibFrontend` runs an event as one step, since RTNL serializes them. A host address that is
another net's network or broadcast address is excluded: then a route is wanted twice.

### Vlan

`real` is what the real device was told (`uc`, receive flags, MTU), `vlans` the devices, `groups`
memory that holds `vlan_group`s. RTNL is held from `Register`, `Open`, ... to their end;
`UnregisterAll`, `NextVid`, `AllQueued` and `Finish` are the steps between which RCU readers
(`Receive`, `FindDevice`, `Deliver`) run. Left out, or excluded by a guard: transmission (where
`vlan_dev_hard_start_xmit` begins one statistics update twice); the GVRP announcement that stays
when the flag is cleared while a device is down; the ignored result of `dev_uc_add` in
`vlan_sync_address`.

### KernelRecord

A buffer of `Room` bytes; both sides count sizes by hand. `get_string` leaves the terminating NUL
behind and `append_struct` counts four bytes twice, so that the properties are about records whose
fields are got in the order in which they were appended. `VALUE_GET` of eight bytes shifts an
`int` by 32 and more, which is undefined: a nondeterministic choice of the builds (`build`).

### TcpReassembly, TcpAnalysis, Http, CJson

`TcpReassembly` is `desegment_tcp`, `tcp_dissect_pdus` and the part of `reassemble.c` they rely on
(external), for the first pass over a capture and a second one. Segments carry consecutive bytes
of a stream of PDUs, each with a header of `FixedLen` bytes; they may be sent again and there are
keep-alives. `TcpAnalysis` is `tcp_analyze_sequence_number` for both directions: a network between
two hosts delivers, loses, and a capture misses segments; sequence numbers have `SeqBits` bits and
wrap. `Http` is what `dissect_http_message` does with a message cut anywhere, with the
conversation data that links requests and responses. `CJson` is the library with its items on a
heap, so that references, freed items and stale links are states. Its parser knows no length: it
may step over the terminating NUL behind a backslash, and what it reads then is undefined. The model
lets such a parse end outside the text (`Outside`), and `TextsFaithful` demands that this does not
happen for printed texts, nor for what is left of them when they are cut anywhere but in an escape.

Excluded because the source breaks there or leaves it to its caller, each with the constant or
guard that does: segments sent again that end in the beginning of a PDU (`ResendsTails`, see the
findings), headers split when nothing is to be put together, data crossing the announcement of a
zero window by one byte (`Lens`), probes that the receiver accepts (`ProbeAccepted`), sequence
number 0, which stands for "none" (`MeetsZero`); pipelined requests and interim responses as to
who answers whom (`ExchangesLinked`), CONNECT after other exchanges; changing or deleting a cJSON
item while a reference shares its children (`Unlent`, `Deletable`).

### Json

libjson's tables of states, its parser fed piece by piece, `json_print_*`, and the DOM callback.
Allocations fail when the budget `mem` is used up. `json_parser_is_done` is also true inside an
unfinished comment of an otherwise empty document, and the end of a structure is reported before
it is found not to match, so that the DOM callback pops below its stack on `{}}` (`wild`).

### ConfigModules, Config, ConfigCalls

`ConfigModules` is loading and unloading of modules, the vectors of the servers and their merging,
and log levels, over a restart. Unloading a module that is not the last loaded leaves its `next`
set; pools unload them last in first out, and so does the model. `Config` reads lines into the
tree, with `EXEC_ON_READ` directives that splice in files or sections, and walks the tree. A
section read in place that is not closed at the end of its file is accepted, one that is skipped
is not. `ConfigCalls` is `invoke_cmd` for each calling convention and `ap_parse_htaccess` with its
cache. Handlers of sections, `Include`, `IfModule`, `LoadModule` and `LogLevel` are external.

## 3. What is checked

All runs have `CHECK_DEADLOCK FALSE`: what drives the components (records, connections, lines,
calls) is bounded, and when it is used up the system has nothing left to do.

| Run | Instance | Properties |
|---|---|---|
| `ShmQueue_timeout` | 1 writer, timeout thread, shutdown, 1 reader, 2 blocks, 3 records, fair | `WrittenBlockUsed`, `UsedBlocksComplete`, `ShutdownPublishesAll`, `OldBlockPublished` |
| `ShmQueue_writers` | 2 writers, 1 restart, 4 records of sizes 1 and 2 | `WriteExclusion`, `ListsPartition`, `NoOverrun` |
| `ShmQueue_readers` | 2 processes of one program and one of another, 2 slots, 1 block, deaths, dead-reader search | `TypeOK`, `ReadersCompact` |
| `ShmQueue_delivery` | `CalmSpec`: 1 reader and 1 that registers later, 1 writer, timeout thread, shutdown, blocks of 2 and 1 units, 3 records, fair | `UnreadProtected`, `ReadCountExact`, `ImplementsStream`, `WriteReturns` |
| `Library` | a pool of up to 8 blocks and 7 pieces; a region with 2 queues, 1 reader, 2 segments; a semaphore of 3 processes; 2 VLANs with the filters, and 2 VLANs with a receiver | `InsideBlocks`, `BookkeepingHeld`, `ImplementsArena`; `RegionSound`; `SemExclusion`; `RealDeviceTold`, `ReceiversSafe` |
| `Events` | 2 descriptors, 3 elements; 2 paths, 3 events; a timer; an exit; fair | `PollsetSound`, `ReadyReported`; `EventsDrained`; `RecordOutlivesThread`; `DestroyEnds` |
| `Kernel` | a trie of up to 5 leaves with failing allocations, and one with a look-up; 2 nexthop records, 2 devices; 4 addresses; 2 records of 2 fields | `TrieExact`, `ReaderSafe`; `RouteInfosSound`; `FrontendExact`; `ReadBack` |
| `Collector` | four streams of PDUs; a connection with losses; five scripts of HTTP exchanges; cJSON trees of 4 items; libjson over 5 pieces; modules over one restart; configurations of 5 lines; calls with 4 words; 3 requests for `.htaccess`; a map, a tree of 7 keys, two tables | `PdusExact`; `LossReported`, `UnackedExact`; `HttpExact`; `CJsonExact`; `JsonExact`; `ModulesSound`, `ConfigsMerged`; `ConfigExact`; `ContainersExact` |
| `ShmQueueClaims_mark`, `ShmQueueClaims_count`, `FibClaims_miss`, `TcpClaims_resend` | see the findings | one claim each, violated |

What the runs show. `ShmQueue_timeout`: the block being written cannot be given out again, a block
no writer is in holds exactly `rcd_num` complete records whatever the timeout thread does, and
that thread publishes an old block that has room for a largest record; after a shutdown no block is
open and none was opened without a broadcast to follow. `ShmQueue_writers`: the lock excludes, no block is on two lists or lost, no record leaves its block. `ShmQueue_readers`:
the reader table stays compact and without double names, also when two programs register at once
for the last slot and one of them is turned away. `ShmQueue_delivery`: exactly-once in-order
delivery, no reuse of unread blocks, writes return.
`Library`: no memory is handed out twice or beyond its block and every chunk is freed once;
readers use the region that is served, whose queues lie apart; one holder of a semaphore; the
filters of the real device balance over opens that fail half-way; receivers never meet freed
memory. `Events`: a poll reports what is registered and ready, events are dealt with, a timer's
record outlives its thread, the end of a context comes. `Kernel`: the trie is a trie after each
update, failing or not, and look-ups find the longest match or something that matches; nexthop
records are held as often as counted and packets are spread by weight; the routes are exactly
those the addresses call for; records are read back. `Collector`: each PDU and message is handed
over once and whole, losses and nothing else are reported; what is printed is read back; no
directive is lost or moved; containers are dictionaries.

Bounds. In the queue, with two blocks one can be written while the other is read, both lists can
be empty, and the walks over the lists have a first and a last element. Three
records in blocks of 2 units and of 1 fill both and reuse one. A second process of the same
program (`p3`) is what registration by name needs, and a process of another program (`p2`) is what
may take the last slot between its test (2317) and its use; one block is enough for that run, since
the table does not depend on the lists. One restart puts a new writer into every state
an old one can leave. In the pool, 36 bytes fill the first block but for padding, and fit a second
time into a later block only when they are not aligned; nodes and records go into what remains;
eight blocks are what it takes until `current` leaves the first one. Two segments are one that is
removed and one that is created meanwhile. Two VIDs are the least for which a group outlives a
device and not another. Four-bit sequence numbers pass 0 within four bytes. Five leaves inflate
and halve the trie's root; the look-up runs over three routes, since a reader's loads between all
stores multiply the states. Bytes of three bits keep a number of eight bytes within TLC's integers
and still wrap and sign-extend. Seven keys give trees of three levels and each case of deletion.
Five keys are what a hash table of eight slots takes before it is rebuilt.

`ShmQueue_delivery` states what the readers that joined first can rely on while the queue is calm
(`CalmSpec`). It has the timeout thread, readers that register between publications, failing writes
and a shutdown. A behaviour is calm as long as nobody dies and none of three races was run into to
which the code has no answer:

* `Overlap`: a call of `ipc_shm_record_write` overlaps a publication by the timeout thread (419-430,
  1536, 1859), which takes the block with a half-written record, or has not yet set `read_count`, so
  that the block is collected at once;
* `LateMark`: a reader that found `read_count` 0 (2050) sets `DBK_READED` when the block is being
  published again;
* `LateJoin`: a registration falls between `read_count = ref_count` (1411) and the copy of the pids.

A reader that is delayed between counting a block off and marking it read is in the run, up to the
point where the block is published anew; `RecheckUntested` shows what the second test is for. With
one of the races the properties fail, as the findings and the claims show; without them the protocol
itself (counting, slots, lists, collection) is right.

Fairness. Queue (`Fairness` in `ShmQueue`): threads that are inside a call are scheduled, reader
threads too, the timeout thread wakes up again, a shutdown under way goes on, and time passes.
Nobody is bound to start a write, to register, to shut down or to die. `CalmSpec` asks for
fewer (`CalmFairness`): neither a shutdown nor time, and a step only when it is calm. The spin locks
need no strong fairness in the checked instances: `WriteReturns` is checked with one writer, so that
`dbk_write_mark` is free when it asks. Poll set: the poller polls on, as its loop does. Monitor:
its thread runs. Exit: the timeout thread runs, and the main thread once it has begun to destroy
the context. These are what a preemptive kernel gives to runnable threads. Action and safety
properties use no fairness.

## 4. Findings

Each run that expects a violation checks one statement of a comment or an assertion.

| Run | Claim | What happens |
|---|---|---|
| `ShmQueueClaims_mark` | 1932, 1983: a record begins with its start mark | the timeout thread, which does not take `dbk_write_mark`, broadcasts a block whose `rcd_num` was just raised and whose record is not written |
| `ShmQueueClaims_count` | 165: `read_count` is how many readers have still to read | a reader cleaned out of the table moves the others up, but not in blocks already published: the last one does not find its pid, and the block is never free again |
| `FibClaims_miss` | `fib_trie.c:272`: a look-up never misses a key that is there | the writer leaves a node without its parent (674) while a look-up below has to come back through it |
| `TcpClaims_resend` | `packet-tcp.c:1754`: a retransmission is not added to the list of PDUs again | a segment that ends in the beginning of a PDU is looked up under its first byte, not under the PDU's, and replaces the PDU's entry |

Claims of the queue that do not hold either, stated in `ShmQueueClaims` without a run of their
own:

* `NotPublishedTwice` (418): after the compare-and-swap (429) and before `read_count` is set (448)
  the block has `read_count` 0 and may be collected, filled and published by the writer.
* `GetsBlock` (1524, 131): `cur_w_dbk` is tested and read again; the timeout thread clears it in
  between, and offset 0, the queue header, is used as the block.
* `OnlyDeadUnregistered` (1836, 1839): the slot was found before the lock was taken; a restarted
  program that took it over is removed.
* `UnreadProtected` without `CalmSpec`: a late `DBK_READED` (2052) or a publication that a write
  overlaps lets the writer reuse a block that is still to be read.
* `RestartFreesLock` (1221): the resets are commented out (1235), so a writer that died with the
  lock leaves it locked.

Seen while modelling: `reader_pid[]` keeps old pids behind `ref_count` (1413-1415); two
registrations at once can pass the test of `ref_count` (2317) and the second fails
`assert(r_info)` (1302), which the model has as `AddLock` to `aborted`; a block in which a largest
record no longer fits is not published by the timeout thread (419), so its records wait for the
next write or the shutdown.

## 5. What is proved

TLC shows a property for one instance, TLAPS for all. `PROJECT.json` lists the theorems; the
lemmas they rest on are in the same modules. A theorem whose property is a run's own
(`RegionSound` of `MCLibrary`) is proved in a module that extends the run's module and speaks of
the component's specification (`R!Spec => []RegionSound`).

| Theorem | Property | Hypotheses |
|---|---|---|
| `TypeCorrect` | `TypeOK` | - |
| `LockExcludes` | `WriteExclusion` | - |
| `ListsPartitioned` | `ListsPartition` | - |
| `WrittenStaysUsed` | `WrittenBlockUsed` | - |
| `NothingOverrun` | `NoOverrun` | - |
| `TableCompact` | `ReadersCompact` | - |
| `UsedStayComplete` | `UsedBlocksComplete` | - |
| `ShutdownLeavesNothing` | `ShutdownPublishesAll` | - |
| `UnreadStays` | `UnreadProtected` | `CalmSpec` for `Spec` |
| `ReadCountStays` | `ReadCountExact` | `CalmSpec` for `Spec` |
| `StreamImplemented` | the safety part of `ImplementsStream` | `CalmSpec` for `Spec` |
| `PoolTyped` | `TypeOK` of `Pool` | - |
| `PiecesInside` | `InsideBlocks` | - |
| `PoolImplementsArena` | `ImplementsArena` | - |
| `BooksHeld` | `BookkeepingHeld` | `~ResetWithCleanup` |
| `SemaphoreLocks` | `SemExclusion` | `MaxSets \in Nat` |
| `RegionHolds` | `RegionSound` | the two assumptions of region and geometry, `~CrashAnywhere` |
| `TimerRecordHeld` | `RecordOutlivesThread` | - |
| `RegionThere` | the safety part of `DestroyEnds` | - |
| `PollsetHolds` | `PollsetSound` | one poller |
| `ReceiversHeld` | `ReceiversSafe` | - |
| `RealDeviceAsked` | `RealDeviceTold` | `VlanAssumption` |
| `RouteInfosHeld` | `RouteInfosSound` | `FibRoutesAssumption` |
| `ModulesHeld` | `ModulesSound` | `ConfigModulesAssumption` |
| `ConfigsHeld` | `ConfigsMerged` | `ConfigModulesAssumption` |

All rest on the assumptions on constants their modules name (`QueueAssumption`, `PoolAssumption`,
`PollsetAssumption`), which TLC evaluates on every run. `QueueAssumption`: the threads are
distinct from one another, `Layout` lists every block once, a block has room, at most `MaxReaders`
readers are registered at the start and under distinct names. `VlanAssumption`: the receive flags
are the two `vlan_dev_change_rx_flags` passes on, and MTUs are numbers. `FibRoutesAssumption`: types of
service, priorities and gateways are numbers, and a nexthop weighs at least 1 (`rtnh_hops + 1`).
`ConfigModulesAssumption`: no module is in a list of modules twice, and those active from the start
are compiled in.

The hypotheses are not there to ease the proofs; without them the properties fail. `CalmSpec` is
what `ShmQueue_delivery` runs under (section 3): it excludes deaths and the three races, and nothing
else of what the queue does. `ResetWithCleanup`, the single poller and
`CrashAnywhere` are explained in section 2. `RegionAssumption` contains that `QueueLen` yields a
number: `ce_align` clears bits one after another by a fold, over which the provers cannot induct,
and a number with bits cleared is a number. TLC evaluates it for the requests of the run.

### Queue

* `TypeCorrect`: `TypeOK` together with `InHand` (a thread that works on a block has one) is
  inductive. Its weight is in the program counters and locals of the several kinds of threads,
  which later proofs use to know who can be where. Frame lemmas (`ListFrame` and so on) say once
  which actions change which group of variables, so that an invariant over one group is looked at
  for those actions only.
* `LockExcludes`: exclusion is not inductive, since nothing in it says whose the lock is.
  `LockHeld` does: whoever is at a location between taking and leaving the lock is the owner in
  `writeMark`. A restart makes a writer idle and leaves the lock as it was, which keeps `LockHeld`
  and is the reason why the lock is lost (`RestartFreesLock`).
* `ListsPartitioned`, `WrittenStaysUsed`: `ListInv` is the conjunction of `ListsPartition`,
  `WrittenBlockUsed` and `CurFree`. The three are proved together: a block moves from one list to
  the other in two steps, in between it is on neither, and who moves it holds the lock and has it
  in `blk` or `cur`. Only the lock's holder moves blocks and sets `cur_w_dbk`; the other threads
  can only clear `cur_w_dbk`, which keeps every part.
* `NothingOverrun`: inductive given the two above. Between the test of `ipc_queue_dbk_full` and
  the advance of `dbk_pos` no one else moves the block's `pos`, and a block on the free list is
  empty, so that what fitted at the test still fits.
* `TableCompact`: `TableInv` says of `reader_info_mark` that it is free and the table compact, or
  that its holder is about to fill a slot with a name no other slot has, or that its holder died:
  then the mark is held for good, and no one writes the table again.
* `UsedStayComplete`: `RecordInv` says for each location of a writer how far the records of its
  block reach: up to `pos`, up to `addr`, with a mark but no payload, and so on, and that the
  records of all other used blocks reach their `pos`. Records are counted by the set of addresses
  at which one starts (`StartsIn`); a record added at the end adds one.
* `ShutdownLeavesNothing`: `ShutdownInv` says that a block not broadcast since it was opened is the
  current one or in the hand of a thread that publishes it (`DueHeld`), and that the shutdown has
  found no block open, or is publishing it, once it has looked (`Leaving`): the compare-and-swap
  leaves a block to exactly one publisher, and `destory_ipc_context` waits for the timeout thread.
  A restart of the writer process loses its block, which is why the property speaks of lives
  without one.
* `UnreadStays`, `ReadCountStays`: the property counts, so the invariant (`DeliveryInv`) says *what*
  is counted: `SlotsExact` determines every entry of `reader_pid[]` from who still has the block in
  his inbox, and `CountExact` equates `read_count` with the number of entries and of readers just
  counting off, also while the block is published. Collection then sees 0 only when nobody has the
  block to read. The calm conditions are used where they must be: `LateJoin` where a slot is added
  under a publication, `LateMark` where `DBK_READED` is set, `Overlap` where a block that is being
  published could be collected.
* `StreamImplemented`: `StreamInv` adds the numbers of the records. The records of a block are
  consecutive, and the blocks in a reader's inbox go on where the one before ends and end with
  what was broadcast last. With that every step of `Read` is a hand-over of the next record,
  `Send` a broadcast, `Body` a write, and the rest leaves the stream alone. How far a writer may
  run ahead is bounded since every record a reader has not seen is stored at an address of a block
  kept for it (`AllStored`), and the blocks have `Capacity` addresses.

### Pool

`PoolInv` says of blocks and pieces that they are `Good`: `last` lies between header and end of
each block, every piece ends at or before the `last` of its block, and pieces are disjoint. `Good`
is a predicate of a value of the blocks, not of the state, so that lemma `SmallGood` applies to
each of the two allocations of one call. A new piece begins where its block ended (`OneMore`); a
new block has room because its header is no longer than the first one's, which `max` was computed
from (`NewBlockGood`). `BooksHeld` strengthens this by `BookInv`: the nodes and records lie in
pieces of `held`, no two in one, and the chunks the nodes name are those of the heap.

### Semaphore, region, timer, exit, poll set, VLANs

* `SemaphoreLocks`: `UnitKept` says where the one unit of a set is: in its value with no owner, or
  with exactly one owner, who holds it or still has to give it. `OneSet`: the set that exists is
  the one under the key, since a second one can be made only after the first is gone.
* `RegionHolds`: `RegionInv` follows the creator (`Work`): the segment it works on, with what is
  filled in so far; `Segments` says of each segment that it is blank, begun, or in use with its
  queues in a row behind the header; `ReadersThere`, that readers other than the `late` ones are
  attached to the segment under the key or to none, and to none while it is given up. The blocks
  of a queue tile its payload by arithmetic on quotients (lemmas on `\div` and `%`), for all sizes
  of records and queues.
* `TimerRecordHeld`: a cancellation is pending only when `stop` has been called, and `stop` only
  when the identifier is stored; the record is freed after the join.
* `RegionThere`: the state of the handshake determines which of the two threads may touch the
  region.
* `PollsetHolds`: `PollInv` adds to the partition of the elements over the rings where an element
  fetched by the poll may be (query or dead ring, not free), and what it holds meanwhile. Closing
  and adding a descriptor again gives it another element; the old one stays on the dead ring until
  `Shift`.
* `ReceiversHeld`: a group in use is not empty and counts its devices; every other group is empty
  and given up (`GroupsCounted`); the registered devices are those listed and those on their way
  out (`DevicesListed`); what a receiver holds and is given up is waited for (`Held`). With
  `Walk`, the walk over the VIDs is on the group in use, and ends when its last device goes.
* `RealDeviceAsked`: the counts are the sizes of the sets of devices that need something
  (`Counted`), at every step and not only at rest: a device that is being unregistered is counted
  until `Finish` closes it. Asking for and taking back are unions and differences of such sets
  (`AskAdds`, `AskTakesBack`), which is why a filter is never deleted that is not there; an open
  that is refused half-way takes back just what it got (`AskUndone`). `SeenLast`, every device
  that is up saw the real device's present address last, makes `vlan_sync_address` choose right.

### Routes and nexthop records

`RouteInfosHeld` is proved from `IInv`, whose parts are kept together: an action that edits a
record has to show all of them for it, and one lemma each says that the others stay as they were.

* `Listed`: the aliases are in order (`SortedBy`), each names a live fib_info, the reference count
  of each is the number of places that name it (`Uses`), no two have the same content, and `cnt`
  is their number. In the middle of an insertion a fib_info is held once more than aliases name
  it, and after a replacement once less; `Held` therefore has a set of those with one more, which
  is empty between actions. `fib_create_info`, the placing of an alias, its replacement or removal
  and `fib_release_info` are each a lemma that takes `Held` from one such set to the next, and
  `Insert` and `Delete` are chains of them.
* Order: what `fib_find_alias` returns is a place behind which everything is of the same key or a
  later one and before which everything is earlier; an alias put there, or behind those of its
  key, keeps the order, and is not there twice because `match` has looked at those of the key.
* `Fair`: power is the sum of the hops' powers, and each hop has been chosen as often as its share
  less its power. `ChosenFrom` says what a choice or a new round may change of a record.
* `DeadDown`, `Settled` and `SyncSound`: a dead hop is on a device that is not up. While
  `fib_sync_down_dev` works, hops on the device it takes down may be live only in records it has
  not finished (`left`), and a dead hop has no power, except the one that was marked and whose
  power is not taken yet (`sync.hop`): `fib_sync_up` sets `nh_power` of a dead hop to 0 and leaves
  `fib_power` alone, which is right only because there was none. `fib_select_multipath` may begin
  a round in between and gives a dead hop nothing.
* `fib_flush` removes the aliases of dead fib_infos one by one. The list that remains is the old
  one at an increasing choice of places (`Thinned`), a record that lives keeps all its uses, and a
  dead one loses them all and is freed.

### Modules and slots

`ModulesHeld` is proved from the `IInv` of `ConfigProofs`. Its first part, `Registered(S, A, L)`,
says of a registry S what it is when the modules A are active and L are loaded: A is chained from
the top, the last one first (`Linked`), and no other module has a successor; those compiled in have
the first slots, those of L the next ones and all others none (`Indexed`); names and mergers are
those of A. `A = Prelinked \o L` is what makes it inductive: loaded modules are always the last of
the chain and have the last slots, so that unloading them last in, first out takes the slot that
was given last.

* `ChainedIs`: the walk over the chain, which the code ends at a null pointer and the model after
  as many steps as there can be modules, yields the linked modules in reverse. It meets them all
  because there are no more of them than slots (`PrelinkedFew`, by a count of what is compiled in).
* `AddKept` takes `Registered(S, A, L)` to A and L with one module more, `RemoveKept` back;
  `SetupKept` and `AllGone` repeat them, over a list given by `AddedSteps` or `RemovedSteps`.
* Vectors: while the configuration is read those of every server are at least as long as
  `conf_vector_length`, and no level of a module is set before that is trimmed (`ServersSound`).
  `TrimKept` is the step at which it could fail: the vectors made before stay as long as they were.

`ConfigsHeld` adds to it `MInv`, which says what the servers hold before they are merged, while
the configuration is read; `ConfigsMerged` only speaks of what comes after.

* `Filled`: in the slot of an active module the main server has what the module made for it, and
  a virtual host what it made if a directive of the module is in it; slots nobody has are empty. The
  last part is what a module loaded into a reserved slot relies on (`LoadRead`).
* `LogSound`: the level of a server is that last said for all of it, and the one that counts for
  an active module that last said of the module or of all. A slot nobody has never holds a level,
  or the module that gets it would log at one no directive gave it; and no slot of a
  server without a level holds `NO_MODULE`, which `ap_merge_log_config` would take for a level of
  its own (it only inherits where it finds `UNSET`).
* `MergedIs`: each step of `merge_server_configs` is about the slot of one module, and since no two
  share one, each slot is merged exactly once. `LevelsMerged` is the case analysis of the levels.
* What counts of the directives is the last one about a module: `SaidAppend` says what one more
  changes, on `GreatestOf`, the greatest of a bounded set of numbers.

Totals, the flushed list, the walk over the chain, repeated additions and the merge of a vector
are recursive functions. What they yield is proved without an induction theorem: the set of
lengths up to which the claim holds contains 0 and with each number the next, and by lemma
`LeastOf` the least number outside it would contradict this (`AllUpTo`).

## 6. What is only model-checked

* Liveness and what needs fairness: `WriteReturns`, `OldBlockPublished`, `ReadyReported`,
  `EventsDrained`, the second half of `DestroyEnds`, and the fairness of `RecordStream` in
  `ImplementsStream`. The prover has no rule for fairness here.
* Components with RECURSIVE operators or folds: `TrieExact`, `ReaderSafe`, `PdusExact`,
  `HttpExact`, `CJsonExact`, `JsonExact`, `ConfigExact`, `ContainersExact`. The provers have no
  backend for modules that reach a RECURSIVE operator, and the library's induction theorems take
  an operator as parameter, which they cannot instantiate. (Recursive functions can be reasoned
  about, as for `RouteInfosHeld`, `ModulesHeld` and `ConfigsHeld`.)
* `LossReported`, `UnackedExact` compare positions in a stream with numbers modulo `2^W`; the
  provers have no rule for exponentiation, not even that `2^W` is a number.
* `FrontendExact`, `ReadBack`: no proof was made. What they compare is computed over whole lists by
  folds or recursive functions.

## 7. What is not modelled

* `ipc_shm_reader_unregister` (2419), statistics, and the facade, which only checks arguments.
* The data block FIFO, which `ce_ipc_shm.c` does not use; `ce_data_*.c`, encoders without a state
  of their own; lists, rings as such and bitmaps; wrappers of system calls; formatting.
* The kernel manager: its list of families changes without `kannetlink_mutex` and a second
  namespace overwrites `netlink_sk`; its only caller is a test module.
* Of VLANs: transmission, priority maps, netlink and `/proc`. Of the forwarding table: dumps,
  `/proc`, statistics, default gateways, user rules, ioctl.
* Of the engine: hooks, `ap_invoke_handler`, the slot setters, `show_overrides`.
* Of the collector: the frame and IP dissectors, `print.c`, and Wireshark's main program `tshark.c`
  except that it hands each packet to the dissectors once or twice, in the order of the capture; what TCP does besides reassembly and analysis. Of libjson: `jsonlint`'s
  options.
* The hazards without a property (`PROJECT.json` says why for each). Some go wrong by what the code
  does: the second read of `cur_w_dbk`, a `DBK_READED` that comes too late, a registration during a
  publication, a semaphore's holder that dies. For others the code promises nothing: a reader that
  dies with `reader_info_mark` held, messages ZeroMQ drops, nearly full blocks, and a free block too
  small for a record that keeps others from being collected.

Next:

1. Proofs: the routes of `FibFrontend`; `ReadBack` for one field.
2. Models: records of several sizes in the delivery run's blocks of several sizes, bitmaps and lists, `ce_data_*.c`, fragments of IP.
