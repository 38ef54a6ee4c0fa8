# A verification development for the rotor/Opera emulator over AF_XDP

`src/opera-v2` emulates a rotor (Opera) network on ordinary servers. Each
server runs one process, `emu_nic`, that receives packets from its network
namespaces and from its NIC through AF_XDP sockets, queues them per
destination, wraps each in an outer header whose MAC address is the next hop
*in the current time slot*, and sends it. The slot is read from the NIC's PTP
clock; 32 slots make a cycle. `src/opera-v1` and `src/opera-ex` are earlier
variants; their `mpmc_queue.c`, `mempool.h`, `map.c`, `memory.c`,
`plumbing.h`, `data_structures.h` and the XDP programs are the same files.

## 1. Inventory

| Component | Source (`src/opera-v2/`) | State | Operations |
|---|---|---|---|
| MPMC queue | `mpmc_queue.c`, `.h` | cells (sequence, data), `tail`, `head` | init, push, pull, available, push_many, pull_many, destroy |
| Buffer pool | `mempool.h` | `slabs[]`, `n_slabs_available`, a mutex | bpool_init, bpool_free |
| Port cache | `mempool.h` | `slab_cons`, `slab_prod`, `n_buffers_cons`, `n_buffers_prod` | bcache_init, cons_check, cons, prod |
| Port | `mempool.h`, `thread_functions_1.h` | RX, TX, fill and completion ring, counters | port_init, port_rx_burst, port_tx_burst_collector, port_free |
| Threads | `thread_functions_1.h` | burst arrays, the collector, `ret_val`, `quit` | veth RX, NIC TX, NIC RX, veth TX loops |
| Route lookup | `data_structures.h` | a 32 by 32 matrix | new, set, get, delete |
| Address tables | `map.c` | growing array of (key, value) | init, add, set, get, getindex, del, cleanup |
| Slot clock | `emu_nic.c` | `now`, `time_into_cycle_ns`, `topo` | read_time |
| Network of emulators | route files of `config/` | frames between nodes | relay, deliver, lose |
| Start-up, shutdown | `emu_nic.c`, `plumbing.h` | everything above | main, XDP load, attach, map update, remove |
| XDP programs | `nic_kern.c`, `veth_kern.c` | `xsks_map` | redirect or pass |

**How they interact.** A packet from a namespace: veth RX thread
(`port_rx_burst`, look-up of the destination, `mpmc_queue_push` on the local
queue of the destination) -> NIC TX thread (`available`, `pull`, encapsulate
with the route of the current `topo`, `port_tx_burst_collector`). A packet from
the NIC: NIC RX thread, which pushes it on a non-local destination queue (this
node is an intermediate hop) or, decapsulated, on the queue of a namespace ->
NIC TX or veth TX thread. All ports share one UMEM: a buffer received on one
port is completed on another, and the pool carries slabs of free buffers back.
The main thread writes `topo`; the others read it without synchronisation.

**What is hard.** The queue is lock-free. The pool is locked, the caches are
not, and they have two sides used by two threads, on one path by both. The
pool relies on pointers left above the counted part of an array. Two loops wait
for a ring of the kernel without a time-out. Time slots change under packets
that are being processed. `PROJECT.json` lists these places ("hazards") with
their lines and the properties that cover them.

**What makes each component correct.**
- Queue: a bounded FIFO; a cell has one user at a time; *full* and *empty* are
  answered with cause; every packet comes out; a call retries only because another
  got on.
- Pool and caches: every buffer not lost for want of memory is in exactly one place; a
  slab has one use; the traded slab is empty; a port that needs buffers gets them.
- Port rings: counts within the rings; waits end.
- Data path: one consumer per queue; the header names the next hop of the packet's
  destination in its slot; flows keep their order; no queued packet vanishes; no load
  keeps a queue waiting for ever.
- Network: within a slot packets neither loop nor overtake; every packet ends.
- Tables: look-ups return what was stored, through all three tables, and an address
  that is added twice still has one answer.
- Start-up and shutdown: nothing is freed under a thread, sockets are entered where
  they belong, a normal end leaves nothing behind, and comes unless a wait for the kernel
  never ends.

## 2. Modules

| Module | Models | Role |
|---|---|---|
| `BoundedQueue` | what a queue promises | abstract specification |
| `MpmcQueue` | `mpmc_queue.c`, one step per atomic access | detailed specification, refines `BoundedQueue` |
| `MCMpmcQueue` | | symmetry for TLC |
| `MpmcQueueProofs` | | TLAPS proofs about `MpmcQueue` |
| `BufferPool` | `mempool.h` and its use by the thread loops | pool, caches, packets |
| `BufferPoolProofs` | | TLAPS proofs about `BufferPool` |
| `PortRings` | `port_rx_burst`, `port_tx_burst_collector` | the four rings of a port |
| `PortRingsProofs` | | TLAPS proofs about `PortRings` |
| `Sender` | a NIC sending thread, its queues and its port | composes `Rounds` and `PortRings` |
| `Datapath` | the four thread loops, `main`'s assignment of queues, the look-up of the next hop | one node, packets from port to port |
| `MCDatapath` | | a route table for TLC |
| `DatapathProofs` | | TLAPS proofs about `Datapath` |
| `Rounds` | the rounds of the NIC senders under endless load | abstract specification, implemented by `Datapath` |
| `Forwarder` | what a node promises | abstract specification, implemented by `Datapath`, used by `Rotor` |
| `Rotor` | `read_time`, the schedule, relaying between nodes | the network composed of nodes |
| `MCRotor` | | a schedule for TLC |
| `RotorProofs` | | TLAPS proofs about `Rotor` |
| `Multimap` | what a table promises | abstract specification |
| `MgMap` | `map.c` | implements `Multimap` |
| `MgMapProofs` | | TLAPS proofs about `MgMap` |
| `Tables` | the worker file, the route file, `data_structures.h` | two `MgMap`s and the matrix |
| `TablesProofs` | | lemmas about the two `MgMap`s and the matrix |
| `Lifecycle` | `main`, `plumbing.h`, the ends of `mempool.h`, start and kill scripts | composes `Tables` with threads, ports and programs |
| `MCLifecycle` | | a route file for TLC |
| `LifecycleProofs` | | TLAPS proofs about `Lifecycle` |

How they fit together: `MpmcQueue` refines `BoundedQueue`, and the FIFOs of `Datapath`
are such queues; `Datapath` refines `Forwarder` and `Rounds`, and the nodes of `Rotor`
are shown to be Forwarders; `MgMap` refines `Multimap`, `Tables` has two of them, and
`Lifecycle` extends `Tables`. `Lifecycle` shows that the threads and tables `Datapath`
takes for granted are there while they run.

### MpmcQueue

`sequence`, `data`, `tail`, `head` are the fields of the queue; `pc[t]` is the
place of thread `t` in a call, `pos[t]` its local variable. The actions are the
accesses in program order: `StartPush` (first load of tail), `PushFree`,
`PushFull`, `PushBehind` (load of the cell's sequence and the three outcomes of
`diff`), `PushReload`, `PushClaim` and `PushLost` (the weak exchange, which
may fail for no reason), `PushWrite`, `PushPublish`; the pull side alike;
`LoadTailFirst`, `LoadHeadFirst` and `LoadSecond` are `available`, whose two
loads C does not order. Consumers follow the callers: `available`, and a pull if
the answer is not zero.

Positions are unbounded naturals: the code's 64-bit counters would need
centuries of pushes to wrap, and a naturals model makes every position
unique. Memory is sequentially consistent in the model. The code publishes
`data` with a release store of `sequence` read by an acquire load, so the plain
accesses are ordered by the cell; `tail` and `head` are only used through atomic
exchanges and as hints. A thread on a weaker machine may see an *older* tail or
head than the model allows in `StartPush`; such a position is what a thread that
loaded it earlier and was delayed holds, which the model has.

### BufferPool

One buffer (`watched`, any of them) is told apart from the rest, since the code
only moves addresses; a slot whose address was handed out is marked, so that a
second use would show. `PortInit` is `port_init` for the ports in order;
`ConsTrade`/`Receive` are `bcache_cons_check` and the rest of `port_rx_burst`
(the consumer side is private to the receiving thread). A received packet is pushed
(`Enqueue`), given back because its queue is full or its address zero (`Drop`), or
lost because `calloc` fails or there is no such queue (`Lose`, lines 670-682:
neither pushed nor given back). The queues are one bag, `flight`; a packet leaves by
any port.

`out[p]` lists what the sending thread of `p` has pulled and not taken back: the
completion ring, the device, the TX ring and the collector, in this order, told apart
by counts. `Pull` fills the collector; `Peek`, `Reap`, `Release`, `Submit` are
`port_tx_burst_collector`, which is called only with a burst to send: completions are
reaped then, and only those that are there at the peek; what comes later stays until
the next burst. `KernelTake` and `KernelComplete` are the kernel's side, as in
`PortRings`.

`ProdCheck`, `ProdStore`, `ProdCount`, `ProdTrade`, `ProdFirst`, `ProdSwitch`,
`ProdReset` are the accesses of `bcache_prod` by thread `th`, because two
threads may run it on one cache.

### PortRings

Counts of descriptors in the rings and with the device; the two threads' loops as peek
/ refill and peek / release / submit; the kernel's four moves are external. TLC runs
it as part of `Sender`, whose steps leave it alone or are its own. `HwLimit` is the
number of descriptors the device may hold.

### Datapath

One node. A queue is the FIFO that `MpmcQueue` is shown to implement. `Arrive`
is the push at the end of both receiving loops: the packet is queued, counted as
dropped when the queue is full, or `lost` without a count when there is no memory for
its `burst_tx` or no queue (on the NIC side a failing `calloc` is a null pointer that
is written through; the model goes on);
`VethReceive` and `NicReceive` choose the queue (destination number less one, or
the namespace). `turn[i]` is the place of NIC TX thread `i` in its round: the
transit queues of its share, then the local ones (`Side`, `W`), and `Current` the
queue that `main` put at that index. `Pull` moves a packet to the thread's
`collector` and writes its header (`Encapsulated`: row and column as the code
passes them); `Flush` sends the burst when the queue is empty or the burst full.
`VethPull` and `VethFlush` are the loop toward a namespace. `ReadTime` changes
`topo` at any moment, to any slot; it is 0 before the first read, when
`getRouteElement` refuses the column and the next hop is `Undefined`.
`sent` is a history of what each port was given.

Traffic: namespaces send to other nodes of the worker file; what comes in by
the NIC was encapsulated by an emulator. A receiving burst is one packet at a
time: it is private to its thread. A packet is a number with its source,
destination and namespace.

### Rounds

Three packets make no load, so the load is looked at by itself: of each destination
queue only the length, packets arriving as long as there is room, for ever, and the
senders' `Pull` and `Flush` as in `Datapath`. `Datapath!GoesRound` is the refinement,
with the fairness of `Rounds`.

`Rounds` sends a burst in one step. `Sender` composes it with `PortRings`: leaving a
queue with a burst (`Call`) is the `TxPeek` of that many descriptors, and the thread
pulls again after `TxSubmit`, while packets keep coming. `EveryQueueServed` holds of the
composition with no bound on the packets.

### Forwarder

One FIFO per side and destination and one per namespace. `Receive` accepts a
packet or refuses it because its FIFO is full; `Send` takes the head of any FIFO
and writes the next hop of its destination for the present slot; `Take` is the
environment. Each FIFO is served fairly. `Datapath!KeepsPromise` is the
refinement: queue `d - 1` is that of destination `d`, and a packet in a thread's
collector counts as sent, since its header is written when it is pulled. With
more than one NIC queue the refinement fails, as `datapath_wrong_row` explains,
so it is checked with one.

### Rotor

`now` is PTP time, the same for all nodes; `topo[n]` is what node `n` read last,
possibly long ago (`ReadTime`, with the arithmetic of `read_time` in `SlotAt`).
`Forward` looks up queue number and slot in the node's own route file;
`NicReceive` puts a frame where `get_queue_index_for_nic_rx` says: the queue of
the same destination, or the namespace. A full queue or a port without buffers
loses the packet. `way` is a history: the slots of a packet's headers, and the
nodes that wrote the latest ones in one and the same slot.

`ScheduleAssumption` says what the routes must be like: in each slot every hop
comes nearer to the destination. It holds for the files of `config/`,
`ptp-32node-test-config/` and `indirect-3node-config/` (followed from every
node, for every destination and slot). Between slots there is no such order: in
`config/` 57 of 24800 relays are sent straight back to where they came from if
the slot changes before the relay forwards them. So a packet may return to its
source, and two packets of a flow may overtake each other (TLC finds both);
`NoLoopInSlot` and `InOrderInSlot` state what is left, and `EveryPacketEnds`
that once the slots stop changing, the to and fro ends. The clock stops at
`MaxNow`: were it to run for ever, a packet might be turned back in every cycle,
and nothing in the code would end that. The model starts when each node has read
its clock once.

### MgMap and Tables

`MgMap` searches cells from the front; `Store` takes the first free one or
doubles the table, up to `MaxCells`, a bound of the model. `Add` does not look for the
key, as `mg_map_add` does not, and nothing keeps its callers from adding an address
twice: they read a worker file to which `setup_cloudlab.py:60` appends. So the table is
no dictionary but a multimap: `Multimap` says that a look-up finds one of the values
stored under the key while there is one, and goes on finding it until a call names the
key. Which of two it is depends on the holes.

`Tables` reads worker lines into `mac_table` (line to MAC) and `ip_table` (address
to line), and route lines into the matrix, whose memory is `Garbage` until
`setRouteElement` writes it. The code's matrix is 32 by 32; rows and columns are
separate constants here. The fields of a line are read in the order of the code,
MAC (3) before address (8); the lines have both.

### Lifecycle

`pc` and `k` are `main`'s place and loop variable, the place named for what it
does there: attach, pool, ports, the socket maps, tables, workers, routes,
create, forward, join, and the frees. `Fail` leaves from any step that may fail;
the code returns or exits without undoing the earlier ones, and the process's
memory, threads and sockets go with it (`Gone`). `attached` is what survives: per
interface, the runs whose programs are on it. `Kill` is the SIGKILL of
`kill_opera.sh`; after a run ends in any way, the emulator may be started again.
`Create` may fail unnoticed, and then `JoinNothing` ends the process with a fault.
A sending thread may at any time `Wait` for room in its TX ring, in a loop that does
not read `quit`, until the kernel makes `Room`, which nothing promises.
`xdp_multiprog__detach` removes all programs of an interface, which is why
`EndLeavesNothing` holds after a kill; that it succeeds is assumed, the code
prints a message otherwise and goes on.

## 3. Runs

| Run | Instance | Shows |
|---|---|---|
| `mpmc_safety` | 2 producers x 3 pushes, 2 consumers, 2 cells | exclusion, bounds, causes of failure and of retries, refinement of the FIFO |
| `mpmc_liveness` | 2 producers x 2 pushes, 1 consumer, 2 cells | progress; `available` errs on one side only |
| `pool_one_port` | 1 port, 4 slabs of 3, rings of 1 and 2, burst 2, 1 lost packet | the port never starves |
| `pool_two_ports` | 2 ports, 5 slabs of 2, rings of 1 and 2, 1 lost packet | slabs apart, traded slab empty, buffers conserved under contention |
| `pool_overflow` | 1 port, 5 slabs of 1, drops | *violation*: two unlocked producers on a cache |
| `sender` | 1 thread, 2 destinations, queues of 1, rings of 2 to 4, device 2, burst 2, endless packets | neither loop of a port waits for ever; no load keeps a queue waiting |
| `datapath_one_nic` | 3 destinations, 1 NIC queue, 1 namespace, 2 slots, 3 packets | headers for destination and slot, every packet accounted for, refinement of `Forwarder` with its fairness |
| `datapath_two_nics` | 4 destinations, 2 NIC queues, 2 namespaces, 2 packets | one consumer per queue, order within a flow, refinement of `Rounds` with its fairness |
| `datapath_wrong_row` | 4 destinations, 2 NIC queues | *violation*: next hop of another destination |
| `rotor` | 3 nodes, 2 slots, 5 clock readings, queues of 1, 2 packets | no loop and no overtaking within a slot, every packet ends, nodes are Forwarders |
| `mg_map` | 4 keys, 2 values, 1 cell at first, 4 at most | refinement of `Multimap` |
| `lifecycle` | 2 NIC queues, 1 namespace, 2 runs, 2 worker lines | nothing dangling, sockets at their ports, one thread per side, clean end, right tables, an end unless a join waits for a wait for the kernel |

**Bounds.** Six pushes through two cells make three laps, so cells are reused while a
thread of an earlier lap sleeps at any of its steps; two threads of each kind give
every race for a position and every loser of it. The two producers of the liveness run
can overtake each other and block the consumer. The pool runs trade the same slab
several times through both caches: two buffers per slab make the first and the last
slot distinct, three also one between. In `pool_one_port` the premise `PoolSuffices`
is met by a single buffer (15 > 14). In `pool_two_ports` the pool has fewer slabs than
the ports could use, so the system may run dry and stop; deadlock is not checked
there, nor in the violation run. Sizes of the rings: the smallest that let a burst be
refused and both directions wrap. Three packets overflow a queue of two and fill more
than one burst; two are enough for one to overtake another, and two slots for one to
pass between pull and send. In `rotor` node 1 relays by node 2 in one slot and node 2
by node 1 in the other, so that packets are turned back; five readings cover a whole
cycle and its wrap; a queue of one makes a second packet overflow. `PushesProgress`
allows a push to lose for ever to others that go on winning; the producers of the run
make two pushes each, after which every push has to end, and that no retry is without
cause while they compete is `RetriesJustified`. In `sender` a queue is refilled while
it is being drained, so that a burst takes more than the queue held; two destinations
make a round of four queues. Four keys, each in any number of cells, double a one-cell
table twice and leave holes in front of, between and behind keys. Two runs are what a
kill and a recovery need; two NIC queues and a namespace make all four kinds of
threads, and ports whose number and queue differ. The route file has a line more than
the matrix has rows, and may be missing.

**Fairness.** Threads poll for ever and are pinned to their own cores, so each
step of a running call is weakly fair. A weak exchange that can succeed
infinitely often eventually does (strong fairness of the two claims): spurious
failures are not permanent. That a claim is possible again and again is not assumed:
others may always be faster, and `PushesProgress` leaves that open. In `BufferPool` a
sending thread pulls when there is something to pull and sends what it has pulled;
the kernel takes descriptors when the completion ring has room and completes what it
took. Nothing makes a thread reap but a burst to send. Main polls the clock; a frame on
the wire arrives or is lost; each queue of a node is served, which `KeepsPromise`
shows of the threads. In `Lifecycle` main goes on and its running time passes; a
thread that main waits for and that is again and again outside the wait for a TX ring
comes to the head of its loop (strong fairness of `Awaited`), since a round has a bounded
number of bursts. Nothing ends the wait: `RunEnds` leaves the join of a thread that waits
for ever, `PortRings` says when none does (`NeverWedged`), and with the tuning of the
set-up guide one may. Nothing
makes packets arrive, or stop arriving, or producers push, and nothing makes the slot
change.

**The violations.** `pool_overflow` drops a packet of port 0 while the sending
thread of port 0 completes another. Both see `n_buffers_prod` equal to the slab
size and both trade the *same* producer slab, so that the pool counts it twice;
the next trade takes for empty a slab that is in use. `mempool.h:176` says the
empty slab "is guaranteed".

`datapath_wrong_row` gives the second of two NIC queues a packet for destination
3. Its queue has index 0 in that thread's share, and the thread asks for the
route of destination 1. `Pull` follows the code: `encap_veth(w, ...)`,
`encap_indirection(w, ...)` and in them `dest_index + 1`. With one NIC queue, the
default of the start script, index and number agree (`HeadersCorrect`).

**Three thresholds** came out of the models and are stated as definitions.
`PoolSuffices` says how many buffers the ports need: for each, the slab forfeited at
the start, the two slabs its cache may hold back, what fills the fill queue, the TX
ring and the completion ring (which nobody empties while nothing is sent), and what was
lost for want of memory. With the shipped sizes (`structures.h:166-186`: slabs and fill
queues of 4096, TX and completion rings of 2048) that is five slabs a port: the 32
slabs of the defaults serve six ports, while `MAX_PORTS` is twelve. Each packet lost
for want of memory brings the pool nearer to the edge. The code never checks it.
`RoomToComplete`: the device's TX ring plus one burst must fit into the
completion ring; the defaults give the completion ring 2048 entries and the
set-up guide gives the device as many (`emulator-setup/README.md:82`), so the
premise is *not* met after that tuning. Without it TLC finds a sending thread
that waits for ever.
A third one: the slab `bcache_prod` takes is empty although `port_init` leaves
full slabs above the counted ones, because the fill queues of the ports hold
enough buffers. `FillSuffices` (in `BufferPoolProofs`) says how many:
`NPorts * (SlabSize - FillSize)` must not exceed `SlabSize`. It holds for the
shipped 4096 and 4096 (`structures.h:171`, `:175`). With three ports, six slabs of
two and a `fill_size` of one, TLC finds in 20 steps a trade that takes a full slab,
which `port_init` admits: it only refuses a `fill_size` larger than a slab.

## 4. Proofs

TLAPS proves every safety property that a passing run checks, for all sizes, sets
of threads, files and traffic, and the refinements of `BoundedQueue` by `MpmcQueue`
and of `Multimap` by `MgMap`. Of `Forwarder` the initial states and steps are
proved, of the nodes of `Rotor` (all that `NodesKeepPromise` says) and of `Datapath`
(`KeepsPromise` without its fairness). The assumptions are those the modules name,
each with its reason beside it; where a theorem needs more, it says so in an ASSUME
of its own. What fairness promises is left to TLC, see the end of this section.

| Module | Theorem | Property |
|---|---|---|
| `MpmcQueueProofs` | `TypeCorrect`, `RingCorrect` | `TypeOK`, `RingInv` |
| | `CellsExclusive`, `QueueBounded` | `CellExclusive`, `Bounded` |
| | `PushFullCorrect`, `PullEmptyCorrect` | `PushFullJustified`, `PullEmptyJustified` |
| | `NonzeroMeansWork`, `LockFree` | `SoleConsumerSeesWork`, `RetriesJustified` |
| | `RingKeepsPromise` | `KeepsPromise`: refinement of `BoundedQueue` |
| `BufferPoolProofs` | `PortsDoNotStarve` | `NoPortStarves` |
| | `SlabsStayApart`, `EmptySlabWaits` | `SlabsApart`, `EmptySlabGuaranteed` |
| | `PoolTyped`, `NoneLostNorDoubled` | `TypeOK`, `BuffersConserved` |
| `PortRingsProofs` | `PortTypeCorrect`, `RefillCorrect`, `WedgeFree` | `TypeOK`, `RefillNeverWaits`, `NeverWedged` |
| `DatapathProofs` | `DatapathTypeCorrect`, `OneConsumerPerQueue` | `TypeOK`, `SoleConsumer` |
| | `HeadersCorrect`, `QueuesCorrect` | `HeadersRouted` with one NIC queue, `QueuedByDest` |
| | `FlowsStayInOrder`, `NoneLost` | `FlowOrder`, `NothingLost` |
| | `NodeIsForwarder` | with one NIC queue, the initial states and steps of `Forwarder` |
| `RotorProofs` | `NetworkTyped`, `NeverLoops`, `StaysInOrder` | `TypeOK`, `NoLoopInSlot`, `InOrderInSlot` |
| | `NodesAreForwarders` | `NodesKeepPromise` |
| `MgMapProofs` | `MapTyped` | `MapTypeOK` |
| | `MapIsMultimap` | `IsMultimap`: refinement of `Multimap` |
| `LifecycleProofs` | `LifecycleTyped`, `NoneDangling` | `LifecycleTypeOK`, `NothingDangling` |
| | `RedirectsRight`, `SidesHaveOneThread` | `RedirectsToOwnPort`, `OneThreadPerSide` |
| | `EndsClean`, `TablesAgree` | `EndLeavesNothing`, `TablesRight` |

`TablesProofs` has the lemmas about look-ups that `LifecycleProofs` cites.

### The queue

Assumptions: `Size` is at least two (`SizeAssumption`), the two kinds of threads
are disjoint, `MaxPushes` is a natural number. That `Size` is a power of two is
assumed only by the `&` of the code that `%` stands for.

`Bounded` and `CellExclusive` are not inductive: that a free cell at `tail`
implies room says something about *all* cells. `RingInv` adds
- `Window`: each cell is *free* for its number `s` (`s % Size` is the cell), and
  `s` is within a lap of `tail` and less than a lap ahead of `head`, or *full*
  (`s - 1`), and `s` is at most `tail`, less than a lap back;
- `ProducersInv`, `ConsumersInv`: a thread about to win a position would win a
  cell in the right state, one that has won keeps it there, no two won the same;
- `Accounted`: every position between head and tail is published or being
  filled; every position one lap back is released or being emptied.

`SameCell`, `NextLap` and `LapBehind` are the arithmetic: two positions less
than `Size` apart in the same cell are equal. Steps that do not change a cell or
a counter are dealt with by `RingQuietPush` and `RingQuietPull`, the four that
do by a lemma each. The three action properties follow from the invariant alone:
`LockFree` because a cell beyond a thread's position has been claimed, and `Window`
and `Accounted` then put the counter beyond it too.

`NonzeroMeansWork` needs what a thread remembers between two loads (`PollInv`):
head stands still for its only consumer and tail can only grow. For the
refinement, `HandInv` says that the packet a producer has written and not yet
published is still in its cell. The abstract queue lists, for each position from head
to tail, the packet in the cell or in the hand of the thread that fills it;
`OnePacketEach` is that there is exactly one, and then every step either leaves the
list alone, appends one (the exchange on tail) or takes the first (that on head).

### The buffer pool

All five theorems assume `OneFreer`: no port both sends packets and drops received
ones, so that a cache has one thread that frees into it. In terms of the emulator,
they speak of its behaviour as long as no queue overflows, and of ports that
only send or only receive. `pool_overflow` shows that without the
assumption they are false. All but `PortsDoNotStarve` also assume
`FillSuffices` (section 3), which is false of some configurations that
`port_init` accepts, and true of the shipped one.

Three invariants stand on each other, over `Shape`, the types of everything but
what is in the slots.
- `CountInv` counts. A port holds the buffers in its two slabs, in the fill queue, in
  the burst, in `out` and in the hands of its threads; `Total` says that these, the
  full slabs of the pool, the packets in the queues, the lost ones and the slab each
  port gave up make `NSlabs * SlabSize`. `Sends` bounds `out` by the rings it stands
  for: between two bursts a full completion ring and a full TX ring. `Locals` is that
  a thread in `bcache_prod` knows the true count, for which `OneFreer` is needed.
  `NoPortStarves` is then arithmetic.
- `SlabInv` says that the pool never counts more than the slabs left by the ports
  (`Room`), and that the consumer slabs, the producer slabs and these positions of the
  pool hold different slabs (`Apart`). A trade exchanges two of them. That the
  position it takes is within `Room` is where `Total` and `FillSuffices` come in: were
  it not, there would be more buffers than there are.
- `PlaceInv` says where the watched buffer is. A place is an index into a list: the
  counted part of a slab, the fill queue, the burst, `out`, a hand, the lost ones; the
  bag `flight` has one list per address. It is at one place (`Somewhere`), or was in a
  slab that a port took for empty and is at none (`Gone`, `Nowhere`). Each step is of
  one of a few shapes, and each shape keeps the number of places: `Push` moves one
  buffer from list to list, `Pass` a whole list, `Feed` the last of one list to two
  others, `Give` a slab to a new port. `Stored` says what a thread has stored and not
  yet counted.

Sums over ports are functions of partial sums (`SumsOf`), whose existence and
behaviour need induction. `AllNumbers` does it for a *set* of numbers, from the
well-foundedness of the subset relation on finite sets (`LeastElement`), since a
set is no operator parameter.

### The rings of a port

Rings of all sizes. `RingsInv` adds the conservation of the port's buffers in
the RX direction, and that between two bursts no more than a full TX ring and
the device's share are outstanding. `NeverWedged` has `RoomToComplete` for a premise.

### The data path

Any number of destinations, NIC queues, namespaces and slots, any route file and
any traffic. `SizesAssumption` asks for at least one destination, no more NIC
queues than destinations, and queues and bursts of at least one. `HeadersRouted`
is not inductive: the header is computed from the queue's index, so `HeadersInv`
adds `QueuedByDest`, and `HeaderOfHead` shows that index and destination agree
when there is one share. `Shares`, `SharesInside` and `SharesApart` are the
arithmetic of the division of queues.

`FlowInv` treats a queue as one place and what a thread has sent, followed by what
it has collected, as another. Every accepted packet is in one place (`OnePlace`,
`Counted`, `Covered`), at its queue or with the thread that serves it (`ServesOne`),
and of two packets for one queue the later is behind the earlier (`InOrder`). So a
flush changes no place, a pull moves the head of one to the end of another, and the
order of a flow does not depend on slots at all.

`NodeIsForwarder` uses the same places: what an outlet of the promise was given is
what its thread has sent and collected (`BarOutlets`), so that a pull is a `Send`
(`BarPull`, by `QueuedByDest` with the next hop of the right destination) and a flush
a stutter.

### The network

`ScheduleAssumption` is what the proofs stand on: in every slot some distance to
the destination falls with each hop. A packet that was sent along in one slot only
has a trail on which that distance falls (`Followed`, `Nearer`), so no node comes twice
(`NoLoops`). For the order, `Rank` counts where a packet is: three for each node of
its trail, and its stage between two nodes. Two packets of a flow that were sent
along in the same slot only, the later has the lower rank and its trail is the
beginning of the other's, or they are in one queue, wire or list, the later behind
(`InOrder`). `NodesAreForwarders` shows for each disjunct of `Rotor`'s next-state
relation which step, or stutter, it is at each node; `QueuesFit` and
`NeverToItself` are what it needs.

### Tables, start-up and shutdown

Every operation changes one cell and names one key (`Only`). Then nothing has changed
for the other keys (`Elsewhere`, `NamesOne`), and the counts of the key change by what
was in the cell and what is in it now, because the cells of a key and a value are a
finite set that gains or loses one. A look-up finds the first cell of its key
(`GetFirst`), so one of the values stored (`FindsStored`); after an addition it is the
new cell or still the old one, whichever comes first. That is the refinement, with
`MapInv`: only a table in use has cells.
`TablesProofs` applies them to both tables. Its one new assumption, in
`TablesAssumption`, is that the value for "absent" (NULL) is neither a MAC
address nor a line number. `LinesFound` and `RowsRead` follow the loops over the two
files. The matrix needs `ElemApart`: two rows and columns within bounds have
two places in its memory.

The invariant of `Lifecycle` follows `main`'s place and loop variable. `MemoryOK`
says for each place what is allocated; `SocketsOK` which entries of the socket maps are
made; `ThreadsOK` which threads have been created and joined; `AttachedOK` that
programs left behind are of earlier runs; `TablesOK` how far the files are read. No
property but `OneThreadPerSide`, which is arithmetic of the thread numbers, is
inductive without knowing the place.

### Only model-checked

Liveness and what needs fairness, which is out of the prover's reach:
`EveryPacketPulled` and `PushesProgress` of the queue, `PortRefilled`,
`BurstSubmitted`, `EveryQueueServed`, `EveryPacketEnds`, `RunEnds`, the refinement of
`Rounds` by `Datapath`, and the fairness in that of `Forwarder`.

## 5. Not modelled

`push_many`, `pull_many`, `port_tx_burst`, `flush_tx`, `track_topo_change`,
`mg_map_getindex`, `mg_map_set`, `mg_map_del` and the MAC matrix have no callers (the
two that change a table are modelled all the same). The contents of packets,
checksums, counters of statistics and DEBUG tracing are left out, and with them
two places listed as hazards: an overlapping `memcpy` and trace arrays without a
bound. The XDP programs keep no state: they look their queue up in `xsks_map`, of
which `RedirectsToOwnPort` speaks. Packets whose destination is in no table, and
packets on the NIC that no emulator encapsulated, are outside `Datapath` and
`Rotor`. `Rotor` also leaves out packets lost for want of memory or of a queue
(`thread_functions_1.h:670-682`), which `BufferPool` and `Datapath` have; it has losses on
the wire. The branches for a packet at address NULL (758, 812) lose what was
pulled, too, but an offset into the UMEM is never NULL: they are not modelled. Clocks
of different nodes are taken to agree; what differs is when they
are read.

`opera-v1` and `opera-ex` share most files with `opera-v2`, but their thread
functions are other code, of which nothing is said. Deployment scripts (except
start and kill), test clients and analysis scripts do not run in the emulator.
The vendored libbpf, libxdp, xdp-tools and kernel headers make up most of the
repository's lines (186 of 235 thousand under `lib/` alone); they are modelled
from outside, by what `opera-v2` asks of them.

## 6. Plan

The models of the first plan are all there, and all their safety properties are
proved. What is left:

1. The refinements and `FlowOrder` chained: what a packet meets from namespace to
   namespace, over nodes that are Forwarders only.
2. `OneFreer` relaxed: what remains true of the counts when two threads free into
   one cache, for instance a bound on what one overflow can lose.
