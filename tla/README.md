# TLA+ models of the lwIP board support for the STM32F429

The repository is firmware for an STM32F429 board: a polled Ethernet driver
(`src/USER/lwip_port/netif/ethernetif.c` on top of ST's HAL), the lwIP 2.1.2
stack in its `NO_SYS` configuration, a start-up state machine that obtains an
address by DHCP or falls back to a static one (`src/USER/lwipdemo.c`,
`src/USER/main.c`), and small UDP and TCP applications. There is one thread. What
runs concurrently with it is hardware (the Ethernet DMA engine, which shares the
descriptor rings with the driver) and the network (which delays, loses,
duplicates and reorders).

This directory holds TLA+ modules for the parts with the most delicate state, TLC
configurations that check them on small instances, and proofs for TLAPS.

## 1. Inventory

| Part | State | Operations | Talks to |
|---|---|---|---|
| Receive path: `low_level_input`, `ethernetif_input`, `HAL_ETH_GetReceivedFrame` | ring of receive descriptors (OWN, FS, LS, length), `heth.RxDesc`, `RxFrameInfos` (first and last descriptor, segment count, length), `DMASR.RBUS` | poll one descriptor, allocate a pbuf, copy, release the descriptors, resume reception | receive DMA through shared memory and DMASR/DMARPDR; pbuf pool; `netif->input` |
| Transmit path: `low_level_output`, `HAL_ETH_TransmitFrame` | ring of transmit descriptors, `heth.TxDesc`, offsets of the copy loop, `DMASR.TBUS/TUS` | copy a pbuf chain, split the frame, give descriptors, resume transmission | transmit DMA through shared memory and DMASR/DMATPDR |
| Main loop and start-up: `main`, `lwip_init_task`, `lwip_Process`, `lwip_dhcp_process_handle` | `DHCP_state`, link state at start, which loop `main` is in | one round: input, timers, state machine; start the UDP server | driver, timers, DHCP client |
| DHCP client: `dhcp.c` | `struct dhcp` (state, tries, request_timeout, xid, offer, lease timers), interface address, static `xid` | start, fine and coarse timer, receive, ARP reply, release and stop | UDP, ARP, timers; polled by the start-up code |
| Timers: `timeouts.c` | sorted list of timeouts, pool, clock | arm, cancel, run what has expired, restart after a sleep | SysTick; handlers of the stack |
| ARP: `etharp.c` | table of entries with age, hardware address and queue, cached index | input, output, query, timer | driver, IP, DHCP; holds received pbufs |
| IP reassembly: `ip4_frag.c` | list of datagrams with their fragments, count of pbufs | a fragment comes in, timer | IP, ICMP; holds received pbufs |
| UDP echo server: `udp_server.c` | one pcb | init, receive callback | UDP, heap, pbuf pool |
| TCP server and client: `tcp_server.c`, `tcpclient.c` | a connection record with state, retries and a pbuf chain | accept/connected, recv, sent, poll, error, send, close | TCP callbacks, heap |
| Heap: `mem.c` | chain of block structures, `lfree` | malloc, free, trim | everything that allocates |
| Packet buffers: `pbuf.c` | chains with lengths and reference counts | alloc, free, ref, cat, chain, realloc, dechain | driver, stack, applications |
| MAC and PHY initialisation: `low_level_init`, `HAL_ETH_Init` | registers, time of the loop, result | reset, poll for link and negotiation, read the mode | PHY, SysTick |
| Driver table: `driver_control.c` | table of eight entries | register, find | nothing compiled here |
| Clocks and pins, UART, interrupt handlers | registers | programming | hardware |
| Link change callback `ethernetif_update_config` | none | never registered in this build | - |

What is hard here, and to test:

* the driver and the DMA engine run at the same time and synchronise by OWN bits
  and by flags that the engine sets and the driver clears: lost wake-ups,
  descriptors used by both sides, a stale segment count, a full ring;
* the frame is split twice on transmission, once by copying and once by length;
* replies of DHCP servers arrive late, twice, or after the client has changed its
  mind; three lease timers and a retry counter survive changes of state;
* allocations fail at any point, and one pool of buffers serves the driver, ARP,
  reassembly and the applications: who frees what, and does it come back;
* times wrap, in the list of timeouts and in the loops that poll the PHY;
* callbacks of one connection come in any order, also after it was closed;
* start-up has to end, with one kind of address or the other, and the application
  has to learn of it.

`PROJECT.json` lists these hazards at their lines with the properties that cover
them.

## 2. Modules

| Module | Contents |
|---|---|
| `EthRx` | receive path and receive DMA |
| `RxQueue` | abstract specification: a bounded queue of frames that may lose frames |
| `EthRxRefinement` | refinement mapping from `EthRx` to `RxQueue` |
| `EthRx_proofs` | inductive invariants and theorems about `EthRx`, and that it implements `RxQueue` |
| `EthTx`, `MCEthTx` | transmit path and transmit DMA; instances |
| `EthTx_proofs` | proofs about `EthTx` |
| `Dhcp` | functions of `dhcp.c` on a client record |
| `Startup`, `MCStartup` | main loop, `DHCP_state`, timers and network around the client; instances |
| `Startup_proofs` | inductive invariants and theorems about `Dhcp` and `Startup`, and about `EthInit` |
| `Timeouts`, `MCTimeouts` | list of timeouts, cyclic timers, clock; instance |
| `Timeouts_proofs` | proofs about `Timeouts` |
| `Etharp` | functions of `etharp.c` on the ARP table |
| `IpReass` | functions of `ip4_frag.c` on the list of datagrams |
| `NetStack`, `MCNetStack` | both composed with the UDP server, ICMP and the buffer pool; instances |
| `NetStack_proofs` | proofs about `NetStack`, `Etharp` and `IpReass` |
| `TcpServer`, `TcpClient` | callbacks of the two TCP applications |
| `TcpApps` | a build with one or the other |
| `TcpApps_proofs` | proofs about both |
| `EthInit` | `HAL_ETH_Init`, `low_level_init` and the PHY |
| `Heap` | `mem_malloc`, `mem_free`, `mem_trim` |
| `Allocator` | abstract specification: disjoint blocks that stay where they are |
| `Heap_proofs` | proofs about `Heap`, and that it implements `Allocator` |
| `Pbuf` | chains of pool buffers |
| `Pbuf_proofs` | proofs about `Pbuf` |

Definitions whose name ends in what they break (`RbusSetNoDemand`,
`BindKeepsLeaseUsed`, ...) and whose comment begins with "Mutant:" are deliberate
mistakes; nothing refers to them. Each shows that a property can fail.

### EthRx

The driver is a sequential program with a program counter `pc`:
`poll` (one descriptor is looked at by `HAL_ETH_GetReceivedFrame`), `alloc`,
`copy` (one buffer per step), `release` (one descriptor per step), `rbus` and
`resume`. Each access to shared memory or to a register of the DMA is a step of
its own, so that the engine can run between any two. The engine has the states
`idle`, `fill`, `close` and `suspended`. Content is abstracted to chunks: chunk
`seg` of frame `frame` is what one receive buffer holds.

What is assumed of the hardware, from how the code uses it:

* the engine clears OWN after it has written status and buffer;
* it looks at the OWN bit of the next descriptor before it closes the present one.
  The value may be stale when it acts on it;
* when the next descriptor is not available in the middle of a frame, the frame is
  cut off: the present descriptor is closed with LS set, and FL counts what was
  transferred;
* after RBUS the engine stays suspended until a poll demand is written, and then
  looks at its current descriptor again.

### EthTx

`low_level_output` copies pbuf by pbuf (`CheckDesc`, `CopySplit`, `CopyRest`); the
test of the OWN bit, the copy into a descriptor and the advance are as in the
code. `HAL_ETH_TransmitFrame` then divides the length by the buffer size
(`bufcount`) and gives one descriptor per step (`GiveDesc`). Bytes are kept apart
(byte `j` of frame `f` is `<<f, j>>`), since the property is that the two ways of
splitting agree. With the buffers of 1524 bytes of this build every Ethernet frame
fits one descriptor; the code is written for more, and the model exercises it.
Fetching a descriptor the engine does not own and suspending is one step.

### Dhcp and Startup

Each function of `dhcp.c` is an operator from the client before the call to the
client after it, the calls it makes included. `Startup` owns the variables: the
client `c`, whether it is attached to the interface, `DHCP_state`, and the position
in `lwip_Process()`. One round handles at most one frame, then calls the handlers
of the expired timers, then the start-up state machine, then the loop condition of
`main()`. The network answers any DISCOVER or REQUEST that was ever sent, at any
later time, any number of times.

Abstractions: `request_timeout` is running or not; mask and gateway follow the
address; an offer without a server identifier is a message that is ignored; the
state REBOOTING is absent (only `dhcp_network_changed()` enters it, and nothing
calls `netif_set_link_up()`). Allocation of the client structure and its pcb happens
once, at start, when the pools are untouched, and does not fail; every later message
may find no memory. When the link was down at start-up, `dhcp_start()` fails and
`dhcp->tries` is read through a null pointer, which on this processor is a byte of
flash: the model reads an arbitrary value.

### Timeouts

The list, the pool and the clock modulo `Wrap` are as in the code; each entry carries
in addition the true time that is `left`, which the code does not have, so that order
and punctuality can be stated without the comparison that is under test. The clock
ticks while handlers run and between two calls of `sys_check_timeouts()`, by at most
`MaxLag`. `Configuration` assumes what the board guarantees: the pool
is larger than the number of timers, and the loop is much faster than half the range
of the clock. `Startup` keeps its own, looser view of the timers (any of them may
expire in a round), which `TimersRun` justifies.

### NetStack

One action per thing that reaches the stack: an ARP packet, a datagram, a fragment,
the two timers, and the ARP probe of the DHCP client. What the functions of `Etharp`
and `IpReass` do with a pbuf is expressed by counts: buffers kept in a queue or a
chain, and buffers `freed` to the pool. `sent` and `delivered` record the packets that
left and the fragments that went up in a step. Messages of the stack itself are in the heap
and take no pool buffer. An answer longer than the MTU is fragmented into packets that
refer to it; the ARP queue copies such a packet (`volatile`).

### TcpServer, TcpClient, TcpApps

A callback is one action with the part of the stack that calls it. The server's
data is counted in units of one buffer and numbered, the stack's send buffer, receive
window and refused data are kept as `tcp.c` and `tcp_in.c` keep them, because what the
callbacks may do depends on them. A callback that uses a pcb after `tcp_close()` has freed
it sets `stale`, and the model goes no further. The return value that two functions
of the client leave uninitialised is any value. In `main.c` both applications are
commented out; `TcpApps` is a build that enables one.

### EthInit

Each read of a PHY register and each test of the result is a step; between them the
clock ticks and the link comes, negotiates, and goes. A read that fails takes
`PHY_READ_TO` ticks and leaves the variable as it was, since the result of the read
is ignored. `InitAssumption` has the order of the constants of the HAL: an
access that fails takes longer than a loop may last, and this is what makes
`FreshStatus` true. It also says that a loop at its limit, one more failed access and
the lag of the processor fit into the range of the clock; with one tick less the elapsed
time can wrap to a small value, and `FreshStatus` is false.

### Heap and Pbuf

Both are checked for every sequence of calls. `Heap` contains the offsets, links,
`lfree` and the arithmetic of sizes modulo the width of `mem_size_t`; `blocks` records what
callers hold. `Pbuf` contains `next`, `len`, `tot_len` and `ref` of every buffer of a
pool, and how many references callers hold; a caller uses only packets it holds.

## 3. Runs

| Run | Instance | Shows |
|---|---|---|
| `rx` | 3 descriptors, frames of 1 or 2 segments, 4 frames | `OwnershipExclusion`: no descriptor is used by both sides. `GivenInOrder`: what goes up is the beginning of one frame, in the order of the wire, once. `NoReceiveStall`: a suspended engine has somebody about to wake it. `ImplementsQueue`: the ring refines `RxQueue`. `ReceptionGoesOn`: also when no pbuf is ever available |
| `tx` | 3 descriptors of 2 bytes, chains of 1 to 3 pbufs, 4 calls, 1 underflow | `TxExclusion`; `SentIntact`: what leaves is what was accepted, byte for byte, in order; `NoTransmitStall`; `DescriptorsReturn` |
| `startup` | 2 addresses, 3 kinds of lease, 5 replies and 2 conflicts that have an effect, 1 failing allocation | `StaticIsFinal`, `AddressIsLeased`, `LeaseCountsDown`, `FreshTransaction`; `BootEnds`, `LeaseExpires` |
| `startup_server` | 2 replies | violation of `ServerStarts` |
| `timeouts` | cyclic timers of 1 and 4 ticks, TCP timer of 3, one application timeout of 2, a sleep of 9, clock modulo 20 | `ListConsistent`: the list is in true order and has every timer once. `OnTime`: no handler early, none left behind. `NoCatchingUp`: no bursts. `TimersRun` |
| `net_arp` | 3 hosts, 2 hardware addresses, 2 entries, 4 buffers | `NoLeak`; `TableConsistent`: one entry per address, only pending entries queue; `RightHost`: every packet leaves for the address its host announced last; `PendingEnds` |
| `net_reass` | 3 datagrams, 9 fragments, 2 places, 4 of 6 buffers | `NoLeak`; `DeliveredWhole`; `KeepsOwnDatagram`: room is never made at the expense of the datagram it is for; `ReassemblyEnds` |
| `net_empty` | empty datagrams | violation of `NoLeak` |
| `tcp` | server: 8 buffers, send buffer 3, window 4, 7 units; client: 4 buffers, send buffer 2 | `CallbacksHaveEs`: no callback without its record. `EchoInOrder`, `Accounting` (buffers and window), `MessageOnce`, `AppsClose` |
| `eth_init` | clock modulo 16, limits of 1 and 3 ticks, a failing access takes 5 | `FreshStatus`, `ModeNegotiated`, `InitEnds` |
| `heap` | 32 bytes, alignment 2, sizes up to the width | `HeapConsistent`: links, lowest hole, every used block is held by a caller. `FailsOnlyWhenFull`. `ImplementsAllocator`: refines `Allocator` |
| `pbuf` | 3 buffers of 2 bytes, packets up to 5 bytes, 2 references each | `PoolConsistent`: counts are references, nothing is lost. `TotLenIsTrue` |

`HeapConsistent`, `ListConsistent`, `TableConsistent`, `PoolConsistent` and
`CallbacksHaveEs` are conjunctions of named parts, the type invariant of the module
among them.

### Bounds

* Rings: three descriptors are the fewest with a descriptor that is neither the
  first, the last nor adjacent to itself; two-segment frames then make the window
  of the driver wrap, fill the ring, and be cut off. Four frames are one more than
  the ring holds, so that a descriptor is reused.
* Transmission: buffers of two bytes and chains up to five bytes give lengths below,
  at and above multiples of the buffer size, frames of one, two and three
  descriptors, and pbufs that end before, at and after the end of a buffer.
* DHCP: 16-bit counters saturate and wrap at 7 and the coarse timer counts in units
  of 2 seconds, so that leases from 1 to 5 ticks, the default `t1` and `t2`, a `t2`
  after the end of the lease, and saturation all occur; 32-bit times wrap at 1023.
  The retry counter saturates at 7, above both limits the code tests (5 and
  `MAX_DHCP_TRIES` = 4). Five replies are enough for an offer, an ACK, a NAK and a
  second negotiation, or for a renewal in between. Replies that the client ignores do
  not count. One message finds no memory.
* Timeouts: the longest interval is just within a quarter of the clock's range, as
  `LWIP_MAX_TIMEOUT` demands, so that every position relative to the wrap occurs; the
  loop may be late by two ticks, twice the shortest interval.
* ARP: three hosts compete for two entries, so that entries are recycled and the
  cached index becomes stale; entries expire after 3 rounds of the timer and are asked for
  again from the second on.
* Reassembly: the fragments hold more buffers than the limit allows; among them are
  one that overlaps, one that is too long, and datagrams with a missing part.
* TCP: segments of up to three units and a send buffer of three, so that a chain is
  written in part; a window of four lets a second segment arrive meanwhile.
* PHY: the loops run until just before, at and after their limits; every start value
  of the clock is an initial state.
* Heap: room for up to six of the smallest blocks; the requests include 0, sizes below
  the minimum, ones that are not aligned, ones that do not fit, and ones that wrap when
  they are aligned.
* Pbuf: three buffers are enough for a chain with a tail that another caller holds
  and a buffer left to chain to it.

### Fairness

* Receive: the polling loop never blocks, hence weak fairness of the driver's step;
  the engine finishes what it has begun. The wire owes nothing.
* Transmit: the driver finishes every call of `low_level_output` it has begun and the
  engine works on while it owns descriptors (weak fairness of each; the stack owes no
  further frame). `DescriptorsReturn` is stated up to the first underflow, since after an
  underflow that comes late the code resumes only in the next call.
* Start-up: the loop runs, SysTick advances, so both cyclic timers expire again and
  again, and a `request_timeout` that is running runs out. Replies and conflicts are
  bounded in number, which is needed: every NAK and every conflict starts a new
  negotiation and resets `tries`, so endlessly many prolong start-up for ever.
* Timeouts: SysTick counts, the loop calls `sys_check_timeouts()`, handlers return, and a
  program that slept calls `sys_restart_timeouts()`. Going to sleep is not fair, and
  `TimersRun` excepts a program that sleeps again and again (nothing on the board does).
* NetStack: the two timers run (`TimersRun`). The network owes nothing and may send for
  ever.
* TCP: `tcp_slowtmr()` polls a connection again and again. The peer owes nothing.
* EthInit: the processor goes on and SysTick counts. The software reset need not end.

Deadlock is checked except in two runs: initialisation ends (`eth_init`), and a
server whose `tcp_server_init()` failed, or that has used a freed pcb, does nothing
more (`tcp`).

## 4. Proofs

The proof modules are checked by TLAPS. Their theorems hold for every value of the
constants that the named assumptions of the modules allow. Each proof module states an
inductive invariant (`IInv`, in `Startup_proofs` `Inv`; the frame numbers of `EthRx_proofs` and
the transactions of `Startup_proofs` have one of their own on top of it), then has one lemma per
action. TLC has checked these invariants on the instances of section 3. All properties of the
passing runs that are not about liveness are proved, both refinements included.

`Startup_proofs` has two parts, since start-up has: the initialisation of MAC and PHY
(`EthInit`), with which `lwip_init_task()` begins, and what follows it (`Startup`). The two
modules share no name, those of `EthInit` begin with `Mac` where the other's are plain
(`MacInit`, `MacNext`, `MacSpec`), and neither proof uses the other.

| Module | For every | Theorems and what they state |
|---|---|---|
| `EthRx_proofs` | ring of 2 or more descriptors, length and number of frames | `RingInvariant`, `TypeCorrect`, `Exclusion` (`OwnershipExclusion`), `NoStall` (`NoReceiveStall`), `HandedUpInOrder` (`GivenInOrder`), `Refinement` (`ImplementsQueue`) |
| `EthTx_proofs` | ring, buffer size, and pbuf chains that fit the ring | `Invariance`, `DriverExclusion` (`TxExclusion`), `NoLostWakeUp` (`NoTransmitStall`), `FramesIntact` (`SentIntact`) |
| `Startup_proofs` | addresses, lease options, widths of counters, numbers of replies, conflicts and failed allocations | `Invariance`, `TypeCorrect`, `StaticStays` (`StaticIsFinal`), `Leased` (`AddressIsLeased`), `LeaseMeetsItsEnd` (`LeaseCountsDown`), `TransactionsAreFresh` (`FreshTransaction`) |
| `Timeouts_proofs` | set of timers, intervals, range of the clock, lag | `Invariance`, `ListIsConsistent` (`ListConsistent`), `NeverCatchesUp` (`NoCatchingUp`), `HandlersAreOnTime` (`OnTime`) |
| `NetStack_proofs` | hosts, table size, fragments, limits of reassembly, pool | `Invariance`, `TableIsConsistent` (`TableConsistent`), `SentToRightHost` (`RightHost`), `WholeDelivered` (`DeliveredWhole`), `NothingLost` (`NoLeak`), `NothingFreedTwice`, `OwnDatagramKept` (`KeepsOwnDatagram`) |
| `TcpApps_proofs` | pools, send buffers, window, segments | `Invariance`, `CallbacksAreSafe` (`CallbacksHaveEs`), `EchoOrdered` (`EchoInOrder`), `AccountsRight` (`Accounting`), `MessageWrittenOnce` (`MessageOnce`) |
| `Startup_proofs` (`EthInit`) | range of the clock, time limits | `MacInvariance`, `StatusIsFresh` (`FreshStatus`), `ModeIsNegotiated` (`ModeNegotiated`) |
| `Heap_proofs` | heap size, alignment, size of the structs, width of `mem_size_t`, requests | `Invariance`, `Consistent` (`HeapConsistent`), `FailsOnlyIfFull` (`FailsOnlyWhenFull`), `Refinement` (`ImplementsAllocator`) |
| `Pbuf_proofs` | pool, size of the buffers, length of packets, references of a caller | `Invariance`, `PoolIsConsistent` (`PoolConsistent`), `TotalsAreTrue` (`TotLenIsTrue`) |

### Why the invariants hold

`EthRx`. Whether the driver may release `SegCount` descriptors from `FSRxDesc` on depends
on all the others. `RingInv` says that the descriptors the DMA does not own form a window
of the ring, from the oldest one the driver holds up to the engine's position, that the
first `Held` of them are those the driver has looked at, and that the segment numbers
along the window continue each other, up to what the engine is about to write. The
engine makes the window longer at one end, the driver shorter at the other. `FrameInv`
adds which chunk of which frame each descriptor of the window holds and that frame
numbers do not decrease along it: what is copied is therefore one frame from its
beginning, and later than everything handed up before.

`RxQueue`. The queue that the ring implements is read off the unread part of the window: the
frames are a recursion over its descriptors (`FramesFrom`), each with LS ending one.
The engine's `DmaClose` with LS continues the recursion at the end and is the `Store` of the
queue; the driver's `GetReceivedFrameLast` takes the window's first descriptor away, which takes
the first frame away (`FramesShift`), and is `Take`. The other steps change neither what is
unread nor what is in hand. Three things need the invariants: `Unread`, computed
from `own`, `RxDesc` and `cur` alone, is what is left of the window, also when the ring is full
or empty (`UnreadFacts`); the engine writes outside of it; and the frame in hand begins at
`FSRxDesc`, however many segments were collected, and is the one whose end was found.

`EthTx`. Byte `x` of the frame being copied lies at a distance from `heth.TxDesc` that
depends on `x` alone, however the pbufs are cut. Each descriptor given to the engine has the
bits and the size of the segment that its first byte begins, and is followed by the next
segment of its frame or the first of a later one; the engine has sent what precedes the
descriptor it is at. Both ways of splitting a frame (copying, and dividing the length)
thus give the same segments, for any size of the buffers.

`Startup`. `Good(d)` collects what every function of the client preserves: an address of a
server implies a lease for it; the static address implies that the client is off; a client
that is off has no pcb; `lease_used` is below `t0_timeout`. Functions that are only called
without an address (`dhcp_discover`, `dhcp_select`, `dhcp_check`) get a lemma with that
precondition, and `NoLease` shows it from the state. `Inv` adds how the client agrees with
`DHCP_state`; that a client that is off stays as it is, whatever is received or expires,
gives `StaticIsFinal`. Note that `Good` does not say that a supplied address is on the
interface: that is false (finding 4). `FreshTransaction` needs a strengthening of its own,
`FreshInv`: as long as no message was lost to a lack of memory, no finished
identifier is above the counter, and a running client has the latest one (`FreshId`).

`Timeouts`. The comparison of wrapped times is right only when two times are less than half
the range apart. The invariant bounds how far any two entries of the list are apart (`Span`, a
quarter of the range and twice the lag), from the overload rule of `lwip_cyclic_timer()` and
from the lag that a handler may have, and says that the stored times are the true ones,
counted from the clock or, asleep, from the time when the program fell asleep. "none" must not
be the name of a timer (`ConstantsOK`): without that the handler of such a timer would look
like no handler at all.

`NetStack`. The numbers of buffers are sums over the entries of the table and over the
fragments of the list. `TableOK` says that the table has an address once, that a stable entry
has the address its host announced last, and that only a pending entry has a queue. `ListOK`
says that a datagram is in the list once and that its fragments belong to it and do not
overlap; with that its chain can be a set, and a whole datagram covers each byte once
(`WholeCovered`). Each function of `etharp.c`, `icmp.c`, `udp_server.c` and `ip4_frag.c` gets a
lemma: a consistent record stays consistent, and what it frees and what it holds add up to
what it was given. `NoLeak` holds under `RequestsFreed`, the condition that finding 2 shows to be
necessary; `NothingFreedTwice` holds without it. `NetAssumption` bounds a reassembled
datagram by `MaxPacket`, since its buffers may wait in the queue of an entry.

`TcpApps`. A connection without callbacks holds no data; the values of a connection that is gone
are those of a new one; echoed data is ordered with what is still to be echoed. The client
writes nothing before it is connected, and its message is either written or waits.

`EthInit`. While `HAL_ETH_Init()` waits for the negotiation, the time since the loop began has
not wrapped, so that a failed read, which takes longer than the loop may last, ends the loop at
the next test. The proof did not go through with the assumption as it was first written, and
TLC found the run that violates `FreshStatus` at that boundary; `InitAssumption` is now one
tick stronger. The values of the HAL (limits of seconds, a counter of 32 bits) are far from it.

`Heap`. Three facts that no property mentions are needed: the links back lead where the links
forward come from (`plug_holes()` follows them), all structs are aligned, so that an aligned
request fits wherever the request does, and the struct at the end stays as `mem_init()` made it.
The refinement maps `mem_malloc()`, `mem_free()` and `mem_trim()` to the abstract steps; that a new
block touches no other one follows from the links.

`Pbuf`. `PoolConsistent` alone is not inductive: with two chains that share a buffer by
`next`, or a chain that returns to itself, `pbuf_free()` would count wrongly or never end. The
invariant says that every set of buffers is left by the link of one of its members (`Acyclic`),
that no two buffers continue with the same one (`Linear`), and that a free buffer continues with
none (`FreeInv`). A buffer then has at most one reference from a chain, and the
cardinality in `RefIsTrue` is 0 or 1 (`RefInv`). `pbuf_cat()` and `pbuf_chain()` keep this
because a caller appends only a whole packet, whose head no other buffer continues with, to
another one that has no buffer in common with it. `TotLenIsTrue` holds along a chain whose end moves (`pbuf_cat()`,
`pbuf_realloc()`) since each buffer before the end changes by the same amount, and `Acyclic` says
that none is met twice. That no buffer is lost, and that no total exceeds the pool, are not
preserved step by step but follow from the shape: a set of buffers without a holder would have no
first one.

Two forms of induction occur, written out since the provers cannot use the library's
induction theorems: by the smallest number for which a claim fails (`LeastNat`), and by a smallest
set for which it fails (`LeastSet`). Recursive functions (`Those`, `icmp_time_exceeded`, `Total`, `Walk`,
`FramesFrom`) are first shown to exist. Sums are written with `SumFunctionOnSet` of the community modules, whose
value does not depend on the order in which it takes the elements (`SumAny`).

### Only model-checked

* Liveness, in every run: out of the prover's reach.

Type invariants that are not part of another property (`EthRx`, `Startup`) are proved and
therefore not part of a run.

## 5. Findings

Shown by a run:

1. `startup_server`: after the fall-back to the static address `main()` stays in its
   first loop, which only ends on `DHCP_ADDRESS_ASSIGNED`. The UDP server is never
   started.
2. `net_empty`: for an empty datagram, or when the heap is exhausted,
   `udp_server_recv()` returns without freeing the pbuf. `udp.h` makes the callback
   responsible for it. Ten such datagrams and nothing can be received any more. (In
   `net_arp` and `net_reass` the heap serves this allocation, the constant `RecvOk`.)

Met while modelling. The modules contain these paths, and the properties are stated
so that they hold all the same:

3. A frame that the receive DMA cut off because the ring was full is passed to the stack
   as if complete; the descriptor-error bit is never looked at
   (`ethernetif.c:814`). `GivenInOrder` therefore says "the beginning of a frame".
4. After a NAK the lease timers of the DHCP client go on. When `t1` or `t2` runs out
   during the next REQUEST, the client is RENEWING or REBINDING without an address and
   `dhcp_supplied_address()` returns 1 (`dhcp.c:287`, `dhcp.c:578`).
   `AddressIsLeased` is the other direction, which holds.
5. An infinite lease that follows a finite one is ended by the timer of the finite
   one, which `dhcp_bind()` leaves armed (`dhcp.c:1053`).
6. When there is no memory for the first DISCOVER of a negotiation, the client goes on
   with the transaction identifier of the negotiation that was refused
   (`dhcp.c:1900`). `FreshTransaction` is stated for behaviours without that.
7. `PBUF_POOL_SIZE` is 10 (`lwipopts.h:85`) and so is `IP_REASS_MAX_PBUFS`, against the
   advice of `opt.h:787`: incomplete datagrams may hold the whole pool until they expire.
   `ReassemblyEnds` says that they do expire.
8. `tcp_server_recv()` replaces `es->p` while the echo of an earlier segment waits in it
   (`tcp_server.c:107`): that data is neither echoed nor freed. `EchoInOrder` allows for
   what is missing. `tcp_server_error()` frees `es` and not `es->p` (`tcp_server.c:166`).
9. The server calls `tcp_recved()` for the same bytes on reception and on sending
   (`tcp_server.c:115`, `tcp_server.c:183`); the window is larger than it should be, up to
   its maximum. `Accounting` says that it is never smaller.
10. After `tcp_close()` has freed a pcb with unread data, the server goes on to use
    it (`tcp_server.c:113`, `tcp_server.c:190`).
11. `tcpclient_connected()` and `tcpclient_poll()` return a variable that was not
    assigned (`tcpclient.c:94`, `tcpclient.c:171`); should it be `ERR_ABRT`, the stack
    takes a live pcb for freed.
12. The client registers no error callback (`tcpclient.c:75`): a reset leaves `es` and its
    message allocated.
13. A link that comes up after `low_level_init()` is never reported to the stack
    (`ethernetif.c:642`), and nothing polls the PHY later.
14. When the software reset of the MAC times out, `HAL_ETH_Init()` returns
    with the MAC unconfigured, and `low_level_init()` starts it all the same.

## 6. Plan

Modelled: everything the inventory lists with protocol state. Proved: every safety property and
every refinement that a run checks. What could follow: the liveness properties, whose argument
rests on fairness and which only TLC checks here, and an abstract specification of the transmit
path, of which `FramesIntact` proves the part that the network can see.

### Not modelled

* Register programming of clocks and pins, UART output, interrupt handlers (the driver is
  polled), the link change callback (never registered), and the driver table, which no
  compiled file uses.
* The inside of TCP, the option and header formats of DHCP, IP, UDP and ICMP, and
  `memp.c`: third-party code used unchanged, of which the modules contain what the board's
  own code depends on.
* By far most lines of the repository are code of other projects that is not part of the
  program's logic or of this build: CMSIS with its DSP library and tables, device
  headers for other processors, the rest of the HAL, and a second copy of lwIP (this build
  compiles `lwip-2.1.2`). The program itself is a few thousand lines, and the
  modules stand for about 4800 lines of it and of the stack below it. The share of all lines of
  the repository that is modelled is small for this reason and cannot become large.
