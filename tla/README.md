# A TLA+ model of FreeRTOS and lwIP for Zynq

The repository packages FreeRTOS (about V7.0.2) and lwIP 1.4.0 for the Zynq
processor: two board support packages (`sw/repo/bsp`) and a set of
applications (`sw/repo/sw_apps`). This project models the kernel everything
stands on (lists, tasks, queues with semaphores and mutexes, software timers)
and the path of data through the network side: the Ethernet driver with its
buffers, address resolution, reassembly and the address of the interface, the
TCP connection, the timeouts, and the calls of application threads.

`K` stands for `src/sw/repo/bsp/freertos_zynq_v1_02_a/src/Source`, `X` for
`src/sw/repo/bsp/lwip140_v2_1/src/contrib/ports/xilinx`, `W` for
`src/sw/repo/bsp/lwip140_v2_1/src/lwip-1.4.0/src`.

## Inventory

| Component | State | Operations | What is hard | What makes it correct |
|---|---|---|---|---|
| Lists, `K/list.c` | doubly linked rings with an end marker, a round-robin cursor, counts | insert at the end, insert by value, remove, next entry | removal under the cursor; the search that ends only at the end marker | rings stay rings, equal turns, insertion ends, the sequence the callers imagine |
| Scheduler, `K/tasks.c` | ready, delayed, overflow, suspended, pending and termination lists; tick count; suspension depth; current task | create, delete, delay, suspend, resume, set priority, suspend and resume the scheduler, tick, switch | interrupts between any two critical sections; ticks and wake-ups while suspended; the wrap of the tick count | a task is in one list, the most important ready task runs, delays are exact, nothing missed while suspended is lost |
| Queues, `K/queue.c` | ring buffer, two event lists, two lock counts, mutex holder and call count | send, receive, peek, from tasks and interrupts; recursive take and give | a task's way into blocking is not atomic; timeouts race wake-ups; priorities are lent | no lost wake-up, no early timeout, no priority inversion, first in first out |
| Software timers, `K/timers.c` | two sorted lists, a command queue, the last time seen | start, stop, change period, delete, expire, reload | the service task's idea of the time is stale; wrap of the tick count; its own commands queue behind others | no early expiry, no timer lost, every started timer expires |
| Zynq port, `K/portable/GCC/Zynq` | critical nesting, registers | enter and exit critical sections, yield, tick interrupt | which code an interrupt can divide | taken as the atomicity of `Kernel`'s steps |
| lwIP port, `X/sys_arch.c` | mailboxes, semaphores and threads as kernel objects | post, try-post, fetch, signal, wait, all also from interrupts | milliseconds and ticks; elapsed time across wraps | a timeout is not early, a message is not lost |
| Ethernet adapter, `X/netif/xadapter.c`, `xpqueue.c` | bounded packet queue, a binary semaphore | receive interrupt, input thread | several packets per semaphore post; a full queue | no packet stays while the thread sleeps |
| GEM glue, `X/netif/xemacpsif*.c` | two descriptor rings, buffer per descriptor | send, send-done, receive, refill, error and reset | DMA, handlers and threads share the rings; partial failure | a buffer has one owner for each reference, none leaks, the ring recovers |
| lwIP memory, `W/core/pbuf.c`, `mem.c`, `memp.c` | reference counts, pools, a heap | allocate, chain, ref, free | counts shared by several chains | freed once, when the last reference goes |
| lwIP timeouts, `W/core/timers.c` | a list of timeouts, each relative to the one before | start, stop, wait for a message or the first timeout | the thread learns of time only by how long it waited; milliseconds and ticks | no handler is early, or later than the ticks that were missed; the TCP timer runs while there is a connection |
| ARP, `W/netif/etharp.c` | a table of entries with queues of packets | send, hear an address, age | entries are recycled with packets on them; the same host found again | one entry for a host, packets go to their host in order, none leaks or waits for ever |
| IP reassembly, `W/core/ipv4/ip_frag.c` | a list of datagrams with their fragments | a fragment arrives, age | fragments lost, repeated, overlapping; memory limited | what is handed on is whole and in order, counts are exact, every entry goes |
| DHCP, `W/core/dhcp.c` | the state of the client, its timers, the offered and the bound address | start, release, server's messages, two timers, network up and down | messages that are late or lost; timers of an earlier state | no address without a lease, and one in the end |
| lwIP API, `W/api` | connections with two mailboxes, a semaphore and a parked request each | requests to the tcpip thread and its answers, callbacks of TCP | a reset against a parked or queued request; retries; deletion with callbacks registered | every request is answered once, no thread is left asleep, no callback into freed memory |
| lwIP TCP, `W/core/tcp*.c` | a control block: windows, sequence numbers, three queues of segments, timers | open, write, input, output, retransmit, probe, close | loss, reordering, duplication, overlapping segments, closed windows, simultaneous close, wrap | the bytes arrive once and in order, nothing stalls, an end is an end |
| Applications, `sw/repo/sw_apps` | local | request loops, LED tasks | - | clients of the above |

Calls go down the table's upper half: tasks, queues and timers are built on
lists; queues block and wake tasks through event lists; timers are a task that
lives on a queue. lwIP's port maps its mailboxes and semaphores onto queues,
its threads onto tasks, and the Ethernet interrupt wakes the input thread
through a semaphore. Shared state between tasks is guarded by critical
sections (interrupts masked) or by suspending the scheduler (interrupts still
come); most hard behaviour sits where code uses the second. A packet goes from
the receive interrupt through the packet queue to the input thread, and from
there through a mailbox to `tcpip_thread`, where all of IP and TCP runs. An
application thread sends that same thread a request and sleeps until it is
answered. `PROJECT.json` lists the hazards at their lines.

## Modules

| Module | Models | Notes |
|---|---|---|
| `List` | `list.c`, `list.h` | Pointers as functions on nodes; a list is represented by its end marker. `vListInsert` is a call with a loop, stepped one node at a time, so that its end is something to check. `overtakes` is a history of turns. |
| `ListAbs` | - | What the callers think a list is: a sequence and a sorted sequence. |
| `Kernel` | the state of `tasks.c` and its internal functions | Lists are sequences (justified by `List`). Not a specification: `Scheduler` and `Queue` are built on it. |
| `Scheduler` | the task API, idle task, tick, an interrupt that resumes | |
| `QueueStorage` | the storage of `queue.c` | The pointers `pcWriteTo`, `pcReadFrom` are slot numbers. |
| `Deque` | - | A bounded sequence open at both ends for sending. |
| `Queue` | blocking, waking, locking, mutexes of `queue.c` | Extends `Kernel` and `QueueStorage`: one queue among tasks and interrupts. |
| `Timers` | `timers.c` | The command queue is the bounded sequence that `QueueStorage` implements. |
| `Pbuf` | `pbuf.c`, `memp.c` | Operators on a record of counts, links and the free list; each returns the record its C function leaves behind. |
| `Emac` | `xemacpsif_dma.c`, `xemacpsif.c`, `xemacpsif_hw.c`, `xpqueue.c`, `xadapter.c`, the mailbox of `tcpip.c` | Extends `Pbuf`. The descriptor ring of the XEmacPs library is external: its order is kept, its registers are not. |
| `Netconn` | `api_lib.c`, `api_msg.c`, `tcpip.c` | TCP is reduced to the callbacks it makes. |
| `TcpPcb` | `tcp_out.c`, `tcp_receive` of `tcp_in.c`, windows of `tcp.c` | Operators on a control block: they return the block and the segments sent. |
| `Tcp` | `tcp_process`, `tcp_input`, opening, closing and the timers | Two control blocks, the network and the users of the connection. |
| `TcpLive` | - | `Tcp` with the steps named, for fairness. |
| `SysTimeouts` | `timers.c`, `tcpip_thread`'s wait, the conversion of `sys_arch.c` | Real time passes in milliseconds, the kernel's count in ticks. |
| `Etharp` | `etharp.c` | A packet is its number; the order in which packets are given is the order they must be sent in. |
| `IpReass` | `ip_reass` and `ip_reass_tmr` of `ip_frag.c` | Fragments are intervals of units. |
| `Dhcp` | `dhcp.c` | Functions from a world (client, interface, messages under way) to a world; the server and the network are external. |
| `KernelProofs`, `SchedulerProofs` | - | Lemmas about the lists of tasks; theorems about `Scheduler`. |
| `ListProofs`, `EmacProofs` | - | Theorems about the module of that name. |
| `TimersProofs` | - | Theorems about `Timers` and `SysTimeouts`. |
| `IpProofs` | - | Theorems about `Etharp` and `Dhcp`. |
| `QueueProofs` | - | Theorems about `QueueStorage` and `Queue`. |
| `NetconnProofs` | - | Theorems about `Netconn`: one answer for each request; what a write reports; nobody left alone. |
| `MCScheduler`, `MCQueue`, `MCMutex` | - | Symmetry and view for TLC. |
| `MCStructures`, `MCTimers`, `MCIp` | - | Several components in one run: a variable `part` says which of them moves in a behaviour, the others stay as they were at first. |

### Steps and interrupts

There is one processor. A step of `Kernel`, `Scheduler` or `Queue` is a piece
of code that no interrupt can divide in a way anybody could notice: a critical
section, a round of a loop inside one, or code that touches only what
interrupts leave alone. `pc[t]` says where task `t` is; only `pxCurrentTCB`
moves. An interrupt is enabled between two steps unless the `pc` is inside a
critical section (`InterruptsEnabled`), and an interrupt that needs a context
switch does it as a further step (`inISR`). Loops inside critical sections are
one round per step, so `prvCheckDelayedTasks` and the two loops of
`xTaskResumeAll` are visible.

`xTaskResumeAll` is shared code: `CallResumeAll` saves where to return to
(`ret`) and whether the caller yields when the call reports that it did not
(`yieldAfter`), which is the idiom
`if( xTaskResumeAll() == pdFALSE ) portYIELD_WITHIN_API()`.

Variables marked as histories (`due` in `Kernel`, `left` in a queue call's frame, `due`, `lag`, `started`, `early` and the message fields
`age` and `reload` in `Timers`, `overtakes` in `List`) follow real time or
fairness for the properties. No step of the code reads them, except that the
bound `MaxLag` (below) stops time by them. `wrapped` in a queue call's frame
is not a history: it stands for the comparison of the unbounded
`xNumOfOverflows` with its saved value.

### Steps of the network modules

- `Emac`. Interrupt handlers, and everything that runs with interrupts masked,
  are one step. The input thread masks interrupts around its loop, but posting
  to a mailbox may switch to `tcpip_thread`, so each packet is a step of its
  own. `held` stands for the stack and the applications: the buffers they
  have. `FrameArrives`, `FrameSent` and the errors are the hardware.
- `Netconn`. `tcpip_thread` serves one request or one TCP event at a time:
  one step. A request that cannot be finished is parked (`current`), as the
  code does with `conn->current_msg`, and finished by a later event. An
  application thread takes a step when it posts, when it takes a message from
  a mailbox and when it finds its answer.
- `SysTimeouts`. `Millisecond` is the passing of time: the fetch of the mailbox
  ends when the ticks it waits for have passed or a message is there. What the
  thread does between two waits takes no time, or loses ticks (`MaxLost`).
- `Etharp`, `IpReass`, `Dhcp`. One step is one call of `tcpip_thread`: a packet
  sent or received, or a period of a timer.
- `Tcp`. Everything in `tcpip_thread` again: a segment that arrives is one
  step from `tcp_input` to the last `tcp_output`, callbacks included; so is
  one effect of a timer. Timers may fire at any time, which covers every
  round-trip estimate and back-off. `faults` counts what the network and
  premature timeouts have done.

### Left out or abstracted

- Messages are model values; item sizes and `memcpy` are not modelled. A
  mutex has no data.
- Handles of deleted tasks and timers are not used by the application again,
  and blocking calls are not made while the scheduler is suspended, as
  `task.h` demands.
- `pvPortMalloc` failing in `xTaskGenericCreate` and `xTimerCreate` changes
  nothing, so it is a stuttering step.
- `configASSERT` is empty in the generated configuration: it never stops a
  model, and two of the assertions are properties.
- Co-routines, the alternative queue API, trace macros, run-time statistics,
  hooks and the assembly of the port are not modelled.
- A timer callback does not call the timer API.
- `Pbuf`: a packet has one buffer, or two in a chain; headers are not moved.
- `Emac`: the reset of a stuck receiver (`resetrx_on_no_rxdata`), the
  collision branch of the error handler (which takes the receive ring for the
  transmit ring, `xemacpsif_hw.c:152`), link and PHY set-up. A refused message
  of `MEMP_TCPIP_MSG` is the same as a full mailbox.
- `Netconn`: UDP and raw connections, DNS, core locking, receive timeouts,
  the socket layer. A connection is used by one thread at a time, the rule
  of the API.
- `SysTimeouts`: a pool that is exhausted (`PoolSuffices` holds for the
  configuration), and intervals that are no whole number of ticks.
- `Etharp`: static entries, gratuitous announcements, IP addresses in several
  networks, `etharp_raw`'s failure to get a buffer.
- `IpReass`: the overlay of `ip_reass_helper` on the headers, options, the ICMP
  message of `ip_reass_free_complete_datagram`.
- `Dhcp`: options other than the lease, its two times and the server, `INFORM`,
  names, AutoIP, seconds that are no whole tick.
- `Tcp`: options and MSS negotiation, round-trip times, keepalive, refused
  data, `tcp_kill_*`, other connections, checksums, urgent data; writes before
  the connection is open; callbacks that call TCP themselves.

## Runs

| Run | Checks | Size | Result |
|---|---|---|---|
| `structures` | `RingsIntact`, `EqualShares`, `InsertEnds`, `ImplementsListAbs`, `ImplementsDeque` | 3 items, one ready and one sorted list, values 0..2; 4 slots, 2 messages | about 220 000 states, holds |
| `scheduler` | `ListsTrue`, `HighestPriorityRuns`, `ResumeAllSettlesEverything`, `TicksDoTheirWork` | 2 tasks and idle, 3 priorities, tick count modulo 4, suspension nested twice, 2 missed ticks | about 430 000 states, holds |
| `queue` | `NoLostWakeup`, `WaitersBlockedOthersRun` | 2 tasks and idle, 2 slots, interrupts that send and receive, block times 0, 1 and for ever, priorities that change | about 2.9 million states, holds |
| `mutex` | `NoPriorityInversion`, `HoldersTrue`, `NoEarlyTimeout` | 3 tasks and idle, any priorities, recursion 2, one of them with timeouts of a count modulo 4, delays while holding | about 2.8 million states, holds |
| `timers` | `NoEarlyExpiry`, `TimersKept`, `TimeoutsKept`, `TimersExpire`, `TimersRun` | FreeRTOS: a one-shot and an auto-reload timer, periods 1 and 2, count modulo 5, 3 commands, lag 1. lwIP: intervals of 2, 4 and 6 ms, ticks of 2 ms, one message, one tick lost | about 500 000 states, holds |
| `ethernet` | `BuffersTracked`, `NoPacketStranded`, `ReclaimPending`, `RingRecovers` | 3 pool buffers, a packet of two heap buffers, 2 descriptors each way, a packet queue of 2, a mailbox of 1 | about 1.16 million states, holds |
| `netconn` | `OneAnswer`, `NobodyLeftAlone`, `WriteAllOrError`, `CallsReturn` | 2 threads, 2 connections, mailboxes of 1, writes of up to 2 | about 700 000 states, holds |
| `tcp` | `StreamIntact`, `NothingStuck`, `DoneMeansDelivered`, `WindowKept`, `EventuallyDelivered` | 3 bytes one way in segments of 2 or 1, window 2, both ends close, 2 faults | about 670 000 states, holds |
| `ip` | `ArpTableSound`, `RefsExact`, `SentInOrderToTheirHost`, `ReassSound`, `LeaseHeld`, `RequestTimed`, `NothingWaitsForEver` | ARP: 3 hosts, 2 entries, 2 queued packets, 3 packets. Reassembly: 3 datagrams of 4 units, 2 entries, 4 buffers. DHCP: one address, one message under way, a lease of 6 ticks | about 130 000 states, holds |
| `timers_early` | `NoEarlyExpiry` | 1 timer, clients that preempt | violated, see below |
| `tcp_wrap` | `StreamIntact` | 4 bytes across the wrap of the sequence numbers, 1 fault | violated, see below |
| `reass_hole` | `DeliveredWhole` | 2 datagrams of 4 units | violated, see below |

More configurations are kept beside these runs, to be run by hand. `Etharp.cfg`,
`IpReass.cfg` and `Dhcp.cfg` check the parts of `ip` one by one on larger
instances (107 576, 54 945 and 1 248 083 states), with their type invariants;
they hold. The others each show a limit of the code described below:

| Configuration | Module | Violates |
|---|---|---|
| `MCMutexYield.cfg` | `MCQueue` | `RunningWantsItMost` |
| `MCQueueOrder.cfg` | `MCQueue` | `EventListsInPriorityOrder` |
| `EmacBusError.cfg` | `Emac` | `RefsExact` |
| `TcpClose.cfg` | `Tcp` | `DoneMeansDelivered` |
| `DhcpOffer.cfg` | `Dhcp` | `RequestTimed` |
| `DhcpRebind.cfg` | `Dhcp` | `LeaseHeld` |
| `DhcpRenew.cfg` | `Dhcp` | `RenewalRetried` |
| `DhcpStale.cfg` | `Dhcp` | `BindsAcknowledged` |
| `ReassEnd.cfg` | `IpReass` | `DeliveredToTheEnd` |
| `ReassStray.cfg` | `IpReass` | `NoneFreedInList` |

The type invariants of the other modules hold in the standing instances; they
are not part of the runs, whose properties all depend on the types being
right. Those of `Scheduler`, `Queue`, `List`, `QueueStorage`, `Timers`, `SysTimeouts`, `Netconn`, `Etharp` and `Dhcp` are
parts of inductive invariants and proved.

Some properties are conjunctions of what was stated as several, because they
are one claim: `ListsTrue` is "a task is in one list" and `DelaysExact`, which
relates the wake time and the list of every delayed task to the tick
interrupts it still has to see, through wraps and suspensions;
`TicksDoTheirWork` says what a step of the tick may do; `HoldersTrue` is what a
mutex may say about its holder; `TimersKept` and `TimeoutsKept` are what keeps
the two timer services true; `BuffersTracked` counts references (`RefsExact`)
and slots; `NobodyLeftAlone` is what will wake each sleeping thread, with no
callback of TCP into a freed connection; `NothingStuck` is that nothing unsent
is forgotten, and that after each step everything the windows let out is out
and a timer runs for the rest.

`RingsIntact` says that links agree in both directions and that no set of
linked items closes on itself without the end marker. `EqualShares` bounds how
often one task overtakes another in a ready list. `NoLostWakeup` counts: while
a task waits to receive, there are not more messages than tasks on their way
to fetch one, including those owed by a lock count. `RingRecovers` says that a
receive ring left short by an empty pool is filled again. `StreamIntact` ties
what the application got to `rcv_nxt`, what the peer may forget. `LeaseHeld`
says that the client uses no address the server may give away, `RequestTimed`
that it waits for no answer without a timer.
Each property's comment names the code it is about.

### Bounds

- `TickMod` is the width of the tick count. Small values make it wrap every
  few ticks, so every case of the overflow logic meets every other.
- `MaxMissedTicks` bounds ticks while the scheduler is suspended. Two are
  enough for a wrap and an expiry within one suspension. The mutex run uses
  none, to stay small: missed ticks are the other runs' question. In it one
  task (`Impatient`) may give up and the others wait as long as it takes; the
  priorities are free, so the one that gives up is any of the three.
- `MaxLockCount` bounds what interrupts move during one lock; one message
  already separates "locked, unchanged" from "locked, owed".
- `MaxSuspendNesting`, `MaxRecursion`: 2, to tell the outermost level from
  the inner ones.
- `MaxLost`: one lost tick makes every later timeout late by it; more add up.
- `MaxLag` is the number of ticks by which the timer service task, a queued
  command or an overdue timer may be late. It is an assumption about the load
  of the system, needed because beyond a lap of the count lateness cannot be
  represented at all; `period + MaxLag < TickMod` is assumed for the same
  reason.
- The `VIEW` of the queue runs drops locals that are dead and storage
  pointers, which `storage` covers; symmetry permutes application tasks.
  With both TLC may keep several representatives of a state, never too few,
  and state counts differ a little from run to run.

- `Emac`: three pool buffers for two descriptors, two places in the packet
  queue and one in the mailbox make every one of them run out while the
  others do not. `ErrorWhenShort = FALSE` lets a bus error come only while
  every receive descriptor has a buffer: with a descriptor short,
  `FreeTxRxPBufs` frees the buffer an old entry of `rx_pbufs_storage` names
  (`xemacpsif_dma.c:578`), which may be in use; `EmacBusError.cfg` shows it.
- `Netconn`: two connections are the fewest with one that listens and one it
  accepts; mailboxes of one message are full or empty. `Shutdowns = {"RDWR"}`:
  a half shutdown forgets the control block although its callbacks stay
  (`api_msg.c:784`). `FinWhenFull = FALSE`: a FIN that finds the receive
  mailbox full is not offered again (`api_msg.c:252`), and the reader waits
  for an end that was dropped. Both fail in the model, and the statements of
  the properties are about the rest.
- `Tcp`: sequence numbers are modulo `SeqSize` and window sizes modulo
  `WndSize`, instead of 2^32 and 2^16. Three bytes in segments of two, written
  in ones and twos, give segments that overlap, are merged and are cut; a
  window of two closes after each segment; two faults (loss, reordering,
  duplication, a timeout that is early) combine, of which one may come after
  an end has closed. `CloseWithUnsent = FALSE` and the place of `IssClient`
  keep the passing run off the two findings below.
- `Etharp`: more hosts than entries and a queue shorter than the packets, so
  that entries are recycled with packets on them and packets are refused.
- `IpReass`: four units allow a fragment between two others and two that
  overlap; two entries for three datagrams and four buffers make both run out.
- `Dhcp`: `T1`, `T2` and `T0` are 2, 4 and 12 seconds of ticks of 2, the
  smallest with the three moments apart. `TimerMod` and `TriesMod` are the
  widths of the counters, 65536 and 256 in the code; the tests of the timers
  are for equality, so a count that has passed its value fires again a lap
  later, sooner here than in the code. `MaxNet = 1`: one message under way. With
  two, `LeaseHeld` fails: an old ACK makes `dhcp_bind` take
  `offered_ip_addr`, which by then is another offer (`dhcp.c:1598-1611`
  compares nothing but the transaction). In part this is the small
  `TimerMod`, so it is not listed as a finding, and `LeaseHeld` is not claimed
  beyond one message. `StaleTimers` and `T2Given`, `ServerIdGiven` keep the
  standing run off the findings below.

`structures`, `netconn`, `tcp`, `ip` and `reass_hole` may stop: no task is
obliged to use a list, all connections may be closed with every thread asleep
at a mailbox, a TCP connection ends, and no host has to send anything. They do
not check deadlock. All others do.

### Fairness

- `List`: weak fairness of the steps of a `vListInsert` in progress. The call
  runs with the scheduler suspended or interrupts masked and nothing in it
  waits.
- `Timers`: weak fairness of the service task, which is an ordinary ready task
  whenever it is not blocked, and of the tick. Clients are not fair; the
  property is about the time after they are quiet. A deletion and re-creation
  of timers is not assumed to happen.
- `Emac`: frames go on arriving, and a raised receive or error interrupt is
  served. Nothing is assumed of the stack, which may keep its buffers.
- `Netconn`: `tcpip_thread` serves its mailbox; a thread that was answered
  runs; a connect ends, because TCP gives up after a bounded number of SYNs;
  a parked write or close is retried with memory available in the end,
  because the poll timer runs as long as the control block lives.
- `SysTimeouts`: `tcpip_thread` runs and time passes (`Thread`, `Millisecond`).
- `Etharp`, `IpReass`: their timer runs. It is a timeout of `SysTimeouts`, whose
  `TimersRun` says so.
- `Dhcp`: both timers run, and a network that is up delivers what is under way.
  The history variable `calm` marks the point from which nothing is lost.
- `TcpLive`: segments under way arrive, the application consumes what it is
  given, the delayed-acknowledgement and persist timers fire while they can
  (weak fairness), and the retransmission timer fires if it can again and
  again (strong fairness: it counts on whatever happens in between). The
  faults are bounded, so the network is not unfair for ever. Fairness is
  written over the history variable `last`, which names the last step.

### Disagreements between the code and its comments

- `timers_early`. `timers.h:330-331`: "the timers expiry time is relative to
  when xTimerStart() is actually called." When a client can preempt the
  service task, a start may carry a tick newer than the `xTimeNow` sampled at
  `timers.c:502`; `timers.c:476-481` takes it for one from before the wrap and
  runs the callback at once. The passing run `timers` therefore has
  `Preempts = FALSE`: the service task has the highest priority and
  interrupts send no commands. The generator's default priority
  (`freertos_zynq.tcl:284-289`) does not guarantee that.

- `tcp_wrap`. `tcp_in.c:1438`: "check if the remote side overruns our receive
  window." Line 1439 compares the end of a segment queued out of sequence with
  the right edge of the window as plain numbers. When the edge has wrapped
  and the segment has not, the segment seems to overrun the window, and its
  `len` is set to the distance to the edge: more than its data. When the gap
  fills, `rcv_nxt` goes beyond bytes that never came; they are acknowledged
  and missing from the stream.
- `reass_hole`. `ip_frag.c:441`: "if still valid, all fragments are received."
  A fragment put between two others is linked behind `iprh_prev` (lines
  361-384) without the comparison of `iprh_prev->end` with its start that
  lines 385-387 make when the walk goes on, and the walk of lines 428-439
  begins behind it. The datagram is handed on with a hole before the fragment.
- `ReassEnd.cfg`. `ip_frag.c:446`, an assertion that is compiled out: "datagram
  end!=datagram len". The last fragment sets the flag and the length of the
  datagram even when it is then thrown away because one with its start or an
  overlapping one is there already. The pieces that are there pass for a whole datagram,
  which is handed on short of its end.
- `ReassStray.cfg`. `ip_frag.c:167`: "prev->next == ipr."
  `ip_reass_remove_oldest_datagram` remembers the last entry but one as `prev`
  (line 248), not the one before the oldest. With three entries or more, the
  entry freed stays in the list.
- `DhcpOffer.cfg`. `dhcp.c:1604` clears the request timeout before
  `dhcp_handle_offer` looks for the server identifier; an offer without one
  leaves the client in `SELECTING` without a timer, for ever. "Whatever the
  client waits for" (357-388) has one otherwise.
- `DhcpRebind.cfg`. Without option T2 the client begins to rebind when the lease
  ends (`dhcp.c:538`, "calculate safe periods for rebinding"), and uses the
  address beyond it.
- `DhcpRenew.cfg`. `dhcp.c:1062-1064`: `tries` is eight bits wide and counts
  renewals without a bound. When it wraps, the timeout is 0, which means no
  timer: the renewal is not tried again before T2. `dhcp.c:433` says "just
  retry renewal".
- `DhcpStale.cfg`. `dhcp.c:465, 487` let T1 and T2 act in `REQUESTING`, where
  they are timers of an earlier lease. The client goes on in `RENEWING` or
  `REBINDING` with an address that was offered and not acknowledged, and an
  answer binds it. `dhcp.c:1585`: "bind interface to the acknowledged lease
  address."
- `TcpClose.cfg`. `tcp.c:226-228` says of closing: "unsent data is sent from tcp
  timer functions, also". The states that wait for the acknowledgement of the
  FIN test `ackno == pcb->snd_nxt` (`tcp_in.c:739, 751, 768, 778`), which does
  not count what is still unsent. With the window closed at the time of the
  close, the acknowledgement of the last segment that was sent moves
  `CLOSING` to `TIME_WAIT`, and `tcp_pcb_purge` frees the unsent bytes and the
  FIN.
- `MCMutexYield.cfg`. `queue.c:479-480` and `863-864`: "To be running we must be the
  highest priority task wanting to access the queue." A task waits for a mutex
  with a timeout and lends the holder its priority. It times out and is ready,
  but before it can run the holder, at the lent priority, gives the mutex:
  `vTaskPriorityDisinherit` (`tasks.c:2443`) lowers the holder, nobody is in
  the event list, and no yield follows. The holder goes on below a ready task
  that is still in its call on the same mutex, until the next switch.
- `MCQueueOrder.cfg`. `tasks.c:1807`: "The event list is sorted in priority order,
  so we can remove the first in the list", and `queue.c:109-110`: "Stored in
  priority order." `vTaskPrioritySet` changes the event item's value in place
  (`tasks.c:875`).
- `EmacBusError.cfg`: a buffer in use is freed, see the bounds of `Emac`.

Two further limits of `Timers` show up as the constants of the passing run. A
late auto-reload timer restarts by a command to the service task itself. If
that command is behind a delete it reaches freed memory (so only one-shot
timers are `Deletable`), and if it is behind a stop the timer starts again
(possible only with `Preempts`).

## Proofs

Checked by TLAPS for every value of the constants.

| Theorem | Property | Inductive invariant |
|---|---|---|
| `ListProofs!RingsAlwaysIntact`, `ListCorrect` | `RingsIntact` | `ListInv` |
| `ListProofs!TurnsAreShared` | `EqualShares` | `ListInv`, `Turns` |
| `QueueProofs!PointersAlwaysAgree`, `StorageCorrect` | `PointersAgree` | `StorageInv` |
| `QueueProofs!StorageImplementsDeque` | `ImplementsDeque` | `StorageInv` |
| `QueueProofs!TypesHold` | `TypeOK` of `Queue` | `QueueInv` |
| `QueueProofs!WaitersAlwaysBlocked` | `WaitersAreBlocked` | `QueueInv` |
| `QueueProofs!HolderAlwaysTrue` | `HoldersTrue` | `QueueInv` |
| `QueueProofs!TheMostImportantRuns` | `WaitersBlockedOthersRun` | `QueueInv`, `Settled`, `Ruling` |
| `QueueProofs!NoTimeoutIsEarly` | `NoEarlyTimeout` | `QueueInv`, `Settled`, `Timing` |
| `QueueProofs!NoWakeupIsLost` | `NoLostWakeup` | `QueueInv`, `Wakeups` |
| `QueueProofs!HoldersAreRaised` | `NoPriorityInversion` | `QueueInv`, `Inheritance` |
| `SchedulerProofs!TasksNeverLost` | `ListsTrue` | `SchedInv` |
| `SchedulerProofs!TheHighestPriorityRuns` | `HighestPriorityRuns` | `SchedInv` |
| `SchedulerProofs!ResumeAllForgetsNothing` | `ResumeAllSettlesEverything` | `SchedInv` |
| `SchedulerProofs!DelaysEndInTime` | `TicksDoTheirWork` | `SchedInv` |
| `EmacProofs!InputThreadNeverSleepsOnPackets` | `NoPacketStranded` | itself |
| `TimersProofs!TimersTypesHold` | `TypeOK` of `Timers` | `Structure` |
| `TimersProofs!NoCallbackIsEarly` | `NoEarlyExpiry` | `Structure`, `Times` |
| `TimersProofs!OrderlyTimersAreKept` | `TimersKept` | `Structure`, `Times`, `Kept` |
| `TimersProofs!TimeoutsAreKept` | `TimeoutsKept` | `TimeoutsInv` |
| `IpProofs!ArpTableAlwaysSound` | `ArpTableSound` | `ArpInv` |
| `IpProofs!ArpReferencesExact` | `RefsExact` | `ArpInv` |
| `IpProofs!ArpSendsInOrder` | `SentInOrderToTheirHost` | `ArpInv` |
| `IpProofs!AddressInUseIsLeased` | `LeaseHeld` | `ClientInv` |
| `IpProofs!ClientKeepsATimer` | `RequestTimed` | `ClientInv` |
| `IpProofs!ClientTypesHold` | `DhcpTypeOK` | `ClientInv` |
| `NetconnProofs!RequestsAnsweredOnce` | `OneAnswer` | `NetconnInv` |
| `NetconnProofs!WritesAllOrReports` | `WriteAllOrError` | `NetconnInv`, `WriteInv` |
| `NetconnProofs!NobodyIsLeftAlone` | `NobodyLeftAlone` | `NetconnInv`, `LiveInv` |

- `ListProofs!RingsAlwaysIntact`: `Spec => []RingsIntact`, for any items and
  lists and any range of item values. `RingsIntact` is not inductive by
  itself: a `vListInsert` in progress holds an iterator, and linking behind it
  is only right if it is still in the same ring and the new item is in none.
  The inductive invariant `ListInv` adds `TypeOK`, `WalkInv` (exactly that)
  and `CountsTrue`; `ListCorrect` proves it. The lemmas follow the two pointer
  surgeries: linking an item (`LinkKeepsLinks`, `LinkKeepsRing`) and removing
  one (`RemoveKeepsLinks`, `RemoveKeepsRing`). That a ring stays one ring is
  stated without reachability: any set of nodes of a list closed under
  `pxNext` contains the end marker. A closed set after the surgery gives, with
  the item added or removed, a closed set before it.
- `ListProofs!TurnsAreShared`: `EqualShares`, for lists of any length. `Turns`
  says why nobody is overtaken twice: where an item has been returned while another
  one waited, the one that waited is met first when one follows `pxNext` from the
  cursor (`ReachedBefore`), so its turn is next of the two. Being met first is
  stated without reachability too: every set of nodes of the list that contains
  the next one and is closed under `pxNext`, up to the one, contains the other.
- `QueueProofs!PointersAlwaysAgree`, `StorageCorrect`: the pointers and
  the count agree, for any queue length. `StorageInv` is `StorageTypeOK` and
  `PointersAgree`, inductive together.
- `QueueProofs!StorageImplementsDeque`: the ring buffer implements
  `Deque` under the mapping `Contents`, the slots in the order they will be
  read. One lemma per operation says what it does to `Contents`.
- `QueueProofs`, the theorems about `Queue`: for any set of tasks, any number of
  priorities, any length of the queue, any width of the tick count, any
  operations, block times and interrupts. `QueueInv` carries them all. It says
  where a task can stand in the code with the scheduler, the locks and the
  interrupts as they are (`Control`, `Locking`), that a task has a frame exactly
  while it is in a call and time left while it goes to wait (`Framed`), that what
  is in an event list is in a call that comes back to its loop (`Waiters`), that
  the lists of the kernel are those of `SchedulerProofs` (`ListsGood`,
  `EventsGood`), that the current task is ready or about to switch (`Present`),
  and what holds of a mutex (`MutexTrue`): `HoldersTrue` is only inductive with
  the calls of the other tasks (the holder's own call can only be a give, that of
  any other only a take) and with an empty list of waiting senders.
  `WaitersBlockedOthersRun` (`TheMostImportantRuns`) holds where the queue is no
  mutex; for a mutex it is false (`tasks.c:2457`, see `MCMutexYield.cfg`). The
  argument is that of `Scheduler`: `Ruling` is "a switch is owed, or the current
  task rules", and nothing is pending once the scheduler runs (`Settled`).
  `NoEarlyTimeout` is an action property: `Timing` says of every call that what
  is left of the wait, with the ticks missed and counted, fits into what it was
  entered with, in the lap of the count in which it was entered or in the one
  after it. `vTaskSetTimeOutState` begins this anew each time.
  `NoLostWakeup` is a count. `Wakeups` states it for every place in the code: while
  a task waits, or has looked and is about to (`Expecting`), the messages, or free
  slots, are no more than the tasks that come for them, the wakings owed by the
  lock count and the one a sender is about to make. The lemmas compare
  cardinalities of the sets of coming tasks before and after each step.
  `HoldersAreRaised` has the hypothesis `SettablePriorities = {}`, as the run
  `mutex` has: `vTaskPrioritySet` neither sorts the event list again
  (`tasks.c:875`) nor looks for waiting tasks when it lowers a holder, so
  inheritance promises nothing beside it. `Inheritance` adds to the property (`Raised`) the
  moment it can fail: between a give and the next take the mutex is free while
  tasks wait. `Succession` says that then a task as important as all that
  wait has been woken and is ready, and that the current task can take the mutex
  instead only if it is as important. That the woken one is the most important
  needs the list to be in order (`WaitInOrder`). The invariants were checked by
  TLC on the instances of `queue` and `mutex` first.

- `SchedulerProofs`: for any set of tasks, any number of priorities, any width
  of the tick count, any nesting of suspensions and any number of ticks missed
  in one. One invariant, `SchedInv`, carries the four theorems, because its
  parts need each other.
  `ListsTrue`: a task is in one list (`Listed`), a ready one in that of its
  priority (`ReadyByPriority`), a pending one still in the list it waits in
  (`PendingIsBlocked`), which is what lets `xTaskResumeAll` move it; the
  counters agree with the lists (`Counted`), which `prvIdleTask` trusts when
  it frees a task.
  `HighestPriorityRuns`: between the moment a task is readied and the context
  switch the current task need not be the highest, but then a switch is owed.
  `Ruling` says "owed, or the current one is the highest"; that what is owed
  is kept until it is paid rests on where it is written down (`SwitchOwed`:
  `xMissedYield`, `xYieldRequired`, the yield the caller will make, the
  interrupt's); that the switch finds the right task, on `uxTopReadyPriority`
  being never too low (`TopKnown`) and the idle task always ready
  (`IdleIsReady`).
  `TicksDoTheirWork`: `prvCheckDelayedTasks` stops at the first task whose time
  has not come, so `DelaysExact` needs the order of the delayed lists
  (`Ordered`). The arithmetic of wake times modulo `TickMod` is in
  `KernelProofs`.
  `Control` says for each place in the code what holds there, `Reaping` and
  `Present` which tasks may be there. `SchedInv` was checked by TLC on the
  instance of `scheduler` before it was proved. The lists are seen through
  `TakesTo` (`KernelProofs`): a step takes one task out of wherever it is and
  puts it in at most one list.
- `TimersProofs`: for any timers, any periods that fit the count with the lag of
  the service task, and any width of the count. Three invariants, each proved
  with the one before. `Structure` holds whatever clients do: the two lists share
  no timer, and the first item that the service task has looked at is still there
  when it acts on it (`Looked`). `Times` is about the wrap. It puts everything on
  one scale, the tick count as it goes on past a wrap that the service task has not
  dealt with (`Now`): a value in the overflow list is a lap later than one in the
  current list, until `prvSwitchTimerLists` has emptied the one and exchanged the two
  (`Base`). `InPhase` says that the distance of a list item from `Now` is what is left
  of its period, `Aged` the same of the time a command carries, and `Waited` that
  no command received is newer than the sample `xTimeNow` it is compared with,
  which is what the test in `prvInsertTimerInActiveList` relies on. That needs
  clients that do not preempt the service task; with them the property is false
  (run `timers_early`). `Kept` adds where each timer is, and `Orderly` what this
  takes. Auto-reload timers are not deleted: a late reload behind a delete reaches
  freed memory (`timers.c:534`). The lag is no longer than the shortest period,
  so that what is left in the old list at a wrap has expired (`FromBefore`) and
  restarts in the new one and not, late once more, by a command. There are fewer
  timers than places in the command queue, so that a reload, which is sent without
  waiting, is never refused (`timers.c:320`): `Fits` counts a timer in a list or
  in a message, never both, and one message of a client. The run `timers` meets
  all of them, and TLC checked the three invariants on its instance first.
- `TimersProofs!TimeoutsAreKept`: for any periodic handlers, intervals of whole
  ticks, length of a tick, mailbox and ticks lost. The list holds differences; the
  property is about sums of them (`Deadlines`). So each operation of `timers.c` on
  the list has a lemma that says what it does to the time every handler has left
  (`Due`): `sys_timeout` gives one to the new handler and leaves the others theirs
  (`TimeoutIn`), `sys_untimeout` and an expiry take one out (`TimeoutOut`,
  `FirstOut`), and a wait takes the same from all (`WaitedFor`). What the sums are
  is an induction over the list, by the least position at which they would be
  wrong. `TimeoutsKept` is not inductive: that a handler may be almost a tick early comes from the part of a tick that had passed when it was started, and
  a step within a tick needs to know how much of it is left. `OnTime` has the
  phase of the tick in place of the whole tick. `Placed` says that each handler has
  one timeout, none while it runs, and that the flag of the TCP timer is that
  of its timeout or of its run. TLC checked `TimeoutsInv` first, with two periodic
  handlers.
- `IpProofs`, ARP: for any number of hosts, entries, queued packets and packets.
  `ArpInv` is the table, the order and the references together. The order of
  what is sent rests on the table (`OneEntryPerHost`, `QueuesArePending`: a
  packet that need not wait would overtake those that do if its host had a
  second, pending, entry). The references rest on the order
  (`QueuesInOrder`: a packet is queued once, because every packet that waits
  was given before it). `KnownHosts` says that what waits on an entry is for
  the host of the entry.
- `IpProofs`, DHCP: for any addresses, any times of the lease, any numbers of tries and
  any widths of the counters. `ClientInv` is about worlds, and each function of
  `Dhcp` from a world to a world has a lemma (`DiscoverGood`, `BindGood`, ...).
  `LeaseHeld` is a race of two clocks that run down together, the lease of the
  server and `t2_timeout` of the client (`RenewableSoon`): two ticks are left of
  the lease when the timer ends, for the one that REBINDING may take
  (`RebindableSoon`); two more may pass before the address is bound, one while the
  ACK is under way (`Promised`), one while the address is probed
  (`CheckableSoon`). Hence the hypothesis `Ticks(T2) + 4 <= Lease`, which the
  instances of the runs meet exactly. The other hypotheses are theirs too: the
  server sends T2 (without it the property is false: `DhcpRebind`), timers of an
  older lease do not run out in a negotiation (`~StaleTimers`; otherwise an
  address is bound that nobody granted: `DhcpStale`), and one message is under way
  at a time, so that an answer is about the address that is negotiated
  (`Negotiates`). `RequestTimed` needs `ServerIdGiven`: an OFFER without a server
  identifier stops the timeout and is not taken (`DhcpOffer`). That a DECLINE names
  an address of the server, which `DhcpTypeOK` needs, is because only an
  acknowledged address is probed (`Probed`).
- `EmacProofs!InputThreadNeverSleepsOnPackets`: `NoPacketStranded`, for any
  sizes of the pool, the rings, the packet queue and the mailbox. The property
  is its own inductive invariant, because the semaphore is signalled in the
  step that puts a packet into the queue and the thread goes back to sleep
  only after it has found the queue empty with interrupts masked.
- `NetconnProofs!RequestsAnsweredOnce`: `OneAnswer`, for any number of
  threads and connections, any mailbox sizes, and also for the behaviours the
  standing run excludes (`Shutdowns`, `FinWhenFull`). `OneAnswer` is not
  inductive: an answer is safe only if the request it ends is in one place.
  `NetconnInv` adds who uses a connection (`OneUser`, `PendingUnknown`), where
  a request can be (`QueuedOnce`, `ParkedOnce`) and which states of a
  connection or a control block still have one (`ParkedOnce`,
  `ConnectsInState`). Every function of `api_msg.c` is shown to leave its
  connection in one of three ways (`AckServes`, `FinishServes`, `ParkServes`),
  and one lemma, `ServedWell`, says that each of them keeps the invariant;
  the steps of application threads all go through `ThreadStep`.
- `NetconnProofs!WritesAllOrReports`: `WriteAllOrError`, again with `Shutdowns`
  and `FinWhenFull` free. What a write has behind it is counted twice, in
  `write_offset` of the connection and as what `tcp_write` took; `WriteInv` says
  that the two stay equal over every retry (`RequestTrue`), that only a
  blocking write is parked (`WriteParked`), and that a connection with a
  control block that is not writing has no rest of a write (`Settled`):
  without one it may keep it, and nobody reads it. One lemma, `WriteLocal`,
  says that a step which touches one connection and its threads keeps the
  invariant everywhere else. It was checked by TLC with every value of
  `Shutdowns` and `FinWhenFull` first.
- `NetconnProofs!NobodyIsLeftAlone`: `NobodyLeftAlone`, for any number of threads,
  connections and mailbox sizes, under the two hypotheses of the standing run:
  `Shutdowns = {"RDWR"}` and `FinWhenFull = FALSE`. The property is false without
  them: a half shutdown forgets a control block that still calls back
  (`api_msg.c:784`), and a FIN that finds the mailbox full is lost to the reader
  (`api_msg.c:252`); both are under the bounds of `Netconn`. `LiveInv` says that a
  connection and its control block name each other (`Paired`), that a connection
  from which more can be received (`Open`) has a control block that can deliver it
  (`Hears`), unless it is just being created or a thread has taken the end of the
  stream and not yet noted it (`Excused`), and that each request is queued or
  parked where a callback will find it (`Cared`). `LiveLocal` reduces a step
  to the one connection it is about, `LiveServed` does so for the functions of
  `api_msg.c`. It was checked by TLC on the instance of the run `netconn` first.

Assumptions, each weaker than what the code guarantees: `ListAssumption` (items, lists and NULL
are distinct, item values up to `MaxDelay`, items finite), `StorageAssumption`
(the length is positive), `KernelAssumption` and `SchedulerAssumption` (the
tasks are a finite set with the idle task, priorities and the width of the tick count
are positive, delays fit it, the bounds are natural numbers), `QueueAssumption` (block times fit the
tick count, priorities exist, the constants are of their kinds) and `FrameAssumption` (`NULL` is no call), `EmacAssumption` and
`EtharpAssumption` (positive sizes; a pending entry dies before a stable one), `DhcpAssumption` (times and counts are
natural numbers, the times fit the timers and the limits of tries their width, and
`0.0.0.0` is no address a server hands out),
`TimersAssumption` (the width of the count is positive, and the lag and a period together fit it),
`IntervalsInTicks` and `PoolSuffices` (intervals are whole ticks, and the pool has a
timeout for each handler, as the configuration gives it), `BoundsAreNumbers`,
`NetconnAssumption` (positive sizes, `NULL` is no thread and no connection), `MarkerAssumption` (what
stands for an invalid mailbox is made of no connection and not of `NULL`; it is a
matter of the model only).

Only model-checked:

- Liveness (`InsertEnds`, `TimersExpire`, `TimersRun`, `RingRecovers`,
  `CallsReturn`, `EventuallyDelivered`, `NothingWaitsForEver`): out of the
  prover's reach.
- `BuffersTracked` and `ReclaimPending`: they rest on what a fold over the buffers of
  a ring (`FreeTxRxPBufs`) leaves behind, and so do `IpReass` and the sums of
  `Pbuf`: an induction over data for each fold, which would have to be written as
  the one for `Deadlines` is.
- The properties of `Tcp`, and `ImplementsListAbs`: not proved.

## Not modelled

- The kernel heap (a wrapper of `malloc`), co-routines (disabled), the BSP
  generator (build time), the applications (sequential loops over the API).
- Waits with a timeout in `Netconn` and `Emac`.
- IP forwarding and the cutting of datagrams into fragments, ICMP, UDP, IGMP,
  the heap of `mem.c`; DNS, AutoIP, SNMP and PPP, which the configuration
  turns off; sockets and `select`.
- MAC drivers the Zynq applications do not use.
- In TCP: an acknowledgement that is due while Nagle's algorithm holds back
  the segment it would ride on is not sent (`tcp_out.c:924`). The model has
  that behaviour; no property is about the delay.
- In `Timers`: a reload queued behind a stop starts the timer again
  (`timers.c:610`), only with clients that preempt; no property is about it.

## Plan

Done: the kernel, the Ethernet driver, the timeouts, the ARP table,
reassembly, the DHCP client, the sequential API for TCP, the TCP connection, and the proofs
above.

Next, in this order:

1. `Queue`: `vTaskSuspend` and `vTaskDelete` of waiting tasks, counting
   semaphores, `vQueueWaitForMessageRestricted` composed with `Timers`.
2. `Netconn` on `Tcp`: the callbacks of one are the events of the other.
3. `Sockets` (`W/api/sockets.c`): `lwip_select` against the events.
