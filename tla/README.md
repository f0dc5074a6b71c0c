# A formal model of Xinu and its virtual memory

This directory holds a TLA+ development of the system in this repository: Xinu
for x86 (Comer's teaching kernel) with the page tables, page faults and
per-process heaps of "project 4", its services, drivers, file systems, network
and shell. It consists of modules translated from the C sources, TLC
configurations that check them on small instances, and theorems proved with
TLAPS for every size of the kernel's tables.

Paths below are relative to the repository's sources (`system/kill.c`); modules
are in this directory.

## 1. The system

One processor runs at most `NPROC` (100) processes. A system call begins with
`disable()` and ends with `restore(mask)`; the only place where one process
takes the processor from another is `resched()`. So the code between two calls
of `resched` is atomic, and concurrency comes from

* `resched`, reached from the middle of calls that have more to do afterwards
  (`kill` after its `send`, `receive` after its wait, `semdelete` after its
  loop, the clock handler after `wakeup`, every service after a `wait`),
* the clock interrupt, between any two instructions with interrupts enabled,
* code that runs with interrupts enabled although it works on shared state
  (the first half of `vmalloc`, the searches of `mark` and `lfsopen` ahead of
  their mutex),
* devices and servers, which go on by themselves: the UART, the rings of the
  Ethernet controller, and servers behind a network that loses, delays,
  reorders and repeats.

### Components

| Component | State | Operations | Used by |
|---|---|---|---|
| Process queues | `queuetab`: doubly linked lists of process ids with keys | enqueue, dequeue, insert, insertd, getitem, getfirst, getlast, unsleep | everything below |
| Scheduler | `proctab`, `currpid`, `readylist`, `preempt`, `Defer` | resched, resched_cntl, ready | every call that blocks or wakes |
| Semaphores | `semtab`: count, state, queue | wait, signal, signaln, semcreate, semdelete, semreset | ports, buffers, drivers |
| Messages | `prmsg`, `prhasmsg` | send, receive, recvclr, recvtime | kill, drivers, network, shell |
| Clock and sleep | `sleepq`, a delta list | sleepms, clkhandler, wakeup | recvtime, network timeouts |
| Life of processes | process table, stacks, `prcount` | create, resume, suspend, yield, chprio, kill, exit | all |
| Virtual memory | frames of the PT and FFS areas, their `avail` bits, CR3 | vcreate, vmalloc, vfree, page fault, kill | user processes |
| Memory allocator | `memlist`: blocks in the order of addresses | getmem, getstk, freemem | create, pools, ports |
| Buffer pools | `buftab`: lists of buffers and a semaphore each | mkbufpool, getbuf, freebuf | network, remote disk |
| Ports | `porttab`, a list of free nodes, two semaphores each | ptcreate, ptsend, ptrecv, ptreset, ptdelete | applications |
| Memory marks | `marks`, `nmarks`, a mutex | mark | nothing in this repository calls it |
| TTY | circular buffers for input, output, echo; two semaphores | read, write, getc, putc, control, two interrupt handlers | shell |
| Local files, RAM disk | directory, two free lists, an index and a data block per open file | open, close, getc, putc, seek, truncate | name space |
| Remote disk | request queue, cache, a communication process | read, write, sync | local files |
| Remote files | control blocks, sequence number, mutex | open, close, read, write, seek, control | name space |
| Name space | `nametab` | mount, open | shell |
| Ethernet | two rings of descriptors, two semaphores | read, write, interrupt | netin, ipout |
| UDP, ARP, ICMP and IP | slots with packet queues, the address cache, the output queue | register, receive, send, release, resolve, ping; netin, ipout | clients below |
| DHCP, DNS, TFTP | one endpoint for each call | getlocalip, dnslookup, tftpget | applications |
| Shell | its child, message and open devices | read a line, run a command | user |

Interaction. `kill` calls `send`, `getitem`, `unsleep`, `freestk` and
`resched`; `send` calls `ready` and `unsleep`; `recvtime` and `sleepms` call
`insertd`; the clock interrupt calls `wakeup` or `resched`; `resched` loads CR3
with the directory of the process it dispatches, and `vcreate`, `vmalloc`,
`vfree` and `kill` load the directory of the system while they edit page
tables, so virtual memory and scheduler meet in that register. The services and
drivers rest on semaphores (`wait` ... `signal`) or on messages (`recvclr`,
`recvtime`, `send`); which of the two decides what can go wrong: a semaphore is
handed over before the process runs, a message only says that something was
there. The network input process calls `udp_in`, `icmp_in` and `arp_in` and
must never wait; packets to send go through a queue to `ipout`, which may.

### What is hard, and what makes the system correct

* The queue functions check almost nothing. A process must be on exactly the
  queue that its state names; `resched` does not test what `dequeue` returns,
  so the ready list must never be empty when it is called.
* Rescheduling is deferred with a global counter. No process may lose the
  processor, and no call may return, with the counter raised; and no attempt
  made while it was raised may be forgotten.
* A semaphore with count -n has n processes queued, also half way through
  `signaln`, `semdelete` and `semreset`, and a free one has none, because
  `semcreate` does not empty the queue.
* The timer of `recvtime`, a message and a kill race for the same process.
* `kill` has a context switch in its middle, between "count the victim out"
  and "take it apart".
* A frame of the PT area counts as free by the `avail` bits of its first entry
  alone, in memory that is never set to zero; `vmalloc` gives out runs of
  entries that may end in the next table; `vfree` walks memory, not addresses;
  CR3 is changed in the middle of calls, some of whose exits do not change it
  back.
* A port can be reset or deleted under processes that wait on it, or that were
  released and have not run; only a sequence number tells them.
* What a semaphore counts and what a list or a circular buffer holds agree only
  up to the processes on their way: buffers, TTY characters, ring slots.
* Open local files share sectors of index blocks, the directory and two free
  lists, which are written back at different times under different mutexes.
* Exchanges with servers are repeated after a timeout; late answers meet the
  next exchange, and a late copy of a request is done after it has ended.
* A process woken by a message does not look again at what it was woken for.
* Limits of circular queues, tables and chars.

`PROJECT.json` lists these hazards one by one, each at its line, with the
properties that cover it or the reason why none does.

## 2. The modules

```
QueueOps ──────────── Queues ◄─(implements)─ QueueTab ── MCQueueTab
   │    └── QueueOpsProofs                        └── QueueTabProofs
ProcTable ─ Semaphores ────────┐
   └─────── SleepClock ─ Messages ─ Processes ─ Kernel ── MCKernel
                                       Timers ◄─(implements)─┘└── KernelProofs ── ProcessProofs
PageTables ─ VM ─┬─ MCVM
                 ├─ Heaps ── MCHeaps
                 └─ VMProofs

SemOps ─┬ Ports ───┐        LocalFiles ──┐          Udp ─────────┐
        ├ BufPool ─┤        RemoteDisk ──┤          Icmp ────────┤
        └ Tty ─────┼ MCServices  RemoteFiles ─┼ MCIo     Arp ────┼ MCNet
  Memory ──────────┤        Names ───────┤          NetClients ──┤
  Marks ───────────┘        Shell ───────┘          Ethernet ────┘

Marks, BufPool, Ports, Memory ── ServicesProofs
RemoteFiles, Names, Tty, Ethernet ── DeviceProofs
Udp, Icmp, Arp, NetClients ── NetProofs
(all three over QueueOpsProofs, for rings and for the semaphores of SemOps)
```

### Kernel and virtual memory

**QueueOps**: what the queue functions do, as operators on sequences. `Insert`
is `insert.c`, `GetItem` is `getitem.c`, `Insertd` and `InsertdKeys` are the
two effects of `insertd.c` (position and keys), `UnsleepKeys` is the delta that
`unsleep.c` passes on.

**QueueTab**: `queuetab` itself, link by link: `qnext`, `qprev`, `key`, head
and tail nodes with `MAXKEY` and `MINKEY`, `newqueue` as called by `sysinit`
and `clkinit`. **Queues** is its specification, a sequence for each queue;
`ImplementsQueues` is the refinement. Its mapping `lists` follows the `qnext`
links from the head of a queue: `Follow(nx)[n]` is what `n` turns of the loop
find, and a list of more entries than there are processes would not be one.
The loops of `insert` and `insertd` (`insertWalk`, `insertdWalk`) are recursive
functions of the number of their turns in the same way. With the refinement the
other modules may use sequences.

**ProcTable**: the variables of the process table and of the scheduler.
`Resched` is `resched.c` from the test of `Defer.ndefers` to `ctxsw`;
`Ready(p)`, `Block(st, keys)` (state change and `resched`), `DeferStart` and
`DeferStop` are its callers' common forms. A call that has something left to do
when `resched` returns leaves a continuation in `cont[p]`: operation, argument,
and a counter. The rest is an action of its own that runs when `p` is next
dispatched, and nothing else of `p` may run before it; the clock interrupt
needs `cont[currpid] = Run`, interrupts enabled.

**Semaphores, SleepClock, Messages, Processes**: one action for each call,
with the early returns that change nothing left out (they are stuttering
steps). The loops of `signaln`, `semdelete`, `semreset` and `wakeup` take one
step for each process they release. `kill` is `Kill` (count, send) and
`KillDone` (the `switch` over the victim's state, read when it is reached).
`create` has its failing path, which keeps the advanced scan position.

**Kernel**: their composition, initial state, fairness and properties.
**Timers** is what the clock promises, one timer for each process that counts
every tick; the delta list is shown to implement it (`SleepQueueKeepsTime`).

**PageTables**: entries, frames, the searches for free frames and runs of
entries. A frame of the PT area is `PTSIZE` entries of memory; directory and
table entries share one layout, as in `paging.h`, so a directory that is read
as a table, or memory that is left over, is modelled by what it contains.

**VM**: `vcreate`, `vmalloc`, `vfree`, the page fault handler, `kill_vm`, the
switch of CR3 in `resched`. Processes are dispatched in any order, since the
order is Kernel's business. `vmalloc` is three actions: the direct call, the
segmentation fault of a caller that was preempted after it loaded CR3, and the
rest with interrupts disabled. Some failing paths have actions of their own:
`VcreateFails` leaves CR3 with the system's directory; `VcreateRunsOff` is a
search for a directory that finds none.
**Heaps**: what a process may expect of `vmalloc` and `vfree`, with the variable
`heapspoilt` (see Conventions): "continued" when a heap goes on in another table
and that goes wrong (`ContinuesBadly`), "apart" when one is freed whose tables
do not follow each other in memory (`LiesApart`), "kept" when one of less than a
page is freed, for which `vfree` frees nothing.

### Services

The modules of services, drivers and programs do not repeat the scheduler.
What Kernel establishes of semaphores (first come first served, counts that
match queues) they take from **SemOps**, a semaphore as a record of its count
and its queue. A process that may wait in the middle of a call has an entry in
a variable that names the call and what it had read before (`ptcall`, `tycall`,
`lfcall`, ...); everything between two waits is one action. Processes run in
any order, unless the code fixes their priorities, which each module says.

**Ports**: every call, cut where it waits and at each process it releases.
`busy` is the process whose call goes on with interrupts disabled. Messages
carry the sequence number their sender read, so that the lives of a port can be
told apart.
**Memory**: the free list block by block, first fit, last fit, joining.
**BufPool**: buffers linked through their first word. **Marks**: the test, the
wait and the assignment of `mark` as separate steps.
**Tty**: the lower half in its three input modes with editing, echo and flow
control; the upper half character by character.

### Files and programs

**LocalFiles**: directory, index blocks (several to a sector), data blocks,
free lists, and the two blocks each open file has in memory. A step is what is
done under `lf_mutex`; what a close does without it is split.
**RemoteDisk**: the queue of requests and the cache link by link, the callers,
which queue, signal and suspend in one step (interrupts are disabled from
`read.c:19` on, and `rdssetprio(MAXPRIO)` keeps the processor over the signal),
the communication process, the server.
**RemoteFiles**: calls under the mutex, retries with sequence numbers, and the
server. In both what was sent stays in the network for good: a request comes to
the server at any later time, any number of times or never, and so do the
answers to the caller. `rdlate` and `rflate` record what a late copy changed.
**Names**: the table of prefixes with its sizes, and the repeated replacement,
with the length kept in a `char`.
**Shell**: `lexan` as a fold over the characters of the line, the syntax, and
the shell as a process: it may wait in `read`, `open` and `receive`, and its
children run only then if its priority is above theirs (`ShellFirst`; nothing
in the repository starts the shell, so this is a parameter).

### Network

**Udp**, **Icmp**, **Arp**: the tables of the endpoints and the cache, the
process in `recvtime`, and the input that wakes it; Icmp also has the path of a
packet through IP, the output queue and `ipout`. **NetClients**: the exchanges
of TFTP, DHCP and DNS with what was once sent arriving at any time; a message of
DHCP says whether it is for this machine (`own`) and whether it has its number
(`xid`), and the code sees only the number.
**Ethernet**: both rings with the registers that say which descriptors the
controller owns, the controller as actions of its own, also in the middle of
the interrupt handler, which is cut where it reads the status.

### Conventions

Several of these parts do not survive all legal uses (section 5). Their module
then has a variable `...spoilt` that tells what happened, and nothing is
explored behind it: the invariants say what holds as long as none of the named
things has happened, and each of them is a behaviour of the code that TLC found
(but for "apart" of Heaps, see Bounds).

The modules that model code have a few definitions marked "for comparison":
variants with a plausible mistake. No specification uses them. Each property
has one that breaks it, which shows that the instance is large enough to tell
the difference.

## 3. The runs

Commands: `tlc -config <cfg> <module>`. All instances are exhausted, none
takes more than five minutes on two cores.

| Run | Question | Instance |
|---|---|---|
| `queuetab` | Do the linked lists behave as sequences and stay linked both ways, under every order of calls their callers may make? | 3 processes, ready list, sleep list, 1 semaphore queue, 2 keys, 2 delays |
| `kernel_sem` | Do the inductive invariant of the proofs, counts, queues, deferral, scheduling order and FIFO order survive a semaphore that is used, deleted and reset? | 3 user processes of 2 priorities, 1 semaphore, counts up to 2, quantum 2 |
| `kernel_life` | Is one process current, does the null process stay, does `receive` find a message, are messages neither overwritten nor lost, when processes create, suspend, kill, change priorities, send, wait and sleep in any order? | 2 user processes and free entries to create, 2 messages, delay 1 |
| `kernel_exit` | When processes end only by themselves, are `prcount`, the halt and the stacks right, although `kill` gives the processor away? | 3 user entries, 3 stacks, create / exit / receive / suspend |
| `kernel_fair` | Does the delta list implement timers, do sleepers wake, do processes of one priority share the processor? | 3 user processes of one priority, delays 1 and 2, messages that cut a wait short |
| `vm_two` | Two processes with page faults and preemption: is no frame shared, does all memory come back, does user code run with its own directory? | tables of 2 entries, 2 FFS frames, 5 PT frames, one with memory left over |
| `vm_heap` | Is what `vmalloc` returns allocated, disjoint and counted until `vfree`, until one of the three things of `heapspoilt` happens, and no frame used twice, with kills and failing calls of `vcreate`? | one user at a time, tables of 4 entries, 3 PT frames, 2 FFS frames; heaps of half a page, of a page and a half, of 3 pages (one less than a table), of a table, of a table and a page |
| `services` | Does a port carry only messages of its present life and conserve its nodes, does the free list partition the heap, do counts agree with lists, by how much can marks overrun, does a reader get the line that was edited, do blocked calls return? | 3 processes; 2 ports with 2 nodes, cleared once; a heap of 28 bytes with a hole; 2 pools; 2 marks; buffers of 3 and 2 characters |
| `io` | Do local files behave as sequences of bytes and lose no block; does the remote disk serve everyone and read what was written last, but for late copies of writes; do remote files tell the truth, but of files that late copies change; are names mapped to what the table says; does the shell run what was typed and wait for a child that lives? | 2 files of up to 3 bytes on 2 data blocks; 2 processes and 4 calls, the open among them, on 2 blocks; 2 devices for one remote file, 3 requests; 3 mounts; every line of 4 characters and a session with 2 children and 3 devices |
| `net` | Do packets come in order and buffers stay accounted for, are waiters woken, does the cache follow the hosts, is a finished transfer complete, do frames pass the rings in order without a lost interrupt? | 2 processes, 2 or 3 slots with queues of 2, 5 buffers (4 for ICMP), 3 hosts, files of 5 bytes in packets of 2, rings of 4 and 2 |

`services`, `io` and `net` hold several modules that share no state; their
product would only multiply states, so a variable `part`, chosen at the start
and never changed, says which of them moves. Where a module is too large for one part it is split
by what goes on at once, and the MC module says how: TTY input and output,
local files with two processes or with truncation, UDP with and without
senders, ping and echo, transfers and look-ups, single lines and a session.

The properties of these modules are checked together, one invariant for each
module (`LinesInv` and `ShInv` for the shell); its parts have names of their
own, each with a comment that says what of the code it is about:

| Invariant | Parts |
|---|---|
| `PtInv` | `PtTypeOK`, `NodesConserved`, `PortCounts`, `OnlyThisLife`, `PanicOnlyWhenOversold`, `CountTellsMessages` |
| `MemInv` | `MemTypeOK`, `HeapPartition`, `LengthFollows`, `RefusedOnlyWhenFull` |
| `BpInv` | `BpTypeOK`, `BuffersConserved`, `BuffersCounted`, `BuffersKnowTheirPool` |
| `MkInv` | `MkTypeOK`, `OverrunBounded`, `MarkedStays`, `EntriesUsed` |
| `TtyInv` | `TtyTypeOK`, `OutputCounted` |
| `LfInv` | `LfTypeOK`, `BlocksOnce`, `PointerAtPosition`, `FilesAreSequences`, `ClosedIsSaved` |
| `RdInv` | `RdTypeOK`, `NodesOnce`, `SuspendedAreServed`, `CacheIsLatest`, `ReadsAreFresh` |
| `RfInv` | `RfTypeOK`, `MutexFollowsCalls`, `ResultsAreTrue`, `PositionsAsTold` |
| `NamInv` | `NamTypeOK`, `NewNameFits`, `MappedForGood` |
| `LinesInv` | `TokensFit`, `LexedAsTyped`, `SyntaxAsDocumented` |
| `ShInv` | `ShTypeOK`, `RunsAsTyped`, `WaitsForALife`, `ForegroundEnded`, `OpenIsHeld` |
| `UdInv` | `UdTypeOK`, `PacketsInOrder`, `NetBufsOncePlaced`, `WaiterIsKnown`, `WaiterIsWoken` |
| `IcInv` | `IcTypeOK`, `IcBufsOnce`, `QueuesHoldThePackets`, `PingWaiterIsKnown` |
| `ArInv` | `ArTypeOK`, `OneEntryPerHost`, `PendingIsAwaited`, `EntriesFollowHosts`, `ResolvesTheHost` |
| `NcInv` | `NcTypeOK`, `FileIsPrefix`, `DoneIsWhole`, `SlotsFollowCalls`, `AddressIsAcknowledged`, `AnswerBeginsAlike` |
| `EthInv` | `EthTypeOK`, `FramesReadInOrder`, `DescriptorsCounted`, `NoInterruptLost`, `FramesSentInOrder` |

`MkInv`, `BpInv`, `PtInv`, `MemInv`, `TtyInv`, `RfInv`, `ArInv`, `NcInv`, `EthInv`, `UdInv`,
`IcInv` and `NamInv` are in the modules they are about, and are checked in every
behaviour of the run; the others are in the MC modules and looked at in the behaviours in which their
module moves.

`TableOK`, `EndsWithTheLast`, `PagesExclusive` and `HeapConsistent` are such
conjunctions for `QueueTab`, the end of processes, VM and Heaps. In `services` the
liveness properties form `CallsReturn`, those of single steps
`StepsAsSpecified`. For each part there is a variant of the code that breaks it
(section 2, "for comparison"; `PROJECT.json`, "mutants").

Runs that show a disagreement of the code with its own text (each a finding in
`PROJECT.json`, with the quotation):

| Run | What happens |
|---|---|
| `vm_preempt` | `vmalloc` loads the system's directory with interrupts enabled. A process preempted there goes on with its own directory, whose tables do not map the PT area, and is killed by a segmentation fault. |
| `net_ring` | The head of an ICMP queue goes round after `ICMP_SLOTS` places, the tail after `ICMP_QSIZ`: after as many replies as the queue has places, `icmp_recv` reads behind the array. |

### Bounds, and why they are enough

* Semaphore counts stop at `MaxCount`. The code compares counts with 0 and
  adds 1 only; negative, zero, one and two are all there are to tell apart.
* Two priorities besides the null process's 0 make "higher", "equal" and
  "lower"; three user processes make a queue with a head, a middle and a tail.
* Delays 1 and 2 give delta lists with keys 0, 1 and 2, so "due together",
  "due next" and "due later" occur, and a process that leaves early leaves a
  delta to pass on.
* `QUANTUM` 1 or 2: the time slice ends at the next tick or after one that did
  not end it.
* `MinDelta` (QueueTab): the clock stops counting the first key at 0, since
  `wakeup` follows in the same interrupt.
* `PAGE` is 2 bytes: a request may be a whole number of pages or not. Tables
  have 2 to 4 entries instead of 1024 and the XINU area has `XPDE` of them.
  A run of entries can start at 0, inside, end inside, at the end or beyond.
* `vm_two` leaves out what `kill` of another process and a failing `vcreate` do
  (`UserSpec`): they lose memory and leave the wrong directory, as section 5 says, so
  `NothingLost` and `OwnDirectory` hold without them only. `vm_heap` has them.
* `vm_heap`: a heap of 3 pages behind one of 1 or 3 goes on in the next table,
  which is new or there already; the first always goes wrong, the second only
  when the entries it counted are not those it takes. With one user his tables
  are beside each other in memory, because frames are taken from the first on;
  a table of another process between them ("apart") needs a second user with
  heaps of this size, whose states TLC does not exhaust. A process asks for less
  than a page only while it has no heap (`SmallFirst`), which keeps the run short;
  others may follow.
* `LargeRequest` (VM): requests of a table or more are made only by a process
  that has no table yet; the search of `vmalloc.c:258-366` across several
  existing tables is left out (section 6). Heaps do not reach the addresses of the
  PT area.
* In VM `kill` is one step; its context switch is modelled in Kernel.
* Ports: `MaxPtSeq` 2 counts the create, so a port is reset or deleted once in
  a behaviour; the wrap-around of the sequence number is not reached
  (`PortsKeepTheirPromises` has any number of lives). Two nodes and a count of
  2 make a port that is empty, partly full and full; three processes make two
  that wait and one that clears.
* Memory: 28 bytes with a hole as in `meminit` hold blocks that join with
  their predecessor, successor, both or none.
* TTY: buffers of 2 and 3 places wrap around in every position; one key of each
  class that the handler tells apart.
* Local files: `MaxFileSize` 3 with 2 bytes to a block needs a second data and
  index block; two index blocks share a sector, and files share it. One
  truncation (`MaxTruncs`).
* Remote disk and files: `MaxRdCalls` calls (with the open), `MaxRfSeq`
  requests; two transmissions each. Copies of a request on their way need no
  bound: what was sent may come again at any time.
* Names: sizes are chosen so that both limits bite: a length that does not fit
  a `char` of 3 bits, and a replacement that does not fit the buffer. With the
  repository's 64, 96, 256 and 8 bits only the first can happen: what passes a
  `char` is at most 127 bytes, and with 95 of a replacement fits 256.
* Shell: 6 tokens instead of 32, lines of up to 10 characters of 8 classes.
* Network: queues and tables of 2 or 3 places, because what matters is empty,
  partly full, full and wrapped around; two retries; everything once sent stays
  in the network, so late and repeated packets need no bound of their own, but
  for DHCP: of all messages servers can send, 3 different ones in a behaviour.
  With 4 ICMP buffers the full output queue (`ip.c:453`) is not reached with
  ping under way; `PingAndOutput` has any number.
* Ethernet: a receive ring of 4 with returns in pairs
  (`E1000_RING_BOUNDARY`), a transmit ring of 2.

### Fairness

`FairSpec` assumes weak fairness of `KernelSteps`, the steps that run with
interrupts disabled (the processor goes on executing instructions), and strong
fairness of `ClkHandler`: the timer interrupts periodically, and an interrupt
raised while interrupts are disabled stays pending in the controller until
they are enabled. The clock is not *continuously* enabled, since processes
disable interrupts again and again, so weak fairness would not do. Nothing is
assumed of processes: they may stop making calls at any time. The liveness
properties are stated up to a halt of the whole system.

In `services` the same holds for the processor: weak fairness of the steps of
calls that are under way with interrupts disabled or have been released
(`PtGoOn`, `getbufGoesOn`, `TyGoOn`), since the scheduler lets ready processes
of one priority run in turn (`ReadyRuns`); strong fairness of `freebuf`, for
`GetbufReturns` only, which asks that whoever has a buffer gives it back again
and again; and strong fairness of the transmitter's interrupt, which the UART
raises when it is empty. `io` and `net` check safety only: their networks may
lose everything for ever.

## 4. The proofs

The theorems hold for every value of the constants: any number of processes,
semaphores, frames, table entries, hosts, messages, and any set of system
calls, from the assumptions on the constants that the modules of the code
state. A theorem that needs more says so as a hypothesis of its own.

| Module | Theorem | Statement |
|---|---|---|
| `QueueTabProofs` | `TableInvariant` | `Spec => []IInv` |
| | `ListsStayLinked` | `Spec => []TableOK` |
| | `QueuesAreImplemented` | `Spec => ImplementsQueues` |
| `KernelProofs` | `Invariant` | `Spec => []IInv` |
| | `TypeCorrect` | `Spec => []TypeOK` |
| | `QueuesAreConsistent` | `Spec => []QueuesMatchStates` |
| | `OneCurrentProcess` | `Spec => []CurrentAndNull` |
| | `DeferralIsBalanced` | `Spec => []DeferralEnds` |
| | `SemaphoreCounts` | `Spec => [](CountsMatchQueues /\ FreeSemsAreEmpty)` |
| | `ReceiversHaveMessages` | `Spec => []ReceiveHasMessage` |
| | `MessagesAreKept`, `MessagesAreTaken` | `Spec => MessageKept`, `Spec => MessageTaken` |
| | `FirstComeFirstServed` | `Spec => ServedInOrder` |
| `ProcessProofs` | `TheHighestPriorityRuns` | `Spec => []HighestPriorityRuns`, without `chprio` |
| | `StacksAreExclusive` | `Spec => []StacksExclusive`, without `kill` of others |
| | `TheLastEndsTheSystem` | `Spec => []EndsWithTheLast`, without `kill` of others |
| | `SleepersKeepTheirTime` | `Spec => SleepQueueKeepsTime` (a refinement of `Timers`), without `recvtime(0)` |
| `VMProofs` | `PagesAreExclusive` | `Spec => []PagesExclusive`, with `FreeableHeaps` |
| | `OwnDirectories` | `Spec => []OwnDirectory`, without the failing `vcreate` |
| | `NothingIsLost` | `Spec => []NothingLost`, with `FreeableHeaps`, without `kill` of others |
| `ServicesProofs` | `MemoryMarks` | `MkSpec => []MkInv` |
| | `BufferPools` | `BpSpec => []BpInv` |
| | `PortsKeepTheirPromises` | `PtSpec => []PtInv` |
| | `HeapStaysPartitioned` | `MemSpec => []MemInv` |
| | `GivesWhatWasFree` | `MemSpec => HandedOutWasFree`, a part of `StepsAsSpecified` |
| `DeviceProofs` | `RemoteFileCalls` | `RfSpec => []RfInv` |
| | `EthernetRings` | `EthSpec => []EthInv` |
| | `NamesAreMapped` | `NamSpec => []NamInv` |
| | `OutputStaysCounted` | `TtySpec => []TtyInv` |
| | `LinesStayEdited` | `TtySpec => LineEdited`, a part of `StepsAsSpecified` |
| `NetProofs` | `ArpCache` | `ArSpec => []ArInv` |
| | `ClientsOverUdp` | `NcSpec => []NcInv` |
| | `EndpointsDeliver` | `UdSpec => []UdInv` |
| | `PingAndOutput` | `IcSpec => []IcInv` |

The hypotheses are there because the statement is false of the code without
them, and section 5 has the place: `chprio` leaves the ready list in its old
order; `kill` of another process may count it out twice; a `recvtime` of 0 has a
key that the next tick makes negative; a `vcreate` that fails
leaves CR3 with the system's directory; a killed process keeps its memory.
`FreeableHeaps` says that `vfree` is not called or that no request is of more
than a page and less than a table: `vfree` clears the entries that follow in
memory, and those of a heap that `vmalloc` continued in another table are
elsewhere. What follows in memory may be anything, and TLC shows that without
the hypothesis even a directory of a process that runs is cleared.

`QueueOpsProofs` has the lemmas about the operators on sequences: `Insert`,
`Insertd` and `Append` add, `GetItem` and `Tail` remove exactly the one process,
keep a queue without duplicates and the rest in its order, and keep a sorted
queue sorted. For delta lists it has what each operation does to the sums of the
keys: `insertd` gives the new process its delay and leaves the others theirs,
`unsleep` and the removal of a first process that is due leave the others
theirs, and a tick takes one from each. Circular buffers are there too: a ring
holds a sequence from its head on (`RingHolds`), and `RingPut`, `RingTake`, `RingHead` and
`RingAt` say that putting at the tail and taking at the head are `Append`
and `Tail` of that sequence, with indices that wrap (`RingAfter`, `RingTurns`).
And semaphores, for the code above the kernel: who waits after `wait`, `signal`
and `signaln` (`SemWaited`, `SemSignalled`, `SemSignalledN`), and what a
semaphore has promised to its callers.

**The queue table.** `IInv` says of every queue that exists: the nodes from its
head over the processes of `Chain(q)` to its tail are linked by `qnext` in one
direction and by `qprev` in the other (`ListAt`), the tail has `MINKEY`, and no
process is on two. Three lemmas about two arrays of links, without a word on
queues, carry the steps: `LinkedIn` (a node put between two), `LinkedOut` (a
node taken out) and `ListElsewhere` (links changed outside a list leave it).
`EntriesAre` says that what `Follow` finds along such a list are its entries;
`insertStops` and `insertdStops`, that the loops end at the position that
`InsertPos` and `InsertdPos` of QueueOps define, with `MINKEY` or `MAXKEY` at
the end of the list as the only thing that stops them there. For a process
found by `getitem` alone, without its queue, the invariant gives the queue.
Facts about recursive functions are proved by induction over the set of the
numbers for which they hold (`UpTo`).

**The kernel.** None of the theorems is inductive by itself.
`QueuesMatchStates` needs `CurrentAndNull` (a process that blocks is in no
queue, and `dequeue(readylist)` finds somebody) and `ReceiveHasMessage` needs
to know in which state a process with a pending `receive` can be. The loops
that release processes need `DeferralEnds` (nobody else ran since the loop
began) and the part of `ContOK` which says that a continuation is about a
semaphore, or a victim other than the null process, and that a dead process
has none. `IInv` is the conjunction; `kernel_sem` checks it with TLC, and
`kernel_life` the parts that kill and messages endanger.
`ReschedOK` says once what `resched` does to the process table under hypotheses
`MayResched` on the states, ready list, keys and time slice that its caller has
set: it restores the scheduler's part of the invariant (`SchedOK`) and changes
no state except between current and ready. Lemmas for `Ready`, `Block` and
`DeferStop` discharge `MayResched`. The lemma of an action then deals only with
the queues, counts and messages it changes itself.

`ProcessProofs` adds three invariants to `IInv`. `PrioInv`: the ready list is
ordered by keys, which are the priorities, and its head is not above the
current process unless rescheduling is deferred *and* was attempted. `EndInv`:
a `kill` under way is a process's own, `StacksExclusive`, and `prcount` is the
number of user processes that live, less those counted out and still in the
table, so that it is 0 exactly when the last one halts the processor.
`DeltaInv`: the keys of the sleep queue are at least 0, and between calls, when
no `wakeup` is under way, the first is positive, so that the tick which makes it
0 wakes everybody who is due. Under the refinement mapping a process on the
sleep queue has its sum of keys left and every other none. Every action is then
one of four kinds: it leaves the sleep queue and the sums alone (`QuietTimers`:
semaphores, `ready`, `resched`, whatever else changes), or it starts, counts
down or stops timers as `Timers` says (`StartTimers`, `TickTimers`,
`WakeupTimers`, `AnswerTimers`, `DieTimers`, `SendTimers`). `TimersInit` and
`TimersNext` are the two halves of the refinement.

**Virtual memory.** `FramesOK` is the strengthening of `PagesExclusive`: a
user's directory leads to the XINU area, then to tables, then nowhere
(`DirectoriesOK`); no frame is a directory or a table twice (`Separate`); no
entry of a table looks free, and what it maps is in use (`EntriesOK`), by it
alone (`MapsOnce`). `HeldOK` is what
`vfree` relies on, `CallOK` what the rest of a `vmalloc` does after its caller
was preempted. For `NothingLost`, `Owned` says conversely that what is marked
as taken is reached from a user's directory. Arithmetic with slots (frame and
index) rests on `DivMod` lemmas.

**Services, remote files, network.** `MkIInv` says who has the mutex of `mark`,
that its index is the next entry of the list, and which entry may still be
empty for how long. `BpIInv` gives each buffer one place (`BpPlaces`: the heap,
one list, one process), says that the words of the free buffers link the list
of their pool (`BpLists`), and that the count of a semaphore, those who wait
and those who were released and have not yet taken their buffer add up to the
length of that list: whoever comes back from the wait of `getbuf` finds a
buffer. That a list is what one finds along its links (`ListIs`) is the
argument of `QueueTab` again.

`PtIInv` says it of the free list of the message nodes and of the lists of all
open ports together (`PtListsAre`): each node is on one of them, and the tail
of a port is the end of its list; `PtListsPut`, `PtListsTake` and
`PtListsClear` are what `ptsend`, `ptrecv` and `_ptclear` do to the links. A
semaphore promises what its count admits and what the callers may do that were
released and have not gone on yet (`Promises`): that of the senders and the
messages there are add up to the size of the port, that of the receivers is the
number of messages. `wait` keeps or uses up a promise, `signal` gives one, and
both are said once for any semaphore (`PromisesBlocked`, `PromisesPassed`,
`PromisesSignalled`). Who has called on a life of a port that is over has a
smaller sequence number (`PtUser`), so it is no caller of the life that
follows, and a port in `PT_LIMBO` has one process that clears it and keeps what
that process has done so far (`PtClearing`). `PtOversold` turns a send that
finds no node into a count of nodes and places: the panic says that more was
promised than there is.

`HpIInv` keeps the free list in the order of addresses with a gap between any
two blocks, apart from what is held, and both together what `meminit` put into
the list. What `getmem` and `getstk` take, and what `freemem` puts back with
none, one or both of its neighbours, are one operation, the replacement of a
stretch of the list by one block or none (`HpPut`, `HpPutList`).
`MemoryAssumption` asks that the kernel ends at least two blocks below the hole
and that there is more memory above than the null process's stack; with less,
`meminit` makes blocks of a length that is not positive.

`EthIInv` describes each ring from the head of the driver on: in the receive
ring the frames that came, some of them reported, and the tail register after
the last place the controller may fill (`RxRoom`: up to the half that was given
back last, so never the whole ring); in the transmit ring what was sent and is
to be reclaimed, what is to be sent, and free places (`RxAt`, `TxAt`). The
semaphore and the processes that were released account for the reported frames
and for the free places; `SemSignalledN` says what `signaln` does to a
semaphore.

`RfIInv` has one call under way, whose file on the server is what it was or
what the request makes of it, and says of which replies the caller may conclude
that it was done; every other request on its way is of a call that has ended,
and the file it changes is in `rflate` from then on, of which nothing is said
any more. In `ArIInv` a process that waits has its entry or a message, and a
resolved entry has the address its host told last. `NcIInv` has the part of the
file that a transfer has got so far, an endpoint for each call and no other,
and answers only to what was asked; of an address it says that it was
acknowledged with our number, which is what the code looks at, and not that it
is ours.

In `NamIInv`, a name that was mapped with its end has the meaning it was mapped
to under the present table. The loop of `nammap` is followed twice: in the
buffer, where every turn leaves a name that fits, and in the table without
limits (`Leading`); as long as no turn fails they agree, because a length that
a char cannot hold comes out negative or 0 (that needs `NM_MAXLEN <= 2 *
CHARHALF`, 256 and 128 in the code). What leads to a device leads there in
every longer table.

`TtyIInv` says of each buffer of the serial line that what lies between its
head and its tail is what the semaphore has promised: in the input buffer to
readers, with the line behind it (`TyInputOK`, until the buffer is spoilt), in
the output buffer what it has not promised to writers (`TyOutputOK`, until a
character is sent that was not there). A process that was released and has not
taken or put its character yet still counts among the callers, so no step
between the wait and the character changes a sum. For `LineEdited` the
characters are looked at as well: `readable` and `line` are texts in the ring
(`TyTexts`), and the lemmas on `TyText` say what is left of a text when the
head goes on, a character is put behind it, or the tail goes back.

In `UdIInv` the queue of a slot holds the packets that came (`UdTable`), every
buffer is free, with one sender or in one queue (`UdOnce`, true even after a
process woke to an empty queue), and until then whoever waits is the process
its slot names, and has a message once the slot has a packet (`UdKnown`,
`UdWoke`). `IcIInv` says the same of ping (`IcTable`, `IcKnown`, `IcWoke`) and
of the output queue (`IcOutput`: the semaphore counts the packets, less the one
the output process was let through for), and where each buffer is (`IcOnce`).
The head of a ping queue, which goes round too late, is where the queue begins
as long as it is in the array at all; that is why `QueuesHoldThePackets` is
about the values, and `net_ring` about the places. Both invariants need that no
process has the number -1, and `IcIInv` that a queue has no more places than
there are slots (8 and 10, icmp.h).

`MkInv` needs that `"none"`, the value of an empty place, is no location;
`NcInv`, that the file on the server is a sequence of numbers; `RfInv`, that
there is a file name.

**Only model-checked**: liveness (out of the prover's reach);
`VmallocReturns`, `HeapConsistent` (`HeapCounted` is a sum over the heaps of a
process, so needs induction over a fold); `LfInv`, `RdInv`, `LinesInv`, `ShInv`.
`LinesInv` and `ShInv` are about folds over the characters of a line; for the
others nothing stands in the way but their length.

## 5. Where the code does not do what it says

Besides the two findings with a run. For the places marked * TLC found the
behaviour: the module has a definition that states what fails, or a `spoilt`
variable that ends the exploration there. No cfg lists them, because one run
shows one disagreement, and the two chosen are those with the clearest text.

Kernel and memory

* `kill.c:29`*: `prcount` is decremented before `send`, which may run another
  process that kills the victim, still in the table, again: the system halts
  while a user process is alive. `HaltsAtTheEnd` is checked where processes end
  themselves.
* `kill.c:43`*: what another process kills keeps its memory.
* `vmalloc.c:213`*: for the tail of a heap in a table that is not there no
  table is made: the search looks at the first frame only, and entries of the
  old table are marked again.
* `vmalloc.c:230`*: where the heap goes on in an existing table, the free
  entries among the first few are counted, and as many from the start are
  taken, free or not; `vmalloc.c:168` asks that they be empty.
* `vmalloc.c:25`: the number of pages is rounded down, so the last bytes of a
  request that is not whole pages have no page. A request of less than a page
  is rounded up to one, and `vfree.c:31` frees none for it ("kept")*.
* `vmalloc.c:116` lacks `restore(mask)`; `vcreate.c:43` leaves CR3 with the
  system's directory.
* `recvtime(0)` (`recvtime.c:26`) puts the caller on the delta list with key
  0. The next tick makes the key -1 and is not passed on: processes behind it
  sleep one tick longer than "n milliseconds" (`sleep.c:23`).
* `chprio` (`chprio.c:25`) neither moves a ready process nor reschedules: the
  promise of `resched.c:8`, "highest priority eligible process", fails until
  the next reschedule. `HighestPriorityRuns` is checked without it.
* `unsleep.c:7-8` says that the caller must adjust the next delay; the function
  does it itself (`unsleep.c:39-42`).

Services and files

* `mark.c:37`*: processes that pass the test together run over the end of
  `marks`, by at most as many places as there are processes (`OverrunBounded`).
* `ttyhandle_out.c:57`*: while output is held, or a writer was released and has
  not put its character, the transmitter sends characters the queue does not
  hold (`OnlyQueuedIsSent`).
* `lfsopen.c:55`*: two processes open one file at once (`OpenOnce`), although
  line 51 says that a file which is already open is refused.
* `lflclose.c:30`*: a close without `lf_mutex` may undo what another process
  wrote to the same sector (`lfspoilt`).
* Remote disk*: `rdspoilt` names four ways: a sync request is queued without a
  link (`rdscontrol.c:69`), a search reaches a node that left the queue
  (`rdsqfcns.c:29`), an answer to an earlier request is taken (`rdscomm.c:96`,
  "Verify that sequence in reply matches request", line 93), and the loop of
  `rdsprocess.c:138` never advances.
* `rdscomm.c:67-83`* and `rfscomm.c:52-66`*: a request is sent again after a
  timeout, and a copy of it that comes after its exchange has ended is done by
  the server: an old write replaces a newer one, a file that a caller was told is
  there is deleted. `ReadsAreFresh` admits what such copies of writes put on the
  disk (`rdlate`), `ResultsAreTrue` excepts the files they change (`rflate`).
* `nammap.c:88`*: the length of a name is kept in a `char`: a name of more than
  127 characters comes out without its end (`NameHasItsEnd`). `naminit` mounts
  the empty prefix last, so that whatever is mounted later is never found, and
  its mount of `/dev/` on SYSERR is refused.
* `shell.c:272`*: when the second file of a command cannot be opened, or the
  process not be created, the files already open stay open (`shlost`).
* `kill.c:33`*: the parent is told before the files are closed: a shell with the
  next line at hand may find the output of the last command still open
  (`ForegroundClosed`).
* `shell.c:304`*: with a shell whose priority is not above `SHELL_CMDPRIO` the
  end of a child of the foreground can get lost, because the mailbox holds that
  of another; the shell then waits for ever. `WaitsForALife` is checked with
  `ShellFirst`.

Network

* `udp.c:190` and `202`*: a process woken for a packet may find the packet
  taken (`WokenFindsAPacket`) or the slot released; `icmp.c` the same way.
* `icmp.c:96`*: a packet for a full queue is put into it all the same.
* `arp.c:148`*: the entry may have been given to another address before the
  woken process reads it (`NobodyElsesAddress`).
* `dns.c:290`*: the names are compared to the length of one of them, so the
  answer to a longer question fits (`AnswerMatches`; line 287 says "matches").
* `dhcp.c:49` and `192`*: the number of an exchange, "unique XID" in the
  comment, is the first four of the six bytes of the Ethernet address. A machine
  whose address begins alike has the same, and the address acknowledged to it is
  taken: `AddressIsAcknowledged` says no more.
* `arp.c:214`: an ARP entry that stays pending after its process was woken by
  another message lets a late answer send OK to a process that now waits for a
  packet (`udp.c:189`), and it finds none. Udp leaves this message out; Arp has
  how the entry stays pending (`arspoilt = "stray"`).
* `dhcp.c:187`, `237` and `dns.c:94`*: some failing exits keep their endpoint;
  a second `getlocalip` fails while the first one runs.
* `tftp.c:246`: a file that fills the buffers is returned without the last
  acknowledgment.
* `ethwrite.c:40`*: the semaphore admits as many frames as the ring has places;
  the registers are then equal, the controller takes the ring for empty, and
  the output stops for good (`OutputIsKnown`).

## 6. Not modelled, and why

* `vmalloc.c:258-366`, the search for a heap of a table or more across existing
  tables. It compares a counter that has no value, ends its loops by writing to
  their indices, and changes `frames` as it goes from one directory entry to the
  next (line 133), so that what it does depends on what the compiler leaves in a
  register; `LargeRequest` in VM is this bound, and the properties of VM say
  nothing of it.
* Device switch, C library, formatting, PCI, boot code and linker files:
  sequential, or constant after the start, or hardware access. The switch is an
  indirect call through a table that never changes.
* SD card driver, PHY and registers of the Ethernet controller, PXE: accesses to
  particular hardware, polled.
* Fields, byte order and checksums of packets; only the values that decide what
  the code does next are kept. IP as such is modelled where ICMP and the output
  queue go through it.
* The commands of the shell, but for `kill` and `exit`; `addargs`.
* `clktime`, calendar and the register saving of the assembly: nothing depends
  on them. Contents of stacks, names of processes, and the close of descriptors
  in `kill` (it is in Shell, not in Processes).
* `RDS_CTL_DEL`, `lfscheck`, `lfsckfmt`, output processing of the TTY.
* `testcases/`, `tmp/`, `config/` and `compile/`: expected outputs, copies,
  build tools and results.

## 7. Plan

Done: queues, scheduler, semaphores, messages, clock, processes, virtual
memory, services, TTY, file systems, remote disk and files, name space, network
core, Ethernet rings, shell; the proofs of section 4.

Next, in this order, each in the module of proofs of its part of the system:

1. **Remote disk**: `NodesOnce` and `SuspendedAreServed` with the lemmas on
   links of `QueueTabProofs`.
2. **Heaps**: `HeapBacked` and `HeapsDisjoint` under `FreeableHeaps`.
3. **Refinement**: a port as a bounded queue for each of its lives; local files
   as sequences, which is now the invariant `FilesAreSequences`.
