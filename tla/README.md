# Verification of trains-os

TLA+ models of trains-os, a real-time microkernel for the Raspberry Pi 4 with
its memory allocators and libraries, its loader and the programs that run on
it. All of it is model-checked with TLC; the main invariants of the kernel and its
ready heap, of the clock and serial services, of the Bluetooth programs, of four C
programs, of both allocators and how they start, of the page tables, of the loader
and of four library parts are also proved with TLAPS, for every value of the
constants. Paths below are relative to the repository (`src/`).

## The system

The top `Makefile` builds four things: the kernel (`kernel/`), the C libraries
(`lib/`), a loader (`loader/`) and the programs of `pie-rust/`. The C programs
under `user/` are older than the Rust programs and are not built; four of them
are modelled.

| Part | State | Operations | Talks to |
|---|---|---|---|
| Kernel: system calls, scheduler, interrupts (`kernel/src/syscall_handler.c`, `loop.c`, `task.c`, `interrupt.c`, `kernel/include/scheduler.h`, `mailbox.h`, `task.h`) | task descriptors by identifier, ready heap, four wait lists, a mailbox per task (queue of senders, pointers to buffers), current task | create, exit, yield, send, receive, reply, await event, tid queries, mmap; dispatch; interrupt delivery | all programs by system calls; page and slab allocators; devices |
| Ready heap (`lib/include/heap.h`) | array of descriptors, number of insertions | insert, pop | scheduler |
| Red-black tree (`lib/librbtree`) | root, four fields per node | add, remove, replace, find, walks | map of tasks by identifier |
| Lists, ring buffer (`lib/include/utlist.h`, `ring_buffer.h`) | links of elements; an array with head and size | insert, delete, search, sort; push, pop, peek | wait lists, free lists, slabs; mailboxes |
| Page allocator (`kernel/src/pgmgr.c`) | segments and roots, a descriptor per page, a free list per block size | init, allocate, free | task creation and exit (stacks), ke_mmap, slabs |
| Slab allocator (`lib/libslab/slab.c`) | pages cut into objects, a free list inside each, lists of pages | create, alloc, free | task descriptors; page allocator |
| Kernel time (`lib/include/timer.h`, `kernel/src/loop.c`) | idle time, start of its count | read the clock, begin and end the idle task, ke_sys_health | timer |
| Page tables (`kernel/src/mmu.c`) | tables of the identity map | create | every access to memory |
| Clock service (`clock_server.rs`, `clock_notifier.rs`, `api/clock.rs`) | tick count, deadline, heap of waiting clients, timer compare register | wait, current tick, notification | kernel timer interrupt; every program that waits |
| Serial port service (`rpi_uart.rs`, `rpi_uart_intr_broker.rs`, `sys/rpi.rs`) | receive and transmit buffers, queues of pending requests, FIFOs, interrupt mask | read, write, interrupt | kernel UART interrupt; Bluetooth, IMU |
| Name server (`name_server.rs`, `api/name_server.rs`) | map from the hash of a name to a task | set, get | every program at start-up |
| Quadrature encoders (`kernel/src/encoder.c`) | last level of each pin, counters, edge detection registers | init, GPIO interrupt, read and clear | encoder programs |
| Message boxes (`sys/msgbox.rs`, `deps/msgbox_macro`) | a buffer with a record and attached arrays | build, send, parse | every program |
| Bluetooth and GATT programs (`rpi_bluetooth_*.rs`, `gatt_monitor*.rs`, `commander.rs`) | HCI command in progress, connection, subscriptions, registered monitors, relay queue | HCI commands and events, attribute writes, publications, relayed commands | serial port, clock, IMU and motor servers |
| Motion programs (encoder, IMU, motor, PID servers) | counters, last samples | trigger and collect | encoders, serial ports, clock |
| Loader (`loader/src`) | headers of the image, the mapped block | resolve arguments, read headers, map, copy, clear, relocate, jump | kernel (mmap, exit) |
| Base library (`lib/libbase`, `lib/libsyscall`) | none; the SPI port's FIFO | memory, strings, roots, printf, SPI serial port, ke_who_is | kernel, loader, C programs |
| Legacy C programs (`user/src`) | pairs of players; queues of bytes and callers; delays; table of names | sign up, play, quit; getc, puts; delay; register, who is | system calls, devices |

**What makes it hard.** The machine has one core and the kernel masks
interrupts, so kernel code never races with itself; what can go wrong is the
*order* of traps and interrupts. Every system call requeues or blocks its
caller, so any call is a scheduling point between programs of one priority. A
message can be sent before or after its receiver asks. An interrupt that no
task is waiting for is acknowledged, masked and forgotten, so each service must
arm its device at a moment when a lost interrupt does no harm. Limits (200 heap
entries, 64 queued senders, buffers of 2048 bytes) are enforced by silence, by
writing through NULL, or by a panic. And the containers, on which everything
rests, are macros over raw pointers whose mistakes show only after a long
sequence of calls. `hazards` in `PROJECT.json` lists these at
the lines where they bite.

**What correctness means**, for each part: a task is on the one list its state
names; no ready task is lost and no blocked one runs; messages are delivered
once, in order, to a receiver that replies once; memory blocks are disjoint and
none is lost; each container is what its users take it for (a fair priority
queue, an ordered set, a sequence, a FIFO, a directory); a program is loaded as
it was linked, inside its block; an encoder's count follows its wheel; the clock never stops and
waits end on time; no lost interrupt leaves a reader or writer waiting; every
command written over Bluetooth is executed once and in order, and the car can
always be connected to again.

## Modules

| Module | Models |
|---|---|
| `Kernel` | the kernel's system calls, scheduler and interrupt delivery |
| `Rendezvous` | abstract specification of Send/Receive/Reply, without scheduler or lists; `Kernel` implements it |
| `KernelProofs` | theorems about `Kernel`: its invariants; that it implements `Rendezvous`; that no task is lost while there is room |
| `ReadyHeap` | the array heap, `heapify` functions included |
| `PrioFifo` | abstract specification of a queue: one FIFO per priority; `ReadyHeap` implements it, and `Kernel` uses it in this form; `RingBuf` implements it with a single priority |
| `RbTree`, `OrderedSet` | the red-black tree; the set with distinct keys it implements |
| `UtList`, `TwoLists` | singly, doubly linked and circular lists; the two sequences they implement |
| `RingBuf`, `HashTable` | the ring buffer; the chained table of the C name server |
| `BaseLib`, `Printf` | memory, string, size and root helpers; the integer and string directives of printf |
| `PgInit`, `PgMgr` | how the page allocator lays memory out and finds a page again; its buddy allocator |
| `Slab` | the slab allocator, with owners that write to their objects |
| `BootLayout` | the identity map of the MMU and the layout of a slab |
| `KernelTime`, `Encoder` | reading the timer, idle time and its report; the encoder driver against a turning wheel |
| `Loader` | the program loader, for images of any shape a linker makes |
| `ClockService` | clock server, notifier, timer and clients |
| `UartServer` | serial server, interrupt broker, device and clients |
| `Bluetooth` | the seven programs between the Bluetooth controller and the execution of a command, the controller and a peer |
| `Rps`, `LegacyUart`, `LegacyClock` | the C programs: rock-paper-scissors, serial servers, clock server and the calls that use it |
| `SpiUart` | writing a string to a serial port behind the SPI bus |
| `AddressOrder` | a set of addresses or indices in ascending order, for both halves of `pg_init` |
| `AllocProofs` | theorems about `Slab` and `PgMgr` |
| `BootProofs` | theorems about `PgInit`, `BootLayout` and `Loader` |
| `LibraryProofs` | theorems about `ReadyHeap`, `RingBuf`, `Encoder`, `KernelTime`, `HashTable` and `Printf` |
| `CommonLemmas` | lemmas these three share: least and greatest elements, descent, powers, quotients |
| `ServiceProofs`, `BluetoothProofs` | theorems about `ClockService` and `UartServer`; `Bluetooth` |
| `ProgramProofs` | theorems about `SpiUart`, `LegacyUart`, `Rps` and `LegacyClock` |
| `MCLibrary`, `MCServices`, `MCPrograms` | several modules beside each other: the initial state chooses the one that runs (`which`), the others rest |
| other `MC...` | the TLC instances of one module |

A definition has the name of the function it models where there is one. The
definitions named `Mut...` are faulty variants of the definition that follows
them, used to confirm that each property notices a plausible bug; no
specification uses them.

### Kernel

One action is one trap: the handler and the tail of `k_loop`, which puts the
caller back in the heap unless the handler blocked it. `Dispatch` is
`k_sched_get_next`. An interrupt is `IntrTake`, one `IntrWake` for each
iteration of the loop over the tasks waiting for the event, and `IntrReturn`.
User programs are arbitrary: the running task may make any call with any
argument, or arm a device; this over-approximates every program. Sends to tasks
that do not exist or have exited, replies to tasks not waiting for one, and
priorities out of range take the error paths of the code. An event is a number,
and the code refuses none: it becomes the caller's state, and 1, 3, 4
and 5 are states of `enum kTaskState`. `Events` has these numbers as the states they
read as; `Misled` are the tasks that wait for one of them.

Data is abstracted: a message is a model value, sizes and truncation are left
out, a result is the code or the identifier the handler stores.
`map_tid` is a set of identifiers. The heap is a FIFO for each priority, which is
what `ReadyHeap` shows the array to be. The failures of the code are kept: an
insertion into a full heap is dropped; a push to a full `sender_waitqueue` writes
through NULL; the descriptor that `k_create_handler` leaves in the map when the
priority is invalid (state `UNINIT`) can be sent and replied to; and a send or a reply
to a task whose state misleads unlinks it from a list it is not on and copies
to the buffers of an earlier call. The last three set `fault` and stop the model: what
such a write hits depends on what lies there.

### Containers

`RbTree` keeps the memory the code writes: the root pointer and for each node its
parent, colour and children. The code's left and right variants are one
definition with the side as a parameter. Each iteration of the two rebalancing
loops is an action, so that their loop invariants can be stated
(`LoopInvariants`: what may be wrong with the colours, and only at the node the
loop is at) and that each iteration climbs (`LoopsClimb`). `UtList` has two list
heads and every macro as an operator from memory to memory; the sort makes
the macro's passes of merges of growing width. `HashTable` keeps the elements'
array with its extra element and the free list.

### PgInit, PgMgr and Slab

`PgInit` runs `pg_init` over any list of segments: trimming to whole pages,
placing the manager and, root by root, the descriptors in the smallest space
that holds them, deciding which pages are free; then the binary search of
`pg_free_page` for any address.

`PgMgr` starts from the free lists that `pg_init_free_lists` builds for the one
segment `k_main` boots with; stacks are allocated and freed a page at a time,
the blocks of the other callers are kept for ever. `pgmgr.h` would also allow
larger blocks to be freed; nobody does so today. A page
descriptor unlinked from a list that does not hold it sets `corrupt` (in the
code, `DL_DELETE2` then breaks two lists).

`Slab` lays a page out in units, so that an object overlapping the free list is
visible: when an owner writes its object (`WriteObject`) every entry of the
list it covers takes an arbitrary value. `BootLayout` has the searches of
`slab_create` for the number of objects and the padding.

### Base library, loader, timer and encoder

`BaseLib` and `Printf` call each function on every small argument and compare
the result with a definition of what the caller relies on, or what the C
standard says of the directive. Machine words have `Width` (`LongBits`) bits, so
that overflow happens. `Loader` keeps memory as cells that say where
their content comes from (byte of the file, relocated word, or stale), over all
images with one text and one data segment, gaps and bss, linked at any address
below twice their alignment. `KernelTime` reads the
two halves of the clock in two steps with ticks between them, so that a reading may
be torn by a carry, and keeps idle time and its report in words that wrap. `Encoder` reads the
edges, reads the pins and clears the edges in separate steps, while the wheel
turns at any moment; counters are kept modulo the four positions the pins tell
apart.

### ClockService and UartServer

Both keep positions and times relative to the present, so executions are not
bounded in length. In `ClockService` server and notifier share the queue of
priority 0 with the clients in `UrgentClients`: `k_main` starts `user_entry` and the
name server at the clock's own priority, and `user_entry` waits 300 ticks. Such a
client sends in its turn, ahead of the server's first look at the time or while a
tick is queued, and also calls other servers and wakes its like (`OtherCall`,
`OtherWake`); the other clients run only when that queue is empty. `Tick` is a unit
of time and with it the timer interrupt, which may preempt any task. In
`UartServer` the broker is more urgent than the server, bytes are counted and
not told apart, and each access to the device is an action of its own, since an
interrupt may come between any two: `arm_rx` and `arm_tx` read the mask (`ReadMask`),
and write it later with what they have read (`RearmRx`, `ArmTx`).

### Legacy programs

They run under any interleaving of tasks that their system calls allow. In `Rps`
the four players sign up in any order, make the moves they are given, quit, and
sign up again when a partner leaves first. Before a result and after a game has
ended the server waits for a key in a busy loop (`key_wait`): it takes no request, the players go
on. (`calc_game` makes scissors against rock
a draw, though rock beats scissors; the model keeps this, no property depends on it.) `LegacyUart` serves
either channel: bytes are counted, what is kept is who waits for what and which
notifier is armed, and a byte may arrive or leave between two rounds of the loop
of a handler. `LegacyClock` adds the library calls: `ke_who_is` waits
by the clock and finds the clock by `ke_who_is`, so a client keeps a stack of
searches. In `SpiUart` the port empties its FIFO at any moment.

### Bluetooth

The tasks and the actions of each: `hci` (packet receiver), `bt` (HCI
commander: sets the controller up, advertises, waits for a connection, stops
advertising, waits for the disconnection, advertises again), `gatt` (attribute
server), `monitor` and `relay` (which pass writes of the attribute "Cmd Input"
on), `cmd` (acknowledges and executes them) and `helper` (which reminds `gatt`
of the time; it stands for both of gatt's helpers). A task is at the system call
it makes next or waits in; `inbox` holds the messages of blocked senders, and a
send to a task that has panicked is itself a panic. Only the most urgent ready
task runs, and of equally urgent ones any: that is what the order of commands
rests on.

Packets and HCI commands are units, the firmware is one command, calls of the
clock and serial servers are answered at once except for the blocking write.
Requests that only read (discovery, reads) are one kind of request; what is in
attributes and responses is left out.
Branches that need a second watcher or an event the controller does not send in
that state (`Watcher is already set`, `Commander Cannot Handle Command`) are
unreachable here and left out. The controller and the peer are the environment,
with assumptions that are constants: `SlowRadio`, that a peer which has had
the response to one request needs longer for the next than `gatt` for the rest
of the first (a radio round trip against microseconds), without which
the next write is lost while the monitor is not registered; and `PatientPeer`,
that the peer does not disconnect before advertising is stopped.

The programs unwrap what the peer sends. `ValidPeer` says that each of its
requests is one whole packet that `gatt` can parse and serve, that a client
configuration it writes is not empty, that commands are UTF-8 and that a number
follows `pwm`; `ServersUp`, that `imu_server` and `motor_server` are there when a
command is executed. Without `ValidPeer` a part of a request that is split
over packets is dropped and never answered, a packet shorter than its header ends
`hci` (`HciUnreadable`), a handle that does not exist, a type that is no UUID or
a value that is too long ends `gatt` (`GattInvalid`), a configuration
without a byte ends it at the next publication, reminder or disconnection
(`GattTrigger`, `GattClears`), and `from_utf8`, `parse` and `ns_get` end `cmd`
(`CmdUnwraps`). The tasks that go on find their receiver gone, or wait for it for ever.

## Runs

| Run | Question | Result |
|---|---|---|
| `kernel_ipc` | Do states, lists, heap and mailboxes agree and does the kernel implement `Rendezvous`, up to a wild write, whatever tasks call and whatever events they wait for? | holds |
| `kernel_limits` | When heap and mailboxes overflow, priorities are invalid and an event has the number of `READY`: do types and the inductive invariant hold, is a ready task lost or the kernel corrupted only for these reasons, and can only more urgent tasks starve one in the heap? | holds |
| `kernel_orphan` | Does every blocked sender have a receiver that can take it, as the -2 of `ke_send` suggests? | violated: a receiver that exits strands its senders |
| `library` | Are the containers what their abstract specifications say, do the allocators hand out disjoint memory and lose none, do helpers, printf, page tables and slab layout compute what they should, is idle time right but for torn readings, does the encoder lose nothing, is a program loaded as linked? | holds |
| `pgmgr_coalesce` | Are two free buddies combined? | violated: `PGDSP_USED` is never cleared |
| `pgmgr_lookup` | Does `pg_free_page` find the root of every page handed out? | violated with two segments: it tests `roots[l]`, having found `roots[m]` |
| `slab_layout` | Is the free list exactly the free objects, with every padding the code can choose? | violated: `data` leaves out the header |
| `services` | Can the clock stop, can a wait end early or late? Can a lost interrupt strand bytes or a client of the serial server, even one taken between the read of the mask and its write, and are writers answered in order? Is every request answered? | the clock's answers hold if the tasks of its priority are never busy for a whole quantum, and every request is answered if that priority is idle again and again; the serial server's until it panics on a full buffer |
| `bluetooth` | Are commands executed once, in order and all; do notifications reach only who asked; does `gatt` know the connection; is the car always reachable again; does nothing panic? | holds with `SlowRadio`, `PatientPeer`, `ValidPeer` and `ServersUp`; all commands are executed until the relay's queue overflows |
| `bluetooth_malformed` | With a peer that sends what the programs cannot serve, are the commands that are executed still in order, and do notifications still reach only who asked? | holds; that nothing panics, every command is executed or the car advertises again does not hold without `ValidPeer` |
| `bluetooth_disconnect` | Does nothing panic if the peer may leave at any time? | violated: a disconnection taken for the end of a command |
| `programs` | Is no player left waiting for one who left, does every call to the serial and clock servers return, are delays exact, is each string written as far as there is room, into a FIFO that is never overrun? | holds, games if a key is typed whenever the server waits for one |

The five violated runs are listed under `findings` with the comment or header
each contradicts. Three more divergences are part of the models, and the
properties state what the code does instead:

- `ke_await_event` never returns the -1 that `uapi.h:55` promises for an invalid
  event, since the test of its range is commented out (`syscall_handler.c:161`);
- `spi_uart_puts_ntm` takes a full FIFO for the end of the string and drops the
  rest (`rpi_gpio.c:330`), where line 308 expects of the string only that it ends;
- when the metadata reaches into the last page of a root, `start_idx` keeps its
  default (`pgmgr.c:403`) and pages of the metadata become free, against line 395.

**Properties** that one run checks of one module are conjunctions of named
parts, each with its comment: `TreeSound` is `RedBlack`, `LoopInvariants`,
`WalksVisitAll` and `FindIsLookup`; `ImplementsOrderedSet` includes
`LoopsClimb`; `ImplementsTwoLists` includes that lists stay doubly linked;
`HelpersExact`, `PrintfExact`, `RootsSound`, `ImageAsLinked`, `EncoderFollows`,
`LayoutsExact`, `TimerExact`, `ClockOnTime`, `RequestsAnswered`, `CallsReturn`
and others list their parts where they are defined.

**Bounds.** `kernel_ipc` has four task identifiers (the three of `k_main` and
one more), two priorities, one interrupt source, two messages: enough for two
senders to queue at one receiver, a third task to exit or be created meanwhile
and an interrupt to come between any two calls; beside the source's there are
events that read as send-, receive- and reply-blocked. `kernel_limits` lets a heap of 2
and mailboxes of 1 overflow with the same tasks, two priorities and an invalid one,
and the event that reads as ready.

`library`: the heap has capacity 6 (three levels, a last parent with one child
and with two) and 7 insertions, so that one is dropped. The tree has ten nodes,
two of them with one key: from nine keys on removals meet all four cases at more
than one level. Lists have five elements in two ranks, so that the sort meets
runs of unequal length and equal elements. The ring holds 4 and wraps, the table
has four names in two buckets. Words have 8 bits (5 in `Printf`, with values at
both ends), memory six cells, strings three characters. Segments are two (one
before the other, unaligned, read-only or not) among nine bounds, six pages in
all; `PgMgr` has 8 pages that start unaligned, the first reserved, so that blocks
of every level up to 2 exist. Slabs are three pages of two objects: a full, a
partly used and an empty page at once. Half a clock has 4 values and the
clock runs to 7, so that a carry comes between two reads; idle time is scaled by 2.
A byte has 4 values in `BootLayout`, so that paddings are cut. Images have alignment 4, start at every address below 8 and
take up to ten cells in blocks of 4, 8 or 16; calls of ke_mmap succeed
(`MmapFails = FALSE`). Tables have 8 entries and four slices.

`services`: a client at the clock's priority and one below it, waits up to two ticks and
a quantum of three units, of which priority 0 may be busy for two, so that a request
comes before, behind and between the two halves of a tick; two clients of the serial server,
reads of none or two bytes, writes of one or two, FIFOs of one and buffers of
two, so that requests are answered in parts and both buffers overflow.

`bluetooth` has two connections (one to leave something behind, one to find it),
three commands, another request and a relay queue of one: one command is being
executed, one is queued and one overflows; `bluetooth_disconnect` needs one
connection and no command. `bluetooth_malformed` has two connections, two commands,
each valid or not, and another request, valid or not.

`programs`: all four players and two games, so that a later pair finds the place
of an earlier one; two clients of a serial server, output of none or two bytes, an
output buffer of two, input buffer and queue of one, early calls only on the
terminal's channel (`EarlyChans`; a call that reaches the Marklin server before
its notifiers do makes it fail, and the programs that use the track start
later); two clients of the clock, delays up to two ticks, two attempts of
`ke_who_is` two ticks apart, a stack of three; strings up to five bytes over
transfers of two and a FIFO of four.

The violated runs of the allocators use the same instances, with one page of three
objects for `slab_layout`.

**Fairness.** `Kernel.FairSpec`: the kernel dispatches, finishes its loops, and
a running program makes another system call some time (one that computes for
ever starves its priority, which the code does not prevent: there is no time
slice). `ClockService`: server and notifier run, since nothing is more
urgent, and time passes; that the queue of priority 0 is empty again and again is
the hypothesis of `EveryRequestAnswered`, since a client that never blocked would
starve everybody below it. `UartServer`: server and broker run, the device
sends its bytes (flow control does not stall for ever) and a raised interrupt
is taken; bytes need not arrive and clients need not ask. `Bluetooth.Spec`: some
ready task runs (the kernel dispatches), the serial port sends what it is given
and the controller executes its commands; the peer need do nothing. `cmd` is the
least urgent task, so that its commands are executed rests on the peer pausing:
a peer that asked without end, for which TLC finds a behaviour when reads are not
bounded, would starve it. Legacy programs: server, notifiers and clients run,
bytes leave, the bus answers. No key need be typed: `AllFinish` says what follows
if, whenever the rock-paper-scissors server waits for one, somebody types. In `MCServices` and `MCPrograms`
the same conditions are stated for the part that runs.

**Deadlock** is not checked, since the systems really may stop: `Kernel` after
a wild write or with every task blocked and nothing armed, `UartServer` after
the panic of the server, the rest when the bounds are exhausted, a function has
returned or a game is over. That the clock cannot stop is part of `ClockOnTime`.

## Proofs

TLC checks small instances; the theorems below hold for every value of the
constants that meets the assumptions named in the modules. Each inductive
invariant was an invariant of a TLC run before it was proved.

| Theorem | States | Hypothesis beyond the assumptions |
|---|---|---|
| `TypeCorrect`, `Invariance` | `KernelInvariant`: types, and `IInv`, of the kernel | |
| `WaitListsTheorem`, `HeapTheorem`, `RendezvousTheorem` | the parts of `IInv` that `kernel_ipc` checks | |
| `KernelImplementsRendezvous` | every step of `Kernel` is a step or a stutter of `Rendezvous` | |
| `NoTaskLostTheorem` | `NoTaskLost`: which steps may lose a ready task or write astray | |
| `RoomMeansNoneLost` | no ready task is ever lost, and there is no wild write | `[]RoomForAll` |
| `RingImplementsFifo` | `RingBuf` implements `PrioFifo` with one priority | |
| `OnTimeTheorem`, `NotEarlyTheorem` | the clock never stops; no wait ends late, none more than a quantum early | `SoonBlocked` |
| `QuietMeansArmedTheorem`, `TxQueueInOrderTheorem` | the serial server loses no wake-up; writers in order | |
| `CommandsStayInOrder` | commands are executed in the order of the writes, each once | `Unhurried` |
| `LinkSurvives`, `GattStaysWithConnection` | no panic in the link's programs; the attribute server's view of the connection | `Unhurried` |
| `StringTheorem` | the SPI driver writes as much of the string as it found room for: all of it, unless `spi_uart_puts_ntm` met a full FIFO | |
| `WaitersHaveNotifierTheorem` | the C serial servers lose no wake-up | `TrackLate` |
| `PartnersPresentTheorem` | the game server strands nobody | `MaxGames >= 2` |
| `DelaysExactTheorem` | the C clock server answers each request at its tick; `ke_who_is` makes every attempt | `ElementForEach` |
| `EncoderFollowsTheorem` | the counts follow the wheel | |
| `TimerExactTheorem` | idle time and its report, and how far a torn reading spoils them | `MaxTime * Scale < Half * Half` (58 years) |
| `DirectoryExactTheorem` | the hash table gives the last tid registered | `NamesFit` |
| `FreeListTheorem`, `PageOnlyWhenFullTheorem` | a slab's free list is its free objects; no page is asked for while one has room | `ObjectsBehindList` |
| `BlocksPartitionTheorem` | the page allocator's blocks cover the segment and share no page | |
| `HeapImplementsQueues` | `ReadyHeap` implements `PrioFifo` | |
| `PagesLaidOut` | what `pg_init` places lies apart, and the search of `pg_free_page` finds no foreign root | |
| `LayoutsMade` | the identity map is one; a slab holds as many objects as fit | |
| `DirectivesPrinted` | a printf directive writes what the standard says, fills its field, terminates its buffer | |
| `ProgramsLoaded` | a program starts only as it was linked, inside its block | `~MmapFails` |

Each hypothesis is a condition the code relies on and does not enforce; the run
that checks the property meets it (for `ObjectsBehindList` the passing run
`library`; `slab_layout` is what the code does without it):

- `RoomForAll`: the ready heap and every mailbox have room for all live tasks but
  one, no descriptor is left by a `k_create` that failed, and nobody waits for an
  event with the number of a state. Nothing in the kernel ensures any of it:
  `NoTaskLost` says, step by step and without the hypothesis, what each costs.
- `SoonBlocked`: the tasks of the clock's priority, server, notifier and urgent
  clients, are never ready for a whole quantum on end (`MaxBusy < Quantum`), from the
  creation of the notifier on; a longer delay makes every later wait late.
- `Unhurried`: `SlowRadio`, `PatientPeer`, `ValidPeer` and `ServersUp`: the peer's
  next request takes longer than the attribute server needs for the one before,
  the peer stays until advertising is stopped and sends only what the programs
  can read and serve, and the servers are registered when a command needs them.
- `TrackLate`: no client calls the Marklin server before it is initialised.
- `NamesFit`: as many elements in the table as names; the name server's
  `HT_ADD` takes the next free element without asking whether there is one.
- `ElementForEach`: at least two attempts of `ke_who_is` (50 in the code) and as
  many elements in the clock server as client tasks (256);
  `clock_server_add_delay_until` asserts that its free list is not empty.
- `~MmapFails`: there is a block left for the program. `k_mmap_handler` stores
  address 0 when there is none, yet returns 0, and the loader tests neither: it
  would copy the image to address 0.
- `ObjectsBehindList`: every padding leaves room for the header of a slab, as
  the comment in `slab_alloc_init` draws it. The code does not ensure this
  (`slab_layout`): the theorems say what the allocator does on pages whose
  random padding is large enough, and will do once `data` counts the header.

The invariants, and why each is stronger than what is stated:

- **Kernel.** `IInv` is `WaitListsAgree /\ HeapHoldsReady /\
  NoMissedRendezvous /\ Bookkeeping`. None of the first three is inductive alone:
  that a receive unlinks its sender from `send_blocked` needs that every entry of
  a mailbox is send-blocked, that an exit leaves no entry behind needs that the
  running task is in no queue, and a new identifier is fresh only if everything
  recorded so far is below `next_tid`. `Bookkeeping` says these things.
  The invariant makes no use of the capacities: what overflows is lost,
  never misplaced. Nor does it assume that states tell the truth: a task
  in `Misled` is on `event_blocked` and on no other list, and counts as in no state.
  `NoTaskLost` does use the capacities: it needs that the heap's `count` is
  the number of ready tasks in it (`CountsReady`, full heaps included), so that a heap
  with fewer live tasks than slots has room, and that a mailbox has no sender
  twice. The refinement maps a task's state to its phase of the rendezvous
  and a mailbox to the messages of those queued in it; interrupts, scheduling
  and error paths stutter.
- **Ring buffer.** `RingInv`: from the oldest element to the newest the slots
  hold senders. The slots a pop left keep old contents, so the refinement mapping
  (`Contents`) must not look at them.
- **Clock service.** `ClockInv`. Lateness depends on where the handshake of
  server and notifier is: `Handshake` and `ReadyAgrees` (whether they are in the
  ready queue of priority 0 follows from where the two are) bound the notifications in
  flight to one and the requests beside it to one for each urgent client, `DeadlineKept`
  bounds the time since the deadline by the time priority 0 has been busy, and
  `WaitsAddUp` says what a heap entry or a queued request still owes its client. A
  request queued ahead of a tick is counted from before it, one queued behind it
  from after it, and the first ones from before the server has looked at the time:
  an urgent client may so wait shorter or longer by the time priority 0 is busy
  (`Slack`), another client never.
- **Serial service.** `SerialInv`. The server's panic, its pending replies and what is
  left of the handler it is in (`todo`) decide whether the broker's interrupt may
  be off: `BrokerOwed` and `ArmedOrBusy` are that case analysis. A mask the
  server has read (`status`) may be stale when it is written, but not while the
  broker waits: an interrupt in between has woken it.
- **Bluetooth.** `BtInv`. A packet is with the controller, with the receiver or at
  the attribute server, and the invariant says what it may be and what it may
  follow (`HostInOrder`), that what it reports is still true (`PacketsSound`),
  and what the commander and the attribute server must be doing while it is
  under way (`BtSound`, `OneRequest`, `GattSound`): that the commander finds
  the end of its own command is a consequence of there being one packet of each
  type. `NothingInvalid` shows that under `Unhurried` no
  step but those of `ValidNext` is possible.
  The order of commands rests on the priorities: `MonitorFirst` shows that
  whenever the receiver runs the monitor is registered, or is in the attribute
  server's inbox ahead of any request, since monitor and relay are
  more urgent. `InSequence` then accounts for every command: executed, held,
  queued, passed on and written add up to what the peer has written.
- **C programs.** `SpiInv` relates the length of the transfer to the room left in the
  FIFO and to what earlier ones had; `UartInv` says in which order the notifiers come into being and that
  each has at most one message in the mailbox, the first message there being
  the one whose sender is out; `RpsInv` that games share no player and that
  whoever waits for a partner is in no game, of the games that go on (`Live`): the one that
  ends with the next key has let its players go already. `CkInv` accounts for the clock
  server's elements and asks of every client to be blocked by the one request or
  element that names it (`AskedOnce`). What `ke_who_is` has waited is the sum of
  the calls on a client's stack: only the innermost has waited at all, and a search
  for the clock makes one attempt at most, because whoever waits has found the
  clock (`StackSound`, `InnerSound`, `AttemptsPaid`).
- **Page allocator.** `PgInv`. That blocks fit, share no page and cover the segment
  (`BlocksSound`) is kept only if what `pg_free_page` merges with really is a free
  block of that level, though it looks at one flag of one page, and that flag is
  never cleared for what has been handed out. `HalvesMarked` and `TailMarked` say
  what the flag then means. Half of a block that has been divided is marked, or a
  free block of its own level. Where the end of the segment cuts a block off, its
  upper half starts a smaller free block until it is marked, with a clear flag
  and a valid address: there the lower half must never come together again, and
  it does not because a page of it is kept (a single-page allocation would have
  taken the smaller block). `FreeStack` follows the loop level by level
  (`Merged`): the block so far consists of the freed page and free blocks. Powers
  of two are counted as sets of subsets (`PowerNext`); what `pg_init` cuts the
  segment into is proved from the first page up (`StartsCover`, `StartsApart`).
- **Libraries.** `EncInv` (a pin that changed since the driver last looked has its
  edge pending, or the handler is about to look), `TimeInv` (a reading of the
  clock is the time it began give or take whole halves, none if it is untorn, and
  idle time lies within the time measured), `HtSound` (chains
  and free list share no element, each name is in the chain of its hash once),
  `SlabInv` (the free objects of a page are the injective sequence its free list
  links, no list entry lies in an object, full pages come last). `Chain` of `Slab`
  follows the free list by recursion; that it is the sequence of the invariant
  is proved by descent over a set of numbers (`Descent`, `ChainIs`), which
  stands in for induction here and in the proofs about pages. That an owner's writes change nothing
  (`WriteHarmless`) rests on where the objects begin.

- **Ready heap.** `HeapInv`: no entry is before its parent, and no two have the same
  insertion number. In the middle of `heapify_bottom_top` and
  `heapify_top_bottom` one entry may be out of place, and the steps of the loop are
  proved from what then holds of all others (in particular of the grandparent
  that a swap makes a parent). The two functions are recursive functions on the
  position. That they exist and what they return is shown by descent: the set of
  positions where it fails has with each position the next one (`UpExists`,
  `UpSorts`, `DownExists`, `DownSorts`). The
  refinement mapping reads a queue off the heap by insertion numbers alone, so a step
  has to be followed only as a change of a set of entries: an insertion adds the
  latest of its priority, a pop takes the earliest of the most urgent one.
- **Booting.** `InitInv` says which segment a root is (its whole pages), that what is
  left of a root's segment is its end, and that the manager and the descriptor
  arrays placed so far lie apart, each in a writable root in front of what is left
  of it (`AreasPlaced`): a new area starts where the blank part does, and so apart
  from all. The free pages are compared with them by the bounds of pages. That
  the search finds the root if there is only one needs its loop to have a result,
  again by descent (`Iterated`). `MapInv` gives the tables after each iteration
  (`TablesAt`); for slabs, the number of objects found is the greatest of those
  tried that fits, and there is no room for more than are tried (`LayInv`).
- **Printf.** `PrintInv` says which text and which bytes belong to the directive;
  the work is in the pure lemmas. That the loop over the digits ends, for every
  value and base, is shown by descent (`DigitsExist`). `_ntoa_format` builds a
  number backwards, so its text is compared with the standard's through laws of
  reversed texts: `PlainForm` for fields filled with spaces, `ZeroForm` for those filled
  with zeros, where `HashPrefix` takes back exactly as many zeros as the
  prefix replaces. Both need what `Differs` excludes, so that list of divergences
  is complete. That a field is filled and the buffer terminated (`WidthFilled`,
  `ByteIs`) holds for every directive, the divergent ones included.
- **Loader.** `LoaderInv` gives the content of memory after each step, for every
  address: segments as in the file (`Copied`), the bss zero (`Cleared`), relocated
  (`Linked`). That no step spoils what another wrote rests on the parts of the image
  being apart; that all of it is inside the block, on `calc_mem_size`: what is
  mapped reaches from the lowest address, rounded down, to the end of the bss.

The proofs have one lemma per action, with a step per conjunct the action can
disturb, and lemmas about queues, sums and the heap that they share.

Model-checked only:

- liveness, and with it fairness and ENABLED: out of the prover's reach;
- `RbTree` (`TreeSound`, `ImplementsOrderedSet`), whose invariant speaks of black heights
  and reachable nodes, that is of recursion over a tree that rotations change;
- `UtList` (`ImplementsTwoLists`) and `BaseLib` (`HelpersExact`): what their
  definitions compute for every input, by recursion over lists and strings or
  with bits, needs induction over data.

## Not modelled

- Saving and restoring registers, the boot code, MMU registers and exception
  vectors: their effect, that a trap is atomic, is assumed.
- `lib/libfdt`: third-party code that is archived and linked by nothing; and
  the copies of macros that this compiler does not choose.
- Floating point: printf's directives and the motion programs' control.
- Message boxes (the layout of bytes generated by a macro) and the contents of
  messages, attributes and responses.
- The Rust name server and the boot programs: straight-line code; what is hard
  there is the order in which programs start, which the plan takes up. A command
  that arrives before `user_entry` has waited its 300 ticks finds no `imu_server`
  or `motor_server`: `Bluetooth` has that as `ServersUp`.
- Functions nobody calls: `k_intr_timer_arm` (the clock service arms the timer),
  `HT_DEL_BY_KEY` (which does not compile), `util_strtoul`
  (which never moves on from the first digit), and directives no format uses
  (`%hhd`, converted through an unsigned char).

`components` in `PROJECT.json` gives the status of each part.

## Plan

1. Boot and name service: the start-up sequences of the programs under strict
   priorities, name registration and `ns_get().unwrap()`: does any program
   panic because a name is not there yet?
2. Collector programs: the trigger-and-collect protocol of encoder and IMU, and
   the framing of the IMU's messages.
