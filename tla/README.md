# OpenMIPS_KIMWENG_sopc in TLA+

The repository is a MIPS32 system on a chip for a DE2-115 board: a five-stage
CPU written by the author (`src/code/OpenMIPS.v` and the modules it
instantiates), OpenCores peripherals around a Wishbone crossbar
(`src/code/OpenMIPS_KIMWENG_sopc.v`), and a port of uC/OS-II that runs on it
(`src/code/ucosii_OpenMIPS/`). These modules model the CPU and the kernel with
its services and timers, and prove central properties of both; the bus fabric
and the peripherals, published cores used as they are, are inventoried below.

Contents: 1 inventory, 2 modules and how they follow the code, 3 runs and what
they show, 4 proofs, 5 disagreements found, 6 abstractions and limits, 7 what
is not modelled.

## 1. Inventory

### The CPU (`src/code`)

| Part | State | Operations | Hard behaviour | Correct when |
|---|---|---|---|---|
| pipeline: `pc_reg`, `if_id`, `id`, `id_ex`, `ex`, `ex_mem`, `mem`, `mem_wb`, `hazard`, `regfile`, `hilo_reg`, `LLbit_reg` | PC and ce, four pipeline registers, delay-slot flag, step counters of the multi-cycle units, registers, HI/LO, LLbit | one clock edge: advance, stall from IF/ID, EX or MEM, flush, reset | four stall requests in any combination; flush in the middle of a stall, of a bus transaction or of a division; forwarding across stalls of any length; reset while running | it executes the program as the sequential machine does |
| `wishbone_buf_if` (twice) | IDLE / BUSY / WAIT_FOR_STALL, the request registers, `rd_buf` | begin, answered, abort, release, hold, reset | the answer races stall, flush and reset; a kept answer outlives the instruction it was for | one transaction for one access, with its own address, direction and data |
| `cp0_reg` | Status, Cause, EPC, Count, Compare, Config | exception entry, ERET, MTC0, interrupt sampling, timer | exception in a delay slot, in the cycle of an MTC0, nested by EXL | EPC/BD name the instruction to return to; an enabled interrupt is taken |
| arithmetic of `ex` | temporaries and counters in `ex_mem` | sums, compares, traps, shifts, products, multiply-accumulate, division | signed extremes; a loop over cycles that a flush may break | the results of MIPS |
| alignment of `mem` | none | LB .. SWR | lanes of every address and size, unaligned pairs | byte-wise loads and stores |

Data flows forward through the pipeline registers. `hazard` collects the
stall requests (`stallreq_from_mem`, `_ex`, `_id`, `_if`) and the exception
type, and answers with one `stall` vector and a `flush`; EX, MEM and WB forward
results back to ID, EX and MEM. The CPU has two bus masters, instructions and
data, with a `wishbone_buf_if` each.

### The rest of the SoC (`src/code`)

| Part | State | Hard behaviour | Correct when |
|---|---|---|---|
| `wb_conmax_*` crossbar: two masters, four of sixteen slaves in use | a round-robin arbiter per slave | both masters want the SDRAM; a slave port without a slave | answers go to the master that asked; nobody waits for ever |
| `wb2sdrc`, `async_fifo` | command, write and read FIFOs, `pending_read` | two clocks; a read abandoned by a flush | the data of a read is that of its address |
| `sdrc_*` SDRAM controller | request generator, four bank machines, transfer control, refresh counters | refresh against open rows | timing of the banks, no lost request |
| `flash_top` | wait-state counter | access dropped half way | the word of the address |
| `uart_*` 16550 | transmit and receive FIFOs, status and interrupt registers | overrun, read side effects, interrupt priorities | characters in order, each once |
| `gpio_top` | interrupt latch and mask | level and edge | an event is seen until cleared |
| `OpenMIPS_KIMWENG_sopc.v` | none: wires | unconnected `err`/`rty` | every address the software uses is answered |
| `data_ram`, `inst_rom` | memories of the simulation | none | not instantiated by the SoC |

### The software (`src/code/ucosii_OpenMIPS`)

| Part | State | Hard behaviour | Correct when |
|---|---|---|---|
| `ucos/os_core.c` | task control blocks, ready list, wait lists, lock and interrupt nesting | tick and posts between any two critical sections | the highest ready task runs; ready list, wait lists and task states agree; a locked scheduler does not switch |
| `ucos/os_task.c`, `os_time.c` | priorities, delays, suspension | a task created, deleted, moved or resumed while it waits, delays or is about to time out; creation and deletion in several critical sections | no control block or priority is lost; every delay ends |
| `ucos/os_sem.c`, `os_mbox.c`, `os_q.c`, `OSEventPendMulti` | counts, mailboxes, circular buffers, wait lists | timeout, abort, deletion and post race for the same waiter; the type of an object is read before the critical section, a deletion may come between; a task in several wait lists; pointers that wrap from both ends | nothing posted is lost, doubled or overtaken; nobody waits for what is there |
| `ucos/os_flag.c` | flags, list of waiters with a condition each | one post may satisfy several waiters | each of them is woken, with the flags it asked for |
| `ucos/os_mutex.c` | owner and its two priorities | inheritance while the owner is ready, delayed or waiting | bounded inversion; priorities go back |
| `ucos/os_mem.c` | free lists of headers and blocks | creation in two steps | no block lost or given twice |
| `ucos/os_tmr.c` | timers, wheel, free list, time | callbacks relink the list that is walked over; the time wraps | alarms at their time, each once |
| `port/os_cpu_a.S`, `os_cpu_c.c` | saved contexts | which registers are saved; return address in a delay slot | a task cannot tell it was interrupted |
| `common/openmips.c` | one task, the UART | timer and UART initialisation before the first tick | it keeps printing |
| boot loader, image tools | none | none | the image arrives unchanged |

The hazards of all of them, each at the line where it bites and with the
properties that watch it, are in `PROJECT.json`.

## 2. The modules

| Module | Models | Role |
|---|---|---|
| `MipsIsa` | instruction groups, CP0 bits, branch targets (`define.v`, `id.v`) | shared by pipeline and abstract machine |
| `WishboneBufIf` | `wishbone_buf_if.v` | one bus buffer, an instance per bus |
| `OpenMIPS` | the pipeline | composes the stages with two `WishboneBufIf` and the bus |
| `MipsArch` | the programmer's view: what the same lines amount to for one instruction | abstract specification of `OpenMIPS` |
| `OpenMIPS_proofs` | | theorems about `OpenMIPS` |
| `MCOpenMIPS` | | programs for TLC |
| `Execute` | arithmetic of `ex.v`, multi-cycle registers of `ex_mem.v` | with its own integer reference |
| `LoadStore` | lanes of `mem.v` | implements `ByteMemory` |
| `ByteMemory` | byte-wise loads and stores, as an instruction manual has them | abstract specification of `LoadStore` |
| `LoadStore_proofs` | | theorems about `LoadStore` |
| `Execute_proofs` | | theorems about `Execute` |
| `MCExecute`, `MCLoadStore` | | instances for TLC |
| `OsTable` | ready list and wait lists as bit maps (`OSRdyTbl`, `OSEventTbl`, `OSUnMapTbl`) | the data structure below everything |
| `OsCore` | `os_core.c`: control blocks, scheduler, interrupts, tick, start | shared by all services |
| `OsTask` | `os_task.c`, `os_time.c` | extends `OsCore` |
| `OsSem`, `OsMbox`, `OsQ` with `OsRing`, `OsFlag`, `OsMutex`, `OsMem` | the service of that name | each extends `OsCore` |
| `OsMulti` | `OSEventPendMulti` | extends the three services it waits for |
| `Kernel` | | composes all of them; the properties |
| `Channel` | what semaphores, mailboxes, queues and mutexes promise | abstract specification of the events of `Kernel` |
| `Kernel_proofs` | | theorems about the bit maps, the lock and the ring of a queue; the invariant of tasks and lists, what each helper does to it, and that the services of events keep it |
| `KernelLists_proofs` | | every other service, handler and tick keeps it; the theorems about the lists |
| `KernelStocks_proofs` | | the invariant of free lists, counts and flags, and the types of the data; the theorems about them |
| `KernelChannels_proofs` | | the kernel implements `Channel` |
| `MCTasks`, `MCEvents` | | applications for TLC |
| `OsTmr` | `os_tmr.c` | services, wheel and timer task |
| `Alarms` | what timers promise | abstract specification of `OsTmr` |
| `OsTmr_proofs`, `MCTmr` | | theorems about `OsTmr`; instance for TLC |

### OpenMIPS

A step is one rising clock edge. The input pins of the cycle before it are the
record `in`: `rst`, the answer of the instruction bus, the acknowledge of the
data bus and the interrupt line. A combinational signal is an operator over the
registers and `in` and carries the name of its Verilog signal where TLA+
allows it (`Flush`, `Stall`, `StallReqEx`, `HiLoNow`); a register is a variable
or a field of the variable of its stage (`ifid`, `idex`, `exmem`, `memwb`).

`hazard.v` and the reset decide what an edge does, so they give the actions:

| Action | `hazard.v` / reset | What moves |
|---|---|---|
| `ResetCycle` | `rst` | every register takes its reset value, or, where the reset branch of the code forgets it, keeps or loads what the code says |
| `FlushCycle` | an exception type from MEM | bubbles everywhere, PC to the vector or to EPC |
| `MemStallCycle` | stall 5: data bus | only WB drains |
| `ExStallCycle` | stall 4: EX | MEM gets a bubble, the step counter goes on |
| `IdStallCycle` | stall 3: load interlock or fetch | EX gets a bubble |
| `AdvanceCycle` | no stall | everything |

The two buses may answer in any cycle in which they are strobed; the interrupt
line is free in every cycle. The instruction bus returns one of the
instructions `Code[adr]`: a *set* for each address, so that one run covers
many programs. The same word may be read differently on another visit, which
only adds behaviours.

An instruction is one of the groups the decoder and MEM treat alike: `addiu`
for results of EX, `lw sw ll sc` for memory, `bne j jal jr` for transfers,
`madd div mfhi` for the multi-cycle units and HI/LO, `mfc0 mtc0 eret`, and the
exceptions `syscall`, `teq`, `ri`. What the members of a group do to data is in
`Execute` and `LoadStore`.

### MipsArch and the refinement

`MipsArch` executes one instruction in one step, with a delay slot (`pc`,
`npc`, `slot`), and lets an exception or an interrupt happen between two
instructions. The mapping of `OpenMIPS` takes `pc` from the oldest instruction
in flight, `npc` from the one behind it, and the register file, HI/LO, LLbit
and CP0 with the write of the WB stage already performed: an instruction
happens when it moves from MEM to WB. Two facts of the hardware show in the
abstract machine:

- The idle fetch buffer delivers one NOP that carries the reset address, so
  the first instruction is preceded by a NOP at the same address
  (`npc = ResetPC` in `Init`; `Code[ResetPC]` must contain a NOP for
  `FetchBelongsToPc`, as the programs and the theorem assume).
- A store that an interrupt stops may already have been performed
  (section 5); `MipsArch` allows the interrupt step to do that store.

### Execute

One instruction at a time with its two operands, in the cycles it stays in EX.
`Issue` brings it, `Iterate` is a cycle in which EX asks for a stall, `Leave`
is the last one and `Flush` an exception at any moment. Words are numbers of
`Width` bits; complement and shift are arithmetic modulo `2^Width`, so nothing
but the number of steps of a division depends on 32.

### LoadStore and ByteMemory

`LoadStore` has the select lines, the shifted store data and the reassembly of
loads, lane by lane, over a memory that writes the selected lanes of a word;
`ByteMemory` says which bytes go where.
Memory and register start with any contents: the register of a load or a store
is whatever the instructions before it left there. A half word or a word at an
address of
the wrong alignment reads as zero and writes nothing in both, because `mem.v`
raises no address exception.

### Kernel: how state and actions follow the code

The globals of `ucos_ii.h` are the fields of one record `os`, because most
services change several of them and are built from few helpers
(`OS_EventTaskRdy`, `OS_EventTaskWait`, `OS_EventTaskRemoveMulti`, `OS_Sched`);
a helper is an operator from the record before to the record after.

| `os` | Code |
|---|---|
| `tcb[t]`: `prio stat pend dly event multi msg node flagsRdy delReq` | `OS_TCB`; `stat` is the set of bits of `OSTCBStat` |
| `prioTbl`, `rdy`, `list`, `free` | `OSTCBPrioTbl`, `OSRdyGrp`/`OSRdyTbl`, `OSTCBList`, `OSTCBFreeList` |
| `event[e]`: `type cnt pip ptr wait`; `freeEvents`, `freeQs` | `OS_EVENT`, `OSEventFreeList`, `OSQFreeList`; `pip` is the upper byte of `OSEventCnt` of a mutex |
| `flag`, `freeFlags`; `mem` | flag groups; memory partitions |
| `cur`, `prioCur`, `lock`, `running` | `OSTCBCur`, `OSPrioCur`, `OSLockNesting`, `OSRunning` |

One action is one critical section (`OS_ENTER_CRITICAL` .. `OS_EXIT_CRITICAL`).
What the service has left to do afterwards is in `pc[t]` of the calling task: a
call of `OS_Sched`, then what happens when the task runs again (the end of a
pend; the second half of a creation or deletion). Between two actions the tick
or a device may interrupt (`OSIntEnter`), call services and leave through
`OSIntExit`, which may switch. So a task can be interrupted after each critical
section, also between a post and its reschedule, and a woken task sees what
happened to it only when it runs. Arguments a service rejects change nothing
and are guards.

One guard of a service is a step of its own. The services of semaphores,
mailboxes, queues, mutexes and flag groups, and `OSEventPendMulti`, read
`OSEventType` or `OSFlagType` before they disable interrupts, so that another
task may run between this check and the critical section. `OSSem_CheckType`,
`OSMbox_CheckType` and so on put what the task has found into `seen[t]`, and the
critical section needs it there (`Checked`). A task that has checked a mailbox may
do with it whatever a mailbox is for: the check does not say which service made
it, only whether it is a deletion. In a handler nothing comes between.

What a section does to an object that is gone is not modelled: in the code a
post to a freed block overwrites the link of the free list (`os_mbox.c:505`), a
pend enters a wait list that the next creation clears. So the applications
considered keep to a rule, unless `DeletionRaces`: nobody checks for a deletion
what another task is about to use, nor for a use what another is about to
delete (`Clash`). `CheckedIsThere` says that this is enough, in every state: the
type a section relies on is the one its object has. Without the rule it is
violated (run `deleted`).

Which services tasks and handler call, and on which objects, is a *profile*, a
record of `Profiles` chosen in `Init`: an application. The tasks of a profile
call any of its services with any arguments in any order for ever.

`io[e]` is what the last step told its caller about event `e`: put, got,
cleared, nothing. It is the interface of `Channel`, a list of messages and of
messages handed to tasks that have not run yet. `Kernel` maps a semaphore to a
list of signals, a mailbox to at most one message, a queue to `Contents` of its
ring and a mutex to a single token.

### OsTmr and Alarms

`OSTmr_Task` is four actions: the pend with the next spoke, one timer of the
walk, the return of its callback, the end of the walk. The scheduler is locked
during a walk and during a service, so only the callbacks interleave with the
walk. A callback may call any service any number of times on any timer; unless
`CallbackTouchesNext` it spares the one the walk saved as its next (`MayTouch`).
That is a rule for applications, nothing in `os_tmr.c` enforces or states it, and
`stopped` shows what happens without it. `Alarms` has no wheel: an alarm has a number of
ticks left, and time does not go on while one that is due has not gone off.

## 3. The runs

| Run | Checks | States | Shows |
|---|---|---|---|
| `pipeline` | `TypeOK`, `NoStaleData`, `Interlock`, `FetchBelongsToPc`, `EveryAccessServed`, `ArchSpec` | 268,007 | the pipeline implements `MipsArch` for every timing of buses and interrupt |
| `reset` | `NoStaleData`, `ResetDropsInFlight`, `Progress`, `InterruptTaken` | 16,286 | a reset in any cycle leaves nothing in flight; no deadlock among buffers, EX and interlock, and a pending enabled interrupt is taken, after resets too |
| `execute` | `TypeOK`, `DivisionLoop`, `ArithmeticResult`, `DivisionResult` | 17,569 | every operation on every pair of 4-bit operands |
| `loadstore` | `TypeOK`, `EachAccess`, `UnalignedWord`, `ByteSpec` | 4,096 | every load and store at every address of two words |
| `tasks` | `TypeOK`, `TablesOK`, `ReadyAgrees`, `WaitersAgree`, `HighestRuns`, `NothingLost`, `LockHeld`, `DelayEnds` | 111,193 | tasks that suspend, move, create and delete each other under the tick and a device |
| `events` | `CheckedIsThere`, `ReadyAgrees`, `WaitersAgree`, `AvailableMeansNoWaiter`, `FlagsGranted`, `Inheritance`, `NothingLost`, `ChannelSpec` | 257,963 | every kind of object, with timeouts, aborts and deletions, the latter of objects no other task has checked |
| `timers` | `TypeOK`, `LinksOK`, `WheelOK`, `AlarmsSpec`, `WalkEnds` | 205,752 | the wheel implements `Alarms` if callbacks leave the next timer of the walk alone |
| `store` | `ExceptionCancelsStore` | violated | section 5 |
| `restart` | `NoExceptionBeforeFetch` | violated | section 5 |
| `woken` | `ListedWait` | violated | section 5 |
| `deleted` | `CheckedIsThere` | violated | section 5 |
| `stopped` | `StoppedStaysOff` | violated | section 5 |

Every property of a passing run is accompanied in `PROJECT.json` by a mutation
of a modelled definition that makes the run fail.

### Properties

- `NoStaleData`: `wishbone_buf_if` answers in WAIT_FOR_STALL from `rd_buf`
  without looking at the request. No memory access is ever in MEM then.
- `Interlock` says why, and is the surprise of this design: a fetch takes at
  least two cycles (a request in IDLE and an answer in BUSY, both of which
  stall), so two instructions are at least two cycles apart and a memory
  instruction in MEM always has a bubble behind it. The load-use interlock
  (`load_dep` of `id.v`), the forwarding from EX to ID and the forwarding of
  Status and EPC from WB therefore never matter with this bus; they would with
  an instruction cache or a prefetching buffer, and so would the hazard
  `NoStaleData` excludes.
- `EveryAccessServed`: a load or store leaves MEM only in the cycle in which a
  transaction with its direction and data is answered.
- `FetchBelongsToPc`: the PC holds a branch target only as long as the stall
  lasts, and the fetch buffer keeps a word across stalls and flushes; the word
  ID decodes is still one of the address it carries for EPC.
- `ArchSpec`: the refinement of section 2. It catches forwarding, squashing,
  delay slot, EPC/BD and LLbit mistakes at once.
- `ResetDropsInFlight`: between a reset and the first fetch no register and no
  memory word is written, although `id_ex` leaves two fields alone.
- `DivisionLoop`: the loop invariant of the restoring division, across flushes.
- `DivisionResult`: what the division of the code yields, exactly; see 5.
- `EachAccess`: every load and store does what `ByteMemory` says of that very
  instruction; `ByteSpec` says it of sequences, where LB could pass for LBU.
- `UnalignedWord`: SWL/SWR followed by LWL/LWR moves the four bytes at any
  address, over a word boundary or within one word.

- `CheckedIsThere`: what a task checked before its critical section is still of
  that type when the section comes, in the runs and proofs that keep the rule of
  section 2. Everything below about events and flags rests on it: it is why the
  guards of the sections exclude no behaviour.
- `ReadyAgrees`: the ready list holds exactly the tasks that have no reason to
  wait: not suspended, no delay, no unanswered pend. Five services and the tick
  end one reason each and must look at the others.
- `WaitersAgree`: a wait list holds the tasks that wait, and those that timed
  out and have not run to take themselves off it; a post must not be given to
  anybody else. (A post *is* given to a task that timed out and has not run,
  which then returns without a timeout: nothing is lost.)
- `TablesOK`: the two levels of each bit map agree.
- `HighestRuns`: between two services the highest ready task runs and
  `OSPrioCur` is right: no reschedule is forgotten.
- `NothingLost`: control blocks, priorities, queues, flag groups, partitions
  and blocks are free, in use or in the hands of a creation, and only one of
  these, in every window between the halves of a creation or of the deletion of a
  task. The deletion of an object is one section; that nobody uses the object
  after it is the rule, not a result.
- `LockHeld`: nothing takes the CPU from the task that locked the scheduler.
- `DelayEnds`: each delay and timeout ends.
- `AvailableMeansNoWaiter`: nobody waits for a count, message, mutex or flags
  that are there.
- `FlagsGranted`: who is woken got the flags it asked for, all if all.
- `Inheritance`: an owner runs at least at the priority of each waiter, at its
  own priority or at `pip`, and without a mutex at its own.
- `ChannelSpec`: the events implement `Channel`: what is posted is received
  once and in order (or front first), by a task that asked for it, also where
  post, timeout, abort and flush meet, and where a deletion wakes the tasks that
  wait. A deletion between the check and the section of a post is excluded.
- `LinksOK`: the lists of the wheel lead back as they lead forward, and the
  walk goes on in the spoke it began in. `WheelOK`: the lists are complete,
  end, and the counts are right. `AlarmsSpec`: no expiry is missed, late or
  doubled, where `OSTmrTime` wraps too. `WalkEnds`: each walk ends. All of them
  hold of callbacks that start, stop, delete and create any timer but the one the
  walk saved as its next; of others none of them holds.

### Bounds

- `pipeline`: 32 addresses and word values, registers 0 to 2, reset at 9,
  vectors at 1 and 4 (in the hardware: 0x20 for interrupts, 0x40 for the
  others), 2 stall cycles for a division instead of 31. Program A (addresses
  13-18) is a loop with interrupts enabled, a store, a trap, LL/SC, a division
  and a system call in delay-slot, branch and straight-line positions. Program
  B (20-28) chains producers and consumers of every pair of kinds at distances
  one to three. All stall lengths occur because the answers are free; the
  division counter is compared with its last value only, so that 2 and 31 do
  not differ in kind.
- `reset`, `store`, `restart`: one loop with an exception handler, a
  division, LL/SC, a multiply-accumulate and a branch (`SmallCode`), because
  resets and liveness multiply the states.
- `execute`: `Width = 4` has all sign combinations, the smallest integer,
  every alignment of quotient and remainder, and six accumulator values at the
  extremes of HI/LO.
- `loadstore`: two words contain each alignment and each crossing of a word;
  the byte values 0 and 255 tell lanes and sign extension apart.

- `tasks`: two tasks, the idle task and one semaphore (`OS_SEM_MAX` 1), four
  priorities in two rows of two, so that a task can move within a row and to
  another, delays of up to two ticks. Three profiles: `Suspending` (with
  `OSTimeDlyResume` from the device), `Prioritising` (with the scheduler lock,
  `maxLock` 1) and `Creating` (creation with one free control block or none,
  requests, deletion of oneself and the other).
- `events`: up to three tasks, so that two wait while one owns or posts; six
  priorities in three rows; two events; queues of two messages of two values
  (symmetric), which wrap after two posts; two flags, which tell all from any;
  two memory blocks. Eleven profiles, one to three for each kind of object; the
  services a profile gives to the handler are those the code allows there.
- `timers`: three timers on two spokes, times modulo 4: two timers in one
  spoke at different match times, a list with a middle, time and match wrap.
  A one-shot timer of one tick and a periodic one with another first delay.
- `woken`: the profile `Prioritising` with `PrioChangeOfWoken`. `deleted`: the
  profiles of `MCDeleted` with `DeletionRaces`. `stopped`: the instance of
  `timers` with `CallbackTouchesNext`.

Caps that the code has as much larger numbers: `OS_SEM_MAX` (65535), `maxLock`
(255), `SignalMax` (65535), `TimeRange` (2^32). All other variables are finite
by the code.

### Fairness

`FairSpec` assumes weak fairness of `Next` (the clock runs) and, for each bus,
that a request that is kept up is answered in the end. That is what the slaves
of this SoC do with a request they can decode: the flash controller counts a
fixed number of cycles, the SDRAM bridge acknowledges when the controller has
answered. Nothing is assumed about instructions or interrupts.
Weak fairness is enough: `wishbone_buf_if` holds the strobe until the answer
unless a flush or a reset drops the request; `Progress` counts both. An address
without a slave is never answered (hazard at `OpenMIPS_KIMWENG_sopc.v:292`)
and is outside this assumption.

In `tasks` the tick is taken again and again (strong fairness, since it can
only enter between two handlers) and each handler ends: the timer of CP0 runs
on, its request stays pending while another handler runs, and the kernel never
leaves interrupts masked. Nothing is assumed of the tasks. In `timers` signals
keep coming and the timer task makes its steps, weakly fair: it has almost the
highest priority and its callbacks return.

## 4. Proofs

`OpenMIPS_proofs` proves, for every program, word size, number of registers and
division latency, and (but for the last one) with a reset in any cycle:

| Theorem | States |
|---|---|
| `TypeCorrect` | `Spec => []TypeOK` |
| `InterlockHolds` | `Spec => []Interlock` |
| `NoStaleDataHolds` | `Spec => []NoStaleData` |
| `EveryAccessServedHolds` | `Spec => EveryAccessServed` |
| `ResetDropsInFlightHolds` | `Spec => ResetDropsInFlight` |
| `FetchBelongsToPcHolds` | `Spec => []FetchBelongsToPc`, for `WarmReset = FALSE` and `Nop \in Code[ResetPC]` |

`TypeOK` is inductive with the range of the inputs. `NoStaleData` is not: a
memory instruction in EX could move into MEM while the data buffer waits.
`Interlock` is the strengthening; it relates three registers that no single
assignment keeps in step: the operation in MEM, the operation in EX and the
states of both buffers. Its proof has one step for each action and looks at the
buffer transition that goes with it: in `AdvanceCycle` no stall request is up,
so the instruction buffer answers and returns to IDLE, which is what the
second conjunct wants of the instruction that enters EX. `EveryAccessServed`
follows from it, since only a BUSY buffer lets a memory instruction go.
`ResetDropsInFlight` uses the invariant `Dropped` (`~ce` means an empty WB and
an idle data buffer). `FetchBelongsToPc` is strengthened to `FetchInv`, which
adds what holds while the buffer is IDLE and before the first fetch. A reset
of a running CPU breaks it: `pc_reg` resets the PC only a cycle later, and the
NOP the idle buffer hands over is tagged with the old one.

`LoadStore_proofs` proves, for memories of any size and any set of byte values:

| Theorem | States |
|---|---|
| `TypeCorrect` | `Spec => []TypeOK` |
| `EachAccessHolds` | `Spec => []EachAccess`: each instruction does what `ByteMemory` says of it |
| `BytesImplemented` | `Spec => Bytes!Spec`: the lanes implement `ByteMemory` |
| `UnalignedWordHolds` | `Spec => []UnalignedWord` |

The refinement rests on two lemmas about each instruction group, what lanes a
store selects with which bytes (`StoreLanes`) and what a load assembles, and on
lemmas that relate a byte address to its word and lane.

`Kernel_proofs` proves, for any number of tasks, priorities, objects, messages
and any set of applications that delete nothing another task has checked
(`~DeletionRaces`):

| Theorem | States |
|---|---|
| `TablesHold` | `Spec => []TablesOK` |
| `LockIsHeld` | `Spec => LockHeld` |

Each service is a composition of helpers, so the proof has one lemma for each
helper (`Keeps`: it leaves the tables consistent and the running task alone)
and one for each service (`Serves`), which names the records in between and
chains the lemmas. Only `Switch` and `OSStart` choose another task. The
inductive invariant `KInv` adds to the tables that before `OSStart` no handler
runs and nothing is locked; without it `OSStart` could take the CPU from a task
that holds the lock. That `LockHeld` follows needs the fact that `Switch` is
the identity while the lock is held.

`OsTmr_proofs` proves, for any number of timers and spokes, any settings and
any range of the time:

| Theorem | States |
|---|---|
| `TypeCorrect` | `Spec => []TypeOK` |
| `LinksHold` | `Spec => []LinksOK` |
| `NoCircle` | `Spec => []Ranked(Mem)`: no list runs in a circle |
| `WheelHolds` | `Spec => []WheelOK` |
| `AlarmsImplemented` | `Spec => AlarmsSpec` |

All five assume `~CallbackTouchesNext`: callbacks leave the next timer of the
walk alone. Neither `LinksOK` nor `Ranked(Mem)` is inductive alone. Intact links do not exclude a
circle beside the list, and unlinking one of two timers that form one leaves a
timer that is its own successor, the next of the walk; so the invariant
contains a ranking of the running timers along the links. Linking at the head
gives the new timer a rank below the first one, unlinking keeps all ranks.

`WheelHolds` and `AlarmsImplemented` follow from the stronger `WInv`. Its ranks
order every list completely (`Sorted`: the head has the lowest rank of the
timers that belong to the list, and the link of a timer leads to the next rank
among them), so that a list that is followed from its head meets every timer
that belongs to it and no other, and ends (`SortedChain`). `Chain` is a recursive
function; that it has a value at every step is proved by a least counterexample
(`Least`, `PathExists`), and so are the inductions along it (`Induct`). `Counts`
relates `used` and the entries of the spokes to these sets, and `Settled` says
that a timer that exists has a setting a service may give it. `Ahead` is why no
alarm is missed: a running timer whose match time is now has a rank no lower
than the timer the walk looks at next, and there is none outside a walk. A timer
that is linked is due in 1 to `TimeRange - 1` ticks (`LinkSoon`), never in the
tick that goes on, which is why one that is started again under the walk does
not go off twice; and a tick takes exactly one of the ticks left, also where
the time wraps (`OneTick`). Each service and each step of the task is then one
step of `Alarms` or none (`DelStep` to `WalkStep`).

`Kernel_proofs` also proves about the buffer of a queue, for every size and
contents, that `NewRing` and `Flush` are empty, that `Enqueue` appends,
`EnqueueFront` prepends and `Dequeue` takes the first, with respect to
`Contents`, and that each keeps `RingOK`: in, out and number of entries belong
together wherever the pointers wrap.

`KernelLists_proofs`, with the second half of `Kernel_proofs`, proves, for any
number of tasks, priorities, objects and messages, and for every application that
keeps to the rules of the services (`Supported`), uses no mutexes and deletes
nothing that another task has checked:

| Theorem | States |
|---|---|
| `ReadyListAgrees` | `Spec => []ReadyAgrees` |
| `WaitListsAgree` | `Spec => []WaitersAgree` |
| `HighestPriorityRuns` | `Spec => []HighestRuns` |

None of the three is inductive, nor are they together: whether a tick may make a
task ready depends on what its control block says about its wait, that on what
the task will do when it runs again, that on the object still being of the kind
it pended on, and all of it on a control block being in the hands of one task
only. The inductive invariant `TInv` says these things part by part:

- `Data`: the shape of the record.
- `Core`: each task of `Live` is where its control block and the rest of its
  service (`pc`) say (`TaskOK`, with `Local` for the control block alone), and
  nobody else is in a table. A table is seen as the set of its members.
- `Lists`: the control blocks in use, `OSTCBPrioTbl`, and the task that is being
  deleted in the window of `OS_Dummy`.
- `Creations`: the control blocks and priorities in the hands of a creation, and
  the free ones.
- `Pools`: free event blocks and flag groups are unused, one task fills one.
- `Running`: the running task is ready unless it stops itself, and unless a
  reschedule is due it has the highest ready priority.

The proof goes from the helpers outwards. `Kernel_proofs` shows what each
helper does to the lists (`Elsewhere`: it changes the waits of the tasks `S` and
nothing about the others) and that the tasks it touches satisfy `TaskOK` again.
A service is then one of a few shapes: it changes waits only (`ShortServed` and
its kin), only who runs (`SwitchKept`), only what is outside the tables
(`OutsideServed`), or it creates, deletes or moves a task, which has its own
lemma. One lemma per action, put together in `StepKept`.

The hypotheses are
- `Ruled`: every application is `Supported` and has no mutexes. `Supported` asks
  for tasks of different priorities, objects as the creation services leave them,
  no `OSTaskChangePrio` in a handler, and none of `OSTaskSuspend`, `OSSemDel`,
  `OSMboxDel` and `OSQDel` next to `OSEventPendMulti` (section 6 says why). TLC evaluates it for the profiles of both passing runs
  (`ProfilesSupported`).
- `~PrioChangeOfWoken`, without which `WaitersAgree` is false (run `woken`).
- `~DeletionRaces`: no object is deleted that another task has checked (run
  `deleted`). `CheckedStays` below shows that under it the guards on the type of an
  object exclude nothing. `TablesHold` and `LockIsHeld` have this hypothesis too: it
  is the only one they need.

`KernelStocks_proofs` proves, under the same hypotheses:

| Theorem | States |
|---|---|
| `NothingIsLost` | `Spec => []NothingLost` |
| `FlagsAreGranted` | `Spec => []FlagsGranted` |
| `AvailableIsTaken` | `Spec => []AvailableMeansNoWaiter`, if `OnePolarity` |
| `CheckedStays` | `Spec => []CheckedIsThere` |

`TInv` says that what is in a free list is free; the converse, that what is free
is in its list or in the hands of one creation, is the invariant `Books`. It adds
that headers, partitions and creations of partitions add up and that every
partition is in order (`PartOK`), that an event that has something has no
waiters (`NoneWaits`), that a task that waits for flags and has left its list
has flags as its condition wants them (`FlagsKept`), and that nobody in the list
of a group has its condition met (`NobodyServed`). A step either changes none of
these stocks (`BooksKeep`; most services, by `Inert`: they change waits, delays
and the ready list only) or has its own lemma. `OnePolarity` says that the
conditions of an application all ask for set flags or all for clear ones; it is
needed: `OSFlagPend` and `OSFlagAccept` consume flags without looking for tasks
that wait for the opposite (section 6), and TLC finds such a task waiting for
what is there. `FlagsGranted` speaks of tasks that are not being deleted:
`OSTaskDel` takes a task off its group without clearing the flags it got in an
earlier wait.

For `CheckedStays` every lemma of a service shows, beside `Books`, that the type
of an event or a group changes only from `UNUSED`, when a creation takes it, or in
the section of a deletion that its task has checked (`TypesStay`). A section uses
up what its task has checked and no other step touches it (`SeenKept`, part of
what `Kernel_proofs` says of every service). `SeenOK` adds that nobody has checked
for a deletion what another task has checked: then the type of what another task
has checked stays.

It also proves, under the same hypotheses:

| Theorem | States |
|---|---|
| `DataIsTyped` | `Spec => []TypeOK` |

What a count, a mailbox or a queue holds passes through control blocks and
buffers: a task that is woken gets its message from the one that posts, and it
reads it when it runs again. The invariant is `TInv` with `KInv` (which also says
that the control blocks and `OSTCBPrioTbl` are arrays), `Typed` and `AtRest`.
`Typed` has the control blocks, what each event has (a count within
`OS_SEM_MAX`, a message, a queue whose in and out pointers and number of entries
agree, `RingOK`) and the flags of each group; `TInv` is what makes it inductive:
a delay is counted down only if it is not zero, a message is stored only in an
object that is of the right kind still, and a priority is looked up only of a
task that has one. `AtRest` has the interrupt handler and the current priority
before `OSStart`. As in the other modules of the kernel, there is a lemma per
service and one per helper that changes a control block.

`KernelChannels_proofs` proves, under the same hypotheses:

| Theorem | States |
|---|---|
| `ChannelImplemented` | `Spec => ChannelSpec` |

What is stored is read off the event block; what is handed out is nowhere in the
code: a message that a post gives to a waiting task is in the control block of
that task until it runs again, and counts as handed out by the event for just as
long. `Taker(t, e)` says so of task `t` and event `e`: its rest of a service pends on
`e`, it is no longer waiting, its wait ended well, and, if it waits for several
events, `e` is the one that was posted. `Hand(e)` counts the takers of each
message. Every step is then told by what it does to the takers: most leave each
of them alone (`HoldsAll`); a post makes the tasks it wakes takers, all with its
message (`WakeDelivers`, by `HandMore`); a task that returns takes its message
with it (`BackDelivers`, by `HandLess`); the tasks that the deletion of an event
wakes get no message but are takers (`DeleteDelivers`, by `HandGrown`); a task that
is deleted drops what it was given (`HandShrunk`). `Channel` refuses a message that overtakes a stored one, so a post
may only wake when nothing is stored: that is `NoneWaits` of `Books`, and the
buffer of a queue is read by the theorems on `Contents`. A semaphore hands out
empty messages, which `OSSemPend` does not look at; `SignalOnly` says that the
control block holds none either when the task returns. The invariant is `KInv`,
`Inv`, `Books`, `Typed` and `SignalOnly`. The theorem covers semaphores,
mailboxes and queues with timeouts, aborts, suspensions, interrupts between the
halves of a service and the deletion of objects tasks wait for, and
`OSEventPendMulti` with all of these but suspensions and deletions; not an object
that is deleted between the check of a service and its section, and not mutexes,
which `Ruled` excludes.

`Execute_proofs` proves, for words of any width:

| Theorem | States |
|---|---|
| `TypeCorrect` | `Spec => []TypeOK` |
| `DivisionLoopHolds` | `Spec => []DivisionLoop` |
| `DivisionResultHolds` | `Spec => []DivisionResult` |
| `ArithmeticResultHolds` | `Spec => []ArithmeticResult` |

Powers of two are the sizes of the sets of subsets, whose laws the library has.
Its induction theorems take an operator as a parameter, which the provers cannot
instantiate; what an induction would show of the bits of a word is shown with a
least counterexample (`Least`, from the well-foundedness of the numbers). The loop invariant `Loop` relates quotient,
partial remainder and the bits of the dividend not yet used: it holds at the
start, is kept by each step (`LoopStep`) and gives the result of the division at
the end (`LoopEnd`), whose last comparison is the `>` of the code. The two known
defects (section 5) are excluded by `KnownDefect`, as in the run.

The assumptions are those of the modules (`WordsAssumption`, `RegAssumption`,
`CodeAssumption`, `DivAssumption`, `ResetAssumption`, `ByteAssumption`,
`MemAssumption`; in `Execute` `WidthAssumption`, `HiLoAssumption`; in the kernel
`WidthAssumption`, `RowsAssumption`, `ProfilesAssumption`, `SizesAssumption`,
`NullAssumption`, `NodeAssumption`, `BlocksAssumption`, `TimeoutsAssumption`,
`ClocksAssumption`, `CountAssumption`, `QueueAssumption`; in `OsTmr` `WheelAssumption`,
`SettingsAssumption`, `NullAssumption`, `SignalAssumption`): constants of the
right kind, `0` and `255` among the bytes, wait lists that are empty at the
start, a null pointer that is none of the things pointed to (in `OsTmr`, where it
also stands for "not set", no setting and no number of ticks either), a range of the time
that is a multiple of the number of spokes; timeouts and clock
settings that are numbers (the code has them unsigned), at least one tick a
second, and queues of at least one message (`OSQCreate` does not check its
`size`; a queue of size 0 would always be full, its pointers just behind the buffer).

Only model-checked: `Progress`, `InterruptTaken`, `DelayEnds` and `WalkEnds`
(liveness is outside the prover); `ArchSpec`; `Inheritance` and everything the
kernel does with mutexes, their part of `ChannelSpec` included, beyond the
tables and the lock.

## 5. Disagreements between the code and what it says

- **Stores and interrupts** (run `store`). `mem.v:486` cancels `mem_we_o` when
  an exception is taken, "if excepttype_i has a "one", cancel the mem_we". The
  bus, however, is driven by the registers `wishbone_buf_if` loaded when the
  store began. When the answer arrives in the cycle of the interrupt, the store
  has been performed, and EPC makes it run again after ERET. Harmless for
  memory, not for a device register.
- **Reset of a running CPU** (run `restart`). `id_ex.v:49` resets neither
  `ex_current_inst_addr` nor `ex_excepttype`. An instruction in EX with an
  exception survives the reset with its address, and MEM takes it in the first
  cycle after it. The guard of `mem.v:468`, a non-zero address, is there to
  prevent just that ("wait for new first inst").
- **Division** (`DivisionResult` in run `execute`). The last step compares with
  `>` where the others, and the algorithm kept as a comment at `ex.v:249`, compare with `>=`.
  A dividend that is an odd multiple of the divisor gets a quotient that is one
  too small and a remainder equal to the divisor: 1/1 = 0 remainder 1.
  `DivisionResult` states it, and that it is the *only* deviation.

- **Priority change of a woken task** (run `woken`). A post takes the waiter out
  of the wait list but leaves `OSTCBEventPtr` set until the task runs.
  `OSTaskChangePrio` (`os_task.c:126`) takes that pointer as a sign that the task
  waits and puts its new priority into the wait list: the next post goes to a
  task that does not wait, and is lost. `ucos_ii.h:357` calls the list "List of
  tasks waiting for event to occur". The shortest case has eight states: a task
  pends, the other one locks the scheduler, posts and changes its priority. The
  other runs exclude the case with `PrioChangeOfWoken = FALSE`.
- **Deletion between check and use** (run `deleted`). `OSMboxPost` reads the type
  (`os_mbox.c:490`; likewise all services of events and flags) with interrupts on,
  and `os_mbox.c:464` promises `OS_ERR_EVENT_TYPE` to who posts "to a non mailbox".
  If a task of higher priority becomes ready there and deletes the mailbox, the post goes on in a block of the free list, whose
  link it overwrites with the message; a pend starts to wait on a block that the
  next creation takes and clears, and a second deletion frees the block twice.
  The other runs exclude the case with `DeletionRaces = FALSE`.
- **Deletion of one of several events** (no run). A task that waits in
  `OSEventPendMulti` is woken by `OSSemDel` with `OS_DEL_ALWAYS` as by a post. It
  then finds the type `OS_EVENT_TYPE_UNUSED` and returns `OS_ERR_EVENT_TYPE`
  (`os_core.c:521`) before the lines that clear `OSTCBStat` and the event pointers:
  it runs on with a status that says it waits ("Set   task  status to ready",
  `os_core.c:542`, is never reached). The model has that return,
  and `Supported` excludes the case.
- **A stopped timer goes off** (run `stopped`). `OSTmr_Task` saves the next timer
  before it calls a callback (`os_tmr.c:1053`). If two timers of a spoke are due and
  the callback of the first stops the second, `OSTmrStop` unlinks it and says it is
  stopped, and the walk goes on with it: its match time is now, it is unlinked a
  second time through null pointers and its callback is called. The other
  run excludes the case with `CallbackTouchesNext = FALSE`.

Met while modelling and kept out of `ArithmeticResult` by `KnownDefect`: SUB of
the smallest integer tests overflow on the negated operand, which does not
exist (`ex.v:179-190`); SLLV, SRLV and SRAV pass the whole register as shift
amount (`id.v:328-362`), so that amounts of 32 and more give 0 (SRAV: without
its sign) instead of being reduced modulo 32. The correction of CLO, where two
bits of the cascade are swapped (`ex.v:374-375`), is left out with the bit-wise
operations.

## 6. Abstractions and limits

- Programs: address 0 marks a bubble for `mem.v` and is never reached; no
  branch in a delay slot; only NOP names `$0` as destination, because the
  forwarding of `id.v` does not exclude it (a hazard without a property);
  the interrupt mask is all ones.
- Data memory is one word behind the bus; addresses and lanes are in
  `LoadStore`. `rd_buf` is taken as zero while the buffer is IDLE, where
  nothing reads it.
- HI and LO are one word in the pipeline; a product or quotient there is any
  function of the operands that tells them apart (`MulAdd`, `Quotient`).
- CP0: Status.IE and EXL, EPC, Cause.BD and the pending line. Count, Compare,
  the exception code and the software interrupts are not modelled.
- `LLbit_reg` has a flush input that `OpenMIPS.v:804` ties to 0; an exception
  leaves the link bit, in the model as in the code.
- `annul_i` of the divider is tied to 0 and left out. The bitwise operations,
  CLZ and CLO are left out of `Execute`.

Kernel:

- One priority change, suspension or deletion can meet a task in a state the
  code does not handle; the profiles and guards keep to what it supports:
  a task deletes, suspends or moves itself only with the scheduler unlocked;
  nobody suspends, resumes or moves a task that is being deleted (in the window
  of `OS_Dummy`), or deletes one that is creating or deleting; a task with a
  mutex waits for nothing but time (`os_mutex.c:408`) and is not suspended,
  moved or deleted by others; a mutex that is owned is deleted by its owner.
- `OSTaskResume` after `OSEventPendMulti` finds bits of `OSTCBStat` the wake-up
  leaves set, and a deletion of an event with `OS_DEL_ALWAYS` leaves status and
  event pointers of its multi-waiters set: suspension and deletion
  are not in a supported profile with `OSEventPendMulti`.
- A priority change in a handler is not in a profile (`Supported`): between the
  critical section in which a running task changes its own priority, or deletes
  itself, and its call of `OS_Sched`, `OSPrioCur` is a priority nobody has; if a
  handler gave it to a task, `OSIntExit` would see no reason to switch.
- A flag group has waiters for set flags or for clear flags in a profile, not
  for both: a task that consumes flags can make the condition of the other kind
  true and wakes nobody.
- `HighestRuns` excepts profiles that post with `OS_POST_OPT_NO_SCHED` and those
  that release mutexes: `OSMutexPost` (`os_mutex.c:620`) lowers an owner that was
  boosted and, if the waiter has timed out meanwhile, returns without a
  reschedule. `OSMutexDel` lowers a boosted owner in the same way.
- `OSMutexAccept` may give a task a second mutex, in the code as in the model;
  a task that owns one calls no `OSMutexPend`.
- An object is not deleted while another task is between its check and its
  section (run `deleted`). `OSTCBList` and the list of a flag group are sets.
- Handlers do not nest, as in the port, whose handler runs with interrupts
  masked until ERET. `OSTime`, the statistics task, tick stepping, hooks, stacks,
  names and queries are left out.
- Timers: a callback does not delete, start or stop the timer the walk goes on
  with (run `stopped`); settings without a first delay and period do not occur; the numbers of
  the spokes divide the range of the time, as with 2^32 and a power of two.
  `OSTimeTickHook` of the port is empty, so `OSTmrSignal` is the application's.

## 7. Not modelled

- Crossbar, SDRAM controller, UART and GPIO are OpenCores projects used as
  published; the flash controller has a fixed latency. The CPU model covers any
  answer time of a bus, which is all of them it depends on, and assumes that
  each access is answered.
- `wb2sdrc` with its FIFOs between two unrelated clocks would need a model of
  two clock domains; nothing else of the project shares it. Its hazards stay in
  the list without a property.
- `port/os_cpu_a.S`: which registers an interrupt saves (`os_cpu_a.S:573`) and
  where it returns (`:688`). A task of the kernel model has no registers and one
  of the CPU model no context switch; the two are not composed.
- `common/openmips.c` is one task without shared state. The boot loader copies
  words. The simulation memories are not instantiated, the image tools keep no
  state.
