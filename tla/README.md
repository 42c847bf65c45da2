# A TLA+ model of Best-kernel

Best-kernel is a small x86-64 kernel for several processors, written in a
C++-like notation (much of it is not accepted by a compiler as it stands). This
directory models the parts of it whose correctness depends on the order in which
processors, interrupts and callers take their steps. The modules follow the code
line by line, defects included; where a comment of the code claims more than the code
does, a run shows the counterexample. One thing is idealised: a lock is taken as the
atomic step it is meant to be (find 0, leave 255), while the loop of `mutex()` as
written is never left (`mutex_asm`). A `mutex()` that does not return only takes
behaviours away, so the safety properties hold of the code as it stands and of the code
with that loop repaired; that a lock comes back, or that anyone who waits gets it, does
not follow, and no run claims it.

## The system

| Part | State | Operations | Talks to |
|---|---|---|---|
| Object pools (`kontrol.h`) | marks (`ckarray`), `length`, `count`, the lock byte `calendar` | `alloc`, `free`, `realloc`, growth | everything; growth asks the pointer pool |
| Lock (`mutex`, `kontrol.h`) | one byte | spin on a compare-and-exchange | every pool, device, process, thread |
| PCI configuration access (`drivers/pci.cpp`) | the address latch at 0xcf8, the registers behind 0xcfc, the PciKing's `calendar` | `write`, `read`; `boot_write`, `boot_read` without the lock | device drivers, enumeration |
| PCI enumeration (`drivers/pci.cpp`) | the device directory, presence marks | `enumerate_devices`, `load_all_devices`, BAR sizing | drivers, VFS, IO APIC |
| Ring entry and exit, sleep and wake (`runtime/sched`, `drivers/interrupts.cpp`) | per processor: task priority (cr8), interrupt flag, pending and in-service vectors, stack backup (cr1), saved priority (cr7) | `enter_ringzero`, `leave_ringzero`, `highprio_halt`, `halt`, `wake`, `brothers_poke` | local APIC, scheduler |
| Scheduler (`runtime/sched/sched.cpp`) | `current_thread`, `taken`, the thread pool's lock | `routine`, `getnext_thread`, `run_thread`, `reenact_io` | pools, signals, memory |
| Signals (`irhandlers.cpp`, `sched.cpp`) | `sigset`, `sigmask`, the override stack of 16 handlers | `signal_issuer`, `signal_handler_return`, `check_signals`, the signal syscalls | scheduler, life cycle |
| Life cycle (`SYSTHREAD`, `SYSEXEC`, `KILL.cpp`) | processes, threads, their segments | `exec`, `thread`, `TKILL`, `PKILL`, `BLOOD_LIBEL` | pools, memory, VFS |
| Memory manager (`runtime/mem/core.h`) | the bitmap of physical pages, page tables, `used_memory` | `malloc`, mapping, faults, swap | VFS, life cycle |
| VFS (`runtime/vfs/core.h`) | files, descriptors, listeners and openers | open, close, map, remove, write-back | disks, memory |
| Disks (`nonvolatile_storage/README.cpp`) | partitions | `disk_request` | drivers through `ioctl` |
| Modules (`SYS_MOD*`) | drivers, quirks, the removal stack | insert, control, remove | life cycle, enumeration |
| Start-up (`init/`) | the boot hand-shake over IPIs, tables | `initialize_brothers`, `setup_kernel` | all |
| ACPI, PS/2, time, polling, logging | small or none | | |

What is hard here: every processor runs kernel code at once; a lock is a byte that
is given back by a plain store; interrupts come in while kernel code is entered or
left; sleep requests are sent and nobody waits for them to be obeyed; sections of a
pool are freed without its lock. For each part the properties that make it correct:

- pools: what is handed out is not handed out again; reserved entries stay
  reserved; `count` agrees with what is out;
- configuration access: each element is one access to the register it names;
- sleep and wake: nobody is stopped while it holds a lock, a sleeper is woken, one
  processor at a time enumerates;
- threads and signals: a thread runs on one processor; a handler runs once and the
  interrupted context survives it;
- memory: a page has one owner; a lock survives every early return;
- VFS: listeners and openers agree with the maps and descriptors that exist.

`PROJECT.json` lists each hazard with its line and the property that covers it.

## Modules

**PciRegisters** is the abstract specification: atomic registers. A call is a
device, arrays of offsets and values and a count; its elements are applied in
order, each in one step. **PciConfig** is the code of `PciKing::write` and
`read`: `Call` (the driver), `StreamInit` (the lock), `OutAddress` (0xcf8),
`OutData` / `InData` (0xcfc) and `Release` (`calendar = 0`). The registers are
those the drivers name; `Latch` is what the device makes of a write, a parameter
because it is hardware. The refinement `AtomicRegisters` is by the identity
mapping: lock, latch and program counter are what the code adds.

**Pool** is `Hash` and `King`. A caller goes through the lock (`StreamInit`), the
scan for a streak of unmarked slots (`Scan`, `StreakEnds`), the two halves of
`count += g` (`LoadCount`, `StoreAdd`) and `Unlock`; `free` clears marks
(`Clear`) and does the two halves of `count -= length` without the lock; `realloc`
takes a backup (`Backup`, which may fail), frees and allocates inside one lock
section. Sections of none can be asked for, freed and reallocated. Four kinds of pool
differ: the GDT has reserved entries, the pointer pool is used through `kptralloc`
(asks for one slot, frees many), a `DOUBLE_POINTER` pool grows, and a pool of objects
has elements wider than a pointer. A section is kept as the index at which `free` and
its user find it. `Index` is the conversion: `alloc` returns the address `i` pointers
from the start of the pool, which is element `i \div Width`; growth shifts it when the
new pool lies elsewhere. **MCPool** adds the symmetry set.

**MutexAsm** is the lock's inline assembly, one instruction per step.

**Brothers** is the way into and out of ring 0 and the sleep and wake of
processors. `pc` is `user`; `entry` and `irq` (ring 0, priority not yet raised);
`ring0` and `serving`; then `routine`: `mutexes`, `poke`, `enumerate`, `wake`
(`reenact_io`), `lock`, `locked`, `chosen` (`getnext_thread`); `dropped` and
`leaving` (priority lowered again); `hlt`; and `lost`, a processor whose `wake`
returned through a backup that is no interrupt frame. The local APIC is external:
a pending vector is accepted when interrupts are on and its class is above the
priority and the class in service. `directory` is the size of the device directory and
the slot of the device that interrupts; its vector `DEVICE` is what `assign_vectors`
computes for it. `preempted` is history: a device has interrupted code at priority 14.
The machine is followed up to that moment; what becomes of the kernel context that the
handler then saves as a thread's is not modelled. **MCBrothers** adds the directories
and the symmetry set.

**Signals** is one thread, seen from the kernel's record of where it was:
`instruction_pointer` for the program and `instruction_override`, the queue of
handlers. `StoreState` is every entry into ring 0 (fault, timer, or the trap of a
syscall), `Store` what `store_state` does with the instruction. A syscall then stores a
second time (`Syscall`), over what the first store kept: `InSyscall`, the return into
`syscall()`. Then a fault issues a signal (`SignalIssuer`) or kills (`Killer`), a
handler returns, a syscall exits or the thread times out; `Sysret`, `GetnextThread` and
`LeaveRingzero` bring it back, and a thread that is brought back into `syscall()` goes
on from there (`Redispatch`). Others send it signals at any moment. `main`, `at`,
`twice` and `switched` are history: where the program got to, where the thread was
interrupted, whether its state was stored twice since, and whether the kernel meant to
resume it elsewhere.

**RankedLocks** is the abstract specification of the kernel's locks: a processor
that waits for a lock is inside only of locks of lower rank; a lock may be lost
(taken by a call that has gone away, with nobody inside). **KernelLocks** is the code: every operation
of the kernel that touches a lock, itself or through what it calls, as the list of
what it does to locks (take, give back, call, conditional and repeated calls, early
returns, a driver run in ring three, brothers put to sleep and woken, the endless
loop of `BLOOD_LIBEL`), and an interpreter of these lists on every processor, with a
stack of calls. It composes the scheduler, memory manager, filesystem, disks,
drivers, enumeration, life cycle, system calls and boot. The
refinement `TakesLocksInOrder` maps the locks of a processor's frames to `held`, the
lock in front of it to `want`, and taken locks with nobody inside to `lost`; the
order is devices by slot, filesystem, threads, process, the other pools, pointers,
memory. **LockDiscipline** states rules about the lists alone: every instruction is
annotated with the locks its own operation has there (`HasAt`) and every operation
with those its callers may have (`Around`, by iterating over the calls); locks are
taken upwards, given back by the operation that took them and one at a time, and only
outer locks are kept by a return or held while a driver runs. These rules are what
the proofs start from. **MCKernelLocks** adds the devices and the symmetry set.

**BarProbe** is `set_device_ranges` and `get_bar_info`, one port access at a time,
beside a driver on another processor that is inside `PciKing::write` or is being put
to sleep. Registers are sets of bits, so that shifts, type bits and the status half
of the command do what they do. `before` is history: the registers when the probe
of a register began.

`PciConfigProofs`, `PoolProofs`, `BrothersProofs`, `SignalsProofs`, `BarProbeProofs`,
`RankedLocksProofs` and `KernelLocksProofs` hold the theorems.

### How the code was read

- `King` inherits `pool_alloc`, `pool_free`, `pool_realloc` under those names; they
  are `Hash::alloc`, `free`, `realloc`. Inside `Hash::realloc` the call of
  `pool_alloc` is the one of `Hash` (no second lock).
- In the growth of `Hash::alloc`, `tryn` is `ret`, and the stray brace is read so
  that `length` grows only when memory was found. Every path returns NULL.
- `ckarray` is written nowhere except the low GDT entries: it starts arbitrary.
- The addresses of `alloc` and `free` are in bytes: `pool + sizeof(this->pool)*i` is 8
  bytes a slot, `(section - this->pool)/sizeof(this->pool*)` an element. A GDT entry has
  16 bytes (`023_SYSEXEC.cpp:114` divides by them), so the first free slot past the
  reserved ones, `GDT_LOW_ENTRIES`, is entry `GDT_LOW_ENTRIES/2`, which `setup_gdt` has
  filled. What the reserved marks do achieve is `LowerHalfReserved`.
- A request of length 0 is met at the first marked slot (`g == reqlen` with `g` reset).
- The IDT is the table from vector to routine that `irs.h` lists: exceptions by trap
  gates, the rest by interrupt gates, `wake` at 255. Device vectors enter
  `device_interrupt_handler_template`.
- `enumerate_devices` takes a slot of the directory for every device number it tries,
  before it looks whether there is a device: nothing bounds the directory, and
  `Devices` lets it have any size. The vectors are 64 and up, spread by the size
  rounded down; from twelve slots on the last ones have class 15, above the priority
  of kernel code. Where a device and `WAKE` share vector 255 either handler may run.
- `devenum_millis` is never written, so `reenact_io` is always due. Nothing
  calls `signal_EOI`. The timer vector has no definition and is left out, and so
  is `SLEEP` (52), sent only by `modrm_wrap`, which nothing calls.
- `halt` ends its critical section with an IRET over a stack nobody filled: the
  interrupt flag may come out either way.
- A thread is followed on one processor; that `getnext_thread` does not set `taken`
  is left to the model of thread selection. In `signal_issuer`, the `i` tested after
  the loop is the loop's, so it is 16. Nothing sets a `sighandler`: which faults have
  one is arbitrary and constant. Masks are stored and never consulted, and
  `check_signals` is never called.
- `syscall()` runs inside `exception_handler_template`, which has entered ring 0, and
  calls `enter_ringzero` itself. `store_state` reads the instruction from its own stack;
  what it finds there the second time is read as the return into `syscall()`. A thread
  resumed with it runs on in `syscall()` and gets to the function its stack names.
- `wake` reads the saved priority and does not restore it: it returns with 14.
- Locks: the conditions in front of calls and returns are left open (also that of
  the branch of `getnext_thread` that kills, which `SIGKILL` being 0 makes dead).
  `INIT_KERNEL_THREAD`, `clone_thread`, `ioctl` and `problem_ctl` have no source:
  they allocate a thread, run a driver, and call `module_ctl`. `raw_read` and
  `getdir_entries` are read as `disk_request` and `filesystem_request`. At boot
  `module_ctl` has no data and returns early. After a driver ran, the calls that led
  there go on (it answered with its first trap) or never do, since the next trap
  reuses the processor's kernel stack. `modinsert` always returns behind `exec`,
  where `=` stands for `==`. `mem_realloc`, `mem_remap`, `get_free_phys`,
  `writeback_cycle`, `check_signals`, `get_some_help` and `modrm` are never called and
  left out. `033_SYS_IOCTL.cpp` and `036_SYS_MODRM.cpp` repeat `023` and `035`.
- One lock stands for those of all processes, one for all drivers, one for all swap
  partitions: no operation nests two of a kind. Recursion over directories and
  buses is a loop. `kdescs`, which `exec` clears without having it, protects nothing
  and is left out of the order and of `Exclusion`. The PciKing's lock is always
  innermost and is in PciConfig.
- Steps of KernelLocks that touch only the processor's own stack run before another
  processor moves; they commute with everything others do.
- The sleep request of KernelLocks acts when a brother is back in ring three. That
  it can also stop code between the trap and the raised priority is in Brothers; no
  lock is held there.
- `boot_reg` is `boot_read`. `get_bar_info` has no return statement, so the first
  base address register of an ordinary device is probed any number of times.

## Runs

| Run | Bounds | Result |
|---|---|---|
| `pci_config` | 2 processors, 1 device, offsets 5 and 8, values 0 and 1, arrays up to 2 | passes: mutual exclusion, port pairing, only named registers change, refinement of PciRegisters |
| `pool` | 2 callers, symmetric, 4 kinds, 4 slots growing to 5, 3 reserved entries, objects of 3 pointers, sections up to 2, shift up to 1, `count` modulo 5 | passes: mutual exclusion, the reserved marks and what they keep callers away from, exact count without races |
| `brothers` | 3 processors, symmetric, the last of 11 device slots (vector 234) or of 12 (vector 240) | passes: kernel code is interrupted by a device only with 12, until then the lock of the thread pool has one holder; sleep requests outside raised code, one enumerator |
| `signals` | a queue of 3 handlers, 2 faults, programs of 3 instructions | passes: the program's place is never overwritten by a handler's, a trip to the kernel comes back where it began or, after a syscall, into `syscall()` |
| `kernel_locks` | 2 processors, symmetric, 2 devices | passes: the kernel implements RankedLocks, no circular wait, exclusion, only outer locks are ever taken with nobody inside, the victim search holds at most a process, devices stay locked; the operations keep the rules of LockDiscipline and the stacks agree with its annotations |
| `bar_probe` | 1 device or bridge, 2 base address registers of 4 kinds (memory, ports, 64 bit, prefetchable), 3 address bits, 1 driver; sleep requests are prompt | passes: the probe restores everything, disturbs one register at a time, and ends |
| `bar_probe_race` | the same, sleep requests take their time | violated: a driver between the two ports leaves a base address register full of ones |
| `signals_exit` | a queue of 2, 1 fault, 2 instructions | violated: SYS_PEXIT does not kill the process |
| `pool_count` | as `pool`, GDT only | violated: `count` is not "currently occupied slots" |
| `brothers_kernel` | 2 processors, 11 slots | violated: halts do not only happen in userspace |
| `brothers_io` | 1 processor, 11 slots | violated: IO does not wake a processor that went idle |
| `mutex_asm` | 2 processors | violated: the exchange does not end the loop |

The bounds are the smallest at which the cases meet. Two processors and arrays of
two show an address latched once and used twice, offset 5 an access inside a double
word, count 0 the empty call. In a GDT of four slots with three reserved the free slot
is read as entry 1, a reserved one of the upper half; five slots let a pool grow once
and a section move by one either way; a modulus of 5 lets `count` wrap below zero.
Eleven and twelve slots are the two sides of the boundary at which a device vector gets
class 15. Three processors allow one to enumerate,
one to sleep and one to be interrupted while it schedules. A queue of three has a
first, a middle and a last entry, and two faults let one handler be interrupted by the
other. Two processors are enough for a circle of two locks, two devices for an order
among device locks; longer circles are excluded for any number of processors by the
theorems on KernelLocks, from the rules that the run checks. The symmetry is sound: nothing tells
callers or processors apart, the one that boots is any of them, and the runs with
symmetry check no liveness. In `brothers`, states that differ only in pending vectors
that can never be delivered any more (their class is in service) are taken for one
(`View`): they have the same future, and no property but the type looks at them. `Prompt` in BarProbe is a timing
assumption and not a guarantee of the code: it holds at boot, where no brother runs
yet, and `bar_probe_race` drops it. No property about drivers is checked under it.

Only a lock with nobody inside counts as lost in `LosesOnlyOuterLocks`. Others can stay
taken for ever as well: `getnext_thread` kills, and so frees memory, with the threads
locked, and a process lock that was lost stops it there. `VictimSearchOutside` speaks in
the same way of the processor that is stuck, not of those that wait for it.

**Fairness.** Four runs use it, none of them for the progress of a lock in a passing
run. `bar_probe`: the port accesses of the probe, instructions at priority 14 that take
no lock and wait for nobody, are weakly fair together. `brothers_io`: each processor's
kernel code and the delivery of a deliverable interrupt. `signals_exit`: the kernel's
steps, `getnext_thread` coming to the thread included. `mutex_asm`: the instructions of
a processor. In `pci_config`, `pool`, `signals` and `bar_probe` deadlock is checked; in
`brothers` and `kernel_locks` it is not, since the code can stop: device mutexes are
never released, other locks are lost, a halted processor may have its interrupts off,
and Brothers ends where kernel code is preempted.

## Proofs

All for every value of the constants, under the named assumptions of the modules.

- **PciConfig** (`PciConfigProofs`). The inductive invariant is the type, mutual
  exclusion, port pairing and the fact that a processor has a call exactly when it
  is not idle, with its element inside the array. From it follow the invariants,
  the action property and, step by step, the refinement: every step of PciConfig is
  a step of PciRegisters or leaves its variables alone.
- **Pool** (`PoolProofs`). `LowerHalfReserved` needs that the section about to be
  returned, too, begins at entry `LowEntries \div 2` or later (a streak ends past the
  marks, and two pointers are one entry: `IndexRange`), that `free` of a GDT section
  clears nothing, since its loop runs from the section's index up to its length and the
  section begins further in than it is long (`LowEntriesAssumption`: less is asked for
  at once than is reserved), and that an index, once given, is moved only in pools
  that reserve nothing; mutual exclusion is carried along. `CountExact` rests on a
  second invariant, `CountKept`: while no two updates of `count` have overlapped, it is
  the sum of what the callers own, modulo its width, also in the middle of calls; one
  caller at most is between its load and its store, and what it loaded is still
  current; and a caller that looks for a section has none and will be given the length
  it counts. The sum is a fold over a finite set of callers (the finiteness is an
  assumption: they are processors), about which two facts are needed: it has a value,
  and changing one caller's part changes it by the difference (`TotalChange`). Both are
  inductions over sets of callers, written as the absence of a smallest counterexample
  (`SmallestSet`, `Least`). `ModShift` is the arithmetic of a counter that wraps.
- **Brothers** (`BrothersProofs`), for a device directory of any size.
  `KernelNotPreempted` is the arithmetic of `assign_vectors` (`DeviceVector`, by cases
  on the number of slots: up to eleven, every device vector has class 14 or less)
  together with `KernelPriority` (raised code is at 14). `ThreadPoolLock` says what
  holds until a device interrupts such code, for ever with at most eleven slots;
  `SleepOutsideRaised` and `EnumerationExclusive` hold in every state that is followed,
  the first one after such an interrupt included. `SleepOutsideRaised` is not inductive:
  it needs `KernelPriority`, `Backups` (a backup exists only while its processor is
  stopped, which it is at 14) and, for the exclusive enumeration, `MutexesTaken`.
- **Signals** (`SignalsProofs`). `MainContextSafe` is not inductive: `store_state`
  decides by the first entry of the queue, so one needs `Contexts`, that this entry
  is zero exactly when the program and not a handler runs, that the queue holds
  handlers, or `InSyscall` in their place, only, and that it is empty or full
  (signal_issuer fills all the free entries, a return repeats the last). The second
  store of a syscall goes where the first one went, because nothing changes the queue in
  between: it can leave `InSyscall` in the program's place, never a handler. That the queue is empty or full
  also says what the code does after a first handler: the queue never empties, the program's place is kept but not
  resumed.

- **RankedLocks** (`RankedLocksProofs`). The invariant is the type, that a lock has
  one processor inside and a lost one none, and that whoever waits, waits above
  everything it is inside of. In a group where everyone waits for a member, the one
  that waits for the highest rank would wait for somebody who waits higher still; the
  highest rank exists because ranks are bounded. `RanksOK` is what this asks of the
  constants; TLC evaluates it for the kernel's order (`RanksAssumption`).

- **KernelLocks** (`KernelLocksProofs`): every property of the run, for any number of
  processors, the refinement included. The theorems have one hypothesis, `Disciplined`:
  that the operations keep the rules of LockDiscipline. It speaks of no state, only of
  the lists of instructions, and the run evaluates it (in `FollowsRules`), for two
  devices; for other device lists the theorems hold as far as the lists keep the rules.
  The inductive invariant `IInv` says that every frame of every stack is in front of an
  instruction and has exactly the locks of its annotation, that the frames below it
  have only what the operation's annotation allows around it, that a lock in a frame
  shows in its calendar and is in no other frame of any processor (`kdescs` apart),
  that a taken lock in no frame is an outer one, and that hung processors are in front
  of `BLOOD_LIBEL`'s loop. None of the checked properties is inductive without the
  first two: what a processor holds when it waits, returns or hangs depends on the
  whole chain of its callers. The argument has two halves. First, whatever a step does
  to a stack (`Pushed`, `Popped`, `AfterKept`), its effect is one of three: it forgets
  outer locks or none, takes the lock it was in front of, or gives one back
  (`Becomes`, `StepBecomes`, one lemma per action). Second, each of the three keeps the
  invariant (`BecomesKept`) and is a step `Lose`, `Grant` or `Release` of RankedLocks
  (`StepRanked`). `NeverCircular` is then the theorem on ranks, taken over by
  instantiating `RankedLocksProofs`.
- **BarProbe** (`BarProbeProofs`). Under `Prompt` (a sleep request is taken before
  enumeration goes on, as at boot) the probe restores every register and disturbs one
  base address register at a time; for any firmware
  addresses, writable bits and type bits within the hardware's layout
  (`BarAssumption`: type bits are the low ones, addresses lie above them).
  `ProbeRestores` is not inductive: one needs that a base address register is its
  writable bits and its fixed ones (`Shaped`, so that writing the base back gives the
  same register), that `base` and `dis` are what the job began with (`Remembered`), that
  nothing else has changed meanwhile (`Untouched`), and that the latch holds what its
  user put there (`Latched`), which is where `Prompt` comes in. `bar_probe_race` shows
  that the theorems fail without it.

Only model-checked: `ProbeEnds`, since liveness under fairness is out of TLAPS's reach,
and `Disciplined` itself, a finite computation over the
instruction lists that TLC does and a proof would repeat list by list.

## Not modelled, and the plan

Not planned: ACPI table parsing, the straight-line set-up of firmware and descriptor
tables, accessors, logging, clocks: single reads, fixed layouts or one processor alone.
Write-back, `mem_realloc`, `mem_remap` and `modrm` are never called.

Left of the plan, in this order:

1. *Threads*: which thread `getnext_thread` chooses and `taken`; the tables that
   `exec`, `thread`, `TKILL` and `PKILL` fill and clear.
2. *Memory*: the bitmap and its scan, `malloc` in two lock sections, page entries;
   rounding as operators against a reference.
3. *VFS*: descriptors, openers, listeners, close and remove.
4. *Enumeration*: the tree of bridges, presence marks, redirection entries.
5. *Start-up*: the hand-shake between the boot processor and the others.
6. *Disks and modules*: contiguous runs of `disk_request`, the removal stack, chains
   of prior threads; the PS/2 ports.

Theorems worth proving next: that the device part of `Disciplined` holds for any list
of devices, and, once memory is modelled, that a page has one owner as long as scans
and marks do not overlap.
