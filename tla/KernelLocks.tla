---------------------------- MODULE KernelLocks -----------------------------
(***************************************************************************)
(* Every lock that the kernel takes between the trap that enters it and    *)
(* the return, on several processors at once.  An operation of the kernel  *)
(* is the list of what it does to locks, in the order of its code: locks   *)
(* taken and given back, calls of other operations, conditional and        *)
(* repeated calls, early returns, drivers it runs, processors it puts to   *)
(* sleep.  Which way a condition goes is left open; operations that touch  *)
(* no lock, themselves or below, are left out.                             *)
(*                                                                         *)
(* A lock is the byte calendar, taken with mutex() and given back by       *)
(* storing zero.  Each call also remembers the locks it has taken, which   *)
(* the code does not.  One lock stands for those of all processes (calls   *)
(* never nest two of them), one for the swap partitions and one for the    *)
(* drivers.  Recursion over directories and buses is a loop here.          *)
(***************************************************************************)
EXTENDS Naturals, Sequences, FiniteSets, SequencesExt

CONSTANTS Processors,
          Devices,    \* the marked device files, one lock each, in slot order
          None        \* no lock

Locks == {"vfs", "threads", "process", "kprc", "kdescs", "gdt", "ldt", "drivgod",
          "names", "partitions", "shm", "driver", "kptr", "mem"} \cup Range(Devices)
-----------------------------------------------------------------------------
(* What an operation is made of.                                           *)
Lock(l)   == [do |-> "lock", of |-> {l}]
Unlock(l) == [do |-> "unlock", of |-> {l}]       \* also without having it
Bail(l)   == [do |-> "bail", of |-> {l}]         \* may unlock and return
Exit      == [do |-> "exit", of |-> {}]          \* may return
Call(f)   == [do |-> "call", of |-> {f}]
May(S)    == [do |-> "may", of |-> S]            \* calls one of them or none
Loop(S)   == [do |-> "loop", of |-> S]           \* any of them, any number of times
Run       == [do |-> "run", of |-> {}]           \* a driver's method, in ring three
Hang      == [do |-> "hang", of |-> {}]          \* may loop for ever
Sleep     == [do |-> "sleep", of |-> {}]         \* highprio_brothers_sleep
Wake      == [do |-> "wake", of |-> {}]          \* brothers_wake
Start     == [do |-> "start", of |-> {}]         \* initialize_brothers

(* Pools that may grow: drivgod is DOUBLE_POINTER, and nothing sets the    *)
(* type of the others; the rest are SINGLE_POINTER.                        *)
Growable == {"drivgod", "names", "partitions", "shm", "gdt", "ldt"}

(* King::pool_alloc: a full pool asks kptr for more pointers.              *)
pool_alloc(k) ==
    IF k \in Growable THEN <<Lock(k), May({"pool_realloc"}), Unlock(k)>>
                      ELSE <<Lock(k), Unlock(k)>>

(* King::pool_realloc, of kptr; the backup of Hash::realloc is malloc'd.   *)
pool_realloc == <<Lock("kptr"), Call("malloc"), Unlock("kptr")>>

(* A pool without a lock, Hash::alloc: the children of a directory and the *)
(* descriptors of a process.                                               *)
hash_alloc == <<May({"pool_realloc"})>>

(* Memory: mem/core.h and kernlib/mem.h                                    *)
(* Faulty variant: the identity search grows its pointers under its lock.  *)
GetFreeIdentityNested == <<Lock("mem"), Lock("kptr"), Unlock("kptr"), Unlock("mem")>>
get_free_identity == <<Lock("mem"), Unlock("mem")>>
(* Faulty variant: the lock is given back for either action.               *)
ManipulatePhysUnlocks(action) ==
    IF action = "SET" THEN <<Lock("mem"), Unlock("mem")>> ELSE <<Unlock("mem")>>
manipulate_phys(action) == IF action = "SET" THEN <<Lock("mem"), Unlock("mem")>> ELSE <<>>
malloc == get_free_identity \o manipulate_phys("SET")
vmtree_fetch == <<Lock("process"), Unlock("process")>>
mem_map == vmtree_fetch
mem_alloc == vmtree_fetch
(* The return in front of a supervisor page keeps the lock.                *)
deallocate_vm == <<Lock("process"), Bail("process"), Exit, Unlock("process")>>
mem_free == <<Call("deallocate_vm"), Exit>> \o manipulate_phys("CLEAR")
BLOOD_LIBEL == <<Hang>>
(* Faulty variant: the victim is looked for under the partition's lock.    *)
FindSwapInside == <<Lock("shm"), May({"pool_realloc"}), May({"BLOOD_LIBEL"}), Unlock("shm")>>
find_swap == pool_alloc("shm") \o <<May({"BLOOD_LIBEL"})>>
swap_page == <<Call("find_swap"), Loop({"find_swap"})>> \o manipulate_phys("SET")
swap_process == <<Lock("process"), Loop({"swap_page"}), Unlock("process")>>
softfault_handler == <<May({"malloc", "load_page"})>>
hardfault_handler == <<Exit>> \o malloc \o <<May({"disk_request"})>>
pagefault_handler == <<May({"softfault_handler", "hardfault_handler"})>>
recursive_free == <<Loop({"mem_free"})>>

(* Files and disks: vfs/core.h and nonvolatile_storage/README.cpp          *)
INIT_KERNEL_THREAD == pool_alloc("threads")
clone_thread == pool_alloc("threads")
(* Faulty variant: the driver's thread is run with the threads locked.     *)
IoctlLocked == <<Lock("threads"), Run, Unlock("threads")>>
ioctl == <<Run>>
load_page == <<Exit, Exit>> \o malloc \o <<Exit, Call("disk_request")>>
ramcontents_to_description == pool_alloc("vfs")
disk_run == malloc \o mem_map \o INIT_KERNEL_THREAD \o ioctl
disk_request == <<Loop({"disk_run"})>>
load_file == malloc \o INIT_KERNEL_THREAD \o <<Call("problem_ctl")>>
filesystem_request == malloc \o INIT_KERNEL_THREAD \o <<Call("problem_ctl")>>
partition_entry == pool_alloc("partitions")
load_partition_table ==
    malloc \o <<Call("disk_request"), Call("problem_ctl")>>
    \o malloc \o <<Call("problem_ctl"), Loop({"partition_entry"})>>
(* Faulty variant: allocations that take the lock the caller has.          *)
InsertDirectoryStrong ==
    pool_alloc("kptr") \o <<Call("filesystem_request")>> \o pool_alloc("vfs")
(* "weak" allocations: the lock of the vfs is the caller's.                *)
insert_directory == pool_alloc("kptr") \o <<Call("filesystem_request")>>
recursive_insert == <<Loop({"insert_directory", "load_file"})>>
mount == <<Lock("vfs"), Bail("vfs"), Call("load_file"), Call("recursive_insert"),
           Unlock("vfs")>>

(* Drivers: 034_SYS_MODCTL.cpp.  The driver's lock is not given back.      *)
module_ctl == clone_thread \o <<May({"mem_map"}), Exit, Exit, Lock("driver"), Run>>
problem_ctl == module_ctl

(* Processes and threads                                                   *)
make_stack == vmtree_fetch \o <<Exit, Loop({"malloc", "BLOOD_LIBEL"})>>
thread ==
    pool_alloc("threads") \o <<May({"BLOOD_LIBEL"}), Call("make_stack"), Exit>>
    \o pool_alloc("ldt")
(* kdescs->calendary = 0 after two pool_alloc that gave the lock back.     *)
exec ==
    LET CONDITIONAL_BLOOD_LIBEL == <<May({"BLOOD_LIBEL"})>>
    IN  <<Call("load_page"), Exit, Exit, Loop({"load_page", "BLOOD_LIBEL"})>>
        \o pool_alloc("kprc") \o CONDITIONAL_BLOOD_LIBEL
        \o pool_alloc("kptr") \o CONDITIONAL_BLOOD_LIBEL
        \o pool_alloc("kptr") \o CONDITIONAL_BLOOD_LIBEL
        \o pool_alloc("threads") \o CONDITIONAL_BLOOD_LIBEL
        \o pool_alloc("kdescs") \o pool_alloc("kdescs") \o CONDITIONAL_BLOOD_LIBEL
        \o <<Unlock("kdescs")>>
        \o malloc \o CONDITIONAL_BLOOD_LIBEL
        \o pool_alloc("gdt") \o malloc \o CONDITIONAL_BLOOD_LIBEL
        \o mem_map \o mem_map \o malloc \o <<Call("make_stack")>>
PKILL == recursive_free
DRIVKILL == PKILL

(* Device enumeration: pci.cpp                                             *)
input_stream == pool_alloc("vfs") \o pool_alloc("kptr") \o malloc
new_name == <<May({"input_stream", "ramcontents_to_description"})>> \o pool_alloc("names")
bind_driver ==
    malloc \o <<Call("module_ctl"), May({"load_partition_table"}), May({"new_name"})>>
    \o clone_thread
enumerate_slot == pool_alloc("vfs") \o hash_alloc \o <<Exit, May({"bind_driver"})>>
enumerate_devices == <<Loop({"enumerate_slot"})>>
load_all_devices == malloc \o enumerate_devices

(* Faulty variant: the device mutexes are given back.                      *)
ReenactIoUnlocks ==
    [i \in DOMAIN Devices |-> Lock(Devices[i])]
    \o <<Sleep, Loop({"DRIVKILL"}), Call("load_all_devices"), Loop({"mem_map"}), Wake>>
    \o [i \in DOMAIN Devices |-> Unlock(Devices[i])]
(* The device mutexes are taken and not given back.                        *)
reenact_io ==
    [i \in DOMAIN Devices |-> Lock(Devices[i])]
    \o <<Sleep, Loop({"DRIVKILL"}), Call("load_all_devices"), Loop({"mem_map"}), Wake>>

(* The scheduler                                                           *)
(* Faulty variant: a return in the middle of the walk keeps the lock.      *)
GetnextThreadKeeps == <<Lock("threads"), Loop({"PKILL"}), Exit, Unlock("threads")>>
getnext_thread == <<Lock("threads"), Loop({"PKILL"}), Unlock("threads")>>
routine == <<May({"reenact_io"}), May({"swap_process"}), Call("getnext_thread")>>

(* Start: UefiMain.  At boot module_ctl is given no data and returns.      *)
finalize_kernel_data == malloc \o malloc \o malloc \o malloc
setup_kernel == <<Loop({"manipulate_phys"})>> \o finalize_kernel_data
boot_driver ==
    ramcontents_to_description \o pool_alloc("drivgod") \o <<Call("exec")>>
    \o ramcontents_to_description \o clone_thread
enact_IO_context ==
    <<Sleep>> \o INIT_KERNEL_THREAD \o <<Loop({"boot_driver"})>> \o load_all_devices
UefiMain ==
    setup_kernel \o enact_IO_context
    \o <<Call("exec"), Call("mount"), Start, Call("routine")>>

(* System calls                                                            *)
create_file == pool_alloc("vfs")
SYSOPEN == <<Exit>> \o hash_alloc \o <<May({"BLOOD_LIBEL"}), May({"create_file"})>>
SYSREAD == <<Exit, May({"disk_request"})>>
SYSWRITE == <<Exit, May({"disk_request"})>>
SYS_RMFILE == <<Exit, Call("filesystem_request")>>
SYS_RMDIR == <<Exit, Call("filesystem_request")>>
SYS_DISKSYNC == <<Exit, Call("filesystem_request")>>
SYSMOUNT == <<Exit, Call("mount")>>
SYS_MALLOC == <<Exit>> \o mem_alloc
SYS_FREE == <<Exit, Call("mem_free")>>
kptralloc == pool_alloc("kptr")
SYS_FMAP == <<Exit, May({"kptralloc"})>> \o vmtree_fetch
SYS_THREAD == <<Call("thread")>>
SYS_EXEC == <<Exit, Call("exec")>>
SYS_MODCTL == <<Exit, Call("module_ctl")>>
(* The comparison behind exec is an assignment, so modinsert returns there. *)
modinsert == pool_alloc("vfs") \o <<Exit, Call("exec")>>
SYS_MODINSERT == <<Exit, Call("modinsert")>>
-----------------------------------------------------------------------------
(* The operations by name, and those that a thread in ring three can cause. *)
Code ==
    [pool_realloc |-> pool_realloc, malloc |-> malloc, mem_map |-> mem_map,
     manipulate_phys |-> manipulate_phys("SET"),
     deallocate_vm |-> deallocate_vm, mem_free |-> mem_free, BLOOD_LIBEL |-> BLOOD_LIBEL,
     find_swap |-> find_swap, swap_page |-> swap_page,
     swap_process |-> swap_process, softfault_handler |-> softfault_handler,
     hardfault_handler |-> hardfault_handler,
     pagefault_handler |-> pagefault_handler, load_page |-> load_page,
     ramcontents_to_description |-> ramcontents_to_description,
     disk_run |-> disk_run, disk_request |-> disk_request,
     load_file |-> load_file, filesystem_request |-> filesystem_request,
     partition_entry |-> partition_entry,
     load_partition_table |-> load_partition_table,
     insert_directory |-> insert_directory,
     recursive_insert |-> recursive_insert, mount |-> mount,
     module_ctl |-> module_ctl, problem_ctl |-> problem_ctl,
     make_stack |-> make_stack, thread |-> thread, exec |-> exec,
     PKILL |-> PKILL, DRIVKILL |-> DRIVKILL, input_stream |-> input_stream,
     new_name |-> new_name, bind_driver |-> bind_driver,
     enumerate_slot |-> enumerate_slot, load_all_devices |-> load_all_devices,
     reenact_io |-> reenact_io, getnext_thread |-> getnext_thread,
     routine |-> routine, boot_driver |-> boot_driver, UefiMain |-> UefiMain,
     create_file |-> create_file, SYSOPEN |-> SYSOPEN, SYSREAD |-> SYSREAD,
     SYSWRITE |-> SYSWRITE, SYS_RMFILE |-> SYS_RMFILE,
     SYS_RMDIR |-> SYS_RMDIR, SYS_DISKSYNC |-> SYS_DISKSYNC,
     SYSMOUNT |-> SYSMOUNT, SYS_MALLOC |-> SYS_MALLOC, SYS_FREE |-> SYS_FREE,
     kptralloc |-> kptralloc, SYS_FMAP |-> SYS_FMAP,
     SYS_THREAD |-> SYS_THREAD, SYS_EXEC |-> SYS_EXEC,
     SYS_MODCTL |-> SYS_MODCTL, modinsert |-> modinsert,
     SYS_MODINSERT |-> SYS_MODINSERT]

Calls == {"SYSOPEN", "SYSREAD", "SYSWRITE", "SYS_RMFILE", "SYS_RMDIR",
          "SYS_DISKSYNC", "SYSMOUNT", "SYS_MALLOC", "SYS_FREE", "SYS_FMAP",
          "SYS_THREAD", "SYS_EXEC", "SYS_MODCTL", "SYS_MODINSERT", "routine",
          "pagefault_handler"}

VARIABLES stack,     \* per processor, the operations it is in, innermost first
          calendar,  \* per lock: 0 free, 255 taken
          up,        \* the processors that have been started
          asleep,    \* those halted by highprio_brothers_sleep
          hung       \* those in the endless loop of BLOOD_LIBEL

vars == <<stack, calendar, up, asleep, hung>>

(* An operation entered, where it is, and the locks it has taken.          *)
Entered(f) == [fn |-> f, pc |-> 1, has |-> {}]
Frames == [fn : DOMAIN Code, pc : Nat, has : SUBSET Locks]

Instruction(p) == LET f == Head(stack[p]) IN Code[f.fn][f.pc]

(* The stack with its innermost operation one instruction further on, or   *)
(* returned from; an operation that calls last leaves no frame.            *)
After(s) ==
    LET f == Head(s)
    IN  IF f.pc = Len(Code[f.fn]) THEN Tail(s)
        ELSE <<[f EXCEPT !.pc = @ + 1]>> \o Tail(s)

(* The locks whose sections a processor is inside of, and those that are   *)
(* taken with nobody inside.                                               *)
Inside(p) == UNION {stack[p][i].has : i \in DOMAIN stack[p]}
Lost == {l \in Locks : calendar[l] = 255} \ UNION {Inside(p) : p \in Processors}

(* Instructions that touch nothing but the processor's own stack commute   *)
(* with everything the others do: a processor in front of one goes on to   *)
(* its next lock before another one moves.                                 *)
Silent == {"call", "may", "loop", "exit"}
AtSilent(p) == stack[p] # <<>> /\ Instruction(p).do \in Silent

(* The firmware runs UefiMain on one processor.                            *)
Init ==
    /\ \E b \in Processors :
          /\ stack = [p \in Processors |-> IF p = b THEN <<Entered("UefiMain")>> ELSE <<>>]
          /\ up = {b}
    /\ calendar = [l \in Locks |-> 0]
    /\ asleep = {}
    /\ hung = {}

(* A system call, a page fault or the timer, on a processor in ring three. *)
Enter(p) ==
    /\ stack[p] = <<>> /\ p \in up /\ p \notin asleep
    /\ \E f \in Calls : stack' = [stack EXCEPT ![p] = <<Entered(f)>>]
    /\ UNCHANGED <<calendar, up, asleep, hung>>

At(p, what) == stack[p] # <<>> /\ p \notin hung /\ Instruction(p).do = what

Goto(p, s) == stack' = [stack EXCEPT ![p] = s]
GoOn(p) == Goto(p, After(stack[p]))
Having(s, l) == <<[Head(s) EXCEPT !.has = @ \cup {l}]>> \o Tail(s)
Without(s, l) == <<[Head(s) EXCEPT !.has = @ \ {l}]>> \o Tail(s)

(* mutex()                                                                 *)
TakeLock(p) ==
    /\ At(p, "lock")
    /\ \E l \in Instruction(p).of :
          /\ calendar[l] = 0
          /\ calendar' = [calendar EXCEPT ![l] = 255]
          /\ Goto(p, After(Having(stack[p], l)))
    /\ UNCHANGED <<up, asleep, hung>>

(* calendar = 0, whoever had it                                            *)
GiveLock(p) ==
    /\ At(p, "unlock")
    /\ \E l \in Instruction(p).of :
          /\ calendar' = [calendar EXCEPT ![l] = 0]
          /\ Goto(p, After(Without(stack[p], l)))
    /\ UNCHANGED <<up, asleep, hung>>

BailOut(p) ==
    /\ At(p, "bail")
    /\ \/ /\ \E l \in Instruction(p).of : calendar' = [calendar EXCEPT ![l] = 0]
          /\ Goto(p, Tail(stack[p]))
       \/ /\ GoOn(p)
          /\ UNCHANGED calendar
    /\ UNCHANGED <<up, asleep, hung>>

MayReturn(p) ==
    /\ At(p, "exit")
    /\ Goto(p, Tail(stack[p])) \/ GoOn(p)
    /\ UNCHANGED <<calendar, up, asleep, hung>>

CallOne(p) ==
    /\ At(p, "call") \/ At(p, "may")
    /\ \E f \in Instruction(p).of : Goto(p, <<Entered(f)>> \o After(stack[p]))
    /\ UNCHANGED <<calendar, up, asleep, hung>>

Repeat(p) ==
    /\ At(p, "loop")
    /\ \E f \in Instruction(p).of : Goto(p, <<Entered(f)>> \o stack[p])
    /\ UNCHANGED <<calendar, up, asleep, hung>>

Skip(p) ==
    /\ At(p, "may") \/ At(p, "loop")
    /\ GoOn(p)
    /\ UNCHANGED <<calendar, up, asleep, hung>>

(* run_thread of a driver's thread: it answers, or the processor does      *)
(* something else and the calls that led here never go on.                 *)
RunDriver(p) ==
    /\ At(p, "run")
    /\ GoOn(p) \/ Goto(p, <<>>)
    /\ UNCHANGED <<calendar, up, asleep, hung>>

(* while (pool[i]->program_type == SYSTEM); with i = 0                     *)
PickVictim(p) ==
    /\ At(p, "hang")
    /\ \/ GoOn(p) /\ UNCHANGED hung
       \/ hung' = hung \cup {p} /\ UNCHANGED stack
    /\ UNCHANGED <<calendar, up, asleep>>

(* Faulty variant: processors that were never started are counted asleep.  *)
BrothersSleepAll(p) ==
    /\ At(p, "sleep")
    /\ asleep' = Processors \ {p}
    /\ GoOn(p)
    /\ UNCHANGED <<calendar, up, hung>>

(* Brothers in the kernel finish what they are in before they halt.        *)
BrothersSleep(p) ==
    /\ At(p, "sleep")
    /\ asleep' = asleep \cup (up \ {p})
    /\ GoOn(p)
    /\ UNCHANGED <<calendar, up, hung>>

BrothersWake(p) ==
    /\ At(p, "wake")
    /\ asleep' = asleep \ (up \ {p})
    /\ GoOn(p)
    /\ UNCHANGED <<calendar, up, hung>>

(* initialize_brothers: the hand-shake is taken as done.                   *)
StartBrothers(p) ==
    /\ At(p, "start")
    /\ up' = Processors
    /\ GoOn(p)
    /\ UNCHANGED <<calendar, asleep, hung>>

Step(p) ==
    \/ TakeLock(p) \/ GiveLock(p) \/ BailOut(p) \/ MayReturn(p)
    \/ CallOne(p) \/ Repeat(p) \/ Skip(p) \/ RunDriver(p) \/ PickVictim(p)
    \/ BrothersSleep(p) \/ BrothersWake(p) \/ StartBrothers(p)

Next ==
    \E p \in Processors :
        /\ \A q \in Processors \ {p} : ~AtSilent(q)
        /\ Enter(p) \/ Step(p)

Spec == Init /\ [][Next]_vars

TypeOK ==
    /\ stack \in [Processors -> Seq(Frames)]
    /\ calendar \in [Locks -> {0, 255}]
    /\ up \in SUBSET Processors
    /\ asleep \in SUBSET up
    /\ hung \in SUBSET up
-----------------------------------------------------------------------------
(* kdescs is no lock: exec clears it whoever is inside.                    *)
Sound == Locks \ {"kdescs"}

(* The order in which the kernel takes its locks.                          *)
LockRank ==
    [l \in Sound |->
        CASE l \in Range(Devices) -> CHOOSE i \in DOMAIN Devices : Devices[i] = l
          [] l = "vfs"            -> Len(Devices) + 1
          [] l = "threads"        -> Len(Devices) + 2
          [] l = "process"        -> Len(Devices) + 3
          [] l = "kptr"           -> Len(Devices) + 5
          [] l = "mem"            -> Len(Devices) + 6
          [] OTHER                -> Len(Devices) + 4]

(* The lock a processor is in front of.                                    *)
Awaited(p) ==
    IF ~At(p, "lock") \/ Instruction(p) = Lock("kdescs") THEN None
    ELSE CHOOSE l \in Instruction(p).of : TRUE

held == [p \in Processors |-> Inside(p) \ {"kdescs"}]
want == [p \in Processors |-> Awaited(p)]
lost == Lost \ {"kdescs"}

Ranked == INSTANCE RankedLocks WITH
    Locks <- Sound, Rank <- LockRank, MaxRank <- Len(Devices) + 6,
    held <- held, want <- want, lost <- lost

ASSUME RanksAssumption == Ranked!RanksOK

(* The kernel, with its pools, faults, drivers, scheduler and system calls *)
(* on every processor, keeps to the order: it implements RankedLocks.      *)
TakesLocksInOrder == Ranked!Spec

(* No two processors in the kernel wait for each other.                    *)
NoCircularWait == Ranked!NoCircularWait

(* Whoever is between taking a lock and giving it back is alone there and  *)
(* the calendar shows it.                                                  *)
Exclusion ==
    \A p \in Processors : \A l \in Inside(p) \ {"kdescs"} :
        /\ calendar[l] = 255
        /\ \A q \in Processors \ {p} : l \notin Inside(q)

(* A lock is lost when it is taken and nobody is between mutex() and the   *)
(* store that gives it back: an early return skipped the store, or a       *)
(* driver never answered.  That happens to the locks of devices, drivers,  *)
(* the filesystem and processes only.  Other locks can still stay taken    *)
(* for ever, by a processor that waits inside of them for a lost one:      *)
(* getnext_thread kills, and so frees memory, with the threads locked.     *)
LosesOnlyOuterLocks == Lost \subseteq {"vfs", "process", "driver"} \cup Range(Devices)

(* A processor that looks for a process to kill for ever, because the first *)
(* one in the pool is a system process, has at most a process locked.  It  *)
(* keeps no pool and no memory lock itself; who waits for that process may. *)
VictimSearchOutside == \A p \in hung : Inside(p) \subseteq {"process"}

(* reenact_io is over and its devices stay locked: no step gives back a    *)
(* device's mutex.                                                         *)
DevicesStayLocked ==
    [][\A l \in Range(Devices) : calendar[l] = 255 => calendar'[l] = 255]_vars
=============================================================================
