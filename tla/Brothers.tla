------------------------------ MODULE Brothers ------------------------------
(***************************************************************************)
(* How processors enter and leave ring 0, how one of them puts the others  *)
(* ("brothers") to sleep and wakes them with inter-processor interrupts,   *)
(* and what that does to the lock of the thread pool.  From                *)
(* runtime/sched/sched.cpp and asm.S, runtime/sched/reenact_io.cpp,        *)
(* drivers/interrupts.cpp and the gates of init/tables.cpp.                *)
(*                                                                         *)
(* The local APIC accepts a pending vector when interrupts are enabled and *)
(* the class of the vector, its high four bits, is above both the task     *)
(* priority (cr8) and the class in service.  An interrupt gate clears the  *)
(* interrupt flag, a trap gate does not.  No handler calls signal_EOI, so  *)
(* a class once in service stays in service.                               *)
(*                                                                         *)
(* A processor is taken from the moment it runs a thread; which thread     *)
(* getnext_thread picks, and whether it finds one, is left open.           *)
(***************************************************************************)
EXTENDS Naturals

CONSTANTS Processors,
          Devices      \* how many slots the device directory may have, used or
                       \* not, and which is that of the device that interrupts

(* enumerate_devices takes a slot for every device number it tries, so the *)
(* directory may be of any size.                                           *)
ASSUME DevicesAssumption ==
    \A d \in Devices : d.slots \in Nat \ {0} /\ d.slot \in 0..(d.slots - 1)

VARIABLES pc,        \* per processor, where it is
          tpr,       \* per processor, the task priority in cr8
          iflag,     \* per processor, the interrupt flag
          irr,       \* per processor, the vectors pending at its local APIC
          isr,       \* per processor, the highest class in service
          cr1,       \* per processor, what the stack backup of halt returns to
          cr7,       \* per processor, the task priority saved by highprio_halt
          calendar,  \* the lock byte of the thread pool
          device,    \* the lock byte of a device
          marked,    \* whether the device's ckarray byte, never written, is set
          directory, \* the size of the device directory and the device's slot
          preempted  \* history: a device has interrupted code at priority 14

vars == <<pc, tpr, iflag, irr, isr, cr1, cr7, calendar, device, marked, directory, preempted>>
-----------------------------------------------------------------------------
(* The vectors of irs.h.                                                   *)
HIGHPRIO_SLEEP == 53
WAKE == 255

(* Faulty variant: the spread is rounded up.                               *)
DEVICERoundedUp == 64 + directory.slot * ((256 - 64) \div directory.slots + 1)

(* The vector that assign_vectors gives to the device: it starts at 64 and *)
(* spreads what is left of the 256 over the slots.                         *)
DEVICE == 64 + directory.slot * ((256 - 64) \div directory.slots)

Vectors == {HIGHPRIO_SLEEP, WAKE, DEVICE}

Class(v) == v \div 16

(* Ring 0 code that is entered by enter_ringzero and not yet left by       *)
(* set_task_priority(0).                                                   *)
Raised == {"ring0", "serving", "mutexes", "poke", "enumerate", "wake", "lock",
           "locked", "chosen"}

(* Ring 0 with the task priority at that of the interrupted thread.        *)
Lowered == {"entry", "irq", "dropped", "leaving"}

Labels == Raised \cup Lowered \cup {"user", "hlt", "lost"}

TypeOK ==
    /\ pc \in [Processors -> Labels]
    /\ tpr \in [Processors -> {0, 14}]
    /\ iflag \in [Processors -> BOOLEAN]
    /\ irr \in [Processors -> SUBSET Vectors]
    /\ isr \in [Processors -> {0} \cup {Class(v) : v \in Vectors}]
    /\ cr1 \in [Processors -> Labels \cup {"none", "call"}]
    /\ cr7 \in [Processors -> {0, 14}]
    /\ calendar \in {0, 255}
    /\ device \in {0, 255}
    /\ marked \in BOOLEAN
    /\ directory \in Devices
    /\ preempted \in BOOLEAN

Init ==
    /\ pc = [p \in Processors |-> "user"]
    /\ tpr = [p \in Processors |-> 0]
    /\ iflag = [p \in Processors |-> TRUE]
    /\ irr = [p \in Processors |-> {}]
    /\ isr = [p \in Processors |-> 0]
    /\ cr1 = [p \in Processors |-> "none"]
    /\ cr7 = [p \in Processors |-> 0]
    /\ calendar = 0
    /\ device = 0
    /\ marked \in BOOLEAN
    /\ directory \in Devices
    /\ preempted = FALSE

Goto(p, label) == pc' = [pc EXCEPT ![p] = label]
-----------------------------------------------------------------------------
(* Ring 0 and back *)

(* A syscall or a fault of the running thread goes through a trap gate.    *)
Trap(p) ==
    /\ pc[p] = "user"
    /\ Goto(p, "entry")
    /\ UNCHANGED <<tpr, iflag, irr, isr, cr1, cr7, calendar, device, marked, directory, preempted>>

(* Faulty variant: enter_ringzero forgets the fast task priority.          *)
EnterRingzeroLow(p) ==
    /\ pc[p] \in {"entry", "irq"}
    /\ Goto(p, IF pc[p] = "irq" THEN "serving" ELSE "ring0")
    /\ UNCHANGED <<tpr, iflag, irr, isr, cr1, cr7, calendar, device, marked, directory, preempted>>

(* enter_ringzero: cr8 gets 14 and the thread's state is stored.           *)
EnterRingzero(p) ==
    /\ pc[p] \in {"entry", "irq"}
    /\ tpr' = [tpr EXCEPT ![p] = 14]
    /\ Goto(p, IF pc[p] = "irq" THEN "serving" ELSE "ring0")
    /\ UNCHANGED <<iflag, irr, isr, cr1, cr7, calendar, device, marked, directory, preempted>>

(* The end of exception_handler_template: set_task_priority(0) and         *)
(* leave_ringzero, without cli.                                            *)
ExceptionReturn(p) ==
    /\ pc[p] = "ring0"
    /\ tpr' = [tpr EXCEPT ![p] = 0]
    /\ Goto(p, "leaving")
    /\ UNCHANGED <<iflag, irr, isr, cr1, cr7, calendar, device, marked, directory, preempted>>

(* run_ringthree up to set_task_priority(0): from sysret of a thread that  *)
(* is not an application's, from the device interrupt template, and from   *)
(* routine once a thread was chosen.                                       *)
RunRingthree(p) ==
    /\ pc[p] \in {"ring0", "serving", "chosen"}
    /\ tpr' = [tpr EXCEPT ![p] = 0]
    /\ Goto(p, "dropped")
    /\ UNCHANGED <<iflag, irr, isr, cr1, cr7, calendar, device, marked, directory, preempted>>

(* run_ringthree: cli                                                      *)
Cli(p) ==
    /\ pc[p] = "dropped"
    /\ iflag' = [iflag EXCEPT ![p] = FALSE]
    /\ Goto(p, "leaving")
    /\ UNCHANGED <<tpr, irr, isr, cr1, cr7, calendar, device, marked, directory, preempted>>

(* leave_ringzero: IRETQ to the thread, which runs with interrupts on.     *)
Iretq(p) ==
    /\ pc[p] = "leaving"
    /\ iflag' = [iflag EXCEPT ![p] = TRUE]
    /\ Goto(p, "user")
    /\ UNCHANGED <<tpr, irr, isr, cr1, cr7, calendar, device, marked, directory, preempted>>
-----------------------------------------------------------------------------
(* routine *)

(* RESCHEDULE: devenum_millis is never written, so reenact_io is due.      *)
Reschedule(p) ==
    /\ pc[p] = "ring0"
    /\ Goto(p, "mutexes")
    /\ UNCHANGED <<tpr, iflag, irr, isr, cr1, cr7, calendar, device, marked, directory, preempted>>

(* Faulty variant: a mutex that is taken is not waited for.                *)
TakeMutexesNoWait(p) ==
    /\ pc[p] = "mutexes"
    /\ device' = IF marked THEN 255 ELSE device
    /\ Goto(p, "poke")
    /\ UNCHANGED <<tpr, iflag, irr, isr, cr1, cr7, calendar, marked, directory, preempted>>

(* reenact_io takes the mutex of every marked device and keeps it.         *)
TakeMutexes(p) ==
    /\ pc[p] = "mutexes"
    /\ marked => device = 0
    /\ device' = IF marked THEN 255 ELSE device
    /\ Goto(p, "poke")
    /\ UNCHANGED <<tpr, iflag, irr, isr, cr1, cr7, calendar, marked, directory, preempted>>

(* brothers_poke: the vector becomes pending at every other processor.     *)
Poke(p, v) == irr' = [q \in Processors |-> IF q = p THEN irr[q] ELSE irr[q] \cup {v}]

(* highprio_brothers_sleep, which waits for nobody.                        *)
PokeSleep(p) ==
    /\ pc[p] = "poke"
    /\ Poke(p, HIGHPRIO_SLEEP)
    /\ Goto(p, "enumerate")
    /\ UNCHANGED <<tpr, iflag, isr, cr1, cr7, calendar, device, marked, directory, preempted>>

(* Drivers are removed, the buses enumerated and vectors assigned.         *)
Enumerate(p) ==
    /\ pc[p] = "enumerate"
    /\ Goto(p, "wake")
    /\ UNCHANGED <<tpr, iflag, irr, isr, cr1, cr7, calendar, device, marked, directory, preempted>>

(* brothers_wake                                                           *)
PokeWake(p) ==
    /\ pc[p] = "wake"
    /\ Poke(p, WAKE)
    /\ Goto(p, "lock")
    /\ UNCHANGED <<tpr, iflag, isr, cr1, cr7, calendar, device, marked, directory, preempted>>

(* Faulty variant: the result of the exchange is not looked at.            *)
StreamInitNoWait(p) ==
    /\ pc[p] = "lock"
    /\ calendar' = 255
    /\ Goto(p, "locked")
    /\ UNCHANGED <<tpr, iflag, irr, isr, cr1, cr7, device, marked, directory, preempted>>

(* getnext_thread: tking->stream_init                                      *)
StreamInit(p) ==
    /\ pc[p] = "lock"
    /\ calendar = 0
    /\ calendar' = 255
    /\ Goto(p, "locked")
    /\ UNCHANGED <<tpr, iflag, irr, isr, cr1, cr7, device, marked, directory, preempted>>

(* getnext_thread found a thread.                                          *)
Found(p) ==
    /\ pc[p] = "locked"
    /\ calendar' = 0
    /\ Goto(p, "chosen")
    /\ UNCHANGED <<tpr, iflag, irr, isr, cr1, cr7, device, marked, directory, preempted>>

(* halt: the stack is copied to the backup in cr1 and the processor stops. *)
(* The NMI_return that ends INTERRUPT_ATOMIC pops the flags from a stack   *)
(* that nothing filled, so the interrupt flag may come out either way.     *)
Halt(p, backup) ==
    /\ cr1' = [cr1 EXCEPT ![p] = backup]
    /\ \E flag \in BOOLEAN : iflag' = [iflag EXCEPT ![p] = flag]
    /\ Goto(p, "hlt")

(* getnext_thread found none: the lock is given back and halt is called as *)
(* a function, so what it backs up is not an interrupt frame.              *)
Idle(p) ==
    /\ pc[p] = "locked"
    /\ calendar' = 0
    /\ Halt(p, "call")
    /\ UNCHANGED <<tpr, irr, isr, cr7, device, marked, directory, preempted>>
-----------------------------------------------------------------------------
(* Interrupts *)

(* A device raises its line at the processor the IO APIC picked.           *)
RaiseDevice(p) ==
    /\ DEVICE \notin irr[p]
    /\ irr' = [irr EXCEPT ![p] = irr[p] \cup {DEVICE}]
    /\ UNCHANGED <<pc, tpr, iflag, isr, cr1, cr7, calendar, device, marked, directory, preempted>>

(* The vector the local APIC delivers next.                                *)
Deliverable(p, v) ==
    /\ v \in irr[p]
    /\ iflag[p]
    /\ Class(v) > tpr[p]
    /\ Class(v) > isr[p]
    /\ \A u \in irr[p] : u <= v

Accept(p, v) ==
    /\ pc[p] # "lost"
    /\ Deliverable(p, v)
    /\ irr' = [irr EXCEPT ![p] = irr[p] \ {v}]
    /\ isr' = [isr EXCEPT ![p] = Class(v)]

(* device_interrupt_handler_template, through an interrupt gate.  When it  *)
(* interrupts ring 0 code at priority 14, that code is stored as the state *)
(* of the thread, to be resumed by whoever picks the thread.               *)
DeviceInterrupt(p) ==
    /\ Accept(p, DEVICE)
    /\ iflag' = [iflag EXCEPT ![p] = FALSE]
    /\ preempted' = (preempted \/ pc[p] \in Raised \cup {"hlt"})
    /\ Goto(p, "irq")
    /\ UNCHANGED <<tpr, cr1, cr7, calendar, device, marked, directory>>

(* Faulty variant: the vector instead of its class reaches cr8.            *)
HighprioHaltVector(p) ==
    /\ Accept(p, HIGHPRIO_SLEEP)
    /\ cr7' = [cr7 EXCEPT ![p] = tpr[p]]
    /\ tpr' = [tpr EXCEPT ![p] = HIGHPRIO_SLEEP]
    /\ Halt(p, pc[p])
    /\ UNCHANGED <<calendar, device, marked, directory, preempted>>

(* highprio_halt: the priority goes to cr7, the interrupted context to the *)
(* backup of halt.                                                         *)
HighprioHalt(p) ==
    /\ Accept(p, HIGHPRIO_SLEEP)
    /\ cr7' = [cr7 EXCEPT ![p] = tpr[p]]
    /\ tpr' = [tpr EXCEPT ![p] = 14]
    /\ Halt(p, pc[p])
    /\ UNCHANGED <<calendar, device, marked, directory, preempted>>

(* wake: the stack backup replaces the frame that is returned to.  Without *)
(* a backup of an interrupt frame the return goes nowhere in particular.   *)
Wake(p) ==
    /\ Accept(p, WAKE)
    /\ tpr' = [tpr EXCEPT ![p] = 14]
    /\ IF cr1[p] \in {"none", "call"}
       THEN Goto(p, "lost") /\ UNCHANGED iflag
       ELSE Goto(p, cr1[p]) /\ iflag' = [iflag EXCEPT ![p] = TRUE]
    /\ cr1' = [cr1 EXCEPT ![p] = "none"]
    /\ UNCHANGED <<cr7, calendar, device, marked, directory, preempted>>
-----------------------------------------------------------------------------
Run(p) ==
    \/ EnterRingzero(p) \/ ExceptionReturn(p) \/ RunRingthree(p) \/ Cli(p) \/ Iretq(p)
    \/ Reschedule(p) \/ TakeMutexes(p) \/ PokeSleep(p) \/ Enumerate(p) \/ PokeWake(p)
    \/ StreamInit(p) \/ Found(p) \/ Idle(p)

Interrupted(p) == DeviceInterrupt(p) \/ HighprioHalt(p) \/ Wake(p)

(* A machine is followed until a device interrupts code at priority 14:    *)
(* what that code does when it is resumed as if it were the thread is not  *)
(* modelled.                                                               *)
Next ==
    /\ ~preempted
    /\ \E p \in Processors : Trap(p) \/ Run(p) \/ RaiseDevice(p) \/ Interrupted(p)

Spec == Init /\ [][Next]_vars

(* Ring 0 code goes on (its spins are steps that wait for a byte), and an  *)
(* interrupt that the local APIC can deliver is delivered.                 *)
FairSpec ==
    Spec /\ \A p \in Processors : /\ WF_vars(~preempted /\ Run(p))
                                  /\ WF_vars(~preempted /\ Interrupted(p))
-----------------------------------------------------------------------------
(* Code that runs at priority 14 is interrupted by no device as long as    *)
(* the directory has at most eleven slots.  (With twelve, the vector of    *)
(* the last is 240, of the class above.)                                   *)
KernelNotPreempted == preempted => directory.slots > 11

(* Until that happens: the lock of the thread pool has one holder at a     *)
(* time; when it is taken and nobody is in getnext_thread's loop, a        *)
(* processor was thrown out of that loop by a WAKE it was not asleep for.  *)
ThreadPoolLock ==
    ~preempted =>
        /\ \A p, q \in Processors : pc[p] = "locked" /\ pc[q] = "locked" => p = q
        /\ (\E p \in Processors : pc[p] = "locked") => calendar = 255
        /\ calendar = 255 => \E p \in Processors : pc[p] \in {"locked", "lost"}

(* A sleep request never stops a processor inside ring 0 code that runs at *)
(* priority 14: not while it holds or waits for the lock of the thread     *)
(* pool or the device mutexes, and not in the middle of reenact_io,        *)
(* however late the request arrives.                                       *)
SleepOutsideRaised ==
    \A p \in Processors : pc[p] = "hlt" => cr1[p] \notin Raised

(* When the device directory has a marked entry, its mutex lets one        *)
(* processor at a time (in fact one ever) re-enumerate the buses.          *)
EnumerationExclusive ==
    marked =>
        \A p, q \in Processors :
           /\ pc[p] \in {"poke", "enumerate", "wake"}
           /\ pc[q] \in {"poke", "enumerate", "wake"}
           => p = q

(* The comment above highprio_halt, halt and wake: "reminder these can     *)
(* only happen in userspace because in kernel we are blocking".            *)
HaltsOnlyInUserspace ==
    \A p \in Processors : pc[p] = "hlt" => cr1[p] = "user"

(* The comment above evaluate_workload: resting processors are woken by    *)
(* "letting IO do it for us".                                              *)
IOWakesProcessors ==
    \A p \in Processors :
        (pc[p] = "hlt" /\ DEVICE \in irr[p]) ~> pc[p] # "hlt"
=============================================================================
