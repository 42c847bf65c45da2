------------------------------ MODULE BarProbe ------------------------------
(***************************************************************************)
(* How enumeration measures the ranges of a device: set_device_ranges and  *)
(* get_bar_info of pci.cpp, access by access through the pair of ports     *)
(* 0xcf8 and 0xcfc, which boot_read and boot_write use without the lock.   *)
(* reenact_io asks the brothers to sleep before it enumerates and does not *)
(* wait for them; one of them may be inside PciKing::write for its driver. *)
(*                                                                         *)
(* A register is the set of its bits that are one.  The ranges that are    *)
(* computed from what is read are left out, the reads are not.             *)
(***************************************************************************)
EXTENDS Naturals, Sequences

CONSTANTS BarFlags,    \* the fixed low bits that a base address register may have
          Address,     \* the bits of it that can be written
          Bases,       \* the addresses the firmware may have put there
          Prompt       \* TRUE: a sleep request is taken before enumeration begins

ASSUME BarAssumption ==
    /\ BarFlags \subseteq SUBSET (0..3)
    /\ Address \subseteq 4..31
    /\ Bases \subseteq SUBSET Address
ASSUME PromptAssumption == Prompt \in BOOLEAN

COMMAND == 4
Bars == {16, 20}
Windows == <<32, 28, 48, 36, 40, 44>>    \* read for a bridge, in this order
DRIVER == 64                             \* the register of the driver
Registers == Bars \cup {COMMAND, DRIVER} \cup {Windows[i] : i \in DOMAIN Windows}

Shl(w, n) == {b + n : b \in {c \in w : c + n < 32}}
Shr(w, n) == {b - n : b \in {c \in w : c >= n}}
Ones == 0..31

VARIABLES regs,       \* configuration space of the device
          flags,      \* the fixed bits of its base address registers
          headtype,   \* 0, or 1 for a bridge
          latch,      \* the register selected at 0xcf8
          jobs,       \* registers that set_device_ranges has still to do
          step,       \* the access of the current job, 0 before and after
          addressed,  \* whether its address is out and its data is not
          wide,       \* get_bar_info goes round again
          second,     \* ... and is in that second round (or = 32)
          base, dis,  \* what it has read
          enum,       \* the enumerating processor: idle, poked, probing
          brother,    \* the other one: running, asked to sleep, asleep
          driver,     \* whether it is between the two ports
          before      \* history: the registers when the job began

probe == <<jobs, step, addressed, wide, second, base, dis, before>>
vars == <<regs, flags, headtype, latch, probe, enum, brother, driver>>

TypeOK ==
    /\ regs \in [Registers -> SUBSET Ones]
    /\ flags \in [Bars -> BarFlags]
    /\ headtype \in 0..1
    /\ latch \in Registers
    /\ jobs \in Seq(Registers) /\ Len(jobs) <= 2 + Len(Windows)
    /\ step \in 0..7
    /\ addressed \in BOOLEAN /\ wide \in BOOLEAN /\ second \in BOOLEAN
    /\ base \in SUBSET Ones /\ dis \in SUBSET Ones
    /\ enum \in {"idle", "poked", "probing"}
    /\ brother \in {"running", "asked", "asleep"}
    /\ driver \in BOOLEAN
    /\ before \in [Registers -> SUBSET Ones]

(* The firmware has set the device up and enabled its memory and ports.    *)
Init ==
    /\ flags \in [Bars -> BarFlags]
    /\ \E b \in [Bars -> Bases] :
          regs = [r \in Registers |->
                    CASE r \in Bars   -> b[r] \cup flags[r]
                      [] r = COMMAND  -> {0, 1, 29}
                      [] OTHER        -> {}]
    /\ headtype \in 0..1
    /\ latch = COMMAND
    /\ jobs = <<>> /\ step = 0
    /\ addressed = FALSE /\ wide = FALSE /\ second = FALSE
    /\ base = {} /\ dis = {}
    /\ enum = "idle" /\ brother = "running" /\ driver = FALSE
    /\ before = regs

(* What the device makes of a write: a base address register keeps its     *)
(* fixed bits, the status half of the command register clears ones.        *)
Written(r, old, w) ==
    CASE r \in Bars  -> (w \cap Address) \cup flags[r]
      [] r = COMMAND -> (w \cap 0..15) \cup ((old \cap 16..31) \ w)
      [] OTHER       -> w

Store(w) == regs' = [regs EXCEPT ![latch] = Written(latch, @, w)]
-----------------------------------------------------------------------------
(* highprio_brothers_sleep                                                 *)
Poke ==
    /\ enum = "idle"
    /\ enum' = "poked"
    /\ brother' = IF brother = "running" THEN "asked" ELSE brother
    /\ UNCHANGED <<regs, flags, headtype, latch, probe, driver>>

(* The brother takes the request once it has left the kernel.              *)
TakeSleep ==
    /\ brother = "asked" /\ ~driver
    /\ brother' = "asleep"
    /\ UNCHANGED <<regs, flags, headtype, latch, probe, enum, driver>>

(* set_device_ranges                                                       *)
SetDeviceRanges ==
    /\ enum = "poked"
    /\ Prompt => brother = "asleep"
    /\ enum' = "probing"
    /\ jobs' = IF headtype = 0 THEN <<16>> ELSE <<16, 20>> \o Windows
    /\ UNCHANGED <<regs, flags, headtype, latch, step, addressed, wide, second,
                   base, dis, before, brother, driver>>

(* get_bar_info has no return statement: for an ordinary device the index  *)
(* it moves on by is anything, and the register stays the first one.       *)
Again ==
    /\ enum = "probing" /\ step = 0 /\ jobs = <<>> /\ headtype = 0
    /\ jobs' = <<16>>
    /\ UNCHANGED <<regs, flags, headtype, latch, step, addressed, wide, second,
                   base, dis, before, enum, brother, driver>>

(* The end of the enumeration and brothers_wake.                           *)
BrothersWake ==
    /\ enum = "probing" /\ step = 0 /\ jobs = <<>>
    /\ enum' = "idle"
    /\ brother' = IF brother = "asleep" THEN "running" ELSE brother
    /\ UNCHANGED <<regs, flags, headtype, latch, probe, driver>>

(* A register's turn: a base address register takes seven accesses, a      *)
(* window one.                                                             *)
BeginJob ==
    /\ enum = "probing" /\ step = 0 /\ jobs # <<>>
    /\ step' = 1
    /\ wide' = FALSE /\ second' = FALSE
    /\ before' = regs
    /\ UNCHANGED <<regs, flags, headtype, latch, jobs, addressed, base, dis, enum,
                   brother, driver>>

(* The register of an access: base; command, read and written; base, with  *)
(* ones, read back, restored; command restored.                            *)
Accessed == IF step \in {2, 3, 7} THEN COMMAND ELSE Head(jobs)

(* Faulty variant: the address of the command register is not sent again.  *)
OutAddressOnce ==
    /\ step > 0 /\ ~addressed
    /\ latch' = IF step = 3 THEN latch ELSE IF step = 7 THEN Head(jobs) ELSE Accessed
    /\ addressed' = TRUE
    /\ UNCHANGED <<regs, flags, headtype, jobs, step, wide, second, base, dis, before,
                   enum, brother, driver>>

(* The first port of boot_read and boot_write.                             *)
OutAddress ==
    /\ step > 0 /\ ~addressed
    /\ latch' = Accessed
    /\ addressed' = TRUE
    /\ UNCHANGED <<regs, flags, headtype, jobs, step, wide, second, base, dis, before,
                   enum, brother, driver>>

(* Faulty variant: the second round does not begin with the base again.    *)
AdvanceOn ==
    LET last == Head(jobs) \notin Bars \/ (step = 7 /\ (second \/ ~wide))
    IN  /\ addressed' = FALSE
        /\ step' = IF last THEN 0 ELSE step + 1
        /\ second' = (second \/ step = 7)
        /\ jobs' = IF last THEN Tail(jobs) ELSE jobs
        /\ UNCHANGED <<flags, headtype, latch, before, enum, brother, driver>>

(* Faulty variant: `or` is not counted up, every round is the first one.   *)
AdvanceForever ==
    LET last == Head(jobs) \notin Bars \/ (step = 7 /\ ~wide)
    IN  /\ addressed' = FALSE
        /\ step' = IF last THEN 0 ELSE IF step = 7 THEN 1 ELSE step + 1
        /\ jobs' = IF last THEN Tail(jobs) ELSE jobs
        /\ UNCHANGED <<flags, headtype, latch, second, before, enum, brother, driver>>

(* After a window, or after the last access of a bar that does not go      *)
(* round again, the register is done.                                      *)
Advance ==
    LET last == Head(jobs) \notin Bars \/ (step = 7 /\ (second \/ ~wide))
    IN  /\ addressed' = FALSE
        /\ step' = IF last THEN 0 ELSE IF step = 7 THEN 1 ELSE step + 1
        /\ second' = (second \/ step = 7)
        /\ jobs' = IF last THEN Tail(jobs) ELSE jobs
        /\ UNCHANGED <<flags, headtype, latch, before, enum, brother, driver>>

(* boot_read: of the base, where (base & 3) in a memory bar means 64 bits; *)
(* of the command; of the size.                                            *)
InData ==
    /\ addressed /\ step \in {1, 2, 5}
    /\ IF step = 1
       THEN /\ base' = regs[latch]
            /\ wide' = (wide \/ (0 \notin base' /\ base' \cap {0, 1} # {}))
            /\ UNCHANGED dis
       ELSE /\ dis' = IF step = 2 THEN Shr(Shl(regs[latch], 16), 16) ELSE dis
            /\ UNCHANGED <<base, wide>>
    /\ Advance
    /\ UNCHANGED regs

(* Faulty variant: the base is not put back after its size was read.       *)
ContentsLost ==
    CASE step = 3 -> Shr(Shl(dis, 2), 2)
      [] step \in {4, 6} -> Ones
      [] step = 7 -> dis

(* What boot_write sends.                                                  *)
Contents ==
    CASE step = 3 -> Shr(Shl(dis, 2), 2)
      [] step = 4 -> Ones
      [] step = 6 -> base
      [] step = 7 -> dis

OutData ==
    /\ addressed /\ step \in {3, 4, 6, 7}
    /\ Store(Contents)
    /\ Advance
    /\ UNCHANGED <<base, dis, wide>>
-----------------------------------------------------------------------------
(* One element of PciKing::write by the brother, for a register of its own. *)
DriverAddress ==
    /\ brother # "asleep" /\ ~driver
    /\ latch' = DRIVER
    /\ driver' = TRUE
    /\ UNCHANGED <<regs, flags, headtype, probe, enum, brother>>

DriverData ==
    /\ brother # "asleep" /\ driver
    /\ \E w \in {{}, {0}} : Store(w)
    /\ driver' = FALSE
    /\ UNCHANGED <<flags, headtype, latch, probe, enum, brother>>

Next ==
    \/ Poke \/ TakeSleep \/ SetDeviceRanges \/ Again \/ BrothersWake
    \/ BeginJob \/ OutAddress \/ InData \/ OutData
    \/ DriverAddress \/ DriverData

Spec == Init /\ [][Next]_vars

(* The accesses of the probe are port instructions of one processor at     *)
(* priority 14: they take no lock and wait for nobody.                     *)
FairSpec == Spec /\ WF_vars(OutAddress \/ InData \/ OutData)
-----------------------------------------------------------------------------
(* "restoring everything": when get_bar_info is done with a register, the  *)
(* base address registers and the command are what they were.              *)
ProbeRestores ==
    step = 0 => \A r \in Bars \cup {COMMAND} : regs[r] = before[r]

(* While a bar is full of ones, or not yet back, the other registers are   *)
(* as they were: the probe disturbs one bar at a time and never the status *)
(* half of the command.                                                    *)
DisturbsOneBar ==
    \A r \in (Bars \cup {COMMAND}) \ (IF jobs = <<>> THEN {} ELSE {Head(jobs)}) :
        regs[r] = before[r]

(* get_bar_info comes to an end: "no such thing as a 96 bit BAR", the loop *)
(* that a 64 bit register prolongs is not prolonged by what its second     *)
(* round reads, and the register's turn is over.                           *)
ProbeEnds == step > 0 ~> step = 0
=============================================================================
