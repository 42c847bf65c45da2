--------------------------- MODULE BarProbeProofs ---------------------------
(***************************************************************************)
(* What is proved of BarProbe for any writable bits, flags and firmware    *)
(* addresses, when a sleep request is taken before enumeration begins.     *)
(***************************************************************************)
EXTENDS BarProbe, SequenceTheorems, TLAPS

(* The registers that set_device_ranges gets round to.                     *)
Jobs == Bars \cup {28, 32, 36, 40, 44, 48}

(* A base address register is writable bits and its fixed ones, and was so *)
(* when its job began: writing it back gives the same register.            *)
Shaped ==
    \A r \in Bars : /\ regs[r] = (regs[r] \cap Address) \cup flags[r]
                    /\ before[r] = (before[r] \cap Address) \cup flags[r]

(* Where get_bar_info can be.                                              *)
Control ==
    /\ jobs \in Seq(Jobs)
    /\ step > 0 => jobs # <<>>
    /\ jobs # <<>> => enum = "probing"
    /\ step > 1 => Head(jobs) \in Bars
    /\ addressed => step > 0

(* A driver is never between the ports while its processor sleeps, and it  *)
(* sleeps while the probe is on: each finds in the latch what it put there. *)
Latched ==
    /\ brother = "asleep" => ~driver
    /\ enum = "probing" => brother = "asleep"
    /\ driver => latch = DRIVER
    /\ addressed => latch = Accessed

(* What has been read is what the job began with.                          *)
Remembered ==
    /\ step \in 2..7 => base = before[Head(jobs)]
    /\ step \in 3..7 => dis = before[COMMAND] \cap 0..15

(* Only the register of the job differs from what it was, and only between *)
(* the write of ones and the write of the base.                            *)
Untouched ==
    \A r \in Bars \cup {COMMAND} :
        regs[r] # before[r] => step \in 5..6 /\ r = Head(jobs)

IInv == TypeOK /\ Shaped /\ Control /\ Latched /\ Remembered /\ Untouched
-----------------------------------------------------------------------------
(* The operators of the model                                              *)

(* The windows of a bridge are six registers of their own.                 *)
LEMMA WindowsAreJobs ==
    /\ Windows \in Seq(Jobs) /\ Len(Windows) = 6
    /\ Registers = Jobs \cup {COMMAND, DRIVER}
<1>1. Len(Windows) = 6 /\ DOMAIN Windows = 1..6  BY DEF Windows
<1>2. /\ Windows[1] = 32 /\ Windows[2] = 28 /\ Windows[3] = 48
      /\ Windows[4] = 36 /\ Windows[5] = 40 /\ Windows[6] = 44
  BY DEF Windows
<1>3. {Windows[i] : i \in DOMAIN Windows} = {28, 32, 36, 40, 44, 48}
  <2>1. \A i \in 1..6 : i \in {1, 2, 3, 4, 5, 6}  OBVIOUS
  <2>. QED  BY <1>1, <1>2, <2>1
<1>4. Windows \in Seq(Jobs)  BY DEF Windows, Jobs
<1>. QED  BY <1>1, <1>3, <1>4 DEF Registers, Jobs

(* What a bridge has to do.                                                *)
LEMMA BridgeJobs ==
    /\ <<16, 20>> \o Windows \in Seq(Jobs)
    /\ Len(<<16, 20>> \o Windows) = 8
    /\ <<16, 20>> \o Windows # <<>>
<1>1. <<16, 20>> \in Seq(Jobs) /\ Len(<<16, 20>>) = 2  BY DEF Jobs, Bars
<1>2. <<16, 20>> \o Windows \in Seq(Jobs)  BY <1>1, WindowsAreJobs
<1>3. Len(<<16, 20>> \o Windows) = 8
  <2>1. Len(<<16, 20>> \o Windows) = Len(<<16, 20>>) + Len(Windows)
    BY ONLY <1>1, WindowsAreJobs, ConcatProperties
  <2>. QED  BY <1>1, <2>1, WindowsAreJobs
<1>. QED  BY <1>2, <1>3

(* get_command: shifting left and right by sixteen keeps the low half.     *)
LEMMA LowHalf ==
    ASSUME NEW w \in SUBSET Ones
    PROVE  Shr(Shl(w, 16), 16) = w \cap 0..15
<1>. DEFINE left == {c \in w : c + 16 < 32}
            up == {b + 16 : b \in left}
<1>0. \A c \in w : c \in 0..31  BY DEF Ones
<1>1. left = w \cap 0..15  BY <1>0
<1>2. {c \in up : c >= 16} = up
  <2>1. \A d \in up : d >= 16  BY <1>0
  <2>. QED  BY <2>1
<1>3. {b - 16 : b \in up} = left
  <2>1. \A b \in left : (b + 16) - 16 = b  BY DEF Ones
  <2>2. \A b \in left : b \in {d - 16 : d \in up}  BY <2>1
  <2>3. \A d \in up : d - 16 \in left  BY <2>1
  <2>. QED  BY <2>2, <2>3
<1>. QED  BY <1>1, <1>2, <1>3 DEF Shr, Shl

(* Shifting the sixteen bits of a command by two and back changes nothing. *)
LEMMA ShiftedBack ==
    ASSUME NEW w \in SUBSET (0..15)
    PROVE  Shr(Shl(w, 2), 2) = w
<1>. DEFINE up == {b + 2 : b \in w}
<1>0. \A c \in w : c \in 0..15  OBVIOUS
<1>1. {c \in w : c + 2 < 32} = w
  <2>1. \A c \in w : c + 2 < 32  BY <1>0
  <2>. QED  BY <2>1
<1>2. {c \in up : c >= 2} = up
  <2>1. \A d \in up : d >= 2  BY <1>0
  <2>. QED  BY <2>1
<1>3. {b - 2 : b \in up} = w
  <2>1. \A b \in w : (b + 2) - 2 = b  OBVIOUS
  <2>2. \A b \in w : b \in {d - 2 : d \in up}  BY <2>1
  <2>3. \A d \in up : d - 2 \in w  BY <2>1
  <2>. QED  BY <2>2, <2>3
<1>. QED  BY <1>1, <1>2, <1>3 DEF Shr, Shl

(* Writing its own low half to the command leaves all of it alone.         *)
LEMMA CommandKept ==
    ASSUME NEW w \in SUBSET Ones
    PROVE  Written(COMMAND, w, w \cap 0..15) = w
  BY DEF Written, COMMAND, Bars, Ones

(* A base address register keeps its fixed bits and takes the others.      *)
LEMMA BarWritten ==
    ASSUME NEW r \in Bars, NEW old, NEW w
    PROVE  Written(r, old, w) = (w \cap Address) \cup flags[r]
<1>1. r # COMMAND  BY DEF Bars, COMMAND
<1>. QED  BY <1>1 DEF Written

(* The driver's register takes what is written.                            *)
LEMMA DriverWritten == \A old, w : Written(DRIVER, old, w) = w
  BY DEF Written, DRIVER, COMMAND, Bars

(* The registers are different ones.                                       *)
LEMMA Distinct ==
    /\ COMMAND \in Registers /\ DRIVER \in Registers /\ Jobs \subseteq Registers
    /\ COMMAND # DRIVER /\ COMMAND \notin Jobs /\ DRIVER \notin Jobs
    /\ Bars \subseteq Jobs
  BY WindowsAreJobs DEF COMMAND, DRIVER, Jobs, Bars

(* The bits of a base address register are bits of a double word.          *)
LEMMA FixedBits ==
    /\ Address \subseteq Ones
    /\ \A f \in BarFlags : f \subseteq Ones /\ f \cap Address = {}
    /\ \A b \in Bases : b \subseteq Address
<1>1. \A n \in 0..3 : n \in Ones /\ n \notin 4..31  BY DEF Ones
<1>2. \A n \in 4..31 : n \in Ones  BY DEF Ones
<1>. QED  BY <1>1, <1>2, BarAssumption

(* Whatever is written, a register of the device stays a set of bits.      *)
LEMMA WrittenType ==
    ASSUME TypeOK, NEW w \in SUBSET Ones
    PROVE  Written(latch, regs[latch], w) \in SUBSET Ones
<1>2. CASE latch \in Bars
  BY <1>2, BarWritten, FixedBits DEF TypeOK
<1>3. CASE latch = COMMAND
  <2>1. Written(latch, regs[latch], w) = (w \cap 0..15) \cup ((regs[latch] \cap 16..31) \ w)
    BY <1>3 DEF Written, COMMAND, Bars
  <2>. QED  BY <2>1 DEF Ones
<1>4. CASE latch \notin Bars /\ latch # COMMAND
  BY <1>4 DEF Written
<1>. QED  BY <1>2, <1>3, <1>4
-----------------------------------------------------------------------------
(* The firmware's device, before any probe.                                *)
LEMMA InitIInv == Init => IInv
<1>. SUFFICES ASSUME Init PROVE IInv
  OBVIOUS
<1>1. PICK b \in [Bars -> Bases] :
        regs = [r \in Registers |->
                  CASE r \in Bars   -> b[r] \cup flags[r]
                    [] r = COMMAND  -> {0, 1, 29}
                    [] OTHER        -> {}]
  BY DEF Init
<1>2. flags \in [Bars -> BarFlags]  BY DEF Init
<1>3. \A r \in Bars : regs[r] = b[r] \cup flags[r]
  BY <1>1, Distinct
<1>4. regs[COMMAND] = {0, 1, 29}
  BY <1>1, Distinct
<1>5. \A r \in Registers : r \notin Bars /\ r # COMMAND => regs[r] = {}
  BY <1>1
<1>6. regs \in [Registers -> SUBSET Ones]
  <2>1. \A r \in Bars : regs[r] \in SUBSET Ones
    BY <1>2, <1>3, FixedBits
  <2>2. regs[COMMAND] \in SUBSET Ones  BY <1>4 DEF Ones
  <2>3. \A r \in Registers : regs[r] \in SUBSET Ones
    BY <1>5, <2>1, <2>2
  <2>4. regs = [r \in Registers |-> regs[r]]  BY <1>1
  <2>. QED  BY <2>3, <2>4
<1>7. TypeOK
  <2>1. addressed \in BOOLEAN /\ wide \in BOOLEAN /\ second \in BOOLEAN /\ driver \in BOOLEAN
    BY Zenon DEF Init
  <2>2. jobs \in Seq(Registers) /\ Len(jobs) <= 2 + Len(Windows)
    BY WindowsAreJobs DEF Init
  <2>. QED  BY <1>2, <1>6, <2>1, <2>2, Distinct DEF Init, TypeOK
<1>8. Shaped
  BY <1>2, <1>3, FixedBits DEF Shaped, Init
<1>9. Control  BY DEF Init, Control
<1>10. Latched  BY DEF Init, Latched
<1>11. Remembered  BY DEF Init, Remembered
<1>12. Untouched  BY DEF Init, Untouched
<1>. QED  BY <1>7, <1>8, <1>9, <1>10, <1>11, <1>12 DEF IInv

(* Sleeping, waking and the driver's first port leave the probe alone.     *)
LEMMA BrotherStep ==
    ASSUME Prompt, IInv, Poke \/ TakeSleep \/ BrothersWake \/ DriverAddress
    PROVE  IInv'
<1>. USE DEF IInv
<1>1. UNCHANGED <<regs, flags, headtype, probe>>
  BY DEF Poke, TakeSleep, BrothersWake, DriverAddress
<1>2. TypeOK'
  <2>1. driver' \in BOOLEAN
    BY Zenon DEF TypeOK, Poke, TakeSleep, BrothersWake, DriverAddress
  <2>2. /\ latch' \in Registers
        /\ enum' \in {"idle", "poked", "probing"}
        /\ brother' \in {"running", "asked", "asleep"}
    BY Distinct DEF TypeOK, Poke, TakeSleep, BrothersWake, DriverAddress
  <2>. QED  BY <1>1, <2>1, <2>2 DEF TypeOK, probe
<1>3. Shaped'  BY <1>1 DEF Shaped, probe
<1>4. Control'
  <2>1. jobs # <<>> => enum' = "probing"
    BY DEF Control, TypeOK, Poke, TakeSleep, BrothersWake, DriverAddress
  <2>. QED  BY <1>1, <2>1 DEF Control, probe
<1>5. Latched'
  <2>1. CASE Poke
    BY <2>1, <1>1 DEF Poke, Latched, Control, Accessed, probe
  <2>2. CASE TakeSleep
    BY <2>2, <1>1 DEF TakeSleep, Latched, Accessed, probe
  <2>3. CASE BrothersWake
    BY <2>3, <1>1 DEF BrothersWake, Latched, Control, Accessed, probe
  <2>4. CASE DriverAddress
    <3>1. ~addressed
      BY <2>4 DEF DriverAddress, Latched, Control
    <3>. QED  BY <2>4, <1>1, <3>1 DEF DriverAddress, Latched, probe
  <2>. QED  BY <2>1, <2>2, <2>3, <2>4
<1>6. Remembered'  BY <1>1 DEF Remembered, probe
<1>7. Untouched'  BY <1>1 DEF Untouched, probe
<1>. QED  BY <1>2, <1>3, <1>4, <1>5, <1>6, <1>7

(* A driver's double word goes to the driver's register, not to one of the *)
(* probe's.                                                                *)
LEMMA DriverStep ==
    ASSUME IInv, DriverData
    PROVE  IInv'
<1>. USE DEF IInv
<1>1. PICK w \in {{}, {0}} : Store(w)  BY DEF DriverData
<1>2. latch = DRIVER  BY DEF DriverData, Latched
<1>3. regs' = [regs EXCEPT ![DRIVER] = w]
  BY <1>1, <1>2, DriverWritten DEF Store
<1>4. \A r \in Registers \ {DRIVER} : regs'[r] = regs[r]
  BY <1>3 DEF TypeOK
<1>5. UNCHANGED <<flags, headtype, latch, probe, enum, brother>>
  BY DEF DriverData
<1>6. TypeOK'
  <2>1. driver' \in BOOLEAN  BY Zenon DEF DriverData
  <2>2. w \in SUBSET Ones  BY DEF Ones
  <2>3. regs' \in [Registers -> SUBSET Ones]  BY <1>3, <2>2 DEF TypeOK
  <2>. QED  BY <1>5, <2>1, <2>3 DEF TypeOK, probe
<1>7. Shaped'  BY <1>4, <1>5, Distinct DEF Shaped, probe
<1>8. Control'  BY <1>5 DEF Control, probe
<1>9. Latched'  BY <1>5 DEF Latched, DriverData, Accessed, probe
<1>10. Remembered'  BY <1>5 DEF Remembered, probe
<1>11. Untouched'  BY <1>4, <1>5, Distinct DEF Untouched, probe
<1>. QED  BY <1>6, <1>7, <1>8, <1>9, <1>10, <1>11

(* set_device_ranges and the loop in it hand out registers.                *)
LEMMA RangesStep ==
    ASSUME Prompt, IInv, SetDeviceRanges \/ Again \/ BeginJob
    PROVE  IInv'
<1>. USE DEF IInv
<1>1. UNCHANGED <<regs, flags, headtype, latch, addressed, base, dis, brother, driver>>
  BY DEF SetDeviceRanges, Again, BeginJob
<1>2. ~addressed
  BY DEF SetDeviceRanges, Again, BeginJob, Control, TypeOK
<1>3. <<16>> \in Seq(Jobs) /\ Len(<<16>>) = 1 /\ <<16>> # <<>>
  BY DEF Jobs, Bars
<1>4. CASE SetDeviceRanges \/ Again
  <2>1. /\ UNCHANGED <<step, wide, second, before>>
        /\ step = 0 /\ enum' = "probing" /\ brother = "asleep"
    <3>1. CASE SetDeviceRanges
      <4>1. brother = "asleep"  BY Zenon, <3>1 DEF SetDeviceRanges
      <4>. QED  BY <3>1, <4>1 DEF SetDeviceRanges, Control, TypeOK
    <3>2. CASE Again
      BY <3>2 DEF Again, Latched
    <3>. QED  BY <1>4, <3>1, <3>2
  <2>2. jobs' = <<16>> \/ jobs' = <<16, 20>> \o Windows
    BY <1>4 DEF SetDeviceRanges, Again
  <2>3. jobs' \in Seq(Jobs) /\ Len(jobs') <= 8
    <3>1. CASE jobs' = <<16>>  BY <3>1, <1>3
    <3>2. CASE jobs' = <<16, 20>> \o Windows
      <4>1. jobs' \in Seq(Jobs) /\ Len(jobs') = 8  BY Zenon, <3>2, BridgeJobs
      <4>. QED  BY <4>1
    <3>. QED  BY Zenon, <2>2, <3>1, <3>2
  <2>4. TypeOK'
    <3>1. jobs' \in Seq(Registers) /\ Len(jobs') <= 2 + Len(Windows)
      BY <2>3, WindowsAreJobs, Distinct
    <3>. QED  BY <1>1, <2>1, <3>1 DEF TypeOK
  <2>5. Shaped'  BY <1>1, <2>1 DEF Shaped
  <2>6. Control'  BY <1>1, <1>2, <2>1, <2>3 DEF Control
  <2>7. Latched'  BY <1>1, <1>2, <2>1 DEF Latched
  <2>8. Remembered'  BY <2>1 DEF Remembered
  <2>9. Untouched'  BY <1>1, <2>1 DEF Untouched
  <2>. QED  BY <2>4, <2>5, <2>6, <2>7, <2>8, <2>9
<1>5. CASE BeginJob
  <2>1. /\ step' = 1 /\ before' = regs
        /\ UNCHANGED <<jobs, enum>> /\ jobs # <<>>
    BY <1>5 DEF BeginJob
  <2>2. TypeOK'
    <3>1. wide' \in BOOLEAN /\ second' \in BOOLEAN  BY Zenon, <1>5 DEF BeginJob
    <3>. QED  BY <1>1, <2>1, <3>1 DEF TypeOK
  <2>3. Shaped'  BY <1>1, <2>1 DEF Shaped
  <2>4. Control'  BY <1>1, <1>2, <2>1 DEF Control
  <2>5. Latched'  BY <1>1, <1>2, <2>1 DEF Latched
  <2>6. Remembered'  BY <2>1 DEF Remembered
  <2>7. Untouched'  BY <1>1, <2>1 DEF Untouched
  <2>. QED  BY <2>2, <2>3, <2>4, <2>5, <2>6, <2>7
<1>. QED  BY <1>4, <1>5

(* The first port of an access of the probe.                               *)
LEMMA AddressStep ==
    ASSUME Prompt, IInv, OutAddress
    PROVE  IInv'
<1>. USE DEF IInv
<1>1. /\ UNCHANGED <<regs, flags, headtype, jobs, step, wide, second, base, dis,
                     before, enum, brother, driver>>
      /\ latch' = Accessed
      /\ step > 0
  BY DEF OutAddress
<1>2. /\ jobs \in Seq(Jobs) /\ jobs # <<>> /\ ~driver
  BY <1>1 DEF Control, Latched
<1>3. Head(jobs) \in Jobs  BY <1>2
<1>4. TypeOK'
  <2>1. addressed' \in BOOLEAN  BY Zenon DEF OutAddress
  <2>2. latch' \in Registers  BY <1>1, <1>3, Distinct DEF Accessed
  <2>. QED  BY <1>1, <2>1, <2>2 DEF TypeOK
<1>5. Shaped'  BY <1>1 DEF Shaped
<1>6. Control'  BY <1>1 DEF Control
<1>7. Latched'  BY <1>1, <1>2 DEF Latched, Accessed
<1>8. Remembered'  BY <1>1 DEF Remembered
<1>9. Untouched'  BY <1>1 DEF Untouched
<1>. QED  BY <1>4, <1>5, <1>6, <1>7, <1>8, <1>9

(* What the second port of an access does to the course of the probe.      *)
LEMMA AdvanceStep ==
    ASSUME IInv, addressed, Advance
    PROVE  /\ ~addressed' /\ UNCHANGED <<flags, headtype, latch, before, enum, brother, driver>>
           /\ addressed' \in BOOLEAN /\ second' \in BOOLEAN
           /\ step' \in 0..7
           /\ jobs \in Seq(Jobs) /\ jobs # <<>> /\ Head(jobs) \in Jobs /\ step \in 1..7
           /\ \/ step' = 0 /\ jobs' = Tail(jobs) /\ (Head(jobs) \notin Bars \/ step = 7)
              \/ step' = 1 /\ jobs' = jobs /\ step = 7 /\ Head(jobs) \in Bars
              \/ step' = step + 1 /\ jobs' = jobs /\ step < 7 /\ Head(jobs) \in Bars
<1>. USE DEF IInv
<1>1. addressed' = FALSE /\ second' = (second \/ step = 7)
  BY Zenon DEF Advance
<1>2. addressed' \in BOOLEAN /\ second' \in BOOLEAN  BY Zenon, <1>1
<1>3. jobs \in Seq(Jobs) /\ jobs # <<>> /\ step \in 1..7
  BY DEF Control, TypeOK
<1>4. Head(jobs) \in Jobs  BY <1>3
<1>5. \/ step' = 0 /\ jobs' = Tail(jobs) /\ (Head(jobs) \notin Bars \/ step = 7)
      \/ step' = 1 /\ jobs' = jobs /\ step = 7 /\ Head(jobs) \in Bars
      \/ step' = step + 1 /\ jobs' = jobs /\ step < 7 /\ Head(jobs) \in Bars
  BY <1>3 DEF Advance
<1>6. UNCHANGED <<flags, headtype, latch, before, enum, brother, driver>>
  BY DEF Advance
<1>7. step' \in 0..7  BY <1>3, <1>5
<1>. QED  BY <1>1, <1>2, <1>3, <1>4, <1>5, <1>6, <1>7

(* The types and the control after an access.                              *)
LEMMA AfterAccess ==
    ASSUME IInv, addressed, Advance,
           regs' \in [Registers -> SUBSET Ones], base' \in SUBSET Ones,
           dis' \in SUBSET Ones, wide' \in BOOLEAN
    PROVE  TypeOK' /\ Control' /\ Latched'
<1>. USE DEF IInv
<1>1. jobs' \in Seq(Jobs) /\ Len(jobs') <= Len(jobs)
  <2>1. CASE jobs' = jobs  BY <2>1, AdvanceStep DEF TypeOK
  <2>2. CASE jobs' = Tail(jobs)
    BY <2>2, AdvanceStep, HeadTailProperties
  <2>. QED  BY <2>1, <2>2, AdvanceStep
<1>2. TypeOK'
  <2>1. jobs' \in Seq(Registers)  BY <1>1, Distinct
  <2>2. Len(jobs') <= 2 + Len(Windows)
    BY <1>1, WindowsAreJobs, AdvanceStep DEF TypeOK
  <2>. QED  BY AdvanceStep, <2>1, <2>2 DEF TypeOK
<1>3. Control'
  BY <1>1, AdvanceStep DEF Control
<1>4. Latched'
  BY AdvanceStep DEF Latched
<1>. QED  BY <1>2, <1>3, <1>4

(* Reading through the second port: the base, the command or the size.     *)
LEMMA ReadStep ==
    ASSUME IInv, InData
    PROVE  IInv'
<1>. USE DEF IInv
<1>1. addressed /\ step \in {1, 2, 5} /\ Advance /\ UNCHANGED regs  BY DEF InData
<1>2. latch = Accessed  BY <1>1 DEF Latched
<1>3. regs[latch] \in SUBSET Ones  BY DEF TypeOK
<1>4. Shr(Shl(regs[latch], 16), 16) = regs[latch] \cap 0..15
  BY <1>3, LowHalf
<1>5. /\ base' \in SUBSET Ones /\ dis' \in SUBSET Ones
      /\ step = 1 => base' = regs[latch] /\ dis' = dis
      /\ step # 1 => base' = base
      /\ step = 2 => dis' = regs[latch] \cap 0..15
      /\ step = 5 => dis' = dis
  BY <1>3, <1>4 DEF InData, TypeOK
<1>6. wide' \in BOOLEAN
  BY Zenon DEF InData, TypeOK
<1>7. TypeOK' /\ Control' /\ Latched'
  BY <1>1, <1>5, <1>6, AfterAccess DEF TypeOK
<1>8. Shaped'  BY <1>1, AdvanceStep DEF Shaped
<1>9. Remembered'
  <2>1. CASE step = 1
    <3>1. latch = Head(jobs)  BY <1>2, <2>1 DEF Accessed
    <3>2. Head(jobs) \in Bars => regs[latch] = before[Head(jobs)]
      BY <2>1, <3>1 DEF Untouched
    <3>. QED  BY <1>1, <1>5, <2>1, <3>1, <3>2, AdvanceStep DEF Remembered
  <2>2. CASE step = 2
    <3>1. latch = COMMAND  BY <1>2, <2>2 DEF Accessed
    <3>2. regs[COMMAND] = before[COMMAND]  BY <2>2 DEF Untouched
    <3>. QED  BY <1>1, <1>5, <2>2, <3>1, <3>2, AdvanceStep DEF Remembered, Control
  <2>3. CASE step = 5
    BY <1>1, <1>5, <2>3, AdvanceStep DEF Remembered, Control
  <2>. QED  BY <1>1, <2>1, <2>2, <2>3
<1>10. Untouched'
  BY <1>1, AdvanceStep DEF Untouched, Control
<1>. QED  BY <1>7, <1>8, <1>9, <1>10

(* Writing through the second port: ones and back, the command as it was.  *)
LEMMA WriteStep ==
    ASSUME IInv, OutData
    PROVE  IInv'
<1>. USE DEF IInv
<1>1. /\ addressed /\ step \in {3, 4, 6, 7} /\ Advance
      /\ UNCHANGED <<base, dis, wide>> /\ Store(Contents)
  BY DEF OutData
<1>2. latch = Accessed /\ Head(jobs) \in Bars  BY <1>1 DEF Latched, Control
<1>3. /\ base = before[Head(jobs)] /\ (step # 2 => dis = before[COMMAND] \cap 0..15)
  BY <1>1 DEF Remembered
<1>4. dis \in SUBSET (0..15) /\ Shr(Shl(dis, 2), 2) = dis
  BY <1>1, <1>3, ShiftedBack
<1>5. regs' = [regs EXCEPT ![latch] = Written(latch, regs[latch], Contents)]
  BY <1>1 DEF Store
<1>6. CASE step \in {3, 7}
  <2>1. latch = COMMAND  BY <1>2, <1>6 DEF Accessed
  <2>2. Contents = dis  BY <1>4, <1>6 DEF Contents
  <2>3. regs[COMMAND] = before[COMMAND]  BY <1>6 DEF Untouched
  <2>4. regs[COMMAND] \in SUBSET Ones  BY Distinct DEF TypeOK
  <2>5. Written(latch, regs[latch], Contents) = regs[latch]
    BY <1>1, <1>3, <2>1, <2>2, <2>3, <2>4, CommandKept
  <2>6. regs' = regs  BY <1>5, <2>5 DEF TypeOK
  <2>7. TypeOK' /\ Control' /\ Latched'
    BY <1>1, <2>6, AfterAccess DEF TypeOK
  <2>8. Shaped'  BY <1>1, <2>6, AdvanceStep DEF Shaped
  <2>9. Remembered'  BY <1>1, <1>3, <1>6, AdvanceStep DEF Remembered
  <2>10. Untouched'  BY <1>1, <1>6, <2>6, AdvanceStep DEF Untouched
  <2>. QED  BY <2>7, <2>8, <2>9, <2>10
<1>7. CASE step \in {4, 6}
  <2>1. latch = Head(jobs)  BY <1>2, <1>7 DEF Accessed
  <2>2. Contents = (IF step = 4 THEN Ones ELSE base)  BY <1>7 DEF Contents
  <2>3. Contents \in SUBSET Ones  BY <2>2 DEF TypeOK
  <2>4. Written(latch, regs[latch], Contents) = (Contents \cap Address) \cup flags[latch]
    BY <1>2, <2>1, BarWritten
  <2>5. regs' \in [Registers -> SUBSET Ones]
    BY <1>5, <2>3, WrittenType DEF TypeOK
  <2>6. /\ regs'[latch] = (Contents \cap Address) \cup flags[latch]
        /\ \A r \in Registers : r # latch => regs'[r] = regs[r]
    BY <1>5, <2>4 DEF TypeOK
  <2>7. TypeOK' /\ Control' /\ Latched'
    BY <1>1, <2>5, AfterAccess DEF TypeOK
  <2>8. Shaped'
    BY <1>1, <1>2, <2>1, <2>6, AdvanceStep, Distinct DEF Shaped
  <2>9. Remembered'
    BY <1>1, <1>3, <1>7, AdvanceStep DEF Remembered
  <2>10. Untouched'
    <3>1. CASE step = 4
      BY <1>1, <1>2, <2>1, <2>6, <3>1, AdvanceStep, Distinct DEF Untouched
    <3>2. CASE step = 6
      <4>1. regs'[latch] = before[latch]
        BY <1>2, <1>3, <2>1, <2>2, <2>6, <3>2 DEF Shaped
      <4>. QED
        BY <1>1, <1>2, <2>1, <2>6, <3>2, <4>1, AdvanceStep, Distinct DEF Untouched
    <3>. QED  BY <1>7, <3>1, <3>2
  <2>. QED  BY <2>7, <2>8, <2>9, <2>10
<1>. QED  BY <1>1, <1>6, <1>7

(* Every step keeps the invariant.                                         *)
LEMMA StepIInv == ASSUME Prompt PROVE IInv /\ [Next]_vars => IInv'
<1>. SUFFICES ASSUME IInv, [Next]_vars PROVE IInv'
  OBVIOUS
<1>1. CASE Next
  BY <1>1, BrotherStep, DriverStep, RangesStep, AddressStep, ReadStep, WriteStep DEF Next
<1>2. CASE UNCHANGED vars
  <2>. USE <1>2 DEF IInv, vars, probe
  <2>1. TypeOK'  BY DEF TypeOK
  <2>2. Shaped'  BY DEF Shaped
  <2>3. Control'  BY DEF Control
  <2>4. Latched'  BY DEF Latched, Accessed
  <2>5. Remembered'  BY DEF Remembered
  <2>6. Untouched'  BY DEF Untouched
  <2>. QED  BY <2>1, <2>2, <2>3, <2>4, <2>5, <2>6
<1>. QED  BY <1>1, <1>2
-----------------------------------------------------------------------------
(* Asleep brothers keep out of the probe, which knows what it has to put   *)
(* back: the strengthened invariant holds in every reachable state.        *)
THEOREM Invariance == Prompt => (Spec => []IInv)
<1>. SUFFICES ASSUME Prompt PROVE Spec => []IInv
  OBVIOUS
<1>1. IInv /\ [Next]_vars => IInv'  BY StepIInv
<1>. QED  BY <1>1, InitIInv, PTL DEF Spec

(* Every variable keeps its type.                                          *)
THEOREM TypeCorrect == Prompt => (Spec => []TypeOK)
<1>. SUFFICES ASSUME Prompt PROVE Spec => []TypeOK
  OBVIOUS
<1>1. IInv => TypeOK  BY DEF IInv
<1>. QED  BY <1>1, Invariance, PTL

(* get_bar_info is right to say that it restores everything, as long as no *)
(* driver uses the ports meanwhile.                                        *)
THEOREM Restores == Prompt => (Spec => []ProbeRestores)
<1>. SUFFICES ASSUME Prompt PROVE Spec => []ProbeRestores
  OBVIOUS
<1>1. IInv => ProbeRestores  BY DEF IInv, TypeOK, Untouched, ProbeRestores
<1>. QED  BY <1>1, Invariance, PTL

(* While it probes, one base address register at most is not what it was,  *)
(* and the command always is.                                              *)
THEOREM OneBarDisturbed == Prompt => (Spec => []DisturbsOneBar)
<1>. SUFFICES ASSUME Prompt PROVE Spec => []DisturbsOneBar
  OBVIOUS
<1>1. IInv => DisturbsOneBar
  BY DEF IInv, TypeOK, Control, Untouched, DisturbsOneBar
<1>. QED  BY <1>1, Invariance, PTL
=============================================================================
