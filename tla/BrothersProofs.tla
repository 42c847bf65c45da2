--------------------------- MODULE BrothersProofs ---------------------------
(***************************************************************************)
(* What is proved of Brothers for any set of processors and any size of    *)
(* the device directory.                                                   *)
(***************************************************************************)
EXTENDS Brothers, TLAPS

(* Between enter_ringzero and set_task_priority(0) the priority is 14.     *)
KernelPriority == \A p \in Processors : pc[p] \in Raised => tpr[p] = 14

(* A backup of an interrupted context is never one of ring 0 code at       *)
(* priority 14, and exists only while its processor is stopped, which it   *)
(* is at priority 14: only wake, which consumes the backup, or a device    *)
(* that preempts it gets it going.                                         *)
Backups ==
    \A p \in Processors :
        /\ cr1[p] \notin Raised
        /\ cr1[p] \notin {"none", "call"} => pc[p] = "hlt" \/ preempted
        /\ pc[p] = "hlt" => tpr[p] = 14

(* Whoever is past the mutexes of reenact_io left them taken.              *)
MutexesTaken ==
    marked /\ (\E p \in Processors : pc[p] \in {"poke", "enumerate", "wake"})
        => device = 255

(* SleepOutsideRaised rests on the priority of the interrupted code, which *)
(* is KernelPriority; the last part of ThreadPoolLock on Backups, since a  *)
(* wake that found a stale backup in the middle of getnext_thread would    *)
(* leave the lock taken with no holder to name.                            *)
IInv ==
    /\ TypeOK /\ KernelPriority /\ Backups /\ MutexesTaken
    /\ ThreadPoolLock /\ EnumerationExclusive /\ KernelNotPreempted

(* The vector of a device is a number that is none of the sleep requests'. *)
LEMMA DeviceRange ==
    ASSUME directory \in Devices
    PROVE  DEVICE \in Nat /\ DEVICE # HIGHPRIO_SLEEP
  <1>1. directory.slots \in Nat \ {0} /\ directory.slot \in Nat
    BY DevicesAssumption
  <1>2. (256 - 64) \div directory.slots \in Nat
    BY <1>1
  <1>3. \A a, b \in Nat : a * b \in Nat
    OBVIOUS
  <1>. QED
    BY <1>1, <1>2, <1>3 DEF DEVICE, HIGHPRIO_SLEEP

(* Up to eleven slots, the last vector still has a class below 15.         *)
LEMMA DeviceVector ==
    ASSUME directory \in Devices, directory.slots <= 11
    PROVE  DEVICE \in 64..239
  <1>1. directory.slots \in 1..11 /\ directory.slot \in Nat
        /\ directory.slot <= directory.slots - 1
    BY DevicesAssumption
  <1>2. 256 - 64 = 192
    OBVIOUS
  <1>4. CASE directory.slots = 1
    <2>1. 192 \div 1 = 192
      OBVIOUS
    <2>. QED
      BY <1>1, <1>2, <1>4, <2>1 DEF DEVICE
  <1>5. CASE directory.slots = 2
    <2>1. 192 \div 2 = 96
      OBVIOUS
    <2>. QED
      BY <1>1, <1>2, <1>5, <2>1 DEF DEVICE
  <1>6. CASE directory.slots = 3
    <2>1. 192 \div 3 = 64
      OBVIOUS
    <2>. QED
      BY <1>1, <1>2, <1>6, <2>1 DEF DEVICE
  <1>7. CASE directory.slots = 4
    <2>1. 192 \div 4 = 48
      OBVIOUS
    <2>. QED
      BY <1>1, <1>2, <1>7, <2>1 DEF DEVICE
  <1>8. CASE directory.slots = 5
    <2>1. 192 \div 5 = 38
      OBVIOUS
    <2>. QED
      BY <1>1, <1>2, <1>8, <2>1 DEF DEVICE
  <1>9. CASE directory.slots = 6
    <2>1. 192 \div 6 = 32
      OBVIOUS
    <2>. QED
      BY <1>1, <1>2, <1>9, <2>1 DEF DEVICE
  <1>10. CASE directory.slots = 7
    <2>1. 192 \div 7 = 27
      OBVIOUS
    <2>. QED
      BY <1>1, <1>2, <1>10, <2>1 DEF DEVICE
  <1>11. CASE directory.slots = 8
    <2>1. 192 \div 8 = 24
      OBVIOUS
    <2>. QED
      BY <1>1, <1>2, <1>11, <2>1 DEF DEVICE
  <1>12. CASE directory.slots = 9
    <2>1. 192 \div 9 = 21
      OBVIOUS
    <2>. QED
      BY <1>1, <1>2, <1>12, <2>1 DEF DEVICE
  <1>13. CASE directory.slots = 10
    <2>1. 192 \div 10 = 19
      OBVIOUS
    <2>. QED
      BY <1>1, <1>2, <1>13, <2>1 DEF DEVICE
  <1>14. CASE directory.slots = 11
    <2>1. 192 \div 11 = 17
      OBVIOUS
    <2>. QED
      BY <1>1, <1>2, <1>14, <2>1 DEF DEVICE
  <1>. QED
    BY <1>1, <1>4, <1>5, <1>6, <1>7, <1>8, <1>9, <1>10, <1>11, <1>12, <1>13, <1>14

(* A device whose vector has a class above 14 is one of at least twelve.   *)
LEMMA HighClass ==
    ASSUME directory \in Devices, Class(DEVICE) > 14
    PROVE  directory.slots > 11
  <1>1. DEVICE \in 64..239 => DEVICE \div 16 <= 14
    OBVIOUS
  <1>2. directory.slots \in Nat
    BY DevicesAssumption
  <1>3. DEVICE \notin 64..239
    BY <1>1, DeviceRange DEF Class
  <1>. QED
    BY <1>2, <1>3, DeviceVector

(* The classes of the other two vectors.                                   *)
LEMMA Classes == Class(HIGHPRIO_SLEEP) = 3 /\ Class(WAKE) = 15
  BY DEF Class, HIGHPRIO_SLEEP, WAKE

(* Setting one processor's flag leaves a function to the Booleans.         *)
LEMMA FlagUpdate ==
    ASSUME NEW f \in [Processors -> BOOLEAN], NEW p \in Processors, NEW b \in BOOLEAN
    PROVE  [f EXCEPT ![p] = b] \in [Processors -> BOOLEAN]
  OBVIOUS

(* The invariant holds while every processor runs a thread.                *)
LEMMA InitIInv == Init => IInv
  <1>. SUFFICES ASSUME Init PROVE IInv
    OBVIOUS
  <1>1. TypeOK
    <2>1. iflag \in [Processors -> BOOLEAN] /\ marked \in BOOLEAN /\ preempted \in BOOLEAN
      BY Zenon DEF Init
    <2>. QED
      BY <2>1 DEF Init, TypeOK, Labels, Raised, Lowered
  <1>2. KernelPriority
    BY DEF Init, KernelPriority, Raised
  <1>3. Backups
    BY DEF Init, Backups, Raised
  <1>4. MutexesTaken
    BY DEF Init, MutexesTaken
  <1>5. ThreadPoolLock
    BY DEF Init, ThreadPoolLock
  <1>6. EnumerationExclusive
    BY DEF Init, EnumerationExclusive
  <1>7. KernelNotPreempted
    BY DEF Init, KernelNotPreempted
  <1>. QED
    BY <1>1, <1>2, <1>3, <1>4, <1>5, <1>6, <1>7 DEF IInv

(* Every step keeps the invariant.                                         *)
LEMMA StepIInv == IInv /\ [Next]_vars => IInv'
  <1>. SUFFICES ASSUME IInv, [Next]_vars PROVE IInv'
    OBVIOUS
  <1>0. directory' = directory /\ DEVICE' = DEVICE /\ Vectors' = Vectors
    <2>1. directory' = directory
      BY DEF Next, Run, Interrupted, vars, Trap, EnterRingzero, ExceptionReturn, RunRingthree, Cli, Iretq, Reschedule, TakeMutexes, PokeSleep,
         Enumerate, PokeWake, StreamInit, Found, Idle, RaiseDevice, DeviceInterrupt, HighprioHalt, Wake
    <2>2. DEVICE' = DEVICE
      BY <2>1 DEF DEVICE
    <2>. QED
      BY <2>1, <2>2 DEF Vectors
  <1>. USE <1>0 DEF IInv
  <1>1. ASSUME NEW p \in Processors, Trap(p) PROVE IInv'
    <2>1. TypeOK'
      BY <1>1 DEF Trap, Goto, TypeOK, Labels, Raised, Lowered, Vectors
    <2>2. KernelPriority'
      BY <1>1 DEF Trap, Goto, TypeOK, KernelPriority, Raised
    <2>3. Backups'
      BY <1>1 DEF Trap, Goto, TypeOK, KernelPriority, Backups, Raised
    <2>4. MutexesTaken'
      BY <1>1 DEF Trap, Goto, TypeOK, MutexesTaken
    <2>5. ThreadPoolLock'
      BY <1>1 DEF Trap, Goto, TypeOK, ThreadPoolLock
    <2>6. EnumerationExclusive'
      BY <1>1 DEF Trap, Goto, TypeOK, EnumerationExclusive
    <2>7. KernelNotPreempted'
      BY <1>1 DEF Trap, KernelNotPreempted
    <2>. QED
      BY <2>1, <2>2, <2>3, <2>4, <2>5, <2>6, <2>7
  <1>2. ASSUME NEW p \in Processors, EnterRingzero(p) PROVE IInv'
    <2>1. TypeOK'
      BY <1>2 DEF EnterRingzero, Goto, TypeOK, Labels, Raised, Lowered, Vectors
    <2>2. KernelPriority'
      BY <1>2 DEF EnterRingzero, Goto, TypeOK, KernelPriority, Raised
    <2>3. Backups'
      BY <1>2 DEF EnterRingzero, Goto, TypeOK, KernelPriority, Backups, Raised
    <2>4. MutexesTaken'
      BY <1>2 DEF EnterRingzero, Goto, TypeOK, MutexesTaken
    <2>5. ThreadPoolLock'
      BY <1>2 DEF EnterRingzero, Goto, TypeOK, ThreadPoolLock
    <2>6. EnumerationExclusive'
      BY <1>2 DEF EnterRingzero, Goto, TypeOK, EnumerationExclusive
    <2>7. KernelNotPreempted'
      BY <1>2 DEF EnterRingzero, KernelNotPreempted
    <2>. QED
      BY <2>1, <2>2, <2>3, <2>4, <2>5, <2>6, <2>7
  <1>3. ASSUME NEW p \in Processors, ExceptionReturn(p) PROVE IInv'
    <2>1. TypeOK'
      BY <1>3 DEF ExceptionReturn, Goto, TypeOK, Labels, Raised, Lowered, Vectors
    <2>2. KernelPriority'
      BY <1>3 DEF ExceptionReturn, Goto, TypeOK, KernelPriority, Raised
    <2>3. Backups'
      BY <1>3 DEF ExceptionReturn, Goto, TypeOK, KernelPriority, Backups, Raised
    <2>4. MutexesTaken'
      BY <1>3 DEF ExceptionReturn, Goto, TypeOK, MutexesTaken
    <2>5. ThreadPoolLock'
      BY <1>3 DEF ExceptionReturn, Goto, TypeOK, ThreadPoolLock
    <2>6. EnumerationExclusive'
      BY <1>3 DEF ExceptionReturn, Goto, TypeOK, EnumerationExclusive
    <2>7. KernelNotPreempted'
      BY <1>3 DEF ExceptionReturn, KernelNotPreempted
    <2>. QED
      BY <2>1, <2>2, <2>3, <2>4, <2>5, <2>6, <2>7
  <1>4. ASSUME NEW p \in Processors, RunRingthree(p) PROVE IInv'
    <2>1. TypeOK'
      BY <1>4 DEF RunRingthree, Goto, TypeOK, Labels, Raised, Lowered, Vectors
    <2>2. KernelPriority'
      BY <1>4 DEF RunRingthree, Goto, TypeOK, KernelPriority, Raised
    <2>3. Backups'
      BY <1>4 DEF RunRingthree, Goto, TypeOK, KernelPriority, Backups, Raised
    <2>4. MutexesTaken'
      BY <1>4 DEF RunRingthree, Goto, TypeOK, MutexesTaken
    <2>5. ThreadPoolLock'
      BY <1>4 DEF RunRingthree, Goto, TypeOK, ThreadPoolLock
    <2>6. EnumerationExclusive'
      BY <1>4 DEF RunRingthree, Goto, TypeOK, EnumerationExclusive
    <2>7. KernelNotPreempted'
      BY <1>4 DEF RunRingthree, KernelNotPreempted
    <2>. QED
      BY <2>1, <2>2, <2>3, <2>4, <2>5, <2>6, <2>7
  <1>5. ASSUME NEW p \in Processors, Cli(p) PROVE IInv'
    <2>1. TypeOK'
      BY <1>5 DEF Cli, Goto, TypeOK, Labels, Raised, Lowered, Vectors
    <2>2. KernelPriority'
      BY <1>5 DEF Cli, Goto, TypeOK, KernelPriority, Raised
    <2>3. Backups'
      BY <1>5 DEF Cli, Goto, TypeOK, KernelPriority, Backups, Raised
    <2>4. MutexesTaken'
      BY <1>5 DEF Cli, Goto, TypeOK, MutexesTaken
    <2>5. ThreadPoolLock'
      BY <1>5 DEF Cli, Goto, TypeOK, ThreadPoolLock
    <2>6. EnumerationExclusive'
      BY <1>5 DEF Cli, Goto, TypeOK, EnumerationExclusive
    <2>7. KernelNotPreempted'
      BY <1>5 DEF Cli, KernelNotPreempted
    <2>. QED
      BY <2>1, <2>2, <2>3, <2>4, <2>5, <2>6, <2>7
  <1>6. ASSUME NEW p \in Processors, Iretq(p) PROVE IInv'
    <2>1. TypeOK'
      BY <1>6 DEF Iretq, Goto, TypeOK, Labels, Raised, Lowered, Vectors
    <2>2. KernelPriority'
      BY <1>6 DEF Iretq, Goto, TypeOK, KernelPriority, Raised
    <2>3. Backups'
      BY <1>6 DEF Iretq, Goto, TypeOK, KernelPriority, Backups, Raised
    <2>4. MutexesTaken'
      BY <1>6 DEF Iretq, Goto, TypeOK, MutexesTaken
    <2>5. ThreadPoolLock'
      BY <1>6 DEF Iretq, Goto, TypeOK, ThreadPoolLock
    <2>6. EnumerationExclusive'
      BY <1>6 DEF Iretq, Goto, TypeOK, EnumerationExclusive
    <2>7. KernelNotPreempted'
      BY <1>6 DEF Iretq, KernelNotPreempted
    <2>. QED
      BY <2>1, <2>2, <2>3, <2>4, <2>5, <2>6, <2>7
  <1>7. ASSUME NEW p \in Processors, Reschedule(p) PROVE IInv'
    <2>1. TypeOK'
      BY <1>7 DEF Reschedule, Goto, TypeOK, Labels, Raised, Lowered, Vectors
    <2>2. KernelPriority'
      BY <1>7 DEF Reschedule, Goto, TypeOK, KernelPriority, Raised
    <2>3. Backups'
      BY <1>7 DEF Reschedule, Goto, TypeOK, KernelPriority, Backups, Raised
    <2>4. MutexesTaken'
      BY <1>7 DEF Reschedule, Goto, TypeOK, MutexesTaken
    <2>5. ThreadPoolLock'
      BY <1>7 DEF Reschedule, Goto, TypeOK, ThreadPoolLock
    <2>6. EnumerationExclusive'
      BY <1>7 DEF Reschedule, Goto, TypeOK, EnumerationExclusive
    <2>7. KernelNotPreempted'
      BY <1>7 DEF Reschedule, KernelNotPreempted
    <2>. QED
      BY <2>1, <2>2, <2>3, <2>4, <2>5, <2>6, <2>7
  <1>8. ASSUME NEW p \in Processors, TakeMutexes(p) PROVE IInv'
    <2>1. TypeOK'
      BY <1>8 DEF TakeMutexes, Goto, TypeOK, Labels, Raised, Lowered, Vectors
    <2>2. KernelPriority'
      BY <1>8 DEF TakeMutexes, Goto, TypeOK, KernelPriority, Raised
    <2>3. Backups'
      BY <1>8 DEF TakeMutexes, Goto, TypeOK, KernelPriority, Backups, Raised
    <2>4. MutexesTaken'
      BY <1>8 DEF TakeMutexes, Goto, TypeOK, MutexesTaken
    <2>5. ThreadPoolLock'
      BY <1>8 DEF TakeMutexes, Goto, TypeOK, ThreadPoolLock
    <2>6. EnumerationExclusive'
      BY <1>8 DEF TakeMutexes, Goto, TypeOK, MutexesTaken, EnumerationExclusive
    <2>7. KernelNotPreempted'
      BY <1>8 DEF TakeMutexes, KernelNotPreempted
    <2>. QED
      BY <2>1, <2>2, <2>3, <2>4, <2>5, <2>6, <2>7
  <1>9. ASSUME NEW p \in Processors, PokeSleep(p) PROVE IInv'
    <2>1. TypeOK'
      BY <1>9 DEF PokeSleep, Poke, Goto, TypeOK, Labels, Raised, Lowered, Vectors
    <2>2. KernelPriority'
      BY <1>9 DEF PokeSleep, Poke, Goto, TypeOK, KernelPriority, Raised
    <2>3. Backups'
      BY <1>9 DEF PokeSleep, Poke, Goto, TypeOK, KernelPriority, Backups, Raised
    <2>4. MutexesTaken'
      BY <1>9 DEF PokeSleep, Poke, Goto, TypeOK, MutexesTaken
    <2>5. ThreadPoolLock'
      BY <1>9 DEF PokeSleep, Poke, Goto, TypeOK, ThreadPoolLock
    <2>6. EnumerationExclusive'
      BY <1>9 DEF PokeSleep, Poke, Goto, TypeOK, EnumerationExclusive
    <2>7. KernelNotPreempted'
      BY <1>9 DEF PokeSleep, KernelNotPreempted
    <2>. QED
      BY <2>1, <2>2, <2>3, <2>4, <2>5, <2>6, <2>7
  <1>10. ASSUME NEW p \in Processors, Enumerate(p) PROVE IInv'
    <2>1. TypeOK'
      BY <1>10 DEF Enumerate, Goto, TypeOK, Labels, Raised, Lowered, Vectors
    <2>2. KernelPriority'
      BY <1>10 DEF Enumerate, Goto, TypeOK, KernelPriority, Raised
    <2>3. Backups'
      BY <1>10 DEF Enumerate, Goto, TypeOK, KernelPriority, Backups, Raised
    <2>4. MutexesTaken'
      BY <1>10 DEF Enumerate, Goto, TypeOK, MutexesTaken
    <2>5. ThreadPoolLock'
      BY <1>10 DEF Enumerate, Goto, TypeOK, ThreadPoolLock
    <2>6. EnumerationExclusive'
      BY <1>10 DEF Enumerate, Goto, TypeOK, EnumerationExclusive
    <2>7. KernelNotPreempted'
      BY <1>10 DEF Enumerate, KernelNotPreempted
    <2>. QED
      BY <2>1, <2>2, <2>3, <2>4, <2>5, <2>6, <2>7
  <1>11. ASSUME NEW p \in Processors, PokeWake(p) PROVE IInv'
    <2>1. TypeOK'
      BY <1>11 DEF PokeWake, Poke, Goto, TypeOK, Labels, Raised, Lowered, Vectors
    <2>2. KernelPriority'
      BY <1>11 DEF PokeWake, Poke, Goto, TypeOK, KernelPriority, Raised
    <2>3. Backups'
      BY <1>11 DEF PokeWake, Poke, Goto, TypeOK, KernelPriority, Backups, Raised
    <2>4. MutexesTaken'
      BY <1>11 DEF PokeWake, Poke, Goto, TypeOK, MutexesTaken
    <2>5. ThreadPoolLock'
      BY <1>11 DEF PokeWake, Poke, Goto, TypeOK, ThreadPoolLock
    <2>6. EnumerationExclusive'
      BY <1>11 DEF PokeWake, Poke, Goto, TypeOK, EnumerationExclusive
    <2>7. KernelNotPreempted'
      BY <1>11 DEF PokeWake, KernelNotPreempted
    <2>. QED
      BY <2>1, <2>2, <2>3, <2>4, <2>5, <2>6, <2>7
  <1>12. ASSUME NEW p \in Processors, StreamInit(p) PROVE IInv'
    <2>1. TypeOK'
      BY <1>12 DEF StreamInit, Goto, TypeOK, Labels, Raised, Lowered, Vectors
    <2>2. KernelPriority'
      BY <1>12 DEF StreamInit, Goto, TypeOK, KernelPriority, Raised
    <2>3. Backups'
      BY <1>12 DEF StreamInit, Goto, TypeOK, KernelPriority, Backups, Raised
    <2>4. MutexesTaken'
      BY <1>12 DEF StreamInit, Goto, TypeOK, MutexesTaken
    <2>5. ThreadPoolLock'
      BY <1>12 DEF StreamInit, Goto, TypeOK, ThreadPoolLock
    <2>6. EnumerationExclusive'
      BY <1>12 DEF StreamInit, Goto, TypeOK, EnumerationExclusive
    <2>7. KernelNotPreempted'
      BY <1>12 DEF StreamInit, KernelNotPreempted
    <2>. QED
      BY <2>1, <2>2, <2>3, <2>4, <2>5, <2>6, <2>7
  <1>13. ASSUME NEW p \in Processors, Found(p) PROVE IInv'
    <2>1. TypeOK'
      BY <1>13 DEF Found, Goto, TypeOK, Labels, Raised, Lowered, Vectors
    <2>2. KernelPriority'
      BY <1>13 DEF Found, Goto, TypeOK, KernelPriority, Raised
    <2>3. Backups'
      BY <1>13 DEF Found, Goto, TypeOK, KernelPriority, Backups, Raised
    <2>4. MutexesTaken'
      BY <1>13 DEF Found, Goto, TypeOK, MutexesTaken
    <2>5. ThreadPoolLock'
      BY <1>13 DEF Found, Goto, TypeOK, ThreadPoolLock
    <2>6. EnumerationExclusive'
      BY <1>13 DEF Found, Goto, TypeOK, EnumerationExclusive
    <2>7. KernelNotPreempted'
      BY <1>13 DEF Found, KernelNotPreempted
    <2>. QED
      BY <2>1, <2>2, <2>3, <2>4, <2>5, <2>6, <2>7
  <1>14. ASSUME NEW p \in Processors, Idle(p) PROVE IInv'
    <2>1. TypeOK'
      <3>0. iflag \in [Processors -> BOOLEAN] /\ UNCHANGED <<marked, preempted>>
        BY Zenon, <1>14 DEF Idle, TypeOK
      <3>1. PICK b \in BOOLEAN : iflag' = [iflag EXCEPT ![p] = b]
        BY Zenon, <1>14 DEF Idle, Halt
      <3>2. iflag' \in [Processors -> BOOLEAN]
        BY Zenon, <3>0, <3>1, FlagUpdate
      <3>3. pc' \in [Processors -> Labels]
        BY <1>14 DEF Idle, Halt, Goto, TypeOK, Labels, Raised, Lowered
      <3>4. cr1' \in [Processors -> Labels \cup {"none", "call"}]
        BY <1>14 DEF Idle, Halt, Goto, TypeOK
      <3>5. /\ tpr' \in [Processors -> {0, 14}] /\ cr7' \in [Processors -> {0, 14}]
            /\ calendar' \in {0, 255} /\ device' \in {0, 255}
        BY <1>14 DEF Idle, Halt, Goto, TypeOK
      <3>6. /\ irr' \in [Processors -> SUBSET Vectors]
            /\ isr' \in [Processors -> {0} \cup {Class(v) : v \in Vectors}]
        BY <1>14 DEF Idle, Halt, Goto, TypeOK, Vectors
      <3>. QED
        BY Zenon, <3>0, <3>2, <3>3, <3>4, <3>5, <3>6 DEF TypeOK
    <2>2. KernelPriority'
      BY <1>14 DEF Idle, Halt, Goto, TypeOK, KernelPriority, Raised
    <2>3. Backups'
      BY <1>14 DEF Idle, Halt, Goto, TypeOK, KernelPriority, Backups, Raised
    <2>4. MutexesTaken'
      BY <1>14 DEF Idle, Halt, Goto, TypeOK, MutexesTaken
    <2>5. ThreadPoolLock'
      BY <1>14 DEF Idle, Halt, Goto, TypeOK, ThreadPoolLock
    <2>6. EnumerationExclusive'
      BY <1>14 DEF Idle, Halt, Goto, TypeOK, EnumerationExclusive
    <2>7. KernelNotPreempted'
      BY <1>14 DEF Idle, KernelNotPreempted
    <2>. QED
      BY <2>1, <2>2, <2>3, <2>4, <2>5, <2>6, <2>7
  <1>15. ASSUME NEW p \in Processors, RaiseDevice(p) PROVE IInv'
    <2>1. TypeOK'
      BY <1>15 DEF RaiseDevice, TypeOK, Labels, Raised, Lowered, Vectors
    <2>2. KernelPriority'
      BY <1>15 DEF RaiseDevice, TypeOK, KernelPriority, Raised
    <2>3. Backups'
      BY <1>15 DEF RaiseDevice, TypeOK, KernelPriority, Backups, Raised
    <2>4. MutexesTaken'
      BY <1>15 DEF RaiseDevice, TypeOK, MutexesTaken
    <2>5. ThreadPoolLock'
      BY <1>15 DEF RaiseDevice, TypeOK, ThreadPoolLock
    <2>6. EnumerationExclusive'
      BY <1>15 DEF RaiseDevice, TypeOK, EnumerationExclusive
    <2>7. KernelNotPreempted'
      BY <1>15 DEF RaiseDevice, KernelNotPreempted
    <2>. QED
      BY <2>1, <2>2, <2>3, <2>4, <2>5, <2>6, <2>7
  <1>16. ASSUME NEW p \in Processors, DeviceInterrupt(p) PROVE IInv'
    <2>1. TypeOK'
      BY Classes, <1>16 DEF DeviceInterrupt, Goto, Accept, Deliverable, TypeOK, Labels, Raised, Lowered, Vectors
    <2>2. KernelPriority'
      BY Classes, <1>16 DEF DeviceInterrupt, Goto, Accept, Deliverable, KernelPriority, Backups, Raised, TypeOK
    <2>3. Backups'
      BY Classes, <1>16 DEF DeviceInterrupt, Goto, Accept, Deliverable, TypeOK, KernelPriority, Backups, Raised
    <2>4. MutexesTaken'
      BY Classes, <1>16 DEF DeviceInterrupt, Goto, Accept, Deliverable, TypeOK, KernelPriority, Backups, Raised, MutexesTaken
    <2>5. ThreadPoolLock'
      BY Classes, <1>16 DEF DeviceInterrupt, Goto, Accept, Deliverable, TypeOK, KernelPriority, Backups, Raised, ThreadPoolLock
    <2>6. EnumerationExclusive'
      BY Classes, <1>16 DEF DeviceInterrupt, Goto, Accept, Deliverable, TypeOK, KernelPriority, Backups, Raised, EnumerationExclusive
    <2>7. KernelNotPreempted'
      <3>1. preempted' => preempted \/ pc[p] \in Raised \cup {"hlt"}
        BY <1>16 DEF DeviceInterrupt
      <3>2. pc[p] \in Raised \cup {"hlt"} => tpr[p] = 14
        BY DEF KernelPriority, Backups
      <3>3. Class(DEVICE) > tpr[p]
        BY <1>16 DEF DeviceInterrupt, Accept, Deliverable
      <3>4. pc[p] \in Raised \cup {"hlt"} => directory.slots > 11
        BY <3>2, <3>3, HighClass DEF TypeOK
      <3>. QED
        BY <3>1, <3>4 DEF KernelNotPreempted
    <2>. QED
      BY <2>1, <2>2, <2>3, <2>4, <2>5, <2>6, <2>7
  <1>17. ASSUME NEW p \in Processors, HighprioHalt(p) PROVE IInv'
    <2>1. TypeOK'
      <3>0. iflag \in [Processors -> BOOLEAN] /\ UNCHANGED <<marked, preempted>>
        BY Zenon, <1>17 DEF HighprioHalt, TypeOK
      <3>1. PICK b \in BOOLEAN : iflag' = [iflag EXCEPT ![p] = b]
        BY Zenon, <1>17 DEF HighprioHalt, Halt
      <3>2. iflag' \in [Processors -> BOOLEAN]
        BY Zenon, <3>0, <3>1, FlagUpdate
      <3>3. pc' \in [Processors -> Labels]
        BY <1>17 DEF HighprioHalt, Halt, Goto, Accept, TypeOK, Labels, Raised, Lowered
      <3>4. cr1' \in [Processors -> Labels \cup {"none", "call"}]
        BY <1>17 DEF HighprioHalt, Halt, Goto, Accept, TypeOK
      <3>5. /\ tpr' \in [Processors -> {0, 14}] /\ cr7' \in [Processors -> {0, 14}]
            /\ calendar' \in {0, 255} /\ device' \in {0, 255}
        BY <1>17 DEF HighprioHalt, Halt, Goto, Accept, TypeOK
      <3>6. /\ irr' \in [Processors -> SUBSET Vectors]
            /\ isr' \in [Processors -> {0} \cup {Class(v) : v \in Vectors}]
        BY <1>17 DEF HighprioHalt, Halt, Goto, Accept, TypeOK, Vectors
      <3>. QED
        BY Zenon, <3>0, <3>2, <3>3, <3>4, <3>5, <3>6 DEF TypeOK
    <2>2. KernelPriority'
      BY Classes, <1>17 DEF HighprioHalt, Halt, Goto, Accept, Deliverable, KernelPriority, Backups, Raised, TypeOK
    <2>3. Backups'
      BY Classes, <1>17 DEF HighprioHalt, Halt, Goto, Accept, Deliverable, TypeOK, KernelPriority, Backups, Raised
    <2>4. MutexesTaken'
      BY Classes, <1>17 DEF HighprioHalt, Halt, Goto, Accept, Deliverable, TypeOK, KernelPriority, Backups, Raised, MutexesTaken
    <2>5. ThreadPoolLock'
      BY Classes, <1>17 DEF HighprioHalt, Halt, Goto, Accept, Deliverable, TypeOK, KernelPriority, Backups, Raised, ThreadPoolLock
    <2>6. EnumerationExclusive'
      BY Classes, <1>17 DEF HighprioHalt, Halt, Goto, Accept, Deliverable, TypeOK, KernelPriority, Backups, Raised, EnumerationExclusive
    <2>7. KernelNotPreempted'
      BY <1>17 DEF HighprioHalt, KernelNotPreempted
    <2>. QED
      BY <2>1, <2>2, <2>3, <2>4, <2>5, <2>6, <2>7
  <1>18. ASSUME NEW p \in Processors, Wake(p) PROVE IInv'
    <2>1. TypeOK'
      <3>0. iflag \in [Processors -> BOOLEAN] /\ UNCHANGED <<marked, preempted>>
        BY Zenon, <1>18 DEF Wake, TypeOK
      <3>1. \/ iflag' = iflag
            \/ iflag' = [iflag EXCEPT ![p] = TRUE]
        BY Zenon, <1>18 DEF Wake
      <3>2. iflag' \in [Processors -> BOOLEAN]
        BY Zenon, <3>0, <3>1, FlagUpdate
      <3>3. pc' \in [Processors -> Labels]
        BY <1>18 DEF Wake, Goto, Accept, TypeOK, Labels, Raised, Lowered
      <3>4. cr1' \in [Processors -> Labels \cup {"none", "call"}]
        BY <1>18 DEF Wake, Goto, Accept, TypeOK
      <3>5. /\ tpr' \in [Processors -> {0, 14}] /\ cr7' \in [Processors -> {0, 14}]
            /\ calendar' \in {0, 255} /\ device' \in {0, 255}
        BY <1>18 DEF Wake, Goto, Accept, TypeOK
      <3>6. /\ irr' \in [Processors -> SUBSET Vectors]
            /\ isr' \in [Processors -> {0} \cup {Class(v) : v \in Vectors}]
        BY <1>18 DEF Wake, Goto, Accept, TypeOK, Vectors
      <3>. QED
        BY Zenon, <3>0, <3>2, <3>3, <3>4, <3>5, <3>6 DEF TypeOK
    <2>2. KernelPriority'
      BY Classes, <1>18 DEF Wake, Goto, Accept, Deliverable, KernelPriority, Backups, Raised, TypeOK
    <2>3. Backups'
      BY Classes, <1>18 DEF Wake, Goto, Accept, Deliverable, TypeOK, KernelPriority, Backups, Raised
    <2>4. MutexesTaken'
      BY Classes, <1>18 DEF Wake, Goto, Accept, Deliverable, TypeOK, KernelPriority, Backups, Raised, MutexesTaken
    <2>5. ThreadPoolLock'
      BY Classes, <1>18 DEF Wake, Goto, Accept, Deliverable, TypeOK, KernelPriority, Backups, Raised, ThreadPoolLock
    <2>6. EnumerationExclusive'
      BY Classes, <1>18 DEF Wake, Goto, Accept, Deliverable, TypeOK, KernelPriority, Backups, Raised, EnumerationExclusive
    <2>7. KernelNotPreempted'
      BY <1>18 DEF Wake, KernelNotPreempted
    <2>. QED
      BY <2>1, <2>2, <2>3, <2>4, <2>5, <2>6, <2>7
  <1>19. CASE UNCHANGED vars
    BY <1>19 DEF vars, TypeOK, KernelPriority, Backups, MutexesTaken, ThreadPoolLock,
       EnumerationExclusive, KernelNotPreempted
  <1>. QED
    BY <1>1, <1>2, <1>3, <1>4, <1>5, <1>6, <1>7, <1>8, <1>9, <1>10, <1>11, <1>12, <1>13, <1>14, <1>15, <1>16, <1>17, <1>18, <1>19
    DEF Next, Run, Interrupted

(* The strengthened invariant holds in every reachable state.              *)
THEOREM Invariance == Spec => []IInv
  BY InitIInv, StepIInv, PTL DEF Spec

(* Every variable keeps its type.                                          *)
THEOREM TypeCorrect == Spec => []TypeOK
  <1>1. IInv => TypeOK
    BY DEF IInv
  <1>. QED
    BY <1>1, Invariance, PTL

(* With at most eleven slots in the device directory, no device interrupts *)
(* code at priority 14.                                                    *)
THEOREM NoPreemption == Spec => []KernelNotPreempted
  <1>1. IInv => KernelNotPreempted
    BY DEF IInv
  <1>. QED
    BY <1>1, Invariance, PTL

(* The lock of the thread pool has one holder, or one that was lost, until *)
(* a device interrupts code at priority 14.                                *)
THEOREM ThreadPoolExclusive == Spec => []ThreadPoolLock
  <1>1. IInv => ThreadPoolLock
    BY DEF IInv
  <1>. QED
    BY <1>1, Invariance, PTL

(* No sleep request stops ring 0 code that runs at priority 14.            *)
THEOREM SleepsOutsideRaised == Spec => []SleepOutsideRaised
  <1>1. IInv => SleepOutsideRaised
    BY DEF IInv, Backups, SleepOutsideRaised
  <1>. QED
    BY <1>1, Invariance, PTL

(* A marked device lets one processor at a time re-enumerate.              *)
THEOREM ExclusiveEnumeration == Spec => []EnumerationExclusive
  <1>1. IInv => EnumerationExclusive
    BY DEF IInv
  <1>. QED
    BY <1>1, Invariance, PTL
=============================================================================
