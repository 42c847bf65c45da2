---------------------------- MODULE SignalsProofs ----------------------------
(***************************************************************************)
(* What is proved of Signals for a queue of any length, any set of faults  *)
(* with or without handlers, and programs of any length.                   *)
(***************************************************************************)
EXTENDS Signals, TLAPS

(* The queue holds no context of the program, so a thread in userspace is  *)
(* in its program only when the queue is empty, and then it is there or in *)
(* syscall().  Because signal_issuer fills all the free entries and a      *)
(* return repeats the last, the queue is empty or full.                    *)
Contexts ==
    /\ main.code = "main"
    /\ \A i \in Slots : override[i] # Null => override[i].code # "main"
    /\ \A i \in Slots : override[i] = Null <=> override[0] = Null
    /\ mode = "user" => IF override[0] = Null
                        THEN cur.code = "main" \/ cur = InSyscall
                        ELSE cur.code # "main"
    /\ mode = "user" /\ cur = InSyscall => Resume = InSyscall
    /\ mode \in {"fault", "timer", "trap", "syscall"} => ~switched
    /\ mode \in {"fault", "timer", "trap"} => ~twice

(* MainContextSafe is kept by store_state because the test it makes, of    *)
(* the queue, tells who was running: that is Contexts.                     *)
IInv == TypeOK /\ Contexts /\ MainContextSafe /\ ResumesInterrupted

(* The first entry of the queue exists, and no instruction is a zero entry. *)
LEMMA Queue ==
    0 \in Slots /\ Null \notin Points
  BY DepthAssumption, NullAssumption, SMT DEF Slots, Points

(* A handler begins at an instruction of its own.                          *)
LEMMA Handlers ==
    ASSUME NEW f \in Faults
    PROVE  Entry(f) \in Points /\ Entry(f).code # "main" /\ Entry(f) # Null
  <1>1. Entry(f) \in Points
    BY MaxStepAssumption DEF Entry, Points
  <1>2. Entry(f).code # "main"
    BY FaultsAssumption DEF Entry
  <1>. QED
    BY <1>1, <1>2, Queue

(* The program begins at an instruction of its own.                        *)
LEMMA ProgramStart ==
    Entry("main") \in Points /\ Entry("main").code = "main"
  BY MaxStepAssumption DEF Entry, Points

(* The place in syscall() is neither the program's nor a zero entry.       *)
LEMMA SyscallPoint ==
    InSyscall \in Points /\ InSyscall.code = "syscall" /\ InSyscall # Null
  <1>1. InSyscall \in Points /\ InSyscall.code = "syscall"
    BY MaxStepAssumption DEF InSyscall, Entry, Points
  <1>. QED
    BY <1>1, Queue

(* The state that exec leaves satisfies the invariant.                     *)
LEMMA Initially ==
    Init => IInv
  <1>. SUFFICES ASSUME Init PROVE IInv
    OBVIOUS
  <1>1. TypeOK
    BY ProgramStart DEF Init, TypeOK, Bits
  <1>2. Contexts
    BY ProgramStart, SyscallPoint, Queue DEF Init, Contexts
  <1>3. MainContextSafe /\ ResumesInterrupted
    BY DEF Init, MainContextSafe, ResumesInterrupted
  <1>. QED
    BY <1>1, <1>2, <1>3 DEF IInv

(* An instruction of the thread moves cur, and main with it when it is the *)
(* program that runs.                                                      *)
LEMMA AdvanceKeeps ==
    ASSUME IInv, Advance
    PROVE  IInv'
  <1>. USE DEF IInv
  <1>1. cur' \in Points /\ cur'.code = cur.code /\ cur.code # "syscall" /\ mode = "user"
    BY MaxStepAssumption DEF Advance, TypeOK, Points
  <1>2. TypeOK'
    BY <1>1 DEF Advance, TypeOK
  <1>3. cur # InSyscall /\ cur' # InSyscall
    BY <1>1, SyscallPoint
  <1>4. Contexts'
    BY <1>1, <1>3 DEF Advance, TypeOK, Contexts
  <1>5. MainContextSafe'
    BY <1>1, <1>3 DEF Advance, TypeOK, Contexts, MainContextSafe
  <1>6. ResumesInterrupted'
    BY DEF Advance, ResumesInterrupted
  <1>. QED
    BY <1>2, <1>4, <1>5, <1>6

(* store_state saves an instruction where leave_ringzero will look for it, *)
(* and one that is not the program's nor in syscall() only where there is  *)
(* a handler.                                                              *)
LEMMA StoreSaves ==
    ASSUME TypeOK, Contexts, NEW point \in Points, Store(point),
           override[0] # Null => point.code # "main"
    PROVE  /\ ip' \in Points /\ override' \in [Slots -> Points \cup {Null}]
           /\ \A i \in Slots : /\ override'[i] # Null => override'[i].code # "main"
                               /\ override'[i] = Null <=> override'[0] = Null
           /\ override'[0] = Null <=> override[0] = Null
           /\ Resume' = point
           /\ ip' = IF override[0] = Null THEN point ELSE ip
  <1>1. CASE override[0] # Null
    <2>1. override' = [override EXCEPT ![0] = point] /\ ip' = ip
      BY <1>1 DEF Store
    <2>2. override'[0] = point /\ point # Null
      BY <2>1, Queue DEF TypeOK
    <2>3. ASSUME NEW i \in Slots
          PROVE  /\ override'[i] # Null => override'[i].code # "main"
                 /\ override'[i] # Null
      BY <1>1, <2>1, <2>2 DEF TypeOK, Contexts
    <2>4. ip' \in Points /\ override' \in [Slots -> Points \cup {Null}]
      BY <2>1 DEF TypeOK
    <2>. QED
      BY <1>1, <2>1, <2>2, <2>3, <2>4 DEF Resume
  <1>2. CASE override[0] = Null
    <2>1. override' = override /\ ip' = point
      BY <1>2 DEF Store
    <2>. QED
      BY <1>2, <2>1 DEF TypeOK, Contexts, Resume
  <1>. QED
    BY <1>1, <1>2

(* The first store of an entry into ring 0.                                *)
LEMMA StoreStateKeeps ==
    ASSUME IInv, StoreState
    PROVE  IInv'
  <1>. USE DEF IInv
  <1>1. /\ mode = "user" /\ mode' \in {"fault", "timer", "trap"}
        /\ cur' = cur /\ main' = main /\ at' = cur /\ Store(cur)
        /\ UNCHANGED <<sighandler, psigset, tsigset, exited>>
    BY DEF StoreState
  <1>2. ~twice' /\ ~switched' /\ twice' \in BOOLEAN /\ switched' \in BOOLEAN
    BY Zenon DEF StoreState
  <1>3. cur \in Points /\ (override[0] # Null => cur.code # "main")
    BY <1>1 DEF TypeOK, Contexts
  <1>4. /\ ip' \in Points /\ override' \in [Slots -> Points \cup {Null}]
        /\ \A i \in Slots : /\ override'[i] # Null => override'[i].code # "main"
                            /\ override'[i] = Null <=> override'[0] = Null
        /\ Resume' = cur
        /\ ip' = IF override[0] = Null THEN cur ELSE ip
    BY <1>1, <1>3, StoreSaves
  <1>5. TypeOK'
    BY <1>1, <1>2, <1>4 DEF TypeOK
  <1>6. Contexts'
    BY <1>1, <1>2, <1>4 DEF Contexts
  <1>7. MainContextSafe'
    <2>1. CASE override[0] = Null
      BY <1>1, <1>4, <2>1 DEF Contexts, MainContextSafe
    <2>2. CASE override[0] # Null
      BY <1>1, <1>3, <1>4, <2>2 DEF MainContextSafe
    <2>. QED
      BY <2>1, <2>2
  <1>8. ResumesInterrupted'
    BY <1>1, <1>2, <1>4, Zenon DEF ResumesInterrupted
  <1>. QED
    BY <1>5, <1>6, <1>7, <1>8

(* The second store of a syscall.                                          *)
LEMMA SyscallKeeps ==
    ASSUME IInv, Syscall
    PROVE  IInv'
  <1>. USE DEF IInv
  <1>1. /\ mode = "trap" /\ mode' = "syscall"
        /\ cur' = cur /\ main' = main /\ at' = at /\ Store(InSyscall)
        /\ UNCHANGED <<sighandler, psigset, tsigset, exited>>
    BY DEF Syscall
  <1>2. twice' /\ twice' \in BOOLEAN /\ switched' = switched
    BY Zenon DEF Syscall
  <1>3. ~switched'
    BY <1>1, <1>2 DEF Contexts
  <1>4. /\ ip' \in Points /\ override' \in [Slots -> Points \cup {Null}]
        /\ \A i \in Slots : /\ override'[i] # Null => override'[i].code # "main"
                            /\ override'[i] = Null <=> override'[0] = Null
        /\ Resume' = InSyscall
        /\ ip' = IF override[0] = Null THEN InSyscall ELSE ip
    BY <1>1, SyscallPoint, StoreSaves
  <1>5. TypeOK'
    BY <1>1, <1>2, <1>4 DEF TypeOK
  <1>6. Contexts'
    BY <1>1, <1>3, <1>4 DEF Contexts
  <1>7. MainContextSafe'
    BY <1>1, <1>4 DEF MainContextSafe, InSyscall, Entry
  <1>8. ResumesInterrupted'
    <2>1. InSyscall' = InSyscall
      BY DEF InSyscall, Entry
    <2>. QED
      BY <1>1, <1>2, <1>4, <2>1, Zenon DEF ResumesInterrupted
  <1>. QED
    BY <1>5, <1>6, <1>7, <1>8

(* A thread resumed in syscall() goes on there.                            *)
LEMMA RedispatchKeeps ==
    ASSUME IInv, Redispatch
    PROVE  IInv'
  <1>. USE DEF IInv
  <1>1. /\ mode = "user" /\ mode' = "syscall" /\ cur = InSyscall /\ at' = cur
        /\ UNCHANGED <<cur, ip, override, sighandler, psigset, tsigset, main, exited>>
    BY DEF Redispatch
  <1>2. ~twice' /\ ~switched' /\ twice' \in BOOLEAN /\ switched' \in BOOLEAN
    BY Zenon DEF Redispatch
  <1>3. Resume = InSyscall /\ Resume' = Resume
    BY <1>1 DEF Contexts, Resume
  <1>4. TypeOK'
    BY <1>1, <1>2 DEF TypeOK
  <1>5. Contexts'
    BY <1>1, <1>2 DEF Contexts
  <1>6. MainContextSafe'
    BY <1>1, SyscallPoint DEF MainContextSafe, InSyscall, Entry
  <1>7. ResumesInterrupted'
    BY <1>1, <1>2, <1>3, Zenon DEF ResumesInterrupted
  <1>. QED
    BY <1>4, <1>5, <1>6, <1>7

(* signal_issuer changes the first entry of an empty queue only.           *)
LEMMA SignalIssuerKeeps ==
    ASSUME IInv, NEW f \in Faults, SignalIssuer(f)
    PROVE  IInv'
  <1>. USE DEF IInv
  <1>1. /\ mode = "fault" /\ mode' = "leave"
        /\ cur' = cur /\ ip' = ip /\ main' = main /\ at' = at /\ twice' = twice
    BY DEF SignalIssuer
  <1>2. ASSUME NEW i \in Slots
        PROVE  /\ override'[i] \in {override[i], Entry(f)}
               /\ override[i] # Null => override'[i] = override[i]
    BY DEF SignalIssuer
  <1>3. override' \in [Slots -> Points \cup {Null}]
    BY Handlers DEF SignalIssuer, TypeOK
  <1>4. TypeOK'
    <2>1. psigset' \in SUBSET Bits
      BY DEF SignalIssuer, TypeOK, SIGKILL
    <2>2. switched' \in BOOLEAN
      BY DEF SignalIssuer
    <2>. QED
      BY <1>1, <1>3, <2>1, <2>2 DEF SignalIssuer, TypeOK
  <1>5. Contexts'
    <2>1. CASE f \in sighandler
      <3>1. \A i \in Slots : override'[i] # Null
        BY <2>1, Handlers DEF SignalIssuer
      <3>. QED
        BY <1>1, <1>2, <3>1, Handlers, Queue DEF Contexts
    <2>2. CASE f \notin sighandler
      <3>1. \A i \in Slots : override'[i] = override[i]
        BY <2>2 DEF SignalIssuer
      <3>. QED
        BY <1>1, <3>1, Queue DEF Contexts
    <2>. QED
      BY <2>1, <2>2
  <1>6. MainContextSafe'
    BY <1>1 DEF MainContextSafe
  <1>7. ResumesInterrupted'
    <2>1. Resume = IF twice THEN InSyscall ELSE at
      <3>1. ~switched
        BY <1>1, Zenon DEF Contexts
      <3>. QED
        BY <1>1, <3>1, Zenon DEF ResumesInterrupted
    <2>2. switched' <=> (f \in sighandler /\ override[0] = Null)
      BY Zenon DEF SignalIssuer
    <2>3. CASE override[0] # Null
      BY <1>1, <1>2, <2>1, <2>3, Queue DEF Resume, ResumesInterrupted
    <2>4. CASE override[0] = Null /\ f \notin sighandler
      <3>1. override'[0] = Null
        BY <2>4, Queue DEF SignalIssuer
      <3>. QED
        BY <1>1, <2>1, <2>4, <3>1 DEF Resume, ResumesInterrupted
    <2>5. CASE override[0] = Null /\ f \in sighandler
      BY <2>2, <2>5, Zenon DEF ResumesInterrupted
    <2>. QED
      BY <2>3, <2>4, <2>5
  <1>. QED
    BY <1>4, <1>5, <1>6, <1>7

(* signal_handler_return puts the next handler, or nothing, in front.      *)
LEMMA SignalHandlerReturnKeeps ==
    ASSUME IInv, SignalHandlerReturn
    PROVE  IInv'
  <1>. USE DEF IInv
  <1>1. /\ mode = "syscall" /\ mode' = "sysret"
        /\ cur' = cur /\ ip' = ip /\ main' = main /\ at' = at /\ twice' = twice
    BY DEF SignalHandlerReturn
  <1>2. ASSUME NEW i \in Slots
        PROVE  \E j \in Slots : override'[i] = override[j]
    <2>1. CASE i < Depth - 1
      <3>1. i + 1 \in Slots /\ override'[i] = override[i + 1]
        BY <2>1, DepthAssumption DEF SignalHandlerReturn, Slots
      <3>. QED
        BY <3>1
    <2>2. CASE ~(i < Depth - 1)
      BY <2>2 DEF SignalHandlerReturn
    <2>. QED
      BY <2>1, <2>2
  <1>3. override' \in [Slots -> Points \cup {Null}]
    <2>1. override' = [i \in Slots |-> override'[i]]
      BY DEF SignalHandlerReturn
    <2>2. \A i \in Slots : override'[i] \in Points \cup {Null}
      BY <1>2 DEF TypeOK
    <2>. QED
      BY <2>1, <2>2
  <1>4. TypeOK'
    <2>1. switched' \in BOOLEAN
      BY DEF SignalHandlerReturn
    <2>. QED
      BY <1>1, <1>3, <2>1 DEF SignalHandlerReturn, TypeOK
  <1>5. Contexts'
    BY <1>1, <1>2, Queue DEF Contexts
  <1>6. MainContextSafe'
    BY <1>1 DEF MainContextSafe
  <1>7. ResumesInterrupted'
    <2>1. Resume = IF twice THEN InSyscall ELSE at
      <3>1. ~switched
        BY <1>1, Zenon DEF Contexts
      <3>. QED
        BY <1>1, <3>1, Zenon DEF ResumesInterrupted
    <2>2. switched' <=> override[0] # Null
      BY Zenon DEF SignalHandlerReturn
    <2>3. CASE override[0] # Null
      BY <2>2, <2>3, Zenon DEF ResumesInterrupted
    <2>4. CASE override[0] = Null
      <3>1. override'[0] = Null
        BY <1>2, <2>4, Queue DEF Contexts
      <3>. QED
        BY <1>1, <2>1, <2>4, <3>1 DEF Resume, ResumesInterrupted
    <2>. QED
      BY <2>3, <2>4
  <1>. QED
    BY <1>4, <1>5, <1>6, <1>7

(* leave_ringzero resumes the first handler, or else the program.          *)
LEMMA LeaveRingzeroKeeps ==
    ASSUME IInv, LeaveRingzero
    PROVE  IInv'
  <1>. USE DEF IInv
  <1>1. /\ mode' = "user" /\ cur' = Resume
        /\ override' = override /\ ip' = ip /\ main' = main
    BY DEF LeaveRingzero
  <1>2. /\ Resume \in Points
        /\ override[0] = Null => Resume = ip
        /\ override[0] # Null => Resume.code # "main"
    BY Queue DEF Resume, TypeOK, Contexts
  <1>3. TypeOK'
    BY <1>2 DEF LeaveRingzero, TypeOK
  <1>4. ip \in {main, InSyscall}
    BY DEF LeaveRingzero, MainContextSafe
  <1>5. Contexts'
    <2>1. Resume' = Resume /\ InSyscall' = InSyscall
      BY <1>1 DEF Resume, InSyscall, Entry
    <2>. QED
      BY <1>1, <1>2, <1>4, <2>1 DEF Contexts
  <1>7. MainContextSafe'
    <2>1. Resume.code = "main" => Resume = main
      BY <1>2, <1>4, SyscallPoint
    <2>. QED
      BY <1>1, <1>4, <2>1 DEF MainContextSafe, InSyscall, Entry
  <1>6. ResumesInterrupted'
    BY <1>1 DEF ResumesInterrupted
  <1>. QED
    BY <1>3, <1>5, <1>6, <1>7

(* A step inside the kernel that touches signal sets only, and does not    *)
(* come from or go to userspace, keeps every context.                      *)
LEMMA KernelKeeps ==
    ASSUME IInv,
           UNCHANGED <<cur, ip, override, sighandler, main, at, twice, switched>>,
           psigset' \in SUBSET Bits, tsigset' \in SUBSET Bits, exited' \in BOOLEAN,
           mode \in {"fault", "timer", "syscall", "sysret", "ready"},
           mode' \in {"sysret", "ready", "leave", "gone"}
    PROVE  IInv'
  <1>. USE DEF IInv
  <1>1. TypeOK'
    BY DEF TypeOK
  <1>2. Contexts'
    BY DEF Contexts
  <1>3. MainContextSafe'
    BY DEF MainContextSafe
  <1>4. ResumesInterrupted'
    <2>1. Resume' = Resume
      BY DEF Resume
    <2>. QED
      BY <2>1, Zenon DEF ResumesInterrupted
  <1>. QED
    BY <1>1, <1>2, <1>3, <1>4

(* A signal sent by somebody else changes a signal set and nothing else.   *)
LEMMA SendKeeps ==
    ASSUME IInv, SysPsignal \/ SysTsignal
    PROVE  IInv'
  <1>. USE DEF IInv
  <1>1. psigset' \in SUBSET Bits /\ tsigset' \in SUBSET Bits
    BY DEF SysPsignal, SysTsignal, TypeOK
  <1>2. UNCHANGED <<mode, cur, ip, override, sighandler, main, at, twice, switched, exited>>
    BY DEF SysPsignal, SysTsignal
  <1>3. TypeOK'
    BY <1>1, <1>2 DEF TypeOK
  <1>4. Contexts'
    BY <1>2 DEF Contexts, Resume
  <1>5. MainContextSafe'
    BY <1>2 DEF MainContextSafe
  <1>6. ResumesInterrupted'
    BY <1>2 DEF ResumesInterrupted, Resume
  <1>. QED
    BY <1>3, <1>4, <1>5, <1>6

(* Every step keeps the invariant.                                         *)
LEMMA Inductive ==
    IInv /\ [Next]_vars => IInv'
  <1>. SUFFICES ASSUME IInv, [Next]_vars PROVE IInv'
    OBVIOUS
  <1>0. TypeOK
    BY DEF IInv
  <1>1. CASE Advance
    BY <1>1, AdvanceKeeps
  <1>2. CASE StoreState
    BY <1>2, StoreStateKeeps
  <1>14. CASE Syscall
    BY <1>14, SyscallKeeps
  <1>15. CASE Redispatch
    BY <1>15, RedispatchKeeps
  <1>3. CASE \E f \in Faults : SignalIssuer(f)
    BY <1>3, SignalIssuerKeeps
  <1>4. CASE SignalHandlerReturn
    BY <1>4, SignalHandlerReturnKeeps
  <1>5. CASE LeaveRingzero
    BY <1>5, LeaveRingzeroKeeps
  <1>6. CASE SysPsignal \/ SysTsignal
    BY <1>6, SendKeeps
  <1>7. CASE Killer
    BY <1>0, <1>7, KernelKeeps DEF Killer, TypeOK, SIGKILL
  <1>8. CASE SysPexit
    BY <1>0, <1>8, KernelKeeps DEF SysPexit, TypeOK, SIGKILL
  <1>9. CASE SysTexit
    BY <1>0, <1>9, KernelKeeps DEF SysTexit, TypeOK, SIGKILL
  <1>10. CASE Sysret
    BY <1>0, <1>10, KernelKeeps DEF Sysret, TypeOK
  <1>11. CASE TimedOut
    BY <1>0, <1>11, KernelKeeps DEF TimedOut, TypeOK
  <1>12. CASE GetnextThread
    BY <1>0, <1>12, KernelKeeps DEF GetnextThread, TypeOK
  <1>13. CASE UNCHANGED vars
    BY <1>13 DEF vars, IInv, TypeOK, Contexts, MainContextSafe, ResumesInterrupted, Resume
  <1>. QED
    BY <1>1, <1>2, <1>3, <1>4, <1>5, <1>6, <1>7, <1>8, <1>9, <1>10, <1>11, <1>12, <1>13, <1>14, <1>15
       DEF Next, Kernel

(* The invariant holds always.                                             *)
LEMMA Invariant ==
    Spec => []IInv
  BY Initially, Inductive, PTL DEF Spec

(* The variables of the thread keep their types.                           *)
THEOREM TypeCorrect ==
    Spec => []TypeOK
  <1>1. IInv => TypeOK
    BY DEF IInv
  <1>. QED
    BY <1>1, Invariant, PTL

(* However traps, signals and returns mix, store_state never writes a      *)
(* handler's instruction over the program's place: only the program's own  *)
(* syscall does, with its second store.                                    *)
THEOREM MainSurvives ==
    Spec => []MainContextSafe
  <1>1. IInv => MainContextSafe
    BY DEF IInv
  <1>. QED
    BY <1>1, Invariant, PTL

(* A trip to the kernel that starts no first handler and ends none comes   *)
(* back to the instruction that was interrupted or, after a syscall, into  *)
(* syscall().                                                              *)
THEOREM ComesBack ==
    Spec => []ResumesInterrupted
  <1>1. IInv => ResumesInterrupted
    BY DEF IInv
  <1>. QED
    BY <1>1, Invariant, PTL
=============================================================================
