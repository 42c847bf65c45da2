------------------------------ MODULE Signals -------------------------------
(***************************************************************************)
(* A thread, the signals sent to it and the kernel's record of where it    *)
(* was: store_state and leave_ringzero (runtime/sched/asm.S), the fault    *)
(* handlers of kernlib/irhandlers.cpp, sysret and the look getnext_thread  *)
(* takes at it (runtime/sched/sched.cpp), and the syscalls that exit and   *)
(* signal.                                                                 *)
(*                                                                         *)
(* instruction_override is the queue of handlers: while its first entry is *)
(* not zero, that entry and not instruction_pointer is what the thread     *)
(* resumes at and what is overwritten when the thread is interrupted.      *)
(*                                                                         *)
(* The state is stored by every entry into ring 0.  A syscall enters like  *)
(* an exception and then calls enter_ringzero once more, which stores the  *)
(* kernel's own context, a return into syscall(), over what was stored.    *)
(*                                                                         *)
(* A signal set is a bit mask, here the set of its bits; the signals are   *)
(* the numbers of the enumeration, used as masks just as they are.  The    *)
(* thread runs on one processor at a time.                                 *)
(***************************************************************************)
EXTENDS Naturals

CONSTANTS Depth,    \* entries of instruction_override: 16
          Faults,   \* the signals that a fault issues: SIGFPE, SIGSIMD, BREAKPOINT
          MaxStep,  \* bound: how far a program or a handler gets
          Null      \* a zero entry

ASSUME DepthAssumption == Depth \in Nat \ {0}
ASSUME MaxStepAssumption == MaxStep \in Nat
ASSUME FaultsAssumption == "main" \notin Faults /\ "syscall" \notin Faults
ASSUME NullAssumption ==
    Null \notin [code : {"main", "syscall"} \cup Faults, step : 0..MaxStep]

VARIABLES mode,       \* where the thread is
          cur,        \* the instruction the thread is at in userspace
          ip,         \* state.instruction_pointer
          override,   \* state.instruction_override
          sighandler, \* which faults have a handler; no code sets one
          psigset,    \* Process::sigset
          tsigset,    \* Thread::sigset
          main,       \* history: where the main program got to
          at,         \* history: where the thread was interrupted
          twice,      \* history: its state was stored twice since
          switched,   \* history: the kernel decided to resume elsewhere
          exited      \* history: SYS_PEXIT was called

vars == <<mode, cur, ip, override, sighandler, psigset, tsigset, main, at, twice,
          switched, exited>>

Points == [code : {"main", "syscall"} \cup Faults, step : 0..MaxStep]
Entry(f) == [code |-> f, step |-> 0]

(* In syscall(), behind its enter_ringzero.                                *)
InSyscall == Entry("syscall")

Slots == 0..(Depth - 1)

(* The bits of signal numbers up to SIGUSR5 (14), and SIGKILL, which is    *)
(* the first of the enumeration and so zero.                               *)
Bits == 0..3
SIGKILL == {}

TypeOK ==
    /\ mode \in {"user", "fault", "timer", "trap", "syscall", "sysret", "ready", "leave",
                 "gone"}
    /\ cur \in Points
    /\ ip \in Points
    /\ override \in [Slots -> Points \cup {Null}]
    /\ sighandler \in SUBSET Faults
    /\ psigset \in SUBSET Bits
    /\ tsigset \in SUBSET Bits
    /\ main \in Points
    /\ at \in Points
    /\ twice \in BOOLEAN
    /\ switched \in BOOLEAN
    /\ exited \in BOOLEAN

(* exec left the thread at the start of its program.                       *)
Init ==
    /\ mode = "user"
    /\ cur = Entry("main")
    /\ ip = Entry("main")
    /\ override = [i \in Slots |-> Null]
    /\ sighandler \in SUBSET Faults
    /\ psigset = {}
    /\ tsigset = {}
    /\ main = Entry("main")
    /\ at = Entry("main")
    /\ twice = FALSE
    /\ switched = FALSE
    /\ exited = FALSE
-----------------------------------------------------------------------------
(* The thread executes an instruction of its own.                          *)
Advance ==
    /\ mode = "user"
    /\ cur.code # "syscall" /\ cur.step < MaxStep
    /\ cur' = [cur EXCEPT !.step = cur.step + 1]
    /\ main' = IF cur.code = "main" THEN cur' ELSE main
    /\ UNCHANGED <<mode, ip, override, sighandler, psigset, tsigset, at, twice,
                   switched, exited>>

(* Faulty variant: the override is not tested.                             *)
StoreMain(point) == ip' = point /\ UNCHANGED override

(* store_state: the instruction goes to the first handler of the queue or, *)
(* when there is none, to the program.                                     *)
Store(point) ==
    IF override[0] # Null
    THEN override' = [override EXCEPT ![0] = point] /\ UNCHANGED ip
    ELSE ip' = point /\ UNCHANGED override

(* ENTER_RINGZERO of a handler's template, for a fault, for vector 0,      *)
(* which is a syscall, and of timed_out.                                   *)
StoreState ==
    /\ mode = "user"
    /\ \/ mode' \in {"fault", "timer"}
       \/ mode' = "trap" /\ cur.code # "syscall"
    /\ Store(cur)
    /\ at' = cur
    /\ twice' = FALSE
    /\ switched' = FALSE
    /\ UNCHANGED <<cur, sighandler, psigset, tsigset, main, exited>>

(* syscall: enter_ringzero again.                                          *)
Syscall ==
    /\ mode = "trap"
    /\ mode' = "syscall"
    /\ Store(InSyscall)
    /\ twice' = TRUE
    /\ UNCHANGED <<cur, sighandler, psigset, tsigset, main, at, switched, exited>>

(* A thread that is resumed there goes on in syscall(): it gets to the     *)
(* function that its stack names, and nothing is stored.                   *)
Redispatch ==
    /\ mode = "user"
    /\ cur = InSyscall
    /\ mode' = "syscall"
    /\ at' = cur
    /\ twice' = FALSE
    /\ switched' = FALSE
    /\ UNCHANGED <<cur, ip, override, sighandler, psigset, tsigset, main, exited>>

(* Faulty variant: the handler is put in front whatever is there.          *)
SignalIssuerFront(f) ==
    /\ mode = "fault"
    /\ override' = IF f \in sighandler THEN [override EXCEPT ![0] = Entry(f)] ELSE override
    /\ switched' = (f \in sighandler /\ override[0] = Null)
    /\ psigset' = psigset \cup SIGKILL
    /\ mode' = "leave"
    /\ UNCHANGED <<cur, ip, sighandler, tsigset, main, at, twice, exited>>

(* signal_issuer: the loop over the queue does not stop at the entry it    *)
(* fills, so all the free ones get the handler and i always reaches 16.    *)
SignalIssuer(f) ==
    /\ mode = "fault"
    /\ override' = [i \in Slots |->
                       IF override[i] = Null /\ f \in sighandler THEN Entry(f)
                       ELSE override[i]]
    /\ switched' = (f \in sighandler /\ override[0] = Null)
    /\ psigset' = psigset \cup SIGKILL
    /\ mode' = "leave"
    /\ UNCHANGED <<cur, ip, sighandler, tsigset, main, at, twice, exited>>

(* killer: sigset is assigned, so that what was pending is dropped.        *)
Killer ==
    /\ mode = "fault"
    /\ psigset' = SIGKILL
    /\ mode' = "leave"
    /\ UNCHANGED <<cur, ip, override, sighandler, tsigset, main, at, twice,
                   switched, exited>>

(* signal_handler_return: every entry but the last moves up.               *)
SignalHandlerReturn ==
    /\ mode = "syscall"
    /\ override' = [i \in Slots |-> IF i < Depth - 1 THEN override[i + 1] ELSE override[i]]
    /\ switched' = (override[0] # Null)
    /\ mode' = "sysret"
    /\ UNCHANGED <<cur, ip, sighandler, psigset, tsigset, main, at, twice, exited>>

(* SYS_PEXIT *)
SysPexit ==
    /\ mode = "syscall"
    /\ psigset' = psigset \cup SIGKILL
    /\ exited' = TRUE
    /\ mode' = "sysret"
    /\ UNCHANGED <<cur, ip, override, sighandler, tsigset, main, at, twice, switched>>

(* SYS_TEXIT *)
SysTexit ==
    /\ mode = "syscall"
    /\ tsigset' = tsigset \cup SIGKILL
    /\ mode' = "sysret"
    /\ UNCHANGED <<cur, ip, override, sighandler, psigset, main, at, twice,
                   switched, exited>>

(* sysret of an application's thread: the thread may be chosen again.      *)
Sysret ==
    /\ mode = "sysret"
    /\ mode' = "ready"
    /\ UNCHANGED <<cur, ip, override, sighandler, psigset, tsigset, main, at, twice,
                   switched, exited>>

(* timed_out: back to the scheduler without a syscall.                     *)
TimedOut ==
    /\ mode = "timer"
    /\ mode' = "ready"
    /\ UNCHANGED <<cur, ip, override, sighandler, psigset, tsigset, main, at, twice,
                   switched, exited>>

(* getnext_thread comes to the thread, kills it when its process has the   *)
(* SIGKILL bit and otherwise chooses it.                                   *)
GetnextThread ==
    /\ mode = "ready"
    /\ mode' = IF psigset \cap SIGKILL # {} THEN "gone" ELSE "leave"
    /\ UNCHANGED <<cur, ip, override, sighandler, psigset, tsigset, main, at, twice,
                   switched, exited>>

Resume == IF override[0] # Null THEN override[0] ELSE ip

(* leave_ringzero *)
LeaveRingzero ==
    /\ mode = "leave"
    /\ mode' = "user"
    /\ cur' = Resume
    /\ UNCHANGED <<ip, override, sighandler, psigset, tsigset, main, at, twice,
                   switched, exited>>

(* Faulty variant: the signal is shifted once too often.                   *)
SysPsignalShifted ==
    /\ mode # "gone"
    /\ \E b \in Bits : psigset' = psigset \cup {b + 1}
    /\ UNCHANGED <<mode, cur, ip, override, sighandler, tsigset, main, at, twice,
                   switched, exited>>

(* SYS_PSIGNAL of another process: a mask with one bit.                    *)
SysPsignal ==
    /\ mode # "gone"
    /\ \E b \in Bits : psigset' = psigset \cup {b}
    /\ UNCHANGED <<mode, cur, ip, override, sighandler, tsigset, main, at, twice,
                   switched, exited>>

(* SYS_TSIGNAL of another thread: any mask.                                *)
SysTsignal ==
    /\ mode # "gone"
    /\ \E s \in SUBSET Bits : tsigset' = tsigset \cup s
    /\ UNCHANGED <<mode, cur, ip, override, sighandler, psigset, main, at, twice,
                   switched, exited>>

Kernel ==
    \/ \E f \in Faults : SignalIssuer(f)
    \/ Killer \/ Syscall \/ SignalHandlerReturn \/ SysPexit \/ SysTexit
    \/ Sysret \/ TimedOut \/ GetnextThread \/ LeaveRingzero

Next == Advance \/ StoreState \/ Redispatch \/ Kernel \/ SysPsignal \/ SysTsignal

Spec == Init /\ [][Next]_vars

(* The kernel goes on, and the scheduler comes to every thread.            *)
FairSpec == Spec /\ WF_vars(Kernel)
-----------------------------------------------------------------------------
(* However traps, signals and returns from handlers follow each other, no  *)
(* handler's context ever takes the place of the main program's: in        *)
(* instruction_pointer is the place it was at when it was last             *)
(* interrupted, or what the second store of its own syscall left there.    *)
MainContextSafe ==
    IF mode = "user" /\ cur.code = "main" THEN cur = main ELSE ip \in {main, InSyscall}

(* Unless a first handler was started or a handler returned, a trip to the *)
(* kernel by a fault or the timer ends where it began: a handler           *)
(* interrupted by a further signal, a fault or the scheduler goes on at    *)
(* its own instruction.  A syscall does not: it ends in syscall().         *)
ResumesInterrupted ==
    mode \notin {"user", "gone"} /\ ~switched =>
        Resume = IF twice THEN InSyscall ELSE at

(* The comment of SYS_PEXIT: "Kills the calling process".                  *)
ExitKills == exited ~> mode = "gone"
=============================================================================
