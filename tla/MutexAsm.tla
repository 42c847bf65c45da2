------------------------------ MODULE MutexAsm ------------------------------
(***************************************************************************)
(* mutex(), the inline assembly of kontrol.h under every lock of the       *)
(* kernel, one instruction per step.  The exchange is read with the only   *)
(* operand order the instruction has: (%rcx), the calendar, is compared    *)
(* with al and replaced by dl.  The other modules take a lock as one       *)
(* atomic step that finds the calendar zero and leaves 255 in it, which is *)
(* what this routine is for; this module is what it does.                  *)
(***************************************************************************)
EXTENDS Naturals

CONSTANT Processors

VARIABLES pc,        \* per processor, the label of the next instruction
          eax,       \* per processor
          edx,       \* per processor
          zf,        \* per processor, the zero flag
          won,       \* history: the processor's exchange happened
          calendar   \* the lock byte

vars == <<pc, eax, edx, zf, won, calendar>>

Init ==
    /\ pc = [p \in Processors |-> "MOVrdx"]
    /\ eax = [p \in Processors |-> 0]
    /\ edx = [p \in Processors |-> 0]
    /\ zf = [p \in Processors |-> FALSE]
    /\ won = [p \in Processors |-> FALSE]
    /\ calendar = 0

At(p, label, next) == pc[p] = label /\ pc' = [pc EXCEPT ![p] = next]

(* MOVq $255,%rdx *)
MOVrdx(p) ==
    /\ At(p, "MOVrdx", "mutex_loop")
    /\ edx' = [edx EXCEPT ![p] = 255]
    /\ UNCHANGED <<eax, zf, won, calendar>>

(* mutex_loop: XORl %eax,%eax *)
XORl(p) ==
    /\ At(p, "mutex_loop", "CMPXCHG")
    /\ eax' = [eax EXCEPT ![p] = 0]
    /\ zf' = [zf EXCEPT ![p] = TRUE]
    /\ UNCHANGED <<edx, won, calendar>>

(* LOCK CMPXCHG (%rcx),%dl *)
CMPXCHG(p) ==
    /\ At(p, "CMPXCHG", "TESTedx")
    /\ IF calendar = eax[p]
       THEN /\ calendar' = edx[p]
            /\ zf' = [zf EXCEPT ![p] = TRUE]
            /\ won' = [won EXCEPT ![p] = TRUE]
            /\ UNCHANGED eax
       ELSE /\ eax' = [eax EXCEPT ![p] = calendar]
            /\ zf' = [zf EXCEPT ![p] = FALSE]
            /\ UNCHANGED <<won, calendar>>
    /\ UNCHANGED edx

(* TEST %edx,%edx *)
TESTedx(p) ==
    /\ At(p, "TESTedx", "JZ")
    /\ zf' = [zf EXCEPT ![p] = (edx[p] = 0)]
    /\ UNCHANGED <<eax, edx, won, calendar>>

(* JZ mutex_broken *)
JZ(p) ==
    /\ At(p, "JZ", IF zf[p] THEN "mutex_broken" ELSE "lelul")
    /\ UNCHANGED <<eax, edx, zf, won, calendar>>

(* lelul: MOVq $500,%rax *)
MOVrax(p) ==
    /\ At(p, "lelul", "DEC")
    /\ eax' = [eax EXCEPT ![p] = 500]
    /\ UNCHANGED <<edx, zf, won, calendar>>

(* DEC %eax; TEST %eax,%eax *)
DEC(p) ==
    /\ At(p, "DEC", "JNZ")
    /\ eax' = [eax EXCEPT ![p] = eax[p] - 1]
    /\ zf' = [zf EXCEPT ![p] = (eax[p] - 1 = 0)]
    /\ UNCHANGED <<edx, won, calendar>>

(* JNZ lelul; jmp mutex_loop *)
JNZ(p) ==
    /\ At(p, "JNZ", IF zf[p] THEN "mutex_loop" ELSE "lelul")
    /\ UNCHANGED <<eax, edx, zf, won, calendar>>

Step(p) ==
    \/ MOVrdx(p) \/ XORl(p) \/ CMPXCHG(p) \/ TESTedx(p) \/ JZ(p)
    \/ MOVrax(p) \/ DEC(p) \/ JNZ(p)

Next == \E p \in Processors : Step(p)

(* A processor goes on executing instructions.                             *)
FairSpec == Init /\ [][Next]_vars /\ \A p \in Processors : WF_vars(Step(p))
-----------------------------------------------------------------------------
(* The comment on TEST says it is "testing wether the exchange happened":  *)
(* a processor whose exchange happened gets out of the loop.               *)
ExchangeEndsLoop == \A p \in Processors : won[p] ~> pc[p] = "mutex_broken"
=============================================================================
