------------------------- MODULE KernelLocksProofs --------------------------
(***************************************************************************)
(* What the rules of LockDiscipline mean: when every operation keeps them, *)
(* any number of processors, in any mix of operations and any interleaving *)
(* of their steps, exclude each other, lose no inner lock, never wait in a *)
(* circle, and implement RankedLocks.                                      *)
(***************************************************************************)
EXTENDS LockDiscipline, SequenceTheorems, TLAPS

(* The locks that the operations on a stack have.                          *)
HeldBy(s) == UNION {s[i].has : i \in DOMAIN s}

(* What the calendars show, and who is where.                              *)
Shown == \A p \in Processors : \A l \in Inside(p) \ {"kdescs"} : calendar[l] = 255
Apart == \A p, q \in Processors : p # q => Inside(p) \cap Inside(q) \subseteq {"kdescs"}
HungThere == \A p \in hung : stack[p] # <<>> /\ Instruction(p).do = "hang"
Started == \A p \in Processors : stack[p] # <<>> => p \in up

IInv ==
    /\ TypeOK /\ Follows /\ Shown /\ Apart /\ LosesOnlyOuterLocks
    /\ HungThere /\ Started
-----------------------------------------------------------------------------
(* An operation put on top of a stack.                                     *)
LEMMA Pushed ==
  ASSUME NEW e \in Frames, NEW s \in Seq(Frames)
  PROVE  /\ <<e>> \o s \in Seq(Frames)
         /\ <<e>> \o s # <<>>
         /\ Len(<<e>> \o s) = Len(s) + 1
         /\ (<<e>> \o s)[1] = e
         /\ \A i \in 1 .. Len(s) : (<<e>> \o s)[i + 1] = s[i]
         /\ Head(<<e>> \o s) = e
         /\ Tail(<<e>> \o s) = s
<1>1. /\ <<e>> \in Seq(Frames) /\ Len(<<e>>) = 1 /\ <<e>>[1] = e
  OBVIOUS
<1>2. /\ <<e>> \o s \in Seq(Frames)
      /\ Len(<<e>> \o s) = Len(s) + 1
      /\ (<<e>> \o s)[1] = e
      /\ \A i \in 1 .. Len(s) : (<<e>> \o s)[i + 1] = s[i]
  BY <1>1
<1>3. <<e>> \o s # <<>> /\ Head(<<e>> \o s) = e
  BY <1>2
<1>4. Tail(<<e>> \o s) = s
  <2> DEFINE t == Tail(<<e>> \o s)
  <2>1. t \in Seq(Frames) /\ Len(t) = Len(s) /\ \A i \in 1 .. Len(s) : t[i] = (<<e>> \o s)[i + 1]
    BY <1>2, <1>3, HeadTailProperties
  <2>2. \A i \in 1 .. Len(t) : t[i] = s[i]  BY <2>1, <1>2
  <2> HIDE DEF t
  <2> QED  BY <2>1, <2>2, SeqEqual
<1> QED  BY <1>2, <1>3, <1>4

(* A stack without its innermost operation.                                *)
LEMMA Popped ==
  ASSUME NEW s \in Seq(Frames), s # <<>>
  PROVE  /\ Head(s) \in Frames /\ Head(s) = s[1]
         /\ Tail(s) \in Seq(Frames)
         /\ Len(s) \in Nat \ {0} /\ Len(Tail(s)) = Len(s) - 1
         /\ \A i \in 1 .. Len(Tail(s)) : Tail(s)[i] = s[i + 1]
  BY HeadTailProperties

(* The innermost operation with other locks.                               *)
LEMMA Updated ==
  ASSUME NEW f \in Frames, NEW H \in SUBSET Locks
  PROVE  /\ [f EXCEPT !.has = H] = [fn |-> f.fn, pc |-> f.pc, has |-> H]
         /\ [f EXCEPT !.has = H] \in Frames
  BY DEF Frames

(* The innermost operation of a stack that keeps the rules, and the rest.  *)
LEMMA KeptPopped ==
  ASSUME NEW s \in Seq(Frames), s # <<>>, Kept(s)
  PROVE  /\ Regular(Head(s))
         /\ Kept(Tail(s))
         /\ Nested(Head(s), HeldBy(Tail(s)))
         /\ HeldBy(s) = Head(s).has \cup HeldBy(Tail(s))
<1>1. /\ Head(s) \in Frames /\ Head(s) = s[1]
      /\ Tail(s) \in Seq(Frames)
      /\ Len(s) \in Nat \ {0} /\ Len(Tail(s)) = Len(s) - 1
      /\ \A i \in 1 .. Len(Tail(s)) : Tail(s)[i] = s[i + 1]
  BY Popped
<1>2. DOMAIN s = 1 .. Len(s) /\ DOMAIN Tail(s) = 1 .. Len(Tail(s))  BY <1>1
<1>3. Regular(Head(s))  BY <1>1, <1>2 DEF Kept
<1>4. \A i \in DOMAIN Tail(s) : i + 1 \in DOMAIN s /\ Tail(s)[i] = s[i + 1]  BY <1>1, <1>2
<1>5. Kept(Tail(s))
  <2>1. \A i \in DOMAIN Tail(s) : Regular(Tail(s)[i])  BY <1>4 DEF Kept
  <2>2. ASSUME NEW i \in DOMAIN Tail(s), NEW j \in DOMAIN Tail(s), i < j
        PROVE  Nested(Tail(s)[i], Tail(s)[j].has)
    <3>1. i + 1 < j + 1  BY <1>1, <1>2, <2>2
    <3> QED  BY <1>4, <3>1 DEF Kept
  <2> QED  BY <2>1, <2>2 DEF Kept
<1>6. \A j \in DOMAIN Tail(s) : Nested(Head(s), Tail(s)[j].has)
  <2> SUFFICES ASSUME NEW j \in DOMAIN Tail(s) PROVE Nested(Head(s), Tail(s)[j].has)
    OBVIOUS
  <2>1. 1 < j + 1 /\ 1 \in DOMAIN s  BY <1>1, <1>2
  <2> QED  BY <1>1, <1>4, <2>1 DEF Kept
<1>7. Nested(Head(s), HeldBy(Tail(s)))  BY <1>6 DEF Nested, HeldBy
<1>8. HeldBy(s) = Head(s).has \cup HeldBy(Tail(s))
  <2>1. \A l : l \in HeldBy(s) <=> \E i \in DOMAIN s : l \in s[i].has  BY DEF HeldBy
  <2>2. \A l : l \in HeldBy(Tail(s)) <=> \E i \in DOMAIN Tail(s) : l \in Tail(s)[i].has
    BY DEF HeldBy
  <2>3. \A i \in DOMAIN s : i = 1 \/ (i - 1 \in DOMAIN Tail(s) /\ Tail(s)[i - 1] = s[i])
    BY <1>1, <1>2
  <2>4. 1 \in DOMAIN s  BY <1>1, <1>2
  <2>5. ASSUME NEW l \in HeldBy(s) PROVE l \in Head(s).has \cup HeldBy(Tail(s))
    <3>1. PICK i \in DOMAIN s : l \in s[i].has  BY <2>1
    <3> QED  BY <1>1, <2>2, <2>3, <3>1
  <2>6. ASSUME NEW l \in HeldBy(Tail(s)) PROVE l \in HeldBy(s)
    <3>1. PICK i \in DOMAIN Tail(s) : l \in Tail(s)[i].has  BY <2>2
    <3> QED  BY <1>4, <2>1, <3>1
  <2>7. ASSUME NEW l \in Head(s).has PROVE l \in HeldBy(s)  BY <1>1, <2>1, <2>4
  <2> QED  BY <2>5, <2>6, <2>7
<1> QED  BY <1>3, <1>5, <1>7, <1>8

(* A regular operation put on top of a stack that keeps the rules.         *)
LEMMA KeptPushed ==
  ASSUME NEW e, Regular(e), NEW s \in Seq(Frames), Kept(s), Nested(e, HeldBy(s))
  PROVE  /\ <<e>> \o s \in Seq(Frames)
         /\ Kept(<<e>> \o s)
         /\ HeldBy(<<e>> \o s) = e.has \cup HeldBy(s)
<1> DEFINE t == <<e>> \o s
<1>1. /\ e \in Frames
      /\ t \in Seq(Frames) /\ Len(t) = Len(s) + 1 /\ t[1] = e
      /\ \A i \in 1 .. Len(s) : t[i + 1] = s[i]
  BY Pushed DEF Regular
<1> HIDE DEF t
<1>2. DOMAIN t = 1 .. Len(t) /\ DOMAIN s = 1 .. Len(s) /\ Len(s) \in Nat  BY <1>1
<1>3. \A i \in DOMAIN t : i = 1 \/ (i - 1 \in DOMAIN s /\ t[i] = s[i - 1])
  <2> SUFFICES ASSUME NEW i \in DOMAIN t, i # 1 PROVE i - 1 \in DOMAIN s /\ t[i] = s[i - 1]
    OBVIOUS
  <2>1. i - 1 \in 1 .. Len(s) /\ (i - 1) + 1 = i  BY <1>1, <1>2
  <2> QED  BY <1>1, <1>2, <2>1
<1>4. \A i \in DOMAIN t : Regular(t[i])  BY <1>1, <1>3 DEF Kept
<1>5. ASSUME NEW i \in DOMAIN t, NEW j \in DOMAIN t, i < j
      PROVE  Nested(t[i], t[j].has)
  <2>1. j # 1 /\ i \in Int /\ j \in Int  BY <1>2, <1>5
  <2>2. j - 1 \in DOMAIN s /\ t[j] = s[j - 1]  BY <1>3, <2>1
  <2>3. CASE i = 1
    <3>1. t[j].has \subseteq HeldBy(s)  BY <2>2 DEF HeldBy
    <3> QED  BY <1>1, <2>3, <3>1 DEF Nested
  <2>4. CASE i # 1
    <3>1. i - 1 \in DOMAIN s /\ t[i] = s[i - 1] /\ i - 1 < j - 1  BY <1>3, <1>5, <2>1, <2>4
    <3> QED  BY <2>2, <3>1 DEF Kept
  <2> QED  BY <2>3, <2>4
<1>6. HeldBy(t) = e.has \cup HeldBy(s)
  <2>1. \A l : l \in HeldBy(s) <=> \E i \in DOMAIN s : l \in s[i].has  BY DEF HeldBy
  <2>2. \A l : l \in HeldBy(t) <=> \E i \in DOMAIN t : l \in t[i].has  BY DEF HeldBy
  <2>3. 1 \in DOMAIN t /\ \A i \in DOMAIN s : i + 1 \in DOMAIN t /\ t[i + 1] = s[i]
    BY <1>1, <1>2
  <2>4. ASSUME NEW l \in HeldBy(t) PROVE l \in e.has \cup HeldBy(s)
    <3>1. PICK i \in DOMAIN t : l \in t[i].has  BY <2>2
    <3> QED  BY <1>1, <1>3, <2>1, <3>1
  <2>5. ASSUME NEW l \in HeldBy(s) PROVE l \in HeldBy(t)
    <3>1. PICK i \in DOMAIN s : l \in s[i].has  BY <2>1
    <3> QED  BY <2>2, <2>3, <3>1
  <2>6. ASSUME NEW l \in e.has PROVE l \in HeldBy(t)  BY <1>1, <2>2, <2>3
  <2> QED  BY <2>4, <2>5, <2>6
<1> QED  BY <1>1, <1>4, <1>5, <1>6 DEF Kept, t
-----------------------------------------------------------------------------
(* What a regular operation is in front of.                                *)
LEMMA RegularHere ==
  ASSUME Disciplined, NEW f, Regular(f)
  PROVE  /\ f \in Frames /\ f.fn \in Operations /\ f.has \in SUBSET Locks
         /\ f = [fn |-> f.fn, pc |-> f.pc, has |-> f.has]
         /\ Len(Code[f.fn]) \in Nat
         /\ f.pc \in 1 .. Len(Code[f.fn])
         /\ f.has = HasAt[f.fn][f.pc]
         /\ f.pc < Len(Code[f.fn]) =>
               /\ f.pc + 1 \in DOMAIN Code[f.fn]
               /\ HasAt[f.fn][f.pc + 1] = Effect(Code[f.fn][f.pc], f.has)
<1>1. f \in Frames /\ f.fn \in Operations /\ f.has \in SUBSET Locks
      /\ f = [fn |-> f.fn, pc |-> f.pc, has |-> f.has]
  BY DEF Regular, Frames, Operations
<1>2. Code[f.fn] \in Seq([do : STRING, of : SUBSET (Locks \cup Operations)])
  BY <1>1 DEF Disciplined, WellFormed
<1>3. Len(Code[f.fn]) \in Nat /\ DOMAIN Code[f.fn] = 1 .. Len(Code[f.fn])  BY <1>2
<1>4. f.pc \in 1 .. Len(Code[f.fn]) /\ f.has = HasAt[f.fn][f.pc]  BY <1>3 DEF Regular
<1>5. ASSUME f.pc < Len(Code[f.fn])
      PROVE  /\ f.pc + 1 \in DOMAIN Code[f.fn]
             /\ HasAt[f.fn][f.pc + 1] = Effect(Code[f.fn][f.pc], f.has)
  BY <1>1, <1>3, <1>4, <1>5 DEF Disciplined, Annotated
<1> QED  BY <1>1, <1>3, <1>4, <1>5

(* An instruction that was carried out leads to the next one, or out of    *)
(* the operation: then the locks that the operation still has are outer    *)
(* ones.                                                                   *)
LEMMA AfterKept ==
  ASSUME Disciplined, NEW t \in Seq(Frames), t # <<>>,
         Head(t).pc \in DOMAIN Code[Head(t).fn],
         Head(t).has = Effect(Code[Head(t).fn][Head(t).pc], HasAt[Head(t).fn][Head(t).pc]),
         Kept(Tail(t)), Nested(Head(t), HeldBy(Tail(t)))
  PROVE  /\ After(t) \in Seq(Frames) /\ Kept(After(t))
         /\ Head(t).pc = Len(Code[Head(t).fn]) =>
               After(t) = Tail(t) /\ Head(t).has \subseteq OuterLocks
         /\ Head(t).pc # Len(Code[Head(t).fn]) =>
               HeldBy(After(t)) = Head(t).has \cup HeldBy(Tail(t))
<1> DEFINE f == Head(t)
<1>1. f \in Frames /\ Tail(t) \in Seq(Frames)  BY Popped
<1>2. f.fn \in Operations  BY <1>1 DEF Frames, Operations
<1>3. Len(Code[f.fn]) \in Nat /\ DOMAIN Code[f.fn] = 1 .. Len(Code[f.fn])
  <2>1. Code[f.fn] \in Seq([do : STRING, of : SUBSET (Locks \cup Operations)])
    BY <1>2 DEF Disciplined, WellFormed
  <2> QED  BY <2>1
<1>4. CASE f.pc = Len(Code[f.fn])
  <2>1. After(t) = Tail(t)  BY <1>4 DEF After
  <2>2. f.has \subseteq OuterLocks  BY <1>2, <1>4 DEF Disciplined, KeepsOuterOnly
  <2> QED  BY <1>1, <1>4, <2>1, <2>2
<1>5. CASE f.pc # Len(Code[f.fn])
  <2> DEFINE e == [fn |-> f.fn, pc |-> f.pc + 1, has |-> f.has]
  <2>1. [f EXCEPT !.pc = @ + 1] = e  BY <1>1 DEF Frames
  <2>2. After(t) = <<e>> \o Tail(t)  BY <1>5, <2>1 DEF After
  <2>3. f.pc \in 1 .. Len(Code[f.fn]) /\ f.pc < Len(Code[f.fn])  BY <1>3, <1>5
  <2>4. f.pc + 1 \in DOMAIN Code[f.fn]  BY <1>3, <2>3
  <2>5. HasAt[f.fn][f.pc + 1] = f.has  BY <1>2, <2>3 DEF Disciplined, Annotated
  <2>6. e \in Frames  BY <1>1, <2>3 DEF Frames
  <2>7. Regular(e)  BY <2>4, <2>5, <2>6 DEF Regular
  <2>8. Nested(e, HeldBy(Tail(t))) /\ e.has = f.has  BY DEF Nested
  <2> HIDE DEF e
  <2> QED  BY <1>1, <1>5, <2>2, <2>7, <2>8, KeptPushed
<1> QED  BY <1>4, <1>5

(* An operation that is entered has no lock yet.                           *)
LEMMA EnteredRegular ==
  ASSUME Disciplined, NEW g \in Operations
  PROVE  Regular(Entered(g)) /\ Entered(g).fn = g /\ Entered(g).has = {}
<1>1. Code[g] \in Seq([do : STRING, of : SUBSET (Locks \cup Operations)]) /\ Code[g] # <<>>
  BY DEF Disciplined, WellFormed
<1>2. 1 \in DOMAIN Code[g]  BY <1>1
<1>3. HasAt[g][1] = {}  BY DEF Disciplined, Annotated
<1> QED  BY <1>2, <1>3 DEF Regular, Entered, Frames, Operations
-----------------------------------------------------------------------------
(* What a step can do to the locks of its processor p, whose stack becomes *)
(* s: it forgets outer locks, or none; it takes the lock l that it waited  *)
(* for; or it gives one back.                                              *)
Forgets(p, s) ==
    /\ calendar' = calendar
    /\ HeldBy(s) \subseteq Inside(p) /\ Inside(p) \ HeldBy(s) \subseteq OuterLocks
    /\ Awaited(p) = None

Takes(p, s, l) ==
    /\ calendar[l] = 0
    /\ calendar' = [calendar EXCEPT ![l] = 255]
    /\ HeldBy(s) = Inside(p) \cup {l}
    /\ Awaited(p) = IF l = "kdescs" THEN None ELSE l

Gives(p, s, l) ==
    /\ l \in Inside(p) \cup {"kdescs"}
    /\ calendar' = [calendar EXCEPT ![l] = 0]
    /\ HeldBy(s) \subseteq Inside(p) /\ Inside(p) \subseteq HeldBy(s) \cup {l}
    /\ l # "kdescs" => l \notin HeldBy(s)
    /\ Awaited(p) = None

Becomes(p, s) ==
    /\ s \in Seq(Frames) /\ Kept(s)
    /\ stack' = [stack EXCEPT ![p] = s]
    /\ \/ Forgets(p, s)
       \/ \E l \in Locks : Takes(p, s, l)
       \/ \E l \in Locks \ Range(Devices) : Gives(p, s, l)

(* Where a processor in the kernel is.                                     *)
LEMMA Here ==
  ASSUME Disciplined, IInv, NEW p \in Processors, stack[p] # <<>>
  PROVE  /\ stack[p] \in Seq(Frames) /\ Kept(stack[p])
         /\ Regular(Head(stack[p]))
         /\ Head(stack[p]) = [fn |-> Head(stack[p]).fn, pc |-> Head(stack[p]).pc,
                              has |-> Head(stack[p]).has]
         /\ Head(stack[p]).fn \in Operations
         /\ Head(stack[p]).pc \in DOMAIN Code[Head(stack[p]).fn]
         /\ Head(stack[p]).has = HasAt[Head(stack[p]).fn][Head(stack[p]).pc]
         /\ Tail(stack[p]) \in Seq(Frames) /\ Kept(Tail(stack[p]))
         /\ HeldBy(Tail(stack[p])) \subseteq Around[Head(stack[p]).fn]
         /\ Head(stack[p]).has \cap HeldBy(Tail(stack[p])) \subseteq {"kdescs"}
         /\ Inside(p) = Head(stack[p]).has \cup HeldBy(Tail(stack[p]))
         /\ Instruction(p) = Code[Head(stack[p]).fn][Head(stack[p]).pc]
<1>1. stack[p] \in Seq(Frames) /\ Kept(stack[p])  BY DEF IInv, TypeOK, Follows
<1>2. /\ Regular(Head(stack[p]))
      /\ Kept(Tail(stack[p]))
      /\ Nested(Head(stack[p]), HeldBy(Tail(stack[p])))
      /\ HeldBy(stack[p]) = Head(stack[p]).has \cup HeldBy(Tail(stack[p]))
  BY <1>1, KeptPopped
<1>3. Tail(stack[p]) \in Seq(Frames)  BY <1>1, Popped
<1>4. Inside(p) = HeldBy(stack[p])  BY DEF Inside, HeldBy
<1>5. /\ Head(stack[p]) = [fn |-> Head(stack[p]).fn, pc |-> Head(stack[p]).pc,
                            has |-> Head(stack[p]).has]
      /\ Head(stack[p]).fn \in Operations
  BY <1>2, RegularHere
<1>6. /\ Head(stack[p]).pc \in DOMAIN Code[Head(stack[p]).fn]
      /\ Head(stack[p]).has = HasAt[Head(stack[p]).fn][Head(stack[p]).pc]
  BY <1>2 DEF Regular
<1>7. /\ HeldBy(Tail(stack[p])) \subseteq Around[Head(stack[p]).fn]
      /\ Head(stack[p]).has \cap HeldBy(Tail(stack[p])) \subseteq {"kdescs"}
  BY <1>2 DEF Nested
<1> QED  BY <1>1, <1>2, <1>3, <1>4, <1>5, <1>6, <1>7 DEF Instruction

(* A processor that is not in front of a lock waits for none.              *)
LEMMA NotWaiting ==
  ASSUME NEW p \in Processors, stack[p] = <<>> \/ Instruction(p).do # "lock"
  PROVE  Awaited(p) = None
  BY DEF Awaited, At

(* An instruction that neither takes nor gives back a lock, carried out.   *)
LEMMA GoesOn ==
  ASSUME Disciplined, IInv, NEW p \in Processors, stack[p] # <<>>,
         Instruction(p).do \notin {"lock", "unlock"}
  PROVE  /\ After(stack[p]) \in Seq(Frames) /\ Kept(After(stack[p]))
         /\ HeldBy(After(stack[p])) \subseteq Inside(p)
         /\ Inside(p) \ HeldBy(After(stack[p])) \subseteq OuterLocks
<1> DEFINE s == stack[p]
<1>1. /\ s \in Seq(Frames) /\ Head(s).pc \in DOMAIN Code[Head(s).fn]
      /\ Head(s).has = HasAt[Head(s).fn][Head(s).pc]
      /\ Kept(Tail(s)) /\ Nested(Head(s), HeldBy(Tail(s)))
      /\ Inside(p) = Head(s).has \cup HeldBy(Tail(s))
      /\ Instruction(p) = Code[Head(s).fn][Head(s).pc]
  BY Here DEF Nested
<1>2. Head(s).has = Effect(Code[Head(s).fn][Head(s).pc], HasAt[Head(s).fn][Head(s).pc])
  BY <1>1 DEF Effect
<1> HIDE DEF s
<1>3. s # <<>>  BY DEF s
<1>4. /\ After(s) \in Seq(Frames) /\ Kept(After(s))
      /\ Head(s).pc = Len(Code[Head(s).fn]) =>
            After(s) = Tail(s) /\ Head(s).has \subseteq OuterLocks
      /\ Head(s).pc # Len(Code[Head(s).fn]) =>
            HeldBy(After(s)) = Head(s).has \cup HeldBy(Tail(s))
  BY <1>1, <1>2, <1>3, AfterKept
<1> QED  BY <1>1, <1>4 DEF s

(* The operation that is returned from keeps outer locks only.             *)
LEMMA Returns ==
  ASSUME Disciplined, IInv, NEW p \in Processors, stack[p] # <<>>,
         Instruction(p).do = "exit"
  PROVE  /\ Tail(stack[p]) \in Seq(Frames) /\ Kept(Tail(stack[p]))
         /\ HeldBy(Tail(stack[p])) \subseteq Inside(p)
         /\ Inside(p) \ HeldBy(Tail(stack[p])) \subseteq OuterLocks
<1>1. Effect(Instruction(p), Head(stack[p]).has) = Head(stack[p]).has  BY DEF Effect
<1>2. /\ Head(stack[p]).fn \in Operations
      /\ Head(stack[p]).pc \in DOMAIN Code[Head(stack[p]).fn]
      /\ Head(stack[p]).has = HasAt[Head(stack[p]).fn][Head(stack[p]).pc]
      /\ Instruction(p) = Code[Head(stack[p]).fn][Head(stack[p]).pc]
  BY Here
<1>3. Head(stack[p]).has \subseteq OuterLocks
  BY <1>1, <1>2 DEF Disciplined, KeepsOuterOnly
<1> QED  BY <1>3, Here

(* The lock that a processor is in front of.                               *)
LEMMA InFront ==
  ASSUME Disciplined, IInv, NEW p \in Processors, At(p, "lock")
  PROVE  \E l \in Locks : /\ Instruction(p) = Lock(l)
                          /\ Awaited(p) = IF l = "kdescs" THEN None ELSE l
<1> DEFINE f == Head(stack[p])
<1>1. stack[p] # <<>> /\ Instruction(p).do = "lock"  BY DEF At
<1>2. /\ Regular(f) /\ f.fn \in Operations /\ f.pc \in DOMAIN Code[f.fn]
      /\ Instruction(p) = Code[f.fn][f.pc]
  BY <1>1, Here
<1>3. PICK l \in Locks : Instruction(p).of = {l}
  BY <1>1, <1>2 DEF Disciplined, WellFormed
<1>4. Instruction(p) = Lock(l)
  <2>1. Code[f.fn] \in Seq([do : STRING, of : SUBSET (Locks \cup Operations)])
    BY <1>2 DEF Disciplined, WellFormed
  <2>2. f.pc \in 1 .. Len(Code[f.fn])  BY <1>2, RegularHere
  <2>3. Code[f.fn][f.pc] \in [do : STRING, of : SUBSET (Locks \cup Operations)]
    BY <2>1, <2>2, ElementOfSeq
  <2> QED  BY <1>1, <1>2, <1>3, <2>3 DEF Lock
<1>5. (CHOOSE m \in Instruction(p).of : TRUE) = l  BY <1>3
<1>6. Lock(l) = Lock("kdescs") <=> l = "kdescs"  BY DEF Lock
<1>7. CASE l = "kdescs"
  <2>1. Awaited(p) = None  BY <1>4, <1>6, <1>7 DEF Awaited
  <2> QED  BY <1>4, <1>7, <2>1
<1>8. CASE l # "kdescs"
  <2>1. Instruction(p) # Lock("kdescs")  BY <1>4, <1>6, <1>8
  <2>2. Awaited(p) = CHOOSE m \in Instruction(p).of : TRUE  BY <2>1 DEF Awaited
  <2> QED  BY <1>4, <1>5, <1>8, <2>2
<1> QED  BY <1>7, <1>8

(* The lock l that the processor was in front of, taken.                   *)
LEMMA TakesOne ==
  ASSUME Disciplined, IInv, NEW p \in Processors, TakeLock(p)
  PROVE  \E s : Becomes(p, s)
<1> DEFINE f == Head(stack[p])
<1>1. stack[p] # <<>> /\ p \notin hung /\ Instruction(p).do = "lock"  BY DEF TakeLock, At
<1>2. /\ stack[p] \in Seq(Frames) /\ Regular(f)
      /\ f = [fn |-> f.fn, pc |-> f.pc, has |-> f.has]
      /\ f.fn \in Operations /\ f.pc \in DOMAIN Code[f.fn]
      /\ Tail(stack[p]) \in Seq(Frames)
      /\ Kept(Tail(stack[p])) /\ HeldBy(Tail(stack[p])) \subseteq Around[f.fn]
      /\ f.has \cap HeldBy(Tail(stack[p])) \subseteq {"kdescs"}
      /\ Inside(p) = f.has \cup HeldBy(Tail(stack[p]))
      /\ Instruction(p) = Code[f.fn][f.pc]
  BY <1>1, Here
<1>3. PICK l \in Instruction(p).of : /\ calendar[l] = 0
                                     /\ calendar' = [calendar EXCEPT ![l] = 255]
                                     /\ Goto(p, After(Having(stack[p], l)))
  BY DEF TakeLock
<1>4. l \in Locks /\ Instruction(p).of = {l} /\ f.pc < Len(Code[f.fn])
  BY <1>1, <1>2, <1>3 DEF Disciplined, WellFormed
<1>5. Awaited(p) = IF l = "kdescs" THEN None ELSE l
  <2>1. At(p, "lock")  BY <1>1 DEF At
  <2>2. PICK m \in Locks : /\ Instruction(p) = Lock(m)
                           /\ Awaited(p) = IF m = "kdescs" THEN None ELSE m
    BY <2>1, InFront
  <2>3. m = l  BY <1>4, <2>2 DEF Lock
  <2> QED  BY <2>2, <2>3
<1> DEFINE H == f.has \cup {l}
           t == Having(stack[p], l)
<1>6. f \in Frames /\ f.has \in SUBSET Locks /\ Len(Code[f.fn]) \in Nat
  BY <1>2, RegularHere
<1>7. /\ t \in Seq(Frames) /\ t # <<>> /\ Tail(t) = Tail(stack[p])
      /\ Head(t) = [fn |-> f.fn, pc |-> f.pc, has |-> H]
  <2>1. H \in SUBSET Locks  BY <1>4, <1>6
  <2>2. t = <<[f EXCEPT !.has = H]>> \o Tail(stack[p])  BY DEF Having
  <2> HIDE DEF f, H, t
  <2>3. /\ [f EXCEPT !.has = H] = [fn |-> f.fn, pc |-> f.pc, has |-> H]
        /\ [f EXCEPT !.has = H] \in Frames
    BY <1>6, <2>1, Updated
  <2> QED  BY <1>2, <2>2, <2>3, Pushed
<1>8. H = Effect(Code[f.fn][f.pc], HasAt[f.fn][f.pc])
  BY <1>1, <1>2, <1>4 DEF Effect, Regular
<1>9. l # "kdescs" => l \notin HeldBy(Tail(stack[p]))
  <2>1. \A m \in Inside(p) \ {"kdescs"} : calendar[m] = 255  BY DEF IInv, Shown
  <2> QED  BY <1>2, <1>3, <2>1
<1>10. Head(t).fn = f.fn /\ Head(t).pc = f.pc /\ Head(t).has = H
  <2> HIDE DEF f, H, t
  <2> QED  BY <1>7
<1>11. /\ Head(t).pc \in DOMAIN Code[Head(t).fn] /\ Head(t).pc # Len(Code[Head(t).fn])
       /\ Head(t).has = Effect(Code[Head(t).fn][Head(t).pc], HasAt[Head(t).fn][Head(t).pc])
       /\ Nested(Head(t), HeldBy(Tail(t))) /\ Kept(Tail(t))
  <2>1. H \cap HeldBy(Tail(stack[p])) \subseteq {"kdescs"}  BY <1>2, <1>9
  <2>2. f.pc # Len(Code[f.fn])  BY <1>2, <1>4, <1>6, RegularHere
  <2> HIDE DEF f, H, t
  <2> QED  BY <1>2, <1>7, <1>8, <1>10, <2>1, <2>2 DEF Nested
<1> HIDE DEF f, H, t
<1>12. /\ After(t) \in Seq(Frames) /\ Kept(After(t))
       /\ HeldBy(After(t)) = H \cup HeldBy(Tail(t))
  BY <1>7, <1>10, <1>11, AfterKept
<1>13. HeldBy(After(t)) = Inside(p) \cup {l}  BY <1>2, <1>7, <1>12 DEF H
<1>14. Takes(p, After(t), l)  BY <1>3, <1>5, <1>13 DEF Takes
<1> QED  BY <1>3, <1>4, <1>12, <1>14 DEF Becomes, Goto, t

(* An operation that unlocks the only lock it has, and is over.            *)
LEMMA GivesLast ==
  ASSUME Disciplined, IInv, NEW p \in Processors, stack[p] # <<>>,
         Instruction(p).do # "lock",
         NEW l \in Locks \ Range(Devices), Head(stack[p]).has = {l},
         calendar' = [calendar EXCEPT ![l] = 0], Goto(p, Tail(stack[p]))
  PROVE  Becomes(p, Tail(stack[p]))
<1>1. Awaited(p) = None  BY NotWaiting
<1>2. /\ Tail(stack[p]) \in Seq(Frames) /\ Kept(Tail(stack[p]))
      /\ {l} \cap HeldBy(Tail(stack[p])) \subseteq {"kdescs"}
      /\ Inside(p) = {l} \cup HeldBy(Tail(stack[p]))
  BY Here
<1>3. Gives(p, Tail(stack[p]), l)  BY <1>1, <1>2 DEF Gives
<1> QED  BY <1>2, <1>3 DEF Becomes, Goto

(* A lock that the operation took, given back.                             *)
LEMMA GivesOne ==
  ASSUME Disciplined, IInv, NEW p \in Processors, GiveLock(p)
  PROVE  \E s : Becomes(p, s)
<1> DEFINE f == Head(stack[p])
<1>1. stack[p] # <<>> /\ p \notin hung /\ Instruction(p).do = "unlock"  BY DEF GiveLock, At
<1>2. /\ stack[p] \in Seq(Frames) /\ Regular(f)
      /\ f.fn \in Operations /\ f.pc \in DOMAIN Code[f.fn]
      /\ f.has = HasAt[f.fn][f.pc]
      /\ Tail(stack[p]) \in Seq(Frames)
      /\ Kept(Tail(stack[p])) /\ HeldBy(Tail(stack[p])) \subseteq Around[f.fn]
      /\ f.has \cap HeldBy(Tail(stack[p])) \subseteq {"kdescs"}
      /\ Inside(p) = f.has \cup HeldBy(Tail(stack[p]))
      /\ Instruction(p) = Code[f.fn][f.pc]
  BY <1>1, Here
<1>3. PICK l \in Instruction(p).of : /\ calendar' = [calendar EXCEPT ![l] = 0]
                                     /\ Goto(p, After(Without(stack[p], l)))
  BY DEF GiveLock
<1>4. l \in Locks /\ Instruction(p).of = {l}
  BY <1>1, <1>2, <1>3 DEF Disciplined, WellFormed
<1>5. /\ l \in f.has \cup {"kdescs"} /\ l \notin Range(Devices)
      /\ f.pc = Len(Code[f.fn]) => f.has = {l}
  BY <1>1, <1>2, <1>4 DEF Disciplined, GivesOwn
<1> DEFINE H == f.has \ {l}
           t == Without(stack[p], l)
<1>6. f \in Frames /\ H \in SUBSET Locks
  BY <1>2, RegularHere
<1>7. /\ t \in Seq(Frames) /\ t # <<>> /\ Tail(t) = Tail(stack[p])
      /\ Head(t) = [fn |-> f.fn, pc |-> f.pc, has |-> H]
  <2>1. t = <<[f EXCEPT !.has = H]>> \o Tail(stack[p])  BY DEF Without
  <2> HIDE DEF f, H, t
  <2>2. /\ [f EXCEPT !.has = H] = [fn |-> f.fn, pc |-> f.pc, has |-> H]
        /\ [f EXCEPT !.has = H] \in Frames
    BY <1>6, Updated
  <2> QED  BY <1>2, <2>1, <2>2, Pushed
<1>8. H = Effect(Code[f.fn][f.pc], HasAt[f.fn][f.pc])  BY <1>1, <1>2, <1>4 DEF Effect
<1>9. Head(t).fn = f.fn /\ Head(t).pc = f.pc /\ Head(t).has = H
  <2> HIDE DEF f, H, t
  <2> QED  BY <1>7
<1>10. /\ Head(t).pc \in DOMAIN Code[Head(t).fn]
       /\ Head(t).has = Effect(Code[Head(t).fn][Head(t).pc], HasAt[Head(t).fn][Head(t).pc])
       /\ Nested(Head(t), HeldBy(Tail(t))) /\ Kept(Tail(t))
  <2>1. H \cap HeldBy(Tail(stack[p])) \subseteq {"kdescs"}  BY <1>2
  <2> HIDE DEF f, H, t
  <2> QED  BY <1>2, <1>7, <1>8, <1>9, <2>1 DEF Nested
<1>11. /\ After(t) \in Seq(Frames) /\ Kept(After(t))
       /\ f.pc = Len(Code[f.fn]) => After(t) = Tail(stack[p])
       /\ f.pc # Len(Code[f.fn]) => HeldBy(After(t)) = H \cup HeldBy(Tail(stack[p]))
  <2> HIDE DEF f, H, t
  <2> QED  BY <1>7, <1>9, <1>10, AfterKept
<1>12. Awaited(p) = None  BY <1>1, NotWaiting
<1>13. CASE f.pc = Len(Code[f.fn])
  <2>1. Becomes(p, Tail(stack[p]))
    BY <1>1, <1>3, <1>4, <1>5, <1>11, <1>13, GivesLast
  <2> QED  BY <2>1
<1>14. CASE f.pc # Len(Code[f.fn])
  <2>1. Gives(p, After(t), l)
    <3>1. HeldBy(After(t)) = (f.has \ {l}) \cup HeldBy(Tail(stack[p]))  BY <1>11, <1>14
    <3>2. l \in Inside(p) \cup {"kdescs"}  BY <1>2, <1>5
    <3>3. l # "kdescs" => l \notin HeldBy(Tail(stack[p]))  BY <1>2, <1>5
    <3> HIDE DEF f, H, t
    <3> QED  BY <1>2, <1>3, <1>12, <3>1, <3>2, <3>3 DEF Gives
  <2>2. Becomes(p, After(t))  BY <1>3, <1>4, <1>5, <1>11, <2>1 DEF Becomes, Goto
  <2> QED  BY <2>2
<1> QED  BY <1>13, <1>14

(* Steps that leave the calendars alone.                                   *)
LEMMA GoesOnForgets ==
  ASSUME Disciplined, IInv, NEW p \in Processors, stack[p] # <<>>,
         Instruction(p).do \notin {"lock", "unlock"}, GoOn(p), calendar' = calendar
  PROVE  Becomes(p, After(stack[p]))
<1>1. /\ After(stack[p]) \in Seq(Frames) /\ Kept(After(stack[p]))
      /\ HeldBy(After(stack[p])) \subseteq Inside(p)
      /\ Inside(p) \ HeldBy(After(stack[p])) \subseteq OuterLocks
  BY GoesOn
<1>2. Awaited(p) = None  BY NotWaiting
<1> QED  BY <1>1, <1>2 DEF Becomes, Forgets, GoOn, Goto

(* deallocate_vm and mount may give back the only lock they have, and      *)
(* return.                                                                 *)
LEMMA BailsOut ==
  ASSUME Disciplined, IInv, NEW p \in Processors, BailOut(p)
  PROVE  \E s : Becomes(p, s)
<1> DEFINE f == Head(stack[p])
<1>1. stack[p] # <<>> /\ Instruction(p).do = "bail"  BY DEF BailOut, At
<1>3. ASSUME NEW l \in Instruction(p).of, calendar' = [calendar EXCEPT ![l] = 0],
             Goto(p, Tail(stack[p]))
      PROVE  Becomes(p, Tail(stack[p]))
  <2>1. /\ f.fn \in Operations /\ f.pc \in DOMAIN Code[f.fn]
        /\ f.has = HasAt[f.fn][f.pc]
        /\ Instruction(p) = Code[f.fn][f.pc]
    BY <1>1, Here
  <2>2. l \in Locks /\ Instruction(p).of = {l}
    BY <1>1, <1>3, <2>1 DEF Disciplined, WellFormed
  <2>3. l \notin Range(Devices) /\ f.has = {l}
    BY <1>1, <2>1, <2>2 DEF Disciplined, GivesOwn
  <2> QED  BY <1>1, <1>3, <2>2, <2>3, GivesLast
<1>4. ASSUME GoOn(p), calendar' = calendar PROVE Becomes(p, After(stack[p]))
  BY <1>1, <1>4, GoesOnForgets
<1> QED  BY <1>3, <1>4 DEF BailOut

(* exit                                                                    *)
LEMMA MayReturnForgets ==
  ASSUME Disciplined, IInv, NEW p \in Processors, MayReturn(p)
  PROVE  \E s : Becomes(p, s)
<1>1. stack[p] # <<>> /\ Instruction(p).do = "exit" /\ calendar' = calendar
  BY DEF MayReturn, At
<1>2. CASE Goto(p, Tail(stack[p]))
  <2>1. /\ Tail(stack[p]) \in Seq(Frames) /\ Kept(Tail(stack[p]))
        /\ HeldBy(Tail(stack[p])) \subseteq Inside(p)
        /\ Inside(p) \ HeldBy(Tail(stack[p])) \subseteq OuterLocks
    BY <1>1, Returns
  <2>2. Awaited(p) = None  BY <1>1, NotWaiting
  <2>3. Becomes(p, Tail(stack[p]))  BY <1>1, <1>2, <2>1, <2>2 DEF Becomes, Forgets, Goto
  <2> QED  BY <2>3
<1>3. CASE GoOn(p)
  <2>1. Becomes(p, After(stack[p]))  BY <1>1, <1>3, GoesOnForgets
  <2> QED  BY <2>1
<1> QED  BY <1>2, <1>3 DEF MayReturn

(* An operation g called from a stack that has become s.                   *)
LEMMA CallsOne ==
  ASSUME Disciplined, IInv, NEW p \in Processors, stack[p] # <<>>,
         Instruction(p).do \in Calling, NEW g \in Instruction(p).of,
         NEW s \in Seq(Frames), Kept(s),
         HeldBy(s) \subseteq Inside(p), Inside(p) \ HeldBy(s) \subseteq OuterLocks,
         Goto(p, <<Entered(g)>> \o s), calendar' = calendar
  PROVE  Becomes(p, <<Entered(g)>> \o s)
<1> DEFINE f == Head(stack[p])
<1>1. /\ f.fn \in Operations /\ f.pc \in DOMAIN Code[f.fn]
      /\ f.has = HasAt[f.fn][f.pc]
      /\ HeldBy(Tail(stack[p])) \subseteq Around[f.fn]
      /\ Inside(p) = f.has \cup HeldBy(Tail(stack[p]))
      /\ Instruction(p) = Code[f.fn][f.pc]
      /\ Regular(f)
  BY Here
<1> HIDE DEF f
<1>2. f.pc \in 1 .. Len(Code[f.fn])  BY <1>1, RegularHere
<1>3. g \in Operations  BY <1>1 DEF Disciplined, WellFormed
<1>4. Around[f.fn] \cup HasAt[f.fn][f.pc] \subseteq Around[g]
  BY <1>1, <1>2 DEF Disciplined, Annotated
<1>5. Regular(Entered(g)) /\ Entered(g).fn = g /\ Entered(g).has = {}
  BY <1>3, EnteredRegular
<1>6. Nested(Entered(g), HeldBy(s))  BY <1>1, <1>4, <1>5 DEF Nested
<1>7. /\ <<Entered(g)>> \o s \in Seq(Frames) /\ Kept(<<Entered(g)>> \o s)
      /\ HeldBy(<<Entered(g)>> \o s) = Entered(g).has \cup HeldBy(s)
  BY <1>5, <1>6, KeptPushed
<1>8. HeldBy(<<Entered(g)>> \o s) = HeldBy(s)  BY <1>5, <1>7
<1>9. Instruction(p).do # "lock"  BY DEF Calling
<1>10. Awaited(p) = None  BY <1>9, NotWaiting
<1> QED  BY <1>7, <1>8, <1>10 DEF Becomes, Forgets, Goto

(* call and may, with what is left of the caller on the stack; loop, with  *)
(* the caller in front of the loop again.                                  *)
LEMMA CallsForget ==
  ASSUME Disciplined, IInv, NEW p \in Processors, CallOne(p) \/ Repeat(p)
  PROVE  \E s : Becomes(p, s)
<1>1. /\ stack[p] # <<>> /\ Instruction(p).do \in Calling /\ calendar' = calendar
      /\ Instruction(p).do \notin {"lock", "unlock"}
  BY DEF CallOne, Repeat, At, Calling
<1>2. CASE CallOne(p)
  <2>1. PICK g \in Instruction(p).of : Goto(p, <<Entered(g)>> \o After(stack[p]))
    BY <1>2 DEF CallOne
  <2>2. /\ After(stack[p]) \in Seq(Frames) /\ Kept(After(stack[p]))
        /\ HeldBy(After(stack[p])) \subseteq Inside(p)
        /\ Inside(p) \ HeldBy(After(stack[p])) \subseteq OuterLocks
    BY <1>1, GoesOn
  <2>3. Becomes(p, <<Entered(g)>> \o After(stack[p]))  BY <1>1, <2>1, <2>2, CallsOne
  <2> QED  BY <2>3
<1>3. CASE Repeat(p)
  <2>1. PICK g \in Instruction(p).of : Goto(p, <<Entered(g)>> \o stack[p])
    BY <1>3 DEF Repeat
  <2>2. stack[p] \in Seq(Frames) /\ Kept(stack[p])  BY <1>1, Here
  <2>3. HeldBy(stack[p]) = Inside(p)  BY DEF HeldBy, Inside
  <2>4. Becomes(p, <<Entered(g)>> \o stack[p])  BY <1>1, <2>1, <2>2, <2>3, CallsOne
  <2> QED  BY <2>4
<1> QED  BY <1>2, <1>3

(* A stack with nothing on it.                                             *)
LEMMA EmptyKept == <<>> \in Seq(Frames) /\ Kept(<<>>) /\ HeldBy(<<>>) = {}
<1>1. <<>> \in Seq(Frames) /\ DOMAIN <<>> = {}  OBVIOUS
<1> QED  BY <1>1 DEF Kept, HeldBy

(* A driver that does not answer: everything on the stack is gone.         *)
LEMMA RunForgets ==
  ASSUME Disciplined, IInv, NEW p \in Processors, RunDriver(p)
  PROVE  \E s : Becomes(p, s)
<1>1. stack[p] # <<>> /\ Instruction(p).do = "run" /\ calendar' = calendar
  BY DEF RunDriver, At
<1>2. CASE GoOn(p)
  <2>1. Becomes(p, After(stack[p]))  BY <1>1, <1>2, GoesOnForgets
  <2> QED  BY <2>1
<1>3. CASE Goto(p, <<>>)
  <2> DEFINE f == Head(stack[p])
  <2>1. /\ f.fn \in Operations /\ f.pc \in DOMAIN Code[f.fn]
        /\ f.has = HasAt[f.fn][f.pc]
        /\ HeldBy(Tail(stack[p])) \subseteq Around[f.fn]
        /\ Inside(p) = f.has \cup HeldBy(Tail(stack[p]))
        /\ Instruction(p) = Code[f.fn][f.pc]
    BY <1>1, Here
  <2>2. Inside(p) \subseteq OuterLocks
    BY <1>1, <2>1 DEF Disciplined, KeepsOuterOnly
  <2>3. Awaited(p) = None  BY <1>1, NotWaiting
  <2>4. Becomes(p, <<>>)
    BY <1>1, <1>3, <2>2, <2>3, EmptyKept DEF Becomes, Forgets, Goto
  <2> QED  BY <2>4
<1> QED  BY <1>2, <1>3 DEF RunDriver

(* The victim search, found or not.                                        *)
LEMMA VictimForgets ==
  ASSUME Disciplined, IInv, NEW p \in Processors, PickVictim(p)
  PROVE  \E s : Becomes(p, s)
<1>1. stack[p] # <<>> /\ Instruction(p).do = "hang" /\ calendar' = calendar
  BY DEF PickVictim, At
<1>2. CASE GoOn(p)
  <2>1. Becomes(p, After(stack[p]))  BY <1>1, <1>2, GoesOnForgets
  <2> QED  BY <2>1
<1>3. CASE stack' = stack
  <2>1. stack' = [stack EXCEPT ![p] = stack[p]]  BY <1>3 DEF IInv, TypeOK
  <2>2. stack[p] \in Seq(Frames) /\ Kept(stack[p])  BY <1>1, Here
  <2>3. HeldBy(stack[p]) = Inside(p)  BY DEF HeldBy, Inside
  <2>4. Awaited(p) = None  BY <1>1, NotWaiting
  <2>5. Becomes(p, stack[p])
    BY <1>1, <2>1, <2>2, <2>3, <2>4 DEF Becomes, Forgets
  <2> QED  BY <2>5
<1> QED  BY <1>2, <1>3 DEF PickVictim

(* A trap on a processor in ring three.                                    *)
LEMMA EnterForgets ==
  ASSUME Disciplined, IInv, NEW p \in Processors, Enter(p)
  PROVE  \E s : Becomes(p, s)
<1>1. PICK g \in Calls : stack' = [stack EXCEPT ![p] = <<Entered(g)>>]  BY DEF Enter
<1>2. stack[p] = <<>> /\ calendar' = calendar  BY DEF Enter
<1>3. g \in Operations  BY DEF Disciplined, WellFormed
<1>4. Regular(Entered(g)) /\ Entered(g).has = {}  BY <1>3, EnteredRegular
<1>5. Nested(Entered(g), HeldBy(<<>>))  BY EmptyKept, <1>4 DEF Nested
<1>6. /\ <<Entered(g)>> \o <<>> \in Seq(Frames) /\ Kept(<<Entered(g)>> \o <<>>)
      /\ HeldBy(<<Entered(g)>> \o <<>>) = Entered(g).has \cup HeldBy(<<>>)
  BY <1>4, <1>5, EmptyKept, KeptPushed
<1>7. <<Entered(g)>> \o <<>> = <<Entered(g)>>
  <2>1. Entered(g) \in Frames  BY <1>4 DEF Regular
  <2> QED  BY <2>1
<1>8. HeldBy(<<Entered(g)>>) = {}  BY <1>4, <1>6, <1>7, EmptyKept
<1>9. HeldBy(stack[p]) = Inside(p) /\ HeldBy(stack[p]) = {}
  BY <1>2, EmptyKept DEF HeldBy, Inside
<1>10. Awaited(p) = None  BY <1>2, NotWaiting
<1>11. Becomes(p, <<Entered(g)>>)
  BY <1>1, <1>2, <1>6, <1>7, <1>8, <1>9, <1>10 DEF Becomes, Forgets
<1> QED  BY <1>11

(* Every step of a processor changes its stack in one of the three ways.   *)
LEMMA StepBecomes ==
  ASSUME Disciplined, IInv, NEW p \in Processors, Enter(p) \/ Step(p)
  PROVE  \E s : Becomes(p, s)
<1>1. ASSUME Skip(p) \/ BrothersSleep(p) \/ BrothersWake(p) \/ StartBrothers(p)
      PROVE  \E s : Becomes(p, s)
  <2>1. /\ stack[p] # <<>> /\ Instruction(p).do \notin {"lock", "unlock"}
        /\ GoOn(p) /\ calendar' = calendar
    BY <1>1 DEF Skip, BrothersSleep, BrothersWake, StartBrothers, At
  <2> QED  BY <2>1, GoesOnForgets
<1> QED  BY <1>1, TakesOne, GivesOne, BailsOut, MayReturnForgets, CallsForget, RunForgets,
            VictimForgets, EnterForgets DEF Step
-----------------------------------------------------------------------------
(* One processor moves; what the others are inside of stays.               *)
LEMMA MovedInside ==
  ASSUME TypeOK, NEW p \in Processors, NEW s, stack' = [stack EXCEPT ![p] = s]
  PROVE  /\ Inside(p)' = HeldBy(s)
         /\ \A q \in Processors \ {p} : stack'[q] = stack[q] /\ Inside(q)' = Inside(q)
<1>1. stack'[p] = s /\ \A q \in Processors \ {p} : stack'[q] = stack[q]  BY DEF TypeOK
<1> QED  BY <1>1 DEF Inside, HeldBy

(* Locks are among the locks there are.                                    *)
LEMMA InsideType ==
  ASSUME TypeOK, NEW p \in Processors
  PROVE  Inside(p) \subseteq Locks
<1>1. stack[p] \in Seq(Frames)  BY DEF TypeOK
<1>2. \A i \in DOMAIN stack[p] : stack[p][i] \in Frames  BY <1>1
<1> QED  BY <1>2 DEF Inside, Frames

(* Forgetting, taking and giving back leave the stacks and calendars with  *)
(* the rules kept.                                                         *)
LEMMA BecomesKept ==
  ASSUME IInv, NEW p \in Processors, NEW s, Becomes(p, s)
  PROVE  /\ stack' \in [Processors -> Seq(Frames)]
         /\ calendar' \in [Locks -> {0, 255}]
         /\ Follows' /\ Shown' /\ Apart' /\ LosesOnlyOuterLocks'
<1>1. /\ TypeOK /\ Follows /\ Shown /\ Apart /\ LosesOnlyOuterLocks
      /\ s \in Seq(Frames) /\ Kept(s) /\ stack' = [stack EXCEPT ![p] = s]
  BY DEF IInv, Becomes
<1>2. /\ Inside(p)' = HeldBy(s)
      /\ \A q \in Processors \ {p} : stack'[q] = stack[q] /\ Inside(q)' = Inside(q)
  BY <1>1, MovedInside
<1>3. stack' \in [Processors -> Seq(Frames)] /\ stack'[p] = s  BY <1>1 DEF TypeOK
<1>4. Follows'
  <2>1. \A q \in Processors : Kept(stack'[q])  BY <1>1, <1>2, <1>3 DEF Follows
  <2> QED  BY <2>1 DEF Follows, Kept, Regular, Nested
<1>5. calendar \in [Locks -> {0, 255}]  BY <1>1 DEF TypeOK
<1>6. \A q \in Processors : Inside(q) \subseteq Locks  BY <1>1, InsideType
<1>7. \A l : l \in Lost <=> /\ l \in Locks /\ calendar[l] = 255
                            /\ \A q \in Processors : l \notin Inside(q)
  BY DEF Lost
<1>8. \A l : l \in Lost' <=> /\ l \in Locks /\ calendar'[l] = 255
                             /\ \A q \in Processors : l \notin Inside(q)'
  BY DEF Lost
<1>9. Lost \subseteq OuterLocks  BY <1>1 DEF LosesOnlyOuterLocks, OuterLocks
<1>10. CASE Forgets(p, s)
  <2>1. calendar' = calendar /\ HeldBy(s) \subseteq Inside(p)
        /\ Inside(p) \ HeldBy(s) \subseteq OuterLocks
    BY <1>10 DEF Forgets
  <2>2. Shown' /\ Apart'  BY <1>1, <1>2, <2>1 DEF Shown, Apart
  <2>3. Lost' \subseteq OuterLocks  BY <1>2, <1>7, <1>8, <1>9, <2>1
  <2> QED  BY <1>3, <1>4, <1>5, <2>1, <2>2, <2>3 DEF LosesOnlyOuterLocks, OuterLocks
<1>11. CASE \E l \in Locks : Takes(p, s, l)
  <2>1. PICK l \in Locks : Takes(p, s, l)  BY <1>11
  <2>2. /\ calendar[l] = 0 /\ calendar' = [calendar EXCEPT ![l] = 255]
        /\ HeldBy(s) = Inside(p) \cup {l}
    BY <2>1 DEF Takes
  <2>3. calendar'[l] = 255 /\ \A m \in Locks \ {l} : calendar'[m] = calendar[m]
    BY <1>5, <2>2
  <2>4. Shown'
    <3>1. ASSUME NEW q \in Processors, NEW m \in Inside(q)' \ {"kdescs"}
          PROVE  calendar'[m] = 255
      <4>1. m = l \/ m \in Inside(q)  BY <1>2, <2>2
      <4>2. CASE m = l  BY <2>3, <4>2
      <4>3. CASE m # l /\ m \in Inside(q)
        <5>1. calendar[m] = 255  BY <1>1, <4>3 DEF Shown
        <5> QED  BY <1>6, <2>3, <4>3, <5>1
      <4> QED  BY <4>1, <4>2, <4>3
    <3> QED  BY <3>1 DEF Shown
  <2>5. l # "kdescs" => \A q \in Processors : l \notin Inside(q)
    BY <1>1, <2>2 DEF Shown
  <2>6. Apart'  BY <1>1, <1>2, <2>2, <2>5 DEF Apart
  <2>7. Lost' \subseteq OuterLocks  BY <1>2, <1>7, <1>8, <1>9, <2>2, <2>3
  <2>8. calendar' \in [Locks -> {0, 255}]  BY <1>5, <2>2
  <2> QED  BY <1>3, <1>4, <2>4, <2>6, <2>7, <2>8 DEF LosesOnlyOuterLocks, OuterLocks
<1>12. CASE \E l \in Locks \ Range(Devices) : Gives(p, s, l)
  <2>1. PICK l \in Locks : Gives(p, s, l)  BY <1>12
  <2>2. /\ calendar' = [calendar EXCEPT ![l] = 0]
        /\ l \in Inside(p) \cup {"kdescs"}
        /\ HeldBy(s) \subseteq Inside(p) /\ Inside(p) \subseteq HeldBy(s) \cup {l}
        /\ l # "kdescs" => l \notin HeldBy(s)
    BY <2>1 DEF Gives
  <2>3. calendar'[l] = 0 /\ \A m \in Locks \ {l} : calendar'[m] = calendar[m]
    BY <1>5, <2>2
  <2>4. l # "kdescs" => \A q \in Processors : l \notin Inside(q)'
    BY <1>1, <1>2, <2>2 DEF Apart
  <2>5. Shown'
    <3>1. ASSUME NEW q \in Processors, NEW m \in Inside(q)' \ {"kdescs"}
          PROVE  calendar'[m] = 255
      <4>1. m # l  BY <2>4
      <4>2. m \in Inside(q)  BY <1>2, <2>2
      <4>3. calendar[m] = 255  BY <1>1, <4>2 DEF Shown
      <4> QED  BY <1>6, <2>3, <4>1, <4>2, <4>3
    <3> QED  BY <3>1 DEF Shown
  <2>6. Apart'  BY <1>1, <1>2, <2>2 DEF Apart
  <2>7. Lost' \subseteq OuterLocks  BY <1>2, <1>7, <1>8, <1>9, <2>2, <2>3
  <2>8. calendar' \in [Locks -> {0, 255}]  BY <1>5, <2>2
  <2> QED  BY <1>3, <1>4, <2>5, <2>6, <2>7, <2>8 DEF LosesOnlyOuterLocks, OuterLocks
<1> QED  BY <1>10, <1>11, <1>12 DEF Becomes

(* Who has been started, who sleeps and who is hung.                       *)
LEMMA StepProcessors ==
  ASSUME IInv, NEW p \in Processors, Enter(p) \/ Step(p), stack' \in [Processors -> Seq(Frames)]
  PROVE  /\ up' \in SUBSET Processors /\ asleep' \in SUBSET up' /\ hung' \in SUBSET up'
         /\ up \subseteq up' /\ p \in up' /\ p \notin hung
         /\ \A q \in Processors \ {p} : stack'[q] = stack[q] /\ (q \in hung' <=> q \in hung)
         /\ p \in hung' => stack' = stack /\ stack[p] # <<>> /\ Instruction(p).do = "hang"
<1>1. /\ stack \in [Processors -> Seq(Frames)] /\ up \in SUBSET Processors
      /\ asleep \in SUBSET up /\ hung \in SUBSET up
      /\ \A q \in Processors : stack[q] # <<>> => q \in up
      /\ \A q \in hung : stack[q] # <<>>
  BY DEF IInv, TypeOK, Started, HungThere
<1>2. \A s : Goto(p, s) => \A q \in Processors \ {p} : stack'[q] = stack[q]
  BY <1>1 DEF Goto
<1>3. CASE Enter(p)  BY <1>1, <1>3 DEF Enter
<1>4. CASE TakeLock(p)  BY <1>1, <1>2, <1>4 DEF TakeLock, At
<1>5. CASE GiveLock(p)  BY <1>1, <1>2, <1>5 DEF GiveLock, At
<1>6. CASE BailOut(p)  BY <1>1, <1>2, <1>6 DEF BailOut, At, GoOn
<1>7. CASE MayReturn(p)  BY <1>1, <1>2, <1>7 DEF MayReturn, At, GoOn
<1>8. CASE CallOne(p)  BY <1>1, <1>2, <1>8 DEF CallOne, At
<1>9. CASE Repeat(p)  BY <1>1, <1>2, <1>9 DEF Repeat, At
<1>10. CASE Skip(p)  BY <1>1, <1>2, <1>10 DEF Skip, At, GoOn
<1>11. CASE RunDriver(p)  BY <1>1, <1>2, <1>11 DEF RunDriver, At, GoOn
<1>12. CASE PickVictim(p)  BY <1>1, <1>2, <1>12 DEF PickVictim, At, GoOn
<1>13. CASE BrothersSleep(p)  BY <1>1, <1>2, <1>13 DEF BrothersSleep, At, GoOn
<1>14. CASE BrothersWake(p)  BY <1>1, <1>2, <1>14 DEF BrothersWake, At, GoOn
<1>15. CASE StartBrothers(p)  BY <1>1, <1>2, <1>15 DEF StartBrothers, At, GoOn
<1> QED  BY <1>3, <1>4, <1>5, <1>6, <1>7, <1>8, <1>9, <1>10, <1>11, <1>12, <1>13, <1>14,
            <1>15 DEF Step

(* The firmware has put one processor in front of UefiMain.                *)
LEMMA InitIInv == ASSUME Disciplined, Init PROVE IInv
<1>1. PICK b \in Processors :
         /\ stack = [p \in Processors |-> IF p = b THEN <<Entered("UefiMain")>> ELSE <<>>]
         /\ up = {b}
  BY DEF Init
<1>2. "UefiMain" \in Operations  BY DEF Disciplined, WellFormed
<1> DEFINE e == Entered("UefiMain")
<1>3. Regular(e) /\ e.has = {}  BY <1>2, EnteredRegular
<1> HIDE DEF e
<1>4. Nested(e, HeldBy(<<>>))  BY <1>3, EmptyKept DEF Nested
<1>5. e \in Frames  BY <1>3 DEF Regular
<1>6. <<e>> \o <<>> = <<e>>  BY <1>5
<1>7. <<e>> \in Seq(Frames) /\ Kept(<<e>>) /\ HeldBy(<<e>>) = {}
  <2>1. /\ <<e>> \o <<>> \in Seq(Frames) /\ Kept(<<e>> \o <<>>)
        /\ HeldBy(<<e>> \o <<>>) = e.has \cup HeldBy(<<>>)
    BY <1>3, <1>4, EmptyKept, KeptPushed
  <2> QED  BY <1>3, <1>6, <2>1, EmptyKept
<1>8. \A p \in Processors : stack[p] = <<>> \/ (p = b /\ stack[p] = <<e>>)  BY <1>1 DEF e
<1>9. \A p \in Processors : stack[p] \in Seq(Frames) /\ Kept(stack[p]) /\ HeldBy(stack[p]) = {}
  BY <1>7, <1>8, EmptyKept
<1>10. \A p \in Processors : Inside(p) = {}  BY <1>9 DEF Inside, HeldBy
<1>11. stack \in [Processors -> Seq(Frames)]  BY <1>1, <1>9
<1>12. calendar = [l \in Locks |-> 0] /\ asleep = {} /\ hung = {}  BY DEF Init
<1>13. TypeOK  BY <1>1, <1>11, <1>12 DEF TypeOK
<1>14. Lost = {}  BY <1>12 DEF Lost
<1>15. Started  BY <1>1, <1>8 DEF Started
<1>16. LosesOnlyOuterLocks /\ Shown /\ Apart /\ Follows /\ HungThere
  BY <1>9, <1>10, <1>12, <1>14 DEF LosesOnlyOuterLocks, Shown, Apart, Follows, HungThere
<1> QED  BY <1>13, <1>15, <1>16 DEF IInv

(* Every step, of whatever processor, keeps the rules.                     *)
LEMMA NextIInv == ASSUME Disciplined, IInv, [Next]_vars PROVE IInv'
<1>1. CASE UNCHANGED vars
  <2>1. stack' = stack /\ calendar' = calendar /\ up' = up /\ asleep' = asleep /\ hung' = hung
    BY <1>1 DEF vars
  <2>2. TypeOK' /\ Started'  BY <2>1 DEF IInv, TypeOK, Started
  <2>3. Follows'  BY <2>1 DEF IInv, Follows, Kept, Regular, Nested
  <2>4. \A p : Inside(p)' = Inside(p) /\ Instruction(p)' = Instruction(p)
    BY <2>1 DEF Inside, Instruction
  <2>5. Lost' = Lost  BY <2>1, <2>4 DEF Lost
  <2>6. Shown' /\ Apart' /\ LosesOnlyOuterLocks'
    BY <2>1, <2>4, <2>5 DEF IInv, Shown, Apart, LosesOnlyOuterLocks
  <2>7. HungThere'  BY <2>1, <2>4 DEF IInv, HungThere
  <2> QED  BY <2>2, <2>3, <2>6, <2>7 DEF IInv
<1>2. ASSUME NEW p \in Processors, Enter(p) \/ Step(p) PROVE IInv'
  <2>1. PICK s : Becomes(p, s)  BY <1>2, StepBecomes
  <2>2. /\ stack' \in [Processors -> Seq(Frames)]
        /\ calendar' \in [Locks -> {0, 255}]
        /\ Follows' /\ Shown' /\ Apart' /\ LosesOnlyOuterLocks'
    BY <2>1, BecomesKept
  <2>3. /\ up' \in SUBSET Processors /\ asleep' \in SUBSET up' /\ hung' \in SUBSET up'
        /\ up \subseteq up' /\ p \in up'
        /\ \A q \in Processors \ {p} : stack'[q] = stack[q] /\ (q \in hung' <=> q \in hung)
        /\ p \in hung' => stack' = stack /\ stack[p] # <<>> /\ Instruction(p).do = "hang"
    BY <1>2, <2>2, StepProcessors
  <2>4. TypeOK'  BY <2>2, <2>3 DEF TypeOK
  <2>5. HungThere'
    <3>1. ASSUME NEW q \in hung' PROVE stack'[q] # <<>> /\ Instruction(q)'.do = "hang"
      <4>1. stack'[q] = stack[q] /\ stack[q] # <<>> /\ Instruction(q).do = "hang"
        BY <2>3 DEF IInv, HungThere
      <4> QED  BY <4>1 DEF Instruction
    <3> QED  BY <3>1 DEF HungThere
  <2>6. Started'
    <3>1. ASSUME NEW q \in Processors, stack'[q] # <<>> PROVE q \in up'
      BY <2>3, <3>1 DEF IInv, Started
    <3> QED  BY <3>1 DEF Started
  <2> QED  BY <2>2, <2>4, <2>5, <2>6 DEF IInv
<1> QED  BY <1>1, <1>2 DEF Next

(* Operations that keep the rules of LockDiscipline keep them under every  *)
(* interleaving: where each processor is, what it has locked and what the  *)
(* calendars show stay what the annotations say.                           *)
THEOREM Invariance == Disciplined => (Spec => []IInv)
<1> SUFFICES ASSUME Disciplined PROVE Spec => []IInv
  OBVIOUS
<1>1. Init => IInv  BY InitIInv
<1>2. IInv /\ [Next]_vars => IInv'  BY NextIInv
<1> QED  BY <1>1, <1>2, PTL DEF Spec

(* Wherever a processor is, it has locked what the annotation of its       *)
(* instruction says, and its callers have locked what the annotation of    *)
(* the operation allows: the rules, read off the code, describe every      *)
(* interleaving.                                                           *)
THEOREM StacksFollow == Disciplined => (Spec => []FollowsRules)
<1> SUFFICES ASSUME Disciplined PROVE Spec => []FollowsRules
  OBVIOUS
<1>1. IInv => FollowsRules  BY DEF IInv, FollowsRules
<1> QED  BY Invariance, <1>1, PTL

(* Stacks hold operations of the kernel, calendars are 0 or 255, and only  *)
(* processors that initialize_brothers started sleep or hang.              *)
THEOREM TypeCorrect == Disciplined => (Spec => []TypeOK)
<1> SUFFICES ASSUME Disciplined PROVE Spec => []TypeOK
  OBVIOUS
<1>1. IInv => TypeOK  BY DEF IInv
<1> QED  BY Invariance, <1>1, PTL

(* Whoever is between mutex() and the store of zero is alone there, on any *)
(* number of processors, although the code clears calendars without        *)
(* looking who set them.                                                   *)
THEOREM MutualExclusion == Disciplined => (Spec => []Exclusion)
<1> SUFFICES ASSUME Disciplined PROVE Spec => []Exclusion
  OBVIOUS
<1>1. IInv => Exclusion  BY DEF IInv, Shown, Apart, Exclusion
<1> QED  BY Invariance, <1>1, PTL

(* Early returns and drivers that do not answer leave taken, with nobody   *)
(* inside, the locks of devices, drivers, the filesystem and processes,    *)
(* and no others: whatever keeps an inner lock taken is a processor that   *)
(* is inside of it.                                                        *)
THEOREM OuterLocksLost == Disciplined => (Spec => []LosesOnlyOuterLocks)
<1> SUFFICES ASSUME Disciplined PROVE Spec => []LosesOnlyOuterLocks
  OBVIOUS
<1>1. IInv => LosesOnlyOuterLocks  BY DEF IInv
<1> QED  BY Invariance, <1>1, PTL

(* BLOOD_LIBEL is entered with at most a process locked, through any chain *)
(* of calls, so a processor that never leaves it is inside no pool.        *)
THEOREM VictimSearch == Disciplined => (Spec => []VictimSearchOutside)
<1> SUFFICES ASSUME Disciplined PROVE Spec => []VictimSearchOutside
  OBVIOUS
<1>1. ASSUME IInv PROVE VictimSearchOutside
  <2> SUFFICES ASSUME NEW p \in hung PROVE Inside(p) \subseteq {"process"}
    BY DEF VictimSearchOutside
  <2> DEFINE f == Head(stack[p])
  <2>1. p \in Processors /\ stack[p] # <<>> /\ Instruction(p).do = "hang"
    BY <1>1 DEF IInv, TypeOK, HungThere
  <2>2. /\ f.fn \in Operations /\ f.pc \in DOMAIN Code[f.fn]
        /\ f.has = HasAt[f.fn][f.pc]
        /\ HeldBy(Tail(stack[p])) \subseteq Around[f.fn]
        /\ Inside(p) = f.has \cup HeldBy(Tail(stack[p]))
        /\ Instruction(p) = Code[f.fn][f.pc]
    BY <1>1, <2>1, Here
  <2>3. Around[f.fn] \cup HasAt[f.fn][f.pc] \subseteq {"process"}
    BY <2>1, <2>2 DEF Disciplined, KeepsOuterOnly
  <2> QED  BY <2>2, <2>3
<1> QED  BY Invariance, <1>1, PTL

(* No step of any processor gives back a device's mutex, so reenact_io     *)
(* leaves every device it met locked.                                      *)
THEOREM DevicesNeverUnlocked == Disciplined => (Spec => DevicesStayLocked)
<1> SUFFICES ASSUME Disciplined PROVE Spec => DevicesStayLocked
  OBVIOUS
<1> DEFINE Stay == \A l \in Range(Devices) : calendar[l] = 255 => calendar'[l] = 255
<1>1. ASSUME IInv, [Next]_vars PROVE [Stay]_vars
  <2>1. CASE UNCHANGED vars  BY <2>1
  <2>2. ASSUME NEW p \in Processors, Enter(p) \/ Step(p) PROVE Stay
    <3>1. PICK s : Becomes(p, s)  BY <1>1, <2>2, StepBecomes
    <3>2. calendar \in [Locks -> {0, 255}]  BY <1>1 DEF IInv, TypeOK
    <3>3. Range(Devices) \subseteq Locks  BY DEF Locks
    <3>4. CASE calendar' = calendar  BY <3>4
    <3>5. CASE \E l \in Locks : calendar' = [calendar EXCEPT ![l] = 255]  BY <3>2, <3>3, <3>5
    <3>6. CASE \E l \in Locks \ Range(Devices) : calendar' = [calendar EXCEPT ![l] = 0]
      BY <3>2, <3>3, <3>6
    <3> QED  BY <3>1, <3>4, <3>5, <3>6 DEF Becomes, Forgets, Takes, Gives
  <2> QED  BY <1>1, <2>1, <2>2 DEF Next
<1> QED  BY Invariance, <1>1, PTL DEF Spec, DevicesStayLocked
-----------------------------------------------------------------------------
(* A processor waits only above everything it is inside of.                *)
LEMMA WaitsAbove ==
  ASSUME Disciplined, IInv, NEW p \in Processors
  PROVE  Awaited(p) \in Ranked!Legal(Inside(p) \ {"kdescs"})
<1>1. CASE ~At(p, "lock")  BY <1>1 DEF Awaited, Ranked!Legal
<1>2. CASE At(p, "lock")
  <2> DEFINE f == Head(stack[p])
  <2>1. PICK l \in Locks : /\ Instruction(p) = Lock(l)
                           /\ Awaited(p) = IF l = "kdescs" THEN None ELSE l
    BY <1>2, InFront
  <2>2. CASE l = "kdescs"  BY <2>1, <2>2 DEF Ranked!Legal
  <2>3. CASE l # "kdescs"
    <3>1. /\ f.fn \in Operations /\ f.pc \in DOMAIN Code[f.fn]
          /\ f.has = HasAt[f.fn][f.pc]
          /\ HeldBy(Tail(stack[p])) \subseteq Around[f.fn]
          /\ Inside(p) = f.has \cup HeldBy(Tail(stack[p]))
          /\ Instruction(p) = Code[f.fn][f.pc]
      BY <1>2, Here DEF At
    <3>2. l \in Sound  BY <2>3 DEF Sound
    <3>3. \A h \in (Around[f.fn] \cup HasAt[f.fn][f.pc]) \ {"kdescs"} : LockRank[h] < LockRank[l]
      BY <2>1, <3>1, <3>2 DEF Disciplined, KeepsOrder
    <3>4. \A h \in Inside(p) \ {"kdescs"} : LockRank[h] < LockRank[l]  BY <3>1, <3>3
    <3>5. Awaited(p) = l  BY <2>1, <2>3
    <3> QED  BY <3>2, <3>4, <3>5 DEF Ranked!Legal
  <2> QED  BY <2>2, <2>3
<1> QED  BY <1>1, <1>2

(* The ranks are a lock order; see RanksAssumption.                        *)
RP == INSTANCE RankedLocksProofs WITH
    Locks <- Sound, Rank <- LockRank, MaxRank <- Len(Devices) + 6,
    held <- held, want <- want, lost <- lost

(* What is inside of what, as RankedLocks sees it.                         *)
LEMMA RankedInv == ASSUME Disciplined, IInv PROVE RP!Inv
<1>1. \A p \in Processors : Inside(p) \subseteq Locks  BY InsideType DEF IInv
<1>2. \A p \in Processors : held[p] = Inside(p) \ {"kdescs"} /\ want[p] = Awaited(p)
  BY DEF held, want
<1>3. \A p \in Processors : want[p] \in Ranked!Legal(held[p])  BY <1>2, WaitsAbove
<1>4. RP!Ordered  BY <1>3 DEF RP!Ordered, RP!Legal, Ranked!Legal
<1>5. held \in [Processors -> SUBSET Sound]  BY <1>1 DEF held, Sound
<1>6. want \in [Processors -> Sound \cup {None}]
  <2>1. \A p \in Processors : Awaited(p) \in Sound \cup {None}
    BY <1>2, <1>3 DEF Ranked!Legal
  <2> QED  BY <2>1 DEF want
<1>7. lost \in SUBSET Sound  BY DEF lost, Lost, Sound
<1>8. RP!TypeOK  BY <1>5, <1>6, <1>7 DEF RP!TypeOK
<1>9. RP!Exclusive
  <2>1. \A p, q \in Processors : p # q => held[p] \cap held[q] = {}
    BY <1>2 DEF IInv, Apart
  <2>2. \A p \in Processors : held[p] \cap lost = {}
    BY <1>2 DEF lost, Lost
  <2> QED  BY <2>1, <2>2 DEF RP!Exclusive
<1> QED  BY <1>4, <1>8, <1>9 DEF RP!Inv

(* In no group of processors in the kernel does everyone wait for a lock   *)
(* that a member of the group is inside of: with its nested pools, faults  *)
(* and drivers, on any number of processors, the kernel cannot deadlock on *)
(* its own locks other than behind one that was lost.                      *)
THEOREM NeverCircular == Disciplined => (Spec => []NoCircularWait)
<1> SUFFICES ASSUME Disciplined PROVE Spec => []NoCircularWait
  OBVIOUS
<1>1. ASSUME IInv PROVE NoCircularWait
  <2>1. RP!Inv  BY <1>1, RankedInv
  <2>2. RP!RanksOK  BY RanksAssumption DEF RP!RanksOK, Ranked!RanksOK
  <2>3. RP!NoCircularWait  BY <2>1, <2>2, RP!OrderedNoCircle
  <2> QED  BY <2>3 DEF NoCircularWait, RP!NoCircularWait, Ranked!NoCircularWait
<1> QED  BY Invariance, <1>1, PTL

(* At start-up nobody is inside of a lock or in front of one.              *)
LEMMA StartsFree ==
  ASSUME Disciplined, Init
  PROVE  \A p \in Processors : Inside(p) = {} /\ Awaited(p) = None
<1> SUFFICES ASSUME NEW p \in Processors PROVE Inside(p) = {} /\ Awaited(p) = None
  OBVIOUS
<1>3. stack[p] = <<>> \/ stack[p] = <<Entered("UefiMain")>>  BY DEF Init
<1>4. CASE stack[p] = <<>>
  <2>1. Awaited(p) = None  BY <1>4, NotWaiting
  <2>2. Inside(p) = {}  BY <1>4, EmptyKept DEF Inside, HeldBy
  <2> QED  BY <2>1, <2>2
<1>5. CASE stack[p] = <<Entered("UefiMain")>>
  <2> DEFINE e == Entered("UefiMain")
  <2>1. e.fn = "UefiMain" /\ e.pc = 1 /\ e.has = {}  BY DEF Entered
  <2> HIDE DEF e
  <2>2. stack[p] = <<e>>  BY <1>5 DEF e
  <2>3. Head(stack[p]) = e  BY <2>2
  <2>4. Instruction(p) = Code["UefiMain"][1]  BY <2>1, <2>3 DEF Instruction
  <2>5. Instruction(p).do # "lock"  BY <2>4 DEF Disciplined, WellFormed
  <2>6. Awaited(p) = None  BY <2>5, NotWaiting
  <2>7. DOMAIN stack[p] = {1} /\ stack[p][1] = e  BY <2>2
  <2>8. Inside(p) = {}  BY <2>1, <2>7 DEF Inside
  <2> QED  BY <2>6, <2>8
<1> QED  BY <1>3, <1>4, <1>5

(* The rest of the processors, while p moves.                              *)
LEMMA OthersWait ==
  ASSUME IInv, NEW p \in Processors, Enter(p) \/ Step(p), stack' \in [Processors -> Seq(Frames)]
  PROVE  \A q \in Processors \ {p} : Awaited(q)' = Awaited(q)
<1> SUFFICES ASSUME NEW q \in Processors \ {p} PROVE Awaited(q)' = Awaited(q)
  OBVIOUS
<1>1. stack'[q] = stack[q] /\ (q \in hung' <=> q \in hung)  BY StepProcessors
<1>2. Instruction(q)' = Instruction(q)  BY <1>1 DEF Instruction
<1>3. At(q, "lock")' <=> At(q, "lock")  BY <1>1, <1>2 DEF At
<1> QED  BY <1>2, <1>3 DEF Awaited

(* A step of a processor is a step of RankedLocks: it takes the lock it    *)
(* waited for, gives one back, or loses some or none.                      *)
LEMMA StepRanked ==
  ASSUME Disciplined, IInv, IInv', Ranked!Ordered', NEW p \in Processors, Enter(p) \/ Step(p)
  PROVE  Ranked!Next
<1>1. PICK s : Becomes(p, s)  BY StepBecomes
<1>2. stack' = [stack EXCEPT ![p] = s]  BY <1>1 DEF Becomes
<1>3. TypeOK /\ Shown /\ Apart /\ stack' \in [Processors -> Seq(Frames)]
      /\ calendar \in [Locks -> {0, 255}]
  BY DEF IInv, TypeOK
<1>4. /\ Inside(p)' = HeldBy(s)
      /\ \A q \in Processors \ {p} : Inside(q)' = Inside(q)
  BY <1>2, <1>3, MovedInside
<1>5. \A q \in Processors : Inside(q) \subseteq Locks  BY <1>3, InsideType
<1>6. \A q \in Processors : held[q] = Inside(q) \ {"kdescs"} /\ want[q] = Awaited(q)
  BY DEF held, want
<1>7. held' = [held EXCEPT ![p] = HeldBy(s) \ {"kdescs"}]
  BY <1>4 DEF held
<1>8. Ranked!GoOn(p)
  <2>1. \A q \in Processors \ {p} : Awaited(q)' = Awaited(q)  BY <1>3, OthersWait
  <2>2. want' = [want EXCEPT ![p] = Awaited(p)']  BY <2>1 DEF want
  <2>3. want'[p] \in Ranked!Legal(held'[p])  BY DEF Ranked!Ordered, Ranked!Legal
  <2>4. want'[p] = Awaited(p)'  BY DEF want
  <2> QED  BY <2>2, <2>3, <2>4 DEF Ranked!GoOn
<1>9. \A l : l \in lost <=> /\ l \in Locks /\ l # "kdescs" /\ calendar[l] = 255
                            /\ \A q \in Processors : l \notin Inside(q)
  BY DEF lost, Lost
<1>10. \A l : l \in lost' <=> /\ l \in Locks /\ l # "kdescs" /\ calendar'[l] = 255
                              /\ \A q \in Processors : l \notin Inside(q)'
  BY DEF lost, Lost
<1>11. CASE Forgets(p, s)
  <2> DEFINE S == (Inside(p) \ HeldBy(s)) \ {"kdescs"}
  <2>1. /\ calendar' = calendar /\ HeldBy(s) \subseteq Inside(p) /\ Awaited(p) = None
    BY <1>11 DEF Forgets
  <2>2. S \in SUBSET held[p]  BY <1>6
  <2>3. held' = [held EXCEPT ![p] = @ \ S]
    <3>1. held[p] \ S = HeldBy(s) \ {"kdescs"}  BY <1>6, <2>1
    <3> QED  BY <1>7, <3>1
  <2>4. \A l \in S : calendar[l] = 255 /\ l \in Locks /\ \A q \in Processors \ {p} : l \notin Inside(q)
    BY <1>3, <1>5 DEF Shown, Apart
  <2>5. lost' = lost \cup S
    <3>1. \A l \in S : l \in lost'  BY <1>4, <1>10, <2>1, <2>4
    <3>2. \A l \in lost : l \in lost'  BY <1>4, <1>9, <1>10, <2>1
    <3>3. \A l \in lost' : l \in lost \cup S  BY <1>4, <1>9, <1>10, <2>1
    <3> QED  BY <3>1, <3>2, <3>3
  <2> HIDE DEF S
  <2>6. Ranked!Lose(p)  BY <1>6, <1>8, <2>1, <2>2, <2>3, <2>5 DEF Ranked!Lose
  <2> QED  BY <2>6 DEF Ranked!Next
<1>12. ASSUME HeldBy(s) \ {"kdescs"} = Inside(p) \ {"kdescs"}, Awaited(p) = None,
              \A l \in Locks \ {"kdescs"} : calendar'[l] = calendar[l]
       PROVE  Ranked!Lose(p)
  <2>1. held' = [held EXCEPT ![p] = @ \ {}]  BY <1>6, <1>7, <1>12
  <2>2. lost' = lost \cup {}
    <3>1. \A l \in lost : l \in lost'  BY <1>4, <1>9, <1>10, <1>12
    <3>2. \A l \in lost' : l \in lost  BY <1>4, <1>9, <1>10, <1>12
    <3> QED  BY <3>1, <3>2
  <2> QED  BY <1>6, <1>8, <1>12, <2>1, <2>2 DEF Ranked!Lose
<1>13. CASE \E l \in Locks : Takes(p, s, l)
  <2>1. PICK l \in Locks : Takes(p, s, l)  BY <1>13
  <2>2. /\ calendar[l] = 0 /\ calendar' = [calendar EXCEPT ![l] = 255]
        /\ HeldBy(s) = Inside(p) \cup {l}
        /\ Awaited(p) = IF l = "kdescs" THEN None ELSE l
    BY <2>1 DEF Takes
  <2>3. calendar'[l] = 255 /\ \A m \in Locks \ {l} : calendar'[m] = calendar[m]
    BY <1>3, <2>2
  <2>4. CASE l = "kdescs"
    <3>1. Ranked!Lose(p)  BY <1>12, <2>2, <2>3, <2>4
    <3> QED  BY <3>1 DEF Ranked!Next
  <2>5. CASE l # "kdescs"
    <3>1. want[p] = l /\ l # None
      <4>1. None \notin Sound  BY RanksAssumption DEF Ranked!RanksOK
      <4> QED  BY <1>6, <2>2, <2>5, <4>1 DEF Sound
    <3>2. l \notin lost /\ \A q \in Processors : l \notin held[q]
      BY <1>3, <1>6, <1>9, <2>2, <2>5 DEF Shown
    <3>3. held' = [held EXCEPT ![p] = @ \cup {l}]
      <4>1. held[p] \cup {l} = HeldBy(s) \ {"kdescs"}  BY <1>6, <2>2, <2>5
      <4> QED  BY <1>7, <4>1
    <3>4. lost' = lost
      <4>1. \A m \in lost : m \in lost'  BY <1>4, <1>9, <1>10, <2>2, <2>3
      <4>2. \A m \in lost' : m \in lost  BY <1>4, <1>9, <1>10, <2>2, <2>3
      <4> QED  BY <4>1, <4>2
    <3>5. Ranked!Grant(p)
      BY <1>8, <3>1, <3>2, <3>3, <3>4 DEF Ranked!Grant, Ranked!Free
    <3> QED  BY <3>5 DEF Ranked!Next
  <2> QED  BY <2>4, <2>5
<1>14. CASE \E l \in Locks \ Range(Devices) : Gives(p, s, l)
  <2>1. PICK l \in Locks : Gives(p, s, l)  BY <1>14
  <2>2. /\ calendar' = [calendar EXCEPT ![l] = 0]
        /\ l \in Inside(p) \cup {"kdescs"}
        /\ HeldBy(s) \subseteq Inside(p) /\ Inside(p) \subseteq HeldBy(s) \cup {l}
        /\ l # "kdescs" => l \notin HeldBy(s)
        /\ Awaited(p) = None
    BY <2>1 DEF Gives
  <2>3. calendar'[l] = 0 /\ \A m \in Locks \ {l} : calendar'[m] = calendar[m]
    BY <1>3, <2>2
  <2>4. CASE l = "kdescs"
    <3>1. Ranked!Lose(p)  BY <1>12, <2>2, <2>3, <2>4
    <3> QED  BY <3>1 DEF Ranked!Next
  <2>5. CASE l # "kdescs"
    <3>1. l \in held[p] /\ want[p] = None  BY <1>6, <2>2, <2>5
    <3>2. held' = [held EXCEPT ![p] = @ \ {l}]
      <4>1. held[p] \ {l} = HeldBy(s) \ {"kdescs"}  BY <1>6, <2>2, <2>5
      <4> QED  BY <1>7, <4>1
    <3>3. lost' = lost
      <4>1. \A m \in lost : m \in lost'  BY <1>4, <1>9, <1>10, <2>2, <2>3
      <4>2. \A m \in lost' : m \in lost  BY <1>4, <1>9, <1>10, <2>2, <2>3
      <4> QED  BY <4>1, <4>2
    <3>4. Ranked!Release(p)  BY <1>8, <3>1, <3>2, <3>3 DEF Ranked!Release
    <3> QED  BY <3>4 DEF Ranked!Next
  <2> QED  BY <2>4, <2>5
<1> QED  BY <1>1, <1>11, <1>13, <1>14 DEF Becomes

(* The kernel, with everything that its operations call, implements        *)
(* RankedLocks on any number of processors: what is proved of locks taken  *)
(* by rank holds of its code.                                              *)
THEOREM Refinement == Disciplined => (Spec => TakesLocksInOrder)
<1> SUFFICES ASSUME Disciplined PROVE Spec => TakesLocksInOrder
  OBVIOUS
<1>1. ASSUME Init PROVE Ranked!Init
  <2>2. \A p \in Processors : Inside(p) = {} /\ Awaited(p) = None
    BY <1>1, StartsFree
  <2>3. held = [p \in Processors |-> {}]  BY <2>2 DEF held
  <2>4. want = [p \in Processors |-> None]  BY <2>2 DEF want
  <2>5. calendar = [l \in Locks |-> 0]  BY <1>1 DEF Init
  <2>6. lost = {}  BY <2>5 DEF lost, Lost
  <2> QED  BY <2>3, <2>4, <2>6 DEF Ranked!Init
<1>2. IInv => Ranked!Ordered
  BY RankedInv DEF RP!Inv, RP!Ordered, RP!Legal, Ranked!Ordered, Ranked!Legal
<1>3. ASSUME IInv, IInv', Ranked!Ordered', [Next]_vars PROVE [Ranked!Next]_(Ranked!vars)
  <2>1. CASE UNCHANGED vars
    <3>1. stack' = stack /\ calendar' = calendar /\ hung' = hung  BY <2>1 DEF vars
    <3>2. \A p : Inside(p)' = Inside(p) /\ Instruction(p)' = Instruction(p)
      BY <3>1 DEF Inside, Instruction
    <3>3. ASSUME NEW p PROVE Awaited(p)' = Awaited(p)
      <4>1. Instruction(p)' = Instruction(p)  BY <3>2
      <4>2. At(p, "lock")' <=> At(p, "lock")  BY <3>1, <4>1 DEF At
      <4> QED  BY <4>1, <4>2 DEF Awaited
    <3>4. Lost' = Lost  BY <3>1, <3>2 DEF Lost
    <3>5. held' = held /\ want' = want /\ lost' = lost  BY <3>2, <3>3, <3>4 DEF held, want, lost
    <3> QED  BY <3>5 DEF Ranked!vars
  <2>2. CASE Next
    <3>1. PICK p \in Processors : Enter(p) \/ Step(p)  BY <2>2 DEF Next
    <3> QED  BY <1>3, <3>1, StepRanked
  <2> QED  BY <1>3, <2>1, <2>2
<1> QED  BY Invariance, <1>1, <1>2, <1>3, PTL DEF Spec, TakesLocksInOrder, Ranked!Spec
=============================================================================
