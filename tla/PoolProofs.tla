----------------------------- MODULE PoolProofs -----------------------------
(***************************************************************************)
(* What is proved of Pool for any number of callers, any pool and request  *)
(* lengths, any contents of the unmarked part of ckarray and any width of  *)
(* count.                                                                  *)
(***************************************************************************)
EXTENDS Pool, FiniteSetTheorems, WellFoundedInduction, TLAPS

(* Where a caller is agrees with what it called: only realloc takes a      *)
(* backup, and only free and realloc clear marks.                          *)
OpShape ==
    \A c \in Callers :
        /\ pc[c] = "lock" => op[c] \in {"alloc", "realloc"}
        /\ pc[c] = "backup" => op[c] = "realloc"
        /\ pc[c] \in {"clear", "subload", "substore"} => op[c] \in {"free", "realloc"}

(* Where a section of the GDT lies: alloc found the last slot of a streak  *)
(* that starts above the reserved marks and has the section's length, and  *)
(* the section is the entry at half that slot.                             *)
AboveReserved(s) == s.len > 0 => 2 * s.idx >= LowEntries + s.len - 2

GdtSections ==
    kind = "gdt" =>
        \A c \in Callers :
            /\ AboveReserved(held[c])
            /\ pc[c] \in {"addload", "addstore", "unlock"} => AboveReserved(ret[c])
            /\ pc[c] \in {"lock", "backup", "clear", "subload", "substore", "scan"}
                  /\ op[c] # "free"
               => want[c] \in Lengths /\ ret[c].len = want[c]
            /\ pc[c] = "scan" => want[c] \in Lengths /\ ret[c].len = want[c]
            /\ pc[c] # "grow"

ReservedMarked == \A i \in Reserved : ckarray[i] = 1

(* LowerHalfReserved is not inductive: that free does not clear a reserved *)
(* mark rests on where the freed section lies and how long it is, and that *)
(* on what the scan found when the marks were still there.                 *)
IInv == TypeOK /\ OpShape /\ MutualExclusion /\ GdtSections /\ ReservedMarked

(* The remainder of a division stays below the divisor.                    *)
LEMMA ModRange ==
    ASSUME NEW a \in Int
    PROVE  a % CountModulus \in 0..(CountModulus - 1)
  BY PoolAssumption

(* The element an address falls into.                                      *)
LEMMA IndexRange ==
    ASSUME TypeOK, NEW i \in Nat
    PROVE  /\ Index(i) \in Int
           /\ kind = "gdt" => 2 * Index(i) >= i - 1
  <1>1. Width \in Nat \ {0}
    BY PoolAssumption DEF Width
  <1>2. \A w \in Nat \ {0} : i \div w \in Int
    OBVIOUS
  <1>3. 2 * (i \div 2) >= i - 1
    OBVIOUS
  <1>4. kind = "gdt" => Width = 2
    BY DEF Width
  <1>. QED
    BY <1>1, <1>2, <1>3, <1>4 DEF Index

(* A section of the GDT clears no reserved mark: its index is not below    *)
(* its length, so free clears none at all.                                 *)
LEMMA ClearsNoneReserved ==
    ASSUME TypeOK, NEW s \in Sections, kind = "gdt" => AboveReserved(s)
    PROVE  Cleared(s) \cap Reserved = {}
  <1>1. CASE kind # "gdt"
    BY <1>1 DEF Reserved
  <1>2. CASE kind = "gdt"
    <2>1. s.idx \in Int /\ s.len \in 0..MaxRequest
      BY DEF Sections
    <2>2. s.len > 0 => s.idx >= s.len
      BY <1>2, <2>1, PoolAssumption, LowEntriesAssumption DEF AboveReserved
    <2>3. \A g \in Slots : ~(s.idx <= g /\ g < s.len) \/ s.len = 0
      BY <2>1, <2>2, PoolAssumption DEF Slots
    <2>4. s.len = 0 => \A g \in Slots : ~(g < s.len)
      BY <2>1, PoolAssumption DEF Slots
    <2>. QED
      BY <2>3, <2>4 DEF Cleared
  <1>. QED
    BY <1>1, <1>2

(* A streak of n unmarked slots ends at or above LowEntries + n - 1.       *)
LEMMA StreakAbove ==
    ASSUME TypeOK, ReservedMarked, kind = "gdt",
           NEW n \in Lengths \ {0}, NEW i \in StreakEnds(n)
    PROVE  i \in Int /\ i >= LowEntries + n - 1
  <1>1. i \in 0..(length - 1) /\ i >= n - 1 /\ \A j \in (i - n + 1)..i : ckarray[j] = 0
    BY DEF StreakEnds
  <1>2. i - n + 1 \in (i - n + 1)..i /\ i - n + 1 \in Nat
    BY <1>1, PoolAssumption DEF Lengths, TypeOK
  <1>3. ckarray[i - n + 1] = 0
    BY <1>1, <1>2
  <1>4. i - n + 1 \notin 0..(LowEntries - 1)
    BY <1>3 DEF ReservedMarked, Reserved
  <1>. QED
    BY <1>1, <1>2, <1>4, PoolAssumption DEF TypeOK, Lengths
-----------------------------------------------------------------------------
(* The invariant holds when the pool has just been set up.                 *)
LEMMA InitIInv == Init => IInv
  <1>. SUFFICES ASSUME Init PROVE IInv
    OBVIOUS
  <1>. USE PoolAssumption
  <1>0. NoSection \in Sections /\ 0 \in 0..(CountModulus - 1) /\ 0 \in 0..MaxRequest
    BY DEF NoSection, Sections
  <1>1. TypeOK
    <2>1. raced \in BOOLEAN
      BY Zenon DEF Init
    <2>. QED
      BY <1>0, <2>1 DEF Init, TypeOK
  <1>2. OpShape
    BY DEF Init, OpShape
  <1>3. MutualExclusion
    BY DEF Init, MutualExclusion, Locked
  <1>4. GdtSections
    BY DEF Init, GdtSections, AboveReserved, NoSection
  <1>5. ReservedMarked
    BY DEF Init, ReservedMarked
  <1>. QED
    BY <1>1, <1>2, <1>3, <1>4, <1>5 DEF IInv

(* Every step keeps the invariant.                                         *)
LEMMA StepIInv == IInv /\ [Next]_vars => IInv'
  <1>. SUFFICES ASSUME IInv, [Next]_vars PROVE IInv'
    OBVIOUS
  <1>. USE PoolAssumption DEF IInv
  <1>1. ASSUME NEW c \in Callers, CallAlloc(c) PROVE IInv'
    <2>1. TypeOK'
      BY <1>1 DEF CallAlloc, Goto, TypeOK, NoSection, Sections, Lengths
    <2>2. OpShape'
      BY <1>1 DEF CallAlloc, Goto, TypeOK, OpShape
    <2>3. MutualExclusion'
      BY <1>1 DEF CallAlloc, Goto, TypeOK, OpShape, MutualExclusion, Locked
    <2>4. GdtSections'
      BY <1>1 DEF CallAlloc, Goto, TypeOK, OpShape, GdtSections, AboveReserved, NoSection, Sections, Lengths
    <2>5. ReservedMarked'
      BY <1>1 DEF CallAlloc, ReservedMarked, Reserved
    <2>. QED
      BY <2>1, <2>2, <2>3, <2>4, <2>5
  <1>2. ASSUME NEW c \in Callers, CallKptralloc(c) PROVE IInv'
    <2>1. TypeOK'
      BY <1>2 DEF CallKptralloc, Goto, TypeOK, NoSection, Sections, Lengths
    <2>2. OpShape'
      BY <1>2 DEF CallKptralloc, Goto, TypeOK, OpShape
    <2>3. MutualExclusion'
      BY <1>2 DEF CallKptralloc, Goto, TypeOK, OpShape, MutualExclusion, Locked
    <2>4. GdtSections'
      BY <1>2 DEF CallKptralloc, Goto, TypeOK, OpShape, GdtSections, AboveReserved, NoSection, Sections, Lengths
    <2>5. ReservedMarked'
      BY <1>2 DEF CallKptralloc, ReservedMarked, Reserved
    <2>. QED
      BY <2>1, <2>2, <2>3, <2>4, <2>5
  <1>3. ASSUME NEW c \in Callers, CallFree(c) PROVE IInv'
    <2>1. TypeOK'
      BY <1>3 DEF CallFree, Goto, TypeOK, NoSection, Sections, Lengths
    <2>2. OpShape'
      BY <1>3 DEF CallFree, Goto, TypeOK, OpShape
    <2>3. MutualExclusion'
      BY <1>3 DEF CallFree, Goto, TypeOK, OpShape, MutualExclusion, Locked
    <2>4. GdtSections'
      BY <1>3 DEF CallFree, Goto, TypeOK, OpShape, GdtSections, AboveReserved, NoSection, Sections, Lengths
    <2>5. ReservedMarked'
      BY <1>3 DEF CallFree, ReservedMarked, Reserved
    <2>. QED
      BY <2>1, <2>2, <2>3, <2>4, <2>5
  <1>4. ASSUME NEW c \in Callers, CallRealloc(c) PROVE IInv'
    <2>1. TypeOK'
      BY <1>4 DEF CallRealloc, Goto, TypeOK, NoSection, Sections, Lengths
    <2>2. OpShape'
      BY <1>4 DEF CallRealloc, Goto, TypeOK, OpShape
    <2>3. MutualExclusion'
      BY <1>4 DEF CallRealloc, Goto, TypeOK, OpShape, MutualExclusion, Locked
    <2>4. GdtSections'
      BY <1>4 DEF CallRealloc, Goto, TypeOK, OpShape, GdtSections, AboveReserved, NoSection, Sections, Lengths
    <2>5. ReservedMarked'
      BY <1>4 DEF CallRealloc, ReservedMarked, Reserved
    <2>. QED
      BY <2>1, <2>2, <2>3, <2>4, <2>5
  <1>5. ASSUME NEW c \in Callers, StreamInit(c) PROVE IInv'
    <2>1. TypeOK'
      BY <1>5 DEF StreamInit, Goto, TypeOK, NoSection, Sections, Lengths
    <2>2. OpShape'
      BY <1>5 DEF StreamInit, Goto, TypeOK, OpShape
    <2>3. MutualExclusion'
      BY <1>5 DEF StreamInit, Goto, TypeOK, OpShape, MutualExclusion, Locked
    <2>4. GdtSections'
      BY <1>5 DEF StreamInit, Goto, TypeOK, OpShape, GdtSections, AboveReserved, NoSection, Sections, Lengths
    <2>5. ReservedMarked'
      BY <1>5 DEF StreamInit, ReservedMarked, Reserved
    <2>. QED
      BY <2>1, <2>2, <2>3, <2>4, <2>5
  <1>6. ASSUME NEW c \in Callers, Backup(c) PROVE IInv'
    <2>1. TypeOK'
      BY <1>6 DEF Backup, Goto, TypeOK
    <2>2. OpShape'
      BY <1>6 DEF Backup, Goto, TypeOK, OpShape
    <2>3. MutualExclusion'
      BY <1>6 DEF Backup, Goto, TypeOK, OpShape, MutualExclusion, Locked
    <2>4. GdtSections'
      BY <1>6 DEF Backup, Goto, TypeOK, OpShape, GdtSections, AboveReserved, NoSection, Sections, Lengths
    <2>5. ReservedMarked'
      BY <1>6 DEF Backup, ReservedMarked, Reserved
    <2>. QED
      BY <2>1, <2>2, <2>3, <2>4, <2>5
  <1>7. ASSUME NEW c \in Callers, Clear(c) PROVE IInv'
    <2>1. held[c] \in Sections /\ (kind = "gdt" => AboveReserved(held[c]))
      BY DEF TypeOK, GdtSections
    <2>2. Cleared(held[c]) \cap Reserved = {}
      BY <2>1, ClearsNoneReserved
    <2>3. \A i \in Reserved : i \in Slots /\ i \notin Cleared(held[c])
      BY <2>2 DEF Reserved, Slots
    <2>4. TypeOK'
      BY <1>7 DEF Clear, Goto, TypeOK, NoSection, Sections, Lengths
    <2>5. OpShape'
      BY <1>7 DEF Clear, Goto, TypeOK, OpShape
    <2>6. MutualExclusion'
      BY <1>7 DEF Clear, Goto, TypeOK, OpShape, MutualExclusion, Locked
    <2>7. GdtSections'
      BY <1>7 DEF Clear, Goto, TypeOK, OpShape, GdtSections, AboveReserved, NoSection, Sections, Lengths
    <2>8. ReservedMarked'
      BY <1>7, <2>3 DEF Clear, ReservedMarked, Reserved
    <2>. QED
      BY <2>4, <2>5, <2>6, <2>7, <2>8
  <1>8. ASSUME NEW c \in Callers, LoadCount(c) PROVE IInv'
    <2>1. TypeOK'
      BY <1>8 DEF LoadCount, Goto, TypeOK, NoSection, Sections, Lengths
    <2>2. OpShape'
      BY <1>8 DEF LoadCount, Goto, TypeOK, OpShape
    <2>3. MutualExclusion'
      BY <1>8 DEF LoadCount, Goto, TypeOK, OpShape, MutualExclusion, Locked
    <2>4. GdtSections'
      BY <1>8 DEF LoadCount, Goto, TypeOK, OpShape, GdtSections, AboveReserved, NoSection, Sections, Lengths
    <2>5. ReservedMarked'
      BY <1>8 DEF LoadCount, ReservedMarked, Reserved
    <2>. QED
      BY <2>1, <2>2, <2>3, <2>4, <2>5
  <1>9. ASSUME NEW c \in Callers, StoreSub(c) PROVE IInv'
    <2>0. tmp[c] - held[c].len \in Int
      BY DEF TypeOK, Sections
    <2>1. (tmp[c] - held[c].len) % CountModulus \in 0..(CountModulus - 1)
      BY <2>0, ModRange
    <2>2. TypeOK'
      BY <1>9, <2>1 DEF StoreSub, Goto, TypeOK, NoSection, Sections
    <2>3. OpShape'
      BY <1>9 DEF StoreSub, Goto, TypeOK, OpShape
    <2>4. MutualExclusion'
      BY <1>9 DEF StoreSub, Goto, TypeOK, OpShape, MutualExclusion, Locked
    <2>5. GdtSections'
      BY <1>9 DEF StoreSub, Goto, TypeOK, OpShape, GdtSections, AboveReserved, NoSection, Sections, Lengths
    <2>6. ReservedMarked'
      BY <1>9 DEF StoreSub, ReservedMarked, Reserved
    <2>. QED
      BY <2>2, <2>3, <2>4, <2>5, <2>6
  <1>10. ASSUME NEW c \in Callers, Scan(c) PROVE IInv'
    <2>1. \A i \in StreakEnds(want[c]) : i \in Nat /\ Index(i) \in Int
      BY IndexRange DEF StreakEnds
    <2>2. kind = "gdt" =>
            /\ want[c] \in Lengths /\ ret[c].len = want[c]
            /\ want[c] > 0 => \A i \in StreakEnds(want[c]) :
                                 2 * Index(i) >= LowEntries + want[c] - 2
      <3>1. SUFFICES ASSUME kind = "gdt"
                     PROVE  /\ want[c] \in Lengths /\ ret[c].len = want[c]
                            /\ want[c] > 0 => \A i \in StreakEnds(want[c]) :
                                                 2 * Index(i) >= LowEntries + want[c] - 2
        OBVIOUS
      <3>2. want[c] \in Lengths /\ ret[c].len = want[c]
        BY <1>10, <3>1 DEF Scan, GdtSections
      <3>3. ASSUME want[c] > 0, NEW i \in StreakEnds(want[c])
            PROVE  2 * Index(i) >= LowEntries + want[c] - 2
        <4>1. i >= LowEntries + want[c] - 1
          BY <3>1, <3>2, <3>3, StreakAbove DEF Lengths
        <4>2. 2 * Index(i) >= i - 1 /\ Index(i) \in Int /\ i \in Nat
          BY <2>1, <3>1, <3>3, IndexRange
        <4>. QED
          BY <3>2, <4>1, <4>2 DEF Lengths
      <3>. QED
        BY <3>2, <3>3
    <2>3. ret' \in [Callers -> Sections]
      <3>1. ASSUME NEW i \in Int PROVE [ret EXCEPT ![c].idx = i] \in [Callers -> Sections]
        BY DEF TypeOK, Sections
      <3>2. NoSection \in Sections
        BY DEF NoSection, Sections
      <3>. QED
        BY <1>10, <2>1, <3>1, <3>2 DEF Scan, TypeOK
    <2>4. TypeOK'
      BY <1>10, <2>3 DEF Scan, Goto, TypeOK
    <2>5. OpShape'
      BY <1>10 DEF Scan, Goto, TypeOK, OpShape
    <2>6. MutualExclusion'
      BY <1>10 DEF Scan, Goto, TypeOK, OpShape, MutualExclusion, Locked
    <2>7. GdtSections'
      <3>1. kind' = kind /\ held' = held /\ want' = want /\ op' = op
        BY <1>10 DEF Scan
      <3>2. CASE StreakEnds(want[c]) # {}
        <4>1. PICK i \in StreakEnds(want[c]) : ret' = [ret EXCEPT ![c].idx = Index(i)]
          BY <1>10, <3>2 DEF Scan
        <4>2. /\ pc' = [pc EXCEPT ![c] = "addload"]
              /\ ret'[c].idx = Index(i) /\ ret'[c].len = ret[c].len
              /\ \A d \in Callers \ {c} : ret'[d] = ret[d]
          BY <1>10, <3>2, <4>1 DEF Scan, Goto, TypeOK, Sections
        <4>3. kind = "gdt" => AboveReserved(ret'[c])
          BY <2>2, <4>1, <4>2 DEF AboveReserved, Lengths
        <4>. QED
          BY <3>1, <4>2, <4>3 DEF GdtSections, AboveReserved, TypeOK
      <3>3. CASE StreakEnds(want[c]) = {}
        BY <1>10, <3>3 DEF Scan, Goto, TypeOK, GdtSections, AboveReserved, Sections, NoSection
      <3>. QED
        BY <3>2, <3>3
    <2>8. ReservedMarked'
      BY <1>10 DEF Scan, ReservedMarked, Reserved
    <2>. QED
      BY <2>4, <2>5, <2>6, <2>7, <2>8
  <1>11. ASSUME NEW c \in Callers, Grow(c) PROVE IInv'
    <2>1. kind # "gdt"
      BY <1>11 DEF Grow, GdtSections
    <2>2. held' \in [Callers -> Sections] /\ length' \in InitialLength..MaxLength
      BY <1>11 DEF Grow, TypeOK, Sections
    <2>3. TypeOK'
      BY <1>11, <2>2 DEF Grow, Goto, TypeOK
    <2>4. OpShape'
      BY <1>11 DEF Grow, Goto, TypeOK, OpShape
    <2>5. MutualExclusion'
      BY <1>11 DEF Grow, Goto, TypeOK, OpShape, MutualExclusion, Locked
    <2>6. GdtSections'
      BY <1>11, <2>1 DEF Grow, GdtSections
    <2>7. ReservedMarked'
      BY <1>11 DEF Grow, ReservedMarked, Reserved
    <2>. QED
      BY <2>3, <2>4, <2>5, <2>6, <2>7
  <1>12. ASSUME NEW c \in Callers, StoreAdd(c) PROVE IInv'
    <2>1. (tmp[c] + want[c]) % CountModulus \in 0..(CountModulus - 1)
      BY ModRange DEF TypeOK
    <2>2. TypeOK'
      BY <1>12, <2>1 DEF StoreAdd, Goto, TypeOK
    <2>3. OpShape'
      BY <1>12 DEF StoreAdd, Goto, TypeOK, OpShape
    <2>4. MutualExclusion'
      BY <1>12 DEF StoreAdd, Goto, TypeOK, OpShape, MutualExclusion, Locked
    <2>5. GdtSections'
      BY <1>12 DEF StoreAdd, Goto, TypeOK, OpShape, GdtSections, AboveReserved, NoSection, Sections, Lengths
    <2>6. ReservedMarked'
      BY <1>12 DEF StoreAdd, ReservedMarked, Reserved
    <2>. QED
      BY <2>2, <2>3, <2>4, <2>5, <2>6
  <1>13. ASSUME NEW c \in Callers, Unlock(c) PROVE IInv'
    <2>1. TypeOK'
      BY <1>13 DEF Unlock, Goto, TypeOK, NoSection, Sections, Lengths
    <2>2. OpShape'
      BY <1>13 DEF Unlock, Goto, TypeOK, OpShape
    <2>3. MutualExclusion'
      BY <1>13 DEF Unlock, Goto, TypeOK, OpShape, MutualExclusion, Locked
    <2>4. GdtSections'
      BY <1>13 DEF Unlock, Goto, TypeOK, OpShape, GdtSections, AboveReserved, NoSection, Sections, Lengths
    <2>5. ReservedMarked'
      BY <1>13 DEF Unlock, ReservedMarked, Reserved
    <2>. QED
      BY <2>1, <2>2, <2>3, <2>4, <2>5
  <1>14. CASE UNCHANGED vars
    BY <1>14 DEF vars, TypeOK, OpShape, MutualExclusion, Locked, GdtSections,
       AboveReserved, ReservedMarked, Reserved
  <1>. QED
    BY <1>1, <1>2, <1>3, <1>4, <1>5, <1>6, <1>7, <1>8, <1>9, <1>10, <1>11, <1>12, <1>13, <1>14
    DEF Next, Call, Step

(* The strengthened invariant holds in every reachable state.              *)
THEOREM Invariance == Spec => []IInv
  BY InitIInv, StepIInv, PTL DEF Spec

(* Every variable keeps its type; count stays a machine word although the  *)
(* unlocked free subtracts from it blindly.                                *)
THEOREM TypeCorrect == Spec => []TypeOK
  <1>1. IInv => TypeOK
    BY DEF IInv
  <1>. QED
    BY <1>1, Invariance, PTL

(* alloc and realloc are exclusive, whatever the unlocked frees do.        *)
THEOREM Exclusive == Spec => []MutualExclusion
  <1>1. IInv => MutualExclusion
    BY DEF IInv
  <1>. QED
    BY <1>1, Invariance, PTL

(* The reserved marks of the GDT stay set whatever is freed or             *)
(* reallocated, and no entry of their lower half is ever handed out.       *)
THEOREM ReservedEntries == Spec => []LowerHalfReserved
  <1>1. IInv => LowerHalfReserved
    <2>. SUFFICES ASSUME IInv, kind = "gdt" PROVE LowerHalfReserved
      BY DEF LowerHalfReserved
    <2>1. ASSUME NEW c \in Callers, held[c].len > 0
          PROVE  held[c].idx >= LowEntries \div 2
      <3>1. held[c].idx \in Int /\ held[c].len \in Nat
        BY DEF IInv, TypeOK, Sections
      <3>2. 2 * held[c].idx >= LowEntries + held[c].len - 2
        BY <2>1 DEF IInv, GdtSections, AboveReserved
      <3>3. LowEntries \in Nat /\ 2 * (LowEntries \div 2) <= LowEntries
        BY PoolAssumption
      <3>. QED
        BY <2>1, <3>1, <3>2, <3>3
    <2>. QED
      BY <2>1 DEF IInv, ReservedMarked, LowerHalfReserved
  <1>. QED
    BY <1>1, Invariance, PTL
-----------------------------------------------------------------------------
(* The recursion of MapThenSumSet over the sets of D.                      *)
Pick(S) == CHOOSE x \in S : TRUE

Sums(F, f, D) ==
    F = [S \in D |-> IF S = {} THEN 0 ELSE f[Pick(S)] + F[S \ {Pick(S)}]]

(* A set of numbers has a least one.                                       *)
LEMMA Least ==
    ASSUME NEW T \in SUBSET Nat, T # {}
    PROVE  \E n \in T : \A m \in T : n <= m
  <1>. DEFINE Less == OpToRel(<, Nat)
  <1>1. PICK n \in T : \A m \in T : ~ (<<m, n>> \in Less)
    <2>. HIDE DEF Less
    <2>1. IsWellFoundedOn(Less, Nat)
      BY NatLessThanWellFounded DEF Less
    <2>. QED
      BY <2>1, WFMin
  <1>2. ASSUME NEW m \in T, m < n PROVE FALSE
    <2>1. <<m, n>> \in Nat \X Nat
      OBVIOUS
    <2>2. <<m, n>> \in Less
      BY <1>2, <2>1 DEF OpToRel
    <2>. QED
      BY <1>1, <2>2
  <1>. QED
    BY <1>2

(* Among sets of callers there is one none of whose elements can be left   *)
(* out: induction over the callers, as the absence of a least              *)
(* counterexample.                                                         *)
LEMMA SmallestSet ==
    ASSUME NEW B \in SUBSET SUBSET Callers, B # {}
    PROVE  \E S \in B : \A x \in S : S \ {x} \notin B
  <1>. DEFINE T == {Cardinality(S) : S \in B}
  <1>1. ASSUME NEW S \in B
        PROVE  /\ IsFiniteSet(S) /\ Cardinality(S) \in Nat
               /\ \A x \in S : IsFiniteSet(S \ {x}) /\ Cardinality(S \ {x}) = Cardinality(S) - 1
    <2>1. IsFiniteSet(S)
      BY PoolAssumption, FS_Subset
    <2>. QED
      BY <2>1, FS_CardinalityType, FS_RemoveElement
  <1>2. T \subseteq Nat /\ T # {}
    BY <1>1
  <1>3. PICK n \in T : \A m \in T : n <= m
    <2>. HIDE DEF T
    <2>. QED
      BY <1>2, Least
  <1>4. PICK S \in B : n = Cardinality(S)
    OBVIOUS
  <1>5. ASSUME NEW x \in S, S \ {x} \in B PROVE FALSE
    <2>1. Cardinality(S \ {x}) \in T
      BY <1>5
    <2>. HIDE DEF T
    <2>. QED
      BY <1>1, <1>3, <1>4, <1>5, <2>1
  <1>. QED
    BY <1>5

(* The sets of at most n callers.                                          *)
UpTo(n) == {S \in SUBSET Callers : Cardinality(S) <= n}

(* The recursion has a solution, built up by the size of the sets.         *)
LEMMA SumsExist ==
    ASSUME NEW f
    PROVE  \E F : Sums(F, f, SUBSET Callers)
  <1>. DEFINE Bad == {n \in Nat : ~ \E F : Sums(F, f, UpTo(n))}
  <1>0. ASSUME NEW S \in SUBSET Callers
        PROVE  /\ IsFiniteSet(S) /\ Cardinality(S) \in Nat
               /\ Cardinality(S) = 0 <=> S = {}
               /\ \A x \in S : Cardinality(S \ {x}) = Cardinality(S) - 1
    <2>1. IsFiniteSet(S)
      BY PoolAssumption, FS_Subset
    <2>. QED
      BY <2>1, FS_CardinalityType, FS_RemoveElement, FS_EmptySet
  <1>1. \E F : Sums(F, f, UpTo(0))
    <2>. DEFINE F == [S \in UpTo(0) |-> 0]
    <2>1. \A S \in UpTo(0) : S = {}
      BY <1>0 DEF UpTo
    <2>2. F = [S \in UpTo(0) |-> IF S = {} THEN 0 ELSE f[Pick(S)] + F[S \ {Pick(S)}]]
      BY <2>1
    <2>. QED
      BY <2>2 DEF Sums
  <1>2. ASSUME NEW n \in Nat, NEW F, Sums(F, f, UpTo(n))
        PROVE  \E G : Sums(G, f, UpTo(n + 1))
    <2>. DEFINE G == [S \in UpTo(n + 1) |->
                         IF S = {} THEN 0 ELSE f[Pick(S)] + F[S \ {Pick(S)}]]
    <2>1. \A S \in UpTo(n) : S \in UpTo(n + 1) /\ G[S] = F[S]
      <3>1. \A S \in UpTo(n) : S \in UpTo(n + 1)
        BY <1>0 DEF UpTo
      <3>. QED
        BY <1>2, <3>1 DEF Sums
    <2>2. ASSUME NEW S \in UpTo(n + 1), S # {}
          PROVE  S \ {Pick(S)} \in UpTo(n)
      <3>1. Pick(S) \in S
        BY <2>2 DEF Pick
      <3>2. S \in SUBSET Callers /\ Cardinality(S) <= n + 1
        BY DEF UpTo
      <3>3. Cardinality(S \ {Pick(S)}) = Cardinality(S) - 1 /\ Cardinality(S) \in Nat
        BY <1>0, <3>1, <3>2
      <3>. QED
        BY <3>2, <3>3 DEF UpTo
    <2>3. \A S \in UpTo(n + 1) : S # {} => F[S \ {Pick(S)}] = G[S \ {Pick(S)}]
      BY <2>1, <2>2
    <2>4. G = [S \in UpTo(n + 1) |->
                  IF S = {} THEN 0 ELSE f[Pick(S)] + G[S \ {Pick(S)}]]
      BY <2>3
    <2>. QED
      BY <2>4 DEF Sums
  <1>3. Bad = {}
    <2>. SUFFICES ASSUME Bad # {} PROVE FALSE
      OBVIOUS
    <2>1. Bad \subseteq Nat
      OBVIOUS
    <2>2. PICK n \in Bad : \A m \in Bad : n <= m
      <3>. HIDE DEF Bad
      <3>. QED
        BY <2>1, Least
    <2>3. n \in Nat /\ n # 0
      BY <1>1
    <2>4. n - 1 \in Nat /\ n - 1 \notin Bad /\ (n - 1) + 1 = n
      <3>1. n - 1 \in Nat /\ (n - 1) + 1 = n /\ ~ (n <= n - 1)
        BY <2>3
      <3>. HIDE DEF Bad
      <3>. QED
        BY <2>2, <3>1
    <2>5. PICK F : Sums(F, f, UpTo(n - 1))
      BY <2>4
    <2>6. \E G : Sums(G, f, UpTo((n - 1) + 1))
      BY <1>2, <2>4, <2>5
    <2>. QED
      BY <2>4, <2>6
  <1>4. Cardinality(Callers) \in Nat
    BY <1>0
  <1>5. UpTo(Cardinality(Callers)) = SUBSET Callers
    <2>1. ASSUME NEW S \in SUBSET Callers PROVE Cardinality(S) <= Cardinality(Callers)
      BY PoolAssumption, FS_Subset
    <2>. QED
      BY <2>1 DEF UpTo
  <1>6. Cardinality(Callers) \notin Bad
    BY <1>3
  <1>7. \E F : Sums(F, f, UpTo(Cardinality(Callers)))
    BY <1>4, <1>6
  <1>. QED
    BY <1>5, <1>7

(* Total is the value of a solution at all callers.                        *)
LEMMA TotalSums ==
    ASSUME NEW f
    PROVE  \E F : Sums(F, f, SUBSET Callers) /\ Total(f) = F[Callers]
  <1>. DEFINE G == CHOOSE F : Sums(F, f, SUBSET Callers)
  <1>1. Sums(G, f, SUBSET Callers)
    BY SumsExist
  <1>2. Total(f) = G[Callers]
    BY DEF Total, MapThenSumSet, MapThenFoldSet, Sums, Pick
  <1>. QED
    BY <1>1, <1>2

(* Changing what one caller has changes the total by the difference.       *)
LEMMA TotalChange ==
    ASSUME NEW f \in [Callers -> Int], NEW c \in Callers, NEW v \in Int
    PROVE  Total(f) \in Int /\ Total([f EXCEPT ![c] = v]) = Total(f) + (v - f[c])
  <1>. DEFINE g == [f EXCEPT ![c] = v]
  <1>1. PICK F : Sums(F, f, SUBSET Callers) /\ Total(f) = F[Callers]
    BY TotalSums
  <1>2. PICK G : Sums(G, g, SUBSET Callers) /\ Total(g) = G[Callers]
    BY TotalSums
  <1>. DEFINE Good(S) == /\ F[S] \in Int
                         /\ G[S] = F[S] + (IF c \in S THEN v - f[c] ELSE 0)
              B == {S \in SUBSET Callers : ~ Good(S)}
  <1>3. \A d \in Callers : f[d] \in Int /\ g[d] = IF d = c THEN v ELSE f[d]
    OBVIOUS
  <1>. HIDE DEF g
  <1>4. B = {}
    <2>. SUFFICES ASSUME B # {} PROVE FALSE
      OBVIOUS
    <2>1. B \in SUBSET SUBSET Callers
      OBVIOUS
    <2>2. PICK S \in B : \A x \in S : S \ {x} \notin B
      <3>. HIDE DEF B
      <3>. QED
        BY <2>1, SmallestSet
    <2>3. S \in SUBSET Callers
      OBVIOUS
    <2>4. S # {}
      <3>. SUFFICES ASSUME S = {} PROVE FALSE
        OBVIOUS
      <3>1. F[S] = 0 /\ G[S] = 0
        BY <1>1, <1>2, <2>3 DEF Sums
      <3>. QED
        BY <3>1
    <2>. DEFINE x == Pick(S)
                R == S \ {x}
    <2>5. x \in S
      BY <2>4 DEF Pick
    <2>6. Good(R)
      <3>1. R \notin B /\ R \in SUBSET Callers
        BY <2>2, <2>3, <2>5
      <3>. QED
        BY <3>1
    <2>7. F[S] = f[x] + F[R] /\ G[S] = g[x] + G[R]
      BY <1>1, <1>2, <2>3, <2>4 DEF Sums
    <2>8. x \in Callers /\ (c \in S <=> c = x \/ c \in R) /\ x \notin R
      BY <2>3, <2>5
    <2>. HIDE DEF x, R
    <2>9. F[R] \in Int /\ G[R] = F[R] + (IF c \in R THEN v - f[c] ELSE 0)
      BY <2>6
    <2>10. F[S] \in Int /\ G[S] = F[S] + (IF c \in S THEN v - f[c] ELSE 0)
      BY <1>3, <2>7, <2>8, <2>9
    <2>. QED
      BY <2>10
  <1>5. Good(Callers)
    BY <1>4
  <1>. QED
    BY <1>1, <1>2, <1>5 DEF g

(* Nothing adds up to nothing.                                             *)
LEMMA TotalZero == Total([c \in Callers |-> 0]) = 0
  <1>. DEFINE f == [c \in Callers |-> 0]
  <1>1. PICK F : Sums(F, f, SUBSET Callers) /\ Total(f) = F[Callers]
    BY TotalSums
  <1>. DEFINE B == {S \in SUBSET Callers : F[S] # 0}
  <1>2. \A d \in Callers : f[d] = 0
    OBVIOUS
  <1>3. B = {}
    <2>. SUFFICES ASSUME B # {} PROVE FALSE
      OBVIOUS
    <2>1. B \in SUBSET SUBSET Callers
      OBVIOUS
    <2>2. PICK S \in B : \A x \in S : S \ {x} \notin B
      <3>. HIDE DEF B
      <3>. QED
        BY <2>1, SmallestSet
    <2>3. S \in SUBSET Callers /\ F[S] # 0
      OBVIOUS
    <2>4. S # {}
      BY <1>1, <2>3 DEF Sums
    <2>5. Pick(S) \in S
      BY <2>4 DEF Pick
    <2>6. F[S \ {Pick(S)}] = 0
      BY <2>2, <2>3, <2>5
    <2>7. F[S] = f[Pick(S)] + F[S \ {Pick(S)}]
      BY <1>1, <2>3, <2>4 DEF Sums
    <2>. QED
      BY <1>2, <2>3, <2>5, <2>6, <2>7
  <1>. QED
    BY <1>1, <1>3

(* Reducing before an addition or subtraction does not change the result:  *)
(* what lets a wrapping counter go below zero and come back.               *)
LEMMA ModShift ==
    ASSUME NEW a \in Int, NEW b \in Int
    PROVE  ((a % CountModulus) + b) % CountModulus = (a + b) % CountModulus
  <1>. DEFINE M == CountModulus
              r == ((a % M) + b) % M
              s == (a + b) % M
              d == (a + b) \div M - ((a % M) + b) \div M - a \div M
  <1>1. M \in Nat /\ M > 0
    BY PoolAssumption
  <1>2. a = M * (a \div M) + (a % M) /\ a \div M \in Int /\ a % M \in Int
    BY <1>1
  <1>3. /\ a + b = M * ((a + b) \div M) + s /\ (a + b) \div M \in Int
        /\ s \in Int /\ 0 <= s /\ s < M
    BY <1>1
  <1>4. /\ (a % M) + b = M * (((a % M) + b) \div M) + r /\ ((a % M) + b) \div M \in Int
        /\ r \in Int /\ 0 <= r /\ r < M
    BY <1>1, <1>2
  <1>5. r - s = M * d /\ d \in Int
    BY <1>1, <1>2, <1>3, <1>4
  <1>. HIDE DEF r, s, d
  <1>6. d = 0
    <2>1. CASE d >= 1
      <3>1. M * d >= M
        BY <1>1, <1>5, <2>1
      <3>. QED
        BY <1>1, <1>3, <1>4, <1>5, <3>1
    <2>2. CASE d <= -1
      <3>1. M * d <= -M
        BY <1>1, <1>5, <2>2
      <3>. QED
        BY <1>1, <1>3, <1>4, <1>5, <3>1
    <2>. QED
      BY <1>5, <2>1, <2>2
  <1>7. r = s
    BY <1>1, <1>3, <1>4, <1>5, <1>6
  <1>. QED
    BY <1>7 DEF r, s
-----------------------------------------------------------------------------
(* Between the load of count and the store.                                *)
InStore(c) == pc[c] \in {"addstore", "substore"}

(* What count stands for: the section a caller holds, which until unlock   *)
(* is still the old one for the variables of the model.                    *)
Owned == [c \in Callers |-> IF pc[c] = "unlock" THEN ret[c].len ELSE held[c].len]

(* The slots that alloc counts are those it will return, and whoever       *)
(* looks for a section has none.                                           *)
CallShape(c) ==
    /\ pc[c] = "lock" /\ op[c] = "alloc" => held[c].len = 0
    /\ pc[c] \in {"scan", "grow", "addload", "addstore"} => held[c].len = 0
    /\ pc[c] \in {"lock", "backup", "clear", "subload", "substore"} /\ op[c] # "free"
       => ret[c].len = want[c]
    /\ pc[c] \in {"scan", "addload", "addstore"} => ret[c].len = want[c]
    /\ pc[c] = "grow" => ret[c].len = 0

(* Every step keeps the arguments of the calls in shape.                   *)
LEMMA StepShape ==
    ASSUME TypeOK, OpShape, NEW c \in Callers, Call(c) \/ Step(c), kind # "kptr",
           \A d \in Callers : CallShape(d)
    PROVE  \A d \in Callers : CallShape(d)'
  <1>. SUFFICES ASSUME NEW d \in Callers PROVE CallShape(d)'
    OBVIOUS
  <1>. USE PoolAssumption DEF TypeOK, OpShape, CallShape, Goto, Sections, NoSection
  <1>1. CASE CallAlloc(c)
    BY <1>1 DEF CallAlloc
  <1>2. CASE CallKptralloc(c)
    BY <1>2 DEF CallKptralloc
  <1>3. CASE CallFree(c)
    BY <1>3 DEF CallFree
  <1>4. CASE CallRealloc(c)
    BY <1>4 DEF CallRealloc
  <1>5. CASE StreamInit(c)
    BY <1>5 DEF StreamInit
  <1>6. CASE Backup(c)
    BY <1>6 DEF Backup
  <1>7. CASE Clear(c)
    BY <1>7 DEF Clear
  <1>8. CASE LoadCount(c)
    BY <1>8 DEF LoadCount
  <1>9. CASE StoreSub(c)
    BY <1>9 DEF StoreSub
  <1>10. CASE Scan(c)
    BY <1>10 DEF Scan
  <1>11. CASE Grow(c)
    BY <1>11 DEF Grow
  <1>12. CASE StoreAdd(c)
    BY <1>12 DEF StoreAdd
  <1>13. CASE Unlock(c)
    BY <1>13 DEF Unlock
  <1>. QED
    BY <1>1, <1>2, <1>3, <1>4, <1>5, <1>6, <1>7, <1>8, <1>9, <1>10, <1>11, <1>12, <1>13 DEF Call, Step

(* While no two updates overlap one caller at most is between load and     *)
(* store, and what it loaded is still what count is.                       *)
LEMMA StepStore ==
    ASSUME TypeOK, NEW c \in Callers, Call(c) \/ Step(c),
           \A d, e \in Callers : InStore(d) /\ InStore(e) => d = e,
           \A d \in Callers : InStore(d) => tmp[d] = count,
           ~ raced'
    PROVE  /\ \A d, e \in Callers : (InStore(d) /\ InStore(e))' => d = e
           /\ \A d \in Callers : InStore(d)' => tmp'[d] = count'
  <1>1. CASE LoadCount(c)
    <2>1. \A d \in Callers \ {c} : ~ InStore(d)
      BY <1>1, Zenon DEF LoadCount, InStore
    <2>2. \A d \in Callers \ {c} : pc'[d] = pc[d]
      BY <1>1 DEF LoadCount, Goto, TypeOK
    <2>3. tmp'[c] = count'
      BY <1>1 DEF LoadCount, TypeOK
    <2>. QED
      BY <2>1, <2>2, <2>3 DEF InStore
  <1>2. CASE StoreSub(c) \/ StoreAdd(c)
    <2>1. InStore(c)
      BY <1>2 DEF StoreSub, StoreAdd, InStore
    <2>2. \A d \in Callers : ~ InStore(d)'
      BY <1>2, <2>1 DEF StoreSub, StoreAdd, Goto, InStore, TypeOK
    <2>. QED
      BY <2>2
  <1>3. CASE Call(c) \/ StreamInit(c) \/ Backup(c) \/ Clear(c) \/ Scan(c) \/ Grow(c) \/ Unlock(c)
    <2>1. tmp' = tmp /\ count' = count
      BY <1>3 DEF Call, CallAlloc, CallKptralloc, CallFree, CallRealloc, StreamInit, Backup,
         Clear, Scan, Grow, Unlock
    <2>2. \A d \in Callers : InStore(d)' => InStore(d)
      BY <1>3 DEF Call, CallAlloc, CallKptralloc, CallFree, CallRealloc, StreamInit, Backup,
         Clear, Scan, Grow, Unlock, Goto, InStore, TypeOK
    <2>. QED
      BY <2>1, <2>2
  <1>. QED
    BY <1>1, <1>2, <1>3 DEF Step

(* Every step changes count by what it changes of the sections handed out. *)
LEMMA StepCount ==
    ASSUME TypeOK, TypeOK', OpShape, NEW c \in Callers, Call(c) \/ Step(c),
           \A d \in Callers : CallShape(d),
           InStore(c) => tmp[c] = count,
           count = Total(Owned) % CountModulus
    PROVE  count' = Total(Owned') % CountModulus
  <1>. USE PoolAssumption
  <1>1. Owned \in [Callers -> Int]
    BY DEF Owned, TypeOK, Sections
  <1>2. ASSUME NEW v \in Int, Owned' = [Owned EXCEPT ![c] = v],
               count' = (count + (v - Owned[c])) % CountModulus
        PROVE  count' = Total(Owned') % CountModulus
    <2>. DEFINE t == Total(Owned)
                b == v - Owned[c]
    <2>1. Total(Owned') = t + b /\ t \in Int
      BY <1>1, <1>2, TotalChange
    <2>2. b \in Int
      BY <1>1
    <2>. HIDE DEF t, b
    <2>3. count' = ((t % CountModulus) + b) % CountModulus
      BY <1>2 DEF t, b
    <2>. QED
      BY <2>1, <2>2, <2>3, ModShift
  <1>3. CASE StoreSub(c)
    <2>1. Owned' = [Owned EXCEPT ![c] = 0]
      BY <1>3 DEF StoreSub, Goto, Owned, NoSection, TypeOK, OpShape
    <2>2. Owned[c] = held[c].len /\ tmp[c] = count /\ held[c].len \in Int /\ count \in Int
      BY <1>3 DEF StoreSub, Owned, InStore, TypeOK, Sections
    <2>3. count' = (count + (0 - Owned[c])) % CountModulus
      <3>1. count - held[c].len = count + (0 - held[c].len)
        BY <2>2
      <3>. QED
        BY <1>3, <2>2, <3>1 DEF StoreSub
    <2>4. 0 \in Int
      OBVIOUS
    <2>. QED
      BY <1>2, <2>1, <2>3, <2>4
  <1>4. CASE StoreAdd(c)
    <2>1. ret[c].len = want[c] /\ held[c].len = 0 /\ want[c] \in Int /\ pc[c] = "addstore"
      BY <1>4 DEF StoreAdd, CallShape, TypeOK
    <2>2. Owned' = [Owned EXCEPT ![c] = want[c]]
      BY <1>4, <2>1 DEF StoreAdd, Goto, Owned, TypeOK
    <2>3. Owned[c] = 0 /\ tmp[c] = count /\ count \in Int
      BY <2>1 DEF Owned, InStore, TypeOK
    <2>4. count' = (count + (want[c] - Owned[c])) % CountModulus
      BY <1>4, <2>1, <2>3 DEF StoreAdd
    <2>. QED
      BY <1>2, <2>1, <2>2, <2>4
  <1>5. ASSUME Owned' = Owned, count' = count
        PROVE  count' = Total(Owned') % CountModulus
    BY <1>5
  <1>6. CASE Call(c)
    BY <1>5, <1>6 DEF Call, CallAlloc, CallKptralloc, CallFree, CallRealloc, Goto, Owned, TypeOK
  <1>7. CASE StreamInit(c) \/ Clear(c) \/ LoadCount(c)
    BY <1>5, <1>7 DEF StreamInit, Clear, LoadCount, Goto, Owned, TypeOK
  <1>8. CASE Backup(c) \/ Unlock(c)
    BY <1>5, <1>8 DEF Backup, Unlock, Goto, Owned, TypeOK
  <1>9. CASE Scan(c)
    <2>1. held[c].len = 0 /\ pc[c] = "scan"
      BY <1>9 DEF Scan, CallShape
    <2>2. Owned' = Owned
      BY <1>9, <2>1 DEF Scan, Goto, Owned, NoSection, TypeOK
    <2>. QED
      BY <1>5, <1>9, <2>2 DEF Scan
  <1>10. CASE Grow(c)
    <2>1. held[c].len = 0 /\ ret[c].len = 0 /\ pc[c] = "grow"
      BY <1>10 DEF Grow, CallShape
    <2>2. \A d \in Callers : held'[d].len = held[d].len
      BY <1>10 DEF Grow, TypeOK, Sections
    <2>3. Owned' = Owned
      BY <1>10, <2>1, <2>2 DEF Grow, Goto, Owned, TypeOK
    <2>. QED
      BY <1>5, <1>10, <2>3 DEF Grow
  <1>. QED
    BY <1>3, <1>4, <1>6, <1>7, <1>8, <1>9, <1>10 DEF Step

(* While no two updates of count have overlapped, count is what is owned,  *)
(* in the middle of calls too.  CountExact is the case where nobody is     *)
(* inside; it is not inductive, since what a call adds or subtracts was    *)
(* fixed when it was made and loaded before it is stored.                  *)
CountKept ==
    ~raced /\ kind # "kptr" =>
        /\ \A c \in Callers : CallShape(c)
        /\ \A c, d \in Callers : InStore(c) /\ InStore(d) => c = d
        /\ \A c \in Callers : InStore(c) => tmp[c] = count
        /\ count = Total(Owned) % CountModulus

(* The pool starts with a count of nothing handed out.                     *)
LEMMA InitCount == Init => CountKept
  <1>. SUFFICES ASSUME Init PROVE CountKept
    OBVIOUS
  <1>1. Owned = [c \in Callers |-> 0]
    BY DEF Init, Owned, NoSection
  <1>2. count = Total(Owned) % CountModulus
    BY <1>1, TotalZero, PoolAssumption DEF Init
  <1>3. \A c \in Callers : CallShape(c) /\ ~ InStore(c)
    BY DEF Init, CallShape, InStore, NoSection
  <1>. QED
    BY <1>2, <1>3, Zenon DEF CountKept

(* Every step keeps count exact, or overlaps with another update.          *)
LEMMA StepCountKept == IInv /\ IInv' /\ CountKept /\ [Next]_vars => CountKept'
  <1>. SUFFICES ASSUME IInv, IInv', CountKept, [Next]_vars PROVE CountKept'
    OBVIOUS
  <1>0. TypeOK /\ TypeOK' /\ OpShape
    BY DEF IInv
  <1>1. ASSUME NEW c \in Callers, Call(c) \/ Step(c), ~ raced', kind' # "kptr"
        PROVE  /\ \A d \in Callers : CallShape(d)'
               /\ \A d, e \in Callers : (InStore(d) /\ InStore(e))' => d = e
               /\ \A d \in Callers : InStore(d)' => tmp'[d] = count'
               /\ count' = Total(Owned') % CountModulus
    <2>1. kind' = kind
      BY <1>1 DEF Call, Step, CallAlloc, CallKptralloc, CallFree, CallRealloc, StreamInit,
         Backup, Clear, LoadCount, StoreSub, Scan, Grow, StoreAdd, Unlock
    <2>2. LoadCount(c) \/ raced' = raced
      BY <1>1, Zenon DEF Call, Step, CallAlloc, CallKptralloc, CallFree, CallRealloc,
         StreamInit, Backup, Clear, StoreSub, Scan, Grow, StoreAdd, Unlock
    <2>3. ~ raced
      BY <1>1, <2>2, Zenon DEF LoadCount
    <2>4. /\ \A d \in Callers : CallShape(d)
          /\ \A d, e \in Callers : InStore(d) /\ InStore(e) => d = e
          /\ \A d \in Callers : InStore(d) => tmp[d] = count
          /\ count = Total(Owned) % CountModulus
      BY <1>1, <2>1, <2>3, Zenon DEF CountKept
    <2>5. \A d \in Callers : CallShape(d)'
      BY <1>0, <1>1, <2>1, <2>4, StepShape
    <2>6. /\ \A d, e \in Callers : (InStore(d) /\ InStore(e))' => d = e
          /\ \A d \in Callers : InStore(d)' => tmp'[d] = count'
      BY <1>0, <1>1, <2>4, StepStore
    <2>7. count' = Total(Owned') % CountModulus
      BY <1>0, <1>1, <2>4, StepCount
    <2>. QED
      BY <2>5, <2>6, <2>7, Zenon
  <1>2. CASE Next
    <2>1. PICK c \in Callers : Call(c) \/ Step(c)
      BY <1>2 DEF Next
    <2>. QED
      BY <1>1, <2>1, Zenon DEF CountKept
  <1>3. CASE UNCHANGED vars
    <2>1. Owned' = Owned
      BY <1>3 DEF vars, Owned
    <2>2. /\ raced' = raced /\ kind' = kind /\ count' = count /\ tmp' = tmp
          /\ pc' = pc /\ op' = op /\ held' = held /\ ret' = ret /\ want' = want
      BY <1>3 DEF vars
    <2>. QED
      BY <2>1, <2>2, Zenon DEF CountKept, CallShape, InStore
  <1>. QED
    BY <1>2, <1>3

(* count is exact at rest, modulo its width, for any number of callers, as *)
(* long as no two of its updates overlapped and whoever frees gives back   *)
(* what was counted.                                                       *)
THEOREM CountStaysExact == Spec => []CountExact
  <1>1. CountKept => CountExact
    <2>. SUFFICES ASSUME CountKept, ~ raced, kind # "kptr", Quiet
                  PROVE  count = Total([c \in Callers |-> held[c].len]) % CountModulus
      BY Zenon DEF CountExact
    <2>1. Owned = [c \in Callers |-> held[c].len]
      BY DEF Owned, Quiet
    <2>2. count = Total(Owned) % CountModulus
      BY Zenon DEF CountKept
    <2>. QED
      BY <2>1, <2>2
  <1>. QED
    BY <1>1, InitCount, StepCountKept, Invariance, PTL DEF Spec
=============================================================================
