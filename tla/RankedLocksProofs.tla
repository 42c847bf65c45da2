------------------------- MODULE RankedLocksProofs --------------------------
(***************************************************************************)
(* Locks taken in the order of their ranks never make processors wait for  *)
(* each other, for any number of processors and locks, even when some of   *)
(* the locks are lost.  Whatever implements RankedLocks has this too.      *)
(***************************************************************************)
EXTENDS RankedLocks, WellFoundedInduction, TLAPS

Inv == TypeOK /\ Exclusive /\ Ordered

(* At start-up no processor is inside of a lock or in front of one.        *)
LEMMA InitInv == Init => Inv
  BY DEF Init, Inv, TypeOK, Exclusive, Ordered, Legal

(* Taking, giving back and losing locks keep the types.                    *)
LEMMA NextType ==
  ASSUME TypeOK, NEW p \in Processors, Grant(p) \/ Release(p) \/ Lose(p)
  PROVE  TypeOK'
<1>1. held' \in [Processors -> SUBSET Locks] /\ lost' \in SUBSET Locks
  <2>1. CASE Grant(p)
    <3>1. want[p] \in Locks  BY <2>1 DEF TypeOK, Grant
    <3> QED  BY <2>1, <3>1 DEF TypeOK, Grant
  <2>2. CASE Release(p)  BY <2>2 DEF TypeOK, Release
  <2>3. CASE Lose(p)  BY <2>3 DEF TypeOK, Lose
  <2> QED  BY <2>1, <2>2, <2>3
<1>2. PICK w \in Legal(held'[p]) : want' = [want EXCEPT ![p] = w]
  BY DEF Grant, Release, Lose, GoOn
<1>3. w \in Locks \cup {None}  BY DEF Legal
<1> QED  BY <1>1, <1>2, <1>3 DEF TypeOK

(* A lock is granted only when it is free, so it has one processor inside. *)
LEMMA NextExclusive ==
  ASSUME TypeOK, Exclusive, NEW p \in Processors, Grant(p) \/ Release(p) \/ Lose(p)
  PROVE  Exclusive'
<1>1. CASE Grant(p)
  <2>1. /\ held' = [held EXCEPT ![p] = @ \cup {want[p]}]
        /\ lost' = lost
        /\ want[p] \notin lost
        /\ \A q \in Processors : want[p] \notin held[q]
    BY <1>1 DEF Grant, Free
  <2>2. held'[p] = held[p] \cup {want[p]}  BY <2>1 DEF TypeOK
  <2>3. \A q \in Processors : q # p => held'[q] = held[q]  BY <2>1 DEF TypeOK
  <2> QED  BY <2>1, <2>2, <2>3 DEF Exclusive
<1>2. CASE Release(p)
  <2>1. PICK l \in held[p] : held' = [held EXCEPT ![p] = @ \ {l}]  BY <1>2 DEF Release
  <2>2. held'[p] = held[p] \ {l}  BY <2>1 DEF TypeOK
  <2>3. \A q \in Processors : q # p => held'[q] = held[q]  BY <2>1 DEF TypeOK
  <2>4. lost' = lost  BY <1>2 DEF Release
  <2> QED  BY <2>2, <2>3, <2>4 DEF Exclusive
<1>3. CASE Lose(p)
  <2>1. PICK S \in SUBSET held[p] : /\ held' = [held EXCEPT ![p] = @ \ S]
                                    /\ lost' = lost \cup S
    BY <1>3 DEF Lose
  <2>2. held'[p] = held[p] \ S  BY <2>1 DEF TypeOK
  <2>3. \A q \in Processors : q # p => held'[q] = held[q]  BY <2>1 DEF TypeOK
  <2> QED  BY <2>1, <2>2, <2>3 DEF Exclusive
<1> QED  BY <1>1, <1>2, <1>3

(* A step moves one processor; what it waits for next is legal.            *)
LEMMA NextOrdered ==
  ASSUME TypeOK, Ordered, NEW p \in Processors, Grant(p) \/ Release(p) \/ Lose(p)
  PROVE  Ordered'
<1>1. PICK w \in Legal(held'[p]) : want' = [want EXCEPT ![p] = w]
  BY DEF Grant, Release, Lose, GoOn
<1>2. want'[p] \in Legal(held'[p])  BY <1>1 DEF TypeOK
<1>3. ASSUME NEW q \in Processors, q # p
      PROVE  want'[q] = want[q] /\ held'[q] = held[q]
  <2>1. want'[q] = want[q]  BY <1>1, <1>3 DEF TypeOK
  <2>2. held'[q] = held[q]  BY <1>3 DEF TypeOK, Grant, Release, Lose
  <2> QED  BY <2>1, <2>2
<1> SUFFICES ASSUME NEW q \in Processors
             PROVE  want'[q] \in Legal(held'[q])
  BY DEF Ordered, Legal
<1> QED  BY <1>2, <1>3 DEF Ordered

(* A lock that is taken has one processor inside, and whoever waits for    *)
(* one waits above everything it is inside of.                             *)
THEOREM Invariance == Spec => []Inv
<1>1. Inv /\ [Next]_vars => Inv'
  <2> SUFFICES ASSUME Inv, [Next]_vars PROVE Inv'
    OBVIOUS
  <2>1. CASE Next
    BY <2>1, NextType, NextExclusive, NextOrdered DEF Next, Inv
  <2>2. CASE UNCHANGED vars
    BY <2>2 DEF vars, Inv, TypeOK, Exclusive, Ordered, Legal
  <2> QED  BY <2>1, <2>2
<1> QED  BY InitInv, <1>1, PTL DEF Spec

(* In a set of ranks there is a highest one.                               *)
LEMMA HighestRank ==
  ASSUME NEW top \in Nat, NEW T \in SUBSET (0..top), T # {}
  PROVE  \E m \in T : \A n \in T : n <= m
<1> DEFINE Less == OpToRel(<, Nat)
           D == {top - n : n \in T}
<1>1. D \subseteq Nat /\ D # {}  OBVIOUS
<1> HIDE DEF D
<1>2. PICK d \in D : \A e \in D : ~ (<<e, d>> \in Less)
  <2> HIDE DEF Less
  <2>1. IsWellFoundedOn(Less, Nat)  BY NatLessThanWellFounded DEF Less
  <2> QED  BY <1>1, <2>1, WFMin
<1>3. \A e \in D : ~ (e < d)
  <2> SUFFICES ASSUME NEW e \in D, e < d PROVE FALSE
    OBVIOUS
  <2>1. <<e, d>> \in Nat \X Nat  BY <1>1
  <2>2. <<e, d>> \in Less  BY <2>1 DEF OpToRel
  <2> QED  BY <1>2, <2>2
<1> USE DEF D
<1>4. PICK m \in T : d = top - m  OBVIOUS
<1>5. ASSUME NEW n \in T PROVE n <= m
  <2>1. ~ (top - n < top - m)  BY <1>3, <1>4
  <2>2. n \in 0..top /\ m \in 0..top  OBVIOUS
  <2> HIDE DEF D
  <2> QED  BY <2>1, <2>2
<1> QED  BY <1>5

(* The processor that waits for the highest lock waits for nobody who      *)
(* waits: whoever is inside of that lock waits, if at all, for a higher    *)
(* one.                                                                    *)
LEMMA OrderedNoCircle == ASSUME RanksOK, Inv PROVE NoCircularWait
<1> SUFFICES ASSUME NEW S \in SUBSET Processors, S # {},
                    \A p \in S : \E q \in S : want[p] \in held[q]
             PROVE  FALSE
  BY DEF NoCircularWait
<1>1. \A p \in S : want[p] \in Locks  BY DEF Inv, TypeOK
<1> DEFINE T == {Rank[want[p]] : p \in S}
<1>2. T \in SUBSET (0..MaxRank) /\ T # {}  BY <1>1 DEF RanksOK
<1>3. MaxRank \in Nat  BY DEF RanksOK
<1> HIDE DEF T
<1>4. PICK m \in T : \A n \in T : n <= m  BY <1>2, <1>3, HighestRank
<1> USE DEF T
<1>5. PICK p \in S : m = Rank[want[p]]  OBVIOUS
<1>6. PICK q \in S : want[p] \in held[q]  OBVIOUS
<1>7. Rank[want[p]] < Rank[want[q]]
  <2>1. want[q] \in Legal(held[q]) /\ want[q] # None  BY <1>1 DEF Inv, Ordered, RanksOK
  <2> QED  BY <2>1, <1>6 DEF Legal
<1>8. Rank[want[q]] <= m  BY <1>4
<1>9. Rank[want[p]] \in 0..MaxRank /\ Rank[want[q]] \in 0..MaxRank  BY <1>1 DEF RanksOK
<1> QED  BY <1>3, <1>5, <1>7, <1>8, <1>9

(* Kernel code that takes its locks by rank cannot deadlock on them: in no *)
(* group of processors does everyone wait for a member of the group.       *)
THEOREM NeverCircular == RanksOK => (Spec => []NoCircularWait)
<1> SUFFICES ASSUME RanksOK PROVE Spec => []NoCircularWait
  OBVIOUS
<1>1. Inv => NoCircularWait  BY OrderedNoCircle
<1> QED  BY Invariance, <1>1, PTL
=============================================================================
