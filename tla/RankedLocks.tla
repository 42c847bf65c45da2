---------------------------- MODULE RankedLocks -----------------------------
(***************************************************************************)
(* What the locks of the kernel promise, without the code that takes them: *)
(* a processor that waits for a lock holds only locks of lower rank.  A    *)
(* lock may be lost: taken by a call that has gone away.                   *)
(***************************************************************************)
EXTENDS Naturals

CONSTANTS Processors, Locks,
          None,      \* no lock
          Rank,      \* the order in which locks are taken
          MaxRank

(* What the theorems ask of the constants.                                 *)
RanksOK ==
    /\ None \notin Locks
    /\ MaxRank \in Nat
    /\ Rank \in [Locks -> 0..MaxRank]

VARIABLES held,   \* per processor, the locks it is inside of
          want,   \* per processor, the lock it is waiting for
          lost    \* the locks nobody is inside of and nobody can take

vars == <<held, want, lost>>

TypeOK ==
    /\ held \in [Processors -> SUBSET Locks]
    /\ want \in [Processors -> Locks \cup {None}]
    /\ lost \in SUBSET Locks

Init ==
    /\ held = [p \in Processors |-> {}]
    /\ want = [p \in Processors |-> None]
    /\ lost = {}

Free(l) == l \notin lost /\ \A p \in Processors : l \notin held[p]

(* What a processor that is inside of the locks H may wait for.            *)
Legal(H) == {None} \cup {l \in Locks : \A h \in H : Rank[h] < Rank[l]}

(* After each of its steps a processor may be in front of a lock.          *)
GoOn(p) == \E w \in Legal(held'[p]) : want' = [want EXCEPT ![p] = w]

Grant(p) ==
    /\ want[p] # None
    /\ Free(want[p])
    /\ held' = [held EXCEPT ![p] = @ \cup {want[p]}]
    /\ UNCHANGED lost
    /\ GoOn(p)

Release(p) ==
    /\ want[p] = None
    /\ \E l \in held[p] : held' = [held EXCEPT ![p] = @ \ {l}]
    /\ UNCHANGED lost
    /\ GoOn(p)

Lose(p) ==
    /\ want[p] = None
    /\ \E S \in SUBSET held[p] :
          /\ held' = [held EXCEPT ![p] = @ \ S]
          /\ lost' = lost \cup S
    /\ GoOn(p)

Next == \E p \in Processors : Grant(p) \/ Release(p) \/ Lose(p)

Spec == Init /\ [][Next]_vars
-----------------------------------------------------------------------------
(* No lock has two processors inside, and none inside of a lost one.       *)
Exclusive ==
    /\ \A p, q \in Processors : p # q => held[p] \cap held[q] = {}
    /\ \A p \in Processors : held[p] \cap lost = {}

(* Whoever waits, waits above everything it is inside of.                  *)
Ordered == \A p \in Processors : want[p] \in Legal(held[p])

(* In no group of processors does everyone wait for a lock that another    *)
(* one, or itself, is inside of: some member can go on, or waits for a     *)
(* lock that is free, lost or held outside of the group.                   *)
NoCircularWait ==
    \A S \in SUBSET Processors :
        S # {} => \E p \in S : \A q \in S : want[p] \notin held[q]
=============================================================================
