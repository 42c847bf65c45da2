--------------------------- MODULE LockDiscipline ---------------------------
(***************************************************************************)
(* The rules that the operations of KernelLocks keep about locks, one      *)
(* instruction at a time: whether they are kept can be seen from the list  *)
(* of instructions alone.  What they mean for processors that interleave   *)
(* is what KernelLocksProofs proves.                                       *)
(*                                                                         *)
(* Every instruction is annotated with the locks its own operation has in  *)
(* front of it, HasAt, and every operation with those that the operations  *)
(* below it on the stack may have, Around.                                 *)
(***************************************************************************)
EXTENDS KernelLocks

Operations == DOMAIN Code

(* The locks an operation has behind an instruction, from those in front.  *)
Effect(c, H) ==
    CASE c.do = "lock"   -> H \cup c.of
      [] c.do = "unlock" -> H \ c.of
      [] OTHER           -> H

HasAt ==
    [f \in Operations |->
        LET has[i \in DOMAIN Code[f]] ==
                IF i = 1 THEN {} ELSE Effect(Code[f][i - 1], has[i - 1])
        IN  has]

Calling == {"call", "may", "loop"}

(* Longer than any chain of calls.                                         *)
MaxDepth == 16

AroundWithin[n \in 0..MaxDepth] ==
    IF n = 0 THEN [f \in Operations |-> {}]
    ELSE LET outer == AroundWithin[n - 1]
         IN  [g \in Operations |->
                 UNION {outer[f] \cup UNION {HasAt[f][i] : i \in
                            {j \in DOMAIN Code[f] : /\ Code[f][j].do \in Calling
                                                    /\ g \in Code[f][j].of}}
                          : f \in {h \in Operations : \E j \in DOMAIN Code[h] :
                                      Code[h][j].do \in Calling /\ g \in Code[h][j].of}}]

Around == AroundWithin[MaxDepth]
-----------------------------------------------------------------------------
(* The locks that a return or a driver that does not answer may keep.      *)
OuterLocks == {"vfs", "process", "driver"} \cup Range(Devices)

(* Instructions are made of locks and operations that exist, and nobody    *)
(* returns in the moment a lock is taken.                                  *)
WellFormed ==
    /\ "UefiMain" \in Operations /\ Calls \subseteq Operations
    /\ Code["UefiMain"][1].do # "lock"
    /\ \A f \in Operations :
          /\ Code[f] \in Seq([do : STRING, of : SUBSET (Locks \cup Operations)])
          /\ Code[f] # <<>>
          /\ \A i \in DOMAIN Code[f] :
                /\ Code[f][i].do \in {"lock", "unlock", "bail"} =>
                      \E l \in Locks : Code[f][i].of = {l}
                /\ Code[f][i].do \in Calling => Code[f][i].of \subseteq Operations
                /\ Code[f][i].do = "lock" => i < Len(Code[f])

(* The annotations are right: HasAt follows the instructions, and a called *)
(* operation has around it what its caller has, and has around it.         *)
Annotated ==
    /\ HasAt \in [Operations -> Seq(SUBSET Locks)]
    /\ Around \in [Operations -> SUBSET Locks]
    /\ \A f \in Operations :
          /\ DOMAIN HasAt[f] = DOMAIN Code[f] /\ HasAt[f][1] = {}
          /\ \A i \in 1 .. Len(Code[f]) :
                /\ i < Len(Code[f]) => HasAt[f][i + 1] = Effect(Code[f][i], HasAt[f][i])
                /\ Code[f][i].do \in Calling =>
                      \A g \in Code[f][i].of : Around[f] \cup HasAt[f][i] \subseteq Around[g]

(* A lock is waited for only above everything that is held; it is given    *)
(* back by the operation that took it, apart from kdescs; it is given back *)
(* alone; and only outer locks are kept by a return, or by a driver that   *)
(* does not answer.                                                        *)
KeepsOrder ==
    \A f \in Operations : \A i \in DOMAIN Code[f] : \A l \in Sound :
        Code[f][i] = Lock(l) =>
            \A h \in (Around[f] \cup HasAt[f][i]) \ {"kdescs"} : LockRank[h] < LockRank[l]

GivesOwn ==
    \A f \in Operations : \A i \in DOMAIN Code[f] :
        /\ Code[f][i].do \in {"unlock", "bail"} =>
              /\ Code[f][i].of \subseteq HasAt[f][i] \cup {"kdescs"}
              /\ Code[f][i].of \cap Range(Devices) = {}
        /\ Code[f][i].do = "bail" \/ (Code[f][i].do = "unlock" /\ i = Len(Code[f])) =>
              HasAt[f][i] = Code[f][i].of

KeepsOuterOnly ==
    \A f \in Operations : \A i \in DOMAIN Code[f] :
        /\ Code[f][i].do = "exit" \/ i = Len(Code[f]) =>
              Effect(Code[f][i], HasAt[f][i]) \subseteq OuterLocks
        /\ Code[f][i].do = "run" => Around[f] \cup HasAt[f][i] \subseteq OuterLocks
        /\ Code[f][i].do = "hang" => Around[f] \cup HasAt[f][i] \subseteq {"process"}

(* Every operation of the kernel, with whatever calls it, takes its locks  *)
(* upwards, gives back what it took itself, and keeps, runs a driver with  *)
(* or looks for a victim under no lock of a pool or of the memory.         *)
Disciplined == WellFormed /\ Annotated /\ KeepsOrder /\ GivesOwn /\ KeepsOuterOnly
-----------------------------------------------------------------------------
(* An operation on a stack is where an instruction is, with the locks that *)
(* the annotation of the instruction says.                                 *)
Regular(f) == f \in Frames /\ f.pc \in DOMAIN Code[f.fn] /\ f.has = HasAt[f.fn][f.pc]

(* The operations further out have what the annotation of an inner one     *)
(* allows around it, and no lock but kdescs twice.                         *)
Nested(f, H) == H \subseteq Around[f.fn] /\ f.has \cap H \subseteq {"kdescs"}

Kept(s) ==
    /\ \A i \in DOMAIN s : Regular(s[i])
    /\ \A i, j \in DOMAIN s : i < j => Nested(s[i], s[j].has)

Follows == \A p \in Processors : Kept(stack[p])

(* The operations keep the rules, and wherever a processor is it has       *)
(* locked what the annotations say.                                        *)
FollowsRules == Disciplined /\ Follows
=============================================================================
