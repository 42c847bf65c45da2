-------------------------------- MODULE Pool --------------------------------
(***************************************************************************)
(* The object pools of kontrol.h: a Hash (its ckarray of marks, length and *)
(* count) and the King that puts a lock, the calendar, around alloc and    *)
(* realloc.  free is inherited from Hash and takes no lock.  Processes,    *)
(* threads, files, descriptors, pointer arrays, drivers and GDT entries    *)
(* all come from such pools.                                               *)
(*                                                                         *)
(* The code is read literally: alloc looks at the marks and never sets     *)
(* one, it returns the LAST slot of the streak it found as an address that *)
(* counts POINTERS from the start of the pool, while free and the users    *)
(* take the address for one that counts ELEMENTS; and free clears marks    *)
(* from the section's index up to `length`, taken as an index.             *)
(***************************************************************************)
EXTENDS Integers, FiniteSets, FiniteSetsExt

CONSTANTS Callers,        \* kernel threads of control that use the pool
          Kinds,          \* which pools of the kernel are considered
          InitialLength,  \* slots the pool starts with
          MaxLength,      \* bound: slots after growth
          LowEntries,     \* GDT_LOW_ENTRIES
          ObjectWidth,    \* size of an object in a pool of objects, in pointers
          MaxRequest,     \* bound: longest section asked for
          MaxShift,       \* bound: how far growth moves the pool, and how far outside
                          \* of it a section may then seem to lie, in slots
          CountModulus    \* 2^32 for the code's ustd_t

ASSUME PoolAssumption ==
    /\ Kinds \subseteq {"gdt", "kptr", "growable", "objects"}
    /\ InitialLength \in Nat /\ MaxLength \in Nat
    /\ LowEntries \in 0..InitialLength /\ InitialLength <= MaxLength
    /\ MaxRequest \in Nat \ {0} /\ MaxShift \in Nat /\ ObjectWidth \in Nat \ {0}
    /\ CountModulus \in Nat \ {0}
    /\ IsFiniteSet(Callers)

(* One GDT entry is asked for at a time, and there are more than 256       *)
(* reserved ones.                                                          *)
ASSUME LowEntriesAssumption == MaxRequest < LowEntries

VARIABLES kind,      \* the pool: GDT, pointer arrays, a DOUBLE_POINTER one, objects
          length,    \* Hash::length
          count,     \* Hash::count
          ckarray,   \* Hash::ckarray, with the memory that lies after it
          calendar,  \* King::calendar: 0 free, 255 taken
          pc,        \* per caller, where it is in the pool's code
          op,        \* per caller, the operation it called
          want,      \* per caller, the length to allocate
          held,      \* per caller, the section it was given
          ret,       \* per caller, the section the call is about to return
          tmp,       \* per caller, count as it loaded it
          raced      \* history: two updates of count have overlapped

vars == <<kind, length, count, ckarray, calendar, pc, op, want, held, ret, tmp, raced>>

Slots == 0..(MaxLength - 1)
Lengths == 0..MaxRequest
NoSection == [idx |-> 0, len |-> 0]
Sections == [idx : Int, len : 0..MaxRequest]

(* The size of an element of the pool in pointers, what sizeof gives for   *)
(* the two.  A GDT entry is two of them.                                   *)
Width == CASE kind = "gdt" -> 2 [] kind = "objects" -> ObjectWidth [] OTHER -> 1

(* The element at which free, and the users of what alloc returned, find   *)
(* the address pool + sizeof(this->pool)*i.                                *)
Index(i) == i \div Width

(* Marked before the pool is used: the low GDT entries.                    *)
Reserved == IF kind = "gdt" THEN 0..(LowEntries - 1) ELSE {}

TypeOK ==
    /\ kind \in Kinds
    /\ length \in InitialLength..MaxLength
    /\ count \in 0..(CountModulus - 1)
    /\ ckarray \in [Slots -> {0, 1}]
    /\ calendar \in {0, 255}
    /\ pc \in [Callers -> {"idle", "lock", "backup", "clear", "subload", "substore",
                           "scan", "grow", "addload", "addstore", "unlock"}]
    /\ op \in [Callers -> {"alloc", "free", "realloc"}]
    /\ want \in [Callers -> 0..MaxRequest]
    /\ held \in [Callers -> Sections]
    /\ ret \in [Callers -> Sections]
    /\ tmp \in [Callers -> 0..(CountModulus - 1)]
    /\ raced \in BOOLEAN
-----------------------------------------------------------------------------
(* memset(mm->gdt->ckarray,1,GDT_LOW_ENTRIES) is all that is ever written  *)
(* to the marks before use; the rest is whatever the memory held.          *)
Init ==
    /\ kind \in Kinds
    /\ length = InitialLength
    /\ count = 0
    /\ ckarray \in {c \in [Slots -> {0, 1}] : \A i \in Reserved : c[i] = 1}
    /\ calendar = 0
    /\ pc = [c \in Callers |-> "idle"]
    /\ op = [c \in Callers |-> "alloc"]
    /\ want = [c \in Callers |-> 0]
    /\ held = [c \in Callers |-> NoSection]
    /\ ret = [c \in Callers |-> NoSection]
    /\ tmp = [c \in Callers |-> 0]
    /\ raced = FALSE

Goto(c, label) == pc' = [pc EXCEPT ![c] = label]

(* pool_alloc(reqlen) by a caller that holds nothing, or nothing but an    *)
(* empty section: an allocation of none is possible.                       *)
CallAlloc(c) ==
    /\ pc[c] = "idle" /\ held[c].len = 0
    /\ \E n \in Lengths :
          /\ want' = [want EXCEPT ![c] = n]
          /\ ret' = [ret EXCEPT ![c].len = n]
    /\ op' = [op EXCEPT ![c] = "alloc"]
    /\ Goto(c, "lock")
    /\ UNCHANGED <<kind, length, count, ckarray, calendar, held, tmp, raced>>

(* kptralloc(number) asks for one slot; its callers take the result for    *)
(* number of them and hand number to kptrfree.                             *)
CallKptralloc(c) ==
    /\ kind = "kptr"
    /\ pc[c] = "idle" /\ held[c].len = 0
    /\ \E n \in Lengths : ret' = [ret EXCEPT ![c].len = n]
    /\ want' = [want EXCEPT ![c] = 1]
    /\ op' = [op EXCEPT ![c] = "alloc"]
    /\ Goto(c, "lock")
    /\ UNCHANGED <<kind, length, count, ckarray, calendar, held, tmp, raced>>

(* pool_free(section,length): Hash::free, without the calendar.            *)
CallFree(c) ==
    /\ pc[c] = "idle"
    /\ op' = [op EXCEPT ![c] = "free"]
    /\ ret' = [ret EXCEPT ![c] = NoSection]
    /\ Goto(c, "clear")
    /\ UNCHANGED <<kind, length, count, ckarray, calendar, want, held, tmp, raced>>

(* pool_realloc(section,prevlen,newlen)                                    *)
CallRealloc(c) ==
    /\ pc[c] = "idle"
    /\ \E n \in Lengths :
          /\ want' = [want EXCEPT ![c] = n]
          /\ ret' = [ret EXCEPT ![c].len = n]
    /\ op' = [op EXCEPT ![c] = "realloc"]
    /\ Goto(c, "lock")
    /\ UNCHANGED <<kind, length, count, ckarray, calendar, held, tmp, raced>>

(* Faulty variant: the result of the exchange is not looked at.            *)
StreamInitNoWait(c) ==
    /\ pc[c] = "lock"
    /\ calendar' = 255
    /\ Goto(c, IF op[c] = "alloc" THEN "scan" ELSE "backup")
    /\ UNCHANGED <<kind, length, count, ckarray, op, want, held, ret, tmp, raced>>

(* King::stream_init                                                       *)
StreamInit(c) ==
    /\ pc[c] = "lock"
    /\ calendar = 0
    /\ calendar' = 255
    /\ Goto(c, IF op[c] = "alloc" THEN "scan" ELSE "backup")
    /\ UNCHANGED <<kind, length, count, ckarray, op, want, held, ret, tmp, raced>>

(* Hash::realloc, malloc of the backup: without it the old section stays   *)
(* as it is and the call returns NULL.                                     *)
Backup(c) ==
    /\ pc[c] = "backup"
    /\ \/ /\ ret' = [ret EXCEPT ![c] = held[c]]
          /\ Goto(c, "unlock")
       \/ /\ Goto(c, "clear")
          /\ UNCHANGED ret
    /\ UNCHANGED <<kind, length, count, ckarray, calendar, op, want, held, tmp, raced>>

(* Hash::free, the loop over the marks.  g is unsigned: from a negative    *)
(* index it is already past every length.                                  *)
Cleared(s) == IF s.idx < 0 THEN {} ELSE {g \in Slots : s.idx <= g /\ g < s.len}

Clear(c) ==
    /\ pc[c] = "clear"
    /\ ckarray' = [g \in Slots |-> IF g \in Cleared(held[c]) THEN 0 ELSE ckarray[g]]
    /\ Goto(c, "subload")
    /\ UNCHANGED <<kind, length, count, calendar, op, want, held, ret, tmp, raced>>

(* count is updated by a plain read-modify-write, under the calendar in    *)
(* alloc and realloc and without it in free.                               *)
LoadCount(c) ==
    /\ pc[c] \in {"addload", "subload"}
    /\ tmp' = [tmp EXCEPT ![c] = count]
    /\ raced' = (raced \/ \E d \in Callers \ {c} : pc[d] \in {"addstore", "substore"})
    /\ Goto(c, IF pc[c] = "addload" THEN "addstore" ELSE "substore")
    /\ UNCHANGED <<kind, length, count, ckarray, calendar, op, want, held, ret>>

(* Faulty variant: a signed count.                                         *)
StoreSubSigned(c) ==
    /\ pc[c] = "substore"
    /\ count' = tmp[c] - held[c].len
    /\ held' = [held EXCEPT ![c] = NoSection]
    /\ tmp' = [tmp EXCEPT ![c] = 0]
    /\ Goto(c, IF op[c] = "free" THEN "idle" ELSE "scan")
    /\ UNCHANGED <<kind, length, ckarray, calendar, op, want, ret, raced>>

(* this->count -= length, and the section is gone.                         *)
StoreSub(c) ==
    /\ pc[c] = "substore"
    /\ count' = (tmp[c] - held[c].len) % CountModulus
    /\ held' = [held EXCEPT ![c] = NoSection]
    /\ tmp' = [tmp EXCEPT ![c] = 0]
    /\ Goto(c, IF op[c] = "free" THEN "idle" ELSE "scan")
    /\ UNCHANGED <<kind, length, ckarray, calendar, op, want, ret, raced>>

(* Faulty variant: the streak is taken one slot short.                     *)
StreakEndsEarly(n) ==
    {i \in 0..(length - 1) :
        /\ i >= n - 1
        /\ \A j \in (i - n + 2)..i : ckarray[j] = 0
        /\ n = 0 => ckarray[i] # 0}

(* The slots at which a streak of n unmarked ones is complete: what the    *)
(* loop of Hash::alloc compares g with reqlen for.  A streak of none is    *)
(* complete at a marked slot.                                              *)
StreakEnds(n) ==
    {i \in 0..(length - 1) :
        /\ i >= n - 1
        /\ \A j \in (i - n + 1)..i : ckarray[j] = 0
        /\ n = 0 => ckarray[i] # 0}

(* Hash::alloc, the loop.                                                  *)
Scan(c) ==
    /\ pc[c] = "scan"
    /\ IF StreakEnds(want[c]) # {}
       THEN /\ \E i \in StreakEnds(want[c]) :
                  /\ \A j \in StreakEnds(want[c]) : i <= j
                  /\ ret' = [ret EXCEPT ![c].idx = Index(i)]
            /\ Goto(c, "addload")
       ELSE /\ ret' = [ret EXCEPT ![c] = NoSection]
            /\ Goto(c, IF kind = "growable" THEN "grow" ELSE "unlock")
    /\ UNCHANGED <<kind, length, count, ckarray, calendar, op, want, held, tmp, raced>>

(* Hash::alloc of a DOUBLE_POINTER pool asks kingptr for a longer pool.    *)
(* When there is one it may lie elsewhere, so that a section handed out    *)
(* before is now at another index; the call returns NULL all the same.     *)
Grow(c) ==
    /\ pc[c] = "grow"
    /\ \/ /\ length + want[c] <= MaxLength
          /\ length' = length + want[c]
          /\ \E d \in -MaxShift..MaxShift :
                /\ held' = [b \in Callers |->
                               IF held[b].len = 0 THEN held[b]
                               ELSE [held[b] EXCEPT !.idx = held[b].idx + d]]
                /\ \A b \in Callers :
                      held'[b].idx \in -MaxShift..(MaxLength - 1 + MaxShift)
       \/ UNCHANGED <<length, held>>
    /\ Goto(c, "unlock")
    /\ UNCHANGED <<kind, count, ckarray, calendar, op, want, ret, tmp, raced>>

(* Faulty variant: one more section instead of g more slots.               *)
StoreAddOne(c) ==
    /\ pc[c] = "addstore"
    /\ count' = (tmp[c] + 1) % CountModulus
    /\ tmp' = [tmp EXCEPT ![c] = 0]
    /\ Goto(c, "unlock")
    /\ UNCHANGED <<kind, length, ckarray, calendar, op, want, held, ret, raced>>

(* this->count += g                                                        *)
StoreAdd(c) ==
    /\ pc[c] = "addstore"
    /\ count' = (tmp[c] + want[c]) % CountModulus
    /\ tmp' = [tmp EXCEPT ![c] = 0]
    /\ Goto(c, "unlock")
    /\ UNCHANGED <<kind, length, ckarray, calendar, op, want, held, ret, raced>>

(* this->calendar = 0; return ret                                          *)
Unlock(c) ==
    /\ pc[c] = "unlock"
    /\ calendar' = 0
    /\ held' = [held EXCEPT ![c] = ret[c]]
    /\ ret' = [ret EXCEPT ![c] = NoSection]
    /\ want' = [want EXCEPT ![c] = 0]
    /\ Goto(c, "idle")
    /\ UNCHANGED <<kind, length, count, ckarray, op, tmp, raced>>

Call(c) == CallAlloc(c) \/ CallKptralloc(c) \/ CallFree(c) \/ CallRealloc(c)

Step(c) ==
    \/ StreamInit(c) \/ Backup(c) \/ Clear(c) \/ LoadCount(c) \/ StoreSub(c)
    \/ Scan(c) \/ Grow(c) \/ StoreAdd(c) \/ Unlock(c)

Next == \E c \in Callers : Call(c) \/ Step(c)

Spec == Init /\ [][Next]_vars
-----------------------------------------------------------------------------
Locked(c) ==
    \/ pc[c] \in {"backup", "scan", "grow", "addload", "addstore", "unlock"}
    \/ pc[c] \in {"clear", "subload", "substore"} /\ op[c] = "realloc"

Quiet == \A c \in Callers : pc[c] = "idle"

(* What a function of the callers adds up to.                              *)
Total(f) == MapThenSumSet(LAMBDA c : f[c], Callers)

(* The calendar is taken exactly while some caller is inside alloc or      *)
(* realloc, and at most one is: the free that realloc does inside and the  *)
(* free that anyone may do outside change nothing about that.              *)
MutualExclusion ==
    /\ calendar = 255 <=> \E c \in Callers : Locked(c)
    /\ \A c, d \in Callers : Locked(c) /\ Locked(d) => c = d

(* GDT_LOW_ENTRIES marks are set and stay set, although free clears marks  *)
(* without the lock and realloc does both; but since alloc counts pointers *)
(* and a GDT entry is two, they keep alloc away from half as many entries  *)
(* only: no section reaches below entry GDT_LOW_ENTRIES / 2.  (The rest of *)
(* the reserved entries, flat segments among them, can be handed out.)     *)
LowerHalfReserved ==
    kind = "gdt" =>
        /\ \A i \in Reserved : ckarray[i] = 1
        /\ \A c \in Callers : held[c].len > 0 => held[c].idx >= LowEntries \div 2

(* Once no two updates of count have overlapped, count is what is handed   *)
(* out whenever nobody is inside, failed allocations, failed reallocs and  *)
(* growth included.  kptralloc is the exception: it counts one slot for    *)
(* what kptrfree gives back as many.                                       *)
CountExact ==
    ~raced /\ kind # "kptr" /\ Quiet =>
        count = Total([c \in Callers |-> held[c].len]) % CountModulus

(* What the declaration says of count, "currently occupied slots", asked   *)
(* only where no two updates of it have overlapped.                        *)
CountIsOccupied ==
    ~raced /\ Quiet =>
        count = Cardinality(UNION {held[c].idx..(held[c].idx + held[c].len - 1)
                                   : c \in Callers})
=============================================================================
