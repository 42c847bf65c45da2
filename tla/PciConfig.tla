----------------------------- MODULE PciConfig ------------------------------
(***************************************************************************)
(* The runtime interface to PCI configuration space: PciKing::write and    *)
(* PciKing::read of drivers/pci.cpp.  The hardware offers one pair of      *)
(* ports for the whole machine: a double word written to 0xcf8 latches an  *)
(* address, and 0xcfc is then a window on that register.  An access is     *)
(* therefore two instructions, and the lock of the PciKing (its calendar,  *)
(* taken by King::stream_init) is what keeps them together.                *)
(***************************************************************************)
EXTENDS PciRegisters

VARIABLES calendar,  \* the lock byte of PciKing: 0 free, 255 taken
          cf8,       \* the address latched by the last write to 0xcf8
          pc         \* per processor, where it is inside write or read

vars == <<space, call, g, calendar, cf8, pc>>

TypeOK ==
    /\ space \in [Registers -> Values]
    /\ call \in [Processors -> Calls \cup {NoCall}]
    /\ g \in [Processors -> 0..MaxCount]
    /\ calendar \in {0, 255}
    /\ cf8 \in Registers
    /\ pc \in [Processors -> {"idle", "lock", "loop", "data"}]
-----------------------------------------------------------------------------
(* The firmware leaves an arbitrary address in the latch.                  *)
Init ==
    /\ RegInit
    /\ calendar = 0
    /\ cf8 \in Registers
    /\ pc = [p \in Processors |-> "idle"]

(* A driver calls write or read with its device and arrays.                *)
Call(p) ==
    /\ pc[p] = "idle"
    /\ \E c \in Calls : call' = [call EXCEPT ![p] = c]
    /\ g' = [g EXCEPT ![p] = 0]
    /\ pc' = [pc EXCEPT ![p] = "lock"]
    /\ UNCHANGED <<space, calendar, cf8>>

(* Faulty variant: the result of the exchange is not looked at.            *)
StreamInitNoWait(p) ==
    /\ pc[p] = "lock"
    /\ calendar' = 255
    /\ pc' = [pc EXCEPT ![p] = "loop"]
    /\ UNCHANGED <<space, call, g, cf8>>

(* this->stream_init: the compare-and-exchange that finds the byte zero.   *)
StreamInit(p) ==
    /\ pc[p] = "lock"
    /\ calendar = 0
    /\ calendar' = 255
    /\ pc' = [pc EXCEPT ![p] = "loop"]
    /\ UNCHANGED <<space, call, g, cf8>>

(* Faulty variant: the offset goes out without >>2<<2.                     *)
OutAddressUnaligned(p) ==
    /\ pc[p] = "loop"
    /\ g[p] < call[p].count
    /\ cf8' = <<call[p].dev, call[p].offsets[g[p]]>>
    /\ pc' = [pc EXCEPT ![p] = "data"]
    /\ UNCHANGED <<space, call, g, calendar>>

(* Faulty variant: the address is written once, before the loop.           *)
OutAddressHoisted(p) ==
    /\ pc[p] = "loop"
    /\ g[p] < call[p].count
    /\ cf8' = IF g[p] = 0 THEN Named(call[p], 0) ELSE cf8
    /\ pc' = [pc EXCEPT ![p] = "data"]
    /\ UNCHANGED <<space, call, g, calendar>>

(* outd(mask,0xcf8)                                                        *)
OutAddress(p) ==
    /\ pc[p] = "loop"
    /\ g[p] < call[p].count
    /\ cf8' = Named(call[p], g[p])
    /\ pc' = [pc EXCEPT ![p] = "data"]
    /\ UNCHANGED <<space, call, g, calendar>>

(* outd(source[g],0xcfc)                                                   *)
OutData(p) ==
    /\ pc[p] = "data"
    /\ call[p].op = "write"
    /\ space' = [space EXCEPT ![cf8] =
                    Latch(cf8, space[cf8], call[p].buf[g[p]])]
    /\ g' = [g EXCEPT ![p] = g[p] + 1]
    /\ pc' = [pc EXCEPT ![p] = "loop"]
    /\ UNCHANGED <<call, calendar, cf8>>

(* destination[g] = ind(0xcfc)                                             *)
InData(p) ==
    /\ pc[p] = "data"
    /\ call[p].op = "read"
    /\ call' = [call EXCEPT ![p] =
                   [call[p] EXCEPT !.buf =
                       [call[p].buf EXCEPT ![g[p]] = space[cf8]]]]
    /\ g' = [g EXCEPT ![p] = g[p] + 1]
    /\ pc' = [pc EXCEPT ![p] = "loop"]
    /\ UNCHANGED <<space, calendar, cf8>>

(* this->calendar = 0, and the return to the driver.                       *)
Release(p) ==
    /\ pc[p] = "loop"
    /\ g[p] = call[p].count
    /\ calendar' = 0
    /\ call' = [call EXCEPT ![p] = NoCall]
    /\ pc' = [pc EXCEPT ![p] = "idle"]
    /\ UNCHANGED <<space, g, cf8>>

Access(p) == StreamInit(p) \/ OutAddress(p) \/ OutData(p) \/ InData(p) \/ Release(p)

Next == \E p \in Processors : Call(p) \/ Access(p)

Spec == Init /\ [][Next]_vars
-----------------------------------------------------------------------------
Inside(p) == pc[p] \in {"loop", "data"}

(* The calendar is taken exactly while some processor is between           *)
(* stream_init and `calendar = 0`, and never two processors are.           *)
MutualExclusion ==
    /\ calendar = 255 <=> \E p \in Processors : Inside(p)
    /\ \A p, q \in Processors : Inside(p) /\ Inside(q) => p = q

(* When a processor is about to touch 0xcfc the latch still holds the      *)
(* address it wrote: the double word holding offsets[g] of its own device, *)
(* whatever the others did in between.                                     *)
PortPairing ==
    \A p \in Processors :
        pc[p] = "data" => cf8 = Named(call[p], g[p])

(* A step changes a register only if some processor in write asked for     *)
(* that register as its current element, and the register then holds what  *)
(* the device makes of that element.                                       *)
OnlyNamedRegisters ==
    [][\A r \in Registers :
          space'[r] # space[r] =>
             \E p \in Processors :
                /\ pc[p] = "data"
                /\ call[p].op = "write"
                /\ r = Named(call[p], g[p])
                /\ space'[r] = Latch(r, space[r], call[p].buf[g[p]])]_vars

(* The two-instruction accesses under the lock implement PciRegisters:     *)
(* every element of every call is one atomic access to the register it     *)
(* names, in the order of the arrays, and the caller's destination ends up *)
(* with what those registers held.  The mapping is the identity: the lock, *)
(* the latch and pc are what the implementation adds.                      *)
AtomicRegisters == RegSpec
=============================================================================
