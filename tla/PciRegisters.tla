---------------------------- MODULE PciRegisters ----------------------------
(***************************************************************************)
(* What PciKing::write and PciKing::read (drivers/pci.cpp) promise to a    *)
(* device driver: the elements of the caller's arrays are applied in       *)
(* order, each one a single atomic access to the register that offsets[g]  *)
(* names on the caller's own device.  There is no port pair and no lock    *)
(* here; PciConfig implements this specification with both.                *)
(***************************************************************************)
EXTENDS Naturals

CONSTANTS Processors,      \* the processors that run kernel code
          Devices,         \* bus/device/function triples
          Offsets,         \* byte offsets into configuration space
          Values,          \* contents of a register
          MaxCount,        \* bound: longest array a caller passes
          Latch(_, _, _),  \* what a register holds after a write (hardware)
          NoCall           \* a processor outside write and read

ASSUME MaxCountAssumption == MaxCount \in Nat
ASSUME OffsetsAssumption == Offsets \subseteq Nat
ASSUME LatchAssumption ==
    \A r \in Devices \X {(o \div 4) * 4 : o \in Offsets}, old, new \in Values :
        Latch(r, old, new) \in Values
ASSUME NoCallAssumption ==
    NoCall \notin [op : {"write", "read"}, dev : Devices, count : 0..MaxCount,
                   offsets : UNION {[0..(n - 1) -> Offsets] : n \in 0..MaxCount},
                   buf : UNION {[0..(n - 1) -> Values] : n \in 0..MaxCount}]

VARIABLES space,   \* the contents of every configuration register
          call,    \* per processor, the arguments of its call
          g        \* per processor, the element it is at

regVars == <<space, call, g>>

(* offsets[g]>>2<<2: the double word that holds the byte.                  *)
Align(o) == (o \div 4) * 4

Registers == Devices \X {Align(o) : o \in Offsets}

Arrays(S, n) == [0..(n - 1) -> S]

(* The arguments of write and read.  buf is `source` for a write, and for  *)
(* a read `destination` with whatever the caller's memory held before.     *)
Calls ==
    UNION {[op : {"write", "read"}, dev : Devices, count : {n},
            offsets : Arrays(Offsets, n), buf : Arrays(Values, n)]
           : n \in 0..MaxCount}

(* The register that element i of call c names.                            *)
Named(c, i) == <<c.dev, Align(c.offsets[i])>>
-----------------------------------------------------------------------------
RegInit ==
    /\ space \in [Registers -> Values]
    /\ call = [p \in Processors |-> NoCall]
    /\ g = [p \in Processors |-> 0]

Request(p) ==
    /\ call[p] = NoCall
    /\ \E c \in Calls : call' = [call EXCEPT ![p] = c]
    /\ g' = [g EXCEPT ![p] = 0]
    /\ UNCHANGED space

WriteElement(p) ==
    /\ call[p] # NoCall
    /\ call[p].op = "write"
    /\ g[p] < call[p].count
    /\ LET r == Named(call[p], g[p]) IN
       space' = [space EXCEPT ![r] = Latch(r, space[r], call[p].buf[g[p]])]
    /\ g' = [g EXCEPT ![p] = g[p] + 1]
    /\ UNCHANGED call

ReadElement(p) ==
    /\ call[p] # NoCall
    /\ call[p].op = "read"
    /\ g[p] < call[p].count
    /\ call' = [call EXCEPT ![p] =
                   [call[p] EXCEPT !.buf =
                       [call[p].buf EXCEPT ![g[p]] = space[Named(call[p], g[p])]]]]
    /\ g' = [g EXCEPT ![p] = g[p] + 1]
    /\ UNCHANGED space

Return(p) ==
    /\ call[p] # NoCall
    /\ g[p] = call[p].count
    /\ call' = [call EXCEPT ![p] = NoCall]
    /\ UNCHANGED <<space, g>>

RegNext ==
    \E p \in Processors :
        Request(p) \/ WriteElement(p) \/ ReadElement(p) \/ Return(p)

RegSpec == RegInit /\ [][RegNext]_regVars
=============================================================================
