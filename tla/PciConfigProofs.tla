-------------------------- MODULE PciConfigProofs ---------------------------
(***************************************************************************)
(* What is proved of PciConfig for any number of processors, devices and   *)
(* registers, any register contents and arrays of any bounded length.      *)
(***************************************************************************)
EXTENDS PciConfig, TLAPS

(* A processor is inside write or read exactly when it carries arguments,  *)
(* and its index has not run past them; at the data port it is on one of   *)
(* their elements.                                                         *)
Progress ==
    \A p \in Processors :
        /\ pc[p] = "idle" <=> call[p] = NoCall
        /\ pc[p] # "idle" => g[p] <= call[p].count
        /\ pc[p] = "data" => g[p] < call[p].count

(* MutualExclusion alone says nothing of the latch, and PortPairing is     *)
(* kept by a step of another processor only because that processor cannot  *)
(* be inside as well; Progress makes offsets[g] an element of the array.   *)
IInv == TypeOK /\ Progress /\ MutualExclusion /\ PortPairing

(* An element of a call names an existing register and holds a value.      *)
LEMMA CallElements ==
    ASSUME NEW c \in Calls, NEW i \in Nat, i < c.count
    PROVE  /\ Named(c, i) \in Registers
           /\ c.buf[i] \in Values
           /\ c.count \in 0..MaxCount
  <1>1. PICK n \in 0..MaxCount :
           c \in [op : {"write", "read"}, dev : Devices, count : {n},
                  offsets : Arrays(Offsets, n), buf : Arrays(Values, n)]
    BY DEF Calls
  <1>2. i \in 0..(n - 1)
    BY <1>1, MaxCountAssumption
  <1>3. c.offsets[i] \in Offsets /\ c.buf[i] \in Values
    BY <1>1, <1>2 DEF Arrays
  <1>. QED
    BY <1>1, <1>3 DEF Named, Registers

(* A call has a count within the bound and its operation is one of two.    *)
LEMMA CallFields ==
    ASSUME NEW c \in Calls
    PROVE  c.count \in 0..MaxCount /\ c.op \in {"write", "read"}
  BY DEF Calls

(* Storing what was read into an element of the destination leaves the     *)
(* arguments well formed and touches nothing else of them.                 *)
LEMMA ReadIntoCall ==
    ASSUME NEW c \in Calls, NEW i \in Nat, NEW v \in Values
    PROVE  LET d == [c EXCEPT !.buf = [c.buf EXCEPT ![i] = v]] IN
           /\ d \in Calls
           /\ d.op = c.op /\ d.dev = c.dev
           /\ d.count = c.count /\ d.offsets = c.offsets
  <1>1. PICK n \in 0..MaxCount :
           c \in [op : {"write", "read"}, dev : Devices, count : {n},
                  offsets : Arrays(Offsets, n), buf : Arrays(Values, n)]
    BY DEF Calls
  <1>2. [c.buf EXCEPT ![i] = v] \in Arrays(Values, n)
    BY <1>1 DEF Arrays
  <1>3. [c EXCEPT !.buf = [c.buf EXCEPT ![i] = v]] \in
           [op : {"write", "read"}, dev : Devices, count : {n},
            offsets : Arrays(Offsets, n), buf : Arrays(Values, n)]
    BY <1>1, <1>2
  <1>. QED
    BY <1>1, <1>3 DEF Calls

(* NoCall is not the arguments of a call.                                  *)
LEMMA NoCallIsNone == NoCall \notin Calls
  <1>. SUFFICES ASSUME NoCall \in Calls PROVE FALSE
    OBVIOUS
  <1>1. PICK n \in 0..MaxCount :
           NoCall \in [op : {"write", "read"}, dev : Devices, count : {n},
                       offsets : Arrays(Offsets, n), buf : Arrays(Values, n)]
    BY DEF Calls
  <1>2. Arrays(Offsets, n) \subseteq UNION {[0..(m - 1) -> Offsets] : m \in 0..MaxCount}
    BY DEF Arrays
  <1>3. Arrays(Values, n) \subseteq UNION {[0..(m - 1) -> Values] : m \in 0..MaxCount}
    BY DEF Arrays
  <1>. QED
    BY <1>1, <1>2, <1>3, NoCallAssumption
-----------------------------------------------------------------------------
LEMMA InitIInv == Init => IInv
  BY MaxCountAssumption
  DEF Init, RegInit, IInv, TypeOK, Progress, MutualExclusion, PortPairing, Inside

LEMMA StepIInv == IInv /\ [Next]_vars => IInv'
  <1>. SUFFICES ASSUME IInv, [Next]_vars PROVE IInv'
    OBVIOUS
  <1>. USE MaxCountAssumption, NoCallIsNone DEF IInv
  <1>1. ASSUME NEW p \in Processors, Call(p) PROVE IInv'
    <2>1. PICK c \in Calls : call' = [call EXCEPT ![p] = c]
      BY <1>1 DEF Call
    <2>2. c.count \in 0..MaxCount
      BY CallFields
    <2>3. TypeOK'
      BY <1>1, <2>1 DEF Call, TypeOK
    <2>4. Progress'
      BY <1>1, <2>1, <2>2 DEF Call, TypeOK, Progress
    <2>5. MutualExclusion'
      BY <1>1, <2>1 DEF Call, TypeOK, MutualExclusion, Inside
    <2>6. PortPairing'
      BY <1>1, <2>1 DEF Call, TypeOK, PortPairing
    <2>. QED
      BY <2>3, <2>4, <2>5, <2>6
  <1>2. ASSUME NEW p \in Processors, StreamInit(p) PROVE IInv'
    <2>1. TypeOK'
      BY <1>2 DEF StreamInit, TypeOK
    <2>2. Progress'
      BY <1>2 DEF StreamInit, TypeOK, Progress
    <2>3. MutualExclusion'
      BY <1>2 DEF StreamInit, TypeOK, MutualExclusion, Inside
    <2>4. PortPairing'
      BY <1>2 DEF StreamInit, TypeOK, PortPairing
    <2>. QED
      BY <2>1, <2>2, <2>3, <2>4
  <1>3. ASSUME NEW p \in Processors, OutAddress(p) PROVE IInv'
    <2>1. call[p] \in Calls /\ g[p] \in Nat /\ g[p] < call[p].count
      BY <1>3 DEF OutAddress, TypeOK, Progress
    <2>2. Named(call[p], g[p]) \in Registers
      BY <2>1, CallElements
    <2>3. TypeOK'
      BY <1>3, <2>2 DEF OutAddress, TypeOK
    <2>4. Progress'
      BY <1>3 DEF OutAddress, TypeOK, Progress
    <2>5. MutualExclusion'
      BY <1>3 DEF OutAddress, TypeOK, MutualExclusion, Inside
    <2>6. PortPairing'
      BY <1>3 DEF OutAddress, TypeOK, MutualExclusion, Inside, PortPairing
    <2>. QED
      BY <2>3, <2>4, <2>5, <2>6
  <1>4. ASSUME NEW p \in Processors, OutData(p) PROVE IInv'
    <2>1. call[p] \in Calls /\ g[p] \in Nat /\ g[p] < call[p].count
      BY <1>4 DEF OutData, TypeOK, Progress
    <2>2. call[p].buf[g[p]] \in Values /\ call[p].count \in 0..MaxCount
      BY <2>1, CallElements
    <2>3. Latch(cf8, space[cf8], call[p].buf[g[p]]) \in Values
      BY <2>2, LatchAssumption DEF TypeOK, Registers, Align
    <2>4. TypeOK'
      BY <1>4, <2>1, <2>2, <2>3 DEF OutData, TypeOK
    <2>5. Progress'
      BY <1>4, <2>1, <2>2 DEF OutData, TypeOK, Progress
    <2>6. MutualExclusion'
      BY <1>4 DEF OutData, TypeOK, MutualExclusion, Inside
    <2>7. PortPairing'
      BY <1>4 DEF OutData, TypeOK, PortPairing
    <2>. QED
      BY <2>4, <2>5, <2>6, <2>7
  <1>5. ASSUME NEW p \in Processors, InData(p) PROVE IInv'
    <2>1. call[p] \in Calls /\ g[p] \in Nat /\ g[p] < call[p].count
      BY <1>5 DEF InData, TypeOK, Progress
    <2>2. call[p].count \in 0..MaxCount /\ space[cf8] \in Values
      BY <2>1, CallElements DEF TypeOK
    <2>. DEFINE d == [call[p] EXCEPT !.buf = [call[p].buf EXCEPT ![g[p]] = space[cf8]]]
    <2>3. d \in Calls /\ d.count = call[p].count
      BY <2>1, <2>2, ReadIntoCall
    <2>. HIDE DEF d
    <2>4. call' = [call EXCEPT ![p] = d]
      BY <1>5 DEF InData, d
    <2>5. TypeOK'
      BY <1>5, <2>1, <2>2, <2>3, <2>4 DEF InData, TypeOK
    <2>6. Progress'
      BY <1>5, <2>1, <2>2, <2>3, <2>4 DEF InData, TypeOK, Progress
    <2>7. MutualExclusion'
      BY <1>5 DEF InData, TypeOK, MutualExclusion, Inside
    <2>8. PortPairing'
      BY <1>5, <2>4 DEF InData, TypeOK, MutualExclusion, Inside, PortPairing
    <2>. QED
      BY <2>5, <2>6, <2>7, <2>8
  <1>6. ASSUME NEW p \in Processors, Release(p) PROVE IInv'
    <2>1. TypeOK'
      BY <1>6 DEF Release, TypeOK
    <2>2. Progress'
      BY <1>6 DEF Release, TypeOK, Progress
    <2>3. MutualExclusion'
      BY <1>6 DEF Release, TypeOK, MutualExclusion, Inside
    <2>4. PortPairing'
      BY <1>6 DEF Release, TypeOK, PortPairing
    <2>. QED
      BY <2>1, <2>2, <2>3, <2>4
  <1>7. CASE UNCHANGED vars
    BY <1>7 DEF vars, TypeOK, Progress, MutualExclusion, PortPairing, Inside
  <1>. QED
    BY <1>1, <1>2, <1>3, <1>4, <1>5, <1>6, <1>7 DEF Next, Access

(* The strengthened invariant holds in every reachable state.              *)
THEOREM Invariance == Spec => []IInv
  BY InitIInv, StepIInv, PTL DEF Spec

(* Every variable keeps its type; in particular the latch always names an  *)
(* existing double word, whatever byte offset a driver asked for.          *)
THEOREM TypeCorrect == Spec => []TypeOK
  <1>1. IInv => TypeOK
    BY DEF IInv
  <1>. QED
    BY <1>1, Invariance, PTL

(* The calendar of PciKing admits one processor at a time.                 *)
THEOREM Exclusive == Spec => []MutualExclusion
  <1>1. IInv => MutualExclusion
    BY DEF IInv
  <1>. QED
    BY <1>1, Invariance, PTL

(* The data port is only touched while the latch holds the toucher's own   *)
(* address.                                                                *)
THEOREM Pairing == Spec => []PortPairing
  <1>1. IInv => PortPairing
    BY DEF IInv
  <1>. QED
    BY <1>1, Invariance, PTL

(* Only a write that named a register changes it, and to its own element.  *)
THEOREM WritesHitNamed == Spec => OnlyNamedRegisters
  <1>. DEFINE Hit == \A r \in Registers :
          space'[r] # space[r] =>
             \E p \in Processors :
                /\ pc[p] = "data"
                /\ call[p].op = "write"
                /\ r = Named(call[p], g[p])
                /\ space'[r] = Latch(r, space[r], call[p].buf[g[p]])
  <1>1. IInv /\ [Next]_vars => [Hit]_vars
    <2>. SUFFICES ASSUME IInv, Next PROVE Hit
      OBVIOUS
    <2>1. ASSUME NEW p \in Processors, OutData(p) PROVE Hit
      BY <2>1 DEF OutData, IInv, TypeOK, PortPairing
    <2>2. ASSUME NEW p \in Processors,
                 Call(p) \/ StreamInit(p) \/ OutAddress(p) \/ InData(p) \/ Release(p)
          PROVE  Hit
      BY <2>2 DEF Call, StreamInit, OutAddress, InData, Release
    <2>. QED
      BY <2>1, <2>2 DEF Next, Access
  <1>. QED
    BY <1>1, Invariance, PTL DEF Spec, OnlyNamedRegisters

(* Every step under the lock is a step of the atomic registers, or one     *)
(* they do not see.                                                        *)
THEOREM ImplementsRegisters == Spec => AtomicRegisters
  <1>1. Init => RegInit
    BY DEF Init
  <1>2. IInv /\ [Next]_vars => [RegNext]_regVars
    <2>. SUFFICES ASSUME IInv, [Next]_vars PROVE [RegNext]_regVars
      OBVIOUS
    <2>. USE DEF IInv, regVars
    <2>1. ASSUME NEW p \in Processors, Call(p) PROVE Request(p)
      BY <2>1 DEF Call, Progress, Request
    <2>2. ASSUME NEW p \in Processors, StreamInit(p) \/ OutAddress(p)
          PROVE  UNCHANGED regVars
      BY <2>2 DEF StreamInit, OutAddress
    <2>3. ASSUME NEW p \in Processors, OutData(p) PROVE WriteElement(p)
      BY <2>3 DEF OutData, Progress, PortPairing, WriteElement
    <2>4. ASSUME NEW p \in Processors, InData(p) PROVE ReadElement(p)
      BY <2>4, Zenon DEF InData, Progress, PortPairing, ReadElement
    <2>5. ASSUME NEW p \in Processors, Release(p) PROVE Return(p)
      BY <2>5 DEF Release, Progress, Return
    <2>6. CASE UNCHANGED vars
      BY <2>6 DEF vars
    <2>. QED
      BY <2>1, <2>2, <2>3, <2>4, <2>5, <2>6 DEF Next, Access, RegNext
  <1>. QED
    BY <1>1, <1>2, Invariance, PTL DEF Spec, AtomicRegisters, RegSpec
=============================================================================
