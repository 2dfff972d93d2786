--------------------------- MODULE IrqDriver_proofs ---------------------------
(***************************************************************************)
(* Proofs about the interrupt drivers, for any set of reading threads.      *)
(***************************************************************************)
EXTENDS IrqDriver, TLAPS

\* Type correctness of the driver's state (dataIrq.c, irq.c).
THEOREM TypeCorrect == Spec => []TypeOK
<1>1. Init => TypeOK
  BY DEF Init, TypeOK, Places
<1>2. TypeOK /\ [Next]_vars => TypeOK'
  <2> SUFFICES ASSUME TypeOK, [Next]_vars PROVE TypeOK'
    OBVIOUS
  <2> USE DEF TypeOK, Places
  <2>1. CASE Edge
    BY <2>1 DEF Edge
  <2>2. CASE Open
    BY <2>2 DEF Open
  <2>3. CASE Close
    BY <2>3 DEF Close
  <2>4. CASE IRQ
    BY <2>4 DEF IRQ
  <2>5. CASE Wake
    BY <2>5 DEF Wake
  <2>6. ASSUME NEW t \in Readers, Signal(t) \/ Read(t) \/ ReadStep(t)
        PROVE  TypeOK'
    <3>1. CASE Signal(t)
      BY <3>1 DEF Signal
    <3>2. CASE Read(t)
      BY <3>2 DEF Read, Goto
    <3>3. CASE Test(t)
      BY <3>3 DEF Test, Goto
    <3>4. CASE Prepare(t)
      BY <3>4 DEF Prepare, Goto
    <3>5. CASE Recheck(t)
      BY <3>5 DEF Recheck, Goto
    <3>6. CASE Sleep(t)
      BY <3>6 DEF Sleep, Goto
    <3>7. CASE Clear(t)
      BY <3>7 DEF Clear, Goto
    <3> QED
      BY <2>6, <3>1, <3>2, <3>3, <3>4, <3>5, <3>6, <3>7 DEF ReadStep
  <2>7. CASE UNCHANGED vars
    BY <2>7 DEF vars
  <2> QED
    BY <2>1, <2>2, <2>3, <2>4, <2>5, <2>6, <2>7 DEF Next
<1> QED
  BY <1>1, <1>2, PTL DEF Spec

\* No wake-up is lost between data_irq_read and the handler, whatever the
\* number of readers: NoLostWakeup is inductive relative to the types.
THEOREM NoWakeupIsLost == Spec => []NoLostWakeup
<1>1. Init => NoLostWakeup
  BY DEF Init, NoLostWakeup
<1>2. TypeOK /\ NoLostWakeup /\ [Next]_vars => NoLostWakeup'
  <2> SUFFICES ASSUME TypeOK, NoLostWakeup, [Next]_vars PROVE NoLostWakeup'
    OBVIOUS
  <2> USE DEF TypeOK, NoLostWakeup
  <2>1. CASE Edge \/ Open \/ Close
    BY <2>1 DEF Edge, Open, Close
  <2>2. CASE IRQ
    BY <2>2 DEF IRQ
  <2>3. CASE Wake
    BY <2>3 DEF Wake
  <2>4. ASSUME NEW t \in Readers, Signal(t) \/ Read(t) \/ ReadStep(t)
        PROVE  NoLostWakeup'
    <3>1. CASE Signal(t)
      BY <3>1 DEF Signal
    <3>2. CASE Read(t)
      BY <3>2 DEF Read, Goto
    <3>3. CASE Test(t)
      BY <3>3 DEF Test, Goto
    <3>4. CASE Prepare(t)
      BY <3>4 DEF Prepare, Goto
    <3>5. CASE Recheck(t)
      BY <3>5 DEF Recheck, Goto
    <3>6. CASE Sleep(t)
      BY <3>6 DEF Sleep, Goto
    <3>7. CASE Clear(t)
      BY <3>7 DEF Clear, Goto
    <3> QED
      BY <2>4, <3>1, <3>2, <3>3, <3>4, <3>5, <3>6, <3>7 DEF ReadStep
  <2>5. CASE UNCHANGED vars
    BY <2>5 DEF vars
  <2> QED
    BY <2>1, <2>2, <2>3, <2>4, <2>5 DEF Next
<1> QED
  BY <1>1, <1>2, TypeCorrect, PTL DEF Spec

\* Refinement: with one reading thread, as main.c has for each device, the
\* driver implements the one-place latch that the acquisition model uses.
\* ReturnIsDue carries the reason for a return from the wait to the clear.
THEOREM DriverImplementsLatch ==
    ASSUME \E r : Readers = {r}
    PROVE  Spec => LatchSpec
<1> USE DEF Latch!vars
<1>1. Reader \in Readers /\ \A t \in Readers : t = Reader
  <2>1. PICK r : Readers = {r}
    OBVIOUS
  <2>2. Reader \in Readers
    BY <2>1 DEF Reader
  <2> QED
    BY <2>1, <2>2
<1>2. Init => Latch!Init /\ ReturnIsDue
  BY <1>1 DEF Init, Latch!Init, ReturnIsDue
<1>3. TypeOK /\ ReturnIsDue /\ [Next]_vars
      => ReturnIsDue' /\ [Latch!Next]_(Latch!vars)
  <2> SUFFICES ASSUME TypeOK, ReturnIsDue, [Next]_vars
               PROVE  ReturnIsDue' /\ [Latch!Next]_(Latch!vars)
    OBVIOUS
  <2> USE <1>1 DEF TypeOK, ReturnIsDue, Latch!Next
  <2>1. CASE Edge
    BY <2>1 DEF Edge
  <2>2. CASE Open \/ Close
    BY <2>2 DEF Open, Close
  <2>3. CASE IRQ
    BY <2>3 DEF IRQ, Latch!Raise
  <2>4. CASE Wake
    BY <2>4 DEF Wake
  <2>5. ASSUME NEW t \in Readers, Signal(t) \/ Read(t) \/ ReadStep(t)
        PROVE  ReturnIsDue' /\ [Latch!Next]_(Latch!vars)
    <3> t = Reader
      BY <1>1
    <3>1. CASE Signal(t)
      BY <3>1 DEF Signal, Latch!Signal
    <3>2. CASE Read(t)
      BY <3>2 DEF Read, Goto, Latch!Read
    <3>3. CASE Test(t)
      BY <3>3 DEF Test, Goto
    <3>4. CASE Prepare(t)
      BY <3>4 DEF Prepare, Goto
    <3>5. CASE Recheck(t)
      BY <3>5 DEF Recheck, Goto
    <3>6. CASE Sleep(t)
      BY <3>6 DEF Sleep, Goto
    <3>7. CASE Clear(t)
      BY <3>7 DEF Clear, Goto, Latch!Return
    <3> QED
      BY <2>5, <3>1, <3>2, <3>3, <3>4, <3>5, <3>6, <3>7 DEF ReadStep
  <2>6. CASE UNCHANGED vars
    BY <2>6 DEF vars
  <2> QED
    BY <2>1, <2>2, <2>3, <2>4, <2>5, <2>6 DEF Next
<1> QED
  BY <1>2, <1>3, TypeCorrect, PTL DEF Spec, LatchSpec, Latch!Spec
=============================================================================
