-------------------------- MODULE RegDevice_proofs --------------------------
(***************************************************************************)
(* Proofs about the register drivers, for any range and any words.          *)
(***************************************************************************)
EXTENDS RegDevice, TLAPS

\* Type correctness for any number of programs; with it, that a position is
\* never negative, so that read and write stay within the range (lseek).
THEOREM TypeCorrect == Spec => []TypeOK
<1> USE RegDeviceAssumption DEF TypeOK, Index, mapVars
<1>1. Init => TypeOK
  BY DEF Init
<1>2. TypeOK /\ [Next]_vars => TypeOK'
  <2> SUFFICES ASSUME TypeOK, [Next]_vars PROVE TypeOK'
    OBVIOUS
  <2>1. ASSUME NEW f \in Files, open(f) PROVE TypeOK'
    BY <2>1 DEF open
  <2>2. ASSUME NEW f \in Files, release(f) PROVE TypeOK'
    BY <2>2 DEF release, UseMapping
  <2>3. ASSUME NEW f \in Files, read(f) PROVE TypeOK'
    <3>1. Index32(f) \in Nat /\ Index32(f) < SIZE BY <2>3 DEF read, Index32
    <3> QED BY <2>3, <3>1 DEF read, UseMapping
  <2>4. ASSUME NEW f \in Files, NEW v \in Values, write(f, v) PROVE TypeOK'
    <3>1. Index32(f) \in Nat /\ Index32(f) < SIZE BY <2>4 DEF write, Index32
    <3> QED BY <2>4, <3>1 DEF write, UseMapping
  <2>5. ASSUME NEW f \in Files, NEW off \in Offsets, NEW whence \in {"set", "cur", "end"},
               lseek(f, off, whence)
        PROVE TypeOK'
    <3>1. NewPos(f, off)[whence] \in Nat
      BY <2>5 DEF lseek, NewPos
    <3> QED
      BY <2>5, <3>1 DEF lseek
  <2>6. CASE UNCHANGED vars
    BY <2>6 DEF vars
  <2> QED
    BY <2>1, <2>2, <2>3, <2>4, <2>5, <2>6 DEF Next, BeyondRange
<1> QED
  BY <1>1, <1>2, PTL DEF Spec

\* Programs that take turns find the device mapped whenever they have it open,
\* over any sequence of opens and closes, and leave no mapping behind.
THEOREM MappedInTurns ==
    ASSUME ~Sharing PROVE Spec => []MappedWhileOpen
<1> DEFINE IInv == /\ MappedWhileOpen /\ isOpen \subseteq Files
                   /\ isOpen # {} => live = {virt} /\ \E f \in Files : isOpen = {f}
<1> USE RegDeviceAssumption DEF MappedWhileOpen, mapVars
<1>1. Init => IInv
  BY DEF Init
<1>2. IInv /\ [Next]_vars => IInv'
  <2> SUFFICES ASSUME IInv, [Next]_vars PROVE IInv'
    OBVIOUS
  <2>1. ASSUME NEW f \in Files, open(f), isOpen = {} PROVE IInv'
    BY <2>1 DEF open
  <2>2. ASSUME NEW f \in Files, release(f) PROVE IInv'
    <3>1. isOpen = {f} /\ live = {virt}
      BY <2>2 DEF release
    <3> QED
      BY <2>2, <3>1 DEF release, UseMapping
  <2>3. ASSUME NEW f \in Files, read(f) PROVE IInv'
    BY <2>3 DEF read, UseMapping
  <2>4. ASSUME NEW f \in Files, NEW v \in Values, write(f, v) PROVE IInv'
    BY <2>4 DEF write, UseMapping
  <2>5. ASSUME NEW f \in Files, NEW off \in Offsets, NEW whence \in {"set", "cur", "end"},
               lseek(f, off, whence)
        PROVE IInv'
    BY <2>5 DEF lseek
  <2>6. CASE UNCHANGED vars
    BY <2>6 DEF vars
  <2> QED
    BY <2>1, <2>2, <2>3, <2>4, <2>5, <2>6 DEF Next, BeyondRange
<1> QED
  BY <1>1, <1>2, PTL DEF Spec
=============================================================================
