-------------------------- MODULE Registers_proofs --------------------------
(***************************************************************************)
(* Proofs about the fields of registers (csr.c), for every word, field and  *)
(* value, and about RegWrite as the handlers of app.c use it.               *)
(***************************************************************************)
EXTENDS Registers, SequenceTheorems, TLAPS

\* A RegWrite leaves the bits outside its field as they were, whatever value it
\* is given: the value is masked.
LEMMA InsertIsolates ==
    ASSUME NEW w \in Words, NEW l \in Labels, NEW v \in Words
    PROVE /\ Insert(w, l, v) \in Words
          /\ Insert(w, l, v) \ GetRegMask(l) = w \ GetRegMask(l)
  BY DEF Insert, ShiftLeft, Words

\* The bits of a field, counted from its own first bit.
LEMMA ShiftInterval ==
    ASSUME NEW a \in Nat, NEW n \in Nat, NEW i \in Int
    PROVE i \in a .. a + n - 1 <=> i - a \in 0 .. n - 1
  OBVIOUS

\* A field that fits the register reads back as the value written, cut to the
\* width of the field (RegRead after RegWrite).
THEOREM ReadBack ==
    ASSUME NEW w \in Words, NEW l \in Labels, NEW v \in Words, l.shift + l.bitnum <= 32
    PROVE FieldOf(Insert(w, l, v), l) = v \cap 0 .. l.bitnum - 1
<1> DEFINE m == GetRegMask(l)
           s == ShiftLeft(v, l.shift)
<1>1. l.shift \in 0 .. 31 /\ l.bitnum \in 1 .. 32
  BY DEF Labels, Bits
<1>2. Insert(w, l, v) \cap m = s \cap m
  BY DEF Insert
<1>3. \A i \in Int : i \in s \cap m <=> i - l.shift \in v \cap 0 .. l.bitnum - 1
  <2>1. \A j \in v : j \in 0 .. 31
    BY DEF Words, Bits
  <2>2. ASSUME NEW i \in Int, i \in s \cap m PROVE i - l.shift \in v \cap 0 .. l.bitnum - 1
    <3>1. PICK j \in v : i = j + l.shift
      BY <2>2 DEF ShiftLeft
    <3>2. i - l.shift = j
      BY <3>1, <2>1, <1>1
    <3>3. i \in l.shift .. l.shift + l.bitnum - 1
      BY <2>2 DEF GetRegMask
    <3>4. i - l.shift \in 0 .. l.bitnum - 1
      <4>1. l.shift \in Nat /\ l.bitnum \in Nat
        BY <1>1
      <4> QED
        BY <4>1, <3>3, ShiftInterval
    <3> QED
      BY <3>2, <3>4
  <2>3. ASSUME NEW i \in Int, i - l.shift \in v \cap 0 .. l.bitnum - 1 PROVE i \in s \cap m
    <3>1. i = (i - l.shift) + l.shift
      BY <1>1
    <3>2. l.shift \in Nat /\ l.bitnum \in Nat
      BY <1>1
    <3>3. i \in l.shift .. l.shift + l.bitnum - 1
      BY <2>3, <3>2, ShiftInterval
    <3>4. i \in Bits
      BY <3>2, <3>3 DEF Bits
    <3> QED
      BY <2>3, <3>1, <3>3, <3>4 DEF ShiftLeft, GetRegMask
  <2> QED
    BY <2>2, <2>3
<1>4. FieldOf(Insert(w, l, v), l) = {i - l.shift : i \in {j \in s \cap m : j >= l.shift}}
  BY <1>2 DEF FieldOf, ShiftRight
<1>5. \A i \in s \cap m : i \in Int /\ i >= l.shift
  BY <1>1 DEF ShiftLeft, GetRegMask
<1>6. ASSUME NEW k, k \in {i - l.shift : i \in {j \in s \cap m : j >= l.shift}}
      PROVE k \in v \cap 0 .. l.bitnum - 1
  BY <1>6, <1>3, <1>5
<1>7. ASSUME NEW k, k \in v \cap 0 .. l.bitnum - 1
      PROVE k \in {i - l.shift : i \in {j \in s \cap m : j >= l.shift}}
  <2>1. k + l.shift \in Int /\ (k + l.shift) - l.shift = k /\ k + l.shift >= l.shift
    BY <1>7, <1>1
  <2>2. k + l.shift \in s \cap m
    BY <2>1, <1>3, <1>7
  <2> QED
    BY <2>1, <2>2
<1> QED
  BY <1>4, <1>6, <1>7

-----------------------------------------------------------------------------

\* What the handlers write are calls of RegWrite with fields of the 14 registers,
\* and of SetDataToRam with a code that fits.
LEMMA HandlerCalls ==
    ASSUME NEW c \in Ini, NEW s \in Nat
    PROVE StartWrites(c, s) \in Seq(Calls) /\ StopWrites \in Seq(Calls)
<1>1. ASSUME NEW l \in Labels, NEW n PROVE Write(l, n) \in Calls
  BY DEF Write, Calls, Word, Words
<1>2. /\ {CSR_C_TO_IO_CMD, CSR_TRANS_EN, CSR_REC_EN, CSR_SYNC_MODE} \subseteq Labels
      /\ {CSR_FLT_SEL, CSR_FLL_SCALE_SET, CSR_INPUT_SEL, CSR_CODE_LENGTH} \subseteq Labels
      /\ {CSR_CODE_CLK_CYCLES, CSR_T_START, CSR_T_DELTA, CSR_T_ACQ} \subseteq Labels
  BY DEF Labels, Bits, Label, CSR_C_TO_IO_CMD, CSR_TRANS_EN, CSR_REC_EN, CSR_SYNC_MODE,
         CSR_FLT_SEL, CSR_FLL_SCALE_SET, CSR_INPUT_SEL, CSR_CODE_LENGTH,
         CSR_CODE_CLK_CYCLES, CSR_T_START, CSR_T_DELTA, CSR_T_ACQ
<1>3. [op |-> "SetDataToRam", n |-> c.SequenceLength] \in Calls
  BY DEF Calls, Ini
<1>4. StopWrites \in Seq(Calls)
  BY <1>1, <1>2 DEF StopWrites
<1>5. SetSampleRate(c.AdcSamplingRates) \in Seq(Calls)
  BY <1>1, <1>2 DEF SetSampleRate
<1>6. Configuration(c, s) \in Seq(Calls)
  <2> DEFINE p == <<Write(CSR_INPUT_SEL, GetRealData(s_InputSouce, c.InputSource)),
                    Write(CSR_TRANS_EN, GetRealData(s_WorkMode, c.WorkMode)),
                    Write(CSR_SYNC_MODE, GetRealData(s_SyncMode, c.SyncMode)),
                    Write(CSR_FLL_SCALE_SET, GetRealData(s_FullRange, c.FullScalRange)),
                    Write(CSR_FLT_SEL, GetRealData(s_Filter, c.LpfFilter))>>
             q == <<Write(CSR_CODE_LENGTH, CodeLength(c)),
                    Write(CSR_CODE_CLK_CYCLES, c.ImpulseWidth * 40),
                    [op |-> "SetDataToRam", n |-> c.SequenceLength],
                    Write(CSR_T_ACQ, TAcq(c)),
                    Write(CSR_T_DELTA, TDelta(c, s)),
                    Write(CSR_T_START, 1)>>
  <2>1. p \in Seq(Calls)
    BY <1>1, <1>2
  <2>2. q \in Seq(Calls)
    BY <1>1, <1>2, <1>3
  <2>3. p \o SetSampleRate(c.AdcSamplingRates) \in Seq(Calls)
    BY <2>1, <1>5, ConcatProperties
  <2>4. Configuration(c, s) = (p \o SetSampleRate(c.AdcSamplingRates)) \o q
    BY DEF Configuration
  <2> QED
    BY <2>2, <2>3, <2>4, ConcatProperties
<1>7. <<Write(CSR_REC_EN, 1)>> \in Seq(Calls)
  BY <1>1, <1>2
<1> QED
  BY <1>4, <1>6, <1>7, ConcatProperties DEF StartWrites

\* The device as the program has it: closed, or open, mapped and at a register.
DeviceInv ==
    /\ at \in {"closed", "seek", "read", "write"}
    /\ IF at = "closed" THEN isOpen = {} /\ live = {} /\ virt = NULL /\ region = 0
                        ELSE isOpen = {fd} /\ live = {map} /\ virt = map /\ region = 1
    /\ fault = 0 /\ pos \in [{fd} -> 0 .. 13]
    /\ mem \in [0 .. 13 -> Words] /\ buf \in [{fd} -> Words]

\* The system calls of a RegWrite belong together: it reads and writes the
\* register of its label, and what it read is still there when it writes.
RegWriteInv ==
    /\ at = "closed" => calls = <<>>
    /\ at \in {"read", "write"} => /\ calls # <<>> /\ Head(calls).op = "RegWrite"
                                   /\ pos[fd] = Head(calls).label.offset
    /\ at = "write" => buf[fd] = mem[pos[fd]]

AppInv ==
    /\ calls \in Seq(Calls)
    /\ ram \in [0 .. 79 -> Words]
    /\ ini \in Inis /\ second \in Seconds \cup {0}

IInv == DeviceInv /\ RegWriteInv /\ AppInv

\* No position that RegWrite seeks to is beyond an unsigned long.
LEMMA PosIsIndex ==
    ASSUME DeviceInv
    PROVE  Dev!Index32(fd) = pos[fd]
<1>1. pos[fd] \in 0 .. 13 BY DEF DeviceInv
<1> QED BY <1>1, RegistersAssumption DEF Dev!Index32

\* A call that is a RegWrite has a label of the 14 registers and a word.
LEMMA RegWriteCall ==
    ASSUME NEW q \in Seq(Calls), q # <<>>, Head(q).op = "RegWrite"
    PROVE /\ Head(q) \in Calls
          /\ Head(q).label \in Labels /\ Head(q).value \in Words
          /\ Head(q).label.offset \in 0 .. 13
<1>1. Head(q) \in Calls
  BY HeadTailProperties
<1>2. Head(q) \in [op : {"RegWrite"}, label : Labels, value : Words]
  BY <1>1 DEF Calls
<1> QED
  BY <1>1, <1>2 DEF Labels

\* The invariant is inductive.
LEMMA StepKeeps ==
    ASSUME IInv, [Next]_vars
    PROVE  IInv'
<1> USE DEF IInv, DeviceInv, RegWriteInv, AppInv
<1> USE DEF appVars, devVars, Dev!mapVars
<1>1. CASE Open
  <2>1. virt' = map /\ live' = {map}
    BY <1>1 DEF Open, Dev!open
  <2>2. pos' \in [{fd} -> 0 .. 13]
    BY <1>1 DEF Open, Dev!open
  <2>3. /\ isOpen' = {fd} /\ region' = 1 /\ fault' = 0 /\ at' = "seek"
        /\ UNCHANGED <<mem, buf, ram, calls, ini, second>>
    BY <1>1 DEF Open, Dev!open
  <2> QED
    BY <2>1, <2>2, <2>3
<1>2. CASE AcqStart
  <2>1. PICK c \in Inis, s \in Seconds :
            ini' = c /\ second' = s /\ calls' = StartWrites(c, s)
    BY <1>2 DEF AcqStart
  <2>2. calls' \in Seq(Calls)
    BY <2>1, HandlerCalls, RegistersAssumption
  <2> QED
    BY <1>2, <2>1, <2>2 DEF AcqStart, Idle
<1>3. CASE AcqStop
  <2>1. calls' \in Seq(Calls)
    <3>1. ini \in Ini /\ 0 \in Nat
      BY RegistersAssumption
    <3> QED
      BY <1>3, <3>1, HandlerCalls DEF AcqStop
  <2> QED
    BY <1>3, <2>1 DEF AcqStop, Idle
<1>4. CASE SetDataToRam
  <2>1. ram' \in [0 .. 79 -> Words]
    <3>1. PICK b \in SUBSET {31} :
              ram' = [i \in 0 .. 79 |->
                        IF i \in DOMAIN GetLfsrUint(Head(calls).n, b)
                          THEN GetLfsrUint(Head(calls).n, b)[i] ELSE ram[i]]
      BY <1>4 DEF SetDataToRam
    <3>2. ASSUME NEW i \in DOMAIN GetLfsrUint(Head(calls).n, b)
          PROVE GetLfsrUint(Head(calls).n, b)[i] \in Words
      BY DEF GetLfsrUint, Words, Bits
    <3> QED
      BY <3>1, <3>2
  <2>2. calls' \in Seq(Calls)
    BY <1>4 DEF SetDataToRam
  <2>3. at = "seek"
    BY <1>4 DEF SetDataToRam
  <2> QED
    BY <1>4, <2>1, <2>2, <2>3 DEF SetDataToRam
<1>5. CASE Seek
  <2>1. Head(calls) \in Calls /\ Head(calls).label.offset \in 0 .. 13
    BY <1>5, RegWriteCall DEF Seek
  <2>2. pos' = [pos EXCEPT ![fd] = Head(calls).label.offset]
    BY <1>5, <2>1 DEF Seek, Dev!lseek, Dev!NewPos
  <2> QED
    BY <1>5, <2>1, <2>2 DEF Seek, Dev!lseek
<1>6. CASE Read
  BY <1>6, PosIsIndex DEF Read, Dev!read, Dev!UseMapping
<1>7. CASE WriteBack
  <2> DEFINE k == Head(calls)
             v == Insert(buf[fd], k.label, k.value)
  <2>1. k \in Calls /\ k.label \in Labels /\ k.value \in Words
    BY <1>7, RegWriteCall DEF WriteBack
  <2>2. v \in Words
    BY <2>1, InsertIsolates
  <2>3. mem' = [mem EXCEPT ![pos[fd]] = v]
    BY <1>7, PosIsIndex DEF WriteBack, Dev!write
  <2>4. calls' \in Seq(Calls)
    BY <1>7 DEF WriteBack
  <2> QED
    BY <1>7, <2>2, <2>3, <2>4 DEF WriteBack, Dev!write, Dev!UseMapping
<1>8. CASE UNCHANGED vars
  BY <1>8 DEF vars
<1> QED
  BY <1>1, <1>2, <1>3, <1>4, <1>5, <1>6, <1>7, <1>8 DEF Next

LEMMA RegistersInductive == Spec => []IInv
<1>1. Init => IInv
  BY RegistersAssumption DEF Init, Dev!Init, Dev!Index, Words, IInv, DeviceInv, RegWriteInv, AppInv
<1> QED
  BY <1>1, StepKeeps, PTL DEF Spec

\* Type correctness; with it, that RegWrite stays within the 14 registers and
\* never uses an address that is not mapped.
THEOREM TypeCorrect == Spec => []TypeOK
<1>1. IInv => TypeOK
  <2> SUFFICES ASSUME IInv PROVE TypeOK
    OBVIOUS
  <2>1. pos \in [{fd} -> Nat] /\ pos[fd] < 14
    BY DEF IInv, DeviceInv
  <2>2. mem \in [Dev!Index -> Words]
    BY DEF IInv, DeviceInv, Dev!Index
  <2>3. isOpen \subseteq {fd} /\ virt \in {map} \cup {NULL} /\ live \subseteq {map}
    BY DEF IInv, DeviceInv
  <2> QED
    BY <2>1, <2>2, <2>3 DEF IInv, DeviceInv, AppInv, TypeOK, Dev!TypeOK
<1> QED
  BY <1>1, RegistersInductive, PTL

\* Every change of a register is the change of one field: that of the RegWrite
\* that makes it, although RegWrite writes back the whole word.
THEOREM FieldsAreIsolated == Spec => FieldIsolation
<1>1. ASSUME IInv, [Next]_vars, NEW i \in DOMAIN mem, mem'[i] # mem[i]
      PROVE LET l == Head(calls).label
            IN i = l.offset /\ mem'[i] \ GetRegMask(l) = mem[i] \ GetRegMask(l)
  <2> USE DEF devVars, appVars
  <2>1. WriteBack
    BY <1>1 DEF Next, vars, Open, Dev!open, AcqStart, AcqStop, SetDataToRam, Seek, Dev!lseek,
                Read, Dev!read
  <2> DEFINE k == Head(calls)
  <2>2. k \in Calls /\ k.label \in Labels /\ k.value \in Words
    BY <1>1, <2>1, RegWriteCall DEF WriteBack, IInv, RegWriteInv, AppInv
  <2>3. mem' = [mem EXCEPT ![pos[fd]] = Insert(mem[pos[fd]], k.label, k.value)]
    BY <1>1, <2>1, PosIsIndex DEF WriteBack, Dev!write, IInv, RegWriteInv
  <2>4. i = pos[fd] /\ i = k.label.offset /\ mem[i] \in Words
    BY <1>1, <2>1, <2>3 DEF IInv, RegWriteInv, DeviceInv, WriteBack
  <2>5. mem'[i] = Insert(mem[i], k.label, k.value)
    BY <2>3, <2>4 DEF IInv, DeviceInv
  <2> QED
    BY <2>2, <2>4, <2>5, InsertIsolates
<1>2. IInv /\ [Next]_vars =>
        [\A i \in DOMAIN mem : mem'[i] # mem[i] =>
           LET l == Head(calls).label
           IN i = l.offset /\ mem'[i] \ GetRegMask(l) = mem[i] \ GetRegMask(l)]_vars
  BY <1>1
<1> QED
  BY <1>2, RegistersInductive, PTL DEF Spec, FieldIsolation

-----------------------------------------------------------------------------
(* Numbers as words                                                        *)

Pow == [i \in 0 .. 30 |-> 2 ^ i]

\* The powers of two that Word and the length of a code need.
LEMMA Powers ==
    /\ Pow[0] = 1 /\ Pow[1] = 2 /\ Pow[2] = 4 /\ Pow[3] = 8
    /\ Pow[4] = 16 /\ Pow[5] = 32 /\ Pow[6] = 64 /\ Pow[7] = 128
    /\ Pow[8] = 256 /\ Pow[9] = 512 /\ Pow[10] = 1024 /\ Pow[11] = 2048
    /\ Pow[12] = 4096 /\ Pow[13] = 8192 /\ Pow[14] = 16384 /\ Pow[15] = 32768
    /\ Pow[16] = 65536 /\ Pow[17] = 131072 /\ Pow[18] = 262144 /\ Pow[19] = 524288
    /\ Pow[20] = 1048576 /\ Pow[21] = 2097152 /\ Pow[22] = 4194304 /\ Pow[23] = 8388608
    /\ Pow[24] = 16777216 /\ Pow[25] = 33554432 /\ Pow[26] = 67108864 /\ Pow[27] = 134217728
    /\ Pow[28] = 268435456 /\ Pow[29] = 536870912 /\ Pow[30] = 1073741824
BY DEF Pow

\* Every power is a number, and none is less than an earlier one.
LEMMA PowersGrow ==
    /\ \A i \in 0 .. 30 : Pow[i] \in Nat /\ Pow[i] >= 1
    /\ \A i \in 1 .. 30 : Pow[i] >= 2
    /\ \A i \in 2 .. 30 : Pow[i] >= 4
    /\ \A i \in 3 .. 30 : Pow[i] >= 8
    /\ \A i \in 15 .. 30 : Pow[i] >= Pow[15]
<1>1. ASSUME NEW i \in 0 .. 30
      PROVE  i \in {0, 1, 2, 3, 4, 5, 6, 7, 8, 9, 10, 11, 12, 13, 14, 15, 16, 17, 18, 19, 20,
                    21, 22, 23, 24, 25, 26, 27, 28, 29, 30}
  OBVIOUS
<1>2. ASSUME NEW i \in 0 .. 30
      PROVE  /\ Pow[i] \in Nat /\ Pow[i] >= 1
             /\ i >= 1 => Pow[i] >= 2
             /\ i >= 2 => Pow[i] >= 4
             /\ i >= 3 => Pow[i] >= 8
             /\ i >= 15 => Pow[i] >= Pow[15]
  BY <1>1, Powers
<1> QED BY <1>2

\* The bits of a number, by the powers; bit 31 is that of half of its 2^30s.
LEMMA WordBits ==
    ASSUME NEW n
    PROVE  /\ Word(n) \subseteq 0 .. 31
           /\ \A i \in 0 .. 30 : i \in Word(n) <=> (n \div Pow[i]) % 2 = 1
           /\ 31 \in Word(n) <=> ((n \div Pow[30]) \div 2) % 2 = 1
<1>1. Word(n) \subseteq 0 .. 31 BY DEF Word, Bits
<1>2. ASSUME NEW i \in 0 .. 30 PROVE i \in Word(n) <=> (n \div Pow[i]) % 2 = 1
  <2>1. i \in Bits /\ i # 31 BY DEF Bits
  <2>2. Bit(n, i) = (n \div 2 ^ i) % 2 BY <2>1 DEF Bit
  <2>3. Pow[i] = 2 ^ i BY DEF Pow
  <2> QED BY <2>1, <2>2, <2>3, Zenon DEF Word
<1>3. 31 \in Word(n) <=> ((n \div Pow[30]) \div 2) % 2 = 1
  <2>1. 31 \in Bits BY DEF Bits
  <2>2. Bit(n, 31) = ((n \div 2 ^ 30) \div 2) % 2 BY Zenon DEF Bit
  <2>3. Pow[30] = 2 ^ 30
    <3>1. 30 \in 0 .. 30 OBVIOUS
    <3> QED BY <3>1, Zenon DEF Pow
  <2> QED BY <2>1, <2>2, <2>3, Zenon DEF Word
<1> QED BY <1>1, <1>2, <1>3

\* A number has no bit from the first power on that is greater.
LEMMA WordFits ==
    ASSUME NEW n \in Nat, NEW k \in 0 .. 30, \A i \in k .. 30 : n < Pow[i]
    PROVE  Word(n) \subseteq 0 .. k - 1
<1> SUFFICES ASSUME NEW i \in Word(n) PROVE i \in 0 .. k - 1
  OBVIOUS
<1>1. i \in 0 .. 31 BY WordBits
<1>2. ASSUME i >= k PROVE FALSE
  <2> DEFINE j == IF i = 31 THEN 30 ELSE i
             m == Pow[j]
  <2>1. j \in k .. 30 /\ j \in 0 .. 30 BY <1>1, <1>2
  <2>2. m \in Nat /\ m >= 1 /\ n < m BY <2>1, PowersGrow
  <2>3. IF i = 31 THEN ((n \div m) \div 2) % 2 = 1 ELSE (n \div m) % 2 = 1
    BY <1>1, WordBits
  <2> HIDE DEF m
  <2>4. n \div m = 0 BY <2>2
  <2> QED BY <2>3, <2>4
<1> QED BY <1>1, <1>2

\* The numbers of the tables and of the enables, as words.
LEMMA SmallWords ==
    /\ Word(0) = {} /\ Word(1) = {0} /\ Word(2) = {1}
    /\ Word(3) \subseteq 0 .. 1 /\ Word(7) \subseteq 0 .. 2
<1>1. \A i \in 0 .. 30 : 0 < Pow[i] BY PowersGrow
<1>2. \A i \in 1 .. 30 : 1 < Pow[i] BY PowersGrow
<1>3. \A i \in 2 .. 30 : 2 < Pow[i] /\ 3 < Pow[i] BY PowersGrow
<1>4. \A i \in 3 .. 30 : 7 < Pow[i] BY PowersGrow
<1>5. Word(0) \subseteq 0 .. 0 - 1 BY <1>1, WordFits
<1>6. Word(1) \subseteq 0 .. 1 - 1 BY <1>2, WordFits
<1>7. Word(2) \subseteq 0 .. 2 - 1 BY <1>3, WordFits
<1>8. Word(3) \subseteq 0 .. 2 - 1 BY <1>3, WordFits
<1>9. Word(7) \subseteq 0 .. 3 - 1 BY <1>4, WordFits
<1>10. \A n : \A i \in 0 .. 30 : i \in Word(n) <=> (n \div Pow[i]) % 2 = 1 BY WordBits
<1>11. 0 \in Word(1)
  <2>1. 1 \div Pow[0] = 1 BY Powers
  <2> QED BY <1>10, <2>1
<1>12. 1 \in Word(2) /\ 0 \notin Word(2)
  <2>1. 2 \div Pow[1] = 1 /\ 2 \div Pow[0] = 2 BY Powers
  <2> QED BY <1>10, <2>1
<1> QED BY <1>5, <1>6, <1>7, <1>8, <1>9, <1>11, <1>12

-----------------------------------------------------------------------------
(* A RegWrite as the change of one field                                   *)

\* The fields that the handlers write, and CSR_MODE, which they do not.
Fields == {CSR_C_TO_IO_CMD, CSR_TRANS_EN, CSR_REC_EN, CSR_SYNC_MODE, CSR_MODE, CSR_FLT_SEL,
           CSR_FLL_SCALE_SET, CSR_INPUT_SEL, CSR_CODE_LENGTH, CSR_CODE_CLK_CYCLES,
           CSR_T_START, CSR_T_DELTA, CSR_T_ACQ}

\* The fields lie within their registers, and no two of them share a bit.
LEMMA FieldsApart ==
    /\ \A l \in Fields : l \in Labels /\ l.shift + l.bitnum <= 32
    /\ \A l, m \in Fields : l # m =>
           \/ l.offset # m.offset
           \/ GetRegMask(l) \cap GetRegMask(m) = {}
<1> USE DEF Label, CSR_C_TO_IO_CMD, CSR_TRANS_EN, CSR_REC_EN, CSR_SYNC_MODE, CSR_MODE, CSR_FLT_SEL,
            CSR_FLL_SCALE_SET, CSR_INPUT_SEL, CSR_CODE_LENGTH, CSR_CODE_CLK_CYCLES,
            CSR_T_START, CSR_T_DELTA, CSR_T_ACQ
<1>1. \A l \in Fields : l \in Labels /\ l.shift + l.bitnum <= 32
  BY DEF Fields, Labels, Bits
<1>2. ASSUME NEW l \in Fields, NEW m \in Fields, l # m, l.offset = m.offset
      PROVE  l.shift + l.bitnum <= m.shift \/ m.shift + m.bitnum <= l.shift
  BY <1>2 DEF Fields
<1>3. ASSUME NEW l \in Fields, NEW m \in Fields, l # m, l.offset = m.offset
      PROVE  GetRegMask(l) \cap GetRegMask(m) = {}
  <2>1. /\ l.shift \in Nat /\ l.bitnum \in Nat /\ m.shift \in Nat /\ m.bitnum \in Nat
    BY <1>1 DEF Labels, Bits
  <2>2. l.shift + l.bitnum <= m.shift \/ m.shift + m.bitnum <= l.shift BY <1>2, <1>3
  <2> QED BY ONLY <2>1, <2>2 DEF GetRegMask
<1> QED BY <1>1, <1>3

\* The write of a RegWrite gives its field the value, cut to its width, and
\* leaves every other field alone.
LEMMA FieldWritten ==
    ASSUME IInv, WriteBack, NEW l \in Fields, l = Head(calls).label,
           NEW v, v = Head(calls).value
    PROVE  /\ Field(l)' = v \cap 0 .. l.bitnum - 1
           /\ \A m \in Fields \ {l} : Field(m)' = Field(m)
<1>1. Head(calls).op = "RegWrite" /\ calls \in Seq(Calls) /\ calls # <<>>
  BY DEF WriteBack, IInv, RegWriteInv, AppInv
<1>2. l \in Labels /\ v \in Words /\ l.offset \in 0 .. 13
  BY <1>1, RegWriteCall
<1>3. pos[fd] = l.offset /\ buf[fd] = mem[l.offset] /\ mem \in [0 .. 13 -> Words]
  BY DEF WriteBack, IInv, RegWriteInv, DeviceInv
<1>4. mem' = [mem EXCEPT ![l.offset] = Insert(mem[l.offset], l, v)]
  BY <1>3, PosIsIndex DEF WriteBack, Dev!write, IInv
<1>5. mem[l.offset] \in Words /\ mem'[l.offset] = Insert(mem[l.offset], l, v)
  BY <1>2, <1>3, <1>4
<1>6. Field(l)' = v \cap 0 .. l.bitnum - 1
  <2>1. l.shift + l.bitnum <= 32 BY FieldsApart
  <2> QED BY <1>2, <1>5, <2>1, ReadBack DEF Field
<1>7. ASSUME NEW m \in Fields \ {l} PROVE Field(m)' = Field(m)
  <2>1. m \in Labels /\ m.offset \in 0 .. 13 BY FieldsApart DEF Labels
  <2>2. CASE m.offset # l.offset
    BY <1>3, <1>4, <2>1, <2>2 DEF Field
  <2>3. CASE m.offset = l.offset
    <3>1. GetRegMask(l) \cap GetRegMask(m) = {} BY <1>7, <2>3, FieldsApart
    <3>2. mem'[l.offset] \ GetRegMask(l) = mem[l.offset] \ GetRegMask(l)
      BY <1>2, <1>5, InsertIsolates
    <3>3. mem'[m.offset] \cap GetRegMask(m) = mem[m.offset] \cap GetRegMask(m)
      BY <2>3, <3>1, <3>2
    <3> QED BY <3>3 DEF Field, FieldOf
  <2> QED BY <2>2, <2>3
<1> QED BY <1>6, <1>7

\* The registers change by the write of a RegWrite only.
LEMMA OnlyWrites ==
    ASSUME [Next]_vars, ~WriteBack
    PROVE  mem' = mem
BY DEF Next, vars, Open, Dev!open, AcqStart, AcqStop, SetDataToRam, Seek, Dev!lseek, Read,
       Dev!read, devVars, appVars

-----------------------------------------------------------------------------
(* The handlers as lists of writes                                         *)

\* The command that SetSampleRate pulses.
RateCommand(c) == 65280 + s_SampleRateReg(c.AdcSamplingRates)

\* The fourteen calls of a START, one by one.
LEMMA StartCalls ==
    ASSUME NEW c \in Ini, NEW s \in Nat, NEW q, q = StartWrites(c, s)
    PROVE  /\ q \in Seq(Calls) /\ Len(q) = 14
           /\ q[1] = Write(CSR_INPUT_SEL, GetRealData(s_InputSouce, c.InputSource))
           /\ q[2] = Write(CSR_TRANS_EN, GetRealData(s_WorkMode, c.WorkMode))
           /\ q[3] = Write(CSR_SYNC_MODE, GetRealData(s_SyncMode, c.SyncMode))
           /\ q[4] = Write(CSR_FLL_SCALE_SET, GetRealData(s_FullRange, c.FullScalRange))
           /\ q[5] = Write(CSR_FLT_SEL, GetRealData(s_Filter, c.LpfFilter))
           /\ q[6] = Write(CSR_C_TO_IO_CMD, RateCommand(c))
           /\ q[7] = Write(CSR_C_TO_IO_CMD, 0)
           /\ q[8] = Write(CSR_CODE_LENGTH, CodeLength(c))
           /\ q[9] = Write(CSR_CODE_CLK_CYCLES, c.ImpulseWidth * 40)
           /\ q[10] = [op |-> "SetDataToRam", n |-> c.SequenceLength]
           /\ q[11] = Write(CSR_T_ACQ, TAcq(c))
           /\ q[12] = Write(CSR_T_DELTA, TDelta(c, s))
           /\ q[13] = Write(CSR_T_START, 1)
           /\ q[14] = Write(CSR_REC_EN, 1)
<1> DEFINE a1 == Write(CSR_INPUT_SEL, GetRealData(s_InputSouce, c.InputSource))
           a2 == Write(CSR_TRANS_EN, GetRealData(s_WorkMode, c.WorkMode))
           a3 == Write(CSR_SYNC_MODE, GetRealData(s_SyncMode, c.SyncMode))
           a4 == Write(CSR_FLL_SCALE_SET, GetRealData(s_FullRange, c.FullScalRange))
           a5 == Write(CSR_FLT_SEL, GetRealData(s_Filter, c.LpfFilter))
           a6 == Write(CSR_C_TO_IO_CMD, RateCommand(c))
           a7 == Write(CSR_C_TO_IO_CMD, 0)
           a8 == Write(CSR_CODE_LENGTH, CodeLength(c))
           a9 == Write(CSR_CODE_CLK_CYCLES, c.ImpulseWidth * 40)
           a10 == [op |-> "SetDataToRam", n |-> c.SequenceLength]
           a11 == Write(CSR_T_ACQ, TAcq(c))
           a12 == Write(CSR_T_DELTA, TDelta(c, s))
           a13 == Write(CSR_T_START, 1)
           a14 == Write(CSR_REC_EN, 1)
           S == {a1, a2, a3, a4, a5, a6, a7, a8, a9, a10, a11, a12, a13, a14}
           p == <<a1, a2, a3, a4, a5>>
           r == <<a6, a7>>
           t == <<a8, a9, a10, a11, a12, a13>>
           u == <<a14>>
<1>1. StartWrites(c, s) = ((p \o r) \o t) \o u
  BY DEF StartWrites, Configuration, SetSampleRate, RateCommand
<1>2. StartWrites(c, s) \in Seq(Calls) BY HandlerCalls
<1> HIDE DEF a1, a2, a3, a4, a5, a6, a7, a8, a9, a10, a11, a12, a13, a14
<1>3. /\ p \in Seq(S) /\ r \in Seq(S) /\ t \in Seq(S) /\ u \in Seq(S)
      /\ Len(p) = 5 /\ Len(r) = 2 /\ Len(t) = 6 /\ Len(u) = 1
  OBVIOUS
<1>4. /\ p[1] = a1 /\ p[2] = a2 /\ p[3] = a3 /\ p[4] = a4 /\ p[5] = a5
      /\ r[1] = a6 /\ r[2] = a7 /\ u[1] = a14
      /\ t[1] = a8 /\ t[2] = a9 /\ t[3] = a10 /\ t[4] = a11 /\ t[5] = a12 /\ t[6] = a13
  OBVIOUS
<1> HIDE DEF p, r, t, u, S
<1> DEFINE x == p \o r
<1>5. /\ x \in Seq(S) /\ Len(x) = 7
      /\ \A i \in 1 .. 7 : x[i] = IF i <= 5 THEN p[i] ELSE r[i - 5]
  <2>1. /\ x \in Seq(S) /\ Len(x) = Len(p) + Len(r)
        /\ \A i \in 1 .. Len(p) + Len(r) :
               x[i] = IF i <= Len(p) THEN p[i] ELSE r[i - Len(p)]
    <3>1. p \in Seq(S) /\ r \in Seq(S) BY <1>3
    <3> QED BY ONLY <3>1, ConcatProperties, ZenonT(30)
  <2> QED BY <1>3, <2>1, SMTT(30)
<1> HIDE DEF x
<1> DEFINE y == x \o t
<1>6. /\ y \in Seq(S) /\ Len(y) = 13
      /\ \A i \in 1 .. 13 : y[i] = IF i <= 7 THEN x[i] ELSE t[i - 7]
  <2>1. /\ y \in Seq(S) /\ Len(y) = Len(x) + Len(t)
        /\ \A i \in 1 .. Len(x) + Len(t) :
               y[i] = IF i <= Len(x) THEN x[i] ELSE t[i - Len(x)]
    <3>1. x \in Seq(S) /\ t \in Seq(S) BY <1>3, <1>5
    <3> QED BY ONLY <3>1, ConcatProperties, Zenon
  <2> HIDE DEF y
  <2> QED BY <1>3, <1>5, <2>1
<1> HIDE DEF y
<1> DEFINE z == y \o u
<1>7. /\ z \in Seq(S) /\ Len(z) = 14
      /\ \A i \in 1 .. 14 : z[i] = IF i <= 13 THEN y[i] ELSE u[i - 13]
  <2>1. /\ z \in Seq(S) /\ Len(z) = Len(y) + Len(u)
        /\ \A i \in 1 .. Len(y) + Len(u) :
               z[i] = IF i <= Len(y) THEN y[i] ELSE u[i - Len(y)]
    <3>1. y \in Seq(S) /\ u \in Seq(S) BY <1>3, <1>6
    <3> QED BY ONLY <3>1, ConcatProperties, Zenon
  <2> HIDE DEF z
  <2> QED BY <1>3, <1>6, <2>1
<1>8. StartWrites(c, s) = z BY <1>1 DEF z, y, x
<1> HIDE DEF z
<1>9. x[1] = a1 /\ x[2] = a2 /\ x[3] = a3 /\ x[4] = a4 /\ x[5] = a5 /\ x[6] = a6 /\ x[7] = a7
  BY <1>4, <1>5
<1>10. /\ y[1] = a1 /\ y[2] = a2 /\ y[3] = a3 /\ y[4] = a4 /\ y[5] = a5 /\ y[6] = a6
       /\ y[7] = a7 /\ y[8] = a8 /\ y[9] = a9 /\ y[10] = a10 /\ y[11] = a11 /\ y[12] = a12
       /\ y[13] = a13
  BY <1>4, <1>6, <1>9, SMTT(30)
<1>11. /\ z[1] = a1 /\ z[2] = a2 /\ z[3] = a3 /\ z[4] = a4 /\ z[5] = a5 /\ z[6] = a6
       /\ z[7] = a7 /\ z[8] = a8 /\ z[9] = a9 /\ z[10] = a10 /\ z[11] = a11 /\ z[12] = a12
       /\ z[13] = a13 /\ z[14] = a14
  BY <1>4, <1>7, <1>10, SMTT(30)
<1> QED
  BY <1>2, <1>7, <1>8, <1>11 DEF a1, a2, a3, a4, a5, a6, a7, a8, a9, a10, a11, a12, a13, a14

\* The four calls of a STOP.
LEMMA StopCalls ==
    /\ StopWrites \in Seq(Calls) /\ Len(StopWrites) = 4
    /\ StopWrites[1] = Write(CSR_REC_EN, 0) /\ StopWrites[2] = Write(CSR_T_ACQ, 0)
    /\ StopWrites[3] = Write(CSR_T_DELTA, 0) /\ StopWrites[4] = Write(CSR_T_START, 0)
<1>1. StopWrites \in Seq(Calls)
  <2>1. {CSR_REC_EN, CSR_T_ACQ, CSR_T_DELTA, CSR_T_START} \subseteq Labels
    BY FieldsApart DEF Fields
  <2>2. \A l \in Labels : Write(l, 0) \in Calls BY DEF Write, Calls, Word, Words
  <2> QED BY <2>1, <2>2 DEF StopWrites
<1> QED BY <1>1 DEF StopWrites

\* The calls that are left of a list when k of them were made.
LeftOf(q, k) == Len(calls) = Len(q) - k /\ \A i \in 1 .. Len(q) - k : calls[i] = q[k + i]

\* Of k calls made, the last one to each field is what the field holds.
Written(q, k) ==
    \A j \in 1 .. k :
        /\ q[j].op = "RegWrite"
        /\ \A i \in j + 1 .. k : q[i].op = "RegWrite" => q[i].label # q[j].label
        => Field(q[j].label) = q[j].value \cap 0 .. q[j].label.bitnum - 1

\* Making the next call leaves one less.
LEMMA NextCall ==
    ASSUME NEW q \in Seq(Calls), NEW k \in 0 .. Len(q) - 1, LeftOf(q, k), calls \in Seq(Calls)
    PROVE  /\ calls # <<>> /\ Head(calls) = q[k + 1] /\ k + 1 \in 1 .. Len(q)
           /\ calls' = Tail(calls) => LeftOf(q, k + 1)' /\ (k + 1 = Len(q) => calls' = <<>>)
<1>1. k \in Nat /\ Len(q) \in Nat /\ k + 1 <= Len(q) OBVIOUS
<1>2. Len(calls) = Len(q) - k /\ Len(calls) >= 1 BY <1>1 DEF LeftOf
<1>3. calls # <<>> /\ Head(calls) = calls[1] BY <1>2
<1>4. calls[1] = q[k + 1] BY <1>1 DEF LeftOf
<1>5. ASSUME calls' = Tail(calls) PROVE LeftOf(q, k + 1)' /\ (k + 1 = Len(q) => calls' = <<>>)
  <2>1. /\ Len(Tail(calls)) = Len(calls) - 1
        /\ \A i \in 1 .. Len(calls) - 1 : Tail(calls)[i] = calls[i + 1]
    BY <1>3, HeadTailProperties
  <2>2. ASSUME NEW i \in 1 .. Len(q) - (k + 1) PROVE Tail(calls)[i] = q[(k + 1) + i]
    <3>1. i + 1 \in 1 .. Len(q) - k /\ i \in 1 .. Len(calls) - 1 BY <1>1, <1>2
    <3>2. calls[i + 1] = q[k + (i + 1)] BY <3>1 DEF LeftOf
    <3>3. k + (i + 1) = (k + 1) + i BY <1>1
    <3> QED BY <2>1, <3>1, <3>2, <3>3
  <2>3. Len(Tail(calls)) = Len(q) - (k + 1) BY <1>1, <1>2, <2>1
  <2>4. k + 1 = Len(q) => Tail(calls) = <<>>
    <3>1. Tail(calls) \in Seq(Calls) BY <1>3, HeadTailProperties
    <3> QED BY <1>1, <2>3, <3>1
  <2> QED BY <1>5, <2>2, <2>3, <2>4 DEF LeftOf
<1> QED BY <1>1, <1>3, <1>4, <1>5

\* The write of the next call, if its list names fields only.
LEMMA NextWritten ==
    ASSUME IInv, NEW q \in Seq(Calls), NEW k \in 0 .. Len(q) - 1, LeftOf(q, k), Written(q, k),
           \A j \in DOMAIN q : q[j].op = "RegWrite" => q[j].label \in Fields,
           WriteBack
    PROVE  /\ q[k + 1].op = "RegWrite" /\ Written(q, k + 1)'
           /\ \A m \in Fields \ {q[k + 1].label} : Field(m)' = Field(m)
<1>1. calls \in Seq(Calls) BY DEF IInv, AppInv
<1>2. Head(calls) = q[k + 1] /\ k + 1 \in DOMAIN q BY <1>1, NextCall
<1>3. q[k + 1].op = "RegWrite" BY <1>2 DEF IInv, RegWriteInv, WriteBack
<1> DEFINE l == q[k + 1].label
           v == q[k + 1].value
<1>4. l \in Fields BY <1>2, <1>3
<1>5. /\ Field(l)' = v \cap 0 .. l.bitnum - 1
      /\ \A m \in Fields \ {l} : Field(m)' = Field(m)
  <2>1. l = Head(calls).label /\ v = Head(calls).value BY <1>2
  <2> HIDE DEF l, v
  <2> QED BY <1>4, <2>1, FieldWritten
<1>6. ASSUME NEW j \in 1 .. k + 1, q[j].op = "RegWrite",
             \A i \in j + 1 .. k + 1 : q[i].op = "RegWrite" => q[i].label # q[j].label
      PROVE  Field(q[j].label)' = q[j].value \cap 0 .. q[j].label.bitnum - 1
  <2>1. CASE j = k + 1 BY <1>5, <2>1
  <2>2. CASE j # k + 1
    <3>1. j \in 1 .. k /\ k + 1 \in j + 1 .. k + 1 /\ j \in DOMAIN q BY <2>2
    <3>2. q[j].label \in Fields \ {l} BY <1>3, <1>6, <3>1
    <3>3. \A i \in j + 1 .. k : i \in j + 1 .. k + 1 BY <3>1
    <3>4. Field(q[j].label) = q[j].value \cap 0 .. q[j].label.bitnum - 1
      BY <1>6, <3>1, <3>3 DEF Written
    <3> QED BY <1>5, <3>2, <3>4
  <2> QED BY <2>1, <2>2
<1> QED BY <1>3, <1>5, <1>6 DEF Written

-----------------------------------------------------------------------------
(* A START that is complete                                                *)

\* The times of a record fit their fields of 16 and 15 bits.  Nothing in
\* Configuration sees to it: longer times are cut (app.c:734).
TimesFit == \A c \in Inis : TAcq(c) < 2 ^ 15

\* A code is shorter than 2^11 bits and a whole number of words if it has 2^5.
SizedFor(m, n) ==
    /\ m \in 1 .. 2048
    /\ n < 5 => m \in 1 .. 16 /\ m \div 32 = 0
    /\ n >= 5 => m = 32 * (m \div 32) /\ m \div 32 \in 1 .. 64

LEMMA CodeSize ==
    ASSUME NEW n \in 0 .. 11
    PROVE  SizedFor(Pow[n], n)
<1>1. n \in {0, 1, 2, 3, 4} \/ n \in {5, 6, 7, 8, 9, 10, 11} OBVIOUS
<1> DEFINE m == Pow[n]
<1>2. /\ n \in {0, 1, 2, 3, 4} => m \in {1, 2, 4, 8, 16}
      /\ n \in {5, 6, 7, 8, 9, 10, 11} => m \in {32, 64, 128, 256, 512, 1024, 2048}
  BY Powers
<1>3. /\ n < 5 => n \in {0, 1, 2, 3, 4}
      /\ n >= 5 => n \in {5, 6, 7, 8, 9, 10, 11}
  OBVIOUS
<1> HIDE DEF m
<1>4. m \in {1, 2, 4, 8, 16} => m \in 1 .. 16 /\ m \div 32 = 0 OBVIOUS
<1>5. m \in {32, 64, 128, 256, 512, 1024, 2048} => m = 32 * (m \div 32) /\ m \div 32 \in 1 .. 64
  OBVIOUS
<1>6. m \in 1 .. 2048 BY <1>1, <1>2
<1>7. n < 5 => m \in 1 .. 16 /\ m \div 32 = 0 BY <1>2, <1>3, <1>4
<1>8. n >= 5 => m = 32 * (m \div 32) /\ m \div 32 \in 1 .. 64 BY <1>2, <1>3, <1>5
<1> QED BY <1>6, <1>7, <1>8 DEF m, SizedFor

\* The length of a code.
LEMMA CodeOf ==
    ASSUME NEW c \in Ini
    PROVE  /\ c.SequenceLength \in 0 .. 11
           /\ 2 ^ c.SequenceLength = Pow[c.SequenceLength]
           /\ CodeLength(c) = Pow[c.SequenceLength] - 1 /\ CodeLength(c) \in Nat
<1> DEFINE n == c.SequenceLength
           z == Pow[n]
<1>1. n \in 0 .. 11 BY DEF Ini
<1>2. 2 ^ n = z
  <2>1. n \in 0 .. 30 BY <1>1
  <2> QED BY <2>1, Zenon DEF Pow
<1>3. CodeLength(c) = z - 1 BY <1>2, Zenon DEF CodeLength
<1>4. SizedFor(z, n) BY <1>1, CodeSize, Zenon
<1> HIDE DEF z
<1>5. CodeLength(c) \in Nat BY ONLY <1>3, <1>4 DEF SizedFor
<1> QED BY <1>1, <1>2, <1>3, <1>5, Zenon DEF z

\* The seconds of a record and those to its trigger are numbers that fit.
LEMMA TimesOf ==
    ASSUME NEW c \in Ini, NEW s \in Nat, TAcq(c) < 2 ^ 15
    PROVE  /\ Word(TAcq(c)) \cap 0 .. 15 = Word(TAcq(c))
           /\ Word(TDelta(c, s)) \cap 0 .. 14 = Word(TDelta(c, s))
<1>1. CodeLength(c) \in Nat /\ c.ImpulseWidth \in Nat
  <2>1. CodeLength(c) \in Nat BY CodeOf, Zenon
  <2>2. c.ImpulseWidth \in Nat BY DEF Ini
  <2> QED BY <2>1, <2>2
<1>2. CodeLength(c) * c.ImpulseWidth \in Nat BY <1>1
<1>3. TAcq(c) \in Nat /\ TAcq(c) >= 2 BY <1>2 DEF TAcq
<1>4. TDelta(c, s) \in Nat /\ TDelta(c, s) <= TAcq(c) BY <1>3 DEF TDelta
<1>5. 2 ^ 15 = Pow[15] BY Powers
<1>6. \A i \in 15 .. 30 : Pow[15] <= Pow[i] /\ Pow[i] \in Nat BY PowersGrow
<1>7. \A i \in 15 .. 30 : TAcq(c) < Pow[i] /\ TDelta(c, s) < Pow[i] BY <1>3, <1>4, <1>5, <1>6
<1>8. Word(TAcq(c)) \subseteq 0 .. 15 - 1 BY <1>3, <1>7, WordFits
<1>9. Word(TDelta(c, s)) \subseteq 0 .. 15 - 1 BY <1>4, <1>7, WordFits
<1> QED BY <1>8, <1>9

\* The words of the code but for the last bit of the last one.
CodeInRam(c) == \A k \in 0 .. CodeLength(c) - 1 : k % 32 \notin ram[k \div 32]
RamClean == \A i \in 0 .. 79 : ram[i] \subseteq {31}

\* SetDataToRam sets no bit that is not the last of a word, and the last of none
\* but the last word of the code.
LEMMA CodeWritten ==
    ASSUME IInv, RamClean, SetDataToRam, NEW c \in Ini, Head(calls).n = c.SequenceLength
    PROVE  RamClean' /\ CodeInRam(c)'
<1> DEFINE n == c.SequenceLength
           z == Pow[n]
           w == z \div 32
<1>0. n = c.SequenceLength /\ z = Pow[n] /\ w = z \div 32 OBVIOUS
<1>1. n \in 0 .. 11 /\ CodeLength(c) = z - 1 BY CodeOf, Zenon
<1>2. 2 ^ n = z BY CodeOf, Zenon
<1> HIDE DEF n, z, w
<1>3. PICK b \in SUBSET {31} :
          ram' = [i \in 0 .. 79 |-> IF i \in DOMAIN GetLfsrUint(n, b) THEN GetLfsrUint(n, b)[i]
                                    ELSE ram[i]]
  BY <1>0 DEF SetDataToRam
<1>4. /\ z \in 1 .. 2048
      /\ n < 5 => z \in 1 .. 16 /\ w = 0
      /\ n >= 5 => z = 32 * w /\ w \in 1 .. 64
  <2>1. SizedFor(z, n) BY <1>1, CodeSize, Zenon DEF z
  <2> QED BY ONLY <2>1 DEF SizedFor, w
<1>5. GetLfsrUint(n, b) = [i \in 0 .. w - 1 |-> IF i = w - 1 THEN b ELSE {}]
  BY <1>2 DEF GetLfsrUint, w
<1>6. \A i \in 0 .. 79 : ram'[i] = IF i \in 0 .. w - 1 THEN (IF i = w - 1 THEN b ELSE {})
                                   ELSE ram[i]
  BY <1>3, <1>5
<1>7. RamClean'
  <2>1. ASSUME NEW i \in 0 .. 79 PROVE ram'[i] \subseteq {31}
    <3>1. ram[i] \subseteq {31} BY DEF RamClean
    <3>2. ram'[i] \in {b, {}, ram[i]} BY <1>6
    <3> QED BY <3>1, <3>2
  <2> QED BY <2>1 DEF RamClean
<1>8. ASSUME NEW k \in 0 .. CodeLength(c) - 1 PROVE k % 32 \notin ram'[k \div 32]
  <2>1. z \in 1 .. 2048 /\ k \in 0 .. z - 2 BY <1>1, <1>4
  <2> DEFINE x == k \div 32
             y == k % 32
  <2>2. k \in 0 .. 2046 BY ONLY <2>1
  <2>3. x \in 0 .. 63 /\ y \in 0 .. 31 /\ k = 32 * x + y BY ONLY <2>2
  <2> HIDE DEF x, y
  <2>4. ram'[x] \subseteq {31} BY <1>7, <2>3 DEF RamClean
  <2>5. CASE y # 31 BY <2>4, <2>5 DEF x, y
  <2>6. CASE y = 31
    <3>1. n >= 5 BY <1>1, <1>4, <2>1, <2>3, <2>6
    <3>2. x < w - 1 BY <1>4, <2>1, <2>3, <2>6, <3>1
    <3>3. ram'[x] = {} BY <1>4, <1>6, <2>3, <3>1, <3>2
    <3> QED BY <3>3 DEF x
  <2> QED BY <2>5, <2>6
<1> QED BY <1>7, <1>8 DEF CodeInRam

\* The fields of the calls of a START.
LEMMA StartLabels ==
    ASSUME NEW c \in Ini, NEW s \in Nat, NEW q, q = StartWrites(c, s)
    PROVE  /\ q[1].label = CSR_INPUT_SEL /\ q[2].label = CSR_TRANS_EN
           /\ q[3].label = CSR_SYNC_MODE /\ q[4].label = CSR_FLL_SCALE_SET
           /\ q[5].label = CSR_FLT_SEL /\ q[6].label = CSR_C_TO_IO_CMD
           /\ q[7].label = CSR_C_TO_IO_CMD /\ q[8].label = CSR_CODE_LENGTH
           /\ q[9].label = CSR_CODE_CLK_CYCLES /\ q[11].label = CSR_T_ACQ
           /\ q[12].label = CSR_T_DELTA /\ q[13].label = CSR_T_START
           /\ q[14].label = CSR_REC_EN /\ q[10].op = "SetDataToRam"
           /\ \A j \in {1, 2, 3, 4, 5, 6, 7, 8, 9, 11, 12, 13, 14} : q[j].op = "RegWrite"
<1>1. ASSUME NEW l, NEW n PROVE Write(l, n).op = "RegWrite" /\ Write(l, n).label = l
  BY DEF Write
<1>2. q[1] = Write(CSR_INPUT_SEL, GetRealData(s_InputSouce, c.InputSource)) BY StartCalls, Zenon
<1>3. q[2] = Write(CSR_TRANS_EN, GetRealData(s_WorkMode, c.WorkMode)) BY StartCalls, Zenon
<1>4. q[3] = Write(CSR_SYNC_MODE, GetRealData(s_SyncMode, c.SyncMode)) BY StartCalls, Zenon
<1>5. q[4] = Write(CSR_FLL_SCALE_SET, GetRealData(s_FullRange, c.FullScalRange)) BY StartCalls, Zenon
<1>6. q[5] = Write(CSR_FLT_SEL, GetRealData(s_Filter, c.LpfFilter)) BY StartCalls, Zenon
<1>7. q[6] = Write(CSR_C_TO_IO_CMD, RateCommand(c)) BY StartCalls, Zenon
<1>8. q[7] = Write(CSR_C_TO_IO_CMD, 0) BY StartCalls, Zenon
<1>9. q[8] = Write(CSR_CODE_LENGTH, CodeLength(c)) BY StartCalls, Zenon
<1>10. q[9] = Write(CSR_CODE_CLK_CYCLES, c.ImpulseWidth * 40) BY StartCalls, Zenon
<1>11. q[10] = [op |-> "SetDataToRam", n |-> c.SequenceLength] BY StartCalls, Zenon
<1>12. q[11] = Write(CSR_T_ACQ, TAcq(c)) BY StartCalls, Zenon
<1>13. q[12] = Write(CSR_T_DELTA, TDelta(c, s)) BY StartCalls, Zenon
<1>14. q[13] = Write(CSR_T_START, 1) BY StartCalls, Zenon
<1>15. q[14] = Write(CSR_REC_EN, 1) BY StartCalls, Zenon
<1> QED BY <1>1, <1>2, <1>3, <1>4, <1>5, <1>6, <1>7, <1>8, <1>9, <1>10, <1>11, <1>12, <1>13, <1>14, <1>15

\* No call of a START but SetSampleRate's writes a field twice.
LEMMA StartFields ==
    ASSUME NEW c \in Ini, NEW s \in Nat, NEW q, q = StartWrites(c, s)
    PROVE  /\ \A j \in 1 .. 14 : q[j].op = "RegWrite" <=> j # 10
           /\ \A j \in (1 .. 14) \ {10} : q[j].label \in Fields \ {CSR_MODE}
           /\ \A i, j \in (1 .. 14) \ {10} : j < i /\ j # 6 => q[i].label # q[j].label
<1> DEFINE place == <<64, 77, 75, 66, 72, 0, 0, 96, 160, 0, 192, 208, 223, 76>>
<1>1. \A j \in 1 .. 14 : j # 10 => j \in {1, 2, 3, 4, 5, 6, 7, 8, 9, 11, 12, 13, 14} OBVIOUS
<1>2. \A j \in 1 .. 14 : q[j].op = "RegWrite" <=> j # 10
  BY <1>1, StartLabels
<1>3. ASSUME NEW j \in (1 .. 14) \ {10}
      PROVE  q[j].label \in Fields /\ 32 * q[j].label.offset + q[j].label.shift = place[j]
  <2>1. j \in {1, 2, 3, 4, 5, 6, 7, 8, 9, 11, 12, 13, 14} BY <1>1
  <2>3. q[j].label \in Fields BY <2>1, StartLabels DEF Fields
  <2>4. 32 * q[j].label.offset + q[j].label.shift = place[j]
    BY <2>1, StartLabels
       DEF Label, CSR_C_TO_IO_CMD, CSR_TRANS_EN, CSR_REC_EN, CSR_SYNC_MODE,
           CSR_FLT_SEL, CSR_FLL_SCALE_SET, CSR_INPUT_SEL, CSR_CODE_LENGTH,
           CSR_CODE_CLK_CYCLES, CSR_T_START, CSR_T_DELTA, CSR_T_ACQ
  <2> QED BY <2>3, <2>4
<1>4. ASSUME NEW i \in (1 .. 14) \ {10}, NEW j \in (1 .. 14) \ {10}, j < i, j # 6
      PROVE  place[i] # place[j]
  <2>1. /\ i \in {1, 2, 3, 4, 5, 6, 7, 8, 9, 11, 12, 13, 14}
        /\ j \in {1, 2, 3, 4, 5, 6, 7, 8, 9, 11, 12, 13, 14}
    OBVIOUS
  <2> QED BY <1>4, <2>1
<1>5. ASSUME NEW j \in (1 .. 14) \ {10} PROVE q[j].label # CSR_MODE
  <2>1. 32 * CSR_MODE.offset + CSR_MODE.shift = 74 BY DEF CSR_MODE, Label
  <2>2. place[j] # 74
    <3>1. j \in {1, 2, 3, 4, 5, 6, 7, 8, 9, 11, 12, 13, 14} BY <1>1
    <3> QED BY <3>1
  <2> HIDE DEF place
  <2> QED BY <1>3, <2>1, <2>2
<1> QED BY <1>2, <1>3, <1>4, <1>5

\* The fields of a START of which k calls were made.
LEMMA Started ==
    ASSUME NEW c \in Ini, NEW s \in Nat, NEW q, q = StartWrites(c, s), NEW k \in 0 .. 14,
           Written(q, k), NEW j \in 1 .. k, j \notin {6, 10}
    PROVE  Field(q[j].label) = q[j].value \cap 0 .. q[j].label.bitnum - 1
<1>0. j \in 1 .. 14 /\ j # 10 OBVIOUS
<1>1. q[j].op = "RegWrite" BY <1>0, StartFields, Zenon
<1>2. ASSUME NEW i \in j + 1 .. k, q[i].op = "RegWrite" PROVE q[i].label # q[j].label
  <2>1. i \in 1 .. 14 /\ j < i /\ j # 6 OBVIOUS
  <2>2. i # 10 BY <1>2, <2>1, StartFields
  <2>3. i \in (1 .. 14) \ {10} /\ j \in (1 .. 14) \ {10} BY <2>1, <2>2
  <2> QED BY <2>1, <2>3, StartFields
<1> QED BY <1>1, <1>2 DEF Written

\* What csr.h makes of the four settings, as it stands in Meaning.
InputMeaning  == [x \in {1, 2, 3} |-> <<0, 1, 3>>[x]]
SyncMeaning   == [x \in {0, 1} |-> x]
FilterMeaning == [x \in {0, 12, 120, 1200} |->
                    CASE x = 120 -> 0 [] x = 0 -> 1 [] x = 12 -> 2 [] x = 1200 -> 3]
RangeMeaning  == [x \in {3000000, 300000, 30000, 3000, 300} |->
                    CASE x = 3000000 -> 0 [] x = 300000 -> 1 [] x = 30000 -> 2
                      [] x = 3000 -> 3 [] x = 300 -> 7]

\* The tables of app.c give the fields the meaning of csr.h; SYNC_MODE's 2 is cut
\* to the 0 it stands for.
LEMMA TablesMean ==
    ASSUME NEW x
    PROVE  /\ x \in DOMAIN InputMeaning =>
                  Word(GetRealData(s_InputSouce, x)) \cap 0 .. 1 = Word(InputMeaning[x])
           /\ x \in {1, 2} => Word(GetRealData(s_WorkMode, x)) \cap 0 .. 0 =
                                  IF x = 1 THEN {0} ELSE {}
           /\ x \in DOMAIN SyncMeaning =>
                  Word(GetRealData(s_SyncMode, x)) \cap 0 .. 0 = Word(SyncMeaning[x])
           /\ x \in DOMAIN FilterMeaning =>
                  Word(GetRealData(s_Filter, x)) \cap 0 .. 1 = Word(FilterMeaning[x])
           /\ x \in DOMAIN RangeMeaning =>
                  Word(GetRealData(s_FullRange, x)) \cap 0 .. 5 = Word(RangeMeaning[x])
<1>1. ASSUME x \in DOMAIN InputMeaning
      PROVE  GetRealData(s_InputSouce, x) = InputMeaning[x] /\ InputMeaning[x] \in {0, 1, 2, 3}
  BY <1>1, SMT DEF GetRealData, s_InputSouce, InputMeaning
<1>2. ASSUME x \in {1, 2}
      PROVE  Word(GetRealData(s_WorkMode, x)) \cap 0 .. 0 = IF x = 1 THEN {0} ELSE {}
  <2>1. GetRealData(s_WorkMode, x) = IF x = 1 THEN 1 ELSE 0
    BY <1>2, SMT DEF GetRealData, s_WorkMode
  <2> QED BY <2>1, SmallWords
<1>3. ASSUME x \in DOMAIN SyncMeaning
      PROVE  /\ x \in {0, 1} /\ SyncMeaning[x] = x
             /\ GetRealData(s_SyncMode, x) = IF x = 0 THEN 2 ELSE 1
  BY <1>3, SMT DEF GetRealData, s_SyncMode, SyncMeaning
<1>4. ASSUME x \in DOMAIN FilterMeaning
      PROVE  GetRealData(s_Filter, x) = FilterMeaning[x] /\ FilterMeaning[x] \in {0, 1, 2, 3}
  BY <1>4, SMT DEF GetRealData, s_Filter, FilterMeaning
<1>5. ASSUME x \in DOMAIN RangeMeaning
      PROVE  GetRealData(s_FullRange, x) = RangeMeaning[x] /\ RangeMeaning[x] \in {0, 1, 2, 3, 7}
  BY <1>5, SMT DEF GetRealData, s_FullRange, RangeMeaning
<1>6. \A v \in {0, 1, 2, 3} : Word(v) \cap 0 .. 1 = Word(v) BY SmallWords
<1>7. \A v \in {0, 1, 2, 3, 7} : Word(v) \cap 0 .. 5 = Word(v) BY SmallWords
<1>8. \A v \in {0, 1} : Word(v) \cap 0 .. 0 = Word(v) BY SmallWords
<1>9. Word(2) \cap 0 .. 0 = Word(0) BY SmallWords
<1> QED BY <1>1, <1>2, <1>3, <1>4, <1>5, <1>6, <1>7, <1>8, <1>9

\* Meaning, by those names.
LEMMA MeaningOf ==
    ASSUME NEW c
    PROVE  Meaning(c) = [InputSource   |-> <<CSR_INPUT_SEL, c.InputSource, InputMeaning>>,
                         SyncMode      |-> <<CSR_SYNC_MODE, c.SyncMode, SyncMeaning>>,
                         LpfFilter     |-> <<CSR_FLT_SEL, c.LpfFilter, FilterMeaning>>,
                         FullScalRange |-> <<CSR_FLL_SCALE_SET, c.FullScalRange, RangeMeaning>>]
BY SMT DEF Meaning, InputMeaning, SyncMeaning, FilterMeaning, RangeMeaning

\* A call of RegWrite, taken apart.
LEMMA WriteParts ==
    ASSUME NEW l, NEW n
    PROVE  Write(l, n).op = "RegWrite" /\ Write(l, n).label = l /\ Write(l, n).value = Word(n)
BY DEF Write

\* What one call of a START has left in its field.
LEMMA StartedField ==
    ASSUME NEW c \in Ini, NEW s \in Nat, NEW q, q = StartWrites(c, s), NEW k \in 0 .. 14,
           Written(q, k), NEW j \in 1 .. k, j \notin {6, 10}, NEW l, NEW n, q[j] = Write(l, n)
    PROVE  Field(l) = Word(n) \cap 0 .. l.bitnum - 1
<1>1. Field(q[j].label) = q[j].value \cap 0 .. q[j].label.bitnum - 1 BY Started
<1>2. q[j].label = l /\ q[j].value = Word(n) BY WriteParts
<1> QED BY <1>1, <1>2

\* The times are in place when the trigger is started, with the thirteenth call.
LEMMA StartedTimes ==
    ASSUME NEW c \in Ini, NEW s \in Nat, TAcq(c) < 2 ^ 15, NEW q, q = StartWrites(c, s),
           NEW k \in 13 .. 14, Written(q, k)
    PROVE  /\ Field(CSR_T_ACQ) = Word(TAcq(c)) /\ Field(CSR_T_DELTA) = Word(TDelta(c, s))
           /\ Field(CSR_T_START) = {0}
<1>1. /\ CSR_T_ACQ.bitnum - 1 = 15 /\ CSR_T_DELTA.bitnum - 1 = 14
      /\ CSR_T_START.bitnum - 1 = 0
  BY DEF CSR_T_ACQ, CSR_T_DELTA, CSR_T_START, Label
<1>2. q[11] = Write(CSR_T_ACQ, TAcq(c)) BY StartCalls, Zenon
<1>3. q[12] = Write(CSR_T_DELTA, TDelta(c, s)) BY StartCalls, Zenon
<1>4. q[13] = Write(CSR_T_START, 1) BY StartCalls, Zenon
<1>5. k \in 0 .. 14 /\ 11 \in 1 .. k /\ 12 \in 1 .. k /\ 13 \in 1 .. k OBVIOUS
<1>6. Field(CSR_T_ACQ) = Word(TAcq(c)) \cap 0 .. CSR_T_ACQ.bitnum - 1
  BY <1>2, <1>5, StartedField
<1>7. Field(CSR_T_DELTA) = Word(TDelta(c, s)) \cap 0 .. CSR_T_DELTA.bitnum - 1
  BY <1>3, <1>5, StartedField
<1>8. Field(CSR_T_START) = Word(1) \cap 0 .. CSR_T_START.bitnum - 1
  BY <1>4, <1>5, StartedField
<1>9. Word(1) \cap 0 .. 0 = {0} BY SmallWords
<1> QED BY <1>1, <1>6, <1>7, <1>8, <1>9, TimesOf

\* When all calls of a START were made, the PL is armed with its configuration.
LEMMA StartComplete ==
    ASSUME NEW c \in Ini, NEW s \in Nat, TAcq(c) < 2 ^ 15, NEW q, q = StartWrites(c, s),
           Written(q, 14), CodeInRam(c), Field(CSR_MODE) = {}
    PROVE  Holds(c, s) /\ Armed /\ Field(CSR_T_START) = {0} /\ Field(CSR_C_TO_IO_CMD) = {}
<1>1. /\ CSR_INPUT_SEL.bitnum - 1 = 1 /\ CSR_TRANS_EN.bitnum - 1 = 0
      /\ CSR_SYNC_MODE.bitnum - 1 = 0 /\ CSR_FLL_SCALE_SET.bitnum - 1 = 5
      /\ CSR_FLT_SEL.bitnum - 1 = 1 /\ CSR_C_TO_IO_CMD.bitnum - 1 = 15
      /\ CSR_CODE_LENGTH.bitnum - 1 = 31 /\ CSR_CODE_CLK_CYCLES.bitnum - 1 = 31
      /\ CSR_REC_EN.bitnum - 1 = 0
  BY DEF CSR_INPUT_SEL, CSR_TRANS_EN, CSR_SYNC_MODE, CSR_FLL_SCALE_SET, CSR_FLT_SEL,
         CSR_C_TO_IO_CMD, CSR_CODE_LENGTH, CSR_CODE_CLK_CYCLES, CSR_REC_EN, Label
<1>2. ASSUME NEW j \in 1 .. 14, j \notin {6, 10}, NEW l, NEW n, q[j] = Write(l, n)
      PROVE  Field(l) = Word(n) \cap 0 .. l.bitnum - 1
  BY <1>2, StartedField
<1>3. Field(CSR_INPUT_SEL) = Word(GetRealData(s_InputSouce, c.InputSource)) \cap 0 .. 1
  <2>1. q[1] = Write(CSR_INPUT_SEL, GetRealData(s_InputSouce, c.InputSource))
    BY StartCalls, Zenon
  <2> QED BY <1>1, <1>2, <2>1
<1>4. Field(CSR_TRANS_EN) = Word(GetRealData(s_WorkMode, c.WorkMode)) \cap 0 .. 0
  <2>1. q[2] = Write(CSR_TRANS_EN, GetRealData(s_WorkMode, c.WorkMode)) BY StartCalls, Zenon
  <2> QED BY <1>1, <1>2, <2>1
<1>5. Field(CSR_SYNC_MODE) = Word(GetRealData(s_SyncMode, c.SyncMode)) \cap 0 .. 0
  <2>1. q[3] = Write(CSR_SYNC_MODE, GetRealData(s_SyncMode, c.SyncMode)) BY StartCalls, Zenon
  <2> QED BY <1>1, <1>2, <2>1
<1>6. Field(CSR_FLL_SCALE_SET) = Word(GetRealData(s_FullRange, c.FullScalRange)) \cap 0 .. 5
  <2>1. q[4] = Write(CSR_FLL_SCALE_SET, GetRealData(s_FullRange, c.FullScalRange))
    BY StartCalls, Zenon
  <2> QED BY <1>1, <1>2, <2>1
<1>7. Field(CSR_FLT_SEL) = Word(GetRealData(s_Filter, c.LpfFilter)) \cap 0 .. 1
  <2>1. q[5] = Write(CSR_FLT_SEL, GetRealData(s_Filter, c.LpfFilter)) BY StartCalls, Zenon
  <2> QED BY <1>1, <1>2, <2>1
<1>8. Field(CSR_C_TO_IO_CMD) = {}
  <2>1. q[7] = Write(CSR_C_TO_IO_CMD, 0) BY StartCalls, Zenon
  <2> QED BY <1>1, <1>2, <2>1, SmallWords
<1>9. \A n : Word(n) \cap 0 .. 31 = Word(n) BY WordBits
<1>10. Field(CSR_CODE_LENGTH) = Word(CodeLength(c))
  <2>1. q[8] = Write(CSR_CODE_LENGTH, CodeLength(c)) BY StartCalls, Zenon
  <2>2. Field(CSR_CODE_LENGTH) = Word(CodeLength(c)) \cap 0 .. CSR_CODE_LENGTH.bitnum - 1
    BY <1>2, <2>1
  <2> QED BY <1>1, <1>9, <2>2
<1>11. Field(CSR_CODE_CLK_CYCLES) = Word(c.ImpulseWidth * 40)
  <2>1. q[9] = Write(CSR_CODE_CLK_CYCLES, c.ImpulseWidth * 40) BY StartCalls, Zenon
  <2> DEFINE n == c.ImpulseWidth * 40
  <2>2. q[9] = Write(CSR_CODE_CLK_CYCLES, n) BY <2>1
  <2> HIDE DEF n
  <2>3. Field(CSR_CODE_CLK_CYCLES) = Word(n) \cap 0 .. CSR_CODE_CLK_CYCLES.bitnum - 1
    BY <1>2, <2>2
  <2>4. Field(CSR_CODE_CLK_CYCLES) = Word(n) BY <1>1, <1>9, <2>3
  <2> QED BY <2>4 DEF n
<1>12. Armed
  <2>1. q[14] = Write(CSR_REC_EN, 1) BY StartCalls, Zenon
  <2> QED BY <1>1, <1>2, <2>1, SmallWords DEF Armed
<1>13. /\ Field(CSR_T_ACQ) = Word(TAcq(c)) /\ Field(CSR_T_DELTA) = Word(TDelta(c, s))
       /\ Field(CSR_T_START) = {0}
  BY StartedTimes
<1>14. ASSUME NEW k \in DOMAIN Meaning(c)
       PROVE  LET m == Meaning(c)[k]
              IN  m[2] \in DOMAIN m[3] => Field(m[1]) = Word(m[3][m[2]])
  <2>1. k \in {"InputSource", "SyncMode", "LpfFilter", "FullScalRange"}
    BY MeaningOf
  <2>2. CASE k = "InputSource" BY <1>3, <2>2, MeaningOf, TablesMean
  <2>4. CASE k = "SyncMode" BY <1>5, <2>4, MeaningOf, TablesMean
  <2>5. CASE k = "LpfFilter" BY <1>7, <2>5, MeaningOf, TablesMean
  <2>6. CASE k = "FullScalRange" BY <1>6, <2>6, MeaningOf, TablesMean
  <2> QED BY <2>1, <2>2, <2>4, <2>5, <2>6
<1>15. c.WorkMode \in {1, 2} => Field(CSR_TRANS_EN) = IF c.WorkMode = 1 THEN {0} ELSE {}
  BY <1>4, TablesMean
<1>16. Holds(c, s) BY <1>10, <1>11, <1>13, <1>14, <1>15 DEF Holds, CodeInRam
<1> QED BY <1>8, <1>12, <1>13, <1>16

\* When all calls of a STOP were made, the PL is not armed and its timer is cleared.
LEMMA StopComplete ==
    ASSUME mem[6] \in Words, Written(StopWrites, 4)
    PROVE  ~Armed /\ mem[6] = {}
<1> DEFINE q == StopWrites
<1>1. /\ q[1] = Write(CSR_REC_EN, 0) /\ q[2] = Write(CSR_T_ACQ, 0)
      /\ q[3] = Write(CSR_T_DELTA, 0) /\ q[4] = Write(CSR_T_START, 0)
  BY StopCalls
<1> HIDE DEF q
<1>2. /\ CSR_REC_EN # CSR_T_ACQ /\ CSR_REC_EN # CSR_T_DELTA /\ CSR_REC_EN # CSR_T_START
      /\ CSR_T_ACQ # CSR_T_DELTA /\ CSR_T_ACQ # CSR_T_START /\ CSR_T_DELTA # CSR_T_START
  BY DEF CSR_REC_EN, CSR_T_ACQ, CSR_T_DELTA, CSR_T_START, Label
<1>3. /\ q[1].label = CSR_REC_EN /\ q[2].label = CSR_T_ACQ /\ q[3].label = CSR_T_DELTA
      /\ q[4].label = CSR_T_START
      /\ \A j \in 1 .. 4 : q[j].op = "RegWrite" /\ q[j].value = {}
  <2>1. \A j \in 1 .. 4 : j \in {1, 2, 3, 4} OBVIOUS
  <2>2. \A l : Write(l, 0).op = "RegWrite" /\ Write(l, 0).label = l /\ Write(l, 0).value = {}
    BY WriteParts, SmallWords
  <2> QED BY <1>1, <2>1, <2>2
<1>4. \A j \in 1 .. 4 : \A i \in j + 1 .. 4 : q[i].label # q[j].label BY <1>2, <1>3
<1>5. \A j \in 1 .. 4 : Field(q[j].label) = {} BY <1>3, <1>4 DEF Written, q
<1>6. ~Armed BY <1>3, <1>5 DEF Armed
<1>7. Field(CSR_T_ACQ) = {} /\ Field(CSR_T_DELTA) = {} /\ Field(CSR_T_START) = {}
  BY <1>3, <1>5
<1>8. ASSUME NEW l \in Labels, l.offset = 6, Field(l) = {} PROVE mem[6] \cap GetRegMask(l) = {}
  <2>1. l.shift \in Nat /\ l.bitnum \in Nat BY DEF Labels, Bits
  <2>2. ASSUME NEW i \in mem[6] \cap GetRegMask(l) PROVE FALSE
    <3>1. i >= l.shift BY <2>1 DEF GetRegMask
    <3>2. i - l.shift \in Field(l) BY <1>8, <3>1 DEF Field, FieldOf, ShiftRight
    <3> QED BY <1>8, <3>2
  <2> QED BY <2>2
<1>9. /\ GetRegMask(CSR_T_ACQ) = 0 .. 15 /\ GetRegMask(CSR_T_DELTA) = 16 .. 30
      /\ GetRegMask(CSR_T_START) = 31 .. 31
      /\ CSR_T_ACQ.offset = 6 /\ CSR_T_DELTA.offset = 6 /\ CSR_T_START.offset = 6
  BY DEF GetRegMask, CSR_T_ACQ, CSR_T_DELTA, CSR_T_START, Label
<1>10. CSR_T_ACQ \in Labels /\ CSR_T_DELTA \in Labels /\ CSR_T_START \in Labels
  BY FieldsApart DEF Fields
<1>11. /\ mem[6] \cap 0 .. 15 = {} /\ mem[6] \cap 16 .. 30 = {} /\ mem[6] \cap 31 .. 31 = {}
  BY <1>7, <1>8, <1>9, <1>10
<1>12. \A i \in mem[6] : i \in 0 .. 15 \/ i \in 16 .. 30 \/ i \in 31 .. 31 BY DEF Words, Bits
<1> QED BY <1>6, <1>11, <1>12

-----------------------------------------------------------------------------
(* The handlers under way                                                  *)

\* A START, or a STOP, of which k calls were made.
Starting(k) == LET q == StartWrites(ini, second)
               IN  LeftOf(q, k) /\ Written(q, k) /\ (k >= 10 => CodeInRam(ini))
Stopping(k) ==
    /\ LeftOf(StopWrites, k) /\ Written(StopWrites, k) /\ Field(CSR_C_TO_IO_CMD) = {}
    /\ Armed => k = 0 /\ Holds(ini, second) /\ Field(CSR_T_START) = {0}

\* What a handler leaves the PL in.
Settled ==
    /\ Field(CSR_C_TO_IO_CMD) = {}
    /\ IF Armed THEN Holds(ini, second) /\ Field(CSR_T_START) = {0} ELSE mem[6] = {}

\* Between handlers the PL is settled, and within one it has what the calls that
\* were made so far have written.
HandlerInv ==
    /\ RamClean /\ Field(CSR_MODE) = {}
    /\ \/ calls = <<>> /\ Settled
       \/ \E k \in 0 .. 13 : Starting(k)
       \/ \E k \in 0 .. 3 : Stopping(k)

\* The steps of a call that write nothing keep it.
LEMMA HandlerIdle ==
    ASSUME HandlerInv, UNCHANGED <<mem, ram, calls, ini, second>>
    PROVE  HandlerInv'
<1>1. RamClean' = RamClean BY DEF RamClean
<1>2. Settled' = Settled BY DEF Settled, Field, Armed, Holds
<1>3. \A k : Starting(k)' = Starting(k) BY DEF Starting, LeftOf, Written, CodeInRam, Field
<1>4. \A k : Stopping(k)' = Stopping(k)
  BY DEF Stopping, LeftOf, Written, Field, Armed, Holds
<1>5. Field(CSR_MODE)' = Field(CSR_MODE) BY DEF Field
<1> QED BY <1>1, <1>2, <1>3, <1>4, <1>5 DEF HandlerInv

\* What the complete handlers leave, as implications between predicates of a state.
ArmedBy(c, s) ==
    TAcq(c) < 2 ^ 15 /\ Written(StartWrites(c, s), 14) /\ CodeInRam(c) /\ Field(CSR_MODE) = {} =>
        Holds(c, s) /\ Armed /\ Field(CSR_T_START) = {0} /\ Field(CSR_C_TO_IO_CMD) = {}

ArmedByAny == \A c \in Ini, s \in Nat : ArmedBy(c, s)

LEMMA StartLeaves == ArmedByAny
BY StartComplete DEF ArmedByAny, ArmedBy

LEMMA StopLeaves == mem[6] \in Words /\ Written(StopWrites, 4) => ~Armed /\ mem[6] = {}
BY StopComplete

\* The labels of a STOP are fields.
LEMMA StopFields ==
    \A j \in 1 .. 4 : StopWrites[j].op = "RegWrite" /\ StopWrites[j].label \in Fields
<1>1. \A j \in 1 .. 4 : j \in {1, 2, 3, 4} OBVIOUS
<1> QED BY <1>1, StopCalls, WriteParts DEF Fields

\* A write within a START makes one more call of it, and the last settles the PL.
LEMMA StartWrite ==
    ASSUME IInv, TimesFit, HandlerInv, WriteBack, NEW k \in 0 .. 13, Starting(k)
    PROVE  /\ k + 1 # 10 /\ Written(StartWrites(ini, second), k + 1)'
           /\ \A m \in Fields \ {StartWrites(ini, second)[k + 1].label} : Field(m)' = Field(m)
           /\ Field(CSR_MODE)' = {}
           /\ IF k = 13 THEN calls' = <<>> /\ Holds(ini, second)' /\ Armed' /\ Settled'
                        ELSE Starting(k + 1)'
<1> SUFFICES ASSUME NEW c, c = ini, NEW s, s = second, NEW q, q = StartWrites(c, s)
             PROVE  /\ k + 1 # 10 /\ Written(q, k + 1)'
                    /\ \A m \in Fields \ {q[k + 1].label} : Field(m)' = Field(m)
                    /\ Field(CSR_MODE)' = {}
                    /\ IF k = 13 THEN calls' = <<>> /\ Holds(c, s)' /\ Armed' /\ Settled'
                                 ELSE Starting(k + 1)'
  <2>1. ini' = ini /\ second' = second BY DEF WriteBack
  <2> QED BY <2>1 DEF Written, Holds
<1>1. c \in Inis /\ c \in Ini /\ s \in Nat
  <2>1. ini \in Inis /\ second \in Seconds \cup {0} BY DEF IInv, AppInv
  <2> QED BY <2>1, RegistersAssumption
<1>2. calls' = Tail(calls) /\ ini' = c /\ second' = s /\ ram' = ram BY DEF WriteBack
<1>3. q \in Seq(Calls) /\ Len(q) = 14 BY <1>1, StartCalls, ZenonT(30)
<1>4. LeftOf(q, k) /\ Written(q, k) /\ (k >= 10 => CodeInRam(c)) BY DEF Starting
<1>5. k \in 0 .. Len(q) - 1 /\ calls \in Seq(Calls) BY <1>3 DEF IInv, AppInv
<1>6. \A j \in DOMAIN q : q[j].op = "RegWrite" => q[j].label \in Fields
  <2>1. DOMAIN q = 1 .. 14 BY <1>3
  <2> QED BY <1>1, <2>1, StartFields
<1>7. /\ q[k + 1].op = "RegWrite" /\ Written(q, k + 1)'
      /\ \A m \in Fields \ {q[k + 1].label} : Field(m)' = Field(m)
  BY <1>3, <1>4, <1>5, <1>6, NextWritten
<1>8. LeftOf(q, k + 1)' /\ (k = 13 => calls' = <<>>)
  <2>1. LeftOf(q, k + 1)' /\ (k + 1 = Len(q) => calls' = <<>>)
    BY <1>2, <1>3, <1>4, <1>5, NextCall, Zenon
  <2> QED BY <1>3, <2>1
<1>9. k + 1 # 10 BY <1>1, <1>7, StartFields
<1>12. Field(CSR_MODE)' = {}
  <2>1. k + 1 \in (1 .. 14) \ {10} BY <1>9
  <2>2. q[k + 1].label # CSR_MODE BY <1>1, <2>1, StartFields
  <2>3. CSR_MODE \in Fields BY DEF Fields
  <2> QED BY <1>7, <2>2, <2>3 DEF HandlerInv
<1>10. CASE k # 13
  <2>1. k + 1 >= 10 => CodeInRam(c)' BY <1>2, <1>4, <1>9 DEF CodeInRam
  <2>2. Starting(k + 1)' BY <1>2, <1>7, <1>8, <2>1 DEF Starting
  <2> QED BY <1>7, <1>9, <1>10, <1>12, <2>2
<1>11. CASE k = 13
  <2>1. CodeInRam(c)' BY <1>2, <1>4, <1>11 DEF CodeInRam
  <2>2. TAcq(c) < 2 ^ 15 BY <1>1 DEF TimesFit
  <2>3. Written(q, 14)' BY <1>7, <1>11
  <2>4. (Holds(c, s) /\ Armed /\ Field(CSR_T_START) = {0} /\ Field(CSR_C_TO_IO_CMD) = {})'
    <3>1. ArmedByAny' BY StartLeaves, PTL
    <3>2. ArmedBy(c, s)' BY <1>1, <3>1 DEF ArmedByAny
    <3>3. Written(StartWrites(c, s), 14)' BY <2>3
    <3> QED BY <1>12, <2>1, <2>2, <3>2, <3>3, Zenon DEF ArmedBy
  <2>5. Settled' BY <1>2, <2>4 DEF Settled
  <2> QED BY <1>7, <1>8, <1>9, <1>11, <1>12, <2>4, <2>5
<1> QED BY <1>10, <1>11

\* The same of a STOP.
LEMMA StopWrite ==
    ASSUME IInv, WriteBack, NEW k \in 0 .. 3, Stopping(k)
    PROVE  /\ Written(StopWrites, k + 1)'
           /\ \A m \in Fields \ {StopWrites[k + 1].label} : Field(m)' = Field(m)
           /\ Field(CSR_MODE)' = Field(CSR_MODE)
           /\ IF k = 3 THEN calls' = <<>> /\ ~Armed' /\ Settled' ELSE Stopping(k + 1)'
<1> DEFINE q == StopWrites
<1>1. q \in Seq(Calls) /\ Len(q) = 4 BY StopCalls
<1>2. \A j \in DOMAIN q : q[j].op = "RegWrite" => q[j].label \in Fields
  <2>1. DOMAIN q = 1 .. 4 BY <1>1
  <2> QED BY <2>1, StopFields
<1>3. calls' = Tail(calls) BY DEF WriteBack
<1>4. LeftOf(q, k) /\ Written(q, k) /\ Field(CSR_C_TO_IO_CMD) = {} BY DEF Stopping
<1>5. /\ q[k + 1].label \notin {CSR_C_TO_IO_CMD, CSR_MODE}
      /\ CSR_C_TO_IO_CMD \in Fields /\ CSR_MODE \in Fields
  <2>1. \A l \in {CSR_REC_EN, CSR_T_ACQ, CSR_T_DELTA, CSR_T_START} :
            l \notin {CSR_C_TO_IO_CMD, CSR_MODE}
    BY DEF CSR_REC_EN, CSR_T_ACQ, CSR_T_DELTA, CSR_T_START, CSR_C_TO_IO_CMD, CSR_MODE, Label
  <2>2. k + 1 \in {1, 2, 3, 4} OBVIOUS
  <2>3. q[k + 1].label \in {CSR_REC_EN, CSR_T_ACQ, CSR_T_DELTA, CSR_T_START}
    BY <2>2, StopCalls, WriteParts
  <2> QED BY <2>1, <2>3 DEF Fields
<1>12. /\ q[1].op = "RegWrite" /\ q[1].label = CSR_REC_EN /\ q[1].value = {}
       /\ k # 0 => q[k + 1].label # CSR_REC_EN
       /\ CSR_REC_EN \in Fields
  <2>1. \A l \in {CSR_T_ACQ, CSR_T_DELTA, CSR_T_START} : l # CSR_REC_EN
    BY DEF CSR_REC_EN, CSR_T_ACQ, CSR_T_DELTA, CSR_T_START, Label
  <2>2. k # 0 => k + 1 \in {2, 3, 4} OBVIOUS
  <2>3. k # 0 => q[k + 1].label \in {CSR_T_ACQ, CSR_T_DELTA, CSR_T_START}
    BY <2>2, StopCalls, WriteParts
  <2>4. q[1].op = "RegWrite" /\ q[1].label = CSR_REC_EN /\ q[1].value = {}
    BY StopCalls, WriteParts, SmallWords
  <2> QED BY <2>1, <2>3, <2>4 DEF Fields
<1> HIDE DEF q
<1>6. k \in 0 .. Len(q) - 1 /\ calls \in Seq(Calls) BY <1>1 DEF IInv, AppInv
<1>7. /\ Written(q, k + 1)'
      /\ \A m \in Fields \ {q[k + 1].label} : Field(m)' = Field(m)
  BY <1>1, <1>2, <1>4, <1>6, NextWritten
<1>8. LeftOf(q, k + 1)' /\ (k = 3 => calls' = <<>>)
  <2>1. LeftOf(q, k + 1)' /\ (k + 1 = Len(q) => calls' = <<>>)
    BY <1>1, <1>3, <1>4, <1>6, NextCall, Zenon
  <2> QED BY <1>1, <2>1
<1>9. Field(CSR_C_TO_IO_CMD)' = {} /\ Field(CSR_MODE)' = Field(CSR_MODE) BY <1>4, <1>5, <1>7
<1>13. ~Armed'
  <2>1. CASE k = 0
    <3>1. 1 \in 1 .. k + 1 /\ \A i \in 1 + 1 .. k + 1 : FALSE BY <2>1
    <3>2. Field(q[1].label)' = q[1].value \cap 0 .. q[1].label.bitnum - 1
      BY <1>7, <1>12, <3>1 DEF Written
    <3> QED BY <1>12, <3>2 DEF Armed
  <2>2. CASE k # 0
    <3>1. Field(CSR_REC_EN)' = Field(CSR_REC_EN) BY <1>7, <1>12, <2>2
    <3>2. ~Armed BY <2>2 DEF Stopping
    <3> QED BY <3>1, <3>2 DEF Armed
  <2> QED BY <2>1, <2>2
<1>10. CASE k # 3
  <2>1. Stopping(k + 1)' BY <1>7, <1>8, <1>9, <1>13 DEF Stopping, q
  <2> QED BY <1>7, <1>9, <1>10, <2>1 DEF q
<1>11. CASE k = 3
  <2>1. Written(StopWrites, 4)' BY <1>7, <1>11 DEF q
  <2>2. mem'[6] \in Words
    <3>1. IInv' BY StepKeeps DEF Next
    <3> QED BY <3>1 DEF IInv, DeviceInv
  <2>3. (~Armed /\ mem[6] = {})'
    <3>1. (mem[6] \in Words /\ Written(StopWrites, 4) => ~Armed /\ mem[6] = {})'
      BY StopLeaves, PTL
    <3> QED BY <2>1, <2>2, <3>1
  <2>4. Settled' BY <1>9, <2>3 DEF Settled
  <2> QED BY <1>7, <1>8, <1>9, <1>11, <2>3, <2>4 DEF q
<1> QED BY <1>10, <1>11

\* There is a call to make as long as a handler is under way.
LEMMA HandlerBusy ==
    ASSUME IInv
    PROVE  /\ \A k \in 0 .. 13 : Starting(k) =>
                  calls # <<>> /\ Head(calls) = StartWrites(ini, second)[k + 1]
           /\ \A k \in 0 .. 3 : Stopping(k) => calls # <<>> /\ Head(calls) = StopWrites[k + 1]
<1>1. ini \in Ini /\ second \in Nat /\ calls \in Seq(Calls)
  <2>1. ini \in Inis /\ second \in Seconds \cup {0} /\ calls \in Seq(Calls) BY DEF IInv, AppInv
  <2> QED BY <2>1, RegistersAssumption
<1> DEFINE q == StartWrites(ini, second)
<1>2. q \in Seq(Calls) /\ Len(q) = 14 BY <1>1, StartCalls, Zenon
<1>3. ASSUME NEW k \in 0 .. 13, Starting(k) PROVE calls # <<>> /\ Head(calls) = q[k + 1]
  <2>1. LeftOf(q, k) BY <1>3 DEF Starting
  <2> HIDE DEF q
  <2>2. k \in 0 .. Len(q) - 1 BY <1>2
  <2>3. Len(calls) = Len(q) - k /\ calls[1] = q[k + 1] BY <1>2, <2>1, <2>2 DEF LeftOf
  <2> QED BY <1>1, <1>2, <2>2, <2>3
<1>4. ASSUME NEW k \in 0 .. 3, Stopping(k) PROVE calls # <<>> /\ Head(calls) = StopWrites[k + 1]
  <2>1. LeftOf(StopWrites, k) /\ Len(StopWrites) = 4 BY <1>4, StopCalls DEF Stopping
  <2>2. Len(calls) = 4 - k /\ calls[1] = StopWrites[k + 1] BY <2>1 DEF LeftOf
  <2> QED BY <1>1, <2>2
<1> QED BY <1>3, <1>4

\* Every step keeps the invariant of the handlers.
LEMMA HandlerStep ==
    ASSUME IInv, TimesFit, HandlerInv, [Next]_vars
    PROVE  HandlerInv'
<1> USE DEF devVars, appVars
<1>1. CASE Open \/ Seek \/ Read \/ UNCHANGED vars
  <2>1. UNCHANGED <<mem, ram, calls, ini, second>>
    BY <1>1 DEF Open, Dev!open, Seek, Dev!lseek, Read, Dev!read, vars
  <2> QED BY <2>1, HandlerIdle
<1>2. CASE AcqStart
  <2>1. PICK c \in Inis, s \in Seconds :
            ini' = c /\ second' = s /\ calls' = StartWrites(c, s)
    BY <1>2 DEF AcqStart
  <2>2. c \in Ini /\ s \in Nat BY RegistersAssumption
  <2> DEFINE q == StartWrites(c, s)
  <2>3. q \in Seq(Calls) /\ Len(q) = 14 BY <2>2, StartCalls, Zenon
  <2>4. calls' = q /\ q = StartWrites(ini', second') BY <2>1
  <2> HIDE DEF q
  <2>5. LeftOf(q, 0)' BY <2>3, <2>4 DEF LeftOf
  <2>6. Written(q, 0)' BY DEF Written
  <2>7. Starting(0)' BY <2>4, <2>5, <2>6 DEF Starting
  <2>8. RamClean' /\ Field(CSR_MODE)' = {} BY <1>2 DEF AcqStart, RamClean, HandlerInv, Field
  <2> QED BY <2>7, <2>8 DEF HandlerInv
<1>3. CASE AcqStop
  <2>1. calls = <<>> /\ calls' = StopWrites /\ UNCHANGED <<mem, ram, ini, second>>
    BY <1>3 DEF AcqStop, Idle
  <2>2. Settled BY <2>1, HandlerBusy DEF HandlerInv
  <2>8. Settled' BY <2>1, <2>2 DEF Settled, Field, Armed, Holds
  <2>3. /\ Field(CSR_C_TO_IO_CMD)' = {}
        /\ (Armed => Holds(ini, second) /\ Field(CSR_T_START) = {0})'
    BY <2>8 DEF Settled
  <2>4. LeftOf(StopWrites, 0)' BY <2>1, StopCalls DEF LeftOf
  <2>5. Written(StopWrites, 0)' BY DEF Written
  <2>6. Stopping(0)' BY <2>3, <2>4, <2>5 DEF Stopping
  <2>7. RamClean' /\ Field(CSR_MODE)' = {} BY <2>1 DEF RamClean, HandlerInv, Field
  <2> QED BY <2>6, <2>7 DEF HandlerInv
<1>4. CASE SetDataToRam
  <2>1. /\ calls # <<>> /\ Head(calls).op = "SetDataToRam" /\ calls' = Tail(calls)
        /\ UNCHANGED <<mem, ini, second>>
    BY <1>4 DEF SetDataToRam
  <2>2. ASSUME NEW k \in 0 .. 3, Stopping(k) PROVE FALSE
    <3>1. Head(calls) = StopWrites[k + 1] BY <2>2, HandlerBusy
    <3>2. k + 1 \in 1 .. 4 OBVIOUS
    <3>3. StopWrites[k + 1].op = "RegWrite" BY <3>2, StopFields
    <3> QED BY <2>1, <3>1, <3>3
  <2>3. PICK k \in 0 .. 13 : Starting(k) BY <2>1, <2>2 DEF HandlerInv
  <2> SUFFICES ASSUME NEW c, c = ini, NEW s, s = second, NEW q, q = StartWrites(c, s)
               PROVE  HandlerInv'
    OBVIOUS
  <2>4. c \in Ini /\ s \in Nat
    <3>1. ini \in Inis /\ second \in Seconds \cup {0} BY DEF IInv, AppInv
    <3> QED BY <3>1, RegistersAssumption
  <2>5. q \in Seq(Calls) /\ Len(q) = 14 BY <2>4, StartCalls, ZenonT(30)
  <2>6. LeftOf(q, k) /\ Written(q, k) BY <2>3 DEF Starting
  <2>7. Head(calls) = q[k + 1] BY <2>3, HandlerBusy
  <2>8. k = 9
    <3>1. k + 1 \in 1 .. 14 /\ q[k + 1].op # "RegWrite" BY <2>1, <2>7
    <3>2. k + 1 = 10 BY <2>4, <3>1, StartFields
    <3> QED BY <3>2
  <2>9. q[10] = [op |-> "SetDataToRam", n |-> c.SequenceLength] BY <2>4, StartCalls, ZenonT(30)
  <2>10. Head(calls).n = c.SequenceLength BY <2>7, <2>8, <2>9
  <2>11. RamClean' /\ CodeInRam(c)' BY <1>4, <2>4, <2>10, CodeWritten DEF HandlerInv
  <2>12. LeftOf(q, 10)'
    <3>1. k \in 0 .. Len(q) - 1 /\ calls \in Seq(Calls) BY <2>5 DEF IInv, AppInv
    <3>2. LeftOf(q, k + 1)' BY <2>1, <2>5, <2>6, <3>1, NextCall, Zenon
    <3> QED BY <2>8, <3>2
  <2>13. Written(q, 10)'
    <3>1. ASSUME NEW j \in 1 .. 10, q[j].op = "RegWrite",
                 \A i \in j + 1 .. 10 : q[i].op = "RegWrite" => q[i].label # q[j].label
          PROVE  Field(q[j].label)' = q[j].value \cap 0 .. q[j].label.bitnum - 1
      <4>1. j # 10 BY <2>9, <3>1
      <4>2. j \in 1 .. k /\ \A i \in j + 1 .. k : i \in j + 1 .. 10 BY <2>8, <4>1
      <4>3. Field(q[j].label) = q[j].value \cap 0 .. q[j].label.bitnum - 1
        BY <2>6, <3>1, <4>2 DEF Written
      <4> QED BY <2>1, <4>3 DEF Field
    <3> QED BY <3>1 DEF Written
  <2>14. Starting(10)' BY <2>1, <2>11, <2>12, <2>13 DEF Starting
  <2>15. Field(CSR_MODE)' = {} BY <2>1 DEF Field, HandlerInv
  <2> QED BY <2>11, <2>14, <2>15 DEF HandlerInv
<1>5. CASE WriteBack
  <2>1. RamClean' BY <1>5 DEF WriteBack, RamClean, HandlerInv
  <2>2. calls # <<>> BY <1>5 DEF WriteBack, IInv, RegWriteInv
  <2>3. CASE \E k \in 0 .. 13 : Starting(k)
    <3>1. PICK k \in 0 .. 13 : Starting(k) BY <2>3
    <3>2. /\ IF k = 13 THEN calls' = <<>> /\ Settled' ELSE Starting(k + 1)'
          /\ Field(CSR_MODE)' = {}
      BY <1>5, <3>1, StartWrite
    <3>3. k # 13 => k + 1 \in 0 .. 13 OBVIOUS
    <3> QED BY <2>1, <3>2, <3>3 DEF HandlerInv
  <2>4. CASE \E k \in 0 .. 3 : Stopping(k)
    <3>1. PICK k \in 0 .. 3 : Stopping(k) BY <2>4
    <3>2. /\ IF k = 3 THEN calls' = <<>> /\ Settled' ELSE Stopping(k + 1)'
          /\ Field(CSR_MODE)' = {}
      BY <1>5, <3>1, StopWrite DEF HandlerInv
    <3>3. k # 3 => k + 1 \in 0 .. 3 OBVIOUS
    <3> QED BY <2>1, <3>2, <3>3 DEF HandlerInv
  <2> QED BY <2>2, <2>3, <2>4 DEF HandlerInv
<1> QED BY <1>1, <1>2, <1>3, <1>4, <1>5 DEF Next

\* The PL is not armed when the program starts.
LEMMA HandlerInit == Init => HandlerInv
<1> SUFFICES ASSUME Init PROVE HandlerInv
  OBVIOUS
<1>1. mem = [i \in 0 .. 13 |-> {}] /\ ram = [i \in 0 .. 79 |-> {}] /\ calls = <<>>
  BY DEF Init, Dev!Init, Dev!Index
<1>2. \A l \in Fields : Field(l) = {}
  <2> TAKE l \in Fields
  <2>1. l.offset \in 0 .. 13 BY FieldsApart DEF Labels
  <2> QED BY <1>1, <2>1 DEF Field, FieldOf, ShiftRight
<1>3. Field(CSR_C_TO_IO_CMD) = {} /\ Field(CSR_MODE) = {} /\ ~Armed BY <1>2 DEF Fields, Armed
<1>4. Settled BY <1>1, <1>3 DEF Settled
<1> QED BY <1>1, <1>3, <1>4 DEF HandlerInv, RamClean

\* A START that still has calls to make has its last one to make.
LEMMA StartNotOver ==
    ASSUME IInv, NEW k \in 0 .. 13, Starting(k)
    PROVE  StartUnderWay
<1>1. ini \in Ini /\ second \in Nat /\ calls \in Seq(Calls)
  <2>1. ini \in Inis /\ second \in Seconds \cup {0} /\ calls \in Seq(Calls) BY DEF IInv, AppInv
  <2> QED BY <2>1, RegistersAssumption
<1> DEFINE q == StartWrites(ini, second)
<1>2. Len(q) = 14 /\ q[14] = Write(CSR_REC_EN, 1) BY <1>1, StartCalls, Zenon
<1>3. LeftOf(q, k) BY DEF Starting
<1> HIDE DEF q
<1>4. Len(calls) = 14 - k /\ 14 - k \in 1 .. 14 - k /\ k + (14 - k) = 14 BY <1>2, <1>3 DEF LeftOf
<1>5. calls[14 - k] = q[14] BY <1>2, <1>3, <1>4 DEF LeftOf
<1>6. calls # <<>> BY <1>1, <1>4
<1> QED BY <1>2, <1>4, <1>5, <1>6 DEF StartUnderWay

\* Whatever the configurations and the times of the STARTs, and however often one
\* comes without a STOP: but for the writes of a START, an armed PL holds what the
\* last START wrote, and a disarmed one is stopped, if the times fit their fields
\* (Configuration does not see to it) and the PL was loaded with zeros.
THEOREM HoldsWhenArmed == TimesFit /\ Spec => []ConfiguredWhenArmed
<1>1. Init => HandlerInv BY HandlerInit
<1>2. IInv /\ TimesFit /\ HandlerInv /\ [Next]_vars => HandlerInv' BY HandlerStep
<1>3. IInv /\ HandlerInv => ConfiguredWhenArmed
  <2> SUFFICES ASSUME IInv, HandlerInv, ~StartUnderWay
               PROVE  /\ Field(CSR_C_TO_IO_CMD) = {}
                      /\ Armed => Holds(ini, second) /\ Field(CSR_T_START) = {0}
                      /\ Idle /\ ~Armed => mem[6] = {}
    BY DEF ConfiguredWhenArmed
  <2>1. CASE calls = <<>> /\ Settled BY <2>1 DEF Settled
  <2>2. CASE \E k \in 0 .. 13 : Starting(k) BY <2>2, StartNotOver
  <2>3. CASE \E k \in 0 .. 3 : Stopping(k)
    <3>1. PICK k \in 0 .. 3 : Stopping(k) BY <2>3
    <3>2. calls # <<>> BY <3>1, HandlerBusy
    <3> QED BY <3>1, <3>2 DEF Stopping, Idle
  <2> QED BY <2>1, <2>2, <2>3 DEF HandlerInv
<1>4. TimesFit => []TimesFit
  OBVIOUS
<1> QED BY <1>1, <1>2, <1>3, <1>4, RegistersInductive, PTL DEF Spec

\* What the first thirteen calls leave, as a predicate of a state.
TimesBy(c, s) ==
    TAcq(c) < 2 ^ 15 /\ Written(StartWrites(c, s), 13) =>
        Field(CSR_T_ACQ) = Word(TAcq(c)) /\ Field(CSR_T_DELTA) = Word(TDelta(c, s))

TimesByAny == \A c \in Ini, s \in Nat : TimesBy(c, s)

LEMMA TriggerLeaves == TimesByAny
<1> SUFFICES ASSUME NEW c \in Ini, NEW s \in Nat, TAcq(c) < 2 ^ 15,
                    Written(StartWrites(c, s), 13)
             PROVE  Field(CSR_T_ACQ) = Word(TAcq(c)) /\ Field(CSR_T_DELTA) = Word(TDelta(c, s))
  BY DEF TimesByAny, TimesBy
<1>1. 13 \in 13 .. 14 OBVIOUS
<1> QED BY <1>1, StartedTimes

\* The steps at which the PL is armed, and at which its trigger is started, find
\* everything in place.
THEOREM ArmsOnceConfigured == TimesFit /\ Spec => ArmsConfigured
<1> DEFINE A == /\ ~Armed /\ Armed' => Holds(ini, second)' /\ Field(CSR_T_START)' = {0}
                /\ Field(CSR_T_START) = {} /\ Field(CSR_T_START)' = {0} =>
                       /\ Field(CSR_T_ACQ)' = Word(TAcq(ini))
                       /\ Field(CSR_T_DELTA)' = Word(TDelta(ini, second))
<1>1. CSR_REC_EN \in Fields /\ CSR_T_START \in Fields /\ CSR_REC_EN # CSR_T_START
  BY DEF Fields, CSR_REC_EN, CSR_T_START, Label
<1>2. ASSUME IInv, TimesFit, HandlerInv, [Next]_vars PROVE A
  <2>1. CASE ~WriteBack
    <3>1. mem' = mem BY <1>2, <2>1, OnlyWrites
    <3>2. Armed' = Armed /\ Field(CSR_T_START)' = Field(CSR_T_START) BY <3>1 DEF Armed, Field
    <3> QED BY <3>2
  <2>2. CASE WriteBack
    <3>1. calls # <<>> BY <1>2, <2>2 DEF WriteBack, IInv, RegWriteInv
    <3>2. ASSUME NEW k \in 0 .. 13, Starting(k) PROVE A
      <4>1. ini \in Inis /\ ini \in Ini /\ second \in Nat
        <5>1. ini \in Inis /\ second \in Seconds \cup {0} BY <1>2 DEF IInv, AppInv
        <5> QED BY <5>1, RegistersAssumption
      <4>2. PICK q : q = StartWrites(ini, second) OBVIOUS
      <4>3. /\ k + 1 # 10 /\ Written(StartWrites(ini, second), k + 1)'
            /\ \A m \in Fields \ {q[k + 1].label} : Field(m)' = Field(m)
            /\ k = 13 => Holds(ini, second)' /\ Armed' /\ Settled'
        BY <1>2, <2>2, <3>2, <4>2, StartWrite
      <4>4. q[13].label = CSR_T_START /\ q[14].label = CSR_REC_EN
        BY <4>1, <4>2, StartLabels
      <4>5. ASSUME k # 13 PROVE Armed' = Armed
        <5>1. 14 \in (1 .. 14) \ {10} /\ k + 1 \in (1 .. 14) \ {10} /\ k + 1 < 14
          BY <4>3, <4>5
        <5>2. CASE k + 1 # 6
          <6>1. q[14].label # q[k + 1].label BY <4>1, <4>2, <5>1, <5>2, StartFields
          <6> QED BY <1>1, <4>3, <4>4, <6>1 DEF Armed
        <5>3. CASE k + 1 = 6
          <6>1. q[k + 1].label = CSR_C_TO_IO_CMD BY <4>1, <4>2, <5>3, StartLabels
          <6>2. CSR_C_TO_IO_CMD # CSR_REC_EN BY DEF CSR_C_TO_IO_CMD, CSR_REC_EN, Label
          <6> QED BY <1>1, <4>3, <6>1, <6>2 DEF Armed
        <5> QED BY <5>2, <5>3
      <4>6. ASSUME k # 12 PROVE Field(CSR_T_START)' = Field(CSR_T_START)
        <5>1. CASE k = 13 BY <1>1, <4>3, <4>4, <5>1
        <5>2. CASE k # 13 /\ k + 1 # 6
          <6>1. 13 \in (1 .. 14) \ {10} /\ k + 1 \in (1 .. 14) \ {10} /\ k + 1 < 13
            BY <4>3, <4>6, <5>2
          <6>2. q[13].label # q[k + 1].label BY <4>1, <4>2, <5>2, <6>1, StartFields
          <6> QED BY <1>1, <4>3, <4>4, <6>2
        <5>3. CASE k + 1 = 6
          <6>1. q[k + 1].label = CSR_C_TO_IO_CMD BY <4>1, <4>2, <5>3, StartLabels
          <6>2. CSR_C_TO_IO_CMD # CSR_T_START BY DEF CSR_C_TO_IO_CMD, CSR_T_START, Label
          <6> QED BY <1>1, <4>3, <6>1, <6>2
        <5> QED BY <5>1, <5>2, <5>3
      <4>7. ASSUME k = 12 PROVE /\ Field(CSR_T_ACQ)' = Word(TAcq(ini))
                                /\ Field(CSR_T_DELTA)' = Word(TDelta(ini, second))
        <5>1. PICK c, s : c = ini /\ s = second OBVIOUS
        <5>2. c \in Inis /\ c \in Ini /\ s \in Nat BY <4>1, <5>1
        <5>3. ini' = c /\ second' = s BY <2>2, <5>1 DEF WriteBack
        <5>4. TAcq(c) < 2 ^ 15 BY <1>2, <5>2 DEF TimesFit
        <5>5. Written(StartWrites(c, s), 13)' BY <4>3, <4>7, <5>3
        <5>6. TimesByAny' BY TriggerLeaves, PTL
        <5>7. TimesBy(c, s)' BY <5>2, <5>6 DEF TimesByAny
        <5>8. Field(CSR_T_ACQ)' = Word(TAcq(c)) /\ Field(CSR_T_DELTA)' = Word(TDelta(c, s))
          BY <5>4, <5>5, <5>7, Zenon DEF TimesBy
        <5> QED BY <5>1, <5>8
      <4>8. k = 13 => Holds(ini, second)' /\ Field(CSR_T_START)' = {0}
        BY <4>3 DEF Settled
      <4> QED BY <4>5, <4>6, <4>7, <4>8
    <3>3. ASSUME NEW k \in 0 .. 3, Stopping(k) PROVE A
      <4>1. /\ Written(StopWrites, k + 1)'
            /\ \A m \in Fields \ {StopWrites[k + 1].label} : Field(m)' = Field(m)
        BY <1>2, <2>2, <3>3, StopWrite
      <4>2. /\ StopWrites[k + 1].op = "RegWrite" /\ StopWrites[k + 1].value = {}
            /\ StopWrites[k + 1].label \in {CSR_REC_EN, CSR_T_ACQ, CSR_T_DELTA, CSR_T_START}
        <5>1. k + 1 \in {1, 2, 3, 4} OBVIOUS
        <5>2. \A l : Write(l, 0).op = "RegWrite" /\ Write(l, 0).label = l /\ Write(l, 0).value = {}
          BY WriteParts, SmallWords
        <5> QED BY <5>1, <5>2, StopCalls
      <4>3. Field(StopWrites[k + 1].label)' = {}
        <5>1. k + 1 \in 1 .. k + 1 /\ \A i \in (k + 1) + 1 .. k + 1 : FALSE OBVIOUS
        <5>2. Field(StopWrites[k + 1].label)' =
                  StopWrites[k + 1].value \cap 0 .. StopWrites[k + 1].label.bitnum - 1
          BY <4>1, <4>2, <5>1 DEF Written
        <5> QED BY <4>2, <5>2
      <4>4. \A m \in Fields : Field(m)' = Field(m) \/ Field(m)' = {} BY <4>1, <4>3
      <4>5. Armed' => Armed BY <1>1, <4>4 DEF Armed
      <4>6. Field(CSR_T_START)' = {0} => Field(CSR_T_START) = {0} BY <1>1, <4>4
      <4> QED BY <4>5, <4>6
    <3> QED BY <1>2, <3>1, <3>2, <3>3 DEF HandlerInv
  <2> QED BY <2>1, <2>2
<1>3. IInv /\ TimesFit /\ HandlerInv /\ [Next]_vars => [A]_vars BY <1>2
<1>4. TimesFit => []TimesFit
  OBVIOUS
<1>5. Init => HandlerInv BY HandlerInit
<1>6. IInv /\ TimesFit /\ HandlerInv /\ [Next]_vars => HandlerInv' BY HandlerStep
<1> QED BY <1>3, <1>4, <1>5, <1>6, RegistersInductive, PTL DEF Spec, ArmsConfigured
=============================================================================
