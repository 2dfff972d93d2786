------------------------------ MODULE Registers ------------------------------
(***************************************************************************)
(* How the program drives the control registers of the programmable logic:  *)
(* csr.c, whose RegWrite is an lseek, a read and a write of the register     *)
(* device (RegDevice), and the register writes of Configuration, AcqStart    *)
(* and AcqStop in app.c.  The PL sees the registers after every write, so    *)
(* each system call is a step.  The code RAM is the other RegDevice, bram.c; *)
(* only SetDataToRam touches it and the PL reads it once it is triggered, so  *)
(* its loop is one step.                                                      *)
(*                                                                         *)
(* A 32-bit word is the set of its bits that are 1.                          *)
(*                                                                         *)
(* The program starts on a PL that was just loaded and has zeros in every    *)
(* register: no code clears them, and what a restart on an armed PL finds     *)
(* belongs to Startup.  Of Configuration.ini, InitialValue and               *)
(* GenerationPolymerization reach no register: the code generator that       *)
(* takes them is commented out.                                               *)
(***************************************************************************)
EXTENDS Integers, Sequences

CONSTANTS
    Inis,      \* what Configuration.ini may hold
    Seconds,   \* values of gettimeofday when a START comes
    ULONG,     \* 2^32: positions that an unsigned long tells apart
    fd,        \* the file that main.c opens on the register device
    map, NULL  \* its mapping, and none

Bits == 0 .. 31
Words == SUBSET Bits

\* A code of more than 2^11 bits does not fit the buffers (app.c reads beyond
\* s_puiPrbsBuff), and the rate is an index into tables of six.
Ini == [WorkMode : Int, SyncMode : Int, FullScalRange : Int, LpfFilter : Int,
        InputSource : Int, AdcSamplingRates : 0 .. 5, ImpulseWidth : Nat,
        SequenceLength : 0 .. 11]

ASSUME RegistersAssumption ==
    Inis \subseteq Ini /\ Seconds \subseteq Nat /\ NULL # map /\ ULONG \in Nat /\ ULONG >= 14

VARIABLES
    isOpen, pos, mem, virt, live, region, buf, fault,  \* the device
    ram,       \* the words of the code RAM
    calls,     \* the calls that the handler has still to make
    at,        \* the next system call of a RegWrite under way
    ini,       \* the configuration of the last START
    second     \* and the time at which it came

devVars == <<isOpen, pos, mem, virt, live, region, buf, fault>>
appVars == <<calls, ini, second>>
vars == <<devVars, appVars, at, ram>>

Dev == INSTANCE RegDevice
       WITH Files <- {fd}, Sharing <- FALSE, SIZE <- 14, Values <- Words, Zero <- {},
            Offsets <- {}, MaxPos <- 0, Maps <- {map}

-----------------------------------------------------------------------------
(* csr.h and csr.c                                                         *)

Label(offset, shift, bitnum) == [offset |-> offset, shift |-> shift, bitnum |-> bitnum]

CSR_C_TO_IO_CMD     == Label(0, 0, 16)
CSR_TRANS_EN        == Label(2, 13, 1)
CSR_REC_EN          == Label(2, 12, 1)
CSR_SYNC_MODE       == Label(2, 11, 1)
CSR_MODE            == Label(2, 10, 1)   \* never written
CSR_FLT_SEL         == Label(2, 8, 2)
CSR_FLL_SCALE_SET   == Label(2, 2, 6)
CSR_INPUT_SEL       == Label(2, 0, 2)
CSR_CODE_LENGTH     == Label(3, 0, 32)
CSR_CODE_CLK_CYCLES == Label(5, 0, 32)
CSR_T_START         == Label(6, 31, 1)
CSR_T_DELTA         == Label(6, 16, 15)
CSR_T_ACQ           == Label(6, 0, 16)

Labels == [offset : 0 .. 13, shift : Bits, bitnum : 1 .. 32]
Calls == [op : {"RegWrite"}, label : Labels, value : Words]
         \cup [op : {"SetDataToRam"}, n : 0 .. 11]

\* A number as a word, modulo 2^32 (bit 31 in two steps: TLC has no 2^31).
Bit(n, i) == (IF i = 31 THEN (n \div 2 ^ 30) \div 2 ELSE n \div 2 ^ i) % 2
Word(n) == {i \in Bits : Bit(n, i) = 1}

\* Mutant: one bit short.
GetRegMaskShort(l) == l.shift .. l.shift + l.bitnum - 2

GetRegMask(l) == l.shift .. l.shift + l.bitnum - 1

ShiftLeft(w, n) == {i + n : i \in w} \cap Bits
ShiftRight(w, n) == {i - n : i \in {j \in w : j >= n}}

\* What RegRead returns of the word it reads.
FieldOf(w, l) == ShiftRight(w \cap GetRegMask(l), l.shift)

\* Mutant: the value is not masked.
InsertUnmasked(w, l, v) == (w \ GetRegMask(l)) \cup ShiftLeft(v, l.shift)

\* The word that RegWrite writes over the word it read.
Insert(w, l, v) == (w \ GetRegMask(l)) \cup (ShiftLeft(v, l.shift) \cap GetRegMask(l))

-----------------------------------------------------------------------------
(* app.c: what the handlers write                                          *)

\* The tables from what the PC writes into Configuration.ini to what the
\* register takes; a value that is not in the table gives 0.
s_FullRange  == [x \in {3000000, 300000, 30000, 3000, 300} |->
                    CASE x = 3000000 -> 0 [] x = 300000 -> 1 [] x = 30000 -> 2
                      [] x = 3000 -> 3 [] x = 300 -> 7]
s_Filter     == [x \in {0, 12, 120, 1200} |->
                    CASE x = 0 -> 1 [] x = 12 -> 2 [] x = 120 -> 0 [] x = 1200 -> 3]
s_InputSouce == [x \in {1, 2, 3} |-> CASE x = 1 -> 0 [] x = 2 -> 1 [] x = 3 -> 3]
s_SyncMode   == [x \in {0, 1} |-> IF x = 0 THEN 2 ELSE 1]
s_WorkMode   == [x \in {1, 2} |-> IF x = 1 THEN 1 ELSE 0]

GetRealData(table, pcData) == IF pcData \in DOMAIN table THEN table[pcData] ELSE 0

\* s_SampleRateReg runs from 16#1D# down to 16#18#; 16#FF00# is 65280.
s_SampleRateReg(rate) == 29 - rate

Write(l, n) == [op |-> "RegWrite", label |-> l, value |-> Word(n)]

SetSampleRate(rate) == <<Write(CSR_C_TO_IO_CMD, 65280 + s_SampleRateReg(rate)),
                         Write(CSR_C_TO_IO_CMD, 0)>>

\* The buffer that GetLfsrUint fills: zeros, since the call of GetLfsrBit is
\* commented out, and in the last bit of the last word, which no loop sets, b.
GetLfsrUint(n, b) == [i \in 0 .. (2 ^ n \div 32) - 1 |->
                         IF i = (2 ^ n \div 32) - 1 THEN b ELSE {}]

\* The length of the code in bits, the seconds of a record (rounded up) and two
\* more, and the seconds from now to the next multiple of that.
CodeLength(c) == 2 ^ c.SequenceLength - 1
TAcq(c) == (CodeLength(c) * c.ImpulseWidth + 999999) \div 1000000 + 2
TDelta(c, s) == TAcq(c) - (s % TAcq(c))

Configuration(c, s) ==
    <<Write(CSR_INPUT_SEL, GetRealData(s_InputSouce, c.InputSource)),
      Write(CSR_TRANS_EN, GetRealData(s_WorkMode, c.WorkMode)),
      Write(CSR_SYNC_MODE, GetRealData(s_SyncMode, c.SyncMode)),
      Write(CSR_FLL_SCALE_SET, GetRealData(s_FullRange, c.FullScalRange)),
      Write(CSR_FLT_SEL, GetRealData(s_Filter, c.LpfFilter))>>
    \o SetSampleRate(c.AdcSamplingRates) \o
    <<Write(CSR_CODE_LENGTH, CodeLength(c)),
      Write(CSR_CODE_CLK_CYCLES, c.ImpulseWidth * 40),
      [op |-> "SetDataToRam", n |-> c.SequenceLength],
      Write(CSR_T_ACQ, TAcq(c)),
      Write(CSR_T_DELTA, TDelta(c, s)),
      Write(CSR_T_START, 1)>>

\* Mutant: recording is enabled before the configuration is written.
StartWritesEarly(c, s) == <<Write(CSR_REC_EN, 1)>> \o Configuration(c, s)

StartWrites(c, s) == Configuration(c, s) \o <<Write(CSR_REC_EN, 1)>>

\* Mutant: the trigger is left running.
StopWritesKeepTimer == <<Write(CSR_REC_EN, 0), Write(CSR_T_ACQ, 0), Write(CSR_T_DELTA, 0)>>

StopWrites == <<Write(CSR_REC_EN, 0), Write(CSR_T_ACQ, 0), Write(CSR_T_DELTA, 0),
                Write(CSR_T_START, 0)>>

-----------------------------------------------------------------------------
(* The steps                                                               *)

Init ==
    /\ Dev!Init
    /\ ram = [i \in 0 .. 79 |-> {}]
    /\ calls = <<>> /\ at = "closed"
    /\ ini \in Inis /\ second = 0

\* main opens the device once, and never closes it.
Open ==
    /\ at = "closed" /\ at' = "seek"
    /\ Dev!open(fd)
    /\ UNCHANGED <<appVars, ram>>

Idle == at = "seek" /\ calls = <<>>

AcqStart ==
    /\ Idle
    /\ \E c \in Inis, s \in Seconds :
           ini' = c /\ second' = s /\ calls' = StartWrites(c, s)
    /\ UNCHANGED <<devVars, at, ram>>

AcqStop ==
    /\ Idle
    /\ calls' = StopWrites
    /\ UNCHANGED <<devVars, at, ini, second, ram>>

\* The words of the code, with what happens to be on the stack in the last bit.
SetDataToRam ==
    /\ calls # <<>> /\ Head(calls).op = "SetDataToRam"
    /\ \E b \in SUBSET {31} :
           LET code == GetLfsrUint(Head(calls).n, b)
           IN ram' = [i \in 0 .. 79 |-> IF i \in DOMAIN code THEN code[i] ELSE ram[i]]
    /\ calls' = Tail(calls)
    /\ UNCHANGED <<devVars, at, ini, second>>

\* Mutant: the offset is taken in bytes.
SeekBytes ==
    /\ calls # <<>> /\ Head(calls).op = "RegWrite"
    /\ at = "seek" /\ at' = "read"
    /\ Dev!lseek(fd, 4 * Head(calls).label.offset, "set")
    /\ UNCHANGED <<appVars, ram>>

\* RegWrite, one system call at a time.
Seek ==
    /\ calls # <<>> /\ Head(calls).op = "RegWrite"
    /\ at = "seek" /\ at' = "read"
    /\ Dev!lseek(fd, Head(calls).label.offset, "set")
    /\ UNCHANGED <<appVars, ram>>

Read ==
    /\ at = "read" /\ at' = "write"
    /\ Dev!read(fd)
    /\ UNCHANGED <<appVars, ram>>

WriteBack ==
    /\ at = "write" /\ at' = "seek"
    /\ Dev!write(fd, Insert(buf[fd], Head(calls).label, Head(calls).value))
    /\ calls' = Tail(calls)
    /\ UNCHANGED <<ini, second, ram>>

Next == Open \/ AcqStart \/ AcqStop \/ SetDataToRam \/ Seek \/ Read \/ WriteBack

Spec == Init /\ [][Next]_vars

-----------------------------------------------------------------------------
(* Properties                                                              *)

\* The PL's view of a field.
Field(l) == FieldOf(mem[l.offset], l)

Armed == Field(CSR_REC_EN) = {0}

\* What csr.h says the fields mean: FULL_SCALE_..., FILTER_..., INPUT_... and
\* SYNC_MODE_..., by the setting in Configuration.ini.  (The program does not use
\* these names: it has its own tables.)
Meaning(c) ==
    [InputSource   |-> <<CSR_INPUT_SEL, c.InputSource, [x \in {1, 2, 3} |-> <<0, 1, 3>>[x]]>>,
     SyncMode      |-> <<CSR_SYNC_MODE, c.SyncMode, [x \in {0, 1} |-> x]>>,
     LpfFilter     |-> <<CSR_FLT_SEL, c.LpfFilter,
                         [x \in {0, 12, 120, 1200} |->
                            CASE x = 120 -> 0 [] x = 0 -> 1 [] x = 12 -> 2 [] x = 1200 -> 3]>>,
     FullScalRange |-> <<CSR_FLL_SCALE_SET, c.FullScalRange,
                         [x \in {3000000, 300000, 30000, 3000, 300} |->
                            CASE x = 3000000 -> 0 [] x = 300000 -> 1 [] x = 30000 -> 2
                              [] x = 3000 -> 3 [] x = 300 -> 7]>>]

\* The registers hold configuration c for a START at second s, and the RAM the
\* bits of the code, the one that GetLfsrUint leaves to chance not among them.
\* WorkMode is app.c's transmitter (1) or receiver (2) and goes to CSR_TRANS_EN;
\* csr.h's CALIBRATION_MODE and WORK_MODE (0) are values of CSR_MODE, which
\* follows no setting: it stays at WORK_MODE.
Holds(c, s) ==
    /\ c.WorkMode \in {1, 2} => Field(CSR_TRANS_EN) = IF c.WorkMode = 1 THEN {0} ELSE {}
    /\ Field(CSR_MODE) = {}
    /\ \A k \in DOMAIN Meaning(c) :
           LET m == Meaning(c)[k]
           IN m[2] \in DOMAIN m[3] => Field(m[1]) = Word(m[3][m[2]])
    /\ Field(CSR_CODE_LENGTH) = Word(CodeLength(c))
    /\ Field(CSR_CODE_CLK_CYCLES) = Word(c.ImpulseWidth * 40)
    /\ Field(CSR_T_ACQ) = Word(TAcq(c)) /\ Field(CSR_T_DELTA) = Word(TDelta(c, s))
    /\ \A k \in 0 .. CodeLength(c) - 1 : k % 32 \notin ram[k \div 32]

\* The device, the RegWrite under way and its place are well formed, and RegWrite
\* never seeks out of the 14 registers, where the driver drops its data.
TypeOK ==
    /\ Dev!TypeOK /\ pos[fd] < 14 /\ fault = 0
    /\ ram \in [0 .. 79 -> Words]
    /\ calls \in Seq(Calls)
    /\ at \in {"closed", "seek", "read", "write"}
    /\ ini \in Inis /\ second \in Seconds \cup {0}

\* A START that has still to make its last call.
StartUnderWay == calls # <<>> /\ calls[Len(calls)] = Write(CSR_REC_EN, 1)

\* Unless a START is rewriting it, a PL that is armed holds the settings of the
\* last START (in the meaning csr.h gives their fields), its times and its code,
\* with the trigger running, also while a STOP is under way; one that is disarmed
\* between commands has its trigger stopped and cleared (AcqStop); and the
\* sample-rate command that SetSampleRate pulsed is gone.
ConfiguredWhenArmed ==
    ~StartUnderWay =>
        /\ Field(CSR_C_TO_IO_CMD) = {}
        /\ Armed => Holds(ini, second) /\ Field(CSR_T_START) = {0}
        /\ Idle /\ ~Armed => mem[6] = {}

\* The PL is armed by a write that finds everything configured: recording never
\* starts on a half-written configuration, nor the trigger on half-written times.
ArmsConfigured ==
    [][/\ ~Armed /\ Armed' => Holds(ini, second)' /\ Field(CSR_T_START)' = {0}
       /\ Field(CSR_T_START) = {} /\ Field(CSR_T_START)' = {0}
              => Field(CSR_T_ACQ)' = Word(TAcq(ini)) /\ Field(CSR_T_DELTA)' = Word(TDelta(ini, second))
      ]_vars

\* A RegWrite changes no bit of another register and no bit outside its field,
\* although it writes the whole word that it read two system calls earlier.
FieldIsolation ==
    [][\A i \in DOMAIN mem : mem'[i] # mem[i] =>
           LET l == Head(calls).label
           IN i = l.offset /\ mem'[i] \ GetRegMask(l) = mem[i] \ GetRegMask(l)]_vars
=============================================================================
