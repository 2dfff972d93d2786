----------------------------- MODULE Acquisition -----------------------------
(***************************************************************************)
(* The acquisition program of app.c as main.c runs it: the main loop        *)
(*                                                                         *)
(*     App(); if (TRUE == GetReadyFlag()) DeliverData_s();                  *)
(*                                                                         *)
(* and MesgThread, which share the statics of app.c without a lock, with    *)
(* what they work against: the two interrupt devices (each an EventLatch),  *)
(* the digitiser in the programmable logic (PL) that fills the two banks of *)
(* block RAM in turn, and the PC that sends commands.                       *)
(*                                                                         *)
(* A step is one access to shared state or one call.  A read-modify-write   *)
(* of a static is a load and a store; the stores MesgThread makes before    *)
(* its first call are plain stores to distinct statics, which the compiler  *)
(* and the CPU may perform in any order.                                    *)
(***************************************************************************)
EXTENDS Integers, Sequences

CONSTANTS
    PACKAGE_SIZE, BRAM_SIZE,  \* app.h: 32768 and 65536
    ULONG_MOD,                \* the sample lengths are unsigned: 2^64
    Configs,                  \* what Configuration.ini may hold, [len, savePC]
    Commands,                 \* the commands the PC sends
    MaxRecords, MaxCommands,  \* bounds of a run
    Window,                   \* commands the PC has under way at once
    Assumed                   \* what is assumed of the PL, the PC, the SD card

\* The assumptions on the environment, each a timing that nothing in the code
\* enforces; a configuration that leaves one out lets the environment break it.
\*   fresh  no interrupt is left in the drivers from an earlier run
\*   setup  MesgThread has reset the counters and opened the file of a record
\*          before the first bank is full
\*   drain  a bank is read out before the next one is full
\*   gap    a record is delivered before the next trigger (the "+ 2" of T_ACQ)
\*   calm   no command is under way while a trigger is being handled
\*   start  the PC sends START between records only
\*   stop   the PC sends STOP between records only
\*   latch  the PL is disarmed by a STOP before it fills a bank that the main
\*          thread does not wait for: no data interrupt is left in the driver
\*   link   the PC takes every byte that is sent
\*   card   the SD card can always open a file and takes all that is written
Assumptions == {"fresh", "setup", "drain", "gap", "calm", "start", "stop",
                "latch", "link", "card"}

ASSUME SizesAssumption ==
    /\ PACKAGE_SIZE \in Nat \ {0}
    /\ BRAM_SIZE = 2 * PACKAGE_SIZE
    /\ ULONG_MOD \in Nat \ {0}

ASSUME ConfigsAssumption ==
    Configs \subseteq [len : 1 .. ULONG_MOD - 1, savePC : {0, 1}]

ASSUME BoundsAssumption ==
    /\ Commands \subseteq {"START", "STOP", "OTHER"}
    /\ MaxRecords \in Nat /\ MaxCommands \in Nat /\ Window \in Nat
    /\ Assumed \subseteq Assumptions

VARIABLES
    \* the PC and the command socket
    cmdQ,          \* commands in the receive buffer
    tcpCmd,        \* the command word in s_pTcpBuff
    asked, acked,  \* START and STOP commands sent, acknowledgements received
    \* the PL
    recEn,         \* CSR_REC_EN
    regLen,        \* the record length the registers ask for
    plBusy,        \* a record is being sampled
    plRec,         \* number of the record
    plLen,         \* its length
    plPos,         \* how much of it was sampled
    plChunk,       \* how many banks it has filled
    bank,          \* what the banks A and B hold
    \* the interrupt devices: irqHappend of irq.c and of dataIrq.c
    cntIrq, dataIrq,
    \* the statics of app.c
    s_ucIsReady, s_uiFlag, s_ulTotalLen, s_ulSampleLength, s_uiSavePC,
    s_puiConfigBuf, s_puiAddr, s_pSdHPFd,
    \* the two threads
    main,          \* where the main thread is
    ini,           \* the configuration that AcqStart has read
    tmp,           \* value loaded by a read-modify-write of the main thread
    mesg,          \* where MesgThread is
    todo,          \* stores MesgThread has not performed yet
    \* the SD card
    openFiles,     \* files with an open FILE object
    onCard,        \* files in the directory
    fileHdr,       \* configuration in the header of the newest file
    sdName,        \* s_SD_FILE_NAME: the newest file
    crashed,       \* a FILE operation on NULL or on a closed FILE happened
    \* history
    seg,           \* the piece of data last delivered
    sent,          \* bytes delivered since the last trigger
    announced      \* GPS messages sent

pcVars == <<cmdQ, tcpCmd, asked, acked>>
ctlVars == <<recEn, regLen, plBusy>>
plVars == <<plRec, plLen, plPos, plChunk, bank>>
irqVars == <<cntIrq, dataIrq>>
cfgVars == <<s_ulSampleLength, s_uiSavePC, s_puiConfigBuf, ini>>
countVars == <<s_ucIsReady, s_uiFlag, s_ulTotalLen>>
locVars == <<s_puiAddr, tmp>>
mesgVars == <<mesg, todo, announced>>
fileVars == <<s_pSdHPFd, openFiles, onCard, fileHdr, sdName, crashed>>
outVars == <<seg, sent>>
vars == <<pcVars, ctlVars, plVars, irqVars, cfgVars, countVars, locVars, main,
          mesgVars, fileVars, outVars>>

NULL == -1                                     \* a file is numbered by its record
NoData == [rec |-> 0, pos |-> 0, total |-> 0]  \* a bank being filled
NoConfig == [len |-> 0, savePC |-> 0]          \* zeroed, or half written

Acks == {"NONE", "START_ACK", "STOP_ACK"}      \* the buffer is zero at first
BankData == [rec : Nat, pos : Nat, total : Nat]
Segment == [rec : Nat, pos : Nat, len : Nat, total : Nat]

HandlerPlaces == {"config", "header", "header2", "regs", "length", "flag", "recen",
                  "stop", "stopready", "stopflag", "stopfile", "remove", "close", "null"}
DeliverPlaces == {"test", "inc", "incstore", "bank", "size", "small", "medium",
                  "medium2", "large", "large2", "add", "addstore", "done"}
ReadsBank == DeliverPlaces \ {"add", "addstore", "done"}  \* the bank is still needed
MainPlaces == HandlerPlaces \cup DeliverPlaces \cup {"app", "ack", "check", "read"}
MesgPlaces == {"read", "stores", "fclose", "fnull", "fopen", "fwrite", "send"}

\* The remaining length, computed in unsigned arithmetic.
Remaining == (s_ulSampleLength - s_ulTotalLen) % ULONG_MOD

TypePc ==
    /\ cmdQ \in Seq(Commands) /\ tcpCmd \in Commands \cup Acks
    /\ asked \in Nat /\ acked \in Nat

TypePl ==
    /\ recEn \in {0, 1} /\ plBusy \in {0, 1} /\ cntIrq \in {0, 1} /\ dataIrq \in {0, 1}
    /\ regLen \in Nat /\ plLen \in Nat /\ plPos \in Nat /\ plRec \in Nat /\ plChunk \in Nat
    /\ bank \in [{"A", "B"} -> BankData]

TypeStatics ==
    /\ s_ucIsReady \in {0, 1} /\ s_uiFlag \in Nat /\ s_ulTotalLen \in Nat
    /\ s_ulSampleLength \in Nat /\ s_uiSavePC \in {0, 1}
    /\ s_puiConfigBuf \in Configs \cup {NoConfig} /\ ini \in Configs \cup {NoConfig}
    /\ s_puiAddr \in {"A", "B"} /\ tmp \in Nat

TypeThreads ==
    /\ main \in MainPlaces
    /\ mesg \in MesgPlaces /\ todo \subseteq {"ready", "flag", "total"}

TypeCard ==
    /\ s_pSdHPFd \in Nat \cup {NULL} /\ sdName \in Nat
    /\ openFiles \subseteq Nat /\ onCard \subseteq Nat
    /\ fileHdr \in Configs \cup {NoConfig} /\ crashed \in {0, 1}

TypeOut == seg \in Segment /\ sent \in Nat /\ announced \in Nat

TypeOK == TypePc /\ TypePl /\ TypeStatics /\ TypeThreads /\ TypeCard /\ TypeOut

LeftOver == IF "fresh" \in Assumed THEN {0} ELSE {0, 1}

\* The statics are zero; the driver's flag is not the program's to initialise.
Init ==
    /\ cmdQ = <<>> /\ tcpCmd = "NONE" /\ asked = 0 /\ acked = 0
    /\ recEn = 0 /\ regLen = 0 /\ plBusy = 0 /\ plRec = 0
    /\ plLen = 0 /\ plPos = 0 /\ plChunk = 0
    /\ bank = [b \in {"A", "B"} |-> NoData]
    /\ cntIrq \in LeftOver /\ dataIrq \in LeftOver
    /\ s_ucIsReady = 0 /\ s_uiFlag = 0 /\ s_ulTotalLen = 0
    /\ s_ulSampleLength = 0 /\ s_uiSavePC = 0 /\ s_puiConfigBuf = NoConfig
    /\ s_puiAddr = "A" /\ s_pSdHPFd = NULL
    /\ main = "app" /\ ini = NoConfig /\ tmp = 0
    /\ mesg = "read" /\ todo = {}
    /\ openFiles = {} /\ onCard = {} /\ fileHdr = NoConfig /\ sdName = 0
    /\ crashed = 0
    /\ seg = [rec |-> 0, pos |-> 0, len |-> 0, total |-> 0] /\ sent = 0
    /\ announced = 0

-----------------------------------------------------------------------------
(* The main thread: App                                                    *)

At(place) == crashed = 0 /\ main = place
Step(from, to) == At(from) /\ main' = to

\* recvfrom finds nothing.
AppIdle ==
    /\ Step("app", "check")
    /\ cmdQ = <<>>
    /\ UNCHANGED <<pcVars, ctlVars, plVars, irqVars, cfgVars, countVars, locVars,
                   mesgVars, fileVars, outVars>>

\* recvfrom takes all that has arrived; only the first command is looked at.
\* A command without a handler is echoed.
AppRecv ==
    /\ At("app")
    /\ cmdQ # <<>>
    /\ tcpCmd' = Head(cmdQ)
    /\ cmdQ' = <<>>
    /\ \/ tcpCmd' = "START" /\ main' = "config"
       \/ tcpCmd' = "STOP" /\ main' = "stop"
       \/ tcpCmd' \notin {"START", "STOP"} /\ main' = "ack"
    /\ UNCHANGED <<asked, acked, ctlVars, plVars, irqVars, cfgVars, countVars,
                   locVars, mesgVars, fileVars, outVars>>

\* send of s_pTcpBuff at the end of App.
AppSend ==
    /\ Step("ack", "check")
    /\ acked' = IF tcpCmd \in Acks THEN acked + 1 ELSE acked
    /\ UNCHANGED <<cmdQ, tcpCmd, asked, ctlVars, plVars, irqVars, cfgVars,
                   countVars, locVars, mesgVars, fileVars, outVars>>

-----------------------------------------------------------------------------
(* AcqStart: Configuration, then s_uiFlag = 0 and REC_EN = 1               *)

\* Read Configuration.ini; of what is read only s_uiSavePC is shared.
ConfigRead ==
    /\ Step("config", "header")
    /\ \E c \in Configs : ini' = c /\ s_uiSavePC' = c.savePC
    /\ UNCHANGED <<pcVars, ctlVars, plVars, irqVars, s_ulSampleLength,
                   s_puiConfigBuf, countVars, locVars, mesgVars, fileVars, outVars>>

\* s_puiConfigBuf is written word by word; between the two steps it is torn.
ConfigHeader ==
    /\ \/ Step("header", "header2") /\ s_puiConfigBuf' = NoConfig
       \/ Step("header2", "regs") /\ s_puiConfigBuf' = ini
    /\ UNCHANGED <<pcVars, ctlVars, plVars, irqVars, s_ulSampleLength, s_uiSavePC,
                   ini, countVars, locVars, mesgVars, fileVars, outVars>>

\* The PL's registers.  (CSR_T_START is set later, but REC_EN gates the PL.)  The
\* PL is told bits, cycles and a rate, and s_ulSampleLength is computed from the
\* same three (app.c:705): that both come to one length, not 0, is assumed.
ConfigRegs ==
    /\ Step("regs", "length")
    /\ regLen' = ini.len
    /\ UNCHANGED <<pcVars, recEn, plBusy, plVars, irqVars, cfgVars, countVars,
                   locVars, mesgVars, fileVars, outVars>>

ConfigLength ==
    /\ Step("length", "flag")
    /\ s_ulSampleLength' = ini.len
    /\ UNCHANGED <<pcVars, ctlVars, plVars, irqVars, s_uiSavePC, s_puiConfigBuf,
                   ini, countVars, locVars, mesgVars, fileVars, outVars>>

StartFlag ==
    /\ Step("flag", "recen")
    /\ s_uiFlag' = 0
    /\ UNCHANGED <<pcVars, ctlVars, plVars, irqVars, cfgVars, s_ucIsReady,
                   s_ulTotalLen, locVars, mesgVars, fileVars, outVars>>

StartRecEn ==
    /\ Step("recen", "ack")
    /\ recEn' = 1
    /\ tcpCmd' = "START_ACK"
    /\ UNCHANGED <<cmdQ, asked, acked, regLen, plBusy, plVars, irqVars, cfgVars,
                   countVars, locVars, mesgVars, fileVars, outVars>>

-----------------------------------------------------------------------------
(* AcqStop                                                                 *)

\* REC_EN = 0 and the timing registers: the PL gives up the record it samples.
StopRecEn ==
    /\ Step("stop", "stopready")
    /\ recEn' = 0 /\ plBusy' = 0
    /\ tcpCmd' = "STOP_ACK"
    /\ UNCHANGED <<cmdQ, asked, acked, regLen, plVars, irqVars, cfgVars, countVars,
                   locVars, mesgVars, fileVars, outVars>>

\* Mutant: the ready flag is left up.
StopReadyForgotten ==
    /\ Step("stopready", "stopflag")
    /\ UNCHANGED <<pcVars, ctlVars, plVars, irqVars, cfgVars, countVars, locVars,
                   mesgVars, fileVars, outVars>>

StopReady ==
    /\ Step("stopready", "stopflag")
    /\ s_ucIsReady' = 0
    /\ UNCHANGED <<pcVars, ctlVars, plVars, irqVars, cfgVars, s_uiFlag,
                   s_ulTotalLen, locVars, mesgVars, fileVars, outVars>>

StopFlag ==
    /\ Step("stopflag", "stopfile")
    /\ s_uiFlag' = 0
    /\ UNCHANGED <<pcVars, ctlVars, plVars, irqVars, cfgVars, s_ucIsReady,
                   s_ulTotalLen, locVars, mesgVars, fileVars, outVars>>

\* Mutant: the test of s_uiSavePC is the wrong way round.
StopFileInverted ==
    /\ At("stopfile")
    /\ main' = IF s_uiSavePC = 1 /\ s_pSdHPFd # NULL THEN "remove" ELSE "ack"
    /\ UNCHANGED <<pcVars, ctlVars, plVars, irqVars, cfgVars, countVars, locVars,
                   mesgVars, fileVars, outVars>>

\* if (s_uiSavePC == 0) if (s_pSdHPFd != NULL)
StopFile ==
    /\ At("stopfile")
    /\ main' = IF s_uiSavePC = 0 /\ s_pSdHPFd # NULL THEN "remove" ELSE "ack"
    /\ UNCHANGED <<pcVars, ctlVars, plVars, irqVars, cfgVars, countVars, locVars,
                   mesgVars, fileVars, outVars>>

StopRemove ==
    /\ Step("remove", "close")
    /\ onCard' = onCard \ {sdName}
    /\ UNCHANGED <<pcVars, ctlVars, plVars, irqVars, cfgVars, countVars, locVars,
                   mesgVars, s_pSdHPFd, openFiles, fileHdr, sdName, crashed, outVars>>

\* fclose of s_pSdHPFd; of NULL or of a closed FILE it is undefined.
Fclose ==
    /\ openFiles' = openFiles \ {s_pSdHPFd}
    /\ crashed' = IF s_pSdHPFd \in openFiles THEN crashed ELSE 1

StopFclose ==
    /\ Step("close", "null")
    /\ Fclose
    /\ UNCHANGED <<pcVars, ctlVars, plVars, irqVars, cfgVars, countVars, locVars,
                   mesgVars, s_pSdHPFd, onCard, fileHdr, sdName, outVars>>

\* Mutant: the pointer to the closed file is kept.
StopNullForgotten ==
    /\ Step("null", "ack")
    /\ UNCHANGED <<pcVars, ctlVars, plVars, irqVars, cfgVars, countVars, locVars,
                   mesgVars, fileVars, outVars>>

StopNull ==
    /\ Step("null", "ack")
    /\ s_pSdHPFd' = NULL
    /\ UNCHANGED <<pcVars, ctlVars, plVars, irqVars, cfgVars, countVars, locVars,
                   mesgVars, openFiles, onCard, fileHdr, sdName, crashed, outVars>>

-----------------------------------------------------------------------------
(* The main thread: if (TRUE == GetReadyFlag()) DeliverData_s()            *)

CheckReady ==
    /\ At("check")
    /\ main' = IF s_ucIsReady = 1 THEN "read" ELSE "app"
    /\ UNCHANGED <<pcVars, ctlVars, plVars, irqVars, cfgVars, countVars, locVars,
                   mesgVars, fileVars, outVars>>

\* read of the data interrupt: blocks until the latch is set, and empties it.
DataRead ==
    /\ Step("read", "test")
    /\ dataIrq = 1
    /\ dataIrq' = 0
    /\ UNCHANGED <<pcVars, ctlVars, plVars, cntIrq, cfgVars, countVars, locVars,
                   mesgVars, fileVars, outVars>>

DeliverTest ==
    /\ At("test")
    /\ main' = IF s_ucIsReady = 1 THEN "inc" ELSE "app"
    /\ UNCHANGED <<pcVars, ctlVars, plVars, irqVars, cfgVars, countVars, locVars,
                   mesgVars, fileVars, outVars>>

\* s_uiFlag++ (only its parity is used, so its width does not matter)
FlagLoad ==
    /\ Step("inc", "incstore")
    /\ tmp' = s_uiFlag
    /\ UNCHANGED <<pcVars, ctlVars, plVars, irqVars, cfgVars, countVars, s_puiAddr,
                   mesgVars, fileVars, outVars>>

\* Mutant: the counter runs down.
FlagStoreDown ==
    /\ Step("incstore", "bank")
    /\ s_uiFlag' = tmp - 1
    /\ UNCHANGED <<pcVars, ctlVars, plVars, irqVars, cfgVars, s_ucIsReady,
                   s_ulTotalLen, locVars, mesgVars, fileVars, outVars>>

FlagStore ==
    /\ Step("incstore", "bank")
    /\ s_uiFlag' = tmp + 1
    /\ UNCHANGED <<pcVars, ctlVars, plVars, irqVars, cfgVars, s_ucIsReady,
                   s_ulTotalLen, locVars, mesgVars, fileVars, outVars>>

\* Mutant: the banks are swapped.
SelectBankSwapped ==
    /\ Step("bank", "size")
    /\ s_puiAddr' = IF s_uiFlag % 2 = 0 THEN "A" ELSE "B"
    /\ UNCHANGED <<pcVars, ctlVars, plVars, irqVars, cfgVars, countVars, tmp,
                   mesgVars, fileVars, outVars>>

\* Odd interrupts since the trigger are for bank A, even ones for bank B.
SelectBank ==
    /\ Step("bank", "size")
    /\ s_puiAddr' = IF s_uiFlag % 2 = 1 THEN "A" ELSE "B"
    /\ UNCHANGED <<pcVars, ctlVars, plVars, irqVars, cfgVars, countVars, tmp,
                   mesgVars, fileVars, outVars>>

\* Mutant: < for <= against BRAM_SIZE.
SizeTestOffByOne ==
    /\ At("size")
    /\ \/ Remaining <= PACKAGE_SIZE /\ main' = "small"
       \/ Remaining > PACKAGE_SIZE /\ Remaining < BRAM_SIZE /\ main' = "medium"
       \/ Remaining >= BRAM_SIZE /\ main' = "large"
    /\ UNCHANGED <<pcVars, ctlVars, plVars, irqVars, cfgVars, countVars, locVars,
                   mesgVars, fileVars, outVars>>

SizeTest ==
    /\ At("size")
    /\ \/ Remaining <= PACKAGE_SIZE /\ main' = "small"
       \/ Remaining > PACKAGE_SIZE /\ Remaining <= BRAM_SIZE /\ main' = "medium"
       \/ Remaining > BRAM_SIZE /\ main' = "large"
    /\ UNCHANGED <<pcVars, ctlVars, plVars, irqVars, cfgVars, countVars, locVars,
                   mesgVars, fileVars, outVars>>

\* n bytes from offset off of the selected bank leave the board: what they are
\* is what the bank holds now.
Emit(off, n) ==
    LET b == bank[s_puiAddr] IN
    /\ seg' = [rec |-> b.rec, pos |-> b.pos + off, len |-> n, total |-> b.total]
    /\ sent' = sent + n

\* send on the blocking data socket; its result is ignored, and it may have
\* failed or timed out (SO_SNDTIMEO).
SendPiece(off, n) ==
    /\ \/ Emit(off, n)
       \/ "link" \notin Assumed /\ UNCHANGED outVars
    /\ UNCHANGED fileVars

\* fwrite of the whole length to the SD file; its result is ignored, and it may
\* have failed on a full card.
Fwrite(n) ==
    /\ \/ s_pSdHPFd \in openFiles /\ Emit(0, n) /\ UNCHANGED crashed
       \/ "card" \notin Assumed /\ s_pSdHPFd \in openFiles /\ UNCHANGED <<crashed, outVars>>
       \/ s_pSdHPFd \notin openFiles /\ crashed' = 1 /\ UNCHANGED outVars
    /\ UNCHANGED <<s_pSdHPFd, openFiles, onCard, fileHdr, sdName>>

DeliverUnchanged ==
    UNCHANGED <<pcVars, ctlVars, plVars, irqVars, cfgVars, countVars, locVars, mesgVars>>

\* At most PACKAGE_SIZE bytes are left.
DeliverSmall ==
    /\ Step("small", "done")
    /\ IF s_uiSavePC = 0 THEN Fwrite(Remaining) ELSE SendPiece(0, Remaining)
    /\ DeliverUnchanged

\* More than PACKAGE_SIZE, at most BRAM_SIZE: one fwrite, or two sends.
DeliverMedium ==
    /\ \/ Step("medium", "done") /\ s_uiSavePC = 0 /\ Fwrite(Remaining)
       \/ Step("medium", "medium2") /\ s_uiSavePC # 0 /\ SendPiece(0, PACKAGE_SIZE)
       \/ Step("medium2", "done")
          /\ SendPiece(PACKAGE_SIZE, (Remaining - PACKAGE_SIZE) % ULONG_MOD)
    /\ DeliverUnchanged

\* Mutant: the second send starts at the beginning of the bank again.
DeliverLargeSameHalf ==
    /\ \/ Step("large", "add") /\ s_uiSavePC = 0 /\ Fwrite(BRAM_SIZE)
       \/ Step("large", "large2") /\ s_uiSavePC # 0 /\ SendPiece(0, PACKAGE_SIZE)
       \/ Step("large2", "add") /\ SendPiece(0, PACKAGE_SIZE)
    /\ DeliverUnchanged

\* A full bank, and more to come.
DeliverLarge ==
    /\ \/ Step("large", "add") /\ s_uiSavePC = 0 /\ Fwrite(BRAM_SIZE)
       \/ Step("large", "large2") /\ s_uiSavePC # 0 /\ SendPiece(0, PACKAGE_SIZE)
       \/ Step("large2", "add") /\ SendPiece(PACKAGE_SIZE, PACKAGE_SIZE)
    /\ DeliverUnchanged

DeliverDone ==
    /\ Step("done", "app")
    /\ s_ucIsReady' = 0
    /\ UNCHANGED <<pcVars, ctlVars, plVars, irqVars, cfgVars, s_uiFlag,
                   s_ulTotalLen, locVars, mesgVars, fileVars, outVars>>

\* s_ulTotalLen += BRAM_SIZE
TotalLoad ==
    /\ Step("add", "addstore")
    /\ tmp' = s_ulTotalLen
    /\ UNCHANGED <<pcVars, ctlVars, plVars, irqVars, cfgVars, countVars, s_puiAddr,
                   mesgVars, fileVars, outVars>>

\* Mutant: the total is advanced by a package.
TotalStorePackage ==
    /\ Step("addstore", "app")
    /\ s_ulTotalLen' = (tmp + PACKAGE_SIZE) % ULONG_MOD
    /\ UNCHANGED <<pcVars, ctlVars, plVars, irqVars, cfgVars, s_ucIsReady, s_uiFlag,
                   locVars, mesgVars, fileVars, outVars>>

TotalStore ==
    /\ Step("addstore", "app")
    /\ s_ulTotalLen' = (tmp + BRAM_SIZE) % ULONG_MOD
    /\ UNCHANGED <<pcVars, ctlVars, plVars, irqVars, cfgVars, s_ucIsReady, s_uiFlag,
                   locVars, mesgVars, fileVars, outVars>>

MainThread ==
    \/ AppIdle \/ AppRecv \/ AppSend
    \/ ConfigRead \/ ConfigHeader \/ ConfigRegs \/ ConfigLength
    \/ StartFlag \/ StartRecEn
    \/ StopRecEn \/ StopReady \/ StopFlag
    \/ StopFile \/ StopRemove \/ StopFclose \/ StopNull
    \/ CheckReady \/ DataRead \/ DeliverTest \/ FlagLoad \/ FlagStore
    \/ SelectBank \/ SizeTest \/ DeliverSmall \/ DeliverMedium \/ DeliverLarge
    \/ DeliverDone \/ TotalLoad \/ TotalStore

-----------------------------------------------------------------------------
(* MesgThread                                                              *)

MesgAt(place) == crashed = 0 /\ mesg = place
MesgStep(from, to) == MesgAt(from) /\ mesg' = to

MesgUnchanged == UNCHANGED <<pcVars, ctlVars, plVars, dataIrq, cfgVars, locVars, main, outVars>>

\* read of the counter interrupt.
MesgRead ==
    /\ MesgStep("read", "stores")
    /\ cntIrq = 1
    /\ cntIrq' = 0
    /\ todo' = {"ready", "flag", "total"}
    /\ MesgUnchanged
    /\ UNCHANGED <<countVars, announced, fileVars>>

\* s_ucIsReady = TRUE; s_uiFlag = 0; s_ulTotalLen = 0, in any order.
MesgStore ==
    /\ MesgAt("stores")
    /\ \E x \in todo :
           /\ todo' = todo \ {x}
           /\ s_ucIsReady' = IF x = "ready" THEN 1 ELSE s_ucIsReady
           /\ s_uiFlag' = IF x = "flag" THEN 0 ELSE s_uiFlag
           /\ s_ulTotalLen' = IF x = "total" THEN 0 ELSE s_ulTotalLen
    /\ MesgUnchanged
    /\ UNCHANGED <<cntIrq, mesg, announced, fileVars>>

\* Mutant: an open file is used for the next record as well.
MesgTestReuse ==
    /\ MesgAt("stores")
    /\ todo = {}
    /\ mesg' = IF s_uiSavePC = 0 /\ s_pSdHPFd = NULL THEN "fopen" ELSE "send"
    /\ MesgUnchanged
    /\ UNCHANGED <<cntIrq, countVars, todo, announced, fileVars>>

\* Mutant: the file of the previous record is not closed.
MesgTestNoClose ==
    /\ MesgAt("stores")
    /\ todo = {}
    /\ mesg' = IF s_uiSavePC # 0 THEN "send" ELSE "fopen"
    /\ MesgUnchanged
    /\ UNCHANGED <<cntIrq, countVars, todo, announced, fileVars>>

\* if (s_uiSavePC == 0) { if (s_pSdHPFd != NULL) ... }
MesgTest ==
    /\ MesgAt("stores")
    /\ todo = {}
    /\ \/ s_uiSavePC # 0 /\ mesg' = "send"
       \/ s_uiSavePC = 0 /\ s_pSdHPFd # NULL /\ mesg' = "fclose"
       \/ s_uiSavePC = 0 /\ s_pSdHPFd = NULL /\ mesg' = "fopen"
    /\ MesgUnchanged
    /\ UNCHANGED <<cntIrq, countVars, todo, announced, fileVars>>

MesgFclose ==
    /\ MesgStep("fclose", "fnull")
    /\ Fclose
    /\ MesgUnchanged
    /\ UNCHANGED <<cntIrq, countVars, todo, announced, s_pSdHPFd, onCard, fileHdr, sdName>>

MesgNull ==
    /\ MesgStep("fnull", "fopen")
    /\ s_pSdHPFd' = NULL
    /\ MesgUnchanged
    /\ UNCHANGED <<cntIrq, countVars, todo, announced, openFiles, onCard, fileHdr,
                   sdName, crashed>>

\* A new file, named for the second of this trigger.  A failure is printed.
MesgFopen ==
    /\ MesgStep("fopen", "fwrite")
    /\ sdName' = plRec
    /\ \/ /\ s_pSdHPFd' = plRec
          /\ openFiles' = openFiles \cup {plRec}
          /\ onCard' = onCard \cup {plRec}
       \/ /\ "card" \notin Assumed
          /\ s_pSdHPFd' = NULL
          /\ UNCHANGED <<openFiles, onCard>>
    /\ fileHdr' = NoConfig
    /\ MesgUnchanged
    /\ UNCHANGED <<cntIrq, countVars, todo, announced, crashed>>

\* fwrite of s_puiConfigBuf: the header of the file.  Its result is ignored.
MesgHeader ==
    /\ MesgStep("fwrite", "send")
    /\ \/ /\ s_pSdHPFd \in openFiles
          /\ \/ fileHdr' = s_puiConfigBuf
             \/ "card" \notin Assumed /\ UNCHANGED fileHdr
          /\ UNCHANGED crashed
       \/ /\ s_pSdHPFd \notin openFiles
          /\ crashed' = 1
          /\ UNCHANGED fileHdr
    /\ MesgUnchanged
    /\ UNCHANGED <<cntIrq, countVars, todo, announced, s_pSdHPFd, openFiles, onCard, sdName>>

MesgSend ==
    /\ MesgStep("send", "read")
    /\ announced' = announced + 1
    /\ MesgUnchanged
    /\ UNCHANGED <<cntIrq, countVars, todo, fileVars>>

MesgThread ==
    \/ MesgRead \/ MesgStore \/ MesgTest \/ MesgFclose \/ MesgNull
    \/ MesgFopen \/ MesgHeader \/ MesgSend

-----------------------------------------------------------------------------
(* External: the digitiser                                                 *)

\* The main thread is not busy with data and MesgThread not with a trigger.
Settled == mesg = "read" /\ cntIrq = 0 /\ s_ucIsReady = 0 /\ main \notin DeliverPlaces

\* The PL starts a record and raises the counter interrupt.
PlTrigger ==
    /\ recEn = 1 /\ plBusy = 0
    /\ plRec < MaxRecords
    /\ "gap" \in Assumed => Settled
    /\ "calm" \in Assumed => cmdQ = <<>> /\ main \notin HandlerPlaces
    /\ plBusy' = 1
    /\ plRec' = plRec + 1
    /\ plLen' = regLen
    /\ plPos' = 0 /\ plChunk' = 0
    /\ bank' = [bank EXCEPT !["A"] = NoData]
    /\ cntIrq' = 1
    /\ sent' = 0
    /\ UNCHANGED <<pcVars, recEn, regLen, dataIrq, cfgVars, countVars, locVars, main,
                   mesgVars, fileVars, seg>>

\* A STOP has arrived and has not yet disarmed the PL.
StopPending == main = "stop" \/ \E i \in DOMAIN cmdQ : cmdQ[i] = "STOP"

\* The PL has filled a bank, or sampled the end of the record: it raises the
\* data interrupt and goes on in the other bank.
PlFill ==
    LET this == IF plChunk % 2 = 0 THEN "A" ELSE "B"
        more == plLen - plPos > BRAM_SIZE
    IN  /\ recEn = 1 /\ plBusy = 1
        /\ "setup" \in Assumed => mesg \in {"read", "send"} /\ cntIrq = 0
        /\ "drain" \in Assumed /\ plChunk > 0 => dataIrq = 0 /\ main \notin ReadsBank
        /\ "latch" \in Assumed /\ StopPending => main = "read"
        /\ bank' = [b \in {"A", "B"} |->
                       IF b = this THEN [rec |-> plRec, pos |-> plPos, total |-> plLen]
                       ELSE IF more THEN NoData ELSE bank[b]]
        /\ plPos' = IF more THEN plPos + BRAM_SIZE ELSE plLen
        /\ plChunk' = plChunk + 1
        /\ plBusy' = IF more THEN 1 ELSE 0
        /\ dataIrq' = 1
        /\ UNCHANGED <<pcVars, recEn, regLen, plRec, plLen, cntIrq, cfgVars, countVars,
                       locVars, main, mesgVars, fileVars, outVars>>

-----------------------------------------------------------------------------
(* External: the PC                                                        *)

\* The commands that are assumed to come between records.
Restricted == {c \in Commands : \/ c = "START" /\ "start" \in Assumed
                                \/ c = "STOP" /\ "stop" \in Assumed}

PcSend ==
    \E c \in Commands :
        /\ Len(cmdQ) < Window
        /\ "calm" \in Assumed => mesg = "read" /\ cntIrq = 0
        /\ c \in Restricted => Settled /\ plBusy = 0
        /\ "latch" \in Assumed /\ c = "STOP" => dataIrq = 0 \/ main = "read"
        /\ cmdQ' = Append(cmdQ, c)
        /\ IF c = "OTHER" THEN UNCHANGED asked
           ELSE asked < MaxCommands /\ asked - acked < Window /\ asked' = asked + 1
        /\ UNCHANGED <<tcpCmd, acked, ctlVars, plVars, irqVars, cfgVars, countVars, locVars,
                       main, mesgVars, fileVars, outVars>>

-----------------------------------------------------------------------------

Next == MainThread \/ MesgThread \/ PlTrigger \/ PlFill \/ PcSend

Spec == Init /\ [][Next]_vars

\* Linux runs both threads, and the PL goes on with a record it has begun.
Fairness == WF_vars(MainThread) /\ WF_vars(MesgThread) /\ WF_vars(PlFill)

FairSpec == Spec /\ Fairness

-----------------------------------------------------------------------------
(* Properties                                                              *)

\* The data that left the board since the trigger is the beginning of the
\* record being sampled, every byte once and in order: each bank is read after
\* the PL has filled it and before the PL writes it again, s_uiFlag picks the
\* right bank and s_ulTotalLen the right length.  This is what the disabled
\* self-test of DeliverData_s compares (s_uiCheck).
Intact ==
    \/ sent = 0
    \/ /\ seg.rec = plRec
       /\ seg.pos + seg.len = sent
       /\ sent <= plLen

\* A record that nobody works on any more was delivered to its last byte and
\* was announced by one GPS message, and the ready flag is down again.
RecordComplete ==
    plBusy = 0 /\ mesg = "read" /\ cntIrq = 0 /\ dataIrq = 0 /\ main = "app" /\ plRec > 0
    => sent = plLen /\ announced = plRec /\ s_ucIsReady = 0

\* While a record is saved to the SD card, it goes to a file of its own that
\* is open and whose header holds the configuration the record was made with.
FileDescribesRecord ==
    s_uiSavePC = 0 /\ s_ucIsReady = 1 /\ sent > 0
    => /\ s_pSdHPFd = plRec
       /\ s_pSdHPFd \in openFiles
       /\ fileHdr.len = plLen

\* No FILE operation is made on NULL or on a closed FILE.
NoFileFault == crashed = 0

\* Once STOP is acknowledged and MesgThread is back in read(), the SD file is
\* closed and removed (AcqStop: "if save sd selected, remove the file").
StopRemovesFile ==
    recEn = 0 /\ tcpCmd = "STOP_ACK" /\ main = "app" /\ mesg = "read" /\ cntIrq = 0
    /\ s_uiSavePC = 0
    => s_pSdHPFd = NULL /\ sdName \notin onCard

\* Whatever the interleaving of AcqStop and MesgThread, no FILE is leaked: an
\* open FILE is the one s_pSdHPFd points to.
NoFileLeak == crashed = 0 => openFiles \subseteq {s_pSdHPFd}

\* Why: between the close and the reset of the pointer in one thread, the
\* other cannot have reached its fopen without a fault.
FileInv ==
    crashed = 0 =>
        /\ openFiles \subseteq {s_pSdHPFd}
        /\ mesg = "fnull" => openFiles = {}
        /\ mesg = "fopen" => s_pSdHPFd = NULL
        /\ main = "null" => /\ openFiles = {}
                            /\ s_pSdHPFd # NULL
                            /\ mesg \notin {"fnull", "fopen"}

\* Every START and STOP is acknowledged.
EveryCommandAnswered == (asked > acked) ~> (asked = acked)

\* A record that is begun is delivered completely.
RecordDelivered == (plBusy = 1) ~> (plBusy = 0 /\ sent = plLen /\ s_ucIsReady = 0)

\* The pieces of data that leave the board are those of a RecordStream.
Stream == INSTANCE RecordStream
StreamSpec == Stream!Spec
=============================================================================
