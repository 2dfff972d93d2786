-------------------------- MODULE Acquisition_proofs --------------------------
(***************************************************************************)
(* What holds of the acquisition program whatever its environment does, and *)
(* what holds when every assumption on the environment does: then OrderlyInv *)
(* is inductive for every record length, package size and number of records, *)
(* and the safety properties and the refinement of RecordStream follow.      *)
(***************************************************************************)
EXTENDS AcquisitionInv, TLAPS

USE DEF pcVars, ctlVars, plVars, irqVars, cfgVars, countVars, locVars, mesgVars,
        fileVars, outVars

\* A residue is a natural number.
LEMMA ModType == \A a \in Int, m \in Nat \ {0} : a % m \in Nat
  OBVIOUS

\* The unsigned length that DeliverData_s computes is a natural number.
LEMMA RemainingType == ASSUME TypeStatics PROVE Remaining \in Nat
  BY SizesAssumption, ModType DEF Remaining, TypeStatics

\* A piece of data that leaves the board has a record, an offset and a length.
LEMMA EmitType ==
    ASSUME TypePl, TypeStatics, TypeOut, NEW off \in Nat, NEW n \in Nat, Emit(off, n)
    PROVE  seg' \in Segment /\ sent' \in Nat
  BY DEF TypePl, TypeStatics, TypeOut, BankData, Segment, Emit

\* The steps of DeliverData_s that hand over data keep the types.
LEMMA DeliverType ==
    ASSUME TypeOK, DeliverSmall \/ DeliverMedium \/ DeliverLarge
    PROVE  TypeOK'
<1>1. TypeThreads'
  BY DEF TypeOK, TypeThreads, MainPlaces, DeliverPlaces, DeliverSmall, DeliverMedium, DeliverLarge,
         DeliverUnchanged, Step
<1>2. TypeCard'
  BY DEF TypeOK, TypeCard, DeliverSmall, DeliverMedium, DeliverLarge, Fwrite, SendPiece
<1>3. TypeOut'
  <2>1. TypePl /\ TypeStatics /\ TypeOut
    BY DEF TypeOK
  <2>2. /\ Remaining \in Nat /\ (Remaining - PACKAGE_SIZE) % ULONG_MOD \in Nat
        /\ PACKAGE_SIZE \in Nat /\ BRAM_SIZE \in Nat
    BY <2>1, RemainingType, ModType, SizesAssumption
  <2>3. UNCHANGED announced
    BY DEF DeliverSmall, DeliverMedium, DeliverLarge, DeliverUnchanged
  <2>4. UNCHANGED outVars \/ \E off, n \in Nat : Emit(off, n)
    BY <2>2 DEF DeliverSmall, DeliverMedium, DeliverLarge, Fwrite, SendPiece
  <2> QED
    BY <2>1, <2>3, <2>4, EmitType DEF TypeOut
<1>4. TypePc' /\ TypePl' /\ TypeStatics'
  BY DEF TypeOK, TypePc, TypePl, TypeStatics, DeliverSmall, DeliverMedium, DeliverLarge,
         DeliverUnchanged
<1> QED
  BY <1>1, <1>2, <1>3, <1>4 DEF TypeOK

\* Type correctness of the statics of app.c and of the environment.
THEOREM TypeCorrect == Spec => []TypeOK
<1> USE DEF TypeOK, TypePc, TypePl, TypeStatics, TypeThreads, TypeCard, TypeOut, Acks, NULL,
            MainPlaces, HandlerPlaces, DeliverPlaces, MesgPlaces
<1>1. Init => TypeOK
  BY DEF Init, LeftOver, BankData, Segment, NoData, NoConfig
<1>2. TypeOK /\ [Next]_vars => TypeOK'
  <2> SUFFICES ASSUME TypeOK, [Next]_vars PROVE TypeOK'
    OBVIOUS
  <2>1. CASE AppIdle
    BY <2>1 DEF AppIdle, Step, At
  <2>2. CASE AppRecv
    <3>1. cmdQ \in Seq(Commands) /\ cmdQ # <<>>
      BY <2>2 DEF AppRecv
    <3>2. Head(cmdQ) \in Commands
      BY <3>1
    <3>3. cmdQ' \in Seq(Commands) /\ tcpCmd' \in Commands
      BY <2>2, <3>2 DEF AppRecv
    <3>4. main' \in {"config", "stop", "ack"}
      BY <2>2 DEF AppRecv
    <3>5. UNCHANGED <<asked, acked, ctlVars, plVars, irqVars, cfgVars, countVars,
                      locVars, mesgVars, fileVars, outVars>>
      BY <2>2 DEF AppRecv
    <3> QED
      BY <3>3, <3>4, <3>5
  <2>3. CASE AppSend
    BY <2>3 DEF AppSend, Step, At
  <2>4. CASE ConfigRead
    <3>1. \A c \in Configs : c.savePC \in {0, 1}
      BY ConfigsAssumption
    <3> QED
      BY <2>4, <3>1 DEF ConfigRead, Step, At
  <2>5. CASE ConfigHeader
    BY <2>5 DEF ConfigHeader, Step, At
  <2>6. CASE ConfigRegs
    <3>1. ini.len \in Nat
      BY SizesAssumption, ConfigsAssumption DEF NoConfig
    <3> QED
      BY <2>6, <3>1 DEF ConfigRegs, Step, At
  <2>7. CASE ConfigLength
    <3>1. ini.len \in Nat
      BY SizesAssumption, ConfigsAssumption DEF NoConfig
    <3> QED
      BY <2>7, <3>1 DEF ConfigLength, Step, At
  <2>8. CASE StartFlag
    BY <2>8 DEF StartFlag, Step, At
  <2>9. CASE StartRecEn
    BY <2>9 DEF StartRecEn, Step, At
  <2>10. CASE StopRecEn
    BY <2>10 DEF StopRecEn, Step, At
  <2>11. CASE StopReady
    BY <2>11 DEF StopReady, Step, At
  <2>12. CASE StopFlag
    BY <2>12 DEF StopFlag, Step, At
  <2>13. CASE StopFile
    BY <2>13 DEF StopFile, At
  <2>14. CASE StopRemove
    BY <2>14 DEF StopRemove, Step, At
  <2>15. CASE StopFclose
    BY <2>15 DEF StopFclose, Step, At, Fclose
  <2>16. CASE StopNull
    BY <2>16 DEF StopNull, Step, At
  <2>17. CASE CheckReady
    BY <2>17 DEF CheckReady, At
  <2>18. CASE DataRead
    BY <2>18 DEF DataRead, Step, At
  <2>19. CASE DeliverTest
    BY <2>19 DEF DeliverTest, At
  <2>20. CASE FlagLoad
    BY <2>20 DEF FlagLoad, Step, At
  <2>21. CASE FlagStore
    BY <2>21 DEF FlagStore, Step, At
  <2>22. CASE SelectBank
    BY <2>22 DEF SelectBank, Step, At
  <2>23. CASE SizeTest
    BY <2>23 DEF SizeTest, At
  <2>24. CASE DeliverSmall
    BY <2>24, DeliverType
  <2>25. CASE DeliverMedium
    BY <2>25, DeliverType
  <2>26. CASE DeliverLarge
    BY <2>26, DeliverType
  <2>27. CASE DeliverDone
    BY <2>27 DEF DeliverDone, Step, At
  <2>28. CASE TotalLoad
    BY <2>28 DEF TotalLoad, Step, At
  <2>29. CASE TotalStore
    <3>1. (tmp + BRAM_SIZE) % ULONG_MOD \in Nat
      BY ModType, SizesAssumption
    <3> QED
      BY <2>29, <3>1 DEF TotalStore, Step, At
  <2>30. CASE MesgRead
    BY <2>30 DEF MesgRead, MesgStep, MesgAt, MesgUnchanged
  <2>31. CASE MesgStore
    BY <2>31 DEF MesgStore, MesgStep, MesgAt, MesgUnchanged
  <2>32. CASE MesgTest
    BY <2>32 DEF MesgTest, MesgStep, MesgAt, MesgUnchanged
  <2>33. CASE MesgFclose
    BY <2>33 DEF MesgFclose, MesgStep, MesgAt, MesgUnchanged, Fclose
  <2>34. CASE MesgNull
    BY <2>34 DEF MesgNull, MesgStep, MesgAt, MesgUnchanged
  <2>35. CASE MesgFopen
    <3>1. TypeThreads' /\ TypeCard'
      BY <2>35 DEF MesgFopen, MesgStep, MesgUnchanged
    <3> QED
      BY <2>35, <3>1 DEF MesgFopen, MesgUnchanged
  <2>36. CASE MesgHeader
    <3>1. TypeThreads' /\ TypeCard'
      BY <2>36 DEF MesgHeader, MesgStep, MesgUnchanged
    <3> QED
      BY <2>36, <3>1 DEF MesgHeader, MesgUnchanged
  <2>37. CASE MesgSend
    BY <2>37 DEF MesgSend, MesgStep, MesgAt, MesgUnchanged
  <2>38. CASE PlTrigger
    <3>1. bank' \in [{"A", "B"} -> BankData]
      BY <2>38 DEF PlTrigger, BankData, NoData
    <3> QED
      BY <2>38, <3>1 DEF PlTrigger
  <2>39. CASE PlFill
    <3>1. NoData \in BankData /\ [rec |-> plRec, pos |-> plPos, total |-> plLen] \in BankData
      BY DEF BankData, NoData
    <3>2. bank' \in [{"A", "B"} -> BankData]
      BY <2>39, <3>1 DEF PlFill
    <3>3. plPos' \in Nat
      BY <2>39, SizesAssumption DEF PlFill
    <3> QED
      BY <2>39, <3>2, <3>3 DEF PlFill
  <2>40. CASE PcSend
    <3>1. TypePc'
      BY <2>40 DEF PcSend
    <3> QED
      BY <2>40, <3>1 DEF PcSend
  <2>41. CASE UNCHANGED vars
    BY <2>41 DEF vars
  <2> QED
    BY <2>1, <2>2, <2>3, <2>4, <2>5, <2>6, <2>7, <2>8, <2>9, <2>10, <2>11, <2>12,
       <2>13, <2>14, <2>15, <2>16, <2>17, <2>18, <2>19, <2>20, <2>21, <2>22, <2>23,
       <2>24, <2>25, <2>26, <2>27, <2>28, <2>29, <2>30, <2>31, <2>32, <2>33, <2>34,
       <2>35, <2>36, <2>37, <2>38, <2>39, <2>40, <2>41 DEF Next, MainThread,
       MesgThread
<1> QED
  BY <1>1, <1>2, PTL DEF Spec

\* NoFileLeak, whatever the PL, the PC and the SD card do and however the two
\* threads interleave: an open FILE of app.c is the one s_pSdHPFd points to.
THEOREM NoFileIsLeaked == Spec => []NoFileLeak
<1>1. Init => FileInv
  BY DEF Init, FileInv
<1>2. TypeCard /\ FileInv /\ [Next]_vars => FileInv'
  <2> SUFFICES ASSUME TypeCard, FileInv, [Next]_vars PROVE FileInv'
    OBVIOUS
  <2> USE DEF TypeCard, FileInv, NULL, Step, At, MesgStep, MesgAt, MesgUnchanged, Fclose
  <2>1. CASE AppIdle \/ AppRecv \/ AppSend \/ ConfigRead \/ ConfigHeader \/ ConfigRegs
            \/ ConfigLength \/ StartFlag \/ StartRecEn
    BY <2>1 DEF AppIdle, AppRecv, AppSend, ConfigRead, ConfigHeader, ConfigRegs,
       ConfigLength, StartFlag, StartRecEn
  <2>2. CASE StopRecEn \/ StopReady \/ StopFlag \/ StopFile \/ StopRemove
    BY <2>2 DEF StopRecEn, StopReady, StopFlag, StopFile, StopRemove
  <2>3. CASE StopFclose
    BY <2>3 DEF StopFclose
  <2>4. CASE StopNull
    BY <2>4 DEF StopNull
  <2>5. CASE CheckReady \/ DataRead \/ DeliverTest \/ FlagLoad \/ FlagStore \/
            SelectBank \/ SizeTest \/ DeliverDone \/ TotalLoad \/ TotalStore
    BY <2>5 DEF CheckReady, DataRead, DeliverTest, FlagLoad, FlagStore, SelectBank,
       SizeTest, DeliverDone, TotalLoad, TotalStore
  <2>6. CASE DeliverSmall \/ DeliverMedium \/ DeliverLarge
    BY <2>6 DEF DeliverSmall, DeliverMedium, DeliverLarge, DeliverUnchanged, Fwrite,
       SendPiece
  <2>7. CASE MesgRead \/ MesgStore \/ MesgTest \/ MesgHeader \/ MesgSend
    BY <2>7 DEF MesgRead, MesgStore, MesgTest, MesgHeader, MesgSend
  <2>8. CASE MesgFclose
    BY <2>8 DEF MesgFclose
  <2>9. CASE MesgNull
    BY <2>9 DEF MesgNull
  <2>10. CASE MesgFopen
    <3>1. crashed = 0 => openFiles = {}
      BY <2>10 DEF MesgFopen
    <3> QED
      BY <2>10, <3>1 DEF MesgFopen
  <2>11. CASE PlTrigger \/ PlFill \/ PcSend
    BY <2>11 DEF PlTrigger, PlFill, PcSend
  <2>12. CASE UNCHANGED vars
    BY <2>12 DEF vars
  <2> QED
    BY <2>1, <2>2, <2>3, <2>4, <2>5, <2>6, <2>7, <2>8, <2>9, <2>10, <2>11, <2>12 DEF
       Next, MainThread, MesgThread
<1>3. TypeOK => TypeCard
  BY DEF TypeOK
<1>4. FileInv => NoFileLeak
  BY DEF FileInv, NoFileLeak
<1> QED
  BY <1>1, <1>2, <1>3, <1>4, TypeCorrect, PTL DEF Spec

-----------------------------------------------------------------------------
(* STOP, when no command is under way while a trigger is being handled     *)

\* A thread that met a fault stays where it was.
FaultPlace ==
    crashed = 1 => main \in {"done", "add", "null"} \/ mesg \in {"fnull", "send"}

\* While a command is under way MesgThread is in read() and no trigger is latched.
CalmInv == cmdQ # <<>> \/ main \in HandlerPlaces => mesg = "read" /\ cntIrq = 0

\* Outside MesgThread's change of files, a file that is not open is not on the
\* card; and AcqStop has removed what it closes.
RemovedInv ==
    /\ crashed = 0 /\ mesg \notin {"fnull", "fopen", "fwrite"} /\ s_pSdHPFd = NULL
           => sdName \notin onCard
    /\ main \in {"close", "null"} => sdName \notin onCard

\* After STOP the PL is off, MesgThread stays in read() and no file is open.
StoppedInv ==
    tcpCmd = "STOP_ACK" =>
        /\ recEn = 0
        /\ main \notin HandlerPlaces => /\ mesg = "read" /\ cntIrq = 0
                                        /\ s_uiSavePC = 0 => s_pSdHPFd = NULL

StopInv == FaultPlace /\ CalmInv /\ RemovedInv /\ StoppedInv

\* StopRemovesFile for every STOP, in the middle of a record too, and whatever
\* else the PL, the PC and the card do: it is enough that a command and the
\* handling of a trigger never overlap.
THEOREM StopRemovesTheFile == "calm" \in Assumed /\ Spec => []StopRemovesFile
<1> SUFFICES ASSUME "calm" \in Assumed PROVE Spec => []StopRemovesFile
  OBVIOUS
<1>1. Init => StopInv
  BY DEF Init, StopInv, FaultPlace, CalmInv, RemovedInv, StoppedInv, HandlerPlaces
<1>2. TypeOK /\ StopInv /\ [Next]_vars => StopInv'
  <2> SUFFICES ASSUME TypeOK, StopInv, [Next]_vars PROVE StopInv'
    OBVIOUS
  <2>1. /\ tcpCmd \in Commands \cup Acks /\ cmdQ \in Seq(Commands)
        /\ crashed \in {0, 1} /\ openFiles \subseteq Nat
        /\ Commands \subseteq {"START", "STOP", "OTHER"}
    BY BoundsAssumption DEF TypeOK, TypePc, TypeCard
  <2> USE DEF StopInv, FaultPlace, CalmInv, RemovedInv, StoppedInv, HandlerPlaces, NULL,
              Step, At, MesgStep, MesgAt, MesgUnchanged, Fclose
  <2>2. CASE AppIdle \/ AppSend \/ ConfigRead \/ ConfigHeader \/ ConfigRegs
            \/ ConfigLength \/ StartFlag \/ StartRecEn
    BY <2>2 DEF AppIdle, AppSend, ConfigRead, ConfigHeader, ConfigRegs, ConfigLength,
       StartFlag, StartRecEn
  <2>3. CASE AppRecv
    <3>1. Head(cmdQ) \in Commands
      BY <2>1, <2>3 DEF AppRecv
    <3> QED
      BY <2>1, <2>3, <3>1 DEF AppRecv
  <2>4. CASE StopRecEn \/ StopReady \/ StopFlag \/ StopRemove
    BY <2>4 DEF StopRecEn, StopReady, StopFlag, StopRemove
  <2>5. CASE StopFile
    BY <2>5 DEF StopFile
  <2>6. CASE StopFclose \/ StopNull
    BY <2>6 DEF StopFclose, StopNull
  <2>7. CASE CheckReady \/ DataRead \/ DeliverTest \/ FlagLoad \/ FlagStore \/
            SelectBank \/ SizeTest \/ DeliverDone \/ TotalLoad \/ TotalStore
    BY <2>7 DEF CheckReady, DataRead, DeliverTest, FlagLoad, FlagStore, SelectBank,
       SizeTest, DeliverDone, TotalLoad, TotalStore
  <2>8. CASE DeliverSmall \/ DeliverMedium \/ DeliverLarge
    BY <2>8 DEF DeliverSmall, DeliverMedium, DeliverLarge, DeliverUnchanged, Fwrite,
       SendPiece
  <2>9. CASE MesgRead \/ MesgStore \/ MesgTest \/ MesgSend
    BY <2>9 DEF MesgRead, MesgStore, MesgTest, MesgSend
  <2>10. CASE MesgFclose \/ MesgNull \/ MesgFopen
    BY <2>10 DEF MesgFclose, MesgNull, MesgFopen
  <2>11. CASE MesgHeader
    BY <2>1, <2>11 DEF MesgHeader
  <2>12. CASE PlTrigger \/ PlFill \/ PcSend
    BY <2>12 DEF PlTrigger, PlFill, PcSend
  <2>13. CASE UNCHANGED vars
    BY <2>13 DEF vars
  <2> QED
    BY <2>2, <2>3, <2>4, <2>5, <2>6, <2>7, <2>8, <2>9, <2>10, <2>11, <2>12, <2>13 DEF
       Next, MainThread, MesgThread
<1>3. TypeOK /\ StopInv => StopRemovesFile
  BY DEF TypeOK, TypeCard, StopInv, FaultPlace, RemovedInv, StoppedInv, StopRemovesFile,
         HandlerPlaces
<1> QED
  BY <1>1, <1>2, <1>3, TypeCorrect, PTL DEF Spec

-----------------------------------------------------------------------------
(* With all assumptions on the environment                                 *)

\* A natural number below the modulus is its own residue.
LEMMA ModSmall == \A a \in Nat, m \in Nat \ {0} : a < m => a % m = a
  OBVIOUS

\* While a bank is held, the unsigned subtraction of DeliverData_s does not
\* wrap: it is the length that is left of the record.
LEMMA RemainingExact ==
    ASSUME TypeOK, OrderlyInv, main \in ReadsBank
    PROVE  Remaining = plLen - s_ulTotalLen /\ plLen < ULONG_MOD
<1>1. ~Setup /\ Run /\ Active
  BY DEF OrderlyInv, SetupInv, RestInv, Setup, Run, Active, ReadsBank, DeliverPlaces, TypeOK,
         TypePl, TypeStatics
<1>2. s_ulSampleLength = plLen /\ plLen < ULONG_MOD
  BY <1>1 DEF OrderlyInv, ConfigInv, ReadsBank, DeliverPlaces
<1>3. s_ulTotalLen < plLen
  BY <1>1 DEF OrderlyInv, RunInv, InBank
<1> QED
  BY <1>2, <1>3, ModSmall, SizesAssumption DEF Remaining, TypeOK, TypePl, TypeStatics

\* The step hands over the next n bytes of the record and changes nothing else
\* but the place of the main thread.
Piece(n) ==
    /\ seg' = [rec |-> plRec, pos |-> sent, len |-> n, total |-> plLen]
    /\ sent' = sent + n
Delivers(from, to, n) ==
    main = from /\ main' = to /\ Piece(n) /\ UNCHANGED fileVars /\ DeliverUnchanged

\* What the main thread knows of the bank it has chosen.
LEMMA ChosenBank ==
    ASSUME TypeOK, OrderlyInv, main \in Chosen
    PROVE  /\ bank[s_puiAddr] = Chunk(s_ulTotalLen)
           /\ Remaining = plLen - s_ulTotalLen /\ plLen < ULONG_MOD
           /\ sent = s_ulTotalLen + IF main \in {"medium2", "large2"} THEN PACKAGE_SIZE ELSE 0
           /\ s_uiSavePC = 0 => s_pSdHPFd \in openFiles
<1>1. main \in ReadsBank /\ main \in DeliverPlaces
  BY DEF Chosen, ReadsBank, DeliverPlaces
<1>2. Run
  BY <1>1 DEF OrderlyInv, SetupInv, RestInv, Setup, Run
<1>3. InBank
  BY <1>1, <1>2 DEF OrderlyInv, RunInv
<1>4. Remaining = plLen - s_ulTotalLen /\ plLen < ULONG_MOD
  BY <1>1, RemainingExact
<1>5. bank[s_puiAddr] = Chunk(s_ulTotalLen)
  BY <1>3 DEF InBank
<1>6. sent = s_ulTotalLen + IF main \in {"medium2", "large2"} THEN PACKAGE_SIZE ELSE 0
  BY <1>3 DEF InBank, TypeOK, TypeStatics
<1>7. s_uiSavePC = 0 => s_pSdHPFd \in openFiles
  BY <1>2 DEF OrderlyInv, CardInv
<1> QED
  BY <1>4, <1>5, <1>6, <1>7

\* The last package: DeliverData_s hands over all that is left.
LEMMA SmallEffect ==
    ASSUME Assumed = Assumptions, TypeOK, OrderlyInv, DeliverSmall
    PROVE  Delivers("small", "done", plLen - sent)
<1>1. main = "small" /\ main' = "done" /\ DeliverUnchanged
  BY DEF DeliverSmall, Step, At
<1>2. /\ bank[s_puiAddr] = Chunk(s_ulTotalLen)
      /\ s_uiSavePC = 0 => s_pSdHPFd \in openFiles
      /\ Remaining = plLen - sent /\ sent = s_ulTotalLen
  BY <1>1, ChosenBank DEF Chosen, TypeOK, TypeStatics
<1>3. Emit(0, Remaining) /\ UNCHANGED fileVars
  BY <1>2 DEF DeliverSmall, Fwrite, SendPiece, Assumptions
<1> QED
  BY <1>1, <1>2, <1>3 DEF Delivers, Piece, Emit, Chunk, TypeOK, TypeOut

\* The last bank: one fwrite, or two sends of which the second is the rest.
LEMMA MediumEffect ==
    ASSUME Assumed = Assumptions, TypeOK, OrderlyInv, DeliverMedium
    PROVE  \/ Delivers("medium", "done", plLen - sent)
           \/ Delivers("medium", "medium2", PACKAGE_SIZE)
           \/ Delivers("medium2", "done", plLen - sent)
<1>1. main \in {"medium", "medium2"} /\ DeliverUnchanged
  BY DEF DeliverMedium, Step, At
<1>2. /\ bank[s_puiAddr] = Chunk(s_ulTotalLen)
      /\ s_uiSavePC = 0 => s_pSdHPFd \in openFiles
      /\ Remaining = plLen - s_ulTotalLen /\ plLen < ULONG_MOD
      /\ sent = s_ulTotalLen + IF main = "medium2" THEN PACKAGE_SIZE ELSE 0
  BY <1>1, ChosenBank DEF Chosen
<1> USE SizesAssumption DEF TypeOK, TypeOut, TypeStatics, TypePl
<1>3. CASE main = "medium" /\ s_uiSavePC = 0
  <2>1. main' = "done" /\ Emit(0, Remaining) /\ UNCHANGED fileVars
    BY <1>2, <1>3 DEF DeliverMedium, Step, At, Fwrite, Assumptions
  <2> QED
    BY <1>1, <1>2, <1>3, <2>1 DEF Delivers, Piece, Emit, Chunk
<1>4. CASE main = "medium" /\ s_uiSavePC # 0
  <2>1. main' = "medium2" /\ Emit(0, PACKAGE_SIZE) /\ UNCHANGED fileVars
    BY <1>4 DEF DeliverMedium, Step, At, SendPiece, Assumptions
  <2> QED
    BY <1>1, <1>2, <1>4, <2>1 DEF Delivers, Piece, Emit, Chunk
<1>5. CASE main = "medium2"
  <2>1. plLen > s_ulTotalLen + PACKAGE_SIZE
    BY <1>5 DEF OrderlyInv, RunInv, RestInv, SetupInv, Run, Setup, InBank, ReadsBank, DeliverPlaces
  <2>2. Remaining - PACKAGE_SIZE \in Nat /\ Remaining - PACKAGE_SIZE < ULONG_MOD
    BY <1>2, <2>1
  <2>3. (Remaining - PACKAGE_SIZE) % ULONG_MOD = Remaining - PACKAGE_SIZE
    BY <2>2, ModSmall
  <2>4. main' = "done" /\ Emit(PACKAGE_SIZE, Remaining - PACKAGE_SIZE) /\ UNCHANGED fileVars
    BY <1>5, <2>3 DEF DeliverMedium, Step, At, SendPiece, Assumptions
  <2>5. Remaining - PACKAGE_SIZE = plLen - sent /\ sent = s_ulTotalLen + PACKAGE_SIZE
    BY <1>2, <1>5
  <2> QED
    BY <1>1, <1>2, <1>5, <2>4, <2>5 DEF Delivers, Piece, Emit, Chunk
<1> QED
  BY <1>1, <1>3, <1>4, <1>5

\* A full bank with more to come: one fwrite, or two sends of a package.
LEMMA LargeEffect ==
    ASSUME Assumed = Assumptions, TypeOK, OrderlyInv, DeliverLarge
    PROVE  \/ Delivers("large", "add", BRAM_SIZE)
           \/ Delivers("large", "large2", PACKAGE_SIZE)
           \/ Delivers("large2", "add", PACKAGE_SIZE)
<1>1. main \in {"large", "large2"} /\ DeliverUnchanged
  BY DEF DeliverLarge, Step, At
<1>2. /\ bank[s_puiAddr] = Chunk(s_ulTotalLen)
      /\ s_uiSavePC = 0 => s_pSdHPFd \in openFiles
      /\ sent = s_ulTotalLen + IF main = "large2" THEN PACKAGE_SIZE ELSE 0
  BY <1>1, ChosenBank DEF Chosen
<1> USE SizesAssumption DEF TypeOK, TypeOut, TypeStatics, TypePl
<1>3. CASE main = "large" /\ s_uiSavePC = 0
  <2>1. main' = "add" /\ Emit(0, BRAM_SIZE) /\ UNCHANGED fileVars
    BY <1>2, <1>3 DEF DeliverLarge, Step, At, Fwrite, Assumptions
  <2> QED
    BY <1>1, <1>2, <1>3, <2>1 DEF Delivers, Piece, Emit, Chunk
<1>4. CASE main = "large" /\ s_uiSavePC # 0
  <2>1. main' = "large2" /\ Emit(0, PACKAGE_SIZE) /\ UNCHANGED fileVars
    BY <1>4 DEF DeliverLarge, Step, At, SendPiece, Assumptions
  <2> QED
    BY <1>1, <1>2, <1>4, <2>1 DEF Delivers, Piece, Emit, Chunk
<1>5. CASE main = "large2"
  <2>1. main' = "add" /\ Emit(PACKAGE_SIZE, PACKAGE_SIZE) /\ UNCHANGED fileVars
    BY <1>5 DEF DeliverLarge, Step, At, SendPiece, Assumptions
  <2> QED
    BY <1>1, <1>2, <1>5, <2>1 DEF Delivers, Piece, Emit, Chunk
<1> QED
  BY <1>1, <1>3, <1>4, <1>5

\* Every step of the two threads, of the PL and of the PC keeps OrderlyInv.
THEOREM OrderlyInductive ==
    ASSUME Assumed = Assumptions, TypeOK, OrderlyInv, [Next]_vars
    PROVE  OrderlyInv'
<1> USE SizesAssumption, ConfigsAssumption
    DEF TypeOK, TypePc, TypePl, TypeStatics, TypeThreads, TypeCard, TypeOut, NULL
<1> USE DEF OrderlyInv, SetupInv, RunInv, RestInv, SegInv, ConfigInv, CardInv,
            Setup, Run, Rest, Active, BetweenBanks, InBank, Latest, Chunk, Counted, Chosen,
            HandlerPlaces, DeliverPlaces, ReadsBank
<1>1. CASE AppIdle
  BY <1>1 DEF AppIdle, Step, At
<1>2. CASE AppRecv
  BY <1>2 DEF AppRecv, Step, At
<1>3. CASE AppSend
  BY <1>3 DEF AppSend, Step, At
<1>4. CASE ConfigRead
  BY <1>4 DEF ConfigRead, Step, At
<1>5. CASE ConfigHeader
  BY <1>5 DEF ConfigHeader, Step, At
<1>6. CASE ConfigRegs
  BY <1>6 DEF ConfigRegs, Step, At
<1>7. CASE ConfigLength
  BY <1>7 DEF ConfigLength, Step, At
<1>8. CASE StartFlag
  BY <1>8 DEF StartFlag, Step, At
<1>9. CASE StartRecEn
  BY <1>9 DEF StartRecEn, Step, At
<1>10. CASE StopRecEn
  BY <1>10 DEF StopRecEn, Step, At
<1>11. CASE StopReady
  BY <1>11 DEF StopReady, Step, At
<1>12. CASE StopFlag
  BY <1>12 DEF StopFlag, Step, At
<1>13. CASE StopFile
  BY <1>13 DEF StopFile, Step, At
<1>14. CASE StopRemove
  BY <1>14 DEF StopRemove, Step, At
<1>15. CASE StopFclose
  BY <1>15 DEF StopFclose, Step, At, Fclose
<1>16. CASE StopNull
  BY <1>16 DEF StopNull, Step, At
<1>17. CASE CheckReady
  BY <1>17 DEF CheckReady, Step, At
<1>18. CASE DataRead
  BY <1>18 DEF DataRead, Step, At
<1>19. CASE DeliverTest
  BY <1>19 DEF DeliverTest, Step, At
<1>20. CASE FlagLoad
  BY <1>20 DEF FlagLoad, Step, At
<1>21. CASE FlagStore
  BY <1>21 DEF FlagStore, Step, At
<1>22. CASE SelectBank
  BY <1>22 DEF SelectBank, Step, At
<1>23. CASE SizeTest
  <2>1. Remaining = plLen - s_ulTotalLen
    BY <1>23, RemainingExact DEF SizeTest, At
  <2> QED
    BY <1>23, <2>1 DEF SizeTest, At
<1>24. CASE DeliverSmall
  <2>1. Delivers("small", "done", plLen - sent)
    BY <1>24, SmallEffect
  <2> QED
    BY <2>1 DEF Delivers, Piece, DeliverUnchanged
<1>25. CASE DeliverMedium
  <2>1. CASE Delivers("medium", "done", plLen - sent)
    BY <2>1 DEF Delivers, Piece, DeliverUnchanged
  <2>2. CASE Delivers("medium", "medium2", PACKAGE_SIZE)
    BY <2>2 DEF Delivers, Piece, DeliverUnchanged
  <2>3. CASE Delivers("medium2", "done", plLen - sent)
    BY <2>3 DEF Delivers, Piece, DeliverUnchanged
  <2> QED
    BY <1>25, <2>1, <2>2, <2>3, MediumEffect
<1>26. CASE DeliverLarge
  <2>1. CASE Delivers("large", "add", BRAM_SIZE)
    BY <2>1 DEF Delivers, Piece, DeliverUnchanged
  <2>2. CASE Delivers("large", "large2", PACKAGE_SIZE)
    BY <2>2 DEF Delivers, Piece, DeliverUnchanged
  <2>3. CASE Delivers("large2", "add", PACKAGE_SIZE)
    BY <2>3 DEF Delivers, Piece, DeliverUnchanged
  <2> QED
    BY <1>26, <2>1, <2>2, <2>3, LargeEffect
<1>27. CASE DeliverDone
  BY <1>27 DEF DeliverDone, Step, At
<1>28. CASE TotalLoad
  BY <1>28 DEF TotalLoad, Step, At
<1>29. CASE TotalStore
  <2>1. main = "addstore" /\ tmp + BRAM_SIZE = sent /\ sent < ULONG_MOD
    BY <1>29 DEF TotalStore, Step, At
  <2>2. (tmp + BRAM_SIZE) % ULONG_MOD = sent
    BY <2>1, ModSmall
  <2> QED
    BY <1>29, <2>1, <2>2 DEF TotalStore, Step, At
<1>30. CASE MesgRead
  BY <1>30 DEF MesgRead, MesgStep, MesgAt, MesgUnchanged
<1>31. CASE MesgStore
  BY <1>31 DEF MesgStore, MesgStep, MesgAt, MesgUnchanged
<1>32. CASE MesgTest
  BY <1>32 DEF MesgTest, MesgStep, MesgAt, MesgUnchanged
<1>33. CASE MesgFclose
  BY <1>33 DEF MesgFclose, MesgStep, MesgAt, MesgUnchanged, Fclose
<1>34. CASE MesgNull
  BY <1>34 DEF MesgNull, MesgStep, MesgAt, MesgUnchanged
<1>35. CASE MesgFopen
  BY <1>35 DEF MesgFopen, MesgStep, MesgAt, MesgUnchanged, Assumptions
<1>36. CASE MesgHeader
  BY <1>36 DEF MesgHeader, MesgStep, MesgAt, MesgUnchanged, Assumptions
<1>37. CASE MesgSend
  BY <1>37 DEF MesgSend, MesgStep, MesgAt, MesgUnchanged
<1>38. CASE PlTrigger
  BY <1>38 DEF PlTrigger, Settled, Assumptions
<1>39. CASE PlFill
  <2>1. /\ recEn = 1 /\ plBusy = 1 /\ mesg \in {"read", "send"} /\ cntIrq = 0
        /\ plChunk > 0 => dataIrq = 0 /\ main \notin ReadsBank
        /\ plChunk' = plChunk + 1 /\ dataIrq' = 1
    BY <1>39 DEF PlFill, Assumptions
  <2>2. ~Setup /\ Run /\ Active
    BY <2>1
  <2>3. SetupInv' /\ RestInv' /\ SegInv' /\ ConfigInv' /\ CardInv'
    BY <1>39, <2>1, <2>2 DEF PlFill
  <2>4. RunInv'
    <3>1. BetweenBanks /\ dataIrq = 0 /\ main \notin ReadsBank \cup {"done"}
      BY <2>1, <2>2
    <3>2. Latest' = IF plChunk % 2 = 0 THEN "A" ELSE "B"
      BY <2>1
    <3>3. bank'[Latest'] = Chunk(sent)
      BY <1>39, <3>1, <3>2 DEF PlFill
    <3>4. /\ plBusy' = 1 => plPos' = sent + BRAM_SIZE /\ plPos' < plLen
          /\ plBusy' = 0 => plLen <= sent + BRAM_SIZE
      BY <1>39, <3>1 DEF PlFill
    <3> QED
      BY <1>39, <2>2, <3>1, <3>3, <3>4 DEF PlFill
  <2> QED
    BY <2>3, <2>4
<1>40. CASE PcSend
  <2>1. PICK c \in Commands : /\ c \in Restricted => Settled /\ plBusy = 0
                              /\ cmdQ' = Append(cmdQ, c)
                              /\ mesg = "read"
    BY <1>40 DEF PcSend, Assumptions
  <2>2. c = "OTHER" \/ c \in Restricted
    BY BoundsAssumption DEF Restricted, Assumptions
  <2>3. cmdQ \in Seq({"OTHER"}) /\ c = "OTHER" => cmdQ' \in Seq({"OTHER"})
    BY <2>1
  <2>4. Active => cmdQ' \in Seq({"OTHER"})
    BY <2>1, <2>2, <2>3 DEF Settled
  <2> QED
    BY <1>40, <2>4 DEF PcSend
<1>41. CASE UNCHANGED vars
  BY <1>41 DEF vars
<1> QED BY <1>1, <1>2, <1>3, <1>4, <1>5, <1>6, <1>7, <1>8, <1>9, <1>10, <1>11,
     <1>12, <1>13, <1>14, <1>15, <1>16, <1>17, <1>18, <1>19, <1>20, <1>21, <1>22,
     <1>23, <1>24, <1>25, <1>26, <1>27, <1>28, <1>29, <1>30, <1>31, <1>32, <1>33,
     <1>34, <1>35, <1>36, <1>37, <1>38, <1>39, <1>40, <1>41 DEF Next, MainThread,
     MesgThread

\* The invariant holds from the start, when no interrupt is left over.
THEOREM Orderly == Assumed = Assumptions /\ Spec => []OrderlyInv
<1>1. ASSUME Assumed = Assumptions, Init PROVE OrderlyInv
  BY <1>1, SizesAssumption
     DEF Init, LeftOver, Assumptions, OrderlyInv, SetupInv, RunInv, RestInv, SegInv, ConfigInv,
         CardInv, Setup, Run, Rest, Active, HandlerPlaces, DeliverPlaces, NoConfig
<1>2. ASSUME Assumed = Assumptions
      PROVE  TypeOK /\ OrderlyInv /\ [Next]_vars => OrderlyInv'
  BY <1>2, OrderlyInductive
<1>3. ASSUME Assumed = Assumptions PROVE Spec => []OrderlyInv
  <2>1. Init => OrderlyInv
    BY <1>1, <1>3
  <2>2. TypeOK /\ OrderlyInv /\ [Next]_vars => OrderlyInv'
    BY <1>2, <1>3
  <2> QED
    BY <2>1, <2>2, TypeCorrect, PTL DEF Spec
<1> QED
  BY <1>3

\* What left the board is a prefix of the record, every byte once and in order.
THEOREM DataIsIntact == Assumed = Assumptions /\ Spec => []Intact
<1>1. TypeOK /\ OrderlyInv => Intact
  BY SizesAssumption
     DEF TypeOK, TypePl, TypeStatics, TypeOut, OrderlyInv, SetupInv, RunInv, RestInv, SegInv,
         Setup, Run, Rest, BetweenBanks, InBank, ReadsBank, DeliverPlaces, Intact
<1> QED
  BY <1>1, Orderly, TypeCorrect, PTL

\* A record at rest was delivered to its last byte and announced once.
THEOREM RecordIsComplete == Assumed = Assumptions /\ Spec => []RecordComplete
<1>1. TypeOK /\ OrderlyInv => RecordComplete
  BY DEF TypeOK, TypePl, TypeStatics, OrderlyInv, SetupInv, RunInv, RestInv, Setup, Run, Rest,
         BetweenBanks, ReadsBank, DeliverPlaces, RecordComplete
<1> QED
  BY <1>1, Orderly, TypeCorrect, PTL

\* A record saved to the card goes to its own open file, under its own header.
THEOREM FileIsTheRecords == Assumed = Assumptions /\ Spec => []FileDescribesRecord
<1>1. TypeOK /\ OrderlyInv => FileDescribesRecord
  BY DEF TypeOK, TypePl, OrderlyInv, SetupInv, CardInv, Setup, Run, FileDescribesRecord
<1> QED
  BY <1>1, Orderly, TypeCorrect, PTL

\* No FILE operation is made on NULL or on a closed FILE.
THEOREM NoFaultOnFile == Assumed = Assumptions /\ Spec => []NoFileFault
<1>1. OrderlyInv => NoFileFault
  BY DEF OrderlyInv, CardInv, NoFileFault
<1> QED
  BY <1>1, Orderly, PTL

\* The next piece of the record is a step of RecordStream: it continues the
\* piece before, or begins the record after the one that ended there.
LEMMA PieceIsStream ==
    ASSUME TypeOK, OrderlyInv, NEW n \in Nat, n > 0, sent + n <= plLen, Piece(n)
    PROVE  Stream!Next
<1> USE DEF TypeOK, TypePl, TypeOut, Segment, OrderlyInv, SegInv, Piece
<1>1. CASE sent > 0
  <2>1. n \in 1 .. seg.total - (seg.pos + seg.len)
    BY <1>1
  <2>2. seg' = [rec |-> seg.rec, pos |-> seg.pos + seg.len, len |-> n, total |-> seg.total]
    BY <1>1
  <2> QED
    BY <2>1, <2>2 DEF Stream!Next, Stream!Continue
<1>2. CASE sent = 0
  BY <1>2 DEF Stream!Next, Stream!Begin
<1> QED
  BY <1>1, <1>2

\* The data that leaves the board is the stream of the records.
THEOREM AcquisitionStreams == Assumed = Assumptions /\ Spec => StreamSpec
<1>1. Init => Stream!Init
  BY DEF Init, Stream!Init
<1>2. ASSUME Assumed = Assumptions, TypeOK, OrderlyInv, [Next]_vars
      PROVE  [Stream!Next]_seg
  <2>0. main \in Chosen => s_ulTotalLen < plLen /\ InBank
    BY <1>2 DEF OrderlyInv, SetupInv, RestInv, RunInv, Setup, Run, InBank, Chosen, ReadsBank,
                DeliverPlaces
  <2> USE SizesAssumption DEF TypeOK, TypePl, TypeOut, TypeStatics
  <2>1. CASE DeliverSmall
    <3>1. Delivers("small", "done", plLen - sent)
      BY <1>2, <2>1, SmallEffect
    <3>2. sent < plLen
      BY <2>0, <3>1 DEF Delivers, InBank, Chosen
    <3> QED
      BY <1>2, <3>1, <3>2, PieceIsStream DEF Delivers
  <2>2. CASE DeliverMedium
    <3>1. \E n \in {PACKAGE_SIZE, plLen - sent} : main \in {"medium", "medium2"} /\ Piece(n)
                   /\ (main = "medium2" => n = plLen - sent)
      BY <1>2, <2>2, MediumEffect DEF Delivers
    <3>2. main \in {"medium", "medium2"} =>
              sent < plLen /\ (main = "medium" => sent + PACKAGE_SIZE <= plLen)
      BY <1>2, <2>0 DEF InBank, Chosen
    <3> QED
      BY <1>2, <3>1, <3>2, PieceIsStream
  <2>3. CASE DeliverLarge
    <3>1. \E n \in {PACKAGE_SIZE, BRAM_SIZE} : main \in {"large", "large2"} /\ Piece(n)
                   /\ (main = "large2" => n = PACKAGE_SIZE)
      BY <1>2, <2>3, LargeEffect DEF Delivers
    <3>2. main \in {"large", "large2"} =>
              sent + PACKAGE_SIZE <= plLen /\ (main = "large" => sent + BRAM_SIZE <= plLen)
      BY <1>2, <2>0 DEF InBank, Chosen
    <3> QED
      BY <1>2, <3>1, <3>2, PieceIsStream
  <2>4. CASE MainThread /\ ~(DeliverSmall \/ DeliverMedium \/ DeliverLarge)
    <3>1. UNCHANGED seg
      BY <2>4 DEF MainThread, AppIdle, AppRecv, AppSend, ConfigRead, ConfigHeader, ConfigRegs,
           ConfigLength, StartFlag, StartRecEn, StopRecEn, StopReady, StopFlag, StopFile,
           StopRemove, StopFclose, StopNull, CheckReady, DataRead, DeliverTest, FlagLoad,
           FlagStore, SelectBank, SizeTest, DeliverDone, TotalLoad, TotalStore
    <3> QED
      BY <3>1
  <2>5. CASE MesgThread
    BY <2>5 DEF MesgThread, MesgRead, MesgStore, MesgTest, MesgFclose, MesgNull, MesgFopen,
         MesgHeader, MesgSend, MesgUnchanged
  <2>6. CASE PlTrigger \/ PlFill \/ PcSend \/ UNCHANGED vars
    BY <2>6 DEF PlTrigger, PlFill, PcSend, vars
  <2> QED
    BY <1>2, <2>1, <2>2, <2>3, <2>4, <2>5, <2>6 DEF Next
<1>3. ASSUME Assumed = Assumptions
      PROVE  TypeOK /\ OrderlyInv /\ [Next]_vars => [Stream!Next]_seg
  BY <1>2, <1>3
<1>4. ASSUME Assumed = Assumptions PROVE Spec => StreamSpec
  <2>1. TypeOK /\ OrderlyInv /\ [Next]_vars => [Stream!Next]_seg
    BY <1>3, <1>4
  <2>2. Spec => []OrderlyInv
    BY <1>4, Orderly
  <2> QED
    BY <1>1, <2>1, <2>2, TypeCorrect, PTL DEF Spec, StreamSpec, Stream!Spec
<1> QED
  BY <1>4
=============================================================================
