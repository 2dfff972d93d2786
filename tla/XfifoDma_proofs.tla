--------------------------- MODULE XfifoDma_proofs ---------------------------
(***************************************************************************)
(* Proofs about the DMA driver, for any number of clients and buffers.      *)
(***************************************************************************)
EXTENDS XfifoDma, TLAPS

USE DEF devVars, dmaVars, memVars, callVars

\* Type correctness of the device structure, and with it WriterInv: the count
\* of writers stays 0 or 1 because open and release pair up.
LEMMA CountInductive == Spec => [](TypeOK /\ WriterInv)
<1> USE DmaAssumption
    DEF TypeOK, WriterInv, OneWriter, Places, Step, Goto, Lock, Unlock, Use, FreeBuffer, Interrupted
<1>1. Init => TypeOK /\ WriterInv
  BY DEF Init
<1>2. TypeOK /\ WriterInv /\ [Next]_vars => TypeOK' /\ WriterInv'
  <2> SUFFICES ASSUME TypeOK, WriterInv, [Next]_vars PROVE TypeOK' /\ WriterInv'
    OBVIOUS
  <2>1. ASSUME NEW c \in Clients, Call(c) PROVE TypeOK' /\ WriterInv'
    BY <2>1 DEF Call, OpenCall, ReleaseCall, ShowCall, TransferCall
  <2>2. ASSUME NEW c \in Clients, Body(c) PROVE TypeOK' /\ WriterInv'
    <3>1. CASE OpenLock(c) \/ ShowLock(c) \/ TransferLock(c) \/ ShowBody(c)
      BY <3>1 DEF OpenLock, ShowLock, TransferLock, ShowBody
    <3>2. CASE OpenBody(c)
      BY <3>2 DEF OpenBody
    <3>3. CASE ReleaseLock(c)
      BY <3>3 DEF ReleaseLock
    <3>4. CASE ReleaseBody(c)
      BY <3>4 DEF ReleaseBody
    <3>5. CASE TransferAlloc(c)
      BY <3>5 DEF TransferAlloc
    <3>6. CASE TransferRequest(c)
      BY <3>6 DEF TransferRequest
    <3>7. CASE TransferUndo(c)
      BY <3>7 DEF TransferUndo
    <3>8. CASE TransferProgram(c)
      BY <3>8 DEF TransferProgram
    <3>9. CASE TransferLoad(c) \/ TransferEnable(c) \/ TransferWait(c) \/ TransferFreeDma(c)
      BY <3>9 DEF TransferLoad, TransferEnable, TransferWait, TransferFreeDma
    <3>10. CASE TransferCopy(c)
      BY <3>10 DEF TransferCopy
    <3>11. CASE TransferFreeBuf(c)
      BY <3>11 DEF TransferFreeBuf
    <3> QED
      BY <2>2, <3>1, <3>2, <3>3, <3>4, <3>5, <3>6, <3>7, <3>8, <3>9, <3>10, <3>11 DEF Body
  <2>3. CASE DoneCallback \/ FaultCallback
    BY <2>3 DEF DoneCallback, FaultCallback
  <2>4. CASE UNCHANGED vars
    BY <2>4 DEF vars
  <2> QED
    BY <2>1, <2>2, <2>3, <2>4 DEF Next
<1> QED
  BY <1>1, <1>2, PTL DEF Spec

\* Type correctness of the device structure and of the calls under way.
THEOREM TypeCorrect == Spec => []TypeOK
  BY CountInductive, PTL

\* At most one file is open for writing, whatever signals and errors occur.
THEOREM WriterIsAlone == Spec => []OneWriter
<1>1. WriterInv => OneWriter
  BY DEF WriterInv
<1> QED
  BY <1>1, CountInductive, PTL

\* request_dma and free_dma pair up: at most one transfer has the channel, and
\* the DMA runs for that one.
THEOREM TransferIsAlone == Spec => []OneTransfer
<1> USE DmaAssumption DEF TypeOK, OneTransfer, OwnsChannel, Places, Step, Goto, Interrupted
<1>1. Init => OneTransfer
  BY DEF Init
<1>2. TypeOK /\ OneTransfer /\ [Next]_vars => OneTransfer'
  <2> SUFFICES ASSUME TypeOK, OneTransfer, [Next]_vars PROVE OneTransfer'
    OBVIOUS
  <2>1. ASSUME NEW c \in Clients, Call(c) PROVE OneTransfer'
    BY <2>1 DEF Call, OpenCall, ReleaseCall, ShowCall, TransferCall
  <2>2. ASSUME NEW c \in Clients, Body(c) PROVE OneTransfer'
    <3>1. CASE \/ OpenLock(c) \/ OpenBody(c) \/ ReleaseLock(c) \/ ReleaseBody(c)
               \/ ShowLock(c) \/ ShowBody(c) \/ TransferLock(c) \/ TransferAlloc(c)
               \/ TransferUndo(c)
      BY <3>1 DEF OpenLock, OpenBody, ReleaseLock, ReleaseBody, ShowLock, ShowBody, TransferLock,
                  TransferAlloc, TransferUndo
    <3>2. CASE TransferRequest(c)
      BY <3>2 DEF TransferRequest
    <3>3. CASE TransferFreeDma(c)
      BY <3>3 DEF TransferFreeDma
    <3>4. CASE TransferProgram(c) \/ TransferLoad(c) \/ TransferEnable(c)
      BY <3>4 DEF TransferProgram, TransferLoad, TransferEnable
    <3>5. CASE TransferWait(c) \/ TransferCopy(c) \/ TransferFreeBuf(c)
      BY <3>5 DEF TransferWait, TransferCopy, TransferFreeBuf
    <3> QED
      BY <2>2, <3>1, <3>2, <3>3, <3>4, <3>5 DEF Body
  <2>3. CASE DoneCallback \/ FaultCallback \/ UNCHANGED vars
    BY <2>3 DEF DoneCallback, FaultCallback, vars
  <2> QED
    BY <2>1, <2>2, <2>3 DEF Next
<1> QED
  BY <1>1, <1>2, TypeCorrect, PTL DEF Spec

\* The invariant of exclusive use is inductive.
THEOREM ExclusiveInductive ==
    ASSUME Modes = {"w"}, "wait" \notin Events,
           TypeOK, WriterInv', OneTransfer', ExclusiveInv, [Next]_vars
    PROVE  ExclusiveInv'
<1> USE DmaAssumption
    DEF TypeOK, ExclusiveInv, WriterInv, OneWriter, OneTransfer, BufferSafe, NoBufferLeak,
        BusyIsTransfer, HasBuffer, InCall, OwnsChannel, Step, Goto, Use, FreeBuffer, Interrupted
<1>1. ASSUME NEW c \in Clients, Call(c) PROVE ExclusiveInv'
  BY <1>1 DEF Call, OpenCall, ReleaseCall, ShowCall, TransferCall
<1>2. ASSUME NEW c \in Clients, Body(c) PROVE ExclusiveInv'
  <2>1. CASE OpenLock(c) \/ ShowLock(c) \/ ShowBody(c) \/ TransferLock(c)
    BY <2>1 DEF OpenLock, ShowLock, ShowBody, TransferLock
  <2>2. CASE OpenBody(c)
    BY <2>2 DEF OpenBody
  <2>3. CASE ReleaseLock(c)
    BY <2>3 DEF ReleaseLock
  <2>4. CASE ReleaseBody(c)
    BY <2>4 DEF ReleaseBody
  <2>5. CASE TransferAlloc(c)
    BY <2>5 DEF TransferAlloc
  <2>6. CASE TransferRequest(c)
    BY <2>6 DEF TransferRequest
  <2>7. CASE TransferUndo(c)
    BY <2>7 DEF TransferUndo
  <2>8. CASE TransferProgram(c)
    BY <2>8 DEF TransferProgram
  <2>9. CASE TransferLoad(c)
    BY <2>9 DEF TransferLoad
  <2>10. CASE TransferEnable(c)
    BY <2>10 DEF TransferEnable
  <2>11. CASE TransferWait(c)
    BY <2>11 DEF TransferWait
  <2>12. CASE TransferCopy(c)
    BY <2>12 DEF TransferCopy
  <2>13. CASE TransferFreeDma(c)
    BY <2>13 DEF TransferFreeDma
  <2>14. CASE TransferFreeBuf(c)
    BY <2>14 DEF TransferFreeBuf
  <2> QED
    BY <1>2, <2>1, <2>2, <2>3, <2>4, <2>5, <2>6, <2>7, <2>8, <2>9, <2>10, <2>11, <2>12,
       <2>13, <2>14 DEF Body
<1>3. CASE DoneCallback
  BY <1>3 DEF DoneCallback
<1>4. CASE FaultCallback
  BY <1>4 DEF FaultCallback
<1>5. CASE UNCHANGED vars
  BY <1>5 DEF vars
<1> QED
  BY <1>1, <1>2, <1>3, <1>4, <1>5 DEF Next

\* Exclusive use is what the driver is safe for: when every client opens the
\* file for writing and no signal ends the wait for the DMA, no transfer touches
\* a buffer that is not allocated, none is leaked, and the device does not stay
\* busy.
THEOREM ExclusiveUse ==
    Modes = {"w"} /\ "wait" \notin Events /\ Spec => []ExclusiveInv
<1>1. ASSUME Modes = {"w"}, "wait" \notin Events PROVE Spec => []ExclusiveInv
  <2>1. Init => ExclusiveInv
    BY DmaAssumption
       DEF Init, ExclusiveInv, WriterInv, OneWriter, OneTransfer, BufferSafe, NoBufferLeak,
           BusyIsTransfer, HasBuffer, InCall, OwnsChannel
  <2>2. TypeOK /\ WriterInv' /\ OneTransfer' /\ ExclusiveInv /\ [Next]_vars => ExclusiveInv'
    BY <1>1, ExclusiveInductive
  <2> QED
    BY <2>1, <2>2, CountInductive, TransferIsAlone, PTL DEF Spec
<1> QED
  BY <1>1

\* No buffer is used after it was freed, or freed twice.
THEOREM ExclusiveIsSafe ==
    Modes = {"w"} /\ "wait" \notin Events /\ Spec => []BufferSafe
<1>1. ExclusiveInv => BufferSafe
  BY DEF ExclusiveInv
<1> QED
  BY <1>1, ExclusiveUse, PTL

\* A call that returns has freed its buffer.
THEOREM ExclusiveFrees ==
    Modes = {"w"} /\ "wait" \notin Events /\ Spec => []NoBufferLeak
<1>1. ExclusiveInv => NoBufferLeak
  BY DEF ExclusiveInv
<1> QED
  BY <1>1, ExclusiveUse, PTL

\* If the PL330 reports no fault either, read returns the data of its own DMA.
THEOREM ExclusiveReadsOwnData ==
    Modes = {"w"} /\ "wait" \notin Events /\ "fault" \notin Events /\ Spec => []ReadsOwnData
<1>1. ASSUME "fault" \notin Events PROVE ExclusiveInv => ReadsOwnData
  BY <1>1 DEF ExclusiveInv, ReadsOwnData
<1>2. ASSUME Modes = {"w"}, "wait" \notin Events, "fault" \notin Events
      PROVE  Spec => []ReadsOwnData
  <2>1. ExclusiveInv => ReadsOwnData
    BY <1>1, <1>2
  <2>2. Spec => []ExclusiveInv
    BY <1>2, ExclusiveUse
  <2> QED
    BY <2>1, <2>2, PTL
<1> QED
  BY <1>2

\* The converse of WriterInv: a count that is up is a file open for writing.  A
\* close that gives up at the mutex would leave it up.
Counted == writers = 1 => \E c \in Clients : mode[c] = "w"

\* open and release take the count up and down with the file.
LEMMA CountedInductive ==
    ASSUME Modes = {"w"}, "release" \notin Events,
           TypeOK, OneWriter, Counted, [Next]_vars
    PROVE  Counted'
<1>1. CASE UNCHANGED <<writers, mode>>
  BY <1>1 DEF Counted
<1>2. ASSUME NEW c \in Clients, OpenBody(c) PROVE Counted'
  <2>1. CASE UNCHANGED <<writers, mode>> BY <1>1, <2>1
  <2>2. CASE mode' = [mode EXCEPT ![c] = "w"]
    <3>1. mode'[c] = "w" BY <2>2 DEF TypeOK
    <3> QED BY <3>1 DEF Counted
  <2> QED BY <1>2, <2>1, <2>2 DEF OpenBody
<1>3. ASSUME NEW c \in Clients, ReleaseBody(c) PROVE Counted'
  <2>1. mode' = [mode EXCEPT ![c] = "closed"] BY <1>3 DEF ReleaseBody
  <2>2. CASE mode[c] = "w"
    <3>1. writers' = writers - 1 BY <1>3, <2>2 DEF ReleaseBody
    <3> QED BY <3>1 DEF Counted, TypeOK
  <2>3. CASE mode[c] # "w"
    <3>1. writers' = writers BY <1>3, <2>3 DEF ReleaseBody
    <3> QED BY <2>1, <2>3, <3>1 DEF Counted, TypeOK
  <2> QED BY <2>2, <2>3
<1>4. ASSUME NEW c \in Clients, Call(c) PROVE Counted'
  BY <1>1, <1>4 DEF Call, OpenCall, ReleaseCall, ShowCall, TransferCall
<1>5. ASSUME NEW c \in Clients, Body(c), ~OpenBody(c), ~ReleaseBody(c) PROVE Counted'
  <2>1. UNCHANGED <<writers, mode>>
    BY <1>5 DEF Body, OpenLock, ShowLock, TransferLock, ShowBody, ReleaseLock, TransferAlloc,
           TransferRequest, TransferUndo, TransferProgram, TransferLoad, TransferEnable,
           TransferWait, TransferFreeDma, TransferCopy, TransferFreeBuf, Interrupted
  <2> QED BY <1>1, <2>1
<1>6. CASE DoneCallback \/ FaultCallback
  BY <1>1, <1>6 DEF DoneCallback, FaultCallback
<1>7. CASE UNCHANGED vars
  BY <1>1, <1>7 DEF vars
<1> QED BY <1>2, <1>3, <1>4, <1>5, <1>6, <1>7 DEF Next

\* A device nobody has open for writing admits the next writer, if no signal
\* breaks off a close or a wait.
THEOREM ExclusiveAdmits ==
    Modes = {"w"} /\ "wait" \notin Events /\ "release" \notin Events /\ Spec
        => []AdmitsWhenClosed
<1>1. ASSUME Modes = {"w"}, "wait" \notin Events, "release" \notin Events
      PROVE  Spec => []AdmitsWhenClosed
  <2>1. Init => Counted BY DEF Init, Counted
  <2>2. TypeOK /\ WriterInv /\ Counted /\ [Next]_vars => Counted'
    BY <1>1, CountedInductive DEF WriterInv
  <2>3. TypeOK /\ ExclusiveInv /\ Counted => AdmitsWhenClosed
    <3> SUFFICES ASSUME TypeOK, ExclusiveInv, Counted, \A c \in Clients : mode[c] # "w"
                 PROVE  writers = 0 /\ busy = 0
      BY DEF AdmitsWhenClosed
    <3>1. writers = 0 BY DEF Counted, TypeOK
    <3>2. \A c \in Clients : pc[c] \notin {"load", "enable", "wait"}
      BY DEF ExclusiveInv, InCall
    <3>3. busy = 0 BY <3>2 DEF ExclusiveInv, BusyIsTransfer, TypeOK
    <3> QED BY <3>1, <3>3
  <2>4. Spec => []ExclusiveInv BY <1>1, ExclusiveUse
  <2> QED
    BY <2>1, <2>2, <2>3, <2>4, CountInductive, PTL DEF Spec
<1> QED
  BY <1>1
=============================================================================
