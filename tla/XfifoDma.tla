------------------------------ MODULE XfifoDma ------------------------------
(***************************************************************************)
(* The DMA driver xfifo_dma.c as its clients, the PL330 DMA controller and   *)
(* its callbacks use it.  open, release, read and write share one device     *)
(* structure.  They take its mutex, but a transfer gives the mutex up while  *)
(* it waits for the DMA, and afterwards copies from and frees the buffer     *)
(* that dev->buffer_v_addr points to THEN.                                   *)
(*                                                                         *)
(* A client is a process with at most one open file.  A step is a stretch    *)
(* of code between two points where another client, or an interrupt, can     *)
(* see a difference.  The statistics for /proc and f_pos are left out.       *)
(***************************************************************************)
EXTENDS Integers, FiniteSets

CONSTANTS
    Clients,
    Buffers,   \* coherent DMA buffers that dma_alloc_coherent can hand out
    Modes,     \* how clients open the file: "r" O_RDONLY, "w" O_WRONLY or O_RDWR
    Events,    \* what may go wrong, see AllEvents
    Free,      \* no client: the mutex is free
    NULL       \* no buffer

\*   lock     a signal interrupts open, read or write at the mutex
\*   release  a signal interrupts release at the mutex
\*   wait     a signal interrupts the wait for the DMA
\*   nomem    dma_alloc_coherent fails
\*   fault    the PL330 reports a fault instead of completion
AllEvents == {"lock", "release", "wait", "nomem", "fault"}

ASSUME DmaAssumption ==
    /\ Modes \subseteq {"r", "w"}
    /\ Events \subseteq AllEvents
    /\ Free \notin Clients
    /\ NULL \notin Buffers

VARIABLES
    mutex,     \* dev->mutex: who holds it
    writers,   \* dev->writers
    busy,      \* dev->busy
    buf,       \* dev->buffer_v_addr and dev->buffer_d_addr
    chan,      \* the client that has requested the DMA channel
    addr,      \* the address programmed into the channel
    engine,    \* 1 while the channel runs
    allocated, \* buffers that are allocated
    filler,    \* whose transfer has filled the buffer
    mode,      \* how the client has opened the file, or "closed"
    op,        \* the transfer it makes, "read" or "write"
    pc,        \* where it is
    mine,      \* the buffer its transfer allocated (history)
    data,      \* whose transfer filled the buffer it copied (history)
    fault      \* 1 once a buffer was used that is not allocated

devVars == <<writers, busy, buf>>
dmaVars == <<chan, addr, engine, filler>>
memVars == <<allocated, fault>>
callVars == <<mode, op, mine, data>>
vars == <<mutex, devVars, dmaVars, memVars, callVars, pc>>

\* Places: "idle" between calls; the rest name the code that comes next.
Places == {"idle", "openlock", "open", "releaselock", "release", "showlock", "show", "lock",
           "alloc", "request", "undo", "program", "load", "enable", "wait", "copy", "freedma", "freebuf"}
InCall == {"alloc", "request", "undo", "program", "load", "enable", "wait", "copy", "freedma",
           "freebuf"}
Locked == {"open", "release", "show", "alloc", "request", "undo", "program", "load", "enable"}
OwnsChannel == {"program", "load", "enable", "wait", "copy", "freedma"}

TypeOK ==
    /\ mutex \in Clients \cup {Free} /\ chan \in Clients \cup {Free}
    /\ writers \in {0, 1} /\ busy \in {0, 1} /\ engine \in {0, 1}
    /\ fault \in {0, 1}
    /\ buf \in Buffers \cup {NULL} /\ addr \in Buffers \cup {NULL}
    /\ allocated \subseteq Buffers
    /\ filler \in [Buffers -> Clients \cup {Free}]
    /\ mode \in [Clients -> {"closed", "r", "w"}]
    /\ op \in [Clients -> {"read", "write"}]
    /\ pc \in [Clients -> Places]
    /\ mine \in [Clients -> Buffers \cup {NULL}]
    /\ data \in [Clients -> Clients \cup {Free}]

\* The state probe leaves behind.
Init ==
    /\ mutex = Free /\ writers = 0 /\ busy = 0 /\ buf = NULL
    /\ chan = Free /\ addr = NULL /\ engine = 0
    /\ allocated = {} /\ fault = 0
    /\ filler = [b \in Buffers |-> Free]
    /\ mode = [c \in Clients |-> "closed"] /\ op = [c \in Clients |-> "read"]
    /\ pc = [c \in Clients |-> "idle"]
    /\ mine = [c \in Clients |-> NULL] /\ data = [c \in Clients |-> Free]

Goto(c, place) == pc' = [pc EXCEPT ![c] = place]
Step(c, from, to) == pc[c] = from /\ Goto(c, to)
Lock(c) == mutex = Free /\ mutex' = c
Unlock == mutex' = Free

\* mutex_lock_interruptible gives up: only a lock that is held makes it wait.
Interrupted(c, place, event) ==
    /\ event \in Events
    /\ mutex # Free
    /\ Step(c, place, "idle")
    /\ UNCHANGED <<mutex, devVars, dmaVars, memVars>>

\* Some use of a buffer; fault records one that is not allocated.
Use(b) == fault' = IF b \in allocated THEN fault ELSE 1
FreeBuffer(b) == Use(b) /\ allocated' = allocated \ {b}

-----------------------------------------------------------------------------
(* open and release                                                        *)

OpenCall(c) ==
    /\ mode[c] = "closed"
    /\ Step(c, "idle", "openlock")
    /\ UNCHANGED <<mutex, devVars, dmaVars, memVars, callVars>>

OpenLock(c) ==
    \/ /\ Step(c, "openlock", "open")
       /\ Lock(c)
       /\ UNCHANGED <<devVars, dmaVars, memVars, callVars>>
    \/ /\ Interrupted(c, "openlock", "lock")
       /\ UNCHANGED callVars

\* Mutant: the writer that is open is overlooked.
OpenBodyBusyOnly(c) ==
    /\ Step(c, "open", "idle")
    /\ Unlock
    /\ \E m \in Modes :
           /\ mode' = [mode EXCEPT ![c] = IF m = "w" /\ busy # 0 THEN "closed" ELSE m]
           /\ writers' = IF m = "w" /\ busy = 0 THEN writers + 1 ELSE writers
    /\ UNCHANGED <<busy, buf, dmaVars, memVars, op, mine, data>>

\* A file for writing is refused while another one is open or the device is busy.
OpenBody(c) ==
    /\ Step(c, "open", "idle")
    /\ Unlock
    /\ \/ /\ "r" \in Modes
          /\ mode' = [mode EXCEPT ![c] = "r"]
          /\ UNCHANGED writers
       \/ /\ "w" \in Modes
          /\ writers = 0 /\ busy = 0
          /\ writers' = writers + 1
          /\ mode' = [mode EXCEPT ![c] = "w"]
       \/ /\ "w" \in Modes
          /\ writers # 0 \/ busy # 0
          /\ UNCHANGED <<writers, mode>>
    /\ UNCHANGED <<busy, buf, dmaVars, memVars, op, mine, data>>

ReleaseCall(c) ==
    /\ mode[c] # "closed"
    /\ Step(c, "idle", "releaselock")
    /\ UNCHANGED <<mutex, devVars, dmaVars, memVars, callVars>>

\* When release gives up, the kernel drops the file all the same.
ReleaseLock(c) ==
    \/ /\ Step(c, "releaselock", "release")
       /\ Lock(c)
       /\ UNCHANGED <<devVars, dmaVars, memVars, callVars>>
    \/ /\ Interrupted(c, "releaselock", "release")
       /\ mode' = [mode EXCEPT ![c] = "closed"]
       /\ UNCHANGED <<op, mine, data>>

ReleaseBody(c) ==
    /\ Step(c, "release", "idle")
    /\ Unlock
    /\ writers' = IF mode[c] = "w" THEN writers - 1 ELSE writers
    /\ mode' = [mode EXCEPT ![c] = "closed"]
    /\ UNCHANGED <<busy, buf, dmaVars, memVars, op, mine, data>>

-----------------------------------------------------------------------------
(* /proc/driver/xfifo_dma: prints the device structure under its mutex     *)

ShowCall(c) ==
    /\ Step(c, "idle", "showlock")
    /\ UNCHANGED <<mutex, devVars, dmaVars, memVars, callVars>>

ShowLock(c) ==
    \/ /\ Step(c, "showlock", "show")
       /\ Lock(c)
       /\ UNCHANGED <<devVars, dmaVars, memVars, callVars>>
    \/ /\ Interrupted(c, "showlock", "lock")
       /\ UNCHANGED callVars

ShowBody(c) ==
    /\ Step(c, "show", "idle")
    /\ Unlock
    /\ UNCHANGED <<devVars, dmaVars, memVars, callVars>>

-----------------------------------------------------------------------------
(* read and write                                                          *)

\* The kernel lets a file opened O_RDONLY read only.
TransferCall(c) ==
    /\ mode[c] # "closed"
    /\ Step(c, "idle", "lock")
    /\ \E o \in {"read", "write"} :
           /\ o = "write" => mode[c] = "w"
           /\ op' = [op EXCEPT ![c] = o]
    /\ UNCHANGED <<mutex, devVars, dmaVars, memVars, mode, mine, data>>

TransferLock(c) ==
    \/ /\ Step(c, "lock", "alloc")
       /\ Lock(c)
       /\ UNCHANGED <<devVars, dmaVars, memVars, callVars>>
    \/ /\ Interrupted(c, "lock", "lock")
       /\ UNCHANGED callVars

\* dma_alloc_coherent into dev->buffer_v_addr; on failure that is NULL and the
\* call returns -ENOMEM.
TransferAlloc(c) ==
    /\ \/ \E b \in Buffers \ allocated :
              /\ Step(c, "alloc", "request")
              /\ buf' = b
              /\ allocated' = allocated \cup {b}
              /\ filler' = [filler EXCEPT ![b] = Free]
              /\ mine' = [mine EXCEPT ![c] = b]
              /\ UNCHANGED mutex
       \/ /\ "nomem" \in Events \/ allocated = Buffers
          /\ Step(c, "alloc", "idle")
          /\ buf' = NULL
          /\ Unlock
          /\ UNCHANGED <<allocated, filler, mine>>
    /\ UNCHANGED <<writers, busy, chan, addr, engine, fault, mode, op, data>>

\* request_dma fails while another transfer has the channel.
TransferRequest(c) ==
    /\ \/ chan = Free /\ chan' = c /\ Step(c, "request", "program")
       \/ chan # Free /\ chan' = chan /\ Step(c, "request", "undo")
    /\ UNCHANGED <<mutex, devVars, addr, engine, filler, memVars, callVars>>

\* Mutant: the error path frees the channel as the normal path does.
TransferUndoFreesChannel(c) ==
    /\ Step(c, "undo", "idle")
    /\ FreeBuffer(buf)
    /\ Unlock
    /\ chan' = Free /\ engine' = 0
    /\ mine' = [mine EXCEPT ![c] = NULL]
    /\ UNCHANGED <<devVars, addr, filler, mode, op, data>>

\* fail_client_data: free the buffer and return -EBUSY.
TransferUndo(c) ==
    /\ Step(c, "undo", "idle")
    /\ FreeBuffer(buf)
    /\ Unlock
    /\ mine' = [mine EXCEPT ![c] = NULL]
    /\ UNCHANGED <<devVars, dmaVars, mode, op, data>>

\* Mutant: busy is not set, so nobody waits for the DMA.
TransferProgramIdle(c) ==
    /\ pc[c] = "program"
    /\ Goto(c, IF op[c] = "write" THEN "load" ELSE "enable")
    /\ addr' = buf
    /\ UNCHANGED <<mutex, devVars, chan, engine, filler, memVars, callVars>>

\* busy = 1 and the set_... calls.  write goes on to copy_from_user.
TransferProgram(c) ==
    /\ pc[c] = "program"
    /\ Goto(c, IF op[c] = "write" THEN "load" ELSE "enable")
    /\ busy' = 1
    /\ addr' = buf
    /\ UNCHANGED <<mutex, writers, buf, chan, engine, filler, memVars, callVars>>

TransferLoad(c) ==
    /\ Step(c, "load", "enable")
    /\ Use(buf)
    /\ UNCHANGED <<mutex, devVars, dmaVars, allocated, callVars>>

\* enable_dma, then the mutex is given up.
TransferEnable(c) ==
    /\ Step(c, "enable", "wait")
    /\ engine' = 1
    /\ Unlock
    /\ UNCHANGED <<devVars, chan, addr, filler, memVars, callVars>>

\* Mutant: the call does not wait for the DMA.
TransferWaitSkipped(c) ==
    /\ pc[c] = "wait"
    /\ Goto(c, IF op[c] = "read" THEN "copy" ELSE "freedma")
    /\ UNCHANGED <<mutex, devVars, dmaVars, memVars, callVars>>

\* wait_event_interruptible: the result is not looked at.
TransferWait(c) ==
    /\ pc[c] = "wait"
    /\ busy = 0 \/ "wait" \in Events
    /\ Goto(c, IF op[c] = "read" THEN "copy" ELSE "freedma")
    /\ UNCHANGED <<mutex, devVars, dmaVars, memVars, callVars>>

\* copy_to_user from what dev->buffer_v_addr points to now.
TransferCopy(c) ==
    /\ Step(c, "copy", "freedma")
    /\ Use(buf)
    /\ data' = [data EXCEPT ![c] = IF buf \in Buffers THEN filler[buf] ELSE Free]
    /\ UNCHANGED <<mutex, devVars, dmaVars, allocated, mode, op, mine>>

\* free_dma: the channel is released and stopped.
TransferFreeDma(c) ==
    /\ Step(c, "freedma", "freebuf")
    /\ chan' = Free /\ engine' = 0
    /\ UNCHANGED <<mutex, devVars, addr, filler, memVars, callVars>>

\* Mutant: the channel is released, the buffer is not.
TransferFreeBufForgotten(c) ==
    /\ Step(c, "freebuf", "idle")
    /\ mine' = [mine EXCEPT ![c] = NULL]
    /\ data' = [data EXCEPT ![c] = Free]
    /\ UNCHANGED <<mutex, devVars, dmaVars, memVars, mode, op>>

TransferFreeBuf(c) ==
    /\ Step(c, "freebuf", "idle")
    /\ FreeBuffer(buf)
    /\ mine' = [mine EXCEPT ![c] = NULL]
    /\ data' = [data EXCEPT ![c] = Free]
    /\ UNCHANGED <<mutex, devVars, dmaVars, mode, op>>

-----------------------------------------------------------------------------
(* The callbacks of the PL330                                              *)

\* Mutant: the waiting transfer is not told.
DoneCallbackSilent ==
    /\ engine = 1
    /\ engine' = 0
    /\ Use(addr)
    /\ filler' = [filler EXCEPT ![addr] = chan]
    /\ UNCHANGED <<mutex, devVars, chan, addr, allocated, callVars, pc>>

\* The transfer ends: the engine has used the buffer it was given.
DoneCallback ==
    /\ engine = 1
    /\ engine' = 0
    /\ busy' = 0
    /\ Use(addr)
    /\ filler' = [filler EXCEPT ![addr] = chan]
    /\ UNCHANGED <<mutex, writers, buf, chan, addr, allocated, callVars, pc>>

\* The transfer fails; the waiting call is told nothing.
FaultCallback ==
    /\ "fault" \in Events
    /\ engine = 1
    /\ engine' = 0
    /\ busy' = 0
    /\ UNCHANGED <<mutex, writers, buf, chan, addr, filler, memVars, callVars, pc>>

-----------------------------------------------------------------------------

\* A client may make a call or not; once it has made one it goes on.
Call(c) == OpenCall(c) \/ ReleaseCall(c) \/ ShowCall(c) \/ TransferCall(c)

Body(c) ==
    \/ OpenLock(c) \/ OpenBody(c) \/ ReleaseLock(c) \/ ReleaseBody(c)
    \/ ShowLock(c) \/ ShowBody(c)
    \/ TransferLock(c) \/ TransferAlloc(c) \/ TransferRequest(c) \/ TransferUndo(c)
    \/ TransferProgram(c) \/ TransferLoad(c) \/ TransferEnable(c) \/ TransferWait(c)
    \/ TransferCopy(c) \/ TransferFreeDma(c) \/ TransferFreeBuf(c)

Next ==
    \/ \E c \in Clients : Call(c) \/ Body(c)
    \/ DoneCallback \/ FaultCallback

Spec == Init /\ [][Next]_vars

\* Calls are scheduled, the kernel's mutex does not starve a waiter for ever,
\* and a DMA that is started ends.
Fairness ==
    /\ \A c \in Clients : SF_vars(Body(c))
    /\ WF_vars(DoneCallback \/ FaultCallback)

FairSpec == Spec /\ Fairness

-----------------------------------------------------------------------------
(* Properties                                                              *)

\* "We're only going to allow one write at a time, so manage that via
\* reference counts": at most one file is open for writing, whatever fails.
OneWriter == \A c, d \in Clients : mode[c] = "w" /\ mode[d] = "w" => c = d

\* Why: the count is up while a file is open for writing.
WriterInv == OneWriter /\ \A c \in Clients : mode[c] = "w" => writers = 1

\* At most one transfer has the DMA channel, and the DMA runs for that one:
\* request_dma and free_dma pair up on every path, through signals, faults and
\* the failed transfers of other clients.
OneTransfer ==
    /\ \A c \in Clients : pc[c] \in OwnsChannel <=> chan = c
    /\ engine = 1 => chan # Free

\* No buffer is copied, freed or handed to the DMA that is not allocated.
BufferSafe == fault = 0

\* A call that returns has freed the buffer it allocated: "Deallocate the DMA
\* buffer and free the channel".
NoBufferLeak == allocated \subseteq {mine[c] : c \in Clients}

\* read gives its caller the data of its own transfer.
ReadsOwnData == \A c \in Clients : pc[c] = "freedma" /\ op[c] = "read" => data[c] = c

\* The device is busy only while a transfer is under way.
BusyIsTransfer == busy = 1 => \E c \in Clients : chan = c /\ pc[c] \in {"load", "enable", "wait"}

\* open refuses a writer while dev->writers or busy is not 0: when nobody has the
\* file open for writing, both are, whatever became of the calls of the last one.
AdmitsWhenClosed == (\A c \in Clients : mode[c] # "w") => writers = 0 /\ busy = 0

\* A call comes back to its caller.
CallReturns == \A c \in Clients : (pc[c] # "idle") ~> (pc[c] = "idle")

-----------------------------------------------------------------------------
(* When every client opens the file for writing, open admits one client at  *)
(* a time, and what the unlocked part of a transfer finds in the device      *)
(* structure is its own.  This is the invariant that shows it.               *)

HasBuffer == InCall \ {"alloc"}

ExclusiveInv ==
    /\ WriterInv /\ OneTransfer /\ BufferSafe /\ NoBufferLeak /\ BusyIsTransfer
    /\ \A c \in Clients : mode[c] # "r"
    /\ \A c \in Clients : pc[c] \in InCall \cup {"lock"} => mode[c] = "w"
    /\ \A c \in Clients : pc[c] \in HasBuffer => mine[c] = buf /\ buf \in allocated
    /\ \A c \in Clients : pc[c] \notin HasBuffer => mine[c] = NULL
    /\ \A c \in Clients : pc[c] \in {"load", "enable", "wait"} => addr = buf
    /\ engine = 1 => \E c \in Clients : pc[c] = "wait"
    /\ \A c \in Clients : pc[c] = "wait" => engine = busy
    /\ \A c \in Clients : pc[c] \in {"load", "enable"} => busy = 1
    /\ "fault" \notin Events =>
           \A c \in Clients : /\ pc[c] = "wait" /\ busy = 0 => filler[buf] = c
                              /\ pc[c] = "copy" => filler[buf] = c
                              /\ pc[c] = "freedma" /\ op[c] = "read" => data[c] = c
=============================================================================
