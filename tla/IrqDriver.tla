------------------------------ MODULE IrqDriver ------------------------------
(***************************************************************************)
(* The interrupt character drivers dataIrq.c and irq.c (the same code under *)
(* two names): an interrupt handler sets irqHappend and wakes the wait      *)
(* queue; read() waits for irqHappend, clears it and returns 1, whatever    *)
(* ended the wait.  open() claims the interrupt line, release() frees it    *)
(* and leaves irqHappend as it is.                                         *)
(*                                                                         *)
(* wait_event_interruptible is the kernel's: test, then loop { join the     *)
(* queue; test again; leave if a signal is pending; sleep }.  It is split   *)
(* into those steps so that the handler may run between any two of them.    *)
(***************************************************************************)
EXTENDS Naturals

CONSTANT Readers    \* threads that read through the one open descriptor

VARIABLES
    line,         \* the edge the interrupt controller has latched for the CPU
    registered,   \* request_irq has installed the handler
    irqHappend,   \* static volatile int irqHappend
    handler,      \* where the interrupt handler is
    waitq,        \* threads queued on the wait queue and not woken since
    pc,           \* where each thread is in data_irq_read
    sig           \* threads with a pending signal

vars == <<line, registered, irqHappend, handler, waitq, pc, sig>>

Places == {"user", "test", "prepare", "recheck", "sleep", "clear"}

TypeOK ==
    /\ line \in BOOLEAN
    /\ registered \in BOOLEAN
    /\ irqHappend \in {0, 1}
    /\ handler \in {"idle", "wake"}
    /\ waitq \in SUBSET Readers
    /\ pc \in [Readers -> Places]
    /\ sig \in SUBSET Readers

\* The flag is static: it outlives every open and close of the device, so a
\* process that opens the device may find it set.
Init ==
    /\ line = FALSE
    /\ registered = FALSE
    /\ irqHappend \in {0, 1}
    /\ handler = "idle"
    /\ waitq = {}
    /\ pc = [t \in Readers |-> "user"]
    /\ sig = {}

-----------------------------------------------------------------------------
(* External: the interrupt line and signals.                               *)

\* IRQF_TRIGGER_RISING: the controller latches an edge even while nothing is
\* registered for it.
Edge ==
    /\ line' = TRUE
    /\ UNCHANGED <<registered, irqHappend, handler, waitq, pc, sig>>

Signal(t) ==
    /\ pc[t] # "user"
    /\ sig' = sig \cup {t}
    /\ UNCHANGED <<line, registered, irqHappend, handler, waitq, pc>>

-----------------------------------------------------------------------------
(* open and release                                                        *)

\* request_irq without IRQF_SHARED: a second open fails and changes nothing.
Open ==
    /\ ~registered
    /\ registered' = TRUE
    /\ UNCHANGED <<line, irqHappend, handler, waitq, pc, sig>>

\* release runs when the last reference is gone, so no thread is in read();
\* free_irq waits for a running handler.
Close ==
    /\ registered
    /\ handler = "idle"
    /\ \A t \in Readers : pc[t] = "user"
    /\ registered' = FALSE
    /\ UNCHANGED <<line, irqHappend, handler, waitq, pc, sig>>

-----------------------------------------------------------------------------
(* The interrupt handler                                                   *)

\* Mutant: the handler counts interrupts in the flag.
IRQCounts ==
    /\ line /\ registered /\ handler = "idle"
    /\ line' = FALSE
    /\ irqHappend' = irqHappend + 1
    /\ handler' = "wake"
    /\ UNCHANGED <<registered, waitq, pc, sig>>

IRQ ==
    /\ line /\ registered /\ handler = "idle"
    /\ line' = FALSE
    /\ irqHappend' = 1
    /\ handler' = "wake"
    /\ UNCHANGED <<registered, waitq, pc, sig>>

Wake ==
    /\ handler = "wake"
    /\ handler' = "idle"
    /\ waitq' = {}
    /\ UNCHANGED <<line, registered, irqHappend, pc, sig>>

-----------------------------------------------------------------------------
(* read                                                                    *)

Goto(t, place) == pc' = [pc EXCEPT ![t] = place]

Read(t) ==
    /\ registered
    /\ pc[t] = "user"
    /\ Goto(t, "test")
    /\ UNCHANGED <<line, registered, irqHappend, handler, waitq, sig>>

Test(t) ==
    /\ pc[t] = "test"
    /\ Goto(t, IF irqHappend = 1 THEN "clear" ELSE "prepare")
    /\ UNCHANGED <<line, registered, irqHappend, handler, waitq, sig>>

Prepare(t) ==
    /\ pc[t] = "prepare"
    /\ Goto(t, "recheck")
    /\ waitq' = waitq \cup {t}
    /\ UNCHANGED <<line, registered, irqHappend, handler, sig>>

\* Mutant: the waiter does not test the flag again once it is queued.
RecheckNoTest(t) ==
    /\ pc[t] = "recheck"
    /\ \/ /\ t \in sig
          /\ Goto(t, "clear")
          /\ waitq' = waitq \ {t}
       \/ /\ t \notin sig
          /\ Goto(t, "sleep")
          /\ UNCHANGED waitq
    /\ UNCHANGED <<line, registered, irqHappend, handler, sig>>

\* The result of the wait (0, or -ERESTARTSYS for a signal) is not looked at.
Recheck(t) ==
    /\ pc[t] = "recheck"
    /\ \/ /\ irqHappend = 1 \/ t \in sig
          /\ Goto(t, "clear")
          /\ waitq' = waitq \ {t}
       \/ /\ irqHappend = 0 /\ t \notin sig
          /\ Goto(t, "sleep")
          /\ UNCHANGED waitq
    /\ UNCHANGED <<line, registered, irqHappend, handler, sig>>

\* schedule() returns once the thread was woken or has a signal to handle.
Sleep(t) ==
    /\ pc[t] = "sleep"
    /\ t \notin waitq \/ t \in sig
    /\ Goto(t, "prepare")
    /\ UNCHANGED <<line, registered, irqHappend, handler, waitq, sig>>

\* Mutant: the flag is left set when read() returns.
ClearForgotten(t) ==
    /\ pc[t] = "clear"
    /\ Goto(t, "user")
    /\ sig' = sig \ {t}
    /\ UNCHANGED <<line, registered, irqHappend, handler, waitq>>

\* irqHappend = 0; return 1.  A pending signal is handled on the way out.
Clear(t) ==
    /\ pc[t] = "clear"
    /\ irqHappend' = 0
    /\ Goto(t, "user")
    /\ sig' = sig \ {t}
    /\ UNCHANGED <<line, registered, handler, waitq>>

ReadStep(t) == Test(t) \/ Prepare(t) \/ Recheck(t) \/ Sleep(t) \/ Clear(t)

Next ==
    \/ Edge \/ Open \/ Close \/ IRQ \/ Wake
    \/ \E t \in Readers : Signal(t) \/ Read(t) \/ ReadStep(t)

Spec == Init /\ [][Next]_vars

\* The CPU takes a latched interrupt and finishes the handler; a thread that
\* is inside read() and can run is scheduled.
Fairness ==
    /\ WF_vars(IRQ)
    /\ WF_vars(Wake)
    /\ \A t \in Readers : WF_vars(ReadStep(t))

FairSpec == Spec /\ Fairness

-----------------------------------------------------------------------------
(* Properties                                                              *)

\* No wake-up is lost in wait_event_interruptible against the handler: a
\* thread that sleeps in the queue while irqHappend is set is one that the
\* handler, between its two statements, is about to wake.
NoLostWakeup ==
    \A t \in Readers :
        pc[t] = "sleep" /\ t \in waitq /\ irqHappend = 1 => handler = "wake"

\* An interrupt that is latched while somebody reads is always reported:
\* irqHappend does not stay set under a reader, however its steps fall
\* between those of the handler.
EventReported ==
    (irqHappend = 1 /\ \E t \in Readers : pc[t] # "user") ~> (irqHappend = 0)

\* The one thread that reads, where there is only one.
Reader == CHOOSE t \in Readers : TRUE

\* Why a lone reader is about to return: the flag it saw is still set (nobody
\* else clears it), or a signal is pending.  Signals pend only inside read().
ReturnIsDue ==
    /\ pc[Reader] = "clear" => irqHappend = 1 \/ Reader \in sig
    /\ Reader \in sig => pc[Reader] # "user"

\* With one reading thread the driver is the one-place latch: read() returns 1
\* only for an interrupt handled since its previous return, or for a signal.
Latch == INSTANCE EventLatch WITH
    pending <- irqHappend = 1,
    reading <- pc[Reader] # "user",
    signalled <- Reader \in sig

LatchSpec == Latch!Spec
=============================================================================
