----------------------------- MODULE EventLatch -----------------------------
(***************************************************************************)
(* What an interrupt character device of this system promises to the one   *)
(* thread that reads it: a one-place latch.  Interrupts set the latch and   *)
(* coalesce while it is set; a read returns by emptying the latch, and it   *)
(* returns with the latch empty only when a signal cut the wait short.      *)
(* The acquisition model uses the latch in this form; IrqDriver is shown    *)
(* to implement it.                                                        *)
(***************************************************************************)

VARIABLES
    pending,    \* an interrupt was handled and not yet reported
    reading,    \* the thread is inside read()
    signalled   \* a signal is pending for the thread

vars == <<pending, reading, signalled>>

Init == pending \in BOOLEAN /\ reading = FALSE /\ signalled = FALSE

Raise == pending' = TRUE /\ UNCHANGED <<reading, signalled>>

Signal == reading /\ signalled' = TRUE /\ UNCHANGED <<pending, reading>>

Read == ~reading /\ reading' = TRUE /\ UNCHANGED <<pending, signalled>>

Return ==
    /\ reading
    /\ pending \/ signalled
    /\ reading' = FALSE
    /\ pending' = FALSE
    /\ signalled' = FALSE

Next == Raise \/ Signal \/ Read \/ Return

Spec == Init /\ [][Next]_vars
=============================================================================
