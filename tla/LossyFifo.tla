----------------------------- MODULE LossyFifo -----------------------------
(***************************************************************************)
(* What the keyboard path promises to the shell, without the executor, the *)
(* waker or the interrupt flag: a bounded FIFO that drops a key only at    *)
(* the producer's end, only while it is not open or is full, that never    *)
(* reorders or duplicates one, and that hands every key it accepted to the *)
(* consumer.                                                               *)
(***************************************************************************)
EXTENDS Naturals, Sequences

CONSTANTS
    Cap,        \* capacity of the buffer
    MaxKeys     \* bound on the keys typed; keys are numbered in typing order

VARIABLES
    open,       \* the consumer has created the buffer
    buf,        \* accepted, not yet delivered
    out,        \* delivered, in order
    next        \* number of keys offered so far

fifoVars == <<open, buf, out, next>>

FifoInit == open = FALSE /\ buf = <<>> /\ out = <<>> /\ next = 0

Open == ~open /\ open' = TRUE /\ UNCHANGED <<buf, out, next>>

\* The producer offers key next + 1 and the buffer takes it.
Accept ==
    /\ next < MaxKeys
    /\ open /\ Len(buf) < Cap
    /\ buf' = Append(buf, next + 1)
    /\ next' = next + 1
    /\ UNCHANGED <<open, out>>

\* The producer offers key next + 1 and it is lost.
Drop ==
    /\ next < MaxKeys
    /\ ~open \/ Len(buf) = Cap
    /\ next' = next + 1
    /\ UNCHANGED <<open, buf, out>>

Deliver ==
    /\ buf # <<>>
    /\ out' = Append(out, Head(buf))
    /\ buf' = Tail(buf)
    /\ UNCHANGED <<open, next>>

FifoNext == Open \/ Accept \/ Drop \/ Deliver

Delivers == WF_fifoVars(Deliver)
FifoSpec == FifoInit /\ [][FifoNext]_fifoVars /\ Delivers
=============================================================================
