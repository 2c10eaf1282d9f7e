----------------------------- MODULE PacketFifo -----------------------------
(***************************************************************************)
(* What the transport layer promises the layers above it: packets come out *)
(* whole, once and in the order they were written, until the connection    *)
(* breaks.  Streaming takes this for granted.                              *)
(***************************************************************************)
EXTENDS Sequences

CONSTANT Packets

VARIABLES
    queue,      \* packets written and not yet delivered
    delivered,  \* packets delivered, in order
    broken      \* the connection is gone

fifoVars == <<queue, delivered, broken>>

FifoInit == queue = <<>> /\ delivered = <<>> /\ broken = FALSE

Send(packet) ==
    /\ queue' = Append(queue, packet)
    /\ UNCHANGED <<delivered, broken>>

Deliver ==
    /\ queue # <<>>
    /\ delivered' = Append(delivered, Head(queue))
    /\ queue' = Tail(queue)
    /\ UNCHANGED broken

Break == broken' = TRUE /\ UNCHANGED <<queue, delivered>>

FifoNext == (\E packet \in Packets : Send(packet)) \/ Deliver \/ Break

FifoSpec == FifoInit /\ [][FifoNext]_fifoVars
=============================================================================
