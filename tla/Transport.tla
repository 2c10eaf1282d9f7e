----------------------------- MODULE Transport ------------------------------
(***************************************************************************)
(* The transport layer: StreamWriter on one side of the connection, the    *)
(* three read handlers of ProtocolHandler on the other.                    *)
(*                                                                         *)
(* The connection carries cells: a 32 bit word (header, additional length) *)
(* is one cell, a payload byte is one cell.  Field widths are constants,   *)
(* so that a small instance has packets on both sides of every boundary.   *)
(* Writers are the threads that use one StreamWriter; a gathered write     *)
(* reaches the connection in pieces, under the writer's mutex.             *)
(***************************************************************************)
EXTENDS Integers, Sequences, SequencesExt

CONSTANTS
    Writers,        \* threads that write
    NumberRange,    \* 2^20, SIGNAL_NUMBER_MASK + 1
    SizeRange,      \* 2^8, the size field of the header
    TypeRange,      \* 2^2, the type field of the header
    LengthRange,    \* 2^32, the additional length word
    Packets,        \* packets the threads write
    MaxPackets,     \* bound on the packets written
    Capacity        \* cells in flight before a write blocks

ASSUME TransportAssumption ==
    /\ NumberRange \in Nat \ {0} /\ SizeRange \in Nat \ {0}
    /\ TypeRange \in Nat \ {0} /\ LengthRange \in Nat \ {0}
    /\ Packets \subseteq [type : 0 .. TypeRange - 1, number : 0 .. NumberRange - 1,
                           payload : Seq(Nat)]
    /\ "free" \notin Writers
    /\ MaxPackets \in Nat /\ Capacity \in Nat \ {0}

VARIABLES
    lock,       \* m_writeMtx: the writer that holds it, or "free"
    unsent,     \* cells of the current write not yet on the connection
    wire,       \* cells on the connection
    buffer,     \* cells the stream has read and the handlers not yet consumed
    phase,      \* the read handler that waits: "header", "length", "payload" or "closed"
    header,     \* m_type, m_signalNumber and m_length
    sent,       \* packets written so far, in the order of the lock
    delivered,  \* packets handed to the upper layer
    broken      \* the connection is gone

transportVars == <<lock, unsent, wire, buffer, phase, header, sent, delivered, broken>>

-----------------------------------------------------------------------------
(* StreamWriter *)

HeaderWord(type, number, size) ==
    number + size * NumberRange + type * NumberRange * SizeRange

\* Mutant of createTransportHeader: the first length that needs the extra word.
createTransportHeaderOffByOne(type, number, size) ==
    IF size <= SizeRange THEN <<HeaderWord(type, number, size % SizeRange)>>
    ELSE <<HeaderWord(type, number, 0), size % LengthRange>>

\* One word, or two when the length does not fit the size field.
createTransportHeader(type, number, size) ==
    IF size <= SizeRange - 1 THEN <<HeaderWord(type, number, size)>>
    ELSE <<HeaderWord(type, number, 0), size % LengthRange>>

Cells(packet) ==
    createTransportHeader(packet.type, packet.number, Len(packet.payload)) \o packet.payload

\* Mutant of StartWrite: the mutex is not taken.
StartWriteUnlocked(w, packet) ==
    /\ Len(sent) < MaxPackets
    /\ lock' = w
    /\ unsent' = Cells(packet)
    /\ sent' = Append(sent, packet)
    /\ UNCHANGED <<wire, buffer, phase, header, delivered, broken>>

\* Taking the mutex orders the packets.
StartWrite(w, packet) ==
    /\ Len(sent) < MaxPackets
    /\ lock = "free"
    /\ lock' = w
    /\ unsent' = Cells(packet)
    /\ sent' = Append(sent, packet)
    /\ UNCHANGED <<wire, buffer, phase, header, delivered, broken>>

\* write() passes on as much as the connection takes; the mutex is released when it
\* returns, with everything written or with an error.
ContinueWrite ==
    /\ lock # "free"
    /\ \E count \in 1 .. Len(unsent) :
           /\ Len(wire) + count <= Capacity
           /\ wire' = wire \o SubSeq(unsent, 1, count)
           /\ unsent' = SubSeq(unsent, count + 1, Len(unsent))
    /\ ~broken
    /\ lock' = IF unsent' = <<>> THEN "free" ELSE lock
    /\ UNCHANGED <<buffer, phase, header, sent, delivered, broken>>

FailWrite ==
    /\ lock # "free"
    /\ broken
    /\ unsent' = <<>>
    /\ lock' = "free"
    /\ UNCHANGED <<wire, buffer, phase, header, sent, delivered, broken>>

-----------------------------------------------------------------------------
(* ProtocolHandler; asyncRead(n) fills the buffer until it holds n cells, and may
   read ahead. *)

Wanted == IF phase = "payload" THEN header.length ELSE 1

Fetch ==
    /\ phase # "closed"
    /\ wire # <<>>
    /\ buffer' = Append(buffer, Head(wire))
    /\ wire' = Tail(wire)
    /\ UNCHANGED <<lock, unsent, phase, header, sent, delivered, broken>>

\* Mutant of onHeader: the signal number is not masked out of the word.
onHeaderUnmasked ==
    /\ phase = "header"
    /\ buffer # <<>>
    /\ LET word == Head(buffer)
           size == (word \div NumberRange) % SizeRange
       IN  /\ header' = [number |-> word,
                         type   |-> (word \div (NumberRange * SizeRange)) % TypeRange,
                         length |-> size]
           /\ phase' = IF size = 0 THEN "length" ELSE "payload"
    /\ buffer' = Tail(buffer)
    /\ UNCHANGED <<lock, unsent, wire, sent, delivered, broken>>

onHeader ==
    /\ phase = "header"
    /\ buffer # <<>>
    /\ LET word == Head(buffer)
           size == (word \div NumberRange) % SizeRange
       IN  /\ header' = [number |-> word % NumberRange,
                         type   |-> (word \div (NumberRange * SizeRange)) % TypeRange,
                         length |-> size]
           /\ phase' = IF size = 0 THEN "length" ELSE "payload"
    /\ buffer' = Tail(buffer)
    /\ UNCHANGED <<lock, unsent, wire, sent, delivered, broken>>

onAdditionalLength ==
    /\ phase = "length"
    /\ buffer # <<>>
    /\ header' = [header EXCEPT !.length = Head(buffer)]
    /\ phase' = "payload"
    /\ buffer' = Tail(buffer)
    /\ UNCHANGED <<lock, unsent, wire, sent, delivered, broken>>

onPayload ==
    /\ phase = "payload"
    /\ Len(buffer) >= header.length
    /\ delivered' = Append(delivered, [type |-> header.type, number |-> header.number,
                                       payload |-> SubSeq(buffer, 1, header.length)])
    /\ buffer' = SubSeq(buffer, header.length + 1, Len(buffer))
    /\ phase' = "header"
    /\ UNCHANGED <<lock, unsent, wire, header, sent, broken>>

\* Mutant of onReadError: the handler returns without closing the session.
onReadErrorIgnored == FALSE

\* A read that fails hands nothing on and ends the session, whatever it had read.
onReadError ==
    /\ broken
    /\ phase # "closed"
    /\ wire = <<>> /\ Len(buffer) < Wanted
    /\ phase' = "closed"
    /\ UNCHANGED <<lock, unsent, wire, buffer, header, sent, delivered, broken>>

\* The connection breaks; what the peer's kernel already has may still arrive.
ConnectionBreaks ==
    /\ ~broken
    /\ broken' = TRUE
    /\ \E kept \in 0 .. Len(wire) : wire' = SubSeq(wire, 1, kept)
    /\ UNCHANGED <<lock, unsent, buffer, phase, header, sent, delivered>>

-----------------------------------------------------------------------------
TransportInit ==
    /\ lock = "free" /\ unsent = <<>> /\ wire = <<>> /\ buffer = <<>>
    /\ phase = "header"
    /\ header = [number |-> 0, type |-> 0, length |-> 0]
    /\ sent = <<>> /\ delivered = <<>> /\ broken = FALSE

TransportNext ==
    \/ \E w \in Writers, packet \in Packets : StartWrite(w, packet)
    \/ ContinueWrite
    \/ FailWrite
    \/ Fetch
    \/ onHeader
    \/ onAdditionalLength
    \/ onPayload
    \/ onReadError
    \/ ConnectionBreaks

\* A begun write and a pending read go on; nobody has to write and nothing has to
\* break.
TransportFairness ==
    /\ WF_transportVars(ContinueWrite) /\ WF_transportVars(FailWrite)
    /\ WF_transportVars(Fetch)
    /\ WF_transportVars(onHeader \/ onAdditionalLength \/ onPayload \/ onReadError)

TransportSpec == TransportInit /\ [][TransportNext]_transportVars /\ TransportFairness

-----------------------------------------------------------------------------
TransportTypeOK ==
    /\ lock \in Writers \cup {"free"}
    /\ unsent \in Seq(Nat) /\ wire \in Seq(Nat) /\ buffer \in Seq(Nat)
    /\ Len(wire) <= Capacity
    /\ phase \in {"header", "length", "payload", "closed"}
    /\ header \in [number : 0 .. NumberRange - 1, type : 0 .. TypeRange - 1, length : Nat]
    /\ broken \in BOOLEAN

\* What is handed on is what was written, whole and in order, whatever the lengths,
\* the threads and the pieces were (StreamWriter.cpp:64-80 against
\* ProtocolHandler.cpp:101-131).
DeliveredAsSent == IsPrefix(delivered, sent)

\* The transport is a queue of whole packets: the abstract specification the layers
\* above are built on.
Fifo == INSTANCE PacketFifo WITH
            queue <- SubSeq(sent, Len(delivered) + 1, Len(sent)),
            delivered <- delivered, broken <- broken, Packets <- Packets

ImplementsFifo == Fifo!FifoSpec

\* Every packet is delivered in the end unless the connection breaks: no length makes
\* a read handler wait for cells that never come, and no writer keeps the mutex.
EverythingDelivered == (Len(delivered) < Len(sent)) ~> (delivered = sent \/ broken)

\* A broken connection ends the session (ProtocolHandler.cpp:103, :123, :135).
BreakEndsSession == broken ~> (phase = "closed")
=============================================================================
