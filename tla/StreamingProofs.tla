-------------------------- MODULE StreamingProofs ---------------------------
(***************************************************************************)
(* Proofs about module Streaming, for every set of signals, tables and     *)
(* sessions, every word width and every capacity of the stream.            *)
(*                                                                         *)
(* What the consumer knows of the signals changes with every packet it     *)
(* reads, so the invariant follows its knowledge through the packets on    *)
(* their way: a chain of views that begins at what the consumer has in its *)
(* registers and ends at what the producer's threads believe it will have. *)
(* Each packet fits the view in front of it.                               *)
(***************************************************************************)
EXTENDS Streaming, ContainerTypes, SequenceTheorems, FiniteSetTheorems,
        WellFoundedInduction

IsSequence(packets) == \E S : packets \in Seq(S)

RuleOf(n) ==
    IF Kind[n] = "LinearTimeSignal" THEN "linear"
    ELSE IF Kind[n] = "ConstantSignal" THEN "constant" ELSE "explicit"

SizeOf(n) == IF n \in Times THEN IndexBytes ELSE ValueBytes

BytesOf(n) == IF Kind[n] = "ConstantSignal" THEN IndexBytes + ValueBytes ELSE ValueBytes

\* A description of n: it names table, rule, size and role of its class, and is one the
\* consumer's parser accepts.
Describes(n, params) ==
    /\ params \in SignalParams
    /\ params.tableId = TableOf[n] /\ params.fault = "none"
    /\ params.definition \in Definition
    /\ params.definition.rule = RuleOf(n) /\ params.definition.size = SizeOf(n)
    /\ params.definition.quantityTime = (n \in Times)
    /\ RuleOf(n) = "linear" => params.definition.delta \in Word \ {0}
    /\ params.valueIndex \in IF Kind[n] = "SynchronousSignal" THEN Word ELSE {Absent}

IsBlock(packet) ==
    /\ packet.kind = "data" /\ packet.signal \in SignalNumbers /\ packet.payload \in Payload
    /\ packet.signal \in Values =>
           packet.count \in Nat /\ packet.payload.len = packet.count * BytesOf(packet.signal)
    /\ packet.signal \in Times => packet.payload.first = 0 /\ packet.truth = Unset

Written(packet) ==
    \/ packet.kind \in {"subscribe", "unsubscribe"} /\ packet.signal \in SignalNumbers
    \/ /\ packet.kind = "signal" /\ packet.signal \in SignalNumbers
       /\ Describes(packet.signal, packet.params)
    \/ IsBlock(packet)

ChannelOK == IsSequence(channel) /\ \A i \in 1 .. Len(channel) : Written(channel[i])

ControlOK ==
    \/ control = Idle
    \/ control.step = "compose" /\ control.signal \in SignalNumbers
    \/ /\ control.step = "write" /\ control.signal \in SignalNumbers
       /\ Describes(control.signal, control.params)

SenderOK == sender = Idle \/ (sender.step = "write" /\ IsBlock(sender.packet)
                              /\ sender.packet.signal \in Values)

TypeInv == StreamTypeOK /\ ChannelOK /\ ControlOK /\ SenderOK

-----------------------------------------------------------------------------
(* Types. *)

\* A packet more on the stream.
LEMMA PacketWritten ==
    ASSUME TypeInv, NEW packet, Written(packet), Write(packet)
    PROVE  /\ ChannelOK' /\ Len(channel') <= Capacity
           /\ \A i \in DOMAIN channel' : channel'[i].signal \in SignalNumbers
<1>1. PICK S : channel \in Seq(S)
  BY DEF TypeInv, ChannelOK, IsSequence
<1>2. /\ channel \in Seq(S \cup {packet}) /\ Len(channel) \in Nat
  BY <1>1
<1>3. channel' = Append(channel, packet) /\ Len(channel) < Capacity
  BY DEF Write
<1>4. /\ Append(channel, packet) \in Seq(S \cup {packet})
      /\ Len(Append(channel, packet)) = Len(channel) + 1
      /\ \A i \in 1 .. Len(channel) : Append(channel, packet)[i] = channel[i]
      /\ Append(channel, packet)[Len(channel) + 1] = packet
      /\ DOMAIN Append(channel, packet) = 1 .. Len(Append(channel, packet))
  BY <1>2, AppendProperties
<1> DEFINE longer == Append(channel, packet)
<1> HIDE DEF longer
<1>5. /\ longer \in Seq(S \cup {packet}) /\ Len(longer) = Len(channel) + 1
      /\ \A i \in 1 .. Len(channel) : longer[i] = channel[i]
      /\ longer[Len(channel) + 1] = packet /\ DOMAIN longer = 1 .. Len(longer)
      /\ channel' = longer
  BY <1>3, <1>4 DEF longer
<1>6. \A i \in 1 .. Len(longer) : Written(longer[i])
  BY <1>2, <1>5 DEF TypeInv, ChannelOK
<1>7. \A i \in 1 .. Len(longer) : longer[i].signal \in SignalNumbers
  BY <1>6 DEF Written, IsBlock
<1>8. Len(longer) <= Capacity
  BY <1>2, <1>3, <1>5, StreamingAssumption
<1> QED BY <1>5, <1>6, <1>7, <1>8 DEF ChannelOK, IsSequence

\* What a signal describes itself by, whatever its class.
LEMMA DescriptionDescribes ==
    ASSUME TypeInv, NEW n \in SignalNumbers
    PROVE  Describes(n, Description(n))
<1>1. /\ Kind[n] \in TimeKinds \cup ValueKinds /\ TableOf[n] \in TableIds
      /\ valueIndex[n] \in Word /\ (n \in Times => rate[n] \in Word \ {0})
      /\ ValueBytes \in Nat \ {0}
  BY StreamingAssumption DEF TypeInv, StreamTypeOK
<1>2. ASSUME NEW index \in Word \cup {Absent}, NEW delta \in Word \cup {Absent},
             RuleOf(n) = "linear" => delta \in Word \ {0},
             index \in IF Kind[n] = "SynchronousSignal" THEN Word ELSE {Absent}
      PROVE  Describes(n, Params(n, index, delta, RuleOf(n), SizeOf(n)))
  <2> DEFINE def == [delta |-> delta, rule |-> RuleOf(n), size |-> SizeOf(n),
                     quantityTime |-> n \in Times]
  <2>1. RuleOf(n) \in RuleTypes /\ SizeOf(n) \in Nat /\ (n \in Times) \in BOOLEAN
    BY <1>1 DEF RuleOf, SizeOf, RuleTypes, IndexBytes
  <2>2. def \in Definition
    BY <1>2, <2>1 DEF Definition
  <2>3. /\ def.rule = RuleOf(n) /\ def.size = SizeOf(n) /\ def.quantityTime = (n \in Times)
        /\ def.delta = delta
    OBVIOUS
  <2>4. Params(n, index, delta, RuleOf(n), SizeOf(n))
        = [tableId |-> TableOf[n], valueIndex |-> index, fault |-> "none", definition |-> def]
    BY DEF Params
  <2> HIDE DEF def
  <2> QED BY <1>1, <1>2, <2>2, <2>3, <2>4 DEF Describes, SignalParams, Faults
<1>3. CASE Kind[n] = "LinearTimeSignal"
  <2>1. RuleOf(n) = "linear" /\ SizeOf(n) = IndexBytes /\ rate[n] \in Word \ {0}
    BY <1>1, <1>3 DEF RuleOf, SizeOf, Times, TimeKinds
  <2>2. Description(n) = Params(n, Absent, rate[n], "linear", IndexBytes)
    BY <1>3 DEF Description, LinearTimeDescription
  <2> QED BY <1>2, <1>3, <2>1, <2>2
<1>4. CASE Kind[n] = "ExplicitTimeSignal"
  <2>1. RuleOf(n) = "explicit" /\ SizeOf(n) = IndexBytes
    BY <1>1, <1>4 DEF RuleOf, SizeOf, Times, TimeKinds
  <2>2. Description(n) = Params(n, Absent, Absent, "explicit", IndexBytes)
    BY <1>4 DEF Description, ExplicitTimeDescription
  <2> QED BY <1>2, <1>4, <2>1, <2>2
<1>5. CASE Kind[n] = "SynchronousSignal"
  <2>1. RuleOf(n) = "explicit" /\ SizeOf(n) = ValueBytes
    BY <1>1, <1>5 DEF RuleOf, SizeOf, Times, TimeKinds
  <2>2. Description(n) = Params(n, valueIndex[n], Absent, "explicit", ValueBytes)
    BY <1>5 DEF Description, SynchronousDescription
  <2> QED BY <1>1, <1>2, <1>5, <2>1, <2>2
<1>6. CASE Kind[n] = "AsynchronousSignal"
  <2>1. RuleOf(n) = "explicit" /\ SizeOf(n) = ValueBytes
    BY <1>1, <1>6 DEF RuleOf, SizeOf, Times, TimeKinds
  <2>2. Description(n) = Params(n, Absent, Absent, "explicit", ValueBytes)
    BY <1>6 DEF Description, AsynchronousDescription
  <2> QED BY <1>2, <1>6, <2>1, <2>2
<1>7. CASE Kind[n] = "ConstantSignal"
  <2>1. RuleOf(n) = "constant" /\ SizeOf(n) = ValueBytes
    BY <1>1, <1>7 DEF RuleOf, SizeOf, Times, TimeKinds
  <2>2. Description(n) = Params(n, Absent, Absent, "constant", ValueBytes)
    BY <1>7 DEF Description, ConstantDescription
  <2> QED BY <1>2, <1>7, <2>1, <2>2
<1> QED BY <1>1, <1>3, <1>4, <1>5, <1>6, <1>7 DEF TimeKinds, ValueKinds

LEMMA ZeroIsWord == 0 \in Word
BY WrapAssumption DEF Word

\* A block of values is a whole number of values long.
LEMMA BlockIsBlock ==
    ASSUME NEW n \in Values, NEW count \in Nat, NEW first \in Word, NEW truth
    PROVE  /\ IsBlock(Block(n, BytesOf(n), count, first, truth))
           /\ Block(n, BytesOf(n), count, first, truth).signal = n
<1>1. BytesOf(n) \in Nat /\ n \in SignalNumbers
  BY StreamingAssumption DEF BytesOf, IndexBytes, Values
<1>2. count * BytesOf(n) \in Nat /\ 0 \in Word
  BY <1>1, WrapAssumption DEF Word
<1> DEFINE payload == [len |-> count * BytesOf(n), first |-> first, second |-> 0]
<1>3. payload \in Payload /\ payload.len = count * BytesOf(n)
  BY <1>2 DEF Payload
<1>4. Block(n, BytesOf(n), count, first, truth)
      = [kind |-> "data", signal |-> n, count |-> count, truth |-> truth, payload |-> payload]
  BY DEF Block
<1> HIDE DEF payload
<1> QED BY <1>1, <1>3, <1>4 DEF IsBlock, Values

\* The remainder of a type step: an action that leaves the consumer alone and writes
\* nothing.
LEMMA NothingWritten ==
    ASSUME TypeInv, UNCHANGED channel
    PROVE  /\ ChannelOK' /\ Len(channel') <= Capacity
           /\ \A i \in DOMAIN channel' : channel'[i].signal \in SignalNumbers
BY DEF TypeInv, StreamTypeOK, ChannelOK

\* An action of the producer leaves the container and the packet read last alone.
LEMMA ConsumerKept ==
    ASSUME ContainerTypeOK, UNCHANGED consumerVars
    PROVE  /\ ContainerTypeOK'
           /\ UNCHANGED <<subscribedSignals, tables, last, status, received>>
BY DEF consumerVars, containerVars, ContainerTypeOK, SignalsTypeOK, TablesTypeOK, AnswerTypeOK

\* The control thread keeps the types (BaseSignal.cpp:24-38, LinearTimeSignal.cpp).
LEMMA ControlStepTypes ==
    ASSUME TypeInv,
           \/ \E n \in SignalNumbers : Subscribe(n) \/ DescribeAgain(n) \/ Unsubscribe(n)
           \/ \E t \in Times, ticks \in Rates : SetOutputRate(t, ticks)
           \/ ComposeDescription
           \/ WriteDescription
    PROVE  TypeInv'
<1> USE DEF TypeInv
<1>0. UNCHANGED <<setup, valueIndex, sender, nextTime, consumerVars>>
  BY DEF Subscribe, DescribeAgain, Unsubscribe, SetOutputRate, ComposeDescription,
         WriteDescription
<1>1. /\ ContainerTypeOK' /\ setup' \in Setups /\ valueIndex' \in [SignalNumbers -> Word]
      /\ nextTime' \in [SignalNumbers -> Word \cup {Unset}]
      /\ sender'.step \in {"idle", "write"} /\ SenderOK'
  BY <1>0, ConsumerKept DEF StreamTypeOK, SenderOK
<1>2. ASSUME /\ ChannelOK' /\ Len(channel') <= Capacity
             /\ \A i \in DOMAIN channel' : channel'[i].signal \in SignalNumbers,
             rate' \in [Times -> Word \ {0}], ControlOK',
             acked' \subseteq SignalNumbers, started' \subseteq Times
      PROVE  TypeInv'
  <2>1. control'.step \in {"idle", "compose", "write"}
    BY <1>2 DEF ControlOK, Idle
  <2> QED BY <1>1, <1>2, <2>1 DEF StreamTypeOK
<1>3. ASSUME NEW n \in SignalNumbers, Subscribe(n) PROVE TypeInv'
  <2>1. Written([kind |-> "subscribe", signal |-> n])
    BY DEF Written
  <2>2. ControlOK'
    BY <1>3 DEF Subscribe, ControlOK
  <2> QED BY <1>2, <1>3, <2>1, <2>2, PacketWritten DEF Subscribe, StreamTypeOK
<1>4. ASSUME NEW n \in SignalNumbers, DescribeAgain(n) PROVE TypeInv'
  <2>1. ControlOK'
    BY <1>4 DEF DescribeAgain, ControlOK
  <2> QED BY <1>2, <1>4, <2>1, NothingWritten DEF DescribeAgain, StreamTypeOK
<1>5. ASSUME NEW n \in SignalNumbers, Unsubscribe(n) PROVE TypeInv'
  <2>1. Written([kind |-> "unsubscribe", signal |-> n])
    BY DEF Written
  <2>2. ControlOK'
    BY <1>5 DEF Unsubscribe, ControlOK
  <2> QED BY <1>2, <1>5, <2>1, <2>2, PacketWritten DEF Unsubscribe, StreamTypeOK
<1>6. ASSUME NEW t \in Times, NEW ticks \in Rates, SetOutputRate(t, ticks) PROVE TypeInv'
  <2>1. ControlOK'
    BY <1>6 DEF SetOutputRate, ControlOK
  <2>2. rate' \in [Times -> Word \ {0}]
    BY <1>6, StreamingAssumption DEF SetOutputRate, StreamTypeOK
  <2> QED BY <1>2, <1>6, <2>1, <2>2, NothingWritten DEF SetOutputRate, StreamTypeOK
<1>7. CASE ComposeDescription
  <2>1. control.signal \in SignalNumbers
    BY <1>7 DEF ComposeDescription, ControlOK, Idle
  <2>2. Describes(control.signal, Description(control.signal))
    BY <2>1, DescriptionDescribes
  <2> DEFINE params == Description(control.signal)
  <2>3. control' = [step |-> "write", signal |-> control.signal, params |-> params]
    BY <1>7 DEF ComposeDescription
  <2> HIDE DEF params
  <2>4. control'.step = "write" /\ control'.signal = control.signal /\ control'.params = params
    BY <2>3
  <2>5. ControlOK'
    BY <2>1, <2>2, <2>4 DEF ControlOK, params
  <2> QED BY <1>2, <1>7, <2>5, NothingWritten DEF ComposeDescription, StreamTypeOK
<1>8. CASE WriteDescription
  <2>1. control.signal \in SignalNumbers /\ Describes(control.signal, control.params)
    BY <1>8 DEF WriteDescription, ControlOK, Idle
  <2>2. Written([kind |-> "signal", signal |-> control.signal, params |-> control.params])
    BY <2>1 DEF Written
  <2>3. ControlOK'
    BY <1>8 DEF WriteDescription, ControlOK
  <2> QED BY <1>2, <1>8, <2>2, <2>3, PacketWritten DEF WriteDescription, StreamTypeOK
<1> QED BY <1>3, <1>4, <1>5, <1>6, <1>7, <1>8

\* The time an application means by a start is a time.
LEMMA StartMeant ==
    ASSUME TypeInv, NEW t \in Times, NEW ticks \in Word, NEW n \in SignalNumbers
    PROVE  MeantByStart(n, t, ticks) \in Word
<1>1. valueIndex[n] \in Nat /\ rate[t] \in Nat /\ ticks \in Nat
  BY DEF TypeInv, StreamTypeOK, Word
<1> DEFINE time == ticks + (valueIndex[n] * rate[t])
<1>2. time \in Int
  BY <1>1
<1> HIDE DEF time
<1>3. time % Wrap \in Word
  BY <1>2, WrapInWord
<1> QED BY <1>3 DEF MeantByStart, time

\* The data thread keeps the types (BaseDomainSignal.cpp:91-116, SynchronousSignal.hpp:58-66,
\* AsynchronousSignal.hpp, ConstantSignal.hpp).
LEMMA SenderStepTypes ==
    ASSUME TypeInv,
           \/ \E t \in Times, ticks \in Word : SetTimeStart(t, ticks)
           \/ \E n \in Values, count \in Nat : CountValues(n, count)
           \/ WriteValues
           \/ \E n \in Values : \E truth : AddTuple(n, truth)
           \/ \E n \in Values, index \in Word, count \in Nat : AddConstant(n, index, count)
    PROVE  TypeInv'
<1> USE DEF TypeInv
<1>0. UNCHANGED <<setup, rate, control, acked, consumerVars>>
  BY DEF SetTimeStart, CountValues, WriteValues, AddTuple, AddConstant, producerVars
<1>1. /\ ContainerTypeOK' /\ setup' \in Setups /\ rate' \in [Times -> Word \ {0}]
      /\ acked' \subseteq SignalNumbers /\ ControlOK'
      /\ control'.step \in {"idle", "compose", "write"}
  BY <1>0, ConsumerKept DEF StreamTypeOK, ControlOK
<1>2. ASSUME /\ ChannelOK' /\ Len(channel') <= Capacity
             /\ \A i \in DOMAIN channel' : channel'[i].signal \in SignalNumbers,
             valueIndex' \in [SignalNumbers -> Word], SenderOK',
             nextTime' \in [SignalNumbers -> Word \cup {Unset}], started' \subseteq Times
      PROVE  TypeInv'
  <2>1. sender'.step \in {"idle", "write"}
    BY <1>2 DEF SenderOK, Idle
  <2> QED BY <1>1, <1>2, <2>1 DEF StreamTypeOK
<1>3. ASSUME NEW t \in Times, NEW ticks \in Word, SetTimeStart(t, ticks) PROVE TypeInv'
  <2> DEFINE payload == [len |-> 2 * IndexBytes, first |-> 0, second |-> ticks]
             packet  == [kind |-> "data", signal |-> t, truth |-> Unset, payload |-> payload]
  <2>1. payload \in Payload /\ ticks \in Word /\ payload.first = 0
    BY WrapAssumption, StreamingAssumption DEF Payload, IndexBytes, Word
  <2>2. t \in SignalNumbers /\ t \notin Values
    BY DEF Times, Values
  <2>3. Written(packet)
    <3> HIDE DEF payload
    <3> QED BY <2>1, <2>2 DEF Written, IsBlock
  <2>4. Write(packet)
    BY <1>3 DEF SetTimeStart
  <2> HIDE DEF packet
  <2>5. /\ nextTime' \in [SignalNumbers -> Word \cup {Unset}] /\ started' \subseteq Times
        /\ valueIndex' = valueIndex /\ sender' = sender
    BY <1>3, <2>1, StartMeant DEF SetTimeStart, StreamTypeOK
  <2> QED BY <1>2, <2>3, <2>4, <2>5, PacketWritten DEF StreamTypeOK, SenderOK
<1>4. ASSUME NEW n \in Values, NEW count \in Nat, CountValues(n, count) PROVE TypeInv'
  <2>1. n \in SignalNumbers /\ count \in Nat /\ BytesOf(n) = ValueBytes
    BY <1>4, StreamingAssumption DEF Values, CountValues, BytesOf
  <2>2. valueIndex' \in [SignalNumbers -> Word]
    <3>1. valueIndex[n] + count \in Int
      BY <2>1 DEF StreamTypeOK, Word
    <3>2. (valueIndex[n] + count) % Wrap \in Word
      BY <3>1, WrapInWord
    <3> QED BY <1>4, <3>2 DEF CountValues, StreamTypeOK
  <2>3. Delta(n) \in Nat
    BY DEF Delta, TimesOf, StreamTypeOK, Word
  <2>4. nextTime' \in [SignalNumbers -> Word \cup {Unset}]
    <3> DEFINE ticks == count * Delta(n)
    <3>1. ticks \in Nat
      BY <2>1, <2>3
    <3> HIDE DEF ticks
    <3>2. nextTime[n] \in Word => nextTime[n] + ticks \in Int
      BY <3>1 DEF Word
    <3>3. Advance(nextTime[n], ticks) \in Word \cup {Unset}
      BY <2>1, <3>2, WrapInWord DEF Advance, StreamTypeOK
    <3>4. nextTime' = [nextTime EXCEPT ![n] = Advance(@, ticks)]
      BY <1>4 DEF CountValues, ticks
    <3> QED BY <3>3, <3>4 DEF StreamTypeOK
  <2>5. SenderOK'
    <3> DEFINE packet == Block(n, ValueBytes, count, 0, nextTime[n])
    <3>1. IsBlock(packet) /\ packet.signal = n
      BY <2>1, BlockIsBlock, ZeroIsWord
    <3>2. sender' = [step |-> "write", packet |-> packet]
      BY <1>4 DEF CountValues
    <3> HIDE DEF packet
    <3>3. sender'.step = "write" /\ sender'.packet = packet
      BY <3>2
    <3> QED BY <3>1, <3>3 DEF SenderOK
  <2> QED BY <1>2, <1>4, <2>2, <2>4, <2>5, NothingWritten DEF CountValues, StreamTypeOK
<1>5. CASE WriteValues
  <2>1. Written(sender.packet)
    BY <1>5 DEF WriteValues, SenderOK, Idle, Written
  <2>2. SenderOK'
    BY <1>5 DEF WriteValues, SenderOK
  <2> QED BY <1>2, <1>5, <2>1, <2>2, PacketWritten DEF WriteValues, StreamTypeOK
<1>6. ASSUME NEW n \in Values, NEW ticks, AddTuple(n, ticks) PROVE TypeInv'
  <2> DEFINE packet == Block(n, ValueBytes, 1, 0, ticks)
  <2>1. BytesOf(n) = ValueBytes
    BY <1>6 DEF AddTuple, BytesOf
  <2>2. IsBlock(packet)
    BY <2>1, BlockIsBlock, ZeroIsWord
  <2>3. Write(packet) /\ UNCHANGED producerVars
    BY <1>6 DEF AddTuple
  <2> HIDE DEF packet
  <2>4. Written(packet)
    BY <2>2 DEF Written
  <2> QED BY <1>2, <2>3, <2>4, PacketWritten DEF producerVars, StreamTypeOK, SenderOK
<1>7. ASSUME NEW n \in Values, NEW index \in Word, NEW count \in Nat,
             AddConstant(n, index, count)
      PROVE  TypeInv'
  <2> DEFINE truth  == Advance(nextTime[n], index * Delta(n))
             packet == Block(n, IndexBytes + ValueBytes, count, index, truth)
  <2>1. BytesOf(n) = IndexBytes + ValueBytes
    BY <1>7 DEF AddConstant, BytesOf
  <2>2. IsBlock(packet)
    BY <2>1, BlockIsBlock
  <2>3. Write(packet) /\ UNCHANGED producerVars
    BY <1>7 DEF AddConstant
  <2> HIDE DEF packet
  <2>4. Written(packet)
    BY <2>2 DEF Written
  <2> QED BY <1>2, <2>3, <2>4, PacketWritten DEF producerVars, StreamTypeOK, SenderOK
<1> QED BY <1>3, <1>4, <1>5, <1>6, <1>7

\* The packet the consumer takes from the stream, and what it leaves there.
LEMMA PacketTaken ==
    ASSUME ChannelOK, channel # <<>>, channel' = Tail(channel)
    PROVE  /\ Len(channel) \in Nat /\ Len(channel) >= 1
           /\ Head(channel) = channel[1] /\ Written(channel[1])
           /\ ChannelOK' /\ Len(channel') = Len(channel) - 1
           /\ DOMAIN channel' = 1 .. Len(channel')
           /\ \A i \in 1 .. Len(channel') : channel'[i] = channel[i + 1]
<1>1. PICK S : channel \in Seq(S)
  BY DEF ChannelOK, IsSequence
<1>2. /\ Len(channel) \in Nat /\ Len(channel) >= 1 /\ Head(channel) = channel[1]
      /\ Tail(channel) \in Seq(S) /\ Len(Tail(channel)) = Len(channel) - 1
      /\ DOMAIN Tail(channel) = 1 .. Len(Tail(channel))
      /\ \A i \in 1 .. Len(channel) - 1 : Tail(channel)[i] = channel[i + 1]
  BY <1>1, HeadTailProperties
<1> DEFINE rest == Tail(channel)
<1> HIDE DEF rest
<1>3. /\ rest \in Seq(S) /\ Len(rest) = Len(channel) - 1 /\ DOMAIN rest = 1 .. Len(rest)
      /\ \A i \in 1 .. Len(rest) : rest[i] = channel[i + 1] /\ channel' = rest
  BY <1>2 DEF rest
<1>4. channel' = rest
  BY DEF rest
<1>5. \A i \in 1 .. Len(rest) : Written(rest[i])
  BY <1>2, <1>3 DEF ChannelOK
<1>6. Written(channel[1])
  BY <1>2 DEF ChannelOK
<1> QED BY <1>2, <1>3, <1>4, <1>5, <1>6 DEF ChannelOK, IsSequence

\* Every packet is one of four, with what its handler needs (ProtocolHandler.cpp:139-175).
LEMMA PacketKinds ==
    ASSUME NEW packet, Written(packet)
    PROVE  /\ packet.signal \in SignalNumbers
           /\ packet.kind = "signal" =>
                  Describes(packet.signal, packet.params) /\ packet.params \in SignalParams
           /\ packet.kind = "data" => IsBlock(packet) /\ packet.payload \in Payload
           /\ packet.kind \in {"subscribe", "unsubscribe", "signal", "data"}
BY DEF Written, IsBlock, Describes

\* Reading a packet keeps the types (ProtocolHandler.cpp:129-191).
LEMMA ReceiveTypes ==
    ASSUME TypeInv, Receive
    PROVE  TypeInv'
<1>1. channel # <<>> /\ channel' = Tail(channel) /\ UNCHANGED producerVars
  BY DEF Receive
<1>2. /\ Head(channel) = channel[1] /\ Written(channel[1])
      /\ ChannelOK' /\ Len(channel') = Len(channel) - 1 /\ Len(channel) \in Nat
      /\ DOMAIN channel' = 1 .. Len(channel')
  BY <1>1, PacketTaken DEF TypeInv
<1> DEFINE packet == Head(channel)
<1>3. \/ packet.kind = "subscribe" /\ SubscribeAck(packet.signal, "ok")
      \/ packet.kind = "unsubscribe" /\ UnsubscribeAck(packet.signal)
      \/ packet.kind = "signal" /\ SignalMeta(packet.signal, packet.params)
      \/ packet.kind = "data" /\ MeasuredData(packet.signal, packet.payload)
  BY DEF Receive
<1>4. Written(packet)
  BY <1>2
<1> HIDE DEF packet
<1>5. ContainerTypeOK'
  BY <1>3, <1>4, PacketKinds, SubscribeAckType, UnsubscribeAckType, SignalMetaType,
     MeasuredDataType DEF TypeInv, StreamTypeOK
<1>6. \A i \in DOMAIN channel' : channel'[i].signal \in SignalNumbers
  BY <1>2, PacketKinds DEF ChannelOK
<1>7. Len(channel') <= Capacity
  BY <1>2, StreamingAssumption DEF TypeInv, StreamTypeOK
<1> QED BY <1>1, <1>2, <1>5, <1>6, <1>7
        DEF TypeInv, StreamTypeOK, producerVars, ControlOK, SenderOK

\* Before the first call every variable has its type.
LEMMA StreamInitial == StreamInit => TypeInv
<1> SUFFICES ASSUME StreamInit PROVE TypeInv
  OBVIOUS
<1>1. ContainerTypeOK
  BY DEF StreamInit, ContainerInit, ContainerTypeOK, SignalsTypeOK, TablesTypeOK,
         AnswerTypeOK, Call
<1>2. channel = <<>> /\ Len(channel) = 0 /\ channel \in Seq({}) /\ DOMAIN channel = {}
  BY DEF StreamInit
<1>3. ChannelOK /\ Len(channel) <= Capacity
  BY <1>2, StreamingAssumption DEF ChannelOK, IsSequence
<1>4. /\ 0 \in Word /\ rate \in [Times -> Word \ {0}]
      /\ valueIndex \in [SignalNumbers -> Word]
  <2>1. rate \in [Times -> Rates] /\ Rates \subseteq Word \ {0}
    BY StreamingAssumption DEF StreamInit
  <2>2. 0 \in Word /\ Indexes \cup {0} \subseteq Word
    BY ZeroIsWord, StreamingAssumption
  <2>3. valueIndex \in [SignalNumbers -> Indexes \cup {0}]
    BY DEF StreamInit
  <2> QED BY <2>1, <2>2, <2>3
<1> QED BY <1>1, <1>2, <1>3, <1>4
        DEF StreamInit, TypeInv, StreamTypeOK, ControlOK, SenderOK, Idle

\* No step makes a value leave its type, whatever rules the application keeps.
LEMMA StreamStepTypes == TypeInv /\ [StreamNext]_streamVars => TypeInv'
<1> SUFFICES ASSUME TypeInv, [StreamNext]_streamVars PROVE TypeInv'
  OBVIOUS
<1>1. CASE UNCHANGED streamVars
  BY <1>1, ConsumerKept
     DEF streamVars, producerVars, TypeInv, StreamTypeOK, ChannelOK, ControlOK, SenderOK
<1>2. CASE Receive
  BY <1>2, ReceiveTypes
<1> QED BY <1>1, <1>2, ControlStepTypes, SenderStepTypes, StreamingAssumption DEF StreamNext

\* Whatever the application calls in whatever order, the producer's members, the
\* packets and the consumer's registers keep their types; indices and time stamps stay
\* words of any width.
THEOREM StreamTypes == StreamSpec => []StreamTypeOK
<1>1. TypeInv => StreamTypeOK
  BY DEF TypeInv
<1> QED BY <1>1, StreamInitial, StreamStepTypes, PTL DEF StreamSpec

-----------------------------------------------------------------------------
(***************************************************************************)
(* The rules and the sessions the theorems below are about.  In an orderly *)
(* session every data signal has one time signal, a constant signal one    *)
(* with linear time, and a time signal is there while its data signals     *)
(* are.  In a timely one the start and the rate of a table are also told   *)
(* before they are needed, the start as the time of value index 0, and     *)
(* explicit time goes with asynchronous values and linear time with the    *)
(* others.                                                                 *)
(***************************************************************************)
Once == Keeps("subscribedOnce")

\* In every session a table has one time signal, and a constant signal linear time.
Tabled ==
    /\ \A s \in Setups : \A t, u \in Times \cap s : TableOf[t] = TableOf[u] => t = u
    /\ \A s \in Setups : \A n \in Values \cap s : \E t \in Times \cap s :
           /\ TableOf[t] = TableOf[n]
           /\ Kind[n] = "ConstantSignal" => Kind[t] = "LinearTimeSignal"

\* Explicit time goes with asynchronous values and linear time with the others.
Paired ==
    /\ Tabled
    /\ \A s \in Setups : \A n \in Values \cap s, t \in Times \cap s :
           TableOf[t] = TableOf[n] =>
               (Kind[n] = "AsynchronousSignal" <=> Kind[t] = "ExplicitTimeSignal")

Orderly ==
    /\ Keeps("subscribedOnce") /\ Keeps("oneThreadAtATime") /\ Keeps("timeSignalFirst")
    /\ Tabled

Timely ==
    /\ Orderly /\ Paired
    /\ Keeps("startAfterSubscribe") /\ Keeps("startBeforeData")
    /\ Keeps("startOfIndexZero") /\ Keeps("rateBeforeSubscribe")

\* How much becomes of the data of a session: nothing is said of it, it is delivered, or
\* it is delivered and dated.
Delivers(level) == level \in {"delivered", "dated"}
Dates(level) == level = "dated"
Attainable(level) == (Delivers(level) => Tabled) /\ (Dates(level) => Paired)

\* What the application's rules are good for.
Level == IF Timely THEN "dated" ELSE IF Orderly THEN "delivered" ELSE "accepted"

LinearTimes == {t \in Times : Kind[t] = "LinearTimeSignal"}

\* Signals whose values are counted.
Counted == {n \in Values : Kind[n] = "SynchronousSignal"}

(***************************************************************************)
(* A view is what the consumer knows on reaching a packet: the signals it  *)
(* has an acknowledgement and a description of, the value index of the     *)
(* counted ones, and the start and rate of those with linear time.         *)
(***************************************************************************)
After(view, packet) ==
    LET n    == packet.signal
        kind == packet.kind
    IN  [known     |-> IF kind = "subscribe" THEN view.known \cup {n}
                       ELSE IF kind = "unsubscribe" THEN view.known \ {n} ELSE view.known,
         described |-> IF kind = "signal" THEN view.described \cup {n}
                       ELSE IF kind = "unsubscribe" THEN view.described \ {n}
                       ELSE view.described,
         index     |-> [m \in SignalNumbers |->
                            IF m # n THEN view.index[m]
                            ELSE IF kind = "signal" THEN packet.params.valueIndex
                            ELSE IF kind = "data" /\ n \in Counted
                            THEN (view.index[m] + packet.count) % Wrap ELSE view.index[m]],
         time      |-> [m \in SignalNumbers |->
                            IF m # n THEN view.time[m]
                            ELSE IF kind = "subscribe" THEN 0
                            ELSE IF kind = "data" /\ n \in Times THEN packet.payload.second
                            ELSE view.time[m]],
         delta     |-> [m \in SignalNumbers |->
                            IF m = n /\ kind = "signal" THEN packet.params.definition.delta
                            ELSE view.delta[m]]]

ViewOK(view, s) == view.described \subseteq view.known /\ view.known \subseteq s

\* The time signal of a data signal's table, in a session with the signals s.
TimeFor(t, n, s) == t \in Times \cap s /\ TableOf[t] = TableOf[n]

\* The time stamp of a block's first value in a view, with linear time of t: that of the
\* index counted so far, or of the index the block begins with.
Stamp(view, packet, t) ==
    IF packet.signal \in Counted
    THEN (view.time[t] + view.index[packet.signal] * view.delta[t]) % Wrap
    ELSE (view.time[t] + packet.payload.first * view.delta[t]) % Wrap

\* What makes the consumer accept a packet, deliver its values and date them.
Fits(view, packet, s, level) ==
    LET n == packet.signal
    IN  /\ packet.kind = "subscribe" => n \in s \ view.known
        /\ packet.kind \in {"unsubscribe", "signal"} => n \in view.known
        /\ Delivers(level) /\ packet.kind = "data" /\ n \in Values =>
               /\ n \in view.described
               /\ \A t \in Times : TimeFor(t, n, s) => t \in view.described
        /\ Dates(level) /\ packet.kind = "data" /\ n \in Times =>
               /\ n \in view.described
               /\ \E m \in view.described \cap Values : TableOf[m] = TableOf[n]
        /\ Dates(level) /\ packet.kind = "data" /\ n \in Values =>
               \A t \in LinearTimes : TimeFor(t, n, s) => packet.truth = Stamp(view, packet, t)

Chain(view, packets, s, level) ==
    /\ \A i \in 1 .. Len(packets) + 1 : ViewOK(view[i], s)
    /\ \A i \in 1 .. Len(packets) :
           Fits(view[i], packets[i], s, level) /\ view[i + 1] = After(view[i], packets[i])

\* The packets lead from the first view to the end.
Linked(first, end, packets, s, level) ==
    \E view : /\ Chain(view, packets, s, level)
              /\ view[1] = first /\ view[Len(packets) + 1] = end

(* The consumer's registers in a view. *)

SignalMatches(n, view) ==
    LET sig == subscribedSignals[n]
    IN  /\ sig \in Signal
        /\ n \notin view.described => sig.tableId = NoTableId /\ sig.isTime = FALSE
        /\ n \in view.described =>
               /\ sig.tableId = TableOf[n] /\ sig.isTime = (n \in Times)
               /\ sig.rule = RuleOf(n) /\ sig.size = SizeOf(n)

TablesMatch(described) ==
    /\ \A t \in DOMAIN tables :
           /\ t \in TableIds /\ tables[t] # NewTable
           /\ \A n \in SignalNumbers :
                  n \in tables[t].data <=> n \in described /\ n \in Values /\ TableOf[n] = t
           /\ tables[t].time # NoTimeSignal =>
                  /\ tables[t].time \in described /\ tables[t].time \in Times
                  /\ TableOf[tables[t].time] = t
    /\ \A n \in described : n \in Values => TableOf[n] \in DOMAIN tables
    /\ Tabled => \A t \in described : t \in Times =>
           TableOf[t] \in DOMAIN tables /\ tables[TableOf[t]].time = t

Registered(view) ==
    /\ status = "open" /\ DOMAIN subscribedSignals = view.known
    /\ \A n \in view.known : SignalMatches(n, view)
    /\ TablesMatch(view.described)

\* The numbers the consumer dates values by.
NumbersMatch(view) ==
    /\ \A t \in LinearTimes \cap view.known :
           /\ subscribedSignals[t].time = view.time[t] /\ subscribedSignals[t].index = 0
           /\ t \in view.described => subscribedSignals[t].delta = view.delta[t]
    /\ \A n \in Counted \cap view.described : subscribedSignals[n].index = view.index[n]

(* What the producer's threads believe the consumer will know. *)

EndMatches(view) ==
    /\ view.known = acked
    /\ \A n \in acked : n \in view.described \/ (control # Idle /\ control.signal = n)
    /\ control # Idle => control.signal \in acked

Sessions(level) ==
    /\ acked \subseteq setup
    /\ Delivers(level) /\ sender # Idle =>
           /\ control = Idle /\ sender.packet.signal \in acked
           /\ TimesOf(sender.packet.signal) \subseteq acked

RatesTold(view) ==
    \A t \in LinearTimes \cap acked :
        /\ t \in view.described => view.delta[t] = rate[t]
        /\ control.step = "write" /\ control.signal = t =>
               control.params.definition.delta = rate[t]

IndexesTold(view) ==
    \A n \in Counted \cap acked :
        /\ n \in view.described =>
               IF sender # Idle /\ sender.packet.signal = n
               THEN valueIndex[n] = (view.index[n] + sender.packet.count) % Wrap
               ELSE valueIndex[n] = view.index[n]
        /\ control.step = "write" /\ control.signal = n =>
               control.params.valueIndex = valueIndex[n]

StartsTold(view) ==
    /\ started \subseteq acked
    /\ \A t \in LinearTimes \cap started :
           /\ view.time[t] \in Word
           /\ \A n \in DataOf(t) :
                  nextTime[n] = IF n \in Counted
                                THEN (view.time[t] + valueIndex[n] * rate[t]) % Wrap
                                ELSE view.time[t]

\* A block that is counted and not yet written has the time stamp of the end.
BlockDated(view) ==
    sender # Idle =>
        /\ sender.packet.signal \in Counted
        /\ \A t \in LinearTimes : TimeFor(t, sender.packet.signal, setup) =>
               sender.packet.truth = Stamp(view, sender.packet, t)

NumbersAgreed(view) ==
    RatesTold(view) /\ IndexesTold(view) /\ StartsTold(view) /\ BlockDated(view)

ChainInv(level) ==
    \E first, end :
        /\ Linked(first, end, channel, setup, level)
        /\ Registered(first) /\ EndMatches(end)
        /\ Dates(level) => NumbersMatch(first) /\ NumbersAgreed(end)

SessionInv(level) == TypeInv /\ Sessions(level) /\ ChainInv(level)

\* The calls a session can take at its level, and the steps of a call once it has begun.
Quiet(level) == Delivers(level) => control = Idle /\ sender = Idle

MayStart(t, level) ==
    Dates(level) =>
        /\ DataOf(t) \cap acked # {}
        /\ Keeps("startOfIndexZero") \/ \A n \in DataOf(t) : valueIndex[n] = 0

MayCarry(n, level) ==
    /\ Delivers(level) => TimesOf(n) \subseteq acked
    /\ Dates(level) => TimesOf(n) \subseteq started

ProperCall(level) ==
    \/ \E n \in SignalNumbers \ acked : Subscribe(n)
    \/ \E n \in acked : DescribeAgain(n) \/ Unsubscribe(n)
    \/ \E t \in Times, ticks \in Rates : (Dates(level) => t \notin acked) /\ SetOutputRate(t, ticks)
    \/ \E t \in Times \cap acked, ticks \in Word : MayStart(t, level) /\ SetTimeStart(t, ticks)
    \/ \E n \in Values \cap acked :
           /\ MayCarry(n, level)
           /\ \/ \E count \in Nat : CountValues(n, count)
              \/ \E truth : AddTuple(n, truth)
              \/ \E index \in Word, count \in Nat : AddConstant(n, index, count)

ProperStep(level) ==
    \/ Quiet(level) /\ ProperCall(level)
    \/ ComposeDescription
    \/ WriteDescription
    \/ WriteValues

-----------------------------------------------------------------------------
(* Chains of views. *)

\* A packet that fits leaves a view behind in which what is described is known.
LEMMA AfterViewOK ==
    ASSUME NEW level, NEW view, NEW packet, NEW s, ViewOK(view, s), Fits(view, packet, s, level)
    PROVE  ViewOK(After(view, packet), s)
<1> DEFINE n == packet.signal
<1>1. /\ packet.kind = "subscribe" => n \in s
      /\ packet.kind = "signal" => n \in view.known
  BY DEF Fits
<1>2. /\ After(view, packet).known =
             IF packet.kind = "subscribe" THEN view.known \cup {n}
             ELSE IF packet.kind = "unsubscribe" THEN view.known \ {n} ELSE view.known
      /\ After(view, packet).described =
             IF packet.kind = "signal" THEN view.described \cup {n}
             ELSE IF packet.kind = "unsubscribe" THEN view.described \ {n} ELSE view.described
  BY DEF After
<1> HIDE DEF n
<1> QED BY <1>1, <1>2 DEF ViewOK

\* A packet that fits the last view makes the chain one view longer.
LEMMA ChainGrows ==
    ASSUME NEW level, NEW packets, IsSequence(packets), NEW view, NEW s, Chain(view, packets, s, level),
           NEW packet, Fits(view[Len(packets) + 1], packet, s, level)
    PROVE  \E longer : /\ Chain(longer, Append(packets, packet), s, level) /\ longer[1] = view[1]
                       /\ longer[Len(Append(packets, packet)) + 1]
                          = After(view[Len(packets) + 1], packet)
<1> DEFINE l == Len(packets)
           more == Append(packets, packet)
           next == After(view[l + 1], packet)
           longer == [i \in 1 .. l + 2 |-> IF i = l + 2 THEN next ELSE view[i]]
<1>1. PICK S : packets \in Seq(S)
  BY DEF IsSequence
<1>2. packets \in Seq(S \cup {packet}) /\ l \in Nat
  BY <1>1
<1>3. Len(more) = l + 1 /\ more[l + 1] = packet /\ \A i \in 1 .. l : more[i] = packets[i]
  BY <1>2, AppendProperties
<1>4. ViewOK(view[l + 1], s) /\ Fits(view[l + 1], packet, s, level)
  BY <1>2 DEF Chain
<1>5. ViewOK(next, s)
  BY <1>4, AfterViewOK
<1> HIDE DEF more, next, l
<1>6. longer[l + 2] = next /\ \A i \in 1 .. l + 1 : longer[i] = view[i]
  BY <1>2
<1> HIDE DEF longer
<1>7. /\ \A i \in 1 .. l + 1 : ViewOK(view[i], s)
      /\ \A i \in 1 .. l : Fits(view[i], packets[i], s, level) /\ view[i + 1] = After(view[i], packets[i])
  BY DEF Chain, l
<1>8. \A i \in 1 .. Len(more) + 1 : ViewOK(longer[i], s)
  BY <1>2, <1>3, <1>5, <1>6, <1>7
<1>9. ASSUME NEW i \in 1 .. Len(more)
      PROVE  Fits(longer[i], more[i], s, level) /\ longer[i + 1] = After(longer[i], more[i])
  <2>1. CASE i = l + 1
    <3>1. i \in 1 .. l + 1 /\ i + 1 = l + 2
      BY <1>2, <2>1
    <3>2. longer[i] = view[l + 1] /\ longer[i + 1] = next /\ more[i] = packet
      BY <1>3, <1>6, <2>1, <3>1
    <3> QED BY <1>4, <3>2 DEF next
  <2>2. CASE i # l + 1
    <3>1. i \in 1 .. l /\ i \in 1 .. l + 1 /\ i + 1 \in 1 .. l + 1
      BY <1>2, <1>3, <2>2
    <3>2. longer[i] = view[i] /\ longer[i + 1] = view[i + 1] /\ more[i] = packets[i]
      BY <1>3, <1>6, <3>1
    <3> QED BY <1>7, <3>1, <3>2
  <2> QED BY <2>1, <2>2
<1>10. Chain(longer, more, s, level)
  BY <1>8, <1>9 DEF Chain
<1>11. longer[1] = view[1] /\ longer[Len(more) + 1] = next
  BY <1>2, <1>3, <1>6
<1> QED BY <1>10, <1>11 DEF more, next, l

\* Without its first packet a chain begins at the view behind it.
LEMMA ChainShrinks ==
    ASSUME NEW level, ChannelOK, channel # <<>>, channel' = Tail(channel),
           NEW view, NEW s, Chain(view, channel, s, level)
    PROVE  \E rest : /\ Chain(rest, channel', s, level) /\ rest[1] = After(view[1], channel[1])
                     /\ rest[Len(channel') + 1] = view[Len(channel) + 1]
                     /\ ViewOK(view[1], s) /\ Fits(view[1], channel[1], s, level)
<1> DEFINE l == Len(channel)
           rest == [i \in 1 .. l |-> view[i + 1]]
<1>1. /\ l \in Nat /\ l >= 1 /\ Len(channel') = l - 1
      /\ \A i \in 1 .. l - 1 : channel'[i] = channel[i + 1]
  BY PacketTaken
<1>2. /\ \A i \in 1 .. l + 1 : ViewOK(view[i], s)
      /\ \A i \in 1 .. l : Fits(view[i], channel[i], s, level) /\ view[i + 1] = After(view[i], channel[i])
  BY DEF Chain
<1>3. \A i \in 1 .. l : rest[i] = view[i + 1]
  OBVIOUS
<1> HIDE DEF l, rest
<1>4. \A i \in 1 .. Len(channel') + 1 : ViewOK(rest[i], s)
  BY <1>1, <1>2, <1>3
<1>5. ASSUME NEW i \in 1 .. Len(channel')
      PROVE  Fits(rest[i], channel'[i], s, level) /\ rest[i + 1] = After(rest[i], channel'[i])
  <2>1. i \in 1 .. l - 1 /\ i \in 1 .. l /\ i + 1 \in 1 .. l
    BY <1>1
  <2>2. rest[i] = view[i + 1] /\ rest[i + 1] = view[(i + 1) + 1] /\ channel'[i] = channel[i + 1]
    BY <1>1, <1>3, <2>1
  <2> QED BY <1>2, <2>1, <2>2
<1>6. Chain(rest, channel', s, level)
  BY <1>4, <1>5 DEF Chain
<1>7. rest[1] = view[1 + 1] /\ rest[Len(channel') + 1] = view[l + 1]
  BY <1>1, <1>3
<1>8. view[1 + 1] = After(view[1], channel[1]) /\ ViewOK(view[1], s) /\ Fits(view[1], channel[1], s, level)
  BY <1>1, <1>2
<1> QED BY <1>6, <1>7, <1>8 DEF l

-----------------------------------------------------------------------------
(* The consumer reads a packet that fits its view. *)

\* In a registered view every known signal is there.
LEMMA KnownIsLive ==
    ASSUME NEW view, Registered(view)
    PROVE  \A n : /\ Live(n) <=> n \in view.known
                  /\ Unknown(n) <=> n \notin view.known
                  /\ ~Empty(n)
BY NullAssumption DEF Registered, SignalMatches, Live, Empty, Unknown

\* The acknowledgement of a subscription is accepted (SignalContainer.cpp:89-103).
LEMMA SubscribeRead ==
    ASSUME NEW level, NEW view, NEW s, ViewOK(view, s), Registered(view),
           NEW packet, packet.kind = "subscribe", Fits(view, packet, s, level),
           SubscribeAck(packet.signal, "ok")
    PROVE  Registered(After(view, packet))'
<1> DEFINE n == packet.signal
           next == After(view, packet)
<1>1. n \notin view.known /\ n \notin view.described
  BY DEF Fits, ViewOK
<1>2. next.known = view.known \cup {n} /\ next.described = view.described
  BY DEF After
<1> HIDE DEF next
<1>3. /\ subscribedSignals' = Put(subscribedSignals, n, NewSignal)
      /\ status' = "open" /\ tables' = tables
  BY <1>1, KnownIsLive DEF SubscribeAck, MetaAccepted
<1>4. DOMAIN subscribedSignals = view.known
  BY DEF Registered
<1> HIDE DEF n
<1>5. DOMAIN subscribedSignals' = next.known
  BY <1>2, <1>3, <1>4 DEF Put
<1>6. ASSUME NEW m \in next.known PROVE SignalMatches(m, next)'
  <2>1. CASE m = n
    <3>1. subscribedSignals'[m] = NewSignal
      BY <1>2, <1>3, <1>4, <2>1 DEF Put
    <3>2. NewSignal \in Signal /\ NewSignal.tableId = NoTableId /\ NewSignal.isTime = FALSE
      BY NewSignalType DEF NewSignal
    <3> QED BY <1>1, <1>2, <2>1, <3>1, <3>2 DEF SignalMatches
  <2>2. CASE m # n
    <3>1. subscribedSignals'[m] = subscribedSignals[m] /\ m \in view.known
      BY <1>2, <1>3, <1>4, <2>2 DEF Put
    <3> QED BY <1>2, <3>1 DEF SignalMatches, Registered
  <2> QED BY <2>1, <2>2
<1>7. TablesMatch(next.described)'
  BY <1>2, <1>3 DEF TablesMatch, Registered
<1> QED BY <1>3, <1>5, <1>6, <1>7 DEF Registered, next

\* Signals of a session that share a table and a role, in the sessions of an orderly
\* application.
LEMMA OneTimeSignal ==
    ASSUME Tabled, NEW s \in Setups, NEW t \in Times \cap s, NEW u \in Times \cap s,
           TableOf[t] = TableOf[u]
    PROVE  t = u
BY DEF Tabled

\* The acknowledgement that a subscription has ended is accepted, and the signal leaves
\* its table (SignalContainer.cpp:69-88).
LEMMA UnsubscribeRead ==
    ASSUME NEW level, ContainerTypeOK, NEW view, NEW s \in Setups, ViewOK(view, s), Registered(view),
           NEW packet, packet.kind = "unsubscribe", Fits(view, packet, s, level),
           packet.signal \in SignalNumbers, UnsubscribeAck(packet.signal)
    PROVE  Registered(After(view, packet))'
<1> DEFINE n == packet.signal
           next == After(view, packet)
           sig == subscribedSignals[n]
<1>1. n \in view.known
  BY DEF Fits
<1>2. next.known = view.known \ {n} /\ next.described = view.described \ {n}
  BY DEF After
<1> HIDE DEF next
<1>3. /\ subscribedSignals' = Erase(subscribedSignals, n)
      /\ status' = "open" /\ tables' = TablesWithout(n, sig)
  BY <1>1, KnownIsLive DEF UnsubscribeAck, MetaAccepted
<1>4. DOMAIN subscribedSignals = view.known
  BY DEF Registered
<1> HIDE DEF n
<1>5. DOMAIN subscribedSignals' = next.known
  BY <1>2, <1>3, <1>4 DEF Erase
<1>6. ASSUME NEW m \in next.known PROVE SignalMatches(m, next)'
  <2>1. subscribedSignals'[m] = subscribedSignals[m] /\ m \in view.known /\ m # n
    BY <1>2, <1>3, <1>4 DEF Erase
  <2> QED BY <1>2, <2>1 DEF SignalMatches, Registered
<1>7. /\ sig \in Signal
      /\ n \notin view.described => sig.tableId = NoTableId
      /\ n \in view.described => sig.tableId = TableOf[n] /\ sig.isTime = (n \in Times)
  BY <1>1 DEF Registered, SignalMatches
<1> HIDE DEF sig
<1>8. TablesMatch(next.described)'
  <2>1. CASE sig.tableId \notin DOMAIN tables
    <3>1. tables' = tables
      BY <1>3, <2>1 DEF TablesWithout
    <3>2. ASSUME NEW t \in DOMAIN tables, NEW m, m \in view.described, TableOf[m] = t
          PROVE  m # n
      BY <1>7, <2>1, <3>2
    <3>3. ASSUME n \in view.described PROVE n \notin Values /\ (Tabled => FALSE)
      <4>1. n \in Values \/ n \in Times
        BY <3>3, packet.signal \in SignalNumbers DEF Values, n
      <4> QED BY <1>7, <2>1, <3>3, <4>1 DEF Registered, TablesMatch
    <3> QED BY <1>2, <3>1, <3>2, <3>3 DEF Registered, TablesMatch
  <2>2. CASE sig.tableId \in DOMAIN tables
    <3>1. sig.tableId \in TableIds
      BY <2>2 DEF Registered, TablesMatch
    <3>2. n \in view.described
      BY <1>7, <3>1, SentinelAssumption
    <3> DEFINE id   == TableOf[n]
               old  == tables[id]
               left == IF n \in Times THEN [old EXCEPT !.time = NoTimeSignal]
                                      ELSE [old EXCEPT !.data = @ \ {n}]
    <3>3. sig.tableId = id /\ sig.isTime = (n \in Times) /\ id \in DOMAIN tables
      BY <1>7, <2>2, <3>2
    <3>4. tables' = IF left = NewTable THEN Erase(tables, id) ELSE Put(tables, id, left)
      BY <1>3, <3>3 DEF TablesWithout
    <3>5. old \in Table /\ n \in SignalNumbers
      BY <3>3 DEF ContainerTypeOK, TablesTypeOK, n
    <3>6. /\ left \in Table
          /\ left.time = (IF n \in Times THEN NoTimeSignal ELSE old.time)
          /\ left.data = (IF n \in Times THEN old.data ELSE old.data \ {n})
      <4> HIDE DEF old
      <4> QED BY <3>5, NumberAssumption DEF Table
    <3>7. /\ id \in TableIds
          /\ \A m \in SignalNumbers : m \in old.data <=>
                 m \in view.described /\ m \in Values /\ TableOf[m] = id
          /\ old.time # NoTimeSignal =>
                 old.time \in view.described /\ old.time \in Times /\ TableOf[old.time] = id
      BY <3>3 DEF Registered, TablesMatch
    <3> HIDE DEF old, left
    <3>8. \A m \in SignalNumbers : m \in left.data <=>
              m \in next.described /\ m \in Values /\ TableOf[m] = id
      BY <1>2, <3>5, <3>6, <3>7 DEF Values
    <3>9. left.time # NoTimeSignal =>
              left.time \in next.described /\ left.time \in Times /\ TableOf[left.time] = id
      BY <1>2, <3>6, <3>7
    <3>10. ASSUME Tabled, NEW t \in next.described, t \in Times, TableOf[t] = id
           PROVE  left.time = t
      <4>1. t \in view.described /\ t # n /\ t \in s /\ n \in s
        BY <1>1, <1>2, <3>10 DEF ViewOK
      <4>2. n \notin Times
        BY <3>10, <4>1, OneTimeSignal
      <4>3. tables[TableOf[t]].time = t
        BY <3>10, <4>1 DEF Registered, TablesMatch
      <4> QED BY <3>6, <3>10, <4>2, <4>3 DEF old
    <3>11. /\ \A t \in DOMAIN tables : t # id => t \in DOMAIN tables' /\ tables'[t] = tables[t]
           /\ \A t \in DOMAIN tables' : t \in DOMAIN tables
           /\ id \in DOMAIN tables' => tables'[id] = left
           /\ left # NewTable <=> id \in DOMAIN tables'
      BY <3>3, <3>4 DEF Erase, Put
    <3>12. ASSUME NEW m \in next.described, m \in Values \/ (Tabled /\ m \in Times),
                  TableOf[m] = id
           PROVE  id \in DOMAIN tables'
      <4>1. m \in SignalNumbers
        BY <3>12 DEF Values, Times
      <4>2. CASE m \in Values
        BY <3>8, <3>11, <3>12, <4>1, <4>2 DEF NewTable
      <4>3. CASE Tabled /\ m \in Times
        BY <3>10, <3>11, <3>12, <4>1, <4>3, NumberAssumption DEF NewTable
      <4> QED BY <3>12, <4>2, <4>3
    <3> HIDE DEF id
    <3>13. ASSUME NEW t \in DOMAIN tables'
           PROVE  /\ t \in TableIds /\ tables'[t] # NewTable
                  /\ \A m \in SignalNumbers : m \in tables'[t].data <=>
                         m \in next.described /\ m \in Values /\ TableOf[m] = t
                  /\ tables'[t].time # NoTimeSignal =>
                         /\ tables'[t].time \in next.described /\ tables'[t].time \in Times
                         /\ TableOf[tables'[t].time] = t
      <4>1. CASE t = id
        BY <3>7, <3>8, <3>9, <3>11, <3>13, <4>1
      <4>2. CASE t # id
        <5>1. tables'[t] = tables[t] /\ t \in DOMAIN tables
          BY <3>11, <4>2
        <5>2. \A m : TableOf[m] = t => m # n
          BY <4>2 DEF id
        <5>3. /\ t \in TableIds /\ tables[t] # NewTable
              /\ \A m \in SignalNumbers : m \in tables[t].data <=>
                     m \in view.described /\ m \in Values /\ TableOf[m] = t
              /\ tables[t].time # NoTimeSignal =>
                     /\ tables[t].time \in view.described /\ tables[t].time \in Times
                     /\ TableOf[tables[t].time] = t
          BY <5>1 DEF Registered, TablesMatch
        <5> QED BY <1>2, <5>1, <5>2, <5>3
      <4> QED BY <4>1, <4>2
    <3>14. ASSUME NEW m \in next.described, m \in Values PROVE TableOf[m] \in DOMAIN tables'
      <4>1. m \in view.described
        BY <1>2
      <4>2. TableOf[m] \in DOMAIN tables
        BY <3>14, <4>1 DEF Registered, TablesMatch
      <4> QED BY <3>11, <3>12, <3>14, <4>2
    <3>15. ASSUME Tabled, NEW t \in next.described, t \in Times
           PROVE  TableOf[t] \in DOMAIN tables' /\ tables'[TableOf[t]].time = t
      <4>1. t \in view.described
        BY <1>2
      <4>2. TableOf[t] \in DOMAIN tables /\ tables[TableOf[t]].time = t
        BY <3>15, <4>1 DEF Registered, TablesMatch
      <4> QED BY <3>10, <3>11, <3>12, <3>15, <4>2
    <3> QED BY <3>13, <3>14, <3>15 DEF TablesMatch
  <2> QED BY <2>1, <2>2
<1> QED BY <1>3, <1>5, <1>6, <1>8 DEF Registered, next

\* What a description makes of a signal.
BecomesDescribed(answer, sig, n, params) ==
    /\ answer.ok = TRUE /\ answer.signal \in Signal
    /\ answer.signal.tableId = TableOf[n] /\ answer.signal.isTime = (n \in Times)
    /\ answer.signal.rule = RuleOf(n) /\ answer.signal.size = SizeOf(n)
    /\ answer.signal.time = sig.time
    /\ answer.signal.index = Given(params.valueIndex, sig.index)
    /\ answer.signal.delta = Given(params.definition.delta, sig.delta)

\* A description of the producer is accepted and leaves the signal as it says
\* (SubscribedSignal.cpp:178-451).
LEMMA DescriptionAccepted ==
    ASSUME NEW sig \in Signal, NEW n \in SignalNumbers, NEW params, Describes(n, params),
           sig.isTime => n \in Times
    PROVE  BecomesDescribed(ProcessSignalParams(sig, params), sig, n, params)
<1> DEFINE answer == ProcessSignalParams(sig, params)
           def == params.definition
           delta == Given(def.delta, sig.delta)
           header == [sig EXCEPT !.tableId = Given(params.tableId, @),
                                 !.index = Given(params.valueIndex, @)]
           withDelta == [header EXCEPT !.delta = Given(def.delta, header.delta)]
           withRule  == [withDelta EXCEPT !.rule = Given(def.rule, @)]
           withSize  == [withRule EXCEPT !.size = IF def.size = 0 THEN @ ELSE def.size]
           withTime  == [withSize EXCEPT !.isTime = @ \/ def.quantityTime]
<1>1. /\ params.tableId = TableOf[n] /\ params.fault = "none" /\ def \in Definition
      /\ def.rule = RuleOf(n) /\ def.size = SizeOf(n) /\ def.quantityTime = (n \in Times)
      /\ RuleOf(n) = "linear" => def.delta \in Word \ {0}
      /\ params.valueIndex \in Word \cup {Absent} /\ params \in SignalParams
  BY DEF Describes, SignalParams
<1>2. /\ TableOf[n] \in TableIds /\ TableOf[n] # Absent
      /\ RuleOf(n) # Absent /\ RuleOf(n) \in RuleTypes
      /\ SizeOf(n) \in Nat \ {0}
  BY StreamingAssumption, SentinelAssumption DEF RuleOf, RuleTypes, SizeOf, IndexBytes
<1>3. def # Absent
  BY <1>1, AbsentAssumption
<1> HIDE DEF def
<1>4. /\ header \in Signal /\ header.tableId = TableOf[n] /\ header.isTime = sig.isTime
      /\ header.time = sig.time /\ header.delta = sig.delta
      /\ header.index = Given(params.valueIndex, sig.index)
  BY <1>1, <1>2, SentinelAssumption DEF Given, Signal, Word
<1>5. /\ answer = ProcessDefinition(header, def, params.fault)
  BY <1>1, <1>3 DEF ProcessSignalParams, def
<1> HIDE DEF header
<1>6. delta = Given(def.delta, header.delta) /\ ~(def.rule = "linear" /\ delta = 0)
  BY <1>1, <1>4, SentinelAssumption DEF Given, Word
<1>7. answer = Answer(TRUE, withTime)
  BY <1>1, <1>5, <1>6 DEF ProcessDefinition
<1>8. answer.ok = TRUE /\ answer.signal = withTime
  BY <1>7 DEF Answer
<1>9. answer.signal \in Signal
  <2>1. params.fault \in Faults
    BY <1>1 DEF Faults
  <2> QED BY <1>1, <1>4, <1>5, <2>1, DefinitionType
<1>10. /\ withDelta.tableId = TableOf[n] /\ withDelta.isTime = sig.isTime
       /\ withDelta.time = sig.time /\ withDelta.delta = delta
       /\ withDelta.index = Given(params.valueIndex, sig.index)
       /\ withDelta \in Signal
  BY <1>1, <1>4, <1>6, SentinelAssumption DEF Signal, Given, Definition
<1> HIDE DEF withDelta
<1>11. /\ withRule.tableId = TableOf[n] /\ withRule.isTime = sig.isTime
       /\ withRule.time = sig.time /\ withRule.delta = delta
       /\ withRule.index = Given(params.valueIndex, sig.index)
       /\ withRule.rule = RuleOf(n) /\ withRule \in Signal
  BY <1>1, <1>2, <1>10 DEF Signal, Given
<1> HIDE DEF withRule
<1>12. /\ withSize.tableId = TableOf[n] /\ withSize.isTime = sig.isTime
       /\ withSize.time = sig.time /\ withSize.delta = delta
       /\ withSize.index = Given(params.valueIndex, sig.index)
       /\ withSize.rule = RuleOf(n) /\ withSize.size = SizeOf(n) /\ withSize \in Signal
  BY <1>1, <1>2, <1>11 DEF Signal
<1> HIDE DEF withSize
<1>13. /\ withTime.tableId = TableOf[n] /\ withTime.isTime = (sig.isTime \/ def.quantityTime)
       /\ withTime.time = sig.time /\ withTime.delta = delta
       /\ withTime.index = Given(params.valueIndex, sig.index)
       /\ withTime.rule = RuleOf(n) /\ withTime.size = SizeOf(n)
  BY <1>12 DEF Signal
<1> HIDE DEF withTime
<1>14. (sig.isTime \/ def.quantityTime) = (n \in Times)
  <2>1. sig.isTime \in BOOLEAN
    BY DEF Signal
  <2>2. CASE n \in Times
    <3>1. def.quantityTime = TRUE /\ (n \in Times) = TRUE
      BY <1>1, <2>2
    <3> QED BY <3>1
  <2>3. CASE n \notin Times
    <3>1. def.quantityTime = FALSE /\ (n \in Times) = FALSE /\ sig.isTime = FALSE
      BY <1>1, <2>1, <2>3
    <3> QED BY <3>1
  <2> QED BY <2>2, <2>3
<1>15. answer.signal.isTime = (n \in Times)
  BY <1>8, <1>13, <1>14
<1> QED BY <1>8, <1>9, <1>13, <1>15 DEF def, BecomesDescribed

\* A description is accepted and the signal put into its table
\* (SignalContainer.cpp:104-130).
LEMMA SignalRead ==
    ASSUME NEW level, ContainerTypeOK, NEW view, NEW s \in Setups, ViewOK(view, s), Registered(view),
           NEW packet, packet.kind = "signal", Fits(view, packet, s, level),
           packet.signal \in SignalNumbers, Describes(packet.signal, packet.params),
           SignalMeta(packet.signal, packet.params)
    PROVE  /\ Registered(After(view, packet))'
           /\ \A m \in view.known : m # packet.signal => subscribedSignals'[m] = subscribedSignals[m]
           /\ subscribedSignals'[packet.signal].time = subscribedSignals[packet.signal].time
           /\ subscribedSignals'[packet.signal].index
              = Given(packet.params.valueIndex, subscribedSignals[packet.signal].index)
           /\ subscribedSignals'[packet.signal].delta
              = Given(packet.params.definition.delta, subscribedSignals[packet.signal].delta)
<1> DEFINE n == packet.signal
           next == After(view, packet)
           sig == subscribedSignals[n]
           answer == ProcessSignalParams(sig, packet.params)
<1>1. n \in view.known /\ n \in s
  BY DEF Fits, ViewOK
<1>2. next.known = view.known /\ next.described = view.described \cup {n}
  BY DEF After
<1> HIDE DEF next
<1>3. /\ subscribedSignals' = Put(subscribedSignals, n, answer.signal)
      /\ tables' = (IF answer.ok THEN TablesWith(n, answer.signal) ELSE tables)
      /\ IF answer.ok THEN MetaAccepted(n) ELSE MetaRefused(n)
  BY <1>1, KnownIsLive DEF SignalMeta
<1>4. sig \in Signal /\ (sig.isTime => n \in Times)
  BY <1>1 DEF Registered, SignalMatches
<1>5. /\ answer.ok = TRUE /\ answer.signal \in Signal
      /\ answer.signal.tableId = TableOf[n] /\ answer.signal.isTime = (n \in Times)
      /\ answer.signal.rule = RuleOf(n) /\ answer.signal.size = SizeOf(n)
      /\ answer.signal.time = sig.time
      /\ answer.signal.index = Given(packet.params.valueIndex, sig.index)
      /\ answer.signal.delta = Given(packet.params.definition.delta, sig.delta)
  <2>1. n \in SignalNumbers /\ Describes(n, packet.params)
    OBVIOUS
  <2> HIDE DEF sig, n
  <2>2. BecomesDescribed(ProcessSignalParams(sig, packet.params), sig, n, packet.params)
    BY <1>4, <2>1, DescriptionAccepted
  <2> QED BY <2>2 DEF BecomesDescribed
<1> DEFINE new == answer.signal
<1> HIDE DEF answer, new
<1>6. /\ subscribedSignals' = Put(subscribedSignals, n, new)
      /\ tables' = TablesWith(n, new) /\ status' = "open"
  BY <1>3, <1>5 DEF MetaAccepted, Registered, new
<1>7. DOMAIN subscribedSignals = view.known
  BY DEF Registered
<1>8. /\ new \in Signal /\ new.tableId = TableOf[n] /\ new.isTime = (n \in Times)
      /\ new.rule = RuleOf(n) /\ new.size = SizeOf(n)
  BY <1>5 DEF new
<1>9. /\ DOMAIN subscribedSignals' = next.known
      /\ subscribedSignals'[n] = new
      /\ \A m \in view.known : m # n => subscribedSignals'[m] = subscribedSignals[m]
  BY <1>1, <1>2, <1>6, <1>7 DEF Put
<1>10. ASSUME NEW m \in next.known PROVE SignalMatches(m, next)'
  <2>1. CASE m = n
    BY <1>2, <1>8, <1>9, <2>1 DEF SignalMatches
  <2>2. CASE m # n
    BY <1>2, <1>9, <2>2 DEF SignalMatches, Registered
  <2> QED BY <2>1, <2>2
<1> DEFINE id  == TableOf[n]
           old == TableAt(id)
           with == IF n \in Times THEN [old EXCEPT !.time = n]
                                  ELSE [old EXCEPT !.data = @ \cup {n}]
<1>11. tables' = Put(tables, id, with)
  BY <1>6, <1>8 DEF TablesWith
<1>12. old \in Table /\ n \in SignalNumbers /\ n # NoTimeSignal /\ id \in TableIds
  BY LookUp, NumberAssumption, StreamingAssumption
<1>13. /\ with.time = (IF n \in Times THEN n ELSE old.time)
       /\ with.data = (IF n \in Times THEN old.data ELSE old.data \cup {n})
  <2> HIDE DEF old
  <2> QED BY <1>12 DEF Table
<1>21. with # NewTable
  BY <1>12, <1>13 DEF NewTable
<1>14. /\ \A m \in SignalNumbers : m \in old.data <=>
              m \in view.described /\ m \in Values /\ TableOf[m] = id
       /\ old.time # NoTimeSignal =>
              old.time \in view.described /\ old.time \in Times /\ TableOf[old.time] = id
  <2>1. CASE id \in DOMAIN tables
    BY <2>1 DEF TableAt, Registered, TablesMatch
  <2>2. CASE id \notin DOMAIN tables
    BY <2>2 DEF TableAt, NewTable, Registered, TablesMatch
  <2> QED BY <2>1, <2>2
<1>15. ASSUME Tabled, NEW t \in next.described, t \in Times, TableOf[t] = id
       PROVE  with.time = t
  <2>1. t \in s
    BY <1>1, <1>2 DEF ViewOK
  <2>2. CASE n \in Times
    BY <1>1, <1>13, <1>15, <2>1, <2>2, OneTimeSignal
  <2>3. CASE n \notin Times
    <3>1. t \in view.described
      BY <1>2, <1>15, <2>3
    <3>2. old.time = t
      BY <1>15, <3>1 DEF Registered, TablesMatch, TableAt
    <3> QED BY <1>13, <2>3, <3>2
  <2> QED BY <2>2, <2>3
<1> HIDE DEF old, with, n
<1>16. \A m \in SignalNumbers : m \in with.data <=>
           m \in next.described /\ m \in Values /\ TableOf[m] = id
  BY <1>2, <1>12, <1>13, <1>14 DEF Values
<1>17. with.time # NoTimeSignal =>
           with.time \in next.described /\ with.time \in Times /\ TableOf[with.time] = id
  BY <1>2, <1>13, <1>14
<1>18. /\ DOMAIN tables' = DOMAIN tables \cup {id} /\ tables'[id] = with
       /\ \A t \in DOMAIN tables : t # id => tables'[t] = tables[t]
  BY <1>11 DEF Put
<1>19. TablesMatch(next.described)'
  <2>1. ASSUME NEW t \in DOMAIN tables'
        PROVE  /\ t \in TableIds /\ tables'[t] # NewTable
               /\ \A m \in SignalNumbers : m \in tables'[t].data <=>
                      m \in next.described /\ m \in Values /\ TableOf[m] = t
               /\ tables'[t].time # NoTimeSignal =>
                      /\ tables'[t].time \in next.described /\ tables'[t].time \in Times
                      /\ TableOf[tables'[t].time] = t
    <3>1. CASE t = id
      BY <1>12, <1>16, <1>17, <1>18, <1>21, <3>1
    <3>2. CASE t # id
      <4>1. tables'[t] = tables[t] /\ t \in DOMAIN tables
        BY <1>18, <3>2
      <4>2. \A m : TableOf[m] = t => m # n
        BY <3>2
      <4>3. /\ t \in TableIds /\ tables[t] # NewTable
            /\ \A m \in SignalNumbers : m \in tables[t].data <=>
                   m \in view.described /\ m \in Values /\ TableOf[m] = t
            /\ tables[t].time # NoTimeSignal =>
                   /\ tables[t].time \in view.described /\ tables[t].time \in Times
                   /\ TableOf[tables[t].time] = t
        BY <4>1 DEF Registered, TablesMatch
      <4> QED BY <1>2, <4>1, <4>2, <4>3
    <3> QED BY <3>1, <3>2
  <2>2. ASSUME NEW m \in next.described, m \in Values PROVE TableOf[m] \in DOMAIN tables'
    BY <1>2, <1>18, <2>2 DEF Registered, TablesMatch
  <2>3. ASSUME Tabled, NEW t \in next.described, t \in Times
        PROVE  TableOf[t] \in DOMAIN tables' /\ tables'[TableOf[t]].time = t
    <3>1. CASE TableOf[t] = id
      BY <1>15, <1>18, <2>3, <3>1
    <3>2. CASE TableOf[t] # id
      <4>1. t \in view.described
        BY <1>2, <3>2
      <4>2. TableOf[t] \in DOMAIN tables /\ tables[TableOf[t]].time = t
        BY <2>3, <4>1 DEF Registered, TablesMatch
      <4> QED BY <1>18, <3>2, <4>2
    <3> QED BY <3>1, <3>2
  <2> QED BY <2>1, <2>2, <2>3 DEF TablesMatch
<1>20. Registered(next)'
  BY <1>6, <1>9, <1>10, <1>19 DEF Registered
<1> QED BY <1>5, <1>9, <1>20 DEF next, n, new

\* A block of data leaves rule, size and time of its signal alone, and its index unless
\* it is counted (SubscribedSignal.cpp:36-98).
LEMMA MeasuredKeeps ==
    ASSUME NEW sig \in Signal, NEW timeSignal \in Signal \cup {Null}, NEW len \in Nat
    PROVE  /\ ProcessSignalData(sig, timeSignal, len).signal.rule = sig.rule
           /\ ProcessSignalData(sig, timeSignal, len).signal.size = sig.size
           /\ ProcessSignalData(sig, timeSignal, len).signal.time = sig.time
<1> DEFINE answer == ProcessSignalData(sig, timeSignal, len)
<1>1. \A time : MeasuredExplicit(sig, time, len).signal = sig
  BY DEF MeasuredExplicit, Measured
<1>2. CASE timeSignal = Null
  BY <1>1, <1>2 DEF ProcessSignalData
<1>3. CASE timeSignal # Null
  <2>1. timeSignal \in Signal
    BY <1>3
  <2>2. CASE timeSignal.rule = "explicit"
    BY <1>1, <1>3, <2>2 DEF ProcessSignalData
  <2>3. CASE timeSignal.rule = "constant"
    BY <1>3, <2>3 DEF ProcessSignalData, Measured
  <2>4. CASE timeSignal.rule = "linear"
    <3> DEFINE known == [sig EXCEPT !.delta = timeSignal.delta]
               next  == [known EXCEPT !.index = (@ + (len \div sig.size)) % Wrap]
    <3>1. answer = MeasuredLinear(sig, timeSignal, len)
      BY <1>3, <2>4 DEF ProcessSignalData
    <3>2. answer.signal = known \/ answer.signal = next
      BY <3>1 DEF MeasuredLinear, Measured, Signal, RuleTypes
    <3>3. known \in Signal /\ known.rule = sig.rule /\ known.size = sig.size /\ known.time = sig.time
      BY <2>1 DEF Signal
    <3> HIDE DEF known
    <3>4. next.rule = known.rule /\ next.size = known.size /\ next.time = known.time
      BY <3>3 DEF Signal
    <3> QED BY <3>2, <3>3, <3>4
  <2> QED BY <2>1, <2>2, <2>3, <2>4 DEF Signal, RuleTypes
<1> QED BY <1>2, <1>3

\* Reading a block of time data of a described signal never meets an empty pointer
\* (SignalContainer.cpp:148-181).
LEMMA TimeRead ==
    ASSUME ContainerTypeOK, NEW view, NEW s, ViewOK(view, s), Registered(view),
           NEW packet, IsBlock(packet), MeasuredData(packet.signal, packet.payload),
           packet.signal \in view.described, packet.signal \in Times
    PROVE  /\ subscribedSignals' =
                  Put(subscribedSignals, packet.signal,
                      StampedTimeSignal(subscribedSignals[packet.signal], packet.payload))
           /\ tables' = tables /\ status' = "open"
<1> DEFINE n == packet.signal
           sig == subscribedSignals[n]
<1>1. n \in view.known /\ sig.isTime /\ sig.tableId = TableOf[n] /\ sig \in Signal
  BY DEF Registered, SignalMatches, ViewOK
<1>2. status = "open" /\ Live(n)
  BY <1>1, KnownIsLive DEF MeasuredData
<1>3. TimeData(n, packet.payload)
  BY <1>1, <1>2, KnownIsLive DEF MeasuredData
<1>4. ASSUME NEW m \in TableAt(sig.tableId).data PROVE Live(m)
  <2>1. TableAt(sig.tableId) \in Table
    BY LookUp
  <2>2. m \in SignalNumbers
    BY <2>1 DEF Table
  <2>3. m \in view.described
    BY <1>4, <2>2 DEF TableAt, NewTable, Registered, TablesMatch
  <2> QED BY <2>3, KnownIsLive DEF ViewOK
<1> QED BY <1>2, <1>3, <1>4 DEF TimeData, DataAnswered

\* Reading a block of values changes its signal at most (SignalContainer.cpp:182-199).
LEMMA ValueRead ==
    ASSUME ContainerTypeOK, NEW view, NEW s, ViewOK(view, s), Registered(view),
           NEW packet, IsBlock(packet), MeasuredData(packet.signal, packet.payload),
           packet.signal \in view.described, packet.signal \in Values,
           NEW id, id = TableOf[packet.signal],
           NEW answer,
           answer = ProcessSignalData(subscribedSignals[packet.signal],
                        subscribedSignals[tables[id].time], packet.payload.len)
    PROVE  /\ id \in DOMAIN tables /\ tables' = tables /\ status' = "open"
           /\ tables[id].time = NoTimeSignal => subscribedSignals' = subscribedSignals
           /\ tables[id].time # NoTimeSignal =>
                  /\ tables[id].time \in view.described
                  /\ DOMAIN subscribedSignals' = view.known
                  /\ subscribedSignals'[packet.signal] = answer.signal
                  /\ \A m \in view.known : m # packet.signal =>
                         subscribedSignals'[m] = subscribedSignals[m]
                  /\ last'.delivery = answer.delivery
<1> DEFINE n == packet.signal
           sig == subscribedSignals[n]
           timeNo == tables[id].time
           timeSig == IF timeNo \in DOMAIN subscribedSignals
                      THEN subscribedSignals[timeNo] ELSE Null
<1>1. /\ n \in view.known /\ sig.isTime = FALSE /\ sig.tableId = id /\ sig \in Signal
      /\ DOMAIN subscribedSignals = view.known
  <2>1. (n \in Times) = FALSE
    BY DEF Values
  <2>2. n \in view.known /\ DOMAIN subscribedSignals = view.known
    BY DEF Registered, ViewOK
  <2>3. sig \in Signal /\ sig.tableId = id /\ sig.isTime = (n \in Times)
    BY <2>2 DEF Registered, SignalMatches
  <2> QED BY <2>1, <2>2, <2>3
<1>2. id \in DOMAIN tables /\ TableAt(sig.tableId) = tables[id]
  BY <1>1 DEF Registered, TablesMatch, TableAt
<1>3. status = "open" /\ ValueData(n, packet.payload)
  BY <1>1, KnownIsLive DEF MeasuredData
<1>4. timeNo # NoTimeSignal => timeNo \in view.described
  BY <1>2 DEF Registered, TablesMatch
<1>5. timeNo # NoTimeSignal => timeSig = subscribedSignals[timeNo] /\ timeNo \in view.known
  BY <1>1, <1>4 DEF ViewOK
<1>6. tables' = tables /\ status' = "open"
  BY <1>3 DEF ValueData, DataAnswered
<1>7. CASE timeNo = NoTimeSignal
  BY <1>1, <1>2, <1>3, <1>6, <1>7 DEF ValueData
<1>8. CASE timeNo # NoTimeSignal
  <2>1. /\ DataAnswered(n, answer.ok, answer.delivery)
        /\ subscribedSignals' = Put(Put(subscribedSignals, timeNo, timeSig), n, answer.signal)
    BY <1>1, <1>2, <1>3, <1>5, <1>8 DEF ValueData
  <2>2. last'.delivery = answer.delivery
    BY <2>1 DEF DataAnswered, Call
  <2> HIDE DEF n, timeNo, timeSig
  <2>3. /\ DOMAIN subscribedSignals' = view.known
        /\ subscribedSignals'[n] = answer.signal
        /\ \A m \in view.known : m # n => subscribedSignals'[m] = subscribedSignals[m]
    BY <1>1, <1>5, <1>8, <2>1 DEF Put
  <2> QED BY <1>2, <1>4, <1>6, <1>8, <2>2, <2>3 DEF n, timeNo
<1> QED BY <1>7, <1>8

\* Data of a signal that is not described changes nothing (SignalContainer.cpp:138-147,
\* :182-199).
LEMMA UndescribedRead ==
    ASSUME NEW view, NEW s, ViewOK(view, s), Registered(view),
           NEW packet, IsBlock(packet), MeasuredData(packet.signal, packet.payload),
           packet.signal \notin view.described
    PROVE  UNCHANGED <<subscribedSignals, tables>> /\ status' = "open"
<1> DEFINE n == packet.signal
<1>1. status = "open"
  BY DEF MeasuredData
<1>2. CASE n \notin view.known
  BY <1>1, <1>2, KnownIsLive DEF MeasuredData, DataAnswered
<1>3. CASE n \in view.known
  <2>1. subscribedSignals[n].tableId = NoTableId /\ subscribedSignals[n].isTime = FALSE
    BY <1>3 DEF Registered, SignalMatches
  <2>2. NoTableId \notin DOMAIN tables
    BY SentinelAssumption DEF Registered, TablesMatch
  <2>3. ValueData(n, packet.payload)
    BY <1>3, <2>1, KnownIsLive DEF MeasuredData
  <2> QED BY <1>1, <2>1, <2>2, <2>3 DEF ValueData, DataAnswered
<1> QED BY <1>2, <1>3

\* The registers keep matching a view when no signal changes its table, role, rule or
\* size.
LEMMA RegistersKept ==
    ASSUME NEW view, Registered(view), tables' = tables, status' = "open",
           DOMAIN subscribedSignals' = view.known,
           \A m \in view.known :
               /\ subscribedSignals'[m] \in Signal
               /\ subscribedSignals'[m].tableId = subscribedSignals[m].tableId
               /\ subscribedSignals'[m].isTime = subscribedSignals[m].isTime
               /\ subscribedSignals'[m].rule = subscribedSignals[m].rule
               /\ subscribedSignals'[m].size = subscribedSignals[m].size
    PROVE  Registered(view)'
BY DEF Registered, SignalMatches, TablesMatch

\* Data leaves the registers as they are, but for the numbers in them
\* (SignalContainer.cpp:138-201).
LEMMA DataRead ==
    ASSUME ContainerTypeOK, NEW view, NEW s, ViewOK(view, s), Registered(view),
           NEW packet, packet.kind = "data", IsBlock(packet),
           MeasuredData(packet.signal, packet.payload)
    PROVE  Registered(After(view, packet))'
<1> DEFINE n == packet.signal
           sig == subscribedSignals[n]
<1>1. DOMAIN subscribedSignals = view.known /\ packet.payload \in Payload /\ n \in SignalNumbers
      /\ packet.payload.len \in Nat
  BY DEF Registered, IsBlock, Payload
<1>2. \A m \in view.known : subscribedSignals[m] \in Signal
  BY DEF Registered, SignalMatches
<1>3. Registered(view)'
  <2>1. CASE n \notin view.described
    <3>1. UNCHANGED <<subscribedSignals, tables>> /\ status' = "open"
      BY <2>1, UndescribedRead
    <3> QED BY <1>1, <1>2, <3>1, RegistersKept
  <2>2. CASE n \in view.described /\ n \in Times
    <3> DEFINE stamped == StampedTimeSignal(sig, packet.payload)
    <3>1. /\ subscribedSignals' = Put(subscribedSignals, n, stamped)
          /\ tables' = tables /\ status' = "open"
      BY <2>2, TimeRead
    <3>2. n \in view.known /\ sig \in Signal
      BY <1>2, <2>2 DEF ViewOK
    <3>3. stamped \in Signal /\ stamped.tableId = sig.tableId /\ stamped.isTime = sig.isTime
      BY <1>1, <3>2, StampedType DEF Payload
    <3>4. stamped.rule = sig.rule /\ stamped.size = sig.size
      BY <3>2 DEF StampedTimeSignal, Signal
    <3> HIDE DEF stamped, n, sig
    <3>5. /\ DOMAIN subscribedSignals' = view.known /\ subscribedSignals'[n] = stamped
          /\ \A m \in view.known : m # n => subscribedSignals'[m] = subscribedSignals[m]
      BY <1>1, <3>1, <3>2 DEF Put
    <3> QED BY <1>2, <3>1, <3>3, <3>4, <3>5, RegistersKept DEF sig
  <2>3. CASE n \in view.described /\ n \in Values
    <3> DEFINE id == TableOf[n]
               timeNo == tables[id].time
               answer == ProcessSignalData(sig, subscribedSignals[timeNo], packet.payload.len)
    <3>1. /\ tables' = tables /\ status' = "open"
          /\ timeNo = NoTimeSignal => subscribedSignals' = subscribedSignals
          /\ timeNo # NoTimeSignal =>
                 /\ timeNo \in view.described
                 /\ DOMAIN subscribedSignals' = view.known
                 /\ subscribedSignals'[n] = answer.signal
                 /\ \A m \in view.known : m # n => subscribedSignals'[m] = subscribedSignals[m]
      BY <2>3, ValueRead
    <3>2. CASE timeNo = NoTimeSignal
      BY <1>1, <1>2, <3>1, <3>2, RegistersKept
    <3>3. CASE timeNo # NoTimeSignal
      <4>1. sig \in Signal /\ subscribedSignals[timeNo] \in Signal
        BY <1>2, <2>3, <3>1, <3>3 DEF ViewOK
      <4> DEFINE timeSig == subscribedSignals[timeNo]
      <4> HIDE DEF timeSig, sig
      <4>2. /\ answer.signal \in Signal /\ answer.signal.tableId = sig.tableId
            /\ answer.signal.isTime = sig.isTime
            /\ answer.signal.rule = sig.rule /\ answer.signal.size = sig.size
        <5>1. packet.payload.len \in Nat
          BY <1>1 DEF Payload
        <5>2. /\ answer.signal \in Signal /\ answer.signal.tableId = sig.tableId
              /\ answer.signal.isTime = sig.isTime
          BY <4>1, <5>1, MeasuredType DEF timeSig
        <5>3. answer.signal.rule = sig.rule /\ answer.signal.size = sig.size
          BY <4>1, <5>1, MeasuredKeeps DEF timeSig
        <5> QED BY ONLY <5>2, <5>3
      <4> HIDE DEF answer
      <4> QED BY <1>2, <3>1, <3>3, <4>2, RegistersKept DEF sig
    <3> QED BY <3>2, <3>3
  <2> QED BY <1>1, <2>1, <2>2, <2>3 DEF Values
<1>4. After(view, packet).known = view.known /\ After(view, packet).described = view.described
  BY DEF After
<1> QED BY <1>3, <1>4 DEF Registered, SignalMatches

\* Dividing a whole number of values by the size of one.
LEMMA WholeBlocks ==
    ASSUME NEW count \in Nat, NEW bytes \in Nat \ {0}
    PROVE  (count * bytes) \div bytes = count /\ (count * bytes) % bytes = 0
<1> DEFINE a == count * bytes
           q == a \div bytes
           r == a % bytes
<1>1. a \in Nat
  OBVIOUS
<1>2. q \in Nat /\ r \in 0 .. bytes - 1 /\ a = (bytes * q) + r
  <2> HIDE DEF a
  <2> QED BY <1>1
<1> HIDE DEF q, r
<1>3. bytes * (count - q) = r
  BY <1>2
<1>4. count - q = 0
  <2>1. CASE count - q >= 1
    <3>1. bytes * (count - q) >= bytes
      BY <1>2, <2>1
    <3> QED BY <1>2, <1>3, <3>1
  <2>2. CASE count - q <= -1
    <3>1. bytes * (count - q) < 0
      BY <1>2, <2>2
    <3> QED BY <1>2, <1>3, <3>1
  <2> QED BY <1>2, <2>1, <2>2
<1>5. q = count /\ r = 0
  BY <1>2, <1>3, <1>4
<1> QED BY <1>5 DEF q, r

\* A block in a table with linear time: counted values are dated by their index, constant
\* ones by the start of the table (SubscribedSignal.cpp:36-98).
LEMMA LinearDelivery ==
    ASSUME NEW sig \in Signal, NEW timeSig \in Signal, NEW count \in Nat, NEW len,
           timeSig.rule = "linear", sig.rule \in {"explicit", "constant"},
           len = count * (IF sig.rule = "constant" THEN IndexBytes + sig.size ELSE sig.size),
           NEW answer, answer = ProcessSignalData(sig, timeSig, len)
    PROVE  /\ answer.delivery # NoDelivery /\ answer.delivery.count = count
           /\ sig.rule = "explicit" =>
                  /\ answer.delivery.time = LinearTime(sig, timeSig)
                  /\ answer.signal.index = (sig.index + count) % Wrap
           /\ sig.rule = "constant" =>
                  answer.delivery.time = timeSig.time /\ answer.signal.delta = timeSig.delta
<1>1. timeSig # Null /\ sig.size \in Nat \ {0} /\ IndexBytes + sig.size \in Nat \ {0}
      /\ sig.index \in Nat
  BY NullAssumption DEF Signal, IndexBytes, Word
<1>2. answer = MeasuredLinear(sig, timeSig, len)
  BY <1>1 DEF ProcessSignalData
<1>3. LinearTime(sig, timeSig) \in Word /\ timeSig.time \in Word
  BY WrapInWord DEF LinearTime, Signal, Word
<1>4. CASE sig.rule = "explicit"
  <2> DEFINE known == [sig EXCEPT !.delta = timeSig.delta]
  <2>1. len \div sig.size = count /\ len \in Nat
    BY <1>1, <1>4, WholeBlocks
  <2>2. /\ answer.signal = [known EXCEPT !.index = (@ + (len \div sig.size)) % Wrap]
        /\ answer.delivery = Delivered(LinearTime(sig, timeSig), len, len \div sig.size)
    BY <1>2, <1>4 DEF MeasuredLinear, Measured
  <2>3. known \in Signal /\ known.index = sig.index
    BY DEF Signal
  <2> HIDE DEF known
  <2>4. answer.signal.index = (sig.index + count) % Wrap
    BY <2>1, <2>2, <2>3 DEF Signal
  <2>5. Delivered(LinearTime(sig, timeSig), len, count) \in Delivery
    BY <1>3, <2>1 DEF Delivered, Delivery
  <2> QED BY <1>4, <2>1, <2>2, <2>4, <2>5, AbsentAssumption DEF Delivered, NoDelivery
<1>5. CASE sig.rule = "constant"
  <2>1. len \div (IndexBytes + sig.size) = count /\ len \in Nat
    BY <1>1, <1>5, WholeBlocks
  <2>2. /\ answer.delivery = Delivered(timeSig.time, len, len \div (IndexBytes + sig.size))
        /\ answer.signal = [sig EXCEPT !.delta = timeSig.delta]
    BY <1>2, <1>5 DEF MeasuredLinear, Measured
  <2>3. Delivered(timeSig.time, len, count) \in Delivery
    BY <1>3, <2>1 DEF Delivered, Delivery
  <2>4. answer.signal.delta = timeSig.delta
    BY <2>2 DEF Signal
  <2> QED BY <1>5, <2>1, <2>2, <2>3, <2>4, AbsentAssumption DEF Delivered, NoDelivery
<1> QED BY <1>4, <1>5

\* A block in a table with explicit time.
LEMMA ExplicitDelivery ==
    ASSUME NEW sig \in Signal, NEW timeSig \in Signal, NEW count \in Nat, NEW len,
           timeSig.rule = "explicit", len = count * sig.size,
           NEW answer, answer = ProcessSignalData(sig, timeSig, len)
    PROVE  answer.delivery # NoDelivery /\ answer.delivery.count = count
<1>1. timeSig # Null /\ sig.size \in Nat \ {0} /\ timeSig.time \in Word
  BY NullAssumption DEF Signal
<1>2. answer = MeasuredExplicit(sig, timeSig.time, len)
  BY <1>1 DEF ProcessSignalData
<1>3. len \div sig.size = count /\ len % sig.size = 0 /\ len \in Nat
  <2> DEFINE bytes == sig.size
  <2> HIDE DEF bytes
  <2>1. bytes \in Nat \ {0} /\ len = count * bytes
    BY <1>1 DEF bytes
  <2>2. (count * bytes) \div bytes = count /\ (count * bytes) % bytes = 0
    BY <2>1, WholeBlocks
  <2>3. len \div bytes = count /\ len % bytes = 0
    BY ONLY <2>1, <2>2
  <2>4. len \in Nat
    BY <2>1
  <2> QED BY <2>3, <2>4 DEF bytes
<1>4. answer.delivery = Delivered(timeSig.time, len, count)
  BY <1>2, <1>3 DEF MeasuredExplicit, Measured
<1>5. Delivered(timeSig.time, len, count) \in Delivery
  BY <1>1, <1>3 DEF Delivered, Delivery
<1> QED BY <1>4, <1>5, AbsentAssumption DEF Delivered, NoDelivery

\* In an orderly session a block of values that fits meets its time signal: it is
\* delivered whole, and dated in a table with linear time (SignalContainer.cpp:182-199).
LEMMA BlockRead ==
    ASSUME NEW level, Delivers(level), Tabled, ContainerTypeOK, NEW view, NEW s \in Setups, ViewOK(view, s),
           Registered(view), NEW packet, packet.kind = "data", IsBlock(packet),
           packet.signal \in Values, Fits(view, packet, s, level),
           MeasuredData(packet.signal, packet.payload)
    PROVE  \E t \in Times \cap s :
               LET n == packet.signal
               IN  /\ TableOf[t] = TableOf[n] /\ t \in view.described
                   /\ DOMAIN subscribedSignals' = view.known
                   /\ \A m \in view.known : m # n => subscribedSignals'[m] = subscribedSignals[m]
                   /\ last'.delivery # NoDelivery /\ last'.delivery.count = packet.count
                   /\ Kind[t] = "LinearTimeSignal" =>
                          /\ RuleOf(n) = "explicit" =>
                                 /\ last'.delivery.time
                                    = LinearTime(subscribedSignals[n], subscribedSignals[t])
                                 /\ subscribedSignals'[n].index
                                    = (subscribedSignals[n].index + packet.count) % Wrap
                          /\ RuleOf(n) = "constant" =>
                                 /\ last'.delivery.time = subscribedSignals[t].time
                                 /\ subscribedSignals'[n].delta = subscribedSignals[t].delta
<1> DEFINE n == packet.signal
           id == TableOf[n]
           sig == subscribedSignals[n]
<1>1. n \in view.described /\ n \in s
  BY DEF Fits, ViewOK
<1>2. PICK t \in Times \cap s : /\ TableOf[t] = id
                                /\ Kind[n] = "ConstantSignal" => Kind[t] = "LinearTimeSignal"
  BY <1>1 DEF Tabled
<1>3. t \in view.described
  BY <1>2 DEF Fits, TimeFor
<1>4. tables[id].time = t /\ t # NoTimeSignal
  BY <1>2, <1>3, NumberAssumption DEF Registered, TablesMatch, Times
<1> DEFINE timeSig == subscribedSignals[t]
           answer == ProcessSignalData(sig, timeSig, packet.payload.len)
<1>5. /\ DOMAIN subscribedSignals' = view.known
      /\ subscribedSignals'[n] = answer.signal
      /\ \A m \in view.known : m # n => subscribedSignals'[m] = subscribedSignals[m]
      /\ last'.delivery = answer.delivery
  BY <1>1, <1>4, ValueRead
<1>6. /\ sig \in Signal /\ sig.rule = RuleOf(n) /\ sig.size = SizeOf(n)
      /\ timeSig \in Signal /\ timeSig.rule = RuleOf(t)
  BY <1>1, <1>3 DEF Registered, SignalMatches, ViewOK
<1>7. /\ n \notin Times /\ sig.size = ValueBytes /\ sig.rule \in {"explicit", "constant"}
      /\ sig.rule = "constant" <=> Kind[n] = "ConstantSignal"
      /\ packet.count \in Nat
      /\ packet.payload.len = packet.count *
             (IF sig.rule = "constant" THEN IndexBytes + sig.size ELSE sig.size)
  <2>1. n \notin Times /\ n \in SignalNumbers
    BY DEF Values
  <2>2. Kind[n] # "LinearTimeSignal"
    BY <2>1 DEF Times, TimeKinds
  <2>3. packet.count \in Nat /\ packet.payload.len = packet.count * BytesOf(n)
    BY DEF IsBlock
  <2> QED BY <1>6, <2>1, <2>2, <2>3 DEF RuleOf, SizeOf, BytesOf
<1>8. t \in SignalNumbers /\ Kind[t] \in TimeKinds
  BY <1>2 DEF Times
<1> DEFINE len == packet.payload.len
<1>10. answer = ProcessSignalData(sig, timeSig, len)
  OBVIOUS
<1> HIDE DEF answer, sig, timeSig, len
<1>11. CASE Kind[t] = "LinearTimeSignal"
  <2>1. timeSig.rule = "linear"
    BY <1>6, <1>11 DEF RuleOf
  <2>2. /\ answer.delivery # NoDelivery /\ answer.delivery.count = packet.count
        /\ sig.rule = "explicit" =>
               /\ answer.delivery.time = LinearTime(sig, timeSig)
               /\ answer.signal.index = (sig.index + packet.count) % Wrap
        /\ sig.rule = "constant" =>
               answer.delivery.time = timeSig.time /\ answer.signal.delta = timeSig.delta
    BY <1>6, <1>7, <1>10, <2>1, LinearDelivery DEF len
  <2> QED BY <1>2, <1>3, <1>5, <1>6, <2>2 DEF sig, timeSig
<1>12. CASE Kind[t] = "ExplicitTimeSignal"
  <2>1. timeSig.rule = "explicit" /\ len = packet.count * sig.size
    BY <1>2, <1>6, <1>7, <1>12 DEF RuleOf, len
  <2>2. answer.delivery # NoDelivery /\ answer.delivery.count = packet.count
    BY <1>6, <1>7, <1>10, <2>1, ExplicitDelivery
  <2> QED BY <1>2, <1>3, <1>5, <1>12, <2>2
<1> QED BY <1>8, <1>11, <1>12 DEF TimeKinds

-----------------------------------------------------------------------------
(* The numbers the consumer dates values by. *)

\* What a packet tells about its signal, and that it tells nothing about any other.
LEMMA AfterNumbers ==
    ASSUME NEW view, NEW packet, NEW next, next = After(view, packet),
           packet.signal \in SignalNumbers
    PROVE  /\ \A m \in SignalNumbers : m # packet.signal =>
                  /\ next.index[m] = view.index[m] /\ next.time[m] = view.time[m]
                  /\ next.delta[m] = view.delta[m]
                  /\ m \in next.known <=> m \in view.known
                  /\ m \in next.described <=> m \in view.described
           /\ packet.kind = "subscribe" => next.time[packet.signal] = 0
           /\ packet.kind = "signal" =>
                  /\ next.index[packet.signal] = packet.params.valueIndex
                  /\ next.delta[packet.signal] = packet.params.definition.delta
                  /\ next.time[packet.signal] = view.time[packet.signal]
           /\ packet.kind = "data" /\ packet.signal \in Times =>
                  /\ next.time[packet.signal] = packet.payload.second
                  /\ next.delta[packet.signal] = view.delta[packet.signal]
           /\ packet.kind = "data" /\ packet.signal \in Counted =>
                  next.index[packet.signal] = (view.index[packet.signal] + packet.count) % Wrap
           /\ packet.kind = "data" /\ packet.signal \notin Times =>
                  next.time[packet.signal] = view.time[packet.signal]
BY DEF After

\* The numbers match the next view when those of the packet's signal do and no other
\* signal changes.
LEMMA NumbersOfOthers ==
    ASSUME NEW view, NEW s, ViewOK(view, s), NumbersMatch(view), NEW packet,
           packet.signal \in SignalNumbers, NEW next, next = After(view, packet),
           \A m \in view.known : m # packet.signal => subscribedSignals'[m] = subscribedSignals[m],
           packet.signal \in LinearTimes /\ packet.signal \in next.known =>
               /\ subscribedSignals'[packet.signal].time = next.time[packet.signal]
               /\ subscribedSignals'[packet.signal].index = 0
               /\ packet.signal \in next.described =>
                      subscribedSignals'[packet.signal].delta = next.delta[packet.signal],
           packet.signal \in Counted /\ packet.signal \in next.described =>
               subscribedSignals'[packet.signal].index = next.index[packet.signal]
    PROVE  NumbersMatch(next)'
<1> DEFINE n == packet.signal
<1>1. \A m \in SignalNumbers : m # n =>
          /\ next.index[m] = view.index[m] /\ next.time[m] = view.time[m]
          /\ next.delta[m] = view.delta[m]
          /\ m \in next.known <=> m \in view.known
          /\ m \in next.described <=> m \in view.described
  BY AfterNumbers
<1>2. LinearTimes \subseteq SignalNumbers /\ Counted \subseteq SignalNumbers
  BY DEF LinearTimes, Counted, Times, Values
<1>3. \A t \in LinearTimes \cap next.known :
          /\ subscribedSignals'[t].time = next.time[t] /\ subscribedSignals'[t].index = 0
          /\ t \in next.described => subscribedSignals'[t].delta = next.delta[t]
  BY <1>1, <1>2 DEF NumbersMatch
<1>4. \A m \in Counted \cap next.described : subscribedSignals'[m].index = next.index[m]
  BY <1>1, <1>2 DEF NumbersMatch, ViewOK
<1> QED BY <1>3, <1>4 DEF NumbersMatch

\* An acknowledgement starts a signal at time and index 0, or takes it away
\* (SignalContainer.cpp:69-103).
LEMMA AckNumbers ==
    ASSUME NEW level, NEW view, NEW s, ViewOK(view, s), Registered(view), NumbersMatch(view),
           NEW packet, packet.signal \in SignalNumbers, Fits(view, packet, s, level),
           \/ packet.kind = "subscribe" /\ SubscribeAck(packet.signal, "ok")
           \/ packet.kind = "unsubscribe" /\ UnsubscribeAck(packet.signal)
    PROVE  NumbersMatch(After(view, packet))'
<1> DEFINE n == packet.signal
           next == After(view, packet)
<1>1. DOMAIN subscribedSignals = view.known
  BY DEF Registered
<1>2. CASE packet.kind = "subscribe"
  <2>1. n \notin view.known /\ n \notin view.described
    BY <1>2 DEF Fits, ViewOK
  <2>2. subscribedSignals' = Put(subscribedSignals, n, NewSignal)
    BY <1>2, <2>1, KnownIsLive DEF SubscribeAck
  <2>3. /\ subscribedSignals'[n] = NewSignal
        /\ \A m \in view.known : m # n => subscribedSignals'[m] = subscribedSignals[m]
    BY <1>1, <2>2 DEF Put
  <2>4. next.time[n] = 0
    BY <1>2, AfterNumbers
  <2>5. next.described = view.described
    BY <1>2 DEF After
  <2>6. NewSignal.time = 0 /\ NewSignal.index = 0
    BY DEF NewSignal
  <2> HIDE DEF next
  <2>7. next = After(view, packet)
    BY DEF next
  <2> QED BY <2>1, <2>3, <2>4, <2>5, <2>6, <2>7, NumbersOfOthers
<1>3. CASE packet.kind = "unsubscribe"
  <2>1. n \in view.known
    BY <1>3 DEF Fits
  <2>2. subscribedSignals' = Erase(subscribedSignals, n)
    BY <1>3, <2>1, KnownIsLive DEF UnsubscribeAck
  <2>3. \A m \in view.known : m # n => subscribedSignals'[m] = subscribedSignals[m]
    BY <1>1, <2>2 DEF Erase
  <2>4. n \notin next.known /\ n \notin next.described
    BY <1>3 DEF After
  <2> HIDE DEF next
  <2>5. next = After(view, packet)
    BY DEF next
  <2> QED BY <2>3, <2>4, <2>5, NumbersOfOthers
<1> QED BY <1>2, <1>3

\* A description tells the rate of a linear time signal and the index of a counted one
\* (SubscribedSignal.cpp:100-260).
LEMMA DescriptionNumbers ==
    ASSUME NEW level, ContainerTypeOK, NEW view, NEW s \in Setups, ViewOK(view, s), Registered(view),
           NumbersMatch(view),
           NEW packet, packet.kind = "signal", Fits(view, packet, s, level),
           packet.signal \in SignalNumbers, Describes(packet.signal, packet.params),
           SignalMeta(packet.signal, packet.params)
    PROVE  NumbersMatch(After(view, packet))'
<1> DEFINE n == packet.signal
           next == After(view, packet)
           sig == subscribedSignals[n]
           new == subscribedSignals'[n]
<1>1. /\ \A m \in view.known : m # n => subscribedSignals'[m] = subscribedSignals[m]
      /\ new.time = sig.time
      /\ new.index = Given(packet.params.valueIndex, sig.index)
      /\ new.delta = Given(packet.params.definition.delta, sig.delta)
  BY SignalRead, SMTT(30)
<1>2. /\ next.index[n] = packet.params.valueIndex
      /\ next.delta[n] = packet.params.definition.delta
      /\ next.time[n] = view.time[n]
  BY AfterNumbers
<1>3. n \in view.known
  BY DEF Fits
<1>4. n \in LinearTimes => new.time = next.time[n] /\ new.index = 0 /\ new.delta = next.delta[n]
  <2> SUFFICES ASSUME n \in LinearTimes
               PROVE  new.time = next.time[n] /\ new.index = 0 /\ new.delta = next.delta[n]
    OBVIOUS
  <2>1. Kind[n] = "LinearTimeSignal" /\ RuleOf(n) = "linear"
    BY DEF LinearTimes, RuleOf
  <2>2. packet.params.valueIndex = Absent /\ packet.params.definition.delta \in Word \ {0}
    BY <2>1 DEF Describes
  <2>3. packet.params.definition.delta # Absent
    BY <2>2, SentinelAssumption DEF Word
  <2>4. sig.time = view.time[n] /\ sig.index = 0
    BY <1>3 DEF NumbersMatch
  <2> QED BY <1>1, <1>2, <2>2, <2>3, <2>4 DEF Given
<1>5. n \in Counted => new.index = next.index[n]
  <2> SUFFICES ASSUME n \in Counted PROVE new.index = next.index[n]
    OBVIOUS
  <2>1. packet.params.valueIndex \in Word
    BY DEF Describes, Counted
  <2>2. packet.params.valueIndex # Absent
    BY <2>1, SentinelAssumption DEF Word
  <2> QED BY <1>1, <1>2, <2>2 DEF Given
<1> HIDE DEF next
<1>6. next = After(view, packet)
  BY DEF next
<1> QED BY <1>1, <1>4, <1>5, <1>6, NumbersOfOthers

\* A block of time data gives a linear time signal its start, as index 0
\* (SignalContainer.cpp:148-181).
LEMMA StartNumbers ==
    ASSUME NEW level, Dates(level), Paired, ContainerTypeOK, NEW view, NEW s \in Setups, ViewOK(view, s),
           Registered(view), NumbersMatch(view),
           NEW packet, packet.kind = "data", IsBlock(packet), packet.signal \in Times,
           Fits(view, packet, s, level), MeasuredData(packet.signal, packet.payload)
    PROVE  NumbersMatch(After(view, packet))'
<1> DEFINE n == packet.signal
           next == After(view, packet)
           sig == subscribedSignals[n]
           stamped == StampedTimeSignal(sig, packet.payload)
<1>1. n \in view.described /\ n \in view.known /\ n \in SignalNumbers /\ packet.payload.first = 0
  BY DEF Fits, ViewOK, IsBlock
<1>2. PICK m \in view.described \cap Values : TableOf[m] = TableOf[n]
  BY DEF Fits
<1>3. subscribedSignals' = Put(subscribedSignals, n, stamped)
  BY <1>1, TimeRead
<1>4. sig \in Signal /\ sig.tableId = TableOf[n] /\ sig.rule = RuleOf(n)
  BY <1>1 DEF Registered, SignalMatches
<1>5. TableAt(sig.tableId).data # {}
  <2>1. TableOf[n] \in DOMAIN tables /\ m \in SignalNumbers
    BY <1>2 DEF Registered, TablesMatch, Values
  <2>2. m \in tables[TableOf[n]].data
    BY <1>2, <2>1 DEF Registered, TablesMatch
  <2> QED BY <1>4, <2>1, <2>2 DEF TableAt
<1>6. next.time[n] = packet.payload.second /\ next.delta[n] = view.delta[n]
  BY <1>1, AfterNumbers
<1>7. n \in LinearTimes =>
          /\ stamped.time = next.time[n] /\ stamped.index = 0
          /\ stamped.delta = view.delta[n]
  <2> SUFFICES ASSUME n \in LinearTimes
               PROVE  /\ stamped.time = next.time[n] /\ stamped.index = 0
                      /\ stamped.delta = view.delta[n]
    OBVIOUS
  <2>1. sig.rule = "linear"
    BY <1>4 DEF LinearTimes, RuleOf
  <2>2. stamped = [sig EXCEPT !.time = packet.payload.second, !.index = packet.payload.first]
    BY <1>5, <2>1 DEF StampedTimeSignal
  <2>3. stamped.time = packet.payload.second /\ stamped.index = 0 /\ stamped.delta = sig.delta
    <3> HIDE DEF sig, stamped
    <3> QED BY <1>1, <1>4, <2>2 DEF Signal
  <2>4. sig.delta = view.delta[n]
    BY <1>1 DEF NumbersMatch
  <2> QED BY <1>6, <2>3, <2>4
<1>8. n \notin Counted
  BY DEF Counted, Values
<1>9. DOMAIN subscribedSignals = view.known
  BY DEF Registered
<1>10. /\ subscribedSignals'[n] = stamped
       /\ \A k \in view.known : k # n => subscribedSignals'[k] = subscribedSignals[k]
  <2> HIDE DEF stamped
  <2> QED BY <1>3, <1>9 DEF Put
<1> HIDE DEF next, stamped
<1>11. next = After(view, packet)
  BY DEF next
<1> QED BY <1>1, <1>6, <1>7, <1>8, <1>10, <1>11, NumbersOfOthers

\* The callback is given the time stamp of counted values, and what it takes to work out
\* that of constant ones.
DatedBy(packet) ==
    IF packet.signal \in Counted THEN last'.delivery.time = packet.truth
    ELSE packet.truth
         = (last'.delivery.time + packet.payload.first * subscribedSignals'[packet.signal].delta) % Wrap

\* A block of values in a timely session moves its index on, and is given the time stamp
\* the view says (SubscribedSignal.cpp:36-98).
LEMMA BlockNumbers ==
    ASSUME NEW level, Dates(level), Paired, ContainerTypeOK, NEW view, NEW s \in Setups, ViewOK(view, s),
           Registered(view), NumbersMatch(view),
           NEW packet, packet.kind = "data", IsBlock(packet), packet.signal \in Values,
           Fits(view, packet, s, level), MeasuredData(packet.signal, packet.payload)
    PROVE  /\ NumbersMatch(After(view, packet))'
           /\ \A t \in LinearTimes : TimeFor(t, packet.signal, s) => DatedBy(packet)
<1> DEFINE n == packet.signal
           next == After(view, packet)
<1>1. /\ Delivers(level) /\ Tabled /\ n \in SignalNumbers /\ n \in view.described
      /\ n \in view.known /\ n \in s /\ n \notin LinearTimes
  BY DEF Paired, Delivers, Dates, Fits, ViewOK, Values, LinearTimes
<1>2. PICK t \in Times \cap s :
          /\ TableOf[t] = TableOf[n] /\ t \in view.described
          /\ \A m \in view.known : m # n => subscribedSignals'[m] = subscribedSignals[m]
          /\ Kind[t] = "LinearTimeSignal" =>
                 /\ RuleOf(n) = "explicit" =>
                        /\ last'.delivery.time = LinearTime(subscribedSignals[n], subscribedSignals[t])
                        /\ subscribedSignals'[n].index
                           = (subscribedSignals[n].index + packet.count) % Wrap
                 /\ RuleOf(n) = "constant" =>
                        /\ last'.delivery.time = subscribedSignals[t].time
                        /\ subscribedSignals'[n].delta = subscribedSignals[t].delta
  BY <1>1, BlockRead
<1>3. Kind[n] = "AsynchronousSignal" <=> Kind[t] = "ExplicitTimeSignal"
  BY <1>1, <1>2 DEF Paired
<1>4. Kind[t] \in TimeKinds /\ Kind[n] \in ValueKinds
  BY <1>1, StreamingAssumption DEF Times, Values
<1>5. n \in Counted =>
          /\ Kind[t] = "LinearTimeSignal" /\ RuleOf(n) = "explicit"
          /\ subscribedSignals[n].index = view.index[n]
  <2> SUFFICES ASSUME n \in Counted
               PROVE  /\ Kind[t] = "LinearTimeSignal" /\ RuleOf(n) = "explicit"
                      /\ subscribedSignals[n].index = view.index[n]
    OBVIOUS
  <2>1. Kind[n] = "SynchronousSignal"
    BY DEF Counted
  <2> QED BY <1>1, <1>3, <1>4, <2>1 DEF RuleOf, TimeKinds, NumbersMatch
<1>6. n \in Counted => subscribedSignals'[n].index = (view.index[n] + packet.count) % Wrap
  BY <1>2, <1>5
<1>7. n \in Counted => next.index[n] = (view.index[n] + packet.count) % Wrap
  BY <1>1, AfterNumbers
<1>8. NumbersMatch(next)'
  <2> HIDE DEF next
  <2>1. next = After(view, packet)
    BY DEF next
  <2> QED BY <1>1, <1>2, <1>6, <1>7, <2>1, NumbersOfOthers
<1>9. ASSUME NEW u \in LinearTimes, TimeFor(u, n, s)
      PROVE  DatedBy(packet)
  <2>1. u \in Times \cap s /\ TableOf[u] = TableOf[n]
    BY <1>9 DEF TimeFor
  <2>2. u = t
    BY <1>1, <1>2, <2>1, OneTimeSignal
  <2>3. packet.truth = Stamp(view, packet, t)
    BY <1>9, <2>2 DEF Fits
  <2>4. Kind[t] = "LinearTimeSignal"
    BY <2>2 DEF LinearTimes
  <2>5. /\ t \in view.known /\ subscribedSignals[t].time = view.time[t]
        /\ subscribedSignals[t].index = 0 /\ subscribedSignals[t].delta = view.delta[t]
    BY <1>2, <2>2 DEF NumbersMatch, ViewOK
  <2>6. CASE n \in Counted
    <3> DEFINE sig == subscribedSignals[n]
               timeSig == subscribedSignals[t]
    <3>1. last'.delivery.time = LinearTime(sig, timeSig) /\ sig.index = view.index[n]
      BY <1>2, <1>5, <2>4, <2>6
    <3>2. sig \in Signal
      BY <1>1 DEF Registered, SignalMatches
    <3>3. sig.index \in Nat
      <4> HIDE DEF sig
      <4> QED BY <3>2 DEF Signal, Word
    <3>4. sig.index - timeSig.index = view.index[n]
      BY <2>5, <3>1, <3>3
    <3>5. LinearTime(sig, timeSig) = (view.time[t] + view.index[n] * view.delta[t]) % Wrap
      BY <2>5, <3>4 DEF LinearTime
    <3> QED BY <2>3, <2>6, <3>1, <3>5 DEF Stamp, DatedBy
  <2>7. CASE n \notin Counted
    <3>1. Kind[n] = "ConstantSignal"
      BY <1>3, <1>4, <2>4, <2>7 DEF ValueKinds, Counted
    <3>2. RuleOf(n) = "constant"
      BY <3>1 DEF RuleOf
    <3> QED BY <1>2, <2>3, <2>4, <2>5, <2>7, <3>2 DEF Stamp, DatedBy
  <2> QED BY <2>6, <2>7
<1> QED BY <1>8, <1>9

-----------------------------------------------------------------------------
(***************************************************************************)
(* The promises of the session, and what reading a packet makes of         *)
(* the invariant.                                                          *)
(***************************************************************************)
Promised(level) ==
    /\ Delivers(level) => EveryBlockDelivered
    /\ Dates(level) => TimeStampsTrue /\ ConstantsDatable

\* The packet read fits the consumer's view, so it is accepted; its values are delivered
\* whole and, in a timely session, dated as the application said
\* (ProtocolHandler.cpp:129-191).
LEMMA PacketRead ==
    ASSUME NEW level, Attainable(level), ContainerTypeOK, setup' = setup, setup \in Setups,
           NEW view, ViewOK(view, setup), Registered(view), Dates(level) => NumbersMatch(view),
           NEW packet, Written(packet), Fits(view, packet, setup, level), received' = packet,
           \/ packet.kind = "subscribe" /\ SubscribeAck(packet.signal, "ok")
           \/ packet.kind = "unsubscribe" /\ UnsubscribeAck(packet.signal)
           \/ packet.kind = "signal" /\ SignalMeta(packet.signal, packet.params)
           \/ packet.kind = "data" /\ MeasuredData(packet.signal, packet.payload)
    PROVE  /\ Registered(After(view, packet))'
           /\ Dates(level) => NumbersMatch(After(view, packet))'
           /\ Promised(level)'
<1>1. /\ packet.signal \in SignalNumbers
      /\ packet.kind = "signal" => Describes(packet.signal, packet.params)
      /\ packet.kind = "data" => IsBlock(packet)
  BY PacketKinds
<1>2. CASE packet.kind # "data"
  <2>1. Promised(level)'
    BY <1>2 DEF Promised, EveryBlockDelivered, TimeStampsTrue, ConstantsDatable, DatedBlock
  <2>2. Registered(After(view, packet))'
    BY <1>1, <1>2, SubscribeRead, UnsubscribeRead, SignalRead
  <2>3. Dates(level) => NumbersMatch(After(view, packet))'
    BY <1>1, <1>2, AckNumbers, DescriptionNumbers
  <2> QED BY <2>1, <2>2, <2>3
<1>3. CASE packet.kind = "data"
  <2>1. IsBlock(packet) /\ MeasuredData(packet.signal, packet.payload)
    BY <1>1, <1>3
  <2>2. Registered(After(view, packet))'
    BY <1>3, <2>1, DataRead
  <2>3. CASE packet.signal \in Times
    <3>1. packet.signal \notin Values
      BY <2>3 DEF Values
    <3>2. Dates(level) => NumbersMatch(After(view, packet))'
      BY <1>3, <2>1, <2>3, StartNumbers DEF Attainable, Dates
    <3>3. packet.truth = Unset
      BY <2>1, <2>3 DEF IsBlock
    <3> QED BY <2>2, <3>1, <3>2, <3>3
            DEF Promised, EveryBlockDelivered, TimeStampsTrue, ConstantsDatable, DatedBlock
  <2>4. CASE packet.signal \in Values
    <3>1. Dates(level) => NumbersMatch(After(view, packet))'
      BY <1>3, <2>1, <2>4, BlockNumbers DEF Attainable, Dates
    <3>2. Delivers(level) => EveryBlockDelivered'
      <4> SUFFICES ASSUME Delivers(level) PROVE EveryBlockDelivered'
        OBVIOUS
      <4>1. last'.delivery # NoDelivery /\ last'.delivery.count = packet.count
        BY <1>3, <2>1, <2>4, BlockRead DEF Attainable, Dates
      <4> QED BY <4>1 DEF EveryBlockDelivered
    <3>3. Dates(level) => TimeStampsTrue' /\ ConstantsDatable'
      <4> SUFFICES ASSUME Dates(level) PROVE TimeStampsTrue' /\ ConstantsDatable'
        OBVIOUS
      <4>1. \A t \in LinearTimes : TimeFor(t, packet.signal, setup) => DatedBy(packet)
        BY <1>3, <2>1, <2>4, BlockNumbers DEF Attainable, Dates
      <4>2. \A kind : DatedBlock(kind, "LinearTimeSignal")' =>
                Kind[packet.signal] = kind /\ DatedBy(packet)
        BY <4>1 DEF DatedBlock, TimesOf, TimeFor, LinearTimes
      <4>3. packet.signal \in Counted <=> Kind[packet.signal] = "SynchronousSignal"
        BY <2>4 DEF Counted
      <4> QED BY <4>2, <4>3 DEF TimeStampsTrue, ConstantsDatable, DatedBy
    <3> QED BY <2>2, <3>1, <3>2, <3>3 DEF Promised
  <2> QED BY <1>1, <2>3, <2>4 DEF Values
<1> QED BY <1>2, <1>3

\* A packet that fits the end of a chain leads on from there.
LEMMA LinkAdded ==
    ASSUME NEW level, NEW packets, IsSequence(packets), NEW first, NEW end, NEW s,
           Linked(first, end, packets, s, level), NEW packet, Fits(end, packet, s, level)
    PROVE  Linked(first, After(end, packet), Append(packets, packet), s, level)
<1>1. PICK view : /\ Chain(view, packets, s, level)
                  /\ view[1] = first /\ view[Len(packets) + 1] = end
  BY DEF Linked
<1> QED BY <1>1, ChainGrows DEF Linked

\* The first packet fits the first view, and the others lead on from the view behind it.
LEMMA LinkTaken ==
    ASSUME NEW level, ChannelOK, channel # <<>>, channel' = Tail(channel),
           NEW first, NEW end, NEW s, Linked(first, end, channel, s, level)
    PROVE  /\ Linked(After(first, channel[1]), end, channel', s, level)
           /\ ViewOK(first, s) /\ Fits(first, channel[1], s, level)
<1>1. PICK view : /\ Chain(view, channel, s, level)
                  /\ view[1] = first /\ view[Len(channel) + 1] = end
  BY DEF Linked
<1> QED BY <1>1, ChainShrinks DEF Linked

\* In a chain every view, the last one too, describes only what it knows.
LEMMA LinkedEnd ==
    ASSUME NEW level, NEW packets, IsSequence(packets), NEW first, NEW end, NEW s,
           Linked(first, end, packets, s, level)
    PROVE  ViewOK(end, s)
<1>1. PICK view : Chain(view, packets, s, level) /\ view[Len(packets) + 1] = end
  BY DEF Linked
<1>2. Len(packets) \in Nat
  BY DEF IsSequence
<1> QED BY <1>1, <1>2 DEF Chain

\* Reading keeps the invariant and the promises.
LEMMA ReceiveKeeps ==
    ASSUME NEW level, Attainable(level), SessionInv(level), Receive
    PROVE  Sessions(level)' /\ ChainInv(level)' /\ Promised(level)'
<1>1. /\ channel # <<>> /\ channel' = Tail(channel) /\ received' = Head(channel)
      /\ setup' = setup /\ UNCHANGED producerVars
  BY DEF Receive, producerVars
<1>2. ChannelOK /\ Head(channel) = channel[1] /\ Written(channel[1])
  BY <1>1, PacketTaken DEF SessionInv, TypeInv
<1>3. PICK first, end : /\ Linked(first, end, channel, setup, level)
                        /\ Registered(first) /\ EndMatches(end)
                        /\ Dates(level) => NumbersMatch(first) /\ NumbersAgreed(end)
  BY DEF SessionInv, ChainInv
<1>4. PICK packet : packet = channel[1]
  OBVIOUS
<1>5. PICK next : next = After(first, packet)
  OBVIOUS
<1>6. Linked(next, end, channel', setup, level) /\ ViewOK(first, setup) /\ Fits(first, packet, setup, level)
  BY <1>1, <1>2, <1>3, <1>4, <1>5, LinkTaken
<1>7. \/ packet.kind = "subscribe" /\ SubscribeAck(packet.signal, "ok")
      \/ packet.kind = "unsubscribe" /\ UnsubscribeAck(packet.signal)
      \/ packet.kind = "signal" /\ SignalMeta(packet.signal, packet.params)
      \/ packet.kind = "data" /\ MeasuredData(packet.signal, packet.payload)
  BY <1>2, <1>4 DEF Receive
<1>8. ContainerTypeOK /\ setup \in Setups /\ Written(packet) /\ received' = packet
  BY <1>1, <1>2, <1>4 DEF SessionInv, TypeInv, StreamTypeOK
<1>9. Registered(next)' /\ (Dates(level) => NumbersMatch(next)') /\ Promised(level)'
  BY <1>1, <1>3, <1>5, <1>6, <1>7, <1>8, PacketRead
<1>10. EndMatches(end)' /\ (Dates(level) => NumbersAgreed(end)')
  BY <1>1, <1>3 DEF EndMatches, NumbersAgreed, RatesTold, IndexesTold, StartsTold, BlockDated,
                    producerVars, DataOf
<1>11. Sessions(level)'
  BY <1>1 DEF SessionInv, Sessions, producerVars, TimesOf
<1>12. Linked(next, end, channel, setup, level)'
  BY <1>1, <1>6
<1>13. ChainInv(level)'
  BY <1>9, <1>10, <1>12 DEF ChainInv
<1> QED BY <1>9, <1>11, <1>13

-----------------------------------------------------------------------------
(* The producer's steps. *)

\* Before the first call consumer and producer know nothing of each other.
LEMMA NothingPromised ==
    ASSUME NEW level, StreamInit
    PROVE  Sessions(level) /\ ChainInv(level) /\ Promised(level)
<1> DEFINE nothing == [known |-> {}, described |-> {}, index |-> <<>>, time |-> <<>>,
                       delta |-> <<>>]
<1>1. PICK v : v.known = {} /\ v.described = {}
  <2> WITNESS nothing
  <2> QED OBVIOUS
<1>2. channel = <<>> /\ Len(channel) = 0
  BY DEF StreamInit
<1>3. Linked(v, v, channel, setup, level)
  <2> DEFINE views == [i \in {1} |-> v]
  <2>1. views[1] = v
    OBVIOUS
  <2> HIDE DEF views
  <2>2. Chain(views, channel, setup, level)
    BY <1>1, <1>2, <2>1 DEF Chain, ViewOK
  <2> QED BY <1>2, <2>1, <2>2 DEF Linked
<1>4. Registered(v)
  BY <1>1 DEF StreamInit, ContainerInit, Registered, TablesMatch
<1>5. NumbersMatch(v)
  BY <1>1 DEF NumbersMatch
<1>6. EndMatches(v) /\ NumbersAgreed(v)
  BY <1>1 DEF StreamInit, EndMatches, NumbersAgreed, RatesTold, IndexesTold, StartsTold,
              BlockDated
<1>7. Sessions(level)
  BY DEF StreamInit, Sessions
<1>8. Promised(level)
  BY DEF StreamInit, Promised, EveryBlockDelivered, TimeStampsTrue, ConstantsDatable, DatedBlock,
         NoPacket
<1> QED BY <1>3, <1>4, <1>5, <1>6, <1>7, <1>8 DEF ChainInv

\* A step that writes nothing keeps the chain when its end still matches.
LEMMA ChainKept ==
    ASSUME NEW level, UNCHANGED <<setup, channel, consumerVars>>,
           NEW first, NEW end, Linked(first, end, channel, setup, level),
           Registered(first), Dates(level) => NumbersMatch(first),
           EndMatches(end)', Dates(level) => NumbersAgreed(end)'
    PROVE  ChainInv(level)'
<1>1. Linked(first, end, channel, setup, level)'
  OBVIOUS
<1>2. Registered(first)' /\ (Dates(level) => NumbersMatch(first)')
  BY DEF Registered, SignalMatches, TablesMatch, NumbersMatch, consumerVars, containerVars
<1> QED BY <1>1, <1>2 DEF ChainInv

\* A step that writes a packet that fits keeps it when the view behind the packet matches.
LEMMA ChainContinued ==
    ASSUME NEW level, ChannelOK, UNCHANGED <<setup, consumerVars>>,
           NEW first, NEW end, Linked(first, end, channel, setup, level),
           Registered(first), Dates(level) => NumbersMatch(first),
           NEW packet, Write(packet), Fits(end, packet, setup, level),
           NEW next, next = After(end, packet),
           EndMatches(next)', Dates(level) => NumbersAgreed(next)'
    PROVE  ChainInv(level)'
<1>1. Linked(first, next, Append(channel, packet), setup, level)
  BY LinkAdded DEF ChannelOK
<1>2. Linked(first, next, channel, setup, level)'
  BY <1>1 DEF Write
<1>3. Registered(first)' /\ (Dates(level) => NumbersMatch(first)')
  BY DEF Registered, SignalMatches, TablesMatch, NumbersMatch, consumerVars, containerVars
<1> QED BY <1>2, <1>3 DEF ChainInv

\* What a packet changes of the signals known and described.
LEMMA AfterKnown ==
    ASSUME NEW view, NEW packet, NEW next, next = After(view, packet)
    PROVE  /\ packet.kind = "subscribe" =>
                  next.known = view.known \cup {packet.signal} /\ next.described = view.described
           /\ packet.kind = "unsubscribe" =>
                  /\ next.known = view.known \ {packet.signal}
                  /\ next.described = view.described \ {packet.signal}
           /\ packet.kind = "signal" =>
                  next.known = view.known /\ next.described = view.described \cup {packet.signal}
           /\ packet.kind = "data" => next.known = view.known /\ next.described = view.described
BY DEF After

\* A producer in an orderly session that has a call under way in one thread has none in
\* the other.
LEMMA OneCall ==
    ASSUME NEW level, Delivers(level), Sessions(level), control # Idle
    PROVE  sender = Idle
BY DEF Sessions

\* BaseSignal::subscribe() writes the acknowledgement (BaseSignal.cpp:24-31).
LEMMA SubscribeWritten ==
    ASSUME NEW level, Attainable(level), TypeInv, Sessions(level), Quiet(level),
           NEW end, ViewOK(end, setup), EndMatches(end), Dates(level) => NumbersAgreed(end), NEW n \in SignalNumbers \ acked,
           Subscribe(n),
           NEW packet, packet = [kind |-> "subscribe", signal |-> n],
           NEW next, next = After(end, packet)
    PROVE  /\ Sessions(level)' /\ Fits(end, packet, setup, level) /\ EndMatches(next)'
           /\ Dates(level) => NumbersAgreed(next)'
<1>1. /\ control = Idle /\ n \in setup /\ n \notin acked /\ acked' = acked \cup {n}
      /\ control' = [step |-> "compose", signal |-> n] /\ setup' = setup /\ sender' = sender
  BY DEF Subscribe, ControlMayStart
<1>2. packet.kind = "subscribe" /\ packet.signal = n
  OBVIOUS
<1>3. next.known = end.known \cup {n} /\ next.described = end.described
  BY <1>2, AfterKnown
<1>4. control'.step = "compose" /\ control'.signal = n /\ control' # Idle
  BY <1>1 DEF Idle
<1>5. end.known = acked /\ end.described = acked
  BY <1>1 DEF EndMatches, ViewOK
<1>6. Fits(end, packet, setup, level)
  BY <1>1, <1>2, <1>5 DEF Fits
<1>7. EndMatches(next)'
  BY <1>1, <1>3, <1>4, <1>5 DEF EndMatches
<1>8. Delivers(level) => sender' = Idle
  BY <1>1 DEF Quiet
<1>9. Sessions(level)'
  BY <1>1, <1>8 DEF Sessions
<1>10. Dates(level) => NumbersAgreed(next)'
  <2> SUFFICES ASSUME Dates(level) PROVE NumbersAgreed(next)'
    OBVIOUS
  <2>1. sender' = Idle /\ sender = Idle
    BY <1>1, <1>8 DEF Delivers, Dates
  <2>2. /\ UNCHANGED <<valueIndex, rate, started, nextTime, setup>>
        /\ NumbersAgreed(end)
    BY DEF Subscribe
  <2>3. \A m \in acked : m \in SignalNumbers /\ m # n
    BY <1>1 DEF TypeInv, StreamTypeOK
  <2>4. \A m \in acked : /\ next.index[m] = end.index[m] /\ next.time[m] = end.time[m]
                         /\ next.delta[m] = end.delta[m]
    BY <1>2, <2>3, AfterNumbers
  <2>5. RatesTold(next)'
    BY <1>3, <1>4, <1>5, <2>2, <2>4 DEF NumbersAgreed, RatesTold
  <2>6. IndexesTold(next)'
    BY <1>3, <1>4, <1>5, <2>1, <2>2, <2>4 DEF NumbersAgreed, IndexesTold
  <2>7. StartsTold(next)'
    BY <1>1, <2>2, <2>4 DEF NumbersAgreed, StartsTold, DataOf
  <2> QED BY <2>1, <2>5, <2>6, <2>7 DEF NumbersAgreed, BlockDated
<1> QED BY <1>6, <1>7, <1>9, <1>10

\* writeSignalMetaInformation() begins, and composes from the members as they are
\* (BaseSignal.cpp:24-31).
LEMMA DescriptionComposed ==
    ASSUME NEW level, Attainable(level), TypeInv, Sessions(level),
           NEW end, ViewOK(end, setup), EndMatches(end), Dates(level) => NumbersAgreed(end),
           ComposeDescription \/ (Quiet(level) /\ \E n \in acked : DescribeAgain(n))
    PROVE  Sessions(level)' /\ EndMatches(end)' /\ (Dates(level) => NumbersAgreed(end)')
<1>1. CASE Quiet(level) /\ \E n \in acked : DescribeAgain(n)
  <2>1. PICK n \in acked : DescribeAgain(n)
    BY <1>1
  <2>2. /\ control = Idle /\ n \in acked /\ control' = [step |-> "compose", signal |-> n]
        /\ UNCHANGED <<valueIndex, rate, sender, acked, started, nextTime, setup>>
        /\ Delivers(level) => sender = Idle
    BY <1>1, <2>1 DEF DescribeAgain, ControlMayStart, Quiet
  <2>3. control'.step = "compose" /\ control'.signal = n /\ control' # Idle
    BY <2>2 DEF Idle
  <2>4. EndMatches(end)'
    BY <2>2, <2>3 DEF EndMatches
  <2>5. Sessions(level)'
    BY <2>2 DEF Sessions, TimesOf
  <2>6. Dates(level) => NumbersAgreed(end)'
    BY <2>2, <2>3 DEF NumbersAgreed, RatesTold, IndexesTold, StartsTold, BlockDated, DataOf
  <2> QED BY <2>4, <2>5, <2>6
<1>2. CASE ComposeDescription
  <2> DEFINE n == control.signal
             params == Description(n)
  <2>1. /\ control.step = "compose" /\ control # Idle
        /\ control' = [step |-> "write", signal |-> n, params |-> params]
        /\ UNCHANGED <<valueIndex, rate, sender, acked, started, nextTime, setup>>
    BY <1>2 DEF ComposeDescription, Idle
  <2>2. n \in acked /\ n \in SignalNumbers
    BY <2>1 DEF EndMatches, TypeInv, StreamTypeOK
  <2>3. n \in LinearTimes => params.definition.delta = rate[n]
    <3>1. Kind[n] = "LinearTimeSignal" => params = LinearTimeDescription(n)
      BY DEF Description
    <3> HIDE DEF n
    <3>2. LinearTimeDescription(n).definition.delta = rate[n]
      BY DEF LinearTimeDescription, Params
    <3> QED BY <3>1, <3>2 DEF LinearTimes
  <2>4. n \in Counted => params.valueIndex = valueIndex[n]
    <3>1. Kind[n] = "SynchronousSignal" => params = SynchronousDescription(n)
      BY DEF Description
    <3> HIDE DEF n
    <3>2. SynchronousDescription(n).valueIndex = valueIndex[n]
      BY DEF SynchronousDescription, Params
    <3> QED BY <3>1, <3>2 DEF Counted
  <2> HIDE DEF params
  <2>5. control'.step = "write" /\ control'.signal = n /\ control'.params = params /\ control' # Idle
    BY <2>1 DEF Idle
  <2> HIDE DEF n
  <2>6. EndMatches(end)'
    BY <2>1, <2>2, <2>5 DEF EndMatches, n
  <2>7. Sessions(level)'
    BY <2>1, OneCall DEF Sessions, TimesOf
  <2>8. Dates(level) => NumbersAgreed(end)'
    <3> SUFFICES ASSUME Dates(level) PROVE NumbersAgreed(end)'
      OBVIOUS
    <3>1. RatesTold(end)'
      BY <2>1, <2>3, <2>5 DEF NumbersAgreed, RatesTold
    <3>2. IndexesTold(end)'
      BY <2>1, <2>4, <2>5 DEF NumbersAgreed, IndexesTold
    <3>3. StartsTold(end)' /\ BlockDated(end)'
      BY <2>1 DEF NumbersAgreed, StartsTold, BlockDated, DataOf
    <3> QED BY <3>1, <3>2, <3>3 DEF NumbersAgreed
  <2> QED BY <2>6, <2>7, <2>8
<1> QED BY <1>1, <1>2

\* The description is written as it was composed (BaseSignal.cpp:24-31).
LEMMA DescriptionWritten ==
    ASSUME NEW level, Attainable(level), TypeInv, Sessions(level),
           NEW end, ViewOK(end, setup), EndMatches(end), Dates(level) => NumbersAgreed(end), WriteDescription,
           NEW packet,
           packet = [kind |-> "signal", signal |-> control.signal, params |-> control.params],
           NEW next, next = After(end, packet)
    PROVE  /\ Sessions(level)' /\ Fits(end, packet, setup, level) /\ EndMatches(next)'
           /\ Dates(level) => NumbersAgreed(next)'
<1> DEFINE n == control.signal
<1>1. /\ control.step = "write" /\ control # Idle /\ control' = Idle
      /\ UNCHANGED <<valueIndex, rate, sender, acked, started, nextTime, setup>>
  BY DEF WriteDescription, Idle
<1>2. n \in acked /\ n \in SignalNumbers /\ end.known = acked
  BY <1>1 DEF EndMatches, TypeInv, StreamTypeOK
<1>3. packet.kind = "signal" /\ packet.signal = n /\ packet.params = control.params
  OBVIOUS
<1>4. next.known = end.known /\ next.described = end.described \cup {n}
  BY <1>3, AfterKnown
<1>5. Fits(end, packet, setup, level)
  BY <1>2, <1>3 DEF Fits
<1>6. EndMatches(next)'
  BY <1>1, <1>2, <1>4 DEF EndMatches
<1>7. Sessions(level)'
  BY <1>1, OneCall DEF Sessions, TimesOf
<1>8. Dates(level) => NumbersAgreed(next)'
  <2> SUFFICES ASSUME Dates(level) PROVE NumbersAgreed(next)'
    OBVIOUS
  <2>1. sender = Idle
    BY <1>1, OneCall DEF Delivers, Dates
  <2>2. /\ next.index[n] = control.params.valueIndex
        /\ next.delta[n] = control.params.definition.delta
    BY <1>2, <1>3, AfterNumbers
  <2>3. \A m \in SignalNumbers :
            /\ next.time[m] = end.time[m]
            /\ m # n => next.index[m] = end.index[m] /\ next.delta[m] = end.delta[m]
    BY <1>2, <1>3, AfterNumbers
  <2>4. acked \subseteq SignalNumbers /\ LinearTimes \subseteq SignalNumbers
    BY DEF TypeInv, StreamTypeOK, LinearTimes, Times
  <2>5. control'.step # "write"
    BY <1>1 DEF Idle
  <2> HIDE DEF n
  <2>6. RatesTold(next)'
    BY <1>1, <1>4, <2>2, <2>3, <2>4, <2>5 DEF NumbersAgreed, RatesTold, n
  <2>7. IndexesTold(next)'
    BY <1>1, <1>4, <2>1, <2>2, <2>3, <2>4, <2>5 DEF NumbersAgreed, IndexesTold, n
  <2>8. StartsTold(next)'
    BY <1>1, <2>3, <2>4 DEF NumbersAgreed, StartsTold, DataOf
  <2>9. BlockDated(next)'
    BY <1>1, <2>1 DEF BlockDated
  <2> QED BY <2>6, <2>7, <2>8, <2>9 DEF NumbersAgreed
<1> QED BY <1>5, <1>6, <1>7, <1>8

\* BaseSignal::unsubscribe() (BaseSignal.cpp:33-38).
LEMMA UnsubscribeWritten ==
    ASSUME NEW level, Attainable(level), TypeInv, Sessions(level), Quiet(level),
           NEW end, ViewOK(end, setup), EndMatches(end), Dates(level) => NumbersAgreed(end), NEW n \in acked, Unsubscribe(n),
           NEW packet, packet = [kind |-> "unsubscribe", signal |-> n],
           NEW next, next = After(end, packet)
    PROVE  /\ Sessions(level)' /\ Fits(end, packet, setup, level) /\ EndMatches(next)'
           /\ Dates(level) => NumbersAgreed(next)'
<1>1. /\ control = Idle /\ n \in acked /\ acked' = acked \ {n} /\ started' = started \ {n}
      /\ UNCHANGED <<valueIndex, rate, control, sender, nextTime, setup>>
      /\ Delivers(level) => sender = Idle
  BY DEF Unsubscribe, ControlMayStart, Quiet
<1>2. packet.kind = "unsubscribe" /\ packet.signal = n
  OBVIOUS
<1>3. next.known = end.known \ {n} /\ next.described = end.described \ {n}
  BY <1>2, AfterKnown
<1>4. end.known = acked /\ end.described = acked
  BY <1>1 DEF EndMatches, ViewOK
<1>5. Fits(end, packet, setup, level)
  BY <1>1, <1>2, <1>4 DEF Fits
<1>6. EndMatches(next)'
  BY <1>1, <1>3, <1>4 DEF EndMatches
<1>7. Sessions(level)'
  BY <1>1 DEF Sessions, TimesOf
<1>8. Dates(level) => NumbersAgreed(next)'
  <2> SUFFICES ASSUME Dates(level) PROVE NumbersAgreed(next)'
    OBVIOUS
  <2>1. sender = Idle /\ sender' = Idle /\ NumbersAgreed(end)
    BY <1>1 DEF Delivers, Dates
  <2>2. \A m \in acked' : m \in SignalNumbers /\ m # n /\ m \in acked
    BY <1>1 DEF TypeInv, StreamTypeOK
  <2>3. \A m \in acked' : /\ next.index[m] = end.index[m] /\ next.time[m] = end.time[m]
                          /\ next.delta[m] = end.delta[m]
    BY <1>2, <2>2, AfterNumbers DEF TypeInv, StreamTypeOK
  <2>4. control'.step # "write"
    BY <1>1 DEF Idle
  <2>5. RatesTold(next)'
    BY <1>1, <1>3, <2>1, <2>2, <2>3, <2>4 DEF NumbersAgreed, RatesTold
  <2>6. IndexesTold(next)'
    BY <1>1, <1>3, <2>1, <2>2, <2>3, <2>4 DEF NumbersAgreed, IndexesTold
  <2>7. StartsTold(next)'
    BY <1>1, <2>1, <2>2, <2>3 DEF NumbersAgreed, StartsTold, DataOf
  <2> QED BY <2>1, <2>5, <2>6, <2>7 DEF NumbersAgreed, BlockDated
<1> QED BY <1>5, <1>6, <1>7, <1>8

\* LinearTimeSignal::setOutputRate() (LinearTimeSignal.cpp:28-36).
LEMMA RateSet ==
    ASSUME NEW level, Attainable(level), TypeInv, Sessions(level), Quiet(level),
           NEW end, ViewOK(end, setup), EndMatches(end), Dates(level) => NumbersAgreed(end),
           NEW t \in Times, NEW ticks \in Rates, SetOutputRate(t, ticks), Dates(level) => t \notin acked
    PROVE  Sessions(level)' /\ EndMatches(end)' /\ (Dates(level) => NumbersAgreed(end)')
<1>1. /\ rate' = [rate EXCEPT ![t] = ticks]
      /\ UNCHANGED <<valueIndex, control, sender, acked, started, nextTime, setup>>
  BY DEF SetOutputRate
<1>2. EndMatches(end)' /\ Sessions(level)'
  BY <1>1 DEF EndMatches, Sessions, TimesOf
<1>3. Dates(level) => NumbersAgreed(end)'
  <2> SUFFICES ASSUME Dates(level) PROVE NumbersAgreed(end)'
    OBVIOUS
  <2>1. t \notin acked /\ NumbersAgreed(end)
    OBVIOUS
  <2>2. \A u \in Times \cap acked : rate'[u] = rate[u]
    BY <1>1, <2>1 DEF TypeInv, StreamTypeOK
  <2>3. LinearTimes \subseteq Times
    BY DEF LinearTimes
  <2>4. RatesTold(end)'
    BY <1>1, <2>1, <2>2, <2>3 DEF NumbersAgreed, RatesTold
  <2>5. IndexesTold(end)' /\ BlockDated(end)'
    BY <1>1, <2>1 DEF NumbersAgreed, IndexesTold, BlockDated
  <2>6. StartsTold(end)'
    BY <1>1, <2>1, <2>2, <2>3 DEF NumbersAgreed, StartsTold, DataOf
  <2> QED BY <2>4, <2>5, <2>6 DEF NumbersAgreed
<1> QED BY <1>2, <1>3

\* Numbers that differ by a multiple of the modulus have the same remainder.
LEMMA SameRemainder ==
    ASSUME NEW w \in Nat \ {0}, NEW a \in Nat, NEW b \in Nat, NEW k \in Int, b = a + (w * k)
    PROVE  b % w = a % w
<1> DEFINE q == a \div w
           r == a % w
           p == b \div w
           o == b % w
<1>1. q \in Int /\ r \in 0 .. w - 1 /\ a = (w * q) + r
  OBVIOUS
<1>2. p \in Int /\ o \in 0 .. w - 1 /\ b = (w * p) + o
  OBVIOUS
<1> HIDE DEF q, r, p, o
<1> DEFINE d == (q + k) - p
<1>3. d \in Int /\ w * d = o - r
  BY <1>1, <1>2
<1> HIDE DEF d
<1>4. d = 0
  <2>1. CASE d >= 1
    <3>1. w * d >= w
      BY <1>3, <2>1
    <3> QED BY <1>1, <1>2, <1>3, <3>1
  <2>2. CASE d <= -1
    <3>1. w * d <= -w
      BY <1>3, <2>2
    <3> QED BY <1>1, <1>2, <1>3, <3>1
  <2> QED BY <1>3, <2>1, <2>2
<1>5. o = r
  BY <1>1, <1>2, <1>3, <1>4
<1> QED BY <1>5 DEF o, r

\* Time and index move on together: by count values, ticks apart.
MovesOn(time, index, count, ticks) ==
    (((time + (index * ticks)) % Wrap) + (count * ticks)) % Wrap
    = (time + (((index + count) % Wrap) * ticks)) % Wrap

\* Counting on from an index moves the time stamp on by as many ticks, also when the
\* index or the time wraps (SynchronousSignal.hpp:58-66, SubscribedSignal.cpp:54-60).
LEMMA TimeMovesOn ==
    ASSUME NEW time \in Nat, NEW index \in Nat, NEW count \in Nat, NEW ticks \in Nat
    PROVE  MovesOn(time, index, count, ticks)
<1> DEFINE x  == time + (index * ticks)
           q1 == x \div Wrap
           r1 == x % Wrap
           y  == index + count
           q2 == y \div Wrap
           r2 == y % Wrap
           ct == count * ticks
<1>0. Wrap \in Nat \ {0}
  BY WrapAssumption
<1>1. x \in Nat /\ y \in Nat /\ ct \in Nat
  OBVIOUS
<1>2. q1 \in Int /\ r1 \in Nat /\ x = (Wrap * q1) + r1
  <2> HIDE DEF x
  <2> QED BY <1>0, <1>1
<1>3. q2 \in Int /\ r2 \in Nat /\ y = (Wrap * q2) + r2
  <2> HIDE DEF y
  <2> QED BY <1>0, <1>1
<1> HIDE DEF q1, r1, q2, r2
<1>4. r2 * ticks = (y * ticks) - (Wrap * (q2 * ticks))
  <2>1. r2 = y - (Wrap * q2)
    BY <1>0, <1>1, <1>3
  <2>2. (y - (Wrap * q2)) * ticks = (y * ticks) - (Wrap * (q2 * ticks))
    BY <1>0, <1>1, <1>3
  <2> QED BY <2>1, <2>2
<1>5. y * ticks = (index * ticks) + ct
  OBVIOUS
<1> DEFINE a == time + (r2 * ticks)
           b == r1 + ct
           k == (q2 * ticks) - q1
<1>6. a \in Nat /\ b \in Nat /\ k \in Int
  BY <1>1, <1>2, <1>3
<1>7. b = a + (Wrap * k)
  <2>1. Wrap * k = (Wrap * (q2 * ticks)) - (Wrap * q1)
    BY <1>0, <1>2, <1>3
  <2>2. r1 = x - (Wrap * q1)
    BY <1>0, <1>1, <1>2
  <2> DEFINE u == Wrap * (q2 * ticks)
             v == Wrap * q1
             i == index * ticks
             z == r2 * ticks
  <2>3. u \in Int /\ v \in Int /\ i \in Int /\ z \in Int
    BY <1>0, <1>2, <1>3
  <2>4. z = (i + ct) - u /\ r1 = (time + i) - v /\ Wrap * k = u - v
    BY <1>4, <1>5, <2>1, <2>2
  <2> HIDE DEF u, v, i, ct, k
  <2>5. b = r1 + ct /\ a = time + z
    OBVIOUS
  <2> HIDE DEF z, a, b
  <2> QED BY <1>1, <1>2, <2>3, <2>4, <2>5
<1> HIDE DEF a, b, k
<1>8. b % Wrap = a % Wrap
  BY <1>0, <1>6, <1>7, SameRemainder
<1> QED BY <1>8 DEF a, b, ct, r1, r2, x, y, MovesOn

\* A block of values fits the end when its signal is subscribed and no description is
\* under way.
LEMMA BlockFits ==
    ASSUME NEW level, NEW end, EndMatches(end),
           NEW packet, packet.kind = "data", packet.signal \in Values,
           Delivers(level) => /\ packet.signal \in acked /\ control = Idle
                              /\ TimesOf(packet.signal) \subseteq acked,
           Dates(level) => \A t \in LinearTimes : TimeFor(t, packet.signal, setup) =>
                         packet.truth = Stamp(end, packet, t)
    PROVE  Fits(end, packet, setup, level)
<1>1. packet.signal \notin Times
  BY DEF Values
<1>2. ASSUME Delivers(level)
      PROVE  /\ packet.signal \in end.described
             /\ \A t \in Times : TimeFor(t, packet.signal, setup) => t \in end.described
  <2>1. acked \subseteq end.described
    BY <1>2 DEF EndMatches
  <2> QED BY <1>2, <2>1 DEF TimeFor, TimesOf
<1> QED BY <1>1, <1>2 DEF Fits

\* BaseDomainSignal::setTimeStart() (BaseDomainSignal.cpp:91-116).
LEMMA StartWritten ==
    ASSUME NEW level, Attainable(level), TypeInv, Sessions(level), Quiet(level),
           NEW end, ViewOK(end, setup), EndMatches(end), Dates(level) => NumbersAgreed(end),
           NEW t \in Times \cap acked, NEW ticks \in Word, MayStart(t, level), SetTimeStart(t, ticks),
           NEW packet,
           packet = [kind |-> "data", signal |-> t, truth |-> Unset,
                     payload |-> [len |-> 2 * IndexBytes, first |-> 0, second |-> ticks]],
           NEW next, next = After(end, packet)
    PROVE  /\ Sessions(level)' /\ Fits(end, packet, setup, level) /\ EndMatches(next)'
           /\ Dates(level) => NumbersAgreed(next)'
<1>1. /\ sender = Idle /\ t \in acked /\ started' = started \cup {t}
      /\ nextTime' = [n \in SignalNumbers |->
                         IF n \in DataOf(t) THEN MeantByStart(n, t, ticks) ELSE nextTime[n]]
      /\ UNCHANGED <<valueIndex, rate, control, sender, acked, setup>>
      /\ Delivers(level) => control = Idle
  BY DEF SetTimeStart, SenderMayStart, Quiet
<1>2. packet.kind = "data" /\ packet.signal = t /\ packet.payload.second = ticks
  OBVIOUS
<1>3. next.known = end.known /\ next.described = end.described
  BY <1>2, AfterKnown
<1>4. t \in SignalNumbers /\ t \notin Values /\ ticks \in Word
  BY DEF Times, Values
<1>5. Sessions(level)' /\ EndMatches(next)'
  BY <1>1, <1>3 DEF Sessions, EndMatches, TimesOf
<1>6. Fits(end, packet, setup, level)
  <2>1. ASSUME Dates(level)
        PROVE  t \in end.described /\ \E m \in end.described \cap Values : TableOf[m] = TableOf[t]
    <3>1. acked \subseteq end.described
      BY <1>1, <2>1 DEF EndMatches, Delivers, Dates
    <3>2. DataOf(t) \cap acked # {}
      BY <2>1 DEF MayStart
    <3> QED BY <1>1, <3>1, <3>2 DEF DataOf
  <2> QED BY <1>2, <1>4, <2>1 DEF Fits
<1>7. Dates(level) => NumbersAgreed(next)'
  <2> SUFFICES ASSUME Dates(level) PROVE NumbersAgreed(next)'
    OBVIOUS
  <2>1. /\ Tabled /\ control = Idle /\ NumbersAgreed(end)
        /\ Keeps("startOfIndexZero") \/ \A n \in DataOf(t) : valueIndex[n] = 0
    BY <1>1 DEF Attainable, Delivers, Dates, MayStart
  <2>2. next.time[t] = ticks /\ next.delta[t] = end.delta[t]
    BY <1>2, <1>4, AfterNumbers
  <2>3. \A m \in SignalNumbers : m # t =>
            /\ next.index[m] = end.index[m] /\ next.time[m] = end.time[m]
            /\ next.delta[m] = end.delta[m]
    BY <1>2, <1>4, AfterNumbers
  <2>4. LinearTimes \subseteq SignalNumbers /\ Counted \subseteq SignalNumbers \ {t}
    BY DEF LinearTimes, Times, Counted, Values
  <2>5. RatesTold(next)'
    BY <1>1, <1>3, <2>1, <2>2, <2>3, <2>4 DEF NumbersAgreed, RatesTold
  <2>6. IndexesTold(next)'
    BY <1>1, <1>3, <2>1, <2>3, <2>4 DEF NumbersAgreed, IndexesTold
  <2>7. ASSUME NEW u \in LinearTimes \cap started'
        PROVE  /\ next.time[u] \in Word
               /\ \A n \in DataOf(u)' :
                      nextTime'[n] = IF n \in Counted
                                     THEN (next.time[u] + valueIndex'[n] * rate'[u]) % Wrap
                                     ELSE next.time[u]
    <3>1. DataOf(u)' = DataOf(u) /\ DataOf(u) \subseteq SignalNumbers
      BY <1>1 DEF DataOf, Values
    <3>2. CASE u = t
      <4>1. rate[t] \in Nat
        BY DEF TypeInv, StreamTypeOK, Word
      <4>2. 0 * rate[t] = 0 /\ (ticks + 0) % Wrap = ticks
        BY <1>4, <4>1, WrapAssumption DEF Word
      <4>3. \A n \in DataOf(t) : nextTime'[n] = MeantByStart(n, t, ticks)
        BY <1>1, <3>1, <3>2
      <4>4. Kind[t] = "LinearTimeSignal"
        BY <3>2 DEF LinearTimes
      <4>5. ASSUME NEW n \in DataOf(t)
            PROVE  MeantByStart(n, t, ticks) = IF n \in Counted
                                               THEN (ticks + valueIndex[n] * rate[t]) % Wrap
                                               ELSE ticks
        <5>1. n \in Counted <=> Kind[n] = "SynchronousSignal"
          BY DEF DataOf, Counted
        <5>2. CASE Keeps("startOfIndexZero")
          BY <4>4, <5>1, <5>2 DEF MeantByStart
        <5>3. CASE ~Keeps("startOfIndexZero")
          <6>1. valueIndex[n] = 0 /\ MeantByStart(n, t, ticks) = ticks
            BY <2>1, <5>3 DEF MeantByStart
          <6>2. (ticks + valueIndex[n] * rate[t]) % Wrap = ticks
            BY <4>2, <6>1
          <6> QED BY <6>1, <6>2
        <5> QED BY <5>2, <5>3
      <4> QED BY <1>1, <1>4, <2>2, <3>1, <3>2, <4>3, <4>5
    <3>3. CASE u # t
      <4>1. u \in started /\ u \in acked /\ u \in setup /\ t \in setup /\ setup \in Setups
        BY <1>1, <2>1, <3>3 DEF NumbersAgreed, StartsTold, Sessions, TypeInv, StreamTypeOK
      <4>2. TableOf[t] # TableOf[u]
        BY <2>1, <3>3, <4>1, OneTimeSignal DEF LinearTimes
      <4>3. \A n \in DataOf(u) : n \notin DataOf(t)
        BY <4>2 DEF DataOf
      <4>4. \A n \in DataOf(u) : nextTime'[n] = nextTime[n]
        BY <1>1, <3>1, <4>3
      <4>5. next.time[u] = end.time[u]
        BY <2>3, <2>4, <3>3
      <4>6. /\ end.time[u] \in Word
            /\ \A n \in DataOf(u) :
                   nextTime[n] = IF n \in Counted
                                 THEN (end.time[u] + valueIndex[n] * rate[u]) % Wrap
                                 ELSE end.time[u]
        BY <2>1, <4>1 DEF NumbersAgreed, StartsTold
      <4> QED BY <1>1, <3>1, <4>4, <4>5, <4>6
    <3> QED BY <3>2, <3>3
  <2>8. started' \subseteq acked'
    BY <1>1, <2>1 DEF NumbersAgreed, StartsTold
  <2>9. StartsTold(next)'
    BY <2>7, <2>8 DEF StartsTold
  <2> QED BY <1>1, <2>5, <2>6, <2>9 DEF NumbersAgreed, BlockDated
<1> QED BY <1>5, <1>6, <1>7

\* The time stamp of the next value of a signal in a started table is the one the view at
\* the end gives it.
LEMMA NextStamp ==
    ASSUME TypeInv, acked \subseteq setup, NEW end, EndMatches(end), NumbersAgreed(end),
           control = Idle, sender = Idle, NEW n \in Values, n \in acked,
           TimesOf(n) \subseteq started, NEW t \in LinearTimes, TimeFor(t, n, setup)
    PROVE  /\ t \in started /\ n \in DataOf(t)
           /\ nextTime[n] = IF n \in Counted
                           THEN (end.time[t] + end.index[n] * end.delta[t]) % Wrap
                           ELSE end.time[t]
           /\ end.delta[t] = rate[t] /\ end.time[t] \in Word
<1>1. t \in started /\ n \in DataOf(t)
  BY DEF TimeFor, TimesOf, DataOf
<1>2. t \in acked /\ t \in end.described /\ n \in end.described
  BY <1>1 DEF NumbersAgreed, StartsTold, EndMatches
<1>3. end.delta[t] = rate[t]
  BY <1>2 DEF NumbersAgreed, RatesTold
<1>4. n \in Counted => valueIndex[n] = end.index[n]
  BY <1>2 DEF NumbersAgreed, IndexesTold
<1>5. /\ nextTime[n] = IF n \in Counted THEN (end.time[t] + valueIndex[n] * rate[t]) % Wrap
                       ELSE end.time[t]
      /\ end.time[t] \in Word
  BY <1>1 DEF NumbersAgreed, StartsTold
<1> QED BY <1>1, <1>3, <1>4, <1>5

\* The ticks between two values are those of the table's time signal.
LEMMA DeltaOfTable ==
    ASSUME Tabled, setup \in Setups, NEW n, NEW t \in Times \cap setup, TableOf[t] = TableOf[n]
    PROVE  Delta(n) = rate[t]
<1>1. t \in TimesOf(n)
  BY DEF TimesOf
<1>2. \A u \in TimesOf(n) : u = t
  BY OneTimeSignal DEF TimesOf
<1> QED BY <1>1, <1>2 DEF Delta

\* SynchronousSignal::addData() counts (SynchronousSignal.hpp:58-63).
LEMMA ValuesCounted ==
    ASSUME NEW level, Attainable(level), TypeInv, Sessions(level), Quiet(level),
           NEW end, ViewOK(end, setup), EndMatches(end), Dates(level) => NumbersAgreed(end),
           NEW n \in Values \cap acked, MayCarry(n, level), NEW count \in Nat, CountValues(n, count)
    PROVE  Sessions(level)' /\ EndMatches(end)' /\ (Dates(level) => NumbersAgreed(end)')
<1> DEFINE packet == Block(n, ValueBytes, count, 0, nextTime[n])
<1>1. /\ sender = Idle /\ n \in acked /\ sender' = [step |-> "write", packet |-> packet]
      /\ valueIndex' = [valueIndex EXCEPT ![n] = (@ + count) % Wrap]
      /\ nextTime' = [nextTime EXCEPT ![n] = Advance(@, count * Delta(n))]
      /\ UNCHANGED <<rate, control, acked, started, setup>>
      /\ Delivers(level) => control = Idle
  BY DEF CountValues, MayAdd, SenderMayStart, Quiet
<1>2. packet.signal = n /\ packet.count = count /\ packet.truth = nextTime[n]
  BY DEF Block
<1> HIDE DEF packet
<1>3. sender'.packet = packet /\ sender' # Idle
  BY <1>1 DEF Idle
<1>4. n \in SignalNumbers /\ n \in Counted /\ count \in Nat
  BY DEF CountValues, Counted, Values
<1>5. EndMatches(end)'
  BY <1>1 DEF EndMatches
<1>6. Sessions(level)'
  BY <1>1, <1>2, <1>3 DEF Sessions, TimesOf, MayCarry
<1>7. Dates(level) => NumbersAgreed(end)'
  <2> SUFFICES ASSUME Dates(level) PROVE NumbersAgreed(end)'
    OBVIOUS
  <2>1. control = Idle /\ NumbersAgreed(end) /\ n \in end.described
    BY <1>1 DEF Delivers, Dates, EndMatches
  <2>2. TimesOf(n) \subseteq started /\ Tabled /\ acked \subseteq setup
    BY DEF Attainable, Delivers, Dates, MayCarry, Sessions
  <2>3. valueIndex'[n] = (valueIndex[n] + count) % Wrap /\ valueIndex[n] \in Nat
        /\ \A m \in SignalNumbers : m # n => valueIndex'[m] = valueIndex[m]
    BY <1>1, <1>4 DEF TypeInv, StreamTypeOK, Word
  <2>4. RatesTold(end)'
    BY <1>1, <2>1 DEF NumbersAgreed, RatesTold
  <2>5. IndexesTold(end)'
    <3>1. valueIndex[n] = end.index[n]
      BY <1>1, <1>4, <2>1 DEF NumbersAgreed, IndexesTold
    <3>2. Counted \subseteq SignalNumbers /\ control'.step # "write"
      BY <1>1, <2>1 DEF Counted, Values, Idle
    <3> QED BY <1>1, <1>2, <1>3, <2>1, <2>3, <3>1, <3>2 DEF NumbersAgreed, IndexesTold
  <2>6. BlockDated(end)'
    <3>1. ASSUME NEW t \in LinearTimes, TimeFor(t, n, setup)
          PROVE  nextTime[n] = Stamp(end, packet, t)
      BY <1>1, <1>2, <1>4, <2>1, <2>2, <3>1, NextStamp DEF Stamp
    <3> QED BY <1>1, <1>2, <1>3, <1>4, <3>1 DEF BlockDated
  <2>7. StartsTold(end)'
    <3>1. ASSUME NEW t \in LinearTimes \cap started, NEW m \in DataOf(t)
          PROVE  nextTime'[m] = IF m \in Counted
                                THEN (end.time[t] + valueIndex'[m] * rate[t]) % Wrap
                                ELSE end.time[t]
      <4>1. /\ end.time[t] \in Word
            /\ nextTime[m] = IF m \in Counted
                             THEN (end.time[t] + valueIndex[m] * rate[t]) % Wrap
                             ELSE end.time[t]
        BY <2>1 DEF NumbersAgreed, StartsTold
      <4>2. m \in SignalNumbers
        BY DEF DataOf, Values
      <4>3. CASE m # n
        <5>1. nextTime'[m] = nextTime[m] /\ valueIndex'[m] = valueIndex[m]
          BY <1>1, <2>3, <4>2, <4>3 DEF TypeInv, StreamTypeOK
        <5> QED BY <4>1, <5>1
      <4>4. CASE m = n
        <5>1. /\ t \in Times /\ t \in setup /\ setup \in Setups /\ t \in TimesOf(n)
          BY <2>1, <4>4 DEF LinearTimes, NumbersAgreed, StartsTold, Sessions, TypeInv,
                            StreamTypeOK, DataOf, TimesOf
        <5>2. TableOf[t] = TableOf[n]
          BY <5>1 DEF TimesOf
        <5>3. Delta(n) = rate[t]
          BY <2>2, <5>1, <5>2, DeltaOfTable
        <5> DEFINE time == end.time[t]
                   index == valueIndex[n]
                   ticks == rate[t]
        <5>4. time \in Nat /\ index \in Nat /\ ticks \in Nat
          BY <2>3, <4>1, <5>1 DEF Word, TypeInv, StreamTypeOK
        <5>5. nextTime[n] = (time + index * ticks) % Wrap
          BY <1>4, <4>1, <4>4
        <5>6. nextTime[n] \in Nat
          BY <5>4, <5>5, WrapAssumption
        <5>7. nextTime'[n] = (nextTime[n] + count * ticks) % Wrap
          BY <1>1, <1>4, <5>3, <5>6, SentinelAssumption DEF Advance, Unset, TypeInv, StreamTypeOK
        <5>8. valueIndex'[n] = (index + count) % Wrap
          BY <2>3
        <5> HIDE DEF time, index, ticks
        <5>9. (((time + (index * ticks)) % Wrap) + (count * ticks)) % Wrap
              = (time + (((index + count) % Wrap) * ticks)) % Wrap
          <6>1. MovesOn(time, index, count, ticks)
            BY <1>4, <5>4, TimeMovesOn
          <6> QED BY ONLY <6>1 DEF MovesOn
        <5>10. nextTime'[n] = (time + valueIndex'[n] * ticks) % Wrap
          BY <5>5, <5>7, <5>8, <5>9
        <5> QED BY <1>4, <4>4, <5>10 DEF time, ticks
      <4> QED BY <4>3, <4>4
    <3>2. started' \subseteq acked' /\ \A t \in LinearTimes \cap started : end.time[t] \in Word
      BY <1>1, <2>1 DEF NumbersAgreed, StartsTold
    <3>3. \A t : DataOf(t)' = DataOf(t)
      BY <1>1 DEF DataOf
    <3> QED BY <1>1, <3>1, <3>2, <3>3 DEF StartsTold
  <2> QED BY <2>4, <2>5, <2>6, <2>7 DEF NumbersAgreed
<1> QED BY <1>5, <1>6, <1>7

\* The end behind a block of values: nothing but the index of its signal changes.
LEMMA AfterBlock ==
    ASSUME NEW view, NEW packet, packet.kind = "data", packet.signal \in Values,
           NEW next, next = After(view, packet)
    PROVE  /\ next.known = view.known /\ next.described = view.described
           /\ \A m \in SignalNumbers :
                  /\ next.time[m] = view.time[m] /\ next.delta[m] = view.delta[m]
                  /\ m # packet.signal \/ m \notin Counted => next.index[m] = view.index[m]
           /\ packet.signal \in Counted =>
                  next.index[packet.signal] = (view.index[packet.signal] + packet.count) % Wrap
BY DEF After, Values

\* SynchronousSignal::addData() writes what it counted (SynchronousSignal.hpp:63-65).
LEMMA ValuesWritten ==
    ASSUME NEW level, Attainable(level), TypeInv, Sessions(level),
           NEW end, ViewOK(end, setup), EndMatches(end), Dates(level) => NumbersAgreed(end), WriteValues,
           NEW packet, packet = sender.packet, NEW next, next = After(end, packet)
    PROVE  /\ Sessions(level)' /\ Fits(end, packet, setup, level) /\ EndMatches(next)'
           /\ Dates(level) => NumbersAgreed(next)'
<1>1. /\ sender.step = "write" /\ sender # Idle /\ sender' = Idle
      /\ UNCHANGED <<valueIndex, rate, control, acked, started, nextTime, setup>>
  BY DEF WriteValues, Idle
<1>2. packet.kind = "data" /\ packet.signal \in Values
  BY <1>1 DEF TypeInv, SenderOK, IsBlock
<1>3. next.known = end.known /\ next.described = end.described
  BY <1>2, AfterBlock
<1>4. Sessions(level)' /\ EndMatches(next)'
  BY <1>1, <1>3 DEF Sessions, EndMatches, TimesOf
<1>5. Delivers(level) => /\ packet.signal \in acked /\ control = Idle
                         /\ TimesOf(packet.signal) \subseteq acked
  BY <1>1 DEF Sessions
<1>6. Dates(level) => \A t \in LinearTimes : TimeFor(t, packet.signal, setup) =>
                    packet.truth = Stamp(end, packet, t)
  BY <1>1 DEF NumbersAgreed, BlockDated
<1>7. Fits(end, packet, setup, level)
  BY <1>2, <1>5, <1>6, BlockFits
<1>8. Dates(level) => NumbersAgreed(next)'
  <2> SUFFICES ASSUME Dates(level) PROVE NumbersAgreed(next)'
    OBVIOUS
  <2>1. packet.signal \in Counted /\ NumbersAgreed(end)
    BY <1>1 DEF NumbersAgreed, BlockDated
  <2>2. /\ \A m \in SignalNumbers :
               /\ next.time[m] = end.time[m] /\ next.delta[m] = end.delta[m]
               /\ m # packet.signal => next.index[m] = end.index[m]
        /\ next.index[packet.signal] = (end.index[packet.signal] + packet.count) % Wrap
    BY <1>2, <2>1, AfterBlock
  <2>3. LinearTimes \subseteq SignalNumbers /\ Counted \subseteq SignalNumbers
    BY DEF LinearTimes, Times, Counted, Values
  <2>4. RatesTold(next)'
    BY <1>1, <1>3, <2>1, <2>2, <2>3 DEF NumbersAgreed, RatesTold
  <2>5. IndexesTold(next)'
    BY <1>1, <1>3, <2>1, <2>2, <2>3 DEF NumbersAgreed, IndexesTold
  <2>6. StartsTold(next)'
    BY <1>1, <2>1, <2>2, <2>3 DEF NumbersAgreed, StartsTold, DataOf
  <2>7. BlockDated(next)'
    BY <1>1 DEF BlockDated
  <2> QED BY <2>4, <2>5, <2>6, <2>7 DEF NumbersAgreed
<1> QED BY <1>4, <1>7, <1>8

\* AsynchronousSignal::addData() and ConstantSignal::addData() write at once
\* (AsynchronousSignal.hpp:56-77, ConstantSignal.hpp).
LEMMA UncountedWritten ==
    ASSUME NEW level, Attainable(level), TypeInv, Sessions(level), Quiet(level),
           NEW end, ViewOK(end, setup), EndMatches(end), Dates(level) => NumbersAgreed(end), NEW n \in Values \cap acked,
           n \notin Counted, MayAdd(n), MayCarry(n, level),
           UNCHANGED producerVars, NEW packet, packet.kind = "data", packet.signal = n,
           \/ Kind[n] = "AsynchronousSignal"
           \/ /\ packet.payload.first \in Nat
              /\ packet.truth = Advance(nextTime[n], packet.payload.first * Delta(n)),
           NEW next, next = After(end, packet)
    PROVE  /\ Sessions(level)' /\ Fits(end, packet, setup, level) /\ EndMatches(next)'
           /\ Dates(level) => NumbersAgreed(next)'
<1>1. /\ sender = Idle /\ n \in acked
      /\ UNCHANGED <<valueIndex, rate, control, sender, acked, started, nextTime, setup>>
      /\ Delivers(level) => control = Idle
  BY DEF MayAdd, SenderMayStart, Quiet, producerVars
<1>2. /\ next.known = end.known /\ next.described = end.described
      /\ \A m \in SignalNumbers :
             /\ next.time[m] = end.time[m] /\ next.delta[m] = end.delta[m]
             /\ next.index[m] = end.index[m]
  BY AfterBlock
<1>3. Sessions(level)' /\ EndMatches(next)'
  BY <1>1, <1>2 DEF Sessions, EndMatches, TimesOf
<1>4. ASSUME Dates(level), NEW t \in LinearTimes, TimeFor(t, n, setup)
      PROVE  packet.truth = Stamp(end, packet, t)
  <2>1. Kind[n] # "AsynchronousSignal"
    <3>1. t \in Times \cap setup /\ TableOf[t] = TableOf[n] /\ setup \in Setups
      BY <1>4 DEF TimeFor, TypeInv, StreamTypeOK
    <3>2. n \in Values \cap setup
      BY <1>1 DEF Sessions
    <3>3. Kind[t] # "ExplicitTimeSignal"
      BY DEF LinearTimes
    <3> QED BY <1>4, <3>1, <3>2, <3>3 DEF Attainable, Paired
  <2>2. TimesOf(n) \subseteq started /\ control = Idle
    BY <1>1, <1>4 DEF Delivers, Dates, MayCarry
  <2>3. nextTime[n] = end.time[t] /\ end.delta[t] = rate[t] /\ end.time[t] \in Word
    BY <1>1, <1>4, <2>2, NextStamp DEF Sessions
  <2>4. Delta(n) = rate[t]
    BY <1>4, DeltaOfTable DEF Attainable, Paired, TimeFor, TypeInv, StreamTypeOK
  <2>5. nextTime[n] # Unset
    BY <2>3, SentinelAssumption DEF Unset, Word
  <2> QED BY <2>1, <2>3, <2>4, <2>5 DEF Stamp, Advance
<1>5. Fits(end, packet, setup, level)
  BY <1>1, <1>4, BlockFits DEF MayCarry
<1>6. Dates(level) => NumbersAgreed(next)'
  <2>1. LinearTimes \subseteq SignalNumbers /\ Counted \subseteq SignalNumbers
    BY DEF LinearTimes, Times, Counted, Values
  <2> QED BY <1>1, <1>2, <2>1
          DEF NumbersAgreed, RatesTold, IndexesTold, StartsTold, BlockDated, DataOf
<1> QED BY <1>3, <1>5, <1>6

\* A step of the producer that the session can take keeps the invariant.
LEMMA ProperStepKeeps ==
    ASSUME NEW level, Attainable(level), SessionInv(level), ProperStep(level)
    PROVE  SessionInv(level)' /\ UNCHANGED <<setup, consumerVars>>
<1>1. TypeInv /\ Sessions(level) /\ ChannelOK
  BY DEF SessionInv, TypeInv
<1>2. PICK first, end : /\ Linked(first, end, channel, setup, level)
                        /\ Registered(first) /\ EndMatches(end)
                        /\ Dates(level) => NumbersMatch(first) /\ NumbersAgreed(end)
  BY DEF SessionInv, ChainInv
<1>3. ViewOK(end, setup)
  BY <1>1, <1>2, LinkedEnd DEF ChannelOK
<1>4. ASSUME Sessions(level)', UNCHANGED <<setup, channel, consumerVars>>, EndMatches(end)',
             Dates(level) => NumbersAgreed(end)'
      PROVE  Sessions(level)' /\ ChainInv(level)' /\ UNCHANGED <<setup, consumerVars>>
  BY <1>2, <1>4, ChainKept
<1>5. ASSUME Sessions(level)', UNCHANGED <<setup, consumerVars>>, NEW packet, Write(packet),
             Fits(end, packet, setup, level), NEW next, next = After(end, packet), EndMatches(next)',
             Dates(level) => NumbersAgreed(next)'
      PROVE  Sessions(level)' /\ ChainInv(level)' /\ UNCHANGED <<setup, consumerVars>>
  BY <1>1, <1>2, <1>5, ChainContinued
<1>6. ASSUME ComposeDescription \/ (Quiet(level) /\ \E n \in acked : DescribeAgain(n))
      PROVE  Sessions(level)' /\ ChainInv(level)' /\ UNCHANGED <<setup, consumerVars>>
  <2>1. UNCHANGED <<setup, channel, consumerVars>>
    BY <1>6 DEF ComposeDescription, DescribeAgain
  <2>2. Sessions(level)' /\ EndMatches(end)' /\ (Dates(level) => NumbersAgreed(end)')
    BY <1>1, <1>2, <1>3, <1>6, DescriptionComposed
  <2> QED BY <1>4, <2>1, <2>2
<1>7. ASSUME Quiet(level), NEW t \in Times, NEW ticks \in Rates, SetOutputRate(t, ticks),
             Dates(level) => t \notin acked
      PROVE  Sessions(level)' /\ ChainInv(level)' /\ UNCHANGED <<setup, consumerVars>>
  <2>1. UNCHANGED <<setup, channel, consumerVars>>
    BY <1>7 DEF SetOutputRate
  <2>2. Sessions(level)' /\ EndMatches(end)' /\ (Dates(level) => NumbersAgreed(end)')
    BY <1>1, <1>2, <1>3, <1>7, RateSet
  <2> QED BY <1>4, <2>1, <2>2
<1>8. ASSUME Quiet(level), NEW n \in Values \cap acked, MayCarry(n, level),
             NEW count \in Nat, CountValues(n, count)
      PROVE  Sessions(level)' /\ ChainInv(level)' /\ UNCHANGED <<setup, consumerVars>>
  <2>1. UNCHANGED <<setup, channel, consumerVars>>
    BY <1>8 DEF CountValues
  <2>2. Sessions(level)' /\ EndMatches(end)' /\ (Dates(level) => NumbersAgreed(end)')
    BY <1>1, <1>2, <1>3, <1>8, ValuesCounted
  <2> QED BY <1>4, <2>1, <2>2
<1>9. ASSUME Quiet(level), NEW n \in SignalNumbers \ acked, Subscribe(n)
      PROVE  Sessions(level)' /\ ChainInv(level)' /\ UNCHANGED <<setup, consumerVars>>
  <2>1. PICK packet : packet = [kind |-> "subscribe", signal |-> n]
    OBVIOUS
  <2>2. PICK next : next = After(end, packet)
    OBVIOUS
  <2>3. Write(packet) /\ UNCHANGED <<setup, consumerVars>>
    BY <1>9, <2>1 DEF Subscribe
  <2>4. /\ Sessions(level)' /\ Fits(end, packet, setup, level) /\ EndMatches(next)'
        /\ Dates(level) => NumbersAgreed(next)'
    BY <1>1, <1>2, <1>3, <1>9, <2>1, <2>2, SubscribeWritten
  <2> QED BY <1>5, <2>2, <2>3, <2>4
<1>10. ASSUME Quiet(level), NEW n \in acked, Unsubscribe(n)
       PROVE  Sessions(level)' /\ ChainInv(level)' /\ UNCHANGED <<setup, consumerVars>>
  <2>1. PICK packet : packet = [kind |-> "unsubscribe", signal |-> n]
    OBVIOUS
  <2>2. PICK next : next = After(end, packet)
    OBVIOUS
  <2>3. Write(packet) /\ UNCHANGED <<setup, consumerVars>>
    BY <1>10, <2>1 DEF Unsubscribe
  <2>4. /\ Sessions(level)' /\ Fits(end, packet, setup, level) /\ EndMatches(next)'
        /\ Dates(level) => NumbersAgreed(next)'
    BY <1>1, <1>2, <1>3, <1>10, <2>1, <2>2, UnsubscribeWritten
  <2> QED BY <1>5, <2>2, <2>3, <2>4
<1>11. ASSUME WriteDescription
       PROVE  Sessions(level)' /\ ChainInv(level)' /\ UNCHANGED <<setup, consumerVars>>
  <2>1. PICK packet :
            packet = [kind |-> "signal", signal |-> control.signal, params |-> control.params]
    OBVIOUS
  <2>2. PICK next : next = After(end, packet)
    OBVIOUS
  <2>3. Write(packet) /\ UNCHANGED <<setup, consumerVars>>
    BY <1>11, <2>1 DEF WriteDescription
  <2>4. /\ Sessions(level)' /\ Fits(end, packet, setup, level) /\ EndMatches(next)'
        /\ Dates(level) => NumbersAgreed(next)'
    BY <1>1, <1>2, <1>3, <1>11, <2>1, <2>2, DescriptionWritten
  <2> QED BY <1>5, <2>2, <2>3, <2>4
<1>12. ASSUME Quiet(level), NEW t \in Times \cap acked, NEW ticks \in Word,
              MayStart(t, level), SetTimeStart(t, ticks)
       PROVE  Sessions(level)' /\ ChainInv(level)' /\ UNCHANGED <<setup, consumerVars>>
  <2>1. PICK packet :
            packet = [kind |-> "data", signal |-> t, truth |-> Unset,
                      payload |-> [len |-> 2 * IndexBytes, first |-> 0, second |-> ticks]]
    OBVIOUS
  <2>2. PICK next : next = After(end, packet)
    OBVIOUS
  <2>3. Write(packet) /\ UNCHANGED <<setup, consumerVars>>
    BY <1>12, <2>1 DEF SetTimeStart
  <2>4. /\ Sessions(level)' /\ Fits(end, packet, setup, level) /\ EndMatches(next)'
        /\ Dates(level) => NumbersAgreed(next)'
    BY <1>1, <1>2, <1>3, <1>12, <2>1, <2>2, StartWritten
  <2> QED BY <1>5, <2>2, <2>3, <2>4
<1>13. ASSUME WriteValues
       PROVE  Sessions(level)' /\ ChainInv(level)' /\ UNCHANGED <<setup, consumerVars>>
  <2>1. PICK packet : packet = sender.packet
    OBVIOUS
  <2>2. PICK next : next = After(end, packet)
    OBVIOUS
  <2>3. Write(packet) /\ UNCHANGED <<setup, consumerVars>>
    BY <1>13, <2>1 DEF WriteValues
  <2>4. /\ Sessions(level)' /\ Fits(end, packet, setup, level) /\ EndMatches(next)'
        /\ Dates(level) => NumbersAgreed(next)'
    BY <1>1, <1>2, <1>3, <1>13, <2>1, <2>2, ValuesWritten
  <2> QED BY <1>5, <2>2, <2>3, <2>4
<1>14. ASSUME Quiet(level), NEW n \in Values \cap acked, MayCarry(n, level), NEW ticks,
              AddTuple(n, ticks)
       PROVE  Sessions(level)' /\ ChainInv(level)' /\ UNCHANGED <<setup, consumerVars>>
  <2>1. PICK packet : packet = Block(n, ValueBytes, 1, 0, ticks)
    OBVIOUS
  <2>2. PICK next : next = After(end, packet)
    OBVIOUS
  <2>3. Write(packet) /\ UNCHANGED <<setup, consumerVars>> /\ UNCHANGED producerVars
    BY <1>14, <2>1 DEF AddTuple, producerVars
  <2>4. /\ packet.kind = "data" /\ packet.signal = n /\ n \notin Counted
        /\ Kind[n] = "AsynchronousSignal" /\ MayAdd(n)
    BY <1>14, <2>1 DEF AddTuple, Block, Counted
  <2>5. /\ Sessions(level)' /\ Fits(end, packet, setup, level) /\ EndMatches(next)'
        /\ Dates(level) => NumbersAgreed(next)'
    BY <1>1, <1>2, <1>3, <1>14, <2>2, <2>3, <2>4, UncountedWritten
  <2> QED BY <1>5, <2>2, <2>3, <2>5
<1>15. ASSUME Quiet(level), NEW n \in Values \cap acked, MayCarry(n, level),
              NEW index \in Word, NEW count \in Nat, AddConstant(n, index, count)
       PROVE  Sessions(level)' /\ ChainInv(level)' /\ UNCHANGED <<setup, consumerVars>>
  <2>1. PICK packet : packet = Block(n, IndexBytes + ValueBytes, count, index,
                                     Advance(nextTime[n], index * Delta(n)))
    OBVIOUS
  <2>2. PICK next : next = After(end, packet)
    OBVIOUS
  <2>3. Write(packet) /\ UNCHANGED <<setup, consumerVars>> /\ UNCHANGED producerVars
    BY <1>15, <2>1 DEF AddConstant, producerVars
  <2>4. /\ packet.kind = "data" /\ packet.signal = n /\ n \notin Counted
        /\ packet.payload.first = index /\ index \in Nat
        /\ packet.truth = Advance(nextTime[n], packet.payload.first * Delta(n)) /\ MayAdd(n)
    BY <1>15, <2>1 DEF AddConstant, Block, Counted, Word
  <2>5. /\ Sessions(level)' /\ Fits(end, packet, setup, level) /\ EndMatches(next)'
        /\ Dates(level) => NumbersAgreed(next)'
    BY <1>1, <1>2, <1>3, <1>15, <2>2, <2>3, <2>4, UncountedWritten
  <2> QED BY <1>5, <2>2, <2>3, <2>5
<1>16. Sessions(level)' /\ ChainInv(level)' /\ UNCHANGED <<setup, consumerVars>>
  <2>1. CASE Quiet(level) /\ ProperCall(level)
    BY <1>6, <1>7, <1>8, <1>9, <1>10, <1>12, <1>14, <1>15, <2>1 DEF ProperCall
  <2> QED BY <1>6, <1>11, <1>13, <2>1 DEF ProperStep
<1>17. TypeInv'
  BY <1>1, ControlStepTypes, SenderStepTypes DEF ProperStep, ProperCall, TypeInv, StreamTypeOK
<1> QED BY <1>16, <1>17 DEF SessionInv

\* Nothing but time passes.
LEMMA SessionStutters ==
    ASSUME NEW level, SessionInv(level), UNCHANGED streamVars
    PROVE  SessionInv(level)'
<1>1. UNCHANGED <<setup, channel, consumerVars>> /\ UNCHANGED producerVars
  BY DEF streamVars, producerVars
<1>2. TypeInv'
  BY StreamStepTypes DEF SessionInv
<1>3. Sessions(level)'
  BY <1>1 DEF SessionInv, Sessions, TimesOf, producerVars
<1>4. PICK first, end : /\ Linked(first, end, channel, setup, level)
                        /\ Registered(first) /\ EndMatches(end)
                        /\ Dates(level) => NumbersMatch(first) /\ NumbersAgreed(end)
  BY DEF SessionInv, ChainInv
<1>5. EndMatches(end)' /\ (Dates(level) => NumbersAgreed(end)')
  BY <1>1, <1>4 DEF EndMatches, NumbersAgreed, RatesTold, IndexesTold, StartsTold,
                    BlockDated, producerVars, DataOf
<1>6. ChainInv(level)'
  BY <1>1, <1>4, <1>5, ChainKept
<1> QED BY <1>2, <1>3, <1>6 DEF SessionInv

\* What was delivered and dated last stays as it is until the next packet is read.
LEMMA PromisesStay ==
    ASSUME NEW level, Promised(level), UNCHANGED <<setup, consumerVars>>
    PROVE  Promised(level)'
BY DEF Promised, EveryBlockDelivered, TimeStampsTrue, ConstantsDatable, DatedBlock, TimesOf,
       consumerVars, containerVars

-----------------------------------------------------------------------------
(* An application that keeps its rules. *)

\* A time signal is subscribed while its data signals are.
TimesAround == Orderly => \A n \in acked \cap Values : TimesOf(n) \subseteq acked

StreamInv == SessionInv(Level) /\ TimesAround

LEMMA LevelAttained ==
    /\ Attainable(Level)
    /\ Delivers(Level) <=> Orderly
    /\ Dates(Level) <=> Timely
BY DEF Level, Attainable, Delivers, Dates, Timely, Orderly

\* Every call of an application that subscribes a signal once comes when the session can
\* take it, at the level its other rules reach.
LEMMA RulesAreProper ==
    ASSUME Once, StreamInv, StreamNext, ~Receive
    PROVE  ProperStep(Level)
<1>1. Attainable(Level) /\ (Delivers(Level) <=> Orderly) /\ (Dates(Level) <=> Timely)
  BY LevelAttained
<1>2. acked \subseteq SignalNumbers
  BY DEF StreamInv, SessionInv, TypeInv, StreamTypeOK
<1>3. ControlMayStart \/ SenderMayStart => Quiet(Level)
  BY <1>1 DEF ControlMayStart, SenderMayStart, Orderly, Quiet
<1>4. ASSUME NEW n \in SignalNumbers, Subscribe(n) \/ DescribeAgain(n) \/ Unsubscribe(n)
      PROVE  ProperStep(Level)
  <2>1. ControlMayStart /\ (Subscribe(n) => n \notin acked)
        /\ (DescribeAgain(n) \/ Unsubscribe(n) => n \in acked)
    BY <1>4 DEF Subscribe, DescribeAgain, Unsubscribe, Once
  <2> QED BY <1>3, <1>4, <2>1 DEF ProperStep, ProperCall
<1>5. ASSUME NEW t \in Times, NEW ticks \in Rates, SetOutputRate(t, ticks)
      PROVE  ProperStep(Level)
  <2>1. ControlMayStart /\ (Dates(Level) => t \notin acked)
    BY <1>1, <1>5 DEF SetOutputRate, Timely
  <2> QED BY <1>3, <1>5, <2>1 DEF ProperStep, ProperCall
<1>6. ASSUME NEW t \in Times, NEW ticks \in Starts, SetTimeStart(t, ticks)
      PROVE  ProperStep(Level)
  <2>1. SenderMayStart /\ t \in acked /\ MayStart(t, Level) /\ ticks \in Word
    BY <1>1, <1>6, StreamingAssumption DEF SetTimeStart, Timely, Once, MayStart
  <2> QED BY <1>3, <1>6, <2>1 DEF ProperStep, ProperCall
<1>7. ASSUME NEW n \in Values, MayAdd(n)
      PROVE  n \in acked /\ MayCarry(n, Level) /\ Quiet(Level)
  BY <1>1, <1>3, <1>7 DEF MayAdd, Once, Timely, MayCarry, StreamInv, TimesAround
<1>8. ASSUME NEW n \in Values, NEW count \in Counts, CountValues(n, count)
      PROVE  ProperStep(Level)
  <2>1. MayAdd(n) /\ count \in Nat
    BY <1>8, StreamingAssumption DEF CountValues
  <2> QED BY <1>7, <1>8, <2>1 DEF ProperStep, ProperCall
<1>9. ASSUME NEW n \in Values, NEW ticks \in Starts, AddTuple(n, ticks)
      PROVE  ProperStep(Level)
  <2>1. MayAdd(n)
    BY <1>9 DEF AddTuple
  <2> QED BY <1>7, <1>9, <2>1 DEF ProperStep, ProperCall
<1>10. ASSUME NEW n \in Values, NEW index \in Indexes, NEW count \in Counts,
              AddConstant(n, index, count)
       PROVE  ProperStep(Level)
  <2>1. MayAdd(n) /\ index \in Word /\ count \in Nat
    BY <1>10, StreamingAssumption DEF AddConstant
  <2> QED BY <1>7, <1>10, <2>1 DEF ProperStep, ProperCall
<1>11. CASE ComposeDescription \/ WriteDescription \/ WriteValues
  BY <1>11 DEF ProperStep
<1> QED BY <1>4, <1>5, <1>6, <1>8, <1>9, <1>10, <1>11 DEF StreamNext

\* Only subscribe() and unsubscribe() change what is acknowledged, and in an orderly
\* session they come in the right order.
LEMMA TimesStayAround ==
    ASSUME StreamInv, [StreamNext]_streamVars
    PROVE  TimesAround'
<1> SUFFICES ASSUME Orderly, NEW m \in acked' \cap Values PROVE TimesOf(m)' \subseteq acked'
  BY DEF TimesAround
<1>1. setup' = setup /\ TimesOf(m)' = TimesOf(m)
  BY DEF StreamNext, Subscribe, DescribeAgain, Unsubscribe, SetOutputRate, ComposeDescription,
         WriteDescription, SetTimeStart, CountValues, WriteValues, AddTuple, AddConstant,
         Receive, streamVars, producerVars, TimesOf
<1>2. acked \subseteq setup /\ \A n \in acked \cap Values : TimesOf(n) \subseteq acked
  BY DEF StreamInv, SessionInv, Sessions, TimesAround
<1>3. ASSUME NEW n \in SignalNumbers, Subscribe(n) PROVE TimesOf(m)' \subseteq acked'
  BY <1>1, <1>2, <1>3 DEF Subscribe, Orderly
<1>4. ASSUME NEW n \in SignalNumbers, Unsubscribe(n) PROVE TimesOf(m)' \subseteq acked'
  <2>1. /\ acked' = acked \ {n} /\ (n \in Times => DataOf(n) \cap acked = {})
    BY <1>4 DEF Unsubscribe, Orderly
  <2>2. n \notin TimesOf(m)
    BY <1>2, <2>1 DEF TimesOf, DataOf
  <2> QED BY <1>1, <1>2, <2>1, <2>2
<1>5. CASE UNCHANGED acked
  BY <1>1, <1>2, <1>5
<1>6. \/ UNCHANGED acked
      \/ \E n \in SignalNumbers : Subscribe(n) \/ Unsubscribe(n)
  BY DEF StreamNext, DescribeAgain, SetOutputRate, ComposeDescription,
         WriteDescription, SetTimeStart, CountValues, WriteValues, AddTuple, AddConstant,
         Receive, streamVars, producerVars
<1> QED BY <1>3, <1>4, <1>5, <1>6

\* The invariant and the promises hold at first and are kept by every step of an
\* application that subscribes a signal once.
LEMMA StreamSafe ==
    ASSUME Once
    PROVE  /\ StreamInit => StreamInv /\ Promised(Level)
           /\ StreamInv /\ Promised(Level) /\ [StreamNext]_streamVars
              => (StreamInv /\ Promised(Level))'
<1>1. PICK level : level = Level
  OBVIOUS
<1>2. Attainable(level)
  BY <1>1, LevelAttained
<1>3. StreamInit => SessionInv(level) /\ Promised(level) /\ TimesAround
  <2>1. StreamInit => TimesAround
    BY DEF StreamInit, TimesAround
  <2> QED BY <2>1, StreamInitial, NothingPromised DEF SessionInv
<1>4. ASSUME SessionInv(level), TimesAround, Promised(level), [StreamNext]_streamVars
      PROVE  (SessionInv(level) /\ TimesAround /\ Promised(level))'
  <2>1. TypeInv' /\ TimesAround'
    BY <1>1, <1>4, StreamStepTypes, TimesStayAround DEF SessionInv, StreamInv
  <2>2. CASE Receive
    BY <1>2, <1>4, <2>1, <2>2, ReceiveKeeps DEF SessionInv
  <2>3. CASE StreamNext /\ ~Receive
    <3>1. ProperStep(level)
      BY <1>1, <1>4, <2>3, RulesAreProper DEF StreamInv
    <3> QED BY <1>2, <1>4, <2>1, <3>1, ProperStepKeeps, PromisesStay
  <2>4. CASE UNCHANGED streamVars
    <3>1. UNCHANGED <<setup, consumerVars>>
      BY <2>4 DEF streamVars, producerVars
    <3> QED BY <1>4, <2>1, <2>4, <3>1, SessionStutters, PromisesStay
  <2> QED BY <1>4, <2>2, <2>3, <2>4
<1> QED BY <1>1, <1>3, <1>4 DEF StreamInv

\* In an orderly session no block of values is dropped, split or counted wrongly on its
\* way to the data callbacks, whatever the signals, the rates and the stream's capacity.
THEOREM BlocksDelivered ==
    ASSUME Orderly
    PROVE  StreamSpec => []EveryBlockDelivered
<1>1. Once
  BY DEF Orderly, Once
<1>2. /\ StreamInit => StreamInv /\ Promised(Level)
      /\ StreamInv /\ Promised(Level) /\ [StreamNext]_streamVars
         => (StreamInv /\ Promised(Level))'
  BY <1>1, StreamSafe
<1>3. Promised(Level) => EveryBlockDelivered
  BY LevelAttained DEF Promised
<1> QED BY <1>2, <1>3, PTL DEF StreamSpec

\* In a timely session the time stamp of every block of a synchronous signal with linear
\* time is the one the application gave its first value: whatever index the signal begins
\* with, when the table is given a new start in between, and also when index or time wraps.
THEOREM StampsTrue ==
    ASSUME Timely
    PROVE  StreamSpec => []TimeStampsTrue
<1>1. Once
  BY DEF Timely, Orderly, Once
<1>2. /\ StreamInit => StreamInv /\ Promised(Level)
      /\ StreamInv /\ Promised(Level) /\ [StreamNext]_streamVars
         => (StreamInv /\ Promised(Level))'
  BY <1>1, StreamSafe
<1>3. Promised(Level) => TimeStampsTrue
  BY LevelAttained DEF Promised
<1> QED BY <1>2, <1>3, PTL DEF StreamSpec

\* In a timely session the time of a constant value follows from what the data callback is
\* given: the time stamp, the index in front of the value and linearDelta() of the signal.
THEOREM ConstantsAreDatable ==
    ASSUME Timely
    PROVE  StreamSpec => []ConstantsDatable
<1>1. Once
  BY DEF Timely, Orderly, Once
<1>2. /\ StreamInit => StreamInv /\ Promised(Level)
      /\ StreamInv /\ Promised(Level) /\ [StreamNext]_streamVars
         => (StreamInv /\ Promised(Level))'
  BY <1>1, StreamSafe
<1>3. Promised(Level) => ConstantsDatable
  BY LevelAttained DEF Promised
<1> QED BY <1>2, <1>3, PTL DEF StreamSpec

-----------------------------------------------------------------------------
(* Acknowledgements on their way. *)

Below == {p \in Nat \X Nat : p[1] < p[2]}

\* A set of numbers that is not empty has a least one.
LEMMA LeastNumber ==
    ASSUME NEW S \in SUBSET Nat, S # {}
    PROVE  \E x \in S : \A y \in S : x <= y
<1>1. OpToRel(<, Nat) = Below
  BY Zenon DEF OpToRel, Below
<1>2. IsWellFoundedOn(Below, Nat)
  BY <1>1, NatLessThanWellFounded, Zenon
<1>3. PICK x \in S : \A y \in S : ~(<<y, x>> \in Below)
  BY <1>2, WFMin
<1>4. ASSUME NEW y \in S, y < x PROVE FALSE
  <2> DEFINE p == <<y, x>>
  <2>1. p \in Nat \X Nat /\ p[1] < p[2]
    BY <1>4
  <2> HIDE DEF p
  <2>2. p \in Below
    BY <2>1 DEF Below
  <2> QED BY <1>3, <2>2 DEF p
<1>5. x \in Nat /\ \A y \in S : y \in Nat
  OBVIOUS
<1> QED BY <1>4, <1>5

\* Among finitely many places in the stream there is a last one.
LEMMA LastPlace ==
    ASSUME NEW l \in Nat, NEW S \in SUBSET (1 .. l), S # {}
    PROVE  Max(S) \in S /\ \A y \in S : y <= Max(S)
<1> DEFINE T == {l - i : i \in S}
<1>0. \A y \in S : y \in 1 .. l
  BY Zenon
<1>1. T \in SUBSET Nat /\ T # {}
  <2>1. \A y \in 1 .. l : l - y \in Nat
    OBVIOUS
  <2>2. \A x \in T : x \in Nat
    BY <1>0, <2>1
  <2>3. PICK y \in S : TRUE
    OBVIOUS
  <2>4. l - y \in T
    BY <2>3
  <2> QED BY <2>2, <2>4
<1>2. PICK x \in T : \A y \in T : x <= y
  <2> HIDE DEF T
  <2> QED BY <1>1, LeastNumber
<1>3. PICK i \in S : x = l - i
  BY <1>2
<1>4. \A y \in S : l - i <= l - y
  BY <1>2, <1>3
<1>5. \A y \in S : i >= y
  BY <1>0, <1>3, <1>4
<1>6. \A y \in S : y \in Nat
  BY <1>0
<1>7. Max(S) \in S /\ \A y \in S : Max(S) >= y
  BY <1>3, <1>5 DEF Max
<1> QED BY <1>6, <1>7

\* Between two places without an acknowledgement of n between them, n stays known or
\* unknown.
LEMMA NoAckBetween ==
    ASSUME NEW packets, NEW view, NEW s, NEW level, Chain(view, packets, s, level), Len(packets) \in Nat,
           NEW n, NEW i \in 1 .. Len(packets) + 1, NEW j \in i .. Len(packets) + 1,
           \A k \in i .. j - 1 :
               packets[k].signal = n => packets[k].kind \notin {"subscribe", "unsubscribe"}
    PROVE  n \in view[i].known <=> n \in view[j].known
<1> DEFINE differs == {k \in i .. j : ~(n \in view[i].known <=> n \in view[k].known)}
<1> SUFFICES ASSUME differs # {} PROVE FALSE
  OBVIOUS
<1>1. differs \in SUBSET Nat
  OBVIOUS
<1>2. PICK k \in differs : \A m \in differs : k <= m
  <2> HIDE DEF differs
  <2> QED BY <1>1, LeastNumber
<1>3. k \in i .. j /\ k # i /\ k \in Nat /\ k - 1 \in i .. j - 1
  BY <1>2
<1>4. k - 1 \notin differs
  <2> HIDE DEF differs
  <2> QED BY <1>2, <1>3
<1>5. n \in view[i].known <=> n \in view[k - 1].known
  BY <1>3, <1>4
<1>6. k - 1 \in 1 .. Len(packets) /\ (k - 1) + 1 = k
  BY <1>3
<1>7. view[k] = After(view[k - 1], packets[k - 1])
  BY <1>6 DEF Chain
<1>8. n \in view[k].known <=> n \in view[k - 1].known
  <2> DEFINE before == view[k - 1]
             packet == packets[k - 1]
  <2>1. packet.signal = n => packet.kind \notin {"subscribe", "unsubscribe"}
    BY <1>3
  <2>2. view[k] = After(before, packet)
    BY <1>7
  <2> HIDE DEF before, packet
  <2>3. n \in After(before, packet).known <=> n \in before.known
    BY <2>1 DEF After
  <2> QED BY <2>2, <2>3 DEF before
<1> QED BY <1>2, <1>5, <1>8

\* A chain of views from what the consumer has registered to what the producer has
\* acknowledged makes the one follow the other.
LEMMA FollowingAcks ==
    ASSUME NEW level, SessionInv(level)
    PROVE  SubscriptionsFollow
<1>1. PICK first, end : /\ Linked(first, end, channel, setup, level)
                        /\ Registered(first) /\ EndMatches(end)
  BY DEF SessionInv, ChainInv
<1>2. PICK view : /\ Chain(view, channel, setup, level)
                  /\ view[1] = first /\ view[Len(channel) + 1] = end
  BY <1>1 DEF Linked
<1>3. Len(channel) \in Nat /\ DOMAIN channel = 1 .. Len(channel)
  BY DEF SessionInv, TypeInv, ChannelOK, IsSequence
<1>4. /\ status = "open" /\ view[1].known = DOMAIN subscribedSignals
      /\ view[Len(channel) + 1].known = acked
  BY <1>1, <1>2 DEF Registered, EndMatches
<1>5. ASSUME NEW n \in SignalNumbers
      PROVE  LET acks == InFlight(n, {"subscribe", "unsubscribe"})
             IN  n \in acked <=> IF acks = {} THEN n \in DOMAIN subscribedSignals
                                 ELSE channel[Max(acks)].kind = "subscribe"
  <2> DEFINE acks == InFlight(n, {"subscribe", "unsubscribe"})
             l == Len(channel)
  <2>1. acks = {k \in 1 .. l : /\ channel[k].signal = n
                              /\ channel[k].kind \in {"subscribe", "unsubscribe"}}
    BY <1>3 DEF InFlight
  <2>2. CASE acks = {}
    <3>1. \A k \in 1 .. (l + 1) - 1 :
              channel[k].signal = n => channel[k].kind \notin {"subscribe", "unsubscribe"}
      BY <1>3, <2>1, <2>2
    <3>2. 1 \in 1 .. l + 1 /\ l + 1 \in 1 .. l + 1
      BY <1>3
    <3>3. n \in view[1].known <=> n \in view[l + 1].known
      BY <1>2, <1>3, <3>1, <3>2, NoAckBetween
    <3> QED BY <1>4, <2>2, <3>3
  <2>3. CASE acks # {}
    <3> DEFINE m == Max(acks)
    <3>1. acks \in SUBSET (1 .. l)
      BY <2>1
    <3>2. m \in acks /\ \A k \in acks : k <= m
      <4> HIDE DEF acks
      <4> QED BY <1>3, <2>3, <3>1, LastPlace
    <3>3. /\ m \in 1 .. l /\ channel[m].signal = n
          /\ channel[m].kind \in {"subscribe", "unsubscribe"}
      BY <2>1, <3>2
    <3> HIDE DEF m
    <3>4. \A k \in m + 1 .. (l + 1) - 1 :
              channel[k].signal = n => channel[k].kind \notin {"subscribe", "unsubscribe"}
      <4> HIDE DEF acks
      <4> QED BY <1>3, <2>1, <3>2, <3>3
    <3>5. m + 1 \in 1 .. l + 1 /\ l + 1 \in m + 1 .. l + 1
      BY <1>3, <3>3
    <3>6. n \in view[m + 1].known <=> n \in view[l + 1].known
      BY <1>2, <1>3, <3>4, <3>5, NoAckBetween
    <3>7. view[m + 1] = After(view[m], channel[m])
      BY <1>2, <3>3 DEF Chain
    <3>8. n \in view[m + 1].known <=> channel[m].kind = "subscribe"
      <4> DEFINE before == view[m]
                 packet == channel[m]
      <4>1. packet.signal = n /\ packet.kind \in {"subscribe", "unsubscribe"}
        BY <3>3
      <4> HIDE DEF before, packet
      <4>2. n \in After(before, packet).known <=> packet.kind = "subscribe"
        BY <4>1 DEF After
      <4> QED BY <3>7, <4>2 DEF before, packet
    <3> QED BY <1>4, <2>3, <3>6, <3>8 DEF m
  <2> QED BY <2>2, <2>3
<1> QED BY <1>4, <1>5 DEF SubscriptionsFollow

\* When the application subscribes a signal only once and writes only while it is
\* subscribed, the consumer's register follows the producer's acknowledgements and the
\* session is never closed over them, however the two threads interleave and whatever
\* else the application does.
THEOREM AcknowledgementsFollow ==
    ASSUME Once
    PROVE  StreamSpec => []SubscriptionsFollow
<1>1. /\ StreamInit => StreamInv /\ Promised(Level)
      /\ StreamInv /\ Promised(Level) /\ [StreamNext]_streamVars
         => (StreamInv /\ Promised(Level))'
  BY StreamSafe
<1>2. StreamInv => SubscriptionsFollow
  BY FollowingAcks DEF StreamInv
<1> QED BY <1>1, <1>2, PTL DEF StreamSpec

-----------------------------------------------------------------------------
(***************************************************************************)
(* Values on their way.  What is in the stream is a sum over the places of *)
(* a signal's blocks; a sum is taken an element at a time, in an order     *)
(* nobody knows, and does not depend on it.                                *)
(***************************************************************************)
\* The element the sum takes next.
Pick(s) == CHOOSE x \in s : TRUE

\* g adds up f over each subset of U, an element at a time.
Adds(g, f, U) ==
    g = [s \in SUBSET U |-> IF s = {} THEN 0
                            ELSE f[Pick(s)] + g[s \ {Pick(s)}]]

Sum(f, U) == (CHOOSE g : Adds(g, f, U))[U]

\* The same for the subsets of at most k elements.
AddsUpTo(g, f, U, k) ==
    \A s \in SUBSET U : Cardinality(s) <= k =>
        g[s] = IF s = {} THEN 0 ELSE f[Pick(s)] + g[s \ {Pick(s)}]

\* An element taken out of a finite set leaves a smaller one.
LEMMA OneLess ==
    ASSUME NEW s, IsFiniteSet(s), s # {}
    PROVE  /\ Pick(s) \in s /\ Cardinality(s) \in Nat /\ Cardinality(s) > 0
           /\ \A x \in s : /\ IsFiniteSet(s \ {x}) /\ Cardinality(s \ {x}) \in Nat
                           /\ Cardinality(s \ {x}) = Cardinality(s) - 1
<1>1. Pick(s) \in s
  BY DEF Pick
<1>2. Cardinality(s) \in Nat /\ Cardinality(s) # 0
  BY FS_CardinalityType, FS_EmptySet
<1>3. ASSUME NEW x \in s
      PROVE  /\ IsFiniteSet(s \ {x}) /\ Cardinality(s \ {x}) \in Nat
             /\ Cardinality(s \ {x}) = Cardinality(s) - 1
  BY <1>3, FS_RemoveElement, FS_CardinalityType
<1> QED BY <1>1, <1>2, <1>3

\* There is such a function for small subsets,
LEMMA AddsSome ==
    ASSUME NEW U, IsFiniteSet(U), NEW f, NEW k \in Nat
    PROVE  \E g : AddsUpTo(g, f, U, k)
<1> DEFINE bad == {m \in Nat : ~\E g : AddsUpTo(g, f, U, m)}
<1> SUFFICES ASSUME bad # {} PROVE FALSE
  OBVIOUS
<1>1. bad \in SUBSET Nat
  OBVIOUS
<1>2. PICK m \in bad : \A j \in bad : m <= j
  <2> HIDE DEF bad
  <2> QED BY <1>1, LeastNumber
<1>3. m \in Nat /\ ~\E g : AddsUpTo(g, f, U, m)
  BY <1>2
<1>4. \A s \in SUBSET U : IsFiniteSet(s) /\ Cardinality(s) \in Nat
  BY FS_Subset, FS_CardinalityType
<1>5. CASE m = 0
  <2> DEFINE g == [s \in SUBSET U |-> 0]
  <2>1. \A s \in SUBSET U : g[s] = 0
    OBVIOUS
  <2>2. \A s \in SUBSET U : Cardinality(s) <= 0 => s = {}
    BY <1>4, OneLess
  <2> HIDE DEF g
  <2>3. AddsUpTo(g, f, U, 0)
    BY <2>1, <2>2 DEF AddsUpTo
  <2> QED BY <1>3, <1>5, <2>3
<1>6. CASE m # 0
  <2>1. m - 1 \in Nat /\ m - 1 \notin bad
    <3> HIDE DEF bad
    <3> QED BY <1>2, <1>3, <1>6
  <2>2. PICK g : AddsUpTo(g, f, U, m - 1)
    BY <2>1
  <2> DEFINE h == [s \in SUBSET U |-> IF s = {} THEN 0 ELSE f[Pick(s)] + g[s \ {Pick(s)}]]
  <2>3. \A s \in SUBSET U : h[s] = IF s = {} THEN 0 ELSE f[Pick(s)] + g[s \ {Pick(s)}]
    OBVIOUS
  <2> HIDE DEF h
  <2>4. \A s \in SUBSET U : Cardinality(s) <= m - 1 => h[s] = g[s]
    BY <2>2, <2>3 DEF AddsUpTo
  <2>5. ASSUME NEW s \in SUBSET U, Cardinality(s) <= m
        PROVE  h[s] = IF s = {} THEN 0 ELSE f[Pick(s)] + h[s \ {Pick(s)}]
    <3>1. CASE s = {}
      BY <2>3, <3>1
    <3>2. CASE s # {}
      <4> DEFINE r == s \ {Pick(s)}
      <4>1. r \in SUBSET U /\ Cardinality(r) <= m - 1
        BY <1>3, <1>4, <2>5, <3>2, OneLess
      <4>2. h[r] = g[r]
        BY <2>4, <4>1
      <4> QED BY <2>3, <3>2, <4>2
    <3> QED BY <3>1, <3>2
  <2>6. AddsUpTo(h, f, U, m)
    BY <2>5 DEF AddsUpTo
  <2> QED BY <1>3, <2>6
<1> QED BY <1>5, <1>6

\* and for all of them.
LEMMA SumsExist ==
    ASSUME NEW U, IsFiniteSet(U), NEW f
    PROVE  \E g : Adds(g, f, U)
<1>1. Cardinality(U) \in Nat /\ \A s \in SUBSET U : Cardinality(s) <= Cardinality(U)
  BY FS_Subset, FS_CardinalityType
<1>2. PICK g : AddsUpTo(g, f, U, Cardinality(U))
  BY <1>1, AddsSome
<1> DEFINE h == [s \in SUBSET U |-> g[s]]
<1>3. \A s \in SUBSET U : h[s] = g[s]
  OBVIOUS
<1>4. \A s \in SUBSET U : g[s] = IF s = {} THEN 0 ELSE f[Pick(s)] + g[s \ {Pick(s)}]
  BY <1>1, <1>2 DEF AddsUpTo
<1>5. \A s \in SUBSET U : h[s] = IF s = {} THEN 0 ELSE f[Pick(s)] + h[s \ {Pick(s)}]
  BY <1>3, <1>4
<1>6. h = [s \in SUBSET U |-> h[s]]
  OBVIOUS
<1> HIDE DEF h
<1>7. Adds(h, f, U)
  BY <1>5, <1>6 DEF Adds
<1> QED BY <1>7

\* Two of them agree where both are defined.
LEMMA SumsAgree ==
    ASSUME NEW U, NEW V, NEW f, NEW g, NEW h, Adds(g, f, U), Adds(h, f, V),
           NEW s, IsFiniteSet(s), s \subseteq U, s \subseteq V
    PROVE  g[s] = h[s]
<1> DEFINE bad == {m \in Nat : \E r \in SUBSET s : Cardinality(r) = m /\ g[r] # h[r]}
<1>1. \A r \in SUBSET s : IsFiniteSet(r) /\ Cardinality(r) \in Nat
  BY FS_Subset, FS_CardinalityType
<1>2. bad \in SUBSET Nat
  OBVIOUS
<1>3. CASE bad = {}
  BY <1>1, <1>3
<1>4. CASE bad # {}
  <2>1. PICK m \in bad : \A j \in bad : m <= j
    <3> HIDE DEF bad
    <3> QED BY <1>2, <1>4, LeastNumber
  <2>2. PICK r \in SUBSET s : Cardinality(r) = m /\ g[r] # h[r]
    BY <2>1
  <2>3. /\ g[r] = IF r = {} THEN 0 ELSE f[Pick(r)] + g[r \ {Pick(r)}]
        /\ h[r] = IF r = {} THEN 0 ELSE f[Pick(r)] + h[r \ {Pick(r)}]
    BY DEF Adds
  <2>4. r # {}
    BY <2>2, <2>3
  <2> DEFINE q == r \ {Pick(r)}
  <2>5. q \in SUBSET s /\ Cardinality(q) \in Nat /\ Cardinality(q) < m /\ m \in Nat
    BY <1>1, <2>2, <2>4, OneLess
  <2>6. g[q] # h[q]
    BY <2>2, <2>3, <2>4
  <2>7. Cardinality(q) \in bad
    <3> HIDE DEF q
    <3> QED BY <2>5, <2>6
  <2> HIDE DEF q, bad
  <2> QED BY <2>1, <2>5, <2>7
<1> QED BY <1>3, <1>4

\* One element after the other, in the order of CHOOSE.
LEMMA SumUnfolds ==
    ASSUME NEW U, IsFiniteSet(U), NEW f
    PROVE  Sum(f, U) = IF U = {} THEN 0 ELSE f[Pick(U)] + Sum(f, U \ {Pick(U)})
<1> DEFINE g == CHOOSE k : Adds(k, f, U)
           V == U \ {Pick(U)}
           h == CHOOSE k : Adds(k, f, V)
<1>1. Adds(g, f, U)
  BY SumsExist
<1>2. IsFiniteSet(V) /\ V \subseteq U
  BY FS_Subset
<1>3. Adds(h, f, V)
  <2> HIDE DEF V
  <2> QED BY <1>2, SumsExist
<1>4. Sum(f, U) = g[U] /\ Sum(f, V) = h[V]
  BY DEF Sum
<1> HIDE DEF g, h, V
<1>5. g[V] = h[V]
  BY <1>1, <1>2, <1>3, SumsAgree
<1>6. g[U] = IF U = {} THEN 0 ELSE f[Pick(U)] + g[V]
  BY <1>1 DEF Adds, V
<1> QED BY <1>4, <1>5, <1>6 DEF V

\* Natural numbers add up to a natural number.
LEMMA SumIsNatural ==
    ASSUME NEW U, IsFiniteSet(U), NEW f, \A x \in U : f[x] \in Nat
    PROVE  Sum(f, U) \in Nat
<1> DEFINE bad == {m \in Nat : \E r \in SUBSET U : Cardinality(r) = m /\ Sum(f, r) \notin Nat}
<1>1. \A r \in SUBSET U : IsFiniteSet(r) /\ Cardinality(r) \in Nat
  BY FS_Subset, FS_CardinalityType
<1>2. bad \in SUBSET Nat
  OBVIOUS
<1>3. CASE bad = {}
  BY <1>1, <1>3
<1>4. CASE bad # {}
  <2>1. PICK m \in bad : \A j \in bad : m <= j
    <3> HIDE DEF bad
    <3> QED BY <1>2, <1>4, LeastNumber
  <2>2. PICK r \in SUBSET U : Cardinality(r) = m /\ Sum(f, r) \notin Nat
    BY <2>1
  <2>3. Sum(f, r) = IF r = {} THEN 0 ELSE f[Pick(r)] + Sum(f, r \ {Pick(r)})
    BY <1>1, SumUnfolds
  <2>4. r # {}
    BY <2>2, <2>3
  <2> DEFINE q == r \ {Pick(r)}
  <2>5. /\ q \in SUBSET U /\ Cardinality(q) \in Nat /\ Cardinality(q) < m /\ m \in Nat
        /\ Pick(r) \in U
    BY <1>1, <2>2, <2>4, OneLess
  <2>6. Sum(f, q) \notin Nat
    BY <2>2, <2>3, <2>4, <2>5
  <2>7. Cardinality(q) \in bad
    <3> HIDE DEF q
    <3> QED BY <2>5, <2>6
  <2> HIDE DEF q, bad
  <2> QED BY <2>1, <2>5, <2>7
<1> QED BY <1>3, <1>4

\* Whatever element is taken out, the sum loses its value.
LEMMA SumWithout ==
    ASSUME NEW U, IsFiniteSet(U), NEW f, \A x \in U : f[x] \in Nat, NEW e \in U
    PROVE  Sum(f, U) = f[e] + Sum(f, U \ {e})
<1> DEFINE bad == {m \in Nat : \E r \in SUBSET U : Cardinality(r) = m
                               /\ \E x \in r : Sum(f, r) # f[x] + Sum(f, r \ {x})}
<1>1. \A r \in SUBSET U : IsFiniteSet(r) /\ Cardinality(r) \in Nat /\ Sum(f, r) \in Nat
  BY FS_Subset, FS_CardinalityType, SumIsNatural
<1>2. bad \in SUBSET Nat
  OBVIOUS
<1>3. CASE bad = {}
  BY <1>1, <1>3
<1>4. CASE bad # {}
  <2>1. PICK m \in bad : \A j \in bad : m <= j
    <3> HIDE DEF bad
    <3> QED BY <1>2, <1>4, LeastNumber
  <2>2. PICK r \in SUBSET U : Cardinality(r) = m
                              /\ \E x \in r : Sum(f, r) # f[x] + Sum(f, r \ {x})
    BY <2>1
  <2>3. PICK x \in r : Sum(f, r) # f[x] + Sum(f, r \ {x})
    BY <2>2
  <2>4. PICK p : p = Pick(r)
    OBVIOUS
  <2>5. Sum(f, r) = f[p] + Sum(f, r \ {p}) /\ p \in r /\ p # x
    BY <1>1, <2>3, <2>4, SumUnfolds, OneLess
  <2>6. /\ Cardinality(r \ {x}) = m - 1 /\ Cardinality(r \ {p}) = m - 1 /\ m \in Nat
        /\ r \ {x} \in SUBSET U /\ r \ {p} \in SUBSET U /\ m - 1 \in Nat
    BY <1>1, <2>2, <2>5, OneLess
  <2>7. m - 1 \notin bad
    <3> HIDE DEF bad
    <3> QED BY <2>1, <2>6
  <2>8. \A q \in SUBSET U : Cardinality(q) = m - 1 =>
            \A y \in q : Sum(f, q) = f[y] + Sum(f, q \ {y})
    BY <2>6, <2>7
  <2>9. PICK q : q = (r \ {x}) \ {p}
    OBVIOUS
  <2>10. (r \ {p}) \ {x} = q /\ q \in SUBSET U /\ p \in r \ {x} /\ x \in r \ {p}
    BY <2>5, <2>9
  <2>11. Sum(f, r \ {x}) = f[p] + Sum(f, q)
    BY <2>6, <2>8, <2>9, <2>10
  <2>12. Sum(f, r \ {p}) = f[x] + Sum(f, q)
    BY <2>6, <2>8, <2>10
  <2>13. f[x] \in Nat /\ f[p] \in Nat /\ Sum(f, q) \in Nat
    BY <1>1, <2>5, <2>10
  <2> QED BY <2>3, <2>5, <2>11, <2>12, <2>13
<1> QED BY <1>3, <1>4

\* V is U moved by d, and g has at each place what f has at the place it comes from.
Moved(f, U, g, V, d) ==
    /\ U \in SUBSET Nat /\ IsFiniteSet(U) /\ V \in SUBSET Nat /\ d \in Nat
    /\ \A x \in U : f[x] \in Nat /\ g[x + d] = f[x] /\ x + d \in V
    /\ \A z \in V : z - d \in U

\* What is moved keeps its sum.
LEMMA SumMoved ==
    ASSUME NEW U, NEW V, NEW d, NEW f, NEW g, Moved(f, U, g, V, d)
    PROVE  Sum(f, U) = Sum(g, V) /\ IsFiniteSet(V)
<1> DEFINE To(r) == {x + d : x \in r}
           bad == {m \in Nat : \E r \in SUBSET U :
                      Cardinality(r) = m /\ ~(Sum(f, r) = Sum(g, To(r)) /\ IsFiniteSet(To(r)))}
<1>0. /\ U \in SUBSET Nat /\ IsFiniteSet(U) /\ V \in SUBSET Nat /\ d \in Nat
      /\ \A x \in U : f[x] \in Nat /\ g[x + d] = f[x] /\ x + d \in V
      /\ \A z \in V : z - d \in U
  BY DEF Moved
<1> USE <1>0
<1>1. \A r \in SUBSET U : IsFiniteSet(r) /\ Cardinality(r) \in Nat
  BY FS_Subset, FS_CardinalityType
<1>2. bad \in SUBSET Nat
  OBVIOUS
<1>3. CASE bad = {}
  <2>1. \A z \in V : (z - d) + d = z
    OBVIOUS
  <2>2. V = To(U)
    BY <2>1
  <2> HIDE DEF To
  <2> QED BY <1>1, <1>3, <2>2
<1>4. CASE bad # {}
  <2>1. PICK m \in bad : \A j \in bad : m <= j
    <3> HIDE DEF bad
    <3> QED BY <1>2, <1>4, LeastNumber
  <2>2. PICK r \in SUBSET U :
            Cardinality(r) = m /\ ~(Sum(f, r) = Sum(g, To(r)) /\ IsFiniteSet(To(r)))
    BY <2>1
  <2>3. CASE r = {}
    <3>1. To(r) = {} /\ IsFiniteSet({})
      BY <2>3, FS_EmptySet
    <3> HIDE DEF To
    <3>2. Sum(f, {}) = 0 /\ Sum(g, {}) = 0
      BY <3>1, SumUnfolds
    <3> QED BY <2>2, <2>3, <3>1, <3>2
  <2>4. CASE r # {}
    <3>1. PICK x : x \in r
      BY <2>4
    <3>2. PICK q : q = r \ {x}
      OBVIOUS
    <3>3. /\ q \in SUBSET U /\ Cardinality(q) \in Nat /\ Cardinality(q) < m /\ m \in Nat
          /\ x \in U /\ x \in Nat
      BY <1>1, <2>2, <2>4, <3>1, <3>2, OneLess
    <3>4. Sum(f, q) = Sum(g, To(q)) /\ IsFiniteSet(To(q))
      <4>1. Cardinality(q) \notin bad
        <5> HIDE DEF bad
        <5> QED BY <2>1, <3>3
      <4> HIDE DEF To
      <4> QED BY <3>3, <4>1
    <3>5. PICK p : p = To(r)
      OBVIOUS
    <3>6. \A y \in r : y \in Nat
      OBVIOUS
    <3>7. x + d \in p /\ To(q) = p \ {x + d} /\ p = To(q) \cup {x + d}
      BY <3>1, <3>2, <3>5, <3>6
    <3>8. \A z \in p : g[z] \in Nat
      BY <3>5
    <3>9. IsFiniteSet(p)
      <4> HIDE DEF To
      <4> QED BY <3>4, <3>7, FS_AddElement
    <3> HIDE DEF To
    <3>10. Sum(g, p) = g[x + d] + Sum(g, p \ {x + d})
      BY <3>7, <3>8, <3>9, SumWithout
    <3>11. Sum(f, r) = f[x] + Sum(f, q)
      BY <1>1, <3>1, <3>2, SumWithout
    <3>12. g[x + d] = f[x]
      BY <3>3
    <3> QED BY <2>2, <3>4, <3>5, <3>7, <3>9, <3>10, <3>11, <3>12
  <2> QED BY <2>3, <2>4
<1> QED BY <1>3, <1>4

\* Adding to a remainder is adding to the number.
LEMMA RemainderAdds ==
    ASSUME NEW a \in Nat, NEW b \in Nat
    PROVE  ((a % Wrap) + b) % Wrap = (a + b) % Wrap
<1> DEFINE q == a \div Wrap
           r == a % Wrap
<1>0. Wrap \in Nat \ {0}
  BY WrapAssumption
<1>1. q \in Int /\ r \in Nat /\ a = (Wrap * q) + r
  BY <1>0
<1> HIDE DEF q, r
<1> DEFINE x == r + b
           y == a + b
<1>2. x \in Nat /\ y \in Nat /\ y = x + (Wrap * q)
  BY <1>0, <1>1
<1> HIDE DEF x, y
<1>3. y % Wrap = x % Wrap
  BY ONLY <1>0, <1>1, <1>2, SameRemainder
<1> QED BY <1>3 DEF x, y, r

\* Where the blocks of n are among some packets, how many values each of them has, and
\* all of them together.
BlocksOf(packets, n) ==
    {i \in 1 .. Len(packets) : packets[i].signal = n /\ packets[i].kind = "data"}
ValuesAt(packets, n) == [i \in BlocksOf(packets, n) |-> packets[i].count]
OnTheWay(packets, n) == Sum(ValuesAt(packets, n), BlocksOf(packets, n))

\* The values of a data signal among packets as the producer writes them.
LEMMA BlocksCounted ==
    ASSUME NEW packets, IsSequence(packets), \A i \in 1 .. Len(packets) : Written(packets[i]),
           NEW n \in Values
    PROVE  /\ BlocksOf(packets, n) \in SUBSET Nat /\ IsFiniteSet(BlocksOf(packets, n))
           /\ Len(packets) \in Nat /\ OnTheWay(packets, n) \in Nat
           /\ \A i \in BlocksOf(packets, n) :
                  /\ ValuesAt(packets, n)[i] \in Nat
                  /\ ValuesAt(packets, n)[i] = packets[i].count
<1>1. Len(packets) \in Nat
  BY DEF IsSequence
<1>2. PICK U : U = BlocksOf(packets, n)
  OBVIOUS
<1>3. U \in SUBSET (1 .. Len(packets))
  BY <1>2 DEF BlocksOf
<1>4. IsFiniteSet(1 .. Len(packets))
  BY <1>1, FS_Interval
<1>5. \A i \in U : packets[i].count \in Nat
  BY <1>2 DEF BlocksOf, Written, IsBlock
<1>6. IsFiniteSet(U) /\ U \in SUBSET Nat
  <2>1. IsFiniteSet(U)
    BY <1>3, <1>4, FS_Subset
  <2>2. \A i \in 1 .. Len(packets) : i \in Nat
    BY <1>1
  <2>3. U \in SUBSET Nat
    BY ONLY <1>3, <2>2
  <2> QED BY <2>1, <2>3
<1>7. \A i \in U : ValuesAt(packets, n)[i] = packets[i].count
  BY <1>2 DEF ValuesAt
<1>8. Sum(ValuesAt(packets, n), U) \in Nat
  BY <1>5, <1>6, <1>7, SumIsNatural
<1> QED BY <1>1, <1>2, <1>5, <1>6, <1>7, <1>8 DEF OnTheWay

\* The values of a data signal in the stream, as the properties sum them up.
LEMMA StreamCounted ==
    ASSUME ChannelOK, NEW n \in Values
    PROVE  MapThenSumSet(LAMBDA i : channel[i].count, InFlight(n, {"data"}))
           = OnTheWay(channel, n)
<1>1. DOMAIN channel = 1 .. Len(channel)
  BY DEF ChannelOK, IsSequence
<1>2. PICK U : U = BlocksOf(channel, n)
  OBVIOUS
<1>3. InFlight(n, {"data"}) = U
  BY <1>1, <1>2 DEF InFlight, BlocksOf
<1>4. MapThenSumSet(LAMBDA i : channel[i].count, U) = Sum([i \in U |-> channel[i].count], U)
  BY DEF MapThenSumSet, MapThenFoldSet, Sum, Adds, Pick
<1> QED BY <1>2, <1>3, <1>4 DEF ValuesAt, OnTheWay

\* The values of n in a packet.
Share(packet, n) == IF packet.kind = "data" /\ packet.signal = n THEN packet.count ELSE 0

\* A packet more brings its values,
LEMMA ValuesMore ==
    ASSUME NEW packets, IsSequence(packets), \A i \in 1 .. Len(packets) : Written(packets[i]),
           NEW packet, Written(packet), NEW n \in Values,
           NEW more, more = Append(packets, packet)
    PROVE  /\ OnTheWay(more, n) = OnTheWay(packets, n) + Share(packet, n)
           /\ OnTheWay(packets, n) \in Nat /\ Share(packet, n) \in Nat
<1>1. PICK S : packets \in Seq(S)
  BY DEF IsSequence
<1>2. PICK l : l = Len(packets)
  OBVIOUS
<1>3. packets \in Seq(S \cup {packet}) /\ l \in Nat
  BY <1>1, <1>2
<1>4. /\ more \in Seq(S \cup {packet})
      /\ Len(more) = l + 1 /\ more[l + 1] = packet /\ \A i \in 1 .. l : more[i] = packets[i]
  BY <1>2, <1>3, AppendProperties
<1>5. IsSequence(more) /\ \A i \in 1 .. Len(more) : Written(more[i])
  BY <1>2, <1>3, <1>4 DEF IsSequence
<1> DEFINE U == BlocksOf(packets, n)
           V == BlocksOf(more, n)
           f == ValuesAt(packets, n)
           g == ValuesAt(more, n)
<1>6. /\ U \in SUBSET Nat /\ IsFiniteSet(U) /\ OnTheWay(packets, n) \in Nat
      /\ \A i \in U : f[i] \in Nat /\ f[i] = packets[i].count
  BY BlocksCounted
<1>7. /\ V \in SUBSET Nat /\ IsFiniteSet(V)
      /\ \A i \in V : g[i] \in Nat /\ g[i] = more[i].count
  BY <1>5, BlocksCounted
<1>8. /\ \A i : i \in U <=> i \in 1 .. l /\ packets[i].signal = n /\ packets[i].kind = "data"
      /\ \A i : i \in V <=> i \in 1 .. l + 1 /\ more[i].signal = n /\ more[i].kind = "data"
  BY <1>2, <1>4 DEF BlocksOf
<1>9. OnTheWay(packets, n) = Sum(f, U) /\ OnTheWay(more, n) = Sum(g, V)
  BY DEF OnTheWay
<1> HIDE DEF U, V, f, g
<1>10. \A i \in U : i \in V /\ i # l + 1 /\ g[i] = f[i]
  BY <1>3, <1>4, <1>6, <1>7, <1>8
<1>11. \A i \in U : i + 0 = i /\ i - 0 = i
  BY ONLY <1>6
<1>12. Sum(f, U) = Sum(g, U)
  <2>1. \A i \in U : f[i] \in Nat /\ g[i + 0] = f[i] /\ i + 0 \in U
    BY ONLY <1>6, <1>10, <1>11
  <2>2. \A i \in U : i - 0 \in U
    BY ONLY <1>11
  <2>3. Moved(f, U, g, U, 0)
    BY ONLY <1>6, <2>1, <2>2 DEF Moved
  <2> QED BY ONLY <2>3, SumMoved
<1>13. CASE packet.kind = "data" /\ packet.signal = n
  <2>1. l + 1 \in V /\ g[l + 1] = packet.count /\ packet.count \in Nat
    BY <1>3, <1>4, <1>7, <1>8, <1>13
  <2>2. V \ {l + 1} = U
    BY <1>3, <1>4, <1>8, <1>10
  <2>3. Sum(g, V) = g[l + 1] + Sum(g, U)
    BY <1>7, <2>1, <2>2, SumWithout
  <2> QED BY <1>6, <1>9, <1>12, <1>13, <2>1, <2>3 DEF Share
<1>14. CASE ~(packet.kind = "data" /\ packet.signal = n)
  <2>1. \A i \in V : i \in 1 .. l
    BY <1>3, <1>4, <1>8, <1>14
  <2>2. \A i \in V : i \in U
    BY <1>4, <1>8, <2>1
  <2>3. V = U
    BY ONLY <1>10, <2>2
  <2> QED BY <1>6, <1>9, <1>12, <1>14, <2>3 DEF Share
<1> QED BY <1>13, <1>14

\* and one that is taken takes them with it.
LEMMA ValuesLess ==
    ASSUME NEW packets, IsSequence(packets), \A i \in 1 .. Len(packets) : Written(packets[i]),
           packets # <<>>, NEW n \in Values, NEW rest, rest = Tail(packets)
    PROVE  /\ OnTheWay(packets, n) = OnTheWay(rest, n) + Share(packets[1], n)
           /\ OnTheWay(rest, n) \in Nat /\ Share(packets[1], n) \in Nat
<1>1. PICK S : packets \in Seq(S)
  BY DEF IsSequence
<1>2. PICK l : l = Len(packets)
  OBVIOUS
<1>3. /\ l \in Nat /\ l >= 1 /\ rest \in Seq(S) /\ Len(rest) = l - 1
      /\ \A i \in 1 .. l - 1 : rest[i] = packets[i + 1]
  BY <1>1, <1>2, HeadTailProperties
<1>4. IsSequence(rest) /\ \A i \in 1 .. Len(rest) : Written(rest[i])
  BY <1>2, <1>3 DEF IsSequence
<1> DEFINE U == BlocksOf(rest, n)
           V == BlocksOf(packets, n)
           W == V \ {1}
           f == ValuesAt(rest, n)
           g == ValuesAt(packets, n)
<1>5. /\ U \in SUBSET Nat /\ IsFiniteSet(U) /\ OnTheWay(rest, n) \in Nat
      /\ \A i \in U : f[i] \in Nat /\ f[i] = rest[i].count
  BY <1>4, BlocksCounted
<1>6. /\ V \in SUBSET Nat /\ IsFiniteSet(V)
      /\ \A i \in V : g[i] \in Nat /\ g[i] = packets[i].count
  BY BlocksCounted
<1>7. /\ \A i : i \in U <=> i \in 1 .. l - 1 /\ rest[i].signal = n /\ rest[i].kind = "data"
      /\ \A i : i \in V <=> i \in 1 .. l /\ packets[i].signal = n /\ packets[i].kind = "data"
  BY <1>2, <1>3 DEF BlocksOf
<1>8. OnTheWay(rest, n) = Sum(f, U) /\ OnTheWay(packets, n) = Sum(g, V)
  BY DEF OnTheWay
<1> HIDE DEF U, V, f, g
<1>9. \A i \in U : i + 1 \in V /\ i + 1 # 1 /\ g[i + 1] = f[i] /\ f[i] \in Nat
  BY <1>3, <1>5, <1>6, <1>7
<1>10. W \in SUBSET Nat /\ \A i \in W : i - 1 \in U
  BY <1>3, <1>6, <1>7
<1>11. \A i \in U : f[i] \in Nat /\ g[i + 1] = f[i] /\ i + 1 \in W
  BY <1>9
<1> HIDE DEF W
<1>12. Sum(f, U) = Sum(g, W)
  <2>1. Moved(f, U, g, W, 1)
    BY <1>5, <1>10, <1>11 DEF Moved
  <2> QED BY ONLY <2>1, SumMoved
<1>13. CASE packets[1].kind = "data" /\ packets[1].signal = n
  <2>1. 1 \in V /\ g[1] = packets[1].count /\ packets[1].count \in Nat
    BY <1>3, <1>6, <1>7, <1>13
  <2>2. Sum(g, V) = g[1] + Sum(g, W)
    BY <1>6, <2>1, SumWithout DEF W
  <2> QED BY <1>5, <1>8, <1>12, <1>13, <2>1, <2>2 DEF Share
<1>14. CASE ~(packets[1].kind = "data" /\ packets[1].signal = n)
  <2>1. 1 \notin V
    BY <1>7, <1>14
  <2>2. V = W
    BY <2>1 DEF W
  <2> QED BY <1>5, <1>8, <1>12, <1>14, <2>2 DEF Share
<1> QED BY <1>13, <1>14

\* Nothing is on its way in an empty stream.
LEMMA NoValues ==
    ASSUME NEW n
    PROVE  OnTheWay(<<>>, n) = 0
<1>1. BlocksOf(<<>>, n) = {}
  BY DEF BlocksOf
<1>2. IsFiniteSet({})
  BY FS_EmptySet
<1> QED BY <1>1, <1>2, SumUnfolds DEF OnTheWay

\* Along a chain without an acknowledgement or a description of n, its index counts the
\* values of its blocks.
LEMMA CountedAlong ==
    ASSUME NEW level, NEW view, NEW s, ChannelOK, Chain(view, channel, s, level),
           NEW n \in Counted, n \in view[1].described, view[1].index[n] \in Word,
           InFlight(n, {"subscribe", "unsubscribe", "signal"}) = {}
    PROVE  LET end == view[Len(channel) + 1]
           IN  /\ n \in end.described
               /\ end.index[n] = (view[1].index[n] + OnTheWay(channel, n)) % Wrap
<1> DEFINE l == Len(channel)
           U == BlocksOf(channel, n)
           f == ValuesAt(channel, n)
           Upto(k) == {i \in U : i <= k}
           Holds(k) == /\ n \in view[k + 1].described
                       /\ view[k + 1].index[n] = (view[1].index[n] + Sum(f, Upto(k))) % Wrap
           bad == {k \in 0 .. l : ~Holds(k)}
<1>1. n \in Values /\ n \in SignalNumbers
  BY DEF Counted, Values
<1>2. /\ U \in SUBSET Nat /\ IsFiniteSet(U) /\ l \in Nat
      /\ \A i \in U : f[i] \in Nat /\ f[i] = channel[i].count
  BY <1>1, BlocksCounted DEF ChannelOK
<1>3. \A i \in 1 .. l : i \in U <=> channel[i].signal = n /\ channel[i].kind = "data"
  BY DEF BlocksOf
<1>4. \A i \in U : i \in Nat /\ 1 <= i /\ i <= l /\ ~(i <= 0)
  BY <1>2 DEF BlocksOf
<1>5. \A i \in 1 .. l : channel[i].signal = n => i \in U /\ channel[i].kind = "data"
  <2>1. DOMAIN channel = 1 .. l
    BY DEF ChannelOK, IsSequence
  <2>2. \A i \in 1 .. l : channel[i].kind \in {"subscribe", "unsubscribe", "signal", "data"}
    BY PacketKinds DEF ChannelOK
  <2> QED BY <1>3, <2>1, <2>2 DEF InFlight
<1> HIDE DEF U, f, l
<1>6. \A k : IsFiniteSet(Upto(k)) /\ \A i \in Upto(k) : f[i] \in Nat
  <2>1. \A k : Upto(k) \in SUBSET U
    OBVIOUS
  <2> QED BY <1>2, <2>1, FS_Subset
<1>7. \A k : Sum(f, Upto(k)) \in Nat
  BY <1>6, SumIsNatural
<1>8. Holds(0)
  <2>1. Upto(0) = {}
    BY ONLY <1>4
  <2>2. Sum(f, Upto(0)) = 0
    BY <1>6, <2>1, SumUnfolds
  <2>3. (view[1].index[n] + 0) % Wrap = view[1].index[n]
    BY WrapAssumption DEF Word
  <2> QED BY <2>2, <2>3
<1>9. ASSUME NEW k \in 1 .. l, Holds(k - 1) PROVE Holds(k)
  <2>1. PICK before, packet, next : before = view[k] /\ packet = channel[k] /\ next = view[k + 1]
    OBVIOUS
  <2>2. next = After(before, packet)
    BY <2>1 DEF Chain, l
  <2>3. (k - 1) + 1 = k
    BY <1>2
  <2>4. PICK x : x = Sum(f, Upto(k - 1))
    OBVIOUS
  <2>5. /\ n \in before.described /\ x \in Nat
        /\ before.index[n] = (view[1].index[n] + x) % Wrap
    BY <1>7, <1>9, <2>1, <2>3, <2>4
  <2>6. CASE packet.signal # n
    <3>1. n \in next.described /\ next.index[n] = before.index[n]
      BY <1>1, <2>2, <2>5, <2>6 DEF After
    <3>2. k \notin U
      BY <1>3, <2>1, <2>6
    <3>3. Upto(k) = Upto(k - 1)
      <4>1. \A i \in U : i <= k - 1 <=> i <= k
        BY <1>2, <1>4, <3>2
      <4> QED BY ONLY <4>1
    <3> QED BY <2>1, <2>4, <2>5, <3>1, <3>3
  <2>7. CASE packet.signal = n
    <3>1. k \in U /\ packet.kind = "data" /\ f[k] = packet.count /\ f[k] \in Nat
      BY <1>2, <1>5, <2>1, <2>7
    <3>2. n \in next.described /\ next.index[n] = (before.index[n] + packet.count) % Wrap
      BY <1>1, <2>2, <2>5, <2>7, <3>1 DEF After
    <3>3. k \in Upto(k) /\ Upto(k) \ {k} = Upto(k - 1)
      <4>1. \A i \in U : i <= k - 1 <=> i <= k /\ i # k
        BY <1>2, <1>4
      <4>2. k <= k
        BY <1>2
      <4> QED BY ONLY <3>1, <4>1, <4>2
    <3>4. Sum(f, Upto(k)) = f[k] + x
      <4> HIDE DEF Upto
      <4> QED BY <1>6, <2>4, <3>3, SumWithout
    <3>5. PICK a : a = view[1].index[n] + x
      OBVIOUS
    <3>6. PICK b : b = packet.count
      OBVIOUS
    <3>7. a \in Nat /\ b \in Nat /\ view[1].index[n] + (f[k] + x) = a + b
      BY <2>5, <3>1, <3>5, <3>6 DEF Word
    <3>8. ((a % Wrap) + b) % Wrap = (a + b) % Wrap
      BY <3>7, RemainderAdds
    <3>9. next.index[n] = (view[1].index[n] + (f[k] + x)) % Wrap
      BY <2>5, <3>2, <3>5, <3>6, <3>7, <3>8
    <3> QED BY <2>1, <3>2, <3>4, <3>9
  <2> QED BY <2>6, <2>7
<1>10. bad = {}
  <2> SUFFICES ASSUME bad # {} PROVE FALSE
    OBVIOUS
  <2>1. bad \in SUBSET Nat
    OBVIOUS
  <2>2. PICK k \in bad : \A m \in bad : k <= m
    <3> HIDE DEF bad
    <3> QED BY <2>1, LeastNumber
  <2>3. k \in 0 .. l /\ ~Holds(k)
    BY <2>2
  <2> HIDE DEF Holds
  <2>4. k \in 1 .. l /\ k - 1 \in 0 .. l
    BY <1>2, <1>8, <2>3
  <2>5. k - 1 \notin bad
    <3> HIDE DEF bad
    <3> QED BY <1>2, <2>2, <2>4
  <2> QED BY <1>9, <2>3, <2>4, <2>5
<1>11. Holds(l)
  <2> HIDE DEF Holds
  <2> QED BY <1>2, <1>10
<1>12. Upto(l) = U
  BY ONLY <1>4
<1> QED BY <1>11, <1>12 DEF U, f, l, OnTheWay

\* In a dated session the indices of the two sides agree about the values on their way.
LEMMA AgreeingIndexes ==
    ASSUME SessionInv("dated")
    PROVE  IndexesAgree
<1>1. PICK first, end : /\ Linked(first, end, channel, setup, "dated")
                        /\ Registered(first) /\ EndMatches(end)
                        /\ NumbersMatch(first) /\ NumbersAgreed(end)
  BY DEF SessionInv, ChainInv, Dates
<1>2. PICK view : /\ Chain(view, channel, setup, "dated")
                  /\ view[1] = first /\ view[Len(channel) + 1] = end
  BY <1>1 DEF Linked
<1>3. ChannelOK /\ TypeInv /\ ViewOK(end, setup)
  BY <1>1, LinkedEnd DEF SessionInv, TypeInv, ChannelOK
<1>4. ASSUME NEW n \in Values, Kind[n] = "SynchronousSignal", Described(n),
             InFlight(n, {"subscribe", "unsubscribe", "signal"}) = {}
      PROVE  LET onTheWay == MapThenSumSet(LAMBDA i : channel[i].count, InFlight(n, {"data"}))
                 counted  == IF sender # Idle /\ sender.packet.signal = n
                             THEN sender.packet.count ELSE 0
             IN  (subscribedSignals[n].index + onTheWay + counted) % Wrap = valueIndex[n]
  <2>1. n \in Counted
    BY <1>4 DEF Counted
  <2>2. n \in first.known /\ n \in first.described /\ subscribedSignals[n] \in Signal
    BY <1>1, <1>4 DEF Described, Live, Registered, SignalMatches
  <2>3. PICK index : index = subscribedSignals[n].index
    OBVIOUS
  <2>4. index = first.index[n] /\ index \in Word /\ index \in Nat
    BY <1>1, <2>1, <2>2, <2>3 DEF NumbersMatch, Signal, Word
  <2>5. PICK x : x = OnTheWay(channel, n)
    OBVIOUS
  <2>6. /\ MapThenSumSet(LAMBDA i : channel[i].count, InFlight(n, {"data"})) = x
        /\ x \in Nat
    BY <1>3, <2>5, BlocksCounted, StreamCounted DEF ChannelOK
  <2>7. n \in end.described /\ end.index[n] = (index + x) % Wrap
    BY <1>2, <1>3, <1>4, <2>1, <2>2, <2>4, <2>5, CountedAlong
  <2>8. n \in acked
    BY <1>1, <1>3, <2>7 DEF ViewOK, EndMatches
  <2>9. CASE sender # Idle /\ sender.packet.signal = n
    <3>1. PICK b : b = sender.packet.count
      OBVIOUS
    <3>2. b \in Nat
      BY <1>3, <2>9, <3>1 DEF TypeInv, SenderOK, IsBlock
    <3>3. valueIndex[n] = (end.index[n] + b) % Wrap
      BY <1>1, <2>1, <2>7, <2>8, <2>9, <3>1 DEF NumbersAgreed, IndexesTold
    <3>4. PICK a : a = index + x
      OBVIOUS
    <3>5. ((a % Wrap) + b) % Wrap = (a + b) % Wrap
      BY <2>4, <2>6, <3>2, <3>4, RemainderAdds
    <3> QED BY <2>3, <2>6, <2>7, <2>9, <3>1, <3>3, <3>4, <3>5
  <2>10. CASE ~(sender # Idle /\ sender.packet.signal = n)
    <3>1. valueIndex[n] = end.index[n]
      BY <1>1, <2>1, <2>7, <2>8, <2>10 DEF NumbersAgreed, IndexesTold
    <3>2. (index + x) + 0 = index + x
      BY <2>4, <2>6
    <3> QED BY <2>3, <2>6, <2>7, <2>10, <3>1, <3>2
  <2> QED BY <2>9, <2>10
<1> QED BY <1>4 DEF IndexesAgree

\* In a timely session the consumer counts values as the producer does: its index of a
\* described signal, the values on their way and those about to be written make the
\* producer's index, however the threads interleave, also when the index wraps.
THEOREM IndexesFollow ==
    ASSUME Timely
    PROVE  StreamSpec => []IndexesAgree
<1>1. Once
  BY DEF Timely, Orderly, Once
<1>2. /\ StreamInit => StreamInv /\ Promised(Level)
      /\ StreamInv /\ Promised(Level) /\ [StreamNext]_streamVars
         => (StreamInv /\ Promised(Level))'
  BY <1>1, StreamSafe
<1>3. StreamInv => IndexesAgree
  BY AgreeingIndexes DEF StreamInv, Level
<1> QED BY <1>2, <1>3, PTL DEF StreamSpec

-----------------------------------------------------------------------------
(* What the consumer's callbacks are told. *)

\* A delivery is as long as the block (SubscribedSignal.cpp:36-98).
LEMMA WholeDelivery ==
    ASSUME NEW sig \in Signal, NEW timeSig \in Signal, NEW len,
           NEW answer, answer = ProcessSignalData(sig, timeSig, len),
           answer.delivery # NoDelivery
    PROVE  answer.delivery.bytes = len
<1>1. timeSig # Null /\ timeSig.rule \in {"explicit", "linear", "constant"}
      /\ sig.rule \in {"explicit", "linear", "constant"}
  BY NullAssumption DEF Signal, RuleTypes
<1>2. CASE timeSig.rule = "explicit"
  BY <1>1, <1>2 DEF ProcessSignalData, MeasuredExplicit, Measured, Delivered
<1>3. CASE timeSig.rule = "constant"
  BY <1>1, <1>3 DEF ProcessSignalData, Measured
<1>4. CASE timeSig.rule = "linear"
  <2>1. answer = MeasuredLinear(sig, timeSig, len)
    BY <1>1, <1>4 DEF ProcessSignalData
  <2>2. CASE sig.rule = "explicit"
    BY <2>1, <2>2 DEF MeasuredLinear, Measured, Delivered
  <2>3. CASE sig.rule = "constant"
    BY <2>1, <2>3 DEF MeasuredLinear, Measured, Delivered
  <2>4. CASE sig.rule = "linear"
    BY <2>1, <2>4 DEF MeasuredLinear, Measured
  <2> QED BY <1>1, <2>2, <2>3, <2>4
<1> QED BY <1>1, <1>2, <1>3, <1>4

\* In a dated session every packet is answered by the callback it is for, and leaves the
\* register with the signals it names (SignalContainer.cpp:69-201).
LEMMA Answered ==
    ASSUME Attainable("dated"), SessionInv("dated"), Receive, NEW packet, packet = channel[1]
    PROVE  /\ Written(packet) /\ received' = packet
           /\ packet.kind # "data" => last'.kind = "meta" /\ last'.ok = TRUE
           /\ packet.kind = "subscribe" =>
                  /\ packet.signal \notin DOMAIN subscribedSignals
                  /\ DOMAIN subscribedSignals' = DOMAIN subscribedSignals \cup {packet.signal}
           /\ packet.kind = "unsubscribe" =>
                  /\ packet.signal \in DOMAIN subscribedSignals
                  /\ DOMAIN subscribedSignals' = DOMAIN subscribedSignals \ {packet.signal}
           /\ packet.kind \in {"signal", "data"} =>
                  /\ packet.signal \in DOMAIN subscribedSignals
                  /\ DOMAIN subscribedSignals' = DOMAIN subscribedSignals
           /\ packet.kind = "data" => last'.kind = "data" /\ last'.signal = packet.signal
           /\ packet.kind = "data" /\ packet.signal \in Values =>
                  /\ last'.delivery # NoDelivery
                  /\ last'.delivery.bytes = packet.payload.len
                  /\ subscribedSignals[packet.signal].size = ValueBytes
<1> DEFINE n == packet.signal
<1>1. /\ channel # <<>> /\ channel' = Tail(channel) /\ received' = Head(channel)
      /\ setup' = setup
  BY DEF Receive, producerVars
<1>2. ChannelOK /\ Head(channel) = channel[1] /\ Written(channel[1])
  BY <1>1, PacketTaken DEF SessionInv, TypeInv
<1>3. PICK first, end : /\ Linked(first, end, channel, setup, "dated")
                        /\ Registered(first) /\ NumbersMatch(first)
  BY DEF SessionInv, ChainInv, Dates
<1>4. PICK next : next = After(first, packet)
  OBVIOUS
<1>5. ViewOK(first, setup) /\ Fits(first, packet, setup, "dated")
  BY <1>1, <1>2, <1>3, LinkTaken
<1>6. \/ packet.kind = "subscribe" /\ SubscribeAck(n, "ok")
      \/ packet.kind = "unsubscribe" /\ UnsubscribeAck(n)
      \/ packet.kind = "signal" /\ SignalMeta(n, packet.params)
      \/ packet.kind = "data" /\ MeasuredData(n, packet.payload)
  BY <1>2 DEF Receive
<1>7. /\ ContainerTypeOK /\ setup \in Setups /\ Written(packet) /\ received' = packet
  BY <1>1, <1>2 DEF SessionInv, TypeInv, StreamTypeOK
<1>8. Registered(next)' /\ Promised("dated")'
  BY <1>1, <1>3, <1>4, <1>5, <1>6, <1>7, PacketRead
<1>9. DOMAIN subscribedSignals = first.known /\ DOMAIN subscribedSignals' = next.known
  BY <1>3, <1>8 DEF Registered
<1>10. /\ n \in SignalNumbers
       /\ packet.kind = "signal" => Describes(n, packet.params)
       /\ packet.kind = "data" => IsBlock(packet)
       /\ packet.kind \in {"subscribe", "unsubscribe", "signal", "data"}
  BY <1>7, PacketKinds
<1>11. /\ Live(n) <=> n \in first.known
       /\ Unknown(n) <=> n \notin first.known
       /\ ~Empty(n)
  BY <1>3, KnownIsLive
<1>12. CASE packet.kind = "subscribe"
  <2>1. n \notin first.known /\ next.known = first.known \cup {n}
    BY <1>4, <1>5, <1>12, AfterKnown DEF Fits
  <2>2. last'.kind = "meta" /\ last'.ok = TRUE
    BY <1>6, <1>11, <1>12, <2>1 DEF SubscribeAck, MetaAccepted, Call
  <2> QED BY <1>7, <1>9, <1>12, <2>1, <2>2
<1>13. CASE packet.kind = "unsubscribe"
  <2>1. n \in first.known /\ next.known = first.known \ {n}
    BY <1>4, <1>5, <1>13, AfterKnown DEF Fits
  <2>2. last'.kind = "meta" /\ last'.ok = TRUE
    BY <1>6, <1>11, <1>13, <2>1 DEF UnsubscribeAck, MetaAccepted, Call
  <2> QED BY <1>7, <1>9, <1>13, <2>1, <2>2
<1>14. CASE packet.kind = "signal"
  <2>1. n \in first.known /\ next.known = first.known
    BY <1>4, <1>5, <1>14, AfterKnown DEF Fits
  <2>2. status' = "open" /\ SignalMeta(n, packet.params)
    BY <1>6, <1>8, <1>14 DEF Registered
  <2>3. last'.kind = "meta" /\ last'.ok = TRUE
    BY <1>11, <2>1, <2>2 DEF SignalMeta, MetaAccepted, MetaRefused, Call
  <2> QED BY <1>7, <1>9, <1>14, <2>1, <2>3
<1>15. CASE packet.kind = "data"
  <2>1. n \in first.described /\ n \in first.known /\ next.known = first.known
    <3>1. n \in first.described
      BY <1>5, <1>10, <1>15 DEF Fits, Delivers, Dates, Values
    <3> QED BY <1>4, <1>5, <1>15, <3>1, AfterKnown DEF ViewOK
  <2>2. IsBlock(packet) /\ MeasuredData(n, packet.payload) /\ status' = "open"
    BY <1>6, <1>8, <1>10, <1>15 DEF Registered
  <2>3. last'.kind = "data" /\ last'.signal = n
    <3>1. TimeData(n, packet.payload) \/ ValueData(n, packet.payload)
      BY <1>11, <2>1, <2>2 DEF MeasuredData
    <3>2. ~Crash
      BY <2>2 DEF Crash
    <3>3. \E ok, delivery : DataAnswered(n, ok, delivery)
      BY <3>1, <3>2, Zenon DEF TimeData, ValueData
    <3> QED BY ONLY <3>3 DEF DataAnswered, Call
  <2>4. ASSUME n \in Values
        PROVE  /\ last'.delivery # NoDelivery
               /\ last'.delivery.bytes = packet.payload.len
               /\ subscribedSignals[n].size = ValueBytes
    <3>1. last'.delivery # NoDelivery
      BY <1>7, <1>8, <1>15, <2>4 DEF Promised, EveryBlockDelivered, Delivers
    <3>2. PICK id : id = TableOf[n]
      OBVIOUS
    <3>3. PICK sig : sig = subscribedSignals[n]
      OBVIOUS
    <3>4. PICK timeSig : timeSig = subscribedSignals[tables[id].time]
      OBVIOUS
    <3>5. PICK answer : answer = ProcessSignalData(sig, timeSig, packet.payload.len)
      OBVIOUS
    <3>6. PICK t \in Times \cap setup : TableOf[t] = id
      BY <1>5, <1>7, <2>1, <2>4, <3>2 DEF Attainable, Delivers, Tabled, ViewOK
    <3>7. t \in first.described
      BY <1>5, <1>15, <2>4, <3>2, <3>6 DEF Fits, Delivers, TimeFor
    <3>8. tables[id].time = t /\ t # NoTimeSignal
      BY <1>3, <3>6, <3>7, NumberAssumption
         DEF Registered, TablesMatch, Times, Attainable, Delivers
    <3>9. last'.delivery = answer.delivery
      BY <1>3, <1>5, <1>7, <2>1, <2>2, <2>4, <3>2, <3>3, <3>4, <3>5, <3>8, ValueRead
    <3>10. /\ sig \in Signal /\ sig.size = SizeOf(n) /\ timeSig \in Signal
      BY <1>3, <1>5, <2>1, <3>3, <3>4, <3>7, <3>8 DEF Registered, SignalMatches, ViewOK
    <3>11. SizeOf(n) = ValueBytes
      BY <2>4 DEF SizeOf, Values
    <3>12. answer.delivery.bytes = packet.payload.len
      BY <3>1, <3>5, <3>9, <3>10, WholeDelivery
    <3> QED BY <3>1, <3>3, <3>9, <3>10, <3>11, <3>12
  <2> QED BY <1>7, <1>9, <1>15, <2>1, <2>3, <2>4
<1> QED BY <1>10, <1>12, <1>13, <1>14, <1>15

=============================================================================
