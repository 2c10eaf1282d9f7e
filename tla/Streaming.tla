----------------------------- MODULE Streaming ------------------------------
(***************************************************************************)
(* One streaming session end to end: the producer's signals write meta     *)
(* information and data into the stream, the consumer's SignalContainer    *)
(* takes them out again in order.                                          *)
(*                                                                         *)
(* Two threads use the producer: `control' subscribes, unsubscribes and    *)
(* describes signals, `sender' adds data.  StreamWriter's mutex makes each *)
(* packet atomic and nothing else, so a step of a thread ends where it     *)
(* takes or releases that mutex.                                           *)
(*                                                                         *)
(* The library leaves it to the application in which order its calls come. *)
(* Discipline says which of the rules below the application keeps.         *)
(***************************************************************************)
EXTENDS SignalContainer, Sequences, FiniteSetsExt

CONSTANTS
    Kind,       \* the class of each signal
    TableOf,    \* m_tableId of each signal
    Setups,     \* the sets of signals a session may have
    Starts,     \* time stamps the application starts a table at
    Rates,      \* output rates the application sets, in ticks
    Counts,     \* numbers of values in one addData()
    Indexes,    \* value indices the application gives: of the first value of a
                \* synchronous signal, and with the values of a constant one
    ValueBytes, \* sizeof(DataType)
    Discipline, \* rules the application keeps
    Capacity    \* packets the stream holds before a write blocks

TimeKinds == {"LinearTimeSignal", "ExplicitTimeSignal"}
ValueKinds == {"SynchronousSignal", "AsynchronousSignal", "ConstantSignal"}

Rules ==
    {"oneThreadAtATime",    \* control and sender calls do not overlap
     "subscribedOnce",      \* subscribe() once, everything else while subscribed
     "timeSignalFirst",     \* a time signal is subscribed around its data signals
     "startAfterSubscribe", \* setTimeStart() with a data signal subscribed
     "startBeforeData",     \* addData() only once the table has a start
     "startOfIndexZero",    \* setTimeStart() is given the time of value index 0, whatever
                            \* the index of the next value is
     "rateBeforeSubscribe", \* setOutputRate() only before the time signal is subscribed
     "tupleAtTableTime"}    \* an asynchronous value is given with the time told last

ASSUME StreamingAssumption ==
    /\ Kind \in [SignalNumbers -> TimeKinds \cup ValueKinds]
    /\ TableOf \in [SignalNumbers -> TableIds]
    /\ Setups \subseteq SUBSET SignalNumbers
    /\ Starts \subseteq Word /\ Rates \subseteq Word \ {0}
    /\ Counts \subseteq Nat \ {0} /\ Indexes \subseteq Word /\ ValueBytes \in Nat \ {0}
    /\ Discipline \subseteq Rules /\ Capacity \in Nat \ {0}

VARIABLES
    setup,      \* the signals of this session
    channel,    \* packets written and not yet read
    valueIndex, \* m_valueIndex of each synchronous signal
    rate,       \* m_outputRateInTicks of each linear time signal
    control,    \* where the control thread is in a call
    sender,     \* where the data thread is in a call
    acked,      \* signals whose last acknowledgement written is a subscribe
    started,    \* time signals given a start since they were subscribed
    nextTime,   \* time stamp of the next value, by what the application told
    received    \* the packet the consumer took last

producerVars == <<setup, valueIndex, rate, control, sender, acked, started, nextTime>>
consumerVars == <<containerVars, received>>
streamVars == <<producerVars, consumerVars, channel>>

-----------------------------------------------------------------------------
Keeps(rule) == rule \in Discipline

Times == {n \in SignalNumbers : Kind[n] \in TimeKinds}
Values == SignalNumbers \ Times
DataOf(t) == {n \in Values \cap setup : TableOf[n] = TableOf[t]}
TimesOf(n) == {t \in Times \cap setup : TableOf[t] = TableOf[n]}

Unset == Absent
Idle == [step |-> "idle"]
NoPacket == [kind |-> "none", signal |-> NoTimeSignal]

\* Mutant of Write: a write that does not wait for room.
WriteUnbounded(packet) == channel' = Append(channel, packet)

\* One locked write of StreamWriter; it blocks while the stream is full.
Write(packet) ==
    /\ Len(channel) < Capacity
    /\ channel' = Append(channel, packet)

Advance(time, ticks) == IF time = Unset THEN Unset ELSE (time + ticks) % Wrap

-----------------------------------------------------------------------------
(* The control thread: BaseSignal::subscribe() writes the acknowledgement,  *)
(* composes the description from the members as they are, and writes it.    *)

ControlMayStart ==
    /\ control = Idle
    /\ Keeps("oneThreadAtATime") => sender = Idle

Subscribe(n) ==
    /\ ControlMayStart
    /\ n \in setup
    /\ Keeps("subscribedOnce") => n \notin acked
    /\ Keeps("timeSignalFirst") => TimesOf(n) \subseteq acked \cup {n}
    /\ Write([kind |-> "subscribe", signal |-> n])
    /\ acked' = acked \cup {n}
    /\ control' = [step |-> "compose", signal |-> n]
    /\ UNCHANGED <<valueIndex, rate, sender, started, nextTime, setup, consumerVars>>

\* writeSignalMetaInformation() called by the application after a change.
DescribeAgain(n) ==
    /\ ControlMayStart
    /\ Keeps("subscribedOnce") => n \in acked
    /\ control' = [step |-> "compose", signal |-> n]
    /\ UNCHANGED <<channel, valueIndex, rate, sender, acked, started, nextTime, setup, consumerVars>>

\* What writeSignalMetaInformation() of each class puts into "signal".
Params(n, index, delta, rule, bytes) ==
    [tableId |-> TableOf[n], valueIndex |-> index, fault |-> "none",
     definition |-> [delta |-> delta, rule |-> rule, size |-> bytes,
                     quantityTime |-> n \in Times]]

LinearTimeDescription(n) == Params(n, Absent, rate[n], "linear", IndexBytes)

ExplicitTimeDescription(n) == Params(n, Absent, Absent, "explicit", IndexBytes)

\* Mutant of SynchronousDescription: "valueIndex" is left out.
SynchronousDescriptionWithoutIndex(n) == Params(n, Absent, Absent, "explicit", ValueBytes)

SynchronousDescription(n) == Params(n, valueIndex[n], Absent, "explicit", ValueBytes)

AsynchronousDescription(n) == Params(n, Absent, Absent, "explicit", ValueBytes)

ConstantDescription(n) == Params(n, Absent, Absent, "constant", ValueBytes)

Description(n) ==
    CASE Kind[n] = "LinearTimeSignal"   -> LinearTimeDescription(n)
      [] Kind[n] = "ExplicitTimeSignal" -> ExplicitTimeDescription(n)
      [] Kind[n] = "SynchronousSignal"  -> SynchronousDescription(n)
      [] Kind[n] = "AsynchronousSignal" -> AsynchronousDescription(n)
      [] Kind[n] = "ConstantSignal"     -> ConstantDescription(n)

\* Mutant of ComposeDescription: subscribe() stops after the acknowledgement.
ForgetDescription ==
    /\ control.step = "compose"
    /\ control' = Idle
    /\ UNCHANGED <<channel, valueIndex, rate, sender, acked, started, nextTime, setup, consumerVars>>

ComposeDescription ==
    /\ control.step = "compose"
    /\ control' = [step |-> "write", signal |-> control.signal,
                   params |-> Description(control.signal)]
    /\ UNCHANGED <<channel, valueIndex, rate, sender, acked, started, nextTime, setup, consumerVars>>

WriteDescription ==
    /\ control.step = "write"
    /\ Write([kind |-> "signal", signal |-> control.signal, params |-> control.params])
    /\ control' = Idle
    /\ UNCHANGED <<valueIndex, rate, sender, acked, started, nextTime, setup, consumerVars>>

Unsubscribe(n) ==
    /\ ControlMayStart
    /\ Keeps("subscribedOnce") => n \in acked
    /\ Keeps("timeSignalFirst") /\ n \in Times => DataOf(n) \cap acked = {}
    /\ Write([kind |-> "unsubscribe", signal |-> n])
    /\ acked' = acked \ {n}
    /\ started' = started \ {n}
    /\ UNCHANGED <<valueIndex, rate, control, sender, nextTime, setup, consumerVars>>

\* LinearTimeSignal::setOutputRate() only stores; the next description tells it.
SetOutputRate(t, ticks) ==
    /\ ControlMayStart
    /\ t \in setup /\ Kind[t] = "LinearTimeSignal"
    /\ Keeps("rateBeforeSubscribe") => t \notin acked
    /\ rate' = [rate EXCEPT ![t] = ticks]
    /\ UNCHANGED <<channel, valueIndex, control, sender, acked, started, nextTime, setup, consumerVars>>

-----------------------------------------------------------------------------
(* The data thread. *)

SenderMayStart ==
    /\ sender = Idle
    /\ Keeps("oneThreadAtATime") => control = Idle

\* The time stamp of the next value of n, to an application that gives its table a
\* start: that time itself, as setTimeStart() is documented, or counted from index 0.
MeantByStart(n, t, ticks) ==
    IF /\ Keeps("startOfIndexZero")
       /\ Kind[t] = "LinearTimeSignal" /\ Kind[n] = "SynchronousSignal"
    THEN (ticks + valueIndex[n] * rate[t]) % Wrap
    ELSE ticks

\* BaseDomainSignal::setTimeStart(): the block is index 0 and the time stamp,
\* whatever the value index of the data signals is.
SetTimeStart(t, ticks) ==
    /\ SenderMayStart
    /\ Keeps("subscribedOnce") => t \in acked
    /\ Keeps("startAfterSubscribe") => DataOf(t) \cap acked # {}
    /\ Write([kind |-> "data", signal |-> t, truth |-> Unset,
              payload |-> [len |-> 2 * IndexBytes, first |-> 0, second |-> ticks]])
    /\ started' = started \cup {t}
    /\ nextTime' = [n \in SignalNumbers |->
                        IF n \in DataOf(t) THEN MeantByStart(n, t, ticks) ELSE nextTime[n]]
    /\ UNCHANGED <<valueIndex, rate, control, sender, acked, setup, consumerVars>>

MayAdd(n) ==
    /\ SenderMayStart
    /\ Keeps("subscribedOnce") => n \in acked
    /\ Keeps("startBeforeData") => TimesOf(n) \subseteq started

\* `first' is the index in front of constant values; the values themselves are left out.
Block(n, bytes, count, first, truth) ==
    [kind |-> "data", signal |-> n, count |-> count, truth |-> truth,
     payload |-> [len |-> count * bytes, first |-> first, second |-> 0]]

\* The ticks between two values of a table with linear time.
Delta(n) == IF TimesOf(n) = {} THEN 0 ELSE rate[CHOOSE t \in TimesOf(n) : TRUE]

\* SynchronousSignal::addData() counts first, then writes.
CountValues(n, count) ==
    /\ Kind[n] = "SynchronousSignal"
    /\ MayAdd(n)
    /\ valueIndex' = [valueIndex EXCEPT ![n] = (@ + count) % Wrap]
    /\ nextTime' = [nextTime EXCEPT ![n] = Advance(@, count * Delta(n))]
    /\ sender' = [step |-> "write", packet |-> Block(n, ValueBytes, count, 0, nextTime[n])]
    /\ UNCHANGED <<channel, rate, control, acked, started, setup, consumerVars>>

WriteValues ==
    /\ sender.step = "write"
    /\ Write(sender.packet)
    /\ sender' = Idle
    /\ UNCHANGED <<valueIndex, rate, control, acked, started, nextTime, setup, consumerVars>>

\* AsynchronousSignal::addData(): one block per value; the time stamp of the tuple
\* is not written.
AddTuple(n, ticks) ==
    /\ Kind[n] = "AsynchronousSignal"
    /\ MayAdd(n)
    /\ Keeps("tupleAtTableTime") => ticks = nextTime[n]
    /\ Write(Block(n, ValueBytes, 1, 0, ticks))
    /\ UNCHANGED <<producerVars, consumerVars>>

\* Mutant of AddConstant: values without their index.
AddConstantBare(n, index, count) ==
    /\ Kind[n] = "ConstantSignal"
    /\ MayAdd(n)
    /\ Write(Block(n, IndexBytes + ValueBytes, count, 0, Advance(nextTime[n], index * Delta(n))))
    /\ UNCHANGED <<producerVars, consumerVars>>

\* ConstantSignal::addData(): each value with its index in front.  The first one holds
\* from the time of the first index on; the indices behind it play no part in that.
AddConstant(n, index, count) ==
    /\ Kind[n] = "ConstantSignal"
    /\ MayAdd(n)
    /\ Write(Block(n, IndexBytes + ValueBytes, count, index, Advance(nextTime[n], index * Delta(n))))
    /\ UNCHANGED <<producerVars, consumerVars>>

-----------------------------------------------------------------------------
(* The consumer: ProtocolHandler hands each packet to the container. *)

Receive ==
    /\ channel # <<>>
    /\ received' = Head(channel)
    /\ channel' = Tail(channel)
    /\ LET packet == Head(channel)
           n      == packet.signal
       IN  \/ packet.kind = "subscribe" /\ SubscribeAck(n, "ok")
           \/ packet.kind = "unsubscribe" /\ UnsubscribeAck(n)
           \/ packet.kind = "signal" /\ SignalMeta(n, packet.params)
           \/ packet.kind = "data" /\ MeasuredData(n, packet.payload)
    /\ UNCHANGED producerVars

StreamInit ==
    /\ ContainerInit
    /\ setup \in Setups
    /\ channel = <<>>
    /\ valueIndex \in [SignalNumbers -> Indexes \cup {0}]
    /\ \A n \in SignalNumbers :
           valueIndex[n] # 0 => n \in setup /\ Kind[n] = "SynchronousSignal"
    /\ rate \in [Times -> Rates]
    /\ \A t \in Times : t \notin setup \/ Kind[t] = "ExplicitTimeSignal" => rate[t] = Min(Rates)
    /\ control = Idle /\ sender = Idle
    /\ acked = {} /\ started = {}
    /\ nextTime = [n \in SignalNumbers |-> Unset]
    /\ received = NoPacket

StreamNext ==
    \/ \E n \in SignalNumbers : Subscribe(n) \/ DescribeAgain(n) \/ Unsubscribe(n)
    \/ \E t \in Times, ticks \in Rates : SetOutputRate(t, ticks)
    \/ ComposeDescription
    \/ WriteDescription
    \/ \E t \in Times, ticks \in Starts : SetTimeStart(t, ticks)
    \/ \E n \in Values, count \in Counts : CountValues(n, count)
    \/ WriteValues
    \/ \E n \in Values, ticks \in Starts : AddTuple(n, ticks)
    \/ \E n \in Values, index \in Indexes, count \in Counts : AddConstant(n, index, count)
    \/ Receive

\* A call that was begun is finished and what was written is read; nothing makes
\* the application begin a call.
Fairness ==
    /\ WF_streamVars(ComposeDescription \/ WriteDescription)
    /\ WF_streamVars(WriteValues)
    /\ WF_streamVars(Receive)

StreamSpec == StreamInit /\ [][StreamNext]_streamVars /\ Fairness

-----------------------------------------------------------------------------
StreamTypeOK ==
    /\ ContainerTypeOK
    /\ setup \in Setups
    /\ Len(channel) <= Capacity
    /\ \A i \in DOMAIN channel : channel[i].signal \in SignalNumbers
    /\ valueIndex \in [SignalNumbers -> Word]
    /\ rate \in [Times -> Word \ {0}]
    /\ control.step \in {"idle", "compose", "write"}
    /\ sender.step \in {"idle", "write"}
    /\ acked \subseteq SignalNumbers /\ started \subseteq Times
    /\ nextTime \in [SignalNumbers -> Word \cup {Unset}]

Described(n) == Live(n) /\ subscribedSignals[n].tableId # NoTableId

InFlight(n, kinds) ==
    {i \in DOMAIN channel : channel[i].signal = n /\ channel[i].kind \in kinds}

\* The block received last has values of this class, in a table with this kind of time,
\* and the application had dated it.
DatedBlock(valueKind, timeKind) ==
    /\ received.kind = "data" /\ received.truth # Unset /\ last.delivery # NoDelivery
    /\ Kind[received.signal] = valueKind
    /\ \E t \in TimesOf(received.signal) : Kind[t] = timeKind

\* The time stamp the data callback gets for a block of a synchronous signal is the one the
\* application gave its first value, "Absolute time stamp of the first value"
\* (SubscribedSignal.hpp:44), by setTimeStart() and the values added since
\* (BaseDomainSignal.cpp:101-115 and SynchronousSignal.hpp:60 against SubscribedSignal.cpp:54).
TimeStampsTrue ==
    DatedBlock("SynchronousSignal", "LinearTimeSignal") => last.delivery.time = received.truth

\* The same of constant values, whose time is that of the index in front of them
\* (ConstantSignal.hpp:47-63 against SubscribedSignal.cpp:62-69).
ConstantStampsTrue ==
    DatedBlock("ConstantSignal", "LinearTimeSignal") => last.delivery.time = received.truth

\* What the data callback is given is enough to date constant values: the time stamp, the
\* index in front of the first value and linearDelta() of the signal
\* (SubscribedSignal.cpp:47-69, SubscribedSignal.hpp:173).
ConstantsDatable ==
    DatedBlock("ConstantSignal", "LinearTimeSignal") =>
        received.truth = (last.delivery.time
                          + received.payload.first * subscribedSignals[received.signal].delta) % Wrap

\* The same of a table with explicit time, where setTimeStart() tells the time stamp of
\* each value and "for explicit time rule, there is no value index"
\* (SignalContainer.cpp:151).
ExplicitTimeStampsTrue ==
    DatedBlock("AsynchronousSignal", "ExplicitTimeSignal") => last.delivery.time = received.truth

\* No block of values is dropped, split or counted wrongly on its way to the data
\* callbacks (SignalContainer.cpp:182-199, SubscribedSignal.cpp:36-98).
EveryBlockDelivered ==
    received.kind = "data" /\ received.signal \in Values =>
        /\ last.delivery # NoDelivery
        /\ last.delivery.count = received.count

\* The consumer counts values as the producer does: its value index for a described
\* signal plus the values on their way is the producer's index
\* (SynchronousSignal.hpp:62 against SubscribedSignal.cpp:60).
IndexesAgree ==
    \A n \in Values :
        /\ Kind[n] = "SynchronousSignal"
        /\ Described(n)
        /\ InFlight(n, {"subscribe", "unsubscribe", "signal"}) = {}
        => LET onTheWay == MapThenSumSet(LAMBDA i : channel[i].count,
                                         InFlight(n, {"data"}))
               counted  == IF sender # Idle /\ sender.packet.signal = n
                           THEN sender.packet.count ELSE 0
           IN  (subscribedSignals[n].index + onTheWay + counted) % Wrap = valueIndex[n]

\* The consumer's register follows the producer's acknowledgements: what is on its
\* way turns the one into the other, and the session is never closed over it
\* (BaseSignal.cpp:24-38 against SignalContainer.cpp:69-103).
SubscriptionsFollow ==
    /\ status = "open"
    /\ \A n \in SignalNumbers :
           LET acks == InFlight(n, {"subscribe", "unsubscribe"})
           IN  n \in acked <=>
                   IF acks = {} THEN n \in DOMAIN subscribedSignals
                   ELSE channel[Max(acks)].kind = "subscribe"

\* A subscribed signal is described to the consumer, or unsubscribed again: the
\* description subscribe() writes behind the acknowledgement gets through the full
\* stream and is accepted (BaseSignal.cpp:24-31, SignalContainer.cpp:111-128).
SubscribedGetsDescribed ==
    \A n \in SignalNumbers : (n \in acked) ~> (Described(n) \/ n \notin acked)
=============================================================================
