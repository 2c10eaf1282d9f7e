------------------------- MODULE SignalDescription --------------------------
(***************************************************************************)
(* What a signal's description says besides its table and its timing:      *)
(* name, unit, range, scaling, related signals, interpretation object,     *)
(* resolution and epoch, and the type of its values.  One producer signal  *)
(* and the SubscribedSignal that reads its packets.                        *)
(*                                                                         *)
(* A description is the function of the attributes that are composed.  An  *)
(* attribute that has its default is left out, and the consumer keeps what *)
(* a description leaves out.                                               *)
(***************************************************************************)
EXTENDS Integers, Sequences, Functions, FiniteSets

CONSTANTS
    Units,              \* units the application sets: [unitId, displayName, quantity]
    Ranges,             \* [low, high]
    PostScalings,       \* [offset, scale]
    RelatedSignals,     \* sets of <<type, signal id>>
    Names, Interpretations, Epochs, TicksPerSecond, StartValues,
    NoUnitId, Lowest, Highest, NullJson,    \* the defaults that mean "none"
    Counts,             \* numbers of values in a block
    Digits,             \* significant binary digits of the values
    MaxCalls,           \* calls of setters in a behaviour
    Capacity            \* packets the stream holds

TimeClasses == {"LinearTimeSignal", "ExplicitTimeSignal"}
ValueClasses == {"SynchronousSignal", "AsynchronousSignal", "ConstantSignal"}

NoUnit == [unitId |-> NoUnitId, displayName |-> "", quantity |-> ""]
Unlimited == [low |-> Lowest, high |-> Highest]
OneToOne == [offset |-> 0, scale |-> 1]
Second == [unitId |-> "seconds", displayName |-> "s", quantity |-> "time"]

ASSUME DescriptionAssumption ==
    /\ Counts \subseteq Nat \ {0} /\ Digits \subseteq Nat /\ MaxCalls \in Nat /\ Capacity \in Nat \ {0, 1}
    /\ NoUnit \in Units /\ \A unit \in Units : DOMAIN unit = DOMAIN NoUnit
    /\ Unlimited \in Ranges /\ \A range \in Ranges : DOMAIN range = DOMAIN Unlimited
    /\ OneToOne \in PostScalings
    /\ \A scaling \in PostScalings : DOMAIN scaling = DOMAIN OneToOne
    /\ {} \in RelatedSignals /\ NullJson \in Interpretations
    /\ TicksPerSecond \subseteq Nat /\ "value" \in Names

VARIABLES
    class, type,    \* the class template and its DataType, fixed at construction
    member,         \* the attributes of the producer's signal
    channel,        \* packets written and not yet read
    consumer,       \* the SubscribedSignal, or NoSignal
    status,         \* "refused" once a description is refused: the session ends
    acked,          \* the last acknowledgement written is a subscribe
    told,           \* what the last description written was composed from
    earlier,        \* what earlier ones since that acknowledgement were composed from
    read,           \* the packet taken last, if a block: its values as sent and converted
    calls

descriptionVars == <<class, type, member, channel, consumer, status, acked,
                     told, earlier, read, calls>>

-----------------------------------------------------------------------------
(* The type of the values: the producer's tables and the consumer's. *)

\* The types the value classes are instantiated for; time stamps are uint64_t.
DataTypes(c) ==
    LET numbers == {"int8_t", "uint8_t", "int16_t", "uint16_t", "int32_t",
                    "uint32_t", "int64_t", "uint64_t", "float", "double"}
    IN  CASE c \in TimeClasses -> {"uint64_t"}
          [] c = "ConstantSignal" -> numbers
          [] OTHER -> numbers \cup {"Complex32Type", "Complex64Type"}

SizeOf ==
    [int8_t |-> 1, uint8_t |-> 1, int16_t |-> 2, uint16_t |-> 2, int32_t |-> 4,
     uint32_t |-> 4, int64_t |-> 8, uint64_t |-> 8, float |-> 4, double |-> 8,
     Complex32Type |-> 8, Complex64Type |-> 16]

\* The most significant binary digits a value of the type, or a part of it, can have.
SignificantDigits ==
    [int8_t |-> 7, uint8_t |-> 8, int16_t |-> 15, uint16_t |-> 16, int32_t |-> 31,
     uint32_t |-> 32, int64_t |-> 63, uint64_t |-> 64, float |-> 24, double |-> 53,
     Complex32Type |-> 24, Complex64Type |-> 53]

\* Mutant of SynchronousDataType: the name of the narrower type.
SynchronousDataTypeNarrow ==
    [int8_t |-> "int8", uint8_t |-> "uint8", int16_t |-> "int16", uint16_t |-> "uint16",
     int32_t |-> "int32", uint32_t |-> "uint32", int64_t |-> "int64", uint64_t |-> "uint64",
     float |-> "real32", double |-> "real64",
     Complex32Type |-> "complex32", Complex64Type |-> "complex32"]

\* "dataType" in what getMemberInformation() returns.
SynchronousDataType ==
    [int8_t |-> "int8", uint8_t |-> "uint8", int16_t |-> "int16", uint16_t |-> "uint16",
     int32_t |-> "int32", uint32_t |-> "uint32", int64_t |-> "int64", uint64_t |-> "uint64",
     float |-> "real32", double |-> "real64",
     Complex32Type |-> "complex32", Complex64Type |-> "complex64"]

AsynchronousDataType == SynchronousDataType

ConstantDataType == Restrict(SynchronousDataType, DataTypes("ConstantSignal"))

DataTypeName(c, t) ==
    CASE c = "SynchronousSignal"  -> SynchronousDataType[t]
      [] c = "AsynchronousSignal" -> AsynchronousDataType[t]
      [] c = "ConstantSignal"     -> ConstantDataType[t]
      [] c \in TimeClasses        -> "uint64"

Rule(c) ==
    CASE c = "LinearTimeSignal" -> "linear"
      [] c = "ConstantSignal"   -> "constant"
      [] OTHER                  -> "explicit"

SynchronousSampleType ==
    [int8_t |-> "S8", uint8_t |-> "U8", int16_t |-> "S16", uint16_t |-> "U16",
     int32_t |-> "S32", uint32_t |-> "U32", int64_t |-> "S64", uint64_t |-> "U64",
     float |-> "REAL32", double |-> "REAL64",
     Complex32Type |-> "COMPLEX32", Complex64Type |-> "COMPLEX64"]

AsynchronousSampleType == SynchronousSampleType

ConstantSampleType == Restrict(SynchronousSampleType, DataTypes("ConstantSignal"))

\* BaseValueSignal::getSampleType(); domain signals have no such method.
GetSampleType(c, t) ==
    CASE c = "SynchronousSignal"  -> SynchronousSampleType[t]
      [] c = "AsynchronousSignal" -> AsynchronousSampleType[t]
      [] c = "ConstantSignal"     -> ConstantSampleType[t]

\* What the consumer makes of "dataType": m_dataValueSize and m_dataValueType.
DataTypeSize ==
    [int8 |-> 1, uint8 |-> 1, int16 |-> 2, uint16 |-> 2, int32 |-> 4, uint32 |-> 4,
     int64 |-> 8, uint64 |-> 8, real32 |-> 4, real64 |-> 8,
     complex32 |-> 8, complex64 |-> 16]

DataValueType ==
    [int8 |-> "S8", uint8 |-> "U8", int16 |-> "S16", uint16 |-> "U16",
     int32 |-> "S32", uint32 |-> "U32", int64 |-> "S64", uint64 |-> "U64",
     real32 |-> "REAL32", real64 |-> "REAL64",
     complex32 |-> "COMPLEX32", complex64 |-> "COMPLEX64"]

\* Mutant of ConvertedAs: 32 bit values are read as signed, too.
ConvertedAsSigned ==
    [S8 |-> "int8_t", U8 |-> "uint8_t", S16 |-> "int16_t", U16 |-> "uint16_t",
     S32 |-> "int32_t", U32 |-> "int32_t", S64 |-> "int64_t", U64 |-> "int64_t",
     REAL32 |-> "float", REAL64 |-> "double"]

\* The type whose representation interpretValuesAsDouble() copies values into;
\* sample types that are not here are not converted.
ConvertedAs ==
    [S8 |-> "int8_t", U8 |-> "uint8_t", S16 |-> "int16_t", U16 |-> "uint16_t",
     S32 |-> "int32_t", U32 |-> "uint32_t", S64 |-> "int64_t", U64 |-> "int64_t",
     REAL32 |-> "float", REAL64 |-> "double"]

-----------------------------------------------------------------------------
(* The producer's members and their composition. *)

\* m with the attributes of part set.
With(m, part) == [a \in DOMAIN m |-> IF a \in DOMAIN part THEN part[a] ELSE m[a]]

NewMember(epoch, ticks, start) ==
    [start |-> start, unitId |-> NoUnitId, displayName |-> "", quantity |-> "", low |-> Lowest,
     high |-> Highest, offset |-> 0, scale |-> 1, related |-> {}, name |-> "value",
     interpretation |-> NullJson, epoch |-> epoch, ticks |-> ticks]

\* Unit::compose(): nothing without a unit id, the quantity only if there is one.
ComposedUnit(m) ==
    IF m.unitId = NoUnitId THEN {}
    ELSE {"unitId", "displayName"} \cup (IF m.quantity = "" THEN {} ELSE {"quantity"})

\* Range::compose(): each limit on its own.
ComposedRange(m) ==
    (IF m.low = Lowest THEN {} ELSE {"low"}) \cup (IF m.high = Highest THEN {} ELSE {"high"})

\* Mutant of ComposedPostScaling: a part that is neutral is left out.
ComposedPostScalingParts(m) ==
    (IF m.offset = 0 THEN {} ELSE {"offset"}) \cup (IF m.scale = 1 THEN {} ELSE {"scale"})

\* PostScaling::compose(): both or none.
ComposedPostScaling(m) == IF Restrict(m, DOMAIN OneToOne) = OneToOne THEN {} ELSE DOMAIN OneToOne

ComposedRelated(m) == IF m.related = {} THEN {} ELSE {"related"}

\* The default start value a constant signal may have.
ComposedStart(m) == IF m.start = NullJson THEN {} ELSE {"start"}

ComposedInterpretation(m) == IF m.interpretation = NullJson THEN {} ELSE {"interpretation"}

\* The attributes writeSignalMetaInformation() puts into the description.
Composed(c, m) ==
    ComposedInterpretation(m) \cup
    (IF c \in TimeClasses
     THEN {"name", "epoch", "ticks"} \cup DOMAIN Second
     ELSE {"name"} \cup ComposedUnit(m) \cup ComposedRange(m)
              \cup ComposedPostScaling(m) \cup ComposedRelated(m) \cup ComposedStart(m))

\* A domain signal's name and unit are fixed.
Described(c, m) == IF c \in TimeClasses THEN [With(m, Second) EXCEPT !.name = "time"] ELSE m

Packet(m) ==
    [kind |-> "signal", dataType |-> DataTypeName(class, type), rule |-> Rule(class),
     given |-> Restrict(Described(class, m), Composed(class, m))]

-----------------------------------------------------------------------------
(* Setters only store; the next description tells. *)

Change(m) ==
    /\ calls < MaxCalls
    /\ calls' = calls + 1
    /\ member' = m
    /\ UNCHANGED <<class, type, channel, consumer, status, acked, told, earlier, read>>

IsDataSignal == class \in ValueClasses

SetUnit(unit) == IsDataSignal /\ Change(With(member, unit))

\* setUnit(unitId, displayName) leaves the quantity as it is.
SetUnitIdAndName(unit) ==
    IsDataSignal /\ Change([member EXCEPT !.unitId = unit.unitId, !.displayName = unit.displayName])

SetRange(range) == IsDataSignal /\ Change(With(member, range))

ClearRange == IsDataSignal /\ Change(With(member, Unlimited))

SetPostScaling(scaling) == IsDataSignal /\ Change(With(member, scaling))

ClearPostScaling == IsDataSignal /\ Change(With(member, OneToOne))

SetRelatedSignals(related) == IsDataSignal /\ Change([member EXCEPT !.related = related])

SetMemberName(name) == IsDataSignal /\ Change([member EXCEPT !.name = name])

SetInterpretationObject(object) == Change([member EXCEPT !.interpretation = object])

SetEpoch(epoch) == ~IsDataSignal /\ Change([member EXCEPT !.epoch = epoch])

SetTimeTicksPerSecond(ticks) == ~IsDataSignal /\ Change([member EXCEPT !.ticks = ticks])

-----------------------------------------------------------------------------
(* Packets, in the order one thread writes them. *)

Write(packets) ==
    /\ Len(channel) + Len(packets) <= Capacity
    /\ channel' = channel \o packets

Subscribe ==
    /\ ~acked
    /\ Write(<<[kind |-> "subscribe"], Packet(member)>>)
    /\ acked' = TRUE
    /\ told' = member
    /\ earlier' = {}
    /\ UNCHANGED <<class, type, member, consumer, status, read, calls>>

DescribeAgain ==
    /\ acked
    /\ Write(<<Packet(member)>>)
    /\ told' = member
    /\ earlier' = earlier \cup {told}
    /\ UNCHANGED <<class, type, member, consumer, status, acked, read, calls>>

Unsubscribe ==
    /\ acked
    /\ Write(<<[kind |-> "unsubscribe"]>>)
    /\ acked' = FALSE
    /\ UNCHANGED <<class, type, member, consumer, status, told, earlier, read, calls>>

EntryBytes(size, rule) == IF rule = "explicit" THEN size ELSE 8 + size

\* A value is known by its type, the topmost bit of its representation and the number of
\* digits from its first to its last one that is not 0.
AddData(count, topBit, digits) ==
    /\ acked /\ IsDataSignal
    /\ digits <= SignificantDigits[type]
    /\ Write(<<[kind |-> "data", topBit |-> topBit, digits |-> digits, values |-> count,
                bytes |-> count * EntryBytes(SizeOf[type], Rule(class))]>>)
    /\ UNCHANGED <<class, type, member, consumer, status, acked, told, earlier, read, calls>>

-----------------------------------------------------------------------------
(* The consumer. *)

NoSignal == [known |-> "no"]

NewConsumer ==
    [known |-> "acknowledged", size |-> 4, sampleType |-> "UNKNOWN", rule |-> "explicit",
     attributes |-> [NewMember("", 1, NullJson) EXCEPT !.name = ""]]

\* Every parse() keeps what is missing.
Parse(old, given) == With(old, given)

\* A description is refused when its resolution is 0; what stands before the
\* resolution is stored by then.
ReadDescription(packet) ==
    LET refused == "ticks" \in DOMAIN packet.given /\ packet.given.ticks = 0
        stored  == IF refused
                   THEN Restrict(packet.given, DOMAIN packet.given \cap
                                     ({"interpretation", "name"} \cup DOMAIN NoUnit))
                   ELSE packet.given
    IN  /\ consumer' = [known |-> IF refused THEN consumer.known ELSE "described",
                        size |-> DataTypeSize[packet.dataType],
                        sampleType |-> DataValueType[packet.dataType], rule |-> packet.rule,
                        attributes |-> Parse(consumer.attributes, stored)]
        /\ status' = IF refused THEN "refused" ELSE status

Integral == {t \in DOMAIN SizeOf :
                 t \notin {"float", "double", "Complex32Type", "Complex64Type"}}

\* The data callback for a block, which has interpretValuesAsDouble() convert it: how
\* many values come out, and whether they are the ones sent.  Two integral types of the
\* same width differ in the values with the topmost bit set, and the cast to double rounds
\* what its significand cannot hold.
Convert(packet) ==
    LET known == consumer.sampleType \in DOMAIN ConvertedAs
        as    == ConvertedAs[consumer.sampleType]
        count == packet.bytes \div EntryBytes(consumer.size, consumer.rule)
    IN  [sent      |-> packet.values,
         topBit    |-> packet.topBit,
         digits    |-> packet.digits,
         count     |-> count,
         converted |-> IF known THEN count ELSE 0,
         same      |-> /\ known
                       /\ EntryBytes(SizeOf[as], consumer.rule)
                          = EntryBytes(SizeOf[type], Rule(class))
                       /\ packet.digits <= SignificantDigits["double"]
                       /\ as = type \/ ({as, type} \subseteq Integral /\ ~packet.topBit)]

NotRead == [sent |-> 0, topBit |-> FALSE, digits |-> 0, count |-> 0, converted |-> 0, same |-> TRUE]

Receive ==
    /\ status = "open" /\ channel # <<>>
    /\ channel' = Tail(channel)
    /\ LET packet == Head(channel)
       IN  \/ /\ packet.kind = "subscribe"
              /\ consumer' = NewConsumer
              /\ read' = NotRead /\ UNCHANGED status
           \/ /\ packet.kind = "unsubscribe"
              /\ consumer' = NoSignal
              /\ read' = NotRead /\ UNCHANGED status
           \/ /\ packet.kind = "signal"
              /\ ReadDescription(packet)
              /\ read' = NotRead
           \/ /\ packet.kind = "data"
              /\ read' = Convert(packet)
              /\ UNCHANGED <<consumer, status>>
    /\ UNCHANGED <<class, type, member, acked, told, earlier, calls>>

DescriptionInit ==
    /\ class \in TimeClasses \cup ValueClasses
    /\ type \in DataTypes(class)
    /\ \/ class \in TimeClasses /\ \E ticks \in TicksPerSecond : member = NewMember("1970", ticks, NullJson)
       \/ class = "ConstantSignal" /\ \E start \in StartValues : member = NewMember("", 1, start)
       \/ class \in ValueClasses \ {"ConstantSignal"} /\ member = NewMember("", 1, NullJson)
    /\ channel = <<>> /\ consumer = NoSignal /\ status = "open"
    /\ acked = FALSE /\ told = member /\ earlier = {}
    /\ read = NotRead /\ calls = 0

DescriptionNext ==
    \/ \E unit \in Units : SetUnit(unit) \/ SetUnitIdAndName(unit)
    \/ \E range \in Ranges : SetRange(range)
    \/ ClearRange
    \/ \E scaling \in PostScalings : SetPostScaling(scaling)
    \/ ClearPostScaling
    \/ \E related \in RelatedSignals : SetRelatedSignals(related)
    \/ \E name \in Names : SetMemberName(name)
    \/ \E object \in Interpretations : SetInterpretationObject(object)
    \/ \E epoch \in Epochs : SetEpoch(epoch)
    \/ \E ticks \in TicksPerSecond : SetTimeTicksPerSecond(ticks)
    \/ Subscribe \/ DescribeAgain \/ Unsubscribe
    \/ \E count \in Counts, topBit \in BOOLEAN, digits \in Digits :
           AddData(count, topBit, digits)
    \/ Receive

DescriptionSpec == DescriptionInit /\ [][DescriptionNext]_descriptionVars

-----------------------------------------------------------------------------
DescriptionTypeOK ==
    /\ class \in TimeClasses \cup ValueClasses /\ type \in DataTypes(class)
    /\ DOMAIN member = DOMAIN NewConsumer.attributes
    /\ Len(channel) <= Capacity
    /\ consumer.known \in {"no", "acknowledged", "described"}
    /\ status \in {"open", "refused"}
    /\ acked \in BOOLEAN /\ calls \in 0 .. MaxCalls
    /\ read.sent \in Nat /\ read.count \in Nat

NothingOnTheWay(kinds) == \A i \in DOMAIN channel : channel[i].kind \notin kinds

\* What is told together, and when it may be left out of a description.
Groups == {{"unitId", "displayName"}, {"quantity"}, {"low"}, {"high"}, {"offset", "scale"},
           {"related"}, {"start"}, {"name"}, {"interpretation"}, {"epoch"}, {"ticks"}}

Neutral(group, m) ==
    CASE group = {"unitId", "displayName"} -> m.unitId = NoUnitId
      [] group = {"quantity"} -> m.unitId = NoUnitId \/ m.quantity = ""
      [] OTHER -> Restrict(m, group) = Restrict(NewConsumer.attributes, group)

\* Once no description is on its way the consumer shows what the producer told last,
\* group by group.  The one exception is what was told last as "none": there it shows
\* none or something told earlier in this subscription.  Nothing is left over from an
\* earlier subscription, and no group is a mixture of two descriptions
\* (Types.cpp:52-75 and 101-123, Unit.cpp:22-52, SubscribedSignal.cpp:209-443).
ConsumerKnowsDescription ==
    /\ consumer.known = "described" /\ status = "open"
    /\ NothingOnTheWay({"signal", "subscribe", "unsubscribe"})
    => \A group \in Groups :
           LET shown    == Restrict(consumer.attributes, group)
               Of(m)    == Restrict(Described(class, m), group)
           IN  \/ shown = Of(told)
               \/ /\ Neutral(group, Described(class, told))
                  /\ \/ shown = Restrict(NewConsumer.attributes, group)
                     \/ \E m \in earlier : shown = Of(m)

\* The consumer's sample type and value size are those of the C++ type the producer's
\* signal was instantiated for (SynchronousSignal.cpp, AsynchronousSignal.cpp and
\* ConstantSignal.cpp against SubscribedSignal.cpp:129-176 and 286-387).
SampleTypesAgree ==
    consumer.known = "described" /\ IsDataSignal =>
        /\ consumer.sampleType = GetSampleType(class, type)
        /\ consumer.size = SizeOf[type]
        /\ consumer.rule = Rule(class)

\* Every block is counted as it was sent, and interpretValuesAsDouble() gives back the
\* values sent.  Complex values are not converted, and two kinds of 64 bit integers come
\* out as others: a uint64_t with its topmost bit set, because U64 is read as int64_t, and
\* whatever has more digits than a double keeps (SubscribedSignal.cpp:453-491,
\* SubscribedSignal.hpp:243 and :253).
ValuesConverted ==
    /\ read.count = read.sent
    /\ \/ /\ read.converted = read.sent
          /\ \/ read.same
             \/ type = "uint64_t" /\ read.topBit
             \/ type \in {"int64_t", "uint64_t"} /\ read.digits > 53
       \/ read.converted = 0 /\ type \in {"Complex32Type", "Complex64Type"}
=============================================================================
