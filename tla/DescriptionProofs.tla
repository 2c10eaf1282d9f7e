------------------------- MODULE DescriptionProofs --------------------------
(***************************************************************************)
(* Proofs about module SignalDescription, for every set of units, ranges,  *)
(* names and other attribute values, every capacity of the stream and any  *)
(* number of setter calls.                                                 *)
(*                                                                         *)
(* The invariant follows the packets on their way.  Lined says which       *)
(* packet may come after which, so that a block of values always meets a   *)
(* consumer that has read a description.  Told says which descriptions of  *)
(* the running subscription are on their way, and Shown what the consumer  *)
(* can have read of them so far.                                           *)
(***************************************************************************)
EXTENDS SignalDescription, SequenceTheorems, TLAPS

Attributes == {"start", "unitId", "displayName", "quantity", "low", "high", "offset", "scale",
               "related", "name", "interpretation", "epoch", "ticks"}

\* What a class has no setter for keeps the value it was constructed with.
MemberOK(m) ==
    /\ DOMAIN m = Attributes
    /\ class \in TimeClasses =>
           /\ m.low = Lowest /\ m.high = Highest /\ m.offset = 0 /\ m.scale = 1
           /\ m.related = {} /\ m.start = NullJson
    /\ class \in ValueClasses => m.epoch = "" /\ m.ticks = 1

MembersOK == MemberOK(member) /\ MemberOK(told) /\ \A m \in earlier : MemberOK(m)

\* A packet some action writes.
Written(p) ==
    \/ p.kind \in {"subscribe", "unsubscribe"}
    \/ p.kind = "signal" /\ p.dataType = DataTypeName(class, type) /\ p.rule = Rule(class)
    \/ /\ p.kind = "data" /\ IsDataSignal
       /\ p.values \in Nat /\ p.topBit \in BOOLEAN
       /\ p.digits \in Nat /\ p.digits <= SignificantDigits[type]
       /\ p.bytes = p.values * EntryBytes(SizeOf[type], Rule(class))

\* A packet of kind `later' may come after one of kind `kind'.
Follows(kind, later) ==
    \/ kind = "subscribe" /\ later = "signal"
    \/ kind \in {"signal", "data"} /\ later \in {"signal", "data", "unsubscribe"}
    \/ kind = "unsubscribe" /\ later = "subscribe"

\* The kind of packet that brought the consumer where it is.
Was == IF consumer.known = "no" THEN "unsubscribe"
       ELSE IF consumer.known = "acknowledged" THEN "subscribe" ELSE "signal"

Last == IF channel = <<>> THEN Was ELSE channel[Len(channel)].kind

IsSequence(packets) == \E S : packets \in Seq(S)

Order(packets) ==
    /\ IsSequence(packets)
    /\ \A i \in 1 .. Len(packets) : Written(packets[i])
    /\ \A i \in 1 .. Len(packets) - 1 : Follows(packets[i].kind, packets[i + 1].kind)

Lined ==
    /\ Order(channel)
    /\ status = "open" /\ channel # <<>> => Follows(Was, channel[1].kind)
    /\ status = "open" \/ channel # <<>> =>
           Last # "subscribe" /\ (acked <=> Last # "unsubscribe")

ConsumerOK ==
    /\ consumer.known \in {"no", "acknowledged", "described"}
    /\ consumer.known # "no" => DOMAIN consumer.attributes = Attributes
    /\ consumer.known = "described" =>
           /\ consumer.sampleType = DataValueType[DataTypeName(class, type)]
           /\ consumer.size = DataTypeSize[DataTypeName(class, type)]
           /\ consumer.rule = Rule(class)

Later(packets, i, kind) == \E j \in i + 1 .. Len(packets) : packets[j].kind = kind

\* Descriptions on their way: one of the running subscription, and the last one of all.
Told ==
    \A i \in 1 .. Len(channel) : channel[i].kind = "signal" =>
        /\ \/ Later(channel, i, "subscribe")
           \/ \E m \in earlier \cup {told} : channel[i] = Packet(m)
        /\ \/ Later(channel, i, "signal")
           \/ channel[i] = Packet(told)

Default(group) == Restrict(NewConsumer.attributes, group)

Of(m, group) == Restrict(Described(class, m), group)

\* What the consumer shows of a group while no later subscription is on its way.
Shown ==
    status = "open" /\ consumer.known # "no" /\ NothingOnTheWay({"subscribe"}) =>
        \A group \in Groups :
            LET shown == Restrict(consumer.attributes, group)
            IN  /\ \/ shown = Default(group)
                   \/ \E m \in earlier \cup {told} : shown = Of(m, group)
                /\ consumer.known = "described" /\ NothingOnTheWay({"signal"}) =>
                       \/ shown = Of(told, group)
                       \/ /\ Neutral(group, Described(class, told))
                          /\ \/ shown = Default(group)
                             \/ \E m \in earlier : shown = Of(m, group)

BlockInv ==
    /\ class \in TimeClasses \cup ValueClasses /\ type \in DataTypes(class)
    /\ status \in {"open", "refused"} /\ acked \in BOOLEAN /\ calls \in 0 .. MaxCalls
    /\ Len(channel) <= Capacity
    /\ MembersOK /\ Lined /\ ConsumerOK
    /\ ValuesConverted /\ read.sent \in Nat /\ read.count \in Nat

-----------------------------------------------------------------------------
(* The tables of types. *)

Complex == {"Complex32Type", "Complex64Type"}

\* What the consumer makes of the producer's name for a type.
LEMMA TypeTables ==
    ASSUME NEW c \in ValueClasses, NEW t \in DataTypes(c)
    PROVE  LET name == DataTypeName(c, t)
               as   == ConvertedAs[DataValueType[name]]
           IN  /\ DataTypeSize[name] = SizeOf[t] /\ SizeOf[t] \in Nat \ {0}
               /\ DataValueType[name] = GetSampleType(c, t)
               /\ t \in Complex => DataValueType[name] \notin DOMAIN ConvertedAs
               /\ t \notin Complex =>
                      /\ DataValueType[name] \in DOMAIN ConvertedAs
                      /\ as = IF t = "uint64_t" THEN "int64_t" ELSE t
               /\ t = "uint64_t" => /\ SizeOf["int64_t"] = SizeOf[t]
                                    /\ {"int64_t", t} \subseteq Integral
               /\ SignificantDigits[t] \in Nat /\ SignificantDigits["double"] = 53
               /\ t \notin {"int64_t", "uint64_t"} => SignificantDigits[t] <= 53
<1>1. c \in {"SynchronousSignal", "AsynchronousSignal", "ConstantSignal"}
  BY DEF ValueClasses
<1>2. t \in {"int8_t", "uint8_t", "int16_t", "uint16_t", "int32_t", "uint32_t", "int64_t",
             "uint64_t", "float", "double", "Complex32Type", "Complex64Type"}
      /\ (c = "ConstantSignal" => t \in DataTypes("ConstantSignal") /\ t \notin Complex)
  BY <1>1 DEF DataTypes, TimeClasses, Complex
<1>3. DataTypeName(c, t) = SynchronousDataType[t] /\ GetSampleType(c, t) = SynchronousSampleType[t]
  BY <1>1, <1>2 DEF DataTypeName, GetSampleType, AsynchronousDataType, ConstantDataType,
        AsynchronousSampleType, ConstantSampleType, Restrict, TimeClasses
<1>4. /\ DataTypeSize[SynchronousDataType[t]] = SizeOf[t] /\ SizeOf[t] \in Nat \ {0}
  BY <1>2 DEF DataTypeSize, SynchronousDataType, SizeOf
<1>5. DataValueType[SynchronousDataType[t]] = SynchronousSampleType[t]
  BY <1>2 DEF DataValueType, SynchronousDataType, SynchronousSampleType
<1>6. t \in Complex => SynchronousSampleType[t] \notin DOMAIN ConvertedAs
  BY <1>2 DEF Complex, SynchronousSampleType, ConvertedAs
<1>7. t \notin Complex =>
          /\ SynchronousSampleType[t] \in DOMAIN ConvertedAs
          /\ ConvertedAs[SynchronousSampleType[t]] = IF t = "uint64_t" THEN "int64_t" ELSE t
  BY <1>2 DEF Complex, SynchronousSampleType, ConvertedAs
<1>8. SizeOf["int64_t"] = SizeOf["uint64_t"] /\ {"int64_t", "uint64_t"} \subseteq Integral
  BY DEF SizeOf, Integral
<1>9. /\ SignificantDigits[t] \in Nat /\ SignificantDigits["double"] = 53
      /\ t \notin {"int64_t", "uint64_t"} => SignificantDigits[t] <= 53
  BY <1>2 DEF SignificantDigits
<1> QED BY <1>3, <1>4, <1>5, <1>6, <1>7, <1>8, <1>9

\* The bytes of whole entries give back their number.
LEMMA WholeBlocks ==
    ASSUME NEW e \in Nat \ {0}, NEW n \in Nat
    PROVE  (n * e) \div e = n
OBVIOUS

\* The values that are known to come out as others.
Altered(r) ==
    \/ type = "uint64_t" /\ r.topBit
    \/ type \in {"int64_t", "uint64_t"} /\ r.digits > 53

\* A block that is read with a description gives back its values.
LEMMA BlockConverted ==
    ASSUME BlockInv, consumer.known = "described", NEW p, Written(p), p.kind = "data",
           NEW r, r = Convert(p)
    PROVE  /\ r.sent \in Nat /\ r.count = r.sent
           /\ \/ r.converted = r.sent /\ (r.same \/ Altered(r))
              \/ r.converted = 0 /\ type \in Complex
<1>1. /\ class \in ValueClasses /\ type \in DataTypes(class)
      /\ p.digits \in Nat /\ p.digits <= SignificantDigits[type]
      /\ p.values \in Nat /\ p.bytes = p.values * EntryBytes(SizeOf[type], Rule(class))
  BY DEF BlockInv, Written, IsDataSignal
<1> DEFINE st == consumer.sampleType
<1>2. /\ consumer.size = SizeOf[type] /\ SizeOf[type] \in Nat \ {0} /\ consumer.rule = Rule(class)
      /\ type \in Complex => st \notin DOMAIN ConvertedAs
      /\ type \notin Complex => st \in DOMAIN ConvertedAs
                 /\ ConvertedAs[st] = IF type = "uint64_t" THEN "int64_t" ELSE type
      /\ type = "uint64_t" => SizeOf["int64_t"] = SizeOf[type]
                 /\ {"int64_t", type} \subseteq Integral
      /\ SignificantDigits["double"] = 53
      /\ p.digits > 53 => type \in {"int64_t", "uint64_t"}
  <2>1. /\ SignificantDigits[type] \in Nat
        /\ type \notin {"int64_t", "uint64_t"} => SignificantDigits[type] <= 53
    BY <1>1, TypeTables
  <2>2. p.digits > 53 => type \in {"int64_t", "uint64_t"}
    BY <1>1, <2>1
  <2> QED BY <1>1, <2>2, TypeTables DEF BlockInv, ConsumerOK
<1> DEFINE e == EntryBytes(SizeOf[type], Rule(class))
<1>3. e \in Nat \ {0}
  BY <1>2 DEF EntryBytes
<1> HIDE DEF e
<1>4. (p.values * e) \div e = p.values
  BY <1>1, <1>3, WholeBlocks
<1>5. p.bytes \div EntryBytes(consumer.size, consumer.rule) = p.values
  BY <1>1, <1>2, <1>4 DEF e
<1>6. /\ r.sent = p.values /\ r.topBit = p.topBit /\ r.digits = p.digits
      /\ r.count = p.values
      /\ r.converted = IF st \in DOMAIN ConvertedAs THEN p.values ELSE 0
      /\ r.same = (/\ st \in DOMAIN ConvertedAs
                   /\ EntryBytes(SizeOf[ConvertedAs[st]], consumer.rule)
                          = EntryBytes(SizeOf[type], Rule(class))
                   /\ p.digits <= SignificantDigits["double"]
                   /\ \/ ConvertedAs[st] = type
                      \/ {ConvertedAs[st], type} \subseteq Integral /\ ~p.topBit)
  BY <1>5 DEF Convert
<1>7. CASE type \in Complex
  BY <1>1, <1>2, <1>6, <1>7
<1>8. CASE type \notin Complex
  <2>1. \/ p.digits <= SignificantDigits["double"]
        \/ type \in {"int64_t", "uint64_t"} /\ r.digits > 53
    BY <1>1, <1>2, <1>6
  <2>2. CASE type # "uint64_t"
    BY <1>1, <1>2, <1>6, <1>8, <2>1, <2>2 DEF Altered
  <2>3. CASE type = "uint64_t"
    BY <1>1, <1>2, <1>6, <1>8, <2>1, <2>3 DEF Altered
  <2> QED BY <2>2, <2>3
<1> QED BY <1>7, <1>8

-----------------------------------------------------------------------------
(* Packets on their way. *)

\* Names for terms the provers are to see no further into.
More(s, p) == s \o <<p>>

More2(s, p, q) == s \o <<p, q>>

\* One packet more.
LEMMA OneMore ==
    ASSUME NEW s, IsSequence(s), NEW p
    PROVE  /\ IsSequence(More(s, p)) /\ Len(s) \in Nat
           /\ Len(More(s, p)) = Len(s) + 1 /\ More(s, p)[Len(s) + 1] = p
           /\ \A i \in 1 .. Len(s) : More(s, p)[i] = s[i]
<1>1. PICK S : s \in Seq(S)
  BY DEF IsSequence
<1>2. <<p>> \in Seq(S \cup {p}) /\ Len(<<p>>) = 1 /\ <<p>>[1] = p /\ Len(s) \in Nat
  BY <1>1
<1>3. s \in Seq(S \cup {p})
  <2>1. \A i \in 1 .. Len(s) : s[i] \in S \cup {p}
    BY <1>1, ElementOfSeq
  <2>2. s = [i \in 1 .. Len(s) |-> s[i]]
    BY <1>1, LenProperties
  <2> QED BY <1>2, <2>1, <2>2, IsASeq
<1>4. /\ s \o <<p>> \in Seq(S \cup {p}) /\ Len(s \o <<p>>) = Len(s) + 1
      /\ \A i \in 1 .. Len(s) : (s \o <<p>>)[i] = s[i]
  BY <1>2, <1>3, ConcatProperties
<1>5. (s \o <<p>>)[Len(s) + 1] = p
  BY <1>2, <1>3, <1>4, ConcatProperties
<1> QED BY ONLY <1>2, <1>4, <1>5 DEF More, IsSequence

\* A packet that may come after the last one keeps the order.
LEMMA OrderOneMore ==
    ASSUME NEW s, Order(s), NEW p, Written(p),
           s # <<>> => Follows(s[Len(s)].kind, p.kind),
           NEW t, t = More(s, p)
    PROVE  /\ Order(t) /\ t # <<>> /\ t[Len(t)] = p
           /\ t[1] = IF s = <<>> THEN p ELSE s[1]
<1>1. IsSequence(s)
  BY DEF Order
<1>2. /\ IsSequence(t) /\ Len(s) \in Nat /\ Len(t) = Len(s) + 1
      /\ t[Len(s) + 1] = p /\ \A i \in 1 .. Len(s) : t[i] = s[i]
  BY <1>1, OneMore
<1>3. t # <<>> /\ t[Len(t)] = p
  BY <1>2
<1>4. ASSUME NEW i \in 1 .. Len(t) PROVE Written(t[i])
  <2>1. i = Len(s) + 1 \/ i \in 1 .. Len(s)
    BY <1>2
  <2> QED BY <1>2, <2>1 DEF Order
<1>5. ASSUME NEW i \in 1 .. Len(t) - 1 PROVE Follows(t[i].kind, t[i + 1].kind)
  <2>1. i \in 1 .. Len(s) /\ (i = Len(s) \/ i \in 1 .. Len(s) - 1)
    BY <1>2
  <2>2. CASE i = Len(s)
    <3>1. s # <<>>
      BY <2>1, <2>2
    <3> QED BY <1>2, <2>1, <2>2, <3>1
  <2>3. CASE i \in 1 .. Len(s) - 1
    <3>1. i + 1 \in 1 .. Len(s)
      BY <1>2, <2>3
    <3> QED BY <1>2, <2>1, <2>3, <3>1 DEF Order
  <2> QED BY <2>1, <2>2, <2>3
<1>6. Order(t)
  BY <1>2, <1>4, <1>5 DEF Order
<1>7. t[1] = IF s = <<>> THEN p ELSE s[1]
  <2>1. CASE s = <<>>
    BY <1>2, <2>1
  <2>2. CASE s # <<>>
    <3>1. 1 \in 1 .. Len(s)
      BY <1>1, <1>2, <2>2 DEF IsSequence
    <3> QED BY <1>2, <2>2, <3>1
  <2> QED BY <2>1, <2>2
<1> QED BY <1>6, <1>7, <1>3

\* The elements of two sequences in a row.
LEMMA Catenation ==
    ASSUME NEW S, NEW s \in Seq(S), NEW t \in Seq(S)
    PROVE  /\ s \o t \in Seq(S) /\ Len(s \o t) = Len(s) + Len(t)
           /\ \A i \in 1 .. Len(s) : (s \o t)[i] = s[i]
           /\ \A i \in 1 .. Len(t) : (s \o t)[Len(s) + i] = t[i]
<1>1. Len(s) \in Nat /\ Len(t) \in Nat
  OBVIOUS
<1> QED BY <1>1, ConcatProperties

\* Two packets at once.
LEMMA TwoAtOnce ==
    ASSUME NEW s, IsSequence(s), NEW p, NEW q
    PROVE  /\ IsSequence(More2(s, p, q)) /\ Len(More2(s, p, q)) = Len(s) + 2
           /\ \A i \in 1 .. Len(s) : More2(s, p, q)[i] = s[i]
           /\ More2(s, p, q)[Len(s) + 1] = p /\ More2(s, p, q)[Len(s) + 2] = q
<1>0. PICK S : s \in Seq(S)
  BY DEF IsSequence
<1> DEFINE T == S \cup {p, q}
           b == <<p, q>>
<1>1. s \in Seq(T)
  <2>1. \A i \in 1 .. Len(s) : s[i] \in T
    BY <1>0, ElementOfSeq
  <2>2. s = [i \in 1 .. Len(s) |-> s[i]] /\ Len(s) \in Nat
    BY <1>0, LenProperties
  <2> QED BY <2>1, <2>2, IsASeq
<1>2. b \in Seq(T) /\ Len(b) = 2 /\ b[1] = p /\ b[2] = q
  OBVIOUS
<1> HIDE DEF b, T
<1>3. /\ s \o b \in Seq(T) /\ Len(s \o b) = Len(s) + Len(b)
      /\ \A i \in 1 .. Len(s) : (s \o b)[i] = s[i]
      /\ \A i \in 1 .. Len(b) : (s \o b)[Len(s) + i] = b[i]
  <2>1. PICK c : c = b
    OBVIOUS
  <2>2. PICK U : U = T
    OBVIOUS
  <2>3. c \in Seq(U) /\ s \in Seq(U)
    BY <1>1, <1>2, <2>1, <2>2
  <2>4. /\ s \o c \in Seq(U) /\ Len(s \o c) = Len(s) + Len(c)
        /\ \A i \in 1 .. Len(s) : (s \o c)[i] = s[i]
        /\ \A i \in 1 .. Len(c) : (s \o c)[Len(s) + i] = c[i]
    BY <2>3, Catenation
  <2> QED BY <2>1, <2>2, <2>4
<1>4. (s \o b)[Len(s) + 1] = p /\ (s \o b)[Len(s) + 2] = q
  BY <1>2, <1>3
<1> QED BY ONLY <1>2, <1>3, <1>4 DEF b, More2, IsSequence

\* Two packets at once are two packets after each other.
LEMMA TwoMore ==
    ASSUME NEW s, IsSequence(s), NEW p, NEW q
    PROVE  /\ More2(s, p, q) = More(More(s, p), q)
           /\ Len(More2(s, p, q)) = Len(s) + 2
<1> DEFINE u == More(s, p)
           v == More(u, q)
           t == More2(s, p, q)
<1>2. /\ Len(s) \in Nat /\ Len(u) = Len(s) + 1 /\ u[Len(s) + 1] = p /\ IsSequence(u)
      /\ \A i \in 1 .. Len(s) : u[i] = s[i]
  BY OneMore
<1> HIDE DEF u
<1>3. /\ Len(v) = Len(u) + 1 /\ v[Len(u) + 1] = q /\ IsSequence(v)
      /\ \A i \in 1 .. Len(u) : v[i] = u[i]
  BY <1>2, OneMore
<1>4. /\ IsSequence(t) /\ Len(t) = Len(s) + 2
      /\ \A i \in 1 .. Len(s) : t[i] = s[i]
      /\ t[Len(s) + 1] = p /\ t[Len(s) + 2] = q
  BY TwoAtOnce
<1> HIDE DEF v, t
<1>5. ASSUME NEW i \in 1 .. Len(t) PROVE t[i] = v[i]
  <2>1. \/ i \in 1 .. Len(s) /\ i \in 1 .. Len(u)
        \/ i = Len(s) + 1 /\ i \in 1 .. Len(u)
        \/ i = Len(s) + 2 /\ i = Len(u) + 1
    BY ONLY <1>2, <1>4
  <2> QED BY ONLY <1>2, <1>3, <1>4, <2>1
<1>6. Len(t) = Len(v)
  BY ONLY <1>2, <1>3, <1>4
<1>7. t = [i \in 1 .. Len(t) |-> t[i]] /\ v = [i \in 1 .. Len(v) |-> v[i]]
  BY <1>3, <1>4, LenProperties DEF IsSequence
<1>8. t = v
  BY ONLY <1>5, <1>6, <1>7
<1> QED BY <1>4, <1>8 DEF t, u, v

\* One packet less.
LEMMA OneLess ==
    ASSUME NEW s, Order(s), s # <<>>
    PROVE  /\ Order(Tail(s)) /\ Len(s) \in Nat /\ Len(s) >= 1 /\ Len(Tail(s)) = Len(s) - 1
           /\ Head(s) = s[1] /\ Written(s[1])
           /\ \A i \in 1 .. Len(Tail(s)) : Tail(s)[i] = s[i + 1]
           /\ Tail(s) # <<>> => /\ Follows(s[1].kind, Tail(s)[1].kind)
                                /\ Tail(s)[Len(Tail(s))] = s[Len(s)]
           /\ Tail(s) = <<>> => Len(s) = 1
<1>1. PICK S : s \in Seq(S)
  BY DEF Order, IsSequence
<1>2. Len(s) \in Nat /\ Len(s) >= 1 /\ Head(s) = s[1]
  BY <1>1
<1>3. /\ Tail(s) \in Seq(S) /\ Len(Tail(s)) = Len(s) - 1
      /\ \A i \in 1 .. Len(Tail(s)) : Tail(s)[i] = s[i + 1]
  BY <1>1, HeadTailProperties
<1> DEFINE t == Tail(s)
<1> HIDE DEF t
<1>4. t \in Seq(S) /\ Len(t) = Len(s) - 1 /\ \A i \in 1 .. Len(t) : t[i] = s[i + 1]
  BY <1>3 DEF t
<1>5. ASSUME NEW i \in 1 .. Len(t) PROVE Written(t[i])
  <2>1. i + 1 \in 1 .. Len(s)
    BY <1>2, <1>4
  <2> QED BY <1>4, <2>1 DEF Order
<1>6. ASSUME NEW i \in 1 .. Len(t) - 1 PROVE Follows(t[i].kind, t[i + 1].kind)
  <2>1. i \in 1 .. Len(t) /\ i + 1 \in 1 .. Len(t) /\ i + 1 \in 1 .. Len(s) - 1
    BY <1>2, <1>4
  <2> QED BY <1>4, <2>1 DEF Order
<1>7. Order(t)
  BY <1>4, <1>5, <1>6 DEF Order, IsSequence
<1>8. Written(s[1])
  BY <1>2 DEF Order
<1>9. ASSUME t # <<>>
      PROVE  Follows(s[1].kind, t[1].kind) /\ t[Len(t)] = s[Len(s)]
  <2>1. Len(t) \in Nat /\ Len(t) >= 1
    BY <1>4, <1>9
  <2>2. 1 \in 1 .. Len(s) - 1 /\ 1 \in 1 .. Len(t) /\ Len(t) \in 1 .. Len(t)
        /\ Len(t) + 1 = Len(s)
    BY <1>2, <1>4, <2>1
  <2>3. t[1] = s[1 + 1] /\ t[Len(t)] = s[Len(s)]
    BY <1>4, <2>2
  <2> QED BY <2>2, <2>3 DEF Order
<1>10. t = <<>> => Len(s) = 1
  BY <1>2, <1>4
<1> QED BY <1>2, <1>4, <1>7, <1>8, <1>9, <1>10 DEF t

\* A signal keeps its class and its type.
LEMMA SameSignal ==
    ASSUME UNCHANGED <<class, type>>
    PROVE  /\ \A p : Written(p)' <=> Written(p)
           /\ \A m : MemberOK(m)' <=> MemberOK(m)
           /\ \A packets : Order(packets)' <=> Order(packets)
           /\ \A m : Packet(m)' = Packet(m)
           /\ \A p : Written(Packet(p))
<1>1. \A p : Written(p)' <=> Written(p)
  BY DEF Written, IsDataSignal
<1>2. \A m : MemberOK(m)' <=> MemberOK(m)
  BY DEF MemberOK
<1>3. \A packets : Order(packets)' <=> Order(packets)
  BY <1>1 DEF Order
<1>4. \A m : Packet(m)' = Packet(m)
  BY DEF Packet
<1>5. \A p : Written(Packet(p))
  BY DEF Written, Packet
<1> QED BY <1>1, <1>2, <1>3, <1>4, <1>5

-----------------------------------------------------------------------------
(* The steps. *)

\* The setters.
LEMMA ChangeKeeps ==
    ASSUME BlockInv, NEW m, Change(m), MemberOK(m)
    PROVE  BlockInv'
<1> USE DEF Change
<1>1. MembersOK'
  BY SameSignal DEF BlockInv, MembersOK
<1>2. Lined' /\ ConsumerOK' /\ ValuesConverted'
  BY SameSignal DEF BlockInv, Lined, ConsumerOK, ValuesConverted, Last, Was
<1>3. calls' \in 0 .. MaxCalls
  BY DescriptionAssumption DEF BlockInv
<1> QED BY <1>1, <1>2, <1>3 DEF BlockInv

\* Setting a part of the attributes.
LEMMA WithOK ==
    ASSUME BlockInv, IsDataSignal, NEW part,
           "epoch" \notin DOMAIN part, "ticks" \notin DOMAIN part
    PROVE  MemberOK(With(member, part))
<1>1. MemberOK(member) /\ class \in ValueClasses
  BY DEF BlockInv, MembersOK, IsDataSignal
<1>2. DOMAIN With(member, part) = Attributes
      /\ With(member, part).epoch = member.epoch /\ With(member, part).ticks = member.ticks
  BY <1>1 DEF With, MemberOK, Attributes
<1> QED BY <1>1, <1>2 DEF MemberOK, TimeClasses, ValueClasses

\* Setting one attribute.
LEMMA OneOK ==
    ASSUME BlockInv, NEW a \in Attributes, NEW v,
           IsDataSignal => a \notin {"epoch", "ticks"},
           ~IsDataSignal => a \in {"interpretation", "epoch", "ticks"}
    PROVE  MemberOK([member EXCEPT ![a] = v])
<1>1. MemberOK(member) /\ class \in TimeClasses \cup ValueClasses
  BY DEF BlockInv, MembersOK
<1> DEFINE m == [member EXCEPT ![a] = v]
<1>2. DOMAIN m = Attributes /\ \A b \in Attributes : b # a => m[b] = member[b]
  BY <1>1 DEF MemberOK
<1>3. CASE IsDataSignal
  <2>1. class \in ValueClasses /\ class \notin TimeClasses
    BY <1>3 DEF IsDataSignal, TimeClasses, ValueClasses
  <2>2. m["epoch"] = member["epoch"] /\ m["ticks"] = member["ticks"]
    BY <1>2, <1>3 DEF Attributes
  <2> QED BY <1>1, <1>2, <2>1, <2>2 DEF MemberOK
<1>4. CASE ~IsDataSignal
  <2>1. class \notin ValueClasses /\ class \in TimeClasses
    BY <1>1, <1>4 DEF IsDataSignal
  <2>2. \A b \in {"low", "high", "offset", "scale", "related", "start"} : m[b] = member[b]
    BY <1>2, <1>4 DEF Attributes
  <2> HIDE DEF m
  <2>3. m["low"] = Lowest /\ m["high"] = Highest /\ m["offset"] = 0 /\ m["scale"] = 1
        /\ m["related"] = {} /\ m["start"] = NullJson
    BY <1>1, <2>1, <2>2 DEF MemberOK
  <2>4. MemberOK(m)
    BY <1>2, <2>1, <2>3 DEF MemberOK
  <2> QED BY <2>4 DEF m
<1> QED BY <1>3, <1>4

\* A write of a subscribed signal.
LEMMA WriteLined ==
    ASSUME BlockInv, UNCHANGED <<class, type, consumer, status>>, acked,
           NEW p, Written(p), p.kind \in {"signal", "data", "unsubscribe"},
           channel' = More(channel, p), acked' = (p.kind # "unsubscribe")
    PROVE  Lined'
<1>1. /\ Order(channel) /\ status \in {"open", "refused"}
      /\ consumer.known \in {"no", "acknowledged", "described"}
      /\ status = "open" /\ channel # <<>> => Follows(Was, channel[1].kind)
      /\ status = "open" \/ channel # <<>> => Last \notin {"subscribe", "unsubscribe"}
  BY DEF BlockInv, Lined, ConsumerOK
<1>2. channel # <<>> => channel[Len(channel)].kind \in {"signal", "data"}
  <2>1. SUFFICES ASSUME channel # <<>> PROVE channel[Len(channel)].kind \in {"signal", "data"}
    OBVIOUS
  <2>2. Len(channel) \in 1 .. Len(channel)
    BY <1>1, <2>1, OneLess
  <2>3. Written(channel[Len(channel)])
    BY <1>1, <2>2 DEF Order
  <2> QED BY <1>1, <2>1, <2>3 DEF Written, Last
<1>3. channel # <<>> => Follows(channel[Len(channel)].kind, p.kind)
  BY <1>2 DEF Follows
<1>4. PICK t : t = channel'
  OBVIOUS
<1>5. Order(t) /\ t # <<>> /\ t[Len(t)] = p /\ t[1] = IF channel = <<>> THEN p ELSE channel[1]
  BY <1>1, <1>3, <1>4, OrderOneMore
<1>6. Was' = Was
  BY DEF Was
<1>7. status = "open" => Follows(Was, t[1].kind)
  <2>1. CASE channel = <<>>
    BY <1>1, <1>5, <2>1 DEF Last, Was, Follows
  <2> QED BY <1>1, <1>5, <2>1
<1>8. Last' = p.kind
  BY <1>4, <1>5 DEF Last
<1>9. Order(channel)'
  BY <1>4, <1>5, SameSignal
<1> QED BY <1>4, <1>5, <1>6, <1>7, <1>8, <1>9 DEF Lined

\* What a write of a subscribed signal leaves alone.
LEMMA WriteKeeps ==
    ASSUME BlockInv, UNCHANGED <<class, type, member, consumer, status, read, calls>>,
           told' \in {told, member}, earlier' \subseteq earlier \cup {told},
           acked' \in BOOLEAN, Len(channel') <= Capacity, Lined'
    PROVE  BlockInv'
<1>1. MembersOK'
  <2>1. MemberOK(member)' /\ MemberOK(told)'
    BY SameSignal DEF BlockInv, MembersOK
  <2>2. \A m \in earlier' : MemberOK(m)'
    BY SameSignal DEF BlockInv, MembersOK
  <2> QED BY <2>1, <2>2 DEF MembersOK
<1>2. ConsumerOK' /\ ValuesConverted'
  BY DEF BlockInv, ConsumerOK, ValuesConverted
<1> QED BY <1>1, <1>2 DEF BlockInv

\* The acknowledgement and the description behind it are written in a row.
LEMMA SubscribeKeeps ==
    ASSUME BlockInv, Subscribe
    PROVE  BlockInv'
<1> DEFINE p == [kind |-> "subscribe"]
           q == Packet(member)
<1>1. UNCHANGED <<class, type, consumer, status>> /\ ~acked /\ acked' = TRUE
      /\ channel' = More2(channel, p, q)
  BY DEF Subscribe, Write, More2
<1>2. p.kind = "subscribe" /\ Written(p) /\ q.kind = "signal" /\ Written(q)
  BY DEF Written, Packet
<1> HIDE DEF p, q
<1>3. /\ Order(channel) /\ status \in {"open", "refused"}
      /\ consumer.known \in {"no", "acknowledged", "described"}
      /\ status = "open" /\ channel # <<>> => Follows(Was, channel[1].kind)
      /\ status = "open" \/ channel # <<>> => Last = "unsubscribe"
  BY <1>1 DEF BlockInv, Lined, ConsumerOK
<1>4. PICK u : u = More(channel, p)
  OBVIOUS
<1>5. PICK v : v = More(u, q)
  OBVIOUS
<1>6. channel' = v
  <2>1. IsSequence(channel)
    BY <1>3 DEF Order
  <2> QED BY <1>1, <1>4, <1>5, <2>1, TwoMore
<1>7. Order(u) /\ u # <<>> /\ u[Len(u)] = p /\ u[1] = IF channel = <<>> THEN p ELSE channel[1]
  <2>1. channel # <<>> => Follows(channel[Len(channel)].kind, p.kind)
    BY <1>2, <1>3 DEF Last, Follows
  <2> QED BY <1>2, <1>3, <1>4, <2>1, OrderOneMore
<1>8. Order(v) /\ v # <<>> /\ v[Len(v)] = q /\ v[1] = u[1]
  <2>1. Follows(u[Len(u)].kind, q.kind)
    BY <1>2, <1>7 DEF Follows
  <2> QED BY <1>2, <1>5, <1>7, <2>1, OrderOneMore
<1>9. status = "open" => Follows(Was, v[1].kind)
  BY <1>2, <1>3, <1>7, <1>8 DEF Last, Follows
<1>10. Lined'
  <2>1. Was' = Was /\ Last' = "signal"
    BY <1>1, <1>2, <1>6, <1>8 DEF Was, Last
  <2>2. Order(channel)'
    BY <1>1, <1>6, <1>8, SameSignal
  <2> QED BY <1>1, <1>6, <1>8, <1>9, <2>1, <2>2 DEF Lined
<1>11. Len(channel') <= Capacity
  <2>1. Len(channel) + 2 <= Capacity
    BY DEF Subscribe, Write
  <2>2. IsSequence(channel)
    BY <1>3 DEF Order
  <2>3. Len(More2(channel, p, q)) = Len(channel) + 2
    BY <2>2, TwoMore
  <2> QED BY <1>1, <2>1, <2>3
<1> QED BY <1>10, <1>11, WriteKeeps DEF Subscribe

\* A write waits for room.
LEMMA OneWriteFits ==
    ASSUME BlockInv, NEW p, Write(<<p>>)
    PROVE  channel' = More(channel, p) /\ Len(channel') <= Capacity
<1>1. IsSequence(channel)
  BY DEF BlockInv, Lined, Order
<1>2. Len(More(channel, p)) = Len(channel) + 1
  BY <1>1, OneMore
<1>3. channel' = More(channel, p) /\ Len(channel) + 1 <= Capacity
  BY DEF Write, More
<1> QED BY <1>2, <1>3

\* A description that is written again.
LEMMA DescribeAgainKeeps ==
    ASSUME BlockInv, DescribeAgain
    PROVE  BlockInv'
<1>1. PICK p : p = Packet(member)
  OBVIOUS
<1>2. p.kind = "signal" /\ Written(p)
  BY <1>1 DEF Written, Packet
<1>3. channel' = More(channel, p) /\ Len(channel') <= Capacity
  BY <1>1, OneWriteFits DEF DescribeAgain
<1>4. Lined' /\ acked' \in BOOLEAN
  BY <1>2, <1>3, WriteLined DEF DescribeAgain, BlockInv
<1> QED BY <1>3, <1>4, WriteKeeps DEF DescribeAgain

\* The acknowledgement of an unsubscribe.
LEMMA UnsubscribeKeeps ==
    ASSUME BlockInv, Unsubscribe
    PROVE  BlockInv'
<1>1. PICK p : p = [kind |-> "unsubscribe"]
  OBVIOUS
<1>2. p.kind = "unsubscribe" /\ Written(p)
  BY <1>1 DEF Written
<1>3. channel' = More(channel, p) /\ Len(channel') <= Capacity
  BY <1>1, OneWriteFits DEF Unsubscribe
<1>4. Lined'
  BY <1>2, <1>3, WriteLined DEF Unsubscribe
<1> QED BY <1>3, <1>4, WriteKeeps DEF Unsubscribe

\* A block of values.
LEMMA AddDataKeeps ==
    ASSUME BlockInv, NEW count \in Counts, NEW topBit \in BOOLEAN, NEW digits \in Digits,
           AddData(count, topBit, digits)
    PROVE  BlockInv'
<1>1. PICK p : p = [kind |-> "data", topBit |-> topBit, digits |-> digits, values |-> count,
                    bytes |-> count * EntryBytes(SizeOf[type], Rule(class))]
  OBVIOUS
<1>2. p.kind = "data" /\ Written(p)
  BY <1>1, DescriptionAssumption DEF Written, AddData
<1>3. channel' = More(channel, p) /\ Len(channel') <= Capacity
  BY <1>1, OneWriteFits DEF AddData
<1>4. Lined' /\ acked' \in BOOLEAN
  BY <1>2, <1>3, WriteLined DEF AddData, BlockInv
<1> QED BY <1>3, <1>4, WriteKeeps DEF AddData

\* The consumer behind the first packet.
LEMMA ReceiveConsumer ==
    ASSUME BlockInv, Receive
    PROVE  /\ ConsumerOK' /\ status' \in {"open", "refused"}
           /\ Written(channel[1]) /\ Follows(Was, channel[1].kind)
           /\ status' = "open" =>
                  \/ Was' = channel[1].kind
                  \/ Was' = "signal" /\ channel[1].kind = "data"
           /\ channel[1].kind = "data" => consumer.known = "described"
<1> DEFINE p == channel[1]
<1>1. Order(channel) /\ channel # <<>> /\ status = "open" /\ UNCHANGED <<class, type>>
  BY DEF BlockInv, Lined, Receive
<1>2. Head(channel) = p /\ Written(p) /\ Follows(Was, p.kind)
  BY <1>1, OneLess DEF BlockInv, Lined
<1>3. /\ consumer.known \in {"no", "acknowledged", "described"} /\ ConsumerOK
  BY DEF BlockInv, ConsumerOK
<1>4. \/ p.kind = "subscribe" /\ consumer' = NewConsumer /\ status' = status
      \/ p.kind = "unsubscribe" /\ consumer' = NoSignal /\ status' = status
      \/ p.kind = "signal" /\ ReadDescription(p)
      \/ p.kind = "data" /\ consumer' = consumer /\ status' = status
  BY <1>2 DEF Receive
<1> HIDE DEF p
<1>5. CASE p.kind = "subscribe" /\ consumer' = NewConsumer /\ status' = status
  <2>1. NewConsumer.known = "acknowledged" /\ DOMAIN NewConsumer.attributes = Attributes
    BY DEF NewConsumer, NewMember, Attributes
  <2> QED BY <1>1, <1>2, <1>5, <2>1 DEF ConsumerOK, Was, p
<1>6. CASE p.kind = "unsubscribe" /\ consumer' = NoSignal /\ status' = status
  <2>1. NoSignal.known = "no"
    BY DEF NoSignal
  <2> QED BY <1>1, <1>2, <1>6, <2>1 DEF ConsumerOK, Was, p
<1>7. CASE p.kind = "signal" /\ ReadDescription(p)
  <2>1. consumer.known # "no"
    BY <1>2, <1>7 DEF Was, Follows
  <2>2. p.dataType = DataTypeName(class, type) /\ p.rule = Rule(class)
    BY <1>2, <1>7 DEF Written
  <2>3. PICK refused \in BOOLEAN : \E part :
            /\ consumer' = [known |-> IF refused THEN consumer.known ELSE "described",
                            size |-> DataTypeSize[p.dataType],
                            sampleType |-> DataValueType[p.dataType], rule |-> p.rule,
                            attributes |-> Parse(consumer.attributes, part)]
            /\ status' = IF refused THEN "refused" ELSE status
    BY <1>7 DEF ReadDescription
  <2>4. PICK part :
            consumer' = [known |-> IF refused THEN consumer.known ELSE "described",
                         size |-> DataTypeSize[p.dataType],
                         sampleType |-> DataValueType[p.dataType], rule |-> p.rule,
                         attributes |-> Parse(consumer.attributes, part)]
    BY <2>3
  <2>5. DOMAIN Parse(consumer.attributes, part) = Attributes
    BY <1>3, <2>1 DEF ConsumerOK, Parse, With
  <2>6. ConsumerOK'
    BY <1>1, <1>3, <2>1, <2>2, <2>5, <2>4 DEF ConsumerOK
  <2>7. status' = "open" => Was' = "signal"
    BY <2>3, <2>4 DEF Was
  <2> QED BY <1>1, <1>2, <1>7, <2>3, <2>6, <2>7 DEF p
<1>8. CASE p.kind = "data" /\ consumer' = consumer /\ status' = status
  <2>1. consumer.known = "described"
    BY <1>2, <1>3, <1>8 DEF Was, Follows
  <2> QED BY <1>1, <1>2, <1>3, <1>8, <2>1 DEF ConsumerOK, Was, p
<1> QED BY <1>4, <1>5, <1>6, <1>7, <1>8

\* Taking the first packet keeps the order of the others.
LEMMA ReceiveLined ==
    ASSUME BlockInv, Receive
    PROVE  Lined' /\ Len(channel') <= Capacity
<1>1. /\ Order(channel) /\ channel # <<>> /\ status = "open" /\ UNCHANGED <<class, type, acked>>
      /\ Last # "subscribe" /\ (acked <=> Last # "unsubscribe")
  BY DEF BlockInv, Lined, Receive
<1>2. PICK t : t = channel'
  OBVIOUS
<1>3. t = Tail(channel)
  BY <1>2 DEF Receive
<1>4. /\ Order(t) /\ Len(channel) \in Nat /\ Len(t) = Len(channel) - 1
      /\ t # <<>> => /\ Follows(channel[1].kind, t[1].kind)
                     /\ t[Len(t)] = channel[Len(channel)]
      /\ t = <<>> => Len(channel) = 1
  BY <1>1, <1>3, OneLess
<1>5. status' = "open" =>
          \/ Was' = channel[1].kind
          \/ Was' = "signal" /\ channel[1].kind = "data"
  BY ReceiveConsumer
<1>6. Order(channel)'
  BY <1>1, <1>2, <1>4, SameSignal
<1>7. status' = "open" /\ t # <<>> => Follows(Was', t[1].kind)
  BY <1>4, <1>5 DEF Follows
<1>8. status' = "open" \/ t # <<>> => Last' # "subscribe" /\ (acked <=> Last' # "unsubscribe")
  <2>1. CASE t # <<>>
    BY <1>1, <1>2, <1>4, <2>1 DEF Last
  <2>2. CASE t = <<>> /\ status' = "open"
    <3>1. Last = channel[1].kind
      BY <1>1, <1>4, <2>2 DEF Last
    <3>2. Last' = Was'
      BY <1>2, <2>2 DEF Last
    <3> QED BY <1>1, <1>5, <2>2, <3>1, <3>2
  <2> QED BY <2>1, <2>2
<1>9. Lined'
  BY <1>1, <1>2, <1>6, <1>7, <1>8 DEF Lined
<1>10. Len(channel) <= Capacity /\ Capacity \in Nat
  BY DescriptionAssumption DEF BlockInv
<1> QED BY <1>2, <1>4, <1>9, <1>10

\* The consumer takes a packet.
LEMMA ReceiveKeeps ==
    ASSUME BlockInv, Receive
    PROVE  BlockInv'
<1>1. UNCHANGED <<class, type, member, acked, told, earlier, calls>> /\ Head(channel) = channel[1]
  <2>1. Order(channel) /\ channel # <<>>
    BY DEF BlockInv, Lined, Receive
  <2> QED BY <2>1, OneLess DEF Receive
<1>2. MembersOK'
  BY <1>1, SameSignal DEF BlockInv, MembersOK
<1>3. ValuesConverted' /\ read'.sent \in Nat /\ read'.count \in Nat
  <2>1. CASE read' = NotRead
    BY <2>1 DEF NotRead, ValuesConverted
  <2>2. CASE channel[1].kind = "data" /\ read' = Convert(channel[1])
    <3>1. Written(channel[1]) /\ consumer.known = "described"
      BY <2>2, ReceiveConsumer
    <3>2. PICK r : r = Convert(channel[1])
      OBVIOUS
    <3>3. /\ r.sent \in Nat /\ r.count = r.sent
          /\ \/ r.converted = r.sent /\ (r.same \/ Altered(r))
             \/ r.converted = 0 /\ type \in Complex
      BY <2>2, <3>1, <3>2, BlockConverted
    <3> QED BY <1>1, <2>2, <3>2, <3>3 DEF ValuesConverted, Complex, Altered
  <2> QED BY <1>1, <2>1, <2>2 DEF Receive
<1> QED BY <1>1, <1>2, <1>3, ReceiveConsumer, ReceiveLined DEF BlockInv

\* A signal as it is constructed.
LEMMA DescriptionInitial ==
    ASSUME DescriptionInit
    PROVE  BlockInv
<1>1. class \in TimeClasses \cup ValueClasses /\ type \in DataTypes(class)
  BY DEF DescriptionInit
<1>2. MemberOK(member) /\ told = member /\ earlier = {}
  <2>1. PICK epoch, ticks, start :
            /\ member = NewMember(epoch, ticks, start)
            /\ class \in TimeClasses => start = NullJson
            /\ class \in ValueClasses => epoch = "" /\ ticks = 1
    <3>1. CASE class \in TimeClasses
      <4>1. class \notin ValueClasses
        BY <3>1 DEF TimeClasses, ValueClasses
      <4>2. PICK ticks : member = NewMember("1970", ticks, NullJson)
        BY <3>1, <4>1 DEF DescriptionInit, TimeClasses
      <4> QED BY <3>1, <4>1, <4>2
    <3>2. CASE class \in ValueClasses
      <4>1. class \notin TimeClasses
        BY <3>2 DEF TimeClasses, ValueClasses
      <4> QED BY <3>2, <4>1 DEF DescriptionInit
    <3> QED BY <1>1, <3>1, <3>2
  <2>2. MemberOK(member)
    BY <2>1 DEF MemberOK, NewMember, Attributes
  <2> QED BY <2>2 DEF DescriptionInit
<1>3. channel = <<>> /\ consumer.known = "no" /\ status = "open" /\ acked = FALSE
  BY DEF DescriptionInit, NoSignal
<1>4. Lined
  BY <1>3 DEF Lined, Order, IsSequence, Last, Was
<1>5. ConsumerOK /\ ValuesConverted /\ read.sent \in Nat /\ read.count \in Nat
  BY <1>3 DEF ConsumerOK, ValuesConverted, DescriptionInit, NotRead
<1>6. Len(channel) <= Capacity /\ calls \in 0 .. MaxCalls
  <2>1. Len(channel) = 0 /\ calls = 0
    BY <1>3 DEF DescriptionInit
  <2>2. Capacity \in Nat /\ MaxCalls \in Nat
    BY DescriptionAssumption
  <2> QED BY <2>1, <2>2
<1> QED BY <1>1, <1>2, <1>3, <1>4, <1>5, <1>6 DEF BlockInv, MembersOK

SomeData ==
    \E count \in Counts, topBit \in BOOLEAN, digits \in Digits : AddData(count, topBit, digits)

\* Every setter, by what it stores.
LEMMA SetterKeeps ==
    ASSUME BlockInv, DescriptionNext,
           ~(Subscribe \/ DescribeAgain \/ Unsubscribe \/ Receive),
           ~SomeData
    PROVE  \E m : MemberOK(m) /\ Change(m)
<1>1. ASSUME NEW unit \in Units, SetUnit(unit)
      PROVE  \E m : MemberOK(m) /\ Change(m)
  <2>1. DOMAIN unit = {"unitId", "displayName", "quantity"}
    BY DescriptionAssumption DEF NoUnit
  <2> QED BY <1>1, <2>1, WithOK DEF SetUnit
<1>2. ASSUME NEW unit \in Units, SetUnitIdAndName(unit)
      PROVE  \E m : MemberOK(m) /\ Change(m)
  <2>1. MemberOK(member) /\ class \in ValueClasses
    BY <1>2 DEF BlockInv, MembersOK, SetUnitIdAndName, IsDataSignal
  <2>2. MemberOK([member EXCEPT !.unitId = unit.unitId, !.displayName = unit.displayName])
    BY <2>1 DEF MemberOK, Attributes, TimeClasses, ValueClasses
  <2> QED BY <1>2, <2>2 DEF SetUnitIdAndName
<1>3. ASSUME NEW range, DOMAIN range = DOMAIN Unlimited,
             IsDataSignal, Change(With(member, range))
      PROVE  \E m : MemberOK(m) /\ Change(m)
  <2>1. DOMAIN range = {"low", "high"}
    BY <1>3 DEF Unlimited
  <2> QED BY <1>3, <2>1, WithOK
<1>4. ASSUME NEW scaling, DOMAIN scaling = DOMAIN OneToOne,
             IsDataSignal, Change(With(member, scaling))
      PROVE  \E m : MemberOK(m) /\ Change(m)
  <2>1. DOMAIN scaling = {"offset", "scale"}
    BY <1>4 DEF OneToOne
  <2> QED BY <1>4, <2>1, WithOK
<1>5. ASSUME NEW related, SetRelatedSignals(related)
      PROVE  \E m : MemberOK(m) /\ Change(m)
  BY <1>5, OneOK DEF SetRelatedSignals, Attributes
<1>6. ASSUME NEW name, SetMemberName(name)
      PROVE  \E m : MemberOK(m) /\ Change(m)
  BY <1>6, OneOK DEF SetMemberName, Attributes
<1>7. ASSUME NEW object, SetInterpretationObject(object)
      PROVE  \E m : MemberOK(m) /\ Change(m)
  BY <1>7, OneOK DEF SetInterpretationObject, Attributes
<1>8. ASSUME NEW epoch, SetEpoch(epoch)
      PROVE  \E m : MemberOK(m) /\ Change(m)
  BY <1>8, OneOK DEF SetEpoch, Attributes
<1>9. ASSUME NEW ticks, SetTimeTicksPerSecond(ticks)
      PROVE  \E m : MemberOK(m) /\ Change(m)
  BY <1>9, OneOK DEF SetTimeTicksPerSecond, Attributes
<1>10. ASSUME NEW range \in Ranges, SetRange(range)
       PROVE  \E m : MemberOK(m) /\ Change(m)
  BY <1>3, <1>10, DescriptionAssumption DEF SetRange
<1>11. ASSUME NEW scaling \in PostScalings, SetPostScaling(scaling)
       PROVE  \E m : MemberOK(m) /\ Change(m)
  BY <1>4, <1>11, DescriptionAssumption DEF SetPostScaling
<1>12. ClearRange => \E m : MemberOK(m) /\ Change(m)
  BY <1>3 DEF ClearRange
<1>13. ClearPostScaling => \E m : MemberOK(m) /\ Change(m)
  BY <1>4 DEF ClearPostScaling
<1> QED BY <1>1, <1>2, <1>5, <1>6, <1>7, <1>8, <1>9, <1>10, <1>11, <1>12, <1>13
        DEF DescriptionNext, SomeData

\* Every step keeps packets, members and blocks in order.
LEMMA DescriptionStep ==
    ASSUME BlockInv, [DescriptionNext]_descriptionVars
    PROVE  BlockInv'
<1>1. CASE UNCHANGED descriptionVars
  BY <1>1, SameSignal DEF descriptionVars, BlockInv, MembersOK, Lined, Last, Was, ConsumerOK, ValuesConverted
<1>2. CASE Subscribe \/ DescribeAgain \/ Unsubscribe \/ Receive
  BY <1>2, SubscribeKeeps, DescribeAgainKeeps, UnsubscribeKeeps, ReceiveKeeps
<1>3. CASE SomeData
  BY <1>3, AddDataKeeps DEF SomeData
<1>4. CASE DescriptionNext /\ ~(Subscribe \/ DescribeAgain \/ Unsubscribe \/ Receive)
           /\ ~SomeData
  BY <1>4, SetterKeeps, ChangeKeeps
<1> QED BY <1>1, <1>2, <1>3, <1>4

-----------------------------------------------------------------------------
(* What a description tells. *)

\* A group whose attributes have their defaults is neutral.
LEMMA NeutralDefault ==
    ASSUME NEW m, NEW group \in Groups \ {{"unitId", "displayName"}, {"quantity"}},
           \A a \in group : m[a] = NewConsumer.attributes[a]
    PROVE  Neutral(group, m)
<1>1. Restrict(m, group) = Restrict(NewConsumer.attributes, group)
  BY DEF Restrict
<1> QED BY <1>1 DEF Neutral

\* A description of a domain signal.
LEMMA TimeGroups ==
    ASSUME NEW m, MemberOK(m), class \in TimeClasses, NEW group \in Groups
    PROVE  \/ group \subseteq Composed(class, m)
           \/ /\ group \cap Composed(class, m) = {}
              /\ Neutral(group, Described(class, m))
<1> DEFINE D == Described(class, m)
           G == Composed(class, m)
<1>1. G = ComposedInterpretation(m) \cup
              {"name", "epoch", "ticks", "unitId", "displayName", "quantity"}
  BY DEF Composed, Second
<1>2. /\ D["low"] = Lowest /\ D["high"] = Highest /\ D["offset"] = 0 /\ D["scale"] = 1
      /\ D["related"] = {} /\ D["start"] = NullJson /\ D["interpretation"] = m["interpretation"]
  BY DEF Described, With, Second, MemberOK, Attributes
<1> DEFINE N == NewConsumer.attributes
<1>3. /\ N["low"] = Lowest /\ N["high"] = Highest /\ N["offset"] = 0 /\ N["scale"] = 1
      /\ N["related"] = {} /\ N["start"] = NullJson /\ N["interpretation"] = NullJson
  BY DEF NewConsumer, NewMember
<1>4. ComposedInterpretation(m) = IF m["interpretation"] = NullJson THEN {} ELSE {"interpretation"}
  BY DEF ComposedInterpretation
<1> HIDE DEF D, G, N
<1>5. CASE group \in {{"unitId", "displayName"}, {"quantity"}, {"name"}, {"epoch"}, {"ticks"}}
  BY <1>1, <1>5 DEF G
<1>6. CASE group \in {{"low"}, {"high"}, {"offset", "scale"}, {"related"}, {"start"}}
  <2>1. group \cap G = {}
    BY <1>1, <1>4, <1>6
  <2>2. \A a \in group : D[a] = N[a]
    BY <1>2, <1>3, <1>6
  <2>3. group \in Groups \ {{"unitId", "displayName"}, {"quantity"}}
    BY <1>6 DEF Groups
  <2> QED BY <2>1, <2>2, <2>3, NeutralDefault DEF D, G, N
<1>7. CASE group = {"interpretation"}
  <2>1. CASE m["interpretation"] = NullJson
    <3>1. group \cap G = {}
      BY <1>1, <1>4, <1>7, <2>1
    <3>2. \A a \in group : D[a] = N[a]
      BY <1>2, <1>3, <1>7, <2>1
    <3>3. group \in Groups \ {{"unitId", "displayName"}, {"quantity"}}
      BY <1>7 DEF Groups
    <3> QED BY <3>1, <3>2, <3>3, NeutralDefault DEF D, G, N
  <2>2. CASE m["interpretation"] # NullJson
    BY <1>1, <1>4, <1>7, <2>2 DEF G
  <2> QED BY <2>1, <2>2
<1> QED BY <1>5, <1>6, <1>7 DEF Groups

\* A description of a data signal.
LEMMA ValueGroups ==
    ASSUME NEW m, MemberOK(m), class \in ValueClasses, NEW group \in Groups
    PROVE  \/ group \subseteq Composed(class, m)
           \/ /\ group \cap Composed(class, m) = {}
              /\ Neutral(group, Described(class, m))
<1> DEFINE G == Composed(class, m)
           N == NewConsumer.attributes
<1>1. Described(class, m) = m
  BY DEF Described, TimeClasses, ValueClasses
<1>2. \A a : a \in G <=>
          \/ a = "name"
          \/ a = "interpretation" /\ m["interpretation"] # NullJson
          \/ a \in {"unitId", "displayName"} /\ m["unitId"] # NoUnitId
          \/ a = "quantity" /\ m["unitId"] # NoUnitId /\ m["quantity"] # ""
          \/ a = "low" /\ m["low"] # Lowest
          \/ a = "high" /\ m["high"] # Highest
          \/ a \in {"offset", "scale"} /\ ~(m["offset"] = 0 /\ m["scale"] = 1)
          \/ a = "related" /\ m["related"] # {}
          \/ a = "start" /\ m["start"] # NullJson
  <2>1. ComposedPostScaling(m) =
            IF m["offset"] = 0 /\ m["scale"] = 1 THEN {} ELSE {"offset", "scale"}
    <3>1. DOMAIN OneToOne = {"offset", "scale"} /\ OneToOne["offset"] = 0 /\ OneToOne["scale"] = 1
          /\ OneToOne = [a \in {"offset", "scale"} |-> OneToOne[a]]
      BY DEF OneToOne
    <3>2. Restrict(m, {"offset", "scale"}) = [a \in {"offset", "scale"} |-> m[a]]
      BY DEF Restrict
    <3>3. Restrict(m, {"offset", "scale"}) = OneToOne <=> m["offset"] = 0 /\ m["scale"] = 1
      BY <3>1, <3>2
    <3> QED BY <3>1, <3>3 DEF ComposedPostScaling
  <2>2. class \notin TimeClasses
    BY DEF TimeClasses, ValueClasses
  <2>3. G = ComposedInterpretation(m) \cup ({"name"} \cup ComposedUnit(m) \cup ComposedRange(m)
              \cup ComposedPostScaling(m) \cup ComposedRelated(m) \cup ComposedStart(m))
    BY <2>2 DEF Composed
  <2> QED BY <2>1, <2>3 DEF ComposedInterpretation, ComposedUnit, ComposedRange, ComposedRelated,
                            ComposedStart
<1>3. /\ N["low"] = Lowest /\ N["high"] = Highest /\ N["offset"] = 0 /\ N["scale"] = 1
      /\ N["related"] = {} /\ N["start"] = NullJson /\ N["interpretation"] = NullJson
      /\ N["epoch"] = "" /\ N["ticks"] = 1
  BY DEF NewConsumer, NewMember
<1>4. m["epoch"] = "" /\ m["ticks"] = 1
  BY DEF MemberOK
<1> HIDE DEF G, N
<1>5. CASE group = {"unitId", "displayName"}
  <2>1. m["unitId"] = NoUnitId => Neutral(group, m)
    BY <1>5 DEF Neutral
  <2> QED BY <1>1, <1>2, <1>5, <2>1 DEF G
<1>6. CASE group = {"quantity"}
  <2>1. m["unitId"] = NoUnitId \/ m["quantity"] = "" => Neutral(group, m)
    BY <1>6 DEF Neutral
  <2> QED BY <1>1, <1>2, <1>6, <2>1 DEF G
<1>7. CASE group \in Groups \ {{"unitId", "displayName"}, {"quantity"}}
  <2>1. group \in {{"low"}, {"high"}, {"offset", "scale"}, {"related"}, {"start"}, {"name"},
                   {"interpretation"}, {"epoch"}, {"ticks"}}
    BY <1>7 DEF Groups
  <2>2. group \subseteq G \/ (group \cap G = {} /\ \A a \in group : m[a] = N[a])
    BY <1>2, <1>3, <1>4, <2>1, ZenonT(30)
  <2> QED BY <1>1, <1>7, <2>2, NeutralDefault DEF G, N
<1> QED BY <1>5, <1>6, <1>7

\* What the consumer shows of a group behind a description: what it says, or, where it
\* is silent because there is nothing to say, what was shown before.
LEMMA GroupRead ==
    ASSUME NEW m, MemberOK(m), class \in TimeClasses \cup ValueClasses,
           NEW old, DOMAIN old = Attributes, NEW group \in Groups,
           NEW new, new = With(old, Packet(m).given)
    PROVE  \/ Restrict(new, group) = Of(m, group)
           \/ /\ Restrict(new, group) = Restrict(old, group)
              /\ Neutral(group, Described(class, m))
<1> DEFINE D == Described(class, m)
           G == Composed(class, m)
<1> HIDE DEF D, G
<1>1. Packet(m).given = Restrict(D, G)
  BY DEF Packet, D, G
<1>2. group \subseteq Attributes
  BY DEF Groups, Attributes
<1>3. \A a \in Attributes : new[a] = IF a \in G THEN D[a] ELSE old[a]
  BY <1>1 DEF With, Restrict
<1>4. group \subseteq G => Restrict(new, group) = Restrict(D, group)
  BY <1>2, <1>3 DEF Restrict
<1>5. group \cap G = {} => Restrict(new, group) = Restrict(old, group)
  BY <1>2, <1>3 DEF Restrict
<1>6. group \subseteq G \/ (group \cap G = {} /\ Neutral(group, D))
  BY TimeGroups, ValueGroups DEF D, G
<1> QED BY <1>4, <1>5, <1>6 DEF Of, D

-----------------------------------------------------------------------------
(* Descriptions on their way. *)

\* A write adds to what comes later.
LEMMA LaterMore ==
    ASSUME NEW s, IsSequence(s), NEW p, NEW t, t = More(s, p)
    PROVE  /\ Len(s) \in Nat /\ Len(t) = Len(s) + 1 /\ t[Len(t)] = p
           /\ \A i \in 1 .. Len(t) : i = Len(t) \/ (i \in 1 .. Len(s) /\ t[i] = s[i])
           /\ \A kind : \A i \in 1 .. Len(s) : Later(s, i, kind) => Later(t, i, kind)
           /\ \A i \in 1 .. Len(s) : Later(t, i, p.kind)
<1>1. /\ Len(s) \in Nat /\ Len(t) = Len(s) + 1 /\ t[Len(s) + 1] = p
      /\ \A i \in 1 .. Len(s) : t[i] = s[i]
  BY OneMore
<1>2. ASSUME NEW i \in 1 .. Len(s), NEW kind, Later(s, i, kind) PROVE Later(t, i, kind)
  <2>1. PICK j \in i + 1 .. Len(s) : s[j].kind = kind
    BY <1>2 DEF Later
  <2>2. j \in 1 .. Len(s) /\ j \in i + 1 .. Len(t)
    BY ONLY <1>1, <2>1, i \in 1 .. Len(s)
  <2> QED BY <1>1, <2>1, <2>2 DEF Later
<1>3. ASSUME NEW i \in 1 .. Len(s) PROVE Later(t, i, p.kind)
  <2>1. Len(s) + 1 \in i + 1 .. Len(t)
    BY ONLY <1>1, i \in 1 .. Len(s)
  <2> QED BY <1>1, <2>1 DEF Later
<1>4. \A i \in 1 .. Len(t) : i = Len(t) \/ (i \in 1 .. Len(s) /\ t[i] = s[i])
  BY ONLY <1>1
<1> QED BY <1>1, <1>2, <1>3, <1>4

\* A packet that tells nothing.
LEMMA SilentTold ==
    ASSUME BlockInv, Told, UNCHANGED <<class, type, told, earlier>>,
           NEW p, p.kind # "signal", channel' = More(channel, p)
    PROVE  Told'
<1>1. IsSequence(channel)
  BY DEF BlockInv, Lined, Order
<1>2. PICK t : t = channel'
  OBVIOUS
<1>3. /\ Len(channel) \in Nat /\ Len(t) = Len(channel) + 1 /\ t[Len(t)] = p
      /\ \A i \in 1 .. Len(t) : i = Len(t) \/ (i \in 1 .. Len(channel) /\ t[i] = channel[i])
      /\ \A kind : \A i \in 1 .. Len(channel) : Later(channel, i, kind) => Later(t, i, kind)
  BY <1>1, <1>2, LaterMore
<1>4. \A m : Packet(m)' = Packet(m)
  BY SameSignal
<1>5. ASSUME NEW i \in 1 .. Len(t), t[i].kind = "signal"
      PROVE  /\ \/ Later(t, i, "subscribe")
                \/ \E m \in earlier \cup {told} : t[i] = Packet(m)
             /\ \/ Later(t, i, "signal")
                \/ t[i] = Packet(told)
  <2>1. i \in 1 .. Len(channel) /\ t[i] = channel[i] /\ channel[i].kind = "signal"
    BY <1>3, <1>5
  <2> QED BY <1>3, <2>1 DEF Told
<1> QED BY <1>2, <1>4, <1>5 DEF Told

\* A new description becomes the last one of all.
LEMMA DescribedTold ==
    ASSUME BlockInv, Told, DescribeAgain
    PROVE  Told'
<1>1. /\ IsSequence(channel) /\ UNCHANGED <<class, type>>
      /\ told' = member /\ earlier' = earlier \cup {told}
  BY DEF BlockInv, Lined, Order, DescribeAgain
<1>2. PICK t : t = channel'
  OBVIOUS
<1>3. PICK p : p = Packet(member)
  OBVIOUS
<1>4. p.kind = "signal" /\ t = More(channel, p)
  BY <1>2, <1>3, OneWriteFits DEF DescribeAgain, Packet
<1>5. /\ Len(channel) \in Nat /\ Len(t) = Len(channel) + 1 /\ t[Len(t)] = p
      /\ \A i \in 1 .. Len(t) : i = Len(t) \/ (i \in 1 .. Len(channel) /\ t[i] = channel[i])
      /\ \A kind : \A i \in 1 .. Len(channel) : Later(channel, i, kind) => Later(t, i, kind)
      /\ \A i \in 1 .. Len(channel) : Later(t, i, p.kind)
  BY <1>1, <1>4, LaterMore
<1>6. \A m : Packet(m)' = Packet(m)
  BY <1>1, SameSignal
<1>7. ASSUME NEW i \in 1 .. Len(t), t[i].kind = "signal"
      PROVE  /\ \/ Later(t, i, "subscribe")
                \/ \E m \in (earlier \cup {told}) \cup {member} : t[i] = Packet(m)
             /\ \/ Later(t, i, "signal")
                \/ t[i] = Packet(member)
  <2>1. CASE i = Len(t)
    BY <1>3, <1>5, <2>1
  <2>2. CASE i \in 1 .. Len(channel) /\ t[i] = channel[i]
    <3>1. channel[i].kind = "signal"
      BY <1>7, <2>2
    <3> QED BY <1>4, <1>5, <2>2, <3>1 DEF Told
  <2> QED BY <1>5, <2>1, <2>2
<1> QED BY <1>1, <1>2, <1>6, <1>7 DEF Told

\* With a new subscription all descriptions before it are of an earlier one.
LEMMA SubscribeTold ==
    ASSUME BlockInv, Told, Subscribe
    PROVE  Told'
<1>1. /\ IsSequence(channel) /\ UNCHANGED <<class, type>>
      /\ told' = member /\ earlier' = {}
  BY DEF BlockInv, Lined, Order, Subscribe
<1>2. PICK t : t = channel'
  OBVIOUS
<1>3. PICK p, q : p = [kind |-> "subscribe"] /\ q = Packet(member)
  OBVIOUS
<1>4. p.kind = "subscribe" /\ q.kind = "signal" /\ t = More2(channel, p, q)
  BY <1>2, <1>3 DEF Subscribe, Write, Packet, More2
<1>5. PICK u : u = More(channel, p)
  OBVIOUS
<1>6. t = More(u, q) /\ IsSequence(u)
  BY <1>1, <1>4, <1>5, TwoMore, OneMore
<1>7. /\ Len(channel) \in Nat /\ Len(u) = Len(channel) + 1 /\ u[Len(u)] = p
      /\ \A i \in 1 .. Len(u) : i = Len(u) \/ (i \in 1 .. Len(channel) /\ u[i] = channel[i])
      /\ \A i \in 1 .. Len(channel) : Later(u, i, p.kind)
  BY <1>1, <1>5, LaterMore
<1>8. /\ Len(t) = Len(u) + 1 /\ t[Len(t)] = q
      /\ \A i \in 1 .. Len(t) : i = Len(t) \/ (i \in 1 .. Len(u) /\ t[i] = u[i])
      /\ \A kind : \A i \in 1 .. Len(u) : Later(u, i, kind) => Later(t, i, kind)
      /\ \A i \in 1 .. Len(u) : Later(t, i, q.kind)
  BY <1>6, LaterMore
<1>9. ASSUME NEW i \in 1 .. Len(t), t[i].kind = "signal"
      PROVE  /\ \/ Later(t, i, "subscribe")
                \/ \E m \in {} \cup {member} : t[i] = Packet(m)
             /\ \/ Later(t, i, "signal")
                \/ t[i] = Packet(member)
  <2>1. CASE i = Len(t)
    BY <1>3, <1>8, <2>1
  <2>2. CASE i \in 1 .. Len(u) /\ t[i] = u[i]
    <3>1. i \in 1 .. Len(channel)
      BY <1>4, <1>7, <1>9, <2>2
    <3> QED BY <1>4, <1>7, <1>8, <2>2, <3>1
  <2> QED BY <1>8, <2>1, <2>2
<1>10. \A m : Packet(m)' = Packet(m)
  BY <1>1, SameSignal
<1> QED BY <1>1, <1>2, <1>9, <1>10 DEF Told

\* Taking the first packet keeps the order of the descriptions behind it.
LEMMA ReceiveTold ==
    ASSUME BlockInv, Told, Receive
    PROVE  Told'
<1>1. /\ Order(channel) /\ channel # <<>> /\ UNCHANGED <<class, type, told, earlier>>
  BY DEF BlockInv, Lined, Receive
<1>2. PICK t : t = channel'
  OBVIOUS
<1>3. t = Tail(channel)
  BY <1>2 DEF Receive
<1>4. /\ Len(channel) \in Nat /\ Len(channel) >= 1 /\ Len(t) = Len(channel) - 1
      /\ \A i \in 1 .. Len(t) : t[i] = channel[i + 1]
  BY <1>1, <1>3, OneLess
<1>5. ASSUME NEW i \in 1 .. Len(t), NEW kind, Later(channel, i + 1, kind) PROVE Later(t, i, kind)
  <2>1. PICK j \in (i + 1) + 1 .. Len(channel) : channel[j].kind = kind
    BY <1>5 DEF Later
  <2>2. j - 1 \in 1 .. Len(t) /\ j - 1 \in i + 1 .. Len(t) /\ (j - 1) + 1 = j
    BY ONLY <1>4, <2>1, i \in 1 .. Len(t)
  <2>3. t[j - 1] = channel[j]
    BY <1>4, <2>2
  <2> QED BY <2>1, <2>2, <2>3 DEF Later
<1>6. ASSUME NEW i \in 1 .. Len(t), t[i].kind = "signal"
      PROVE  /\ \/ Later(t, i, "subscribe")
                \/ \E m \in earlier \cup {told} : t[i] = Packet(m)
             /\ \/ Later(t, i, "signal")
                \/ t[i] = Packet(told)
  <2>1. i + 1 \in 1 .. Len(channel) /\ t[i] = channel[i + 1]
    BY <1>4
  <2> QED BY <1>5, <1>6, <2>1 DEF Told
<1>7. \A m : Packet(m)' = Packet(m)
  BY <1>1, SameSignal
<1> QED BY <1>1, <1>2, <1>6, <1>7 DEF Told

-----------------------------------------------------------------------------
(* What the consumer shows. *)

\* The domain of a sequence.
LEMMA SequenceDomain ==
    ASSUME NEW s, IsSequence(s)
    PROVE  DOMAIN s = 1 .. Len(s) /\ Len(s) \in Nat
BY LenProperties DEF IsSequence

\* What is on its way behind a write.
LEMMA WayWritten ==
    ASSUME IsSequence(channel), NEW p, channel' = More(channel, p), NEW kinds
    PROVE  /\ NothingOnTheWay(kinds)' => NothingOnTheWay(kinds)
           /\ p.kind \in kinds => ~NothingOnTheWay(kinds)'
<1>1. PICK t : t = channel'
  OBVIOUS
<1>2. /\ Len(channel) \in Nat /\ Len(t) = Len(channel) + 1 /\ t[Len(channel) + 1] = p
      /\ \A i \in 1 .. Len(channel) : t[i] = channel[i]
      /\ DOMAIN channel = 1 .. Len(channel) /\ DOMAIN t = 1 .. Len(t)
  BY <1>1, OneMore, SequenceDomain
<1>3. NothingOnTheWay(kinds)' <=> \A i \in DOMAIN t : t[i].kind \notin kinds
  BY <1>1 DEF NothingOnTheWay
<1>4. ASSUME \A i \in 1 .. Len(t) : t[i].kind \notin kinds
      PROVE  p.kind \notin kinds /\ \A i \in 1 .. Len(channel) : channel[i].kind \notin kinds
  <2>1. 1 .. Len(channel) \subseteq 1 .. Len(t) /\ Len(channel) + 1 \in 1 .. Len(t)
    BY <1>2
  <2> QED BY <1>2, <1>4, <2>1
<1> QED BY <1>2, <1>3, <1>4 DEF NothingOnTheWay

\* What is on its way behind a read.
LEMMA WayRead ==
    ASSUME Order(channel), channel # <<>>, channel' = Tail(channel), NEW kinds,
           channel[1].kind \notin kinds, NothingOnTheWay(kinds)'
    PROVE  NothingOnTheWay(kinds)
<1>1. PICK t : t = Tail(channel)
  OBVIOUS
<1>2. /\ Len(channel) \in Nat /\ Len(channel) >= 1 /\ Len(t) = Len(channel) - 1
      /\ \A i \in 1 .. Len(t) : t[i] = channel[i + 1]
      /\ DOMAIN channel = 1 .. Len(channel) /\ DOMAIN t = 1 .. Len(t)
  BY <1>1, OneLess, SequenceDomain DEF Order
<1>3. \A i \in DOMAIN t : t[i].kind \notin kinds
  BY <1>1 DEF NothingOnTheWay
<1>4. ASSUME NEW i \in 1 .. Len(channel) PROVE channel[i].kind \notin kinds
  <2>1. CASE i = 1
    BY <2>1
  <2>2. CASE i # 1
    <3>1. i - 1 \in 1 .. Len(t) /\ (i - 1) + 1 = i
      BY ONLY <1>2, <2>2, i \in 1 .. Len(channel)
    <3>2. t[i - 1] = channel[i]
      BY <1>2, <3>1
    <3> QED BY <1>2, <1>3, <3>1, <3>2
  <2> QED BY <2>1, <2>2
<1> QED BY <1>2, <1>4 DEF NothingOnTheWay

\* A step that changes neither the consumer nor what was told, and takes nothing off the way.
LEMMA SilentShown ==
    ASSUME BlockInv, Shown, UNCHANGED <<class, consumer, status, told, earlier>>,
           NothingOnTheWay({"subscribe"})' => NothingOnTheWay({"subscribe"}),
           NothingOnTheWay({"signal"})' => NothingOnTheWay({"signal"})
    PROVE  Shown'
<1>1. \A m, group : Of(m, group)' = Of(m, group)
  BY DEF Of
<1>2. \A group : Default(group)' = Default(group)
  BY DEF Default
<1>3. \A m, group : Neutral(group, Described(class, m))' = Neutral(group, Described(class, m))
  BY DEF Neutral, Described
<1>4. CASE ~(status = "open" /\ consumer.known # "no" /\ NothingOnTheWay({"subscribe"})')
  BY <1>4 DEF Shown
<1>5. CASE status = "open" /\ consumer.known # "no" /\ NothingOnTheWay({"subscribe"})'
  BY <1>1, <1>2, <1>3, <1>5 DEF Shown
<1> QED BY <1>4, <1>5

\* Behind a new subscription nothing is claimed until it is read.
LEMMA SubscribeShown ==
    ASSUME BlockInv, Subscribe
    PROVE  Shown'
<1>1. IsSequence(channel)
  BY DEF BlockInv, Lined, Order
<1>2. PICK p, q : p = [kind |-> "subscribe"] /\ q = Packet(member)
  OBVIOUS
<1>3. p.kind = "subscribe" /\ channel' = More2(channel, p, q)
  BY <1>2 DEF Subscribe, Write, More2
<1>4. PICK t : t = channel'
  OBVIOUS
<1>5. Len(channel) \in Nat /\ Len(t) = Len(channel) + 2 /\ t[Len(channel) + 1] = p /\ IsSequence(t)
  BY <1>1, <1>3, <1>4, TwoAtOnce, OneMore
<1>6. Len(channel) + 1 \in DOMAIN t
  BY <1>5, SequenceDomain
<1>7. ~NothingOnTheWay({"subscribe"})'
  BY <1>3, <1>4, <1>5, <1>6 DEF NothingOnTheWay
<1> QED BY <1>7 DEF Shown

\* A description on its way makes what was told last something earlier.
LEMMA DescribedShown ==
    ASSUME BlockInv, Shown, DescribeAgain
    PROVE  Shown'
<1>1. /\ IsSequence(channel) /\ UNCHANGED <<class, consumer, status>>
      /\ told' = member /\ earlier' = earlier \cup {told}
  BY DEF BlockInv, Lined, Order, DescribeAgain
<1>2. PICK p : p = Packet(member)
  OBVIOUS
<1>3. p.kind = "signal" /\ channel' = More(channel, p)
  BY <1>2, OneWriteFits DEF DescribeAgain, Packet
<1>4. /\ NothingOnTheWay({"subscribe"})' => NothingOnTheWay({"subscribe"})
      /\ ~NothingOnTheWay({"signal"})'
  BY <1>1, <1>3, WayWritten
<1>5. \A m, group : Of(m, group)' = Of(m, group)
  BY <1>1 DEF Of
<1>6. \A group : Default(group)' = Default(group)
  BY DEF Default
<1> QED BY <1>1, <1>4, <1>5, <1>6 DEF Shown

\* What comes later than the first packet is on its way behind the read.
LEMMA LaterOnTheWay ==
    ASSUME Order(channel), channel # <<>>, channel' = Tail(channel), NEW kind,
           Later(channel, 1, kind)
    PROVE  ~NothingOnTheWay({kind})'
<1>1. PICK t : t = Tail(channel)
  OBVIOUS
<1>2. /\ Len(channel) \in Nat /\ Len(channel) >= 1 /\ Len(t) = Len(channel) - 1
      /\ \A i \in 1 .. Len(t) : t[i] = channel[i + 1]
      /\ DOMAIN t = 1 .. Len(t)
  BY <1>1, OneLess, SequenceDomain DEF Order
<1>3. PICK j \in 1 + 1 .. Len(channel) : channel[j].kind = kind
  BY DEF Later
<1>4. j - 1 \in 1 .. Len(t) /\ (j - 1) + 1 = j
  BY ONLY <1>2, <1>3
<1>5. t[j - 1] = channel[j]
  BY <1>2, <1>4
<1> QED BY <1>1, <1>2, <1>3, <1>4, <1>5 DEF NothingOnTheWay

\* A description that is read and not refused.
LEMMA ReadShown ==
    ASSUME BlockInv, Told, Shown, Receive, channel[1].kind = "signal", status' = "open",
           NothingOnTheWay({"subscribe"})', NEW group \in Groups
    PROVE  LET shown == Restrict(consumer.attributes, group)'
           IN  /\ \/ shown = Default(group)
                  \/ \E m \in earlier \cup {told} : shown = Of(m, group)
               /\ NothingOnTheWay({"signal"})' =>
                      \/ shown = Of(told, group)
                      \/ /\ Neutral(group, Described(class, told))
                         /\ \/ shown = Default(group)
                            \/ \E m \in earlier : shown = Of(m, group)
<1>1. /\ Order(channel) /\ channel # <<>> /\ channel' = Tail(channel) /\ status = "open"
      /\ class \in TimeClasses \cup ValueClasses
  BY DEF BlockInv, Lined, Receive
<1>2. Head(channel) = channel[1] /\ 1 \in 1 .. Len(channel)
  BY <1>1, OneLess
<1>3. consumer.known # "no" /\ DOMAIN consumer.attributes = Attributes
  <2>1. consumer.known # "no"
    BY ReceiveConsumer DEF Was, Follows
  <2> QED BY <2>1 DEF BlockInv, ConsumerOK
<1>4. NothingOnTheWay({"subscribe"})
  BY <1>1, WayRead
<1> DEFINE old == Restrict(consumer.attributes, group)
           new == Restrict(consumer'.attributes, group)
<1>5. old = Default(group) \/ \E m \in earlier \cup {told} : old = Of(m, group)
  BY <1>1, <1>3, <1>4 DEF Shown
<1>6. consumer'.attributes = With(consumer.attributes, channel[1].given)
  <2>1. ReadDescription(channel[1])
    BY <1>2 DEF Receive
  <2>2. status' = "open" => ~("ticks" \in DOMAIN channel[1].given /\ channel[1].given.ticks = 0)
    BY <2>1 DEF ReadDescription
  <2> QED BY <2>1, <2>2 DEF ReadDescription, Parse
<1>7. ASSUME NEW m, MemberOK(m), channel[1] = Packet(m)
      PROVE  new = Of(m, group) \/ (new = old /\ Neutral(group, Described(class, m)))
  BY <1>1, <1>3, <1>6, <1>7, GroupRead
<1>8. \A m \in earlier \cup {told} : MemberOK(m)
  BY DEF BlockInv, MembersOK
<1>9. \E m \in earlier \cup {told} : channel[1] = Packet(m)
  BY <1>1, <1>2, LaterOnTheWay DEF Told
<1>10. NothingOnTheWay({"signal"})' => channel[1] = Packet(told)
  BY <1>1, <1>2, LaterOnTheWay DEF Told
<1> HIDE DEF old, new
<1>11. new = Default(group) \/ \E m \in earlier \cup {told} : new = Of(m, group)
  BY <1>5, <1>7, <1>8, <1>9
<1>12. NothingOnTheWay({"signal"})' =>
          \/ new = Of(told, group)
          \/ /\ Neutral(group, Described(class, told))
             /\ new = Default(group) \/ \E m \in earlier : new = Of(m, group)
  BY <1>5, <1>7, <1>8, <1>10
<1> QED BY <1>11, <1>12 DEF new

\* Each kind of packet, by what it makes the consumer show.
LEMMA ReceiveShown ==
    ASSUME BlockInv, Told, Shown, Receive
    PROVE  Shown'
<1>1. /\ Order(channel) /\ channel # <<>> /\ channel' = Tail(channel)
      /\ UNCHANGED <<class, told, earlier>>
  BY DEF BlockInv, Lined, Receive
<1>2. Head(channel) = channel[1]
  BY <1>1, OneLess
<1>3. /\ \A m, group : Of(m, group)' = Of(m, group)
      /\ \A group : Default(group)' = Default(group)
      /\ \A m, group : Neutral(group, Described(class, m))' = Neutral(group, Described(class, m))
  BY <1>1 DEF Of, Default, Neutral, Described
<1>4. CASE channel[1].kind = "subscribe" /\ consumer' = NewConsumer
  <2>1. NewConsumer.known = "acknowledged"
    BY DEF NewConsumer
  <2>2. \A group : Restrict(consumer'.attributes, group) = Default(group)
    BY <1>4 DEF Default
  <2> QED BY <1>3, <1>4, <2>1, <2>2 DEF Shown
<1>5. CASE channel[1].kind = "unsubscribe" /\ consumer' = NoSignal
  BY <1>5 DEF Shown, NoSignal
<1>6. CASE channel[1].kind = "data" /\ UNCHANGED <<consumer, status>>
  <2>1. /\ NothingOnTheWay({"subscribe"})' => NothingOnTheWay({"subscribe"})
        /\ NothingOnTheWay({"signal"})' => NothingOnTheWay({"signal"})
    BY <1>1, <1>6, WayRead
  <2> QED BY <1>1, <1>6, <2>1, SilentShown
<1>7. CASE channel[1].kind = "signal"
  <2>1. CASE ~(status' = "open" /\ NothingOnTheWay({"subscribe"})')
    BY <2>1 DEF Shown
  <2>2. CASE status' = "open" /\ NothingOnTheWay({"subscribe"})'
    BY <1>1, <1>3, <1>7, <2>2, ReadShown DEF Shown
  <2> QED BY <2>1, <2>2
<1> QED BY <1>2, <1>4, <1>5, <1>6, <1>7 DEF Receive

DescriptionInv == BlockInv /\ Told /\ Shown

\* Every step keeps the invariant.
LEMMA DescriptionsKept ==
    ASSUME DescriptionInv, [DescriptionNext]_descriptionVars
    PROVE  DescriptionInv'
<1>1. BlockInv /\ Told /\ Shown /\ IsSequence(channel)
  BY DEF DescriptionInv, BlockInv, Lined, Order
<1>2. BlockInv'
  BY <1>1, DescriptionStep
<1>3. CASE UNCHANGED <<class, type, channel, consumer, status, told, earlier>>
  <2>1. Told'
    BY <1>1, <1>3, SameSignal DEF Told
  <2>2. Shown'
    BY <1>1, <1>3, SilentShown DEF NothingOnTheWay
  <2> QED BY <1>2, <2>1, <2>2 DEF DescriptionInv
<1>4. ASSUME NEW p, p.kind # "signal", Write(<<p>>),
             UNCHANGED <<class, type, consumer, status, told, earlier>>
      PROVE  DescriptionInv'
  <2>1. channel' = More(channel, p)
    BY <1>1, <1>4, OneWriteFits
  <2>2. Told'
    BY <1>1, <1>4, <2>1, SilentTold
  <2>3. Shown'
    BY <1>1, <1>4, <2>1, WayWritten, SilentShown
  <2> QED BY <1>2, <2>2, <2>3 DEF DescriptionInv
<1>5. CASE Subscribe
  BY <1>1, <1>2, <1>5, SubscribeTold, SubscribeShown DEF DescriptionInv
<1>6. CASE DescribeAgain
  BY <1>1, <1>2, <1>6, DescribedTold, DescribedShown DEF DescriptionInv
<1>7. CASE Unsubscribe
  <2>1. PICK p : p = [kind |-> "unsubscribe"]
    OBVIOUS
  <2> QED BY <1>4, <1>7, <2>1 DEF Unsubscribe
<1>8. CASE SomeData
  <2>1. PICK count \in Counts, topBit \in BOOLEAN, digits \in Digits :
             AddData(count, topBit, digits)
    BY <1>8 DEF SomeData
  <2>2. PICK p : p = [kind |-> "data", topBit |-> topBit, digits |-> digits, values |-> count,
                      bytes |-> count * EntryBytes(SizeOf[type], Rule(class))]
    OBVIOUS
  <2>3. p.kind # "signal"
    BY <2>2
  <2> QED BY <1>4, <2>1, <2>2, <2>3 DEF AddData
<1>9. CASE Receive
  BY <1>1, <1>2, <1>9, ReceiveTold, ReceiveShown DEF DescriptionInv
<1>10. CASE UNCHANGED descriptionVars
  BY <1>3, <1>10 DEF descriptionVars
<1>11. CASE DescriptionNext /\ ~(Subscribe \/ DescribeAgain \/ Unsubscribe \/ Receive)
           /\ ~SomeData
  <2>1. \E m : Change(m)
    BY <1>1, <1>11, SetterKeeps
  <2> QED BY <1>3, <2>1 DEF Change
<1> QED BY <1>5, <1>6, <1>7, <1>8, <1>9, <1>10, <1>11

-----------------------------------------------------------------------------
(* The theorems. *)

\* The invariant is inductive: every setter, write and read of a description keeps what
\* is on its way in order and what the consumer shows of it.
THEOREM DescriptionInductive == DescriptionSpec => []DescriptionInv
<1>1. ASSUME DescriptionInit PROVE DescriptionInv
  <2>1. BlockInv
    BY <1>1, DescriptionInitial
  <2>2. channel = <<>> /\ consumer.known = "no"
    BY <1>1 DEF DescriptionInit, NoSignal
  <2>3. Len(channel) = 0
    BY <2>2
  <2>4. Told
    BY <2>3 DEF Told
  <2> QED BY <2>1, <2>2, <2>4 DEF DescriptionInv, Shown
<1>2. DescriptionInit => DescriptionInv
  BY <1>1
<1>3. DescriptionInv /\ [DescriptionNext]_descriptionVars => DescriptionInv'
  BY DescriptionsKept
<1> QED BY <1>2, <1>3, PTL DEF DescriptionSpec

\* The producer's members, the stream within its capacity and the consumer's state have
\* their types, whatever the application sets and whenever it subscribes.
THEOREM DescriptionTypes == DescriptionSpec => []DescriptionTypeOK
<1>1. DescriptionInv => DescriptionTypeOK
  <2>1. SUFFICES ASSUME DescriptionInv PROVE DescriptionTypeOK
    OBVIOUS
  <2>2. DOMAIN NewConsumer.attributes = Attributes
    BY DEF NewConsumer, NewMember, Attributes
  <2>3. DOMAIN member = Attributes
    BY <2>1 DEF DescriptionInv, BlockInv, MembersOK, MemberOK
  <2> QED BY <2>1, <2>2, <2>3 DEF DescriptionInv, BlockInv, ConsumerOK, DescriptionTypeOK
<1> QED BY <1>1, DescriptionInductive, PTL

\* Whatever is set, told and read in whichever order, a consumer that is up to date shows
\* each group of attributes as it was told last, or as the one exception has it
\* (SubscribedSignal.cpp:209-443 against the compose() functions of the producer).
THEOREM ConsumerShowsWhatWasTold == DescriptionSpec => []ConsumerKnowsDescription
<1>1. DescriptionInv => ConsumerKnowsDescription
  <2>1. SUFFICES ASSUME Shown, consumer.known = "described", status = "open",
                        NothingOnTheWay({"signal", "subscribe", "unsubscribe"}),
                        NEW group \in Groups
                 PROVE  LET shown == Restrict(consumer.attributes, group)
                        IN  \/ shown = Of(told, group)
                            \/ /\ Neutral(group, Described(class, told))
                               /\ \/ shown = Default(group)
                                  \/ \E m \in earlier : shown = Of(m, group)
    BY DEF ConsumerKnowsDescription, DescriptionInv, Of, Default
  <2>2. NothingOnTheWay({"signal"}) /\ NothingOnTheWay({"subscribe"})
    BY <2>1 DEF NothingOnTheWay
  <2> QED BY <2>1, <2>2 DEF Shown
<1> QED BY <1>1, DescriptionInductive, PTL

\* For every class and type the producer can be instantiated for, the consumer reads the
\* sample type, the width and the rule from the description that the producer's C++ type
\* has (SynchronousSignal.cpp and its siblings against SubscribedSignal.cpp:286-387).
THEOREM SampleTypeIsTheProducers == DescriptionSpec => []SampleTypesAgree
<1>1. DescriptionInv => SampleTypesAgree
  <2>1. SUFFICES ASSUME DescriptionInv, consumer.known = "described", class \in ValueClasses
                 PROVE  /\ consumer.sampleType = GetSampleType(class, type)
                        /\ consumer.size = SizeOf[type] /\ consumer.rule = Rule(class)
    BY DEF SampleTypesAgree, IsDataSignal
  <2>2. type \in DataTypes(class)
    BY <2>1 DEF DescriptionInv, BlockInv
  <2>3. /\ consumer.sampleType = DataValueType[DataTypeName(class, type)]
        /\ consumer.size = DataTypeSize[DataTypeName(class, type)]
        /\ consumer.rule = Rule(class)
    BY <2>1 DEF DescriptionInv, BlockInv, ConsumerOK
  <2> QED BY <2>1, <2>2, <2>3, TypeTables
<1> QED BY <1>1, DescriptionInductive, PTL

\* No block, however long, is miscounted or converted to other values than were sent,
\* except for what the property names (SubscribedSignal.cpp:453-491).
THEOREM BlocksAreConverted == DescriptionSpec => []ValuesConverted
<1>1. DescriptionInv => ValuesConverted
  BY DEF DescriptionInv, BlockInv
<1> QED BY <1>1, DescriptionInductive, PTL
=============================================================================
