--------------------------- MODULE ContainerTypes ---------------------------
(***************************************************************************)
(* What the operations of the signal container return and that each of     *)
(* them keeps the container's types, for every set of signals and tables   *)
(* and every word width.  The proofs about the container alone             *)
(* (ContainerProofs) and about whole sessions (StreamingProofs) rest on    *)
(* these lemmas.                                                           *)
(***************************************************************************)
EXTENDS SignalContainer, TLAPS

\* Unsigned arithmetic stays within its word (uint64_t of SubscribedSignal).
LEMMA WrapInWord == ASSUME NEW x \in Int PROVE x % Wrap \in Word
  BY WrapAssumption DEF Word

\* The "definition" chapter leaves a signal behind wherever it stops, in the same table;
\* only the quantity "time" makes it a time signal (SubscribedSignal.cpp:214-443).
LEMMA DefinitionType ==
    ASSUME NEW sig \in Signal, NEW def \in Definition, NEW fault \in Faults,
           NEW answer, answer = ProcessDefinition(sig, def, fault)
    PROVE  /\ answer.ok \in BOOLEAN
           /\ answer.signal \in Signal
           /\ answer.signal.tableId = sig.tableId
           /\ answer.signal.isTime => (sig.isTime \/ def.quantityTime)
           /\ sig.isTime => answer.signal.isTime
           /\ answer.ok /\ def.quantityTime => answer.signal.isTime
  <1> DEFINE delta     == Given(def.delta, sig.delta)
             withDelta == [sig EXCEPT !.delta = delta]
             withRule  == [withDelta EXCEPT !.rule = Given(def.rule, @)]
             withSize  == [withRule EXCEPT !.size = IF def.size = 0 THEN @ ELSE def.size]
             withTime  == [withSize EXCEPT !.isTime = @ \/ def.quantityTime]
             badRule   == fault = "rule" \/ (def.rule = "linear" /\ delta = 0)
  <1>1. /\ withDelta \in Signal
        /\ withDelta.tableId = sig.tableId
        /\ withDelta.isTime = sig.isTime
    BY SentinelAssumption DEF Given, Signal, Definition, Word
  <1>2. /\ withRule \in Signal
        /\ withRule.tableId = sig.tableId
        /\ withRule.isTime = sig.isTime
    <2> HIDE DEF withDelta
    <2> QED BY <1>1 DEF Given, Signal, Definition
  <1>3. /\ withSize \in Signal
        /\ withSize.tableId = sig.tableId
        /\ withSize.isTime = sig.isTime
    <2> HIDE DEF withRule
    <2> QED BY <1>2 DEF Signal, Definition
  <1>4. /\ withTime \in Signal
        /\ withTime.tableId = sig.tableId
        /\ withTime.isTime = (sig.isTime \/ def.quantityTime)
    <2> HIDE DEF withSize
    <2> QED BY <1>3 DEF Signal, Definition
  <1>5. answer = IF fault = "delta" THEN Answer(FALSE, sig)
                 ELSE IF fault = "start" \/ badRule THEN Answer(FALSE, withDelta)
                 ELSE IF fault = "dataType" THEN Answer(FALSE, withSize)
                 ELSE Answer(fault # "resolution", withTime)
    BY DEF ProcessDefinition
  <1> HIDE DEF delta, withDelta, withRule, withSize, withTime, badRule
  <1>6. def.quantityTime \in BOOLEAN /\ sig.isTime \in BOOLEAN
    BY DEF Definition, Signal
  <1>7. CASE fault = "delta"
    <2>1. answer.ok = FALSE /\ answer.signal = sig
      BY <1>5, <1>7 DEF Answer
    <2> QED BY <1>6, <2>1
  <1>8. CASE fault # "delta" /\ (fault = "start" \/ badRule)
    <2>1. answer.ok = FALSE /\ answer.signal = withDelta
      BY <1>5, <1>8 DEF Answer
    <2> QED BY <1>1, <1>6, <2>1
  <1>9. CASE fault # "delta" /\ fault # "start" /\ ~badRule /\ fault = "dataType"
    <2>1. answer.ok = FALSE /\ answer.signal = withSize
      BY <1>5, <1>9 DEF Answer
    <2> QED BY <1>3, <1>6, <2>1
  <1>10. CASE fault # "delta" /\ fault # "start" /\ ~badRule /\ fault # "dataType"
    <2>1. answer = Answer(fault # "resolution", withTime)
      BY <1>5, <1>10
    <2>2. answer.ok \in BOOLEAN /\ answer.signal = withTime
      BY <2>1 DEF Answer
    <2> QED BY <1>4, <1>6, <2>2
  <1> QED BY <1>7, <1>8, <1>9, <1>10

\* The whole "signal" method likewise; the table changes only if one is given
\* (SubscribedSignal.cpp:178-451).
LEMMA ParamsType ==
    ASSUME NEW sig \in Signal, NEW params \in SignalParams,
           NEW answer, answer = ProcessSignalParams(sig, params)
    PROVE  /\ answer.ok \in BOOLEAN
           /\ answer.signal \in Signal
           /\ answer.signal.tableId \in {sig.tableId, Given(params.tableId, sig.tableId)}
           /\ answer.ok => answer.signal.tableId = Given(params.tableId, sig.tableId)
           /\ answer.signal.isTime =>
                  \/ sig.isTime
                  \/ params.definition # Absent /\ params.definition.quantityTime
           /\ sig.isTime => answer.signal.isTime
           /\ answer.ok /\ params.definition # Absent /\ params.definition.quantityTime
                  => answer.signal.isTime
  <1> DEFINE header == [sig EXCEPT !.tableId = Given(params.tableId, @),
                                   !.index = Given(params.valueIndex, @)]
  <1>1. /\ header \in Signal
        /\ header.tableId = Given(params.tableId, sig.tableId)
        /\ header.isTime = sig.isTime
    BY SentinelAssumption DEF Given, Signal, SignalParams, Word
  <1>2. answer = IF params.fault = "tableId" THEN Answer(FALSE, sig)
                 ELSE IF params.definition = Absent THEN Answer(TRUE, header)
                 ELSE ProcessDefinition(header, params.definition, params.fault)
    BY DEF ProcessSignalParams
  <1> HIDE DEF header
  <1>3. CASE params.fault = "tableId" \/ params.definition = Absent
    <2>1. CASE params.fault = "tableId"
      <3>1. answer.ok = FALSE /\ answer.signal = sig
        BY <1>2, <2>1 DEF Answer
      <3> QED BY <3>1
    <2>2. CASE params.fault # "tableId" /\ params.definition = Absent
      <3>1. answer.ok = TRUE /\ answer.signal = header
        BY <1>2, <2>2 DEF Answer
      <3> QED BY <1>1, <2>2, <3>1
    <2> QED BY <1>3, <2>1, <2>2
  <1>4. CASE params.fault # "tableId" /\ params.definition # Absent
    <2>1. params.definition \in Definition /\ params.fault \in Faults
      BY <1>4 DEF SignalParams
    <2>2. answer = ProcessDefinition(header, params.definition, params.fault)
      BY <1>2, <1>4
    <2> QED BY <1>1, <1>4, <2>1, <2>2, DefinitionType
  <1> QED BY <1>3, <1>4

\* A block of data leaves a signal of the same table and role, and what it delivers is
\* a time stamp, a length and a count (SubscribedSignal.cpp:36-98).
LEMMA MeasuredType ==
    ASSUME NEW sig \in Signal, NEW timeSignal \in Signal \cup {Null}, NEW len \in Nat
    PROVE  /\ ProcessSignalData(sig, timeSignal, len).ok \in BOOLEAN
           /\ ProcessSignalData(sig, timeSignal, len).signal \in Signal
           /\ ProcessSignalData(sig, timeSignal, len).signal.tableId = sig.tableId
           /\ ProcessSignalData(sig, timeSignal, len).signal.isTime = sig.isTime
           /\ ProcessSignalData(sig, timeSignal, len).delivery \in Delivery \cup {NoDelivery}
  <1> DEFINE answer == ProcessSignalData(sig, timeSignal, len)
  <1>1. ASSUME NEW time \in Word, NEW a, a = MeasuredExplicit(sig, time, len)
        PROVE  /\ a.ok \in BOOLEAN
               /\ a.signal = sig
               /\ a.delivery \in Delivery \cup {NoDelivery}
    BY <1>1 DEF MeasuredExplicit, Measured, Delivered, Delivery, Signal
  <1>2. 0 \in Word
    BY WrapAssumption DEF Word
  <1>3. CASE timeSignal = Null
    BY <1>1, <1>2, <1>3 DEF ProcessSignalData
  <1>4. CASE timeSignal # Null
    <2>1. timeSignal \in Signal
      BY <1>4
    <2>2. CASE timeSignal.rule = "explicit"
      BY <1>1, <1>4, <2>1, <2>2 DEF ProcessSignalData, Signal
    <2>3. CASE timeSignal.rule = "constant"
      BY <1>4, <2>1, <2>3 DEF ProcessSignalData, Measured
    <2>4. CASE timeSignal.rule = "linear"
      <3>1. answer = MeasuredLinear(sig, timeSignal, len)
        BY <1>4, <2>4 DEF ProcessSignalData
      <3> DEFINE known == [sig EXCEPT !.delta = timeSignal.delta]
                 count == len \div sig.size
                 next  == [known EXCEPT !.index = (@ + count) % Wrap]
      <3>2. known \in Signal /\ known.tableId = sig.tableId /\ known.isTime = sig.isTime
        BY <2>1 DEF Signal
      <3>3. count \in Nat /\ len \div (IndexBytes + sig.size) \in Nat
        BY DEF Signal, IndexBytes
      <3>4. LinearTime(sig, timeSignal) \in Word /\ timeSignal.time \in Word
        BY <2>1, WrapInWord DEF LinearTime, Signal, Word
      <3>5. (known.index + count) % Wrap \in Word
        BY <3>2, <3>3, WrapInWord DEF Signal, Word
      <3>6. next \in Signal /\ next.tableId = sig.tableId /\ next.isTime = sig.isTime
        <4> HIDE DEF known, count
        <4> QED BY <3>2, <3>5 DEF Signal
      <3>7. \/ /\ answer.ok = TRUE /\ answer.signal = next
               /\ answer.delivery = Delivered(LinearTime(sig, timeSignal), len, count)
            \/ /\ answer.ok = TRUE /\ answer.signal = known
               /\ answer.delivery = Delivered(timeSignal.time, len,
                                              len \div (IndexBytes + sig.size))
            \/ /\ answer.ok = TRUE /\ answer.signal = known
               /\ answer.delivery = NoDelivery
        BY <3>1 DEF MeasuredLinear, Measured, Signal, RuleTypes
      <3> HIDE DEF known, count, next
      <3>8. /\ Delivered(LinearTime(sig, timeSignal), len, count) \in Delivery
            /\ Delivered(timeSignal.time, len, len \div (IndexBytes + sig.size)) \in Delivery
        BY <3>3, <3>4 DEF Delivered, Delivery
      <3> QED BY <3>2, <3>6, <3>7, <3>8
    <2> QED BY <2>1, <2>2, <2>3, <2>4 DEF Signal, RuleTypes
  <1> QED BY <1>3, <1>4

-----------------------------------------------------------------------------
\* The constructor makes a signal (SubscribedSignal.cpp:18-34).
LEMMA NewSignalType == NewSignal \in Signal
  BY WrapAssumption DEF NewSignal, Signal, RuleTypes, Word, FloatBytes

\* An empty table is a table (Table.hpp:21-28).
LEMMA NewTableType == NewTable \in Table
  BY DEF NewTable, Table

\* A live signal is a signal, and the look-up of a table yields a table.
LEMMA LookUp ==
    ASSUME ContainerTypeOK
    PROVE  /\ \A n : Live(n) => n \in SignalNumbers /\ subscribedSignals[n] \in Signal
           /\ \A t : TableAt(t) \in Table
  BY NewTableType DEF ContainerTypeOK, SignalsTypeOK, TablesTypeOK, Live, TableAt

-----------------------------------------------------------------------------
(* Type correctness, one lemma per kind of change. *)

\* Listing a signal keeps the tables tables (SignalContainer.cpp:118-128).
LEMMA TablesWithType ==
    ASSUME ContainerTypeOK, NEW n \in SignalNumbers, NEW sig \in Signal
    PROVE  /\ DOMAIN TablesWith(n, sig) \subseteq TableIds \cup {NoTableId}
           /\ TablesWith(n, sig) \in [DOMAIN TablesWith(n, sig) -> Table]
  <1> DEFINE old == TableAt(sig.tableId)
             new == IF sig.isTime THEN [old EXCEPT !.time = n]
                                  ELSE [old EXCEPT !.data = @ \cup {n}]
  <1>1. old \in Table
    BY LookUp
  <1>2. new \in Table
    <2> HIDE DEF old
    <2> QED BY <1>1 DEF Table
  <1>3. sig.tableId \in TableIds \cup {NoTableId}
    BY DEF Signal
  <1>4. TablesWith(n, sig) = Put(tables, sig.tableId, new)
    BY DEF TablesWith
  <1> HIDE DEF new
  <1> QED BY <1>2, <1>3, <1>4 DEF ContainerTypeOK, TablesTypeOK, Put

\* Taking a signal out of its table does too (SignalContainer.cpp:75-88).
LEMMA TablesWithoutType ==
    ASSUME ContainerTypeOK, NEW n \in SignalNumbers, NEW sig \in Signal
    PROVE  /\ DOMAIN TablesWithout(n, sig) \subseteq TableIds \cup {NoTableId}
           /\ TablesWithout(n, sig) \in [DOMAIN TablesWithout(n, sig) -> Table]
  <1>1. CASE sig.tableId \notin DOMAIN tables
    BY <1>1 DEF TablesWithout, ContainerTypeOK, TablesTypeOK
  <1>2. CASE sig.tableId \in DOMAIN tables
    <2> DEFINE old  == tables[sig.tableId]
               left == IF sig.isTime THEN [old EXCEPT !.time = NoTimeSignal]
                                     ELSE [old EXCEPT !.data = @ \ {n}]
    <2>1. old \in Table
      BY <1>2 DEF ContainerTypeOK, TablesTypeOK
    <2>2. left \in Table
      <3> HIDE DEF old
      <3> QED BY <2>1 DEF Table
    <2>3. TablesWithout(n, sig) = IF left = NewTable THEN Erase(tables, sig.tableId)
                                  ELSE Put(tables, sig.tableId, left)
      BY <1>2 DEF TablesWithout
    <2>4. sig.tableId \in TableIds \cup {NoTableId}
      BY DEF Signal
    <2> HIDE DEF left
    <2>5. CASE left = NewTable
      BY <2>3, <2>5 DEF ContainerTypeOK, TablesTypeOK, Erase
    <2>6. CASE left # NewTable
      BY <2>2, <2>3, <2>4, <2>6 DEF ContainerTypeOK, TablesTypeOK, Put
    <2> QED BY <2>5, <2>6
  <1> QED BY <1>1, <1>2

\* What the three ways to answer, and the crash, do to the type of the answer.
LEMMA AnsweredType ==
    ASSUME ContainerTypeOK, NEW n \in SignalNumbers
    PROVE  /\ MetaAccepted(n) => AnswerTypeOK'
           /\ MetaRefused(n) => AnswerTypeOK'
           /\ \A ok \in BOOLEAN, d \in Delivery \cup {NoDelivery} :
                  DataAnswered(n, ok, d) => AnswerTypeOK'
           /\ Crash => ContainerTypeOK'
  <1>1. MetaAccepted(n) => AnswerTypeOK'
    BY DEF ContainerTypeOK, AnswerTypeOK, MetaAccepted, Call
  <1>2. MetaRefused(n) => AnswerTypeOK'
    BY DEF ContainerTypeOK, AnswerTypeOK, MetaRefused, Call
  <1>3. ASSUME NEW ok \in BOOLEAN, NEW d \in Delivery \cup {NoDelivery},
               DataAnswered(n, ok, d)
        PROVE  AnswerTypeOK'
    BY <1>3 DEF ContainerTypeOK, AnswerTypeOK, DataAnswered, Call
  <1>4. Crash => ContainerTypeOK'
    BY DEF ContainerTypeOK, SignalsTypeOK, TablesTypeOK, AnswerTypeOK, Crash
  <1> QED BY <1>1, <1>2, <1>3, <1>4

\* The signal map with one entry set to a signal.
LEMMA PutSignalType ==
    ASSUME ContainerTypeOK, NEW n \in SignalNumbers, NEW sig \in Signal \cup {Null},
           subscribedSignals' = Put(subscribedSignals, n, sig)
    PROVE  SignalsTypeOK'
  BY DEF ContainerTypeOK, SignalsTypeOK, Put

\* A subscribe acknowledgement preserves the types (SignalContainer.cpp:89-103).
LEMMA SubscribeAckType ==
    ASSUME ContainerTypeOK, NEW n \in SignalNumbers, NEW id, SubscribeAck(n, id)
    PROVE  ContainerTypeOK'
  <1>1. TablesTypeOK'
    BY DEF SubscribeAck, ContainerTypeOK, TablesTypeOK
  <1>2. AnswerTypeOK'
    BY AnsweredType DEF SubscribeAck
  <1>3. SignalsTypeOK'
    BY PutSignalType, NewSignalType DEF SubscribeAck, ContainerTypeOK, SignalsTypeOK
  <1> QED BY <1>1, <1>2, <1>3 DEF ContainerTypeOK

\* An unsubscribe acknowledgement preserves the types (SignalContainer.cpp:69-88).
LEMMA UnsubscribeAckType ==
    ASSUME ContainerTypeOK, NEW n \in SignalNumbers, UnsubscribeAck(n)
    PROVE  ContainerTypeOK'
  <1>1. CASE Unknown(n) /\ MetaRefused(n) /\ UNCHANGED <<subscribedSignals, tables>>
    BY <1>1, AnsweredType DEF ContainerTypeOK, SignalsTypeOK, TablesTypeOK
  <1>2. CASE Crash
    BY <1>2, AnsweredType
  <1>3. CASE /\ Live(n)
             /\ tables' = TablesWithout(n, subscribedSignals[n])
             /\ subscribedSignals' = Erase(subscribedSignals, n)
             /\ MetaAccepted(n)
    <2>1. subscribedSignals[n] \in Signal
      BY <1>3, LookUp
    <2>2. TablesTypeOK'
      BY <1>3, <2>1, TablesWithoutType DEF TablesTypeOK
    <2>3. SignalsTypeOK'
      BY <1>3 DEF ContainerTypeOK, SignalsTypeOK, Erase
    <2> QED BY <1>3, <2>2, <2>3, AnsweredType DEF ContainerTypeOK
  <1> QED BY <1>1, <1>2, <1>3 DEF UnsubscribeAck

\* A description preserves the types, accepted or not (SignalContainer.cpp:104-130).
LEMMA SignalMetaType ==
    ASSUME ContainerTypeOK, NEW n \in SignalNumbers, NEW params \in SignalParams,
           SignalMeta(n, params)
    PROVE  ContainerTypeOK'
  <1>1. CASE Unknown(n) /\ MetaRefused(n) /\ UNCHANGED <<subscribedSignals, tables>>
    BY <1>1, AnsweredType DEF ContainerTypeOK, SignalsTypeOK, TablesTypeOK
  <1>2. CASE Crash
    BY <1>2, AnsweredType
  <1> DEFINE answer == ProcessSignalParams(subscribedSignals[n], params)
  <1>3. CASE /\ Live(n)
             /\ subscribedSignals' = Put(subscribedSignals, n, answer.signal)
             /\ tables' = IF answer.ok THEN TablesWith(n, answer.signal) ELSE tables
             /\ IF answer.ok THEN MetaAccepted(n) ELSE MetaRefused(n)
    <2>1. subscribedSignals[n] \in Signal
      BY <1>3, LookUp
    <2>2. answer.signal \in Signal
      BY <2>1, ParamsType
    <2> HIDE DEF answer
    <2>3. SignalsTypeOK'
      BY <1>3, <2>2, PutSignalType
    <2>4. TablesTypeOK'
      <3>1. CASE answer.ok
        BY <1>3, <2>2, <3>1, TablesWithType DEF TablesTypeOK
      <3>2. CASE ~answer.ok
        BY <1>3, <3>2 DEF ContainerTypeOK, TablesTypeOK
      <3> QED BY <3>1, <3>2
    <2>5. AnswerTypeOK'
      BY <1>3, AnsweredType
    <2> QED BY <2>3, <2>4, <2>5 DEF ContainerTypeOK
  <1> QED BY <1>1, <1>2, <1>3 DEF SignalMeta

\* Meta information the signal ignores preserves the types (SignalContainer.cpp:104-130).
LEMMA OtherMetaType ==
    ASSUME ContainerTypeOK, NEW n \in SignalNumbers, OtherMeta(n)
    PROVE  ContainerTypeOK'
  <1>1. CASE (MetaRefused(n) \/ MetaAccepted(n)) /\ UNCHANGED <<subscribedSignals, tables>>
    BY <1>1, AnsweredType DEF ContainerTypeOK, SignalsTypeOK, TablesTypeOK
  <1>2. CASE Crash
    BY <1>2, AnsweredType
  <1> QED BY <1>1, <1>2 DEF OtherMeta

\* A block of time data sets the time of its signal and nothing else of it.
LEMMA StampedType ==
    ASSUME NEW sig \in Signal, NEW payload \in [len : Nat, first : Word, second : Word]
    PROVE  /\ StampedTimeSignal(sig, payload) \in Signal
           /\ StampedTimeSignal(sig, payload).tableId = sig.tableId
           /\ StampedTimeSignal(sig, payload).isTime = sig.isTime
  BY DEF StampedTimeSignal, Signal

Payload == [len : Nat, first : Word, second : Word]

\* A block of a time signal preserves the types (SignalContainer.cpp:148-181).
LEMMA TimeDataType ==
    ASSUME ContainerTypeOK, NEW n \in SignalNumbers, NEW payload \in Payload,
           Live(n), TimeData(n, payload)
    PROVE  ContainerTypeOK'
  <1> DEFINE sig      == subscribedSignals[n]
             stamped  == StampedTimeSignal(sig, payload)
             explicit == ProcessSignalData(stamped, Null, payload.len)
  <1>1. CASE Crash
    BY <1>1, AnsweredType
  <1>2. CASE /\ subscribedSignals' = Put(subscribedSignals, n, stamped)
             /\ tables' = tables
             /\ DataAnswered(n, TRUE, IF sig.rule = "explicit" THEN explicit.delivery
                                      ELSE NoDelivery)
    <2>1. sig \in Signal
      BY LookUp
    <2>2. stamped \in Signal
      BY <2>1, StampedType DEF Payload
    <2>3. explicit.delivery \in Delivery \cup {NoDelivery}
      <3> HIDE DEF stamped
      <3>1. payload.len \in Nat
        BY DEF Payload
      <3> QED BY <2>2, <3>1, MeasuredType
    <2> HIDE DEF sig, stamped, explicit
    <2>4. SignalsTypeOK'
      BY <1>2, <2>2, PutSignalType
    <2>5. AnswerTypeOK'
      BY <1>2, <2>3, AnsweredType
    <2> QED BY <1>2, <2>4, <2>5 DEF ContainerTypeOK, TablesTypeOK
  <1> QED BY <1>1, <1>2 DEF TimeData

\* A block of a data signal preserves the types, the empty entry that looking up an
\* absent time signal leaves behind included (SignalContainer.cpp:182-199).
LEMMA ValueDataType ==
    ASSUME ContainerTypeOK, NEW n \in SignalNumbers, NEW payload \in Payload,
           Live(n), ValueData(n, payload)
    PROVE  ContainerTypeOK'
  <1> DEFINE sig     == subscribedSignals[n]
             timeNo  == TableAt(sig.tableId).time
             timeSig == IF timeNo \in DOMAIN subscribedSignals
                        THEN subscribedSignals[timeNo] ELSE Null
             answer  == ProcessSignalData(sig, timeSig, payload.len)
  <1>1. sig \in Signal
    BY LookUp
  <1>2. timeNo \in SignalNumbers \cup {NoTimeSignal}
    <2>1. TableAt(sig.tableId) \in Table
      BY LookUp
    <2> QED BY <2>1 DEF Table
  <1>3. timeSig \in Signal \cup {Null}
    BY DEF ContainerTypeOK, SignalsTypeOK
  <1>4. /\ answer.ok \in BOOLEAN
        /\ answer.signal \in Signal
        /\ answer.delivery \in Delivery \cup {NoDelivery}
    <2>1. payload.len \in Nat
      BY DEF Payload
    <2> HIDE DEF sig, timeSig
    <2> QED BY <1>1, <1>3, <2>1, MeasuredType
  <1>5. TablesTypeOK'
    BY DEF ValueData, ContainerTypeOK, TablesTypeOK
  <1>6. CASE /\ \E ok \in BOOLEAN : DataAnswered(n, ok, NoDelivery)
             /\ UNCHANGED subscribedSignals
    BY <1>5, <1>6, AnsweredType DEF ContainerTypeOK, SignalsTypeOK
  <1>7. CASE /\ timeNo # NoTimeSignal
             /\ DataAnswered(n, answer.ok, answer.delivery)
             /\ subscribedSignals' =
                    Put(Put(subscribedSignals, timeNo, timeSig), n, answer.signal)
    <2> HIDE DEF sig, timeNo, timeSig, answer
    <2>1. SignalsTypeOK'
      BY <1>2, <1>3, <1>4, <1>7 DEF ContainerTypeOK, SignalsTypeOK, Put
    <2>2. AnswerTypeOK'
      BY <1>4, <1>7, AnsweredType
    <2> QED BY <1>5, <2>1, <2>2 DEF ContainerTypeOK
  <1> QED BY <1>6, <1>7 DEF ValueData

\* Any block preserves the types (SignalContainer.cpp:138-201).
LEMMA MeasuredDataType ==
    ASSUME ContainerTypeOK, NEW n \in SignalNumbers, NEW payload \in Payload,
           MeasuredData(n, payload)
    PROVE  ContainerTypeOK'
  <1>1. CASE DataAnswered(n, FALSE, NoDelivery) /\ UNCHANGED <<subscribedSignals, tables>>
    <2>1. AnswerTypeOK'
      BY <1>1, AnsweredType
    <2> QED BY <1>1, <2>1 DEF ContainerTypeOK, SignalsTypeOK, TablesTypeOK
  <1>2. CASE Crash
    BY <1>2, AnsweredType
  <1>3. CASE Live(n) /\ (TimeData(n, payload) \/ ValueData(n, payload))
    BY <1>3, TimeDataType, ValueDataType
  <1> QED BY <1>1, <1>2, <1>3 DEF MeasuredData
=============================================================================
