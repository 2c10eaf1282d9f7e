-------------------------- MODULE SubscribedSignal --------------------------
(***************************************************************************)
(* One signal as the consumer knows it (class SubscribedSignal): what its  *)
(* meta information has told so far, and how a block of measured data is   *)
(* turned into a time stamp, a number of values and the two data           *)
(* callbacks.                                                              *)
(*                                                                         *)
(* A signal is a record; the two methods that change it are operators from *)
(* the old record to an answer that holds the new one.  Names, units other *)
(* than the quantity "time", ranges, scaling, interpretation objects and   *)
(* the related-signal list only travel to the application and are left     *)
(* out.                                                                    *)
(***************************************************************************)
EXTENDS Integers

CONSTANTS
    TableIds,   \* ids a table may have on the wire
    NoTableId,  \* the empty m_tableId of a signal not described yet
    Absent,     \* a member the meta information does not carry
    Null,       \* an empty shared_ptr
    Wrap        \* 2^64 in the build: the modulus of uint64_t and size_t

ASSUME WrapAssumption == Wrap \in Nat \ {0, 1}

ASSUME SentinelAssumption ==
    /\ NoTableId \notin TableIds
    /\ Absent \notin TableIds \cup Nat
    /\ Absent # "linear" /\ Absent # "explicit" /\ Absent # "constant"

Word == 0 .. (Wrap - 1)

RuleTypes == {"explicit", "linear", "constant"}

\* sizeof(float), the value size before any description; sizeof(uint64_t), the
\* value index in front of each value of an implicit signal.
FloatBytes == 4
IndexBytes == 8

Signal ==
    [tableId  : TableIds \cup {NoTableId},
     isTime   : BOOLEAN,        \* m_isTimeSignal
     rule     : RuleTypes,      \* m_ruleType
     time     : Word,           \* m_time
     index    : Word,           \* m_linearValueIndex
     delta    : Word,           \* m_linearDelta
     size     : Nat \ {0}]      \* m_dataValueSize

NewSignal ==
    [tableId |-> NoTableId, isTime |-> FALSE, rule |-> "explicit",
     time |-> 0, index |-> 0, delta |-> 0, size |-> FloatBytes]

-----------------------------------------------------------------------------
(***************************************************************************)
(* Meta information "signal".  `fault' says which member, if any, has a    *)
(* content the parser refuses; the parser works through the members in a   *)
(* fixed order and keeps what it had stored before it met the fault.       *)
(***************************************************************************)
Faults == {"none", "tableId", "delta", "start", "rule", "dataType",
           "resolution"}

Definition ==
    [delta        : Word \cup {Absent},
     rule         : RuleTypes \cup {Absent},
     size         : Nat,          \* getDataTypeSize(); 0 when it has no answer
     quantityTime : BOOLEAN]      \* unit.quantity = "time"

SignalParams ==
    [tableId    : TableIds \cup {Absent},
     valueIndex : Word \cup {Absent},
     definition : Definition \cup {Absent},
     fault      : Faults]

Given(member, old) == IF member = Absent THEN old ELSE member

Answer(ok, sig) == [ok |-> ok, signal |-> sig]

\* The "definition" chapter: delta, constant start, rule, value size, data type,
\* unit and resolution, in this order; each refusal leaves the earlier ones stored.
ProcessDefinition(sig, def, fault) ==
    LET delta     == Given(def.delta, sig.delta)
        withDelta == [sig EXCEPT !.delta = delta]
        withRule  == [withDelta EXCEPT !.rule = Given(def.rule, @)]
        withSize  == [withRule EXCEPT !.size = IF def.size = 0 THEN @ ELSE def.size]
        withTime  == [withSize EXCEPT !.isTime = @ \/ def.quantityTime]
        badRule   == fault = "rule" \/ (def.rule = "linear" /\ delta = 0)
    IN  IF fault = "delta" THEN Answer(FALSE, sig)
        ELSE IF fault = "start" \/ badRule THEN Answer(FALSE, withDelta)
        ELSE IF fault = "dataType" THEN Answer(FALSE, withSize)
        ELSE Answer(fault # "resolution", withTime)

ProcessSignalParams(sig, params) ==
    LET header == [sig EXCEPT !.tableId = Given(params.tableId, @),
                              !.index = Given(params.valueIndex, @)]
    IN  IF params.fault = "tableId"
        THEN Answer(FALSE, sig)
        ELSE IF params.definition = Absent
             THEN Answer(TRUE, header)
             ELSE ProcessDefinition(header, params.definition, params.fault)

-----------------------------------------------------------------------------
(***************************************************************************)
(* Measured data.  The answer holds the result of the call, the signal     *)
(* afterwards and what the two data callbacks were given: the time stamp,  *)
(* the raw length and the number of values, or Absent when they were not   *)
(* called.                                                                 *)
(***************************************************************************)
NoDelivery == Absent
Delivery == [time : Word, bytes : Nat, count : Nat]
Delivered(time, bytes, count) == [time |-> time, bytes |-> bytes, count |-> count]

\* What is absent is not taken for what is there.
ASSUME AbsentAssumption == Absent \notin Definition /\ Absent \notin Delivery

Measured(ok, sig, delivery) == [ok |-> ok, signal |-> sig, delivery |-> delivery]

\* Mutant of LinearTime: the index of the last value instead of the next one.
LinearTimeOfLast(sig, timeSignal) ==
    (timeSignal.time + (sig.index - 1 - timeSignal.index) * timeSignal.delta) % Wrap

\* Mutant of LinearTime: signed arithmetic where the code relies on wrap-around.
LinearTimeSigned(sig, timeSignal) ==
    timeSignal.time + (sig.index - timeSignal.index) * timeSignal.delta

\* The time stamp of the next value of sig in a table with linear time.
LinearTime(sig, timeSignal) ==
    (timeSignal.time + (sig.index - timeSignal.index) * timeSignal.delta) % Wrap

\* Mutant of MeasuredLinear: the value index stays where it was.
MeasuredLinearUncounted(sig, timeSignal, len) ==
    Measured(TRUE, [sig EXCEPT !.delta = timeSignal.delta],
             Delivered(LinearTime(sig, timeSignal), len, len \div sig.size))

MeasuredLinear(sig, timeSignal, len) ==
    LET known == [sig EXCEPT !.delta = timeSignal.delta]
        count == len \div sig.size
    IN  CASE sig.rule = "explicit" ->
                 Measured(TRUE, [known EXCEPT !.index = (@ + count) % Wrap],
                          Delivered(LinearTime(sig, timeSignal), len, count))
          [] sig.rule = "constant" ->
                 Measured(TRUE, known,
                          Delivered(timeSignal.time, len,
                                    len \div (IndexBytes + sig.size)))
          [] OTHER -> Measured(TRUE, known, NoDelivery)

\* Mutant of MeasuredExplicit: whole time stamps are expected.
MeasuredExplicitWide(sig, time, len) ==
    Measured(TRUE, sig,
             IF len % IndexBytes # 0 THEN NoDelivery
             ELSE Delivered(time, len, len \div sig.size))

MeasuredExplicit(sig, time, len) ==
    Measured(TRUE, sig,
             IF len % sig.size # 0 THEN NoDelivery
             ELSE Delivered(time, len, len \div sig.size))

\* No time signal at all counts as explicit time zero.
ProcessSignalData(sig, timeSignal, len) ==
    IF timeSignal = Null
    THEN MeasuredExplicit(sig, 0, len)
    ELSE CASE timeSignal.rule = "explicit" -> MeasuredExplicit(sig, timeSignal.time, len)
           [] timeSignal.rule = "linear"   -> MeasuredLinear(sig, timeSignal, len)
           [] timeSignal.rule = "constant" -> Measured(FALSE, sig, NoDelivery)

=============================================================================
