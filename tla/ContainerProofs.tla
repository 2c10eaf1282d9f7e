-------------------------- MODULE ContainerProofs ---------------------------
(***************************************************************************)
(* Proofs about the signal container under a sender that keeps the         *)
(* protocol's promises, for every set of signals, tables, descriptions and *)
(* data blocks and every word width.                                       *)
(*                                                                         *)
(* TypeCorrect puts the lemmas of ContainerTypes together.  The rest adds  *)
(* the sender's promise that no signal moves (MayMove = {}) and shows the  *)
(* two table invariants and the absence of crashes together: each rests on *)
(* the others.  Put next to them, AsPromised says that the role and the    *)
(* table a signal was given are the ones the sender promised.              *)
(***************************************************************************)
EXTENDS ContainerSpec, ContainerTypes

\* Whatever a conforming sender writes, every register of the container keeps the
\* type its class declares (SignalContainer.cpp:63-201); MayMove is arbitrary.
THEOREM TypeCorrect == Spec => []ContainerTypeOK
  <1>1. ContainerInit => ContainerTypeOK
    BY DEF ContainerInit, ContainerTypeOK, SignalsTypeOK, TablesTypeOK, AnswerTypeOK, Call
  <1>2. ContainerTypeOK /\ [Next]_containerVars => ContainerTypeOK'
    <2> SUFFICES ASSUME ContainerTypeOK, [Next]_containerVars PROVE ContainerTypeOK'
      OBVIOUS
    <2>1. CASE UNCHANGED containerVars
      BY <2>1 DEF containerVars, ContainerTypeOK, SignalsTypeOK, TablesTypeOK, AnswerTypeOK
    <2>2. ASSUME NEW n \in SignalNumbers, NEW id \in {"ok", "missing", "badType"},
                 SubscribeAck(n, id)
          PROVE  ContainerTypeOK'
      BY <2>2, SubscribeAckType
    <2>3. ASSUME NEW n \in SignalNumbers, UnsubscribeAck(n)
          PROVE  ContainerTypeOK'
      BY <2>3, UnsubscribeAckType
    <2>4. ASSUME NEW n \in SignalNumbers, NEW params \in SignalMetas,
                 SignalMeta(n, params)
          PROVE  ContainerTypeOK'
      BY <2>4, SignalMetaType, SenderAssumption
    <2>5. ASSUME NEW n \in SignalNumbers, OtherMeta(n)
          PROVE  ContainerTypeOK'
      BY <2>5, OtherMetaType
    <2>6. ASSUME NEW n \in SignalNumbers, NEW payload \in Payloads,
                 MeasuredData(n, payload)
          PROVE  ContainerTypeOK'
      BY <2>6, MeasuredDataType, SenderAssumption DEF Payload
    <2> QED BY <2>1, <2>2, <2>3, <2>4, <2>5, <2>6 DEF Next
  <1> QED BY <1>1, <1>2, PTL DEF Spec

-----------------------------------------------------------------------------
(***************************************************************************)
(* The inductive invariant.  That tables list only live signals is not     *)
(* inductive alone: an unsubscribe acknowledgement takes the signal out of *)
(* the table its *current* description names, in the role it has *now*, so *)
(* a description must never have moved the signal or changed its role      *)
(* since it was listed.  AsPromised carries what the sender's promises     *)
(* about descriptions leave behind in the signal objects.                  *)
(***************************************************************************)
AsPromised(n) ==
    LET sig == subscribedSignals[n]
    IN  /\ sig # Null
        /\ sig.tableId \in {NoTableId, TableOf[n]}
        /\ sig.isTime => n \in TimeSignals
        /\ status = "open" =>
               (sig.isTime <=> (n \in TimeSignals /\ sig.tableId # NoTableId))

IInv ==
    /\ ContainerTypeOK
    /\ \A n \in DOMAIN subscribedSignals : AsPromised(n)
    /\ NoDanglingMember
    /\ EveryDescribedSignalListed
    /\ NeverCrashes

\* No signal is an empty pointer, so a signal is described as soon as it is there
\* and has a table.
LEMMA Here ==
    ASSUME IInv
    PROVE  /\ \A n : Live(n) <=> n \in DOMAIN subscribedSignals
           /\ \A n \in DOMAIN subscribedSignals : subscribedSignals[n] \in Signal
           /\ \A n : ~Empty(n)
  BY DEF IInv, AsPromised, Live, Empty, ContainerTypeOK, SignalsTypeOK

\* A step that leaves the tables alone, adds and removes no signal and leaves the
\* table and the role of every described signal alone.
LEMMA Kept ==
    ASSUME IInv, ContainerTypeOK', tables' = tables, status' \in {status, "closed"},
           DOMAIN subscribedSignals' = DOMAIN subscribedSignals,
           \A n \in DOMAIN subscribedSignals :
               /\ AsPromised(n)'
               /\ subscribedSignals[n].tableId # NoTableId =>
                      /\ subscribedSignals'[n].tableId = subscribedSignals[n].tableId
                      /\ subscribedSignals'[n].isTime = subscribedSignals[n].isTime
               /\ status' = "open" =>
                      subscribedSignals'[n].tableId = subscribedSignals[n].tableId
    PROVE  IInv'
  <1>1. \A n : Live(n) <=> n \in DOMAIN subscribedSignals
    BY Here
  <1>2. \A n : Live(n)' <=> n \in DOMAIN subscribedSignals
    BY DEF AsPromised, Live
  <1>3. NoDanglingMember'
    BY <1>1, <1>2 DEF IInv, NoDanglingMember, Members, Described
  <1>4. EveryDescribedSignalListed'
    BY <1>1, <1>2 DEF IInv, EveryDescribedSignalListed, Members, Described
  <1>5. NeverCrashes'
    BY DEF IInv, NeverCrashes
  <1> QED BY <1>3, <1>4, <1>5 DEF IInv

\* A refusal that changes neither map.
LEMMA Refused ==
    ASSUME IInv, ContainerTypeOK', status' \in {status, "closed"},
           UNCHANGED <<subscribedSignals, tables>>
    PROVE  IInv'
  <1>1. \A n \in DOMAIN subscribedSignals : AsPromised(n)'
    BY DEF IInv, AsPromised
  <1> QED BY <1>1, Kept

\* A subscribe acknowledgement preserves the invariant: the new signal is in no table.
LEMMA SubscribeAckKeeps ==
    ASSUME IInv, NEW n \in SignalNumbers, NEW id, SubscribeAck(n, id)
    PROVE  IInv'
  <1>0. ContainerTypeOK'
    BY SubscribeAckType DEF IInv
  <1>1. CASE MetaRefused(n) /\ UNCHANGED <<subscribedSignals, tables>>
    BY <1>0, <1>1, Refused DEF MetaRefused
  <1>2. CASE /\ Unknown(n) /\ tables' = tables
             /\ subscribedSignals' = Put(subscribedSignals, n, NewSignal)
             /\ status' \in {status, "closed"}
    <2>1. /\ DOMAIN subscribedSignals' = DOMAIN subscribedSignals \cup {n}
          /\ subscribedSignals'[n] = NewSignal
          /\ \A m \in DOMAIN subscribedSignals :
                 m # n /\ subscribedSignals'[m] = subscribedSignals[m]
      BY <1>2 DEF Put, Unknown
    <2>2. /\ NewSignal # Null /\ NewSignal.tableId = NoTableId
          /\ NewSignal.isTime = FALSE
      BY NewSignalType, NullAssumption DEF NewSignal
    <2>3. \A m \in DOMAIN subscribedSignals' : AsPromised(m)'
      BY <1>2, <2>1, <2>2 DEF IInv, AsPromised
    <2>4. \A m : Live(m) <=> m \in DOMAIN subscribedSignals
      BY Here
    <2>5. \A m : Described(m)' <=> Described(m)
      BY <2>1, <2>2, <2>4 DEF Described, Live
    <2>6. NoDanglingMember'
      BY <1>2, <2>1, <2>4, <2>5 DEF IInv, NoDanglingMember, Members, Described
    <2>7. EveryDescribedSignalListed'
      BY <1>2, <2>1, <2>4, <2>5 DEF IInv, EveryDescribedSignalListed, Members, Described
    <2> QED BY <1>0, <1>2, <2>3, <2>6, <2>7 DEF IInv, NeverCrashes
  <1> QED BY <1>1, <1>2 DEF SubscribeAck, MetaAccepted, MetaRefused

\* Meta information the signal ignores preserves the invariant.
LEMMA OtherMetaKeeps ==
    ASSUME IInv, NEW n \in SignalNumbers, OtherMeta(n)
    PROVE  IInv'
  <1>1. ContainerTypeOK'
    BY OtherMetaType DEF IInv
  <1>2. ~Empty(n)
    BY Here
  <1> QED BY <1>1, <1>2, Refused DEF OtherMeta, MetaRefused, MetaAccepted

\* A block of data preserves the invariant: no look-up of a table member fails, so
\* nothing crashes and no empty entry is left behind.
LEMMA MeasuredDataKeeps ==
    ASSUME IInv, NEW n \in SignalNumbers, NEW payload \in Payload,
           MeasuredData(n, payload)
    PROVE  IInv'
  <1>0. ContainerTypeOK'
    BY MeasuredDataType DEF IInv
  <1>1. ~Empty(n)
    BY Here
  <1>2. CASE DataAnswered(n, FALSE, NoDelivery) /\ UNCHANGED <<subscribedSignals, tables>>
    BY <1>0, <1>2, Refused DEF DataAnswered
  <1>3. ASSUME NEW sig, Live(n), tables' = tables, status' = status,
               subscribedSignals' = Put(subscribedSignals, n, sig),
               sig \in Signal,
               sig.tableId = subscribedSignals[n].tableId,
               sig.isTime = subscribedSignals[n].isTime
        PROVE  IInv'
    <2>1. /\ DOMAIN subscribedSignals' = DOMAIN subscribedSignals
          /\ subscribedSignals'[n] = sig
          /\ \A m \in DOMAIN subscribedSignals :
                 m # n => subscribedSignals'[m] = subscribedSignals[m]
      BY <1>3 DEF Put, Live
    <2>2. \A m \in DOMAIN subscribedSignals : AsPromised(m)'
      BY <1>3, <2>1, NullAssumption DEF IInv, AsPromised
    <2> QED BY <1>0, <1>3, <2>1, <2>2, Kept
  <1>4. CASE Live(n) /\ TimeData(n, payload)
    <2> DEFINE sig == subscribedSignals[n]
               stamped == StampedTimeSignal(sig, payload)
    <2>1. sig \in Signal
      BY <1>4, Here
    <2>2. stamped \in Signal /\ stamped.tableId = sig.tableId /\ stamped.isTime = sig.isTime
      BY <2>1, StampedType DEF Payload
    <2>3. \A m \in TableAt(sig.tableId).data : Live(m)
      BY Here DEF IInv, NoDanglingMember, Members, Described, TableAt, NewTable
    <2>4. /\ subscribedSignals' = Put(subscribedSignals, n, stamped)
          /\ tables' = tables /\ status' = status
      BY <1>4, <2>3 DEF TimeData, DataAnswered
    <2> HIDE DEF stamped
    <2> QED BY <1>3, <1>4, <2>2, <2>4
  <1>5. CASE Live(n) /\ ValueData(n, payload)
    <2> DEFINE sig     == subscribedSignals[n]
               timeNo  == TableAt(sig.tableId).time
               timeSig == IF timeNo \in DOMAIN subscribedSignals
                          THEN subscribedSignals[timeNo] ELSE Null
               answer  == ProcessSignalData(sig, timeSig, payload.len)
    <2>1. CASE tables' = tables /\ status' = status /\ UNCHANGED subscribedSignals
      BY <1>0, <2>1, Refused
    <2>2. CASE /\ tables' = tables /\ status' = status
               /\ timeNo # NoTimeSignal /\ sig.tableId \in DOMAIN tables
               /\ subscribedSignals' =
                      Put(Put(subscribedSignals, timeNo, timeSig), n, answer.signal)
      <3>1. timeNo \in DOMAIN subscribedSignals
        BY <2>2, Here DEF IInv, NoDanglingMember, Members, Described, TableAt
      <3>2. /\ answer.signal \in Signal
            /\ answer.signal.tableId = sig.tableId
            /\ answer.signal.isTime = sig.isTime
        <4>1. payload.len \in Nat
          BY DEF Payload
        <4>2. sig \in Signal /\ timeSig \in Signal \cup {Null}
          BY <1>5, Here
        <4> HIDE DEF sig, timeSig
        <4>3. answer.signal \in Signal
          BY <4>1, <4>2, MeasuredType
        <4>4. answer.signal.tableId = sig.tableId
          BY <4>1, <4>2, MeasuredType
        <4>5. answer.signal.isTime = sig.isTime
          BY <4>1, <4>2, MeasuredType
        <4> QED BY <4>3, <4>4, <4>5
      <3>3. Put(subscribedSignals, timeNo, timeSig) = subscribedSignals
        <4>1. timeSig = subscribedSignals[timeNo]
          BY <3>1
        <4>2. subscribedSignals = [x \in DOMAIN subscribedSignals |-> subscribedSignals[x]]
          BY DEF IInv, ContainerTypeOK, SignalsTypeOK
        <4> HIDE DEF timeNo, timeSig
        <4>3. Put(subscribedSignals, timeNo, timeSig)
                  = [x \in DOMAIN subscribedSignals |-> subscribedSignals[x]]
          BY <3>1, <4>1 DEF Put
        <4> QED BY <4>2, <4>3
      <3>4. subscribedSignals' = Put(subscribedSignals, n, answer.signal)
        BY <2>2, <3>3
      <3> HIDE DEF answer
      <3> QED BY <1>3, <1>5, <2>2, <3>2, <3>4
    <2> QED BY <1>5, <2>1, <2>2 DEF ValueData, DataAnswered
  <1> QED BY <1>1, <1>2, <1>4, <1>5 DEF MeasuredData

\* An unsubscribe acknowledgement preserves the invariant: the signal leaves the one
\* table that lists it before it is erased (SignalContainer.cpp:69-88, :132-134).
LEMMA UnsubscribeAckKeeps ==
    ASSUME IInv, NEW n \in SignalNumbers, UnsubscribeAck(n)
    PROVE  IInv'
  <1>0. ContainerTypeOK'
    BY UnsubscribeAckType DEF IInv
  <1>1. CASE MetaRefused(n) /\ UNCHANGED <<subscribedSignals, tables>>
    BY <1>0, <1>1, Refused DEF MetaRefused
  <1>2. CASE /\ Live(n)
             /\ tables' = TablesWithout(n, subscribedSignals[n])
             /\ subscribedSignals' = Erase(subscribedSignals, n)
             /\ MetaAccepted(n)
    <2> DEFINE sig == subscribedSignals[n]
    <2>0. PICK t : t = sig.tableId
      OBVIOUS
    <2>1. sig \in Signal /\ status = "open" /\ status' = "open"
      BY <1>2, Here DEF UnsubscribeAck, MetaAccepted
    <2>2. /\ DOMAIN subscribedSignals' = DOMAIN subscribedSignals \ {n}
          /\ \A m \in DOMAIN subscribedSignals' :
                 m # n /\ subscribedSignals'[m] = subscribedSignals[m]
      BY <1>2 DEF Erase
    <2>3. \A m \in DOMAIN subscribedSignals' : AsPromised(m)'
      BY <2>1, <2>2 DEF IInv, AsPromised
    <2>4. \A m : Live(m) <=> m \in DOMAIN subscribedSignals
      BY Here
    <2>5. \A m : Live(m)' <=> (m \in DOMAIN subscribedSignals /\ m # n)
      BY <2>2, <2>3 DEF AsPromised, Live
    \* Members of every table but n stay listed where they were, n nowhere.
    <2>6. /\ \A u \in DOMAIN tables' :
                 /\ u \in DOMAIN tables
                 /\ Members(u)' = Members(u) \ {n}
                 /\ Members(u)' # {}
                 /\ tables'[u].data \subseteq tables[u].data
                 /\ tables'[u].time # tables[u].time =>
                        tables'[u].time = NoTimeSignal /\ n = tables[u].time
          /\ \A u \in DOMAIN tables : Members(u) \ {n} # {} => u \in DOMAIN tables'
      <3>1. CASE t \notin DOMAIN tables
        <4>1. tables' = tables
          BY <1>2, <2>0, <3>1 DEF TablesWithout
        <4>2. \A u \in DOMAIN tables : n \notin Members(u)
          BY <2>0, <3>1 DEF IInv, NoDanglingMember
        <4>3. \A u \in DOMAIN tables : Members(u) \ {n} = Members(u)
          BY <4>2
        <4>4. \A u \in DOMAIN tables : Members(u)' = Members(u) /\ Members(u) # {}
          BY <4>1 DEF Members, IInv, EveryDescribedSignalListed
        <4> QED BY <4>1, <4>3, <4>4
      <3>2. CASE t \in DOMAIN tables
        <4> DEFINE left == IF sig.isTime THEN [tables[t] EXCEPT !.time = NoTimeSignal]
                                         ELSE [tables[t] EXCEPT !.data = @ \ {n}]
                   leftMembers == left.data \cup ({left.time} \ {NoTimeSignal})
        <4>1. tables' = IF left = NewTable THEN Erase(tables, t) ELSE Put(tables, t, left)
          BY <1>2, <2>0, <3>2 DEF TablesWithout
        <4>2. tables[t] \in Table
          BY <3>2 DEF IInv, ContainerTypeOK, TablesTypeOK
        <4>3. \A u \in DOMAIN tables :
                  Members(u) # {} /\ (u # t => Members(u) \ {n} = Members(u))
          <5>1. \A u \in DOMAIN tables : u # t => n \notin Members(u)
            BY <2>0 DEF IInv, NoDanglingMember
          <5>2. \A u \in DOMAIN tables : u # t => Members(u) \ {n} = Members(u)
            BY <5>1
          <5> QED BY <5>2 DEF IInv, EveryDescribedSignalListed
        <4>4. n \in Members(t) /\ (sig.isTime <=> n = tables[t].time)
          <5>1. t # NoTableId
            BY <3>2 DEF IInv, NoDanglingMember, EveryDescribedSignalListed, Described
          <5> QED BY <1>2, <2>0, <2>1, <3>2, <5>1
                  DEF IInv, NoDanglingMember, EveryDescribedSignalListed, Described
        <4>5. /\ left.time \in {tables[t].time, NoTimeSignal}
              /\ left.time # tables[t].time => n = tables[t].time
              /\ left.data \subseteq tables[t].data
              /\ leftMembers = Members(t) \ {n}
          <5>1. CASE sig.isTime
            <6>1. left.time = NoTimeSignal /\ left.data = tables[t].data
              BY <4>2, <5>1 DEF Table
            <6>2. n \notin tables[t].data
              BY <3>2, <4>4, <5>1 DEF IInv, NoDanglingMember
            <6> QED BY <4>4, <5>1, <6>1, <6>2 DEF Members
          <5>2. CASE ~sig.isTime
            <6>1. left.time = tables[t].time /\ left.data = tables[t].data \ {n}
              BY <4>2, <5>2 DEF Table
            <6> QED BY <4>4, <5>2, <6>1 DEF Members
          <5> QED BY <5>1, <5>2
        <4>6. left = NewTable <=> leftMembers = {}
          <5>1. left \in Table
            BY <4>2 DEF Table
          <5> HIDE DEF left
          <5> QED BY <5>1 DEF Table, NewTable
        <4> HIDE DEF left
        <4>7. CASE left = NewTable
          <5>1. /\ DOMAIN tables' = DOMAIN tables \ {t}
                /\ \A u \in DOMAIN tables' : tables'[u] = tables[u]
            BY <4>1, <4>7 DEF Erase
          <5>2. \A u \in DOMAIN tables' : Members(u)' = Members(u)
            BY <5>1 DEF Members
          <5>3. Members(t) \ {n} = {}
            BY <4>5, <4>6, <4>7
          <5> QED BY <4>3, <5>1, <5>2, <5>3
        <4>8. CASE left # NewTable
          <5>1. /\ DOMAIN tables' = DOMAIN tables
                /\ tables'[t] = left
                /\ \A u \in DOMAIN tables : u # t => tables'[u] = tables[u]
            BY <3>2, <4>1, <4>8 DEF Put
          <5>2. \A u \in DOMAIN tables : u # t => Members(u)' = Members(u)
            BY <5>1 DEF Members
          <5>3. Members(t)' = leftMembers
            BY <5>1 DEF Members
          <5>4. Members(t)' = Members(t) \ {n} /\ Members(t)' # {}
            BY <4>5, <4>6, <4>8, <5>3
          <5> HIDE DEF leftMembers
          <5> QED BY <4>3, <4>5, <5>1, <5>2, <5>4
        <4> QED BY <4>7, <4>8
      <3> QED BY <3>1, <3>2
    <2>7. NoDanglingMember'
      <3>1. NoTimeSignal \notin DOMAIN subscribedSignals
        BY NumberAssumption DEF IInv, ContainerTypeOK, SignalsTypeOK
      <3>0. \A u \in DOMAIN tables' : tables'[u].time \notin tables'[u].data
        <4>1. \A u \in DOMAIN tables : /\ NoTimeSignal \notin tables[u].data
                                       /\ tables[u].time \notin tables[u].data
          BY NumberAssumption
             DEF IInv, NoDanglingMember, ContainerTypeOK, TablesTypeOK, Table
        <4> QED BY <2>6, <4>1
      <3> SUFFICES ASSUME NEW u \in DOMAIN tables', NEW m \in Members(u)'
                   PROVE  /\ Described(m)'
                          /\ subscribedSignals'[m].tableId = u
                          /\ subscribedSignals'[m].isTime <=> m = tables'[u].time
        BY <3>0 DEF NoDanglingMember
      <3>2. m # n /\ m \in Members(u) /\ u \in DOMAIN tables
        BY <2>6
      <3>3. /\ Described(m) /\ subscribedSignals[m].tableId = u
            /\ subscribedSignals[m].isTime <=> m = tables[u].time
        BY <3>2 DEF IInv, NoDanglingMember
      <3>4. m \in DOMAIN subscribedSignals' /\ m \in DOMAIN subscribedSignals
            /\ subscribedSignals'[m] = subscribedSignals[m]
        BY <2>2, <2>4, <3>2, <3>3 DEF Described
      <3>5. m = tables'[u].time <=> m = tables[u].time
        BY <2>6, <3>1, <3>2, <3>4
      <3> QED BY <2>5, <3>2, <3>3, <3>4, <3>5 DEF Described
    <2>8. EveryDescribedSignalListed'
      BY <2>1, <2>2, <2>4, <2>5, <2>6 DEF IInv, EveryDescribedSignalListed, Described
    <2> QED BY <1>0, <2>1, <2>3, <2>7, <2>8 DEF IInv, NeverCrashes
  <1>3. ~Empty(n)
    BY Here
  <1> QED BY <1>1, <1>2, <1>3 DEF UnsubscribeAck

\* What a conforming description does to the signal it is for, when no signal moves.
LEMMA DescribedByPromise ==
    ASSUME MayMove = {}, IInv, status = "open", NEW n \in DOMAIN subscribedSignals,
           NEW params \in SignalMetas, Conforms(n, params),
           NEW answer, answer = ProcessSignalParams(subscribedSignals[n], params)
    PROVE  /\ answer.ok \in BOOLEAN
           /\ answer.signal \in Signal
           /\ answer.signal.tableId \in {NoTableId, TableOf[n]}
           /\ answer.signal.isTime => n \in TimeSignals
           /\ subscribedSignals[n].tableId # NoTableId =>
                  /\ answer.signal.tableId = subscribedSignals[n].tableId
                  /\ answer.signal.isTime = subscribedSignals[n].isTime
           /\ answer.ok => /\ answer.signal.tableId = TableOf[n]
                           /\ answer.signal.isTime <=> n \in TimeSignals
  <1> DEFINE sig == subscribedSignals[n]
  <1>1. /\ sig \in Signal /\ params \in SignalParams
        /\ n \in SignalNumbers /\ TableOf[n] \in TableIds /\ TableOf[n] # NoTableId
        /\ Described(n) <=> sig.tableId # NoTableId
    BY Here, SenderAssumption, SentinelAssumption
       DEF Described, IInv, ContainerTypeOK, SignalsTypeOK
  <1>2. /\ sig.tableId \in {NoTableId, TableOf[n]}
        /\ sig.isTime <=> (n \in TimeSignals /\ sig.tableId # NoTableId)
    BY DEF IInv, AsPromised
  <1>3. /\ answer.ok \in BOOLEAN
        /\ answer.signal \in Signal
        /\ answer.signal.tableId \in {sig.tableId, Given(params.tableId, sig.tableId)}
        /\ answer.ok => answer.signal.tableId = Given(params.tableId, sig.tableId)
        /\ answer.signal.isTime =>
               \/ sig.isTime
               \/ params.definition # Absent /\ params.definition.quantityTime
        /\ sig.isTime => answer.signal.isTime
        /\ answer.ok /\ params.definition # Absent /\ params.definition.quantityTime
               => answer.signal.isTime
    <2> HIDE DEF sig
    <2>1. answer = ProcessSignalParams(sig, params)
      BY DEF sig
    <2> QED BY <1>1, <2>1, ParamsType
  <1>4. /\ params.tableId \in {Absent, TableOf[n]}
        /\ params.definition # Absent =>
               (params.definition.quantityTime => n \in TimeSignals)
        /\ sig.tableId = NoTableId =>
               /\ params.tableId # Absent
               /\ params.definition # Absent
               /\ n \in TimeSignals => params.definition.quantityTime
    BY <1>1 DEF Conforms
  <1>5. Given(params.tableId, sig.tableId) \in {sig.tableId, TableOf[n]}
        /\ (sig.tableId = NoTableId => Given(params.tableId, sig.tableId) = TableOf[n])
    BY <1>4 DEF Given
  <1> HIDE DEF sig
  <1>6. answer.signal.isTime => n \in TimeSignals
    BY <1>2, <1>3, <1>4
  <1>7. sig.tableId # NoTableId =>
               /\ answer.signal.tableId = sig.tableId
               /\ answer.signal.isTime <=> sig.isTime
    BY <1>2, <1>3, <1>5, <1>6
  <1>8. answer.ok => /\ answer.signal.tableId = TableOf[n]
                     /\ answer.signal.isTime <=> n \in TimeSignals
    BY <1>2, <1>3, <1>4, <1>5, <1>6
  <1>9. answer.signal.isTime \in BOOLEAN /\ sig.isTime \in BOOLEAN
    BY <1>1, <1>3 DEF Signal
  <1>10. answer.signal.tableId \in {NoTableId, TableOf[n]}
    BY <1>2, <1>3, <1>5
  <1> QED BY <1>3, <1>6, <1>7, <1>8, <1>9, <1>10 DEF sig

\* Listing a signal where it belongs and in the role it has.
LEMMA Listed ==
    ASSUME IInv, ContainerTypeOK', status = "open", status' = "open",
           NEW n \in DOMAIN subscribedSignals, NEW sig \in Signal,
           subscribedSignals' = Put(subscribedSignals, n, sig),
           tables' = TablesWith(n, sig),
           sig.tableId = TableOf[n], sig.isTime <=> n \in TimeSignals,
           subscribedSignals[n].tableId # NoTableId =>
               sig.isTime = subscribedSignals[n].isTime
    PROVE  IInv'
  <1> DEFINE t   == TableOf[n]
             old == TableAt(t)
             new == IF sig.isTime THEN [old EXCEPT !.time = n]
                                  ELSE [old EXCEPT !.data = @ \cup {n}]
             OldMembers == old.data \cup ({old.time} \ {NoTimeSignal})
  <1>1. /\ DOMAIN subscribedSignals' = DOMAIN subscribedSignals
        /\ subscribedSignals'[n] = sig
        /\ \A m \in DOMAIN subscribedSignals :
               m # n => subscribedSignals'[m] = subscribedSignals[m]
    BY DEF Put
  <1>2. /\ n \in SignalNumbers /\ n # NoTimeSignal
        /\ t \in TableIds /\ t # NoTableId /\ sig # Null
    BY SenderAssumption, SentinelAssumption, NumberAssumption, NullAssumption
       DEF IInv, ContainerTypeOK, SignalsTypeOK
  <1>3. \A m \in DOMAIN subscribedSignals' : AsPromised(m)'
    BY <1>1, <1>2 DEF IInv, AsPromised
  <1>4. /\ \A m : Live(m) <=> m \in DOMAIN subscribedSignals
        /\ \A m : Live(m)' <=> m \in DOMAIN subscribedSignals
    BY <1>1, <1>3, Here DEF AsPromised, Live
  \* What the table lists before: each entry is a described signal of this table.
  <1>5. /\ old \in Table /\ old.time \notin old.data
        /\ \A m \in OldMembers :
               /\ m \in DOMAIN subscribedSignals /\ m \in SignalNumbers
               /\ subscribedSignals[m].tableId = t
               /\ subscribedSignals[m].isTime <=> m = old.time
               /\ m \in TimeSignals <=> m = old.time
               /\ TableOf[m] = t
    <2>1. old \in Table
      BY LookUp DEF IInv
    <2>2. CASE t \in DOMAIN tables
      <3>1. old = tables[t] /\ OldMembers = Members(t)
        BY <2>2 DEF TableAt, Members
      <3> HIDE DEF t, old, OldMembers
      <3>2. /\ old.time \notin old.data
            /\ \A m \in OldMembers :
                   /\ m \in DOMAIN subscribedSignals
                   /\ subscribedSignals[m].tableId = t
                   /\ subscribedSignals[m].isTime <=> m = old.time
        BY <1>4, <2>2, <3>1 DEF IInv, NoDanglingMember, Described
      <3>3. \A m \in OldMembers :
                /\ m \in TimeSignals <=> m = old.time
                /\ TableOf[m] = t
        BY <1>2, <3>2 DEF IInv, AsPromised, t
      <3> QED BY <2>1, <3>2, <3>3 DEF IInv, ContainerTypeOK, SignalsTypeOK
    <2>3. CASE t \notin DOMAIN tables
      <3>1. old = NewTable
        BY <2>3 DEF TableAt
      <3> HIDE DEF old
      <3> QED BY <2>1, <3>1 DEF NewTable
    <2> QED BY <2>2, <2>3
  <1>6. /\ DOMAIN tables' = DOMAIN tables \cup {t}
        /\ tables'[t] = new
        /\ \A u \in DOMAIN tables : u # t => tables'[u] = tables[u]
    <2>1. tables' = Put(tables, t, new)
      BY DEF TablesWith
    <2> HIDE DEF new, t
    <2> QED BY <2>1 DEF Put
  \* A table has one time signal, so the entry for it was free or already n.
  <1>7. /\ sig.isTime => old.time \in {n, NoTimeSignal} /\ n \notin old.data
        /\ ~sig.isTime => old.time # n
    <2> HIDE DEF old
    <2>1. ASSUME sig.isTime, old.time # NoTimeSignal PROVE old.time = n
      <3>1. old.time \in OldMembers
        BY <2>1
      <3>2. old.time \in TimeSignals /\ TableOf[old.time] = TableOf[n]
        BY <1>5, <3>1
      <3> QED BY <2>1, <3>2, OneTimeSignalPerTable
    <2>2. n \in OldMembers => (sig.isTime <=> n = old.time)
      BY <1>5
    <2>3. n \in old.data => n # old.time
      BY <1>5
    <2> QED BY <1>2, <2>1, <2>2, <2>3
  <1>8. /\ new.data \cup ({new.time} \ {NoTimeSignal}) = OldMembers \cup {n}
        /\ new.time \notin new.data
        /\ sig.isTime <=> n = new.time
        /\ \A m \in OldMembers : m # n => (m = new.time <=> m = old.time)
    <2> HIDE DEF old
    <2>1. CASE sig.isTime
      <3>1. new.time = n /\ new.data = old.data
        BY <1>5, <2>1 DEF Table
      <3> HIDE DEF new
      <3> QED BY <1>2, <1>5, <1>7, <2>1, <3>1
    <2>2. CASE ~sig.isTime
      <3>1. new.time = old.time /\ new.data = old.data \cup {n}
        BY <1>5, <2>2 DEF Table
      <3> HIDE DEF new
      <3> QED BY <1>2, <1>5, <1>7, <2>2, <3>1
    <2> QED BY <2>1, <2>2
  <1> HIDE DEF new, old, OldMembers
  <1>9. /\ Members(t)' = OldMembers \cup {n}
        /\ \A u \in DOMAIN tables : u # t => Members(u)' = Members(u)
        /\ t \in DOMAIN tables => Members(t) = OldMembers
    BY <1>6, <1>8 DEF Members, OldMembers, old, TableAt
  <1>10. NoDanglingMember'
    <2> SUFFICES ASSUME NEW u \in DOMAIN tables'
                 PROVE  /\ tables'[u].time \notin tables'[u].data
                        /\ \A m \in Members(u)' :
                               /\ Described(m)'
                               /\ subscribedSignals'[m].tableId = u
                               /\ subscribedSignals'[m].isTime <=> m = tables'[u].time
      BY DEF NoDanglingMember
    <2>1. CASE u = t
      BY <1>1, <1>2, <1>4, <1>5, <1>6, <1>8, <1>9, <2>1 DEF Described
    <2>2. CASE u # t
      <3>1. u \in DOMAIN tables /\ tables'[u] = tables[u] /\ Members(u)' = Members(u)
        BY <1>6, <1>9, <2>2
      <3>2. \A m \in Members(u) : m \in DOMAIN subscribedSignals /\ m # n
        BY <1>4, <2>2, <3>1 DEF IInv, NoDanglingMember, Described, AsPromised
      <3> QED BY <1>1, <1>4, <3>1, <3>2 DEF IInv, NoDanglingMember, Described
    <2> QED BY <2>1, <2>2
  <1>11. EveryDescribedSignalListed'
    <2>1. \A u \in DOMAIN tables' : Members(u)' # {}
      BY <1>6, <1>9 DEF IInv, EveryDescribedSignalListed
    <2>2. ASSUME NEW m \in SignalNumbers, Described(m)'
          PROVE  /\ subscribedSignals'[m].tableId \in DOMAIN tables'
                 /\ m \in Members(subscribedSignals[m].tableId)'
      <3>1. PICK u : u = subscribedSignals'[m].tableId
        OBVIOUS
      <3>2. m \in DOMAIN subscribedSignals
        BY <1>4, <2>2 DEF Described
      <3>3. u \in DOMAIN tables' /\ m \in Members(u)'
        <4>1. CASE m = n
          BY <1>1, <1>6, <1>9, <3>1, <4>1
        <4>2. CASE m # n
          <5>1. u = subscribedSignals[m].tableId /\ Described(m)
            BY <1>1, <1>4, <2>2, <3>1, <3>2, <4>2 DEF Described
          <5>2. u \in DOMAIN tables /\ m \in Members(u)
            BY <5>1 DEF IInv, EveryDescribedSignalListed
          <5> QED BY <1>6, <1>9, <5>2
        <4> QED BY <4>1, <4>2
      <3> QED BY <3>1, <3>3
    <2> QED BY <2>1, <2>2 DEF EveryDescribedSignalListed
  <1> QED BY <1>3, <1>10, <1>11 DEF IInv, NeverCrashes

\* A conforming description preserves the invariant: the signal is listed where its
\* earlier description put it, in the same role.
LEMMA SignalMetaKeeps ==
    ASSUME MayMove = {}, IInv, NEW n \in SignalNumbers, NEW params \in SignalMetas,
           Conforms(n, params), SignalMeta(n, params)
    PROVE  IInv'
  <1>0. ContainerTypeOK' /\ status = "open"
    BY SignalMetaType, SenderAssumption DEF IInv, SignalMeta
  <1>1. CASE MetaRefused(n) /\ UNCHANGED <<subscribedSignals, tables>>
    BY <1>0, <1>1, Refused DEF MetaRefused
  <1> DEFINE answer == ProcessSignalParams(subscribedSignals[n], params)
  <1>2. CASE /\ Live(n)
             /\ subscribedSignals' = Put(subscribedSignals, n, answer.signal)
             /\ tables' = IF answer.ok THEN TablesWith(n, answer.signal) ELSE tables
             /\ IF answer.ok THEN MetaAccepted(n) ELSE MetaRefused(n)
    <2>1. n \in DOMAIN subscribedSignals
      BY <1>2 DEF Live
    <2>2. /\ answer.ok \in BOOLEAN
          /\ answer.signal \in Signal
          /\ answer.signal.tableId \in {NoTableId, TableOf[n]}
          /\ answer.signal.isTime => n \in TimeSignals
          /\ subscribedSignals[n].tableId # NoTableId =>
                 /\ answer.signal.tableId = subscribedSignals[n].tableId
                 /\ answer.signal.isTime = subscribedSignals[n].isTime
          /\ answer.ok => /\ answer.signal.tableId = TableOf[n]
                          /\ answer.signal.isTime <=> n \in TimeSignals
      BY <1>0, <2>1, DescribedByPromise
    <2> HIDE DEF answer
    <2>3. CASE answer.ok
      BY <1>0, <1>2, <2>1, <2>2, <2>3, Listed DEF MetaAccepted
    <2>4. CASE ~answer.ok
      <3>1. /\ DOMAIN subscribedSignals' = DOMAIN subscribedSignals
            /\ subscribedSignals'[n] = answer.signal
            /\ \A m \in DOMAIN subscribedSignals :
                   m # n => subscribedSignals'[m] = subscribedSignals[m]
        BY <1>2, <2>1 DEF Put
      <3>2. status' = "closed" /\ tables' = tables
        BY <1>2, <2>4 DEF MetaRefused
      <3>3. \A m \in DOMAIN subscribedSignals : AsPromised(m)'
        BY <2>2, <3>1, <3>2, NullAssumption DEF IInv, AsPromised
      <3> QED BY <1>0, <2>2, <3>1, <3>2, <3>3, Kept
    <2> QED BY <2>3, <2>4
  <1>3. ~Empty(n)
    BY Here
  <1> QED BY <1>1, <1>2, <1>3 DEF SignalMeta

-----------------------------------------------------------------------------
\* The inductive invariant holds throughout when no signal moves.
LEMMA InductiveInvariant ==
    ASSUME MayMove = {}
    PROVE  Spec => []IInv
  <1>1. ContainerInit => IInv
    <2> SUFFICES ASSUME ContainerInit PROVE IInv
      OBVIOUS
    <2>1. /\ DOMAIN subscribedSignals = {} /\ DOMAIN tables = {}
          /\ status = "open"
      BY DEF ContainerInit
    <2>2. ContainerTypeOK
      BY DEF ContainerInit, ContainerTypeOK, SignalsTypeOK, TablesTypeOK, AnswerTypeOK, Call
    <2> QED BY <2>1, <2>2 DEF IInv, NoDanglingMember, EveryDescribedSignalListed,
                              NeverCrashes, Described, Live
  <1>2. IInv /\ [Next]_containerVars => IInv'
    <2> SUFFICES ASSUME IInv, [Next]_containerVars PROVE IInv'
      OBVIOUS
    <2>1. CASE UNCHANGED containerVars
      BY <2>1, Refused DEF containerVars, IInv, ContainerTypeOK, SignalsTypeOK,
                           TablesTypeOK, AnswerTypeOK
    <2>2. ASSUME NEW n \in SignalNumbers, NEW id \in {"ok", "missing", "badType"},
                 SubscribeAck(n, id)
          PROVE  IInv'
      BY <2>2, SubscribeAckKeeps
    <2>3. ASSUME NEW n \in SignalNumbers, UnsubscribeAck(n)
          PROVE  IInv'
      BY <2>3, UnsubscribeAckKeeps
    <2>4. ASSUME NEW n \in SignalNumbers, NEW params \in SignalMetas,
                 Conforms(n, params), SignalMeta(n, params)
          PROVE  IInv'
      BY <2>4, SignalMetaKeeps
    <2>5. ASSUME NEW n \in SignalNumbers, OtherMeta(n)
          PROVE  IInv'
      BY <2>5, OtherMetaKeeps
    <2>6. ASSUME NEW n \in SignalNumbers, NEW payload \in Payloads,
                 MeasuredData(n, payload)
          PROVE  IInv'
      BY <2>6, MeasuredDataKeeps, SenderAssumption DEF Payload
    <2> QED BY <2>1, <2>2, <2>3, <2>4, <2>5, <2>6 DEF Next
  <1> QED BY <1>1, <1>2, PTL DEF Spec

\* While no description moves a signal to another table, the tables of the consumer
\* list exactly live signals of their own, each in the role it has: the unsubscribe
\* path (SignalContainer.cpp:69-88) always finds what the describe path
\* (SignalContainer.cpp:118-128) listed.
THEOREM TablesListLiveSignals ==
    ASSUME MayMove = {}
    PROVE  Spec => []NoDanglingMember
  <1>1. IInv => NoDanglingMember
    BY DEF IInv
  <1> QED BY <1>1, InductiveInvariant, PTL

\* While no description moves a signal, none of the look-ups of
\* SignalContainer.cpp:111, :147, :158 and :174 meets an empty shared_ptr.
THEOREM NoEmptyPointer ==
    ASSUME MayMove = {}
    PROVE  Spec => []NeverCrashes
  <1>1. IInv => NeverCrashes
    BY DEF IInv
  <1> QED BY <1>1, InductiveInvariant, PTL

\* While no description moves a signal, an open session lists every described
\* signal in its table and keeps no empty table (SignalContainer.cpp:84-87, :118-128).
THEOREM DescribedSignalsListed ==
    ASSUME MayMove = {}
    PROVE  Spec => []EveryDescribedSignalListed
  <1>1. IInv => EveryDescribedSignalListed
    BY DEF IInv
  <1> QED BY <1>1, InductiveInvariant, PTL
-----------------------------------------------------------------------------
(***************************************************************************)
(* What a call leaves alone.  That a call only touches the table of its    *)
(* own signal follows from the invariant: the table a signal object names  *)
(* is the one it was put in, and the time signal looked up through a table *)
(* belongs to that table.                                                  *)
(***************************************************************************)

\* The signal and the table of m are as they were.
Untouched(m) ==
    /\ m \in DOMAIN subscribedSignals <=> m \in DOMAIN subscribedSignals'
    /\ m \in DOMAIN subscribedSignals => subscribedSignals'[m] = subscribedSignals[m]
    /\ TableOf[m] \in DOMAIN tables <=> TableOf[m] \in DOMAIN tables'
    /\ TableOf[m] \in DOMAIN tables => tables'[TableOf[m]] = tables[TableOf[m]]

\* The call is for signal n and leaves alone what belongs to other tables.
OnlyTableOf(n) ==
    /\ last'.signal = n
    /\ \A m \in SignalNumbers : TableOf[m] # TableOf[n] => Untouched(m)

\* Changing or erasing one entry of a map leaves the others alone.
LEMMA PutElsewhere ==
    ASSUME NEW f, NEW k, NEW v, NEW x, x # k
    PROVE  /\ x \in DOMAIN f <=> x \in DOMAIN Put(f, k, v)
           /\ x \in DOMAIN f => Put(f, k, v)[x] = f[x]
  BY DEF Put

\* Erasing one key leaves the others alone.
LEMMA EraseElsewhere ==
    ASSUME NEW f, NEW k, NEW x, x # k
    PROVE  /\ x \in DOMAIN f <=> x \in DOMAIN Erase(f, k)
           /\ x \in DOMAIN f => Erase(f, k)[x] = f[x]
  BY DEF Erase

\* A call that changes the entry of its own signal and the table its signal names.
LEMMA OneEntryChanged ==
    ASSUME NEW n \in SignalNumbers, last'.signal = n,
           \/ subscribedSignals' = subscribedSignals
           \/ \E v : subscribedSignals' = Put(subscribedSignals, n, v)
           \/ subscribedSignals' = Erase(subscribedSignals, n),
           NEW t \in {NoTableId, TableOf[n]},
           \/ tables' = tables
           \/ \E v : tables' = Put(tables, t, v)
           \/ tables' = Erase(tables, t)
    PROVE  OnlyTableOf(n)
  <1> SUFFICES ASSUME NEW m \in SignalNumbers, TableOf[m] # TableOf[n]
               PROVE  Untouched(m)
    BY DEF OnlyTableOf
  <1>1. m # n /\ TableOf[m] # t
    BY SenderAssumption, SentinelAssumption
  <1>2. /\ m \in DOMAIN subscribedSignals <=> m \in DOMAIN subscribedSignals'
        /\ m \in DOMAIN subscribedSignals => subscribedSignals'[m] = subscribedSignals[m]
    BY <1>1, PutElsewhere, EraseElsewhere
  <1>3. /\ TableOf[m] \in DOMAIN tables <=> TableOf[m] \in DOMAIN tables'
        /\ TableOf[m] \in DOMAIN tables => tables'[TableOf[m]] = tables[TableOf[m]]
    BY <1>1, PutElsewhere, EraseElsewhere
  <1> QED BY <1>2, <1>3 DEF Untouched

\* An acknowledgement reaches its own signal only.
LEMMA SubscribeAckOnly ==
    ASSUME NEW n \in SignalNumbers, NEW id, SubscribeAck(n, id)
    PROVE  OnlyTableOf(n)
  <1>1. last'.signal = n /\ tables' = tables
    BY DEF SubscribeAck, MetaAccepted, MetaRefused, Call
  <1>2. \/ subscribedSignals' = subscribedSignals
        \/ subscribedSignals' = Put(subscribedSignals, n, NewSignal)
    BY DEF SubscribeAck
  <1> QED BY <1>1, <1>2, OneEntryChanged

\* An unsubscribed signal leaves its own table only.
LEMMA UnsubscribeAckOnly ==
    ASSUME IInv, NEW n \in SignalNumbers, UnsubscribeAck(n)
    PROVE  OnlyTableOf(n)
  <1>1. ~Empty(n)
    BY Here
  <1>2. CASE Unknown(n)
    <2>1. last'.signal = n /\ tables' = tables /\ subscribedSignals' = subscribedSignals
      BY <1>1, <1>2 DEF UnsubscribeAck, MetaRefused, Call, Live, Unknown
    <2> QED BY <2>1, OneEntryChanged
  <1>3. CASE Live(n)
    <2>1. PICK t : t = subscribedSignals[n].tableId
      OBVIOUS
    <2>2. t \in {NoTableId, TableOf[n]}
      BY <1>3, <2>1 DEF IInv, AsPromised, Live
    <2>3. last'.signal = n /\ subscribedSignals' = Erase(subscribedSignals, n)
          /\ tables' = TablesWithout(n, subscribedSignals[n])
      BY <1>1, <1>3 DEF UnsubscribeAck, MetaAccepted, Call, Live, Unknown
    <2>4. \/ tables' = tables
          \/ \E v : tables' = Put(tables, t, v)
          \/ tables' = Erase(tables, t)
      BY <2>1, <2>3 DEF TablesWithout
    <2> QED BY <2>2, <2>3, <2>4, OneEntryChanged
  <1> QED BY <1>1, <1>2, <1>3 DEF Unknown, Live, Empty

\* A description lists its signal in the one table it names.
LEMMA SignalMetaOnly ==
    ASSUME MayMove = {}, IInv, NEW n \in SignalNumbers, NEW params \in SignalMetas,
           Conforms(n, params), SignalMeta(n, params)
    PROVE  OnlyTableOf(n)
  <1>1. ~Empty(n) /\ status = "open"
    BY Here DEF SignalMeta
  <1>2. CASE Unknown(n)
    <2>1. last'.signal = n /\ tables' = tables /\ subscribedSignals' = subscribedSignals
      BY <1>1, <1>2 DEF SignalMeta, MetaRefused, Call, Live, Unknown
    <2> QED BY <2>1, OneEntryChanged
  <1>3. CASE Live(n)
    <2>1. PICK answer : answer = ProcessSignalParams(subscribedSignals[n], params)
      OBVIOUS
    <2>2. n \in DOMAIN subscribedSignals
      BY <1>3 DEF Live
    <2>3. answer.signal.tableId \in {NoTableId, TableOf[n]}
      BY <1>1, <2>1, <2>2, DescribedByPromise
    <2>4. /\ last'.signal = n /\ subscribedSignals' = Put(subscribedSignals, n, answer.signal)
          /\ tables' = IF answer.ok THEN TablesWith(n, answer.signal) ELSE tables
      BY <1>1, <1>3, <2>1 DEF SignalMeta, MetaAccepted, MetaRefused, Call, Live, Unknown
    <2>5. PICK t : t = answer.signal.tableId
      OBVIOUS
    <2>6. tables' = tables \/ \E v : tables' = Put(tables, t, v)
      BY <2>4, <2>5 DEF TablesWith
    <2> QED BY <2>3, <2>4, <2>5, <2>6, OneEntryChanged
  <1> QED BY <1>1, <1>2, <1>3 DEF Unknown, Live, Empty

\* Other meta information changes nothing.
LEMMA OtherMetaOnly ==
    ASSUME IInv, NEW n \in SignalNumbers, OtherMeta(n)
    PROVE  OnlyTableOf(n)
  <1>1. ~Empty(n)
    BY Here
  <1>2. last'.signal = n /\ tables' = tables /\ subscribedSignals' = subscribedSignals
    BY <1>1 DEF OtherMeta, MetaAccepted, MetaRefused, Call
  <1> QED BY <1>2, OneEntryChanged

\* Data of a value signal looks the time signal up through the table; it is there, so
\* the look-up creates no entry.
LEMMA MeasuredDataOnly ==
    ASSUME IInv, NEW n \in SignalNumbers, NEW payload, MeasuredData(n, payload)
    PROVE  OnlyTableOf(n)
  <1>1. ~Empty(n)
    BY Here
  <1>2. CASE Unknown(n)
    <2>1. last'.signal = n /\ tables' = tables /\ subscribedSignals' = subscribedSignals
      BY <1>1, <1>2 DEF MeasuredData, DataAnswered, Call, Live, Unknown
    <2> QED BY <2>1, OneEntryChanged
  <1>3. CASE Live(n) /\ TimeData(n, payload)
    <2>1. \A m \in TableAt(subscribedSignals[n].tableId).data : Live(m)
      BY Here DEF IInv, NoDanglingMember, Members, Described, TableAt, NewTable
    <2>2. /\ last'.signal = n /\ tables' = tables
          /\ \E v : subscribedSignals' = Put(subscribedSignals, n, v)
      BY <1>3, <2>1 DEF TimeData, DataAnswered, Call
    <2> QED BY <2>2, OneEntryChanged
  <1>4. CASE Live(n) /\ ValueData(n, payload)
    <2> DEFINE sig     == subscribedSignals[n]
               timeNo  == TableAt(sig.tableId).time
               timeSig == IF timeNo \in DOMAIN subscribedSignals
                          THEN subscribedSignals[timeNo] ELSE Null
    <2>1. last'.signal = n /\ tables' = tables
      BY <1>4 DEF ValueData, DataAnswered, Call
    <2>2. CASE subscribedSignals' = subscribedSignals
      BY <2>1, <2>2, OneEntryChanged
    <2>3. ASSUME sig.tableId \in DOMAIN tables, timeNo # NoTimeSignal,
                 NEW v, subscribedSignals' = Put(Put(subscribedSignals, timeNo, timeSig), n, v)
          PROVE  OnlyTableOf(n)
      <3>1. timeNo \in DOMAIN subscribedSignals
        BY <2>3, Here DEF IInv, NoDanglingMember, Members, Described, TableAt
      <3>2. timeSig = subscribedSignals[timeNo]
        BY <3>1
      <3>3. subscribedSignals = [x \in DOMAIN subscribedSignals |-> subscribedSignals[x]]
        BY DEF IInv, ContainerTypeOK, SignalsTypeOK
      <3> HIDE DEF timeNo, timeSig
      <3>4. Put(subscribedSignals, timeNo, timeSig) = subscribedSignals
        BY <3>1, <3>2, <3>3 DEF Put
      <3>5. \E w : subscribedSignals' = Put(subscribedSignals, n, w)
        BY <2>3, <3>4
      <3> QED BY <2>1, <3>5, OneEntryChanged
    <2> QED BY <1>4, <2>2, <2>3 DEF ValueData
  <1> QED BY <1>1, <1>2, <1>3, <1>4 DEF MeasuredData, Unknown, Live, Empty

\* While no description moves a signal, a call for one signal leaves the signals and
\* the table of every other table alone, the shared look-ups of
\* SignalContainer.cpp:63-201 included.
THEOREM CallsStayInTheirTable ==
    ASSUME MayMove = {}
    PROVE  Spec => TablesIndependent
  <1>1. IInv /\ [Next]_containerVars =>
            [\A n \in SignalNumbers :
                TableOf[n] # TableOf[last'.signal] =>
                    /\ n \in DOMAIN subscribedSignals <=> n \in DOMAIN subscribedSignals'
                    /\ n \in DOMAIN subscribedSignals =>
                           subscribedSignals'[n] = subscribedSignals[n]
                    /\ TableOf[n] \in DOMAIN tables <=> TableOf[n] \in DOMAIN tables'
                    /\ TableOf[n] \in DOMAIN tables =>
                           tables'[TableOf[n]] = tables[TableOf[n]]]_containerVars
    <2> SUFFICES ASSUME IInv, Next
                 PROVE  \E n \in SignalNumbers : OnlyTableOf(n)
      BY DEF OnlyTableOf, Untouched
    <2>1. ASSUME NEW n \in SignalNumbers, NEW id \in {"ok", "missing", "badType"},
                 SubscribeAck(n, id)
          PROVE  OnlyTableOf(n)
      BY <2>1, SubscribeAckOnly
    <2>2. ASSUME NEW n \in SignalNumbers, UnsubscribeAck(n)
          PROVE  OnlyTableOf(n)
      BY <2>2, UnsubscribeAckOnly
    <2>3. ASSUME NEW n \in SignalNumbers, NEW params \in SignalMetas,
                 Conforms(n, params), SignalMeta(n, params)
          PROVE  OnlyTableOf(n)
      BY <2>3, SignalMetaOnly
    <2>4. ASSUME NEW n \in SignalNumbers, OtherMeta(n)
          PROVE  OnlyTableOf(n)
      BY <2>4, OtherMetaOnly
    <2>5. ASSUME NEW n \in SignalNumbers, NEW payload \in Payloads,
                 MeasuredData(n, payload)
          PROVE  OnlyTableOf(n)
      BY <2>5, MeasuredDataOnly
    <2> QED BY <2>1, <2>2, <2>3, <2>4, <2>5 DEF Next
  <1> QED BY <1>1, InductiveInvariant, PTL DEF Spec, TablesIndependent
=============================================================================
