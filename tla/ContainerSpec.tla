--------------------------- MODULE ContainerSpec ----------------------------
(***************************************************************************)
(* The signal container driven by a sender that keeps the promises of the  *)
(* protocol about descriptions, and breaks the ones the container guards   *)
(* against: acknowledgements may be repeated, missing or malformed, and    *)
(* meta information and data may come for signals never acknowledged.      *)
(*                                                                         *)
(* What the sender keeps: only a domain signal's unit has the quantity     *)
(* "time", the signals of a table share one time signal, the first         *)
(* description after a subscribe acknowledgement is complete               *)
(* (docs/client-requirements.md:31), and a signal outside MayMove stays in *)
(* the table it was put in (BaseSignal::m_tableId is set once, so for the  *)
(* producer of this repository MayMove is empty).                          *)
(***************************************************************************)
EXTENDS SignalContainer

CONSTANTS
    TableOf,        \* the table the sender puts each signal in
    TimeSignals,    \* the signals whose unit has the quantity "time"
    MayMove,        \* signals whose table the sender changes later on, none in src/
    SignalMetas,    \* "signal" meta information the sender may write
    Payloads        \* measured data blocks the sender may write

ASSUME SenderAssumption ==
    /\ TableOf \in [SignalNumbers -> TableIds]
    /\ TimeSignals \subseteq SignalNumbers
    /\ MayMove \subseteq SignalNumbers
    /\ SignalMetas \subseteq SignalParams
    /\ Payloads \subseteq [len : Nat, first : Word, second : Word]

\* docs/openDAQ-streaming.md:125, the signals of a table share one time signal.
ASSUME OneTimeSignalPerTable ==
    \A m, n \in TimeSignals : TableOf[m] = TableOf[n] => m = n

Described(n) == Live(n) /\ subscribedSignals[n].tableId # NoTableId

\* What the sender promises about a description of signal n.
Conforms(n, params) ==
    /\ n \notin MayMove => params.tableId \in {Absent, TableOf[n]}
    /\ params.definition # Absent =>
           (params.definition.quantityTime => n \in TimeSignals)
    /\ ~Described(n) =>
           /\ params.tableId # Absent
           /\ params.definition # Absent
           /\ n \in TimeSignals => params.definition.quantityTime

Next ==
    \/ \E n \in SignalNumbers, id \in {"ok", "missing", "badType"} : SubscribeAck(n, id)
    \/ \E n \in SignalNumbers : UnsubscribeAck(n)
    \/ \E n \in SignalNumbers, params \in SignalMetas :
           Conforms(n, params) /\ SignalMeta(n, params)
    \/ \E n \in SignalNumbers : OtherMeta(n)
    \/ \E n \in SignalNumbers, payload \in Payloads : MeasuredData(n, payload)

Spec == ContainerInit /\ [][Next]_containerVars

-----------------------------------------------------------------------------
Members(t) == tables[t].data \cup ({tables[t].time} \ {NoTimeSignal})

\* The tables name subscribed signals only, each in one role: nothing that lists a
\* signal survives the signal, whatever order acknowledgements, descriptions and data
\* come in (SignalContainer.cpp:75-88 against the look-ups at :158, :174 and :195).
NoDanglingMember ==
    \A t \in DOMAIN tables :
        /\ tables[t].time \notin tables[t].data
        /\ \A n \in Members(t) :
               /\ Described(n)
               /\ subscribedSignals[n].tableId = t
               /\ subscribedSignals[n].isTime <=> n = tables[t].time

\* While the session is open every described signal is listed in its table: data
\* signals under data, the time signal as the table's time, and no table is empty
\* (SignalContainer.cpp:118-128).
EveryDescribedSignalListed ==
    /\ \A t \in DOMAIN tables : Members(t) # {}
    /\ status = "open" =>
           \A n \in SignalNumbers : Described(n) =>
               /\ subscribedSignals[n].tableId \in DOMAIN tables
               /\ n \in Members(subscribedSignals[n].tableId)

\* No empty shared_ptr is ever dereferenced: neither the signal a packet is for
\* (SignalContainer.cpp:111, :147) nor a data signal of a table (:160, :179).
NeverCrashes == status # "crashed"

\* Meta information or data for a signal leaves the signals and the table of every
\* other table alone (SignalContainer.cpp:63-201 walks a table's members).
TablesIndependent ==
    [][\A n \in SignalNumbers :
           TableOf[n] # TableOf[last'.signal] =>
               /\ n \in DOMAIN subscribedSignals <=> n \in DOMAIN subscribedSignals'
               /\ n \in DOMAIN subscribedSignals =>
                      subscribedSignals'[n] = subscribedSignals[n]
               /\ TableOf[n] \in DOMAIN tables <=> TableOf[n] \in DOMAIN tables'
               /\ TableOf[n] \in DOMAIN tables =>
                      tables'[TableOf[n]] = tables[TableOf[n]]]_containerVars
=============================================================================
