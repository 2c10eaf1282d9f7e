-------------------------- MODULE SignalContainer ---------------------------
(***************************************************************************)
(* The consumer's register of subscribed signals and of the tables that    *)
(* join a time signal with its data signals (class SignalContainer).       *)
(*                                                                         *)
(* Both registers are maps that grow and shrink, so they are functions     *)
(* whose domain changes.  `status' is what the caller makes of the last    *)
(* call: ProtocolHandler::onPayload closes the session on a negative       *)
(* answer to meta information and merely logs a negative answer to data;   *)
(* "crashed" stands for the dereference of an empty shared_ptr.            *)
(***************************************************************************)
EXTENDS SubscribedSignal

CONSTANT SignalNumbers  \* signal numbers on the wire, never 0

NoTimeSignal == 0

ASSUME NumberAssumption == SignalNumbers \subseteq Nat \ {NoTimeSignal}

ASSUME NullAssumption == Null \notin Signal

VARIABLES
    subscribedSignals,  \* m_subscribedSignals
    tables,             \* m_tables
    last,               \* the last call: its kind, signal, answer and delivery
    status              \* "open", "closed" after refused meta, "crashed"

containerVars == <<subscribedSignals, tables, last, status>>

-----------------------------------------------------------------------------
Put(f, k, v) == [x \in DOMAIN f \cup {k} |-> IF x = k THEN v ELSE f[x]]
Erase(f, k)  == [x \in DOMAIN f \ {k} |-> f[x]]

Table == [time : SignalNumbers \cup {NoTimeSignal}, data : SUBSET SignalNumbers]

NewTable == [time |-> NoTimeSignal, data |-> {}]

\* A find() that ends at a signal, at nothing, or at an empty shared_ptr.
Live(n)    == n \in DOMAIN subscribedSignals /\ subscribedSignals[n] # Null
Unknown(n) == n \notin DOMAIN subscribedSignals
Empty(n)   == n \in DOMAIN subscribedSignals /\ subscribedSignals[n] = Null

\* m_tables[tableId]: the table, created empty when there is none.
TableAt(t) == IF t \in DOMAIN tables THEN tables[t] ELSE NewTable

Call(kind, n, ok, delivery) ==
    [kind |-> kind, signal |-> n, ok |-> ok, delivery |-> delivery]

\* The signal meta callback runs exactly when the call is accepted.
MetaAccepted(n) ==
    /\ last' = Call("meta", n, TRUE, NoDelivery)
    /\ status' = status

MetaRefused(n) ==
    /\ last' = Call("meta", n, FALSE, NoDelivery)
    /\ status' = "closed"

DataAnswered(n, ok, delivery) ==
    /\ last' = Call("data", n, ok, delivery)
    /\ status' = status

Crash ==
    /\ status' = "crashed"
    /\ UNCHANGED <<subscribedSignals, tables, last>>

-----------------------------------------------------------------------------
(* processMetaInformation *)

\* Mutant of TablesWithout: a data signal stays listed.
TablesWithoutTime(n, sig) ==
    IF sig.tableId \in DOMAIN tables /\ sig.isTime
    THEN Put(tables, sig.tableId, [tables[sig.tableId] EXCEPT !.time = NoTimeSignal])
    ELSE tables

\* Mutant of TablesWithout: the table goes with its first signal.
TablesWithoutTable(n, sig) == Erase(tables, sig.tableId)

\* Mutant of TablesWithout: all tables are cleared.
TablesCleared(n, sig) == <<>>

\* The table without signal n; an empty table is dropped.
TablesWithout(n, sig) ==
    IF sig.tableId \notin DOMAIN tables
    THEN tables
    ELSE LET old  == tables[sig.tableId]
             left == IF sig.isTime THEN [old EXCEPT !.time = NoTimeSignal]
                                   ELSE [old EXCEPT !.data = @ \ {n}]
         IN  IF left = NewTable THEN Erase(tables, sig.tableId)
             ELSE Put(tables, sig.tableId, left)

\* The table with signal n; nothing is taken out of any other table.
TablesWith(n, sig) ==
    LET old == TableAt(sig.tableId)
    IN  Put(tables, sig.tableId,
            IF sig.isTime THEN [old EXCEPT !.time = n]
                          ELSE [old EXCEPT !.data = @ \cup {n}])

\* `id' is "ok", "missing", or "badType" when it is neither a string nor a number.
SubscribeAck(n, id) ==
    /\ status = "open"
    /\ tables' = tables
    /\ \/ /\ id = "missing" \/ ~Unknown(n)
          /\ MetaRefused(n)
          /\ UNCHANGED subscribedSignals
       \/ /\ id # "missing" /\ Unknown(n)
          /\ subscribedSignals' = Put(subscribedSignals, n, NewSignal)
          /\ IF id = "ok" THEN MetaAccepted(n) ELSE MetaRefused(n)

\* Mutant of UnsubscribeAck: the signal is taken out of its table only.
UnsubscribeAckKeepsSignal(n) ==
    /\ status = "open"
    /\ Live(n)
    /\ tables' = TablesWithout(n, subscribedSignals[n])
    /\ MetaAccepted(n)
    /\ UNCHANGED subscribedSignals

UnsubscribeAck(n) ==
    /\ status = "open"
    /\ \/ /\ Unknown(n)
          /\ MetaRefused(n)
          /\ UNCHANGED <<subscribedSignals, tables>>
       \/ /\ Empty(n)
          /\ Crash
       \/ /\ Live(n)
          /\ tables' = TablesWithout(n, subscribedSignals[n])
          /\ subscribedSignals' = Erase(subscribedSignals, n)
          /\ MetaAccepted(n)

SignalMeta(n, params) ==
    /\ status = "open"
    /\ \/ /\ Unknown(n)
          /\ MetaRefused(n)
          /\ UNCHANGED <<subscribedSignals, tables>>
       \/ /\ Empty(n)
          /\ Crash
       \/ /\ Live(n)
          /\ LET answer == ProcessSignalParams(subscribedSignals[n], params)
             IN  /\ subscribedSignals' = Put(subscribedSignals, n, answer.signal)
                 /\ tables' = IF answer.ok THEN TablesWith(n, answer.signal)
                                           ELSE tables
                 /\ IF answer.ok THEN MetaAccepted(n) ELSE MetaRefused(n)

\* Any other method only reaches the callback of a subscribed signal.
OtherMeta(n) ==
    /\ status = "open"
    /\ \/ /\ Unknown(n)
          /\ MetaRefused(n)
          /\ UNCHANGED <<subscribedSignals, tables>>
       \/ /\ Empty(n)
          /\ Crash
       \/ /\ Live(n)
          /\ MetaAccepted(n)
          /\ UNCHANGED <<subscribedSignals, tables>>

-----------------------------------------------------------------------------
(* processMeasuredData.  A payload is its length and, for a time signal, its *)
(* first two 64 bit words.                                                   *)

\* The new time reaches the time signal once per data signal of its table, so not
\* at all while the table has none.  An explicit time block begins with the time
\* stamp, any other with a value index followed by the time stamp.
StampedTimeSignal(sig, payload) ==
    IF TableAt(sig.tableId).data = {} THEN sig
    ELSE IF sig.rule = "explicit"
         THEN [sig EXCEPT !.time = payload.first]
         ELSE [sig EXCEPT !.time = payload.second, !.index = payload.first]

TimeData(n, payload) ==
    LET sig     == subscribedSignals[n]
        stamped == StampedTimeSignal(sig, payload)
    IN  \/ /\ \E m \in TableAt(sig.tableId).data : ~Live(m)
           /\ Crash
        \/ /\ \A m \in TableAt(sig.tableId).data : Live(m)
           /\ subscribedSignals' = Put(subscribedSignals, n, stamped)
           /\ tables' = tables
           /\ DataAnswered(n, TRUE,
                  IF sig.rule = "explicit"
                  THEN ProcessSignalData(stamped, Null, payload.len).delivery
                  ELSE NoDelivery)

\* Looking up a time signal that is not there leaves an empty entry behind.
ValueData(n, payload) ==
    LET sig     == subscribedSignals[n]
        timeNo  == TableAt(sig.tableId).time
        timeSig == IF timeNo \in DOMAIN subscribedSignals
                   THEN subscribedSignals[timeNo] ELSE Null
        answer  == ProcessSignalData(sig, timeSig, payload.len)
    IN  /\ tables' = tables
        /\ \/ /\ sig.tableId \notin DOMAIN tables
              /\ DataAnswered(n, TRUE, NoDelivery)
              /\ UNCHANGED subscribedSignals
           \/ /\ sig.tableId \in DOMAIN tables
              /\ timeNo = NoTimeSignal
              /\ DataAnswered(n, FALSE, NoDelivery)
              /\ UNCHANGED subscribedSignals
           \/ /\ sig.tableId \in DOMAIN tables
              /\ timeNo # NoTimeSignal
              /\ DataAnswered(n, answer.ok, answer.delivery)
              /\ subscribedSignals' =
                     Put(Put(subscribedSignals, timeNo, timeSig), n, answer.signal)

MeasuredData(n, payload) ==
    /\ status = "open"
    /\ \/ /\ Unknown(n)
          /\ DataAnswered(n, FALSE, NoDelivery)
          /\ UNCHANGED <<subscribedSignals, tables>>
       \/ /\ Empty(n)
          /\ Crash
       \/ /\ Live(n)
          /\ IF subscribedSignals[n].isTime THEN TimeData(n, payload)
                                            ELSE ValueData(n, payload)

-----------------------------------------------------------------------------
ContainerInit ==
    /\ subscribedSignals = <<>>
    /\ tables = <<>>
    /\ last = Call("none", NoTimeSignal, TRUE, NoDelivery)
    /\ status = "open"

SignalsTypeOK ==
    /\ DOMAIN subscribedSignals \subseteq SignalNumbers
    /\ subscribedSignals \in [DOMAIN subscribedSignals -> Signal \cup {Null}]

TablesTypeOK ==
    /\ DOMAIN tables \subseteq TableIds \cup {NoTableId}
    /\ tables \in [DOMAIN tables -> Table]

AnswerTypeOK ==
    /\ last.kind \in {"none", "meta", "data"}
    /\ last.signal \in SignalNumbers \cup {NoTimeSignal}
    /\ last.ok \in BOOLEAN
    /\ last.delivery \in Delivery \cup {NoDelivery}
    /\ status \in {"open", "closed", "crashed"}

\* Every signal object, table entry and answer has the shape its class declares;
\* indices and time stamps stay 64 bit words (SubscribedSignal.hpp, Table.hpp).
ContainerTypeOK == SignalsTypeOK /\ TablesTypeOK /\ AnswerTypeOK

=============================================================================
