-------------------------- MODULE ProducerSession ---------------------------
(***************************************************************************)
(* The registry of signals of class ProducerSession and what it tells the  *)
(* consumer.  The application never gives an id to a second signal, so a   *)
(* signal is its id, and it does not call two operations at once: the      *)
(* class has no lock.                                                      *)
(***************************************************************************)
EXTENDS Naturals

CONSTANTS
    SignalIds,
    DataSignals     \* the ids whose signal says isDataSignal()

ASSUME RegistryAssumption == DataSignals \subseteq SignalIds

VARIABLES
    allSignals,     \* m_allSignals
    announced,      \* what "available" and "unavailable" written so far add up to
    subscribed      \* signals whose last acknowledgement written is a subscribe

registryVars == <<allSignals, announced, subscribed>>

RegistryInit == allSignals = {} /\ announced = {} /\ subscribed = {}

\* Mutant of addSignals: every signal is announced.
addSignalsAll(signals) ==
    /\ allSignals' = allSignals \cup signals
    /\ announced' = announced \cup signals
    /\ UNCHANGED subscribed

\* addSignal() and addSignals(); only data signals are announced.
addSignals(signals) ==
    /\ allSignals' = allSignals \cup signals
    /\ announced' = announced \cup (signals \cap DataSignals)
    /\ UNCHANGED subscribed

\* Mutant of removeSignals: the announcement looks the signals up after the erase.
removeSignalsUnannounced(ids) ==
    /\ allSignals' = allSignals \ ids
    /\ announced' = announced \ (ids \cap allSignals' \cap DataSignals)
    /\ UNCHANGED subscribed

\* removeSignal() and removeSignals(); nothing is acknowledged.
removeSignals(ids) ==
    /\ allSignals' = allSignals \ ids
    /\ announced' = announced \ (ids \cap allSignals \cap DataSignals)
    /\ UNCHANGED subscribed

\* Ids that are not registered are skipped.
subscribeSignals(ids) ==
    /\ subscribed' = subscribed \cup (ids \cap allSignals)
    /\ UNCHANGED <<allSignals, announced>>

unsubscribeSignals(ids) ==
    /\ subscribed' = subscribed \ (ids \cap allSignals)
    /\ UNCHANGED <<allSignals, announced>>

-----------------------------------------------------------------------------
\* What the consumer has been told is available is what can be subscribed: every data
\* signal of the registry and nothing else, whatever ids come twice or are unknown
\* (ProducerSession.cpp:27-36, :135-176; docs/openDAQ-streaming.md:302-303, :316).
AnnouncementsFollow == announced = allSignals \cap DataSignals
=============================================================================
