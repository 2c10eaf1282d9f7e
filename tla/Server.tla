------------------------------- MODULE Server -------------------------------
(***************************************************************************)
(* Class Server, its registry of sessions, and the life of the             *)
(* ProducerSessions it creates, one for each stream the WebsocketServer    *)
(* accepts; also the signal numbers all signals of the process share.      *)
(*                                                                         *)
(* The registry holds weak pointers.  A session lives as long as a pending *)
(* read or close of its stream holds a shared pointer to it.  Handlers run *)
(* one after the other on the io_context, and stop() is called from one of *)
(* them, as the tests do; the mutex of the registry is then never waited   *)
(* for.                                                                    *)
(*                                                                         *)
(* The streams and the WebsocketServer are external: an end point is not   *)
(* accepted again before the old session's read has failed, none is        *)
(* accepted after stop(), a close ends, and a read fails once the stream   *)
(* is down.                                                                *)
(***************************************************************************)
EXTENDS Naturals, Sequences

CONSTANTS
    Sessions,       \* ProducerSession objects, numbered as they are created
    Endpoints,      \* what endPointUrl() may say
    None,           \* no entry under a key
    NumberMask,     \* SIGNAL_NUMBER_MASK: 2^20 - 1 in the code
    CounterLimit    \* the modulus of s_signalNumberCounter: 2^32 in the code

ASSUME ServerAssumption ==
    /\ Sessions \subseteq Nat /\ None \notin Sessions
    /\ NumberMask \in Nat \ {0} /\ CounterLimit \in Nat
    /\ CounterLimit % (NumberMask + 1) = 0 /\ CounterLimit > NumberMask

VARIABLES
    listening,      \* m_server accepts
    registry,       \* m_sessions
    session,        \* the state of each ProducerSession and its stream
    counter,        \* s_signalNumberCounter
    numbers         \* the last numbers given to signals, newest first

serverVars == <<listening, registry, session, counter, numbers>>

NotCreated == [life |-> "new", endpoint |-> None, reading |-> FALSE, received |-> FALSE,
               closing |-> "no", stream |-> "up", errors |-> 0]

\* Somebody holds a shared pointer, so that weak_ptr::lock() succeeds.
Alive(s) == session[s].reading \/ session[s].closing = "pending"

Set(s, change) ==
    session' = [session EXCEPT ![s] = [f \in DOMAIN @ |-> IF f \in DOMAIN change THEN change[f] ELSE @[f]]]

-----------------------------------------------------------------------------
(* Class Server. *)

Start ==
    /\ ~listening
    /\ listening' = TRUE
    /\ UNCHANGED <<registry, session, counter, numbers>>

\* A client connects: createSession() writes the initial meta information, registers the
\* session under the end point of its stream and starts reading.
CreateSession(s, endpoint) ==
    /\ listening
    /\ session[s].life = "new" /\ \A t \in Sessions : t < s => session[t].life = "started"
    /\ \A other \in Sessions : session[other].endpoint = endpoint => ~session[other].reading
    /\ registry' = [registry EXCEPT ![endpoint] = s]
    /\ Set(s, [life |-> "started", endpoint |-> endpoint, reading |-> TRUE])
    /\ UNCHANGED <<listening, counter, numbers>>

\* stop(): every session of the registry that still lives is stopped, the registry cleared.
Stop ==
    /\ listening' = FALSE
    /\ session' = [s \in Sessions |->
                      IF Alive(s) /\ registry[session[s].endpoint] = s
                      THEN [session[s] EXCEPT !.closing = "pending"] ELSE session[s]]
    /\ registry' = [e \in Endpoints |-> None]
    /\ UNCHANGED <<counter, numbers>>

-----------------------------------------------------------------------------
(* Class ProducerSession and its stream. *)

ClientSends(s) ==
    /\ session[s].life = "started" /\ session[s].stream = "up" /\ ~session[s].received
    /\ Set(s, [received |-> TRUE])
    /\ UNCHANGED <<listening, registry, counter, numbers>>

ClientLeaves(s) ==
    /\ session[s].life = "started" /\ session[s].stream = "up"
    /\ Set(s, [stream |-> "down"])
    /\ UNCHANGED <<listening, registry, counter, numbers>>

\* onRead() with data: consumed, and the next read is started.
OnReadData(s) ==
    /\ session[s].reading /\ session[s].received
    /\ Set(s, [received |-> FALSE])
    /\ UNCHANGED <<listening, registry, counter, numbers>>

\* Mutant of RemoveSessionCb: the session is left in the registry.
RemoveSessionCbNot(endpoint) == UNCHANGED registry

RemoveSessionCb(endpoint) == registry' = [registry EXCEPT ![endpoint] = None]

\* Mutant of OnReadError: the end of a read that stop() has cancelled is not handled.
OnReadErrorUnlessStopped(s) ==
    /\ session[s].reading /\ session[s].stream = "down" /\ session[s].closing = "no"
    /\ Set(s, [reading |-> FALSE, errors |-> session[s].errors + 1])
    /\ RemoveSessionCb(session[s].endpoint)
    /\ UNCHANGED <<listening, counter, numbers>>

\* onRead() with an error, also that of a read a close has cancelled: the error callback
\* and no further read.
OnReadError(s) ==
    /\ session[s].reading /\ session[s].stream = "down"
    /\ Set(s, [reading |-> FALSE, errors |-> session[s].errors + 1])
    /\ RemoveSessionCb(session[s].endpoint)
    /\ UNCHANGED <<listening, counter, numbers>>

\* onClose() only logs; the stream is down by then.
OnClose(s) ==
    /\ session[s].closing = "pending"
    /\ Set(s, [closing |-> "done", stream |-> "down"])
    /\ UNCHANGED <<listening, registry, counter, numbers>>

-----------------------------------------------------------------------------
(* BaseSignal::nextSignalNumber(), under its own mutex. *)

Masked(n) == n % (NumberMask + 1)

\* Mutant of Successor: the counter does not wrap.
SuccessorUnwrapped(n) == n + 1

Successor(n) == (n + 1) % CounterLimit

\* Mutant of NextCounter: the number 0 is not skipped.
NextCounterPlain == Successor(counter)

NextCounter == IF Masked(Successor(counter)) = 0 THEN Successor(Successor(counter))
                                                 ELSE Successor(counter)

\* The constructor of a signal takes the next number.
CreateSignal ==
    /\ counter' = NextCounter
    /\ numbers' = SubSeq(<<Masked(NextCounter)>> \o numbers, 1,
                         IF Len(numbers) = NumberMask THEN NumberMask ELSE Len(numbers) + 1)
    /\ UNCHANGED <<listening, registry, session>>

-----------------------------------------------------------------------------
ServerInit ==
    /\ listening = FALSE
    /\ registry = [e \in Endpoints |-> None]
    /\ session = [s \in Sessions |-> NotCreated]
    /\ counter = 0 /\ numbers = <<>>

ServerNext ==
    \/ Start \/ Stop
    \/ \E s \in Sessions :
           \/ \E endpoint \in Endpoints : CreateSession(s, endpoint)
           \/ ClientSends(s) \/ ClientLeaves(s)
           \/ OnReadData(s) \/ OnReadError(s) \/ OnClose(s)
    \/ CreateSignal

\* The io_context runs its handlers: a close ends, and a read of a stream that is down
\* fails.  No client has to connect, send or leave.
ServerFairness ==
    \A s \in Sessions : WF_serverVars(OnReadError(s)) /\ WF_serverVars(OnClose(s))

ServerSpec == ServerInit /\ [][ServerNext]_serverVars /\ ServerFairness

-----------------------------------------------------------------------------
ServerTypeOK ==
    /\ listening \in BOOLEAN
    /\ registry \in [Endpoints -> Sessions \cup {None}]
    /\ session \in [Sessions ->
           [life : {"new", "started"}, endpoint : Endpoints \cup {None}, reading : BOOLEAN,
            received : BOOLEAN, closing : {"no", "pending", "done"}, stream : {"up", "down"},
            errors : 0 .. 1]]
    /\ counter \in 0 .. (CounterLimit - 1)
    /\ numbers \in Seq(0 .. NumberMask)

\* The registry holds the sessions that read and have not been told to stop, each under
\* its own end point, and no others: stop() reaches every session and sessionCount() is
\* the number of connected clients (Server.cpp:46-85 and 113-116 against
\* ProducerSession.cpp:104-121).
RegistryExact ==
    \A e \in Endpoints, s \in Sessions :
        registry[e] = s <=> /\ session[s].endpoint = e
                            /\ session[s].reading /\ session[s].closing = "no"

\* A session whose client leaves or that is told to stop ends, also when the two cross:
\* its read and its close complete, and nothing holds it any more.  After stop() that is
\* every session, unless the server is started again, so that io_context::run() can return
\* (Server.cpp:46-60, ProducerSession.cpp:109-133).
StreamSessionsEnd ==
    /\ \A s \in Sessions :
           (session[s].stream = "down" \/ session[s].closing # "no") ~> ~Alive(s)
    /\ ~listening ~> (listening \/ \A s \in Sessions : ~Alive(s))

\* The last NumberMask signals made in the process have different numbers, none of them
\* the 0 that stands for the stream (BaseSignal.cpp:67-76).
NumbersDistinct ==
    \A i, j \in DOMAIN numbers : numbers[i] # 0 /\ (i # j => numbers[i] # numbers[j])
=============================================================================
