---------------------------- MODULE ControlPath -----------------------------
(***************************************************************************)
(* Control requests: Controller and HttpPost of the consumer, ControlServer*)
(* of the producer, each request on a connection of its own, and the       *)
(* registry of ProducerSession the server's command callback works on.     *)
(*                                                                         *)
(* Every operation of a client or a server connection has a timer of 30 s, *)
(* so it may fail at any time, and what was sent before may still arrive.  *)
(* The v4 and the v6 listener are alike and share nothing; one is          *)
(* modelled.  Bodies that make the JSON parser throw are left out.         *)
(***************************************************************************)
EXTENDS ProducerSession, Sequences

CONSTANTS
    Requests,       \* calls of subscribe() and unsubscribe()
    IdLists,        \* sets of signal ids they are given
    HttpVersions    \* versions the stream's "init" may name

ASSUME ControlAssumption ==
    IdLists \subseteq SUBSET SignalIds /\ HttpVersions \subseteq {10, 11}

VARIABLES
    client,     \* operation each HttpPost waits for
    asked,      \* the request each HttpPost carries
    results,    \* arguments the result callback was called with
    sent,       \* requests on their connection and not yet read
    answer,     \* the answer on each connection
    gone,       \* connections the client has closed
    session,    \* operation each server session waits for
    handled,    \* answers the server has given to each request
    listener,   \* "new", "open" or "closed"
    backlog,    \* connections not yet accepted
    accept      \* outstanding async_accept, or its completed handler

clientVars == <<client, asked, results, gone>>
serverVars == <<session, handled, listener, accept>>
controlVars == <<registryVars, clientVars, serverVars, sent, answer, backlog>>

NotAsked == [command |-> "none", ids |-> {}, version |-> 10]

-----------------------------------------------------------------------------
(* Consumer *)

\* HttpPost starts with resolving the host.
run(r) == client' = [client EXCEPT ![r] = "resolve"] /\ UNCHANGED results

\* Controller: a list without ids succeeds at once.
Execute(r, ids) ==
    \/ /\ ids = {}
       /\ client' = [client EXCEPT ![r] = "done"]
       /\ results' = [results EXCEPT ![r] = Append(@, "ok")]
    \/ ids # {} /\ run(r)

\* Controller throws without a stream id, HttpPost without a port or a path.
Throws(ids, known) == known = "nothing" \/ (known = "streamId" /\ ids # {})

\* ProtocolHandler::subscribe() and unsubscribe(); `known' is what the stream's "init"
\* has told so far.  An exception is caught, and nobody hears of the request again.
Issue(r, command, ids, version, known) ==
    /\ client[r] = "idle"
    /\ asked' = [asked EXCEPT ![r] = [command |-> command, ids |-> ids, version |-> version]]
    /\ \/ ~Throws(ids, known) /\ Execute(r, ids)
       \/ /\ Throws(ids, known)
          /\ client' = [client EXCEPT ![r] = "refused"] /\ UNCHANGED results
    /\ UNCHANGED <<registryVars, serverVars, gone, sent, answer, backlog>>

\* A request some other HTTP client sends, which handle_request() finds fault with.
IssueMalformed(r) ==
    /\ client[r] = "idle"
    /\ asked' = [asked EXCEPT ![r] = [command |-> "malformed", ids |-> {}, version |-> 11]]
    /\ run(r)
    /\ UNCHANGED <<registryVars, serverVars, gone, sent, answer, backlog>>

\* The result callback is called and the HttpPost, with its connection, goes away.
Reports(r, ec) ==
    /\ client' = [client EXCEPT ![r] = "done"]
    /\ results' = [results EXCEPT ![r] = Append(@, ec)]
    /\ gone' = gone \cup {r}

\* Mutant of Fails: the handler goes on after it has reported the error.
FailsAndGoesOn(r) ==
    /\ client[r] \in {"resolve", "connect", "write", "read"}
    /\ results' = [results EXCEPT ![r] = Append(@, "failed")]
    /\ client' = [client EXCEPT ![r] = IF @ = "write" THEN "read" ELSE "done"]
    /\ UNCHANGED <<registryVars, serverVars, asked, gone, sent, answer, backlog>>

\* Mutant of Fails: on_connect sets no timeout for writing and reading.
FailsWithoutTimeout(r) ==
    /\ client[r] \in {"resolve", "connect"}
    /\ Reports(r, "failed")
    /\ UNCHANGED <<registryVars, serverVars, asked, sent, answer, backlog>>

\* The error branch of on_resolve, on_connect, on_write and on_read.
Fails(r) ==
    /\ client[r] \in {"resolve", "connect", "write", "read"}
    /\ Reports(r, "failed")
    /\ UNCHANGED <<registryVars, serverVars, asked, sent, answer, backlog>>

on_resolve(r) ==
    /\ client[r] = "resolve"
    /\ client' = [client EXCEPT ![r] = "connect"]
    /\ UNCHANGED <<registryVars, serverVars, asked, results, gone, sent, answer, backlog>>

\* The server's system completes a connection before it is accepted.
on_connect(r) ==
    /\ client[r] = "connect"
    /\ listener = "open"
    /\ client' = [client EXCEPT ![r] = "write"]
    /\ backlog' = backlog \cup {r}
    /\ UNCHANGED <<registryVars, serverVars, asked, results, gone, sent, answer>>

\* Mutant of on_write: the request counts as done once it is written.
on_writeReports(r) ==
    /\ client[r] = "write"
    /\ Reports(r, "ok")
    /\ sent' = sent \cup {r}
    /\ UNCHANGED <<registryVars, serverVars, asked, answer, backlog>>

on_write(r) ==
    /\ client[r] = "write"
    /\ client' = [client EXCEPT ![r] = "read"]
    /\ sent' = sent \cup {r}
    /\ UNCHANGED <<registryVars, serverVars, asked, results, gone, answer, backlog>>

\* The status of the answer is logged; the callback is told of success either way.
on_read(r) ==
    /\ client[r] = "read"
    /\ answer[r] # "none"
    /\ Reports(r, "ok")
    /\ UNCHANGED <<registryVars, serverVars, asked, sent, answer, backlog>>

-----------------------------------------------------------------------------
(* Producer: the listener *)

\* Opening the acceptor may fail, which start() catches.
start ==
    /\ listener = "new"
    /\ \/ listener' = "open" /\ accept' = "waiting"
       \/ listener' = "closed" /\ UNCHANGED accept
    /\ UNCHANGED <<registryVars, clientVars, session, handled, sent, answer, backlog>>

stop ==
    /\ listener = "open"
    /\ listener' = "closed"
    /\ backlog' = {}
    /\ UNCHANGED <<registryVars, clientVars, session, handled, accept, sent, answer>>

\* async_accept completes: with a connection, or with an error, at once on a closed
\* acceptor.
AcceptCompletes ==
    /\ accept = "waiting"
    /\ \/ /\ listener = "open"
          /\ \E r \in backlog : accept' = r /\ backlog' = backlog \ {r}
       \/ accept' = "failed" /\ UNCHANGED backlog
    /\ UNCHANGED <<registryVars, clientVars, session, handled, listener, sent, answer>>

\* The next accept is started whatever the error was.
on_accept ==
    /\ accept \notin {"none", "waiting"}
    /\ accept' = "waiting"
    /\ session' = IF accept = "failed" THEN session ELSE [session EXCEPT ![accept] = "read"]
    /\ UNCHANGED <<registryVars, clientVars, handled, listener, sent, answer, backlog>>

-----------------------------------------------------------------------------
(* Producer: one session per connection *)

\* The application's command callback; it may refuse.
Command(r) ==
    \/ asked[r].command = "subscribe" /\ subscribeSignals(asked[r].ids)
    \/ asked[r].command = "unsubscribe" /\ unsubscribeSignals(asked[r].ids)

\* Mutant of handle_request: m_req is not emptied and is read again.
handle_requestAgain(r) ==
    /\ session[r] = "read"
    /\ r \in sent
    /\ session' = [session EXCEPT ![r] = "write"]
    /\ handled' = [handled EXCEPT ![r] = Append(@, "bad")]
    /\ UNCHANGED <<registryVars, clientVars, listener, accept, sent, answer, backlog>>

\* on_read of a session without error: handle_request() and the start of the answer.
handle_request(r) ==
    /\ session[r] = "read"
    /\ r \in sent
    /\ sent' = sent \ {r}
    /\ session' = [session EXCEPT ![r] = "write"]
    /\ \/ /\ asked[r].command # "malformed"
          /\ Command(r)
          /\ handled' = [handled EXCEPT ![r] = Append(@, "ok")]
       \/ /\ handled' = [handled EXCEPT ![r] = Append(@, "bad")]
          /\ UNCHANGED registryVars
    /\ UNCHANGED <<clientVars, listener, accept, answer, backlog>>

\* Mutant of SessionEnds: a read that fails or meets the end of the stream is ignored.
SessionEndsAfterWrite(r) ==
    /\ session[r] = "write"
    /\ session' = [session EXCEPT ![r] = "ended"]
    /\ UNCHANGED <<registryVars, clientVars, handled, listener, accept, sent, answer, backlog>>

\* A read that meets the end of the stream, and a read or a write that fails or times out.
SessionEnds(r) ==
    /\ session[r] \in {"read", "write"}
    /\ session' = [session EXCEPT ![r] = "ended"]
    /\ UNCHANGED <<registryVars, clientVars, handled, listener, accept, sent, answer, backlog>>

\* on_write of a session: need_eof() holds for an answer without a content length, which
\* is the one of success, and for the answer to a client that does not keep alive.
SessionWrites(r) ==
    /\ session[r] = "write"
    /\ LET outcome == handled[r][Len(handled[r])]
           close   == outcome = "ok" \/ asked[r].version = 10
       IN  /\ answer' = [answer EXCEPT ![r] = outcome]
           /\ session' = [session EXCEPT ![r] = IF close THEN "ended" ELSE "read"]
    /\ UNCHANGED <<registryVars, clientVars, handled, listener, accept, sent, backlog>>

-----------------------------------------------------------------------------
\* The application changes the registry.
Registry ==
    /\ \E ids \in IdLists : addSignals(ids) \/ removeSignals(ids)
    /\ UNCHANGED <<clientVars, serverVars, sent, answer, backlog>>

ControlInit ==
    /\ RegistryInit
    /\ client = [r \in Requests |-> "idle"] /\ asked = [r \in Requests |-> NotAsked]
    /\ results = [r \in Requests |-> <<>>]
    /\ sent = {} /\ answer = [r \in Requests |-> "none"] /\ gone = {}
    /\ session = [r \in Requests |-> "none"] /\ handled = [r \in Requests |-> <<>>]
    /\ listener = "new" /\ backlog = {} /\ accept = "none"

ClientStep(r) == Fails(r) \/ on_resolve(r) \/ on_connect(r) \/ on_write(r) \/ on_read(r)

SessionStep(r) == handle_request(r) \/ SessionEnds(r) \/ SessionWrites(r)

ControlNext ==
    \/ \E r \in Requests, command \in {"subscribe", "unsubscribe"}, ids \in IdLists,
          version \in HttpVersions, known \in {"nothing", "streamId", "everything"} :
           Issue(r, command, ids, version, known)
    \/ \E r \in Requests : IssueMalformed(r) \/ ClientStep(r) \/ SessionStep(r)
    \/ start \/ stop \/ AcceptCompletes \/ on_accept
    \/ Registry

\* Timers and the system end every operation, and the io_contexts run the handlers.
\* Accepting is fair for its own sake: nobody has to connect.
ControlFairness ==
    /\ \A r \in Requests : WF_controlVars(ClientStep(r)) /\ WF_controlVars(SessionStep(r))
    /\ WF_controlVars(AcceptCompletes /\ listener = "closed") /\ WF_controlVars(on_accept)

ControlSpec == ControlInit /\ [][ControlNext]_controlVars /\ ControlFairness

-----------------------------------------------------------------------------
ControlTypeOK ==
    /\ allSignals \subseteq SignalIds /\ subscribed \subseteq SignalIds
    /\ announced \subseteq DataSignals
    /\ client \in [Requests -> {"idle", "refused", "resolve", "connect", "write", "read", "done"}]
    /\ answer \in [Requests -> {"none", "ok", "bad"}]
    /\ session \in [Requests -> {"none", "read", "write", "ended"}]
    /\ sent \subseteq Requests /\ gone \subseteq Requests /\ backlog \subseteq Requests
    /\ listener \in {"new", "open", "closed"}
    /\ accept \in Requests \cup {"none", "waiting", "failed"}

\* No path through resolve, connect, write and read calls the result callback twice, and
\* none is finished without having called it (HttpPost.cpp:85-169).
ResultOnce ==
    \A r \in Requests : Len(results[r]) = IF client[r] = "done" THEN 1 ELSE 0

\* Success is reported only for a request the server has read and answered, however the
\* connections of several requests overlap (HttpPost.cpp:141-169 against
\* ControlServer.cpp:55-139).
OkMeansAnswered ==
    \A r \in Requests :
        /\ r \in gone
        /\ \E i \in DOMAIN results[r] : results[r][i] = "ok"
        => handled[r] # <<>>

\* A request is executed once at most, though connections are kept alive and answers get
\* lost (ControlServer.cpp:207-263).
HandledOnce == \A r \in Requests : Len(handled[r]) <= 1

\* Every request begun gets its result, even without a server (HttpPost.cpp:96, :115).
ResultComes == \A r \in Requests : (client[r] = "resolve") ~> (client[r] = "done")

\* No server session lives for ever: neither a client that never writes nor one that
\* keeps its connection open holds it (ControlServer.cpp:207-221).
SessionsEnd == \A r \in Requests : (session[r] = "read") ~> (session[r] = "ended")

\* "Stop accepting connections" (ControlServer.cpp:329): after stop() the listener comes
\* to rest.
StopEndsAccepting == (listener = "closed") ~> (accept = "none")
=============================================================================
