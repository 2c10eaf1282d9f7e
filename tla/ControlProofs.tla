--------------------------- MODULE ControlProofs ----------------------------
(***************************************************************************)
(* Proofs about module ControlPath: types, the result callback, the        *)
(* execution of requests and the announcements of the producer, for any    *)
(* number of requests, signals and listeners that fail.                    *)
(*                                                                         *)
(* What makes the invariant inductive is the way of one request: it is on  *)
(* its connection only between the client's write and the server's read,   *)
(* and nothing is answered that was not executed.                          *)
(***************************************************************************)
EXTENDS ControlPath, SequenceTheorems, TLAPS

Logs ==
    /\ results \in [Requests -> Seq({"ok", "failed"})]
    /\ handled \in [Requests -> Seq({"ok", "bad"})]

\* A request waits on its connection until the server has read it, once.
WrittenOnce(r) ==
    /\ r \in sent => client[r] \in {"read", "done"} /\ handled[r] = <<>>
    /\ handled[r] # <<>> => client[r] \in {"read", "done"}
    /\ Len(handled[r]) <= 1

\* Answers follow executed requests.
AnsweredOnceHandled(r) ==
    session[r] = "write" \/ answer[r] # "none" => handled[r] # <<>>

\* A connection is closed with the call of the result callback; success with an open
\* one is that of a list without ids.
Reported(r) ==
    /\ Len(results[r]) = IF client[r] = "done" THEN 1 ELSE 0
    /\ r \in gone => client[r] = "done"
    /\ r \in gone /\ (\E i \in DOMAIN results[r] : results[r][i] = "ok") => handled[r] # <<>>

Exchange == \A r \in Requests : WrittenOnce(r) /\ AnsweredOnceHandled(r) /\ Reported(r)

ControlInv == ControlTypeOK /\ Logs /\ Exchange /\ AnnouncementsFollow
-----------------------------------------------------------------------------
\* The initial states: nobody has asked anything.
LEMMA ControlInitial == ControlInit => ControlInv
BY RegistryAssumption
   DEF ControlInit, RegistryInit, ControlInv, ControlTypeOK, Logs, Exchange, WrittenOnce,
       AnsweredOnceHandled, Reported, AnnouncementsFollow

\* A step that leaves the producer's registry alone keeps what is announced.
LEMMA RegistryKept ==
    ASSUME ControlInv, UNCHANGED registryVars
    PROVE  AnnouncementsFollow' /\ (allSignals \subseteq SignalIds)'
           /\ (subscribed \subseteq SignalIds)' /\ (announced \subseteq DataSignals)'
BY DEF ControlInv, ControlTypeOK, AnnouncementsFollow, registryVars


\* A step that calls no result callback and finishes no client.
LEMMA NothingReported ==
    ASSUME ControlInv, UNCHANGED <<results, gone>>,
           \A q \in Requests : client'[q] = "done" <=> client[q] = "done",
           \A q \in Requests : handled[q] # <<>> => handled'[q] # <<>>
    PROVE  \A q \in Requests : Reported(q)'
BY DEF ControlInv, Exchange, Reported

\* A step that calls the result callback of r, which was not finished: with a closed
\* connection success needs an executed request.
LEMMA ResultReported ==
    ASSUME ControlInv, NEW r \in Requests, client[r] # "done", NEW ec \in {"ok", "failed"},
           client' = [client EXCEPT ![r] = "done"],
           results' = [results EXCEPT ![r] = Append(@, ec)],
           UNCHANGED handled,
           \/ UNCHANGED gone
           \/ gone' = gone \cup {r} /\ (ec = "ok" => handled[r] # <<>>)
    PROVE  Logs' /\ \A q \in Requests : Reported(q)'
<1> USE DEF ControlInv
<1>1. results[r] \in Seq({"ok", "failed"})
  BY DEF Logs
<1>2. /\ Append(results[r], ec) \in Seq({"ok", "failed"})
      /\ Len(Append(results[r], ec)) = Len(results[r]) + 1
      /\ Append(results[r], ec)[Len(results[r]) + 1] = ec
  BY <1>1, AppendProperties
<1>3. Logs'
  BY <1>2 DEF Logs
<1>4. ASSUME NEW q \in Requests, q # r PROVE Reported(q)'
  <2>1. results'[q] = results[q] /\ client'[q] = client[q] /\ (q \in gone' => q \in gone)
    BY <1>4 DEF ControlTypeOK, Logs
  <2> QED BY <2>1 DEF Exchange, Reported
<1>5. Reported(r)'
  <2>1. r \notin gone /\ Len(results[r]) = 0
    BY DEF Exchange, Reported
  <2>2. results'[r] = Append(results[r], ec) /\ client'[r] = "done"
    BY DEF ControlTypeOK, Logs
  <2>3. DOMAIN results'[r] = {1} /\ results'[r][1] = ec
    BY <1>1, <1>2, <2>1, <2>2
  <2> QED BY <1>2, <2>1, <2>2, <2>3 DEF Reported
<1> QED BY <1>3, <1>4, <1>5

\* A client that has not written yet has nothing on its connection, and nothing answered.
LEMMA NotWritten ==
    ASSUME ControlInv, NEW r \in Requests, client[r] \notin {"read", "done"}
    PROVE  r \notin sent /\ handled[r] = <<>>
BY DEF ControlInv, Exchange, WrittenOnce

\* The steps of the client: each reports at most once.
LEMMA IssueKeeps ==
    ASSUME ControlInv, NEW r \in Requests, NEW command, NEW ids, NEW version, NEW known,
           Issue(r, command, ids, version, known)
    PROVE  ControlInv'
<1> USE DEF ControlInv, Issue, registryVars, serverVars
<1>1. ControlTypeOK' /\ AnnouncementsFollow'
  BY RegistryKept DEF ControlTypeOK, Execute, run
<1>2. ASSUME NEW q \in Requests PROVE (WrittenOnce(q) /\ AnsweredOnceHandled(q))'
  BY DEF Exchange, WrittenOnce, AnsweredOnceHandled, ControlTypeOK, Execute, run
<1>3. CASE client' = [client EXCEPT ![r] = "done"]
           /\ results' = [results EXCEPT ![r] = Append(@, "ok")]
  BY <1>1, <1>2, <1>3, ResultReported DEF Exchange
<1>4. CASE (\E step \in {"resolve", "refused"} : client' = [client EXCEPT ![r] = step])
           /\ UNCHANGED results
  <2>1. \A q \in Requests : Reported(q)'
    BY <1>4, NothingReported DEF ControlTypeOK
  <2> QED BY <1>1, <1>2, <1>4, <2>1 DEF Exchange, Logs
<1> QED BY <1>3, <1>4 DEF Execute, run

\* A request that cannot be composed reports at once.
LEMMA IssueMalformedKeeps ==
    ASSUME ControlInv, NEW r \in Requests, IssueMalformed(r)
    PROVE  ControlInv'
<1> USE DEF ControlInv, IssueMalformed, run, registryVars, serverVars
<1>1. ControlTypeOK' /\ AnnouncementsFollow' /\ Logs'
  BY RegistryKept DEF ControlTypeOK, Logs
<1>2. ASSUME NEW q \in Requests PROVE (WrittenOnce(q) /\ AnsweredOnceHandled(q))'
  BY DEF Exchange, WrittenOnce, AnsweredOnceHandled, ControlTypeOK
<1>3. \A q \in Requests : Reported(q)'
  BY NothingReported DEF ControlTypeOK
<1> QED BY <1>1, <1>2, <1>3 DEF Exchange

\* A failing step of the connection reports and ends it.
LEMMA FailsKeeps ==
    ASSUME ControlInv, NEW r \in Requests, Fails(r)
    PROVE  ControlInv'
<1> USE DEF ControlInv, Fails, Reports, registryVars, serverVars
<1>1. ControlTypeOK' /\ AnnouncementsFollow'
  BY RegistryKept DEF ControlTypeOK
<1>2. ASSUME NEW q \in Requests PROVE (WrittenOnce(q) /\ AnsweredOnceHandled(q))'
  BY DEF Exchange, WrittenOnce, AnsweredOnceHandled, ControlTypeOK
<1>3. Logs' /\ \A q \in Requests : Reported(q)'
  BY ResultReported
<1> QED BY <1>1, <1>2, <1>3 DEF Exchange

\* The answer of the server reports and ends the exchange.
LEMMA on_readKeeps ==
    ASSUME ControlInv, NEW r \in Requests, on_read(r)
    PROVE  ControlInv'
<1> USE DEF ControlInv, on_read, Reports, registryVars, serverVars
<1>1. ControlTypeOK' /\ AnnouncementsFollow'
  BY RegistryKept DEF ControlTypeOK
<1>2. ASSUME NEW q \in Requests PROVE (WrittenOnce(q) /\ AnsweredOnceHandled(q))'
  BY DEF Exchange, WrittenOnce, AnsweredOnceHandled, ControlTypeOK
<1>3. handled[r] # <<>>
  BY DEF Exchange, AnsweredOnceHandled
<1>4. Logs' /\ \A q \in Requests : Reported(q)'
  BY <1>3, ResultReported
<1> QED BY <1>1, <1>2, <1>4 DEF Exchange

\* The steps of the client that only go on.
LEMMA ClientGoesOnKeeps ==
    ASSUME ControlInv, NEW r \in Requests, on_resolve(r) \/ on_connect(r) \/ on_write(r)
    PROVE  ControlInv'
<1> USE DEF ControlInv, on_resolve, on_connect, on_write, registryVars, serverVars
<1>1. ControlTypeOK' /\ AnnouncementsFollow' /\ Logs'
  BY RegistryKept DEF ControlTypeOK, Logs
<1>2. ASSUME NEW q \in Requests PROVE WrittenOnce(q)'
  BY NotWritten DEF Exchange, WrittenOnce, ControlTypeOK
<1>3. ASSUME NEW q \in Requests PROVE AnsweredOnceHandled(q)'
  BY DEF Exchange, AnsweredOnceHandled
<1>4. \A q \in Requests : Reported(q)'
  BY NothingReported DEF ControlTypeOK
<1> QED BY <1>1, <1>2, <1>3, <1>4 DEF Exchange

\* The listener touches no request; a session that begins or ends answers nothing.
LEMMA ListenerKeeps ==
    ASSUME ControlInv,
           start \/ stop \/ AcceptCompletes \/ on_accept \/ \E r \in Requests : SessionEnds(r)
    PROVE  ControlInv'
<1> USE DEF ControlInv, start, stop, AcceptCompletes, on_accept, SessionEnds, registryVars,
            clientVars
<1>1. ControlTypeOK' /\ AnnouncementsFollow' /\ Logs'
  BY RegistryKept DEF ControlTypeOK, Logs
<1>2. ASSUME NEW q \in Requests PROVE WrittenOnce(q)'
  BY DEF Exchange, WrittenOnce
<1>3. ASSUME NEW q \in Requests PROVE AnsweredOnceHandled(q)'
  BY DEF Exchange, AnsweredOnceHandled, ControlTypeOK
<1>4. \A q \in Requests : Reported(q)'
  BY NothingReported
<1> QED BY <1>1, <1>2, <1>3, <1>4 DEF Exchange

\* The server executes a request: it leaves the connection and was not executed before.
LEMMA handle_requestKeeps ==
    ASSUME ControlInv, NEW r \in Requests, handle_request(r)
    PROVE  ControlInv'
<1> USE DEF ControlInv
<1>1. PICK outcome \in {"ok", "bad"} : handled' = [handled EXCEPT ![r] = Append(@, outcome)]
  BY DEF handle_request
<1>2. /\ session' = [session EXCEPT ![r] = "write"] /\ sent' = sent \ {r} /\ r \in sent
      /\ UNCHANGED <<client, asked, results, gone, listener, accept, answer, backlog>>
  BY DEF handle_request, clientVars
<1>3. handled[r] = <<>> /\ client[r] \in {"read", "done"}
  BY <1>2 DEF Exchange, WrittenOnce
<1>4. /\ handled[r] \in Seq({"ok", "bad"})
      /\ Append(handled[r], outcome) \in Seq({"ok", "bad"})
      /\ Append(handled[r], outcome) # <<>>
      /\ Len(Append(handled[r], outcome)) = 1
  <2>1. handled[r] \in Seq({"ok", "bad"})
    BY DEF Logs
  <2> QED BY <1>3, <2>1, AppendProperties
<1>5. handled'[r] = Append(handled[r], outcome)
      /\ \A q \in Requests \ {r} : handled'[q] = handled[q]
  BY <1>1 DEF Logs
<1>6. ControlTypeOK' /\ AnnouncementsFollow'
  <2>1. UNCHANGED <<allSignals, announced>> /\ subscribed' \subseteq SignalIds
    BY DEF handle_request, Command, subscribeSignals, unsubscribeSignals, registryVars,
           ControlTypeOK
  <2> QED BY <1>2, <2>1 DEF ControlTypeOK, AnnouncementsFollow
<1>7. Logs'
  BY <1>1, <1>2, <1>4 DEF Logs
<1>8. ASSUME NEW q \in Requests PROVE (WrittenOnce(q) /\ AnsweredOnceHandled(q))'
  <2>1. CASE q = r
    <3>1. q \notin sent' /\ client'[q] \in {"read", "done"}
      BY <1>2, <1>3, <2>1
    <3>2. handled'[q] # <<>> /\ Len(handled'[q]) = 1
      BY <1>4, <1>5, <2>1
    <3> QED BY <3>1, <3>2 DEF WrittenOnce, AnsweredOnceHandled
  <2>2. CASE q # r
    <3>1. handled'[q] = handled[q] /\ session'[q] = session[q] /\ (q \in sent' <=> q \in sent)
      BY <1>2, <1>5, <2>2 DEF ControlTypeOK
    <3> QED BY <1>2, <3>1 DEF Exchange, WrittenOnce, AnsweredOnceHandled
  <2> QED BY <2>1, <2>2
<1>9. \A q \in Requests : Reported(q)'
  BY <1>2, <1>4, <1>5, NothingReported
<1> QED BY <1>6, <1>7, <1>8, <1>9 DEF Exchange

\* The answer is that of the request executed last.
LEMMA SessionWritesKeeps ==
    ASSUME ControlInv, NEW r \in Requests, SessionWrites(r)
    PROVE  ControlInv'
<1> USE DEF ControlInv, registryVars, clientVars
<1>1. handled[r] # <<>> /\ handled[r] \in Seq({"ok", "bad"})
  BY DEF SessionWrites, Exchange, AnsweredOnceHandled, Logs
<1>2. handled[r][Len(handled[r])] \in {"ok", "bad"}
  BY <1>1
<1>3. ControlTypeOK' /\ AnnouncementsFollow' /\ Logs'
  BY <1>2, RegistryKept DEF SessionWrites, ControlTypeOK, Logs
<1>4. ASSUME NEW q \in Requests PROVE WrittenOnce(q)'
  BY DEF SessionWrites, Exchange, WrittenOnce
<1>5. ASSUME NEW q \in Requests PROVE AnsweredOnceHandled(q)'
  <2>1. handled' = handled
    BY DEF SessionWrites
  <2>2. q # r => session'[q] = session[q] /\ answer'[q] = answer[q]
    BY DEF SessionWrites, ControlTypeOK
  <2> QED BY <1>1, <2>1, <2>2 DEF Exchange, AnsweredOnceHandled
<1>6. \A q \in Requests : Reported(q)'
  BY NothingReported DEF SessionWrites
<1> QED BY <1>3, <1>4, <1>5, <1>6 DEF Exchange

\* Signals come and go and are announced.
LEMMA RegistryKeeps ==
    ASSUME ControlInv, Registry
    PROVE  ControlInv'
<1> USE DEF ControlInv, Registry, addSignals, removeSignals, clientVars, serverVars
<1>1. ControlTypeOK' /\ AnnouncementsFollow' /\ Logs'
  BY ControlAssumption, RegistryAssumption DEF ControlTypeOK, AnnouncementsFollow, Logs
<1>2. Exchange'
  BY DEF Exchange, WrittenOnce, AnsweredOnceHandled, Reported
<1> QED BY <1>1, <1>2

\* The invariant is inductive.
LEMMA ControlInductive == ControlSpec => []ControlInv
<1>1. ControlInv /\ [ControlNext]_controlVars => ControlInv'
  <2> SUFFICES ASSUME ControlInv, [ControlNext]_controlVars PROVE ControlInv'
    OBVIOUS
  <2>1. CASE UNCHANGED controlVars
    BY <2>1 DEF controlVars, registryVars, clientVars, serverVars, ControlInv, ControlTypeOK,
                Logs, Exchange, WrittenOnce, AnsweredOnceHandled, Reported, AnnouncementsFollow
  <2>2. CASE ControlNext
    BY <2>2, IssueKeeps, IssueMalformedKeeps, FailsKeeps, ClientGoesOnKeeps, on_readKeeps,
       ListenerKeeps, handle_requestKeeps, SessionWritesKeeps, RegistryKeeps
       DEF ControlNext, ClientStep, SessionStep
  <2> QED BY <2>1, <2>2
<1> QED BY <1>1, ControlInitial, PTL DEF ControlSpec

-----------------------------------------------------------------------------
\* Every variable of the control path keeps its type, for any set of requests and
\* signals (HttpPost.cpp, ControlServer.cpp, ProducerSession.cpp).
THEOREM ControlTypes == ControlSpec => []ControlTypeOK
BY ControlInductive, PTL DEF ControlInv

\* Every request's result callback is called once at most, and exactly once when its
\* HttpPost is finished (HttpPost.cpp:85-169).
THEOREM ResultCalledOnce == ControlSpec => []ResultOnce
<1>1. ControlInv => ResultOnce
  BY DEF ControlInv, Exchange, Reported, ResultOnce
<1> QED BY <1>1, ControlInductive, PTL

\* Whoever is told of success over a connection had the server execute or refuse the
\* request, whatever was lost, delayed or timed out (HttpPost.cpp:141-169,
\* ControlServer.cpp:55-139).
THEOREM SuccessMeansAnswered == ControlSpec => []OkMeansAnswered
<1>1. ControlInv => OkMeansAnswered
  BY DEF ControlInv, Exchange, Reported, OkMeansAnswered
<1> QED BY <1>1, ControlInductive, PTL

\* No request is executed twice (ControlServer.cpp:207-263).
THEOREM RequestHandledOnce == ControlSpec => []HandledOnce
<1>1. ControlInv => HandledOnce
  BY DEF ControlInv, Exchange, WrittenOnce, HandledOnce
<1> QED BY <1>1, ControlInductive, PTL

\* The announcements written add up to the data signals of the registry
\* (ProducerSession.cpp:27-36, :135-176).
THEOREM AnnouncedIsAvailable == ControlSpec => []AnnouncementsFollow
BY ControlInductive, PTL DEF ControlInv
=============================================================================
