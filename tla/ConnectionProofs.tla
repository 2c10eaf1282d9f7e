-------------------------- MODULE ConnectionProofs --------------------------
(***************************************************************************)
(* Proofs about the two ends of a connection, for any number of sessions,  *)
(* end points and signals, any width of a signal number and any number of  *)
(* calls of stop(): the producer's server (module Server) and the          *)
(* consumer's session (module ConsumerSession).  The two modules share no  *)
(* state.                                                                  *)
(***************************************************************************)
EXTENDS Server, ConsumerSession, SequenceTheorems, TLAPS

(***************************************************************************)
(* Server: types, the registry that names exactly the sessions in use, and *)
(* signal numbers that do not repeat.                                      *)
(*                                                                         *)
(* RegistryExact is inductive only with OneReader: removeSessionCb()       *)
(* erases whatever stands under the end point, so it must not be another   *)
(* session's entry.  For the numbers, the whole list has to be given as a  *)
(* function of the counter.                                                *)
(***************************************************************************)
SessionStates ==
    [life : {"new", "started"}, endpoint : Endpoints \cup {None}, reading : BOOLEAN,
     received : BOOLEAN, closing : {"no", "pending", "done"}, stream : {"up", "down"},
     errors : 0 .. 1]

\* A session that has not been created does nothing; one that reads has an end point and
\* has not reported an error.
Lives ==
    \A s \in Sessions :
        /\ session[s].life = "new" => /\ ~session[s].reading /\ session[s].closing = "no"
                                      /\ session[s].errors = 0
        /\ session[s].reading => session[s].errors = 0 /\ session[s].endpoint \in Endpoints

\* No two sessions read from the same end point, also while one of them is being closed.
OneReader ==
    \A s, t \in Sessions :
        session[s].reading /\ session[t].reading /\ session[s].endpoint = session[t].endpoint
        => s = t

\* The signal number given i signals ago.
NumberAt(i) ==
    IF Masked(counter) - (i - 1) >= 1 THEN Masked(counter) - (i - 1)
                                      ELSE (Masked(counter) - (i - 1)) + NumberMask

NumbersInTurn ==
    /\ Len(numbers) <= NumberMask
    /\ numbers # <<>> => Masked(counter) >= 1
    /\ \A i \in DOMAIN numbers : numbers[i] = NumberAt(i)

ServerInv == ServerTypeOK /\ Lives /\ OneReader /\ RegistryExact /\ NumbersInTurn

-----------------------------------------------------------------------------
\* Remainders are unique.
LEMMA ModuloUnique ==
    ASSUME NEW m \in Nat \ {0}, NEW a \in Nat, NEW q \in Nat, NEW r \in 0 .. m - 1,
           a = (m * q) + r
    PROVE  a % m = r
  OBVIOUS

\* Counting up by one under a modulus.
LEMMA ModuloSuccessor ==
    ASSUME NEW a \in Nat, NEW m \in Nat \ {0}
    PROVE  (a + 1) % m = IF a % m = m - 1 THEN 0 ELSE (a % m) + 1
<1> DEFINE q == a \div m
           r == a % m
<1>1. q \in Nat /\ r \in 0 .. m - 1 /\ (m * q) + r = a
  OBVIOUS
<1> HIDE DEF q
<1>2. CASE r = m - 1
  <2>1. a + 1 = (m * (q + 1)) + 0 /\ a + 1 \in Nat /\ q + 1 \in Nat /\ 0 \in 0 .. m - 1
    BY <1>1, <1>2
  <2>2. (a + 1) % m = 0
    BY ONLY <2>1, ModuloUnique, m \in Nat \ {0}
  <2> QED BY <1>2, <2>2
<1>3. CASE r # m - 1
  <2>1. a + 1 = (m * q) + (r + 1) /\ a + 1 \in Nat /\ q \in Nat /\ r + 1 \in 0 .. m - 1
    BY <1>1, <1>3
  <2> HIDE DEF r
  <2>2. (a + 1) % m = r + 1
    BY ONLY <2>1, ModuloUnique, m \in Nat \ {0}
  <2> QED BY <1>3, <2>2 DEF r
<1> QED BY <1>2, <1>3

\* A number below its modulus.
LEMMA ModuloSmall ==
    ASSUME NEW m \in Nat \ {0}, NEW a \in 0 .. m - 1
    PROVE  a % m = a
  OBVIOUS

\* nextSignalNumber() gives the numbers 1 .. NumberMask in turn, also when its counter
\* wraps: the wrap of the counter is a wrap of the masked number.
LEMMA NextNumber ==
    ASSUME counter \in 0 .. CounterLimit - 1
    PROVE  /\ NextCounter \in 0 .. CounterLimit - 1
           /\ Masked(counter) \in 0 .. NumberMask
           /\ Masked(NextCounter) = IF Masked(counter) = NumberMask THEN 1 ELSE Masked(counter) + 1
<1> DEFINE m == NumberMask + 1
<1>1. /\ NumberMask \in Nat \ {0} /\ CounterLimit \in Nat \ {0} /\ CounterLimit > NumberMask
      /\ CounterLimit % m = 0 /\ m \in Nat \ {0} /\ counter \in Nat
  BY ServerAssumption
<1>2. /\ Successor(counter) \in 0 .. CounterLimit - 1
      /\ Successor(Successor(counter)) \in 0 .. CounterLimit - 1
  BY <1>1 DEF Successor
<1>3. Masked(Successor(counter)) = IF Masked(counter) = NumberMask THEN 0 ELSE Masked(counter) + 1
  <2>1. CASE counter + 1 < CounterLimit
    <3>1. Successor(counter) = counter + 1
      BY <1>1, <2>1, ModuloSmall DEF Successor
    <3>2. (counter + 1) % m = IF counter % m = m - 1 THEN 0 ELSE (counter % m) + 1
      BY <1>1, ModuloSuccessor
    <3> QED BY <1>1, <3>1, <3>2 DEF Masked
  <2>2. CASE counter + 1 = CounterLimit
    <3>1. Successor(counter) = 0 /\ 0 % m = 0
      BY <1>1, <2>2, ModuloSmall DEF Successor
    <3>2. (counter + 1) % m = IF counter % m = m - 1 THEN 0 ELSE (counter % m) + 1
      BY <1>1, ModuloSuccessor
    <3>3. counter % m \in 0 .. m - 1
      BY <1>1
    <3> QED BY <1>1, <2>2, <3>1, <3>2, <3>3 DEF Masked
  <2> QED BY <1>1, <2>1, <2>2
<1>4. Masked(counter) \in 0 .. NumberMask
  BY <1>1 DEF Masked
<1>5. CASE Masked(Successor(counter)) = 0
  <2>1. Masked(counter) = NumberMask
    BY <1>1, <1>3, <1>4, <1>5
  <2>2. Masked(Successor(Successor(counter))) = 1
    <3> DEFINE n == Successor(counter)
    <3>1. n \in Nat /\ n + 1 <= CounterLimit /\ m > 1 /\ n % m = 0
      BY <1>1, <1>2, <1>5 DEF Masked
    <3> HIDE DEF n
    <3>2. (n + 1) % m = 1
      <4>1. (n + 1) % m = IF n % m = m - 1 THEN 0 ELSE (n % m) + 1
        BY <1>1, <3>1, ModuloSuccessor
      <4> QED BY <1>1, <3>1, <4>1
    <3>3. n + 1 # CounterLimit
      BY <1>1, <3>2
    <3>4. Successor(n) = n + 1
      BY <1>1, <3>1, <3>3, ModuloSmall DEF Successor
    <3> QED BY <3>2, <3>4 DEF Masked, n
  <2> QED BY <1>2, <1>4, <1>5, <2>1, <2>2 DEF NextCounter
<1>6. CASE Masked(Successor(counter)) # 0
  BY <1>1, <1>2, <1>3, <1>4, <1>6 DEF NextCounter
<1> QED BY <1>5, <1>6
\* A new signal takes the next number and the oldest one is forgotten.
LEMMA CreateSignalKeeps ==
    ASSUME ServerInv, CreateSignal
    PROVE  ServerInv'
<1> USE DEF ServerInv
<1> DEFINE x   == Masked(NextCounter)
           all == <<x>> \o numbers
           n   == IF Len(numbers) = NumberMask THEN NumberMask ELSE Len(numbers) + 1
<1>1. /\ NumberMask \in Nat \ {0} /\ NextCounter \in 0 .. CounterLimit - 1
      /\ Masked(counter) \in 0 .. NumberMask
      /\ x = IF Masked(counter) = NumberMask THEN 1 ELSE Masked(counter) + 1
  BY NextNumber, ServerAssumption DEF ServerTypeOK
<1>2. counter' = NextCounter /\ numbers' = SubSeq(all, 1, n)
      /\ UNCHANGED <<listening, registry, session>> /\ Masked(counter)' = x
  BY DEF CreateSignal, Masked
<1> HIDE DEF x
<1>3. x \in 0 .. NumberMask /\ x >= 1
  BY <1>1
<1>4. numbers \in Seq(0 .. NumberMask) /\ Len(numbers) \in Nat /\ Len(numbers) <= NumberMask
  BY DEF ServerTypeOK, NumbersInTurn
<1>5. /\ all \in Seq(0 .. NumberMask) /\ Len(all) = Len(numbers) + 1
      /\ all[1] = x /\ \A i \in 2 .. Len(numbers) + 1 : all[i] = numbers[i - 1]
  <2>1. <<x>> \in Seq(0 .. NumberMask) /\ Len(<<x>>) = 1 /\ <<x>>[1] = x
    BY <1>3
  <2> QED BY <1>4, <2>1, ConcatProperties
<1> HIDE DEF all
<1>6. n \in Nat /\ 1 <= n /\ n <= Len(numbers) + 1 /\ n <= NumberMask
  BY <1>1, <1>4, <1>5
<1> HIDE DEF n
<1>7. /\ numbers' \in Seq(0 .. NumberMask) /\ Len(numbers') = n /\ DOMAIN numbers' = 1 .. n
      /\ \A i \in 1 .. n : numbers'[i] = all[i]
  <2>1. \A i \in 1 .. n : all[i] \in 0 .. NumberMask
    <3>1. \A i \in 1 .. Len(all) : all[i] \in 0 .. NumberMask
      BY <1>5, ElementOfSeq
    <3> QED BY <1>4, <1>5, <1>6, <3>1
  <2>2. n \in Int /\ 1 <= n
    BY <1>4, <1>5, <1>6
  <2>3. /\ SubSeq(all, 1, n) \in Seq(0 .. NumberMask)
        /\ Len(SubSeq(all, 1, n)) = n
        /\ \A i \in 1 .. n : SubSeq(all, 1, n)[i] = all[i]
    BY <2>1, <2>2, SubSeqProperties
  <2> QED BY <1>2, <2>2, <2>3
<1>8. ServerTypeOK'
  BY <1>1, <1>2, <1>7 DEF ServerTypeOK
<1>9. NumbersInTurn'
  <2>1. \A i \in 1 .. Len(numbers) : numbers[i] = NumberAt(i) /\ Masked(counter) >= 1
    BY <1>4 DEF NumbersInTurn
  <2>2. ASSUME NEW i \in 1 .. n PROVE numbers'[i] = NumberAt(i)'
    <3>1. CASE i = 1
      BY <1>1, <1>2, <1>3, <1>5, <1>7, <3>1 DEF NumberAt
    <3>2. CASE i # 1
      <4>1. i \in 2 .. Len(numbers) + 1 /\ i - 1 \in 1 .. Len(numbers) /\ i - 1 <= NumberMask
        BY <1>1, <1>4, <1>6, <3>2
      <4>2. numbers'[i] = numbers[i - 1]
        BY <1>5, <1>7, <4>1
      <4>3. numbers[i - 1] = NumberAt(i - 1) /\ Masked(counter) >= 1
        BY <2>1, <4>1
      <4>4. NumberAt(i)' = IF x - (i - 1) >= 1 THEN x - (i - 1) ELSE (x - (i - 1)) + NumberMask
        BY <1>2 DEF NumberAt
      <4>5. i \in Nat /\ i >= 2 /\ i - 1 <= NumberMask
        BY <1>4, <4>1
      <4>6. NumberAt(i - 1) = IF Masked(counter) - (i - 2) >= 1 THEN Masked(counter) - (i - 2)
                              ELSE (Masked(counter) - (i - 2)) + NumberMask
        BY <1>1, <4>5 DEF NumberAt
      <4> QED BY <1>1, <4>2, <4>3, <4>4, <4>5, <4>6
    <3> QED BY <3>1, <3>2
  <2> QED BY <1>2, <1>3, <1>6, <1>7, <2>2 DEF NumbersInTurn
<1>10. Lives' /\ OneReader' /\ RegistryExact'
  BY <1>2 DEF Lives, OneReader, RegistryExact
<1> QED BY <1>8, <1>9, <1>10
-----------------------------------------------------------------------------
\* Steps that create no signal leave the numbers alone.
LEMMA NumbersKept ==
    ASSUME ServerInv, UNCHANGED <<counter, numbers>>
    PROVE  NumbersInTurn'
BY DEF ServerInv, NumbersInTurn, NumberAt

\* An operation of one session leaves the others alone.
LEMMA OthersKept ==
    ASSUME ServerInv, NEW s \in Sessions, NEW change, Set(s, change)
    PROVE  \A t \in Sessions \ {s} : session'[t] = session[t]
BY DEF ServerInv, ServerTypeOK, Set

\* Listening registers nothing.
LEMMA ServerStartKeeps ==
    ASSUME ServerInv, Start
    PROVE  ServerInv'
BY NumbersKept DEF Start, ServerInv, ServerTypeOK, Lives, OneReader, RegistryExact

\* An accepted session reads and is registered.
LEMMA CreateSessionKeeps ==
    ASSUME ServerInv, NEW s \in Sessions, NEW e \in Endpoints, CreateSession(s, e)
    PROVE  ServerInv'
<1> USE DEF ServerInv
<1>1. /\ session[s].life = "new"
      /\ \A t \in Sessions : session[t].endpoint = e => ~session[t].reading
      /\ registry' = [registry EXCEPT ![e] = s]
      /\ Set(s, [life |-> "started", endpoint |-> e, reading |-> TRUE])
      /\ UNCHANGED <<listening, counter, numbers>>
  BY DEF CreateSession
<1>2. ~session[s].reading /\ session[s].closing = "no" /\ session[s].errors = 0
  BY <1>1 DEF Lives
<1>3. /\ session'[s].life = "started" /\ session'[s].endpoint = e /\ session'[s].reading = TRUE
      /\ session'[s].closing = "no" /\ session'[s].errors = 0
      /\ \A t \in Sessions \ {s} : session'[t] = session[t]
  BY <1>1, <1>2, OthersKept DEF Set, ServerTypeOK
<1>4. ServerTypeOK'
  BY <1>1, ZenonT(60) DEF Set, ServerTypeOK
<1>5. Lives'
  BY <1>3 DEF Lives
<1>6. OneReader'
  BY <1>1, <1>3 DEF OneReader
<1>7. RegistryExact'
  <2> SUFFICES ASSUME NEW d \in Endpoints, NEW t \in Sessions
               PROVE  registry'[d] = t <=> /\ session'[t].endpoint = d
                                           /\ session'[t].reading /\ session'[t].closing = "no"
    BY DEF RegistryExact
  <2>1. CASE t = s
    BY <1>1, <1>2, <1>3, <2>1 DEF RegistryExact, ServerTypeOK
  <2>2. CASE t # s
    BY <1>1, <1>3, <2>2 DEF RegistryExact, ServerTypeOK
  <2> QED BY <2>1, <2>2
<1> QED BY <1>1, <1>4, <1>5, <1>6, <1>7, NumbersKept

\* stop() reaches every session that reads, and empties the registry.
LEMMA StopKeeps ==
    ASSUME ServerInv, Stop
    PROVE  ServerInv'
<1> USE DEF ServerInv
<1>1. /\ listening' = FALSE /\ registry' = [e \in Endpoints |-> None]
      /\ UNCHANGED <<counter, numbers>>
  BY DEF Stop
<1>2. ASSUME NEW s \in Sessions
      PROVE  /\ session'[s] = session[s] \/ session'[s] = [session[s] EXCEPT !.closing = "pending"]
             /\ session[s].reading => session'[s].closing # "no"
             /\ session'[s] # session[s] => Alive(s)
  <2>1. session'[s] = IF Alive(s) /\ registry[session[s].endpoint] = s
                      THEN [session[s] EXCEPT !.closing = "pending"] ELSE session[s]
    BY DEF Stop
  <2>2. CASE session[s].reading /\ session[s].closing = "no"
    <3>1. Alive(s) /\ registry[session[s].endpoint] = s
      BY <2>2 DEF Alive, Lives, RegistryExact
    <3> QED BY <2>1, <3>1 DEF ServerTypeOK
  <2>3. CASE ~(session[s].reading /\ session[s].closing = "no")
    BY <2>1, <2>3 DEF ServerTypeOK
  <2> QED BY <2>2, <2>3
<1>3. ASSUME NEW s \in Sessions
      PROVE  /\ session'[s].endpoint = session[s].endpoint /\ session'[s].life = session[s].life
             /\ session'[s].reading = session[s].reading /\ session'[s].errors = session[s].errors
             /\ session[s].life = "new" => session'[s].closing = session[s].closing
             /\ session'[s] \in SessionStates
  <2>1. session[s] \in SessionStates
    BY DEF ServerTypeOK, SessionStates
  <2>2. CASE session'[s] = session[s]
    BY <2>1, <2>2
  <2>3. CASE session'[s] # session[s]
    <3>1. session'[s] = [session[s] EXCEPT !.closing = "pending"] /\ session[s].life # "new"
      BY <1>2, <2>3 DEF Alive, Lives
    <3> QED BY <2>1, <3>1 DEF SessionStates
  <2> QED BY <2>2, <2>3
<1>4. ServerTypeOK'
  <2>1. session' \in [Sessions -> SessionStates]
    BY <1>3 DEF Stop
  <2> QED BY <1>1, <2>1 DEF ServerTypeOK, SessionStates
<1>5. Lives' /\ OneReader'
  BY <1>3 DEF Lives, OneReader
<1>6. RegistryExact'
  <2>1. \A e \in Endpoints, s \in Sessions : registry'[e] # s
    BY <1>1, ServerAssumption
  <2>2. \A s \in Sessions : ~(session'[s].reading /\ session'[s].closing = "no")
    BY <1>2, <1>3
  <2> QED BY <2>1, <2>2 DEF RegistryExact
<1> QED BY <1>1, <1>4, <1>5, <1>6, NumbersKept

\* Packets, data read and a client that leaves change nothing the registry is about.
LEMMA ClientKeeps ==
    ASSUME ServerInv, NEW s \in Sessions, ClientSends(s) \/ ClientLeaves(s) \/ OnReadData(s)
    PROVE  ServerInv'
<1> USE DEF ServerInv
<1>1. UNCHANGED <<listening, registry, counter, numbers>>
  BY DEF ClientSends, ClientLeaves, OnReadData
<1>2. ASSUME NEW t \in Sessions
      PROVE  /\ session'[t].endpoint = session[t].endpoint /\ session'[t].life = session[t].life
             /\ session'[t].reading = session[t].reading /\ session'[t].errors = session[t].errors
             /\ session'[t].closing = session[t].closing
  BY DEF ClientSends, ClientLeaves, OnReadData, Set, ServerTypeOK
<1>3. ServerTypeOK'
  <2>1. session' \in [Sessions -> SessionStates]
    <3>1. CASE ClientSends(s)
      BY <3>1, ZenonT(60) DEF ClientSends, Set, ServerTypeOK, SessionStates
    <3>2. CASE ClientLeaves(s)
      BY <3>2 DEF ClientLeaves, Set, ServerTypeOK, SessionStates
    <3>3. CASE OnReadData(s)
      BY <3>3, ZenonT(60) DEF OnReadData, Set, ServerTypeOK, SessionStates
    <3> QED BY <3>1, <3>2, <3>3
  <2> QED BY <1>1, <2>1 DEF ServerTypeOK, SessionStates
<1>4. Lives' /\ OneReader' /\ RegistryExact'
  BY <1>1, <1>2 DEF Lives, OneReader, RegistryExact
<1> QED BY <1>1, <1>3, <1>4, NumbersKept

\* A failed read ends the session and erases its own entry, if it still has one.
LEMMA OnReadErrorKeeps ==
    ASSUME ServerInv, NEW s \in Sessions, OnReadError(s)
    PROVE  ServerInv'
<1> USE DEF ServerInv
<1>1. /\ session[s].reading
      /\ Set(s, [reading |-> FALSE, errors |-> session[s].errors + 1])
      /\ registry' = [registry EXCEPT ![session[s].endpoint] = None]
      /\ UNCHANGED <<listening, counter, numbers>>
  BY DEF OnReadError, RemoveSessionCb
<1>2. session[s].errors = 0 /\ session[s].endpoint \in Endpoints /\ session[s].life # "new"
  BY <1>1 DEF Lives
<1>3. /\ session'[s].reading = FALSE /\ session'[s].life = session[s].life
      /\ \A t \in Sessions \ {s} : session'[t] = session[t]
  BY <1>1, OthersKept DEF Set, ServerTypeOK
<1>4. ServerTypeOK'
  <2>1. session[s].errors + 1 \in 0 .. 1
    BY <1>2
  <2>2. session' \in [Sessions -> SessionStates]
    BY <1>1, <2>1, ZenonT(60) DEF Set, ServerTypeOK, SessionStates
  <2> QED BY <1>1, <2>2 DEF ServerTypeOK, SessionStates
<1>5. Lives' /\ OneReader'
  BY <1>2, <1>3 DEF Lives, OneReader
<1>6. RegistryExact'
  <2> SUFFICES ASSUME NEW d \in Endpoints, NEW t \in Sessions
               PROVE  registry'[d] = t <=> /\ session'[t].endpoint = d
                                           /\ session'[t].reading /\ session'[t].closing = "no"
    BY DEF RegistryExact
  <2>1. CASE t = s
    <3>1. registry'[d] # s
      BY <1>1, <1>2, ServerAssumption DEF RegistryExact, ServerTypeOK
    <3> QED BY <1>3, <2>1, <3>1
  <2>2. CASE t # s
    <3>1. session'[t] = session[t]
      BY <1>3, <2>2
    <3>2. CASE d = session[s].endpoint
      <4>1. registry'[d] = None
        BY <1>1, <3>2 DEF ServerTypeOK
      <4>2. ~(session[t].endpoint = d /\ session[t].reading)
        BY <1>1, <2>2, <3>2 DEF OneReader
      <4> QED BY <3>1, <4>1, <4>2, ServerAssumption
    <3>3. CASE d # session[s].endpoint
      BY <1>1, <3>1, <3>3 DEF RegistryExact, ServerTypeOK
    <3> QED BY <3>2, <3>3
  <2> QED BY <2>1, <2>2
<1> QED BY <1>1, <1>4, <1>5, <1>6, NumbersKept

\* A closed session is gone.
LEMMA OnCloseKeeps ==
    ASSUME ServerInv, NEW s \in Sessions, OnClose(s)
    PROVE  ServerInv'
<1> USE DEF ServerInv
<1>1. /\ session[s].closing = "pending"
      /\ Set(s, [closing |-> "done", stream |-> "down"])
      /\ UNCHANGED <<listening, registry, counter, numbers>>
  BY DEF OnClose
<1>2. /\ session'[s].endpoint = session[s].endpoint /\ session'[s].life = session[s].life
      /\ session'[s].reading = session[s].reading /\ session'[s].errors = session[s].errors
      /\ session'[s].closing = "done" /\ session[s].life # "new"
      /\ \A t \in Sessions \ {s} : session'[t] = session[t]
  BY <1>1, OthersKept DEF Set, ServerTypeOK, Lives
<1>3. ServerTypeOK'
  BY <1>1, ZenonT(60) DEF Set, ServerTypeOK
<1>4. Lives' /\ OneReader'
  BY <1>2 DEF Lives, OneReader
<1>5. RegistryExact'
  BY <1>1, <1>2 DEF RegistryExact
<1> QED BY <1>1, <1>3, <1>4, <1>5, NumbersKept

-----------------------------------------------------------------------------
\* A server that has not been started.
LEMMA ServerInitial == ServerInit => ServerInv
<1> SUFFICES ASSUME ServerInit PROVE ServerInv
  OBVIOUS
<1>1. NumberMask \in Nat /\ CounterLimit \in Nat /\ CounterLimit > 0 /\ numbers = <<>>
      /\ Len(numbers) = 0 /\ DOMAIN numbers = {}
  BY ServerAssumption DEF ServerInit
<1>2. ServerTypeOK
  <2>1. NotCreated \in SessionStates
    BY DEF NotCreated, SessionStates
  <2>2. session \in [Sessions -> SessionStates] /\ numbers \in Seq(0 .. NumberMask)
    BY <1>1, <2>1 DEF ServerInit
  <2>3. counter \in 0 .. CounterLimit - 1
    BY <1>1 DEF ServerInit
  <2>4. listening \in BOOLEAN /\ registry \in [Endpoints -> Sessions \cup {None}]
    BY DEF ServerInit
  <2> QED BY <2>2, <2>3, <2>4 DEF ServerTypeOK, SessionStates
<1>3. Lives /\ OneReader /\ NumbersInTurn
  BY <1>1 DEF ServerInit, NotCreated, Lives, OneReader, NumbersInTurn
<1>4. RegistryExact
  BY ServerAssumption DEF ServerInit, NotCreated, RegistryExact
<1> QED BY <1>2, <1>3, <1>4 DEF ServerInv

\* The invariant is inductive.
LEMMA ServerInductive == ServerSpec => []ServerInv
<1>1. ServerInv /\ [ServerNext]_serverVars => ServerInv'
  <2> SUFFICES ASSUME ServerInv, [ServerNext]_serverVars PROVE ServerInv'
    OBVIOUS
  <2>1. CASE UNCHANGED serverVars
    BY <2>1, NumbersKept DEF serverVars, ServerInv, ServerTypeOK, Lives, OneReader, RegistryExact
  <2>2. CASE ServerNext
    BY <2>2, ServerStartKeeps, StopKeeps, CreateSessionKeeps, ClientKeeps, OnReadErrorKeeps,
       OnCloseKeeps, CreateSignalKeeps DEF ServerNext
  <2> QED BY <2>1, <2>2
<1> QED BY <1>1, ServerInitial, PTL DEF ServerSpec

\* Every variable of the server keeps its type; no session reports a second error
\* (Server.cpp, ProducerSession.cpp, BaseSignal.cpp).
THEOREM ServerTypes == ServerSpec => []ServerTypeOK
BY ServerInductive, PTL DEF ServerInv

\* The registry names the sessions that read and have not been told to stop, each under
\* its own end point, whatever order clients, stop(), reads and closes come in
\* (Server.cpp:46-85, :113-116, ProducerSession.cpp:104-121).
THEOREM RegistryIsExact == ServerSpec => []RegistryExact
BY ServerInductive, PTL DEF ServerInv

\* The last NumberMask signal numbers differ and none is 0, for every width of the number
\* and every counter that is a multiple of it wide (BaseSignal.cpp:67-76).
THEOREM SignalNumbersDistinct == ServerSpec => []NumbersDistinct
<1>1. ServerInv => NumbersDistinct
  <2> SUFFICES ASSUME ServerInv, NEW i \in DOMAIN numbers, NEW j \in DOMAIN numbers
               PROVE  numbers[i] # 0 /\ (i # j => numbers[i] # numbers[j])
    BY DEF NumbersDistinct
  <2>1. /\ NumberMask \in Nat /\ Masked(counter) \in 0 .. NumberMask /\ Masked(counter) >= 1
        /\ i \in Nat /\ j \in Nat /\ i >= 1 /\ j >= 1 /\ i <= NumberMask /\ j <= NumberMask
    BY ServerAssumption, NextNumber, SMTT(30) DEF ServerInv, ServerTypeOK, NumbersInTurn
  <2>2. numbers[i] = NumberAt(i) /\ numbers[j] = NumberAt(j)
    BY DEF ServerInv, NumbersInTurn
  <2> QED BY <2>1, <2>2 DEF NumberAt
<1> QED BY <1>1, ServerInductive, PTL

-----------------------------------------------------------------------------
(***************************************************************************)
(* ConsumerSession: types, the session that always has something to wait   *)
(* for, and the stream that is never used after onClose() has destroyed    *)
(* it.                                                                     *)
(*                                                                         *)
(* ProtocolHandler has no flag that says "closed".  With a stream whose    *)
(* close calls back through the io_context it is protected by the order of *)
(* the queue: a read that succeeded was queued before any onClose(),       *)
(* because the stream gives no data once a close has completed.  With one  *)
(* that calls back at once only the absence of stop() protects it: then    *)
(* there is one operation under way at a time, and who closes the session  *)
(* is the handler of the last one.                                         *)
(***************************************************************************)
QueuedHandlers == [handler : ReadHandlers \cup {"onClose", "doClose"}, ec : Errors]

Queues == ready \in Seq(QueuedHandlers) /\ completions \in Seq(Errors)

\* Until the completion callback is called the stream is there, and the rest of start(),
\* the next read, a close or the handler of one of them is on its way.
StillWaiting ==
    started /\ completions = <<>> =>
        /\ stream
        /\ \/ starting # "no" \/ reading # "none" \/ closing > 0
           \/ \E i \in DOMAIN ready : ready[i].handler # "doClose"

SessionInv == SessionTypeOK /\ Queues /\ StillWaiting

(* What holds in addition when stop() keeps away from start(). *)

\* Before and during start() nothing else is under way.
Alone ==
    /\ ~started => /\ ~stream /\ closing = 0 /\ reading = "none" /\ starting = "no"
                   /\ \A i \in DOMAIN ready : ready[i].handler = "doClose"
    /\ starting # "no" => /\ stream /\ closing = 0 /\ reading = "none" /\ ready = <<>>

\* The handler at position i goes on to use the stream.
UsesStream(i) == ready[i].handler \in ReadHandlers /\ ready[i].ec = "ok"

\* A successful read waits before every onClose(), and the stream is still there.
ReadsBeforeClose ==
    \A i \in DOMAIN ready : UsesStream(i) =>
        stream /\ \A j \in DOMAIN ready : ready[j].handler = "onClose" => i < j

CloseDisconnects == (\E j \in DOMAIN ready : ready[j].handler = "onClose") => ~connected

\* Without stop() there is a read or its handler, not both, and a stream for it.
OneAtATime ==
    /\ closing = 0
    /\ \A i \in DOMAIN ready : i = 1 /\ ready[i].handler \in ReadHandlers
    /\ ready # <<>> => reading = "none"
    /\ ready # <<>> \/ reading # "none" => stream

Protected ==
    /\ Alone
    /\ "asyncClose" \notin inline => ReadsBeforeClose /\ CloseDisconnects /\ ~crashed
    /\ "asyncClose" \in inline /\ stops = 0 => OneAtATime /\ ~crashed

-----------------------------------------------------------------------------
\* A handler as it is constructed.
LEMMA SessionInitial == SessionInit => SessionInv /\ Protected
<1> SUFFICES ASSUME SessionInit PROVE SessionInv /\ Protected
  OBVIOUS
<1>1. ready = <<>> /\ completions = <<>> /\ DOMAIN ready = {} /\ DOMAIN completions = {}
  BY DEF SessionInit
<1>2. SessionTypeOK
  <2>1. inline \in InlineSets /\ stops \in 0 .. MaxStops
    BY SessionAssumption DEF SessionInit
  <2>2. streamMeta \in [streamId : {Empty} \cup {p.streamId : p \in StreamInits},
                        path     : {Empty} \cup {p.path : p \in StreamInits},
                        port     : {Empty} \cup {p.port : p \in StreamInits}]
    BY DEF SessionInit, NoMeta
  <2> QED BY <1>1, <2>1, <2>2 DEF SessionInit, SessionTypeOK, Errors
<1>3. Queues
  BY <1>1 DEF Queues
<1>4. StillWaiting
  BY DEF SessionInit, StillWaiting
<1>5. Protected
  BY <1>1 DEF SessionInit, Protected, Alone, ReadsBeforeClose, CloseDisconnects, OneAtATime
<1> QED BY <1>2, <1>3, <1>4, <1>5 DEF SessionInv

\* A handler that is run leaves the others queued as they were.
LEMMA HandlerRuns ==
    ASSUME SessionInv, NEW handler, NEW ec, Runs(handler, ec)
    PROVE  /\ ready' \in Seq(QueuedHandlers) /\ ~crashed /\ ready # <<>>
           /\ \A i \in DOMAIN ready' : i + 1 \in DOMAIN ready /\ ready'[i] = ready[i + 1]
           /\ 1 \in DOMAIN ready /\ ready[1].handler = handler /\ ready[1].ec = ec
           /\ DOMAIN ready \subseteq Nat /\ DOMAIN ready' \subseteq Nat \ {0}
           /\ (\A i \in DOMAIN ready : i = 1) => ready' = <<>>
<1>1. ready \in Seq(QueuedHandlers) /\ ready # <<>> /\ ready' = Tail(ready) /\ ~crashed
      /\ Head(ready) = [handler |-> handler, ec |-> ec]
  BY DEF Runs, Queues, SessionInv
<1>2. /\ Head(ready) = ready[1] /\ Len(ready) \in Nat /\ Len(ready) > 0
      /\ DOMAIN ready = 1 .. Len(ready)
      /\ Tail(ready) \in Seq(QueuedHandlers) /\ Len(Tail(ready)) = Len(ready) - 1
      /\ DOMAIN Tail(ready) = 1 .. Len(ready) - 1
      /\ \A i \in 1 .. Len(ready) - 1 : Tail(ready)[i] = ready[i + 1]
  BY <1>1, HeadTailProperties
<1>3. 1 \in DOMAIN ready /\ ready[1].handler = handler /\ ready[1].ec = ec
  BY <1>1, <1>2
<1>4. \A i \in DOMAIN ready' : i + 1 \in DOMAIN ready /\ ready'[i] = ready[i + 1]
  BY <1>1, <1>2
<1>5. DOMAIN ready \subseteq Nat /\ DOMAIN ready' \subseteq Nat \ {0}
  BY <1>1, <1>2
<1>6. ASSUME \A i \in DOMAIN ready : i = 1 PROVE ready' = <<>>
  <2>1. Len(ready) = 1
    BY <1>2, <1>6
  <2> QED BY <1>1, <1>2, <2>1, EmptySeq
<1> QED BY <1>1, <1>2, <1>3, <1>4, <1>5, <1>6

\* One handler more in the queue.
LEMMA HandlerQueued ==
    ASSUME SessionInv, NEW h \in QueuedHandlers, ready' = Append(ready, h)
    PROVE  /\ ready' \in Seq(QueuedHandlers) /\ DOMAIN ready \subseteq Nat
           /\ ready' # <<>> /\ \A i \in DOMAIN ready : i \in DOMAIN ready' /\ ready'[i] = ready[i]
           /\ \E i \in DOMAIN ready' : /\ ready'[i] = h /\ i \notin DOMAIN ready
                                       /\ i \in Nat /\ \A j \in DOMAIN ready : j < i
                                       /\ DOMAIN ready' = DOMAIN ready \cup {i}
                                       /\ ready = <<>> => i = 1
<1>1. ready \in Seq(QueuedHandlers)
  BY DEF Queues, SessionInv
<1> DEFINE n == Len(ready)
<1>2. /\ n \in Nat /\ DOMAIN ready = 1 .. n /\ DOMAIN ready' = 1 .. n + 1
      /\ ready' \in Seq(QueuedHandlers) /\ ready' # <<>> /\ (ready = <<>> => n = 0)
      /\ ready'[n + 1] = h /\ \A i \in 1 .. n : ready'[i] = ready[i]
  BY <1>1, AppendProperties
<1> HIDE DEF n
<1>3. 1 .. n + 1 = (1 .. n) \cup {n + 1} /\ n + 1 \notin 1 .. n /\ \A j \in 1 .. n : j < n + 1
  BY <1>2
<1> QED BY <1>2, <1>3

\* What a queue and a list of completions hold.
LEMMA QueueTypes ==
    ASSUME NEW q \in Seq(QueuedHandlers), NEW c \in Seq(Errors)
    PROVE  /\ \A i \in DOMAIN q : q[i].handler \in ReadHandlers \cup {"onClose", "doClose"}
           /\ \A i \in DOMAIN c : c[i] \in Errors
<1>1. \A i \in DOMAIN q : q[i] \in QueuedHandlers
  OBVIOUS
<1>2. \A i \in DOMAIN c : c[i] \in Errors
  OBVIOUS
<1> QED BY <1>1, <1>2 DEF QueuedHandlers

\* closeSession() on a stream that is there has a close under way or has ended it.
LEMMA CloseSession ==
    ASSUME SessionInv, NEW ec \in Errors, closeSession(ec)
    PROVE  /\ sessionEc' \in Errors /\ cause' \in Errors \cup {Nothing} /\ closing' \in Nat
           /\ stream' \in BOOLEAN /\ connected' \in BOOLEAN /\ completions' \in Seq(Errors)
           /\ stream => closing' > 0 \/ completions' # <<>>
           /\ completions' = <<>> => completions = <<>> /\ UNCHANGED stream
           /\ closing > 0 => closing' > 0
           /\ "asyncClose" \notin inline => UNCHANGED endVars
           /\ "asyncClose" \in inline => closing' = closing /\ stream' = FALSE
           /\ ~stream => UNCHANGED <<closing, endVars>>
<1>1. /\ completions \in Seq(Errors) /\ closing \in Nat /\ stream \in BOOLEAN
      /\ connected \in BOOLEAN /\ cause \in Errors \cup {Nothing}
  BY DEF SessionInv, SessionTypeOK, Queues
<1>2. Append(completions, ec) \in Seq(Errors) /\ Append(completions, ec) # <<>>
  BY <1>1, AppendProperties
<1>3. sessionEc' \in Errors /\ cause' \in Errors \cup {Nothing}
  BY <1>1 DEF closeSession
<1>4. CASE ~stream /\ UNCHANGED <<closing, endVars>>
  BY <1>1, <1>3, <1>4 DEF endVars
<1>5. CASE stream /\ "asyncClose" \notin inline /\ closing' = closing + 1 /\ UNCHANGED endVars
  BY <1>1, <1>3, <1>5 DEF endVars
<1>6. CASE /\ stream /\ "asyncClose" \in inline
           /\ stream' = FALSE /\ connected' = FALSE /\ completions' = Append(completions, ec)
           /\ UNCHANGED closing
  BY <1>1, <1>2, <1>3, <1>6
<1> QED BY <1>4, <1>5, <1>6 DEF closeSession

-----------------------------------------------------------------------------
(* What every step keeps, whatever the stream and the application do. *)

\* A failed read closes the session.
LEMMA ReadFailedKeeps ==
    ASSUME SessionInv, NEW handler \in ReadHandlers, ReadFailed(handler)
    PROVE  SessionInv'
<1> USE DEF SessionInv, appVars, metaVars
<1>1. PICK ec \in {"read", "aborted"} : Runs(handler, ec) /\ closeSession(ec)
  BY DEF ReadFailed
<1>2. UNCHANGED <<appVars, metaVars, starting, crashed, reading>>
  BY DEF ReadFailed
<1>3. ec \in Errors
  BY DEF Errors
<1>4. Queues'
  BY <1>1, <1>3, HandlerRuns, CloseSession DEF Queues
<1>5. SessionTypeOK'
  BY <1>1, <1>2, <1>3, <1>4, CloseSession, QueueTypes DEF SessionTypeOK, Queues
<1>6. StillWaiting'
  BY <1>1, <1>2, <1>3, CloseSession DEF StillWaiting
<1> QED BY <1>4, <1>5, <1>6

\* A handler that asks for the next part of the packet.
LEMMA GoesOnReadingKeeps ==
    ASSUME SessionInv, NEW handler \in ReadHandlers, NEW next \in ReadHandlers,
           GoesOnReading(handler, next)
    PROVE  SessionInv'
<1> USE DEF SessionInv, appVars, metaVars, closeVars, endVars
<1>1. /\ Runs(handler, "ok") /\ reading' = next /\ crashed' = ~stream
      /\ UNCHANGED <<appVars, metaVars, closeVars, endVars, starting>>
  BY DEF GoesOnReading
<1>2. Queues'
  BY <1>1, HandlerRuns DEF Queues
<1>3. SessionTypeOK'
  BY <1>1, <1>2, QueueTypes DEF SessionTypeOK, Queues
<1>4. StillWaiting'
  BY <1>1 DEF StillWaiting, ReadHandlers
<1> QED BY <1>2, <1>3, <1>4

\* StreamMeta takes its values from the "init" contents.
LEMMA StreamMetaType ==
    ASSUME SessionTypeOK, NEW content \in Contents \cup {Nothing}
    PROVE  StreamMetaAfter(content) \in
               [streamId : {Empty} \cup {p.streamId : p \in StreamInits},
                path     : {Empty} \cup {p.path : p \in StreamInits},
                port     : {Empty} \cup {p.port : p \in StreamInits}]
<1>1. CASE content # Nothing /\ content.method = "init"
  <2>1. content.params \in StreamInits
    BY <1>1 DEF Contents
  <2> QED BY <1>1, <2>1 DEF StreamMetaAfter, SessionTypeOK
<1>2. CASE ~(content # Nothing /\ content.method = "init")
  BY <1>2 DEF StreamMetaAfter, SessionTypeOK
<1> QED BY <1>1, <1>2

\* A payload is processed, and the next header asked for or the session closed.
LEMMA ProcessPayloadKeeps ==
    ASSUME SessionInv, NEW packet \in Packets, ProcessPayload(packet)
    PROVE  SessionInv'
<1> USE DEF SessionInv
<1>1. Runs("onPayload", "ok") /\ UNCHANGED <<inline, started, starting>>
  BY DEF ProcessPayload
<1>2. \/ /\ closeSession("protocol") /\ UNCHANGED <<stops, reading>> /\ crashed' \in BOOLEAN
      \/ /\ reading' = "onHeader" /\ crashed' = ~stream'
         /\ \/ UNCHANGED <<stops, closeVars, endVars>>
            \/ stops < MaxStops /\ stops' = stops + 1 /\ closeSession("ok")
  BY DEF ProcessPayload, StopInCallback
<1>3. \/ \E ec \in Errors : closeSession(ec)
      \/ reading' = "onHeader" /\ UNCHANGED <<closeVars, endVars>>
  BY <1>2 DEF Errors
<1>4. /\ sessionEc' \in Errors /\ cause' \in Errors \cup {Nothing} /\ closing' \in Nat
      /\ stream' \in BOOLEAN /\ connected' \in BOOLEAN /\ completions' \in Seq(Errors)
  BY <1>3, CloseSession DEF closeVars, endVars, SessionTypeOK, Queues
<1>5. Queues'
  BY <1>1, <1>4, HandlerRuns DEF Queues
<1>6. Interpreted(packet) \in Contents \cup {Nothing}
  BY DEF Interpreted, Packets, SessionTypeOK
<1>7. SessionTypeOK'
  <2>1. json' = Interpreted(packet)
        /\ (streamMeta' = StreamMetaAfter(Interpreted(packet)) \/ UNCHANGED streamMeta)
    BY DEF ProcessPayload
  <2>2. streamMeta' \in [streamId : {Empty} \cup {p.streamId : p \in StreamInits},
                         path     : {Empty} \cup {p.path : p \in StreamInits},
                         port     : {Empty} \cup {p.port : p \in StreamInits}]
    BY <1>6, <2>1, StreamMetaType DEF SessionTypeOK
  <2>3. reading' \in ReadHandlers \cup {"none"}
    BY <1>2 DEF SessionTypeOK, ReadHandlers
  <2>4. crashed' \in BOOLEAN
    BY <1>2, <1>4
  <2>5. stops' \in 0 .. MaxStops
    <3>1. stops' = stops \/ (stops < MaxStops /\ stops' = stops + 1)
      BY <1>2
    <3> QED BY <3>1, SessionAssumption DEF SessionTypeOK
  <2> QED BY <1>1, <1>4, <1>5, <1>6, <2>1, <2>2, <2>3, <2>4, <2>5, QueueTypes
          DEF SessionTypeOK, Queues
<1>8. StillWaiting'
  BY <1>1, <1>3, CloseSession DEF StillWaiting, closeVars, endVars
<1> QED BY <1>5, <1>7, <1>8

\* onClose() destroys the stream and completes the session.
LEMMA onCloseKeeps ==
    ASSUME SessionInv, onClose
    PROVE  SessionInv' /\ completions' # <<>>
<1> USE DEF SessionInv, appVars, metaVars, closeVars
<1>1. PICK ec \in {"ok", "aborted"} : Runs("onClose", ec)
  BY DEF onClose
<1>2. /\ stream' = FALSE /\ completions' = Append(completions, sessionEc)
      /\ UNCHANGED <<appVars, metaVars, closeVars, starting, crashed, reading, connected>>
  BY DEF onClose
<1>3. Queues' /\ completions' # <<>>
  BY <1>1, <1>2, HandlerRuns, AppendProperties DEF Queues, SessionTypeOK
<1>4. SessionTypeOK'
  BY <1>2, <1>3, QueueTypes DEF SessionTypeOK, Queues
<1>5. StillWaiting'
  BY <1>3 DEF StillWaiting
<1> QED BY <1>3, <1>4, <1>5

\* The posted close begins.
LEMMA doCloseKeeps ==
    ASSUME SessionInv, doClose
    PROVE  SessionInv'
<1> USE DEF SessionInv, appVars, metaVars
<1>1. /\ Runs("doClose", "ok") /\ closeSession("ok") /\ "ok" \in Errors
      /\ UNCHANGED <<appVars, metaVars, starting, crashed, reading>>
  BY DEF doClose, Errors
<1>2. Queues'
  BY <1>1, HandlerRuns, CloseSession DEF Queues
<1>3. SessionTypeOK'
  BY <1>1, <1>2, CloseSession, QueueTypes DEF SessionTypeOK, Queues
<1>4. StillWaiting'
  BY <1>1, CloseSession, HandlerRuns DEF StillWaiting
<1> QED BY <1>2, <1>3, <1>4

\* start() and startWithSyncInit() bring the stream, and the first read or a close.
LEMMA SessionStartKeeps ==
    ASSUME SessionInv,
           start \/ startWithSyncInit \/ asyncInit \/ init \/ onInitCompleteAtOnce
    PROVE  SessionInv'
<1> USE DEF SessionInv, appVars, metaVars, closeVars, endVars
<1>1. CASE start \/ startWithSyncInit
  <2>1. /\ stream' = TRUE /\ started' = TRUE /\ starting' \in {"start", "startWithSyncInit"}
        /\ UNCHANGED <<inline, stops, metaVars, closeVars, crashed, ready, reading, connected,
                       completions>>
    BY <1>1 DEF start, startWithSyncInit, Starts
  <2> QED BY <2>1 DEF SessionTypeOK, Queues, StillWaiting
<1>2. CASE asyncInit \/ init
  <2>1. /\ crashed' = ~stream
        /\ \/ starting' = "no" /\ reading' = "onInitComplete"
           \/ starting' \in {"ok", "read"} /\ UNCHANGED reading
        /\ UNCHANGED <<appVars, metaVars, closeVars, endVars, ready>>
    BY <1>2 DEF asyncInit, init
  <2> QED BY <2>1 DEF SessionTypeOK, Queues, StillWaiting, ReadHandlers
<1>3. CASE onInitCompleteAtOnce
  <2>1. /\ starting' = "no" /\ UNCHANGED <<appVars, metaVars, ready>>
        /\ \/ closeSession("read") /\ UNCHANGED <<reading, crashed>>
           \/ /\ crashed' = ~stream /\ reading' = "onHeader"
              /\ UNCHANGED <<closeVars, endVars>>
    BY <1>3 DEF onInitCompleteAtOnce
  <2>2. CASE closeSession("read") /\ UNCHANGED <<reading, crashed>>
    <3>1. "read" \in Errors
      BY DEF Errors
    <3>2. SessionTypeOK' /\ Queues'
      BY <2>1, <2>2, <3>1, CloseSession, QueueTypes DEF SessionTypeOK, Queues
    <3> QED BY <2>1, <2>2, <3>1, <3>2, CloseSession DEF StillWaiting
  <2>3. CASE /\ crashed' = ~stream /\ reading' = "onHeader"
             /\ UNCHANGED <<closeVars, endVars>>
    BY <2>1, <2>3 DEF SessionTypeOK, Queues, StillWaiting, ReadHandlers
  <2> QED BY <2>1, <2>2, <2>3
<1> QED BY <1>1, <1>2, <1>3

\* stop() posts a close.
LEMMA stopKeeps ==
    ASSUME SessionInv, stop
    PROVE  SessionInv'
<1> USE DEF SessionInv
<1> DEFINE h == [handler |-> "doClose", ec |-> "ok"]
<1>1. /\ ready' = Append(ready, h) /\ stops < MaxStops /\ stops' = stops + 1
      /\ UNCHANGED <<inline, started, metaVars, closeVars, endVars, starting, crashed, reading>>
  BY DEF stop
<1>2. h \in QueuedHandlers
  BY DEF QueuedHandlers, Errors
<1> HIDE DEF h
<1>3. /\ ready' \in Seq(QueuedHandlers)
      /\ \A i \in DOMAIN ready : i \in DOMAIN ready' /\ ready'[i] = ready[i]
  BY <1>1, <1>2, HandlerQueued
<1>4. Queues' /\ SessionTypeOK'
  <2>1. stops' \in 0 .. MaxStops
    BY <1>1, SessionAssumption DEF SessionTypeOK
  <2> QED BY <1>1, <1>3, <2>1, QueueTypes
          DEF SessionTypeOK, Queues, metaVars, closeVars, endVars
<1>5. StillWaiting'
  BY <1>1, <1>3 DEF StillWaiting, closeVars, endVars
<1> QED BY <1>4, <1>5

\* A read completes and queues its handler.
LEMMA ReadCompletesKeeps ==
    ASSUME SessionInv, NEW ec \in {"ok", "read", "aborted"}, ReadCompletes(ec)
    PROVE  SessionInv'
<1> USE DEF SessionInv
<1> DEFINE h == [handler |-> reading, ec |-> ec]
<1>1. /\ ready' = Append(ready, h) /\ reading' = "none" /\ reading # "none"
      /\ UNCHANGED <<appVars, metaVars, closeVars, endVars, starting, crashed>>
  BY DEF ReadCompletes
<1>2. h \in QueuedHandlers /\ h.handler # "doClose"
  BY <1>1 DEF QueuedHandlers, Errors, SessionTypeOK, ReadHandlers
<1> HIDE DEF h
<1>3. ready' \in Seq(QueuedHandlers) /\ \E i \in DOMAIN ready' : ready'[i] = h
  BY <1>1, <1>2, HandlerQueued
<1>4. Queues' /\ SessionTypeOK'
  BY <1>1, <1>3, QueueTypes
     DEF SessionTypeOK, Queues, appVars, metaVars, closeVars, endVars
<1>5. StillWaiting'
  BY <1>1, <1>2, <1>3 DEF StillWaiting, appVars, endVars
<1> QED BY <1>4, <1>5

\* The close completes and queues its handler.
LEMMA CloseCompletesKeeps ==
    ASSUME SessionInv, NEW ec \in {"ok", "aborted"}, CloseCompletes(ec)
    PROVE  SessionInv'
<1> USE DEF SessionInv
<1> DEFINE h == [handler |-> "onClose", ec |-> ec]
<1>1. /\ ready' = Append(ready, h) /\ closing > 0 /\ closing' = closing - 1
      /\ connected' = FALSE
      /\ UNCHANGED <<appVars, metaVars, sessionEc, cause, starting, crashed, stream, reading,
                     completions>>
  BY DEF CloseCompletes
<1>2. h \in QueuedHandlers /\ h.handler # "doClose"
  BY DEF QueuedHandlers, Errors
<1> HIDE DEF h
<1>3. ready' \in Seq(QueuedHandlers) /\ \E i \in DOMAIN ready' : ready'[i] = h
  BY <1>1, <1>2, HandlerQueued
<1>4. Queues' /\ SessionTypeOK'
  <2>1. closing' \in Nat /\ Queues'
    BY <1>1, <1>3 DEF SessionTypeOK, Queues
  <2> QED BY <1>1, <1>3, <2>1, QueueTypes DEF SessionTypeOK, Queues, appVars, metaVars
<1>5. StillWaiting'
  BY <1>1, <1>2, <1>3 DEF StillWaiting, appVars
<1> QED BY <1>4, <1>5

\* An operation of a stream that is gone.
LEMMA OperationVanishesKeeps ==
    ASSUME SessionInv, OperationVanishes
    PROVE  SessionInv'
<1> USE DEF SessionInv
<1>1. /\ started /\ ~stream
      /\ \/ closing > 0 /\ closing' = closing - 1 /\ UNCHANGED reading
         \/ reading' = "none" /\ UNCHANGED closing
      /\ UNCHANGED <<appVars, metaVars, endVars, sessionEc, cause, starting, crashed, ready>>
  BY DEF OperationVanishes
<1>2. Queues' /\ SessionTypeOK'
  BY <1>1 DEF Queues, SessionTypeOK, appVars, metaVars, endVars
<1>3. StillWaiting'
  BY <1>1 DEF StillWaiting, appVars, endVars
<1> QED BY <1>2, <1>3

\* The invariant is inductive.
LEMMA SessionStepKeeps ==
    ASSUME SessionInv, [SessionNext]_sessionVars
    PROVE  SessionInv'
<1> USE DEF ReadHandlers
<1>1. CASE UNCHANGED sessionVars
  BY <1>1 DEF sessionVars, appVars, metaVars, closeVars, endVars, SessionInv, SessionTypeOK,
              Queues, StillWaiting
<1>2. CASE onInitComplete \/ onHeader \/ onAdditionalLength \/ onPayload
  BY <1>2, ReadFailedKeeps, GoesOnReadingKeeps, ProcessPayloadKeeps
     DEF onInitComplete, onHeader, onAdditionalLength, onPayload
<1>3. CASE onClose \/ doClose
  BY <1>3, onCloseKeeps, doCloseKeeps
<1>4. CASE start \/ startWithSyncInit \/ asyncInit \/ init \/ onInitCompleteAtOnce \/ stop
  BY <1>4, SessionStartKeeps, stopKeeps
<1>5. CASE \E ec \in {"ok", "read", "aborted"} : ReadCompletes(ec)
  BY <1>5, ReadCompletesKeeps
<1>6. CASE CloseEnds \/ OperationVanishes
  BY <1>6, CloseCompletesKeeps, OperationVanishesKeeps DEF CloseEnds
<1> QED BY <1>1, <1>2, <1>3, <1>4, <1>5, <1>6 DEF SessionNext, Handler

-----------------------------------------------------------------------------
(* What protects the stream when stop() keeps away from start(). *)

\* The rest of the queue keeps its order while the stream stays.
LEMMA QueueKept ==
    ASSUME ReadsBeforeClose, CloseDisconnects, UNCHANGED <<stream, connected>>,
           \A i \in DOMAIN ready' : i + 1 \in DOMAIN ready /\ ready'[i] = ready[i + 1],
           DOMAIN ready \subseteq Nat, DOMAIN ready' \subseteq Nat
    PROVE  ReadsBeforeClose' /\ CloseDisconnects'
<1>1. ASSUME NEW i \in DOMAIN ready', UsesStream(i)'
      PROVE  stream' /\ \A j \in DOMAIN ready' : ready'[j].handler = "onClose" => i < j
  BY <1>1 DEF ReadsBeforeClose, UsesStream
<1>2. CloseDisconnects'
  BY DEF CloseDisconnects
<1> QED BY <1>1, <1>2 DEF ReadsBeforeClose

\* A handler other than onClose(): it may close the session, and it crashes only without
\* a stream or when stop() has been called in it on a stream that closes at once.
LEMMA HandlerProtects ==
    ASSUME SessionInv, Protected, NEW handler, NEW ec, Runs(handler, ec),
           UNCHANGED <<inline, started, starting>>, handler # "onClose",
           stops' = 0 => stops = 0,
           "asyncClose" \notin inline => UNCHANGED <<stream, connected>>,
           "asyncClose" \in inline => closing' = closing,
           ~started => UNCHANGED <<stream, closing, reading>>,
           "asyncClose" \in inline /\ stops' = 0 => UNCHANGED reading \/ stream',
           \/ ~crashed'
           \/ handler \in ReadHandlers /\ ec = "ok" /\ ~stream
           \/ "asyncClose" \in inline /\ stops' # 0
    PROVE  Protected'
<1>1. /\ ready' \in Seq(QueuedHandlers) /\ ready # <<>>
      /\ \A i \in DOMAIN ready' : i + 1 \in DOMAIN ready /\ ready'[i] = ready[i + 1]
      /\ 1 \in DOMAIN ready /\ ready[1].handler = handler /\ ready[1].ec = ec
      /\ DOMAIN ready \subseteq Nat /\ DOMAIN ready' \subseteq Nat
      /\ (\A i \in DOMAIN ready : i = 1) => ready' = <<>>
  BY HandlerRuns
<1>2. Alone'
  BY <1>1 DEF Protected, Alone
<1>3. ASSUME "asyncClose" \notin inline
      PROVE  ReadsBeforeClose' /\ CloseDisconnects' /\ ~crashed'
  <2>1. ReadsBeforeClose /\ CloseDisconnects
    BY <1>3 DEF Protected
  <2>2. handler \in ReadHandlers /\ ec = "ok" => stream
    BY <1>1, <2>1 DEF ReadsBeforeClose, UsesStream
  <2> QED BY <1>1, <1>3, <2>1, <2>2, QueueKept
<1>4. ASSUME "asyncClose" \in inline, stops' = 0
      PROVE  OneAtATime' /\ ~crashed'
  <2>1. OneAtATime /\ stream /\ reading = "none" /\ closing = 0
    BY <1>1, <1>4 DEF Protected, OneAtATime
  <2>2. ready' = <<>> /\ DOMAIN ready' = {}
    BY <1>1, <2>1 DEF OneAtATime
  <2>3. reading' # "none" => stream'
    BY <1>4, <2>1
  <2> QED BY <1>4, <2>1, <2>2, <2>3 DEF OneAtATime
<1> QED BY <1>2, <1>3, <1>4 DEF Protected

\* The handlers that read on or close.
LEMMA ReadHandlersProtect ==
    ASSUME SessionInv, Protected,
           onInitComplete \/ onHeader \/ onAdditionalLength \/ onPayload \/ doClose
    PROVE  Protected'
<1> USE DEF appVars, metaVars, closeVars, endVars
<1>1. ASSUME NEW handler \in ReadHandlers, ReadFailed(handler)
      PROVE  Protected'
  <2>1. PICK ec \in {"read", "aborted"} : Runs(handler, ec) /\ closeSession(ec)
    BY <1>1 DEF ReadFailed
  <2>2. UNCHANGED <<inline, started, stops, starting, crashed, reading>>
    BY <1>1 DEF ReadFailed
  <2>3. ec \in Errors /\ handler \notin {"onClose", "doClose"}
    BY DEF Errors, ReadHandlers
  <2>4. started /\ ~crashed
    BY <2>1, <2>3, HandlerRuns DEF Protected, Alone
  <2> QED BY <2>1, <2>2, <2>3, <2>4, CloseSession, HandlerProtects
<1>2. ASSUME NEW handler \in ReadHandlers, NEW next, GoesOnReading(handler, next)
      PROVE  Protected'
  <2>1. /\ Runs(handler, "ok") /\ crashed' = ~stream
        /\ UNCHANGED <<inline, started, stops, starting, stream, connected, closing>>
    BY <1>2 DEF GoesOnReading
  <2>2. handler \notin {"onClose", "doClose"}
    BY DEF ReadHandlers
  <2>3. started /\ ready # <<>>
    BY <2>1, <2>2, HandlerRuns DEF Protected, Alone
  <2>4. "asyncClose" \in inline /\ stops' = 0 => stream'
    BY <2>1, <2>3 DEF Protected, OneAtATime
  <2>5. ~crashed' \/ ~stream
    BY <2>1
  <2> QED BY <2>1, <2>2, <2>3, <2>4, <2>5, HandlerProtects
<1>3. ASSUME NEW packet \in Packets, ProcessPayload(packet)
      PROVE  Protected'
  <2>1. Runs("onPayload", "ok") /\ UNCHANGED <<inline, started, starting>>
    BY <1>3 DEF ProcessPayload
  <2>2. "onPayload" \in ReadHandlers /\ started /\ ready # <<>>
    BY <2>1, HandlerRuns DEF Protected, Alone, ReadHandlers
  <2>3. CASE /\ closeSession("protocol") /\ UNCHANGED <<stops, reading>>
             /\ crashed' = (~stream /\ packet.type # "invalid")
    <3>1. "protocol" \in Errors /\ (~crashed' \/ ~stream)
      BY <2>3 DEF Errors
    <3> QED BY <2>1, <2>2, <2>3, <3>1, CloseSession, HandlerProtects
  <2>4. CASE UNCHANGED <<stops, closeVars, endVars>> /\ crashed' = ~stream'
    <3>1. "asyncClose" \in inline /\ stops' = 0 => stream'
      BY <2>2, <2>4 DEF Protected, OneAtATime
    <3>2. ~crashed' \/ ~stream
      BY <2>4
    <3> QED BY <2>1, <2>2, <2>4, <3>1, <3>2, HandlerProtects
  <2>5. CASE stops' = stops + 1 /\ closeSession("ok") /\ crashed' = ~stream'
    <3>1. "ok" \in Errors /\ stops' # 0
      BY <2>5, SessionAssumption DEF Errors, SessionInv, SessionTypeOK
    <3>2. "asyncClose" \notin inline => UNCHANGED <<stream, connected>>
      BY <2>5, <3>1, CloseSession
    <3>3. \/ ~crashed' \/ ~stream
          \/ "asyncClose" \in inline /\ stops' # 0
      BY <2>5, <3>1, <3>2 DEF SessionInv, SessionTypeOK
    <3> QED BY <2>1, <2>2, <2>5, <3>1, <3>2, <3>3, CloseSession, HandlerProtects
  <2> QED BY <1>3, <2>3, <2>4, <2>5 DEF ProcessPayload, StopInCallback
<1>4. CASE doClose
  <2>1. /\ Runs("doClose", "ok") /\ closeSession("ok") /\ "ok" \in Errors
        /\ UNCHANGED <<inline, started, stops, starting, crashed, reading>>
    BY <1>4 DEF doClose, Errors
  <2>2. ~crashed /\ (~started => ~stream)
    BY <2>1, HandlerRuns DEF Protected, Alone
  <2> QED BY <2>1, <2>2, CloseSession, HandlerProtects
<1> QED BY <1>1, <1>2, <1>3, <1>4
        DEF onInitComplete, onHeader, onAdditionalLength, onPayload, ReadHandlers

\* onClose() destroys the stream; no successful read is left behind it.
LEMMA onCloseProtects ==
    ASSUME SessionInv, Protected, onClose
    PROVE  Protected'
<1> USE DEF appVars, closeVars
<1>1. PICK ec \in {"ok", "aborted"} : Runs("onClose", ec)
  BY DEF onClose
<1>2. stream' = FALSE /\ UNCHANGED <<inline, started, stops, starting, crashed, reading, connected, closing>>
  BY DEF onClose
<1>3. /\ \A i \in DOMAIN ready' : i + 1 \in DOMAIN ready /\ ready'[i] = ready[i + 1]
      /\ 1 \in DOMAIN ready /\ ready[1].handler = "onClose" /\ ready # <<>>
      /\ DOMAIN ready \subseteq Nat /\ DOMAIN ready' \subseteq Nat \ {0}
  BY <1>1, HandlerRuns
<1>4. started /\ starting = "no" /\ ~("asyncClose" \in inline /\ stops = 0)
  BY <1>3 DEF Protected, Alone, OneAtATime, ReadHandlers
<1>5. ASSUME "asyncClose" \notin inline
      PROVE  ReadsBeforeClose' /\ CloseDisconnects' /\ ~crashed'
  <2>1. ReadsBeforeClose /\ CloseDisconnects /\ ~crashed
    BY <1>5 DEF Protected
  <2>2. ASSUME NEW i \in DOMAIN ready' PROVE ~UsesStream(i)'
    <3>1. ~UsesStream(i + 1)
      BY <1>3, <2>1 DEF ReadsBeforeClose
    <3> QED BY <1>3, <3>1 DEF UsesStream
  <2> QED BY <1>2, <1>3, <2>1, <2>2 DEF ReadsBeforeClose, CloseDisconnects
<1> QED BY <1>2, <1>4, <1>5 DEF Protected, Alone

\* start() finds nothing under way, and its stream is not taken away from it.
LEMMA StartProtects ==
    ASSUME SessionInv, Protected, ~StopOverlapsStart,
           start \/ startWithSyncInit \/ asyncInit \/ init \/ onInitCompleteAtOnce
    PROVE  Protected'
<1> USE DEF appVars, closeVars, endVars
<1>1. CASE start \/ startWithSyncInit
  <2>1. /\ ~started /\ ready = <<>> /\ stream' = TRUE /\ started' = TRUE
        /\ UNCHANGED <<inline, stops, closing, crashed, ready, reading, connected>>
    BY <1>1 DEF start, startWithSyncInit, Starts
  <2>2. DOMAIN ready = {} /\ closing = 0 /\ reading = "none"
    BY <2>1 DEF Protected, Alone
  <2> QED BY <2>1, <2>2
          DEF Protected, Alone, ReadsBeforeClose, CloseDisconnects, OneAtATime
<1>2. ASSUME starting # "no"
      PROVE  /\ started /\ stream /\ closing = 0 /\ reading = "none" /\ ready = <<>>
             /\ DOMAIN ready = {}
  <2>1. started /\ stream /\ closing = 0 /\ reading = "none" /\ ready = <<>>
    BY <1>2 DEF Protected, Alone
  <2> QED BY <2>1
<1>3. CASE asyncInit \/ init
  <2>1. /\ starting # "no" /\ crashed' = ~stream
        /\ \/ starting' = "no" \/ UNCHANGED reading
        /\ UNCHANGED <<inline, started, stops, closing, ready, stream, connected>>
    BY <1>3 DEF asyncInit, init
  <2> QED BY <1>2, <2>1
          DEF Protected, Alone, ReadsBeforeClose, CloseDisconnects, OneAtATime
<1>4. CASE onInitCompleteAtOnce
  <2>1. /\ starting # "no" /\ starting' = "no" /\ ~crashed
        /\ UNCHANGED <<inline, started, stops, ready>>
        /\ \/ closeSession("read") /\ UNCHANGED <<reading, crashed>>
           \/ crashed' = ~stream /\ UNCHANGED <<closing, stream>>
    BY <1>4 DEF onInitCompleteAtOnce
  <2>2. "asyncClose" \in inline => closing' = closing
    BY <2>1, CloseSession DEF Errors
  <2>3. ~crashed' /\ (reading' = "none" \/ stream')
    <3>1. stream /\ reading = "none"
      BY <1>2, <2>1
    <3>2. CASE closeSession("read") /\ UNCHANGED <<reading, crashed>>
      BY <2>1, <3>1, <3>2
    <3>3. CASE crashed' = ~stream /\ UNCHANGED <<closing, stream>>
      BY <3>1, <3>3
    <3> QED BY <2>1, <3>2, <3>3
  <2> QED BY <1>2, <2>1, <2>2, <2>3
          DEF Protected, Alone, ReadsBeforeClose, CloseDisconnects, OneAtATime
<1> QED BY <1>1, <1>3, <1>4

\* A handler is queued: no successful read behind an onClose().
LEMMA QueueProtects ==
    ASSUME SessionInv, ReadsBeforeClose, CloseDisconnects, NEW h \in QueuedHandlers,
           ready' = Append(ready, h), UNCHANGED stream, connected' = connected \/ connected' = FALSE,
           h.handler \in ReadHandlers /\ h.ec = "ok" => connected /\ stream,
           h.handler = "onClose" => connected' = FALSE
    PROVE  ReadsBeforeClose' /\ CloseDisconnects'
<1>1. PICK n \in DOMAIN ready' :
           /\ ready'[n] = h /\ n \notin DOMAIN ready /\ n \in Nat
           /\ \A j \in DOMAIN ready : j < n
           /\ DOMAIN ready' = DOMAIN ready \cup {n}
  BY HandlerQueued
<1>2. \A i \in DOMAIN ready : ready'[i] = ready[i]
  BY HandlerQueued
<1>3. ASSUME NEW i \in DOMAIN ready', UsesStream(i)'
      PROVE  stream' /\ \A j \in DOMAIN ready' : ready'[j].handler = "onClose" => i < j
  <2>1. CASE i = n
    <3>1. h.handler \in ReadHandlers /\ h.ec = "ok"
      BY <1>1, <1>3, <2>1 DEF UsesStream
    <3>2. \A j \in DOMAIN ready : ready[j].handler # "onClose"
      BY <3>1 DEF CloseDisconnects
    <3>3. h.handler # "onClose"
      BY <3>1 DEF ReadHandlers
    <3> QED BY <1>1, <1>2, <3>1, <3>2, <3>3
  <2>2. CASE i # n
    <3>1. i \in DOMAIN ready /\ UsesStream(i)
      BY <1>1, <1>2, <1>3, <2>2 DEF UsesStream
    <3>2. stream /\ \A j \in DOMAIN ready : ready[j].handler = "onClose" => i < j
      BY <3>1 DEF ReadsBeforeClose
    <3> QED BY <1>1, <1>2, <3>1, <3>2
  <2> QED BY <2>1, <2>2
<1>4. CloseDisconnects'
  BY <1>1, <1>2 DEF CloseDisconnects
<1> QED BY <1>3, <1>4 DEF ReadsBeforeClose

\* stop() posts a close.
LEMMA stopProtects ==
    ASSUME SessionInv, Protected, ~StopOverlapsStart, stop
    PROVE  Protected'
<1> DEFINE h == [handler |-> "doClose", ec |-> "ok"]
<1>1. /\ ready' = Append(ready, h) /\ stops' = stops + 1 /\ starting = "no"
      /\ UNCHANGED <<inline, started, starting, crashed, reading, stream, connected, closing>>
  BY DEF stop, closeVars, endVars
<1>2. h \in QueuedHandlers /\ h.handler = "doClose" /\ h.handler \notin ReadHandlers
  BY DEF QueuedHandlers, Errors, ReadHandlers
<1> HIDE DEF h
<1>3. stops' # 0
  BY <1>1, SessionAssumption DEF SessionInv, SessionTypeOK
<1>4. \A i \in DOMAIN ready' : ready'[i] = h \/ (i \in DOMAIN ready /\ ready'[i] = ready[i])
  BY <1>1, <1>2, HandlerQueued
<1>5. Alone'
  BY <1>1, <1>2, <1>4 DEF Protected, Alone
<1>6. "asyncClose" \notin inline => ReadsBeforeClose' /\ CloseDisconnects' /\ ~crashed'
  BY <1>1, <1>2, QueueProtects DEF Protected
<1> QED BY <1>1, <1>3, <1>5, <1>6 DEF Protected

\* A read completes and queues its handler.
LEMMA ReadCompletesProtects ==
    ASSUME SessionInv, Protected, NEW ec \in {"ok", "read", "aborted"}, ReadCompletes(ec)
    PROVE  Protected'
<1> DEFINE h == [handler |-> reading, ec |-> ec]
<1>1. /\ ready' = Append(ready, h) /\ reading' = "none" /\ reading # "none"
      /\ ec = "ok" => connected /\ stream
      /\ UNCHANGED <<inline, started, stops, starting, crashed, stream, connected, closing>>
  BY DEF ReadCompletes, appVars, closeVars, endVars
<1>2. h \in QueuedHandlers /\ h.handler \in ReadHandlers /\ h.ec = ec /\ h.handler # "onClose"
  BY <1>1 DEF QueuedHandlers, Errors, SessionInv, SessionTypeOK, ReadHandlers
<1> HIDE DEF h
<1>3. started /\ starting = "no"
  BY <1>1 DEF Protected, Alone
<1>4. Alone'
  BY <1>1, <1>3 DEF Alone
<1>5. "asyncClose" \notin inline => ReadsBeforeClose' /\ CloseDisconnects' /\ ~crashed'
  BY <1>1, <1>2, QueueProtects DEF Protected
<1>6. ASSUME "asyncClose" \in inline, stops = 0
      PROVE  OneAtATime' /\ ~crashed'
  <2>1. ready = <<>> /\ DOMAIN ready = {} /\ stream /\ closing = 0 /\ ~crashed
    BY <1>1, <1>6 DEF Protected, OneAtATime
  <2>2. \A i \in DOMAIN ready' : i = 1 /\ ready'[i] = h
    BY <1>1, <1>2, <2>1, HandlerQueued
  <2> QED BY <1>1, <1>2, <2>1, <2>2 DEF OneAtATime
<1> QED BY <1>1, <1>4, <1>5, <1>6 DEF Protected

\* The close completes and queues its handler; the stream gives no data any more.
LEMMA CloseProtects ==
    ASSUME SessionInv, Protected, CloseEnds \/ OperationVanishes
    PROVE  Protected'
<1>1. ASSUME NEW ec \in {"ok", "aborted"}, CloseCompletes(ec)
      PROVE  Protected'
  <2> DEFINE h == [handler |-> "onClose", ec |-> ec]
  <2>1. /\ ready' = Append(ready, h) /\ closing > 0 /\ connected' = FALSE
        /\ UNCHANGED <<inline, started, stops, starting, crashed, stream, reading>>
    BY <1>1 DEF CloseCompletes, appVars
  <2>2. h \in QueuedHandlers /\ h.handler = "onClose" /\ h.handler \notin ReadHandlers
    BY DEF QueuedHandlers, Errors, ReadHandlers
  <2> HIDE DEF h
  <2>3. started /\ starting = "no" /\ ~("asyncClose" \in inline /\ stops = 0)
    BY <2>1 DEF Protected, Alone, OneAtATime
  <2>4. "asyncClose" \notin inline => ReadsBeforeClose' /\ CloseDisconnects' /\ ~crashed'
    BY <2>1, <2>2, QueueProtects DEF Protected
  <2> QED BY <2>1, <2>3, <2>4 DEF Protected, Alone
<1>2. CASE OperationVanishes
  <2>1. /\ started /\ ~stream
        /\ \/ closing > 0
           \/ reading # "none" /\ reading' = "none" /\ UNCHANGED closing
        /\ UNCHANGED <<inline, started, stops, starting, crashed, stream, connected, ready>>
    BY <1>2 DEF OperationVanishes, appVars, endVars
  <2>2. starting = "no" /\ ~("asyncClose" \in inline /\ stops = 0)
    BY <2>1 DEF Protected, Alone, OneAtATime
  <2> QED BY <2>1, <2>2
          DEF Protected, Alone, ReadsBeforeClose, CloseDisconnects, UsesStream
<1> QED BY <1>1, <1>2 DEF CloseEnds

-----------------------------------------------------------------------------
\* Every variable of the session keeps its type, and what StreamMeta knows comes from the
\* "init" contents, however start() and stop() overlap and however the stream calls back
\* (ProtocolHandler.cpp, StreamMeta.cpp, MetaInformation.cpp).
THEOREM SessionTypes == SessionSpec => []SessionTypeOK
<1>1. SessionInv => SessionTypeOK
  BY DEF SessionInv
<1> QED BY <1>1, SessionInitial, SessionStepKeeps, PTL DEF SessionSpec

\* If stop() keeps away from start(), no handler touches a destroyed stream, however many
\* calls of stop(), failed reads and ends of closes meet: always with a stream whose close
\* calls back through the io_context, and without stop() also with one that calls back at
\* once (ProtocolHandler.cpp:22-36, :87-88, :98, :107, :127, :142-195).
THEOREM StreamNotUsedAfterClose ==
    ASSUME ~StopOverlapsStart
    PROVE  SessionSpec => []NeverUsesDestroyedStream
<1>1. SessionInv /\ Protected /\ [SessionNext]_sessionVars => (SessionInv /\ Protected)'
  <2> SUFFICES ASSUME SessionInv, Protected, [SessionNext]_sessionVars
               PROVE  SessionInv' /\ Protected'
    OBVIOUS
  <2>1. CASE UNCHANGED sessionVars
    BY <2>1, SessionStepKeeps
       DEF sessionVars, appVars, metaVars, closeVars, endVars, Protected, Alone, UsesStream,
           ReadsBeforeClose, CloseDisconnects, OneAtATime
  <2>2. CASE SessionNext
    BY <2>2, SessionStepKeeps, ReadHandlersProtect, onCloseProtects, StartProtects,
       stopProtects, ReadCompletesProtects, CloseProtects
       DEF SessionNext, Handler
  <2> QED BY <2>1, <2>2
<1>2. SessionInv /\ Protected => NeverUsesDestroyedStream
  BY DEF Protected, NeverUsesDestroyedStream, StreamOutlivesUse
<1> QED BY <1>1, <1>2, SessionInitial, PTL DEF SessionSpec

\* A started session that has not completed waits for the rest of start(), a read, a close
\* or a queued handler; it never falls silent (ProtocolHandler.cpp:22-36, :92-191).
THEOREM SessionNeverSilent == SessionSpec => []NeverSilent
<1>1. SessionInv => NeverSilent
  BY DEF SessionInv, StillWaiting, NeverSilent
<1> QED BY <1>1, SessionInitial, SessionStepKeeps, PTL DEF SessionSpec
=============================================================================
