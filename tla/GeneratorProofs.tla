-------------------------- MODULE GeneratorProofs ---------------------------
(***************************************************************************)
(* Proofs about module SignalGenerator, for every set of signals, every    *)
(* order of their ids, every period, execution time and word width.        *)
(*                                                                         *)
(* What start() does is, call by call, what a dated session can take (see  *)
(* StreamingProofs), although the generator keeps none of the rules of     *)
(* module Streaming by itself: where the worker is tells which signals are *)
(* acknowledged and which tables have a start.  A ledger of every signal's *)
(* samples then goes from process() through the stream to the client.      *)
(***************************************************************************)
EXTENDS SignalGenerator, StreamingProofs

\* The generator's configuration: each table has one time signal and a data signal,
\* explicit time goes with asynchronous values, and every signal counts from value 0.
Configured ==
    /\ Paired /\ Setups = {SignalNumbers} /\ Indexes = {0}
    /\ \A t \in Times : \E n \in Values : TableOf[n] = TableOf[t]

Phases == {"configured", "subscribe", "init", "loop", "process", "sleep",
           "unsubscribe", "returned"}
Playing == {"init", "loop", "process", "sleep"}
Ending == {"unsubscribe", "returned"}

\* The signals start() has passed and those from where it is.
Before(o, i) == {o[k] : k \in 1 .. i - 1}
From(o, i) == {o[k] : k \in i .. Len(o)}

(* Where the worker is. *)

Placed ==
    /\ order \in Orders
    /\ at \in [phase : Phases, i : Nat, left : Nat]
    /\ 1 <= at.i /\ at.i <= Len(order) + 1

Acknowledged ==
    /\ at.phase \in {"configured", "returned"} => acked = {}
    /\ at.phase = "subscribe" => acked = Before(order, at.i)
    /\ at.phase \in Playing => acked = SignalNumbers
    /\ at.phase = "unsubscribe" => acked = From(order, at.i)

Begun ==
    /\ at.phase \in {"configured", "subscribe"} => started = {}
    /\ at.phase = "init" => started = Times \cap Before(order, at.i)
    /\ at.phase \in Playing \ {"init"} => started = Times

InCall ==
    /\ at.phase # "subscribe" => control = Idle
    /\ sender # Idle =>
           /\ at.phase = "process" /\ MoreSignals /\ at.left = 0
           /\ sender.packet.signal = Current
    /\ at.left > 0 =>
           at.phase = "process" /\ MoreSignals /\ Kind[Current] = "AsynchronousSignal"

Positioned == Placed /\ Acknowledged /\ Begun /\ InCall

\* What time it is.
Clocked ==
    /\ now \in Nat /\ lastProcess \in [Values -> Nat]
    /\ \A n \in Values : lastProcess[n] <= now
    /\ at.phase \in {"configured", "subscribe", "init"} =>
           now = 0 /\ \A n \in Values : valueIndex[n] = 0
    /\ \A t \in LinearTimes : rate[t] = Period[TableOf[t]]
    /\ \A n \in Counted : TimesOf(n) \subseteq started =>
           nextTime[n] = (StartTicks + lastProcess[n]) % Wrap

\* No signal is subscribed behind an unsubscribe.
Leaves(packets) == \E i \in 1 .. Len(packets) : packets[i].kind = "unsubscribe"
InOrder(packets) ==
    \A i, j \in 1 .. Len(packets) :
        packets[i].kind = "unsubscribe" /\ packets[j].kind = "subscribe" => j < i

Ordered == InOrder(channel) /\ (at.phase \notin Ending => ~Leaves(channel))

(* The ledger of a signal's samples. *)

Announced(packets, n) ==
    \E i \in 1 .. Len(packets) : packets[i].kind = "subscribe" /\ packets[i].signal = n

Due(n) ==
    \/ n \in DOMAIN infos
    \/ at.phase \in {"configured", "subscribe"}
    \/ Announced(channel, n)

Tally(n) == IF n \in DOMAIN infos THEN infos[n] ELSE 0

Balanced(n) ==
    Tally(n) + OnTheWay(channel, n) + AboutToWrite(n) = lastProcess[n] \div SamplePeriod(n)

Recorded ==
    /\ infos = [n \in DOMAIN subscribedSignals |-> infos[n]]
    /\ \A n \in Values : Tally(n) \in Nat
    /\ \A n \in Values : Due(n) => Balanced(n)

InStep ==
    /\ SessionInv("dated") /\ Promised("dated")
    /\ Positioned /\ Clocked /\ Ordered /\ Recorded

GeneratorInv ==
    /\ thrown = FALSE /\ TimeStampsTrue /\ connected \in BOOLEAN
    /\ connected => InStep

-----------------------------------------------------------------------------
(* Orders and packets. *)

LEMMA ConfiguredAttains == Configured => Attainable("dated")
BY DEF Configured, Paired, Attainable, Delivers, Dates

\* The signals before and from each place.
LEMMA PlacesOf ==
    ASSUME NEW o \in Orders
    PROVE  /\ Len(o) \in Nat
           /\ Before(o, 1) = {} /\ Before(o, Len(o) + 1) = SignalNumbers
           /\ From(o, 1) = SignalNumbers /\ From(o, Len(o) + 1) = {}
<1>1. o \in Seq(SignalNumbers) /\ Range(o) = SignalNumbers
  BY GeneratorAssumption
<1>2. Len(o) \in Nat /\ DOMAIN o = 1 .. Len(o)
  BY <1>1
<1>3. {o[k] : k \in 1 .. Len(o)} = SignalNumbers
  BY <1>1, <1>2 DEF Range
<1>4. (Len(o) + 1) - 1 = Len(o)
  BY <1>2
<1>5. 1 .. 1 - 1 = {} /\ Len(o) + 1 .. Len(o) = {}
  BY <1>2
<1> QED BY <1>2, <1>3, <1>4, <1>5 DEF Before, From

LEMMA NextPlace ==
    ASSUME NEW o \in Orders, NEW i \in 1 .. Len(o)
    PROVE  /\ o[i] \in SignalNumbers
           /\ o[i] \notin Before(o, i) /\ Before(o, i + 1) = Before(o, i) \cup {o[i]}
           /\ o[i] \in From(o, i) /\ From(o, i + 1) = From(o, i) \ {o[i]}
<1>1. o \in Seq(SignalNumbers) /\ IsInjective(o)
  BY GeneratorAssumption
<1>2. Len(o) \in Nat /\ DOMAIN o = 1 .. Len(o) /\ i \in Nat /\ o[i] \in SignalNumbers
  BY <1>1
<1>3. \A k \in 1 .. Len(o) : o[k] = o[i] => k = i
  BY <1>1, <1>2 DEF IsInjective
<1>4. /\ \A k : k \in 1 .. (i + 1) - 1 <=> k \in 1 .. i - 1 \/ k = i
      /\ \A k : k \in i + 1 .. Len(o) <=> k \in i .. Len(o) /\ k # i
      /\ \A k \in 1 .. i - 1 : k \in 1 .. Len(o) /\ k # i
      /\ \A k \in i .. Len(o) : k \in 1 .. Len(o)
      /\ i \in i .. Len(o)
  BY <1>2
<1>5. o[i] \notin Before(o, i) /\ o[i] \in From(o, i)
  BY <1>3, <1>4 DEF Before, From
<1>6. Before(o, i + 1) = Before(o, i) \cup {o[i]}
  BY ONLY <1>4 DEF Before
<1>7. From(o, i + 1) = From(o, i) \ {o[i]}
  BY ONLY <1>3, <1>4 DEF From
<1> QED BY <1>2, <1>5, <1>6, <1>7

\* A packet more at the end of the stream,
LEMMA OneMore ==
    ASSUME NEW packets, IsSequence(packets), NEW packet,
           NEW more, more = Append(packets, packet)
    PROVE  /\ InOrder(packets) /\ (packet.kind = "subscribe" => ~Leaves(packets))
              => InOrder(more)
           /\ Leaves(more) => Leaves(packets) \/ packet.kind = "unsubscribe"
           /\ \A n : Announced(more, n) =>
                  Announced(packets, n) \/ (packet.kind = "subscribe" /\ packet.signal = n)
<1>1. PICK S : packets \in Seq(S)
  BY DEF IsSequence
<1>2. PICK l : l = Len(packets)
  OBVIOUS
<1>3. packets \in Seq(S \cup {packet}) /\ l \in Nat
  BY <1>1, <1>2
<1>4. Len(more) = l + 1 /\ more[l + 1] = packet /\ \A i \in 1 .. l : more[i] = packets[i]
  BY <1>2, <1>3, AppendProperties
<1>5. \A i \in 1 .. Len(more) :
          \/ i = l + 1 /\ more[i] = packet
          \/ i \in 1 .. l /\ i < l + 1 /\ more[i] = packets[i]
  BY <1>3, <1>4
<1>6. Leaves(more) => Leaves(packets) \/ packet.kind = "unsubscribe"
  BY <1>2, <1>5 DEF Leaves
<1>7. \A n : Announced(more, n) =>
          Announced(packets, n) \/ (packet.kind = "subscribe" /\ packet.signal = n)
  BY <1>2, <1>5 DEF Announced
<1>8. ASSUME InOrder(packets), packet.kind = "subscribe" => ~Leaves(packets)
      PROVE  InOrder(more)
  <2> SUFFICES ASSUME NEW i \in 1 .. Len(more), NEW j \in 1 .. Len(more),
                      more[i].kind = "unsubscribe", more[j].kind = "subscribe"
               PROVE  j < i
    BY DEF InOrder
  <2>1. CASE i = l + 1
    <3>1. j # i
      OBVIOUS
    <3> QED BY <1>5, <2>1, <3>1
  <2>2. CASE i # l + 1
    <3>1. i \in 1 .. l /\ packets[i].kind = "unsubscribe" /\ Leaves(packets)
      BY <1>2, <1>5, <2>2 DEF Leaves
    <3>2. j \in 1 .. l /\ packets[j].kind = "subscribe"
      BY <1>5, <1>8, <3>1
    <3> QED BY <1>2, <1>8, <3>1, <3>2 DEF InOrder
  <2> QED BY <2>1, <2>2
<1> QED BY <1>6, <1>7, <1>8

\* and one less at its front.
LEMMA OneTaken ==
    ASSUME NEW packets, IsSequence(packets), packets # <<>>, InOrder(packets),
           NEW rest, rest = Tail(packets)
    PROVE  /\ InOrder(rest) /\ (Leaves(rest) => Leaves(packets))
           /\ \A n : Announced(rest, n) => Announced(packets, n)
           /\ packets[1].kind = "subscribe" => Announced(packets, packets[1].signal)
           /\ packets[1].kind = "unsubscribe" =>
                  Leaves(packets) /\ \A n : ~Announced(rest, n)
<1>1. PICK S : packets \in Seq(S)
  BY DEF IsSequence
<1>2. PICK l : l = Len(packets)
  OBVIOUS
<1>3. /\ l \in Nat /\ l >= 1 /\ Len(rest) = l - 1
      /\ \A i \in 1 .. l - 1 : rest[i] = packets[i + 1]
  BY <1>1, <1>2, HeadTailProperties
<1>4. \A i \in 1 .. Len(rest) : i + 1 \in 1 .. l /\ rest[i] = packets[i + 1] /\ i \in Nat /\ i >= 1
  BY <1>3
<1>5. 1 \in 1 .. l
  BY <1>3
<1>6. /\ Leaves(rest) => Leaves(packets)
      /\ \A n : Announced(rest, n) => Announced(packets, n)
      /\ packets[1].kind = "subscribe" => Announced(packets, packets[1].signal)
      /\ packets[1].kind = "unsubscribe" => Leaves(packets)
  BY <1>2, <1>4, <1>5 DEF Leaves, Announced
<1>7. ASSUME packets[1].kind = "unsubscribe", NEW n, Announced(rest, n)
      PROVE  FALSE
  <2>1. PICK i \in 1 .. Len(rest) : rest[i].kind = "subscribe"
    BY <1>7 DEF Announced
  <2>2. i + 1 < 1
    BY <1>2, <1>4, <1>5, <1>7, <2>1 DEF InOrder
  <2> QED BY <1>4, <2>1, <2>2
<1>8. InOrder(rest)
  <2> SUFFICES ASSUME NEW i \in 1 .. Len(rest), NEW j \in 1 .. Len(rest),
                      rest[i].kind = "unsubscribe", rest[j].kind = "subscribe"
               PROVE  j < i
    BY DEF InOrder
  <2>1. j + 1 < i + 1
    BY <1>2, <1>4 DEF InOrder
  <2> QED BY <1>4, <2>1
<1> QED BY <1>6, <1>7, <1>8

-----------------------------------------------------------------------------
(* The worker. *)

\* What the invariant says of the worker's surroundings.
LEMMA Surroundings ==
    ASSUME Configured, InStep
    PROVE  /\ setup = SignalNumbers /\ ChannelOK /\ SenderOK /\ StreamTypeOK
           /\ acked \in SUBSET SignalNumbers /\ started \in SUBSET Times
           /\ MoreSignals => /\ at.i \in 1 .. Len(order) /\ Current \in SignalNumbers
                             /\ at.i + 1 <= Len(order) + 1
           /\ ~MoreSignals => at.i = Len(order) + 1
           /\ at.i \in Nat /\ at.left \in Nat /\ at.phase \in Phases /\ Len(order) \in Nat
           /\ at = [phase |-> at.phase, i |-> at.i, left |-> at.left]
<1>1. TypeInv /\ Placed
  BY DEF InStep, SessionInv, Positioned
<1>2. /\ setup = SignalNumbers /\ ChannelOK /\ SenderOK /\ StreamTypeOK
      /\ acked \in SUBSET SignalNumbers /\ started \in SUBSET Times
  BY <1>1 DEF TypeInv, StreamTypeOK, Configured
<1>3. Len(order) \in Nat
  BY <1>1, PlacesOf DEF Placed
<1>4. /\ at.i \in Nat /\ 1 <= at.i /\ at.i <= Len(order) + 1
      /\ at.left \in Nat /\ at.phase \in Phases
      /\ at = [phase |-> at.phase, i |-> at.i, left |-> at.left]
  BY <1>1 DEF Placed
<1>5. ASSUME MoreSignals
      PROVE  /\ at.i \in 1 .. Len(order) /\ Current \in SignalNumbers
             /\ at.i + 1 <= Len(order) + 1
  <2>1. at.i \in 1 .. Len(order) /\ at.i + 1 <= Len(order) + 1
    BY <1>3, <1>4, <1>5 DEF MoreSignals
  <2> QED BY <1>1, <2>1, NextPlace DEF Placed, Current
<1>6. ~MoreSignals => at.i = Len(order) + 1
  BY <1>3, <1>4 DEF MoreSignals
<1> QED BY <1>2, <1>3, <1>4, <1>5, <1>6

\* Where start() goes on.
LEMMA GoesTo ==
    ASSUME NEW phase, NEW i, at' = At(phase, i)
    PROVE  /\ at'.phase = phase /\ at'.i = i /\ at'.left = 0
           /\ phase \in Phases /\ i \in Nat => at' \in [phase : Phases, i : Nat, left : Nat]
BY DEF At

\* The calls of the generator and what they leave alone.
LEMMA StreamKept ==
    ASSUME Configured, InStep, ProperStep("dated") \/ UNCHANGED streamVars
    PROVE  /\ SessionInv("dated")' /\ Promised("dated")'
           /\ UNCHANGED <<setup, subscribedSignals>>
<1>1. CASE ProperStep("dated")
  <2>1. SessionInv("dated")' /\ UNCHANGED <<setup, consumerVars>>
    BY <1>1, ConfiguredAttains, ProperStepKeeps DEF InStep
  <2>2. Promised("dated")'
    BY <2>1, PromisesStay DEF InStep
  <2> QED BY <2>1, <2>2 DEF consumerVars, containerVars
<1>2. CASE UNCHANGED streamVars
  <2>1. UNCHANGED <<setup, consumerVars>>
    BY <1>2 DEF streamVars, producerVars
  <2>2. SessionInv("dated")'
    BY <1>2, SessionStutters DEF InStep
  <2>3. Promised("dated")'
    BY <2>1, PromisesStay DEF InStep
  <2> QED BY <2>1, <2>2, <2>3 DEF consumerVars, containerVars
<1> QED BY <1>1, <1>2

\* Nothing is about to be written outside a call and between tuples.
LEMMA NothingAbout ==
    ASSUME sender = Idle, at.left = 0, NEW n
    PROVE  AboutToWrite(n) = 0
BY DEF AboutToWrite

\* A step of the worker that writes no values keeps the ledgers.
LEMMA LedgerKept ==
    ASSUME Configured, InStep, UNCHANGED <<setup, subscribedSignals, lastProcess, infos, sender>>,
           sender = Idle, at.left = 0, at'.left = 0,
           at'.phase \in {"configured", "subscribe"} => at.phase \in {"configured", "subscribe"},
           \/ UNCHANGED channel
           \/ \E packet : /\ channel' = Append(channel, packet) /\ Written(packet)
                          /\ \A n \in Values : Share(packet, n) = 0
                          /\ packet.kind = "subscribe" => at.phase = "subscribe"
    PROVE  Recorded'
<1>1. \A n \in Values : AboutToWrite(n) = 0
  BY NothingAbout
<1>2. \A n \in Values : AboutToWrite(n)' = 0
  BY DEF AboutToWrite
<1>3. ChannelOK
  BY DEF InStep, SessionInv, TypeInv
<1>4. \A n \in Values : /\ OnTheWay(channel, n)' = OnTheWay(channel, n)
                        /\ Announced(channel, n)' =>
                               Announced(channel, n) \/ at.phase = "subscribe"
  <2>1. CASE UNCHANGED channel
    BY <2>1
  <2>2. ASSUME NEW packet, channel' = Append(channel, packet), Written(packet),
               \A n \in Values : Share(packet, n) = 0,
               packet.kind = "subscribe" => at.phase = "subscribe"
        PROVE  \A n \in Values : /\ OnTheWay(channel, n)' = OnTheWay(channel, n)
                                 /\ Announced(channel, n)' =>
                                        Announced(channel, n) \/ at.phase = "subscribe"
    <3>1. \A n \in Values : OnTheWay(channel', n) = OnTheWay(channel, n)
      <4> TAKE n \in Values
      <4>1. /\ OnTheWay(channel', n) = OnTheWay(channel, n) + Share(packet, n)
            /\ OnTheWay(channel, n) \in Nat
        BY <1>3, <2>2, ValuesMore, ZenonT(30) DEF ChannelOK
      <4> QED BY <2>2, <4>1
    <3>2. \A n : Announced(channel', n) =>
              Announced(channel, n) \/ (packet.kind = "subscribe" /\ packet.signal = n)
      BY <1>3, <2>2, OneMore DEF ChannelOK
    <3> QED BY <2>2, <3>1, <3>2
  <2> QED BY <2>1, <2>2
<1>5. \A n \in Values : Due(n)' => Due(n)
  BY <1>4 DEF Due
<1>6. \A n \in Values : Tally(n)' = Tally(n)
  BY DEF Tally
<1>7. \A n \in Values : Balanced(n) => Balanced(n)'
  BY <1>1, <1>2, <1>4, <1>6 DEF Balanced, SamplePeriod
<1> QED BY <1>5, <1>6, <1>7 DEF InStep, Recorded

\* A step between the calls moves the worker and, at most, the time.
LEMMA BetweenCallsKept ==
    ASSUME Configured, InStep, UNCHANGED <<streamVars, lastProcess, infos>>, Positioned',
           sender = Idle, at.left = 0, at'.left = 0, now' \in Nat, now' >= now,
           at'.phase \in {"configured", "subscribe"} => at.phase \in {"configured", "subscribe"},
           at'.phase \in {"configured", "subscribe", "init"} =>
               at.phase \in {"configured", "subscribe", "init"} /\ now' = now,
           at.phase \in Ending => at'.phase \in Ending
    PROVE  InStep'
<1>1. SessionInv("dated")' /\ Promised("dated")' /\ UNCHANGED <<setup, subscribedSignals>>
  BY StreamKept
<1>2. UNCHANGED <<channel, sender, valueIndex, rate, started, nextTime>>
  BY DEF streamVars, producerVars
<1>3. Recorded'
  BY <1>1, <1>2, LedgerKept
<1>4. Ordered'
  BY <1>2 DEF InStep, Ordered, Ending
<1>5. Clocked'
  <2>1. Clocked
    BY DEF InStep
  <2>2. now' \in Nat /\ lastProcess' \in [Values -> Nat] /\ \A n \in Values : lastProcess'[n] <= now'
    BY <2>1 DEF Clocked
  <2>3. at'.phase \in {"configured", "subscribe", "init"} =>
            now' = 0 /\ \A n \in Values : valueIndex'[n] = 0
    BY <1>2, <2>1 DEF Clocked
  <2>4. \A t \in LinearTimes : rate'[t] = Period[TableOf[t]]
    BY <1>2, <2>1 DEF Clocked
  <2>5. \A n \in Counted : TimesOf(n)' \subseteq started' =>
            nextTime'[n] = (StartTicks + lastProcess'[n]) % Wrap
    BY <1>1, <1>2, <2>1 DEF Clocked, TimesOf
  <2> QED BY <2>2, <2>3, <2>4, <2>5 DEF Clocked
<1> QED BY <1>1, <1>3, <1>4, <1>5 DEF InStep

\* No call is open before and after the processing, and none while it has signals left.
LEMMA CallsClosed ==
    ASSUME Configured, InStep, at.phase # "process" \/ ~MoreSignals
    PROVE  sender = Idle /\ at.left = 0
BY Surroundings DEF InStep, Positioned, InCall

\* The steps of start() between its calls (signalgenerator.cpp:176-204).
LEMMA LocalKeeps ==
    ASSUME Configured, InStep,
           Start \/ AllSubscribed \/ AllStarted \/ LoopOrFinish \/ NothingToDo \/ AllProcessed
           \/ Return
    PROVE  InStep'
<1> USE DEF Phases, Playing, Ending
<1>1. /\ at.i \in Nat /\ at.phase \in Phases /\ Len(order) \in Nat
      /\ MoreSignals => at.i + 1 <= Len(order) + 1 /\ at.i + 1 \in Nat /\ 1 <= at.i + 1
      /\ ~MoreSignals => at.i = Len(order) + 1
  BY Surroundings
<1>2. /\ Placed /\ Acknowledged /\ Begun /\ InCall
  BY DEF InStep, Positioned
<1>3. order \in Orders /\ 1 <= Len(order) + 1 /\ now \in Nat
  BY <1>1, <1>2 DEF Placed, InStep, Clocked
<1>4. /\ Before(order, 1) = {} /\ Before(order, Len(order) + 1) = SignalNumbers
      /\ From(order, 1) = SignalNumbers /\ From(order, Len(order) + 1) = {}
  BY <1>3, PlacesOf
<1>5. Times \cap SignalNumbers = Times /\ Times \cap {} = {}
  BY DEF Times
<1>6. ASSUME NEW phase \in Phases, NEW i \in Nat, 1 <= i, i <= Len(order) + 1, Local(phase, i),
             sender = Idle, at.left = 0, phase # "subscribe" => control = Idle,
             phase \in {"configured", "subscribe"} => at.phase \in {"configured", "subscribe"},
             phase \in {"configured", "subscribe", "init"} =>
                 at.phase \in {"configured", "subscribe", "init"},
             at.phase \in Ending => phase \in Ending,
             phase \in {"configured", "returned"} => acked = {},
             phase = "subscribe" => acked = Before(order, i),
             phase \in Playing => acked = SignalNumbers,
             phase = "unsubscribe" => acked = From(order, i),
             phase \in {"configured", "subscribe"} => started = {},
             phase = "init" => started = Times \cap Before(order, i),
             phase \in Playing \ {"init"} => started = Times
      PROVE  InStep'
  <2>1. /\ at' = At(phase, i) /\ UNCHANGED <<order, now, lastProcess, infos, streamVars>>
    BY <1>6 DEF Local, clientVars
  <2>2. /\ at'.phase = phase /\ at'.i = i /\ at'.left = 0
        /\ at' \in [phase : Phases, i : Nat, left : Nat]
    BY <2>1, GoesTo
  <2>3. UNCHANGED <<control, sender, acked, started>>
    BY <2>1 DEF streamVars, producerVars
  <2>4. Placed' /\ Acknowledged' /\ Begun'
    BY <1>3, <1>6, <2>1, <2>2, <2>3 DEF Placed, Acknowledged, Begun
  <2>5. InCall'
    BY <1>6, <2>2, <2>3 DEF InCall
  <2> HIDE DEF Phases, Playing
  <2> QED BY <1>3, <1>6, <2>1, <2>2, <2>4, <2>5, BetweenCallsKept DEF Positioned
<1>7. CASE Start
  <2>1. at.phase = "configured" /\ Local("subscribe", 1)
    BY <1>7 DEF Start
  <2>2. sender = Idle /\ at.left = 0 /\ acked = {} /\ started = {}
    BY <1>2, <2>1, CallsClosed DEF Acknowledged, Begun
  <2> QED BY <1>3, <1>4, <1>6, <2>1, <2>2
<1>8. CASE AllSubscribed
  <2>1. at.phase = "subscribe" /\ control = Idle /\ ~MoreSignals /\ Local("init", 1)
    BY <1>8 DEF AllSubscribed, BetweenCalls
  <2>2. sender = Idle /\ at.left = 0 /\ acked = SignalNumbers /\ started = {}
    BY <1>1, <1>2, <1>4, <2>1, CallsClosed DEF Acknowledged, Begun
  <2> QED BY <1>3, <1>4, <1>5, <1>6, <2>1, <2>2
<1>9. CASE AllStarted
  <2>1. at.phase = "init" /\ ~MoreSignals /\ Local("loop", 1)
    BY <1>9 DEF AllStarted
  <2>2. /\ sender = Idle /\ at.left = 0 /\ acked = SignalNumbers /\ started = Times
        /\ control = Idle
    BY <1>1, <1>2, <1>4, <1>5, <2>1, CallsClosed DEF Acknowledged, Begun, InCall
  <2> QED BY <1>3, <1>6, <2>1, <2>2
<1>10. CASE LoopOrFinish
  <2>1. at.phase = "loop" /\ (Local("process", 1) \/ Local("unsubscribe", 1))
    BY <1>10 DEF LoopOrFinish
  <2>2. /\ sender = Idle /\ at.left = 0 /\ acked = SignalNumbers /\ started = Times
        /\ control = Idle
    BY <1>2, <2>1, CallsClosed DEF Acknowledged, Begun, InCall
  <2> QED BY <1>3, <1>4, <1>6, <2>1, <2>2
<1>11. CASE NothingToDo
  <2>1. /\ at.phase = "process" /\ MoreSignals /\ at.left = 0 /\ sender = Idle
        /\ Local("process", at.i + 1)
    BY <1>11 DEF NothingToDo
  <2>2. acked = SignalNumbers /\ started = Times /\ control = Idle
    BY <1>2, <2>1 DEF Acknowledged, Begun, InCall
  <2> QED BY <1>1, <1>6, <2>1, <2>2
<1>12. CASE AllProcessed
  <2>1. at.phase = "process" /\ ~MoreSignals /\ Local("sleep", 1)
    BY <1>12 DEF AllProcessed
  <2>2. /\ sender = Idle /\ at.left = 0 /\ acked = SignalNumbers /\ started = Times
        /\ control = Idle
    BY <1>2, <2>1, CallsClosed DEF Acknowledged, Begun, InCall
  <2> QED BY <1>3, <1>6, <2>1, <2>2
<1>13. CASE Return
  <2>1. at.phase = "unsubscribe" /\ ~MoreSignals /\ Local("returned", 1)
    BY <1>13 DEF Return
  <2>2. sender = Idle /\ at.left = 0 /\ acked = {} /\ control = Idle
    BY <1>1, <1>2, <1>4, <2>1, CallsClosed DEF Acknowledged, Begun, InCall
  <2> QED BY <1>3, <1>6, <2>1, <2>2
<1> QED BY <1>7, <1>8, <1>9, <1>10, <1>11, <1>12, <1>13

\* The loop's time goes on (signalgenerator.cpp:198).
LEMMA TimeKeeps ==
    ASSUME Configured, InStep, AdvanceTime
    PROVE  InStep'
<1>1. /\ at.phase = "sleep" /\ at' = At("loop", 1) /\ now' = now + Truncated(ProcessPeriod)
      /\ UNCHANGED <<streamVars, order, lastProcess, infos>>
  BY DEF AdvanceTime, clientVars
<1>2. /\ at'.phase = "loop" /\ at'.i = 1 /\ at'.left = 0
      /\ at' \in [phase : Phases, i : Nat, left : Nat]
  BY <1>1, GoesTo DEF Phases
<1>3. Truncated(ProcessPeriod) = ProcessPeriod /\ ProcessPeriod \in Nat
  BY WholeTicksAssumption, GeneratorAssumption DEF Truncated
<1>4. now \in Nat /\ now' \in Nat /\ now' >= now
  BY <1>1, <1>3 DEF InStep, Clocked
<1>5. /\ sender = Idle /\ at.left = 0 /\ Placed /\ Acknowledged /\ Begun /\ InCall
  BY <1>1, CallsClosed DEF InStep, Positioned
<1>6. UNCHANGED <<control, sender, acked, started>>
  BY <1>1 DEF streamVars, producerVars
<1>7. Len(order) \in Nat
  BY Surroundings
<1>8. Placed' /\ Acknowledged' /\ Begun' /\ InCall'
  BY <1>1, <1>2, <1>5, <1>6, <1>7 DEF Placed, Acknowledged, Begun, InCall, Playing
<1> QED BY <1>1, <1>2, <1>4, <1>5, <1>8, BetweenCallsKept DEF Positioned, Ending

\* A call that adds no values, with the packet it writes.
LEMMA CallKept ==
    ASSUME Configured, InStep, ProperStep("dated"), Positioned', Clocked',
           UNCHANGED <<lastProcess, infos, sender>>, sender = Idle, at.left = 0, at'.left = 0,
           at'.phase = at.phase,
           \/ UNCHANGED channel
           \/ \E packet : /\ channel' = Append(channel, packet) /\ Written(packet)
                          /\ \A n \in Values : Share(packet, n) = 0
                          /\ packet.kind = "subscribe" => at.phase = "subscribe"
                          /\ packet.kind = "unsubscribe" => at.phase = "unsubscribe"
    PROVE  InStep'
<1>1. SessionInv("dated")' /\ Promised("dated")' /\ UNCHANGED <<setup, subscribedSignals>>
  BY StreamKept
<1>2. Recorded'
  BY <1>1, LedgerKept
<1>3. Ordered'
  <2>1. CASE UNCHANGED channel
    BY <2>1 DEF InStep, Ordered
  <2>2. ASSUME NEW packet, channel' = Append(channel, packet),
               packet.kind = "subscribe" => at.phase = "subscribe",
               packet.kind = "unsubscribe" => at.phase = "unsubscribe"
        PROVE  Ordered'
    <3>1. IsSequence(channel)
      BY DEF InStep, SessionInv, TypeInv, ChannelOK
    <3>2. /\ InOrder(channel) /\ (packet.kind = "subscribe" => ~Leaves(channel))
             => InOrder(channel')
          /\ Leaves(channel') => Leaves(channel) \/ packet.kind = "unsubscribe"
      BY <2>2, <3>1, OneMore
    <3> QED BY <2>2, <3>2 DEF InStep, Ordered, Ending
  <2> QED BY <2>1, <2>2
<1> QED BY <1>1, <1>2, <1>3 DEF InStep

\* The clock does not care for a call that tells no time.
LEMMA ClockKept ==
    ASSUME Configured, InStep, at'.phase = at.phase, started' \in SUBSET started,
           UNCHANGED <<setup, now, lastProcess, valueIndex, rate, nextTime>>
    PROVE  Clocked'
<1>1. Clocked
  BY DEF InStep
<1>2. now' \in Nat /\ lastProcess' \in [Values -> Nat] /\ \A n \in Values : lastProcess'[n] <= now'
  BY <1>1 DEF Clocked
<1>3. at'.phase \in {"configured", "subscribe", "init"} =>
          now' = 0 /\ \A n \in Values : valueIndex'[n] = 0
  BY <1>1 DEF Clocked
<1>4. \A t \in LinearTimes : rate'[t] = Period[TableOf[t]]
  BY <1>1 DEF Clocked
<1>5. \A n \in Counted : TimesOf(n)' \subseteq started' =>
          nextTime'[n] = (StartTicks + lastProcess'[n]) % Wrap
  BY <1>1 DEF Clocked, TimesOf
<1> QED BY <1>2, <1>3, <1>4, <1>5 DEF Clocked

\* subscribeSignals(): each signal once (signalgenerator.cpp:178).
LEMMA SubscribeKeeps ==
    ASSUME Configured, InStep, connected, SubscribeNext
    PROVE  InStep'
<1>1. /\ at.phase = "subscribe" /\ control = Idle /\ sender = Idle /\ MoreSignals
      /\ Subscribe(Current) /\ at' = At("subscribe", at.i + 1)
      /\ UNCHANGED <<order, now, lastProcess, infos>>
  BY DEF SubscribeNext, BetweenCalls, GoOn, clientVars
<1>2. /\ at.i \in 1 .. Len(order) /\ Current \in SignalNumbers /\ at.i + 1 <= Len(order) + 1
      /\ at.i + 1 \in Nat /\ 1 <= at.i + 1
  BY <1>1, Surroundings
<1>3. Placed /\ Acknowledged /\ Begun /\ InCall /\ order \in Orders
  BY DEF InStep, Positioned, Placed
<1>4. /\ Current \notin Before(order, at.i)
      /\ Before(order, at.i + 1) = Before(order, at.i) \cup {Current}
  BY <1>2, <1>3, NextPlace DEF Current
<1>5. acked = Before(order, at.i) /\ started = {} /\ at.left = 0
  BY <1>1, <1>3, CallsClosed DEF Acknowledged, Begun
<1>6. ProperStep("dated")
  BY <1>1, <1>2, <1>4, <1>5 DEF ProperStep, ProperCall, Quiet
<1>7. /\ at'.phase = "subscribe" /\ at'.i = at.i + 1 /\ at'.left = 0
      /\ at' \in [phase : Phases, i : Nat, left : Nat]
  BY <1>1, <1>2, GoesTo DEF Phases
<1>8. PICK packet : /\ packet = [kind |-> "subscribe", signal |-> Current]
                    /\ channel' = Append(channel, packet)
  BY <1>1 DEF Subscribe, Write
<1>9. Written(packet) /\ \A n \in Values : Share(packet, n) = 0
  BY <1>2, <1>8 DEF Written, Share
<1>10. /\ acked' = acked \cup {Current}
       /\ UNCHANGED <<setup, valueIndex, rate, sender, started, nextTime>>
  BY <1>1 DEF Subscribe
<1>11. Placed'
  BY <1>1, <1>2, <1>3, <1>7 DEF Placed
<1>12. Acknowledged' /\ Begun' /\ InCall'
  BY <1>1, <1>4, <1>5, <1>7, <1>10 DEF Acknowledged, Begun, InCall, Playing
<1>13. Clocked'
  BY <1>1, <1>7, <1>10, ClockKept
<1> QED BY <1>1, <1>5, <1>6, <1>7, <1>8, <1>9, <1>10, <1>11, <1>12, <1>13, CallKept
        DEF Positioned

\* and its description behind it.
LEMMA DescribeKeeps ==
    ASSUME Configured, InStep, connected, DescribeNext
    PROVE  InStep'
<1>1. /\ at.phase = "subscribe" /\ UNCHANGED <<at, order, now, lastProcess, infos>>
      /\ ComposeDescription \/ WriteDescription
  BY DEF DescribeNext, GoOn, clientVars
<1>2. /\ Placed /\ Acknowledged /\ Begun /\ InCall /\ sender = Idle /\ at.left = 0
  BY <1>1, CallsClosed DEF InStep, Positioned
<1>3. ProperStep("dated")
  BY <1>1 DEF ProperStep
<1>4. UNCHANGED <<setup, acked, valueIndex, rate, sender, started, nextTime>>
  BY <1>1 DEF ComposeDescription, WriteDescription
<1>5. Positioned'
  BY <1>1, <1>2, <1>4 DEF Positioned, Placed, Acknowledged, Begun, InCall
<1>6. Clocked'
  BY <1>1, <1>4, ClockKept
<1>7. CASE ComposeDescription
  <2>1. UNCHANGED channel
    BY <1>7 DEF ComposeDescription
  <2> QED BY <1>1, <1>2, <1>3, <1>4, <1>5, <1>6, <2>1, CallKept
<1>8. CASE WriteDescription
  <2>1. PICK packet : /\ packet = [kind |-> "signal", signal |-> control.signal,
                                   params |-> control.params]
                      /\ channel' = Append(channel, packet)
    BY <1>8 DEF WriteDescription, Write
  <2>2. ControlOK /\ control.step = "write"
    BY <1>8 DEF WriteDescription, InStep, SessionInv, TypeInv
  <2>3. Written(packet) /\ \A n \in Values : Share(packet, n) = 0
    BY <2>1, <2>2 DEF ControlOK, Idle, Written, Share
  <2> QED BY <1>1, <1>2, <1>3, <1>4, <1>5, <1>6, <2>1, <2>3, CallKept
<1> QED BY <1>1, <1>7, <1>8

\* unsubscribeSignals() (signalgenerator.cpp:202).
LEMMA UnsubscribeKeeps ==
    ASSUME Configured, InStep, connected, UnsubscribeNext
    PROVE  InStep'
<1>1. /\ at.phase = "unsubscribe" /\ MoreSignals /\ Unsubscribe(Current)
      /\ at' = At("unsubscribe", at.i + 1) /\ UNCHANGED <<order, now, lastProcess, infos>>
  BY DEF UnsubscribeNext, GoOn, clientVars
<1>2. /\ at.i \in 1 .. Len(order) /\ Current \in SignalNumbers /\ at.i + 1 <= Len(order) + 1
      /\ at.i + 1 \in Nat /\ 1 <= at.i + 1
  BY <1>1, Surroundings
<1>3. Placed /\ Acknowledged /\ Begun /\ InCall /\ order \in Orders
  BY DEF InStep, Positioned, Placed
<1>4. Current \in From(order, at.i) /\ From(order, at.i + 1) = From(order, at.i) \ {Current}
  BY <1>2, <1>3, NextPlace DEF Current
<1>5. acked = From(order, at.i) /\ sender = Idle /\ control = Idle /\ at.left = 0
  BY <1>1, <1>3, CallsClosed DEF Acknowledged, InCall
<1>6. ProperStep("dated")
  BY <1>1, <1>4, <1>5 DEF ProperStep, ProperCall, Quiet
<1>7. /\ at'.phase = "unsubscribe" /\ at'.i = at.i + 1 /\ at'.left = 0
      /\ at' \in [phase : Phases, i : Nat, left : Nat]
  BY <1>1, <1>2, GoesTo DEF Phases
<1>8. PICK packet : /\ packet = [kind |-> "unsubscribe", signal |-> Current]
                    /\ channel' = Append(channel, packet)
  BY <1>1 DEF Unsubscribe, Write
<1>9. Written(packet) /\ \A n \in Values : Share(packet, n) = 0
  BY <1>2, <1>8 DEF Written, Share
<1>10. /\ acked' = acked \ {Current} /\ started' \in SUBSET started
       /\ UNCHANGED <<setup, valueIndex, rate, control, sender, nextTime>>
  BY <1>1 DEF Unsubscribe
<1>11. Placed'
  BY <1>1, <1>2, <1>3, <1>7 DEF Placed
<1>12. Acknowledged' /\ Begun' /\ InCall'
  BY <1>1, <1>4, <1>5, <1>7, <1>10 DEF Acknowledged, Begun, InCall, Playing
<1>13. Clocked'
  BY <1>1, <1>7, <1>10, ClockKept
<1> QED BY <1>1, <1>5, <1>6, <1>7, <1>8, <1>9, <1>10, <1>11, <1>12, <1>13, CallKept
        DEF Positioned

\* initAfterSubscribeAck(): every table gets its start, at index 0
\* (signalgenerator.cpp:179-183, generatedtimesignal.h:55-60).
LEMMA InitKeeps ==
    ASSUME Configured, InStep, connected, InitAfterSubscribeAck
    PROVE  InStep'
<1>1. /\ at.phase = "init" /\ MoreSignals /\ at' = At("init", at.i + 1)
      /\ UNCHANGED <<order, now, lastProcess, infos>>
      /\ \/ Current \in Times /\ SetTimeStart(Current, (StartTicks + now) % Wrap)
         \/ Current \notin Times /\ UNCHANGED streamVars
  BY DEF InitAfterSubscribeAck, GoOn, clientVars
<1>2. /\ at.i \in 1 .. Len(order) /\ Current \in SignalNumbers /\ at.i + 1 <= Len(order) + 1
      /\ at.i + 1 \in Nat /\ 1 <= at.i + 1 /\ setup = SignalNumbers
  BY <1>1, Surroundings
<1>3. Placed /\ Acknowledged /\ Begun /\ InCall /\ order \in Orders /\ Clocked
  BY DEF InStep, Positioned, Placed
<1>4. Before(order, at.i + 1) = Before(order, at.i) \cup {Current}
  BY <1>2, <1>3, NextPlace DEF Current
<1>5. /\ acked = SignalNumbers /\ started = Times \cap Before(order, at.i)
      /\ sender = Idle /\ control = Idle /\ at.left = 0
  BY <1>1, <1>3, CallsClosed DEF Acknowledged, Begun, InCall, Playing
<1>6. /\ at'.phase = "init" /\ at'.i = at.i + 1 /\ at'.left = 0
      /\ at' \in [phase : Phases, i : Nat, left : Nat]
  BY <1>1, <1>2, GoesTo DEF Phases
<1>7. Placed'
  BY <1>1, <1>2, <1>3, <1>6 DEF Placed
<1>8. now = 0 /\ \A n \in Values : lastProcess[n] = 0 /\ valueIndex[n] = 0
  BY <1>1, <1>3 DEF Clocked
<1>9. CASE Current \notin Times /\ UNCHANGED streamVars
  <2>1. UNCHANGED <<control, sender, acked, started>>
    BY <1>9 DEF streamVars, producerVars
  <2>2. Acknowledged' /\ Begun' /\ InCall'
    BY <1>1, <1>4, <1>5, <1>6, <1>9, <2>1 DEF Acknowledged, Begun, InCall, Playing
  <2> QED BY <1>1, <1>5, <1>6, <1>7, <1>8, <1>9, <2>2, BetweenCallsKept DEF Positioned, Ending
<1>10. CASE Current \in Times /\ SetTimeStart(Current, (StartTicks + now) % Wrap)
  <2>1. PICK t : t = Current
    OBVIOUS
  <2>2. PICK ticks : ticks = (StartTicks + now) % Wrap
    OBVIOUS
  <2>3. ticks \in Word
    BY <1>8, <2>2, WrapInWord, GeneratorAssumption DEF Word
  <2>4. t \in Times /\ SetTimeStart(t, ticks)
    BY <1>10, <2>1, <2>2
  <2>5. PICK packet : /\ packet = [kind |-> "data", signal |-> t, truth |-> Unset,
                                   payload |-> [len |-> 2 * IndexBytes, first |-> 0,
                                                second |-> ticks]]
                      /\ channel' = Append(channel, packet)
    BY <2>4 DEF SetTimeStart, Write
  <2>6. /\ started' = started \cup {t}
        /\ nextTime' = [n \in SignalNumbers |->
                           IF n \in DataOf(t) THEN MeantByStart(n, t, ticks) ELSE nextTime[n]]
        /\ UNCHANGED <<setup, valueIndex, rate, control, sender, acked>>
    BY <2>4 DEF SetTimeStart
  <2>7. MayStart(t, "dated")
    BY <1>2, <1>5, <1>8, <2>4 DEF MayStart, DataOf, Configured, Values
  <2>8. ProperStep("dated")
    <3>1. t \in Times \cap acked
      BY <1>5, <2>4 DEF Times
    <3>2. ProperCall("dated")
      BY <2>3, <2>4, <2>7, <3>1 DEF ProperCall
    <3> QED BY <1>5, <3>2 DEF ProperStep, Quiet
  <2>9. Written(packet) /\ \A n \in Values : Share(packet, n) = 0
    <3>1. t \in SignalNumbers /\ t \notin Values
      BY <2>4 DEF Times, Values
    <3>2. packet.payload \in Payload
      BY <2>3, <2>5, WrapAssumption DEF Payload, Word, IndexBytes
    <3> QED BY <2>5, <3>1, <3>2 DEF Written, IsBlock, Share
  <2>10. Acknowledged' /\ Begun' /\ InCall'
    BY <1>1, <1>4, <1>5, <1>6, <2>1, <2>4, <2>6 DEF Acknowledged, Begun, InCall, Playing
  <2>11. Clocked'
    <3>1. now' = 0 /\ lastProcess' \in [Values -> Nat] /\ \A n \in Values : lastProcess'[n] <= now'
      BY <1>1, <1>3, <1>8 DEF Clocked
    <3>2. \A n \in Values : valueIndex'[n] = 0
      BY <1>8, <2>6
    <3>3. \A u \in LinearTimes : rate'[u] = Period[TableOf[u]]
      BY <1>3, <2>6 DEF Clocked
    <3>4. ASSUME NEW n \in Counted, TimesOf(n)' \subseteq started'
          PROVE  nextTime'[n] = (StartTicks + lastProcess'[n]) % Wrap
      <4>1. n \in Values /\ n \in SignalNumbers /\ TimesOf(n)' = TimesOf(n)
        BY <2>6 DEF Counted, Values, TimesOf
      <4>2. CASE n \in DataOf(t)
        <5>1. valueIndex[n] = 0 /\ lastProcess'[n] = now
          BY <1>1, <1>8, <4>1
        <5>2. rate[t] \in Nat
          BY <2>4, Surroundings DEF StreamTypeOK, Word
        <5>3. ticks % Wrap = ticks /\ ticks + valueIndex[n] * rate[t] = ticks
          BY <2>3, <5>1, <5>2, WrapAssumption DEF Word
        <5>4. nextTime'[n] = ticks
          BY <2>6, <4>1, <4>2, <5>3 DEF MeantByStart
        <5> QED BY <2>2, <5>1, <5>4
      <4>3. CASE n \notin DataOf(t)
        <5>1. t \notin TimesOf(n)
          BY <1>2, <4>1, <4>3 DEF TimesOf, DataOf
        <5>2. TimesOf(n) \subseteq started /\ nextTime'[n] = nextTime[n]
          BY <2>6, <3>4, <4>1, <4>3, <5>1
        <5> QED BY <1>1, <1>3, <5>2 DEF Clocked
      <4> QED BY <4>2, <4>3
    <3> QED BY <3>1, <3>2, <3>3, <3>4 DEF Clocked
  <2> QED BY <1>1, <1>5, <1>6, <1>7, <2>5, <2>6, <2>8, <2>9, <2>10, <2>11, CallKept
          DEF Positioned
<1> QED BY <1>1, <1>9, <1>10

-----------------------------------------------------------------------------
(* process(). *)

\* The signal whose turn it is: all is subscribed and started, and its samples are due.
LEMMA Turn ==
    ASSUME Configured, InStep, at.phase = "process", MoreSignals, Current \in Values,
           NEW n, n = Current, NEW count, count = SamplesToProcess(n),
           NEW period, period = SamplePeriod(n)
    PROVE  /\ control = Idle /\ acked = SignalNumbers /\ started = Times /\ now \in Nat
           /\ setup = SignalNumbers /\ period \in Nat \ {0} /\ Truncated(period) = period
           /\ lastProcess \in [Values -> Nat]
           /\ count \in Nat /\ lastProcess[n] + count * period \in Nat
           /\ lastProcess[n] + count * period <= now
           /\ (lastProcess[n] + count * period) \div period
              = (lastProcess[n] \div period) + count
           /\ lastProcess[n] \div period \in Nat
<1>1. /\ control = Idle /\ acked = SignalNumbers /\ started = Times
  BY DEF InStep, Positioned, InCall, Acknowledged, Begun, Playing
<1>2. setup = SignalNumbers
  BY Surroundings
<1>3. /\ now \in Nat /\ lastProcess \in [Values -> Nat] /\ lastProcess[n] \in Nat
      /\ lastProcess[n] <= now
  BY DEF InStep, Clocked
<1>4. TableOf[n] \in TableIds
  BY StreamingAssumption DEF Values
<1>5. period \in Nat \ {0} /\ period % Granule = 0
  BY <1>4, GeneratorAssumption, WholeTicksAssumption DEF SamplePeriod
<1>6. Truncated(period) = period
  BY <1>5 DEF Truncated
<1>7. count = (now - lastProcess[n]) \div period
  BY DEF SamplesToProcess, Values
<1>8. PICK processed \in Nat : processed = lastProcess[n]
  BY <1>3
<1>9. PICK rest \in Nat : rest = now - processed
  BY <1>3, <1>8
<1>10. count = rest \div period
  BY <1>7, <1>8, <1>9
<1>11. count \in Nat /\ count * period <= rest /\ count * period \in Nat
  BY <1>5, <1>10
<1>12. /\ (processed + count * period) \div period = (processed \div period) + count
       /\ processed \div period \in Nat
  BY <1>5, <1>11
<1>13. processed + count * period \in Nat /\ processed + count * period <= now
  BY <1>3, <1>9, <1>11
<1> QED BY <1>1, <1>2, <1>3, <1>5, <1>6, <1>8, <1>11, <1>12, <1>13

\* The ticks between two values of a counted signal are its sample period.
LEMMA PeriodTold ==
    ASSUME Configured, InStep, NEW n \in Counted
    PROVE  Delta(n) = SamplePeriod(n) /\ SamplePeriod(n) \in Nat \ {0}
<1>1. setup = SignalNumbers /\ setup \in Setups
  BY Surroundings DEF Configured
<1>2. n \in Values /\ n \in SignalNumbers /\ Kind[n] = "SynchronousSignal"
  BY DEF Counted, Values
<1>3. \E u \in Times : TableOf[u] = TableOf[n]
  BY <1>2, GeneratorAssumption
<1>4. TimesOf(n) # {}
  BY <1>1, <1>3 DEF TimesOf, Times
<1>5. PICK t : t = CHOOSE u \in TimesOf(n) : TRUE
  OBVIOUS
<1>6. t \in TimesOf(n)
  BY <1>4, <1>5
<1>7. t \in Times \cap setup /\ TableOf[t] = TableOf[n]
  BY <1>6 DEF TimesOf
<1>8. Kind[t] # "ExplicitTimeSignal"
  BY <1>1, <1>2, <1>7 DEF Configured, Paired
<1>9. t \in LinearTimes
  BY <1>7, <1>8 DEF LinearTimes, Times, TimeKinds
<1>10. rate[t] = Period[TableOf[t]]
  BY <1>9 DEF InStep, Clocked
<1>11. Delta(n) = rate[t]
  BY <1>4, <1>5 DEF Delta
<1>12. TableOf[n] \in TableIds
  BY <1>2, StreamingAssumption
<1> QED BY <1>7, <1>10, <1>11, <1>12, GeneratorAssumption DEF SamplePeriod

\* The ledger of one signal moves on, the others stay as they are.
LEMMA LedgerMoves ==
    ASSUME Configured, InStep, UNCHANGED <<subscribedSignals, infos>>,
           NEW n \in Values, at.phase = "process", at'.phase = "process",
           \A m \in Values : Announced(channel, m)' => Announced(channel, m),
           \A m \in Values \ {n} : /\ OnTheWay(channel, m)' = OnTheWay(channel, m)
                                   /\ AboutToWrite(m)' = AboutToWrite(m)
                                   /\ lastProcess'[m] = lastProcess[m],
           NEW made \in Int, OnTheWay(channel, n) \in Nat, AboutToWrite(n) \in Nat,
           OnTheWay(channel, n)' + AboutToWrite(n)'
               = (OnTheWay(channel, n) + AboutToWrite(n)) + made,
           OnTheWay(channel, n)' \in Nat, AboutToWrite(n)' \in Nat,
           lastProcess[n] \div SamplePeriod(n) \in Nat,
           lastProcess'[n] \div SamplePeriod(n) = (lastProcess[n] \div SamplePeriod(n)) + made
    PROVE  Recorded'
<1>1. /\ infos = [m \in DOMAIN subscribedSignals |-> infos[m]]
      /\ \A m \in Values : Tally(m) \in Nat
      /\ \A m \in Values : Due(m) => Balanced(m)
  BY DEF InStep, Recorded
<1>2. \A m \in Values : Tally(m)' = Tally(m) /\ (Due(m)' => Due(m))
  BY DEF Tally, Due
<1>3. \A m \in Values \ {n} : Balanced(m) => Balanced(m)'
  BY <1>2 DEF Balanced, SamplePeriod
<1>4. Balanced(n) => Balanced(n)'
  <2>1. PICK a : a = Tally(n)
    OBVIOUS
  <2>2. PICK b : b = OnTheWay(channel, n)
    OBVIOUS
  <2>3. PICK c : c = AboutToWrite(n)
    OBVIOUS
  <2>4. PICK d : d = lastProcess[n] \div SamplePeriod(n)
    OBVIOUS
  <2>5. PICK e : e = OnTheWay(channel', n)
    OBVIOUS
  <2>6. PICK f : f = AboutToWrite(n)'
    OBVIOUS
  <2>7. a \in Nat /\ b \in Nat /\ c \in Nat /\ d \in Nat /\ e \in Nat /\ f \in Nat
        /\ e + f = (b + c) + made
    BY <1>1, <2>1, <2>2, <2>3, <2>4, <2>5, <2>6
  <2>8. Balanced(n) <=> (a + b) + c = d
    BY <2>1, <2>2, <2>3, <2>4 DEF Balanced
  <2>9. Balanced(n)' <=> (a + e) + f = d + made
    BY <1>2, <2>1, <2>4, <2>5, <2>6 DEF Balanced, SamplePeriod
  <2> QED BY <2>7, <2>8, <2>9
<1>5. \A m \in Values : Due(m)' => Balanced(m)'
  BY <1>1, <1>2, <1>3, <1>4
<1> QED BY <1>1, <1>2, <1>5 DEF Recorded

\* The time of the next value moves with the time processed.
LEMMA StampMoves ==
    ASSUME NEW processed \in Nat, NEW ticks \in Nat, NEW time,
           time = (StartTicks + processed) % Wrap
    PROVE  Advance(time, ticks) = (StartTicks + (processed + ticks)) % Wrap
<1>1. StartTicks \in Nat /\ Wrap \in Nat \ {0}
  BY GeneratorAssumption, WrapAssumption DEF Word
<1>2. PICK a \in Nat : a = StartTicks + processed
  BY <1>1
<1>3. time = a % Wrap /\ time \in Nat
  BY <1>1, <1>2
<1>4. time # Unset
  BY <1>3, SentinelAssumption DEF Unset
<1>5. ((a % Wrap) + ticks) % Wrap = (a + ticks) % Wrap
  BY RemainderAdds
<1>6. a + ticks = StartTicks + (processed + ticks)
  BY <1>1, <1>2
<1>7. Advance(time, ticks) = (time + ticks) % Wrap
  BY <1>4 DEF Advance
<1> QED BY <1>3, <1>5, <1>6, <1>7

\* All samples that are due are counted and dated at once
\* (generatedsynchronoussignal.h:91-124).
LEMMA SynchronousKeeps ==
    ASSUME Configured, InStep, connected, ProcessSynchronous
    PROVE  InStep'
<1>1. PICK n : n = Current
  OBVIOUS
<1>2. PICK count : count = SamplesToProcess(n)
  OBVIOUS
<1>3. PICK period : period = SamplePeriod(n)
  OBVIOUS
<1>4. /\ at.phase = "process" /\ sender = Idle /\ MoreSignals /\ CountValues(n, count)
      /\ lastProcess' = [lastProcess EXCEPT ![n] = @ + count * period]
      /\ UNCHANGED <<order, at, now, infos>>
  BY <1>1, <1>2, <1>3 DEF ProcessSynchronous, clientVars
<1>5. /\ Kind[n] = "SynchronousSignal" /\ valueIndex' = [valueIndex EXCEPT ![n] = (@ + count) % Wrap]
      /\ nextTime' = [nextTime EXCEPT ![n] = Advance(@, count * Delta(n))]
      /\ sender' = [step |-> "write", packet |-> Block(n, ValueBytes, count, 0, nextTime[n])]
      /\ UNCHANGED <<channel, rate, control, acked, started, setup, consumerVars>>
  BY <1>4 DEF CountValues
<1>6. n \in Counted /\ n \in Values /\ n \in SignalNumbers
  <2>1. n \in SignalNumbers
    BY <1>1, <1>4, Surroundings
  <2> QED BY <1>5, <2>1 DEF Counted, Values, Times, TimeKinds
<1>7. /\ control = Idle /\ acked = SignalNumbers /\ started = Times /\ now \in Nat
      /\ setup = SignalNumbers /\ period \in Nat \ {0}
      /\ lastProcess \in [Values -> Nat]
      /\ count \in Nat /\ lastProcess[n] + count * period \in Nat
      /\ lastProcess[n] + count * period <= now
      /\ (lastProcess[n] + count * period) \div period = (lastProcess[n] \div period) + count
      /\ lastProcess[n] \div period \in Nat
  BY <1>1, <1>2, <1>3, <1>4, <1>6, Turn
<1>8. ProperStep("dated")
  <2>1. MayCarry(n, "dated")
    BY <1>7 DEF MayCarry, TimesOf
  <2>2. ProperCall("dated")
    BY <1>4, <1>6, <1>7, <2>1 DEF ProperCall
  <2> QED BY <1>4, <1>7, <2>2 DEF ProperStep, Quiet
<1>9. SessionInv("dated")' /\ Promised("dated")' /\ UNCHANGED <<setup, subscribedSignals>>
  BY <1>8, StreamKept
<1>10. Placed /\ Acknowledged /\ Begun /\ InCall /\ Clocked
  BY DEF InStep, Positioned
<1>11. at.left = 0
  BY <1>1, <1>5, <1>10, Surroundings DEF InCall
<1>12. /\ sender'.packet.signal = n /\ sender'.packet.count = count
       /\ sender' # Idle
  BY <1>5 DEF Block, Idle
<1>13. Positioned'
  <2>1. Placed' /\ Acknowledged' /\ Begun'
    BY <1>4, <1>5, <1>10 DEF Placed, Acknowledged, Begun
  <2>2. MoreSignals' /\ Current' = n
    BY <1>1, <1>4 DEF MoreSignals, Current
  <2>3. InCall'
    BY <1>4, <1>5, <1>7, <1>11, <1>12, <2>2 DEF InCall
  <2> QED BY <2>1, <2>3 DEF Positioned
<1>14. /\ lastProcess' \in [Values -> Nat] /\ lastProcess'[n] = lastProcess[n] + count * period
       /\ \A m \in Values \ {n} : lastProcess'[m] = lastProcess[m]
  BY <1>4, <1>6, <1>7
<1>15. Clocked'
  <2>1. \A m \in Values : lastProcess'[m] <= now'
    BY <1>4, <1>7, <1>10, <1>14 DEF Clocked
  <2>2. \A t \in LinearTimes : rate'[t] = Period[TableOf[t]]
    BY <1>5, <1>10 DEF Clocked
  <2>3. ASSUME NEW m \in Counted, TimesOf(m)' \subseteq started'
        PROVE  nextTime'[m] = (StartTicks + lastProcess'[m]) % Wrap
    <3>1. m \in SignalNumbers /\ m \in Values /\ TimesOf(m) \subseteq started
      BY <1>5, <2>3 DEF Counted, Values, TimesOf
    <3>2. nextTime[m] = (StartTicks + lastProcess[m]) % Wrap
      BY <1>10, <3>1 DEF Clocked
    <3>3. nextTime \in [SignalNumbers -> Word \cup {Unset}]
      BY Surroundings DEF StreamTypeOK
    <3>4. CASE m # n
      BY <1>5, <1>14, <3>1, <3>2, <3>3, <3>4
    <3>5. CASE m = n
      <4>1. Delta(n) = period
        BY <1>3, <1>6, PeriodTold
      <4>2. PICK ticks : ticks = count * period
        OBVIOUS
      <4>3. ticks \in Nat
        BY <1>7, <4>2
      <4>4. nextTime'[n] = Advance(nextTime[n], ticks)
        BY <1>5, <1>6, <3>3, <4>1, <4>2
      <4>5. PICK processed \in Nat : processed = lastProcess[n]
        BY <1>6, <1>7
      <4>6. lastProcess'[n] = processed + ticks
        BY <1>14, <4>2, <4>5
      <4>7. nextTime[n] = (StartTicks + processed) % Wrap
        BY <3>2, <3>5, <4>5
      <4> QED BY <3>5, <4>3, <4>4, <4>6, <4>7, StampMoves
    <3> QED BY <3>4, <3>5
  <2> QED BY <1>4, <1>7, <1>14, <2>1, <2>2, <2>3 DEF Clocked
<1>16. Ordered'
  BY <1>4, <1>5 DEF InStep, Ordered
<1>17. Recorded'
  <2>1. AboutToWrite(n) = 0 /\ \A m \in Values : AboutToWrite(m) = 0
    BY <1>4, <1>11, NothingAbout
  <2>2. AboutToWrite(n)' = count /\ \A m \in Values \ {n} : AboutToWrite(m)' = 0
    BY <1>4, <1>11, <1>12 DEF AboutToWrite
  <2>3. OnTheWay(channel, n) \in Nat /\ \A m : OnTheWay(channel, m)' = OnTheWay(channel, m)
    BY <1>5, <1>6, Surroundings, BlocksCounted DEF ChannelOK
  <2>4. \A m \in Values : Announced(channel, m)' => Announced(channel, m)
    BY <1>5
  <2>5. /\ lastProcess[n] \div SamplePeriod(n) \in Nat
        /\ lastProcess'[n] \div SamplePeriod(n) = (lastProcess[n] \div SamplePeriod(n)) + count
    BY <1>3, <1>7, <1>14
  <2>6. OnTheWay(channel, n)' + AboutToWrite(n)' = (OnTheWay(channel, n) + AboutToWrite(n)) + count
    BY <1>7, <2>1, <2>2, <2>3
  <2>7. /\ count \in Int /\ AboutToWrite(n) \in Nat /\ AboutToWrite(n)' \in Nat
        /\ OnTheWay(channel, n)' \in Nat /\ at'.phase = "process"
        /\ \A m \in Values \ {n} : /\ OnTheWay(channel, m)' = OnTheWay(channel, m)
                                   /\ AboutToWrite(m)' = AboutToWrite(m)
                                   /\ lastProcess'[m] = lastProcess[m]
    BY <1>4, <1>7, <1>14, <2>1, <2>2, <2>3
  <2> QED BY <1>4, <1>6, <1>9, <2>3, <2>4, <2>5, <2>6, <2>7, LedgerMoves
<1> QED BY <1>9, <1>13, <1>15, <1>16, <1>17 DEF InStep

\* A block of n joins the stream.
LEMMA BlockSent ==
    ASSUME ChannelOK, NEW packet, Written(packet), channel' = Append(channel, packet),
           NEW n \in Values, packet.kind = "data", packet.signal = n
    PROVE  /\ packet.count \in Nat /\ OnTheWay(channel, n) \in Nat
           /\ OnTheWay(channel, n)' = OnTheWay(channel, n) + packet.count
           /\ \A m \in Values \ {n} : OnTheWay(channel, m)' = OnTheWay(channel, m)
           /\ \A m : Announced(channel, m)' => Announced(channel, m)
           /\ InOrder(channel) => InOrder(channel)'
           /\ Leaves(channel)' => Leaves(channel)
<1>1. \A m \in Values : /\ OnTheWay(channel', m) = OnTheWay(channel, m) + Share(packet, m)
                        /\ OnTheWay(channel, m) \in Nat /\ Share(packet, m) \in Nat
  BY ValuesMore DEF ChannelOK
<1>2. Share(packet, n) = packet.count /\ \A m \in Values \ {n} : Share(packet, m) = 0
  BY DEF Share
<1>3. /\ InOrder(channel) /\ (packet.kind = "subscribe" => ~Leaves(channel))
         => InOrder(channel')
      /\ Leaves(channel') => Leaves(channel) \/ packet.kind = "unsubscribe"
      /\ \A m : Announced(channel', m) =>
             Announced(channel, m) \/ (packet.kind = "subscribe" /\ packet.signal = m)
  BY OneMore DEF ChannelOK
<1> QED BY <1>1, <1>2, <1>3

\* The samples are written in one block.
LEMMA SamplesKeep ==
    ASSUME Configured, InStep, connected, WriteSamples
    PROVE  InStep'
<1>1. /\ at.phase = "process" /\ sender # Idle /\ WriteValues /\ at' = At("process", at.i + 1)
      /\ UNCHANGED <<order, now, lastProcess, infos>>
  BY DEF WriteSamples, GoOn, WriteFails, clientVars
<1>2. Placed /\ Acknowledged /\ Begun /\ InCall
  BY DEF InStep, Positioned
<1>3. MoreSignals /\ at.left = 0 /\ sender.packet.signal = Current
  BY <1>1, <1>2 DEF InCall
<1>4. PICK n : n = Current
  OBVIOUS
<1>5. PICK packet : packet = sender.packet
  OBVIOUS
<1>6. /\ n \in Values /\ Written(packet) /\ packet.kind = "data" /\ packet.signal = n
      /\ ChannelOK
  BY <1>1, <1>3, <1>4, <1>5, Surroundings DEF SenderOK, Written, IsBlock
<1>7. /\ channel' = Append(channel, packet) /\ sender' = Idle
      /\ UNCHANGED <<valueIndex, rate, control, acked, started, nextTime, setup>>
  BY <1>1, <1>5 DEF WriteValues, Write
<1>8. /\ packet.count \in Nat /\ OnTheWay(channel, n) \in Nat
      /\ OnTheWay(channel, n)' = OnTheWay(channel, n) + packet.count
      /\ \A m \in Values \ {n} : OnTheWay(channel, m)' = OnTheWay(channel, m)
      /\ \A m : Announced(channel, m)' => Announced(channel, m)
      /\ InOrder(channel) => InOrder(channel)'
      /\ Leaves(channel)' => Leaves(channel)
  BY <1>6, <1>7, BlockSent
<1>9. SessionInv("dated")' /\ Promised("dated")' /\ UNCHANGED <<setup, subscribedSignals>>
  BY <1>1, StreamKept DEF ProperStep
<1>10. at.i + 1 \in Nat /\ 1 <= at.i + 1 /\ at.i + 1 <= Len(order) + 1
  BY <1>3, Surroundings
<1>11. /\ at'.phase = "process" /\ at'.i = at.i + 1 /\ at'.left = 0
       /\ at' \in [phase : Phases, i : Nat, left : Nat]
  BY <1>1, <1>10, GoesTo DEF Phases
<1>12. Positioned'
  <2>1. Placed'
    BY <1>1, <1>2, <1>10, <1>11 DEF Placed
  <2>2. Acknowledged' /\ Begun' /\ InCall'
    BY <1>1, <1>2, <1>7, <1>11 DEF Acknowledged, Begun, InCall, Playing
  <2> QED BY <2>1, <2>2 DEF Positioned
<1>13. Clocked'
  BY <1>1, <1>7, <1>11, ClockKept
<1>14. Ordered'
  BY <1>1, <1>8, <1>11 DEF InStep, Ordered
<1>15. Recorded'
  <2>1. AboutToWrite(n) = packet.count /\ \A m \in Values \ {n} : AboutToWrite(m) = 0
    BY <1>1, <1>3, <1>4, <1>5, <1>6 DEF AboutToWrite
  <2>2. \A m \in Values : AboutToWrite(m)' = 0
    BY <1>7, <1>11 DEF AboutToWrite
  <2>3. lastProcess[n] \div SamplePeriod(n) \in Nat
    BY <1>1, <1>3, <1>4, <1>6, Turn
  <2>4. PICK made \in Int : made = 0
    OBVIOUS
  <2>5. /\ OnTheWay(channel, n)' + AboutToWrite(n)'
           = (OnTheWay(channel, n) + AboutToWrite(n)) + made
        /\ lastProcess'[n] \div SamplePeriod(n) = (lastProcess[n] \div SamplePeriod(n)) + made
    BY <1>1, <1>6, <1>8, <2>1, <2>2, <2>3, <2>4
  <2>6. /\ AboutToWrite(n) \in Nat /\ AboutToWrite(n)' \in Nat /\ OnTheWay(channel, n)' \in Nat
        /\ \A m \in Values \ {n} : /\ OnTheWay(channel, m)' = OnTheWay(channel, m)
                                   /\ AboutToWrite(m)' = AboutToWrite(m)
                                   /\ lastProcess'[m] = lastProcess[m]
    BY <1>1, <1>6, <1>8, <2>1, <2>2
  <2> QED BY <1>1, <1>6, <1>8, <1>9, <1>11, <2>3, <2>5, <2>6, LedgerMoves
<1> QED BY <1>9, <1>12, <1>13, <1>14, <1>15 DEF InStep

\* The tuples of an asynchronous signal are made
\* (generatedasynchronoussignal.h:97-126)
LEMMA AsynchronousKeeps ==
    ASSUME Configured, InStep, connected, ProcessAsynchronous
    PROVE  InStep'
<1>1. PICK n : n = Current
  OBVIOUS
<1>2. PICK count : count = SamplesToProcess(n)
  OBVIOUS
<1>3. PICK period : period = SamplePeriod(n)
  OBVIOUS
<1>4. /\ at.phase = "process" /\ MoreSignals /\ at.left = 0
      /\ Kind[n] = "AsynchronousSignal" /\ count > 0 /\ at' = [at EXCEPT !.left = count]
      /\ lastProcess' = [lastProcess EXCEPT ![n] = @ + count * Truncated(period)]
      /\ UNCHANGED <<streamVars, order, now, infos>>
  BY <1>1, <1>2, <1>3 DEF ProcessAsynchronous, clientVars
<1>5. n \in Values /\ n \in SignalNumbers /\ n \notin Counted
  <2>1. n \in SignalNumbers
    BY <1>1, <1>4, Surroundings
  <2> QED BY <1>4, <2>1 DEF Counted, Values, Times, TimeKinds
<1>6. /\ control = Idle /\ acked = SignalNumbers /\ started = Times /\ now \in Nat
      /\ period \in Nat \ {0} /\ Truncated(period) = period
      /\ lastProcess \in [Values -> Nat]
      /\ count \in Nat /\ lastProcess[n] + count * period \in Nat
      /\ lastProcess[n] + count * period <= now
      /\ (lastProcess[n] + count * period) \div period = (lastProcess[n] \div period) + count
      /\ lastProcess[n] \div period \in Nat
  BY <1>1, <1>2, <1>3, <1>4, <1>5, Turn
<1>7. SessionInv("dated")' /\ Promised("dated")' /\ UNCHANGED <<setup, subscribedSignals>>
  BY <1>4, StreamKept
<1>8. UNCHANGED <<channel, valueIndex, rate, control, sender, acked, started, nextTime>>
  BY <1>4 DEF streamVars, producerVars
<1>9. Placed /\ Acknowledged /\ Begun /\ InCall /\ Clocked
  BY DEF InStep, Positioned
<1>10. /\ at'.phase = "process" /\ at'.i = at.i /\ at'.left = count
       /\ at' \in [phase : Phases, i : Nat, left : Nat]
  BY <1>4, <1>6, <1>9 DEF Placed
<1>11. sender = Idle
  BY <1>1, <1>4, <1>5 DEF InStep, SessionInv, ChainInv, Dates, NumbersAgreed, BlockDated,
                          Positioned, InCall
<1>12. Positioned'
  <2>1. Placed' /\ Acknowledged' /\ Begun'
    BY <1>4, <1>8, <1>9, <1>10 DEF Placed, Acknowledged, Begun
  <2>2. MoreSignals' /\ Current' = n
    BY <1>1, <1>4, <1>10 DEF MoreSignals, Current
  <2>3. InCall'
    BY <1>4, <1>6, <1>8, <1>10, <1>11, <2>2 DEF InCall
  <2> QED BY <2>1, <2>3 DEF Positioned
<1>13. /\ lastProcess' \in [Values -> Nat] /\ lastProcess'[n] = lastProcess[n] + count * period
       /\ \A m \in Values \ {n} : lastProcess'[m] = lastProcess[m]
  BY <1>4, <1>5, <1>6
<1>14. Clocked'
  <2>1. \A m \in Values : lastProcess'[m] <= now'
    BY <1>4, <1>6, <1>9, <1>13 DEF Clocked
  <2>2. \A t \in LinearTimes : rate'[t] = Period[TableOf[t]]
    BY <1>8, <1>9 DEF Clocked
  <2>3. \A m \in Counted : TimesOf(m)' \subseteq started' =>
            nextTime'[m] = (StartTicks + lastProcess'[m]) % Wrap
    BY <1>5, <1>7, <1>8, <1>9, <1>13 DEF Clocked, Counted, TimesOf
  <2> QED BY <1>4, <1>6, <1>10, <1>13, <2>1, <2>2, <2>3 DEF Clocked
<1>15. Ordered'
  BY <1>4, <1>8, <1>10 DEF InStep, Ordered
<1>16. Recorded'
  <2>1. AboutToWrite(n) = 0 /\ \A m \in Values : AboutToWrite(m) = 0
    BY <1>4, <1>11, NothingAbout
  <2>2. AboutToWrite(n)' = count /\ \A m \in Values \ {n} : AboutToWrite(m)' = 0
    BY <1>1, <1>4, <1>8, <1>10, <1>11 DEF AboutToWrite, MoreSignals, Current
  <2>3. OnTheWay(channel, n) \in Nat /\ \A m : OnTheWay(channel, m)' = OnTheWay(channel, m)
    BY <1>5, <1>8, Surroundings, BlocksCounted DEF ChannelOK
  <2>4. \A m \in Values : Announced(channel, m)' => Announced(channel, m)
    BY <1>8
  <2>5. /\ lastProcess[n] \div SamplePeriod(n) \in Nat
        /\ lastProcess'[n] \div SamplePeriod(n) = (lastProcess[n] \div SamplePeriod(n)) + count
    BY <1>3, <1>6, <1>13
  <2>6. OnTheWay(channel, n)' + AboutToWrite(n)' = (OnTheWay(channel, n) + AboutToWrite(n)) + count
    BY <1>6, <2>1, <2>2, <2>3
  <2>7. /\ count \in Int /\ AboutToWrite(n) \in Nat /\ AboutToWrite(n)' \in Nat
        /\ OnTheWay(channel, n)' \in Nat
        /\ \A m \in Values \ {n} : /\ OnTheWay(channel, m)' = OnTheWay(channel, m)
                                   /\ AboutToWrite(m)' = AboutToWrite(m)
                                   /\ lastProcess'[m] = lastProcess[m]
    BY <1>6, <1>13, <2>1, <2>2, <2>3
  <2> QED BY <1>4, <1>5, <1>7, <1>10, <2>3, <2>4, <2>5, <2>6, <2>7, LedgerMoves
<1> QED BY <1>7, <1>12, <1>14, <1>15, <1>16 DEF InStep

\* and written one by one.
LEMMA TupleKeeps ==
    ASSUME Configured, InStep, connected, WriteTuple
    PROVE  InStep'
<1>1. PICK n : n = Current
  OBVIOUS
<1>2. PICK next : next = IF at.left = 1 THEN At("process", at.i + 1) ELSE [at EXCEPT !.left = @ - 1]
  OBVIOUS
<1>3. /\ at.phase = "process" /\ at.left > 0 /\ AddTuple(n, Unset) /\ at' = next
      /\ UNCHANGED <<order, now, lastProcess, infos>>
  BY <1>1, <1>2 DEF WriteTuple, WriteFails, GoOn, clientVars
<1>4. Placed /\ Acknowledged /\ Begun /\ InCall
  BY DEF InStep, Positioned
<1>5. MoreSignals /\ Kind[n] = "AsynchronousSignal" /\ sender = Idle
  BY <1>1, <1>3, <1>4 DEF InCall
<1>6. n \in Values /\ n \in SignalNumbers
  <2>1. n \in SignalNumbers
    BY <1>1, <1>5, Surroundings
  <2> QED BY <1>5, <2>1 DEF Values, Times, TimeKinds
<1>7. /\ control = Idle /\ acked = SignalNumbers /\ started = Times /\ setup = SignalNumbers
      /\ lastProcess[n] \div SamplePeriod(n) \in Nat
  BY <1>1, <1>3, <1>5, <1>6, Turn
<1>8. ProperStep("dated")
  <2>1. MayCarry(n, "dated")
    BY <1>7 DEF MayCarry, TimesOf
  <2>2. ProperCall("dated")
    BY <1>3, <1>6, <1>7, <2>1 DEF ProperCall
  <2> QED BY <1>5, <1>7, <2>2 DEF ProperStep, Quiet
<1>9. SessionInv("dated")' /\ Promised("dated")' /\ UNCHANGED <<setup, subscribedSignals>>
  BY <1>8, StreamKept
<1>10. UNCHANGED <<setup, valueIndex, rate, control, sender, acked, started, nextTime>>
  BY <1>3 DEF AddTuple, producerVars
<1>11. PICK packet : packet = Block(n, ValueBytes, 1, 0, Unset) /\ channel' = Append(channel, packet)
  BY <1>3 DEF AddTuple, Write
<1>12. /\ packet.kind = "data" /\ packet.signal = n /\ packet.count = 1
  BY <1>11 DEF Block
<1>13. Written(packet)
  <2>1. Kind[n] # "ConstantSignal" /\ ValueBytes \in Nat /\ 1 \in Nat
    BY <1>5, StreamingAssumption
  <2>2. IsBlock(packet)
    BY <1>5, <1>6, <1>11, <2>1, WrapAssumption
       DEF Block, IsBlock, BytesOf, Payload, Word, Values
  <2> QED BY <2>2 DEF Written
<1>14. /\ OnTheWay(channel, n) \in Nat
       /\ OnTheWay(channel, n)' = OnTheWay(channel, n) + 1
       /\ \A m \in Values \ {n} : OnTheWay(channel, m)' = OnTheWay(channel, m)
       /\ \A m : Announced(channel, m)' => Announced(channel, m)
       /\ InOrder(channel) => InOrder(channel)'
       /\ Leaves(channel)' => Leaves(channel)
  BY <1>6, <1>11, <1>12, <1>13, Surroundings, BlockSent
<1>15. at.i + 1 \in Nat /\ 1 <= at.i + 1 /\ at.i + 1 <= Len(order) + 1 /\ at.left \in Nat
  BY <1>5, Surroundings
<1>16. \/ /\ at.left = 1 /\ at'.phase = "process" /\ at'.i = at.i + 1 /\ at'.left = 0
          /\ at' \in [phase : Phases, i : Nat, left : Nat]
       \/ /\ at.left # 1 /\ at'.phase = "process" /\ at'.i = at.i /\ at'.left = at.left - 1
          /\ at' \in [phase : Phases, i : Nat, left : Nat]
  <2>1. CASE at.left = 1
    <3>1. at' = At("process", at.i + 1)
      BY <1>2, <1>3, <2>1
    <3> QED BY <1>15, <2>1, <3>1, GoesTo DEF Phases
  <2>2. CASE at.left # 1
    <3>1. at' = [at EXCEPT !.left = @ - 1] /\ at.left - 1 \in Nat
      BY <1>2, <1>3, <1>15, <2>2
    <3>2. at \in [phase : Phases, i : Nat, left : Nat]
      BY <1>4 DEF Placed
    <3> QED BY <1>3, <2>2, <3>1, <3>2
  <2> QED BY <2>1, <2>2
<1>17. Positioned'
  <2>1. Placed'
    BY <1>3, <1>4, <1>15, <1>16 DEF Placed
  <2>2. Acknowledged' /\ Begun'
    BY <1>3, <1>7, <1>10, <1>16 DEF Acknowledged, Begun, Playing
  <2>3. InCall'
    BY <1>1, <1>3, <1>5, <1>7, <1>10, <1>16 DEF InCall, MoreSignals, Current
  <2> QED BY <2>1, <2>2, <2>3 DEF Positioned
<1>18. Clocked'
  BY <1>3, <1>10, <1>16, ClockKept
<1>19. Ordered'
  BY <1>3, <1>14, <1>16 DEF InStep, Ordered
<1>20. Recorded'
  <2>1. AboutToWrite(n) = at.left /\ \A m \in Values \ {n} : AboutToWrite(m) = 0
    BY <1>1, <1>3, <1>5 DEF AboutToWrite
  <2>2. AboutToWrite(n)' = at.left - 1 /\ \A m \in Values \ {n} : AboutToWrite(m)' = 0
    <3>1. CASE at.left = 1
      BY <1>5, <1>10, <1>16, <3>1 DEF AboutToWrite
    <3>2. CASE at.left # 1
      BY <1>1, <1>3, <1>5, <1>10, <1>16, <3>2 DEF AboutToWrite, MoreSignals, Current
    <3> QED BY <3>1, <3>2
  <2>3. PICK made \in Int : made = 0
    OBVIOUS
  <2>4. /\ OnTheWay(channel, n)' + AboutToWrite(n)'
           = (OnTheWay(channel, n) + AboutToWrite(n)) + made
        /\ lastProcess'[n] \div SamplePeriod(n) = (lastProcess[n] \div SamplePeriod(n)) + made
        /\ AboutToWrite(n) \in Nat /\ AboutToWrite(n)' \in Nat /\ OnTheWay(channel, n)' \in Nat
    BY <1>3, <1>7, <1>14, <1>15, <2>1, <2>2, <2>3
  <2>5. \A m \in Values \ {n} : /\ OnTheWay(channel, m)' = OnTheWay(channel, m)
                                /\ AboutToWrite(m)' = AboutToWrite(m)
                                /\ lastProcess'[m] = lastProcess[m]
    BY <1>3, <1>14, <2>1, <2>2
  <2>6. at'.phase = "process"
    BY <1>16
  <2> QED BY <1>3, <1>6, <1>7, <1>9, <1>14, <2>4, <2>5, <2>6, LedgerMoves
<1> QED BY <1>9, <1>17, <1>18, <1>19, <1>20 DEF InStep

-----------------------------------------------------------------------------
(* The streaming client. *)

\* What the callbacks make of the statistics: an acknowledgement begins or ends the
\* record of its signal, a block of values adds their number
\* (StreamingClient.cpp:91-133).
LEMMA CallbacksCount ==
    ASSUME Configured, InStep, thrown = FALSE, ClientReceive, NEW packet, packet = channel[1]
    PROVE  /\ thrown' = FALSE
           /\ infos' = [n \in DOMAIN subscribedSignals' |-> infos'[n]]
           /\ packet.kind = "unsubscribe" => packet.signal \notin DOMAIN infos'
           /\ packet.kind = "subscribe" => packet.signal \notin DOMAIN infos
           /\ packet.kind # "subscribe" => DOMAIN infos' \subseteq DOMAIN infos
           /\ packet.kind = "subscribe" => DOMAIN infos' \subseteq DOMAIN infos \cup {packet.signal}
           /\ \A n \in Values :
                  \/ packet.kind = "unsubscribe" /\ packet.signal = n
                  \/ Tally(n)' = Tally(n) + Share(packet, n)
<1>1. Receive /\ UNCHANGED <<toolVars, connected>>
  BY DEF ClientReceive
<1>2. /\ infos = [n \in DOMAIN subscribedSignals |-> infos[n]]
      /\ \A n \in Values : Tally(n) \in Nat
  BY DEF InStep, Recorded
<1>3. PICK n : n = packet.signal
  OBVIOUS
<1>4. /\ Written(packet) /\ received' = packet
      /\ packet.kind # "data" => last'.kind = "meta" /\ last'.ok = TRUE
      /\ packet.kind = "subscribe" =>
             /\ n \notin DOMAIN subscribedSignals
             /\ DOMAIN subscribedSignals' = DOMAIN subscribedSignals \cup {n}
      /\ packet.kind = "unsubscribe" =>
             /\ n \in DOMAIN subscribedSignals
             /\ DOMAIN subscribedSignals' = DOMAIN subscribedSignals \ {n}
      /\ packet.kind \in {"signal", "data"} =>
             /\ n \in DOMAIN subscribedSignals
             /\ DOMAIN subscribedSignals' = DOMAIN subscribedSignals
      /\ packet.kind = "data" => last'.kind = "data" /\ last'.signal = n
      /\ packet.kind = "data" /\ n \in Values =>
             /\ last'.delivery # NoDelivery
             /\ last'.delivery.bytes = packet.payload.len
             /\ subscribedSignals[n].size = ValueBytes
  BY <1>1, <1>3, ConfiguredAttains, Answered DEF InStep
<1>5. packet.kind \in {"subscribe", "unsubscribe", "signal", "data"}
  BY <1>4, PacketKinds
<1>6. DOMAIN infos = DOMAIN subscribedSignals
  BY <1>2
<1>7. ASSUME packet.kind # "data"
      PROVE  SignalMetaCb(packet)
  BY <1>4, <1>7 DEF ClientReceive
<1>8. CASE packet.kind = "subscribe"
  <2>1. infos' = Put(infos, n, 0) /\ thrown' = FALSE
    BY <1>3, <1>4, <1>6, <1>7, <1>8 DEF SignalMetaCb, Known
  <2>2. /\ DOMAIN infos' = DOMAIN infos \cup {n} /\ infos'[n] = 0
        /\ \A m \in DOMAIN infos : m # n => infos'[m] = infos[m]
        /\ infos' = [m \in DOMAIN infos' |-> infos'[m]]
    BY <2>1 DEF Put
  <2>3. \A m \in Values : Tally(m)' = Tally(m) /\ Share(packet, m) = 0
    BY <1>4, <1>6, <1>8, <2>2 DEF Tally, Share
  <2> QED BY <1>2, <1>3, <1>4, <1>6, <1>8, <2>1, <2>2, <2>3
<1>9. CASE packet.kind = "unsubscribe"
  <2>1. infos' = Erase(infos, n) /\ thrown' = FALSE
    BY <1>3, <1>4, <1>6, <1>7, <1>9 DEF SignalMetaCb, Known
  <2>2. /\ DOMAIN infos' = DOMAIN infos \ {n}
        /\ \A m \in DOMAIN infos : m # n => infos'[m] = infos[m]
        /\ infos' = [m \in DOMAIN infos' |-> infos'[m]]
    BY <2>1 DEF Erase
  <2>3. \A m \in Values : m # n => Tally(m)' = Tally(m) /\ Share(packet, m) = 0
    BY <1>9, <2>2 DEF Tally, Share
  <2> QED BY <1>2, <1>3, <1>4, <1>6, <1>9, <2>1, <2>2, <2>3
<1>10. CASE packet.kind = "signal"
  <2>1. infos' = infos /\ thrown' = FALSE
    BY <1>7, <1>10 DEF SignalMetaCb
  <2>2. \A m \in Values : Tally(m)' = Tally(m) /\ Share(packet, m) = 0
    BY <1>10, <2>1 DEF Tally, Share
  <2> QED BY <1>2, <1>3, <1>4, <1>10, <2>1, <2>2
<1>11. CASE packet.kind = "data"
  <2>1. \/ last'.delivery # NoDelivery /\ RawDataCb(n, last'.delivery)
        \/ last'.delivery = NoDelivery /\ UNCHANGED clientVars
    BY <1>4, <1>11 DEF ClientReceive
  <2>2. CASE last'.delivery = NoDelivery /\ UNCHANGED clientVars
    <3>1. n \notin Values /\ infos' = infos /\ thrown' = FALSE
      BY <1>4, <1>11, <2>2 DEF clientVars
    <3>2. \A m \in Values : Tally(m)' = Tally(m) /\ Share(packet, m) = 0
      BY <1>3, <3>1 DEF Tally, Share
    <3> QED BY <1>2, <1>3, <1>4, <1>11, <3>1, <3>2
  <2>3. CASE RawDataCb(n, last'.delivery)
    <3>1. PICK count : count = last'.delivery.bytes \div subscribedSignals[n].size
      OBVIOUS
    <3>2. infos' = [infos EXCEPT ![n] = @ + count] /\ thrown' = FALSE /\ n \in DOMAIN infos
      BY <1>4, <1>6, <1>11, <2>3, <3>1 DEF RawDataCb, Known
    <3>3. /\ DOMAIN infos' = DOMAIN infos /\ infos'[n] = infos[n] + count
          /\ \A m \in DOMAIN infos : m # n => infos'[m] = infos[m]
          /\ infos' = [m \in DOMAIN infos' |-> infos'[m]]
      BY <1>2, <3>2
    <3>4. ASSUME n \in Values
          PROVE  count = packet.count /\ packet.count \in Nat
      <4>1. Kind[n] # "ConstantSignal" /\ ValueBytes \in Nat \ {0}
        BY <3>4, GeneratorAssumption, StreamingAssumption
      <4>2. packet.count \in Nat /\ packet.payload.len = packet.count * ValueBytes
        BY <1>3, <1>4, <1>11, <3>4, <4>1 DEF Written, IsBlock, BytesOf
      <4>3. count = (packet.count * ValueBytes) \div ValueBytes
        BY <1>4, <1>11, <3>1, <3>4, <4>2
      <4>4. PICK c \in Nat : c = packet.count
        BY <4>2
      <4>5. (c * ValueBytes) \div ValueBytes = c
        BY <4>1
      <4> QED BY <4>2, <4>3, <4>4, <4>5
    <3>5. \A m \in Values : Tally(m)' = Tally(m) + Share(packet, m)
      <4> TAKE m \in Values
      <4>1. CASE m = n
        BY <1>3, <1>11, <3>2, <3>3, <3>4, <4>1 DEF Tally, Share
      <4>2. CASE m # n
        <5>1. Tally(m)' = Tally(m) /\ Share(packet, m) = 0 /\ Tally(m) \in Nat
          BY <1>2, <1>3, <3>3, <4>2 DEF Tally, Share
        <5> QED BY <5>1
      <4> QED BY <4>1, <4>2
    <3> QED BY <1>3, <1>4, <1>6, <1>11, <3>2, <3>3, <3>5
  <2> QED BY <2>1, <2>2, <2>3
<1> QED BY <1>5, <1>8, <1>9, <1>10, <1>11

\* A packet read moves its values from the stream to the statistics.
LEMMA ClientKeeps ==
    ASSUME Configured, InStep, thrown = FALSE, ClientReceive
    PROVE  InStep' /\ thrown' = FALSE
<1>1. /\ Receive /\ UNCHANGED <<order, at, now, lastProcess>>
  BY DEF ClientReceive, toolVars
<1>2. /\ channel # <<>> /\ channel' = Tail(channel)
      /\ UNCHANGED <<setup, valueIndex, rate, control, sender, acked, started, nextTime>>
  BY <1>1 DEF Receive, producerVars
<1>3. SessionInv("dated")' /\ Promised("dated")'
  <2>1. TypeInv'
    BY <1>1, ReceiveTypes DEF InStep, SessionInv
  <2>2. Sessions("dated")' /\ ChainInv("dated")' /\ Promised("dated")'
    BY <1>1, ConfiguredAttains, ReceiveKeeps DEF InStep
  <2> QED BY <2>1, <2>2 DEF SessionInv
<1>4. Positioned'
  BY <1>1, <1>2 DEF InStep, Positioned, Placed, Acknowledged, Begun, InCall, MoreSignals, Current
<1>5. Clocked'
  BY <1>1, <1>2, ClockKept
<1>6. ChannelOK
  BY Surroundings
<1>7. /\ InOrder(channel') /\ (Leaves(channel') => Leaves(channel))
      /\ \A n : Announced(channel', n) => Announced(channel, n)
      /\ channel[1].kind = "subscribe" => Announced(channel, channel[1].signal)
      /\ channel[1].kind = "unsubscribe" =>
             Leaves(channel) /\ \A n : ~Announced(channel', n)
  BY <1>2, <1>6, OneTaken DEF ChannelOK, InStep, Ordered
<1>8. Ordered'
  BY <1>1, <1>7 DEF InStep, Ordered
<1>9. PICK packet : packet = channel[1]
  OBVIOUS
<1>10. /\ thrown' = FALSE
       /\ infos' = [n \in DOMAIN subscribedSignals' |-> infos'[n]]
       /\ packet.kind = "unsubscribe" => packet.signal \notin DOMAIN infos'
       /\ packet.kind = "subscribe" => packet.signal \notin DOMAIN infos
       /\ packet.kind # "subscribe" => DOMAIN infos' \subseteq DOMAIN infos
       /\ packet.kind = "subscribe" => DOMAIN infos' \subseteq DOMAIN infos \cup {packet.signal}
       /\ \A n \in Values :
              \/ packet.kind = "unsubscribe" /\ packet.signal = n
              \/ Tally(n)' = Tally(n) + Share(packet, n)
  BY <1>9, CallbacksCount
<1>11. \A n \in Values : /\ OnTheWay(channel, n) = OnTheWay(channel', n) + Share(packet, n)
                         /\ OnTheWay(channel', n) \in Nat /\ Share(packet, n) \in Nat
  BY <1>2, <1>6, <1>9, ValuesLess DEF ChannelOK
<1>12. /\ \A n \in Values : Tally(n) \in Nat
       /\ \A n \in Values : Due(n) => Balanced(n)
  BY DEF InStep, Recorded
<1>13. ASSUME NEW n \in Values
       PROVE  /\ Tally(n)' \in Nat
              /\ Due(n)' => Balanced(n)'
  <2>1. CASE packet.kind = "unsubscribe" /\ packet.signal = n
    <3>1. n \notin DOMAIN infos' /\ Leaves(channel) /\ ~Announced(channel', n)
      BY <1>7, <1>9, <1>10, <2>1
    <3>2. at.phase \in Ending
      BY <3>1 DEF InStep, Ordered
    <3>3. ~Due(n)'
      BY <1>1, <3>1, <3>2 DEF Due, Ending
    <3> QED BY <3>1, <3>3 DEF Tally
  <2>2. CASE Tally(n)' = Tally(n) + Share(packet, n)
    <3>1. Due(n)' => Due(n)
      BY <1>1, <1>7, <1>9, <1>10 DEF Due
    <3>2. AboutToWrite(n)' = AboutToWrite(n)
      BY <1>1, <1>2 DEF AboutToWrite, MoreSignals, Current
    <3>3. PICK a : a = Tally(n)
      OBVIOUS
    <3>4. PICK b : b = OnTheWay(channel', n)
      OBVIOUS
    <3>5. PICK c : c = AboutToWrite(n)
      OBVIOUS
    <3>6. PICK d : d = Share(packet, n)
      OBVIOUS
    <3>7. PICK e : e = lastProcess[n] \div SamplePeriod(n)
      OBVIOUS
    <3>8. a \in Nat /\ b \in Nat /\ d \in Nat /\ OnTheWay(channel, n) = b + d
      BY <1>11, <1>12, <3>3, <3>4, <3>6
    <3>9. Balanced(n) <=> (a + (b + d)) + c = e
      BY <3>3, <3>5, <3>7, <3>8 DEF Balanced
    <3>10. Balanced(n)' <=> ((a + d) + b) + c = e
      BY <1>1, <2>2, <3>2, <3>3, <3>4, <3>5, <3>6, <3>7 DEF Balanced, SamplePeriod
    <3>11. a + (b + d) = (a + d) + b
      BY <3>8
    <3> QED BY <1>12, <2>2, <3>1, <3>3, <3>6, <3>8, <3>9, <3>10, <3>11
  <2> QED BY <1>10, <2>1, <2>2
<1>14. Recorded'
  BY <1>10, <1>13 DEF Recorded
<1> QED BY <1>3, <1>4, <1>5, <1>8, <1>10, <1>14 DEF InStep

-----------------------------------------------------------------------------
(* The generator and its client. *)

\* The two sides as they are made.
LEMMA GeneratorInitial ==
    ASSUME Configured, GeneratorInit
    PROVE  GeneratorInv
<1>1. /\ StreamInit /\ order \in Orders /\ at = At("configured", 1) /\ now = 0
      /\ lastProcess = [n \in Values |-> 0] /\ connected = TRUE
      /\ infos = <<>> /\ thrown = FALSE
      /\ \A t \in Times : Kind[t] = "LinearTimeSignal" => rate[t] = Period[TableOf[t]]
  BY DEF GeneratorInit
<1>2. SessionInv("dated") /\ Promised("dated")
  BY <1>1, StreamInitial, NothingPromised DEF SessionInv
<1>3. /\ setup = SignalNumbers /\ channel = <<>> /\ control = Idle /\ sender = Idle
      /\ acked = {} /\ started = {} /\ subscribedSignals = <<>>
      /\ valueIndex \in [SignalNumbers -> {0}]
  BY <1>1 DEF StreamInit, ContainerInit, Configured
<1>4. at.phase = "configured" /\ at.i = 1 /\ at.left = 0
  BY <1>1 DEF At
<1>5. Positioned
  <2>1. Len(order) \in Nat
    BY <1>1, PlacesOf
  <2>2. at \in [phase : Phases, i : Nat, left : Nat]
    BY <1>1 DEF At, Phases
  <2> QED BY <1>1, <1>3, <1>4, <2>1, <2>2
          DEF Positioned, Placed, Acknowledged, Begun, InCall, Playing
<1>6. Clocked
  <2>1. \A n \in Counted : ~(TimesOf(n) \subseteq started)
    BY <1>3, GeneratorAssumption DEF Counted, TimesOf, Times
  <2>2. \A t \in LinearTimes : rate[t] = Period[TableOf[t]]
    BY <1>1 DEF LinearTimes
  <2>3. \A n \in Values : valueIndex[n] = 0
    BY <1>3 DEF Values
  <2> QED BY <1>1, <2>1, <2>2, <2>3 DEF Clocked
<1>7. Len(channel) = 0 /\ 1 .. Len(channel) = {}
  BY <1>3
<1>8. Ordered
  BY <1>7 DEF Ordered, InOrder, Leaves
<1>9. Recorded
  <2>1. DOMAIN infos = {} /\ infos = [n \in DOMAIN subscribedSignals |-> infos[n]]
    BY <1>1, <1>3
  <2>2. \A n \in Values : Tally(n) = 0 /\ OnTheWay(channel, n) = 0 /\ AboutToWrite(n) = 0
    BY <1>3, <1>4, <2>1, NoValues, NothingAbout DEF Tally
  <2>3. ASSUME NEW n \in Values
        PROVE  lastProcess[n] \div SamplePeriod(n) = 0
    <3>1. TableOf[n] \in TableIds
      BY StreamingAssumption DEF Values
    <3>2. SamplePeriod(n) \in Nat \ {0}
      BY <3>1, GeneratorAssumption DEF SamplePeriod
    <3>3. PICK period \in Nat \ {0} : period = SamplePeriod(n)
      BY <3>2
    <3>4. 0 \div period = 0
      OBVIOUS
    <3> QED BY <1>1, <3>3, <3>4
  <2>4. \A n \in Values : Balanced(n) /\ Tally(n) \in Nat
    BY <2>2, <2>3 DEF Balanced
  <2> QED BY <2>1, <2>4 DEF Recorded
<1>10. TimeStampsTrue
  BY <1>2 DEF Promised, Dates
<1> QED BY <1>1, <1>2, <1>5, <1>6, <1>8, <1>9, <1>10 DEF GeneratorInv, InStep

\* The worker does not touch the client, and the connection is not its doing.
LEMMA ClientLeftAlone ==
    ASSUME WorkerNext
    PROVE  UNCHANGED <<setup, received, last, thrown, connected>>
<1> USE DEF clientVars, streamVars, producerVars, consumerVars, containerVars
<1>1. CASE Start \/ AllSubscribed \/ AllStarted \/ LoopOrFinish \/ NothingToDo \/ AllProcessed
           \/ Return
  BY <1>1 DEF Start, AllSubscribed, AllStarted, LoopOrFinish, NothingToDo, AllProcessed, Return,
              Local
<1>2. CASE SubscribeNext
  BY <1>2 DEF SubscribeNext, Subscribe, GoOn
<1>3. CASE DescribeNext
  BY <1>3 DEF DescribeNext, ComposeDescription, WriteDescription, GoOn
<1>4. CASE InitAfterSubscribeAck
  BY <1>4 DEF InitAfterSubscribeAck, SetTimeStart, GoOn
<1>5. CASE ProcessSynchronous
  BY <1>5 DEF ProcessSynchronous, CountValues
<1>6. CASE WriteSamples
  BY <1>6 DEF WriteSamples, WriteValues, WriteFails, GoOn
<1>7. CASE ProcessAsynchronous
  BY <1>7 DEF ProcessAsynchronous
<1>8. CASE WriteTuple
  BY <1>8 DEF WriteTuple, AddTuple, WriteFails, GoOn
<1>9. CASE AdvanceTime
  BY <1>9 DEF AdvanceTime
<1>10. CASE UnsubscribeNext
  BY <1>10 DEF UnsubscribeNext, Unsubscribe, GoOn
<1> QED BY <1>1, <1>2, <1>3, <1>4, <1>5, <1>6, <1>7, <1>8, <1>9, <1>10 DEF WorkerNext

\* Every step keeps the two sides in step while they are connected, and what the client
\* was told last stays true when they no longer are.
LEMMA GeneratorStepKeeps ==
    ASSUME Configured, GeneratorInv, [GeneratorNext]_generatorVars
    PROVE  GeneratorInv'
<1>1. thrown = FALSE /\ TimeStampsTrue /\ connected \in BOOLEAN /\ (connected => InStep)
  BY DEF GeneratorInv
<1>2. ASSUME InStep, UNCHANGED <<streamVars, order, at, now, lastProcess, infos>>
      PROVE  InStep'
  <2>1. SessionInv("dated")' /\ Promised("dated")' /\ UNCHANGED <<setup, subscribedSignals>>
    BY <1>2, StreamKept
  <2>2. UNCHANGED <<channel, valueIndex, rate, control, sender, acked, started, nextTime>>
    BY <1>2 DEF streamVars, producerVars
  <2>3. Positioned'
    BY <1>2, <2>2 DEF InStep, Positioned, Placed, Acknowledged, Begun, InCall, MoreSignals,
                      Current
  <2>4. Clocked'
    BY <1>2, <2>1, <2>2, ClockKept
  <2>5. Ordered'
    BY <1>2, <2>2 DEF InStep, Ordered
  <2>6. Recorded'
    BY <1>2, <2>1, <2>2 DEF InStep, Recorded, Tally, Due, Balanced, AboutToWrite, MoreSignals,
                            Current, SamplePeriod
  <2> QED BY <2>1, <2>3, <2>4, <2>5, <2>6 DEF InStep
<1>3. ASSUME UNCHANGED <<setup, received, last>>
      PROVE  TimeStampsTrue'
  BY <1>1, <1>3 DEF TimeStampsTrue, DatedBlock, TimesOf
<1>4. CASE WorkerNext
  <2>1. UNCHANGED <<setup, received, last, thrown, connected>>
    BY <1>4, ClientLeftAlone
  <2>2. ASSUME connected PROVE InStep'
    BY <1>1, <1>4, <2>2, LocalKeeps, TimeKeeps, SubscribeKeeps, DescribeKeeps, InitKeeps,
       SynchronousKeeps, SamplesKeep, AsynchronousKeeps, TupleKeeps, UnsubscribeKeeps
       DEF WorkerNext
  <2> QED BY <1>1, <1>3, <2>1, <2>2 DEF GeneratorInv
<1>5. CASE IoNext
  <2>1. /\ UNCHANGED <<streamVars, order, at, now, lastProcess, infos, thrown, connected>>
    BY <1>5 DEF IoNext, ErrorCb, StopStores, clientVars
  <2>2. UNCHANGED <<setup, received, last>>
    BY <2>1 DEF streamVars, producerVars, consumerVars, containerVars
  <2> QED BY <1>1, <1>2, <1>3, <2>1, <2>2 DEF GeneratorInv
<1>6. CASE ClientReceive
  <2>1. connected /\ connected' = connected
    BY <1>6 DEF ClientReceive
  <2>2. InStep' /\ thrown' = FALSE
    BY <1>1, <1>6, <2>1, ClientKeeps
  <2>3. TimeStampsTrue'
    BY <2>2 DEF InStep, Promised, Dates
  <2> QED BY <1>1, <2>1, <2>2, <2>3 DEF GeneratorInv
<1>7. CASE Disconnect
  <2>1. UNCHANGED <<setup, received, last, thrown>> /\ connected' = FALSE
    BY <1>7 DEF Disconnect, clientVars, streamVars, producerVars, consumerVars, containerVars
  <2> QED BY <1>1, <1>3, <2>1 DEF GeneratorInv
<1>8. CASE UNCHANGED generatorVars
  <2>1. /\ UNCHANGED <<streamVars, order, at, now, lastProcess, infos, thrown, connected>>
    BY <1>8 DEF generatorVars, toolVars, clientVars
  <2>2. UNCHANGED <<setup, received, last>>
    BY <2>1 DEF streamVars, producerVars, consumerVars, containerVars
  <2> QED BY <1>1, <1>2, <1>3, <2>1, <2>2 DEF GeneratorInv
<1> QED BY <1>4, <1>5, <1>6, <1>7, <1>8 DEF GeneratorNext

LEMMA GeneratorSafe ==
    ASSUME Configured
    PROVE  /\ GeneratorInit => GeneratorInv
           /\ GeneratorInv /\ [GeneratorNext]_generatorVars => GeneratorInv'
BY GeneratorInitial, GeneratorStepKeeps

\* Without any further rule on the order of the calls every block of the generator is
\* delivered, and indices and subscriptions agree as long as the connection stands
\* (signalgenerator.cpp:176-204).
THEOREM ConsumerStaysInStep ==
    ASSUME Configured
    PROVE  GeneratorSpec => []ConsumerInStep
<1>1. /\ GeneratorInit => GeneratorInv
      /\ GeneratorInv /\ [GeneratorNext]_generatorVars => GeneratorInv'
  BY GeneratorSafe
<1>2. GeneratorInv => ConsumerInStep
  <2>1. InStep => EveryBlockDelivered
    BY DEF InStep, Promised, Delivers
  <2>2. InStep => IndexesAgree
    BY AgreeingIndexes DEF InStep
  <2>3. InStep => SubscriptionsFollow
    BY FollowingAcks DEF InStep
  <2> QED BY <2>1, <2>2, <2>3 DEF GeneratorInv, ConsumerInStep
<1> QED BY <1>1, <1>2, PTL DEF GeneratorSpec

\* Every sample is dated by the generator's clock, whatever the two periods are and also
\* when time or index wraps (generatedsynchronoussignal.h:96-115).
THEOREM ClockIsTold ==
    ASSUME Configured
    PROVE  GeneratorSpec => []StampsFollowClock
<1>1. /\ GeneratorInit => GeneratorInv
      /\ GeneratorInv /\ [GeneratorNext]_generatorVars => GeneratorInv'
  BY GeneratorSafe
<1>2. GeneratorInv => StampsFollowClock
  BY DEF GeneratorInv, InStep, Clocked, StampsFollowClock, Counted
<1> QED BY <1>1, <1>2, PTL DEF GeneratorSpec

\* The client's statistics are complete: no sample that is due is lost or counted twice
\* between process() and rawDataCb(), and no callback meets an unknown signal
\* (StreamingClient.cpp:91-133).
THEOREM StatisticsComplete ==
    ASSUME Configured
    PROVE  GeneratorSpec => []ClientCounts
<1>1. /\ GeneratorInit => GeneratorInv
      /\ GeneratorInv /\ [GeneratorNext]_generatorVars => GeneratorInv'
  BY GeneratorSafe
<1>2. GeneratorInv => ClientCounts
  <2> SUFFICES ASSUME GeneratorInv, connected, NEW n \in Values \cap DOMAIN infos
               PROVE  infos[n] + InTheStream(n) + AboutToWrite(n)
                      = lastProcess[n] \div SamplePeriod(n)
    BY DEF ClientCounts, GeneratorInv
  <2>1. ChannelOK /\ Recorded
    BY DEF GeneratorInv, InStep, SessionInv, TypeInv
  <2>2. InTheStream(n) = OnTheWay(channel, n)
    BY <2>1, StreamCounted DEF InTheStream
  <2> QED BY <2>1, <2>2 DEF Recorded, Due, Balanced, Tally
<1> QED BY <1>1, <1>2, PTL DEF GeneratorSpec

\* A run that ended by itself leaves no signal, no table and no statistics behind
\* (signalgenerator.cpp:202-204, SignalContainer.cpp:69-93).
THEOREM NothingLeftBehind ==
    ASSUME Configured
    PROVE  GeneratorSpec => []CleanEnd
<1>1. /\ GeneratorInit => GeneratorInv
      /\ GeneratorInv /\ [GeneratorNext]_generatorVars => GeneratorInv'
  BY GeneratorSafe
<1>2. GeneratorInv => CleanEnd
  <2> SUFFICES ASSUME InStep, at.phase = "returned", channel = <<>>
               PROVE  subscribedSignals = <<>> /\ tables = <<>> /\ infos = <<>>
    BY DEF CleanEnd, GeneratorInv
  <2>1. PICK first, last1 : /\ Linked(first, last1, channel, setup, "dated")
                            /\ Registered(first) /\ EndMatches(last1)
    BY DEF InStep, SessionInv, ChainInv
  <2>2. first = last1 /\ ViewOK(first, setup)
    <3>1. Len(channel) = 0
      OBVIOUS
    <3> QED BY <2>1, <3>1 DEF Linked, Chain
  <2>3. first.known = {} /\ first.described = {}
    BY <2>1, <2>2 DEF EndMatches, ViewOK, InStep, Positioned, Acknowledged
  <2>4. SignalsTypeOK /\ TablesTypeOK
    BY DEF InStep, SessionInv, TypeInv, StreamTypeOK, ContainerTypeOK
  <2>5. DOMAIN subscribedSignals = {}
    BY <2>1, <2>3 DEF Registered
  <2>6. subscribedSignals = <<>>
    BY <2>4, <2>5 DEF SignalsTypeOK
  <2>7. infos = <<>>
    <3>1. infos = [n \in {} |-> infos[n]]
      BY <2>5 DEF InStep, Recorded
    <3> QED BY <3>1
  <2>8. DOMAIN tables = {}
    <3> SUFFICES ASSUME NEW t \in DOMAIN tables PROVE FALSE
      OBVIOUS
    <3>1. /\ tables[t] \in Table /\ tables[t] # NewTable /\ tables[t].time = NoTimeSignal
          /\ \A n \in SignalNumbers : n \notin tables[t].data
      BY <2>1, <2>3, <2>4 DEF Registered, TablesMatch, TablesTypeOK
    <3>2. tables[t].data = {}
      BY <3>1 DEF Table
    <3> QED BY <3>1, <3>2 DEF Table, NewTable
  <2>9. tables = <<>>
    BY <2>4, <2>8 DEF TablesTypeOK
  <2> QED BY <2>6, <2>7, <2>9
<1> QED BY <1>1, <1>2, PTL DEF GeneratorSpec
=============================================================================
