-------------------------- MODULE SignalGenerator ---------------------------
(***************************************************************************)
(* The two tools at the ends of a session: the worker thread of the signal *)
(* generator, which plays a fixed set of signals into the stream, and the  *)
(* callbacks of the streaming client, which count what arrives.            *)
(*                                                                         *)
(* The generator is the application of module Streaming: its Discipline is *)
(* empty and what order the calls come in is what start() does.  A second  *)
(* thread runs the io_context; it calls SignalGenerator::stop() when the   *)
(* read of the ProducerSession fails.                                      *)
(*                                                                         *)
(* m_time is counted from the moment the generator was made.               *)
(***************************************************************************)
EXTENDS Streaming, Functions

CONSTANTS
    Orders,         \* orders of the signal ids, the keys of m_generatedSignals
    Period,         \* samplePeriod of each table
    ProcessPeriod,  \* m_processPeriod
    Executions,     \* values of m_executionTime
    StartTicks,     \* what timeTicksFromTime() makes of the first m_time
    Granule,        \* resolution of the clock addNanosecondsToTimePoint() keeps
    Horizon         \* bound: m_time up to which an endless run is followed

Truncated(duration) == duration - (duration % Granule)

ASSUME GeneratorAssumption ==
    /\ Orders \subseteq Seq(SignalNumbers)
    /\ \A o \in Orders : IsInjective(o) /\ Range(o) = SignalNumbers
    /\ \A n \in Values : /\ Kind[n] # "ConstantSignal"
                         /\ \E t \in Times : TableOf[t] = TableOf[n]
    /\ \A t \in TableIds : Period[t] \in Nat \ {0}
    /\ ProcessPeriod \in Nat \ {0}
    /\ Executions \subseteq Nat
    /\ StartTicks \in Word
    /\ Granule \in Nat \ {0} /\ Horizon \in Nat

\* The configured durations are whole ticks of the clock.  The default build keeps
\* microseconds, the configuration takes nanoseconds.
ASSUME WholeTicksAssumption ==
    /\ \A t \in TableIds : Period[t] % Granule = 0
    /\ ProcessPeriod % Granule = 0

VARIABLES
    order,          \* the signals in the order of m_generatedSignals
    at,             \* where start() is, and the tuples of an addData() left to write
    now,            \* m_time
    end,            \* m_endTime
    lastProcess,    \* m_lastProcessTime of each value signal
    connected,      \* the connection to the client stands
    observer,       \* the pending read of the ProducerSession and its errorCb
    infos,          \* s_signalInfos: the values counted of each signal
    thrown          \* at() of the client met a signal it does not know

toolVars == <<order, at, now, end, lastProcess, observer>>
clientVars == <<infos, thrown>>
generatorVars == <<streamVars, toolVars, clientVars, connected>>

-----------------------------------------------------------------------------
At(phase, i) == [phase |-> phase, i |-> i, left |-> 0]
Returned == At("returned", 1)
Current == order[at.i]
MoreSignals == at.i <= Len(order)
BetweenCalls == control = Idle /\ sender = Idle

Forever == Horizon + ProcessPeriod + 1
Endless == end = Forever

\* One step of start() that touches nothing but its own variables.
Local(phase, i) ==
    /\ at' = At(phase, i)
    /\ UNCHANGED <<streamVars, order, now, lastProcess, observer, clientVars, connected>>

\* A step that goes on at `next' and leaves the rest of the generator alone.
GoOn(next) ==
    /\ at' = next
    /\ UNCHANGED <<order, now, end, lastProcess, observer, clientVars, connected>>

\* m_stream->write() answers with the number of bytes it wrote, 0 when it failed;
\* the error code beside it is not looked at.
FailedWrite == 0

\* process() hands a negative answer of the write on, start() aborts on it.
AfterWrite(result, next) == IF result < 0 THEN Returned ELSE next

-----------------------------------------------------------------------------
(* SignalGenerator::start() *)

\* The end is fixed before the connection is observed.
Start ==
    /\ at.phase = "configured"
    /\ \E duration \in Executions :
           end' = IF duration = 0 THEN Forever ELSE now + Truncated(duration)
    /\ Local("subscribe", 1)

\* subscribeSignals(): ack and description, signal by signal.  Nothing looks at the
\* result of these writes.
SubscribeNext ==
    /\ at.phase = "subscribe" /\ BetweenCalls /\ MoreSignals
    /\ \/ connected /\ Subscribe(Current)
       \/ /\ ~connected
          /\ control' = [step |-> "compose", signal |-> Current]
          /\ UNCHANGED <<channel, valueIndex, rate, sender, acked, started, nextTime, setup, consumerVars>>
    /\ GoOn(At("subscribe", at.i + 1))

DescribeNext ==
    /\ at.phase = "subscribe" /\ control # Idle
    /\ \/ ComposeDescription
       \/ connected /\ WriteDescription
       \/ /\ ~connected /\ control.step = "write"
          /\ control' = Idle
          /\ UNCHANGED <<channel, valueIndex, rate, sender, acked, started, nextTime, setup, consumerVars>>
    /\ GoOn(at)

AllSubscribed ==
    /\ at.phase = "subscribe" /\ BetweenCalls /\ ~MoreSignals
    /\ end' = end
    /\ Local("init", 1)

\* initAfterSubscribeAck(): every time signal tells m_time, which has not moved yet.
InitAfterSubscribeAck ==
    /\ at.phase = "init" /\ MoreSignals
    /\ \/ Current \in Times /\ connected /\ SetTimeStart(Current, (StartTicks + now) % Wrap)
       \/ ~(Current \in Times /\ connected) /\ UNCHANGED streamVars
    /\ GoOn(At("init", at.i + 1))

AllStarted ==
    /\ at.phase = "init" /\ ~MoreSignals
    /\ end' = end
    /\ Local("loop", 1)

LoopOrFinish ==
    /\ at.phase = "loop"
    /\ end' = end
    /\ Local(IF now <= end THEN "process" ELSE "unsubscribe", 1)

-----------------------------------------------------------------------------
(* process() of the three kinds of generated signals. *)

SamplePeriod(n) == Period[TableOf[n]]

\* process() of a time signal does nothing.
SamplesToProcess(n) ==
    IF n \in Times THEN 0 ELSE (now - lastProcess[n]) \div SamplePeriod(n)

NothingToDo ==
    /\ at.phase = "process" /\ sender = Idle /\ MoreSignals /\ at.left = 0
    /\ SamplesToProcess(Current) = 0
    /\ end' = end
    /\ Local("process", at.i + 1)

\* Mutant of ProcessSynchronous: the process time of the signal is moved to m_time,
\* the rest of a period that was not sampled is forgotten.
ProcessSynchronousRounded ==
    /\ at.phase = "process" /\ sender = Idle /\ MoreSignals
    /\ SamplesToProcess(Current) > 0
    /\ CountValues(Current, SamplesToProcess(Current))
    /\ lastProcess' = [lastProcess EXCEPT ![Current] = now]
    /\ UNCHANGED <<order, at, now, end, observer, clientVars, connected>>

\* GeneratedSynchronousSignal: all samples in one addData(), which counts them here
\* and writes them in WriteSamples.
ProcessSynchronous ==
    /\ at.phase = "process" /\ sender = Idle /\ MoreSignals
    /\ SamplesToProcess(Current) > 0
    /\ CountValues(Current, SamplesToProcess(Current))
    /\ lastProcess' =
           [lastProcess EXCEPT ![Current] = @ + SamplesToProcess(Current) * SamplePeriod(Current)]
    /\ UNCHANGED <<order, at, now, end, observer, clientVars, connected>>

\* A data write to a connection that is gone.
WriteFails(next) ==
    /\ ~connected
    /\ sender' = Idle
    /\ at' = AfterWrite(FailedWrite, next)
    /\ UNCHANGED <<channel, valueIndex, rate, control, acked, started, nextTime, setup, consumerVars>>
    /\ UNCHANGED <<order, now, end, lastProcess, observer, clientVars, connected>>

WriteSamples ==
    LET next == At("process", at.i + 1)
    IN  /\ at.phase = "process" /\ sender # Idle
        /\ \/ connected /\ WriteValues /\ GoOn(next)
           \/ WriteFails(next)

\* GeneratedAsynchronousSignal: the tuples are made first, then written one by one.
ProcessAsynchronous ==
    /\ at.phase = "process" /\ MoreSignals /\ at.left = 0
    /\ Kind[Current] = "AsynchronousSignal" /\ SamplesToProcess(Current) > 0
    /\ at' = [at EXCEPT !.left = SamplesToProcess(Current)]
    /\ lastProcess' =
           [lastProcess EXCEPT ![Current] =
                @ + SamplesToProcess(Current) * Truncated(SamplePeriod(Current))]
    /\ UNCHANGED <<streamVars, order, now, end, observer, clientVars, connected>>

WriteTuple ==
    LET next == IF at.left = 1 THEN At("process", at.i + 1) ELSE [at EXCEPT !.left = @ - 1]
    IN  /\ at.phase = "process" /\ at.left > 0
        /\ \/ connected /\ AddTuple(Current, Unset) /\ GoOn(next)
           \/ WriteFails(next)

AllProcessed ==
    /\ at.phase = "process" /\ sender = Idle /\ ~MoreSignals
    /\ end' = end
    /\ Local("sleep", 1)

\* The sleep, if any, takes no time of the model; only m_time counts.
AdvanceTime ==
    /\ at.phase = "sleep"
    /\ now < Horizon \/ ~Endless
    /\ now' = now + Truncated(ProcessPeriod)
    /\ at' = At("loop", 1)
    /\ UNCHANGED <<streamVars, order, end, lastProcess, observer, clientVars, connected>>

-----------------------------------------------------------------------------
(* The end of start(): unsubscribeSignals(), removeSignals() and stop(). *)

\* Mutant of UnsubscribeNext: the last signal keeps its subscription.
UnsubscribeNextButLast ==
    /\ at.phase = "unsubscribe" /\ at.i < Len(order)
    /\ \/ connected /\ Unsubscribe(Current)
       \/ ~connected /\ UNCHANGED streamVars
    /\ GoOn(IF at.i + 1 = Len(order) THEN Returned ELSE At("unsubscribe", at.i + 1))

UnsubscribeNext ==
    /\ at.phase = "unsubscribe" /\ MoreSignals
    /\ \/ connected /\ Unsubscribe(Current)
       \/ ~connected /\ UNCHANGED streamVars
    /\ GoOn(At("unsubscribe", at.i + 1))

\* The worker thread ends; the close it has asked for aborts the pending read.
Return ==
    /\ at.phase = "unsubscribe" /\ ~MoreSignals
    /\ end' = end
    /\ Local("returned", 1)

-----------------------------------------------------------------------------
(* The io_context thread: the pending read of the session fails. *)

\* onRead() calls errorCb, stop() reads m_time while start() may move it.  After the
\* return of start() nothing reads what stop() stores any more, and the Worker that
\* holds it may be gone.
ErrorCb ==
    /\ observer.step = "reading"
    /\ at.phase # "configured"
    /\ ~connected \/ at.phase = "returned"
    /\ observer' = [step |-> "store", time |-> now]
    /\ UNCHANGED <<streamVars, order, at, now, end, lastProcess, clientVars, connected>>

\* Mutant of StopStores: a finished run only is stopped.
StopStoresReturned ==
    /\ observer.step = "store"
    /\ end' = IF Endless THEN end ELSE observer.time
    /\ observer' = [step |-> "done"]
    /\ UNCHANGED <<streamVars, order, at, now, lastProcess, clientVars, connected>>

\* stop() writes m_endTime.
StopStores ==
    /\ observer.step = "store"
    /\ end' = observer.time
    /\ observer' = [step |-> "done"]
    /\ UNCHANGED <<streamVars, order, at, now, lastProcess, clientVars, connected>>

-----------------------------------------------------------------------------
(* The streaming client. *)

Known(n) == n \in DOMAIN infos

\* signalMetaCb(): emplace() on a subscribe, at() and erase() on an unsubscribe
\* acknowledgement.
SignalMetaCb(packet) ==
    LET n == packet.signal
    IN  /\ infos' = CASE packet.kind = "subscribe" /\ ~Known(n) -> Put(infos, n, 0)
                      [] packet.kind = "unsubscribe"            -> Erase(infos, n)
                      [] OTHER                                  -> infos
        /\ thrown' = (thrown \/ (packet.kind = "unsubscribe" /\ ~Known(n)))

\* Mutant of RawDataCb: the blocks are counted.
RawDataCbBlocks(n, delivery) ==
    /\ infos' = IF Known(n) THEN [infos EXCEPT ![n] = @ + 1] ELSE infos
    /\ thrown' = (thrown \/ ~Known(n))

\* rawDataCb(): the values of the block, as the register knows their size.
RawDataCb(n, delivery) ==
    LET count == delivery.bytes \div subscribedSignals[n].size
    IN  /\ infos' = IF Known(n) THEN [infos EXCEPT ![n] = @ + count] ELSE infos
        /\ thrown' = (thrown \/ ~Known(n))

\* The container answers a packet and calls back when it has accepted it.
ClientReceive ==
    /\ connected /\ ~thrown
    /\ Receive
    /\ \/ last'.kind = "meta" /\ last'.ok /\ SignalMetaCb(received')
       \/ last'.kind = "data" /\ last'.delivery # NoDelivery /\ RawDataCb(last'.signal, last'.delivery)
       \/ last'.kind = "data" /\ last'.delivery = NoDelivery /\ UNCHANGED clientVars
    /\ UNCHANGED <<toolVars, connected>>

\* SIGINT or SIGTERM ends the client, or the network breaks.
Disconnect ==
    /\ connected
    /\ connected' = FALSE
    /\ UNCHANGED <<streamVars, toolVars, clientVars>>

-----------------------------------------------------------------------------
GeneratorInit ==
    /\ StreamInit
    /\ \A t \in Times : Kind[t] = "LinearTimeSignal" => rate[t] = Period[TableOf[t]]
    /\ order \in Orders
    /\ at = At("configured", 1)
    /\ now = 0 /\ end = 0
    /\ lastProcess = [n \in Values |-> 0]
    /\ connected = TRUE
    /\ observer = [step |-> "reading"]
    /\ infos = <<>> /\ thrown = FALSE

WorkerNext ==
    \/ Start \/ SubscribeNext \/ DescribeNext \/ AllSubscribed
    \/ InitAfterSubscribeAck \/ AllStarted
    \/ LoopOrFinish
    \/ NothingToDo \/ ProcessSynchronous \/ WriteSamples
    \/ ProcessAsynchronous \/ WriteTuple \/ AllProcessed
    \/ AdvanceTime
    \/ UnsubscribeNext \/ Return

IoNext == ErrorCb \/ StopStores

GeneratorNext == WorkerNext \/ IoNext \/ ClientReceive \/ Disconnect

\* The worker thread, the io_context thread and the client run; nothing makes the
\* connection break.
GeneratorSpec ==
    /\ GeneratorInit /\ [][GeneratorNext]_generatorVars
    /\ WF_generatorVars(WorkerNext)
    /\ WF_generatorVars(IoNext)
    /\ WF_generatorVars(ClientReceive)

-----------------------------------------------------------------------------
InTheStream(n) == MapThenSumSet(LAMBDA i : channel[i].count, InFlight(n, {"data"}))

\* Made by process() and not in the stream yet.
AboutToWrite(n) ==
    IF sender # Idle /\ sender.packet.signal = n THEN sender.packet.count
    ELSE IF at.phase = "process" /\ MoreSignals /\ n = Current THEN at.left ELSE 0

\* The client's statistics are right: what it has counted of a signal, what is in the
\* stream and what the generator is about to write are together the samples that are
\* due, one per sample period; and its at() never meets an unknown signal, whatever
\* order the ids of time and data signals have (StreamingClient.cpp:116, :124-129
\* against generatedsynchronoussignal.h:91-124, generatedasynchronoussignal.h:97-126).
ClientCounts ==
    /\ ~thrown
    /\ connected => \A n \in Values \cap DOMAIN infos :
           infos[n] + InTheStream(n) + AboutToWrite(n) = lastProcess[n] \div SamplePeriod(n)

\* The time stamps the client gets are the generator's: the next value of a synchronous
\* signal is dated m_lastProcessTime, so no sample is dated twice and none is left out,
\* also where the process period is no multiple of the sample period
\* (generatedtimesignal.h:55-60, generatedsynchronoussignal.h:96-115, SubscribedSignal.cpp:54).
StampsFollowClock ==
    /\ TimeStampsTrue
    /\ \A n \in Values :
           /\ Kind[n] = "SynchronousSignal" /\ connected
           /\ TimesOf(n) \subseteq started
           => nextTime[n] = (StartTicks + lastProcess[n]) % Wrap

\* What start() does is enough for the consumer: without any further rule on the order
\* of the calls every block of values is delivered, indices and subscriptions agree and
\* the session stays open (signalgenerator.cpp:176-204).
ConsumerInStep ==
    connected => EveryBlockDelivered /\ IndexesAgree /\ SubscriptionsFollow

\* A run that ended by itself leaves nothing behind at the client: no signal, no table,
\* no statistics (signalgenerator.cpp:202-204, SignalContainer.cpp:69-93,
\* StreamingClient.cpp:127-129).
CleanEnd ==
    connected /\ at.phase = "returned" /\ channel = <<>> =>
        /\ subscribedSignals = <<>> /\ tables = <<>>
        /\ infos = <<>>

\* A run with an execution time ends, and an endless one ends when the client is gone,
\* although stop() and the loop use m_time and m_endTime without a lock
\* (signalgenerator.cpp:137-140, :164-174, :186-199).
GeneratorEnds ==
    (at.phase # "configured" /\ (~Endless \/ ~connected)) ~> (at.phase = "returned")
=============================================================================
