# A TLA+ development for the openDAQ streaming protocol (LT)

This directory holds TLA+ specifications of the streaming protocol library in `src/`, the TLC
configurations that check them on small instances, and TLAPS proofs of their invariants and of
the transport's refinement, for every size of the instance. Every definition is translated from
the C++ source;
`PROJECT.json` names, for each one, the lines it stands for. Paths below are relative to the
repository's root.

## 1. The system

The library moves measured data from a *producer* (a device) to a *consumer* (a client) over one
bidirectional byte stream, and has a second, short-lived HTTP connection on which the consumer
asks for signals. The layers, from the wire up:

| Component | Source | State | Operations |
|---|---|---|---|
| Transport layer | `lib/StreamWriter.cpp`, the read handlers of `lib/ProtocolHandler.cpp` | write mutex, bytes under way, decoded header | write a packet; `onHeader`, `onAdditionalLength`, `onPayload` |
| Subscribed signal | `lib/SubscribedSignal.cpp` | table, value index, time, linear delta, rule, value size, "is a time signal" | take in a "signal" description; turn a data block into callbacks |
| Signal container | `lib/SignalContainer.cpp`, `Table.hpp` | map of subscribed signals, map of tables | subscribe and unsubscribe acknowledgements, descriptions, data |
| Producer signals | `lib/Base*Signal.cpp`, `LinearTimeSignal.cpp`, `ExplicitTimeSignal.cpp`, `SynchronousSignal.hpp`, `AsynchronousSignal.hpp`, `ConstantSignal.hpp` | value index, output rate | `subscribe`, `unsubscribe`, `writeSignalMetaInformation`, `setTimeStart`, `setOutputRate`, `addData` |
| Consumer session | `lib/ProtocolHandler.cpp`, `MetaInformation.cpp`, `StreamMeta.cpp` | stream, remote host, session error, last meta information, stream id and control interface | `start`, `startWithSyncInit`, `stop`, `subscribe`, `unsubscribe` and the completion handlers |
| Producer session | `lib/ProducerSession.cpp` | registry of signals | add, remove, subscribe and unsubscribe signals, announce them |
| Server | `lib/Server.cpp` | registry of sessions | accept, stop, announce signals, remove a session |
| Control path | `lib/Controller.cpp`, `HttpPost.cpp`, `ControlServer.cpp` | one HTTP exchange | request, parse, answer |
| Value types, sample type tables | `lib/Types.cpp`, `Unit.cpp`, `SynchronousSignal.cpp`, `AsynchronousSignal.cpp`, `ConstantSignal.cpp` | units, ranges, scaling, resolution; one template instance per type | compose, parse, name the type |
| Signal generator | `tool/SignalGenerator/` | clock, end, what each signal has processed | configure, `start`, `process`, `stop` |
| Streaming client | `tool/StreamingClient/` | statistics per signal | callbacks for meta information and data |
| Logging | `lib/Logging.cpp` | - | - |

How they interact. An application thread calls the producer's signals; each call ends in one or
more packets handed to `StreamWriter`, whose mutex makes a *packet* atomic and nothing more. On
the other side the io_context runs the completion handlers of `ProtocolHandler` one after the
other; `onPayload` gives meta information of stream number 0 to `StreamMeta`, meta information
of a signal to `SignalContainer`, and data to `SignalContainer`, which dates it through the
time signal of its table and calls the application back. `ProtocolHandler::subscribe` leaves the
stream and posts an HTTP request through `Controller`; `ControlServer` on the device turns it
into `ProducerSession::subscribeSignals`. `Server` makes a `ProducerSession` for each stream it
accepts and keeps weak pointers to them; a pending read or close is what keeps a session alive.
The signal generator is the application on the producer's side: a thread per client that
subscribes its signals, tells the start times and plays samples until its time is over or the
pending read says that the client has gone. The streaming client counts what arrives.

What is hard about it:

* **Two registers that must agree.** The container keeps signals in one map and the members of
  tables in another; members are numbers, looked up with `operator[]` and dereferenced.
* **Time is never sent with the values.** A value's time stamp is reconstructed from a start, an
  index and a delta that travel in different packets, in unsigned arithmetic that wraps.
* **Two producer threads.** `addData()` counts and then writes; `subscribe()` composes a
  description from the same counter.
* **The life of a session.** `stop()` (from a thread or from inside a callback), failing reads
  and the end of a close arrive in any order, and `onClose` destroys the stream.
* **Framing at its boundaries.** Lengths 0, 255 and 256; partial writes; reads that run ahead.
* **Partial effects.** A description that is refused has already stored part of itself.
* **What is not said.** A description leaves out what has its default, and the consumer keeps what
  a description leaves out.
* **Many tables for one thing.** The type of a value is named in three tables of the producer and
  read through two of the consumer.
* **Threads without locks in the tools.** `SignalGenerator::stop()` shares clock and end with the
  running loop.

`PROJECT.json` lists the hazards one by one, each at its line.

## 2. Modules

| Module | Models | State | Actions |
|---|---|---|---|
| `SubscribedSignal` | class `SubscribedSignal`, as operators on a signal record | - | `ProcessSignalParams`, `ProcessSignalData` |
| `SignalContainer` | class `SignalContainer` | `subscribedSignals`, `tables`, `status` of the session, `last` call and answer | `SubscribeAck`, `UnsubscribeAck`, `SignalMeta`, `OtherMeta`, `MeasuredData` |
| `ContainerSpec` | the container under a sender that keeps the protocol's promises about descriptions and no others | as above | `Next`, and the properties |
| `ContainerTypes`, `ContainerProofs` | TLAPS proofs about `SignalContainer` (what its operators return) and `ContainerSpec` | | |
| `Streaming` | producer signals, the stream, and the container composed | producer members, two threads' positions in a call, `channel`, consumer | one action per call or part of a call between two uses of the mutex; `Receive` |
| `SignalGenerator` | the tools at both ends, on top of `Streaming` | position in `start()`, clock, end, process times, the client's statistics | one per step of `start()`, `process()`, `stop()` and the callbacks |
| `SignalDescription` | attributes and value types of a signal, from setter to callback | the producer's members, packets, the consumer's copy | one per setter, subscribing, describing, data, `Receive` |
| `PacketFifo` | what the transport promises: a queue of whole packets that may break | `queue`, `delivered`, `broken` | `Send`, `Deliver`, `Break` |
| `Transport` | `StreamWriter` against the read handlers, cell by cell | mutex, cells in flight, read phase | writes in pieces, `onHeader`, `onAdditionalLength`, `onPayload`, errors |
| `ConsumerSession` | life cycle of `ProtocolHandler` with `MetaInformation` and `StreamMeta` | members, the io_context's queue, outstanding operations | one per handler and API call, plus the external stream |
| `ProducerSession` | the signal registry of class `ProducerSession` and what it announces | `allSignals`, what was `announced`, what is `subscribed` | `addSignals`, `removeSignals`, `subscribeSignals`, `unsubscribeSignals` |
| `Server` | class `Server`, the read loop and close of `ProducerSession`, `nextSignalNumber()` | registry, sessions, counter | `Start`, `Stop`, `CreateSession`, `OnReadData`, `OnReadError`, `OnClose`, `CreateSignal`, and the clients |
| `ControlPath` | `Controller` and `HttpPost` against `ControlServer`, working on the registry | one HTTP exchange per request, the listener, server sessions | one per handler of either side, failures and timeouts, `start`, `stop` |
| `StreamingProofs`, `GeneratorProofs`, `ControlProofs`, `TransportProofs`, `DescriptionProofs` | TLAPS proofs about `Streaming`, `SignalGenerator`, `ControlPath`, `Transport`, `SignalDescription` | | |
| `ConnectionProofs` | TLAPS proofs about the two ends of a connection, `Server` and `ConsumerSession` | | |
| `MCContainer`, `MCStreaming`, `MCGenerator`, `MCDescription`, `MCTransport`, `MCSession`, `MCControl`, `MCServer` | instances for TLC | | |

Choices a reader should know:

* **A word** is `0 .. Wrap-1` with a constant `Wrap` (2^64 in the code); all index and time
  arithmetic is taken `% Wrap`, as unsigned arithmetic is. The instances use 2 or 4, so that
  wrapping happens in nearly every behaviour.
* **A description** is a record of what the parser looks at, with `Absent` for what is not
  there, and a `fault` naming the place where the parser stops. Fields stored before that place
  stay stored: the partial effect is in the model.
* **An empty `shared_ptr`** is `Null` in the signal map. `operator[]` on a missing key puts
  `Null` there; dereferencing it is the action `Crash`, after which nothing happens.
* **Producer threads.** A step of a thread ends where it takes or releases the write mutex, so
  composing a description and writing it, and counting values and writing them, are two steps
  each.
* **Calling rules.** The library leaves the order of calls to the application, so module
  `Streaming` is parameterised by `Discipline`, the set of rules the application keeps
  (`Rules` explains each). A property is checked under the rules it needs; section 3 says what
  TLC shows when a rule is dropped, and `MCTimeChange` drops the rule
  that a document contradicts outright. `startOfIndexZero` is a rule about what the application
  means: a time given to
  `setTimeStart()` is that of value index 0; without it, it is that of the next value, as
  `BaseDomainSignal.hpp:46` has it. `Indexes` are the value indices the application gives, to the
  constructor of a synchronous signal and with the values of a constant one. `Setups` are the sets
  of signals a behaviour may have, so
  that one run covers tables of different kinds without their product.
* **The generator keeps no rule by decree.** Module `SignalGenerator` takes `Discipline = {}`
  and adds its own position in `start()` to the actions of `Streaming`; that the resulting order
  of calls is good enough is the property `ConsumerInStep`. Writes to a connection that is gone
  answer 0, not a negative number, which is why the loop's abort is never taken.
* **A description in `SignalDescription`** is the function of the attributes that are composed,
  so leaving out and keeping are what they are in the code. A value is known by its C++ type,
  its topmost bit and its number of significant binary digits: the first is what conversions
  between types of equal width can confuse, the second what the conversion to `double` can lose.
* **A session in `Server`** is alive while its read or its close is pending, since these hold
  the shared pointers. Two assumptions keep `removeSessionCb()` from erasing a newer session's
  entry: the external `WebsocketServer` accepts an end point again only after the read of the
  earlier session has failed (the guard of `CreateSession`), and `stop()` is called from a handler,
  as `test/ServerTest.cpp` does. From another thread the unlocked `erase` would be a data race.
* **`truth`** in a data packet is a history value: the time stamp the application meant the first
  value to have, which the consumer never reads. For a synchronous signal it is moved on from
  the last start by the values added since, for a constant value it is the time of the index in
  front of it.
* **Starting a session** takes the application's thread as many steps as `start()` and
  `startWithSyncInit()` use the stream; handlers and `stop()` may come in between if
  `StopOverlapsStart`.
* **Control requests** each have a connection of their own. The server's system completes a
  connection before it is accepted, so a client may have written, and given up, before its
  session exists; the request is then still executed.
* **The connection** in `Transport` carries cells: a 32 bit word or a payload byte is one cell.
  Field widths are constants; with fields of two bits the boundary of the size field lies
  between lengths 3 and 4.
* **The stream** (`daq::stream::Stream`) and Boost.Asio are not part of the repository. They are
  modelled from how the code uses them and marked external in `PROJECT.json`: handlers queue
  first in first out, an operation completes at any time with or without an error, no read
  succeeds once a close has completed, and operations of a destroyed stream fail or vanish.
  `asyncInit()` and `asyncClose()` may call back through the io_context or before they return, as the
  stream of `test/ProtocolHandlerTest.cpp` does (`InlineSets`); a completed read is always queued.

## 3. Runs

All runs use `tlc -config <cfg> <module>`. Passing runs finish within about two minutes on two workers.
Deadlock checking is off throughout: an application may stop calling, a sender may stop sending
and a closed session stays closed.

| Run | States | What it shows |
|---|---|---|
| `MCContainer` | 119 041 | Three signals in two tables. Acknowledgements may be repeated, missing or malformed; descriptions complete, partial or malformed at each of the parser's stops; data comes for known and unknown signals. The tables list live signals only, every described signal is listed, no empty pointer is dereferenced, and no packet changes another table. |
| `MCStreaming` | 72 155 | Linear time with a synchronous or a constant signal, or explicit time with an asynchronous one; a synchronous signal counts from 0 or 3, a constant value has index 0 or 3; every calling rule kept but `tupleAtTableTime`, which only `ExplicitTimeStampsTrue` needs. Each block is delivered with the right count, synchronous values with the right time stamp, also after a new start; a constant value's time follows from the time stamp, its index and the delta; consumer and producer agree on the value index; subscriptions follow the acknowledgements; a subscribed signal gets described. |
| `MCGenerator` | 88 254 | Five signals in two tables, ids in the order of the built-in or of a file's configuration, finite and endless runs, a client that may go at any time. Every sample due is counted exactly once and dated right; the consumer stays in step; a run that ends by itself leaves nothing at the client; the run ends whatever `stop()` races with. |
| `MCTransport` | 204 907 | Two writers, packets of lengths 1, 3, 4 and 5, three packets, three cells in flight, a connection that may break anywhere. The transport refines `PacketFifo`; without a break everything is delivered; a break ends the session. |
| `MCSession` | 137 409 | Either way of starting, two calls of `stop()` (from a thread or a callback) once it is done, every kind of packet, a stream that calls back at once or later. No handler uses the destroyed stream, unless `stop()` is called and a close calls back at once; a session that has not completed always waits for something; a close reaches the completion callback. |
| `MCControl` | 82 388 | Two control requests, well-formed or not, each on its own connection that may fail at every step, against a server that starts, stops and changes its registry. Each request begun gets exactly one result; success means the server answered; nothing is executed twice; no server session lives for ever; announcements agree with the registry. |
| `MCServer` | 143 082 | Three clients on two end points, one of them used again, in every order of connecting, sending, leaving, `start()` and `stop()`. The registry is exactly the sessions that read and were not stopped; every session whose client leaves or that is stopped ends; signal numbers are distinct and never 0 through the wraps of their counter. |
| `MCDescription` | 3 793 716 | All five classes and all value types, two calls of setters anywhere. The consumer shows what it was told last, except that what was told as "none" may show as told earlier in this subscription; type and size of values agree; values are counted and converted as sent, but for a `uint64_t` above 2^63 and 64 bit integers of more than 53 significant digits. |

Bounds. Two data signals and a time signal are what it takes for a table's time data to meet more
than one member and for one of them to leave; a second table makes interference visible. Three
packets on the transport give two writers a packet each and one behind them, so that a misread
length has something to swallow. Capacity 2 or 3 makes writers block. Indices 0 and 3 with words of
two bits wrap after the first value. Values of 1 and 54 digits lie on both sides of what a
`double` keeps. Two calls of `stop()`
give every order of two closes and a failing read. Two requests are enough for their connections
to overlap at the listener and for one to overtake the other. Three sessions on two end points let
one be registered under the end point of another that has just gone. In `MCServer` numbers have
two bits and the counter three, so that both wraps happen. In `MCGenerator` the process period 3 is
no multiple of the sample period 2 of one table and a multiple of the other's, the executions
0, 4 and 7 are endless, end in the middle of a period and after a wrap of the time. Two setter
calls around two descriptions are what it takes for an attribute to be told, cleared and told
again.

Each property of a passing run has a mutant in `PROJECT.json`, a plausible slip in the code
(a dropped mutex, a signal left in its table, an index left out of a description, ...) under
which TLC finds the property violated.

### Fairness

* `Streaming`: a call that was begun is finished, and what was written is read. Both follow from
  running threads and a consumer whose handlers always ask for the next packet. Nothing makes the
  application begin a call. `SubscribedGetsDescribed` is checked with calls that do not overlap:
  otherwise a data thread that takes the write mutex again and again may keep the control thread
  out of a full stream for ever, which `std::mutex` does not rule out.
* `Transport`: a begun write and a pending read go on. Nobody has to write, nothing has to break.
* `ConsumerSession`: `io_context::run()` keeps running handlers and an `asyncClose()` comes to an
  end (an assumption about the external stream). No read has to complete.
* `ControlPath`: every operation of a connection ends, because `expires_after()` arms a timer of
  30 s (name resolution ends by the system's own limits), an accept on a closed acceptor
  completes at once, and the io_contexts run handlers. Nobody has to connect.
* `SignalGenerator`: the worker thread, the io_context's thread and the client run. Nothing makes
  the connection break; an endless run is followed up to `Horizon`.
* `Server`: the io_context runs handlers; a read of a stream that is down fails and a close ends
  (assumptions about the external stream). No client has to connect, send or leave.

### Disagreements between code and documents

Four runs are expected to violate their property, which states what a document or a comment says.

| Run | What TLC shows |
|---|---|
| `MCTimeChange` | `setTimeStart()` is given the time stamp of the next value, "before sending the first value and change of time" (`BaseDomainSignal.hpp:46-47`). The code sends it as the time of index 0 while the values keep their index, so after values have been added the next one is dated too late. |
| `MCSessionInline` | `stop()` inside a callback, as `test/CompleteWebsocketSessionTest.cpp:109` calls it, with a stream whose `asyncClose()` calls back at once, as the one of `test/ProtocolHandlerTest.cpp:112` does: `onClose()` resets `m_stream`, and `onPayload()` goes on to use it. The two do not meet in the tests. |
| `MCTransportEmpty` | A packet without payload has size 0 and no additional length; the reader takes the next header for the length. |
| `MCControlStop` | After `ControlServer::stop()` the accept handler starts accept after accept on the closed acceptor, so `io_context::run()` never returns. |

#### Refuted without a run of its own

Five more claims TLC refutes as soon as a passing run's cfg is changed as said here and checks the
named invariant alone. The theorems whose hypotheses exclude them say so in section 4.

| Change | Refutes | What TLC shows |
|---|---|---|
| `MCContainer.cfg`: `MayMove = {2}` | `NeverCrashes` | A description that moves a signal to another table leaves it listed in the old one as well (`SignalContainer.cpp:118`); once the signal is gone, time data of the old table meets an empty pointer. The producer of this repository never moves a signal; "the configuration of a signal may change at any time" (`docs/openDAQ-streaming.md:178`). |
| `MCStreaming.cfg`: without `startAfterSubscribe` | `TimeStampsTrue` | A start told before the first value, but also before a data signal of the table is described, is dropped: the consumer stores it only in a loop over the table's data signals (`SignalContainer.cpp:173`). |
| `MCStreaming.cfg`: with `tupleAtTableTime` as well | `ExplicitTimeStampsTrue` | `setTimeStart()` of an explicit time signal writes index 0 before the time stamp, as for linear time; "for explicit time rule, there is no value index" (`SignalContainer.cpp:151`), and the consumer takes the 0 for the time stamp. |
| `MCStreaming.cfg` as it is | `ConstantStampsTrue` | The callback's time stamp is the "Absolute time stamp of the first value" (`SubscribedSignal.hpp:44`); for constant values it is the start of the table, whatever their index is (`SubscribedSignal.cpp:66`). `ConstantsDatable` shows that the value's time can be recovered. |
| `MCSession.cfg`: `StopOverlapsStart = TRUE`, `InlineSets = {{}}` | `StreamOutlivesUse` | `stop()` dispatches the close "to omit concurrent access" (`ProtocolHandler.cpp:43`), but `start()` and `startWithSyncInit()` use `m_stream` on the caller's thread: a `stop()` that overlaps them destroys the stream between two uses of it. |

#### Observations

Time and order of calls:

* A description composed between the counting and the writing of `addData()` announces an index the
  next block has not reached (`SynchronousSignal.hpp:62`). Without `oneThreadAtATime`, TLC
  refutes `TimeStampsTrue`, and `EveryBlockDelivered` too: values written between the acknowledgement
  and the description are lost. Nothing promises that a signal may be used from two threads.
* `AsynchronousSignal::addData()` does not write the time stamps it is given; the time stamp of a
  tuple is that of the time signal's last block. The rule `tupleAtTableTime` says what a caller
  can do about it.
* A new output rate re-dates every index since the start of the table; subscribing a data signal
  does not subscribe its time signal (rules `rateBeforeSubscribe`, `timeSignalFirst`).

Sessions:

* Meta information of an unknown encoding is processed with the previous packet's content
  (`MetaInformation.cpp:34`, `ProtocolHandler.cpp:148`).
* Of several error codes given to `closeSession()` before the close has ended, the last one is
  reported. `startWithSyncInit()` leaves `m_remoteHost` empty, and `HttpPost` turns an empty host
  into `localhost`, so control requests of such a session do not reach the device
  (`ProtocolHandler.cpp:30-36`, `HttpPost.cpp:48`). An HTTP answer other than 200 is logged and
  reported as success, as `test/ControlTest.cpp` expects (`server_error`).
* Each control request has a connection of its own, so an `unsubscribe()` may overtake the
  `subscribe()` before it (`Controller.cpp:31`; `ControlPath` has both orders). A second POST
  interface replaces the control path but not the port (`StreamMeta.cpp:84`). The result callback of
  a request holds a plain `this` of the `ProtocolHandler` (`ProtocolHandler.cpp:53`).
* `removeSignals()` forgets a subscribed signal without an unsubscribe acknowledgement; it cannot
  be unsubscribed afterwards (`ProducerSession.cpp:168`).
* `ProducerSession.hpp:60` says that on error the "stream is being reset"; `onRead()` only calls the
  error callback. `Server` registers a session by end point and binds its callbacks to `this`;
  that an end point is not used again before the old session's read has failed is an assumption
  on the external server.

Descriptions:

* An attribute that is cleared while the signal is subscribed is not told, so the consumer keeps
  the old one until the next subscription (`ConsumerKnowsDescription` has the exact statement).
* `setUnit(id, name)` keeps the quantity of the unit before it; a value with the quantity "time"
  makes the consumer take it for a time signal (`SubscribedSignal.cpp:390`); a resolution of 0 is
  sent and refused, which ends the session.

Tools:

* `StreamWriter` drops the error code of a write and hands on a byte count, so that a failed write
  is never noticed; the generator's abort (`signalgenerator.cpp:188`) is unreachable and the
  pending read alone ends its run.
* `errorCb` holds a plain `this`; the read that the close at the end of `start()` aborts may call it
  after the `Worker` is gone.
* In a microsecond build `addNanosecondsToTimePoint()` truncates: a process period below 1 µs
  never moves the clock, and asynchronous sample periods that are not whole microseconds give
  too many samples (`WholeTicksAssumption`). A signal without `samplePeriod` divides by 0.
* Signals configured into one table get a time signal each. The session and the signals of the
  generator write through two `StreamWriter`s with a mutex each, from one thread.
* `rawDataCb` prints the first 1024 values of a longer block again and again
  (`StreamingClient.cpp:108`).

## 4. Proofs

Each proof module extends the module it is about. A theorem that names a property of section 3
states it for every value of the constants the assumptions allow, where the run shows it on one
instance.

| Theorem | Statement |
|---|---|
| **`ContainerProofs`** | any signal numbers, tables, descriptions, data blocks and word width |
| `TypeCorrect` | `Spec => []ContainerTypeOK`, for every `MayMove` |
| `TablesListLiveSignals` | `Spec => []NoDanglingMember` if `MayMove = {}` |
| `NoEmptyPointer` | `Spec => []NeverCrashes` if `MayMove = {}` |
| `DescribedSignalsListed` | `Spec => []EveryDescribedSignalListed` if `MayMove = {}` |
| `CallsStayInTheirTable` | `Spec => TablesIndependent`, an action property, if `MayMove = {}` |
| **`StreamingProofs`** | any signals, tables, sessions, starts, rates, counts, indices, word width and capacity of the stream |
| `StreamTypes` | `StreamSpec => []StreamTypeOK`, for every `Discipline` |
| `AcknowledgementsFollow` | `StreamSpec => []SubscriptionsFollow` if `Once` |
| `BlocksDelivered` | `StreamSpec => []EveryBlockDelivered` if `Orderly` |
| `StampsTrue` | `StreamSpec => []TimeStampsTrue` if `Timely`: synchronous values |
| `ConstantsAreDatable` | `StreamSpec => []ConstantsDatable` if `Timely` |
| `IndexesFollow` | `StreamSpec => []IndexesAgree` if `Timely` |
| **`GeneratorProofs`** | any signals, orders of their ids, periods, execution times, word width and capacity; any `Discipline`, none is needed; all if `Configured` |
| `ConsumerStaysInStep` | `GeneratorSpec => []ConsumerInStep` |
| `ClockIsTold` | `GeneratorSpec => []StampsFollowClock` |
| `StatisticsComplete` | `GeneratorSpec => []ClientCounts` |
| `NothingLeftBehind` | `GeneratorSpec => []CleanEnd` |
| **`TransportProofs`** | any writers, packets, field widths and capacity; `WholeLengths` |
| `TransportTypes`, `PacketsDeliveredAsSent` | `TransportSpec => []TransportTypeOK`, `[]DeliveredAsSent` |
| `TransportIsFifo` | `TransportSpec => ImplementsFifo`: the cells refine the queue of packets |
| **`ConnectionProofs`** | any number of packets and of calls of `stop()`, any set of operations that call back at once; any sessions, end points, width of the number and of its counter |
| `SessionTypes`, `StreamNotUsedAfterClose`, `SessionNeverSilent` | `SessionSpec => []SessionTypeOK`, `[]NeverUsesDestroyedStream` (if `~StopOverlapsStart`), `[]NeverSilent` |
| `ServerTypes`, `RegistryIsExact`, `SignalNumbersDistinct` | `ServerSpec => []ServerTypeOK`, `[]RegistryExact`, `[]NumbersDistinct` |
| **`ControlProofs`** | any requests, lists of ids and signals |
| `ControlTypes`, `ResultCalledOnce`, `SuccessMeansAnswered`, `RequestHandledOnce`, `AnnouncedIsAvailable` | `ControlSpec => []ControlTypeOK`, `[]ResultOnce`, `[]OkMeansAnswered`, `[]HandledOnce`, `[]AnnouncementsFollow` |
| **`DescriptionProofs`** | any attribute values, digits of values, capacity and number of setter calls; all classes and types |
| `DescriptionTypes`, `ConsumerShowsWhatWasTold`, `SampleTypeIsTheProducers`, `BlocksAreConverted` | `DescriptionSpec => []DescriptionTypeOK`, `[]ConsumerKnowsDescription`, `[]SampleTypesAgree`, `[]ValuesConverted` |

### Assumptions

Those named in the modules keep marker values apart from data and type the constants
(`WrapAssumption`, `SentinelAssumption`, `AbsentAssumption`, `NumberAssumption`, `NullAssumption`,
`SenderAssumption`, `StreamingAssumption`, `GeneratorAssumption`, `TransportAssumption`,
`SessionAssumption`, `RegistryAssumption`, `ControlAssumption`,
`ServerAssumption`, `DescriptionAssumption`); TLC evaluates them in the runs. Where they, or the
hypotheses of theorems, say more than types:

* `OneTimeSignalPerTable` is the protocol's rule that the signals of a table share one domain
  signal (`docs/openDAQ-streaming.md:125`).
* `MayMove = {}` holds for the producer of this repository, where `BaseSignal::m_tableId` is set
  once; section 3 has the counterexample that shows the hypothesis is needed.
* `Once`, `Orderly` and `Timely` name the calling rules a theorem about `Streaming` needs;
  `MCStreaming` satisfies all three.
  `Once` is the rule `subscribedOnce` alone: the threads may overlap. `Orderly` adds
  `oneThreadAtATime` and `timeSignalFirst`, and says of the sessions that a table has one time
  signal and a data signal one to go by, a constant signal one with linear time (in a table with
  explicit time the consumer does not reckon with the index in front of each constant value and
  counts the block wrongly). `Timely` adds the rules about start and rate, and that
  asynchronous values go with explicit time and the others with linear time, as the classes are
  meant. In particular a start is that of index 0 and is told when a data signal is subscribed,
  which is narrower than the documentation of `setTimeStart()`; `MCTimeChange` and
  the counterexample without `startAfterSubscribe` show that both are needed. `tupleAtTableTime`
  is not needed. The
  observations of section 3 are what goes wrong without the other rules.
* `~StopOverlapsStart`, of `StreamNotUsedAfterClose`, says that `stop()` is called, and what it
  dispatched has run, before `start()` or after it; section 3 has the counterexample. That
  `NeverUsesDestroyedStream` leaves out a `stop()` with a close that calls back at once is
  needed as well: `MCSessionInline`.
* `Configured` is the same of the generator's configuration, whose one session has all signals:
  each table has one time signal and at least one data signal, explicit time goes with
  asynchronous values. The built-in signals (`signaldefinition.cpp:54-91`) are made so, table by
  table, and a configuration file's are as long as no two of its signals name the same table: each
  gets a time signal of its own (`signalgenerator.h:223-235`). `MCGenerator` satisfies it. It also
  says that every value index begins at 0 (`Indexes = {0}`); the built-in `saw_tooth_2` begins at
  100, whose stamps the source
  itself calls wrong ("not in sync to the correct time", `signaldefinition.cpp:72`), and is left
  out. `GeneratorAssumption` has every signal once in an order, as the
  keys of a map are, and no constant signal, which the tool does not know.
* `WholeTicksAssumption` says that sample and process periods are whole ticks of the clock
  `addNanosecondsToTimePoint()` keeps. Without it the truncated period of an asynchronous signal
  and the exact one of a synchronous signal would part.
* `WholeLengths` says that payloads have between 1 and `LengthRange - 1` cells;
  `MCTransportEmpty` is the counterexample for 0, and a longer one does not fit the length word.
* `ServerAssumption` has the counter's modulus a multiple of the number's, as 2^32 and 2^20 are;
  otherwise the numbers would jump where the counter wraps.
* `DescriptionAssumption` gives a unit, a range and a scaling the members of the code's classes.

### The inductive invariants

None of the properties is inductive by itself. What each proof adds:

* **Container.** An unsubscribe acknowledgement takes a signal out of the table and role it has
  *now*; that this is where it is listed is `NoDanglingMember`. Time data does not crash because
  members are live, which is again `NoDanglingMember`; and a table is dropped exactly when it is
  empty, which `EveryDescribedSignalListed` states. What is missing is that a signal's role and
  table do not change after it was listed: `AsPromised` says that a described signal has the
  table `TableOf` gives it and is a time signal only if it is in `TimeSignals`. With
  `OneTimeSignalPerTable` the time slot of a table is then never taken from another signal.
  Lemmas say what each operator returns, wherever the parser stops; then one lemma per action
  says that it keeps the conjunction `IInv`.
* **Streaming.** Whether the consumer accepts, delivers and dates a packet depends on what it has
  read before, and what the producer may write depends on what the consumer *will* have read.
  `ChainInv` connects the two: there is a chain of *views*, one in front of each packet on its way
  and one behind the last. A view holds the signals known and described, the value index of the
  counted ones and the start and rate of the time signals. The first view is what stands in the
  registers (`Registered`, `NumbersMatch`), each next one is the previous with the packet taken in
  (`After`), each packet fits the view it will meet (`Fits`), and the last view is what the
  producer's threads believe (`EndMatches`, `NumbersAgreed`), calls half done included: between
  the counting and the writing of `addData()` the producer's index is ahead of the view by the
  block in hand. A producer's step lengthens the chain at its end (`LinkAdded`), reading shortens
  it at its beginning (`LinkTaken`), so neither proof looks at the packets between. What the
  consumer does with a packet that fits is one lemma per kind of packet; `TimeMovesOn` is the
  arithmetic of the wraps: counting on an index modulo 2^w and multiplying it by the rate gives
  the time stamp moved on modulo 2^w. `NoAckBetween` and `LastPlace` then read
  `SubscriptionsFollow` off the chain.

  How much the chain promises is a parameter, the *level*: packets are accepted, values are
  delivered, or delivered and dated. `ProperStep(level)` says which calls a session can take at a
  level in the state it is in, and `ProperStepKeeps` is proved of these, not of the rules of
  `Discipline`: `RulesAreProper` shows that an application that keeps its rules makes only
  proper calls, and the generator is shown to make them for reasons of its own.

  `IndexesAgree` adds up the blocks on their way with a fold over a set. The library's induction
  theorems cannot be used, so the sum lemmas (`SumUnfolds`, `SumWithout`, `SumMoved`) argue by
  the smallest set for which they would fail; `CountedAlong` walks along the chain in the same
  way.
* **Generator.** Where the worker is in `start()` (`Placed`) says which signals are acknowledged
  (`Acknowledged`), which tables have a start (`Begun`) and which call is open (`InCall`); from
  these four every call is proper at the level "dated", although no rule is kept by decree.
  `Clocked` ties the application's time of the next value to `m_lastProcessTime`, through the
  wraps, and says that nothing was counted before the tables were started. The ledger `Recorded`
  is kept also for signals whose acknowledgement the client has not read yet (`Due`), since
  samples of theirs may already be behind it in the stream. That no later acknowledgement
  reopens the ledger of a signal given up is `Ordered`: no subscribe behind an
  unsubscribe. All of this holds while the connection stands; afterwards `GeneratorInv` keeps
  only what the client was told, as the worker goes on counting into nothing. TLC checked the
  conjuncts on the states of `MCGenerator` (with the fold of the properties in place of the
  lemmas' sum) before they were proved.
* **Transport.** `Framing` says where the cells are: there is a function `at` giving the position
  behind which packet *k* begins among all the cells ever written, and what is in the reader's
  buffer, on the connection and in the writer's hands is exactly what lies behind the cells
  consumed. `InStep` says that the waiting read handler is in the packet it believes to be in.
  The refinement then needs one step per action: a lock taken is a `Send`, a payload read is a
  `Deliver`, a broken connection is a `Break`, everything else stutters.
* **Consumer session.** There is no flag that says "closed". What protects the stream is the order
  of the queue: `ReadsBeforeClose` says that a successful read waits in front of every
  `onClose()`, because the stream gives no data once a close has completed
  (`CloseDisconnects`). A close that calls back at once is in no queue; there
  `OneAtATime` helps: without `stop()` there is a read or its handler and not both, so a handler
  that closes leaves none behind. `Alone` says that nothing else is under way during `start()`.
  `StillWaiting`
  strengthens `NeverSilent` by what has to come.
* **Control path.** `Exchange` follows one request: it is on its connection only between the
  client's write and the server's read, nothing is answered that was not executed, and a
  connection is closed with the call of the result callback.
* **Server.** `removeSessionCb()` erases whatever stands under the end point; that it is the
  session's own entry is `OneReader`, no two sessions reading from one end point, also while one
  is being closed. `NumbersInTurn` gives the whole list of numbers as a function of the counter.
* **Descriptions.** `Lined` says which packet may come after which on the stream, so that values
  always meet a consumer that has read a description. `Told` says which descriptions of the
  running subscription are on their way, `Shown` what the consumer can have read of them so far,
  and `MembersOK` that a class leaves alone what it has no setter for.

Only model-checked: the liveness properties (`EverythingDelivered`, `BreakEndsSession`,
`CloseCompletesSession`, `ResultComes`, `SessionsEnd`, `StreamSessionsEnd`,
`SubscribedGetsDescribed`, `GeneratorEnds`). They depend on fairness and `ENABLED`, which are out
of the prover's reach. Every invariant and action property a passing run checks is stated by a
theorem. `DescriptionTypeOK` is proved only: its run checks what could be wrong about types by
`SampleTypesAgree`.

## 5. Not modelled

* Exceptions the JSON library throws out of a handler for content of an unexpected type
  (`StreamMeta.cpp` catches only some); the session models take content of the expected shape.
* Nested data types (arrays, structs, bit fields): the producer has no class that describes one;
  the consumer's parser of them is the `fault` of a description that is refused.
* Conversions between ticks and time points, comparison of ranges and scalings with an epsilon,
  and the text form of the epoch: floating point and formatting; times are in ticks throughout.
* `Server::updateAvailableSignals()`: private, and nothing calls it.
* Addresses of control requests, and request bodies the JSON parser throws on.
* Reading the generator's configuration, the values its functions compute, and its variants that
  write into a file or a plain socket; the client's command line and printing. The generator
  gives its session no control interface, so the client's subscription of announced signals
  cannot reach it and is left out of the composition.
* Lifetimes of objects that callbacks hold by a plain `this`: what happens then is undefined.
* Logging has no effect on the protocol.

## 6. Plan

Done: the consumer's registers, the end-to-end session, the transport with its abstract
specification, the life of a consumer session, the control path with the producer's registry, the
server with its sessions and signal numbers, descriptions and value types, and the tools at both
ends; proofs of the invariants and action properties of all components and of the transport's
refinement.

Open: the liveness properties have only been model-checked, and the hazards of
`PROJECT.json` that carry a note in place of a property.
