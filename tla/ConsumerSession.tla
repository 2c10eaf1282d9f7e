-------------------------- MODULE ConsumerSession ---------------------------
(***************************************************************************)
(* The life of one consumer session: class ProtocolHandler with its        *)
(* MetaInformation and StreamMeta, run by an io_context of one thread.     *)
(*                                                                         *)
(* `ready' is the queue of handlers the io_context will run, first in      *)
(* first out; each action that runs a handler is the whole handler.        *)
(* Outstanding operations of the stream are `reading' and `closing'.  The  *)
(* stream is not part of this repository: it may complete a read or a      *)
(* close whenever it likes, in any order, with or without an error, except *)
(* that no read succeeds once a close has completed; operations of a       *)
(* destroyed stream fail or vanish.  A completed read is always queued;    *)
(* asyncInit() and asyncClose() may also call back before they return, as  *)
(* the stream of test/ProtocolHandlerTest.cpp does.                        *)
(*                                                                         *)
(* The application starts the session on a thread of its own, in as many   *)
(* steps as the call uses the stream.                                      *)
(*                                                                         *)
(* The bytes and their framing are the matter of module Transport, the     *)
(* signal container's answer that of module SignalContainer; here a        *)
(* payload is a packet record and the container accepts or refuses.        *)
(***************************************************************************)
EXTENDS Naturals, Sequences

CONSTANTS
    StartCalls,     \* of start() and startWithSyncInit(), the ones the application uses
    StreamInits,    \* params of "init": stream id, path and port of the POST interface
    StopCalls,      \* where it calls stop(): on its own thread, in a callback
    InlineSets,     \* of asyncInit() and asyncClose(), those that call back at once
    StopOverlapsStart, \* whether stop() may be called, or take effect, during start()
    MaxStops,       \* bound on calls of stop()
    Nothing         \* no JSON content

Empty == ""
Errors == {"ok", "read", "aborted", "protocol"}
ReadHandlers == {"onInitComplete", "onHeader", "onAdditionalLength", "onPayload"}

ASSUME SessionAssumption ==
    /\ StartCalls \subseteq {"start", "startWithSyncInit"}
    /\ StreamInits \subseteq [streamId : STRING, path : STRING, port : STRING]
    /\ StopCalls \subseteq {"thread", "callback"}
    /\ InlineSets \subseteq SUBSET {"asyncInit", "asyncClose"}
    /\ StopOverlapsStart \in BOOLEAN
    /\ MaxStops \in Nat

Contents ==
    {[method |-> "init", params |-> p] : p \in StreamInits}
    \cup {[method |-> "apiVersion", params |-> v] : v \in {"supported", "unsupported"}}
    \cup {[method |-> "other", params |-> Nothing]}

Packets ==
    [type : {"data", "invalid"}, number : {1}, encoding : {"none"}, content : {Nothing}]
    \cup [type : {"meta"}, number : {0, 1}, encoding : {"msgpack"}, content : Contents]
    \cup [type : {"meta"}, number : {0, 1}, encoding : {"malformed", "unknown"},
          content : {Nothing}]

VARIABLES
    inline,         \* what the stream calls back at once
    started,        \* start() or startWithSyncInit() has been called
    starting,       \* where that call is: its name, the result of the init, or "no"
    stream,         \* m_stream is set
    sessionEc,      \* m_sessionEc
    json,           \* m_metaInformation's JSON content
    streamMeta,     \* m_streamMeta: stream id, control path and port
    ready,          \* handlers queued in the io_context
    reading,        \* handler of the outstanding init or read, or "none"
    closing,        \* outstanding asyncClose() operations
    connected,      \* no close has completed
    stops,          \* calls of stop() so far
    completions,    \* arguments of the completion callback so far
    cause,          \* error code of the first closeSession() with a stream
    crashed         \* an empty m_stream was dereferenced

appVars == <<inline, started, stops>>
metaVars == <<json, streamMeta>>
endVars == <<stream, connected, completions>>
closeVars == <<sessionEc, closing, cause>>
sessionVars == <<appVars, metaVars, closeVars, endVars, starting, crashed, ready, reading>>

NoMeta == [streamId |-> Empty, path |-> Empty, port |-> Empty]

\* The io_context runs the handler at the head of its queue.
Runs(handler, ec) ==
    /\ ~crashed
    /\ ready # <<>>
    /\ Head(ready) = [handler |-> handler, ec |-> ec]
    /\ ready' = Tail(ready)

-----------------------------------------------------------------------------
\* asyncClose() calls onClose() later, or at once.
closeSession(ec) ==
    /\ sessionEc' = ec
    /\ cause' = IF stream /\ cause = Nothing THEN ec ELSE cause
    /\ \/ ~stream /\ UNCHANGED <<closing, endVars>>
       \/ stream /\ "asyncClose" \notin inline /\ closing' = closing + 1 /\ UNCHANGED endVars
       \/ /\ stream /\ "asyncClose" \in inline
          /\ stream' = FALSE /\ connected' = FALSE /\ completions' = Append(completions, ec)
          /\ UNCHANGED closing

\* Mutant of ReadFailed: the handler returns without closing the session.
ReadFailedIgnored(handler) ==
    /\ \E ec \in {"read", "aborted"} : Runs(handler, ec)
    /\ UNCHANGED <<appVars, metaVars, closeVars, endVars, starting, crashed, reading>>

\* The error branch of the handlers of init and reads.
ReadFailed(handler) ==
    /\ \E ec \in {"read", "aborted"} : Runs(handler, ec) /\ closeSession(ec)
    /\ UNCHANGED <<appVars, metaVars, starting, crashed, reading>>

\* The other branch of the handlers that only go on reading: m_stream is dereferenced
\* without a look.
GoesOnReading(handler, next) ==
    /\ Runs(handler, "ok")
    /\ crashed' = ~stream
    /\ reading' = next
    /\ UNCHANGED <<appVars, metaVars, closeVars, endVars, starting>>

onInitComplete ==
    \/ ReadFailed("onInitComplete")
    \/ GoesOnReading("onInitComplete", "onHeader")

\* The size field says whether an additional length follows.
onHeader ==
    \/ ReadFailed("onHeader")
    \/ GoesOnReading("onHeader", "onAdditionalLength")
    \/ GoesOnReading("onHeader", "onPayload")

onAdditionalLength ==
    \/ ReadFailed("onAdditionalLength")
    \/ GoesOnReading("onAdditionalLength", "onPayload")

-----------------------------------------------------------------------------
\* MetaInformation::interpret(): only MessagePack replaces the content, whatever is
\* returned.
Interpreted(packet) == IF packet.encoding = "msgpack" THEN packet.content ELSE json

\* Mutant of StreamMetaAfter: the path is stored as the port, too.
StreamMetaAfterMixed(content) ==
    IF content # Nothing /\ content.method = "init"
    THEN [content.params EXCEPT !.port = content.params.path] ELSE streamMeta

\* StreamMeta::processMetaInformation(): the stream id is overwritten, the path if a
\* POST interface is given, the port never.
StreamMetaAfter(content) ==
    IF content # Nothing /\ content.method = "init"
    THEN [streamId |-> content.params.streamId,
          path     |-> IF content.params.path = Empty THEN streamMeta.path
                       ELSE content.params.path,
          port     |-> IF streamMeta.port = Empty THEN content.params.port
                       ELSE streamMeta.port]
    ELSE streamMeta

StreamMetaRefuses(content) ==
    content = [method |-> "apiVersion", params |-> "unsupported"]

\* Whether the packet ends the session; what the signal container answers is open.
Refused(packet) ==
    CASE packet.type = "data" -> {FALSE}
      [] packet.type = "invalid" \/ packet.encoding = "malformed" -> {TRUE}
      [] packet.number = 0 ->
             {StreamMetaRefuses(Interpreted(packet)) \/ packet.encoding # "msgpack"}
      [] OTHER -> BOOLEAN

\* stop() inside a callback: dispatch() runs it at once.  It returns into onPayload(),
\* which goes on reading.
StopInCallback(packet) ==
    /\ "callback" \in StopCalls
    /\ packet.type # "invalid"
    /\ stops < MaxStops
    /\ stops' = stops + 1
    /\ closeSession("ok")

\* The payload is read in the stream's buffer unless the type is invalid; a packet that is
\* not refused is consumed and the next header asked for, again without a look at m_stream.
ProcessPayload(packet) ==
    /\ Runs("onPayload", "ok")
    /\ json' = Interpreted(packet)
    /\ streamMeta' = IF packet.number = 0 /\ packet.encoding # "malformed"
                     THEN StreamMetaAfter(Interpreted(packet)) ELSE streamMeta
    /\ \E refused \in Refused(packet) :
           \/ /\ refused
              /\ closeSession("protocol")
              /\ crashed' = (~stream /\ packet.type # "invalid")
              /\ UNCHANGED <<stops, reading>>
           \/ /\ ~refused
              /\ UNCHANGED <<stops, closeVars, endVars>> \/ StopInCallback(packet)
              /\ crashed' = ~stream'
              /\ reading' = "onHeader"
    /\ UNCHANGED <<inline, started, starting>>

onPayload == ReadFailed("onPayload") \/ \E packet \in Packets : ProcessPayload(packet)

\* Mutant of onClose: an error on close is logged and nothing else done.
onCloseReturnsOnError ==
    /\ \E ec \in {"ok", "aborted"} :
           /\ Runs("onClose", ec)
           /\ stream' = FALSE
           /\ completions' = IF ec = "ok" THEN Append(completions, sessionEc) ELSE completions
    /\ UNCHANGED <<appVars, metaVars, closeVars, starting, crashed, reading, connected>>

onClose ==
    /\ \E ec \in {"ok", "aborted"} : Runs("onClose", ec)
    /\ stream' = FALSE
    /\ completions' = Append(completions, sessionEc)
    /\ UNCHANGED <<appVars, metaVars, closeVars, starting, crashed, reading, connected>>

\* Mutant of doClose: the stream is destroyed without waiting for the close.
doCloseResets ==
    /\ Runs("doClose", "ok")
    /\ sessionEc' = "ok"
    /\ closing' = IF stream THEN closing + 1 ELSE closing
    /\ stream' = FALSE
    /\ UNCHANGED <<appVars, metaVars, cause, starting, crashed, reading, connected, completions>>

\* The handler that stop() posts.
doClose ==
    /\ Runs("doClose", "ok")
    /\ closeSession("ok")
    /\ UNCHANGED <<appVars, metaVars, starting, crashed, reading>>

-----------------------------------------------------------------------------
(* The application, on a thread of its own. *)

\* The session gets its stream.
Starts(call) ==
    /\ call \in StartCalls /\ ~started
    /\ StopOverlapsStart \/ ready = <<>>
    /\ started' = TRUE /\ stream' = TRUE /\ starting' = call
    /\ UNCHANGED <<inline, stops, metaVars, closeVars, crashed, ready, reading, connected,
                   completions>>

start == Starts("start")
startWithSyncInit == Starts("startWithSyncInit")

asyncInit ==
    /\ ~crashed
    /\ starting = "start" /\ "asyncInit" \notin inline
    /\ crashed' = ~stream
    /\ starting' = "no" /\ reading' = "onInitComplete"
    /\ UNCHANGED <<appVars, metaVars, closeVars, endVars, ready>>

\* init(), or an asyncInit() that calls back at once.
init ==
    /\ ~crashed
    /\ \/ starting = "startWithSyncInit"
       \/ starting = "start" /\ "asyncInit" \in inline
    /\ crashed' = ~stream
    /\ starting' \in {"ok", "read"}
    /\ UNCHANGED <<appVars, metaVars, closeVars, endVars, ready, reading>>

\* onInitComplete() on the caller's thread.
onInitCompleteAtOnce ==
    /\ ~crashed
    /\ \/ /\ starting = "read" /\ closeSession("read")
          /\ UNCHANGED <<reading, crashed>>
       \/ /\ starting = "ok" /\ crashed' = ~stream /\ reading' = "onHeader"
          /\ UNCHANGED <<closeVars, endVars>>
    /\ starting' = "no"
    /\ UNCHANGED <<appVars, metaVars, ready>>

stop ==
    /\ "thread" \in StopCalls
    /\ StopOverlapsStart \/ starting = "no"
    /\ stops < MaxStops
    /\ stops' = stops + 1
    /\ ready' = Append(ready, [handler |-> "doClose", ec |-> "ok"])
    /\ UNCHANGED <<inline, started, metaVars, closeVars, endVars, starting, crashed, reading>>

-----------------------------------------------------------------------------
(* The stream. *)

ReadCompletes(ec) ==
    /\ reading # "none"
    /\ ec = "ok" => connected /\ stream
    /\ ready' = Append(ready, [handler |-> reading, ec |-> ec])
    /\ reading' = "none"
    /\ UNCHANGED <<appVars, metaVars, closeVars, endVars, starting, crashed>>

CloseCompletes(ec) ==
    /\ closing > 0
    /\ closing' = closing - 1
    /\ connected' = FALSE
    /\ ready' = Append(ready, [handler |-> "onClose", ec |-> ec])
    /\ UNCHANGED <<appVars, metaVars, sessionEc, cause, starting, crashed, stream, reading,
                   completions>>

\* Operations of a destroyed stream may vanish.
OperationVanishes ==
    /\ started /\ ~stream
    /\ \/ closing > 0 /\ closing' = closing - 1 /\ UNCHANGED reading
       \/ reading # "none" /\ reading' = "none" /\ UNCHANGED closing
    /\ UNCHANGED <<appVars, metaVars, endVars, sessionEc, cause, starting, crashed, ready>>

Handler == onInitComplete \/ onHeader \/ onAdditionalLength \/ onPayload \/ onClose \/ doClose

CloseEnds == \E ec \in {"ok", "aborted"} : CloseCompletes(ec)

SessionInit ==
    /\ inline \in InlineSets
    /\ started = FALSE /\ starting = "no" /\ stream = FALSE
    /\ sessionEc = "ok" /\ json = Nothing /\ streamMeta = NoMeta
    /\ ready = <<>> /\ reading = "none" /\ closing = 0 /\ connected = TRUE
    /\ stops = 0 /\ completions = <<>>
    /\ cause = Nothing /\ crashed = FALSE

SessionNext ==
    \/ start \/ startWithSyncInit \/ asyncInit \/ init \/ onInitCompleteAtOnce
    \/ stop
    \/ Handler
    \/ \E ec \in {"ok", "read", "aborted"} : ReadCompletes(ec)
    \/ CloseEnds
    \/ OperationVanishes

\* io_context::run() keeps running handlers and a close comes to an end; no read has to
\* complete and the application has to do nothing.
SessionFairness == WF_sessionVars(Handler) /\ WF_sessionVars(CloseEnds)

SessionSpec == SessionInit /\ [][SessionNext]_sessionVars /\ SessionFairness

-----------------------------------------------------------------------------
SessionTypeOK ==
    /\ inline \in InlineSets /\ stops \in 0 .. MaxStops
    /\ starting \in {"no", "start", "startWithSyncInit", "ok", "read"}
    /\ started \in BOOLEAN /\ stream \in BOOLEAN /\ connected \in BOOLEAN /\ crashed \in BOOLEAN
    /\ sessionEc \in Errors /\ cause \in Errors \cup {Nothing}
    /\ json \in Contents \cup {Nothing}
    /\ streamMeta \in [streamId : {Empty} \cup {p.streamId : p \in StreamInits},
                      path     : {Empty} \cup {p.path : p \in StreamInits},
                      port     : {Empty} \cup {p.port : p \in StreamInits}]
    /\ reading \in ReadHandlers \cup {"none"}
    /\ closing \in Nat
    /\ \A i \in DOMAIN ready : ready[i].handler \in ReadHandlers \cup {"onClose", "doClose"}
    /\ \A i \in DOMAIN completions : completions[i] \in Errors

\* Nothing dereferences the stream after onClose() has destroyed it (ProtocolHandler.cpp:27,
\* :34, :98, :107, :127, :142-190).
StreamOutlivesUse == ~crashed

\* However stop(), a failed read and the end of the close meet, no handler touches the
\* destroyed stream, provided its asyncClose() calls back through the io_context; one
\* that calls back at once is safe as long as nobody calls stop(), because only a handler
\* without a successor closes then (ProtocolHandler.cpp:87-88, :98, :107, :127, :187-195).
NeverUsesDestroyedStream == "asyncClose" \notin inline \/ stops = 0 => StreamOutlivesUse

\* A started session that has not completed always has something left to wait for: no
\* path through start() and the handlers ends without the next read or a close
\* (ProtocolHandler.cpp:22-36, :92-191).
NeverSilent ==
    started /\ completions = <<>> =>
        starting # "no" \/ reading # "none" \/ closing > 0 \/ ready # <<>>

\* Once a session with a stream is told to close, by stop(), a failed read or a refused
\* packet, the completion callback is called (ProtocolHandler.cpp:81-90, :193-203).
CloseCompletesSession == (cause # Nothing) ~> (completions # <<>>)
=============================================================================
