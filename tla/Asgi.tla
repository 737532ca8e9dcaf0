-------------------------------- MODULE Asgi --------------------------------
(***************************************************************************)
(* The asynchronous handler of the Python module (handler_asgi.c): every   *)
(* message of a connection is handed to an application that runs as a task *)
(* of its own, receives events and sends the response, or the frames of a  *)
(* websocket, on a clock of its own.                                       *)
(***************************************************************************)
EXTENDS Integers, Sequences, FiniteSets, SequencesExt, Lists

CONSTANTS
    AsgiMessage,   \* the messages of the connection, 1, 2, ...
    MostParts,     \* how many parts of a body an application sends
    MostWebsocketFrames,    \* how many frames the peer of a websocket sends
    MostGivenUp    \* bound: receives of a websocket that are given up

ASSUME AsgiAssumption == AsgiMessage \subseteq Nat

VARIABLES
    asgiProtocol,  \* "http/1" or "http/2"
    asgiLink,      \* whether the connection is open and whether it is acquired
    asgiRequest,   \* the request of the HTTP connection: the message it is of
    context,       \* struct handler_asgi_context_t of every message
    application,   \* the task of every message and what it awaits
    asgiQueue,     \* the writes of the connection whose callback is due
    asgiWire,      \* what was written for the messages that are not over
    websocketPeer  \* what the peer of a websocket has said so far

asgiVars == <<asgiProtocol, asgiLink, asgiRequest, context, application,
              asgiQueue, asgiWire, websocketPeer>>

\* create_handler_asgi_context.
NewAsgiContext ==
    [life |-> "none", state |-> "pending", websocket |-> "none", head |-> FALSE,
     keep |-> TRUE, hasBody |-> TRUE, hasLength |-> FALSE,
     events |-> <<>>, receiving |-> FALSE, opcode |-> 0, message |-> <<>>]

NewApplication == [task |-> "none", awaits |-> {}, seen |-> <<>>, parts |-> 0, gaveUp |-> 0]
NewPeer == [sent |-> 0, open |-> <<>>, said |-> <<>>, closed |-> FALSE]

AsgiInit ==
    /\ asgiProtocol \in {"http/1", "http/2"}
    /\ asgiLink = [open |-> TRUE, acquired |-> FALSE]
    /\ asgiRequest = 0
    /\ context = [m \in AsgiMessage |-> NewAsgiContext]
    /\ application = [m \in AsgiMessage |-> NewApplication]
    /\ asgiQueue = <<>> /\ asgiWire = <<>>
    /\ websocketPeer = NewPeer

Alive(m) == context[m].life = "open"

\* The message that is current may be another one by now.
PartOfCurrent(m, part, chunked, size) ==
    [of |-> m, on |-> asgiRequest, part |-> part, chunked |-> chunked, size |-> size]

\* The request of the context is made the current one for what is written.
PartOf(m, part, chunked, size) ==
    [of |-> m, on |-> m, part |-> part, chunked |-> chunked, size |-> size]

\* The chunked form is for payloads of unknown size and for HTTP/1 alone.
Chunked(c) == ~c.hasLength /\ asgiProtocol = "http/1"

\* _send_headers_handler_asgi and _write_handler_asgi, both of them on the
\* request of the context.
Envelope(m, c) == PartOf(m, "head", Chunked(c), 0)
Payload(m, c, size, last) == PartOf(m, IF last THEN "last" ELSE "chunk", Chunked(c), size)

\* The parts and the writes of some of the messages.
PartsIn(messages) ==
    [of : messages, on : Nat, chunked : BOOLEAN, size : 0..1,
     part : {"head", "chunk", "last", "accept", "frame", "close", "refusal", "pong"}]
WritesIn(messages) == [of : messages, last : BOOLEAN, closes : BOOLEAN, awaited : BOOLEAN]

\* The callback of a write: whose it is, whether it is the last one, whether
\* it closes the connection and whether the application awaits it.
Write(m, last, closes, awaited) ==
    [of |-> m, last |-> last, closes |-> closes, awaited |-> awaited]

\* The request of the writes remains the current one.
WrittenFor(m, parts, write) ==
    /\ asgiRequest' = m
    /\ asgiWire' = asgiWire \o parts
    /\ asgiQueue' = Append(asgiQueue, write)

-----------------------------------------------------------------------------
(* The message arrives.                                                      *)

\* _send_status_handler_asgi on a context: what the application stored goes.
\* The payload of the error is sent whatever the method is.
WithStatus(c) ==
    [c EXCEPT !.hasLength = TRUE, !.hasBody = TRUE, !.state = "complete"]
StatusParts(m, c) ==
    <<Envelope(m, WithStatus(c)), Payload(m, WithStatus(c), 1, TRUE)>>

\* _call_application_handler_asgi: the first event, the task, the lock; then
\* too large a body is refused and an application that refused is an error.
CallApplication(m) ==
    /\ asgiLink.open
    /\ context[m].life = "none"
    /\ \A n \in AsgiMessage : n < m => context[n].life # "none"
    /\ asgiProtocol = "http/1" => ~asgiLink.acquired
    /\ asgiLink' = [asgiLink EXCEPT !.acquired = TRUE]
    /\ \E websocket, head, keep, overflow, refused \in BOOLEAN :
         /\ asgiProtocol = "http/2" => ~websocket /\ keep
         /\ websocket => ~head /\ ~overflow /\ ~keep
         /\ refused => ~overflow
         /\ LET c == [NewAsgiContext EXCEPT !.life = "open", !.head = head, !.keep = keep,
                        !.hasBody = ~head,
                        !.websocket = IF websocket THEN "connecting" ELSE "none",
                        !.events = <<IF websocket THEN <<"connect">> ELSE <<"request">> >>]
                stops == overflow \/ refused
            IN  /\ context' = [context EXCEPT ![m] = IF stops THEN WithStatus(c) ELSE c]
                /\ application' = [application EXCEPT ![m].task =
                        CASE refused -> "over" [] overflow -> "unwatched" [] OTHER -> "runs"]
                /\ IF stops
                   THEN WrittenFor(m, StatusParts(m, c), Write(m, TRUE, FALSE, FALSE))
                   ELSE asgiRequest' = m /\ UNCHANGED <<asgiWire, asgiQueue>>
    /\ UNCHANGED <<asgiProtocol, websocketPeer>>

-----------------------------------------------------------------------------
(* The calls of the application.  A callable that is kept by a cancelled one *)
(* reaches the capsule of the context, which is invalid once it is released. *)

Capsule(m) == Alive(m)

Calls(m) == application[m].task \in {"runs", "unwatched", "cancelled"} /\ Capsule(m)
Sends(m) == Calls(m) /\ "send" \notin application[m].awaits

\* _receive_handler_asgi: an event that waits, or a future for the next one.
Receive(m) ==
    /\ Calls(m) /\ "receive" \notin application[m].awaits
    /\ IF context[m].events # <<>>
       THEN /\ context' = [context EXCEPT ![m].events = Tail(@)]
            /\ application' = [application EXCEPT ![m].seen = Append(@, Head(context[m].events))]
       ELSE /\ context' = [context EXCEPT ![m].receiving = TRUE]
            /\ application' = [application EXCEPT ![m].awaits = @ \cup {"receive"}]
    /\ UNCHANGED <<asgiProtocol, asgiLink, asgiRequest, asgiQueue, asgiWire, websocketPeer>>

\* The future is cancelled, after a timeout, and the context keeps it.
GiveUp(m) ==
    /\ Alive(m) /\ context[m].websocket = "connected"
    /\ "receive" \in application[m].awaits /\ application[m].gaveUp < MostGivenUp
    /\ application' = [application EXCEPT ![m].awaits = @ \ {"receive"}, ![m].gaveUp = @ + 1]
    /\ UNCHANGED <<asgiProtocol, asgiLink, asgiRequest, context, asgiQueue, asgiWire,
                   websocketPeer>>

\* http.response.start: accepted, or refused for one of its headers after what
\* precedes it has been taken over.
Start(m) ==
    /\ Sends(m)
    /\ context[m].websocket = "none" /\ context[m].state = "pending"
    /\ \E length, bodyless, refused \in BOOLEAN :
         LET stored == [context[m] EXCEPT
                   !.hasLength = @ \/ length, !.hasBody = @ /\ ~bodyless]
         IN  context' = [context EXCEPT ![m] =
                 IF refused THEN stored
                 ELSE [stored EXCEPT !.state = "started", !.hasLength = @ \/ ~stored.hasBody]]
    /\ UNCHANGED <<asgiProtocol, asgiLink, asgiRequest, application, asgiQueue, asgiWire,
                   websocketPeer>>

\* The envelope goes ahead of the first part alone.
EnvelopeOnce(m, c) == IF c.state = "started" THEN <<Envelope(m, c)>> ELSE <<>>

\* http.response.body, awaited until the connection has taken the part.
Body(m) ==
    /\ Sends(m)
    /\ context[m].websocket = "none" /\ context[m].state \in {"started", "headers"}
    /\ application[m].parts < MostParts
    /\ \E last \in BOOLEAN :
         LET c == context[m]
             size == IF c.hasBody THEN 1 ELSE 0
         IN  /\ WrittenFor(m, EnvelopeOnce(m, c) \o <<Payload(m, c, size, last)>>,
                        Write(m, last, FALSE, TRUE))
             /\ context' = [context EXCEPT ![m].state = IF last THEN "complete" ELSE "headers"]
    /\ application' = [application EXCEPT ![m].awaits = @ \cup {"send"}, ![m].parts = @ + 1]
    /\ UNCHANGED <<asgiProtocol, asgiLink, websocketPeer>>

\* The application returns or raises; what it receives is given up.
Returns(m) ==
    /\ application[m].task \in {"runs", "unwatched"}
    /\ "send" \notin application[m].awaits
    /\ application' = [application EXCEPT ![m].awaits = {},
            ![m].task = IF @ = "runs" THEN "ended" ELSE "over"]
    /\ UNCHANGED <<asgiProtocol, asgiLink, asgiRequest, context, asgiQueue, asgiWire,
                   websocketPeer>>

-----------------------------------------------------------------------------
(* A websocket: raw writes, the last of which closes the connection.         *)

RawPart(m, part) == PartOf(m, part, FALSE, 0)
WrittenRaw(m, part, closes) ==
    /\ asgiWire' = Append(asgiWire, RawPart(m, part))
    /\ asgiQueue' = Append(asgiQueue, Write(m, FALSE, closes, FALSE))
    /\ UNCHANGED asgiRequest

\* _accept_websocket_handler_asgi, of a client that sent a key.
Accept(m) ==
    /\ Sends(m) /\ context[m].websocket = "connecting"
    /\ context' = [context EXCEPT ![m].websocket = "connected"]
    /\ WrittenRaw(m, "accept", FALSE)
    /\ UNCHANGED <<asgiProtocol, asgiLink, application, websocketPeer>>

SendFrame(m) ==
    /\ Sends(m) /\ context[m].websocket = "connected"
    /\ application[m].parts < MostParts
    /\ application' = [application EXCEPT ![m].parts = @ + 1]
    /\ WrittenRaw(m, "frame", FALSE)
    /\ UNCHANGED <<asgiProtocol, asgiLink, context, websocketPeer>>

\* The refusal of a handshake, or the one closing frame of a connection.
Closing(c) ==
    CASE c.websocket = "connecting" -> <<"refusal">>
      [] c.websocket = "connected" -> <<"close">>
      [] OTHER -> <<>>
ClosedWebsocket(m, c) ==
    /\ context' = [context EXCEPT ![m] = [c EXCEPT !.websocket = "closed"]]
    /\ IF Closing(c) # <<>>
       THEN WrittenRaw(m, Closing(c)[1], TRUE)
       ELSE UNCHANGED <<asgiRequest, asgiQueue, asgiWire>>

CloseWebsocket(m) ==
    /\ Sends(m) /\ context[m].websocket \in {"connecting", "connected"}
    /\ ClosedWebsocket(m, context[m])
    /\ UNCHANGED <<asgiProtocol, asgiLink, application, websocketPeer>>

\* _push_event_handler_asgi: the pending future takes the event, and loses it
\* when it is one that was given up.
Pushed(m, event, c, a) ==
    IF c.receiving
    THEN [context |-> [c EXCEPT !.receiving = FALSE],
          application |-> IF "receive" \in a.awaits
                          THEN [a EXCEPT !.awaits = @ \ {"receive"}, !.seen = Append(@, event)]
                          ELSE a]
    ELSE [context |-> [c EXCEPT !.events = Append(@, event)], application |-> a]

\* _deliver_websocket_handler_asgi: the message starts anew after it.
Delivered(c) == [c EXCEPT !.opcode = 0, !.message = <<>>]

\* Whether the opcode of a frame may come in the state of the reassembly.
Continues(c, kind) == IF kind = "continuation" THEN c.opcode # 0 ELSE c.opcode = 0

\* What a peer that keeps to the protocol has said after a frame.
Said(p, kind, fin, id) ==
    LET fragments == Append(p.open, id)
        ordered == (kind = "continuation") <=> (p.open # <<>>)
    IN  [p EXCEPT !.sent = id, !.closed = @ \/ kind \in {"close", "malformed"} \/
                     (kind \in {"text", "continuation"} /\ ~ordered),
            !.open = IF kind \notin {"text", "continuation"} \/ ~ordered THEN @
                     ELSE IF fin THEN <<>> ELSE fragments,
            !.said = IF kind \in {"text", "continuation"} /\ ordered /\ fin
                     THEN Append(@, fragments) ELSE @]

\* _frame_websocket_handler_asgi, on what data_handler_websocket_asgi found in
\* its buffer: a ping is answered, a closing frame is an event and is answered,
\* a fragment is added to its message and the last of them delivers it.
Data(m, kind, fin) ==
    LET c == context[m]
        a == application[m]
        id == websocketPeer.sent + 1
        added == [c EXCEPT !.opcode = 1, !.message = Append(@, id)]
        pushed == CASE kind = "close" -> Pushed(m, <<"disconnect">>, c, a)
                    [] kind # "close" /\ fin ->
                         Pushed(m, <<"receive", added.message>>, Delivered(added), a)
                    [] OTHER -> [context |-> added, application |-> a]
        illegal == kind = "malformed" \/ (kind \in {"text", "continuation"} /\ ~Continues(c, kind))
    IN  /\ websocketPeer' = Said(websocketPeer, kind, fin, id)
        /\ CASE kind = "ping" ->
                  /\ WrittenRaw(m, "pong", FALSE)
                  /\ UNCHANGED <<context, application>>
             [] illegal ->
                  ClosedWebsocket(m, c) /\ UNCHANGED application
             [] kind = "close" ->
                  /\ ClosedWebsocket(m, pushed.context)
                  /\ application' = [application EXCEPT ![m] = pushed.application]
             [] OTHER ->
                  /\ context' = [context EXCEPT ![m] = pushed.context]
                  /\ application' = [application EXCEPT ![m] = pushed.application]
                  /\ UNCHANGED <<asgiRequest, asgiQueue, asgiWire>>

\* The handler of the data is the one of the frames since the acceptance.
DataHandlerWebsocket(m) ==
    /\ Alive(m) /\ asgiLink.open
    /\ asgiRequest = m
    /\ \E n \in 1..Len(asgiWire) : asgiWire[n] = RawPart(m, "accept")
    /\ ~websocketPeer.closed /\ websocketPeer.sent < MostWebsocketFrames
    /\ \E kind \in {"text", "continuation", "ping", "close", "malformed"}, fin \in BOOLEAN :
         /\ kind \in {"ping", "close", "malformed"} => fin
         /\ Data(m, kind, fin)
    /\ UNCHANGED <<asgiProtocol, asgiLink>>

-----------------------------------------------------------------------------
(* The end of a task, of a write and of the connection.                      *)

\* _done_handler_asgi: a response is made, ended or left as it is; nothing is
\* done for a context that has been released.
EndingOfNone(m, c) == IF c.state = "pending" THEN StatusParts(m, c) ELSE <<>>
Ending(m, c) ==
    CASE c.state = "pending" -> StatusParts(m, c)
      [] c.state = "complete" -> <<>>
      [] OTHER -> EnvelopeOnce(m, c) \o <<Payload(m, c, 0, TRUE)>>

Done(m) ==
    /\ application[m].task = "ended"
    /\ application' = [application EXCEPT ![m].task = "over"]
    /\ LET c == context[m] IN
         CASE ~Alive(m) -> UNCHANGED <<context, asgiRequest, asgiQueue, asgiWire>>
           [] Alive(m) /\ c.websocket # "none" -> ClosedWebsocket(m, c)
           [] OTHER ->
                IF Ending(m, c) = <<>>
                THEN UNCHANGED <<context, asgiRequest, asgiQueue, asgiWire>>
                ELSE /\ WrittenFor(m, Ending(m, c), Write(m, TRUE, FALSE, FALSE))
                     /\ context' = [context EXCEPT ![m] =
                            IF c.state = "pending" THEN WithStatus(c)
                            ELSE [c EXCEPT !.state = "complete"]]
    /\ UNCHANGED <<asgiProtocol, asgiLink, websocketPeer>>

\* delete_handler_asgi_context, of a set of them: the tasks are cancelled and
\* what is still to be written has no callback any more.
ContextsDeleted(gone) ==
    [m \in AsgiMessage |-> IF m \in gone THEN [NewAsgiContext EXCEPT !.life = "gone"] ELSE context[m]]
TasksCancelled(gone, apps) ==
    [m \in AsgiMessage |->
        IF m \in gone
        THEN [apps[m] EXCEPT !.awaits = {}, !.seen = <<>>, !.parts = 0, !.gaveUp = 0,
                !.task = IF @ \in {"runs", "unwatched"} THEN "cancelled" ELSE @]
        ELSE apps[m]]
WithoutThem(gone) == Those(asgiWire, PartsIn(AsgiMessage \ gone))

\* The future of a write is resolved by its callback.
Resolved(write) ==
    IF write.awaited
    THEN [application EXCEPT ![write.of].awaits = @ \ {"send"}]
    ELSE application

\* The connection is kept for another message, or it is closed.
Releases(write) == write.last

\* _send_response_callback_handler_asgi and _close_callback_handler_asgi: the
\* writes of one message are taken in order, and those of an HTTP/1 connection.
WriteCompletes ==
    /\ asgiLink.open
    /\ \E n \in 1..Len(asgiQueue) :
         LET write == asgiQueue[n]
             m == write.of
             rest == RemoveAt(asgiQueue, n)
             kept == write.last /\ context[m].keep
             closed == write.closes \/ (write.last /\ ~context[m].keep)
             gone == IF closed THEN {c \in AsgiMessage : Alive(c)}
                     ELSE IF write.last THEN {m} ELSE {}
         IN  /\ IF asgiProtocol = "http/1" THEN n = 1
                ELSE \A k \in 1..(n - 1) : asgiQueue[k].of # m
             /\ asgiRequest' = m
             /\ asgiQueue' = IF closed THEN <<>> ELSE rest
             /\ context' = ContextsDeleted(gone)
             /\ application' = TasksCancelled(gone, Resolved(write))
             /\ asgiLink' = [open |-> ~closed,
                             acquired |-> asgiLink.acquired /\ ~(Releases(write) /\ ~closed)]
             /\ asgiWire' = WithoutThem(gone)
    /\ UNCHANGED <<asgiProtocol, websocketPeer>>

\* The connection is closed by its peer, or by an error of it.
PeerCloses ==
    /\ asgiLink.open
    /\ LET gone == {c \in AsgiMessage : Alive(c)}
       IN  /\ context' = ContextsDeleted(gone)
           /\ application' = TasksCancelled(gone, application)
           /\ asgiWire' = WithoutThem(gone)
    /\ asgiLink' = [asgiLink EXCEPT !.open = FALSE]
    /\ asgiQueue' = <<>>
    /\ UNCHANGED <<asgiProtocol, asgiRequest, websocketPeer>>

\* A stream of HTTP/2 is reset, the callbacks of its writes find no stream.
StreamReset(m) ==
    /\ asgiLink.open /\ asgiProtocol = "http/2" /\ Alive(m)
    /\ context' = ContextsDeleted({m})
    /\ application' = TasksCancelled({m}, application)
    /\ asgiQueue' = Those(asgiQueue, WritesIn(AsgiMessage \ {m}))
    /\ asgiWire' = WithoutThem({m})
    /\ UNCHANGED <<asgiProtocol, asgiLink, asgiRequest, websocketPeer>>

AsgiNext ==
    \/ \E m \in AsgiMessage :
         \/ CallApplication(m) \/ Receive(m) \/ GiveUp(m) \/ Start(m) \/ Body(m) \/ Returns(m)
         \/ Accept(m) \/ SendFrame(m) \/ CloseWebsocket(m) \/ DataHandlerWebsocket(m)
         \/ Done(m) \/ StreamReset(m)
    \/ WriteCompletes
    \/ PeerCloses

AsgiSpec == AsgiInit /\ [][AsgiNext]_asgiVars

\* The loop runs the callbacks of what has ended, and the connection takes
\* what is written to it: a task need not end.
AsgiFairness ==
    /\ WF_asgiVars(WriteCompletes)
    /\ \A m \in AsgiMessage : WF_asgiVars(Done(m))

-----------------------------------------------------------------------------
Types(c) ==
    /\ c.life \in {"none", "open", "gone"}
    /\ c.state \in {"pending", "started", "headers", "complete"}
    /\ c.websocket \in {"none", "connecting", "connected", "closed"}
    /\ {c.head, c.keep, c.hasBody, c.hasLength, c.receiving} \subseteq BOOLEAN

\* The contexts and the tasks are of the kinds the handler knows, and whatever
\* waits to be written is of a context that has not been released: the callback
\* of the write reads it (handler_asgi.c:1985).
AsgiTypeOK ==
    /\ \A m \in AsgiMessage :
         /\ Types(context[m])
         /\ application[m].task \in
                {"none", "runs", "unwatched", "ended", "over", "cancelled"}
         /\ application[m].awaits \subseteq {"send", "receive"}
    /\ \A n \in 1..Len(asgiQueue) : Alive(asgiQueue[n].of)

PartsOf(m) == Those(asgiWire, PartsIn({m}))

\* What is written for a message is one envelope, the parts of one body and
\* one end, whoever writes it: the application that sends, the callback of a
\* task that ended early, or the refusal of the message; under HTTP/1 no part
\* of a message comes between those of another (handler_asgi.c:1362).
ResponsesAreWhole ==
    \A m \in AsgiMessage :
        LET parts == PartsOf(m) IN
          /\ context[m].websocket = "none" /\ Alive(m) =>
               \A n \in 1..Len(parts) :
                  /\ parts[n].part = "head" <=> n = 1
                  /\ parts[n].part = "last" => n = Len(parts) /\ context[m].state = "complete"
          /\ asgiProtocol = "http/1" =>
               \A i, j \in 1..Len(asgiWire) : i < j => asgiWire[i].of <= asgiWire[j].of

\* A response is written on the message it is of, though the application
\* answers when the connection has gone on to another (handler_asgi.c:243).
OnItsOwnMessage == \A n \in 1..Len(asgiWire) : asgiWire[n].on = asgiWire[n].of

\* The framing of a body is the one its envelope announced, and nothing but
\* the end of the body follows a chunk that is framed otherwise; HTTP/2 never
\* carries the chunked form (handler_asgi.c:187).
FramedAsAnnounced ==
    \A m \in AsgiMessage :
        LET parts == PartsOf(m) IN
          \A n \in 1..Len(parts) :
             /\ parts[n].part \in {"chunk", "last"} => parts[n].chunked = parts[1].chunked
             /\ parts[n].chunked => asgiProtocol = "http/1"

\* Under HTTP/1 a second application never runs for a connection while the
\* response of the first one is being written (handler_asgi.c:1931).
OneApplication ==
    asgiProtocol = "http/1" => Cardinality({m \in AsgiMessage : Alive(m)}) <= 1

\* Nothing is sent after the closing frame of a websocket, or the refusal of
\* its handshake, but the answers to a ping (handler_asgi.c:2119).
NothingAfterTheClose ==
    \A i, j \in 1..Len(asgiWire) :
        i < j /\ asgiWire[i].part \in {"close", "refusal"} => asgiWire[j].part = "pong"

MessageEvents == {"receive"} \X Seq(Nat)

\* While a websocket is connected, the messages that an application that runs
\* has received or may receive are those the peer has said, each of them whole
\* and in their order (handler_asgi.c:124, 2404); the future of a receive that
\* the application gave up takes one with it at most.
MessagesAreDelivered ==
    \A m \in AsgiMessage :
        context[m].websocket = "connected" /\ application[m].task = "runs" =>
            LET events == Those(application[m].seen \o context[m].events, MessageEvents)
                received == [n \in 1..Len(events) |-> events[n][2]]
            IN  /\ Range(received) \subseteq Range(websocketPeer.said)
                /\ \A i, j \in 1..Len(received) : i < j => received[i][1] < received[j][1]
                /\ Len(websocketPeer.said) - Len(received) <= application[m].gaveUp

\* A message whose application has ended is over in the end: what it did not
\* answer or finish is, and its context is released (handler_asgi.c:1329).
EndedIsAnswered ==
    \A m \in AsgiMessage :
        application[m].task = "ended" ~> context[m].life = "gone"

\* Whenever an application acts, and whatever has become of its connection, it is on its
\* own message, with a response that is whole.
TasksKeepTheirOwn ==
    /\ AsgiTypeOK
    /\ ResponsesAreWhole
    /\ OnItsOwnMessage
    /\ FramedAsAnnounced
    /\ OneApplication
    /\ NothingAfterTheClose
    /\ MessagesAreDelivered
=============================================================================
