--------------------------- MODULE HttpConnection ---------------------------
(***************************************************************************)
(* A connection of HTTP/1 (stream_http.c, http_request.c): the buffer that *)
(* the reads are gathered in, the parser that walks it, the lock that the  *)
(* handler of a message holds until its response is written, and the       *)
(* choice between the two versions of the protocol.                        *)
(***************************************************************************)
EXTENDS HttpParser

CONSTANTS
    Request,    \* the messages of the peer, as records of what they say
    Pipeline,   \* how many the peer sends, one behind the other
    Detects,    \* whether the service speaks HTTP/2 (options->http2)
    Moves       \* whether REALLOC may move the buffer

ASSUME ConnectionAssumption ==
    /\ Pipeline \in Nat \ {0}
    /\ Detects \in BOOLEAN /\ Moves \in BOOLEAN

\* HTTP2_PREFACE, in two pieces.
Preface == <<"P", "RI">>

(***************************************************************************)
(* What a peer may send: a request, the preface of HTTP/2 or something     *)
(* that is no message; and what its bytes are.                             *)
(***************************************************************************)
NewLine == <<"CR", "LF">>
Fields(m) == FlattenSeq([k \in DOMAIN m.fields |->
                 m.fields[k].name \o <<":", "SP">> \o m.fields[k].value \o NewLine])
Bytes(n) == [k \in 1..n |-> "b"]
Chunks(m) == FlattenSeq([k \in DOMAIN m.chunks |->
                 <<CHOOSE d \in DOMAIN Digit : Digit[d] = m.chunks[k]>> \o NewLine
                     \o Bytes(m.chunks[k]) \o NewLine])
             \o IF m.chunks = <<>> THEN <<>> ELSE <<"0">> \o NewLine \o NewLine

Encode(m) ==
    CASE m.kind = "preface" -> Preface
      [] m.kind = "garbage" -> <<"GE", "?">>
      [] OTHER -> Spelling[m.method] \o <<"SP">> \o m.url
                  \o (IF m.version = "HTTP/0.9" THEN <<>> ELSE <<"SP", m.version>>)
                  \o NewLine \o Fields(m) \o NewLine \o Bytes(m.length) \o Chunks(m)

VARIABLES
    sent,          \* the requests that the peer sends
    wire,          \* what of them is yet to be read
    buffer,        \* buffer, up to buffer_offset
    capacity,      \* buffer_size, 0 while there is no buffer
    readOffset,    \* read_offset
    parser,        \* http_parser
    detect,        \* detect
    lock,          \* lock
    handler,       \* http_handler: none, or the one that the message reached
    response,      \* the responses registered for writing: their keep alive
    protocol,      \* what the connection speaks, or closed
    calls          \* every callback made so far, the history of the handlers

httpVars == <<sent, wire, buffer, capacity, readOffset, parser, detect, lock,
              handler, response, protocol, calls>>

HttpInit ==
    /\ sent \in [1..Pipeline -> Request]
    /\ wire = FlattenSeq([k \in 1..Pipeline |-> Encode(sent[k])])
    /\ buffer = <<>> /\ capacity = 0 /\ readOffset = 0
    /\ parser = NewParser("request")
    /\ detect = Detects
    /\ lock = FALSE
    /\ handler = "none"
    /\ response = <<>>
    /\ protocol = "http1"
    /\ calls = <<>>

\* The state of the connection while data_handler_stream_http runs.
Now == [p |-> parser, buffer |-> buffer, capacity |-> capacity, read |-> readOffset,
        lock |-> lock, handler |-> handler, response |-> response,
        protocol |-> protocol, calls |-> calls, over |-> FALSE]

\* The handlers: the base one is set before a message, the message leaves
\* another in its place once its target is known, and its end takes the
\* lock and registers the response.
Handlers(c, made) ==
    LET complete == SelectSeq(made, LAMBDA e : e.on = "complete")
        reached == \E k \in DOMAIN made : made[k].on = "url"
    IN  [c EXCEPT !.calls = @ \o made,
                  !.handler = IF reached THEN "target" ELSE @,
                  !.lock = @ \/ complete # <<>>,
                  !.response = @ \o [k \in DOMAIN complete |-> complete[k].data]]

\* The message structure and the parser as they are before a message.
ResetParser(p) == [NewParser("request") EXCEPT !.index = p.index]

\* Nothing is left in the buffer: it is released.
ReleaseBuffer(c) ==
    IF c.read = Len(c.buffer)
    THEN [c EXCEPT !.buffer = <<>>, !.capacity = 0, !.read = 0] ELSE c

\* What a call of the parser leaves of the connection.
Parsed(c, r) ==
    LET h == [c EXCEPT !.handler = IF @ = "none" THEN "base" ELSE @, !.p = r.p]
        d == Handlers(h, r.calls)
    IN  IF r.error
        THEN [d EXCEPT !.protocol = "closed", !.handler = "none", !.over = TRUE]
        ELSE [d EXCEPT !.read = @ + r.size, !.over = r.size \in {0, Len(c.buffer) - c.read}]

\* The message is over: its structure and the buffer that it ends are given up.
Renewed(c) ==
    IF c.p.state = "start_req" /\ c.protocol = "http1"
    THEN ReleaseBuffer([c EXCEPT !.p = ResetParser(@)]) ELSE c

\* One turn of the loop over the messages of the buffer.
Turn(c) ==
    IF c.lock \/ c.over THEN [c EXCEPT !.over = TRUE]
    ELSE Renewed(Parsed(c, Process(c.p, c.buffer, c.read + 1)))

\* The loop: no call parses more messages than the peer has sent.
Loop(c) == FoldLeft(LAMBDA d, k : Turn(d), c, [k \in 1..Pipeline + 1 |-> k])

Become(after) ==
    \E c \in {after} :
        /\ parser' = c.p /\ buffer' = c.buffer /\ capacity' = c.capacity
        /\ readOffset' = c.read /\ lock' = c.lock /\ handler' = c.handler
        /\ response' = c.response /\ protocol' = c.protocol /\ calls' = c.calls

\* The buffer that the bytes of a read are appended to: a growing one
\* may be moved, which the marks of the parser are not told of.
Gather(c, bytes, moved) ==
    LET offset == Len(c.buffer) + Len(bytes)
        grows == c.buffer # <<>> /\ offset > c.capacity
        most == IF c.capacity + c.p.announced > offset
                THEN c.capacity + c.p.announced ELSE offset
    IN  [c EXCEPT !.buffer = @ \o bytes,
                  !.capacity = IF c.buffer = <<>> THEN Len(bytes)
                               ELSE IF grows THEN most ELSE @,
                  !.p.mark = IF moved /\ grows /\ @ # 0 THEN Stale ELSE @]

\* The first bytes tell the two versions apart.
Decide(b) ==
    LET n == IF Len(b) < Len(Preface) THEN Len(b) ELSE Len(Preface) IN
    IF SubSeq(b, 1, n) # SubSeq(Preface, 1, n) THEN "http1"
    ELSE IF Len(b) >= Len(Preface) THEN "http2" ELSE "open"

\* data_handler_stream_http on a read of n units.
Data(n) ==
    /\ protocol = "http1"
    /\ n <= Len(wire)
    /\ wire' = SubSeq(wire, n + 1, Len(wire))
    /\ \E moved \in IF Moves THEN BOOLEAN ELSE {FALSE} :
         LET c == Gather(Now, SubSeq(wire, 1, n), moved)
             which == IF detect THEN Decide(c.buffer) ELSE "http1"
         IN  /\ detect' = (detect /\ which = "open")
             /\ Become(CASE which = "open" -> c
                         [] which = "http2" -> [c EXCEPT !.protocol = "http2"]
                         [] OTHER -> Loop(c))
    /\ UNCHANGED sent

\* release_http_connection: what is buffered behind the message is parsed.
Released(c) ==
    LET d == [c EXCEPT !.lock = FALSE] IN
    IF ~c.lock \/ d.buffer = <<>> THEN d ELSE Loop(d)

\* A lock that is given up without a look at what the buffer holds.
AnsweredWithoutDraining ==
    /\ protocol = "http1"
    /\ response # <<>>
    /\ Become([Now EXCEPT !.handler = "none", !.response = Tail(@), !.lock = FALSE,
                          !.protocol = IF Head(response) THEN @ ELSE "closed"])
    /\ UNCHANGED <<sent, wire, detect>>

\* The bytes of a response are all written: its callback gives the handler
\* up, and closes the connection or gives the lock up, which has what was
\* left in the buffer parsed at once.
Answered ==
    /\ protocol = "http1"
    /\ response # <<>>
    /\ LET c == [Now EXCEPT !.handler = "none", !.response = Tail(@)] IN
         Become(IF Head(response) THEN Released(c) ELSE [c EXCEPT !.protocol = "closed"])
    /\ UNCHANGED <<sent, wire, detect>>

\* The peer goes away, which closes the connection from outside of it.
PeerGone ==
    /\ protocol = "http1"
    /\ protocol' = "closed"
    /\ handler' = "none"
    /\ UNCHANGED <<sent, wire, buffer, capacity, readOffset, parser, detect, lock,
                   response, calls>>

HttpNext ==
    \/ \E n \in 1..Len(wire) : Data(n)
    \/ Answered
    \/ PeerGone

HttpSpec == HttpInit /\ [][HttpNext]_httpVars

-----------------------------------------------------------------------------
(***************************************************************************)
(* Properties                                                              *)
(***************************************************************************)
\* The state of a connection is of its type.
HttpTypeOK ==
    /\ capacity \in Nat /\ readOffset \in Nat
    /\ capacity = 0 <=> buffer = <<>>
    /\ detect \in BOOLEAN /\ lock \in BOOLEAN
    /\ handler \in {"none", "base", "target"}
    /\ protocol \in {"http1", "http2", "closed"}
    /\ parser.flags \subseteq Flag
    /\ response \in Seq(BOOLEAN)

\* What the handlers of a message are to be told, whatever the reads were.
On(on, data) == [on |-> on, data |-> data]
Expect(m) ==
    IF m.kind # "request" THEN <<On("begin", <<>>)>>
    ELSE <<On("begin", <<>>), On("url", m.url), On("line", <<>>)>>
         \o FlattenSeq([k \in DOMAIN m.fields |->
                <<On("field", m.fields[k].name), On("value", m.fields[k].value)>>])
         \o <<On("headers", m.length)>>
         \o [k \in 1..m.length + FoldLeft(+, 0, m.chunks) |-> On("body", <<"b">>)]
         \o (IF m.chunks = <<>> THEN <<>> ELSE <<On("line", <<>>)>>)
         \o <<On("complete", m.keep)>>

\* However the reads cut the bytes, and whatever is pipelined behind a
\* message, the callbacks are those of the messages sent, in their order.
DeliversWhatWasSent ==
    IsPrefix(calls, FlattenSeq([k \in 1..Pipeline |-> Expect(sent[k])]))

Times(on) == Len(SelectSeq(calls, LAMBDA e : e.on = on))

\* A message is not begun before the response of the one before it has been
\* written: no two of them are handled at a time on one connection.
OneMessageAtATime ==
    Times("begin") <= Times("complete") - Len(response) + 1

\* Nothing that was read waits behind a lock that is not held, and a lock
\* that is held has a response on its way that gives it up.
NothingWaits ==
    protocol = "http1" =>
        /\ ~lock /\ ~detect => readOffset = Len(buffer)
        /\ lock <=> response # <<>>

\* The parser is never sent past the end of what the buffer holds, nor the
\* bytes of a read past the end of the buffer itself.
WithinBuffer ==
    readOffset <= Len(buffer) /\ Len(buffer) <= capacity

\* A connection that is kept holds no buffer between two messages, once all
\* that was read is parsed: it does not grow with every message it serves.
BufferIsReleased ==
    protocol = "http1" /\ parser.state = "start_req" /\ readOffset > 0
        => readOffset < Len(buffer)

\* The preface is recognised however it is cut, none of it reaches the
\* parser of HTTP/1, and nothing but the preface is taken for it.
PrefaceIsRecognised ==
    /\ protocol = "http2" => sent[1].kind = "preface" /\ calls = <<>>
    /\ Detects /\ sent[1].kind = "preface" => calls = <<>>

\* Every message of a pipeline is handled, unless the connection is closed or
\* goes on with HTTP/2: once the peer has sent all of it and the responses are
\* written nothing is left that waits for a read that never comes. Every step
\* takes something of what is left, so that this state is reached.
PipelineIsServed ==
    protocol = "http1" /\ wire = <<>> /\ response = <<>> => Times("complete") = Pipeline

\* Offset, size and capacity of the buffer agree, and a kept connection gives it up.
BufferIsSound ==
    HttpTypeOK /\ WithinBuffer /\ BufferIsReleased

\* The messages of a pipeline are handled one after the other, all of them, out of a
\* buffer that is neither outrun nor kept; what is of HTTP/2 never gets there.
PipelineInOrder ==
    /\ OneMessageAtATime
    /\ NothingWaits
    /\ PipelineIsServed
    /\ PrefaceIsRecognised
    /\ BufferIsSound
=============================================================================
