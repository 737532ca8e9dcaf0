---------------------------- MODULE Http2Session ----------------------------
(***************************************************************************)
(* One HTTP/2 session of the server: the compact table of the streams, the *)
(* windows of both directions, the frames of the peer, the responses of    *)
(* the handlers, the fragments held back, the promises, and the            *)
(* completions that the event loop reports for what was written.           *)
(*                                                                         *)
(* The server is a single thread.  work is its call stack: the head is the *)
(* call being executed, and nothing of the environment (a delivery, the    *)
(* completion of a write, the closing of the peer) happens before it is    *)
(* empty.  A completion may re-enter the handling of frames, through the   *)
(* release of the connection, and that is what the stack is for.           *)
(***************************************************************************)
EXTENDS Http2Tree, Integers, Sequences

CONSTANTS
    StreamId,        \* identifiers of streams, odd: of the peer, even: pushed
    Slots,           \* HTTP2_STREAM_SLOTS
    MaxConcurrent,   \* settings.max_concurrent_streams, announced to the peer
    PushLimit,       \* remote.max_concurrent_streams, zero: enable_push unset
    DefaultWindow,   \* HTTP2_DEFAULT_WINDOW_SIZE
    MaxWindow,       \* HTTP2_MAX_WINDOW_SIZE
    MaxFrameSize,    \* remote.max_frame_size
    PeerFrames,      \* the frames the peer of an instance sends
    Responses,       \* the responses the handlers of an instance give
    MaxBatch,        \* bound: the frames that one read delivers
    MaxFrames,       \* bound: the frames the peer sends, window updates aside
    MaxGrant         \* bound: the credit that window updates build up

FrameType == {"DATA", "HEADERS", "CONTINUATION", "PRIORITY", "RST_STREAM",
              "SETTINGS", "PING", "GOAWAY", "WINDOW_UPDATE",
              "MALFORMED",   \* what verify_frame_http2 refuses, PUSH_PROMISE
              "OVERSIZED"}   \* longer than the size that was announced

\* size is the length of a DATA frame, the increment of a WINDOW_UPDATE, the
\* initial window of a SETTINGS and the content-length of a HEADERS that is
\* announced.  valid tells a block that decodes into legal headers.
Frame == [type : FrameType, stream : Nat, size : Nat,
          end : BOOLEAN, endHeaders : BOOLEAN, announced : BOOLEAN,
          valid : BOOLEAN, priority : BOOLEAN, dependency : Nat,
          weight : Nat, exclusive : BOOLEAN]

\* What a handler answers with.  "page" is a head and one last fragment (the
\* default handler, errors, listings), "file" a head and a chain of fragments
\* each written by the completion of the one before, "head" a response with no
\* payload (a redirect, a 304).  body is what is read, fragment by fragment, the
\* page of an empty one being an empty fragment.  push is the number of paths that the location
\* promises, cut tells a file that ends before the size its head announced.
Response == [kind : {"page", "file", "head"}, body : Seq(Nat),
             push : Nat, cut : BOOLEAN]

ASSUME StreamIdAssumption == StreamId \subseteq Nat \ {0}
ASSUME BoundAssumption ==
    /\ Slots \in Nat /\ MaxConcurrent \in Nat /\ PushLimit \in Nat
    /\ MaxBatch \in Nat /\ MaxFrames \in Nat /\ MaxGrant \in Nat
ASSUME WindowAssumption ==
    /\ DefaultWindow \in Nat /\ MaxWindow \in Nat
    /\ DefaultWindow <= MaxWindow /\ MaxFrameSize \in Nat \ {0}
ASSUME FrameAssumption ==
    \A f \in PeerFrames :
        /\ f \in Frame
        /\ f.stream \in StreamId \cup {0} /\ f.dependency \in StreamId \cup {0}
        /\ f.type \in {"DATA", "HEADERS", "CONTINUATION", "PRIORITY",
                       "RST_STREAM"} => f.stream # 0
        /\ f.type \in {"SETTINGS", "PING", "GOAWAY"} => f.stream = 0
ASSUME ResponseAssumption ==
    \A r \in Responses : r \in Response

VARIABLES
    open,           \* the connection is not CLOSED
    table,          \* the identifiers in streams[0 .. count - 1]
    stream,         \* the content of the slot of every identifier
    dependency,     \* priority.dependency of every identifier
    weight,         \* priority.weight of every identifier
    lastStreamId, pushStreamId,
    sendWindow, receiveWindow,    \* of the connection
    initialWindow,  \* remote.initial_window_size
    goaway, continuation, refused,
    block,          \* what the block gathered so far amounts to
    lock,           \* lock of the HTTP connection
    buffer,         \* the frames read and not yet handled
    queue,          \* the write queue of the connection
    work,           \* the call stack of the thread
    fault,          \* a released stream or session has been used
    frames,         \* bound: how many frames have been delivered
    peer            \* history: what the peer has been sent and has granted

session == <<open, table, stream, dependency, weight, lastStreamId,
             pushStreamId, sendWindow, receiveWindow, initialWindow, goaway,
             continuation, refused, block, lock, buffer, queue, work, fault>>
vars == <<session, frames, peer>>

Live == {table[i] : i \in 1..Len(table)}
Slot(s) == CHOOSE i \in 1..Len(table) : table[i] = s

-----------------------------------------------------------------------------
(***************************************************************************)
(* The records that the state is made of.                                  *)
(***************************************************************************)
StreamState == {"RESERVED_LOCAL", "OPEN", "HALF_CLOSED_LOCAL",
                "HALF_CLOSED_REMOTE", "CLOSED"}

\* The handler's callback of a write: none, the next fragment of a file, or
\* the clean up of the request, "close" being the callback of a GOAWAY.
Callback == {"none", "chunk", "cleanup", "close"}

\* A fragment of payload that waits for the windows (http2_pending_t).
Fragment == [size : Nat, offset : Nat, last : BOOLEAN, callback : Callback]

Stream == [state : StreamState, sendWindow : Int, receiveWindow : Int,
           end : BOOLEAN, headersComplete : BOOLEAN, complete : BOOLEAN,
           announced : BOOLEAN, length : Nat, received : Nat,
           pending : Seq(Fragment),
           kind : {"page", "file", "head"}, todo : Seq(Nat), cut : BOOLEAN]

Fresh(state, window) ==
    [state |-> state, sendWindow |-> window, receiveWindow |-> DefaultWindow,
     end |-> FALSE, headersComplete |-> FALSE, complete |-> FALSE,
     announced |-> FALSE, length |-> 0, received |-> 0, pending |-> <<>>,
     kind |-> "page", todo |-> <<>>, cut |-> FALSE]

Unused == Fresh("CLOSED", 0)

\* A value of the write queue, the header of a DATA frame and its payload
\* being one: they are queued together and only the payload has a callback.
\* wrapped tells the writes whose completion runs _callback_http2_connection.
Item == [type : FrameType \cup {"PUSH_PROMISE"},
         stream : StreamId \cup {0}, size : Nat,
         end : BOOLEAN, callback : Callback, wrapped : BOOLEAN]

Plain(type, s) == [type |-> type, stream |-> s, size |-> 0, end |-> FALSE,
                   callback |-> "none", wrapped |-> FALSE]

\* A call on the stack.  stream is the stream it is about, slot the slot that
\* the reference it holds points at, round and count the counters of the loop.
Call == [op : {"frames", "goaway", "serve", "push", "respond", "schedule",
               "flush", "callback", "release", "settle"},
         stream : StreamId \cup {0}, slot : Nat, round : Nat, count : Nat,
         callback : Callback]

Do(op, s) == [op |-> op, stream |-> s, slot |-> 0, round |-> 0, count |-> 0,
              callback |-> "none"]

\* What the peer can tell: what it was sent on every stream, the payload sent
\* and the credit granted on every stream and on the connection.
Peer == [out : [StreamId -> {"idle", "open", "reserved", "headers", "ended",
                             "reset"}],
         sent : [StreamId -> Nat], granted : [StreamId -> Int],
         connSent : Nat, connGranted : Nat]

\* What a header block amounts to, gathered from its frames.
Block == [valid : BOOLEAN, announced : BOOLEAN, size : Nat]
NoBlock == [valid |-> TRUE, announced |-> FALSE, size |-> 0]

TypeOK ==
    /\ open \in BOOLEAN
    /\ table \in Seq(StreamId)
    /\ stream \in [StreamId -> Stream]
    /\ dependency \in [StreamId -> StreamId \cup {0}]
    /\ weight \in [StreamId -> Nat]
    /\ lastStreamId \in StreamId \cup {0}
    /\ pushStreamId \in Nat
    /\ sendWindow \in Int
    /\ receiveWindow \in Int
    /\ initialWindow \in Nat
    /\ goaway \in BOOLEAN
    /\ continuation \in StreamId \cup {0}
    /\ refused \in StreamId \cup {0}
    /\ block \in Block
    /\ lock \in BOOLEAN
    /\ buffer \in Seq(PeerFrames)
    /\ queue \in Seq(Item)
    /\ work \in Seq(Call)
    /\ fault \in BOOLEAN
    /\ frames \in Nat
    /\ peer \in Peer

Init ==
    /\ open = TRUE
    /\ table = <<>>
    /\ stream = [s \in StreamId |-> Unused]
    /\ dependency = [s \in StreamId |-> 0]
    /\ weight = [s \in StreamId |-> 0]
    /\ lastStreamId = 0
    /\ pushStreamId = 0
    /\ sendWindow = DefaultWindow
    /\ receiveWindow = DefaultWindow
    /\ initialWindow = DefaultWindow
    /\ goaway = FALSE
    /\ continuation = 0
    /\ refused = 0
    /\ block = NoBlock
    /\ lock = FALSE
    /\ buffer = <<>>
    /\ queue = <<>>
    /\ work = <<>>
    /\ fault = FALSE
    /\ frames = 0
    /\ peer = [out |-> [s \in StreamId |-> "idle"],
               sent |-> [s \in StreamId |-> 0],
               granted |-> [s \in StreamId |-> 0],
               connSent |-> 0, connGranted |-> DefaultWindow]

-----------------------------------------------------------------------------
(***************************************************************************)
(* The table of the streams.                                               *)
(***************************************************************************)
tree == <<dependency, weight>>
ids == <<lastStreamId, pushStreamId>>
windows == <<sendWindow, receiveWindow, initialWindow>>
assembly == <<continuation, refused, block>>

\* The state a stream is in, one that is not held being either ahead of the
\* identifiers in use or behind them.
State(s) ==
    IF s \in Live THEN stream[s].state
    ELSE IF s > (IF s % 2 = 0 THEN pushStreamId ELSE lastStreamId)
         THEN "IDLE" ELSE "CLOSED"

\* The table is cut and the last stream does not move into the slot of s.
MutantCloseStream(s) ==
    /\ table' = SubSeq(table, 1, Len(table) - 1)
    /\ stream' = [stream EXCEPT ![s] = Unused]
    /\ dependency' = Orphaned(dependency, Live, s)
    /\ weight' = [weight EXCEPT ![s] = 0]

\* close_stream: the last stream of the table moves into the slot of s.
CloseStream(s) ==
    /\ table' = [i \in 1..(Len(table) - 1) |->
                    IF i = Slot(s) THEN table[Len(table)] ELSE table[i]]
    /\ stream' = [stream EXCEPT ![s] = Unused]
    /\ dependency' = Orphaned(dependency, Live, s)
    /\ weight' = [weight EXCEPT ![s] = 0]

\* close_connection: the session and everything it holds is released.
CloseSession ==
    /\ open' = FALSE
    /\ table' = <<>>
    /\ stream' = [s \in StreamId |-> Unused]
    /\ dependency' = [s \in StreamId |-> 0]
    /\ weight' = [s \in StreamId |-> 0]
    /\ buffer' = <<>>
    /\ queue' = <<>>
    /\ UNCHANGED <<ids, windows, goaway, assembly, lock>>

-----------------------------------------------------------------------------
(***************************************************************************)
(* The frames of the peer.                                                 *)
(***************************************************************************)
Top == Head(work)
Running(op) == work # <<>> /\ Top.op = op
Return == work' = Tail(work)
Calls(calls) == work' = calls \o work
Becomes(calls) == work' = calls \o Tail(work)

\* The frame that the loop of data_handler takes out of the buffer.
Taking(type) ==
    /\ Running("frames")
    /\ buffer # <<>>
    /\ Head(buffer).type = type
    /\ buffer' = Tail(buffer)

\* An error of the connection: the loop writes a GOAWAY and returns, whatever
\* is left of the buffer stays there until the next time it is entered.
ConnectionError == Becomes(<<Do("goaway", 0)>>)

\* A stream that the peer has ended takes payload and headers again.
MutantAllowed(state) ==
    CASE state = "IDLE" -> {"HEADERS"}
      [] state = "RESERVED_LOCAL" -> {"RST_STREAM", "WINDOW_UPDATE"}
      [] state = "CLOSED" -> {"HEADERS", "RST_STREAM", "WINDOW_UPDATE"}
      [] OTHER -> FrameType

Allowed(state) ==
    CASE state = "IDLE" -> {"HEADERS"}
      [] state \in {"RESERVED_LOCAL", "HALF_CLOSED_REMOTE"} ->
             {"RST_STREAM", "WINDOW_UPDATE"}
      [] state = "CLOSED" -> {"HEADERS", "RST_STREAM", "WINDOW_UPDATE"}
      [] OTHER -> FrameType

\* _verify_stream: the stream is in a state that takes the frame.
StreamTakes(f) ==
    \/ f.stream = 0
    \/ f.type = "CONTINUATION" /\ continuation = f.stream
    \/ f.type \notin {"DATA", "HEADERS", "RST_STREAM", "WINDOW_UPDATE",
                      "CONTINUATION"}
    \/ f.type \in Allowed(State(f.stream))

OutOfSequence(f) ==
    continuation # 0 /\ ~(f.type = "CONTINUATION" /\ f.stream = continuation)

\* The errors that a frame raises before it has changed anything.
Violates(f) ==
    \/ f.type = "MALFORMED"
    \/ OutOfSequence(f)
    \/ f.type # "DATA" /\ ~StreamTakes(f)
    \/ /\ f.type = "HEADERS"
       /\ IF f.stream \in Live
          THEN stream[f.stream].headersComplete /\ ~f.end
          ELSE f.stream % 2 = 0 \/ f.stream <= lastStreamId
    \/ /\ f.type = "CONTINUATION"
       /\ \/ continuation = 0
          \/ refused # continuation /\ continuation \notin Live
    \/ f.type = "PRIORITY" /\ f.dependency = f.stream
    \/ /\ f.type = "WINDOW_UPDATE"
       /\ \/ f.size = 0
          \/ f.stream = 0 /\ sendWindow > MaxWindow - f.size

HandleViolation ==
    /\ \E type \in FrameType \ {"OVERSIZED"} : Taking(type)
    /\ Violates(Head(buffer))
    /\ ConnectionError
    /\ UNCHANGED <<open, table, stream, tree, ids, windows, goaway, assembly,
                   lock, queue, fault, frames, peer>>

\* A frame longer than this end accepts is refused before its payload has
\* arrived and is not taken out of the buffer.
HandleOversized ==
    /\ Running("frames")
    /\ buffer # <<>>
    /\ Head(buffer).type = "OVERSIZED"
    /\ ConnectionError
    /\ UNCHANGED <<open, table, stream, tree, ids, windows, goaway, assembly,
                   lock, buffer, queue, fault, frames, peer>>

Fits(f) == f.size <= receiveWindow /\ f.size <= stream[f.stream].receiveWindow

\* DATA that the windows or the state of the stream refuse, the window of the
\* connection being charged before the state of the stream is verified.
RefuseData ==
    LET f == Head(buffer)
    IN  /\ Taking("DATA")
        /\ ~OutOfSequence(f)
        /\ ~(StreamTakes(f) /\ Fits(f))
        /\ receiveWindow' = receiveWindow - f.size
        /\ stream' = IF StreamTakes(f) /\ f.size <= receiveWindow
                     THEN [stream EXCEPT ![f.stream].receiveWindow = @ - f.size]
                     ELSE stream
        /\ ConnectionError
        /\ UNCHANGED <<open, table, tree, ids, sendWindow, initialWindow,
                       goaway, assembly, lock, queue, fault, frames, peer>>

\* What the end of a body is verified against.
MutantMatches(st, received) == st.announced => received <= st.length
Matches(st, received) == st.announced => received = st.length

\* DATA that is accepted: both windows are charged and then opened again by
\* as much, and the frame that ends the message has it verified and served.
HandleData ==
    LET f == Head(buffer)
        s == f.stream
        received == stream[s].received + f.size
    IN  /\ Taking("DATA")
        /\ ~OutOfSequence(f)
        /\ StreamTakes(f) /\ Fits(f)
        /\ stream' = [stream EXCEPT
              ![s].received = received,
              ![s].end = @ \/ f.end,
              ![s].state = IF f.end THEN "HALF_CLOSED_REMOTE" ELSE @]
        /\ queue' = IF f.size = 0 THEN queue
                    ELSE queue \o <<Plain("WINDOW_UPDATE", 0),
                                    Plain("WINDOW_UPDATE", s)>>
        /\ IF f.end /\ ~Matches(stream[s], received) THEN ConnectionError
           ELSE Calls(IF f.end THEN <<Do("serve", s)>> ELSE <<>>)
        /\ UNCHANGED <<open, table, tree, ids, windows, goaway, assembly,
                       lock, fault, frames, peer>>

\* What the end of a header block does to stream s: the block is consumed,
\* a block that is not legal is a connection error, and a message that is
\* over is handed to the handler.
EndBlock(s, st, b) ==
    /\ block' = NoBlock /\ continuation' = 0 /\ refused' = 0
    /\ stream' = [stream EXCEPT ![s] =
          IF ~b.valid THEN st
          ELSE [st EXCEPT !.headersComplete = TRUE,
                          !.announced = @ \/ b.announced,
                          !.length = IF b.announced THEN b.size ELSE @]]
    /\ IF ~b.valid THEN ConnectionError
       ELSE Calls(IF st.end THEN <<Do("serve", s)>> ELSE <<>>)

\* A block that is not over yet waits for its continuation.
KeepBlock(s, st, b) ==
    /\ block' = b /\ continuation' = s /\ UNCHANGED refused
    /\ stream' = [stream EXCEPT ![s] = st]
    /\ UNCHANGED work

Gathered(f) == [valid |-> block.valid /\ f.valid,
                announced |-> block.announced \/ f.announced,
                size |-> IF f.announced THEN f.size ELSE block.size]

CanOpen ==
    Len(table) < MaxConcurrent /\ Len(table) < Slots

\* HEADERS that open a stream or carry the trailers of an open one.
HandleHeaders ==
    LET f == Head(buffer)
        s == f.stream
        opens == s \notin Live
        started == IF opens THEN Fresh("OPEN", initialWindow) ELSE stream[s]
        ended == [started EXCEPT
                    !.end = @ \/ f.end,
                    !.state = IF f.end THEN "HALF_CLOSED_REMOTE" ELSE @]
        live == Live \cup {s}
        cyclic == f.priority /\ f.dependency = s
    IN  /\ Taking("HEADERS")
        /\ ~Violates(f)
        /\ ~opens \/ CanOpen
        /\ IF opens
           THEN /\ table' = Append(table, s)
                /\ lastStreamId' = s
                /\ peer' = [peer EXCEPT !.out[s] = "open",
                                        !.granted[s] = initialWindow]
           ELSE UNCHANGED <<table, lastStreamId, peer>>
        /\ IF f.priority /\ ~cyclic
           THEN /\ dependency' = Prioritise(dependency, live, s, f.dependency,
                                            f.exclusive)
                /\ weight' = [weight EXCEPT ![s] = f.weight]
           ELSE UNCHANGED tree
        /\ IF cyclic
           THEN /\ stream' = [stream EXCEPT ![s] = started]
                /\ ConnectionError
                /\ UNCHANGED assembly
           ELSE IF f.endHeaders THEN EndBlock(s, ended, Gathered(f))
                                ELSE KeepBlock(s, ended, Gathered(f))
        /\ UNCHANGED <<open, pushStreamId, windows, goaway, lock, queue, fault,
                       frames>>

\* HEADERS of a stream in excess: the stream is reset at once and its block
\* only goes through the decoder.
RefuseHeaders ==
    LET f == Head(buffer)
        s == f.stream
        b == Gathered(f)
    IN  /\ Taking("HEADERS")
        /\ ~Violates(f)
        /\ s \notin Live
        /\ ~CanOpen
        /\ queue' = Append(queue, Plain("RST_STREAM", s))
        /\ IF f.endHeaders
           THEN /\ block' = NoBlock /\ continuation' = 0 /\ refused' = 0
                /\ IF b.valid THEN UNCHANGED work ELSE ConnectionError
           ELSE /\ block' = b /\ continuation' = s /\ refused' = s
                /\ UNCHANGED work
        /\ UNCHANGED <<open, table, stream, tree, ids, windows, goaway, lock,
                       fault, frames, peer>>

HandleContinuation ==
    LET f == Head(buffer)
        s == continuation
        b == Gathered(f)
    IN  /\ Taking("CONTINUATION")
        /\ ~Violates(f)
        /\ IF ~f.endHeaders
           THEN /\ block' = b
                /\ UNCHANGED <<stream, continuation, refused, work>>
           ELSE IF refused = s
           THEN /\ block' = NoBlock /\ continuation' = 0 /\ refused' = 0
                /\ IF b.valid THEN UNCHANGED work ELSE ConnectionError
                /\ UNCHANGED stream
           ELSE EndBlock(s, stream[s], b)
        /\ UNCHANGED <<open, table, tree, ids, windows, goaway, lock, queue,
                       fault, frames, peer>>

\* PRIORITY of an open stream, of any other it is dropped.
HandlePriority ==
    LET f == Head(buffer)
    IN  /\ Taking("PRIORITY")
        /\ ~Violates(f)
        /\ IF f.stream \in Live
           THEN /\ dependency' = Prioritise(dependency, Live, f.stream,
                                            f.dependency, f.exclusive)
                /\ weight' = [weight EXCEPT ![f.stream] = f.weight]
           ELSE UNCHANGED tree
        /\ UNCHANGED <<open, table, stream, ids, windows, goaway, assembly,
                       lock, queue, work, fault, frames, peer>>

HandleReset ==
    LET s == Head(buffer).stream
    IN  /\ Taking("RST_STREAM")
        /\ ~Violates(Head(buffer))
        /\ IF s \in Live
           THEN CloseStream(s) /\ peer' = [peer EXCEPT !.out[s] = "reset"]
           ELSE UNCHANGED <<table, stream, tree, peer>>
        /\ UNCHANGED <<open, ids, windows, goaway, assembly, lock, queue, work,
                       fault, frames>>

\* SETTINGS: the windows of the open streams move by the difference of the
\* initial ones, in the order of the table and up to the first that overflows.
HandleSettings ==
    LET f == Head(buffer)
        difference == f.size - initialWindow
        overflows == {i \in 1..Len(table) : difference > 0 /\
                         stream[table[i]].sendWindow > MaxWindow - difference}
        moved == {table[i] : i \in {j \in 1..Len(table) :
                                       \A k \in overflows : j < k}}
    IN  /\ Taking("SETTINGS")
        /\ ~Violates(f)
        /\ initialWindow' = f.size
        /\ stream' = [s \in StreamId |-> IF s \in moved
                        THEN [stream[s] EXCEPT !.sendWindow = @ + difference]
                        ELSE stream[s]]
        /\ peer' = [peer EXCEPT !.granted = [s \in StreamId |->
                        IF s \in moved THEN @[s] + difference ELSE @[s]]]
        /\ IF overflows # {}
           THEN ConnectionError /\ UNCHANGED queue
           ELSE /\ queue' = Append(queue, Plain("SETTINGS", 0))
                /\ Calls(<<Do("schedule", 0)>>)
        /\ UNCHANGED <<open, table, tree, ids, sendWindow, receiveWindow,
                       goaway, assembly, lock, fault, frames>>

HandlePing ==
    /\ Taking("PING")
    /\ ~Violates(Head(buffer))
    /\ queue' = Append(queue, Plain("PING", 0))
    /\ UNCHANGED <<open, table, stream, tree, ids, windows, goaway, assembly,
                   lock, work, fault, frames, peer>>

HandleGoaway ==
    /\ Taking("GOAWAY")
    /\ ~Violates(Head(buffer))
    /\ goaway' = TRUE
    /\ UNCHANGED <<open, table, stream, tree, ids, windows, assembly, lock,
                   queue, work, fault, frames, peer>>

\* WINDOW_UPDATE: one that overflows the window of a stream has the stream
\* reset, one for a stream that is gone is dropped, any other lets the
\* fragments held back through.
HandleWindowUpdate ==
    LET f == Head(buffer)
        s == f.stream
    IN  /\ Taking("WINDOW_UPDATE")
        /\ ~Violates(f)
        /\ \/ /\ s = 0
              /\ sendWindow' = sendWindow + f.size
              /\ peer' = [peer EXCEPT !.connGranted = @ + f.size]
              /\ Calls(<<Do("schedule", 0)>>)
              /\ UNCHANGED <<stream, queue>>
           \/ /\ s \in Live
              /\ stream[s].sendWindow <= MaxWindow - f.size
              /\ stream' = [stream EXCEPT ![s].sendWindow = @ + f.size]
              /\ peer' = [peer EXCEPT !.granted[s] = @ + f.size]
              /\ Calls(<<Do("schedule", 0)>>)
              /\ UNCHANGED <<sendWindow, queue>>
           \/ /\ s \in Live
              /\ stream[s].sendWindow > MaxWindow - f.size
              /\ queue' = Append(queue, Plain("RST_STREAM", s))
              /\ peer' = [peer EXCEPT !.out[s] = "reset"]
              /\ UNCHANGED <<stream, sendWindow, work>>
           \/ /\ s \notin Live \cup {0}
              /\ Calls(<<Do("schedule", 0)>>)
              /\ UNCHANGED <<stream, sendWindow, queue, peer>>
        /\ UNCHANGED <<open, table, tree, ids, receiveWindow, initialWindow,
                       goaway, assembly, lock, fault, frames>>

\* The buffer holds no complete frame: the loop of data_handler is over.
EndFrames ==
    /\ Running("frames")
    /\ buffer = <<>>
    /\ Return
    /\ UNCHANGED <<open, table, stream, tree, ids, windows, goaway, assembly,
                   lock, buffer, queue, fault, frames, peer>>

\* The frame that tells the peer has nothing close the connection after it.
MutantWriteGoaway ==
    /\ Running("goaway")
    /\ Return
    /\ IF goaway THEN CloseSession
       ELSE /\ goaway' = TRUE
            /\ queue' = Append(queue, Plain("GOAWAY", 0))
            /\ UNCHANGED <<open, table, stream, tree, ids, windows, assembly,
                           lock, buffer>>
    /\ UNCHANGED <<fault, frames, peer>>

\* write_goaway: the first error is told to the peer, the connection being
\* closed once that is written, the second one closes the connection at once.
WriteGoaway ==
    /\ Running("goaway")
    /\ Return
    /\ IF goaway THEN CloseSession
       ELSE /\ goaway' = TRUE
            /\ queue' = Append(queue, [Plain("GOAWAY", 0) EXCEPT
                                          !.callback = "close"])
            /\ UNCHANGED <<open, table, stream, tree, ids, windows, assembly,
                           lock, buffer>>
    /\ UNCHANGED <<fault, frames, peer>>

-----------------------------------------------------------------------------
(***************************************************************************)
(* The handlers: a message that is over is answered, after the resources   *)
(* that its location lists have been promised.                             *)
(***************************************************************************)
\* on_message_complete: the handler takes the lock, promises and responds.
Serve ==
    /\ Running("serve")
    /\ LET s == Top.stream
       IN  \E r \in Responses :
             /\ stream' = [stream EXCEPT ![s].kind = r.kind,
                                         ![s].todo = r.body, ![s].cut = r.cut]
             /\ Becomes([i \in 1..r.push |-> Do("push", s)]
                           \o <<Do("respond", s)>>)
    /\ lock' = TRUE
    /\ UNCHANGED <<open, table, tree, ids, windows, goaway, assembly, buffer,
                   queue, fault, frames, peer>>

CanPush == Len(table) < PushLimit /\ Len(table) < Slots

\* push_stream: the promised stream is placed in the table under the one it is
\* promised on and is served as though the peer had asked for it.
Push ==
    /\ Running("push")
    /\ LET s == Top.stream
           p == pushStreamId + 2
       IN  IF CanPush /\ p \in StreamId
           THEN /\ pushStreamId' = p
                /\ queue' = Append(queue, Plain("PUSH_PROMISE", p))
                /\ table' = Append(table, p)
                /\ stream' = [stream EXCEPT ![p] =
                      [Fresh("RESERVED_LOCAL", initialWindow) EXCEPT
                          !.end = TRUE, !.headersComplete = TRUE]]
                /\ dependency' = [dependency EXCEPT ![p] = s]
                /\ weight' = [weight EXCEPT ![p] = 16]
                /\ peer' = [peer EXCEPT !.out[p] = "reserved",
                                        !.granted[p] = initialWindow]
                /\ Becomes(<<Do("serve", p)>>)
           ELSE /\ pushStreamId' = IF CanPush THEN p ELSE pushStreamId
                /\ Return
                /\ UNCHANGED <<queue, table, stream, tree, peer>>
    /\ UNCHANGED <<open, lastStreamId, windows, goaway, assembly, lock, buffer,
                   fault, frames>>

\* write_flush: the head of the response is queued, a promised stream being
\* from there on one that the peer has nothing left to send on.
AfterHead(st) ==
    [st EXCEPT !.state = IF @ = "RESERVED_LOCAL" THEN "HALF_CLOSED_REMOTE"
                         ELSE @]
HeadOf(s, end, callback) ==
    [Plain("HEADERS", s) EXCEPT !.end = end, !.callback = callback,
                                !.wrapped = TRUE]

\* write_end and the end of _flush: nothing else is going to be written.
Completed(st) ==
    [st EXCEPT !.complete = TRUE,
               !.state = IF @ = "OPEN" THEN "HALF_CLOSED_LOCAL" ELSE @]

Chunk(size, last, callback) ==
    [size |-> size, offset |-> 0, last |-> last, callback |-> callback]

PageSize(st) == IF st.todo = <<>> THEN 0 ELSE Head(st.todo)

Respond ==
    /\ Running("respond")
    /\ LET s == Top.stream
           st == stream[s]
       IN  \/ /\ st.kind = "head"
              /\ stream' = [stream EXCEPT ![s] = AfterHead(Completed(st))]
              /\ queue' = Append(queue, HeadOf(s, TRUE, "cleanup"))
              /\ peer' = [peer EXCEPT !.out[s] = "ended"]
              /\ Return
           \/ /\ st.kind = "file"
              /\ stream' = [stream EXCEPT ![s] = AfterHead(st)]
              /\ queue' = Append(queue, HeadOf(s, FALSE, "chunk"))
              /\ peer' = [peer EXCEPT !.out[s] = "headers"]
              /\ Return
           \/ /\ st.kind = "page"
              /\ stream' = [stream EXCEPT ![s] = [AfterHead(st) EXCEPT
                    !.pending = Append(@, Chunk(PageSize(st), TRUE,
                                                "cleanup"))]]
              /\ queue' = Append(queue, HeadOf(s, FALSE, "none"))
              /\ peer' = [peer EXCEPT !.out[s] = "headers"]
              /\ Becomes(<<Do("schedule", 0)>>)
    /\ UNCHANGED <<open, table, tree, ids, windows, goaway, assembly, lock,
                   buffer, fault, frames>>

-----------------------------------------------------------------------------
(***************************************************************************)
(* The fragments held back.                                                *)
(***************************************************************************)
Holding == {s \in Live : stream[s].pending # <<>> /\ stream[s].sendWindow > 0}

\* The slots of the streams that may write, the tree considered.
Writable == {i \in 1..Len(table) :
                /\ table[i] \in Holding
                /\ ~Blocked(dependency, Live, table[i], Holding)}

\* The heaviest of them, the first of the table among equals.
IsChosen(i) ==
    \A j \in Writable :
        \/ weight[table[i]] > weight[table[j]]
        \/ weight[table[i]] = weight[table[j]] /\ i <= j

\* A round of the loop of _schedule.
Schedule ==
    /\ Running("schedule")
    /\ \/ /\ Top.round < Slots
          /\ \E i \in Writable :
                /\ IsChosen(i)
                /\ Becomes(<<[Top EXCEPT
                       !.op = "flush", !.stream = table[i],
                       !.count = Len(stream[table[i]].pending)]>>)
       \/ /\ Top.round >= Slots \/ Writable = {}
          /\ Return
    /\ UNCHANGED <<open, table, stream, tree, ids, windows, goaway, assembly,
                   lock, buffer, queue, fault, frames, peer>>

Smaller(a, b) == IF a < b THEN a ELSE b

\* The window of the connection is not looked at.
MutantWindow(s) == stream[s].sendWindow
Window(s) == Smaller(stream[s].sendWindow, sendWindow)

\* What is left of the fragment once n more of it has been sent.
Whole(fragment, n) == fragment.offset + n = fragment.size

\* The callback goes with the frame that ends the fragment.
CallbackOf(fragment, whole) == IF whole THEN fragment.callback ELSE "none"

\* An iteration of the loop of _flush: a frame with as much of the first
\* fragment as both windows and the size of a frame let through.
Flush ==
    /\ Running("flush")
    /\ LET s == Top.stream
           fragment == Head(stream[s].pending)
           remaining == fragment.size - fragment.offset
           allowed == Smaller(remaining, Smaller(Window(s), MaxFrameSize))
           whole == Whole(fragment, allowed)
           last == fragment.last /\ whole
           left == IF whole THEN Tail(stream[s].pending)
                   ELSE [stream[s].pending EXCEPT ![1].offset = @ + allowed]
           sent == [stream[s] EXCEPT !.sendWindow = @ - allowed,
                                     !.pending = left]
       IN  /\ stream[s].pending # <<>>
           /\ Window(s) > 0
           /\ stream' = [stream EXCEPT ![s] = IF last THEN Completed(sent)
                                              ELSE sent]
           /\ sendWindow' = sendWindow - allowed
           /\ queue' = Append(queue,
                 [type |-> "DATA", stream |-> s, size |-> allowed, end |-> last,
                  callback |-> CallbackOf(fragment, whole),
                  wrapped |-> whole])
           /\ peer' = [peer EXCEPT !.sent[s] = @ + allowed,
                                   !.connSent = @ + allowed,
                                   !.out[s] = IF last THEN "ended" ELSE @]
    /\ UNCHANGED <<open, table, tree, ids, receiveWindow, initialWindow, goaway,
                   assembly, lock, buffer, work, fault, frames>>

\* The end of _flush: the loop of _schedule goes on only when the round has
\* taken a fragment out of what the stream was holding.
EndFlush ==
    /\ Running("flush")
    /\ LET s == Top.stream
       IN  /\ stream[s].pending = <<>> \/ Window(s) <= 0
           /\ IF Len(stream[s].pending) = Top.count THEN Return
              ELSE Becomes(<<[Do("schedule", 0) EXCEPT !.round = Top.round + 1]
                           >>)
    /\ UNCHANGED <<open, table, stream, tree, ids, windows, goaway, assembly,
                   lock, buffer, queue, fault, frames, peer>>

-----------------------------------------------------------------------------
(***************************************************************************)
(* The completion of a write, reported by the event loop.                  *)
(***************************************************************************)
\* The value at the head of the queue has been sent.  The completion of a
\* GOAWAY closes the connection, the one of a response runs the callback of
\* the handler and settles the stream, unless the stream is gone by then.
Written ==
    /\ open /\ work = <<>> /\ queue # <<>>
    /\ LET item == Head(queue)
           s == item.stream
           driven == item.wrapped /\ s \in Live
       IN  IF item.callback = "close"
           THEN CloseSession /\ UNCHANGED work
           ELSE /\ queue' = Tail(queue)
                /\ IF driven
                   THEN work' = <<[Do("callback", s) EXCEPT
                                      !.callback = item.callback],
                                  [Do("settle", s) EXCEPT !.slot = Slot(s)]>>
                   ELSE UNCHANGED work
                /\ UNCHANGED <<open, table, stream, tree, ids, windows, goaway,
                               assembly, lock, buffer>>
    /\ UNCHANGED <<fault, frames, peer>>

\* _send_chunk: the next fragment of the file is written, the one that the
\* announced size ends with being the last; with nothing left to read the
\* request is cleaned up.
SendChunk ==
    /\ Running("callback") /\ Top.callback = "chunk"
    /\ LET s == Top.stream
           st == stream[s]
           last == Len(st.todo) = 1 /\ ~st.cut
       IN  IF st.todo # <<>>
           THEN /\ stream' = [stream EXCEPT ![s].todo = Tail(@),
                      ![s].pending = Append(@, Chunk(Head(st.todo), last,
                                                     "chunk"))]
                /\ Becomes(<<Do("schedule", 0)>>)
           ELSE /\ Becomes(<<Do("release", s)>>)
                /\ UNCHANGED stream
    /\ UNCHANGED <<open, table, tree, ids, windows, goaway, assembly, lock,
                   buffer, queue, fault, frames, peer>>

Cleanup ==
    /\ Running("callback") /\ Top.callback # "chunk"
    /\ IF Top.callback = "cleanup" THEN Becomes(<<Do("release", Top.stream)>>)
       ELSE Return
    /\ UNCHANGED <<open, table, stream, tree, ids, windows, goaway, assembly,
                   lock, buffer, queue, fault, frames, peer>>

\* release: a connection that was locked has the frames that it may have left
\* in its buffer handled, from inside the completion of the write.
Release ==
    /\ Running("release")
    /\ lock' = FALSE
    /\ Becomes(IF lock THEN <<Do("frames", 0)>> ELSE <<>>)
    /\ UNCHANGED <<open, table, stream, tree, ids, windows, goaway, assembly,
                   buffer, queue, fault, frames, peer>>

\* The response has been queued to the end and nothing of it is held back.
MutantOver(st) == st.pending = <<>>
Over(st) == st.complete /\ st.pending = <<>>

\* The end of _callback: the stream whose response is complete is closed.  It
\* is reached through a reference taken before the callback, into a slot that
\* may hold another stream, or nothing at all, by now.
Settle ==
    /\ Running("settle")
    /\ LET s == Top.stream
           stale == ~(Top.slot <= Len(table) /\ s \in Live /\ Slot(s) = Top.slot)
       IN  IF stale
           THEN /\ fault' = TRUE
                /\ CloseSession
                /\ work' = <<>>
           ELSE /\ IF Over(stream[s])
                   THEN CloseStream(s) ELSE UNCHANGED <<table, stream, tree>>
                /\ Return
                /\ UNCHANGED <<open, ids, windows, goaway, assembly, lock,
                               buffer, queue, fault>>
    /\ UNCHANGED <<frames, peer>>

-----------------------------------------------------------------------------
(***************************************************************************)
(* The environment.                                                        *)
(***************************************************************************)
\* Window updates that open a window are bounded by the credit they build up,
\* any other frame by the number of them.
Opens(f) ==
    /\ f.type = "WINDOW_UPDATE"
    /\ f.stream \in Live \cup {0}
    /\ f.size + (IF f.stream = 0 THEN sendWindow
                 ELSE stream[f.stream].sendWindow) <= MaxWindow
Credited(f) ==
    f.size + (IF f.stream = 0 THEN peer.connGranted
              ELSE peer.granted[f.stream]) <= MaxGrant

Deliver(batch) ==
    LET counted == {i \in 1..Len(batch) : ~Opens(batch[i])}
    IN  /\ open /\ work = <<>>
        /\ frames + Cardinality(counted) <= MaxFrames
        /\ \A i \in 1..Len(batch) : Opens(batch[i]) => Credited(batch[i])
        /\ buffer' = buffer \o batch
        /\ frames' = frames + Cardinality(counted)
        /\ work' = <<Do("frames", 0)>>
        /\ UNCHANGED <<open, table, stream, tree, ids, windows, goaway,
                       assembly, lock, queue, fault, peer>>

Receive == \E n \in 1..MaxBatch : \E batch \in [1..n -> PeerFrames] :
               Deliver(batch)

\* The peer closes the transport.
PeerCloses ==
    /\ open /\ work = <<>>
    /\ CloseSession
    /\ UNCHANGED <<work, fault, frames, peer>>

HandleFrame ==
    \/ HandleViolation \/ HandleOversized \/ RefuseData \/ HandleData
    \/ HandleHeaders \/ RefuseHeaders \/ HandleContinuation \/ HandlePriority
    \/ HandleReset \/ HandleSettings \/ HandlePing \/ HandleGoaway
    \/ HandleWindowUpdate \/ EndFrames \/ WriteGoaway

Server ==
    \/ HandleFrame
    \/ Serve \/ Push \/ Respond
    \/ Schedule \/ Flush \/ EndFlush
    \/ SendChunk \/ Cleanup \/ Release \/ Settle

Next == Server \/ Written \/ Receive \/ PeerCloses

Spec == Init /\ [][Next]_vars

\* The thread runs to the end of its stack, the socket takes what is queued,
\* and the peer gives back the credit that the payload has taken.
FairSpec ==
    /\ Spec
    /\ WF_vars(Server) /\ WF_vars(Written)
    /\ \A f \in PeerFrames :
          f.type = "WINDOW_UPDATE" => WF_vars(Deliver(<<f>>))

-----------------------------------------------------------------------------
(***************************************************************************)
(* Properties.                                                             *)
(***************************************************************************)
\* The session keeps what it promises to its peer: the order of a response on
\* every stream, nothing after its end or after a reset, no payload ahead of
\* the credit of the stream or of the connection (_flush, write_flush,
\* write_end, close_stream).
Contract == INSTANCE Http2Contract WITH
                out <- peer.out, sent <- peer.sent, granted <- peer.granted,
                connSent <- peer.connSent, connGranted <- peer.connGranted
KeepsContract == Contract!Spec

\* The windows of this end are what the peer has granted less what it has been
\* sent, through settings, updates, promises and the closing of streams, so
\* neither end ever disagrees with the other about the credit that is left.
WindowsAgree ==
    /\ sendWindow = peer.connGranted - peer.connSent
    /\ sendWindow >= 0
    /\ \A s \in Live : stream[s].sendWindow = peer.granted[s] - peer.sent[s]

\* The connection never sends more than it was granted.
ConnectionCredit == peer.connSent <= peer.connGranted

\* The table is compact and holds a stream at most once, never more of them
\* than it has slots, and never more promised ones than the peer accepts.
TableIsSound ==
    /\ \A i, j \in 1..Len(table) : table[i] = table[j] => i = j
    /\ Len(table) <= Slots
    /\ Cardinality({s \in Live : s % 2 = 0}) <= PushLimit
    /\ \A s \in StreamId : s \in Live <=> stream[s].state # "CLOSED"

\* A block that is being assembled belongs to a stream that is held, or to one
\* that was refused: the continuation never finds its stream gone.
BlockHasAStream ==
    (open /\ continuation # 0) => continuation \in Live \/ refused = continuation

\* The writes of a response that will run the handler's callback, queued or
\* held back: there is never a second one while the first is outstanding, so
\* the context of the handler is never driven by two completions.
Driving(s) ==
    {<<"queued", i>> : i \in {j \in 1..Len(queue) : queue[j].stream = s /\
                                 queue[j].callback \in {"chunk", "cleanup"}}}
    \cup {<<"held", i>> : i \in 1..Len(stream[s].pending)}
OneCompletionOutstanding ==
    \A s \in Live : Cardinality(Driving(s)) <= 1

\* The fragment that is partly sent still has something left, so that a frame
\* is never repeated and the callback of the fragment is still due.
FragmentsProgress ==
    \A s \in Live : \A i \in 1..Len(stream[s].pending) :
        LET fragment == stream[s].pending[i]
        IN  /\ fragment.offset > 0 => fragment.offset < fragment.size
            /\ i > 1 => fragment.offset = 0

\* A stream only leaves the table of an open session once its response has
\* been queued to the end, or because the peer took it back.
ClosedOnlyWhenOver ==
    [][open' => \A s \in Live \ Live' : peer'.out[s] \in {"ended", "reset"}]_vars

\* A message is handed to its handler with the payload that it has announced,
\* which is what received, announced and content_length are kept for.  The code
\* compares the sizes where a DATA frame ends the message, and not where a block
\* of headers does: the instances have none of those that announces a payload.
ServedAsAnnounced ==
    \A i \in 1..Len(work) :
        work[i].op = "serve" =>
            LET st == stream[work[i].stream]
            IN  st.announced => st.received = st.length

\* While nothing runs, no stream holds back payload that both of its windows
\* and the tree let through: _schedule writes all that may be written.  The code
\* breaks this one (README, divergences).
NothingWritableIsHeld ==
    (open /\ work = <<>> /\ sendWindow > 0) => Writable = {}

\* The reference that _callback keeps to its stream is still good when it is
\* used after the callback of the handler.
NoStaleReference == ~fault

\* The callback of a fragment that has been written in full is driven, unless
\* the peer has taken the stream back.  The code breaks this one (README,
\* divergences).
CallbacksAreDriven ==
    [][(Written /\ Head(queue).callback \in {"chunk", "cleanup"}) =>
          \/ Head(queue).stream \in Live
          \/ peer.out[Head(queue).stream] = "reset"]_vars

\* A connection error always ends the connection: the GOAWAY that tells it gets
\* through the write queue and closes the session, or the session is closed.
ErrorsTearDown == Running("goaway") ~> ~open

\* Every message that is over is answered in full and its stream given up, or
\* the connection is closed.
Answered ==
    \A s \in StreamId :
        (s \in Live /\ stream[s].end /\ stream[s].headersComplete) ~> (~open \/ s \notin Live)

\* The streams of a session, the writes that are outstanding for them and the table
\* that holds them agree, over openings, promises, resets and completions in any
\* order.
StreamsAreSound ==
    TypeOK /\ TableIsSound /\ OneCompletionOutstanding /\ FragmentsProgress

\* A message that comes in pieces, among the frames of others, is of a stream that is
\* held when it is put together, and is served with what it announced.
BlocksAreServed ==
    BlockHasAStream /\ ServedAsAnnounced

\* Whatever is begun is over in the end: a message with its response, an error with the
\* session.
EverythingEnds ==
    Answered /\ ErrorsTearDown
=============================================================================
