------------------------ MODULE Http2Session_proofs ------------------------
(***************************************************************************)
(* Proofs about Http2Session for every value of its constants.             *)
(***************************************************************************)
EXTENDS Http2Session, FiniteSetTheorems, TLAPS

\* A stream that has been opened or promised at some time, last and push being
\* the identifiers in use on each side.
UsedBy(s, last, push) == IF s % 2 = 0 THEN s <= push ELSE s <= last
Used(s) == UsedBy(s, lastStreamId, pushStreamId)

\* No more of a fragment has been sent than it holds.
Fit(st) == \A i \in 1..Len(st.pending) : st.pending[i].offset <= st.pending[i].size
FragmentsFit == \A s \in StreamId : Fit(stream[s])

NoDuplicates ==
    \A i, j \in 1..Len(table) : table[i] = table[j] => i = j

\* The calls that are about a stream.
StreamOp == {"serve", "push", "respond", "flush", "callback", "release",
             "settle"}

\* Only streams that have been opened are held, and only those are worked on.
TableUsed(ids_, last, push) == \A i \in 1..Len(ids_) : UsedBy(ids_[i], last, push)
LiveUsed == TableUsed(table, lastStreamId, pushStreamId)

CallsUsed(calls, last, push) ==
    \A i \in 1..Len(calls) : calls[i].op \in StreamOp =>
        calls[i].stream \in StreamId /\ UsedBy(calls[i].stream, last, push)
WorkUsed == CallsUsed(work, lastStreamId, pushStreamId)

\* Nothing has been sent on a stream that was never opened.
Unsent == \A s \in StreamId : ~Used(s) => peer.sent[s] = 0

\* The promised identifiers are even, so the next of them is a new one.
PushEven == pushStreamId % 2 = 0

\* The inductive invariant.
IInv ==
    /\ TypeOK
    /\ FragmentsFit
    /\ NoDuplicates
    /\ LiveUsed
    /\ WorkUsed
    /\ Unsent
    /\ PushEven
    /\ WindowsAgree

-----------------------------------------------------------------------------
(***************************************************************************)
(* The types of the values that the actions build.                         *)
(***************************************************************************)
\* A stream just opened (open_stream_http2_connection, push) is a well formed stream.
LEMMA FreshType ==
    ASSUME NEW state \in StreamState, NEW window \in Int
    PROVE  Fresh(state, window) \in Stream
BY WindowAssumption DEF Fresh, Stream, StreamState

\* A pending call of a handler or of the session is well formed.
LEMMA DoType ==
    ASSUME NEW op \in {"frames", "goaway", "serve", "push", "respond",
                       "schedule", "flush", "callback", "release", "settle"},
           NEW s \in StreamId \cup {0}
    PROVE  Do(op, s) \in Call
BY DEF Do, Call, Callback

\* A control frame written by the session is a well formed entry of the queue.
LEMMA PlainType ==
    ASSUME NEW type \in FrameType \cup {"PUSH_PROMISE"},
           NEW s \in StreamId \cup {0}
    PROVE  Plain(type, s) \in Item
BY DEF Plain, Item, Callback

\* Writing the head of a response (write_flush_http2) leaves the stream well formed
\* and its fragments alone.
LEMMA AfterHeadType ==
    ASSUME NEW st \in Stream
    PROVE  /\ AfterHead(st) \in Stream
           /\ AfterHead(st).pending = st.pending
           /\ AfterHead(st).sendWindow = st.sendWindow
BY DEF AfterHead, Stream, StreamState

\* Marking a response as complete (write_end_http2) leaves the fragments alone.
LEMMA CompletedType ==
    ASSUME NEW st \in Stream
    PROVE  /\ Completed(st) \in Stream
           /\ Completed(st).pending = st.pending
           /\ Completed(st).sendWindow = st.sendWindow
BY DEF Completed, Stream, StreamState

\* Charging or topping up the receive window of a stream leaves its fragments alone.
LEMMA ChargedType ==
    ASSUME NEW st \in Stream, NEW w \in Int
    PROVE  /\ [st EXCEPT !.receiveWindow = w] \in Stream
           /\ [st EXCEPT !.receiveWindow = w].pending = st.pending
           /\ [st EXCEPT !.receiveWindow = w].sendWindow = st.sendWindow
BY DEF Stream

\* Ending the message of a stream (END_STREAM) leaves its fragments alone.
LEMMA EndedType ==
    ASSUME NEW st \in Stream, NEW e \in BOOLEAN, NEW x \in StreamState
    PROVE  /\ [st EXCEPT !.end = e, !.state = x] \in Stream
           /\ [st EXCEPT !.end = e, !.state = x].pending = st.pending
           /\ [st EXCEPT !.end = e, !.state = x].sendWindow = st.sendWindow
BY DEF Stream

\* Keeping what the headers of a request announce leaves the fragments alone.
LEMMA HeadersType ==
    ASSUME NEW st \in Stream, NEW a \in BOOLEAN, NEW n \in Nat
    PROVE  LET new == [st EXCEPT !.headersComplete = TRUE, !.announced = a,
                                 !.length = n]
           IN  /\ new \in Stream
               /\ new.pending = st.pending
               /\ new.sendWindow = st.sendWindow
BY DEF Stream

\* A chunk of a response (write_chunk_http2) is a well formed fragment, of which
\* nothing has been sent.
LEMMA ChunkType ==
    ASSUME NEW size \in Nat, NEW last \in BOOLEAN, NEW callback \in Callback
    PROVE  /\ Chunk(size, last, callback) \in Fragment
           /\ Chunk(size, last, callback).offset <= Chunk(size, last, callback).size
BY DEF Chunk, Fragment

\* The HEADERS of a response is a well formed entry of the queue.
LEMMA HeadOfType ==
    ASSUME NEW s \in StreamId, NEW end \in BOOLEAN, NEW callback \in Callback
    PROVE  HeadOf(s, end, callback) \in Item
BY DEF HeadOf, Plain, Item, FrameType

\* Prioritising a stream gives every stream a stream, or the root, to depend on.
LEMMA PrioritiseType ==
    ASSUME NEW dep \in [StreamId -> StreamId \cup {0}], NEW live,
           NEW s \in StreamId, NEW d \in StreamId \cup {0},
           NEW exclusive \in BOOLEAN
    PROVE  Prioritise(dep, live, s, d, exclusive) \in [StreamId -> StreamId \cup {0}]
<1> DEFINE lifted == IF Descends(dep, live, d, s)
                     THEN [dep EXCEPT ![d] = dep[s]] ELSE dep
           adopted == {x \in live \ {s} : exclusive /\ lifted[x] = d}
<1>1. lifted \in [StreamId -> StreamId \cup {0}]
  OBVIOUS
<1>2. Prioritise(dep, live, s, d, exclusive)
        = [x \in DOMAIN dep |-> IF x = s THEN d
                                ELSE IF x \in adopted THEN s ELSE lifted[x]]
  BY DEF Prioritise
<1> HIDE DEF lifted, adopted
<1> QED
  BY <1>1, <1>2

\* Closing a stream gives every stream a stream, or the root, to depend on.
LEMMA OrphanedType ==
    ASSUME NEW dep \in [StreamId -> StreamId \cup {0}], NEW live,
           NEW s \in StreamId
    PROVE  Orphaned(dep, live, s) \in [StreamId -> StreamId \cup {0}]
BY DEF Orphaned

\* Calls put in front of others.
LEMMA CallsConcat ==
    ASSUME NEW a \in Seq(Call), NEW b \in Seq(Call), NEW last, NEW push,
           CallsUsed(a, last, push), CallsUsed(b, last, push)
    PROVE  a \o b \in Seq(Call) /\ CallsUsed(a \o b, last, push)
BY DEF CallsUsed

\* Returning from a call leaves calls about known streams.
LEMMA CallsTail ==
    ASSUME NEW a \in Seq(Call), a # <<>>, NEW last, NEW push,
           CallsUsed(a, last, push)
    PROVE  Tail(a) \in Seq(Call) /\ CallsUsed(Tail(a), last, push)
BY DEF CallsUsed

\* What the frame that is taken out of the buffer is.
LEMMA TakingType ==
    ASSUME TypeOK, buffer # <<>>
    PROVE  /\ Head(buffer) \in PeerFrames
           /\ Head(buffer) \in Frame
           /\ Head(buffer).stream \in StreamId \cup {0}
           /\ Head(buffer).dependency \in StreamId \cup {0}
           /\ Tail(buffer) \in Seq(PeerFrames)
<1>1. buffer \in Seq(PeerFrames)
  BY DEF TypeOK
<1>2. Head(buffer) \in PeerFrames /\ Tail(buffer) \in Seq(PeerFrames)
  BY <1>1
<1> QED
  BY <1>2, FrameAssumption

\* What the call that is being executed is.
LEMMA TopType ==
    ASSUME IInv, work # <<>>
    PROVE  /\ Top \in Call
           /\ Top.op \in StreamOp => Top.stream \in StreamId /\ Used(Top.stream)
           /\ Tail(work) \in Seq(Call)
           /\ CallsUsed(Tail(work), lastStreamId, pushStreamId)
<1>1. work \in Seq(Call) /\ WorkUsed
  BY DEF IInv, TypeOK
<1>2. Top = work[1] /\ 1 \in 1..Len(work)
  BY <1>1 DEF Top
<1> QED
  BY <1>1, <1>2, CallsTail DEF WorkUsed, CallsUsed, Used

\* The table only holds streams.
LEMMA LiveType == TypeOK => Live \subseteq StreamId
BY DEF TypeOK, Live

\* Two frames written one after the other leave the queue well formed.
LEMMA TwoItems ==
    ASSUME NEW q \in Seq(Item), NEW a \in Item, NEW b \in Item
    PROVE  q \o <<a, b>> \in Seq(Item)
OBVIOUS

\* The invariant holds of a connection that has just been created
\* (create_http2_connection).
LEMMA InitIInv == Init => IInv
<1> SUFFICES ASSUME Init PROVE IInv
  OBVIOUS
<1>1. TypeOK
  <2>1. stream \in [StreamId -> Stream]
    BY FreshType DEF Init, Unused, StreamState
  <2>2. peer \in Peer
    BY WindowAssumption DEF Init, Peer
  <2>3. block \in Block
    BY DEF Init, Block, NoBlock
  <2>4. /\ table \in Seq(StreamId)
        /\ buffer \in Seq(PeerFrames)
        /\ queue \in Seq(Item)
        /\ work \in Seq(Call)
    BY DEF Init
  <2>5. open \in BOOLEAN /\ goaway \in BOOLEAN /\ lock \in BOOLEAN /\ fault \in BOOLEAN
    BY DEF Init
  <2>6. /\ dependency \in [StreamId -> StreamId \cup {0}]
        /\ weight \in [StreamId -> Nat]
    BY DEF Init
  <2>7. /\ initialWindow \in Nat /\ sendWindow \in Int /\ receiveWindow \in Int
    BY WindowAssumption DEF Init
  <2>8. /\ lastStreamId \in StreamId \cup {0}
        /\ pushStreamId \in Nat
        /\ continuation \in StreamId \cup {0}
        /\ refused \in StreamId \cup {0}
        /\ frames \in Nat
    BY DEF Init
  <2> QED
    BY <2>1, <2>2, <2>3, <2>4, <2>5, <2>6, <2>7, <2>8 DEF TypeOK
<1>2. FragmentsFit
  BY DEF Init, FragmentsFit, Fit, Unused, Fresh
<1>3. WindowsAgree
  BY WindowAssumption DEF Init, WindowsAgree, Live
<1> QED
  BY <1>1, <1>2, <1>3
     DEF Init, IInv, NoDuplicates, LiveUsed, TableUsed, WorkUsed, CallsUsed,
         Unsent, PushEven

-----------------------------------------------------------------------------
(***************************************************************************)
(* The steps.  Most of them leave the windows of this end, the credit and  *)
(* the table alone, what they have to show is their types, that no more of *)
(* a fragment is sent, and that their calls are about known streams.       *)
(***************************************************************************)
\* A step that opens no stream and moves no window keeps the invariant when the
\* fragments it leaves fit, are still unsent by their windows and the calls it
\* leaves are about known streams: most handlers are such a step.
LEMMA CalmStep ==
    ASSUME IInv, TypeOK', WorkUsed',
           UNCHANGED <<table, lastStreamId, pushStreamId, sendWindow>>,
           \A s \in StreamId : /\ Fit(stream'[s])
                               /\ stream'[s].sendWindow = stream[s].sendWindow,
           peer'.sent = peer.sent, peer'.granted = peer.granted,
           peer'.connSent = peer.connSent, peer'.connGranted = peer.connGranted
    PROVE  IInv'
<1>1. FragmentsFit'
  BY DEF FragmentsFit
<1>2. NoDuplicates' /\ LiveUsed' /\ PushEven' /\ Unsent'
  BY DEF IInv, NoDuplicates, LiveUsed, PushEven, Unsent, Used
<1>3. Live' = Live /\ Live \subseteq StreamId
  BY LiveType DEF Live, IInv
<1>4. WindowsAgree'
  BY <1>3 DEF IInv, WindowsAgree
<1> QED
  BY <1>1, <1>2, <1>4 DEF IInv

\* The connection is closed: nothing is held any more.
LEMMA CloseSessionStep ==
    ASSUME IInv, CloseSession, WorkUsed', work' \in Seq(Call),
           fault' \in BOOLEAN, UNCHANGED <<frames, peer>>
    PROVE  IInv'
<1>1. stream' \in [StreamId -> Stream]
  BY FreshType DEF CloseSession, Unused, StreamState
<1>2. TypeOK'
  <2>1. /\ table' \in Seq(StreamId)
        /\ buffer' \in Seq(PeerFrames)
        /\ queue' \in Seq(Item)
    BY DEF CloseSession
  <2>2. /\ dependency' \in [StreamId -> StreamId \cup {0}]
        /\ weight' \in [StreamId -> Nat]
        /\ open' \in BOOLEAN
    BY DEF CloseSession
  <2>3. UNCHANGED <<lastStreamId, pushStreamId, sendWindow, receiveWindow,
                    initialWindow, goaway, continuation, refused, block, lock>>
    BY DEF CloseSession, ids, windows, assembly
  <2> QED
    BY <1>1, <2>1, <2>2, <2>3 DEF IInv, TypeOK
<1>3. FragmentsFit'
  BY DEF CloseSession, FragmentsFit, Fit, Unused, Fresh
<1>4. NoDuplicates' /\ LiveUsed'
  BY DEF CloseSession, NoDuplicates, LiveUsed, TableUsed
<1>5. Unsent' /\ PushEven'
  BY DEF IInv, CloseSession, Unsent, PushEven, Used, ids
<1>6. WindowsAgree'
  BY DEF IInv, CloseSession, WindowsAgree, Live, windows
<1> QED
  BY <1>2, <1>3, <1>4, <1>5, <1>6 DEF IInv

\* A stream is closed: the others keep what they had, and one of them moves
\* into the slot that it leaves.
LEMMA CloseStreamStep ==
    ASSUME IInv, NEW s \in Live, CloseStream(s), WorkUsed', TypeOK',
           UNCHANGED <<lastStreamId, pushStreamId, sendWindow>>,
           peer'.sent = peer.sent, peer'.granted = peer.granted,
           peer'.connSent = peer.connSent, peer'.connGranted = peer.connGranted
    PROVE  IInv'
<1> DEFINE n == Len(table)
<1>1. table \in Seq(StreamId) /\ stream \in [StreamId -> Stream] /\ s \in StreamId
  BY LiveType DEF IInv, TypeOK
<1>2. n \in Nat /\ n >= 1 /\ Slot(s) \in 1..n /\ table[Slot(s)] = s
  <2>1. \E i \in 1..Len(table) : table[i] = s
    BY DEF Live
  <2> QED
    BY <1>1, <2>1 DEF Slot
<1>3. /\ Len(table') = n - 1
      /\ \A i \in 1..(n - 1) : table'[i] = IF i = Slot(s) THEN table[n] ELSE table[i]
  BY <1>1, <1>2 DEF CloseStream
<1>4. \A i \in 1..(n - 1) : /\ table'[i] # s
                            /\ table'[i] \in Live
                            /\ UsedBy(table'[i], lastStreamId, pushStreamId)
  BY <1>1, <1>2, <1>3 DEF IInv, NoDuplicates, LiveUsed, TableUsed, Live
<1>5. NoDuplicates'
  BY <1>1, <1>2, <1>3 DEF IInv, NoDuplicates
<1>6. LiveUsed'
  BY <1>3, <1>4 DEF LiveUsed, TableUsed
<1>7. Live' \subseteq Live \ {s}
  BY <1>3, <1>4 DEF Live
<1>8. FragmentsFit'
  BY <1>1 DEF IInv, CloseStream, FragmentsFit, Fit, Unused, Fresh
<1>9. WindowsAgree'
  BY <1>1, <1>7, LiveType DEF IInv, CloseStream, WindowsAgree
<1>10. Unsent' /\ PushEven'
  BY DEF IInv, Unsent, PushEven, Used
<1> QED
  BY <1>5, <1>6, <1>8, <1>9, <1>10 DEF IInv

\* The table that is left is one of the streams.
LEMMA CloseStreamType ==
    ASSUME TypeOK, NEW s \in Live, CloseStream(s)
    PROVE  /\ table' \in Seq(StreamId)
           /\ stream' \in [StreamId -> Stream]
           /\ dependency' \in [StreamId -> StreamId \cup {0}]
           /\ weight' \in [StreamId -> Nat]
<1>1. s \in StreamId /\ table \in Seq(StreamId)
  BY LiveType DEF TypeOK
<1>2. Len(table) \in Nat /\ Len(table) >= 1
  BY <1>1 DEF Live
<1>3. table' \in Seq(StreamId)
  BY <1>1, <1>2 DEF CloseStream
<1>4. Unused \in Stream
  BY FreshType DEF Unused, StreamState
<1> QED
  BY <1>1, <1>3, <1>4, OrphanedType DEF CloseStream, TypeOK

\* The calls that a step puts on the stack.
LEMMA OneCall ==
    ASSUME NEW c \in Call, NEW last, NEW push,
           c.op \in StreamOp => c.stream \in StreamId /\ UsedBy(c.stream, last, push)
    PROVE  <<c>> \in Seq(Call) /\ CallsUsed(<<c>>, last, push)
BY DEF CallsUsed

\* A call of the session itself is about no stream.
LEMMA DoCall ==
    ASSUME NEW op \in {"frames", "goaway", "schedule"}, NEW last, NEW push
    PROVE  <<Do(op, 0)>> \in Seq(Call) /\ CallsUsed(<<Do(op, 0)>>, last, push)
<1>1. Do(op, 0) \in Call
  BY DoType
<1>2. Do(op, 0).op = op /\ op \notin StreamOp
  BY DEF Do, StreamOp
<1> QED
  BY <1>1, <1>2, OneCall

\* A call about a stream is about one that has been in use.
LEMMA StreamCall ==
    ASSUME NEW op \in StreamOp, NEW s \in StreamId, NEW last, NEW push,
           UsedBy(s, last, push)
    PROVE  <<Do(op, s)>> \in Seq(Call) /\ CallsUsed(<<Do(op, s)>>, last, push)
<1>1. Do(op, s) \in Call
  BY DoType DEF StreamOp
<1>2. Do(op, s).op = op /\ Do(op, s).stream = s
  BY DEF Do
<1> QED
  BY <1>1, <1>2, OneCall

\* Returning from the last call leaves no call.
LEMMA NoCall ==
    ASSUME NEW last, NEW push
    PROVE  <<>> \in Seq(Call) /\ CallsUsed(<<>>, last, push)
BY DEF CallsUsed

\* Replacing the call that is executed by others keeps the stack well formed.
LEMMA BecomesType ==
    ASSUME IInv, work # <<>>, NEW calls \in Seq(Call),
           CallsUsed(calls, lastStreamId, pushStreamId), Becomes(calls)
    PROVE  work' \in Seq(Call) /\ CallsUsed(work', lastStreamId, pushStreamId)
BY TopType, CallsConcat DEF Becomes

\* Putting calls on top of the one being executed keeps the stack well formed.
LEMMA CallsType ==
    ASSUME IInv, NEW calls \in Seq(Call),
           CallsUsed(calls, lastStreamId, pushStreamId), Calls(calls)
    PROVE  work' \in Seq(Call) /\ CallsUsed(work', lastStreamId, pushStreamId)
BY CallsConcat DEF Calls, IInv, TypeOK, WorkUsed

\* Returning from the call that is executed keeps the stack well formed.
LEMMA ReturnType ==
    ASSUME IInv, work # <<>>, Return
    PROVE  work' \in Seq(Call) /\ CallsUsed(work', lastStreamId, pushStreamId)
BY TopType DEF Return

\* An error of the connection leaves its GOAWAY to be written.
LEMMA ErrorType ==
    ASSUME IInv, work # <<>>, ConnectionError
    PROVE  work' \in Seq(Call) /\ CallsUsed(work', lastStreamId, pushStreamId)
BY BecomesType, DoCall DEF ConnectionError

\* A frame that breaks the protocol keeps the invariant (data_handler_stream_http2).
LEMMA HandleViolationStep ==
    ASSUME IInv, HandleViolation
    PROVE  IInv'
<1>1. work # <<>> /\ buffer # <<>> /\ buffer' = Tail(buffer)
  BY DEF HandleViolation, Taking, Running
<1>2. work' \in Seq(Call) /\ CallsUsed(work', lastStreamId, pushStreamId)
  BY <1>1, ErrorType DEF HandleViolation
<1>3. TypeOK'
  BY <1>1, <1>2, TakingType
     DEF IInv, TypeOK, HandleViolation, tree, ids, windows, assembly
<1>4. WorkUsed'
  BY <1>2 DEF HandleViolation, WorkUsed, ids
<1> QED
  BY <1>3, <1>4, CalmStep
     DEF HandleViolation, IInv, FragmentsFit, ids, windows

\* A frame that is too large keeps the invariant (data_handler_stream_http2).
LEMMA HandleOversizedStep ==
    ASSUME IInv, HandleOversized
    PROVE  IInv'
<1>1. work # <<>>
  BY DEF HandleOversized, Running
<1>2. work' \in Seq(Call) /\ CallsUsed(work', lastStreamId, pushStreamId)
  BY <1>1, ErrorType DEF HandleOversized
<1>3. TypeOK'
  BY <1>2 DEF IInv, TypeOK, HandleOversized, tree, ids, windows, assembly
<1>4. WorkUsed'
  BY <1>2 DEF HandleOversized, WorkUsed, ids
<1> QED
  BY <1>3, <1>4, CalmStep
     DEF HandleOversized, IInv, FragmentsFit, ids, windows

\* A DATA frame that is refused, its credit given back, keeps the invariant.
LEMMA RefuseDataStep ==
    ASSUME IInv, RefuseData
    PROVE  IInv'
<1> DEFINE f == Head(buffer)
<1>1. work # <<>> /\ buffer # <<>> /\ buffer' = Tail(buffer)
  BY DEF RefuseData, Taking, Running
<1>2. work' \in Seq(Call) /\ CallsUsed(work', lastStreamId, pushStreamId)
  BY <1>1, ErrorType DEF RefuseData
<1>3. f \in Frame /\ f.size \in Nat /\ buffer' \in Seq(PeerFrames)
  BY <1>1, TakingType DEF IInv, Frame
<1>4. \/ stream' = stream
      \/ stream' = [stream EXCEPT ![f.stream].receiveWindow = @ - f.size]
  BY DEF RefuseData
<1>5. stream \in [StreamId -> Stream]
  BY DEF IInv, TypeOK
<1>6. /\ stream' \in [StreamId -> Stream]
      /\ \A s \in StreamId : /\ stream'[s].pending = stream[s].pending
                             /\ stream'[s].sendWindow = stream[s].sendWindow
  <2>1. f.stream \in StreamId
    BY <1>1, TakingType, FrameAssumption DEF IInv, RefuseData, Taking
  <2> HIDE DEF f
  <2>2. ASSUME NEW st \in Stream
        PROVE  /\ [st EXCEPT !.receiveWindow = @ - f.size] \in Stream
               /\ [st EXCEPT !.receiveWindow = @ - f.size].pending = st.pending
               /\ [st EXCEPT !.receiveWindow = @ - f.size].sendWindow = st.sendWindow
    <3>1. st.receiveWindow - f.size \in Int
      BY <1>3 DEF Stream
    <3> QED
      BY <3>1, ChargedType
  <2> QED
    BY <1>4, <1>5, <2>1, <2>2, ZenonT(30)
<1>7. TypeOK'
  BY <1>2, <1>3, <1>6, SMTT(20)
     DEF IInv, TypeOK, RefuseData, tree, ids, windows, assembly
<1>8. WorkUsed'
  BY <1>2 DEF RefuseData, WorkUsed, ids
<1> QED
  BY <1>6, <1>7, <1>8, CalmStep
     DEF RefuseData, IInv, FragmentsFit, Fit, ids, windows

\* Every stream of the table has been used by its side of the connection.
LEMMA LiveIsUsed ==
    ASSUME IInv, NEW s \in Live
    PROVE  s \in StreamId /\ Used(s)
BY LiveType DEF IInv, LiveUsed, TableUsed, Used, Live

\* A DATA frame that is taken keeps the invariant: only the receive side moves.
LEMMA HandleDataStep ==
    ASSUME IInv, HandleData
    PROVE  IInv'
<1> DEFINE f == Head(buffer)
           s == f.stream
<1>1. work # <<>> /\ buffer # <<>> /\ buffer' = Tail(buffer) /\ f.type = "DATA"
  BY DEF HandleData, Taking, Running
<1>2. f \in Frame /\ s \in StreamId /\ Tail(buffer) \in Seq(PeerFrames)
  BY <1>1, TakingType, FrameAssumption DEF IInv
<1>3. s \in Live
  BY <1>1, <1>2, StreamIdAssumption
     DEF HandleData, StreamTakes, Allowed, State, Frame
<1>4. stream[s] \in Stream /\ stream \in [StreamId -> Stream]
  BY <1>2 DEF IInv, TypeOK
<1>5. \E received \in Nat, e \in BOOLEAN, x \in StreamState :
         stream' = [stream EXCEPT ![s] = [stream[s] EXCEPT
                       !.received = received, !.end = e, !.state = x]]
  <2> DEFINE received == stream[s].received + f.size
             e == stream[s].end \/ f.end
             x == IF f.end THEN "HALF_CLOSED_REMOTE" ELSE stream[s].state
  <2>1. received \in Nat /\ e \in BOOLEAN /\ x \in StreamState
    BY <1>2, <1>4, SMTT(20) DEF Frame, Stream, StreamState
  <2>2. stream' = [stream EXCEPT ![s] = [stream[s] EXCEPT
                      !.received = received, !.end = e, !.state = x]]
    BY DEF HandleData
  <2> HIDE DEF received, e, x
  <2> QED
    BY <2>1, <2>2
<1>6. \E new \in Stream : /\ stream' = [stream EXCEPT ![s] = new]
                          /\ new.pending = stream[s].pending
                          /\ new.sendWindow = stream[s].sendWindow
  <2>1. PICK received \in Nat, e \in BOOLEAN, x \in StreamState :
           stream' = [stream EXCEPT ![s] = [stream[s] EXCEPT
                         !.received = received, !.end = e, !.state = x]]
    BY <1>5
  <2> HIDE DEF s
  <2>2. PICK st \in Stream : st = stream[s]
    BY <1>4
  <2> DEFINE new == [st EXCEPT !.received = received, !.end = e, !.state = x]
  <2>3. new \in Stream /\ new.pending = st.pending /\ new.sendWindow = st.sendWindow
    BY DEF Stream
  <2>4. stream' = [stream EXCEPT ![s] = new]
    BY <2>1, <2>2
  <2> HIDE DEF new
  <2> QED
    BY <2>2, <2>3, <2>4
<1>7. /\ stream' \in [StreamId -> Stream]
      /\ \A t \in StreamId : /\ stream'[t].pending = stream[t].pending
                             /\ stream'[t].sendWindow = stream[t].sendWindow
  <2> HIDE DEF s
  <2> QED
    BY <1>2, <1>4, <1>6
<1>8. queue' \in Seq(Item)
  <2>1. Plain("WINDOW_UPDATE", 0) \in Item /\ Plain("WINDOW_UPDATE", s) \in Item
    BY <1>2, PlainType DEF FrameType
  <2>2. queue \in Seq(Item)
    BY DEF IInv, TypeOK
  <2>3. \/ queue' = queue
        \/ queue' = queue \o <<Plain("WINDOW_UPDATE", 0), Plain("WINDOW_UPDATE", s)>>
    BY DEF HandleData
  <2> HIDE DEF s
  <2> QED
    BY <2>1, <2>2, <2>3, TwoItems
<1>9. work' \in Seq(Call) /\ CallsUsed(work', lastStreamId, pushStreamId)
  <2>1. ConnectionError \/ Calls(<<Do("serve", s)>>) \/ Calls(<<>>)
    BY DEF HandleData
  <2>2. Used(s)
    BY <1>3, LiveIsUsed
  <2> HIDE DEF s
  <2> QED
    BY <1>1, <1>2, <2>1, <2>2, ErrorType, CallsType, StreamCall, NoCall
       DEF StreamOp, Used
<1>10. TypeOK'
  BY <1>1, <1>2, <1>7, <1>8, <1>9
     DEF IInv, TypeOK, HandleData, tree, ids, windows, assembly
<1>11. WorkUsed'
  BY <1>9 DEF HandleData, WorkUsed, ids
<1> QED
  BY <1>7, <1>10, <1>11, CalmStep
     DEF HandleData, IInv, FragmentsFit, Fit, ids, windows

\* The end of a header block.
LEMMA EndBlockType ==
    ASSUME IInv, work # <<>>, NEW s \in StreamId, NEW st \in Stream,
           NEW b \in Block, NEW last, NEW push,
           CallsUsed(work, last, push), UsedBy(s, last, push), EndBlock(s, st, b)
    PROVE  /\ block' \in Block /\ continuation' = 0 /\ refused' = 0
           /\ \E new \in Stream : /\ stream' = [stream EXCEPT ![s] = new]
                                  /\ new.pending = st.pending
                                  /\ new.sendWindow = st.sendWindow
           /\ work' \in Seq(Call) /\ CallsUsed(work', last, push)
<1>1. block' \in Block /\ continuation' = 0 /\ refused' = 0
  BY DEF EndBlock, Block, NoBlock
<1>2. \E new \in Stream : /\ stream' = [stream EXCEPT ![s] = new]
                          /\ new.pending = st.pending
                          /\ new.sendWindow = st.sendWindow
  <2> DEFINE a == st.announced \/ b.announced
             n == IF b.announced THEN b.size ELSE st.length
             new == [st EXCEPT !.headersComplete = TRUE, !.announced = a,
                               !.length = n]
  <2>1. a \in BOOLEAN /\ n \in Nat
    BY DEF Stream, Block
  <2>2. stream' = [stream EXCEPT ![s] = IF ~b.valid THEN st ELSE new]
    BY DEF EndBlock
  <2> HIDE DEF a, n
  <2>3. new \in Stream /\ new.pending = st.pending /\ new.sendWindow = st.sendWindow
    BY <2>1, HeadersType
  <2> HIDE DEF new
  <2> QED
    BY <2>2, <2>3
<1>3. work' \in Seq(Call) /\ CallsUsed(work', last, push)
  <2>1. work \in Seq(Call)
    BY DEF IInv, TypeOK
  <2>2. Tail(work) \in Seq(Call) /\ CallsUsed(Tail(work), last, push)
    BY <2>1, CallsTail
  <2>3. \/ work' = <<Do("goaway", 0)>> \o Tail(work)
        \/ work' = <<Do("serve", s)>> \o work
        \/ work' = <<>> \o work
    BY DEF EndBlock, ConnectionError, Becomes, Calls
  <2> QED
    <3>1. <<Do("goaway", 0)>> \in Seq(Call) /\ CallsUsed(<<Do("goaway", 0)>>, last, push)
      BY DoCall
    <3>2. <<Do("serve", s)>> \in Seq(Call) /\ CallsUsed(<<Do("serve", s)>>, last, push)
      BY StreamCall DEF StreamOp
    <3>3. <<>> \in Seq(Call) /\ CallsUsed(<<>>, last, push)
      BY NoCall
    <3>4. CASE work' = <<Do("goaway", 0)>> \o Tail(work)
      BY <2>2, <3>1, <3>4, CallsConcat
    <3>5. CASE work' = <<Do("serve", s)>> \o work
      BY <2>1, <3>2, <3>5, CallsConcat
    <3>6. CASE work' = <<>> \o work
      BY <2>1, <3>3, <3>6, CallsConcat
    <3> QED
      BY <2>3, <3>4, <3>5, <3>6
<1> QED
  BY <1>1, <1>2, <1>3

\* A part of a header block leaves the block being gathered well formed.
LEMMA GatheredType ==
    ASSUME NEW f \in Frame, block \in Block
    PROVE  Gathered(f) \in Block
BY DEF Gathered, Block, Frame

\* A stream with no fragment fits: nothing of it can have been sent.
LEMMA EmptyFit == \A st : st.pending = <<>> => Fit(st)
BY DEF Fit

\* A stream is put in the table, or one that is there already goes on.
LEMMA HandleHeadersStep ==
    ASSUME IInv, HandleHeaders
    PROVE  IInv'
<1> DEFINE f == Head(buffer)
           s == f.stream
           opens == s \notin Live
           started == IF opens THEN Fresh("OPEN", initialWindow) ELSE stream[s]
           ended == [started EXCEPT
                       !.end = @ \/ f.end,
                       !.state = IF f.end THEN "HALF_CLOSED_REMOTE" ELSE @]
<1>1. work # <<>> /\ buffer # <<>> /\ buffer' = Tail(buffer) /\ f.type = "HEADERS"
  BY DEF HandleHeaders, Taking, Running
<1>2. f \in Frame /\ s \in StreamId /\ Tail(buffer) \in Seq(PeerFrames)
  BY <1>1, TakingType, FrameAssumption DEF IInv
<1>3. f.dependency \in StreamId \cup {0} /\ s \in Nat /\ f.weight \in Nat /\ f.exclusive \in BOOLEAN
  BY <1>1, <1>2, TakingType, StreamIdAssumption DEF IInv, Frame
<1>4. opens => s % 2 # 0 /\ s > lastStreamId
  BY <1>1, <1>3, StreamIdAssumption DEF HandleHeaders, Violates, IInv, TypeOK
<1>5. /\ opens => lastStreamId' = s /\ table' = Append(table, s)
                  /\ peer' = [peer EXCEPT !.out[s] = "open", !.granted[s] = initialWindow]
      /\ ~opens => UNCHANGED <<table, lastStreamId, peer>>
      /\ UNCHANGED <<pushStreamId, sendWindow, receiveWindow, initialWindow>>
  BY DEF HandleHeaders, windows
<1>6. /\ \A x \in StreamId : Used(x) => Used(x)'
      /\ UsedBy(s, lastStreamId', pushStreamId')
      /\ opens => ~Used(s)
  <2>1. lastStreamId' \in Nat /\ lastStreamId \in Nat /\ lastStreamId' >= lastStreamId
    <3>1. lastStreamId \in Nat
      BY StreamIdAssumption DEF IInv, TypeOK
    <3> HIDE DEF s, opens
    <3> QED
      BY <1>3, <1>4, <1>5, <3>1
  <2>2. StreamId \subseteq Nat
    BY StreamIdAssumption
  <2>3. ~opens => Used(s)
    BY LiveIsUsed
  <2> HIDE DEF s
  <2> QED
    BY <1>2, <1>3, <1>4, <1>5, <2>1, <2>2, <2>3 DEF Used, UsedBy
<1>7. started \in Stream /\ (opens => started.pending = <<>> /\ started.sendWindow = initialWindow)
  <2>1. initialWindow \in Nat /\ stream \in [StreamId -> Stream]
    BY DEF IInv, TypeOK
  <2>2. Fresh("OPEN", initialWindow) \in Stream
    BY <2>1, FreshType DEF StreamState
  <2>3. /\ Fresh("OPEN", initialWindow).pending = <<>>
        /\ Fresh("OPEN", initialWindow).sendWindow = initialWindow
    BY DEF Fresh
  <2> HIDE DEF s
  <2> QED
    BY <1>2, <2>1, <2>2, <2>3
<1>8. /\ ended \in Stream
      /\ ended.pending = started.pending
      /\ ended.sendWindow = started.sendWindow
  <2>1. f.end \in BOOLEAN
    BY <1>2 DEF Frame
  <2>2. PICK st \in Stream : st = started
    BY <1>7
  <2> DEFINE e == st.end \/ f.end
             x == IF f.end THEN "HALF_CLOSED_REMOTE" ELSE st.state
             new == [st EXCEPT !.end = e, !.state = x]
  <2>3. e \in BOOLEAN /\ x \in StreamState
    BY <2>1 DEF Stream, StreamState
  <2>4. ended = new
    BY <2>2
  <2> HIDE DEF e, x, started, ended
  <2>5. new \in Stream /\ new.pending = st.pending /\ new.sendWindow = st.sendWindow
    BY <2>3 DEF Stream
  <2> HIDE DEF new
  <2> QED
    BY <2>2, <2>4, <2>5
<1>9. Gathered(f) \in Block
  BY <1>2, GatheredType DEF IInv, TypeOK
<1>10. CallsUsed(work, lastStreamId', pushStreamId')
  BY <1>5, <1>6 DEF IInv, WorkUsed, CallsUsed, Used
<1>11. /\ \E new \in Stream : /\ stream' = [stream EXCEPT ![s] = new]
                              /\ new.pending = started.pending
                              /\ new.sendWindow = started.sendWindow
       /\ work' \in Seq(Call) /\ CallsUsed(work', lastStreamId', pushStreamId')
       /\ block' \in Block
       /\ continuation' \in StreamId \cup {0} /\ refused' \in StreamId \cup {0}
  <2>1. work \in Seq(Call) /\ UsedBy(s, lastStreamId', pushStreamId')
    BY <1>6 DEF IInv, TypeOK
  <2>2. \/ /\ stream' = [stream EXCEPT ![s] = started]
           /\ ConnectionError
           /\ UNCHANGED assembly
        \/ EndBlock(s, ended, Gathered(f))
        \/ KeepBlock(s, ended, Gathered(f))
    BY DEF HandleHeaders
  <2> HIDE DEF started, ended, opens
  <2>3. CASE /\ stream' = [stream EXCEPT ![s] = started]
             /\ ConnectionError
             /\ UNCHANGED assembly
    <3>1. work' \in Seq(Call) /\ CallsUsed(work', lastStreamId', pushStreamId')
      BY <1>1, <1>10, <2>1, <2>3, CallsTail, CallsConcat, DoCall
         DEF ConnectionError, Becomes
    <3> HIDE DEF s
    <3> QED
      BY <1>7, <2>3, <3>1 DEF assembly, IInv, TypeOK
  <2>4. CASE EndBlock(s, ended, Gathered(f))
    <3>1. /\ block' \in Block /\ continuation' = 0 /\ refused' = 0
          /\ \E new \in Stream : /\ stream' = [stream EXCEPT ![s] = new]
                                 /\ new.pending = ended.pending
                                 /\ new.sendWindow = ended.sendWindow
          /\ work' \in Seq(Call) /\ CallsUsed(work', lastStreamId', pushStreamId')
      BY <1>1, <1>2, <1>8, <1>9, <1>10, <2>1, <2>4, EndBlockType
    <3> HIDE DEF s
    <3> QED
      BY <1>8, <3>1
  <2>5. CASE KeepBlock(s, ended, Gathered(f))
    <3> HIDE DEF s
    <3> QED
      BY <1>2, <1>8, <1>9, <1>10, <2>1, <2>5 DEF KeepBlock, IInv, TypeOK
  <2> QED
    BY <2>2, <2>3, <2>4, <2>5
<1>12. PICK new \in Stream : /\ stream' = [stream EXCEPT ![s] = new]
                             /\ new.pending = started.pending
                             /\ new.sendWindow = started.sendWindow
  BY <1>11
<1>13. /\ stream' \in [StreamId -> Stream]
       /\ \A x \in StreamId \ {s} : stream'[x] = stream[x]
       /\ stream'[s] = new
  <2> HIDE DEF s, started
  <2> QED
    BY <1>2, <1>12 DEF IInv, TypeOK
<1>14. /\ table' \in Seq(StreamId)
       /\ Live' = Live \cup {s}
       /\ NoDuplicates'
       /\ LiveUsed'
  <2>1. table \in Seq(StreamId)
    BY DEF IInv, TypeOK
  <2>2. CASE opens
    <3>1. table' = Append(table, s)
      BY <1>5, <2>2
    <3>2. \A i \in 1..Len(table) : table[i] # s
      BY <2>2 DEF Live
    <3> HIDE DEF s
    <3>3. /\ Len(table') = Len(table) + 1
          /\ table'[Len(table) + 1] = s
          /\ \A i \in 1..Len(table) : table'[i] = table[i]
          /\ table' \in Seq(StreamId)
      BY <1>2, <2>1, <3>1
    <3>4. Live' = Live \cup {s}
      BY <2>1, <3>3 DEF Live
    <3>5. NoDuplicates'
      BY <2>1, <3>2, <3>3 DEF IInv, NoDuplicates
    <3>6. LiveUsed'
      <4>1. \A i \in 1..Len(table) : table[i] \in StreamId /\ Used(table[i])
        BY <2>1 DEF IInv, LiveUsed, TableUsed, Used
      <4>2. \A i \in 1..Len(table) : UsedBy(table[i], lastStreamId', pushStreamId')
        BY <1>6, <4>1 DEF Used
      <4> QED
        BY <1>6, <2>1, <3>3, <4>2 DEF LiveUsed, TableUsed
    <3> QED
      BY <3>3, <3>4, <3>5, <3>6
  <2>3. CASE ~opens
    BY <1>5, <2>1, <2>3 DEF Live, IInv, NoDuplicates, LiveUsed, TableUsed
  <2> QED
    BY <2>2, <2>3
<1>15. /\ peer' \in Peer
       /\ \A x \in StreamId \ {s} : /\ peer'.granted[x] = peer.granted[x]
                                    /\ peer'.sent[x] = peer.sent[x]
       /\ peer'.connGranted = peer.connGranted /\ peer'.connSent = peer.connSent
       /\ peer'.sent[s] = peer.sent[s]
       /\ IF opens THEN peer'.granted[s] = initialWindow
                   ELSE peer'.granted[s] = peer.granted[s]
  <2>1. peer \in Peer /\ initialWindow \in Int
    BY DEF IInv, TypeOK
  <2>2. CASE opens
    <3>1. peer' = [peer EXCEPT !.out[s] = "open", !.granted[s] = initialWindow]
      BY <1>5, <2>2
    <3> HIDE DEF s
    <3> QED
      BY <1>2, <2>1, <2>2, <3>1 DEF Peer
  <2>3. CASE ~opens
    BY <1>5, <2>1, <2>3
  <2> QED
    BY <2>2, <2>3
<1>16. WindowsAgree'
  <2>1. CASE opens
    <3>1. peer.sent[s] = 0
      BY <1>2, <1>6, <2>1 DEF IInv, Unsent
    <3>2. stream'[s].sendWindow = initialWindow
      BY <1>7, <1>12, <1>13, <2>1
    <3>3. stream'[s].sendWindow = peer'.granted[s] - peer'.sent[s]
      BY <1>15, <2>1, <3>1, <3>2 DEF IInv, TypeOK
    <3> HIDE DEF s, opens
    <3> QED
      BY <1>5, <1>13, <1>14, <1>15, <3>3, LiveType DEF IInv, WindowsAgree
  <2>2. CASE ~opens
    <3>1. stream'[s].sendWindow = stream[s].sendWindow
      BY <1>12, <1>13, <2>2
    <3> HIDE DEF s
    <3> QED
      BY <1>5, <1>13, <1>14, <1>15, <2>2, <3>1, LiveType DEF IInv, WindowsAgree
  <2> QED
    BY <2>1, <2>2
<1>17. Unsent'
  <2> HIDE DEF s, opens
  <2> QED
    BY <1>2, <1>6, <1>15 DEF IInv, Unsent
<1>18. FragmentsFit'
  <2>1. Fit(started)
    BY <1>2, <1>7, EmptyFit DEF IInv, FragmentsFit
  <2>2. Fit(new)
    BY <1>12, <2>1 DEF Fit
  <2> HIDE DEF s
  <2> QED
    BY <1>13, <2>2 DEF IInv, FragmentsFit
<1>19. dependency' \in [StreamId -> StreamId \cup {0}] /\ weight' \in [StreamId -> Nat]
  <2> DEFINE placed == Prioritise(dependency, Live \cup {s}, s, f.dependency, f.exclusive)
  <2>1. placed \in [StreamId -> StreamId \cup {0}]
    BY <1>2, <1>3, PrioritiseType DEF IInv, TypeOK
  <2>2. \/ dependency' = placed /\ weight' = [weight EXCEPT ![s] = f.weight]
        \/ UNCHANGED tree
    BY DEF HandleHeaders
  <2>3. f.weight \in Nat
    BY <1>3
  <2> HIDE DEF placed, s
  <2> QED
    BY <1>2, <2>1, <2>2, <2>3 DEF IInv, TypeOK, tree
<1>20. TypeOK'
  <2>1. lastStreamId' \in StreamId \cup {0}
    BY <1>2, <1>5 DEF IInv, TypeOK
  <2>2. UNCHANGED <<open, goaway, lock, queue, fault, frames>> /\ buffer' \in Seq(PeerFrames)
    BY <1>1, <1>2 DEF HandleHeaders
  <2> QED
    BY <1>5, <1>11, <1>13, <1>14, <1>15, <1>19, <2>1, <2>2 DEF IInv, TypeOK
<1>21. WorkUsed' /\ PushEven'
  BY <1>5, <1>11 DEF WorkUsed, PushEven, IInv
<1> QED
  BY <1>14, <1>16, <1>17, <1>18, <1>20, <1>21 DEF IInv

\* A HEADERS frame of a stream that is refused keeps the invariant.
LEMMA RefuseHeadersStep ==
    ASSUME IInv, RefuseHeaders
    PROVE  IInv'
<1> DEFINE f == Head(buffer)
<1>1. work # <<>> /\ buffer # <<>> /\ buffer' = Tail(buffer) /\ f.type = "HEADERS"
  BY DEF RefuseHeaders, Taking, Running
<1>2. f \in Frame /\ f.stream \in StreamId /\ Tail(buffer) \in Seq(PeerFrames)
  BY <1>1, TakingType, FrameAssumption DEF IInv
<1>3. work' \in Seq(Call) /\ CallsUsed(work', lastStreamId, pushStreamId)
  <2>1. ConnectionError \/ UNCHANGED work
    BY DEF RefuseHeaders
  <2> QED
    BY <1>1, <2>1, ErrorType DEF IInv, TypeOK, WorkUsed
<1>4. queue' \in Seq(Item)
  <2>1. Plain("RST_STREAM", f.stream) \in Item
    BY <1>2, PlainType DEF FrameType
  <2>2. queue' = Append(queue, Plain("RST_STREAM", f.stream))
    BY DEF RefuseHeaders
  <2> HIDE DEF f
  <2> QED
    BY <2>1, <2>2 DEF IInv, TypeOK
<1>5. /\ block' \in Block
      /\ continuation' \in StreamId \cup {0} /\ refused' \in StreamId \cup {0}
  <2>1. Gathered(f) \in Block /\ NoBlock \in Block
    BY <1>2, GatheredType DEF IInv, TypeOK, Block, NoBlock
  <2> QED
    BY <1>2, <2>1 DEF RefuseHeaders
<1>6. TypeOK'
  BY <1>1, <1>2, <1>3, <1>4, <1>5
     DEF IInv, TypeOK, RefuseHeaders, tree, ids, windows
<1>7. WorkUsed'
  BY <1>3 DEF RefuseHeaders, WorkUsed, ids
<1> QED
  BY <1>6, <1>7, CalmStep
     DEF RefuseHeaders, IInv, FragmentsFit, ids, windows

\* A CONTINUATION, the one that ends its block included, keeps the invariant.
LEMMA HandleContinuationStep ==
    ASSUME IInv, HandleContinuation
    PROVE  IInv'
<1> DEFINE f == Head(buffer)
           s == continuation
<1>1. work # <<>> /\ buffer # <<>> /\ buffer' = Tail(buffer) /\ f.type = "CONTINUATION"
  BY DEF HandleContinuation, Taking, Running
<1>2. f \in Frame /\ Tail(buffer) \in Seq(PeerFrames)
  BY <1>1, TakingType DEF IInv
<1>3. Gathered(f) \in Block /\ NoBlock \in Block
  BY <1>2, GatheredType DEF IInv, TypeOK, Block, NoBlock
<1>4. s # 0 /\ (refused # s => s \in Live)
  BY <1>1 DEF HandleContinuation, Violates
<1>5. stream \in [StreamId -> Stream] /\ work \in Seq(Call)
      /\ CallsUsed(work, lastStreamId, pushStreamId)
  BY DEF IInv, TypeOK, WorkUsed
<1>6. /\ block' \in Block
      /\ continuation' \in StreamId \cup {0} /\ refused' \in StreamId \cup {0}
      /\ work' \in Seq(Call) /\ CallsUsed(work', lastStreamId, pushStreamId)
      /\ \/ stream' = stream
         \/ /\ s \in StreamId
            /\ \E new \in Stream : /\ stream' = [stream EXCEPT ![s] = new]
                                   /\ new.pending = stream[s].pending
                                   /\ new.sendWindow = stream[s].sendWindow
  <2>1. CASE ~f.endHeaders
    BY <1>3, <1>5, <2>1 DEF HandleContinuation, IInv, TypeOK
  <2>2. CASE f.endHeaders /\ refused = s
    <3>1. ConnectionError \/ UNCHANGED work
      BY <2>2 DEF HandleContinuation
    <3> QED
      BY <1>1, <1>3, <1>5, <2>2, <3>1, ErrorType DEF HandleContinuation
  <2>3. CASE f.endHeaders /\ refused # s
    <3>1. s \in StreamId /\ UsedBy(s, lastStreamId, pushStreamId)
      BY <1>4, <2>3, LiveIsUsed DEF Used
    <3>2. stream[s] \in Stream
      BY <1>5, <3>1
    <3>3. EndBlock(s, stream[s], Gathered(f))
      BY <2>3 DEF HandleContinuation
    <3>4. /\ block' \in Block /\ continuation' = 0 /\ refused' = 0
          /\ \E new \in Stream : /\ stream' = [stream EXCEPT ![s] = new]
                                 /\ new.pending = stream[s].pending
                                 /\ new.sendWindow = stream[s].sendWindow
          /\ work' \in Seq(Call) /\ CallsUsed(work', lastStreamId, pushStreamId)
      BY <1>1, <1>3, <1>5, <3>1, <3>2, <3>3, EndBlockType
    <3> QED
      BY <3>1, <3>4
  <2> QED
    BY <2>1, <2>2, <2>3
<1>7. /\ stream' \in [StreamId -> Stream]
      /\ \A x \in StreamId : /\ stream'[x].pending = stream[x].pending
                             /\ stream'[x].sendWindow = stream[x].sendWindow
  BY <1>5, <1>6
<1>8. TypeOK'
  BY <1>1, <1>2, <1>6, <1>7
     DEF IInv, TypeOK, HandleContinuation, tree, ids, windows
<1>9. WorkUsed'
  BY <1>6 DEF HandleContinuation, WorkUsed, ids
<1> QED
  BY <1>7, <1>8, <1>9, CalmStep
     DEF HandleContinuation, IInv, FragmentsFit, Fit, ids, windows

\* A PRIORITY frame keeps the invariant: it moves the tree alone.
LEMMA HandlePriorityStep ==
    ASSUME IInv, HandlePriority
    PROVE  IInv'
<1> DEFINE f == Head(buffer)
           s == f.stream
<1>1. buffer # <<>> /\ buffer' = Tail(buffer) /\ f.type = "PRIORITY"
  BY DEF HandlePriority, Taking
<1>2. /\ s \in StreamId /\ Tail(buffer) \in Seq(PeerFrames)
      /\ f.dependency \in StreamId \cup {0} /\ f.weight \in Nat /\ f.exclusive \in BOOLEAN
  BY <1>1, TakingType, FrameAssumption DEF IInv, Frame
<1>3. dependency' \in [StreamId -> StreamId \cup {0}] /\ weight' \in [StreamId -> Nat]
  <2> DEFINE placed == Prioritise(dependency, Live, s, f.dependency, f.exclusive)
  <2>1. placed \in [StreamId -> StreamId \cup {0}]
    BY <1>2, PrioritiseType DEF IInv, TypeOK
  <2>2. \/ dependency' = placed /\ weight' = [weight EXCEPT ![s] = f.weight]
        \/ UNCHANGED tree
    BY DEF HandlePriority
  <2>3. f.weight \in Nat
    BY <1>2
  <2> HIDE DEF placed, s
  <2> QED
    BY <1>2, <2>1, <2>2, <2>3 DEF IInv, TypeOK, tree
<1>4. TypeOK'
  BY <1>1, <1>2, <1>3
     DEF IInv, TypeOK, HandlePriority, ids, windows, assembly
<1>5. WorkUsed'
  BY DEF IInv, HandlePriority, WorkUsed, ids
<1> QED
  BY <1>4, <1>5, CalmStep
     DEF HandlePriority, IInv, FragmentsFit, ids, windows

\* A PING, answered or not, keeps the invariant.
LEMMA HandlePingStep ==
    ASSUME IInv, HandlePing
    PROVE  IInv'
<1>1. buffer # <<>> /\ buffer' = Tail(buffer)
  BY DEF HandlePing, Taking
<1>2. queue' \in Seq(Item)
  BY PlainType DEF HandlePing, IInv, TypeOK, FrameType
<1>3. TypeOK'
  BY <1>1, <1>2, TakingType
     DEF IInv, TypeOK, HandlePing, tree, ids, windows, assembly
<1>4. WorkUsed'
  BY DEF IInv, HandlePing, WorkUsed, ids
<1> QED
  BY <1>3, <1>4, CalmStep DEF HandlePing, IInv, FragmentsFit, ids, windows

\* A GOAWAY of the peer keeps the invariant.
LEMMA HandleGoawayStep ==
    ASSUME IInv, HandleGoaway
    PROVE  IInv'
<1>1. buffer # <<>> /\ buffer' = Tail(buffer)
  BY DEF HandleGoaway, Taking
<1>2. TypeOK'
  BY <1>1, TakingType
     DEF IInv, TypeOK, HandleGoaway, tree, ids, windows, assembly
<1>3. WorkUsed'
  BY DEF IInv, HandleGoaway, WorkUsed, ids
<1> QED
  BY <1>2, <1>3, CalmStep DEF HandleGoaway, IInv, FragmentsFit, ids, windows

\* The end of the buffer keeps the invariant, the scheduling still to come.
LEMMA EndFramesStep ==
    ASSUME IInv, EndFrames
    PROVE  IInv'
<1>1. work' \in Seq(Call) /\ CallsUsed(work', lastStreamId, pushStreamId)
  BY ReturnType DEF EndFrames, Running
<1>2. TypeOK'
  BY <1>1 DEF IInv, TypeOK, EndFrames, tree, ids, windows, assembly
<1>3. WorkUsed'
  BY <1>1 DEF EndFrames, WorkUsed, ids
<1> QED
  BY <1>2, <1>3, CalmStep DEF EndFrames, IInv, FragmentsFit, ids, windows

\* The GOAWAY of an error, or the closing that a second one makes, keeps the invariant.
LEMMA WriteGoawayStep ==
    ASSUME IInv, WriteGoaway
    PROVE  IInv'
<1>1. work' \in Seq(Call) /\ CallsUsed(work', lastStreamId, pushStreamId)
  BY ReturnType DEF WriteGoaway, Running
<1>2. CASE goaway
  <2>1. CloseSession
    BY <1>2 DEF WriteGoaway
  <2>2. WorkUsed'
    BY <1>1, <2>1 DEF CloseSession, WorkUsed, ids
  <2> QED
    BY <1>1, <2>1, <2>2, CloseSessionStep DEF WriteGoaway, IInv, TypeOK
<1>3. CASE ~goaway
  <2> DEFINE item == [Plain("GOAWAY", 0) EXCEPT !.callback = "close"]
  <2>1. item \in Item
    <3>1. Plain("GOAWAY", 0) \in Item /\ "close" \in Callback
      BY PlainType DEF FrameType, Callback
    <3> QED
      BY <3>1 DEF Item
  <2>2. queue' = Append(queue, item)
    BY <1>3 DEF WriteGoaway
  <2> HIDE DEF item
  <2>3. queue' \in Seq(Item)
    BY <2>1, <2>2 DEF IInv, TypeOK
  <2>4. TypeOK'
    BY <1>1, <1>3, <2>3
       DEF IInv, TypeOK, WriteGoaway, tree, ids, windows, assembly
  <2>5. WorkUsed'
    BY <1>1, <1>3 DEF WriteGoaway, WorkUsed, ids
  <2> QED
    BY <1>3, <2>4, <2>5, CalmStep
       DEF WriteGoaway, IInv, FragmentsFit, ids, windows
<1> QED
  BY <1>2, <1>3

\* What the peer is told of how far the response of a stream has gone.
LEMMA OutType ==
    ASSUME NEW p \in Peer, NEW s,
           NEW o \in {"idle", "open", "reserved", "headers", "ended", "reset"}
    PROVE  /\ [p EXCEPT !.out[s] = o] \in Peer
           /\ [p EXCEPT !.out[s] = o].sent = p.sent
           /\ [p EXCEPT !.out[s] = o].granted = p.granted
           /\ [p EXCEPT !.out[s] = o].connSent = p.connSent
           /\ [p EXCEPT !.out[s] = o].connGranted = p.connGranted
<1>1. [p.out EXCEPT ![s] = o]
        \in [StreamId -> {"idle", "open", "reserved", "headers", "ended", "reset"}]
  BY DEF Peer
<1> QED
  BY <1>1 DEF Peer

\* A RST_STREAM keeps the invariant: its stream goes with all that it held.
LEMMA HandleResetStep ==
    ASSUME IInv, HandleReset
    PROVE  IInv'
<1> DEFINE s == Head(buffer).stream
<1>1. buffer # <<>> /\ buffer' = Tail(buffer) /\ Tail(buffer) \in Seq(PeerFrames)
  BY TakingType DEF HandleReset, Taking, IInv
<1>2. WorkUsed'
  BY DEF IInv, HandleReset, WorkUsed, ids
<1>3. CASE s \in Live
  <2>1. CloseStream(s) /\ peer' = [peer EXCEPT !.out[s] = "reset"]
    BY <1>3 DEF HandleReset
  <2>2. /\ peer' \in Peer
        /\ peer'.sent = peer.sent /\ peer'.granted = peer.granted
        /\ peer'.connSent = peer.connSent /\ peer'.connGranted = peer.connGranted
    BY <2>1, OutType DEF IInv, TypeOK
  <2>3. /\ table' \in Seq(StreamId)
        /\ stream' \in [StreamId -> Stream]
        /\ dependency' \in [StreamId -> StreamId \cup {0}]
        /\ weight' \in [StreamId -> Nat]
    BY <1>3, <2>1, CloseStreamType DEF IInv
  <2>4. TypeOK'
    BY <1>1, <2>2, <2>3 DEF IInv, TypeOK, HandleReset, ids, windows, assembly
  <2> QED
    BY <1>2, <1>3, <2>1, <2>2, <2>4, CloseStreamStep DEF HandleReset, ids, windows
<1>4. CASE s \notin Live
  <2>1. UNCHANGED <<table, stream, tree, peer>>
    BY <1>4 DEF HandleReset
  <2>2. TypeOK'
    BY <1>1, <2>1 DEF IInv, TypeOK, HandleReset, tree, ids, windows, assembly
  <2> QED
    BY <1>2, <2>1, <2>2, CalmStep DEF HandleReset, IInv, FragmentsFit, ids, windows
<1> QED
  BY <1>3, <1>4

\* The send window of a stream is moved, and nothing else of it.
LEMMA MovedType ==
    ASSUME NEW st \in Stream, NEW w \in Int
    PROVE  /\ [st EXCEPT !.sendWindow = w] \in Stream
           /\ [st EXCEPT !.sendWindow = w].pending = st.pending
           /\ [st EXCEPT !.sendWindow = w].sendWindow = w
BY DEF Stream

\* New settings: the window of a stream and its credit move by as much.
LEMMA HandleSettingsStep ==
    ASSUME IInv, HandleSettings
    PROVE  IInv'
<1> DEFINE f == Head(buffer)
<1>1. work # <<>> /\ buffer # <<>> /\ buffer' = Tail(buffer)
  BY DEF HandleSettings, Taking, Running
<1>2. f \in Frame /\ f.size \in Nat /\ Tail(buffer) \in Seq(PeerFrames)
  BY <1>1, TakingType DEF IInv, Frame
<1>3. PICK difference \in Int, moved \in SUBSET StreamId :
         /\ stream' = [s \in StreamId |-> IF s \in moved
                          THEN [stream[s] EXCEPT !.sendWindow = @ + difference]
                          ELSE stream[s]]
         /\ peer' = [peer EXCEPT !.granted = [s \in StreamId |->
                        IF s \in moved THEN @[s] + difference ELSE @[s]]]
  <2> DEFINE difference == f.size - initialWindow
             overflows == {i \in 1..Len(table) : difference > 0 /\
                              stream[table[i]].sendWindow > MaxWindow - difference}
             moved == {table[i] : i \in {j \in 1..Len(table) :
                                            \A k \in overflows : j < k}}
  <2>1. difference \in Int
    BY <1>2 DEF IInv, TypeOK
  <2>2. moved \subseteq StreamId
    BY DEF IInv, TypeOK
  <2>3. /\ stream' = [s \in StreamId |-> IF s \in moved
                          THEN [stream[s] EXCEPT !.sendWindow = @ + difference]
                          ELSE stream[s]]
        /\ peer' = [peer EXCEPT !.granted = [s \in StreamId |->
                        IF s \in moved THEN @[s] + difference ELSE @[s]]]
    BY DEF HandleSettings
  <2> HIDE DEF difference, moved
  <2> QED
    BY <2>1, <2>2, <2>3
<1>4. /\ stream \in [StreamId -> Stream] /\ peer \in Peer
      /\ \A s \in StreamId : stream[s].sendWindow \in Int /\ peer.granted[s] \in Int
  BY DEF IInv, TypeOK, Stream, Peer
<1>5. /\ stream' \in [StreamId -> Stream]
      /\ \A s \in StreamId :
            /\ stream'[s].pending = stream[s].pending
            /\ stream'[s].sendWindow = IF s \in moved THEN stream[s].sendWindow + difference
                                                      ELSE stream[s].sendWindow
  <2>1. ASSUME NEW s \in StreamId
        PROVE  /\ stream'[s] \in Stream
               /\ stream'[s].pending = stream[s].pending
               /\ stream'[s].sendWindow = IF s \in moved THEN stream[s].sendWindow + difference
                                                         ELSE stream[s].sendWindow
    <3>1. stream[s] \in Stream /\ stream[s].sendWindow + difference \in Int
      BY <1>4
    <3>2. CASE s \in moved
      <4>1. stream'[s] = [stream[s] EXCEPT !.sendWindow = stream[s].sendWindow + difference]
        BY <1>3, <3>2
      <4> QED
        BY <3>1, <3>2, <4>1, MovedType
    <3>3. CASE s \notin moved
      BY <1>3, <3>1, <3>3
    <3> QED
      BY <3>2, <3>3
  <2>2. stream' = [s \in StreamId |-> stream'[s]]
    BY <1>3
  <2>3. \A s \in StreamId : stream'[s] \in Stream
    BY <2>1
  <2>4. stream' \in [StreamId -> Stream]
    BY <2>2, <2>3
  <2> QED
    BY <2>1, <2>4
<1>6. /\ peer' \in Peer
      /\ peer'.sent = peer.sent
      /\ peer'.connSent = peer.connSent /\ peer'.connGranted = peer.connGranted
      /\ \A s \in StreamId : peer'.granted[s] = IF s \in moved THEN peer.granted[s] + difference
                                                               ELSE peer.granted[s]
  <2> DEFINE new == [s \in StreamId |-> IF s \in moved THEN peer.granted[s] + difference
                                                      ELSE peer.granted[s]]
  <2>1. new \in [StreamId -> Int]
    BY <1>4
  <2>2. peer' = [peer EXCEPT !.granted = new]
    BY <1>3
  <2>3. \A s \in StreamId : new[s] = IF s \in moved THEN peer.granted[s] + difference
                                                    ELSE peer.granted[s]
    OBVIOUS
  <2> HIDE DEF new
  <2> QED
    BY <1>4, <2>1, <2>2, <2>3 DEF Peer
<1>7. work' \in Seq(Call) /\ CallsUsed(work', lastStreamId, pushStreamId)
  <2>1. ConnectionError \/ Calls(<<Do("schedule", 0)>>)
    BY DEF HandleSettings
  <2> QED
    BY <1>1, <2>1, ErrorType, CallsType, DoCall
<1>8. queue' \in Seq(Item)
  <2>1. Plain("SETTINGS", 0) \in Item
    BY PlainType DEF FrameType
  <2>2. queue' = queue \/ queue' = Append(queue, Plain("SETTINGS", 0))
    BY DEF HandleSettings
  <2>3. queue \in Seq(Item)
    BY DEF IInv, TypeOK
  <2> QED
    BY <2>1, <2>2, <2>3
<1>9. /\ UNCHANGED <<open, table, dependency, weight, lastStreamId, pushStreamId,
                     sendWindow, receiveWindow, goaway, continuation, refused,
                     block, lock, fault, frames>>
      /\ initialWindow' = f.size
  BY DEF HandleSettings, tree, ids, assembly
<1>10. TypeOK'
  BY <1>1, <1>2, <1>5, <1>6, <1>7, <1>8, <1>9 DEF IInv, TypeOK
<1>11. WorkUsed' /\ PushEven' /\ NoDuplicates' /\ LiveUsed'
  BY <1>7, <1>9 DEF IInv, WorkUsed, PushEven, NoDuplicates, LiveUsed
<1>12. FragmentsFit'
  BY <1>5 DEF IInv, FragmentsFit, Fit
<1>13. Unsent'
  BY <1>6, <1>9 DEF IInv, Unsent, Used
<1>14. WindowsAgree'
  <2>1. Live' = Live /\ Live \subseteq StreamId
    BY <1>9, LiveType DEF Live, IInv
  <2>2. \A s \in StreamId : peer.sent[s] \in Int
    BY <1>4 DEF Peer
  <2> QED
    BY <1>4, <1>5, <1>6, <1>9, <2>1, <2>2 DEF IInv, WindowsAgree
<1> QED
  BY <1>10, <1>11, <1>12, <1>13, <1>14 DEF IInv

\* Credit: the window and what was granted grow together.
LEMMA HandleWindowUpdateStep ==
    ASSUME IInv, HandleWindowUpdate
    PROVE  IInv'
<1> DEFINE f == Head(buffer)
           s == f.stream
<1>1. work # <<>> /\ buffer # <<>> /\ buffer' = Tail(buffer)
  BY DEF HandleWindowUpdate, Taking, Running
<1>2. f.size \in Nat /\ s \in StreamId \cup {0} /\ Tail(buffer) \in Seq(PeerFrames)
  BY <1>1, TakingType DEF IInv, Frame
<1>3. /\ stream \in [StreamId -> Stream] /\ peer \in Peer /\ sendWindow \in Int
      /\ queue \in Seq(Item) /\ work \in Seq(Call)
      /\ CallsUsed(work, lastStreamId, pushStreamId)
  BY DEF IInv, TypeOK, WorkUsed
<1>4. /\ UNCHANGED <<open, table, dependency, weight, lastStreamId, pushStreamId,
                     receiveWindow, initialWindow, goaway, continuation, refused,
                     block, lock, fault, frames>>
  BY DEF HandleWindowUpdate, tree, ids, assembly
<1>5. work' \in Seq(Call) /\ CallsUsed(work', lastStreamId, pushStreamId)
  <2>1. Calls(<<Do("schedule", 0)>>) \/ UNCHANGED work
    BY DEF HandleWindowUpdate
  <2> QED
    BY <1>3, <2>1, CallsType, DoCall
<1>6. WorkUsed' /\ PushEven' /\ NoDuplicates' /\ LiveUsed'
  BY <1>4, <1>5 DEF IInv, WorkUsed, PushEven, NoDuplicates, LiveUsed
<1>7. Live' = Live /\ Live \subseteq StreamId
  BY <1>4, LiveType DEF Live, IInv
<1>8. \/ /\ s = 0
         /\ sendWindow' = sendWindow + f.size
         /\ peer' = [peer EXCEPT !.connGranted = @ + f.size]
         /\ UNCHANGED <<stream, queue>>
      \/ /\ s \in Live
         /\ stream' = [stream EXCEPT ![s].sendWindow = @ + f.size]
         /\ peer' = [peer EXCEPT !.granted[s] = @ + f.size]
         /\ UNCHANGED <<sendWindow, queue>>
      \/ /\ s \in Live
         /\ queue' = Append(queue, Plain("RST_STREAM", s))
         /\ peer' = [peer EXCEPT !.out[s] = "reset"]
         /\ UNCHANGED <<stream, sendWindow>>
      \/ UNCHANGED <<stream, sendWindow, queue, peer>>
  BY DEF HandleWindowUpdate
<1> HIDE DEF s
<1>13. buffer' \in Seq(PeerFrames)
  BY <1>1, <1>2
<1>14. ASSUME sendWindow' \in Int, stream' \in [StreamId -> Stream],
              queue' \in Seq(Item), peer' \in Peer
       PROVE  TypeOK'
  BY <1>4, <1>5, <1>13, <1>14 DEF IInv, TypeOK
<1>9. CASE /\ s = 0
           /\ sendWindow' = sendWindow + f.size
           /\ peer' = [peer EXCEPT !.connGranted = @ + f.size]
           /\ UNCHANGED <<stream, queue>>
  <2>1. PICK n \in Nat : n = peer.connGranted + f.size
    BY <1>2, <1>3 DEF Peer
  <2>2. /\ peer' \in Peer /\ peer'.sent = peer.sent /\ peer'.granted = peer.granted
        /\ peer'.connSent = peer.connSent /\ peer'.connGranted = n
    BY <1>3, <1>9, <2>1 DEF Peer
  <2>3. TypeOK'
    BY <1>2, <1>3, <1>9, <1>14, <2>2
  <2>4. FragmentsFit' /\ Unsent'
    BY <1>4, <1>9, <2>2 DEF IInv, FragmentsFit, Unsent, Used
  <2>5. peer.connGranted \in Int /\ peer.connSent \in Int
    BY <1>3 DEF Peer
  <2>6. WindowsAgree'
    BY <1>2, <1>3, <1>7, <1>9, <2>1, <2>2, <2>5 DEF IInv, WindowsAgree
  <2> QED
    BY <1>6, <2>3, <2>4, <2>6 DEF IInv
<1>10. CASE /\ s \in Live
            /\ stream' = [stream EXCEPT ![s].sendWindow = @ + f.size]
            /\ peer' = [peer EXCEPT !.granted[s] = @ + f.size]
            /\ UNCHANGED <<sendWindow, queue>>
  <2>1. s \in StreamId /\ stream[s] \in Stream /\ peer.granted[s] \in Int
        /\ stream[s].sendWindow \in Int /\ peer.sent[s] \in Int
    BY <1>3, <1>7, <1>10 DEF Stream, Peer
  <2>2. PICK w \in Int : w = stream[s].sendWindow + f.size
    BY <1>2, <2>1
  <2>3. PICK g \in Int : g = peer.granted[s] + f.size
    BY <1>2, <2>1
  <2>4. PICK new \in Stream : /\ new = [stream[s] EXCEPT !.sendWindow = w]
                              /\ new.pending = stream[s].pending
                              /\ new.sendWindow = w
    BY <2>1, MovedType
  <2>5. stream' = [stream EXCEPT ![s] = new]
    BY <1>10, <2>2, <2>4
  <2>6. /\ stream' \in [StreamId -> Stream]
        /\ stream'[s] = new
        /\ \A x \in StreamId \ {s} : stream'[x] = stream[x]
    BY <1>3, <2>1, <2>5
  <2>7. PICK granted \in [StreamId -> Int] : granted = [peer.granted EXCEPT ![s] = g]
    BY <1>3 DEF Peer
  <2>8. peer' = [peer EXCEPT !.granted = granted]
    BY <1>10, <2>3, <2>7
  <2>9. /\ peer' \in Peer /\ peer'.sent = peer.sent
        /\ peer'.granted[s] = g
        /\ \A x \in StreamId \ {s} : peer'.granted[x] = peer.granted[x]
        /\ peer'.connSent = peer.connSent /\ peer'.connGranted = peer.connGranted
    BY <1>3, <2>1, <2>7, <2>8 DEF Peer
  <2>10. TypeOK'
    BY <1>3, <1>10, <1>14, <2>6, <2>9
  <2>11. FragmentsFit' /\ Unsent'
    <3>1. Fit(new)
      BY <2>1, <2>4 DEF IInv, FragmentsFit, Fit
    <3> QED
      BY <1>4, <2>6, <2>9, <3>1 DEF IInv, FragmentsFit, Unsent, Used
  <2>12. new.sendWindow = peer'.granted[s] - peer'.sent[s]
    <3>1. stream[s].sendWindow = peer.granted[s] - peer.sent[s]
      BY <1>10 DEF IInv, WindowsAgree
    <3> QED
      BY <1>2, <2>1, <2>2, <2>3, <2>4, <2>9, <3>1
  <2>13. WindowsAgree'
    BY <1>7, <1>10, <2>6, <2>9, <2>12 DEF IInv, WindowsAgree
  <2> QED
    BY <1>6, <2>10, <2>11, <2>13 DEF IInv
<1>11. CASE /\ s \in Live
            /\ queue' = Append(queue, Plain("RST_STREAM", s))
            /\ peer' = [peer EXCEPT !.out[s] = "reset"]
            /\ UNCHANGED <<stream, sendWindow>>
  <2>1. Plain("RST_STREAM", s) \in Item
    BY <1>2, PlainType DEF FrameType
  <2>2. queue' \in Seq(Item)
    BY <1>3, <1>11, <2>1
  <2>3. /\ peer' \in Peer
        /\ peer'.sent = peer.sent /\ peer'.granted = peer.granted
        /\ peer'.connSent = peer.connSent /\ peer'.connGranted = peer.connGranted
    BY <1>3, <1>11, OutType
  <2>4. TypeOK'
    BY <1>3, <1>11, <1>14, <2>2, <2>3
  <2> QED
    BY <1>4, <1>6, <1>11, <2>3, <2>4, CalmStep DEF IInv, FragmentsFit
<1>12. CASE UNCHANGED <<stream, sendWindow, queue, peer>>
  <2>1. TypeOK'
    BY <1>3, <1>12, <1>14
  <2> QED
    BY <1>4, <1>6, <1>12, <2>1, CalmStep DEF IInv, FragmentsFit
<1> QED
  BY <1>8, <1>9, <1>10, <1>11, <1>12

\* Calls of the same kind, once for every promise of a response.
LEMMA RepeatedCall ==
    ASSUME NEW n \in Nat, NEW c \in Call, NEW last, NEW push,
           c.op \in StreamOp => c.stream \in StreamId /\ UsedBy(c.stream, last, push)
    PROVE  /\ [i \in 1..n |-> c] \in Seq(Call)
           /\ CallsUsed([i \in 1..n |-> c], last, push)
<1> DEFINE calls == [i \in 1..n |-> c]
<1>1. calls \in Seq(Call) /\ Len(calls) = n
  OBVIOUS
<1>2. \A i \in 1..Len(calls) : calls[i] = c
  BY <1>1
<1> HIDE DEF calls
<1>3. CallsUsed(calls, last, push)
  BY <1>2 DEF CallsUsed
<1> QED
  BY <1>1, <1>3 DEF calls

\* The call of the handler's own, from the stream that it is about.
LEMMA StreamTop ==
    ASSUME IInv, work # <<>>, Top.op \in StreamOp
    PROVE  /\ Top.stream \in StreamId
           /\ UsedBy(Top.stream, lastStreamId, pushStreamId)
           /\ stream[Top.stream] \in Stream
BY TopType DEF Used, IInv, TypeOK

\* The handler that answers a request, with its promises, keeps the invariant.
LEMMA ServeStep ==
    ASSUME IInv, Serve
    PROVE  IInv'
<1>1. work # <<>> /\ Top.op = "serve"
  BY DEF Serve, Running
<1>2. PICK s : s = Top.stream
  OBVIOUS
<1>3. s \in StreamId /\ UsedBy(s, lastStreamId, pushStreamId) /\ stream[s] \in Stream
  BY <1>1, <1>2, StreamTop DEF StreamOp
<1>4. PICK r \in Responses :
         /\ stream' = [stream EXCEPT ![s].kind = r.kind,
                                     ![s].todo = r.body, ![s].cut = r.cut]
         /\ Becomes([i \in 1..r.push |-> Do("push", s)] \o <<Do("respond", s)>>)
  BY <1>2 DEF Serve
<1>5. r.kind \in {"page", "file", "head"} /\ r.body \in Seq(Nat)
      /\ r.cut \in BOOLEAN /\ r.push \in Nat
  BY ResponseAssumption DEF Response
<1>6. /\ stream' \in [StreamId -> Stream]
      /\ \A x \in StreamId : /\ stream'[x].pending = stream[x].pending
                             /\ stream'[x].sendWindow = stream[x].sendWindow
  <2>1. PICK st \in Stream : st = stream[s]
    BY <1>3
  <2>2. PICK kind \in {"page", "file", "head"} : kind = r.kind
    BY <1>5
  <2>3. PICK todo \in Seq(Nat) : todo = r.body
    BY <1>5
  <2>4. PICK cut \in BOOLEAN : cut = r.cut
    BY <1>5
  <2> DEFINE new == [st EXCEPT !.kind = kind, !.todo = todo, !.cut = cut]
  <2>5. new \in Stream /\ new.pending = st.pending /\ new.sendWindow = st.sendWindow
    BY DEF Stream
  <2>6. stream \in [StreamId -> Stream]
    BY DEF IInv, TypeOK
  <2>7. stream' = [stream EXCEPT ![s] = new]
    BY <1>3, <1>4, <2>1, <2>2, <2>3, <2>4, <2>6
  <2> HIDE DEF new
  <2> QED
    BY <1>3, <2>1, <2>5, <2>6, <2>7
<1>7. work' \in Seq(Call) /\ CallsUsed(work', lastStreamId, pushStreamId)
  <2> DEFINE promises == [i \in 1..r.push |-> Do("push", s)]
             answer == <<Do("respond", s)>>
  <2>1. promises \in Seq(Call) /\ CallsUsed(promises, lastStreamId, pushStreamId)
    <3>1. Do("push", s) \in Call /\ Do("push", s).stream = s
      BY <1>3, DoType DEF Do
    <3> QED
      BY <1>3, <1>5, <3>1, RepeatedCall
  <2>2. answer \in Seq(Call) /\ CallsUsed(answer, lastStreamId, pushStreamId)
    BY <1>3, StreamCall DEF StreamOp
  <2>3. Becomes(promises \o answer)
    BY <1>4
  <2> HIDE DEF promises, answer
  <2> QED
    BY <1>1, <2>1, <2>2, <2>3, CallsConcat, BecomesType
<1>8. TypeOK'
  BY <1>6, <1>7 DEF IInv, TypeOK, Serve, tree, ids, windows, assembly
<1>9. WorkUsed'
  BY <1>7 DEF Serve, WorkUsed, ids
<1> QED
  BY <1>6, <1>8, <1>9, CalmStep
     DEF Serve, IInv, FragmentsFit, Fit, ids, windows

\* The choice of the stream that writes next keeps the invariant.
LEMMA ScheduleStep ==
    ASSUME IInv, Schedule
    PROVE  IInv'
<1>1. work # <<>>
  BY DEF Schedule, Running
<1>2. work' \in Seq(Call) /\ CallsUsed(work', lastStreamId, pushStreamId)
  <2>1. CASE Return
    BY <1>1, <2>1, ReturnType
  <2>2. CASE \E i \in Writable :
                Becomes(<<[Top EXCEPT !.op = "flush", !.stream = table[i],
                                      !.count = Len(stream[table[i]].pending)]>>)
    <3>1. PICK s \in Live, n \in Nat :
             Becomes(<<[Top EXCEPT !.op = "flush", !.stream = s, !.count = n]>>)
      <4>1. PICK i \in 1..Len(table) :
               Becomes(<<[Top EXCEPT !.op = "flush", !.stream = table[i],
                                     !.count = Len(stream[table[i]].pending)]>>)
        BY <2>2 DEF Writable
      <4>2. table[i] \in Live
        BY DEF Live
      <4>3. stream[table[i]] \in Stream
        BY <4>2, LiveType DEF IInv, TypeOK
      <4>4. Len(stream[table[i]].pending) \in Nat
        BY <4>3 DEF Stream
      <4> QED
        BY <4>1, <4>2, <4>4
    <3>2. s \in StreamId /\ UsedBy(s, lastStreamId, pushStreamId)
      BY LiveIsUsed DEF Used
    <3>3. PICK c \in Call : c = Top
      BY <1>1, TopType
    <3> DEFINE new == [c EXCEPT !.op = "flush", !.stream = s, !.count = n]
    <3>4. new \in Call /\ new.stream = s
      BY <3>2 DEF Call
    <3>5. Becomes(<<new>>)
      BY <3>1, <3>3
    <3> HIDE DEF new
    <3> QED
      BY <1>1, <3>2, <3>4, <3>5, OneCall, BecomesType
  <2> QED
    BY <2>1, <2>2 DEF Schedule
<1>3. TypeOK'
  BY <1>2 DEF IInv, TypeOK, Schedule, tree, ids, windows, assembly
<1>4. WorkUsed'
  BY <1>2 DEF Schedule, WorkUsed, ids
<1> QED
  BY <1>3, <1>4, CalmStep DEF Schedule, IInv, FragmentsFit, ids, windows

\* A promise: the identifier is new, so is the stream, with its first credit.
LEMMA PushStep ==
    ASSUME IInv, Push
    PROVE  IInv'
<1> DEFINE p == pushStreamId + 2
<1>1. work # <<>> /\ Top.op = "push"
  BY DEF Push, Running
<1>2. PICK s : s = Top.stream
  OBVIOUS
<1>3. s \in StreamId /\ UsedBy(s, lastStreamId, pushStreamId)
  BY <1>1, <1>2, StreamTop DEF StreamOp
<1>4. /\ pushStreamId \in Nat /\ pushStreamId % 2 = 0 /\ initialWindow \in Nat
      /\ stream \in [StreamId -> Stream] /\ peer \in Peer /\ table \in Seq(StreamId)
      /\ queue \in Seq(Item)
      /\ dependency \in [StreamId -> StreamId \cup {0}] /\ weight \in [StreamId -> Nat]
  BY DEF IInv, TypeOK, PushEven
<1>5. /\ UNCHANGED <<open, lastStreamId, sendWindow, receiveWindow, initialWindow,
                     goaway, continuation, refused, block, lock, buffer, fault, frames>>
      /\ pushStreamId' = p \/ pushStreamId' = pushStreamId
  BY DEF Push, windows, assembly
<1>6. pushStreamId' \in Nat /\ PushEven' /\ pushStreamId' >= pushStreamId
  <2>1. PICK n \in Nat : n = pushStreamId
    BY <1>4
  <2>2. n % 2 = 0 /\ (n + 2) % 2 = 0 /\ n + 2 \in Nat /\ n + 2 >= n
    BY <1>4, <2>1
  <2>3. pushStreamId' = n + 2 \/ pushStreamId' = n
    BY <1>5, <2>1
  <2>4. pushStreamId' % 2 = 0 /\ pushStreamId' \in Nat /\ pushStreamId' >= n
    BY <2>1, <2>2, <2>3
  <2> QED
    BY <2>1, <2>4 DEF PushEven
<1>7. \A x \in StreamId : UsedBy(x, lastStreamId, pushStreamId) =>
                             UsedBy(x, lastStreamId', pushStreamId')
  <2>1. lastStreamId' = lastStreamId /\ lastStreamId \in Nat
    BY <1>5, StreamIdAssumption DEF IInv, TypeOK
  <2>2. pushStreamId \in Nat /\ pushStreamId' \in Nat /\ pushStreamId' >= pushStreamId
    BY <1>4, <1>6
  <2>3. ASSUME NEW x \in StreamId, UsedBy(x, lastStreamId, pushStreamId)
        PROVE  UsedBy(x, lastStreamId', pushStreamId')
    <3>1. x \in Nat
      BY StreamIdAssumption
    <3>2. x <= pushStreamId => x <= pushStreamId'
      BY <2>2, <3>1
    <3> QED
      BY <2>1, <2>3, <3>2 DEF UsedBy
  <2> QED
    BY <2>3
<1>8. \A calls \in Seq(Call) : CallsUsed(calls, lastStreamId, pushStreamId) =>
                                  CallsUsed(calls, lastStreamId', pushStreamId')
  BY <1>7 DEF CallsUsed
<1>9. Tail(work) \in Seq(Call) /\ CallsUsed(Tail(work), lastStreamId', pushStreamId')
  BY <1>1, <1>8, TopType
<1>10. \A i \in 1..Len(table) : /\ table[i] \in StreamId
                               /\ UsedBy(table[i], lastStreamId, pushStreamId)
                               /\ UsedBy(table[i], lastStreamId', pushStreamId')
  BY <1>4, <1>7 DEF IInv, LiveUsed, TableUsed
<1>11. CASE CanPush /\ p \in StreamId
  <2>1. PICK new \in Stream : /\ stream' = [stream EXCEPT ![p] = new]
                              /\ new.pending = <<>>
                              /\ new.sendWindow = initialWindow
    <3>1. PICK st \in Stream : st = Fresh("RESERVED_LOCAL", initialWindow)
      BY <1>4, FreshType DEF StreamState
    <3>2. st.pending = <<>> /\ st.sendWindow = initialWindow
      BY <3>1 DEF Fresh
    <3> DEFINE new == [st EXCEPT !.end = TRUE, !.headersComplete = TRUE]
    <3>3. new \in Stream /\ new.pending = st.pending /\ new.sendWindow = st.sendWindow
      BY DEF Stream
    <3>4. stream' = [stream EXCEPT ![p] = new]
      BY <1>11, <3>1 DEF Push
    <3> HIDE DEF new
    <3> QED
      BY <3>2, <3>3, <3>4
  <2>2. /\ pushStreamId' = p
        /\ queue' = Append(queue, Plain("PUSH_PROMISE", p))
        /\ table' = Append(table, p)
        /\ dependency' = [dependency EXCEPT ![p] = s]
        /\ weight' = [weight EXCEPT ![p] = 16]
        /\ peer' = [peer EXCEPT !.out[p] = "reserved", !.granted[p] = initialWindow]
        /\ work' = <<Do("serve", p)>> \o Tail(work)
    BY <1>2, <1>11 DEF Push, Becomes
  <2>3. p % 2 = 0 /\ p > pushStreamId /\ p \in Nat
    BY <1>4
  <2>4. PICK q \in StreamId : q = p
    BY <1>11
  <2> HIDE DEF p
  <2>5. ~UsedBy(q, lastStreamId, pushStreamId) /\ UsedBy(q, lastStreamId', pushStreamId')
    BY <1>4, <2>2, <2>3, <2>4 DEF UsedBy
  <2>6. /\ Len(table') = Len(table) + 1
        /\ table'[Len(table) + 1] = q
        /\ \A i \in 1..Len(table) : table'[i] = table[i]
        /\ table' \in Seq(StreamId)
    BY <1>4, <2>2, <2>4
  <2>7. \A i \in 1..Len(table) : table[i] # q
    BY <1>10, <2>5
  <2>8. table \in Seq(StreamId) /\ Len(table) \in Nat
    BY <1>4
  <2>9. NoDuplicates' /\ LiveUsed' /\ Live' = Live \cup {q}
    <3>1. NoDuplicates'
      BY <2>6, <2>7, <2>8 DEF IInv, NoDuplicates
    <3>2. LiveUsed'
      BY <1>10, <2>5, <2>6, <2>8 DEF LiveUsed, TableUsed
    <3>3. Live' = Live \cup {q}
      BY <2>6, <2>8 DEF Live
    <3> QED
      BY <3>1, <3>2, <3>3
  <2>10. /\ stream' \in [StreamId -> Stream] /\ stream'[q] = new
         /\ \A x \in StreamId \ {q} : stream'[x] = stream[x]
    BY <1>4, <2>1, <2>4
  <2>11. /\ peer' \in Peer /\ peer'.sent = peer.sent /\ peer'.granted[q] = initialWindow
         /\ \A x \in StreamId \ {q} : peer'.granted[x] = peer.granted[x]
         /\ peer'.connSent = peer.connSent /\ peer'.connGranted = peer.connGranted
    <3>1. PICK granted \in [StreamId -> Int] : granted = [peer.granted EXCEPT ![q] = initialWindow]
      <4>1. peer.granted \in [StreamId -> Int] /\ initialWindow \in Int
        BY <1>4 DEF Peer
      <4> QED
        BY <4>1
    <3>2. PICK out \in [StreamId -> {"idle", "open", "reserved", "headers", "ended", "reset"}] :
             out = [peer.out EXCEPT ![q] = "reserved"]
      BY <1>4 DEF Peer
    <3>3. peer' = [peer EXCEPT !.out = out, !.granted = granted]
      BY <2>2, <2>4, <3>1, <3>2
    <3>4. /\ granted[q] = initialWindow
          /\ \A x \in StreamId \ {q} : granted[x] = peer.granted[x]
      BY <1>4, <3>1 DEF Peer
    <3> QED
      BY <1>4, <3>3, <3>4 DEF Peer
  <2>12. queue' \in Seq(Item)
    <3>1. Plain("PUSH_PROMISE", q) \in Item
      BY PlainType
    <3>2. queue' = Append(queue, Plain("PUSH_PROMISE", q))
      BY <2>2, <2>4
    <3> QED
      BY <1>4, <3>1, <3>2
  <2>13. /\ dependency' \in [StreamId -> StreamId \cup {0}]
         /\ weight' \in [StreamId -> Nat]
    <3>1. dependency' = [dependency EXCEPT ![q] = s] /\ weight' = [weight EXCEPT ![q] = 16]
      BY <2>2, <2>4
    <3> QED
      BY <1>3, <1>4, <3>1
  <2>14. work' \in Seq(Call) /\ CallsUsed(work', lastStreamId', pushStreamId')
    <3>1. <<Do("serve", q)>> \in Seq(Call)
          /\ CallsUsed(<<Do("serve", q)>>, lastStreamId', pushStreamId')
      BY <2>5, StreamCall DEF StreamOp
    <3>2. work' = <<Do("serve", q)>> \o Tail(work)
      BY <2>2, <2>4
    <3> QED
      BY <1>9, <3>1, <3>2, CallsConcat
  <2>15. TypeOK'
    BY <1>5, <1>6, <2>6, <2>10, <2>11, <2>12, <2>13, <2>14 DEF IInv, TypeOK
  <2>16. FragmentsFit'
    <3>1. Fit(new)
      BY <2>1, EmptyFit
    <3> QED
      BY <2>4, <2>10, <3>1 DEF IInv, FragmentsFit
  <2>17. Unsent'
    BY <1>7, <2>11 DEF IInv, Unsent, Used
  <2>18. WindowsAgree'
    <3>1. peer.sent[q] = 0
      BY <2>5 DEF IInv, Unsent, Used
    <3>2. stream'[q].sendWindow = peer'.granted[q] - peer'.sent[q]
      BY <1>4, <2>1, <2>10, <2>11, <3>1
    <3> QED
      BY <1>5, <2>9, <2>10, <2>11, <3>2, LiveType DEF IInv, WindowsAgree
  <2> QED
    BY <1>6, <2>9, <2>14, <2>15, <2>16, <2>17, <2>18 DEF IInv, WorkUsed
<1>12. CASE ~(CanPush /\ p \in StreamId)
  <2>1. UNCHANGED <<queue, table, stream, dependency, weight, peer>> /\ work' = Tail(work)
    BY <1>12 DEF Push, Return, tree
  <2>2. TypeOK'
    BY <1>5, <1>6, <1>9, <2>1 DEF IInv, TypeOK
  <2>3. WorkUsed' /\ LiveUsed' /\ NoDuplicates' /\ FragmentsFit'
    BY <1>9, <1>10, <2>1
       DEF IInv, WorkUsed, LiveUsed, TableUsed, NoDuplicates, FragmentsFit
  <2>4. Unsent'
    BY <1>7, <2>1 DEF IInv, Unsent, Used
  <2>5. WindowsAgree'
    BY <1>5, <2>1 DEF IInv, WindowsAgree, Live
  <2> QED
    BY <1>6, <2>2, <2>3, <2>4, <2>5 DEF IInv
<1> QED
  BY <1>11, <1>12

\* A fragment is put behind the ones that a stream is holding.
LEMMA HeldType ==
    ASSUME NEW st \in Stream, NEW fragment \in Fragment,
           fragment.offset <= fragment.size, Fit(st)
    PROVE  LET new == [st EXCEPT !.pending = Append(st.pending, fragment)]
           IN  /\ new \in Stream
               /\ Fit(new)
               /\ new.sendWindow = st.sendWindow
<1>1. st.pending \in Seq(Fragment)
  BY DEF Stream
<1>2. PICK pending \in Seq(Fragment) : pending = Append(st.pending, fragment)
  <2>1. Append(st.pending, fragment) \in Seq(Fragment)
    BY <1>1
  <2> QED
    BY <2>1
<1>3. /\ Len(pending) = Len(st.pending) + 1
      /\ pending[Len(st.pending) + 1] = fragment
      /\ \A i \in 1..Len(st.pending) : pending[i] = st.pending[i]
  BY <1>1, <1>2
<1>4. \A i \in 1..Len(pending) : pending[i].offset <= pending[i].size
  BY <1>1, <1>3 DEF Fit
<1> DEFINE new == [st EXCEPT !.pending = pending]
<1>5. new \in Stream /\ new.pending = pending /\ new.sendWindow = st.sendWindow
  BY DEF Stream
<1>6. Fit(new)
  BY <1>4, <1>5 DEF Fit
<1> QED
  BY <1>2, <1>5, <1>6

\* The response begins: the windows and the credit are left alone.
LEMMA RespondStep ==
    ASSUME IInv, Respond
    PROVE  IInv'
<1>1. work # <<>> /\ Top.op = "respond"
  BY DEF Respond, Running
<1>2. PICK s : s = Top.stream
  OBVIOUS
<1>3. s \in StreamId /\ UsedBy(s, lastStreamId, pushStreamId) /\ stream[s] \in Stream
  BY <1>1, <1>2, StreamTop DEF StreamOp
<1>4. PICK st \in Stream : st = stream[s] /\ Fit(st)
  BY <1>3 DEF IInv, FragmentsFit
<1>5. /\ stream \in [StreamId -> Stream] /\ peer \in Peer /\ queue \in Seq(Item)
      /\ Live \subseteq StreamId
  BY LiveType DEF IInv, TypeOK
<1>6. \E new \in Stream, end \in BOOLEAN, callback \in Callback,
         o \in {"headers", "ended"} :
         /\ stream' = [stream EXCEPT ![s] = new]
         /\ Fit(new) /\ new.sendWindow = st.sendWindow
         /\ queue' = Append(queue, HeadOf(s, end, callback))
         /\ peer' = [peer EXCEPT !.out[s] = o]
         /\ Return \/ Becomes(<<Do("schedule", 0)>>)
  <2>1. CASE st.kind = "head"
    <3>1. PICK new \in Stream : /\ new = AfterHead(Completed(st))
                                /\ new.pending = st.pending
                                /\ new.sendWindow = st.sendWindow
      BY AfterHeadType, CompletedType
    <3>2. /\ stream' = [stream EXCEPT ![s] = new]
          /\ queue' = Append(queue, HeadOf(s, TRUE, "cleanup"))
          /\ peer' = [peer EXCEPT !.out[s] = "ended"]
          /\ Return
      BY <1>2, <1>4, <2>1, <3>1 DEF Respond
    <3>3. Fit(new)
      BY <1>4, <3>1 DEF Fit
    <3> QED
      BY <3>1, <3>2, <3>3 DEF Callback
  <2>2. CASE st.kind = "file"
    <3>1. PICK new \in Stream : /\ new = AfterHead(st)
                                /\ new.pending = st.pending
                                /\ new.sendWindow = st.sendWindow
      BY AfterHeadType
    <3>2. /\ stream' = [stream EXCEPT ![s] = new]
          /\ queue' = Append(queue, HeadOf(s, FALSE, "chunk"))
          /\ peer' = [peer EXCEPT !.out[s] = "headers"]
          /\ Return
      BY <1>2, <1>4, <2>2, <3>1 DEF Respond
    <3>3. Fit(new)
      BY <1>4, <3>1 DEF Fit
    <3> QED
      BY <3>1, <3>2, <3>3 DEF Callback
  <2>3. CASE st.kind = "page"
    <3>1. PICK head \in Stream : /\ head = AfterHead(st)
                                 /\ head.pending = st.pending
                                 /\ head.sendWindow = st.sendWindow
      BY AfterHeadType
    <3>2. Fit(head)
      BY <1>4, <3>1 DEF Fit
    <3>3. PICK fragment \in Fragment : /\ fragment = Chunk(PageSize(st), TRUE, "cleanup")
                                       /\ fragment.offset <= fragment.size
      <4>1. st.todo \in Seq(Nat)
        BY DEF Stream
      <4>2. PageSize(st) \in Nat
        BY <4>1 DEF PageSize
      <4> QED
        BY <4>2, ChunkType DEF Callback
    <3>4. PICK new \in Stream :
             /\ new = [head EXCEPT !.pending = Append(head.pending, fragment)]
             /\ Fit(new) /\ new.sendWindow = head.sendWindow
      BY <3>2, <3>3, HeldType
    <3>5. /\ stream' = [stream EXCEPT ![s] = [AfterHead(st) EXCEPT
                           !.pending = Append(@, Chunk(PageSize(st), TRUE, "cleanup"))]]
          /\ queue' = Append(queue, HeadOf(s, FALSE, "none"))
          /\ peer' = [peer EXCEPT !.out[s] = "headers"]
          /\ Becomes(<<Do("schedule", 0)>>)
      BY <1>2, <1>4, <2>3 DEF Respond
    <3>6. stream' = [stream EXCEPT ![s] = new]
      BY <3>1, <3>3, <3>4, <3>5
    <3> QED
      BY <3>1, <3>4, <3>5, <3>6 DEF Callback
  <2> QED
    BY <2>1, <2>2, <2>3 DEF Stream
<1>7. PICK new \in Stream, end \in BOOLEAN, callback \in Callback,
           o \in {"headers", "ended"} :
         /\ stream' = [stream EXCEPT ![s] = new]
         /\ Fit(new) /\ new.sendWindow = st.sendWindow
         /\ queue' = Append(queue, HeadOf(s, end, callback))
         /\ peer' = [peer EXCEPT !.out[s] = o]
         /\ Return \/ Becomes(<<Do("schedule", 0)>>)
  BY <1>6
<1>8. /\ stream' \in [StreamId -> Stream]
      /\ \A x \in StreamId : Fit(stream'[x]) /\ stream'[x].sendWindow = stream[x].sendWindow
  BY <1>3, <1>4, <1>5, <1>7 DEF IInv, FragmentsFit
<1>9. queue' \in Seq(Item)
  BY <1>3, <1>5, <1>7, HeadOfType
<1>10. /\ peer' \in Peer
       /\ peer'.sent = peer.sent /\ peer'.granted = peer.granted
       /\ peer'.connSent = peer.connSent /\ peer'.connGranted = peer.connGranted
  <2>1. o \in {"idle", "open", "reserved", "headers", "ended", "reset"}
    OBVIOUS
  <2> QED
    BY <1>5, <1>7, <2>1, OutType, ZenonT(30)
<1>11. work' \in Seq(Call) /\ CallsUsed(work', lastStreamId, pushStreamId)
  <2>1. /\ <<Do("schedule", 0)>> \in Seq(Call)
        /\ CallsUsed(<<Do("schedule", 0)>>, lastStreamId, pushStreamId)
    BY DoCall
  <2> QED
    BY <1>1, <1>7, <2>1, ReturnType, BecomesType
<1>12. UNCHANGED <<open, table, dependency, weight, lastStreamId, pushStreamId,
                   sendWindow, receiveWindow, initialWindow, goaway, continuation,
                   refused, block, lock, buffer, fault, frames>>
  BY DEF Respond, tree, ids, windows, assembly
<1>13. TypeOK'
  BY <1>8, <1>9, <1>10, <1>11, <1>12 DEF IInv, TypeOK
<1>14. WorkUsed'
  BY <1>11, <1>12 DEF WorkUsed
<1> QED
  BY <1>8, <1>10, <1>12, <1>13, <1>14, CalmStep

\* The fragments that are left once a frame has taken n of the first of them.
LEMMA LeftType ==
    ASSUME NEW pending \in Seq(Fragment), pending # <<>>, NEW n \in Nat,
           \A i \in 1..Len(pending) : pending[i].offset <= pending[i].size,
           n <= pending[1].size - pending[1].offset, NEW whole \in BOOLEAN
    PROVE  LET left == IF whole THEN Tail(pending)
                       ELSE [pending EXCEPT ![1].offset = @ + n]
           IN  /\ left \in Seq(Fragment)
               /\ \A i \in 1..Len(left) : left[i].offset <= left[i].size
<1>1. CASE whole
  BY <1>1
<1>2. CASE ~whole
  <2>1. PICK first \in Fragment : first = pending[1] /\ first.offset <= first.size
    OBVIOUS
  <2>2. PICK offset \in Nat : offset = first.offset + n /\ offset <= first.size
    BY <2>1 DEF Fragment
  <2>3. PICK moved \in Fragment : /\ moved = [first EXCEPT !.offset = offset]
                                  /\ moved.offset <= moved.size
    <3> DEFINE moved == [first EXCEPT !.offset = offset]
    <3>1. moved \in Fragment /\ moved.offset = offset /\ moved.size = first.size
      BY DEF Fragment
    <3> HIDE DEF moved
    <3>2. moved.offset <= moved.size
      BY <2>2, <3>1
    <3> QED
      BY <3>1, <3>2 DEF moved
  <2>4. PICK left \in Seq(Fragment) : left = [pending EXCEPT ![1] = moved]
    <3>1. [pending EXCEPT ![1] = moved] \in Seq(Fragment)
      OBVIOUS
    <3> QED
      BY <3>1
  <2>5. left = [pending EXCEPT ![1].offset = @ + n]
    BY <2>1, <2>2, <2>3, <2>4
  <2>6. \A i \in 1..Len(left) : left[i].offset <= left[i].size
    BY <2>3, <2>4
  <2> QED
    BY <1>2, <2>5, <2>6
<1> QED
  BY <1>1, <1>2

\* What a frame of payload takes out of a stream.
LEMMA SentType ==
    ASSUME NEW st \in Stream, NEW w \in Int, NEW pending \in Seq(Fragment),
           \A i \in 1..Len(pending) : pending[i].offset <= pending[i].size
    PROVE  LET new == [st EXCEPT !.sendWindow = w, !.pending = pending]
           IN  new \in Stream /\ Fit(new) /\ new.sendWindow = w
BY DEF Stream, Fit

\* A frame of payload: both windows shrink by what it carries, which neither
\* of them is short of, and so does what the peer has granted.
LEMMA FlushStep ==
    ASSUME IInv, Flush
    PROVE  IInv'
<1>1. work # <<>> /\ Top.op = "flush"
  BY DEF Flush, Running
<1>2. PICK s : s = Top.stream
  OBVIOUS
<1>3. s \in StreamId /\ UsedBy(s, lastStreamId, pushStreamId) /\ stream[s] \in Stream
  BY <1>1, <1>2, StreamTop DEF StreamOp
<1>4. PICK st \in Stream : st = stream[s] /\ Fit(st)
  BY <1>3 DEF IInv, FragmentsFit
<1>5. PICK pending \in Seq(Fragment) :
         /\ pending = st.pending /\ pending # <<>>
         /\ \A i \in 1..Len(pending) : pending[i].offset <= pending[i].size
  <2>1. st.pending \in Seq(Fragment)
    BY DEF Stream
  <2>2. st.pending # <<>>
    BY <1>2, <1>4 DEF Flush
  <2> QED
    BY <1>4, <2>1, <2>2 DEF Fit
<1>6. PICK fragment \in Fragment : /\ fragment = Head(pending) /\ fragment = pending[1]
                                   /\ fragment.offset <= fragment.size
  BY <1>5
<1>7. PICK allowed \in Nat :
         /\ allowed = Smaller(fragment.size - fragment.offset,
                              Smaller(Window(s), MaxFrameSize))
         /\ allowed <= fragment.size - fragment.offset
         /\ allowed <= sendWindow
  <2>1. fragment.size - fragment.offset \in Nat
    BY <1>6 DEF Fragment
  <2>2. Window(s) \in Int /\ Window(s) > 0 /\ Window(s) <= sendWindow
    <3>1. stream[s].sendWindow \in Int /\ sendWindow \in Int
      BY <1>3 DEF IInv, TypeOK, Stream
    <3>2. Window(s) > 0
      BY <1>2 DEF Flush
    <3> QED
      BY <3>1, <3>2 DEF Window, Smaller
  <2>3. MaxFrameSize \in Nat
    BY WindowAssumption
  <2>4. sendWindow \in Int
    BY DEF IInv, TypeOK
  <2> QED
    BY <2>1, <2>2, <2>3, <2>4 DEF Smaller
<1>8. PICK whole \in BOOLEAN : whole = Whole(fragment, allowed)
  BY DEF Whole
<1>9. PICK left \in Seq(Fragment) :
         /\ left = IF whole THEN Tail(pending)
                   ELSE [pending EXCEPT ![1].offset = @ + allowed]
         /\ \A i \in 1..Len(left) : left[i].offset <= left[i].size
  BY <1>5, <1>6, <1>7, LeftType
<1>10. st.sendWindow \in Int /\ sendWindow \in Int
  BY DEF Stream, IInv, TypeOK
<1>11. PICK sent \in Stream :
          /\ sent = [st EXCEPT !.sendWindow = st.sendWindow - allowed, !.pending = left]
          /\ Fit(sent) /\ sent.sendWindow = st.sendWindow - allowed
  <2>1. st.sendWindow - allowed \in Int
    BY <1>10
  <2>2. PICK w \in Int : w = st.sendWindow - allowed
    BY <2>1
  <2>3. LET new == [st EXCEPT !.sendWindow = w, !.pending = left]
        IN  new \in Stream /\ Fit(new) /\ new.sendWindow = w
    BY <1>9, SentType
  <2> QED
    BY <2>2, <2>3
<1>12. PICK last \in BOOLEAN : last = (fragment.last /\ whole)
  OBVIOUS
<1>13. PICK callback \in Callback : callback = CallbackOf(fragment, whole)
  BY DEF CallbackOf, Fragment, Callback
<1>14. /\ stream' = [stream EXCEPT ![s] = IF last THEN Completed(sent) ELSE sent]
       /\ sendWindow' = sendWindow - allowed
       /\ queue' = Append(queue,
             [type |-> "DATA", stream |-> s, size |-> allowed, end |-> last,
              callback |-> callback, wrapped |-> whole])
       /\ peer' = [peer EXCEPT !.sent[s] = @ + allowed,
                               !.connSent = @ + allowed,
                               !.out[s] = IF last THEN "ended" ELSE @]
  <2>1. /\ stream' = [stream EXCEPT ![s] =
                        IF last
                        THEN Completed([stream[s] EXCEPT !.sendWindow = @ - allowed, !.pending = left])
                        ELSE [stream[s] EXCEPT !.sendWindow = @ - allowed, !.pending = left]]
        /\ sendWindow' = sendWindow - allowed
        /\ queue' = Append(queue,
              [type |-> "DATA", stream |-> s, size |-> allowed, end |-> last,
               callback |-> callback, wrapped |-> whole])
        /\ peer' = [peer EXCEPT !.sent[s] = @ + allowed,
                                !.connSent = @ + allowed,
                                !.out[s] = IF last THEN "ended" ELSE @]
    BY <1>2, <1>4, <1>5, <1>6, <1>7, <1>8, <1>9, <1>12, <1>13 DEF Flush
  <2> QED
    BY <1>4, <1>11, <2>1
<1>15. PICK new \in Stream : /\ stream' = [stream EXCEPT ![s] = new]
                             /\ Fit(new) /\ new.sendWindow = st.sendWindow - allowed
  <2>1. /\ Completed(sent) \in Stream
        /\ Completed(sent).pending = sent.pending
        /\ Completed(sent).sendWindow = sent.sendWindow
    BY CompletedType
  <2>2. Fit(Completed(sent))
    BY <1>11, <2>1 DEF Fit
  <2> QED
    BY <1>11, <1>14, <2>1, <2>2
<1>16. /\ stream' \in [StreamId -> Stream]
       /\ stream'[s] = new /\ \A x \in StreamId \ {s} : stream'[x] = stream[x]
  BY <1>3, <1>15 DEF IInv, TypeOK
<1>17. queue' \in Seq(Item)
  <2>1. [type |-> "DATA", stream |-> s, size |-> allowed, end |-> last,
         callback |-> callback, wrapped |-> whole] \in Item
    BY <1>3 DEF Item, FrameType
  <2> QED
    BY <1>14, <2>1 DEF IInv, TypeOK
<1>18. /\ peer' \in Peer /\ peer'.granted = peer.granted
       /\ peer'.connGranted = peer.connGranted
       /\ peer'.connSent = peer.connSent + allowed
       /\ peer'.sent[s] = peer.sent[s] + allowed
       /\ \A x \in StreamId \ {s} : peer'.sent[x] = peer.sent[x]
  <2>1. /\ peer \in Peer /\ peer.sent \in [StreamId -> Nat] /\ peer.connSent \in Nat
        /\ peer.out \in [StreamId -> {"idle", "open", "reserved", "headers", "ended", "reset"}]
    BY DEF IInv, TypeOK, Peer
  <2>2. PICK all \in [StreamId -> Nat] : /\ all = [peer.sent EXCEPT ![s] = @ + allowed]
                                         /\ all[s] = peer.sent[s] + allowed
                                         /\ \A x \in StreamId \ {s} : all[x] = peer.sent[x]
    <3>1. peer.sent[s] + allowed \in Nat
      BY <1>3, <2>1
    <3>2. [peer.sent EXCEPT ![s] = @ + allowed] \in [StreamId -> Nat]
      BY <1>3, <2>1, <3>1
    <3> QED
      BY <1>3, <2>1, <3>2
  <2>3. PICK out \in [StreamId -> {"idle", "open", "reserved", "headers", "ended", "reset"}] :
           out = [peer.out EXCEPT ![s] = IF last THEN "ended" ELSE @]
    <3>1. [peer.out EXCEPT ![s] = IF last THEN "ended" ELSE @]
            \in [StreamId -> {"idle", "open", "reserved", "headers", "ended", "reset"}]
      BY <1>3, <2>1
    <3> QED
      BY <3>1
  <2>4. PICK conn \in Nat : conn = peer.connSent + allowed
    BY <2>1
  <2>5. peer' = [peer EXCEPT !.sent = all, !.connSent = conn, !.out = out]
    BY <1>14, <2>2, <2>3, <2>4
  <2> QED
    BY <2>1, <2>2, <2>4, <2>5 DEF Peer
<1>19. UNCHANGED <<open, table, dependency, weight, lastStreamId, pushStreamId,
                   receiveWindow, initialWindow, goaway, continuation,
                   refused, block, lock, buffer, work, fault, frames>>
  BY DEF Flush, tree, ids, assembly
<1>20. TypeOK'
  <2>1. sendWindow' \in Int
    BY <1>10, <1>14
  <2> QED
    BY <1>16, <1>17, <1>18, <1>19, <2>1 DEF IInv, TypeOK
<1>21. FragmentsFit'
  BY <1>15, <1>16 DEF IInv, FragmentsFit
<1>22. NoDuplicates' /\ LiveUsed' /\ WorkUsed' /\ PushEven'
  BY <1>19 DEF IInv, NoDuplicates, LiveUsed, WorkUsed, PushEven
<1>23. Unsent'
  BY <1>3, <1>18, <1>19 DEF IInv, Unsent, Used
<1>24. WindowsAgree'
  <2>1. Live' = Live /\ Live \subseteq StreamId
    BY <1>19, LiveType DEF Live, IInv
  <2>2. peer.connGranted \in Int /\ peer.connSent \in Int
    BY DEF IInv, TypeOK, Peer
  <2>3. sendWindow' = peer'.connGranted - peer'.connSent /\ sendWindow' >= 0
    BY <1>7, <1>10, <1>14, <1>18, <2>2 DEF IInv, WindowsAgree
  <2>4. \A x \in Live \ {s} : stream'[x].sendWindow = peer'.granted[x] - peer'.sent[x]
    BY <1>16, <1>18, <2>1 DEF IInv, WindowsAgree
  <2>5. s \in Live => stream'[s].sendWindow = peer'.granted[s] - peer'.sent[s]
    <3>1. s \in Live => st.sendWindow = peer.granted[s] - peer.sent[s]
      BY <1>4 DEF IInv, WindowsAgree
    <3>2. peer.granted[s] \in Int /\ peer.sent[s] \in Int
      BY <1>3 DEF IInv, TypeOK, Peer
    <3> QED
      BY <1>10, <1>15, <1>16, <1>18, <3>1, <3>2
  <2> QED
    BY <2>1, <2>3, <2>4, <2>5 DEF WindowsAgree
<1> QED
  BY <1>20, <1>21, <1>22, <1>23, <1>24 DEF IInv

\* A stream that has written all it may keeps the invariant.
LEMMA EndFlushStep ==
    ASSUME IInv, EndFlush
    PROVE  IInv'
<1>1. work # <<>>
  BY DEF EndFlush, Running
<1>2. work' \in Seq(Call) /\ CallsUsed(work', lastStreamId, pushStreamId)
  <2>1. CASE Return
    BY <1>1, <2>1, ReturnType
  <2>2. CASE Becomes(<<[Do("schedule", 0) EXCEPT !.round = Top.round + 1]>>)
    <3>1. Top.round + 1 \in Nat
      BY <1>1, TopType DEF Call
    <3>2. PICK n \in Nat : n = Top.round + 1
      BY <3>1
    <3>3. PICK c \in Call : c = Do("schedule", 0) /\ c.op = "schedule"
      <4>1. Do("schedule", 0) \in Call
        BY DoType
      <4>2. Do("schedule", 0).op = "schedule"
        BY DEF Do
      <4> QED
        BY <4>1, <4>2
    <3> DEFINE new == [c EXCEPT !.round = n]
    <3>4. new \in Call /\ new.op \notin StreamOp
      BY <3>3 DEF Call, StreamOp
    <3>5. Becomes(<<new>>)
      BY <2>2, <3>2, <3>3
    <3> HIDE DEF new
    <3> QED
      BY <1>1, <3>4, <3>5, OneCall, BecomesType
  <2> QED
    BY <2>1, <2>2 DEF EndFlush
<1>3. TypeOK'
  BY <1>2 DEF IInv, TypeOK, EndFlush, tree, ids, windows, assembly
<1>4. WorkUsed'
  BY <1>2 DEF EndFlush, WorkUsed, ids
<1> QED
  BY <1>3, <1>4, CalmStep DEF EndFlush, IInv, FragmentsFit, ids, windows

\* The next chunk that a handler reads of its file keeps the invariant.
LEMMA SendChunkStep ==
    ASSUME IInv, SendChunk
    PROVE  IInv'
<1>1. work # <<>> /\ Top.op = "callback"
  BY DEF SendChunk, Running
<1>2. PICK s : s = Top.stream
  OBVIOUS
<1>3. s \in StreamId /\ UsedBy(s, lastStreamId, pushStreamId) /\ stream[s] \in Stream
  BY <1>1, <1>2, StreamTop DEF StreamOp
<1>4. PICK st \in Stream : st = stream[s] /\ Fit(st)
  BY <1>3 DEF IInv, FragmentsFit
<1>5. PICK todo \in Seq(Nat) : todo = st.todo
  BY DEF Stream
<1>6. work' \in Seq(Call) /\ CallsUsed(work', lastStreamId, pushStreamId)
  <2>1. Becomes(<<Do("schedule", 0)>>) \/ Becomes(<<Do("release", s)>>)
    BY <1>2 DEF SendChunk
  <2> QED
    BY <1>1, <1>3, <2>1, BecomesType, DoCall, StreamCall DEF StreamOp
<1>7. /\ stream' \in [StreamId -> Stream]
      /\ \A x \in StreamId : Fit(stream'[x]) /\ stream'[x].sendWindow = stream[x].sendWindow
  <2>1. CASE todo # <<>>
    <3>1. PICK last \in BOOLEAN : last = (Len(st.todo) = 1 /\ ~st.cut)
      OBVIOUS
    <3>2. PICK fragment \in Fragment :
             /\ fragment = Chunk(Head(todo), last, "chunk")
             /\ fragment.offset <= fragment.size
      <4>1. Head(todo) \in Nat
        BY <2>1
      <4> QED
        BY <4>1, ChunkType DEF Callback
    <3>3. PICK rest \in Seq(Nat) : rest = Tail(todo)
      <4>1. Tail(todo) \in Seq(Nat)
        BY <2>1
      <4> QED
        BY <4>1
    <3>4. PICK read \in Stream : /\ read = [st EXCEPT !.todo = rest]
                                 /\ read.pending = st.pending
                                 /\ read.sendWindow = st.sendWindow
      <4> DEFINE read == [st EXCEPT !.todo = rest]
      <4>1. read \in Stream /\ read.pending = st.pending /\ read.sendWindow = st.sendWindow
        BY DEF Stream
      <4> HIDE DEF read
      <4> QED
        BY <4>1 DEF read
    <3>5. Fit(read)
      BY <1>4, <3>4 DEF Fit
    <3>6. PICK new \in Stream :
             /\ new = [read EXCEPT !.pending = Append(read.pending, fragment)]
             /\ Fit(new) /\ new.sendWindow = read.sendWindow
      BY <3>2, <3>5, HeldType
    <3>7. stream' = [stream EXCEPT ![s].todo = Tail(@),
                                   ![s].pending = Append(@, fragment)]
      BY <1>2, <1>4, <1>5, <2>1, <3>1, <3>2 DEF SendChunk
    <3>8. stream' = [stream EXCEPT ![s] = new]
      BY <1>3, <1>4, <1>5, <3>3, <3>4, <3>6, <3>7 DEF IInv, TypeOK
    <3> QED
      BY <1>3, <1>4, <3>4, <3>6, <3>8 DEF IInv, TypeOK, FragmentsFit
  <2>2. CASE todo = <<>>
    <3>1. stream' = stream
      BY <1>2, <1>4, <1>5, <2>2 DEF SendChunk
    <3> QED
      BY <3>1 DEF IInv, TypeOK, FragmentsFit
  <2> QED
    BY <2>1, <2>2
<1>8. TypeOK'
  BY <1>6, <1>7 DEF IInv, TypeOK, SendChunk, tree, ids, windows, assembly
<1>9. WorkUsed'
  BY <1>6 DEF SendChunk, WorkUsed, ids
<1> QED
  BY <1>7, <1>8, <1>9, CalmStep DEF SendChunk, ids, windows

\* The end of a response, cleaned up by its handler, keeps the invariant.
LEMMA CleanupStep ==
    ASSUME IInv, Cleanup
    PROVE  IInv'
<1>1. work # <<>> /\ Top.op = "callback"
  BY DEF Cleanup, Running
<1>2. Top.stream \in StreamId /\ UsedBy(Top.stream, lastStreamId, pushStreamId)
  BY <1>1, StreamTop DEF StreamOp
<1>3. work' \in Seq(Call) /\ CallsUsed(work', lastStreamId, pushStreamId)
  <2>1. Becomes(<<Do("release", Top.stream)>>) \/ Return
    BY DEF Cleanup
  <2> QED
    BY <1>1, <1>2, <2>1, BecomesType, ReturnType, StreamCall DEF StreamOp
<1>4. TypeOK'
  BY <1>3 DEF IInv, TypeOK, Cleanup, tree, ids, windows, assembly
<1>5. WorkUsed'
  BY <1>3 DEF Cleanup, WorkUsed, ids
<1> QED
  BY <1>4, <1>5, CalmStep DEF Cleanup, IInv, FragmentsFit, ids, windows

\* The release of the connection, frames handled from inside of it, keeps the invariant.
LEMMA ReleaseStep ==
    ASSUME IInv, Release
    PROVE  IInv'
<1>1. work # <<>>
  BY DEF Release, Running
<1>2. work' \in Seq(Call) /\ CallsUsed(work', lastStreamId, pushStreamId)
  <2>1. Becomes(<<Do("frames", 0)>>) \/ Becomes(<<>>)
    BY DEF Release
  <2> QED
    BY <1>1, <2>1, BecomesType, DoCall, NoCall
<1>3. TypeOK'
  BY <1>2 DEF IInv, TypeOK, Release, tree, ids, windows, assembly
<1>4. WorkUsed'
  BY <1>2 DEF Release, WorkUsed, ids
<1> QED
  BY <1>3, <1>4, CalmStep DEF Release, IInv, FragmentsFit, ids, windows

\* The closing of a stream whose response is over keeps the invariant.
LEMMA SettleStep ==
    ASSUME IInv, Settle
    PROVE  IInv'
<1> DEFINE s == Top.stream
           stale == ~(Top.slot <= Len(table) /\ s \in Live /\ Slot(s) = Top.slot)
<1>1. work # <<>>
  BY DEF Settle, Running
<1>2. CASE stale
  <2>1. fault' = TRUE /\ CloseSession /\ work' = <<>> /\ UNCHANGED <<frames, peer>>
    BY <1>2 DEF Settle
  <2>2. WorkUsed' /\ work' \in Seq(Call) /\ fault' \in BOOLEAN
    BY <2>1 DEF WorkUsed, CallsUsed
  <2> QED
    BY <2>1, <2>2, CloseSessionStep
<1>3. CASE ~stale
  <2>1. /\ (Over(stream[s]) /\ CloseStream(s)) \/ UNCHANGED <<table, stream, tree>>
        /\ Return /\ s \in Live
        /\ UNCHANGED <<open, ids, windows, goaway, assembly, lock, buffer, queue,
                       fault, frames, peer>>
    BY <1>3 DEF Settle
  <2>2. work' \in Seq(Call) /\ CallsUsed(work', lastStreamId, pushStreamId)
    BY <1>1, <2>1, ReturnType
  <2>3. WorkUsed'
    BY <2>1, <2>2 DEF WorkUsed, ids
  <2> HIDE DEF s, stale
  <2>4. CASE CloseStream(s)
    <3>1. /\ table' \in Seq(StreamId)
          /\ stream' \in [StreamId -> Stream]
          /\ dependency' \in [StreamId -> StreamId \cup {0}]
          /\ weight' \in [StreamId -> Nat]
      BY <2>1, <2>4, CloseStreamType DEF IInv
    <3>2. TypeOK'
      BY <2>1, <2>2, <3>1 DEF IInv, TypeOK, ids, windows, assembly
    <3> QED
      BY <2>1, <2>3, <2>4, <3>2, CloseStreamStep DEF ids, windows
  <2>5. CASE UNCHANGED <<table, stream, tree>>
    <3>1. TypeOK'
      BY <2>1, <2>2, <2>5 DEF IInv, TypeOK, tree, ids, windows, assembly
    <3> QED
      BY <2>1, <2>3, <2>5, <3>1, CalmStep DEF IInv, FragmentsFit, ids, windows
  <2> QED
    BY <2>1, <2>4, <2>5
<1> QED
  BY <1>2, <1>3

\* The loss of the connection keeps the invariant.
LEMMA PeerClosesStep ==
    ASSUME IInv, PeerCloses
    PROVE  IInv'
<1>1. CloseSession /\ UNCHANGED <<work, fault, frames, peer>>
  BY DEF PeerCloses
<1>2. WorkUsed' /\ work' \in Seq(Call) /\ fault' \in BOOLEAN
  BY <1>1 DEF IInv, TypeOK, WorkUsed, CloseSession, ids
<1> QED
  BY <1>1, <1>2, CloseSessionStep

\* The slot that a stream of the table is in.
LEMMA SlotType ==
    ASSUME TypeOK, NEW s \in Live
    PROVE  Slot(s) \in Nat
<1>1. Len(table) \in Nat
  BY DEF TypeOK
<1>2. \E i \in 1..Len(table) : table[i] = s
  BY DEF Live
<1>3. Slot(s) \in 1..Len(table)
  BY <1>2 DEF Slot
<1> QED
  BY <1>1, <1>3

\* What the completion of a write runs: the callback, and what comes after it.
LEMMA TwoCalls ==
    ASSUME NEW a \in Call, NEW b \in Call, NEW last, NEW push,
           a.stream \in StreamId, UsedBy(a.stream, last, push), b.stream = a.stream
    PROVE  <<a, b>> \in Seq(Call) /\ CallsUsed(<<a, b>>, last, push)
<1>1. <<a, b>> \in Seq(Call) /\ Len(<<a, b>>) = 2 /\ <<a, b>>[1] = a /\ <<a, b>>[2] = b
  OBVIOUS
<1> QED
  BY <1>1 DEF CallsUsed

\* The end of a write, reported by the event loop, keeps the invariant.
LEMMA WrittenStep ==
    ASSUME IInv, Written
    PROVE  IInv'
<1> DEFINE item == Head(queue)
           s == item.stream
<1>1. queue # <<>> /\ work = <<>> /\ UNCHANGED <<fault, frames, peer>>
  BY DEF Written
<1>2. item \in Item /\ Tail(queue) \in Seq(Item)
  BY <1>1 DEF IInv, TypeOK
<1>3. CASE item.callback = "close"
  <2>1. CloseSession /\ UNCHANGED work
    BY <1>3 DEF Written
  <2>2. WorkUsed' /\ work' \in Seq(Call) /\ fault' \in BOOLEAN
    BY <1>1, <2>1 DEF IInv, TypeOK, WorkUsed, CloseSession, ids
  <2> QED
    BY <1>1, <2>1, <2>2, CloseSessionStep
<1>4. CASE item.callback # "close"
  <2>1. /\ queue' = Tail(queue)
        /\ \/ /\ s \in Live
              /\ work' = <<[Do("callback", s) EXCEPT !.callback = item.callback],
                           [Do("settle", s) EXCEPT !.slot = Slot(s)]>>
           \/ UNCHANGED work
        /\ UNCHANGED <<open, table, stream, tree, ids, windows, goaway, assembly,
                       lock, buffer>>
    BY <1>4 DEF Written
  <2>2. work' \in Seq(Call) /\ CallsUsed(work', lastStreamId, pushStreamId)
    <3>1. CASE UNCHANGED work
      BY <3>1 DEF IInv, TypeOK, WorkUsed
    <3>2. CASE /\ s \in Live
               /\ work' = <<[Do("callback", s) EXCEPT !.callback = item.callback],
                            [Do("settle", s) EXCEPT !.slot = Slot(s)]>>
      <4>1. PICK x \in StreamId : x = s /\ UsedBy(x, lastStreamId, pushStreamId)
        BY <3>2, LiveIsUsed DEF Used
      <4>2. PICK n \in Nat : n = Slot(s)
        BY <3>2, SlotType DEF IInv
      <4>3. PICK callback \in Callback : callback = item.callback
        BY <1>2 DEF Item
      <4>4. Do("callback", x) \in Call /\ Do("settle", x) \in Call
        BY DoType
      <4>5. Do("callback", x).stream = x /\ Do("settle", x).stream = x
        BY DEF Do
      <4>6. PICK c \in Call : c = Do("callback", x) /\ c.stream = x
        BY <4>4, <4>5
      <4>7. PICK d \in Call : d = Do("settle", x) /\ d.stream = x
        BY <4>4, <4>5
      <4> DEFINE a == [c EXCEPT !.callback = callback]
                 b == [d EXCEPT !.slot = n]
      <4>8. a \in Call /\ b \in Call /\ a.stream = x /\ b.stream = x
        BY <4>6, <4>7 DEF Call
      <4>9. work' = <<a, b>>
        BY <3>2, <4>1, <4>2, <4>3, <4>6, <4>7
      <4> HIDE DEF a, b
      <4> QED
        BY <4>1, <4>8, <4>9, TwoCalls
    <3> HIDE DEF s, item
    <3> QED
      BY <2>1, <3>1, <3>2
  <2>3. TypeOK'
    BY <1>1, <1>2, <2>1, <2>2 DEF IInv, TypeOK, tree, ids, windows, assembly
  <2>4. WorkUsed'
    BY <2>1, <2>2 DEF WorkUsed, ids
  <2> QED
    BY <1>1, <2>1, <2>3, <2>4, CalmStep DEF IInv, FragmentsFit, ids, windows
<1> QED
  BY <1>3, <1>4

\* The arrival of frames keeps the invariant.
LEMMA ReceiveStep ==
    ASSUME IInv, Receive
    PROVE  IInv'
<1>1. PICK n \in 1..MaxBatch : \E batch \in [1..n -> PeerFrames] : Deliver(batch)
  BY DEF Receive
<1>2. PICK batch \in [1..n -> PeerFrames] : Deliver(batch)
  BY <1>1
<1>3. n \in Nat /\ batch \in Seq(PeerFrames) /\ Len(batch) = n
  BY BoundAssumption
<1>4. /\ work' = <<Do("frames", 0)>> /\ buffer' = buffer \o batch
      /\ UNCHANGED <<open, table, stream, tree, ids, windows, goaway, assembly,
                     lock, queue, fault, peer>>
  BY <1>2 DEF Deliver
<1>5. frames' \in Nat
  <2> DEFINE counted == {i \in 1..Len(batch) : ~Opens(batch[i])}
  <2>1. IsFiniteSet(1..Len(batch)) /\ counted \subseteq 1..Len(batch)
    BY <1>3, FS_Interval
  <2>2. IsFiniteSet(counted)
    BY <2>1, FS_Subset
  <2>3. Cardinality(counted) \in Nat
    BY <2>2, FS_CardinalityType
  <2>4. frames' = frames + Cardinality(counted)
    BY <1>2 DEF Deliver
  <2> HIDE DEF counted
  <2> QED
    BY <2>3, <2>4 DEF IInv, TypeOK
<1>6. buffer' \in Seq(PeerFrames)
  BY <1>3, <1>4 DEF IInv, TypeOK
<1>7. work' \in Seq(Call) /\ CallsUsed(work', lastStreamId, pushStreamId)
  BY <1>4, DoCall
<1>8. TypeOK'
  BY <1>4, <1>5, <1>6, <1>7 DEF IInv, TypeOK, tree, ids, windows, assembly
<1>9. WorkUsed'
  BY <1>4, <1>7 DEF WorkUsed, ids
<1> QED
  BY <1>4, <1>8, <1>9, CalmStep DEF IInv, FragmentsFit, ids, windows

-----------------------------------------------------------------------------
(***************************************************************************)
(* Every step preserves the invariant, and what follows from it.           *)
(***************************************************************************)
\* Every step of the session keeps the invariant.
LEMMA NextIInv == IInv /\ [Next]_vars => IInv'
<1> SUFFICES ASSUME IInv, [Next]_vars PROVE IInv'
  OBVIOUS
<1>1. CASE HandleFrame
  BY <1>1, HandleViolationStep, HandleOversizedStep, RefuseDataStep, HandleDataStep,
     HandleHeadersStep, RefuseHeadersStep, HandleContinuationStep, HandlePriorityStep,
     HandleResetStep, HandleSettingsStep, HandlePingStep, HandleGoawayStep,
     HandleWindowUpdateStep, EndFramesStep, WriteGoawayStep DEF HandleFrame
<1>2. CASE Server /\ ~HandleFrame
  BY <1>2, ServeStep, PushStep, RespondStep, ScheduleStep, FlushStep, EndFlushStep,
     SendChunkStep, CleanupStep, ReleaseStep, SettleStep DEF Server
<1>3. CASE Written \/ Receive \/ PeerCloses
  BY <1>3, WrittenStep, ReceiveStep, PeerClosesStep
<1>4. CASE UNCHANGED vars
  <2>1. TypeOK' /\ FragmentsFit' /\ NoDuplicates'
    BY <1>4 DEF IInv, TypeOK, FragmentsFit, NoDuplicates, vars, session
  <2>2. LiveUsed' /\ WorkUsed' /\ Unsent' /\ PushEven' /\ WindowsAgree'
    BY <1>4 DEF IInv, LiveUsed, WorkUsed, Unsent, Used, PushEven, WindowsAgree, Live,
                vars, session
  <2> QED
    BY <2>1, <2>2 DEF IInv
<1> QED
  BY <1>1, <1>2, <1>3, <1>4 DEF Next

\* The inductive invariant holds in every state of the session.
THEOREM Inductive == Spec => []IInv
BY InitIInv, NextIInv, PTL DEF Spec

\* Every variable of the session keeps its type, for every set of streams, any
\* sizes of the table, of the windows and of the frames, and whatever the
\* handlers answer (http2_connection_t, http2_stream_t, http2_pending_t).
THEOREM TypeCorrect == Spec => []TypeOK
<1>1. IInv => TypeOK
  BY DEF IInv
<1> QED
  BY <1>1, Inductive, PTL

\* The windows of this end are always what the peer has granted less what it
\* has been sent, on the connection and on every stream that is held, through
\* settings, window updates, promises and the stream that moves into the slot of
\* a closed one (_flush, _apply_settings, handle_window_update, close_stream).
THEOREM WindowsAlwaysAgree == Spec => []WindowsAgree
<1>1. IInv => WindowsAgree
  BY DEF IInv
<1> QED
  BY <1>1, Inductive, PTL

\* The payload that was sent never exceeds the credit of the connection, in
\* whatever order updates, settings and completions come (_flush).
THEOREM CreditRespected == Spec => []ConnectionCredit
<1>1. IInv => ConnectionCredit
  <2> SUFFICES ASSUME IInv PROVE ConnectionCredit
    OBVIOUS
  <2>1. peer.connGranted \in Nat /\ peer.connSent \in Nat
    BY DEF IInv, TypeOK, Peer
  <2>2. sendWindow = peer.connGranted - peer.connSent /\ sendWindow >= 0
    BY DEF IInv, WindowsAgree
  <2> QED
    BY <2>1, <2>2 DEF ConnectionCredit
<1> QED
  BY <1>1, Inductive, PTL
-----------------------------------------------------------------------------
(***************************************************************************)
(* The streams, the writes that are outstanding for them and the table.    *)
(*                                                                         *)
(* A response is driven by one thing at a time: the call that serves its   *)
(* message, the one that responds, a write of the queue whose completion   *)
(* runs the callback of the handler, that callback, or a fragment that is  *)
(* held back.  A stream whose message is not over has none of them.        *)
(***************************************************************************)
\* The callbacks that drive a response, the writes that run one of them for s, the calls
\* that serve s, and those that drive its response.
Drive == {"chunk", "cleanup"}
Writes(s) == {item \in Item : item.stream = s /\ item.callback \in Drive}
Serving(s) == {call \in Call : call.stream = s /\ call.op \in {"serve", "respond"}}
Carrying(s) ==
    Serving(s) \cup
    {call \in Call : call.stream = s /\ call.op = "callback" /\ call.callback \in Drive}

\* Some element of a sequence is in M, and one at most is.
SomeIn(q, M) == \E i \in 1..Len(q) : q[i] \in M
OneIn(q, M) == \A i, j \in 1..Len(q) : q[i] \in M /\ q[j] \in M => i = j

\* The response of s, of which st is the stream, q the queue and w the stack, is driven
\* by one thing at most.
DrivenOnce(q, w, st, s) ==
    /\ OneIn(q, Writes(s)) /\ OneIn(w, Carrying(s)) /\ Len(st.pending) <= 1
    /\ SomeIn(q, Writes(s)) => ~SomeIn(w, Carrying(s))
    /\ st.pending # <<>> => ~SomeIn(q, Writes(s)) /\ ~SomeIn(w, Carrying(s))

\* Nothing drives it.
AtRest(q, w, st, s) ==
    ~SomeIn(q, Writes(s)) /\ ~SomeIn(w, Carrying(s)) /\ st.pending = <<>>

\* A message that is not over, or of which a block is gathered, has no response yet; one
\* that is served is not complete, and one that is complete is over for the peer.
InTurn(q, w, st, s, gathered, out) ==
    /\ ~st.end \/ gathered = s => AtRest(q, w, st, s) /\ ~st.complete
    /\ SomeIn(w, Serving(s)) => ~st.complete
    /\ st.complete => out \in {"ended", "reset"}

\* The end of a message shows in the state, and what is left of a fragment is not nothing.
Shows(st) ==
    /\ st.end => st.state \notin {"OPEN", "HALF_CLOSED_LOCAL"}
    /\ \A i \in 1..Len(st.pending) :
          st.pending[i].offset > 0 => st.pending[i].offset < st.pending[i].size

Good(q, w, st, s, gathered, out) ==
    DrivenOnce(q, w, st, s) /\ InTurn(q, w, st, s, gathered, out) /\ Shows(st)
EachIsGood == \A s \in Live : Good(queue, work, stream[s], s, continuation, peer.out[s])

\* Only for a stream that was opened is a completion outstanding.
QueueUsed(q, last, push) ==
    \A i \in 1..Len(q) : q[i].callback \in Drive => UsedBy(q[i].stream, last, push)

\* The streams that were promised.
Promised == {s \in Live : s % 2 = 0}

\* The block that is gathered is of a stream that was opened, or of one that the peer asked
\* for.
AskedFor == continuation # 0 => continuation % 2 # 0 \/ Used(continuation)

SInv ==
    /\ IInv
    /\ Len(table) <= Slots /\ Cardinality(Promised) <= PushLimit
    /\ \A s \in StreamId : s \in Live <=> stream[s].state # "CLOSED"
    /\ EachIsGood
    /\ QueueUsed(queue, lastStreamId, pushStreamId)
    /\ BlockHasAStream /\ AskedFor

-----------------------------------------------------------------------------
(***************************************************************************)
(* Sequences and what is in them.                                          *)
(***************************************************************************)
\* Two sequences, one after the other.
LEMMA InJoined ==
    ASSUME NEW S, NEW a \in Seq(S), NEW b \in Seq(S), NEW M
    PROVE  /\ SomeIn(a \o b, M) <=> SomeIn(a, M) \/ SomeIn(b, M)
           /\ OneIn(a, M) /\ OneIn(b, M) /\ ~(SomeIn(a, M) /\ SomeIn(b, M)) => OneIn(a \o b, M)
<1>. DEFINE u == a \o b
<1>1. PICK m, n : m = Len(a) /\ n = Len(b)
  OBVIOUS
<1>2. /\ m \in Nat /\ n \in Nat /\ Len(u) = m + n
      /\ \A i \in 1..m + n : u[i] = IF i <= m THEN a[i] ELSE b[i - m]
  BY <1>1
<1>. HIDE DEF u
<1>3. \A i \in 1..m : i \in 1..Len(u) /\ u[i] = a[i]
  BY <1>2
<1>4. \A i \in 1..n : i + m \in 1..Len(u) /\ u[i + m] = b[i]
  <2>1. TAKE i \in 1..n
  <2>2. i + m \in 1..m + n /\ ~(i + m <= m) /\ (i + m) - m = i
    BY <1>2
  <2>. QED BY <1>2, <2>2
<1>5. \A i \in 1..Len(u) : \/ i \in 1..m /\ u[i] = a[i]
                           \/ i - m \in 1..n /\ u[i] = b[i - m]
  <2>1. TAKE i \in 1..Len(u)
  <2>2. i <= m => i \in 1..m
    BY <1>2
  <2>3. ~(i <= m) => i - m \in 1..n
    BY <1>2
  <2>. QED BY <1>2, <2>2, <2>3
<1>6. SomeIn(u, M) <=> SomeIn(a, M) \/ SomeIn(b, M)
  BY <1>1, <1>3, <1>4, <1>5 DEF SomeIn
<1>7. ASSUME OneIn(a, M), OneIn(b, M), ~(SomeIn(a, M) /\ SomeIn(b, M)) PROVE OneIn(u, M)
  <2>1. SUFFICES ASSUME NEW i \in 1..Len(u), NEW j \in 1..Len(u), u[i] \in M, u[j] \in M
                 PROVE  i = j
    BY DEF OneIn
  <2>2. CASE i \in 1..m /\ j \in 1..m /\ u[i] = a[i] /\ u[j] = a[j]
    BY <2>1, <2>2, <1>1, <1>7 DEF OneIn
  <2>3. CASE i - m \in 1..n /\ j - m \in 1..n /\ u[i] = b[i - m] /\ u[j] = b[j - m]
    <3>1. i - m = j - m
      BY <2>1, <2>3, <1>1, <1>7 DEF OneIn
    <3>. QED BY <3>1, <1>2, <2>1
  <2>4. ~(SomeIn(a, M) /\ SomeIn(b, M))
    BY <1>7
  <2>5. i \in 1..m /\ u[i] = a[i] => SomeIn(a, M)
    BY <2>1, <1>1 DEF SomeIn
  <2>6. j \in 1..m /\ u[j] = a[j] => SomeIn(a, M)
    BY <2>1, <1>1 DEF SomeIn
  <2>7. i - m \in 1..n /\ u[i] = b[i - m] => SomeIn(b, M)
    BY <2>1, <1>1 DEF SomeIn
  <2>8. j - m \in 1..n /\ u[j] = b[j - m] => SomeIn(b, M)
    BY <2>1, <1>1 DEF SomeIn
  <2>. QED BY <2>2, <2>3, <2>4, <2>5, <2>6, <2>7, <2>8, <1>5
<1>. QED BY <1>6, <1>7 DEF u

\* A sequence of one and one of none.
LEMMA InOne ==
    ASSUME NEW x, NEW M
    PROVE  /\ SomeIn(<<x>>, M) <=> x \in M
           /\ OneIn(<<x>>, M)
           /\ ~SomeIn(<<>>, M) /\ OneIn(<<>>, M)
  BY DEF SomeIn, OneIn

\* The first of a sequence and the rest.
LEMMA InRest ==
    ASSUME NEW S, NEW q \in Seq(S), q # <<>>, NEW M
    PROVE  /\ Tail(q) \in Seq(S)
           /\ SomeIn(q, M) <=> Head(q) \in M \/ SomeIn(Tail(q), M)
           /\ OneIn(q, M) => OneIn(Tail(q), M) /\ ~(Head(q) \in M /\ SomeIn(Tail(q), M))
<1>. DEFINE t == Tail(q)
<1>1. PICK n : n = Len(q)
  OBVIOUS
<1>2. /\ n \in Nat /\ n >= 1 /\ t \in Seq(S) /\ Len(t) = n - 1 /\ Head(q) = q[1]
      /\ \A i \in 1..n - 1 : t[i] = q[i + 1]
  BY <1>1
<1>. HIDE DEF t
<1>3. \A i \in 1..n - 1 : i + 1 \in 1..n /\ i + 1 # 1 /\ t[i] = q[i + 1]
  BY <1>2
<1>4. \A i \in 1..n : i = 1 \/ (i - 1 \in 1..n - 1 /\ t[i - 1] = q[i])
  <2>1. TAKE i \in 1..n
  <2>2. SUFFICES ASSUME i # 1 PROVE i - 1 \in 1..n - 1 /\ t[i - 1] = q[i]
    OBVIOUS
  <2>3. i - 1 \in 1..n - 1 /\ (i - 1) + 1 = i
    BY <1>2, <2>2
  <2>. QED BY <2>3, <1>2
<1>5. 1 \in 1..n
  BY <1>2
<1>6. SomeIn(q, M) <=> Head(q) \in M \/ SomeIn(t, M)
  <2>1. ASSUME SomeIn(q, M) PROVE Head(q) \in M \/ SomeIn(t, M)
    BY <2>1, <1>1, <1>2, <1>4 DEF SomeIn
  <2>2. ASSUME Head(q) \in M PROVE SomeIn(q, M)
    BY <2>2, <1>1, <1>2, <1>5 DEF SomeIn
  <2>3. ASSUME SomeIn(t, M) PROVE SomeIn(q, M)
    BY <2>3, <1>1, <1>2, <1>3 DEF SomeIn
  <2>. QED BY <2>1, <2>2, <2>3
<1>7. ASSUME OneIn(q, M) PROVE OneIn(t, M) /\ ~(Head(q) \in M /\ SomeIn(t, M))
  <2>1. ASSUME NEW i \in 1..n - 1, NEW j \in 1..n - 1, t[i] \in M, t[j] \in M PROVE i = j
    <3>1. i + 1 = j + 1
      BY <2>1, <1>1, <1>3, <1>7 DEF OneIn
    <3>. QED BY <3>1
  <2>2. ASSUME Head(q) \in M, NEW i \in 1..n - 1, t[i] \in M PROVE FALSE
    BY <2>2, <1>1, <1>2, <1>3, <1>5, <1>7 DEF OneIn
  <2>. QED BY <2>1, <2>2, <1>2 DEF OneIn, SomeIn
<1>. QED BY <1>2, <1>6, <1>7 DEF t

\* One more at the end.
LEMMA InAppended ==
    ASSUME NEW S, NEW q \in Seq(S), NEW x \in S, NEW M
    PROVE  /\ Append(q, x) \in Seq(S)
           /\ SomeIn(Append(q, x), M) <=> SomeIn(q, M) \/ x \in M
           /\ OneIn(q, M) /\ ~(SomeIn(q, M) /\ x \in M) => OneIn(Append(q, x), M)
<1>1. Append(q, x) = q \o <<x>> /\ <<x>> \in Seq(S) /\ Append(q, x) \in Seq(S)
  OBVIOUS
<1>2. PICK u, b : u = Append(q, x) /\ b = <<x>>
  OBVIOUS
<1>3. u = q \o b /\ b \in Seq(S)
  BY <1>1, <1>2
<1>4. /\ SomeIn(u, M) <=> SomeIn(q, M) \/ SomeIn(b, M)
      /\ OneIn(q, M) /\ OneIn(b, M) /\ ~(SomeIn(q, M) /\ SomeIn(b, M)) => OneIn(u, M)
  BY <1>3, InJoined
<1>5. (SomeIn(b, M) <=> x \in M) /\ OneIn(b, M)
  BY <1>2, InOne
<1>. QED BY <1>1, <1>2, <1>4, <1>5

-----------------------------------------------------------------------------
(***************************************************************************)
(* What a step leaves of the streams that it is not about.                 *)
(***************************************************************************)
\* A sequence that has no more of M in it than another.
Narrows(q2, q, M) ==
    /\ OneIn(q, M) => OneIn(q2, M)
    /\ SomeIn(q2, M) => SomeIn(q, M)

QueueNarrows(q2, q) == \A s \in StreamId \cup {0} : Narrows(q2, q, Writes(s))
WorkNarrows(w2, w) ==
    \A s \in StreamId : Narrows(w2, w, Carrying(s)) /\ Narrows(w2, w, Serving(s))

\* Writes without a callback of a handler, and calls that drive no response.
Quiet(items) == \A i \in 1..Len(items) : items[i].callback \notin Drive
Light(calls) == \A i \in 1..Len(calls) : calls[i].op \notin {"serve", "respond", "callback"}

\* Two contents of a stream that differ in nothing its response depends on.
Alike(st2, st) ==
    st2.state = st.state /\ st2.end = st.end /\ st2.complete = st.complete /\ st2.pending = st.pending

\* A stream stays as it was when nothing more comes to drive it.
LEMMA StaysGood ==
    ASSUME NEW q, NEW w, NEW st, NEW s, NEW g, NEW out, Good(q, w, st, s, g, out),
           NEW q2, NEW w2, NEW st2, NEW g2, NEW out2,
           Narrows(q2, q, Writes(s)),
           Narrows(w2, w, Carrying(s)), Narrows(w2, w, Serving(s)), Alike(st2, st),
           g2 = s => g = s, out2 = out \/ out2 \in {"ended", "reset"}
    PROVE  Good(q2, w2, st2, s, g2, out2)
<1>1. DrivenOnce(q2, w2, st2, s)
  BY DEF Good, DrivenOnce, Narrows, Alike
<1>2. InTurn(q2, w2, st2, s, g2, out2)
  BY DEF Good, InTurn, AtRest, Narrows, Alike
<1>3. Shows(st2)
  BY DEF Good, Shows, Alike
<1>. QED BY <1>1, <1>2, <1>3 DEF Good

\* Quiet writes at the end of the queue.
LEMMA QueueGrows ==
    ASSUME NEW q \in Seq(Item), NEW items \in Seq(Item), Quiet(items)
    PROVE  QueueNarrows(q \o items, q)
<1>1. SUFFICES ASSUME NEW s \in StreamId \cup {0} PROVE Narrows(q \o items, q, Writes(s))
  BY DEF QueueNarrows
<1>2. ~SomeIn(items, Writes(s)) /\ OneIn(items, Writes(s))
  BY DEF Quiet, SomeIn, OneIn, Writes
<1>. QED BY <1>2, InJoined DEF Narrows

\* One of them, as the handlers of the frames write it.
LEMMA QueueGrowsByOne ==
    ASSUME NEW q \in Seq(Item), NEW item \in Item, item.callback \notin Drive
    PROVE  QueueNarrows(Append(q, item), q)
<1>1. SUFFICES ASSUME NEW s \in StreamId \cup {0} PROVE Narrows(Append(q, item), q, Writes(s))
  BY DEF QueueNarrows
<1>2. item \notin Writes(s)
  BY DEF Writes
<1>. QED BY <1>2, InAppended DEF Narrows

\* Light calls before the others, or in place of the first.
LEMMA WorkGrows ==
    ASSUME NEW w \in Seq(Call), NEW calls \in Seq(Call), Light(calls)
    PROVE  /\ WorkNarrows(calls \o w, w)
           /\ w # <<>> => WorkNarrows(calls \o Tail(w), w)
<1>1. ASSUME NEW M, M \in {Carrying(s) : s \in StreamId} \cup {Serving(s) : s \in StreamId}
      PROVE  /\ Narrows(calls \o w, w, M)
             /\ w # <<>> => Narrows(calls \o Tail(w), w, M)
  <2>1. ~SomeIn(calls, M) /\ OneIn(calls, M)
    BY <1>1 DEF Light, SomeIn, OneIn, Carrying, Serving
  <2>2. Narrows(calls \o w, w, M)
    BY <2>1, InJoined DEF Narrows
  <2>3. ASSUME w # <<>> PROVE Narrows(calls \o Tail(w), w, M)
    <3>1. /\ Tail(w) \in Seq(Call)
          /\ SomeIn(Tail(w), M) => SomeIn(w, M)
          /\ OneIn(w, M) => OneIn(Tail(w), M)
      BY <2>3, InRest
    <3>2. PICK t : t = Tail(w)
      OBVIOUS
    <3>3. /\ SomeIn(calls \o t, M) <=> SomeIn(calls, M) \/ SomeIn(t, M)
          /\ OneIn(calls, M) /\ OneIn(t, M) /\ ~(SomeIn(calls, M) /\ SomeIn(t, M))
                => OneIn(calls \o t, M)
      BY <3>1, <3>2, InJoined
    <3>. QED BY <2>1, <3>1, <3>2, <3>3 DEF Narrows
  <2>. QED BY <2>2, <2>3
<1>. QED BY <1>1 DEF WorkNarrows

\* Of the session itself.
LEMMA LightCall ==
    ASSUME NEW op \in {"frames", "goaway", "schedule"}
    PROVE  Light(<<Do(op, 0)>>) /\ <<Do(op, 0)>> \in Seq(Call) /\ Light(<<>>)
  BY DoType DEF Light, Do

\* What the actions say of the stack.
LEMMA StackNarrows ==
    ASSUME TypeOK, work # <<>>
    PROVE  /\ WorkNarrows(work, work)
           /\ Return => WorkNarrows(work', work)
           /\ ConnectionError => WorkNarrows(work', work)
           /\ \A calls \in Seq(Call) : Light(calls) /\ Calls(calls) => WorkNarrows(work', work)
           /\ \A calls \in Seq(Call) : Light(calls) /\ Becomes(calls) => WorkNarrows(work', work)
<1>1. work \in Seq(Call) /\ Tail(work) \in Seq(Call)
  BY DEF TypeOK
<1>2. WorkNarrows(work, work)
  BY DEF WorkNarrows, Narrows
<1>3. \A calls \in Seq(Call) : Light(calls) /\ Calls(calls) => WorkNarrows(work', work)
  BY <1>1, WorkGrows DEF Calls
<1>4. \A calls \in Seq(Call) : Light(calls) /\ Becomes(calls) => WorkNarrows(work', work)
  BY <1>1, WorkGrows DEF Becomes
<1>5. ASSUME Return PROVE Becomes(<<>>) /\ <<>> \in Seq(Call) /\ Light(<<>>)
  BY <1>1, <1>5 DEF Return, Becomes, Light
<1>6. ASSUME ConnectionError PROVE WorkNarrows(work', work)
  BY <1>4, <1>6, LightCall DEF ConnectionError
<1>. QED BY <1>2, <1>3, <1>4, <1>5, <1>6

\* Only for streams that were opened, then.
LEMMA NarrowsIsUsed ==
    ASSUME NEW q2 \in Seq(Item), NEW q, QueueNarrows(q2, q), NEW last, NEW push,
           QueueUsed(q, last, push)
    PROVE  QueueUsed(q2, last, push)
<1>1. SUFFICES ASSUME NEW i \in 1..Len(q2), q2[i].callback \in Drive
               PROVE  UsedBy(q2[i].stream, last, push)
  BY DEF QueueUsed
<1>2. PICK s : s = q2[i].stream
  OBVIOUS
<1>3. q2[i] \in Item /\ s \in StreamId \cup {0}
  <2>1. q2[i] \in Item
    OBVIOUS
  <2>. QED BY <1>2, <2>1 DEF Item
<1>4. q2[i] \in Writes(s)
  BY <1>1, <1>2, <1>3 DEF Writes
<1>5. SomeIn(q, Writes(s))
  BY <1>3, <1>4 DEF QueueNarrows, Narrows, SomeIn
<1>. QED BY <1>2, <1>5 DEF SomeIn, Writes, QueueUsed

\* A step that opens and closes no stream and drives no response keeps the invariant: most
\* handlers of frames are such a step.
LEMMA QuietSound ==
    ASSUME SInv, IInv', UNCHANGED <<table, lastStreamId, pushStreamId>>,
           \A s \in StreamId : Alike(stream'[s], stream[s]),
           QueueNarrows(queue', queue), WorkNarrows(work', work),
           \A s \in Live : continuation' = s => continuation = s,
           BlockHasAStream', AskedFor',
           \A s \in Live : peer'.out[s] = peer.out[s] \/ peer'.out[s] \in {"ended", "reset"}
    PROVE  SInv'
<1>1. Live' = Live /\ Promised' = Promised /\ Live \subseteq StreamId
  BY LiveType DEF Live, Promised, SInv, IInv
<1>2. Len(table') <= Slots /\ Cardinality(Promised') <= PushLimit
  BY <1>1 DEF SInv
<1>3. \A s \in StreamId : s \in Live' <=> stream'[s].state # "CLOSED"
  BY <1>1 DEF SInv, Alike
<1>4. EachIsGood'
  <2>1. SUFFICES ASSUME NEW s \in Live
                 PROVE  Good(queue', work', stream'[s], s, continuation', peer'.out[s])
    BY <1>1 DEF EachIsGood
  <2>2. Good(queue, work, stream[s], s, continuation, peer.out[s]) /\ s \in StreamId
    BY <1>1 DEF SInv, EachIsGood
  <2>3. Narrows(queue', queue, Writes(s))
    BY <2>2 DEF QueueNarrows
  <2>4. Narrows(work', work, Carrying(s)) /\ Narrows(work', work, Serving(s))
    BY <2>2 DEF WorkNarrows
  <2>. QED BY <2>2, <2>3, <2>4, StaysGood
<1>5. QueueUsed(queue', lastStreamId', pushStreamId')
  BY NarrowsIsUsed DEF SInv, IInv, TypeOK
<1>. QED BY <1>2, <1>3, <1>4, <1>5 DEF SInv

\* The block that is gathered stays what it was.
LEMMA BlockStays ==
    ASSUME SInv, UNCHANGED <<open, table, ids, assembly>>
    PROVE  /\ BlockHasAStream' /\ AskedFor'
           /\ \A s \in Live : continuation' = s => continuation = s
<1>1. /\ open' = open /\ table' = table /\ lastStreamId' = lastStreamId
      /\ pushStreamId' = pushStreamId /\ continuation' = continuation /\ refused' = refused
  BY DEF ids, assembly
<1>2. Live' = Live
  BY <1>1 DEF Live
<1>3. BlockHasAStream'
  BY <1>1, <1>2 DEF SInv, BlockHasAStream
<1>4. AskedFor'
  BY <1>1 DEF SInv, AskedFor, Used
<1>. QED BY <1>1, <1>3, <1>4

\* A step that leaves the streams and their table alone and writes nothing about a response.
LEMMA IdleSound ==
    ASSUME SInv, IInv', UNCHANGED <<open, table, stream, ids, assembly>>,
           QueueNarrows(queue', queue), WorkNarrows(work', work),
           UNCHANGED peer
    PROVE  SInv'
<1>1. /\ table' = table /\ lastStreamId' = lastStreamId /\ pushStreamId' = pushStreamId
      /\ stream' = stream
  BY DEF ids
<1>2. \A s \in StreamId : Alike(stream'[s], stream[s])
  BY <1>1 DEF Alike
<1>3. /\ BlockHasAStream' /\ AskedFor'
      /\ \A s \in Live : continuation' = s => continuation = s
  BY BlockStays
<1>. QED BY <1>1, <1>2, <1>3, QuietSound

\* The types that the next lemmas use.
LEMMA SoundTypes ==
    ASSUME SInv
    PROVE  /\ TypeOK /\ IInv /\ queue \in Seq(Item) /\ work \in Seq(Call)
           /\ stream \in [StreamId -> Stream] /\ table \in Seq(StreamId)
           /\ Live \subseteq StreamId /\ peer \in Peer
           /\ QueueNarrows(queue, queue) /\ WorkNarrows(work, work)
  BY LiveType DEF SInv, IInv, TypeOK, QueueNarrows, WorkNarrows, Narrows

\* A frame that violates the protocol.
LEMMA HandleViolationSound ==
    ASSUME SInv, IInv', HandleViolation
    PROVE  SInv'
<1>1. /\ work # <<>> /\ ConnectionError
      /\ UNCHANGED <<open, table, stream, ids, assembly, queue, peer>>
  BY DEF HandleViolation, Taking, Running
<1>. QED BY <1>1, SoundTypes, StackNarrows, IdleSound

\* A frame that is too large.
LEMMA HandleOversizedSound ==
    ASSUME SInv, IInv', HandleOversized
    PROVE  SInv'
<1>1. /\ work # <<>> /\ ConnectionError
      /\ UNCHANGED <<open, table, stream, ids, assembly, queue, peer>>
  BY DEF HandleOversized, Running
<1>. QED BY <1>1, SoundTypes, StackNarrows, IdleSound

\* A PRIORITY only changes the tree.
LEMMA HandlePrioritySound ==
    ASSUME SInv, IInv', HandlePriority
    PROVE  SInv'
<1>1. UNCHANGED <<open, table, stream, ids, assembly, queue, work, peer>>
  BY DEF HandlePriority
<1>. QED BY <1>1, SoundTypes, IdleSound

\* A PING is answered.
LEMMA HandlePingSound ==
    ASSUME SInv, IInv', HandlePing
    PROVE  SInv'
<1>1. /\ queue' = Append(queue, Plain("PING", 0))
      /\ UNCHANGED <<open, table, stream, ids, assembly, work, peer>>
  BY DEF HandlePing
<1>2. Plain("PING", 0) \in Item /\ Plain("PING", 0).callback \notin Drive
  BY PlainType DEF FrameType, Plain, Drive
<1>. QED BY <1>1, <1>2, SoundTypes, QueueGrowsByOne, IdleSound

\* A GOAWAY of the peer is noted.
LEMMA HandleGoawaySound ==
    ASSUME SInv, IInv', HandleGoaway
    PROVE  SInv'
<1>1. UNCHANGED <<open, table, stream, ids, assembly, queue, work, peer>>
  BY DEF HandleGoaway
<1>. QED BY <1>1, SoundTypes, IdleSound

\* There are no frames left.
LEMMA EndFramesSound ==
    ASSUME SInv, IInv', EndFrames
    PROVE  SInv'
<1>1. /\ work # <<>> /\ Return
      /\ UNCHANGED <<open, table, stream, ids, assembly, queue, peer>>
  BY DEF EndFrames, Running
<1>. QED BY <1>1, SoundTypes, StackNarrows, IdleSound

\* The scheduler chooses a stream, or ends.
LEMMA ScheduleSound ==
    ASSUME SInv, IInv', Schedule
    PROVE  SInv'
<1>1. /\ work # <<>>
      /\ UNCHANGED <<open, table, stream, ids, assembly, queue, peer>>
  BY DEF Schedule, Running
<1>2. ASSUME NEW i \in Writable,
             Becomes(<<[Top EXCEPT !.op = "flush", !.stream = table[i],
                                   !.count = Len(stream[table[i]].pending)]>>)
      PROVE  WorkNarrows(work', work)
  <2>. DEFINE call == [Top EXCEPT !.op = "flush", !.stream = table[i],
                                  !.count = Len(stream[table[i]].pending)]
  <2>1. Top \in Call /\ table[i] \in StreamId /\ Len(stream[table[i]].pending) \in Nat
    <3>1. i \in 1..Len(table)
      BY DEF Writable
    <3>2. table[i] \in StreamId
      BY <3>1, SoundTypes
    <3>3. stream[table[i]].pending \in Seq(Fragment)
      BY <3>2, SoundTypes DEF Stream
    <3>. QED BY <1>1, <3>2, <3>3, SoundTypes, TopType
  <2>2. call \in Call /\ call.op = "flush"
    BY <2>1 DEF Call
  <2>. HIDE DEF call
  <2>3. <<call>> \in Seq(Call) /\ Light(<<call>>)
    BY <2>2 DEF Light
  <2>4. Becomes(<<call>>)
    BY <1>2 DEF call
  <2>. QED BY <1>1, <2>3, <2>4, SoundTypes, StackNarrows
<1>3. WorkNarrows(work', work)
  BY <1>1, <1>2, SoundTypes, StackNarrows DEF Schedule
<1>. QED BY <1>1, <1>3, SoundTypes, IdleSound

\* A round of the scheduler ends.
LEMMA EndFlushSound ==
    ASSUME SInv, IInv', EndFlush
    PROVE  SInv'
<1>1. /\ work # <<>>
      /\ UNCHANGED <<open, table, stream, ids, assembly, queue, peer>>
  BY DEF EndFlush, Running
<1>. DEFINE call == [Do("schedule", 0) EXCEPT !.round = Top.round + 1]
<1>2. Return \/ Becomes(<<call>>)
  BY DEF EndFlush
<1>3. call \in Call /\ call.op = "schedule"
  <2>1. Top \in Call
    BY <1>1, SoundTypes, TopType
  <2>. QED BY <2>1, DoType DEF Do, Call
<1>. HIDE DEF call
<1>4. <<call>> \in Seq(Call) /\ Light(<<call>>)
  BY <1>3 DEF Light
<1>. QED BY <1>1, <1>2, <1>4, SoundTypes, StackNarrows, IdleSound

\* The clean up of a request leads to the release of the connection.
LEMMA CleanupSound ==
    ASSUME SInv, IInv', Cleanup
    PROVE  SInv'
<1>1. /\ work # <<>> /\ Running("callback")
      /\ UNCHANGED <<open, table, stream, ids, assembly, queue, peer>>
  BY DEF Cleanup, Running
<1>2. Return \/ Becomes(<<Do("release", Top.stream)>>)
  BY DEF Cleanup
<1>3. <<Do("release", Top.stream)>> \in Seq(Call) /\ Light(<<Do("release", Top.stream)>>)
  <2>1. Top.stream \in StreamId
    BY <1>1, SoundTypes, TopType DEF Running, StreamOp
  <2>. QED BY <2>1, DoType DEF Do, Light
<1>. QED BY <1>1, <1>2, <1>3, SoundTypes, StackNarrows, IdleSound

\* The connection is released and may have its frames handled.
LEMMA ReleaseSound ==
    ASSUME SInv, IInv', Release
    PROVE  SInv'
<1>1. /\ work # <<>>
      /\ UNCHANGED <<open, table, stream, ids, assembly, queue, peer>>
  BY DEF Release, Running
<1>2. Becomes(<<Do("frames", 0)>>) \/ Becomes(<<>>)
  BY DEF Release
<1>3. <<>> \in Seq(Call)
  OBVIOUS
<1>. QED BY <1>1, <1>2, <1>3, LightCall, SoundTypes, StackNarrows, IdleSound

\* Frames are read.
LEMMA ReceiveSound ==
    ASSUME SInv, IInv', Receive
    PROVE  SInv'
<1>1. /\ work = <<>> /\ work' = <<Do("frames", 0)>>
      /\ UNCHANGED <<open, table, stream, ids, assembly, queue, peer>>
  BY DEF Receive, Deliver
<1>2. WorkNarrows(<<Do("frames", 0)>> \o work, work)
  BY LightCall, SoundTypes, WorkGrows
<1>3. <<Do("frames", 0)>> \o work = <<Do("frames", 0)>>
  BY <1>1, LightCall
<1>. QED BY <1>1, <1>2, <1>3, SoundTypes, IdleSound

\* A refused DATA only moves the windows that it came through.
LEMMA RefuseDataSound ==
    ASSUME SInv, IInv', RefuseData
    PROVE  SInv'
<1>1. /\ work # <<>> /\ buffer # <<>> /\ ConnectionError
      /\ UNCHANGED <<open, table, ids, assembly, queue, peer>>
      /\ \/ stream' = stream
         \/ stream' = [stream EXCEPT ![Head(buffer).stream].receiveWindow =
                                         @ - Head(buffer).size]
  BY DEF RefuseData, Taking, Running
<1>2. \A s \in StreamId : Alike(stream'[s], stream[s])
  <2>1. stream \in [StreamId -> Stream]
    BY SoundTypes
  <2>2. ASSUME NEW st \in Stream, NEW n PROVE Alike([st EXCEPT !.receiveWindow = n], st)
    BY DEF Alike, Stream
  <2>3. \A s \in StreamId :
           stream'[s] = stream[s] \/ \E n : stream'[s] = [stream[s] EXCEPT !.receiveWindow = n]
    BY <1>1, <2>1
  <2>4. ASSUME NEW s \in StreamId PROVE Alike(stream'[s], stream[s])
    <3>1. stream[s] \in Stream
      BY <2>1
    <3>2. CASE stream'[s] = stream[s]
      BY <3>2 DEF Alike
    <3>3. CASE \E n : stream'[s] = [stream[s] EXCEPT !.receiveWindow = n]
      BY <3>1, <3>3, <2>2
    <3>. QED BY <3>2, <3>3, <2>3
  <2>. QED BY <2>4
<1>3. /\ BlockHasAStream' /\ AskedFor'
      /\ \A s \in Live : continuation' = s => continuation = s
  BY <1>1, BlockStays
<1>. QED BY <1>1, <1>2, <1>3, SoundTypes, StackNarrows, QuietSound DEF ids

\* The headers of a stream in excess are dropped, and the stream refused.
LEMMA RefuseHeadersSound ==
    ASSUME SInv, IInv', RefuseHeaders
    PROVE  SInv'
<1>. DEFINE f == Head(buffer)
            s == f.stream
<1>1. /\ work # <<>> /\ buffer # <<>> /\ f.type = "HEADERS" /\ ~Violates(f) /\ s \notin Live
      /\ UNCHANGED <<open, table, stream, ids, peer>>
      /\ queue' = Append(queue, Plain("RST_STREAM", s))
  BY DEF RefuseHeaders, Taking, Running
<1>2. s \in StreamId /\ s \in Nat
  BY <1>1, SoundTypes, TakingType, FrameAssumption, StreamIdAssumption
<1>3. s % 2 # 0
  BY <1>1 DEF Violates
<1>4. QueueNarrows(queue', queue)
  <2>1. Plain("RST_STREAM", s) \in Item /\ Plain("RST_STREAM", s).callback \notin Drive
    BY <1>2, PlainType DEF FrameType, Plain, Drive
  <2>. QED BY <1>1, <2>1, SoundTypes, QueueGrowsByOne
<1>5. WorkNarrows(work', work)
  <2>1. work' = work \/ ConnectionError
    BY DEF RefuseHeaders
  <2>. QED BY <1>1, <2>1, SoundTypes, StackNarrows
<1>6. continuation' = 0 \/ (continuation' = s /\ refused' = s)
  BY DEF RefuseHeaders
<1>7. 0 \notin StreamId
  BY StreamIdAssumption
<1>8. \A x \in Live : continuation' = x => continuation = x
  BY <1>1, <1>6, <1>7, SoundTypes
<1>9. BlockHasAStream' /\ AskedFor'
  BY <1>3, <1>6 DEF BlockHasAStream, AskedFor
<1>10. \A x \in StreamId : Alike(stream'[x], stream[x])
  BY <1>1 DEF Alike
<1>. QED BY <1>1, <1>4, <1>5, <1>8, <1>9, <1>10, QuietSound DEF ids

\* What SETTINGS do to the streams that are held and to the queue.
LEMMA SettingsMove ==
    ASSUME SInv, HandleSettings
    PROVE  /\ \/ ConnectionError /\ queue' = queue
              \/ Calls(<<Do("schedule", 0)>>) /\ queue' = Append(queue, Plain("SETTINGS", 0))
           /\ peer'.out = peer.out
           /\ \A s \in StreamId :
                 stream'[s] = stream[s] \/ \E n : stream'[s] = [stream[s] EXCEPT !.sendWindow = n]
<1>. DEFINE difference == Head(buffer).size - initialWindow
            overflows == {i \in 1..Len(table) : difference > 0 /\
                            stream[table[i]].sendWindow > MaxWindow - difference}
            moved == {table[i] : i \in {j \in 1..Len(table) : \A k \in overflows : j < k}}
<1>1. /\ stream' = [s \in StreamId |-> IF s \in moved
                       THEN [stream[s] EXCEPT !.sendWindow = @ + difference]
                       ELSE stream[s]]
      /\ peer' = [peer EXCEPT !.granted = [s \in StreamId |->
                      IF s \in moved THEN @[s] + difference ELSE @[s]]]
      /\ IF overflows # {}
         THEN ConnectionError /\ UNCHANGED queue
         ELSE /\ queue' = Append(queue, Plain("SETTINGS", 0))
              /\ Calls(<<Do("schedule", 0)>>)
  BY DEF HandleSettings
<1>. HIDE DEF difference, overflows, moved
<1>2. peer'.out = peer.out
  BY <1>1, SoundTypes DEF Peer
<1>3. \A s \in StreamId :
         stream'[s] = stream[s] \/ \E n : stream'[s] = [stream[s] EXCEPT !.sendWindow = n]
  BY <1>1
<1>. QED BY <1>1, <1>2, <1>3

\* SETTINGS move the windows of the streams that are held.
LEMMA HandleSettingsSound ==
    ASSUME SInv, IInv', HandleSettings
    PROVE  SInv'
<1>1. /\ work # <<>>
      /\ UNCHANGED <<open, table, ids, assembly>>
  BY DEF HandleSettings, Taking, Running
<1>2. /\ \/ ConnectionError /\ queue' = queue
         \/ Calls(<<Do("schedule", 0)>>) /\ queue' = Append(queue, Plain("SETTINGS", 0))
      /\ peer'.out = peer.out
      /\ \A s \in StreamId :
            stream'[s] = stream[s] \/ \E n : stream'[s] = [stream[s] EXCEPT !.sendWindow = n]
  BY SettingsMove
<1>3. \A s \in StreamId : Alike(stream'[s], stream[s])
  <2>1. ASSUME NEW st \in Stream, NEW n PROVE Alike([st EXCEPT !.sendWindow = n], st)
    BY DEF Alike, Stream
  <2>2. ASSUME NEW s \in StreamId PROVE Alike(stream'[s], stream[s])
    <3>1. stream[s] \in Stream
      BY SoundTypes
    <3>2. CASE stream'[s] = stream[s]
      BY <3>2 DEF Alike
    <3>3. CASE \E n : stream'[s] = [stream[s] EXCEPT !.sendWindow = n]
      BY <3>1, <3>3, <2>1
    <3>. QED BY <3>2, <3>3, <1>2
  <2>. QED BY <2>2
<1>4. QueueNarrows(queue', queue)
  <2>1. Plain("SETTINGS", 0) \in Item /\ Plain("SETTINGS", 0).callback \notin Drive
    BY PlainType DEF FrameType, Plain, Drive
  <2>. QED BY <1>2, <2>1, SoundTypes, QueueGrowsByOne
<1>5. WorkNarrows(work', work)
  BY <1>1, <1>2, LightCall, SoundTypes, StackNarrows
<1>6. /\ BlockHasAStream' /\ AskedFor'
      /\ \A s \in Live : continuation' = s => continuation = s
  BY <1>1, BlockStays
<1>. QED BY <1>1, <1>2, <1>3, <1>4, <1>5, <1>6, QuietSound DEF ids

\* A WINDOW_UPDATE moves a window, or has a stream reset.
LEMMA HandleWindowUpdateSound ==
    ASSUME SInv, IInv', HandleWindowUpdate
    PROVE  SInv'
<1>. DEFINE f == Head(buffer)
            s == f.stream
<1>1. /\ work # <<>> /\ buffer # <<>>
      /\ UNCHANGED <<open, table, ids, assembly>>
  BY DEF HandleWindowUpdate, Taking, Running
<1>2. s \in StreamId \cup {0}
  BY <1>1, SoundTypes, TakingType
<1>3. /\ stream' = stream \/ stream' = [stream EXCEPT ![s].sendWindow = @ + f.size]
      /\ queue' = queue \/ queue' = Append(queue, Plain("RST_STREAM", s))
      /\ work' = work \/ Calls(<<Do("schedule", 0)>>)
      /\ \/ peer' = [peer EXCEPT !.connGranted = @ + f.size]
         \/ peer' = [peer EXCEPT !.granted[s] = @ + f.size]
         \/ peer' = [peer EXCEPT !.out[s] = "reset"]
         \/ peer' = peer
  BY DEF HandleWindowUpdate
<1>4. ASSUME NEW x \in StreamId PROVE Alike(stream'[x], stream[x])
  <2>1. ASSUME NEW st \in Stream, NEW n PROVE Alike([st EXCEPT !.sendWindow = n], st)
    BY DEF Alike, Stream
  <2>2. stream[x] \in Stream /\ stream \in [StreamId -> Stream]
    BY SoundTypes
  <2>3. stream'[x] = stream[x] \/ \E n : stream'[x] = [stream[x] EXCEPT !.sendWindow = n]
    <3>1. CASE stream' = stream
      BY <3>1
    <3>2. CASE stream' = [stream EXCEPT ![s].sendWindow = @ + f.size]
      <4>. HIDE DEF s, f
      <4>. QED BY <2>2, <3>2
    <3>. QED BY <1>3, <3>1, <3>2
  <2>4. CASE stream'[x] = stream[x]
    BY <2>4 DEF Alike
  <2>5. CASE \E n : stream'[x] = [stream[x] EXCEPT !.sendWindow = n]
    BY <2>2, <2>5, <2>1
  <2>. QED BY <2>3, <2>4, <2>5
<1>5. QueueNarrows(queue', queue)
  <2>1. Plain("RST_STREAM", s) \in Item /\ Plain("RST_STREAM", s).callback \notin Drive
    BY <1>2, PlainType DEF FrameType, Plain, Drive
  <2>. QED BY <1>3, <2>1, SoundTypes, QueueGrowsByOne
<1>6. WorkNarrows(work', work)
  BY <1>1, <1>3, LightCall, SoundTypes, StackNarrows
<1>7. \A x \in Live : peer'.out[x] = peer.out[x] \/ peer'.out[x] \in {"ended", "reset"}
  <2>1. peer.out \in [StreamId -> {"idle", "open", "reserved", "headers", "ended", "reset"}]
    BY SoundTypes DEF Peer
  <2>2. peer'.out = peer.out \/ peer'.out = [peer.out EXCEPT ![s] = "reset"]
    <3>. HIDE DEF s, f
    <3>. QED BY <1>3, SoundTypes DEF Peer
  <2>. QED BY <2>1, <2>2, SoundTypes
<1>8. /\ BlockHasAStream' /\ AskedFor'
      /\ \A x \in Live : continuation' = x => continuation = x
  BY <1>1, BlockStays
<1>. QED BY <1>1, <1>4, <1>5, <1>6, <1>7, <1>8, QuietSound DEF ids

\* Nothing is held by a session that was closed.
LEMMA CloseSessionSound ==
    ASSUME SInv, IInv', CloseSession
    PROVE  SInv'
<1>1. /\ Live' = {} /\ Len(table') = 0 /\ queue' = <<>> /\ ~open'
      /\ stream' = [s \in StreamId |-> Unused]
      /\ UNCHANGED <<ids, assembly>>
  BY DEF CloseSession, Live
<1>2. Len(table') <= Slots /\ Cardinality(Promised') <= PushLimit
  <2>1. Promised' = {}
    BY <1>1 DEF Promised
  <2>. QED BY <1>1, <2>1, FS_EmptySet, BoundAssumption
<1>3. \A s \in StreamId : s \in Live' <=> stream'[s].state # "CLOSED"
  BY <1>1 DEF Unused, Fresh
<1>4. EachIsGood' /\ BlockHasAStream'
  BY <1>1 DEF EachIsGood, BlockHasAStream
<1>5. QueueUsed(queue', lastStreamId', pushStreamId')
  BY <1>1 DEF QueueUsed
<1>6. AskedFor'
  BY <1>1 DEF SInv, AskedFor, Used, ids, assembly
<1>. QED BY <1>2, <1>3, <1>4, <1>5, <1>6 DEF SInv

\* An error is told to the peer, or closes the session.
LEMMA WriteGoawaySound ==
    ASSUME SInv, IInv', WriteGoaway
    PROVE  SInv'
<1>1. /\ work # <<>> /\ Return /\ UNCHANGED peer
      /\ \/ CloseSession
         \/ /\ UNCHANGED <<open, table, stream, ids, assembly>>
            /\ queue' = Append(queue, [Plain("GOAWAY", 0) EXCEPT !.callback = "close"])
  BY DEF WriteGoaway, Running
<1>. DEFINE item == [Plain("GOAWAY", 0) EXCEPT !.callback = "close"]
<1>2. item \in Item /\ item.callback \notin Drive
  BY DEF Plain, Item, FrameType, Callback, Drive
<1>. HIDE DEF item
<1>3. CASE queue' = Append(queue, item) /\ UNCHANGED <<open, table, stream, ids, assembly>>
  BY <1>1, <1>2, <1>3, SoundTypes, StackNarrows, QueueGrowsByOne, IdleSound
<1>. QED BY <1>1, <1>3, CloseSessionSound DEF item

\* The peer closes the transport.
LEMMA PeerClosesSound ==
    ASSUME SInv, IInv', PeerCloses
    PROVE  SInv'
  BY CloseSessionSound DEF PeerCloses

-----------------------------------------------------------------------------
(***************************************************************************)
(* Steps about one stream.                                                 *)
(***************************************************************************)
\* Nothing more comes to drive the streams other than s.
QueueOthers(q2, q, s) == \A x \in (StreamId \cup {0}) \ {s} : Narrows(q2, q, Writes(x))
WorkOthers(w2, w, s) ==
    \A x \in StreamId \ {s} : Narrows(w2, w, Carrying(x)) /\ Narrows(w2, w, Serving(x))

\* Calls that drive the response of s at most.
About(calls, s) ==
    \A i \in 1..Len(calls) :
        calls[i].op \in {"serve", "respond", "callback"} => calls[i].stream = s

\* A write of s at the end of the queue drives no other response.
LEMMA OthersOfQueue ==
    ASSUME NEW q \in Seq(Item), NEW item \in Item, NEW s, item.stream = s
    PROVE  QueueOthers(Append(q, item), q, s)
<1>1. SUFFICES ASSUME NEW x \in (StreamId \cup {0}) \ {s}
               PROVE  Narrows(Append(q, item), q, Writes(x))
  BY DEF QueueOthers
<1>2. item \notin Writes(x)
  BY DEF Writes
<1>. QED BY <1>2, InAppended DEF Narrows

\* Those of the stack are the calls that are put in front or in place of the first.
LEMMA OthersOfWork ==
    ASSUME NEW w \in Seq(Call), NEW calls \in Seq(Call), NEW s, About(calls, s)
    PROVE  /\ WorkOthers(calls \o w, w, s)
           /\ w # <<>> => WorkOthers(calls \o Tail(w), w, s)
<1>1. ASSUME NEW M, M \in {Carrying(x) : x \in StreamId \ {s}}
                          \cup {Serving(x) : x \in StreamId \ {s}}
      PROVE  /\ Narrows(calls \o w, w, M)
             /\ w # <<>> => Narrows(calls \o Tail(w), w, M)
  <2>1. ~SomeIn(calls, M) /\ OneIn(calls, M)
    BY <1>1 DEF About, SomeIn, OneIn, Carrying, Serving
  <2>2. Narrows(calls \o w, w, M)
    BY <2>1, InJoined DEF Narrows
  <2>3. ASSUME w # <<>> PROVE Narrows(calls \o Tail(w), w, M)
    <3>1. /\ Tail(w) \in Seq(Call)
          /\ SomeIn(Tail(w), M) => SomeIn(w, M)
          /\ OneIn(w, M) => OneIn(Tail(w), M)
      BY <2>3, InRest
    <3>2. PICK t : t = Tail(w)
      OBVIOUS
    <3>3. /\ SomeIn(calls \o t, M) <=> SomeIn(calls, M) \/ SomeIn(t, M)
          /\ OneIn(calls, M) /\ OneIn(t, M) /\ ~(SomeIn(calls, M) /\ SomeIn(t, M))
                => OneIn(calls \o t, M)
      BY <3>1, <3>2, InJoined
    <3>. QED BY <2>1, <3>1, <3>2, <3>3 DEF Narrows
  <2>. QED BY <2>2, <2>3
<1>. QED BY <1>1 DEF WorkOthers

\* What narrows for all does so for the others.
LEMMA NarrowsOthers ==
    ASSUME NEW s
    PROVE  /\ \A q2, q : QueueNarrows(q2, q) => QueueOthers(q2, q, s)
           /\ \A w2, w : WorkNarrows(w2, w) => WorkOthers(w2, w, s)
  BY DEF QueueNarrows, WorkNarrows, QueueOthers, WorkOthers

\* A step that opens and closes no stream and is about s keeps the invariant if s is as it
\* should be after it.
LEMMA OneSound ==
    ASSUME SInv, IInv', UNCHANGED <<table, lastStreamId, pushStreamId>>,
           NEW s \in StreamId,
           \A x \in StreamId \ {s} : stream'[x] = stream[x] /\ peer'.out[x] = peer.out[x],
           stream'[s].state = "CLOSED" <=> stream[s].state = "CLOSED",
           QueueOthers(queue', queue, s), WorkOthers(work', work, s),
           QueueUsed(queue', lastStreamId, pushStreamId),
           \A x \in Live \ {s} : continuation' = x => continuation = x,
           BlockHasAStream', AskedFor',
           s \in Live => Good(queue', work', stream'[s], s, continuation', peer'.out[s])
    PROVE  SInv'
<1>1. Live' = Live /\ Promised' = Promised /\ Live \subseteq StreamId
  BY LiveType DEF Live, Promised, SInv, IInv
<1>2. Len(table') <= Slots /\ Cardinality(Promised') <= PushLimit
  BY <1>1 DEF SInv
<1>3. \A x \in StreamId : x \in Live' <=> stream'[x].state # "CLOSED"
  BY <1>1 DEF SInv
<1>4. EachIsGood'
  <2>1. SUFFICES ASSUME NEW x \in Live
                 PROVE  Good(queue', work', stream'[x], x, continuation', peer'.out[x])
    BY <1>1 DEF EachIsGood
  <2>2. CASE x # s
    <3>1. Good(queue, work, stream[x], x, continuation, peer.out[x]) /\ x \in StreamId \ {s}
      BY <1>1, <2>2 DEF SInv, EachIsGood
    <3>2. Narrows(queue', queue, Writes(x))
      BY <3>1 DEF QueueOthers
    <3>3. Narrows(work', work, Carrying(x)) /\ Narrows(work', work, Serving(x))
      BY <3>1 DEF WorkOthers
    <3>4. Alike(stream'[x], stream[x])
      BY <3>1 DEF Alike
    <3>. QED BY <3>1, <3>2, <3>3, <3>4, <2>2, StaysGood
  <2>. QED BY <2>2
<1>5. QueueUsed(queue', lastStreamId', pushStreamId')
  OBVIOUS
<1>. QED BY <1>2, <1>3, <1>4, <1>5 DEF SInv

\* The call that serves a message is one that drives its response.
LEMMA ServeCall ==
    ASSUME NEW s \in StreamId
    PROVE  /\ <<Do("serve", s)>> \in Seq(Call) /\ About(<<Do("serve", s)>>, s)
           /\ Do("serve", s) \in Carrying(s)
<1>1. Do("serve", s) \in Call /\ Do("serve", s).op = "serve" /\ Do("serve", s).stream = s
  BY DoType DEF Do
<1>. QED BY <1>1 DEF About, Carrying, Serving

\* A stream of which nothing drives the response, and that may be served now.
LEMMA RestsOrIsServed ==
    ASSUME NEW s \in StreamId, NEW q2, NEW w2 \in Seq(Call), NEW st2, NEW g2, NEW out2,
           ~SomeIn(q2, Writes(s)), st2.pending = <<>>, ~st2.complete, Shows(st2),
           \/ ~SomeIn(w2, Carrying(s))
           \/ /\ st2.end /\ g2 # s
              /\ \E v \in Seq(Call) : w2 = <<Do("serve", s)>> \o v /\ ~SomeIn(v, Carrying(s))
    PROVE  Good(q2, w2, st2, s, g2, out2)
<1>1. OneIn(q2, Writes(s))
  BY DEF SomeIn, OneIn
<1>2. ~SomeIn(w2, Carrying(s)) => OneIn(w2, Carrying(s))
  BY DEF SomeIn, OneIn
<1>3. ASSUME NEW v \in Seq(Call), w2 = <<Do("serve", s)>> \o v, ~SomeIn(v, Carrying(s))
      PROVE  OneIn(w2, Carrying(s))
  <2>1. OneIn(v, Carrying(s)) /\ OneIn(<<Do("serve", s)>>, Carrying(s))
    BY <1>3, InOne DEF SomeIn, OneIn
  <2>2. PICK M, u : M = Carrying(s) /\ u = <<Do("serve", s)>>
    OBVIOUS
  <2>3. u \in Seq(Call)
    BY <2>2, ServeCall
  <2>4. OneIn(u, M) /\ OneIn(v, M) /\ ~(SomeIn(u, M) /\ SomeIn(v, M)) => OneIn(u \o v, M)
    BY <2>3, InJoined
  <2>. QED BY <1>3, <2>1, <2>2, <2>4
<1>4. DrivenOnce(q2, w2, st2, s)
  <2>1. Len(st2.pending) <= 1
    OBVIOUS
  <2>. QED BY <2>1, <1>1, <1>2, <1>3 DEF DrivenOnce
<1>5. InTurn(q2, w2, st2, s, g2, out2)
  BY DEF InTurn, AtRest
<1>. QED BY <1>4, <1>5 DEF Good

\* A stream whose message goes on, or is over and served.
LEMMA MessageGoesOn ==
    ASSUME SInv, NEW s \in StreamId, work # <<>>,
           ~SomeIn(queue, Writes(s)), ~SomeIn(work, Carrying(s)),
           QueueNarrows(queue', queue),
           NEW st2, st2.pending = <<>>, ~st2.complete, Shows(st2), NEW out2,
           \/ ConnectionError \/ Calls(<<>>) \/ work' = work
           \/ Calls(<<Do("serve", s)>>) /\ st2.end /\ continuation' # s
    PROVE  /\ Good(queue', work', st2, s, continuation', out2)
           /\ WorkOthers(work', work, s)
<1>1. ~SomeIn(queue', Writes(s))
  BY DEF QueueNarrows, Narrows
<1>2. work \in Seq(Call) /\ Tail(work) \in Seq(Call)
  BY SoundTypes
<1>3. CASE ConnectionError \/ Calls(<<>>) \/ work' = work
  <2>1. WorkNarrows(work', work)
    <3>1. <<>> \in Seq(Call) /\ Light(<<>>)
      BY DEF Light
    <3>2. TypeOK /\ WorkNarrows(work, work)
      BY SoundTypes
    <3>3. Calls(<<>>) => WorkNarrows(work', work)
      BY <3>1, <3>2, StackNarrows
    <3>4. ConnectionError => WorkNarrows(work', work)
      BY <3>2, StackNarrows
    <3>. QED BY <1>3, <3>2, <3>3, <3>4
  <2>2. ~SomeIn(work', Carrying(s))
    BY <2>1 DEF WorkNarrows, Narrows
  <2>3. work' \in Seq(Call)
    <3>1. /\ <<Do("goaway", 0)>> \in Seq(Call)
          /\ \/ work' = <<Do("goaway", 0)>> \o Tail(work)
             \/ work' = <<>> \o work
             \/ work' = work
      BY <1>3, LightCall DEF ConnectionError, Becomes, Calls
    <3>. QED BY <3>1, <1>2
  <2>. QED BY <1>1, <2>1, <2>2, <2>3, NarrowsOthers, RestsOrIsServed
<1>4. CASE Calls(<<Do("serve", s)>>) /\ st2.end /\ continuation' # s
  <2>1. work' = <<Do("serve", s)>> \o work /\ work' \in Seq(Call)
    <3>1. work' = <<Do("serve", s)>> \o work
      BY <1>4 DEF Calls
    <3>2. <<Do("serve", s)>> \in Seq(Call)
      BY ServeCall
    <3>. QED BY <1>2, <3>1, <3>2
  <2>2. WorkOthers(work', work, s)
    BY <1>2, <2>1, ServeCall, OthersOfWork
  <2>. QED BY <1>1, <1>2, <1>4, <2>1, <2>2, RestsOrIsServed
<1>. QED BY <1>3, <1>4

\* A stream of which the message is not over, or the block is gathered, has no response.
LEMMA Unserved ==
    ASSUME SInv, NEW s \in Live, ~stream[s].end \/ continuation = s
    PROVE  /\ ~SomeIn(queue, Writes(s)) /\ ~SomeIn(work, Carrying(s))
           /\ stream[s].pending = <<>> /\ ~stream[s].complete
  BY DEF SInv, EachIsGood, Good, InTurn, AtRest

\* Payload and headers are only taken of a stream whose message is not over.
LEMMA TakenIsOpen ==
    ASSUME SInv, NEW f \in Frame, f.stream \in StreamId, StreamTakes(f),
           f.type = "DATA" \/ (f.type = "HEADERS" /\ f.stream \in Live)
    PROVE  f.stream \in Live /\ ~stream[f.stream].end
<1>1. f.stream # 0 /\ f.type \in Allowed(State(f.stream))
  BY StreamIdAssumption DEF StreamTakes
<1>2. f.stream \in Live
  BY <1>1 DEF Allowed, State
<1>3. stream[f.stream].state \in StreamState /\ stream[f.stream].state # "CLOSED"
  BY <1>2, SoundTypes DEF Stream, SInv
<1>4. stream[f.stream].state \in {"OPEN", "HALF_CLOSED_LOCAL"}
  BY <1>1, <1>2, <1>3 DEF Allowed, State, StreamState
<1>. QED BY <1>2, <1>4 DEF SInv, EachIsGood, Good, Shows

\* DATA goes on with its message, and may end it.
LEMMA HandleDataSound ==
    ASSUME SInv, IInv', HandleData
    PROVE  SInv'
<1>. DEFINE f == Head(buffer)
            s == f.stream
            received == stream[s].received + f.size
<1>1. /\ work # <<>> /\ buffer # <<>> /\ f.type = "DATA" /\ ~OutOfSequence(f) /\ StreamTakes(f)
      /\ UNCHANGED <<open, table, ids, assembly, peer>>
  BY DEF HandleData, Taking, Running
<1>2. f \in Frame /\ s \in StreamId
  BY <1>1, SoundTypes, TakingType, FrameAssumption
<1>3. s \in Live /\ ~stream[s].end /\ continuation = 0 /\ s # 0
  BY <1>1, <1>2, TakenIsOpen, StreamIdAssumption DEF OutOfSequence
<1>4. /\ ~SomeIn(queue, Writes(s)) /\ ~SomeIn(work, Carrying(s))
      /\ stream[s].pending = <<>> /\ ~stream[s].complete
  BY <1>3, Unserved
<1>5. PICK st : st = stream[s]
  OBVIOUS
<1>. DEFINE new == [st EXCEPT !.received = received, !.end = @ \/ f.end,
                              !.state = IF f.end THEN "HALF_CLOSED_REMOTE" ELSE @]
<1>6. stream' = [stream EXCEPT ![s] = new]
  BY <1>5 DEF HandleData
<1>7. /\ new.pending = <<>> /\ ~new.complete /\ Shows(new)
      /\ f.end => new.end
      /\ new.state = "CLOSED" <=> st.state = "CLOSED"
  <2>1. st \in Stream /\ f.end \in BOOLEAN
    BY <1>2, <1>5, SoundTypes DEF Frame
  <2>2. st.pending = <<>> /\ ~st.complete /\ ~st.end /\ st.state # "CLOSED"
    BY <1>2, <1>3, <1>4, <1>5 DEF SInv
  <2>3. /\ new.pending = st.pending /\ new.complete = st.complete
        /\ new.end = (st.end \/ f.end)
        /\ new.state = IF f.end THEN "HALF_CLOSED_REMOTE" ELSE st.state
    BY <2>1 DEF Stream
  <2>. HIDE DEF new
  <2>. QED BY <2>1, <2>2, <2>3 DEF Shows
<1>. HIDE DEF new
<1>8. QueueNarrows(queue', queue)
  <2>1. \/ queue' = queue
        \/ queue' = queue \o <<Plain("WINDOW_UPDATE", 0), Plain("WINDOW_UPDATE", s)>>
    BY DEF HandleData
  <2>2. /\ Plain("WINDOW_UPDATE", 0) \in Item /\ Plain("WINDOW_UPDATE", s) \in Item
        /\ Plain("WINDOW_UPDATE", 0).callback = "none"
        /\ Plain("WINDOW_UPDATE", s).callback = "none"
    BY <1>2, PlainType DEF FrameType, Plain
  <2>3. /\ <<Plain("WINDOW_UPDATE", 0), Plain("WINDOW_UPDATE", s)>> \in Seq(Item)
        /\ Quiet(<<Plain("WINDOW_UPDATE", 0), Plain("WINDOW_UPDATE", s)>>)
    BY <2>2 DEF Quiet, Drive
  <2>. QED BY <2>1, <2>3, SoundTypes, QueueGrows
<1>9. \/ ConnectionError \/ Calls(<<>>)
      \/ Calls(<<Do("serve", s)>>) /\ f.end
  BY DEF HandleData
<1>10. continuation' # s
  BY <1>1, <1>3 DEF assembly
<1>11. stream'[s] = new /\ \A x \in StreamId \ {s} : stream'[x] = stream[x]
  <2>. HIDE DEF s
  <2>. QED BY <1>2, <1>6, SoundTypes
<1>12. /\ Good(queue', work', new, s, continuation', peer'.out[s])
       /\ WorkOthers(work', work, s)
  BY <1>1, <1>2, <1>4, <1>7, <1>8, <1>9, <1>10, MessageGoesOn
<1>13. /\ BlockHasAStream' /\ AskedFor'
       /\ \A x \in Live : continuation' = x => continuation = x
  BY <1>1, BlockStays
<1>14. QueueUsed(queue', lastStreamId, pushStreamId)
  BY <1>8, NarrowsIsUsed DEF SInv, IInv, TypeOK
<1>15. QueueOthers(queue', queue, s)
  BY <1>8, NarrowsOthers
<1>16. stream'[s].state = "CLOSED" <=> stream[s].state = "CLOSED"
  BY <1>5, <1>7, <1>11
<1>. HIDE DEF s
<1>. QED BY <1>1, <1>2, <1>11, <1>12, <1>13, <1>14, <1>15, <1>16, OneSound DEF ids

\* The end of a header block leaves what the response depends on, and may have it served.
LEMMA EndBlockGoesOn ==
    ASSUME NEW s, NEW st \in Stream, NEW b, EndBlock(s, st, b)
    PROVE  /\ continuation' = 0 /\ refused' = 0
           /\ \/ ConnectionError \/ Calls(<<>>)
              \/ Calls(<<Do("serve", s)>>) /\ st.end
           /\ \E new : stream' = [stream EXCEPT ![s] = new] /\ Alike(new, st)
<1>. DEFINE filled == [st EXCEPT !.headersComplete = TRUE, !.announced = @ \/ b.announced,
                                 !.length = IF b.announced THEN b.size ELSE @]
<1>1. Alike(filled, st) /\ Alike(st, st)
  BY DEF Alike, Stream
<1>2. stream' = [stream EXCEPT ![s] = IF ~b.valid THEN st ELSE filled]
  BY DEF EndBlock
<1>3. /\ continuation' = 0 /\ refused' = 0
      /\ \/ ConnectionError \/ Calls(<<>>)
         \/ Calls(<<Do("serve", s)>>) /\ st.end
  BY DEF EndBlock
<1>. HIDE DEF filled
<1>. QED BY <1>1, <1>2, <1>3

\* A CONTINUATION goes on with its block, and may end it.
LEMMA HandleContinuationSound ==
    ASSUME SInv, IInv', HandleContinuation
    PROVE  SInv'
<1>. DEFINE f == Head(buffer)
            s == continuation
<1>1. /\ work # <<>> /\ buffer # <<>> /\ f.type = "CONTINUATION" /\ ~Violates(f)
      /\ UNCHANGED <<open, table, ids, queue, peer>>
      /\ lastStreamId' = lastStreamId /\ pushStreamId' = pushStreamId
  BY DEF HandleContinuation, Taking, Running, ids
<1>2. s # 0 /\ (refused # s => s \in Live)
  BY <1>1 DEF Violates
<1>3. 0 \notin StreamId /\ Live' = Live
  BY <1>1, StreamIdAssumption DEF Live
<1>4. CASE ~f.endHeaders
  <2>1. UNCHANGED <<stream, continuation, refused, work>>
    BY <1>4 DEF HandleContinuation
  <2>2. BlockHasAStream' /\ AskedFor'
    BY <1>1, <1>3, <2>1 DEF SInv, BlockHasAStream, AskedFor, Used
  <2>3. \A x \in StreamId : Alike(stream'[x], stream[x])
    BY <2>1 DEF Alike
  <2>. QED BY <1>1, <2>1, <2>2, <2>3, SoundTypes, QuietSound
<1>5. CASE f.endHeaders /\ refused = s
  <2>1. /\ stream' = stream /\ continuation' = 0
        /\ ConnectionError \/ work' = work
    BY <1>5 DEF HandleContinuation
  <2>2. BlockHasAStream' /\ AskedFor'
    BY <2>1 DEF BlockHasAStream, AskedFor
  <2>3. \A x \in StreamId : Alike(stream'[x], stream[x])
    BY <2>1 DEF Alike
  <2>4. WorkNarrows(work', work)
    BY <1>1, <2>1, SoundTypes, StackNarrows
  <2>5. \A x \in Live : continuation' = x => continuation = x
    BY <1>3, <2>1, SoundTypes
  <2>. QED BY <1>1, <2>2, <2>3, <2>4, <2>5, SoundTypes, QuietSound
<1>6. CASE f.endHeaders /\ refused # s
  <2>1. s \in Live /\ s \in StreamId /\ stream[s] \in Stream
    BY <1>2, <1>6, SoundTypes
  <2>2. EndBlock(s, stream[s], Gathered(f))
    BY <1>6 DEF HandleContinuation
  <2>3. PICK new : stream' = [stream EXCEPT ![s] = new] /\ Alike(new, stream[s])
    BY <2>1, <2>2, EndBlockGoesOn
  <2>4. /\ continuation' = 0
        /\ \/ ConnectionError \/ Calls(<<>>)
           \/ Calls(<<Do("serve", s)>>) /\ stream[s].end
    BY <2>1, <2>2, EndBlockGoesOn
  <2>5. /\ ~SomeIn(queue, Writes(s)) /\ ~SomeIn(work, Carrying(s))
        /\ stream[s].pending = <<>> /\ ~stream[s].complete
    BY <2>1, Unserved
  <2>6. /\ new.pending = <<>> /\ ~new.complete /\ Shows(new) /\ new.end = stream[s].end
        /\ new.state = stream[s].state
    BY <2>1, <2>3, <2>5 DEF Alike, Shows, SInv, EachIsGood, Good
  <2>7. QueueNarrows(queue', queue)
    BY <1>1, SoundTypes
  <2>8. continuation' # s
    BY <1>2, <2>4
  <2>9. /\ Good(queue', work', new, s, continuation', peer'.out[s])
        /\ WorkOthers(work', work, s)
    BY <1>1, <2>1, <2>4, <2>5, <2>6, <2>7, <2>8, MessageGoesOn
  <2>10. stream'[s] = new /\ \A x \in StreamId \ {s} : stream'[x] = stream[x]
    <3>. HIDE DEF s
    <3>. QED BY <2>1, <2>3, SoundTypes
  <2>11. BlockHasAStream' /\ AskedFor'
    BY <2>4 DEF BlockHasAStream, AskedFor
  <2>12. \A x \in Live \ {s} : continuation' = x => continuation = x
    BY <1>3, <2>4, SoundTypes
  <2>13. QueueUsed(queue', lastStreamId, pushStreamId)
    BY <1>1 DEF SInv
  <2>14. QueueOthers(queue', queue, s)
    BY <2>7, NarrowsOthers
  <2>15. stream'[s].state = "CLOSED" <=> stream[s].state = "CLOSED"
    BY <2>6, <2>10
  <2>. HIDE DEF s
  <2>. QED BY <1>1, <2>1, <2>9, <2>10, <2>11, <2>12, <2>13, <2>14, <2>15, OneSound
<1>. QED BY <1>4, <1>5, <1>6

-----------------------------------------------------------------------------
(***************************************************************************)
(* Streams that are opened, and promised.                                  *)
(***************************************************************************)
\* Nothing drives the response of a stream that was never opened.
LEMMA UnusedRests ==
    ASSUME SInv, NEW s \in StreamId, ~Used(s)
    PROVE  s \notin Live /\ ~SomeIn(queue, Writes(s)) /\ ~SomeIn(work, Carrying(s))
<1>1. s \notin Live
  BY SoundTypes, LiveIsUsed
<1>2. ~SomeIn(queue, Writes(s))
  BY DEF SomeIn, Writes, SInv, QueueUsed, Used
<1>3. ~SomeIn(work, Carrying(s))
  BY DEF SomeIn, Carrying, Serving, SInv, IInv, WorkUsed, CallsUsed, StreamOp, Used
<1>. QED BY <1>1, <1>2, <1>3

\* The streams that are held, one of them new.
LEMMA TableGrows ==
    ASSUME SInv, NEW s \in StreamId, s \notin Live, table' = Append(table, s)
    PROVE  Live' = Live \cup {s} /\ Len(table') = Len(table) + 1 /\ Len(table) \in Nat
<1>1. PICK n : n = Len(table)
  OBVIOUS
<1>2. /\ table \in Seq(StreamId) /\ n \in Nat /\ Len(table') = n + 1 /\ table'[n + 1] = s
      /\ \A i \in 1..n : table'[i] = table[i]
  BY <1>1, SoundTypes
<1>3. \A i \in 1..n + 1 : i \in 1..n \/ i = n + 1
  BY <1>2
<1>4. \A i \in 1..n : i \in 1..n + 1
  BY <1>2
<1>5. n + 1 \in 1..n + 1
  BY <1>2
<1>6. Live' = {table'[i] : i \in 1..n + 1} /\ Live = {table[i] : i \in 1..n}
  BY <1>1, <1>2 DEF Live
<1>7. Live' = Live \cup {s}
  BY <1>2, <1>3, <1>4, <1>5, <1>6
<1>. QED BY <1>1, <1>2, <1>7

\* A table holds no more streams than it is long.
LEMMA HeldAreFinite ==
    ASSUME NEW t \in Seq(StreamId), NEW P, P \subseteq {t[i] : i \in 1..Len(t)}
    PROVE  IsFiniteSet(P) /\ Cardinality(P) <= Len(t)
<1>1. PICK n : n = Len(t)
  OBVIOUS
<1>. DEFINE held == {t[i] : i \in 1..n}
<1>2. n \in Nat /\ P \subseteq held
  BY <1>1
<1>3. IsFiniteSet(1..n) /\ Cardinality(1..n) = n
  BY <1>2, FS_Interval
<1>4. [i \in 1..n |-> t[i]] \in Surjection(1..n, held)
  BY <1>2 DEF Surjection
<1>5. IsFiniteSet(held) /\ Cardinality(held) <= n
  BY <1>3, <1>4, FS_Surjection
<1>6. Cardinality(P) <= Cardinality(held) /\ IsFiniteSet(P)
  BY <1>2, <1>5, FS_Subset
<1>7. Cardinality(P) \in Nat /\ Cardinality(held) \in Nat
  BY <1>5, <1>6, FS_CardinalityType
<1>. QED BY <1>1, <1>2, <1>5, <1>6, <1>7

\* A stream that was never used is put in the table.
LEMMA OpenSound ==
    ASSUME SInv, IInv', NEW s \in StreamId, ~Used(s),
           table' = Append(table, s), Len(table) < Slots,
           s % 2 = 0 => Len(table) < PushLimit,
           \A x \in StreamId : Used(x) => UsedBy(x, lastStreamId', pushStreamId'),
           \A x \in StreamId \ {s} : stream'[x] = stream[x] /\ peer'.out[x] = peer.out[x],
           stream'[s].state # "CLOSED",
           QueueNarrows(queue', queue), WorkOthers(work', work, s),
           \A x \in Live : continuation' = x => continuation = x,
           BlockHasAStream', AskedFor',
           Good(queue', work', stream'[s], s, continuation', peer'.out[s])
    PROVE  SInv'
<1>1. s \notin Live /\ Live \subseteq StreamId /\ table' \in Seq(StreamId)
  BY UnusedRests, SoundTypes DEF IInv, TypeOK
<1>2. Live' = Live \cup {s} /\ Len(table') = Len(table) + 1 /\ Len(table) \in Nat
  BY <1>1, TableGrows
<1>3. Len(table') <= Slots
  BY <1>2, BoundAssumption
<1>4. Cardinality(Promised') <= PushLimit
  <2>1. CASE s % 2 = 0
    <3>1. Cardinality(Promised') <= Len(table')
      <4>1. PICK t, P : t = table' /\ P = Promised'
        OBVIOUS
      <4>2. P \subseteq {t[i] : i \in 1..Len(t)}
        BY <4>1 DEF Promised, Live
      <4>3. Cardinality(P) <= Len(t)
        BY <1>1, <4>1, <4>2, HeldAreFinite, SMTT(20)
      <4>. QED BY <4>1, <4>3
    <3>2. Len(table') <= PushLimit
      BY <2>1, <1>2, BoundAssumption
    <3>3. Cardinality(Promised') \in Nat
      <4>1. IsFiniteSet(Promised')
        <5>1. PICK t, P : t = table' /\ P = Promised'
          OBVIOUS
        <5>2. P \subseteq {t[i] : i \in 1..Len(t)}
          BY <5>1 DEF Promised, Live
        <5>. QED BY <1>1, <5>1, <5>2, HeldAreFinite, SMTT(20)
      <4>. QED BY <4>1, FS_CardinalityType
    <3>. QED BY <3>1, <3>2, <3>3, <1>2, BoundAssumption
  <2>2. CASE s % 2 # 0
    <3>1. Promised' = Promised
      BY <1>2, <2>2 DEF Promised
    <3>. QED BY <3>1 DEF SInv
  <2>. QED BY <2>1, <2>2
<1>5. \A x \in StreamId : x \in Live' <=> stream'[x].state # "CLOSED"
  BY <1>2 DEF SInv
<1>6. EachIsGood'
  <2>1. SUFFICES ASSUME NEW x \in Live \cup {s}
                 PROVE  Good(queue', work', stream'[x], x, continuation', peer'.out[x])
    BY <1>2 DEF EachIsGood
  <2>2. CASE x # s
    <3>1. /\ Good(queue, work, stream[x], x, continuation, peer.out[x])
          /\ x \in StreamId \ {s} /\ x \in Live
      BY <1>1, <2>2 DEF SInv, EachIsGood
    <3>2. Narrows(queue', queue, Writes(x))
      BY <3>1 DEF QueueNarrows
    <3>3. Narrows(work', work, Carrying(x)) /\ Narrows(work', work, Serving(x))
      BY <3>1 DEF WorkOthers
    <3>4. Alike(stream'[x], stream[x])
      BY <3>1 DEF Alike
    <3>. QED BY <3>1, <3>2, <3>3, <3>4, StaysGood
  <2>. QED BY <2>2
<1>7. QueueUsed(queue', lastStreamId', pushStreamId')
  <2>1. queue' \in Seq(Item) /\ QueueUsed(queue', lastStreamId, pushStreamId)
    BY NarrowsIsUsed DEF SInv, IInv, TypeOK
  <2>2. SUFFICES ASSUME NEW i \in 1..Len(queue'), queue'[i].callback \in Drive
                 PROVE  UsedBy(queue'[i].stream, lastStreamId', pushStreamId')
    BY DEF QueueUsed
  <2>3. /\ UsedBy(queue'[i].stream, lastStreamId, pushStreamId)
        /\ queue'[i] \in Item
    BY <2>1, <2>2 DEF QueueUsed
  <2>4. queue'[i].stream \in StreamId \cup {0} /\ pushStreamId' \in Nat
    BY <2>3 DEF Item, IInv, TypeOK
  <2>5. CASE queue'[i].stream = 0
    BY <2>4, <2>5 DEF UsedBy
  <2>. QED BY <2>3, <2>4, <2>5 DEF Used
<1>. QED BY <1>3, <1>4, <1>5, <1>6, <1>7 DEF SInv

\* What the headers of a message do to its stream, and what they have called.
LEMMA HeadersGoOn ==
    ASSUME SInv, HandleHeaders, NEW held, held = Head(buffer).stream
    PROVE  /\ held \in StreamId /\ held \in Nat /\ held # 0 /\ continuation = 0
           /\ work # <<>> /\ Top.op = "frames" /\ UNCHANGED <<open, pushStreamId, queue>>
           /\ ~SomeIn(queue, Writes(held)) /\ ~SomeIn(work, Carrying(held))
           /\ held \notin Live =>
                 /\ CanOpen /\ held % 2 # 0 /\ held > lastStreamId /\ lastStreamId \in Nat
                 /\ lastStreamId' = held /\ table' = Append(table, held)
                 /\ peer' = [peer EXCEPT !.out[held] = "open", !.granted[held] = initialWindow]
           /\ held \in Live =>
                 UNCHANGED <<table, lastStreamId, peer>> /\ ~stream[held].end
           /\ \E new :
                 /\ stream' = [stream EXCEPT ![held] = new]
                 /\ new.pending = <<>> /\ ~new.complete /\ Shows(new) /\ new.state # "CLOSED"
                 /\ \/ ConnectionError \/ Calls(<<>>) \/ work' = work
                    \/ Calls(<<Do("serve", held)>>) /\ new.end /\ continuation' # held
                 /\ continuation' \in {0, held}
<1>. DEFINE f == Head(buffer)
            s == f.stream
            opens == s \notin Live
            started == IF opens THEN Fresh("OPEN", initialWindow) ELSE stream[s]
            ended == [started EXCEPT
                        !.end = @ \/ f.end,
                        !.state = IF f.end THEN "HALF_CLOSED_REMOTE" ELSE @]
<1>1. /\ work # <<>> /\ buffer # <<>> /\ f.type = "HEADERS" /\ ~Violates(f)
      /\ opens => CanOpen
      /\ UNCHANGED <<open, pushStreamId, queue>>
      /\ Top.op = "frames"
  BY DEF HandleHeaders, Taking, Running
<1>2. f \in Frame /\ s \in StreamId /\ s \in Nat /\ f.end \in BOOLEAN
  BY <1>1, SoundTypes, TakingType, FrameAssumption, StreamIdAssumption DEF Frame
<1>3. continuation = 0 /\ s # 0
  BY <1>1, <1>2, StreamIdAssumption DEF Violates, OutOfSequence
<1>4. /\ opens => /\ lastStreamId' = s /\ table' = Append(table, s)
                  /\ peer' = [peer EXCEPT !.out[s] = "open", !.granted[s] = initialWindow]
      /\ ~opens => UNCHANGED <<table, lastStreamId, peer>>
  BY DEF HandleHeaders
<1>5. opens => s % 2 # 0 /\ s > lastStreamId /\ lastStreamId \in Nat
  <2>1. lastStreamId \in Nat
    <3>1. TypeOK
      BY SoundTypes
    <3>2. lastStreamId \in StreamId \cup {0}
      BY <3>1 DEF TypeOK
    <3>. QED BY <3>2, StreamIdAssumption
  <2>2. opens => ~(s % 2 = 0) /\ ~(s <= lastStreamId)
    BY <1>1 DEF Violates
  <2>. HIDE DEF s, opens
  <2>. QED BY <1>2, <2>1, <2>2
<1>6. /\ ~SomeIn(queue, Writes(s)) /\ ~SomeIn(work, Carrying(s))
      /\ started \in Stream /\ started.pending = <<>> /\ ~started.complete /\ ~started.end
      /\ started.state # "CLOSED" /\ (~opens => started = stream[s])
  <2>1. CASE opens
    <3>1. started = Fresh("OPEN", initialWindow) /\ started \in Stream
      BY <2>1, SoundTypes, FreshType DEF TypeOK, StreamState
    <3>2. ~Used(s)
      BY <1>2, <1>5, <2>1 DEF Used, UsedBy
    <3>. HIDE DEF opens, s
    <3>. QED BY <1>2, <3>1, <3>2, UnusedRests DEF Fresh
  <2>2. CASE ~opens
    <3>1. ~stream[s].end
      BY <1>1, <1>2, <2>2, TakenIsOpen DEF Violates
    <3>2. started = stream[s]
      BY <2>2
    <3>3. stream[s] \in Stream /\ stream[s].state # "CLOSED" /\ s \in Live
      BY <1>2, <2>2, SoundTypes DEF SInv
    <3>. HIDE DEF started, s
    <3>. QED BY <3>1, <3>2, <3>3, Unserved
  <2>. QED BY <2>1, <2>2
<1>. HIDE DEF started
<1>7. /\ ended \in Stream /\ ended.pending = <<>> /\ ~ended.complete /\ Shows(ended)
      /\ ended.state # "CLOSED"
  <2>1. PICK st \in Stream : st = started
    BY <1>6
  <2>. DEFINE e == st.end \/ f.end
              x == IF f.end THEN "HALF_CLOSED_REMOTE" ELSE st.state
              new == [st EXCEPT !.end = e, !.state = x]
  <2>2. e \in BOOLEAN /\ x \in StreamState
    BY <1>2 DEF Stream, StreamState
  <2>3. ended = new
    BY <2>1
  <2>4. x # "CLOSED" /\ (e => x = "HALF_CLOSED_REMOTE")
    BY <1>6, <2>1
  <2>. HIDE DEF e, x, ended
  <2>5. /\ new \in Stream /\ new.pending = st.pending /\ new.complete = st.complete
        /\ new.end = e /\ new.state = x
    BY <2>2 DEF Stream
  <2>. HIDE DEF new
  <2>. QED BY <1>6, <2>1, <2>3, <2>4, <2>5 DEF Shows
<1>8. Shows(started)
  BY <1>6 DEF Shows
<1>. HIDE DEF ended
<1>9. PICK new :
         /\ stream' = [stream EXCEPT ![s] = new]
         /\ new.pending = <<>> /\ ~new.complete /\ Shows(new) /\ new.state # "CLOSED"
         /\ \/ ConnectionError \/ Calls(<<>>) \/ work' = work
            \/ Calls(<<Do("serve", s)>>) /\ new.end /\ continuation' # s
         /\ continuation' \in {0, s}
  <2>1. \/ /\ stream' = [stream EXCEPT ![s] = started]
           /\ ConnectionError
           /\ UNCHANGED assembly
        \/ EndBlock(s, ended, Gathered(f))
        \/ KeepBlock(s, ended, Gathered(f))
    BY DEF HandleHeaders, ended, started
  <2>2. CASE /\ stream' = [stream EXCEPT ![s] = started]
             /\ ConnectionError
             /\ UNCHANGED assembly
    <3>1. continuation' = 0
      BY <1>3, <2>2 DEF assembly
    <3>. HIDE DEF s
    <3>. QED BY <1>6, <1>8, <2>2, <3>1
  <2>3. CASE EndBlock(s, ended, Gathered(f))
    <3>1. PICK new : stream' = [stream EXCEPT ![s] = new] /\ Alike(new, ended)
      BY <1>7, <2>3, EndBlockGoesOn
    <3>2. /\ continuation' = 0
          /\ \/ ConnectionError \/ Calls(<<>>)
             \/ Calls(<<Do("serve", s)>>) /\ ended.end
      BY <1>7, <2>3, EndBlockGoesOn
    <3>3. /\ new.pending = <<>> /\ ~new.complete /\ Shows(new) /\ new.end = ended.end
          /\ new.state # "CLOSED"
      BY <1>7, <3>1 DEF Alike, Shows
    <3>. HIDE DEF s
    <3>. QED BY <1>3, <3>1, <3>2, <3>3
  <2>4. CASE KeepBlock(s, ended, Gathered(f))
    <3>1. stream' = [stream EXCEPT ![s] = ended] /\ work' = work /\ continuation' = s
      BY <2>4 DEF KeepBlock
    <3>. HIDE DEF s
    <3>. QED BY <1>7, <3>1
  <2>. QED BY <2>1, <2>2, <2>3, <2>4
<1>10. held = s
  OBVIOUS
<1>. HIDE DEF s
<1>. QED BY <1>1, <1>2, <1>3, <1>4, <1>5, <1>6, <1>9, <1>10

\* HEADERS open a stream, or go on with the message of one that is open.
LEMMA HandleHeadersSound ==
    ASSUME SInv, IInv', HandleHeaders
    PROVE  SInv'
<1>1. PICK s : s = Head(buffer).stream
  OBVIOUS
<1>. DEFINE opens == s \notin Live
<1>2. /\ s \in StreamId /\ s \in Nat /\ s # 0 /\ continuation = 0
      /\ work # <<>> /\ UNCHANGED <<open, pushStreamId, queue>>
      /\ ~SomeIn(queue, Writes(s)) /\ ~SomeIn(work, Carrying(s))
  BY <1>1, HeadersGoOn
<1>3. /\ opens => /\ lastStreamId' = s /\ table' = Append(table, s) /\ CanOpen
                  /\ peer' = [peer EXCEPT !.out[s] = "open", !.granted[s] = initialWindow]
      /\ ~opens => UNCHANGED <<table, lastStreamId, peer>>
  BY <1>1, HeadersGoOn
<1>4. opens => s % 2 # 0 /\ s > lastStreamId /\ lastStreamId \in Nat
  BY <1>1, HeadersGoOn
<1>5. PICK new :
         /\ stream' = [stream EXCEPT ![s] = new]
         /\ new.pending = <<>> /\ ~new.complete /\ Shows(new) /\ new.state # "CLOSED"
         /\ \/ ConnectionError \/ Calls(<<>>) \/ work' = work
            \/ Calls(<<Do("serve", s)>>) /\ new.end /\ continuation' # s
         /\ continuation' \in {0, s}
  BY <1>1, HeadersGoOn
<1>6. stream'[s] = new /\ \A x \in StreamId \ {s} : stream'[x] = stream[x]
  BY <1>2, <1>5, SoundTypes
<1>7. QueueNarrows(queue', queue)
  BY <1>2, SoundTypes
<1>8. /\ Good(queue', work', new, s, continuation', peer'.out[s])
       /\ WorkOthers(work', work, s)
  BY <1>2, <1>5, <1>7, MessageGoesOn
<1>9. \A x \in Live \ {s} : continuation' = x => continuation = x
  <2>1. 0 \notin StreamId
    BY StreamIdAssumption
  <2>. QED BY <1>5, <2>1, SoundTypes
<1>10. CASE opens
  <2>1. ~Used(s)
    BY <1>2, <1>4, <1>10 DEF Used, UsedBy
  <2>2. Live' = Live \cup {s} /\ Len(table) < Slots
    BY <1>2, <1>3, <1>10, TableGrows DEF CanOpen
  <2>3. /\ BlockHasAStream' /\ AskedFor'
    BY <1>4, <1>5, <1>10, <2>2 DEF BlockHasAStream, AskedFor
  <2>4. \A x \in StreamId : Used(x) => UsedBy(x, lastStreamId', pushStreamId')
    <3>1. lastStreamId' = s /\ pushStreamId' = pushStreamId
      BY <1>2, <1>3, <1>10
    <3>2. StreamId \subseteq Nat
      BY StreamIdAssumption
    <3>. QED BY <1>2, <1>4, <1>10, <3>1, <3>2 DEF Used, UsedBy
  <2>5. \A x \in StreamId \ {s} : peer'.out[x] = peer.out[x]
    <3>1. peer' = [peer EXCEPT !.out[s] = "open", !.granted[s] = initialWindow]
      BY <1>3, <1>10
    <3>. QED BY <3>1, SoundTypes DEF Peer
  <2>6. \A x \in Live : continuation' = x => continuation = x
    BY <1>9, <1>10
  <2>7. s % 2 = 0 => Len(table) < PushLimit
    BY <1>4, <1>10
  <2>. QED BY <1>2, <1>3, <1>5, <1>6, <1>7, <1>8, <1>10, <2>1, <2>2, <2>3, <2>4, <2>5, <2>6, <2>7,
             OpenSound
<1>11. CASE ~opens
  <2>1. table' = table /\ lastStreamId' = lastStreamId /\ peer' = peer
    BY <1>3, <1>11
  <2>2. Live' = Live /\ s \in Live
    BY <2>1, <1>11 DEF Live
  <2>3. UsedBy(s, lastStreamId', pushStreamId')
    <3>1. UsedBy(s, lastStreamId, pushStreamId)
      BY <2>2, LiveIsUsed, SoundTypes DEF Used
    <3>2. lastStreamId' = lastStreamId /\ pushStreamId' = pushStreamId
      BY <1>2, <2>1
    <3>. QED BY <3>1, <3>2
  <2>4. BlockHasAStream' /\ AskedFor'
    BY <1>5, <2>2, <2>3 DEF BlockHasAStream, AskedFor, Used
  <2>5. QueueUsed(queue', lastStreamId, pushStreamId)
    BY <1>2 DEF SInv
  <2>6. QueueOthers(queue', queue, s)
    BY <1>7, NarrowsOthers
  <2>7. stream'[s].state = "CLOSED" <=> stream[s].state = "CLOSED"
    BY <1>2, <1>5, <1>6, <2>2 DEF SInv
  <2>. HIDE DEF opens
  <2>. QED BY <1>2, <1>6, <1>8, <1>9, <2>1, <2>2, <2>4, <2>5, <2>6, <2>7, OneSound
<1>. QED BY <1>10, <1>11

-----------------------------------------------------------------------------
(***************************************************************************)
(* Streams that are closed.                                                *)
(***************************************************************************)
\* The last stream moves into the place of one that is closed: the others stay.
LEMMA TableShrinks ==
    ASSUME SInv, NEW s \in Live, CloseStream(s)
    PROVE  Live' = Live \ {s} /\ Len(table') <= Len(table)
<1>1. PICK n : n = Len(table)
  OBVIOUS
<1>2. PICK k : k = Slot(s)
  OBVIOUS
<1>3. table \in Seq(StreamId) /\ n \in Nat /\ n >= 1 /\ k \in 1..n /\ table[k] = s
  <2>1. table \in Seq(StreamId) /\ \E i \in 1..n : table[i] = s
    BY <1>1, SoundTypes DEF Live
  <2>. QED BY <1>1, <1>2, <2>1 DEF Slot
<1>4. /\ Len(table') = n - 1
      /\ \A i \in 1..n - 1 : table'[i] = IF i = k THEN table[n] ELSE table[i]
  BY <1>1, <1>2, <1>3 DEF CloseStream
<1>5. \A i, j \in 1..n : table[i] = table[j] => i = j
  BY <1>1 DEF SInv, IInv, NoDuplicates
<1>6. Live = {table[i] : i \in 1..n} /\ Live' = {table'[i] : i \in 1..n - 1}
  BY <1>1, <1>4 DEF Live
<1>7. ASSUME NEW x \in Live' PROVE x \in Live \ {s}
  <2>1. PICK i \in 1..n - 1 : x = IF i = k THEN table[n] ELSE table[i]
    BY <1>4, <1>6
  <2>2. i \in 1..n /\ n \in 1..n /\ i # n
    BY <1>3
  <2>3. PICK j \in 1..n : x = table[j] /\ j # k
    BY <2>1, <2>2
  <2>. QED BY <1>3, <1>5, <1>6, <2>3
<1>8. ASSUME NEW x \in Live, x # s PROVE x \in Live'
  <2>1. PICK j \in 1..n : x = table[j]
    BY <1>6
  <2>2. j # k
    BY <1>3, <1>8, <2>1
  <2>3. CASE j = n
    <3>1. k \in 1..n - 1
      BY <1>3, <2>2, <2>3
    <3>. QED BY <1>4, <1>6, <2>1, <2>3, <3>1
  <2>4. CASE j # n
    <3>1. j \in 1..n - 1
      BY <1>3, <2>4
    <3>. QED BY <1>4, <1>6, <2>1, <2>2, <3>1
  <2>. QED BY <2>3, <2>4
<1>. QED BY <1>1, <1>3, <1>4, <1>7, <1>8

\* A stream is closed of which no block is gathered.
LEMMA CloseSound ==
    ASSUME SInv, IInv', NEW s \in Live, CloseStream(s), continuation # s,
           UNCHANGED <<open, ids, assembly>>,
           QueueNarrows(queue', queue), WorkNarrows(work', work),
           \A x \in StreamId \ {s} : peer'.out[x] = peer.out[x]
    PROVE  SInv'
<1>1. /\ Live' = Live \ {s} /\ Len(table') <= Len(table) /\ Live \subseteq StreamId
      /\ Len(table) \in Nat /\ Len(table') \in Nat
  <2>1. Live' = Live \ {s} /\ Len(table') <= Len(table)
    BY TableShrinks
  <2>2. table \in Seq(StreamId) /\ Live \subseteq StreamId
    BY SoundTypes
  <2>3. table' \in Seq(StreamId)
    BY DEF IInv, TypeOK
  <2>. QED BY <2>1, <2>2, <2>3
<1>2. /\ \A x \in StreamId \ {s} : stream'[x] = stream[x]
      /\ stream'[s].state = "CLOSED"
  <2>1. stream' = [stream EXCEPT ![s] = Unused]
    BY DEF CloseStream
  <2>. QED BY <1>1, <2>1, SoundTypes DEF Unused, Fresh
<1>3. Len(table') <= Slots
  BY <1>1, BoundAssumption DEF SInv
<1>4. Cardinality(Promised') <= PushLimit
  <2>1. Promised' \subseteq Promised
    BY <1>1 DEF Promised
  <2>2. IsFiniteSet(Promised)
    <3>1. Promised \subseteq {table[i] : i \in 1..Len(table)}
      BY DEF Promised, Live
    <3>. QED BY <3>1, SoundTypes, HeldAreFinite
  <2>3. /\ Cardinality(Promised') <= Cardinality(Promised) /\ IsFiniteSet(Promised')
        /\ Cardinality(Promised) \in Nat
    BY <2>1, <2>2, FS_Subset, FS_CardinalityType
  <2>4. Cardinality(Promised') \in Nat /\ PushLimit \in Nat
    BY <2>3, FS_CardinalityType, BoundAssumption
  <2>5. Cardinality(Promised) <= PushLimit
    BY DEF SInv
  <2>. QED BY <2>3, <2>4, <2>5
<1>5. \A x \in StreamId : x \in Live' <=> stream'[x].state # "CLOSED"
  BY <1>1, <1>2 DEF SInv
<1>6. EachIsGood'
  <2>1. SUFFICES ASSUME NEW x \in Live, x # s
                 PROVE  Good(queue', work', stream'[x], x, continuation', peer'.out[x])
    BY <1>1 DEF EachIsGood
  <2>2. Good(queue, work, stream[x], x, continuation, peer.out[x]) /\ x \in StreamId \ {s}
    BY <1>1, <2>1 DEF SInv, EachIsGood
  <2>3. Narrows(queue', queue, Writes(x))
    BY <2>2 DEF QueueNarrows
  <2>4. Narrows(work', work, Carrying(x)) /\ Narrows(work', work, Serving(x))
    BY <2>2 DEF WorkNarrows
  <2>5. Alike(stream'[x], stream[x]) /\ continuation' = continuation /\ peer'.out[x] = peer.out[x]
    BY <1>2, <2>2 DEF Alike, assembly
  <2>. QED BY <2>2, <2>3, <2>4, <2>5, StaysGood
<1>7. QueueUsed(queue', lastStreamId', pushStreamId')
  <2>1. QueueUsed(queue', lastStreamId, pushStreamId)
    BY NarrowsIsUsed DEF SInv, IInv, TypeOK
  <2>. QED BY <2>1 DEF ids
<1>8. BlockHasAStream' /\ AskedFor'
  <2>1. /\ open' = open /\ continuation' = continuation /\ refused' = refused
        /\ lastStreamId' = lastStreamId /\ pushStreamId' = pushStreamId
    BY DEF ids, assembly
  <2>2. BlockHasAStream'
    BY <1>1, <2>1 DEF SInv, BlockHasAStream
  <2>3. AskedFor'
    BY <2>1 DEF SInv, AskedFor, Used
  <2>. QED BY <2>2, <2>3
<1>. QED BY <1>3, <1>4, <1>5, <1>6, <1>7, <1>8 DEF SInv

\* A stream that the peer resets is closed.
LEMMA HandleResetSound ==
    ASSUME SInv, IInv', HandleReset
    PROVE  SInv'
<1>. DEFINE f == Head(buffer)
            s == f.stream
<1>1. /\ buffer # <<>> /\ f.type = "RST_STREAM" /\ ~Violates(f)
      /\ UNCHANGED <<open, ids, assembly, queue, work>>
  BY DEF HandleReset, Taking
<1>2. CASE s \in Live
  <2>1. CloseStream(s) /\ peer' = [peer EXCEPT !.out[s] = "reset"]
    BY <1>2 DEF HandleReset
  <2>2. continuation # s
    <3>1. s # 0
      BY <1>2, SoundTypes, StreamIdAssumption
    <3>. QED BY <1>1, <3>1 DEF Violates, OutOfSequence
  <2>3. \A x \in StreamId \ {s} : peer'.out[x] = peer.out[x]
    <3>. HIDE DEF s
    <3>. QED BY <2>1, SoundTypes DEF Peer
  <2>4. QueueNarrows(queue', queue) /\ WorkNarrows(work', work)
    BY <1>1, SoundTypes
  <2>. HIDE DEF s
  <2>. QED BY <1>1, <1>2, <2>1, <2>2, <2>3, <2>4, CloseSound
<1>3. CASE s \notin Live
  <2>1. UNCHANGED <<table, stream, peer>>
    BY <1>3 DEF HandleReset
  <2>. QED BY <1>1, <2>1, SoundTypes, IdleSound
<1>. QED BY <1>2, <1>3

\* The completion of a write closes the stream whose response is over; one that comes too
\* late closes the session.
LEMMA SettleSound ==
    ASSUME SInv, IInv', Settle
    PROVE  SInv'
<1>. DEFINE s == Top.stream
            stale == ~(Top.slot <= Len(table) /\ s \in Live /\ Slot(s) = Top.slot)
<1>1. CASE stale
  BY <1>1, CloseSessionSound DEF Settle
<1>2. CASE ~stale
  <2>1. /\ work # <<>> /\ Return /\ s \in Live
        /\ UNCHANGED <<open, ids, assembly, queue, peer>>
        /\ \/ Over(stream[s]) /\ CloseStream(s)
           \/ UNCHANGED <<table, stream>>
    BY <1>2 DEF Settle, Running
  <2>2. QueueNarrows(queue', queue) /\ WorkNarrows(work', work)
    BY <2>1, SoundTypes, StackNarrows
  <2>3. CASE Over(stream[s]) /\ CloseStream(s)
    <3>1. continuation # s
      BY <2>1, <2>3, Unserved DEF Over
    <3>. HIDE DEF s
    <3>. QED BY <2>1, <2>2, <2>3, <3>1, CloseSound
  <2>4. CASE UNCHANGED <<table, stream>>
    BY <2>1, <2>2, <2>4, IdleSound
  <2>. QED BY <2>1, <2>3, <2>4
<1>. QED BY <1>1, <1>2
-----------------------------------------------------------------------------
(***************************************************************************)
(* The responses: what drives one hands it on to what drives it next.      *)
(***************************************************************************)
\* The call on top drives a response: nothing else does.
LEMMA TopCarries ==
    ASSUME SInv, work # <<>>, NEW s \in Live, Top \in Carrying(s)
    PROVE  /\ ~SomeIn(Tail(work), Carrying(s)) /\ ~SomeIn(queue, Writes(s))
           /\ stream[s].pending = <<>> /\ stream[s].end /\ continuation # s
           /\ Top \in Serving(s) => ~stream[s].complete
           /\ stream[s].complete => peer.out[s] \in {"ended", "reset"}
           /\ Shows(stream[s])
<1>1. Good(queue, work, stream[s], s, continuation, peer.out[s])
  BY DEF SInv, EachIsGood
<1>2. work \in Seq(Call)
  BY SoundTypes
<1>3. SomeIn(work, Carrying(s)) /\ (Top \in Serving(s) => SomeIn(work, Serving(s)))
  BY <1>2, InRest DEF Top
<1>4. OneIn(work, Carrying(s))
  BY <1>1 DEF Good, DrivenOnce
<1>5. ~SomeIn(Tail(work), Carrying(s))
  BY <1>2, <1>4, InRest DEF Top
<1>. QED BY <1>1, <1>3, <1>5 DEF Good, DrivenOnce, InTurn, AtRest

\* It is handed on to one of the calls that take the place of the one on top, or to none.
LEMMA HandedOn ==
    ASSUME SInv, work # <<>>, NEW s \in StreamId, ~SomeIn(Tail(work), Carrying(s)),
           NEW calls \in Seq(Call), Becomes(calls), OneIn(calls, Carrying(s))
    PROVE  /\ OneIn(work', Carrying(s))
           /\ SomeIn(work', Carrying(s)) <=> SomeIn(calls, Carrying(s))
           /\ SomeIn(work', Serving(s)) <=> SomeIn(calls, Serving(s))
<1>1. PICK t : t = Tail(work)
  OBVIOUS
<1>2. t \in Seq(Call) /\ work' = calls \o t
  BY <1>1, SoundTypes DEF Becomes
<1>3. ~SomeIn(t, Carrying(s)) /\ ~SomeIn(t, Serving(s)) /\ OneIn(t, Carrying(s))
  BY <1>1 DEF SomeIn, OneIn, Carrying
<1>4. PICK M, N : M = Carrying(s) /\ N = Serving(s)
  OBVIOUS
<1>5. /\ SomeIn(calls \o t, M) <=> SomeIn(calls, M) \/ SomeIn(t, M)
      /\ OneIn(calls, M) /\ OneIn(t, M) /\ ~(SomeIn(calls, M) /\ SomeIn(t, M))
            => OneIn(calls \o t, M)
      /\ SomeIn(calls \o t, N) <=> SomeIn(calls, N) \/ SomeIn(t, N)
  BY <1>2, InJoined
<1>. QED BY <1>2, <1>3, <1>4, <1>5

\* A stream whose message is over, of which one thing drives the response.
LEMMA DrivenGood ==
    ASSUME NEW q, NEW w, NEW st, NEW s, NEW g, NEW out,
           DrivenOnce(q, w, st, s), Shows(st), st.end, g # s,
           SomeIn(w, Serving(s)) => ~st.complete,
           st.complete => out \in {"ended", "reset"}
    PROVE  Good(q, w, st, s, g, out)
  BY DEF Good, InTurn

\* Calls that are about s, one sequence of them after the other.
LEMMA AboutJoined ==
    ASSUME NEW a \in Seq(Call), NEW b \in Seq(Call), NEW s, About(a, s), About(b, s)
    PROVE  About(a \o b, s)
<1>1. PICK M : M = {call \in Call : call.op \in {"serve", "respond", "callback"}
                                     /\ call.stream # s}
  OBVIOUS
<1>2. ~SomeIn(a, M) /\ ~SomeIn(b, M)
  BY <1>1 DEF SomeIn, About
<1>3. ~SomeIn(a \o b, M) /\ a \o b \in Seq(Call)
  BY <1>2, InJoined
<1>. QED BY <1>1, <1>3 DEF SomeIn, About

\* A handler takes its message: it promises and it responds.
LEMMA ServeSound ==
    ASSUME SInv, IInv', Serve
    PROVE  SInv'
<1>1. /\ work # <<>> /\ Top.op = "serve"
      /\ UNCHANGED <<open, table, ids, assembly, queue, peer>>
  BY DEF Serve, Running
<1>2. PICK s : s = Top.stream
  OBVIOUS
<1>3. /\ s \in StreamId /\ Top \in Serving(s) /\ Top \in Carrying(s)
      /\ stream[s] \in Stream /\ work \in Seq(Call)
  BY <1>1, <1>2, SoundTypes, TopType DEF StreamOp, Carrying, Serving
<1>4. PICK r \in Responses :
         /\ stream' = [stream EXCEPT ![s].kind = r.kind,
                                     ![s].todo = r.body, ![s].cut = r.cut]
         /\ Becomes([i \in 1..r.push |-> Do("push", s)] \o <<Do("respond", s)>>)
  BY <1>2 DEF Serve
<1>5. PICK new : /\ stream' = [stream EXCEPT ![s] = new] /\ Alike(new, stream[s])
  <2>1. PICK st \in Stream : st = stream[s]
    BY <1>3
  <2>2. PICK kind, todo, cut : kind = r.kind /\ todo = r.body /\ cut = r.cut
    OBVIOUS
  <2>. DEFINE new == [st EXCEPT !.kind = kind, !.todo = todo, !.cut = cut]
  <2>3. Alike(new, st)
    BY DEF Stream, Alike
  <2>4. stream' = [stream EXCEPT ![s] = new]
    BY <1>3, <1>4, <2>1, <2>2, SoundTypes
  <2>. HIDE DEF new
  <2>. QED BY <2>1, <2>3, <2>4
<1>6. stream'[s] = new /\ \A x \in StreamId \ {s} : stream'[x] = stream[x]
  BY <1>3, <1>5, SoundTypes
<1>. DEFINE promises == [i \in 1..r.push |-> Do("push", s)]
            answer == <<Do("respond", s)>>
<1>7. /\ promises \in Seq(Call) /\ ~SomeIn(promises, Carrying(s)) /\ OneIn(promises, Carrying(s))
      /\ ~SomeIn(promises, Serving(s)) /\ About(promises, s)
  <2>1. r.push \in Nat
    BY ResponseAssumption DEF Response
  <2>2. PICK n \in Nat : n = r.push
    BY <2>1
  <2>3. PICK c : c = Do("push", s)
    OBVIOUS
  <2>4. c \in Call /\ c.op = "push"
    BY <1>3, <2>3, DoType DEF Do
  <2>5. PICK p : p = promises
    OBVIOUS
  <2>6. p \in Seq(Call) /\ \A i \in 1..Len(p) : p[i] = c
    BY <2>2, <2>4, <2>5, <2>3
  <2>. HIDE DEF promises
  <2>7. \A i \in 1..Len(p) : p[i] \notin Carrying(s) /\ p[i] \notin Serving(s)
    BY <2>4, <2>6 DEF Carrying, Serving
  <2>. QED BY <2>4, <2>5, <2>6, <2>7 DEF SomeIn, OneIn, About
<1>8. /\ answer \in Seq(Call) /\ OneIn(answer, Carrying(s)) /\ About(answer, s)
  <2>1. Do("respond", s) \in Call /\ Do("respond", s).stream = s
    BY <1>3, DoType DEF Do
  <2>. QED BY <2>1, InOne DEF About
<1>. HIDE DEF promises, answer
<1>9. PICK calls : calls = promises \o answer
  OBVIOUS
<1>10. calls \in Seq(Call) /\ About(calls, s) /\ OneIn(calls, Carrying(s)) /\ Becomes(calls)
  <2>1. calls \in Seq(Call) /\ About(calls, s)
    BY <1>7, <1>8, <1>9, AboutJoined
  <2>2. PICK M : M = Carrying(s)
    OBVIOUS
  <2>3. OneIn(promises, M) /\ OneIn(answer, M) /\ ~(SomeIn(promises, M) /\ SomeIn(answer, M))
            => OneIn(promises \o answer, M)
    BY <1>7, <1>8, InJoined
  <2>4. OneIn(calls, Carrying(s))
    BY <1>7, <1>8, <1>9, <2>2, <2>3
  <2>5. Becomes(calls)
    BY <1>4, <1>9 DEF promises, answer
  <2>. QED BY <2>1, <2>4, <2>5
<1>11. WorkOthers(work', work, s)
  BY <1>1, <1>3, <1>10, OthersOfWork DEF Becomes
<1>12. ASSUME s \in Live
       PROVE  Good(queue', work', stream'[s], s, continuation', peer'.out[s])
  <2>1. /\ ~SomeIn(Tail(work), Carrying(s)) /\ ~SomeIn(queue, Writes(s))
        /\ stream[s].pending = <<>> /\ stream[s].end /\ continuation # s
        /\ ~stream[s].complete /\ Shows(stream[s])
    BY <1>1, <1>3, <1>12, TopCarries
  <2>2. OneIn(work', Carrying(s))
    BY <1>1, <1>3, <1>10, <2>1, HandedOn
  <2>3. new.pending = <<>> /\ new.end /\ ~new.complete /\ Shows(new)
    BY <1>5, <2>1 DEF Alike, Shows
  <2>4. DrivenOnce(queue', work', new, s)
    <3>1. Len(new.pending) <= 1
      BY <2>3
    <3>2. queue' = queue /\ OneIn(queue, Writes(s))
      BY <1>1, <2>1 DEF SomeIn, OneIn
    <3>. QED BY <2>1, <2>2, <2>3, <3>1, <3>2 DEF DrivenOnce
  <2>5. continuation' # s
    BY <1>1, <2>1 DEF assembly
  <2>. QED BY <1>6, <2>3, <2>4, <2>5, DrivenGood
<1>13. /\ BlockHasAStream' /\ AskedFor'
       /\ \A x \in Live \ {s} : continuation' = x => continuation = x
  BY <1>1, BlockStays
<1>14. QueueUsed(queue', lastStreamId, pushStreamId) /\ QueueOthers(queue', queue, s)
  <2>1. queue' = queue /\ QueueNarrows(queue, queue)
    BY <1>1, SoundTypes
  <2>. QED BY <2>1, NarrowsOthers DEF SInv
<1>15. stream'[s].state = "CLOSED" <=> stream[s].state = "CLOSED"
  BY <1>5, <1>6 DEF Alike
<1>16. UNCHANGED <<table, lastStreamId, pushStreamId, peer>>
  BY <1>1 DEF ids
<1>. QED BY <1>3, <1>6, <1>11, <1>12, <1>13, <1>14, <1>15, <1>16, OneSound

\* A stream that was used still is, once another one is promised.
LEMMA UsedGrows ==
    ASSUME SInv, Push
    PROVE  /\ \A x \in StreamId : Used(x) => UsedBy(x, lastStreamId', pushStreamId')
           /\ \A q \in Seq(Item) : QueueUsed(q, lastStreamId, pushStreamId) =>
                 QueueUsed(q, lastStreamId', pushStreamId')
           /\ continuation # 0 => continuation % 2 # 0
                 \/ UsedBy(continuation, lastStreamId', pushStreamId')
<1>1. TypeOK /\ IInv
  BY SoundTypes
<1>2. /\ lastStreamId' = lastStreamId /\ pushStreamId \in Nat
      /\ pushStreamId' = pushStreamId + 2 \/ pushStreamId' = pushStreamId
      /\ continuation \in StreamId \cup {0}
  BY <1>1 DEF Push, TypeOK
<1>3. ASSUME NEW x \in StreamId \cup {0}, Used(x) PROVE UsedBy(x, lastStreamId', pushStreamId')
  <2>1. x \in Nat
    BY StreamIdAssumption
  <2>2. x <= pushStreamId => x <= pushStreamId'
    BY <1>2, <2>1
  <2>. QED BY <1>2, <1>3, <2>2 DEF Used, UsedBy
<1>4. ASSUME NEW q \in Seq(Item), QueueUsed(q, lastStreamId, pushStreamId)
      PROVE  QueueUsed(q, lastStreamId', pushStreamId')
  <2>1. SUFFICES ASSUME NEW i \in 1..Len(q), q[i].callback \in Drive
                 PROVE  UsedBy(q[i].stream, lastStreamId', pushStreamId')
    BY DEF QueueUsed
  <2>2. UsedBy(q[i].stream, lastStreamId, pushStreamId) /\ q[i] \in Item
    BY <1>4, <2>1 DEF QueueUsed
  <2>3. q[i].stream \in StreamId \cup {0}
    BY <2>2 DEF Item
  <2>. QED BY <2>2, <2>3, <1>3 DEF Used
<1>5. AskedFor
  BY DEF SInv
<1>. QED BY <1>2, <1>3, <1>4, <1>5 DEF AskedFor

\* A promised stream is opened and served; one that cannot be promised is not.
LEMMA PushSound ==
    ASSUME SInv, IInv', Push
    PROVE  SInv'
<1>. DEFINE p == pushStreamId + 2
<1>1. /\ work # <<>> /\ UNCHANGED <<open, continuation, refused>>
      /\ work \in Seq(Call) /\ Tail(work) \in Seq(Call) /\ queue \in Seq(Item)
      /\ Live \subseteq StreamId
  <2>1. work # <<>> /\ UNCHANGED <<open, continuation, refused>>
    BY DEF Push, Running, assembly
  <2>. QED BY <2>1, SoundTypes
<1>2. AskedFor'
  BY <1>1, UsedGrows DEF AskedFor, Used
<1>3. \A x \in Live : continuation' = x => continuation = x
  BY <1>1
<1>4. CASE CanPush /\ p \in StreamId
  <2>1. PICK s \in StreamId : s = p
    BY <1>4
  <2>2. /\ pushStreamId \in Nat /\ pushStreamId % 2 = 0 /\ initialWindow \in Int
    <3>1. TypeOK /\ PushEven
      BY SoundTypes DEF IInv
    <3>. QED BY <3>1 DEF TypeOK, PushEven
  <2>3. s % 2 = 0 /\ s > pushStreamId /\ s # 0
    BY <2>1, <2>2
  <2>4. ~Used(s)
    <3>1. s \in Nat
      BY StreamIdAssumption
    <3>. QED BY <2>2, <2>3, <3>1 DEF Used, UsedBy
  <2>. DEFINE fresh == Fresh("RESERVED_LOCAL", initialWindow)
              new == [fresh EXCEPT !.end = TRUE, !.headersComplete = TRUE]
  <2>5. /\ queue' = Append(queue, Plain("PUSH_PROMISE", s))
        /\ table' = Append(table, s)
        /\ stream' = [stream EXCEPT ![s] = new]
        /\ peer' = [peer EXCEPT !.out[s] = "reserved", !.granted[s] = initialWindow]
        /\ Becomes(<<Do("serve", s)>>)
    BY <1>4, <2>1 DEF Push
  <2>6. /\ new.pending = <<>> /\ new.end /\ ~new.complete /\ new.state = "RESERVED_LOCAL"
    <3>1. fresh \in Stream
      BY <2>2, FreshType DEF StreamState
    <3>2. fresh.pending = <<>> /\ ~fresh.complete /\ fresh.state = "RESERVED_LOCAL"
      BY DEF Fresh
    <3>. HIDE DEF fresh
    <3>. QED BY <3>1, <3>2 DEF Stream
  <2>. HIDE DEF new, p
  <2>7. stream'[s] = new /\ \A x \in StreamId \ {s} : stream'[x] = stream[x]
    BY <2>5, SoundTypes
  <2>8. \A x \in StreamId \ {s} : peer'.out[x] = peer.out[x]
    BY <2>5, SoundTypes DEF Peer
  <2>9. QueueNarrows(queue', queue)
    <3>1. Plain("PUSH_PROMISE", s) \in Item /\ Plain("PUSH_PROMISE", s).callback \notin Drive
      BY PlainType DEF Plain, Drive
    <3>. QED BY <1>1, <2>5, <3>1, QueueGrowsByOne
  <2>10. s \notin Live /\ ~SomeIn(queue, Writes(s)) /\ ~SomeIn(work, Carrying(s))
    BY <2>4, UnusedRests
  <2>11. /\ ~SomeIn(queue', Writes(s)) /\ ~SomeIn(Tail(work), Carrying(s))
    BY <1>1, <2>9, <2>10, InRest DEF QueueNarrows, Narrows
  <2>12. work' = <<Do("serve", s)>> \o Tail(work) /\ work' \in Seq(Call)
    BY <2>5 DEF Becomes, IInv, TypeOK
  <2>13. WorkOthers(work', work, s)
    BY <1>1, <2>12, ServeCall, OthersOfWork
  <2>14. continuation' # s
    <3>1. continuation = s => FALSE
      BY <2>3, <2>4 DEF SInv, AskedFor
    <3>. QED BY <1>1, <3>1
  <2>15. Good(queue', work', new, s, continuation', peer'.out[s])
    <3>1. Shows(new)
      BY <2>6 DEF Shows
    <3>. QED BY <1>1, <2>6, <2>11, <2>12, <2>14, <3>1, RestsOrIsServed
  <2>16. BlockHasAStream'
    <3>1. Live' = Live \cup {s}
      BY <2>5, <2>10, TableGrows
    <3>. QED BY <1>1, <3>1 DEF SInv, BlockHasAStream
  <2>17. Len(table) < Slots /\ Len(table) < PushLimit
    BY <1>4 DEF CanPush
  <2>. QED BY <1>2, <1>3, <2>4, <2>5, <2>6, <2>7, <2>8, <2>9, <2>13, <2>15, <2>16, <2>17,
             UsedGrows, OpenSound
<1>5. CASE ~(CanPush /\ p \in StreamId)
  <2>1. UNCHANGED <<queue, table, stream, peer>> /\ Return
    BY <1>5 DEF Push
  <2>2. Live' = Live /\ Promised' = Promised
    BY <2>1 DEF Live, Promised
  <2>3. WorkNarrows(work', work) /\ QueueNarrows(queue, queue)
    BY <1>1, <2>1, SoundTypes, StackNarrows
  <2>4. EachIsGood'
    <3>1. SUFFICES ASSUME NEW x \in Live
                   PROVE  Good(queue, work', stream[x], x, continuation, peer.out[x])
      BY <1>1, <2>1, <2>2 DEF EachIsGood
    <3>2. Good(queue, work, stream[x], x, continuation, peer.out[x]) /\ x \in StreamId
      BY <1>1 DEF SInv, EachIsGood
    <3>3. Narrows(queue, queue, Writes(x)) /\ Alike(stream[x], stream[x])
      BY <2>3, <3>2 DEF QueueNarrows, Alike
    <3>4. Narrows(work', work, Carrying(x)) /\ Narrows(work', work, Serving(x))
      BY <2>3, <3>2 DEF WorkNarrows
    <3>. QED BY <3>2, <3>3, <3>4, StaysGood
  <2>5. QueueUsed(queue', lastStreamId', pushStreamId')
    BY <1>1, <2>1, UsedGrows DEF SInv
  <2>6. /\ Len(table') <= Slots /\ Cardinality(Promised') <= PushLimit
        /\ \A x \in StreamId : x \in Live' <=> stream'[x].state # "CLOSED"
    BY <2>1, <2>2 DEF SInv
  <2>7. BlockHasAStream'
    BY <1>1, <2>2 DEF SInv, BlockHasAStream
  <2>. QED BY <1>2, <2>4, <2>5, <2>6, <2>7 DEF SInv
<1>. QED BY <1>4, <1>5

\* A step about the response of s.
LEMMA ResponseSound ==
    ASSUME SInv, IInv', UNCHANGED <<open, table, ids, assembly>>, NEW s \in StreamId, NEW new,
           stream' = [stream EXCEPT ![s] = new],
           \A x \in StreamId \ {s} : peer'.out[x] = peer.out[x],
           new.state = "CLOSED" <=> stream[s].state = "CLOSED",
           QueueOthers(queue', queue, s), WorkOthers(work', work, s),
           QueueUsed(queue', lastStreamId, pushStreamId),
           s \in Live => Good(queue', work', new, s, continuation, peer'.out[s])
    PROVE  SInv'
<1>1. stream'[s] = new /\ \A x \in StreamId \ {s} : stream'[x] = stream[x]
  BY SoundTypes
<1>2. /\ BlockHasAStream' /\ AskedFor'
      /\ \A x \in Live \ {s} : continuation' = x => continuation = x
  BY BlockStays
<1>3. UNCHANGED <<table, lastStreamId, pushStreamId, continuation>>
  BY DEF ids, assembly
<1>. QED BY <1>1, <1>2, <1>3, OneSound

\* One more write of a stream that was opened.
LEMMA UsedAppended ==
    ASSUME NEW q \in Seq(Item), NEW item \in Item, NEW last, NEW push,
           QueueUsed(q, last, push), UsedBy(item.stream, last, push)
    PROVE  QueueUsed(Append(q, item), last, push)
<1>1. PICK M : M = {x \in Item : x.callback \in Drive /\ ~UsedBy(x.stream, last, push)}
  OBVIOUS
<1>2. ~SomeIn(q, M) /\ item \notin M
  BY <1>1 DEF SomeIn, QueueUsed
<1>3. ~SomeIn(Append(q, item), M) /\ Append(q, item) \in Seq(Item)
  BY <1>2, InAppended
<1>. QED BY <1>1, <1>3 DEF SomeIn, QueueUsed

\* Writing the head, or the end, of a response leaves what it depends on.
LEMMA HeadLeaves ==
    ASSUME NEW st \in Stream
    PROVE  /\ AfterHead(st).end = st.end /\ AfterHead(st).complete = st.complete
           /\ AfterHead(st).todo = st.todo /\ Completed(st).todo = st.todo
           /\ AfterHead(st).state = "CLOSED" <=> st.state = "CLOSED"
           /\ st.state \notin {"OPEN", "HALF_CLOSED_LOCAL"} =>
                 AfterHead(st).state \notin {"OPEN", "HALF_CLOSED_LOCAL"}
           /\ Completed(st).end = st.end /\ Completed(st).complete
           /\ Completed(st).state = "CLOSED" <=> st.state = "CLOSED"
           /\ st.state \notin {"OPEN", "HALF_CLOSED_LOCAL"} => Completed(st).state = st.state
  BY DEF AfterHead, Completed, Stream, StreamState

\* What a handler responds with on s: its head is written as the item, and the stream is
\* left with a page that is held back after it, or with nothing.
RespondsWith(s, new, item, o) ==
    /\ stream' = [stream EXCEPT ![s] = new]
    /\ queue' = Append(queue, item)
    /\ peer' = [peer EXCEPT !.out[s] = o]
    /\ new.end = stream[s].end /\ new.todo = stream[s].todo
    /\ new.complete => stream[s].complete \/ o = "ended"
    /\ new.state = "CLOSED" <=> stream[s].state = "CLOSED"
    /\ stream[s].state \notin {"OPEN", "HALF_CLOSED_LOCAL"} =>
          new.state \notin {"OPEN", "HALF_CLOSED_LOCAL"}
    /\ item \in Item /\ item.stream = s
    /\ o \in {"headers", "ended"} /\ (item.callback = "chunk" => o = "headers")
    /\ \/ new.pending = stream[s].pending
       \/ /\ item.callback \notin Drive /\ o = "headers"
          /\ new.pending = Append(stream[s].pending,
                                  Chunk(PageSize(stream[s]), TRUE, "cleanup"))

\* A handler that responds writes a head and leaves a page, or nothing, to be sent.
LEMMA RespondGoesOn ==
    ASSUME SInv, Respond, NEW s, s = Top.stream
    PROVE  /\ work # <<>> /\ Top \in Serving(s) /\ UNCHANGED <<open, table, ids, assembly>>
           /\ s \in StreamId /\ Used(s)
           /\ Becomes(<<>>) \/ Becomes(<<Do("schedule", 0)>>)
           /\ \E new, item, o : RespondsWith(s, new, item, o)
<1>1. /\ work # <<>> /\ Top.op = "respond"
      /\ UNCHANGED <<open, table, ids, assembly>>
  BY DEF Respond, Running
<1>2. s = Top.stream
  OBVIOUS
<1>3. /\ s \in StreamId /\ Top \in Serving(s) /\ Used(s)
      /\ work \in Seq(Call) /\ queue \in Seq(Item) /\ peer \in Peer
  BY <1>1, <1>2, SoundTypes, TopType DEF StreamOp, Serving
<1>4. PICK st \in Stream : st = stream[s]
  BY <1>3, SoundTypes
<1>5. PICK new :
          new = CASE st.kind = "head" -> AfterHead(Completed(st))
                  [] st.kind = "file" -> AfterHead(st)
                  [] OTHER -> [AfterHead(st) EXCEPT
                        !.pending = Append(@, Chunk(PageSize(st), TRUE, "cleanup"))]
  OBVIOUS
<1>6. PICK end \in BOOLEAN : end = (st.kind = "head")
  OBVIOUS
<1>7. PICK callback \in Callback :
          callback = IF st.kind = "head" THEN "cleanup"
                     ELSE IF st.kind = "file" THEN "chunk" ELSE "none"
  BY DEF Callback
<1>8. PICK o : o = IF st.kind = "head" THEN "ended" ELSE "headers"
  OBVIOUS
<1>9. /\ stream' = [stream EXCEPT ![s] = new]
      /\ queue' = Append(queue, HeadOf(s, end, callback))
      /\ peer' = [peer EXCEPT !.out[s] = o]
      /\ Becomes(<<>>) \/ Becomes(<<Do("schedule", 0)>>)
      /\ new.end = st.end /\ new.todo = st.todo
      /\ new.complete => st.complete \/ o = "ended"
      /\ new.state = "CLOSED" <=> st.state = "CLOSED"
      /\ st.state \notin {"OPEN", "HALF_CLOSED_LOCAL"} =>
            new.state \notin {"OPEN", "HALF_CLOSED_LOCAL"}
      /\ \/ new.pending = st.pending
         \/ /\ callback \notin Drive /\ o = "headers"
            /\ new.pending = Append(st.pending, Chunk(PageSize(st), TRUE, "cleanup"))
  <2>1. Return => Becomes(<<>>)
    <3>1. Tail(work) \in Seq(Call)
      BY <1>3, <1>1
    <3>. QED BY <3>1 DEF Return, Becomes
  <2>2. CASE st.kind = "head"
    <3>1. PICK done \in Stream : done = Completed(st) /\ done.pending = st.pending
      BY CompletedType
    <3>2. new = AfterHead(done) /\ end = TRUE /\ callback = "cleanup" /\ o = "ended"
      BY <1>5, <1>6, <1>7, <1>8, <2>2, <3>1
    <3>3. /\ stream' = [stream EXCEPT ![s] = new]
          /\ queue' = Append(queue, HeadOf(s, end, callback))
          /\ peer' = [peer EXCEPT !.out[s] = o]
          /\ Return
      BY <1>2, <1>4, <2>2, <3>1, <3>2 DEF Respond
    <3>4. /\ new.end = st.end /\ new.todo = st.todo
          /\ new.state = "CLOSED" <=> st.state = "CLOSED"
          /\ st.state \notin {"OPEN", "HALF_CLOSED_LOCAL"} =>
                new.state \notin {"OPEN", "HALF_CLOSED_LOCAL"}
          /\ new.pending = st.pending
      BY <3>1, <3>2, HeadLeaves, AfterHeadType
    <3>. QED BY <2>1, <3>2, <3>3, <3>4
  <2>3. CASE st.kind = "file"
    <3>1. new = AfterHead(st) /\ end = FALSE /\ callback = "chunk" /\ o = "headers"
      BY <1>5, <1>6, <1>7, <1>8, <2>3
    <3>2. /\ stream' = [stream EXCEPT ![s] = new]
          /\ queue' = Append(queue, HeadOf(s, end, callback))
          /\ peer' = [peer EXCEPT !.out[s] = o]
          /\ Return
      BY <1>2, <1>4, <2>3, <3>1 DEF Respond
    <3>3. /\ new.end = st.end /\ new.complete = st.complete /\ new.todo = st.todo
          /\ new.state = "CLOSED" <=> st.state = "CLOSED"
          /\ st.state \notin {"OPEN", "HALF_CLOSED_LOCAL"} =>
                new.state \notin {"OPEN", "HALF_CLOSED_LOCAL"}
          /\ new.pending = st.pending
      BY <3>1, HeadLeaves, AfterHeadType
    <3>. QED BY <2>1, <3>1, <3>2, <3>3
  <2>4. CASE st.kind = "page"
    <3>1. PICK head \in Stream : head = AfterHead(st) /\ head.pending = st.pending
      BY AfterHeadType
    <3>2. PICK held : held = Append(st.pending, Chunk(PageSize(st), TRUE, "cleanup"))
      OBVIOUS
    <3>3. /\ new = [head EXCEPT !.pending = held]
          /\ end = FALSE /\ callback = "none" /\ o = "headers"
      BY <1>5, <1>6, <1>7, <1>8, <2>4, <3>1, <3>2
    <3>4. /\ stream' = [stream EXCEPT ![s] = new]
          /\ queue' = Append(queue, HeadOf(s, end, callback))
          /\ peer' = [peer EXCEPT !.out[s] = o]
          /\ Becomes(<<Do("schedule", 0)>>)
      BY <1>2, <1>4, <2>4, <3>1, <3>2, <3>3 DEF Respond
    <3>5. /\ new.pending = held /\ new.end = head.end /\ new.complete = head.complete
          /\ new.state = head.state /\ new.todo = head.todo
      BY <3>3 DEF Stream
    <3>6. /\ new.end = st.end /\ new.complete = st.complete /\ new.todo = st.todo
          /\ new.state = "CLOSED" <=> st.state = "CLOSED"
          /\ st.state \notin {"OPEN", "HALF_CLOSED_LOCAL"} =>
               new.state \notin {"OPEN", "HALF_CLOSED_LOCAL"}
      BY <3>1, <3>5, HeadLeaves
    <3>. QED BY <3>2, <3>3, <3>4, <3>5, <3>6 DEF Drive
  <2>. QED BY <2>2, <2>3, <2>4 DEF Stream
<1>10. PICK item \in Item : /\ item = HeadOf(s, end, callback) /\ item.stream = s
                            /\ item.callback = callback
  BY <1>3, HeadOfType DEF HeadOf, Plain
<1>11. o \in {"headers", "ended"} /\ (callback = "chunk" => o = "headers")
  BY <1>7, <1>8
<1>12. RespondsWith(s, new, item, o)
  BY <1>4, <1>9, <1>10, <1>11 DEF RespondsWith
<1>. QED BY <1>1, <1>3, <1>9, <1>12

\* A handler responds: the head is written, and a page with it.
LEMMA RespondSound ==
    ASSUME SInv, IInv', Respond
    PROVE  SInv'
<1>1. PICK s : s = Top.stream
  OBVIOUS
<1>2. /\ work # <<>> /\ Top \in Serving(s) /\ UNCHANGED <<open, table, ids, assembly>>
      /\ s \in StreamId /\ Used(s)
      /\ Becomes(<<>>) \/ Becomes(<<Do("schedule", 0)>>)
  BY <1>1, RespondGoesOn
<1>3. /\ Top \in Carrying(s) /\ work \in Seq(Call) /\ queue \in Seq(Item) /\ peer \in Peer
  BY <1>2, SoundTypes DEF Carrying
<1>4. PICK st \in Stream : st = stream[s]
  BY <1>2, SoundTypes
<1>5. PICK new, item, o :
         /\ stream' = [stream EXCEPT ![s] = new]
         /\ queue' = Append(queue, item)
         /\ peer' = [peer EXCEPT !.out[s] = o]
         /\ new.end = st.end
         /\ new.complete => st.complete \/ o = "ended"
         /\ new.state = "CLOSED" <=> st.state = "CLOSED"
         /\ st.state \notin {"OPEN", "HALF_CLOSED_LOCAL"} =>
               new.state \notin {"OPEN", "HALF_CLOSED_LOCAL"}
         /\ item \in Item /\ item.stream = s
         /\ \/ new.pending = st.pending
            \/ /\ item.callback \notin Drive
               /\ new.pending = Append(st.pending, Chunk(PageSize(st), TRUE, "cleanup"))
  <2>1. PICK new, item, o : RespondsWith(s, new, item, o)
    BY <1>1, RespondGoesOn
  <2>. QED BY <1>4, <2>1 DEF RespondsWith
<1>6. PICK calls \in Seq(Call) :
         /\ Becomes(calls) /\ OneIn(calls, Carrying(s)) /\ ~SomeIn(calls, Carrying(s))
         /\ ~SomeIn(calls, Serving(s)) /\ About(calls, s)
  <2>1. ASSUME NEW calls \in Seq(Call), Light(calls)
        PROVE  /\ OneIn(calls, Carrying(s)) /\ ~SomeIn(calls, Carrying(s))
               /\ ~SomeIn(calls, Serving(s)) /\ About(calls, s)
    BY <2>1 DEF Light, OneIn, SomeIn, Carrying, Serving, About
  <2>2. <<>> \in Seq(Call) /\ Light(<<>>)
    BY DEF Light
  <2>3. <<Do("schedule", 0)>> \in Seq(Call) /\ Light(<<Do("schedule", 0)>>)
    BY LightCall
  <2>. QED BY <1>2, <2>1, <2>2, <2>3
<1>7. WorkOthers(work', work, s)
  BY <1>2, <1>3, <1>6, OthersOfWork DEF Becomes
<1>8. QueueOthers(queue', queue, s) /\ QueueUsed(queue', lastStreamId, pushStreamId)
  BY <1>2, <1>3, <1>5, OthersOfQueue, UsedAppended DEF SInv, Used
<1>9. peer'.out[s] = o /\ \A x \in StreamId \ {s} : peer'.out[x] = peer.out[x]
  BY <1>2, <1>3, <1>5 DEF Peer
<1>10. ASSUME s \in Live
       PROVE  Good(queue', work', new, s, continuation, peer'.out[s])
  <2>1. /\ ~SomeIn(Tail(work), Carrying(s)) /\ ~SomeIn(queue, Writes(s))
        /\ st.pending = <<>> /\ st.end /\ continuation # s
        /\ ~st.complete /\ Shows(st)
    BY <1>2, <1>3, <1>4, <1>10, TopCarries
  <2>2. ~SomeIn(work', Carrying(s)) /\ ~SomeIn(work', Serving(s)) /\ OneIn(work', Carrying(s))
    BY <1>2, <1>3, <1>6, <2>1, HandedOn
  <2>3. /\ OneIn(queue', Writes(s))
        /\ item.callback \notin Drive => ~SomeIn(queue', Writes(s))
    <3>1. OneIn(queue, Writes(s))
      BY <2>1 DEF OneIn, SomeIn
    <3>2. item \in Writes(s) <=> item.callback \in Drive
      BY <1>5 DEF Writes
    <3>. QED BY <1>3, <1>5, <2>1, <3>1, <3>2, InAppended
  <2>4. /\ new.pending = <<>> \/ (Len(new.pending) = 1 /\ item.callback \notin Drive)
        /\ \A i \in 1..Len(new.pending) : new.pending[i].offset = 0
    <3>1. CASE new.pending = st.pending
      BY <2>1, <3>1
    <3>2. CASE new.pending = Append(st.pending, Chunk(PageSize(st), TRUE, "cleanup"))
      <4>1. PICK c : c = Chunk(PageSize(st), TRUE, "cleanup")
        OBVIOUS
      <4>2. c = Chunk(PageSize(st), TRUE, "cleanup") /\ c.offset = 0
        BY <4>1 DEF Chunk
      <4>3. new.pending = <<c>>
        BY <2>1, <3>2, <4>2
      <4>4. PICK held : held = <<c>>
        OBVIOUS
      <4>5. Len(held) = 1 /\ \A i \in 1..Len(held) : held[i] = c
        BY <4>4
      <4>6. Len(new.pending) = 1 /\ \A i \in 1..Len(new.pending) : new.pending[i].offset = 0
        BY <4>2, <4>3, <4>4, <4>5
      <4>. QED BY <1>5, <2>1, <4>3, <4>6
    <3>. QED BY <1>5, <3>1, <3>2
  <2>5. DrivenOnce(queue', work', new, s)
    BY <2>2, <2>3, <2>4 DEF DrivenOnce
  <2>6. Shows(new) /\ new.end
    BY <1>5, <2>1, <2>4 DEF Shows
  <2>. QED BY <1>5, <1>9, <2>1, <2>2, <2>5, <2>6, DrivenGood
<1>. QED BY <1>2, <1>3, <1>4, <1>5, <1>7, <1>8, <1>9, <1>10, ResponseSound

\* The next fragment of a file is read, or the request cleaned up.
LEMMA SendChunkSound ==
    ASSUME SInv, IInv', SendChunk
    PROVE  SInv'
<1>1. /\ work # <<>> /\ Top.op = "callback" /\ Top.callback = "chunk"
      /\ UNCHANGED <<open, table, ids, assembly, queue, peer>>
  BY DEF SendChunk, Running
<1>2. PICK s : s = Top.stream
  OBVIOUS
<1>3. /\ s \in StreamId /\ Top \in Carrying(s)
      /\ work \in Seq(Call) /\ queue \in Seq(Item) /\ peer \in Peer
  BY <1>1, <1>2, SoundTypes, TopType DEF StreamOp, Carrying, Drive
<1>4. PICK st \in Stream : st = stream[s]
  BY <1>3, SoundTypes
<1>5. CASE st.todo = <<>>
  <2>1. Becomes(<<Do("release", s)>>) /\ stream' = stream
    BY <1>2, <1>4, <1>5 DEF SendChunk
  <2>2. <<Do("release", s)>> \in Seq(Call) /\ Light(<<Do("release", s)>>)
    BY <1>3, DoType DEF Do, Light
  <2>. QED BY <1>1, <2>1, <2>2, SoundTypes, StackNarrows, IdleSound
<1>6. CASE st.todo # <<>>
  <2>1. PICK c : c = Chunk(Head(st.todo), Len(st.todo) = 1 /\ ~st.cut, "chunk")
    OBVIOUS
  <2>2. c.offset = 0
    BY <2>1 DEF Chunk
  <2>3. PICK todo, held : todo = Tail(st.todo) /\ held = Append(st.pending, c)
    OBVIOUS
  <2>. DEFINE new == [st EXCEPT !.todo = todo, !.pending = held]
  <2>4. Becomes(<<Do("schedule", 0)>>)
    BY <1>2, <1>4, <1>6 DEF SendChunk
  <2>5. stream' = [stream EXCEPT ![s] = new]
    <3>1. stream' = [stream EXCEPT ![s].todo = Tail(@), ![s].pending = Append(@, c)]
      BY <1>2, <1>4, <1>6, <2>1 DEF SendChunk
    <3>. QED BY <1>3, <1>4, <2>3, <3>1, SoundTypes
  <2>6. /\ new.pending = held /\ new.end = st.end /\ new.complete = st.complete
        /\ new.state = st.state
    BY DEF Stream
  <2>. HIDE DEF new
  <2>7. PICK calls : calls = <<Do("schedule", 0)>>
    OBVIOUS
  <2>8. calls \in Seq(Call) /\ Light(calls) /\ Becomes(calls)
    BY <2>4, <2>7, LightCall
  <2>9. /\ OneIn(calls, Carrying(s)) /\ ~SomeIn(calls, Carrying(s))
        /\ ~SomeIn(calls, Serving(s)) /\ About(calls, s)
    BY <2>8 DEF Light, OneIn, SomeIn, Carrying, Serving, About
  <2>10. WorkOthers(work', work, s)
    BY <1>1, <1>3, <2>8, <2>9, OthersOfWork DEF Becomes
  <2>11. QueueOthers(queue', queue, s) /\ QueueUsed(queue', lastStreamId, pushStreamId)
    BY <1>1, SoundTypes, NarrowsOthers DEF SInv
  <2>12. ASSUME s \in Live PROVE Good(queue', work', new, s, continuation, peer'.out[s])
    <3>1. /\ ~SomeIn(Tail(work), Carrying(s)) /\ ~SomeIn(queue, Writes(s))
          /\ st.pending = <<>> /\ st.end /\ continuation # s
          /\ st.complete => peer.out[s] \in {"ended", "reset"}
          /\ Shows(st)
      BY <1>1, <1>3, <1>4, <2>12, TopCarries
    <3>2. ~SomeIn(work', Carrying(s)) /\ ~SomeIn(work', Serving(s)) /\ OneIn(work', Carrying(s))
      BY <1>1, <1>3, <2>8, <2>9, <3>1, HandedOn
    <3>3. held = <<c>>
      BY <2>3, <3>1
    <3>4. Len(new.pending) = 1 /\ \A i \in 1..Len(new.pending) : new.pending[i] = c
      BY <2>6, <3>3
    <3>5. OneIn(queue, Writes(s)) /\ queue' = queue /\ peer' = peer
      BY <1>1, <3>1 DEF OneIn, SomeIn
    <3>6. DrivenOnce(queue', work', new, s)
      BY <3>1, <3>2, <3>4, <3>5 DEF DrivenOnce
    <3>7. Shows(new) /\ new.end
      BY <2>2, <2>6, <3>1, <3>4 DEF Shows
    <3>. QED BY <2>6, <3>1, <3>2, <3>5, <3>6, <3>7, DrivenGood
  <2>. QED BY <1>1, <1>3, <1>4, <2>5, <2>6, <2>10, <2>11, <2>12, ResponseSound
<1>. QED BY <1>5, <1>6

\* A queue without its first write.
LEMMA TailNarrows ==
    ASSUME NEW q \in Seq(Item), q # <<>>
    PROVE  QueueNarrows(Tail(q), q) /\ Tail(q) \in Seq(Item)
  BY InRest DEF QueueNarrows, Narrows

\* The completion of a write runs the callback of the handler: it drives the response
\* from there on.
LEMMA WrittenSound ==
    ASSUME SInv, IInv', Written
    PROVE  SInv'
<1>. DEFINE item == Head(queue)
            s == item.stream
<1>1. CASE item.callback = "close"
  BY <1>1, CloseSessionSound DEF Written
<1>2. CASE item.callback # "close"
  <2>1. /\ queue # <<>> /\ work = <<>> /\ queue' = Tail(queue)
        /\ UNCHANGED <<open, table, stream, ids, assembly, peer>>
        /\ \/ /\ s \in Live
              /\ work' = <<[Do("callback", s) EXCEPT !.callback = item.callback],
                           [Do("settle", s) EXCEPT !.slot = Slot(s)]>>
           \/ work' = work
    BY <1>2 DEF Written
  <2>2. QueueNarrows(queue', queue) /\ queue \in Seq(Item) /\ item \in Item
    BY <2>1, SoundTypes, TailNarrows
  <2>3. CASE work' = work
    BY <2>1, <2>2, <2>3, SoundTypes, IdleSound
  <2>4. CASE /\ s \in Live
             /\ work' = <<[Do("callback", s) EXCEPT !.callback = item.callback],
                          [Do("settle", s) EXCEPT !.slot = Slot(s)]>>
    <3>1. PICK x \in Live : x = s /\ x \in StreamId
      BY <2>4, SoundTypes
    <3>2. PICK a, b : /\ a = [Do("callback", s) EXCEPT !.callback = item.callback]
                      /\ b = [Do("settle", s) EXCEPT !.slot = Slot(s)]
      OBVIOUS
    <3>3. work' = <<a, b>> /\ work' \in Seq(Call)
      BY <2>4, <3>2 DEF IInv, TypeOK
    <3>4. /\ a.op = "callback" /\ a.stream = x /\ a.callback = item.callback /\ b.op = "settle"
      BY <3>1, <3>2 DEF Do
    <3>5. a \in Carrying(x) <=> item.callback \in Drive
      <4>1. a \in Call
        BY <3>3
      <4>. QED BY <3>4, <4>1 DEF Carrying, Serving
    <3>6. b \notin Carrying(x) /\ a \notin Serving(x) /\ b \notin Serving(x)
      BY <3>4 DEF Carrying, Serving
    <3>7. /\ SomeIn(work', Carrying(x)) <=> item.callback \in Drive
          /\ OneIn(work', Carrying(x)) /\ ~SomeIn(work', Serving(x))
      <4>1. PICK w : w = <<a, b>>
        OBVIOUS
      <4>2. Len(w) = 2 /\ w[1] = a /\ w[2] = b /\ 1..2 = {1, 2}
        BY <4>1
      <4>. QED BY <3>3, <3>5, <3>6, <4>1, <4>2 DEF SomeIn, OneIn
    <3>8. About(<<a, b>>, x) /\ <<a, b>> \o <<>> = <<a, b>>
      BY <3>3, <3>4 DEF About
    <3>9. WorkOthers(work', work, x)
      <4>1. <<a, b>> \in Seq(Call) /\ <<>> \in Seq(Call)
        BY <3>3
      <4>2. WorkOthers(<<a, b>> \o <<>>, <<>>, x)
        BY <3>8, <4>1, OthersOfWork
      <4>. QED BY <2>1, <3>3, <3>8, <4>2
    <3>. HIDE DEF item, s
    <3>10. Good(queue, work, stream[x], x, continuation, peer.out[x])
      BY DEF SInv, EachIsGood
    <3>11. Narrows(queue', queue, Writes(x))
      BY <2>2, <3>1 DEF QueueNarrows
    <3>12. Good(queue', work', stream[x], x, continuation, peer'.out[x])
      <4>1. CASE item.callback \notin Drive
        <5>1. Narrows(work', work, Carrying(x)) /\ Narrows(work', work, Serving(x))
          BY <3>7, <4>1 DEF Narrows, OneIn, SomeIn
        <5>2. Alike(stream[x], stream[x]) /\ peer' = peer
          BY <2>1 DEF Alike
        <5>. QED BY <3>10, <3>11, <5>1, <5>2, StaysGood
      <4>2. CASE item.callback \in Drive
        <5>1. item \in Writes(x)
          BY <2>2, <3>1, <4>2 DEF Writes, s
        <5>2. SomeIn(queue, Writes(x))
          BY <2>1, <2>2, <5>1, InRest DEF item
        <5>3. ~SomeIn(queue', Writes(x)) /\ OneIn(queue', Writes(x))
          <6>1. OneIn(queue, Writes(x))
            BY <3>10 DEF Good, DrivenOnce
          <6>. QED BY <2>1, <2>2, <5>1, <6>1, InRest DEF item
        <5>4. stream[x].pending = <<>> /\ stream[x].end /\ continuation # x
          BY <3>10, <5>2 DEF Good, DrivenOnce, InTurn, AtRest
        <5>5. DrivenOnce(queue', work', stream[x], x)
          <6>1. Len(stream[x].pending) <= 1
            BY <3>10 DEF Good, DrivenOnce
          <6>. QED BY <3>7, <5>3, <5>4, <6>1 DEF DrivenOnce
        <5>6. /\ stream[x].complete => peer'.out[x] \in {"ended", "reset"}
              /\ Shows(stream[x])
          BY <2>1, <3>10 DEF Good, InTurn
        <5>. QED BY <3>7, <5>4, <5>5, <5>6, DrivenGood
      <4>. QED BY <4>1, <4>2
    <3>13. stream' = [stream EXCEPT ![x] = stream[x]]
      BY <2>1, <3>1, SoundTypes
    <3>14. QueueOthers(queue', queue, x)
      BY <2>2, NarrowsOthers
    <3>15. QueueUsed(queue', lastStreamId, pushStreamId)
      BY <2>2, NarrowsIsUsed DEF SInv, IInv, TypeOK
    <3>16. \A y \in StreamId \ {x} : peer'.out[y] = peer.out[y]
      BY <2>1
    <3>. QED BY <2>1, <3>1, <3>9, <3>12, <3>13, <3>14, <3>15, <3>16, ResponseSound
  <2>. QED BY <2>1, <2>3, <2>4
<1>. QED BY <1>1, <1>2

\* What is left of the only fragment, once a frame has taken n of it.
LEMMA LeftOfOne ==
    ASSUME NEW pending \in Seq(Fragment), Len(pending) = 1, NEW n \in Nat,
           n <= pending[1].size - pending[1].offset, NEW left,
           \/ left = Tail(pending)
           \/ /\ ~Whole(pending[1], n)
              /\ left = [pending EXCEPT ![1].offset = @ + n]
    PROVE  /\ left \in Seq(Fragment) /\ Len(left) <= 1
           /\ \A i \in 1..Len(left) : left[i].offset < left[i].size
           /\ left = Tail(pending) => left = <<>>
<1>1. pending # <<>> /\ pending[1] \in Fragment
  <2>1. 1 \in 1..Len(pending)
    OBVIOUS
  <2>. QED BY <2>1
<1>2. Tail(pending) \in Seq(Fragment) /\ Len(Tail(pending)) = 0
  BY <1>1
<1>3. CASE left = Tail(pending)
  <2>1. Len(left) = 0 /\ left \in Seq(Fragment)
    BY <1>3, <1>2
  <2>. QED BY <2>1
<1>4. CASE ~Whole(pending[1], n) /\ left = [pending EXCEPT ![1].offset = @ + n]
  <2>1. PICK first \in Fragment : first = pending[1]
    BY <1>1
  <2>2. PICK offset \in Nat : offset = first.offset + n
    BY DEF Fragment
  <2>3. offset < first.size
    <3>1. first.offset \in Nat /\ first.size \in Nat
      BY DEF Fragment
    <3>. QED BY <1>4, <2>1, <2>2, <3>1 DEF Whole
  <2>4. PICK moved : moved = [first EXCEPT !.offset = offset]
    OBVIOUS
  <2>5. moved \in Fragment /\ moved.offset < moved.size
    BY <2>3, <2>4 DEF Fragment
  <2>6. left = [pending EXCEPT ![1] = moved]
    BY <1>4, <2>1, <2>2, <2>4
  <2>7. left \in Seq(Fragment) /\ Len(left) = 1 /\ left[1] = moved
    BY <2>5, <2>6
  <2>8. \A i \in 1..Len(left) : left[i] = moved
    BY <2>7
  <2>9. left # Tail(pending)
    <3>1. PICK rest : rest = Tail(pending)
      OBVIOUS
    <3>2. Len(rest) = 0 /\ Len(left) = 1
      BY <1>2, <2>7, <3>1
    <3>3. left # rest
      <4>1. Len(rest) # Len(left)
        BY <3>2
      <4>. QED BY <4>1, Zenon
    <3>. QED BY <3>1, <3>3
  <2>. QED BY <2>5, <2>7, <2>8, <2>9
<1>. QED BY <1>3, <1>4

\* The frame that a flush sends on s: the item takes so much of the first fragment as is
\* allowed, and the stream is left with the rest of it, or with the fragments after it.
FlushesOf(s, fragment, allowed, whole, last, left, new, item) ==
    /\ fragment \in Fragment /\ allowed \in Nat /\ whole \in BOOLEAN /\ last \in BOOLEAN
    /\ fragment = stream[s].pending[1]
    /\ allowed <= fragment.size - fragment.offset
    /\ allowed <= sendWindow /\ allowed <= stream[s].sendWindow
    /\ whole = Whole(fragment, allowed) /\ last = (fragment.last /\ whole)
    /\ peer' = [peer EXCEPT !.sent[s] = @ + allowed,
                            !.connSent = @ + allowed,
                            !.out[s] = IF last THEN "ended" ELSE @]
    /\ left = IF whole THEN Tail(stream[s].pending)
              ELSE [stream[s].pending EXCEPT ![1].offset = @ + allowed]
    /\ stream' = [stream EXCEPT ![s] = new]
    /\ queue' = Append(queue, item)
    /\ new.end = stream[s].end /\ new.todo = stream[s].todo /\ new.pending = left
    /\ new.complete => stream[s].complete \/ last
    /\ new.state = "CLOSED" <=> stream[s].state = "CLOSED"
    /\ stream[s].state \notin {"OPEN", "HALF_CLOSED_LOCAL"} => new.state = stream[s].state
    /\ item \in Item /\ item.stream = s
    /\ item.callback = CallbackOf(fragment, whole)

\* A flush sends as much of the first fragment as the windows let through.
LEMMA FlushGoesOn ==
    ASSUME SInv, Flush, NEW s, s = Top.stream
    PROVE  /\ work # <<>> /\ UNCHANGED <<open, table, ids, assembly, work>>
           /\ s \in StreamId /\ Used(s) /\ stream[s].pending # <<>>
           /\ \E fragment, allowed, whole, last, left, new, item :
                 FlushesOf(s, fragment, allowed, whole, last, left, new, item)
<1>1. /\ work # <<>> /\ Top.op = "flush"
      /\ UNCHANGED <<open, table, ids, assembly, work>>
  BY DEF Flush, Running, assembly
<1>3. /\ s \in StreamId /\ Used(s)
      /\ work \in Seq(Call) /\ queue \in Seq(Item) /\ peer \in Peer /\ IInv
  BY <1>1, SoundTypes, TopType DEF StreamOp
<1>4. PICK st \in Stream : st = stream[s] /\ Fit(st)
  BY <1>3, SoundTypes DEF IInv, FragmentsFit
<1>5. PICK pending \in Seq(Fragment) : pending = st.pending
  BY DEF Stream
<1>6. /\ pending # <<>> /\ pending[1] = Head(pending) /\ pending[1] \in Fragment
      /\ pending[1].offset <= pending[1].size
  <2>1. pending # <<>>
    BY <1>4, <1>5 DEF Flush
  <2>. QED BY <1>4, <1>5, <2>1 DEF Fit
<1>7. PICK fragment \in Fragment : fragment = pending[1] /\ fragment.offset <= fragment.size
  BY <1>6
<1>8. PICK allowed \in Nat :
         /\ allowed = Smaller(fragment.size - fragment.offset,
                              Smaller(Window(s), MaxFrameSize))
         /\ allowed <= fragment.size - fragment.offset
         /\ allowed <= sendWindow /\ allowed <= stream[s].sendWindow
  <2>1. fragment.size - fragment.offset \in Nat
    BY <1>7 DEF Fragment
  <2>2. /\ Window(s) \in Int /\ Window(s) > 0 /\ sendWindow \in Int /\ stream[s].sendWindow \in Int
        /\ Window(s) <= sendWindow /\ Window(s) <= stream[s].sendWindow
    <3>1. TypeOK
      BY SoundTypes
    <3>2. stream[s].sendWindow \in Int /\ sendWindow \in Int
      BY <1>3, <3>1 DEF TypeOK, Stream
    <3>3. Window(s) > 0
      BY DEF Flush
    <3>. QED BY <3>2, <3>3 DEF Window, Smaller
  <2>3. MaxFrameSize \in Nat
    BY WindowAssumption
  <2>. QED BY <2>1, <2>2, <2>3 DEF Smaller
<1>9. PICK whole \in BOOLEAN : whole = Whole(fragment, allowed)
  BY DEF Whole
<1>10. PICK last \in BOOLEAN : last = (fragment.last /\ whole)
  OBVIOUS
<1>11. PICK callback : callback = CallbackOf(fragment, whole)
  OBVIOUS
<1>12. PICK left : left = IF whole THEN Tail(pending)
                          ELSE [pending EXCEPT ![1].offset = @ + allowed]
  OBVIOUS
<1>13. PICK window : window = st.sendWindow - allowed
  OBVIOUS
<1>14. PICK item : item = [type |-> "DATA", stream |-> s, size |-> allowed, end |-> last,
                           callback |-> callback, wrapped |-> whole]
  OBVIOUS
<1>. DEFINE sent == [st EXCEPT !.sendWindow = window, !.pending = left]
            new == IF last THEN Completed(sent) ELSE sent
<1>15. /\ stream' = [stream EXCEPT ![s] = new]
       /\ queue' = Append(queue, item)
       /\ peer' = [peer EXCEPT !.sent[s] = @ + allowed,
                               !.connSent = @ + allowed,
                               !.out[s] = IF last THEN "ended" ELSE @]
  <2>1. /\ stream' = [stream EXCEPT ![s] =
                        IF last
                        THEN Completed([stream[s] EXCEPT !.sendWindow = @ - allowed, !.pending = left])
                        ELSE [stream[s] EXCEPT !.sendWindow = @ - allowed, !.pending = left]]
        /\ queue' = Append(queue,
              [type |-> "DATA", stream |-> s, size |-> allowed, end |-> last,
               callback |-> callback, wrapped |-> whole])
        /\ peer' = [peer EXCEPT !.sent[s] = @ + allowed,
                                !.connSent = @ + allowed,
                                !.out[s] = IF last THEN "ended" ELSE @]
    BY <1>4, <1>5, <1>6, <1>7, <1>8, <1>9, <1>10, <1>11, <1>12 DEF Flush
  <2>2. sent = [stream[s] EXCEPT !.sendWindow = @ - allowed, !.pending = left]
    BY <1>4, <1>13
  <2>. HIDE DEF sent
  <2>. QED BY <1>14, <2>1, <2>2
<1>16. /\ new.end = st.end /\ new.pending = left /\ new.todo = st.todo
       /\ new.complete => st.complete \/ last
       /\ new.state = "CLOSED" <=> st.state = "CLOSED"
       /\ st.state \notin {"OPEN", "HALF_CLOSED_LOCAL"} => new.state = st.state
  <2>1. /\ sent.end = st.end /\ sent.pending = left /\ sent.complete = st.complete
        /\ sent.state = st.state /\ sent.todo = st.todo
    BY DEF Stream
  <2>2. left \in Seq(Fragment)
    <3>1. \A i \in 1..Len(pending) : pending[i].offset <= pending[i].size
      BY <1>4, <1>5 DEF Fit
    <3>. QED BY <1>6, <1>7, <1>8, <1>12, <3>1, LeftType
  <2>3. sent \in Stream
    <3>1. window \in Int
      BY <1>13 DEF Stream
    <3>. QED BY <2>2, <3>1 DEF Stream
  <2>. HIDE DEF sent
  <2>4. /\ Completed(sent).end = st.end /\ Completed(sent).pending = left
        /\ Completed(sent).todo = st.todo
        /\ Completed(sent).state = "CLOSED" <=> st.state = "CLOSED"
        /\ st.state \notin {"OPEN", "HALF_CLOSED_LOCAL"} => Completed(sent).state = st.state
    BY <2>1, <2>3, HeadLeaves, CompletedType DEF Completed
  <2>. QED BY <2>1, <2>4
<1>. HIDE DEF new
<1>17. item \in Item /\ item.stream = s /\ item.callback = callback
  <2>1. callback \in Callback
    BY <1>11 DEF CallbackOf, Fragment, Callback
  <2>. QED BY <1>3, <1>14, <2>1 DEF Item, FrameType
<1>18. left = IF whole THEN Tail(stream[s].pending)
              ELSE [stream[s].pending EXCEPT ![1].offset = @ + allowed]
  BY <1>4, <1>5, <1>12
<1>19. FlushesOf(s, fragment, allowed, whole, last, left, new, item)
  BY <1>4, <1>5, <1>7, <1>8, <1>9, <1>10, <1>11, <1>15, <1>16, <1>17, <1>18 DEF FlushesOf
<1>. QED BY <1>1, <1>3, <1>4, <1>5, <1>6, <1>19

\* A frame of payload: the callback of a fragment goes with the frame that ends it.
LEMMA FlushSound ==
    ASSUME SInv, IInv', Flush
    PROVE  SInv'
<1>1. PICK s : s = Top.stream
  OBVIOUS
<1>2. /\ UNCHANGED <<open, table, ids, assembly, work>>
      /\ s \in StreamId /\ Used(s) /\ stream[s].pending # <<>>
  BY <1>1, FlushGoesOn
<1>3. work \in Seq(Call) /\ queue \in Seq(Item) /\ peer \in Peer
  BY SoundTypes
<1>4. PICK st \in Stream : st = stream[s]
  BY <1>2, SoundTypes
<1>5. PICK pending \in Seq(Fragment) : pending = st.pending
  BY DEF Stream
<1>6. PICK fragment, allowed, whole, last, left, new, item :
         FlushesOf(s, fragment, allowed, whole, last, left, new, item)
  BY <1>1, FlushGoesOn
<1>7. /\ fragment \in Fragment /\ allowed \in Nat /\ whole \in BOOLEAN /\ last \in BOOLEAN
      /\ fragment = pending[1]
      /\ allowed <= fragment.size - fragment.offset /\ whole = Whole(fragment, allowed)
      /\ last = (fragment.last /\ whole)
      /\ peer' = [peer EXCEPT !.sent[s] = @ + allowed,
                              !.connSent = @ + allowed,
                              !.out[s] = IF last THEN "ended" ELSE @]
      /\ left = IF whole THEN Tail(pending) ELSE [pending EXCEPT ![1].offset = @ + allowed]
      /\ stream' = [stream EXCEPT ![s] = new]
      /\ queue' = Append(queue, item)
      /\ new.end = st.end /\ new.todo = st.todo /\ new.pending = left
      /\ new.complete => st.complete \/ last
      /\ new.state = "CLOSED" <=> st.state = "CLOSED"
      /\ st.state \notin {"OPEN", "HALF_CLOSED_LOCAL"} => new.state = st.state
      /\ item \in Item /\ item.stream = s /\ item.callback = CallbackOf(fragment, whole)
  BY <1>4, <1>5, <1>6 DEF FlushesOf
<1>8. QueueOthers(queue', queue, s) /\ QueueUsed(queue', lastStreamId, pushStreamId)
  BY <1>2, <1>3, <1>7, OthersOfQueue, UsedAppended DEF SInv, Used
<1>9. WorkOthers(work', work, s)
  BY <1>2, SoundTypes, NarrowsOthers
<1>10. /\ peer'.out[s] = IF last THEN "ended" ELSE peer.out[s]
       /\ \A x \in StreamId \ {s} : peer'.out[x] = peer.out[x]
  BY <1>2, <1>3, <1>7 DEF Peer
<1>11. ASSUME s \in Live
       PROVE  Good(queue', work', new, s, continuation, peer'.out[s])
  <2>1. Good(queue, work, st, s, continuation, peer.out[s])
    BY <1>4, <1>11 DEF SInv, EachIsGood
  <2>2. /\ ~SomeIn(queue, Writes(s)) /\ ~SomeIn(work, Carrying(s)) /\ Len(pending) = 1
        /\ st.end /\ continuation # s /\ Shows(st)
        /\ st.complete => peer.out[s] \in {"ended", "reset"}
    <3>1. ~SomeIn(queue, Writes(s)) /\ ~SomeIn(work, Carrying(s)) /\ Len(st.pending) <= 1
      BY <1>2, <1>4, <1>5, <2>1 DEF Good, DrivenOnce
    <3>2. Len(pending) = 1
      <4>1. PICK n : n = Len(pending)
        OBVIOUS
      <4>2. n \in Nat /\ n # 0 /\ n <= 1
        BY <1>2, <1>4, <1>5, <3>1, <4>1
      <4>3. n = 1
        BY <4>2
      <4>. QED BY <4>1, <4>3
    <3>3. st.end /\ continuation # s
      BY <1>2, <1>4, <1>5, <2>1 DEF Good, InTurn, AtRest
    <3>. QED BY <2>1, <3>1, <3>2, <3>3 DEF Good, InTurn
  <2>3. /\ left \in Seq(Fragment) /\ Len(left) <= 1
        /\ \A i \in 1..Len(left) : left[i].offset < left[i].size
        /\ whole => left = <<>>
    <3>1. \/ whole /\ left = Tail(pending)
          \/ ~Whole(pending[1], allowed) /\ left = [pending EXCEPT ![1].offset = @ + allowed]
      BY <1>7
    <3>2. allowed \in Nat /\ allowed <= pending[1].size - pending[1].offset
      BY <1>7
    <3>3. /\ left \in Seq(Fragment) /\ Len(left) <= 1
          /\ \A i \in 1..Len(left) : left[i].offset < left[i].size
          /\ left = Tail(pending) => left = <<>>
      BY <2>2, <3>1, <3>2, LeftOfOne
    <3>. QED BY <1>7, <3>3
  <2>4. /\ OneIn(queue', Writes(s))
        /\ ~whole => ~SomeIn(queue', Writes(s))
    <3>1. OneIn(queue, Writes(s))
      BY <2>2 DEF OneIn, SomeIn
    <3>2. ~whole => item \notin Writes(s)
      BY <1>7 DEF CallbackOf, Writes, Drive
    <3>. QED BY <1>3, <1>7, <2>2, <3>1, <3>2, InAppended
  <2>5. DrivenOnce(queue', work', new, s)
    <3>1. OneIn(work, Carrying(s)) /\ work' = work
      BY <1>2, <2>2 DEF OneIn, SomeIn
    <3>. QED BY <1>7, <2>2, <2>3, <2>4, <3>1 DEF DrivenOnce
  <2>6. Shows(new) /\ new.end
    BY <1>7, <2>2, <2>3 DEF Shows
  <2>7. SomeIn(work', Serving(s)) => FALSE
    BY <1>2, <2>2 DEF SomeIn, Carrying
  <2>8. new.complete => peer'.out[s] \in {"ended", "reset"}
    BY <1>7, <1>10, <2>2
  <2>. QED BY <2>2, <2>5, <2>6, <2>7, <2>8, DrivenGood
<1>. QED BY <1>2, <1>3, <1>4, <1>7, <1>8, <1>9, <1>10, <1>11, ResponseSound
-----------------------------------------------------------------------------
(***************************************************************************)
(* Every step keeps the invariant of the streams, and what follows.        *)
(***************************************************************************)
\* A session that has just been created holds no stream.
LEMMA InitSInv == Init => SInv
<1>. SUFFICES ASSUME Init PROVE SInv
  OBVIOUS
<1>1. /\ table = <<>> /\ queue = <<>> /\ continuation = 0
      /\ stream = [s \in StreamId |-> Unused]
  BY DEF Init
<1>2. Live = {} /\ Promised = {} /\ Len(table) = 0
  BY <1>1 DEF Live, Promised
<1>3. Len(table) <= Slots /\ Cardinality(Promised) <= PushLimit
  BY <1>2, FS_EmptySet, BoundAssumption
<1>4. \A s \in StreamId : s \in Live <=> stream[s].state # "CLOSED"
  BY <1>1, <1>2 DEF Unused, Fresh
<1>5. EachIsGood /\ BlockHasAStream /\ AskedFor
  BY <1>1, <1>2 DEF EachIsGood, BlockHasAStream, AskedFor
<1>6. QueueUsed(queue, lastStreamId, pushStreamId)
  BY <1>1 DEF QueueUsed
<1>. QED BY <1>3, <1>4, <1>5, <1>6, InitIInv DEF SInv

\* Every step of the session keeps the invariant of the streams.
LEMMA NextSInv == SInv /\ [Next]_vars => SInv'
<1>. SUFFICES ASSUME SInv, [Next]_vars PROVE SInv'
  OBVIOUS
<1>1. IInv'
  BY SoundTypes, NextIInv
<1>2. CASE HandleFrame
  BY <1>1, <1>2, HandleViolationSound, HandleOversizedSound, RefuseDataSound, HandleDataSound,
     HandleHeadersSound, RefuseHeadersSound, HandleContinuationSound, HandlePrioritySound,
     HandleResetSound, HandleSettingsSound, HandlePingSound, HandleGoawaySound,
     HandleWindowUpdateSound, EndFramesSound, WriteGoawaySound DEF HandleFrame
<1>3. CASE Server /\ ~HandleFrame
  BY <1>1, <1>3, ServeSound, PushSound, RespondSound, ScheduleSound, FlushSound, EndFlushSound,
     SendChunkSound, CleanupSound, ReleaseSound, SettleSound DEF Server
<1>4. CASE Written \/ Receive \/ PeerCloses
  BY <1>1, <1>4, WrittenSound, ReceiveSound, PeerClosesSound
<1>5. CASE UNCHANGED vars
  <2>1. /\ UNCHANGED <<open, table, stream, ids, assembly, peer>>
        /\ queue' = queue /\ work' = work
    BY <1>5 DEF vars, session, ids, assembly
  <2>. QED BY <1>1, <2>1, SoundTypes, IdleSound
<1>. QED BY <1>2, <1>3, <1>4, <1>5 DEF Next

\* A response is driven by one thing at a time, and only once its message is over, in
\* every state of a session.
THEOREM ResponsesAreDrivenOnce == Spec => []SInv
BY InitSInv, NextSInv, PTL DEF Spec

\* The writes of a response and the fragments that are held back for it are one at most.
LEMMA OneDriving ==
    ASSUME SInv, NEW s \in Live
    PROVE  Cardinality(Driving(s)) <= 1
<1>1. DrivenOnce(queue, work, stream[s], s)
  BY DEF SInv, EachIsGood, Good
<1>2. s \in StreamId /\ queue \in Seq(Item)
  BY SoundTypes
<1>3. \A i \in 1..Len(queue) :
         queue[i].stream = s /\ queue[i].callback \in {"chunk", "cleanup"} <=> queue[i] \in Writes(s)
  <2>1. \A i \in 1..Len(queue) : queue[i] \in Item
    BY <1>2
  <2>. QED BY <2>1 DEF Writes, Drive
<1>4. PICK queued : queued = {j \in 1..Len(queue) : queue[j] \in Writes(s)}
  OBVIOUS
<1>5. PICK held : held = 1..Len(stream[s].pending)
  OBVIOUS
<1>6. Driving(s) = {<<"queued", i>> : i \in queued} \cup {<<"held", i>> : i \in held}
  BY <1>3, <1>4, <1>5 DEF Driving
<1>7. \A i, j \in queued : i = j
  BY <1>1, <1>4 DEF DrivenOnce, OneIn
<1>8. \A i, j \in held : i = j
  <2>1. stream[s].pending \in Seq(Fragment)
    BY <1>2, SoundTypes DEF Stream
  <2>2. Len(stream[s].pending) <= 1 /\ Len(stream[s].pending) \in Nat
    BY <1>1, <2>1 DEF DrivenOnce
  <2>. QED BY <1>5, <2>2
<1>9. queued = {} \/ held = {}
  BY <1>1, <1>4, <1>5 DEF DrivenOnce, SomeIn
<1>10. Driving(s) = {} \/ \E x : Driving(s) = {x}
  <2>1. CASE queued = {} /\ held = {}
    BY <1>6, <2>1
  <2>2. ASSUME NEW i \in queued PROVE Driving(s) = {<<"queued", i>>}
    BY <1>6, <1>7, <1>9, <2>2
  <2>3. ASSUME NEW i \in held PROVE Driving(s) = {<<"held", i>>}
    BY <1>6, <1>8, <1>9, <2>3
  <2>. QED BY <2>1, <2>2, <2>3
<1>11. Cardinality(Driving(s)) \in {0, 1}
  <2>1. Driving(s) = {} => Cardinality(Driving(s)) = 0
    BY FS_EmptySet
  <2>2. \A x : Cardinality({x}) = 1
    BY FS_Singleton
  <2>. QED BY <1>10, <2>1, <2>2
<1>. QED BY <1>11

\* The streams of a session, the writes that are outstanding for them and the table that
\* holds them agree, for every number of slots, of promises and of streams: a handler is
\* never driven by two completions, and a fragment is never sent twice (close_stream,
\* _flush, _callback_http2_connection, push_stream_http2_connection).
THEOREM StreamsAlwaysSound == Spec => []StreamsAreSound
<1>1. SInv => StreamsAreSound
  <2>. SUFFICES ASSUME SInv PROVE StreamsAreSound
    OBVIOUS
  <2>1. TypeOK
    BY SoundTypes
  <2>2. TableIsSound
    <3>1. NoDuplicates
      BY DEF SInv, IInv
    <3>. QED BY <3>1 DEF SInv, TableIsSound, NoDuplicates, Promised
  <2>3. OneCompletionOutstanding
    BY OneDriving DEF OneCompletionOutstanding
  <2>4. FragmentsProgress
    <3>1. SUFFICES ASSUME NEW s \in Live, NEW i \in 1..Len(stream[s].pending)
                   PROVE  LET fragment == stream[s].pending[i]
                          IN  /\ fragment.offset > 0 => fragment.offset < fragment.size
                              /\ i > 1 => fragment.offset = 0
      BY DEF FragmentsProgress
    <3>2. Good(queue, work, stream[s], s, continuation, peer.out[s])
      BY DEF SInv, EachIsGood
    <3>3. ~(i > 1)
      <4>1. stream[s].pending \in Seq(Fragment)
        BY SoundTypes DEF Stream
      <4>2. Len(stream[s].pending) <= 1 /\ Len(stream[s].pending) \in Nat
        BY <3>2, <4>1 DEF Good, DrivenOnce
      <4>. QED BY <4>2
    <3>. QED BY <3>2, <3>3 DEF Good, Shows
  <2>. QED BY <2>1, <2>2, <2>3, <2>4 DEF StreamsAreSound
<1>. QED BY <1>1, ResponsesAreDrivenOnce, PTL

\* The block that a peer sends in pieces is of a stream that is held, or of one that was
\* refused: neither a reset nor a completion takes the stream away in between
\* (handle_headers, handle_continuation, _verify_stream).
THEOREM BlocksKeepTheirStream == Spec => []BlockHasAStream
<1>1. SInv => BlockHasAStream
  BY DEF SInv
<1>. QED BY <1>1, ResponsesAreDrivenOnce, PTL

\* A stream that leaves an open session was reset, or has its response queued to the end.
LEMMA LeavesWhenOver ==
    ASSUME SInv, [Next]_vars, open'
    PROVE  \A s \in Live \ Live' : peer'.out[s] \in {"ended", "reset"}
<1>1. CASE Live \subseteq Live'
  BY <1>1
<1>2. table' = table => Live' = Live
  BY DEF Live
<1>3. CASE UNCHANGED vars
  BY <1>1, <1>2, <1>3 DEF vars, session
<1>4. CASE HandleViolation \/ HandleOversized \/ RefuseData \/ HandleData \/ RefuseHeaders
           \/ HandleContinuation \/ HandlePriority \/ HandleSettings \/ HandlePing
           \/ HandleGoaway \/ HandleWindowUpdate \/ EndFrames
  <2>1. table' = table
    BY <1>4 DEF HandleViolation, HandleOversized, RefuseData, HandleData, RefuseHeaders,
                HandleContinuation, HandlePriority, HandleSettings, HandlePing,
                HandleGoaway, HandleWindowUpdate, EndFrames
  <2>. QED BY <1>1, <1>2, <2>1
<1>5. CASE Serve \/ Respond \/ Schedule \/ Flush \/ EndFlush \/ SendChunk \/ Cleanup \/ Release
           \/ Receive
  <2>1. table' = table
    BY <1>5 DEF Serve, Respond, Schedule, Flush, EndFlush, SendChunk, Cleanup, Release,
                Receive, Deliver
  <2>. QED BY <1>1, <1>2, <2>1
<1>6. CASE HandleHeaders \/ Push
  <2>1. table' = table \/ \E s \in StreamId : s \notin Live /\ table' = Append(table, s)
    <3>1. CASE HandleHeaders
      <4>1. /\ work # <<>> /\ buffer # <<>> /\ Head(buffer).type = "HEADERS"
            /\ \/ table' = table
               \/ /\ Head(buffer).stream \notin Live
                  /\ table' = Append(table, Head(buffer).stream)
        BY <3>1 DEF HandleHeaders, Taking, Running
      <4>2. Head(buffer).stream \in StreamId
        BY <4>1, SoundTypes, TakingType, FrameAssumption
      <4>. QED BY <4>1, <4>2
    <3>2. CASE Push
      <4>1. PICK p : p = pushStreamId + 2
        OBVIOUS
      <4>2. table' = table \/ (p \in StreamId /\ table' = Append(table, p))
        BY <3>2, <4>1 DEF Push
      <4>3. p \in StreamId => p \notin Live
        <5>1. SUFFICES ASSUME p \in StreamId PROVE ~Used(p)
          BY UnusedRests
        <5>2. pushStreamId \in Nat /\ pushStreamId % 2 = 0
          <6>1. TypeOK /\ PushEven
            BY SoundTypes DEF IInv
          <6>. QED BY <6>1 DEF TypeOK, PushEven
        <5>3. p % 2 = 0 /\ p > pushStreamId
          BY <4>1, <5>2
        <5>4. p \in Nat
          BY <5>1, StreamIdAssumption
        <5>. QED BY <5>2, <5>3, <5>4 DEF Used, UsedBy
      <4>. QED BY <4>2, <4>3
    <3>. QED BY <1>6, <3>1, <3>2
  <2>2. Live \subseteq Live'
    BY <1>2, <2>1, TableGrows
  <2>. QED BY <1>1, <2>2
<1>7. CASE WriteGoaway \/ Written \/ PeerCloses
  <2>1. CloseSession \/ table' = table
    BY <1>7 DEF WriteGoaway, Written, PeerCloses
  <2>2. ~CloseSession
    BY DEF CloseSession
  <2>. QED BY <1>1, <1>2, <2>1, <2>2
<1>8. CASE HandleReset
  <2>1. PICK s : s = Head(buffer).stream
    OBVIOUS
  <2>2. \/ table' = table
        \/ s \in Live /\ CloseStream(s) /\ peer' = [peer EXCEPT !.out[s] = "reset"]
    BY <1>8, <2>1 DEF HandleReset
  <2>3. CASE s \in Live /\ CloseStream(s) /\ peer' = [peer EXCEPT !.out[s] = "reset"]
    <3>1. Live' = Live \ {s}
      BY <2>3, TableShrinks
    <3>2. peer'.out[s] = "reset"
      BY <2>3, SoundTypes DEF Peer
    <3>. QED BY <3>1, <3>2
  <2>. QED BY <1>1, <1>2, <2>2, <2>3
<1>9. CASE Settle
  <2>1. PICK s : s = Top.stream
    OBVIOUS
  <2>2. \/ CloseSession
        \/ table' = table
        \/ s \in Live /\ Over(stream[s]) /\ CloseStream(s) /\ peer' = peer
    BY <1>9, <2>1 DEF Settle
  <2>3. ~CloseSession
    BY DEF CloseSession
  <2>4. CASE s \in Live /\ Over(stream[s]) /\ CloseStream(s) /\ peer' = peer
    <3>1. Live' = Live \ {s}
      BY <2>4, TableShrinks
    <3>2. peer'.out[s] \in {"ended", "reset"}
      BY <2>4 DEF Over, SInv, EachIsGood, Good, InTurn
    <3>. QED BY <3>1, <3>2
  <2>. QED BY <1>1, <1>2, <2>2, <2>3, <2>4
<1>. QED BY <1>3, <1>4, <1>5, <1>6, <1>7, <1>8, <1>9 DEF Next, Server, HandleFrame

\* A stream only leaves the table of an open session once its response has been queued to
\* the end, or because the peer took it back: whatever completions, resets and errors come
\* in between, no response is cut short in silence (close_stream,
\* _callback_http2_connection, handle_rst_stream).
THEOREM NoneIsClosedBeforeItsTime == Spec => ClosedOnlyWhenOver
<1>1. SInv /\ [Next]_vars =>
          [open' => \A s \in Live \ Live' : peer'.out[s] \in {"ended", "reset"}]_vars
  BY LeavesWhenOver
<1>. QED BY <1>1, ResponsesAreDrivenOnce, PTL DEF Spec, ClosedOnlyWhenOver
-----------------------------------------------------------------------------
(***************************************************************************)
(* What the peer has been told of a response, along what drives it.        *)
(***************************************************************************)
\* The writes and the calls that go on with a file.
ChunkWrites(s) == {item \in Item : item.stream = s /\ item.callback = "chunk"}
ChunkCalls(s) ==
    {call \in Call : call.stream = s /\ call.op = "callback" /\ call.callback = "chunk"}

\* A call that serves has only calls of the service of a message, and of what is promised
\* for it, above it: no frame is handled, and no stream closed, in between.
ServeOp == {"serve", "push", "respond", "schedule", "flush"}
Stacked(w) ==
    \A i, j \in 1..Len(w) : i < j /\ w[j].op \in {"serve", "respond"} => w[i].op \in ServeOp

\* A head is only due on a stream that was opened or promised and has none, payload only on
\* one that has a head and no end, and the end is in the last fragment that is read.
Told(q, w, st, s, gathered, out) ==
    /\ out # "idle"
    /\ (~st.end \/ gathered = s \/ SomeIn(w, Serving(s))) => out \in {"open", "reserved"}
    /\ st.pending # <<>> => out = "headers"
    /\ (SomeIn(q, ChunkWrites(s)) \/ SomeIn(w, ChunkCalls(s))) /\ st.todo # <<>> => out = "headers"
    /\ \A i \in 1..Len(st.pending) :
          st.pending[i].last /\ st.pending[i].callback = "chunk" => st.todo = <<>>

\* A stream that is not held has nothing left to send and is not served.
Bare(w, st, s) == st.pending = <<>> /\ st.todo = <<>> /\ ~SomeIn(w, Serving(s))

\* Nothing was told of a stream that was never opened.
ToldOf(s) ==
    /\ s \in Live => Told(queue, work, stream[s], s, continuation, peer.out[s])
    /\ s \notin Live => Bare(work, stream[s], s)
    /\ ~Used(s) => peer.out[s] = "idle"

ToldInv == Stacked(work) /\ \A s \in StreamId : ToldOf(s)
KInv == SInv /\ ToldInv

\* A window update that overflows the window of a stream: the stream is reset on the wire
\* and goes on being served (stream_http2.c).
OverflowsAStream ==
    LET f == Head(buffer) IN
    /\ HandleWindowUpdate
    /\ f.stream \in Live /\ stream[f.stream].sendWindow > MaxWindow - f.size

-----------------------------------------------------------------------------
(***************************************************************************)
(* The stack.                                                              *)
(***************************************************************************)
\* No call of a sequence serves.
NoServing(calls) == \A i \in 1..Len(calls) : calls[i].op \notin {"serve", "respond"}

\* Every one of them is of the service of a message.
AllServing(calls) == \A i \in 1..Len(calls) : calls[i].op \in ServeOp

\* Under a call that is not of the service of a message nothing serves.
LEMMA NothingServesBelow ==
    ASSUME NEW w \in Seq(Call), Stacked(w), w # <<>>, Head(w).op \notin ServeOp
    PROVE  NoServing(w)
<1>1. SUFFICES ASSUME NEW j \in 1..Len(w), w[j].op \in {"serve", "respond"} PROVE FALSE
  BY DEF NoServing
<1>2. Len(w) \in Nat /\ 1 \in 1..Len(w) /\ Head(w) = w[1]
  OBVIOUS
<1>3. w[j].op \in ServeOp
  BY <1>1 DEF ServeOp
<1>4. j # 1
  BY <1>2, <1>3
<1>5. 1 < j
  BY <1>2, <1>4
<1>. QED BY <1>1, <1>2, <1>5 DEF Stacked

\* What is left of a stack when a call returns.
LEMMA StackedBelow ==
    ASSUME NEW w \in Seq(Call), w # <<>>
    PROVE  /\ Tail(w) \in Seq(Call)
           /\ Stacked(w) => Stacked(Tail(w))
           /\ NoServing(w) => NoServing(Tail(w))
<1>1. PICK n, t : n = Len(w) /\ t = Tail(w)
  OBVIOUS
<1>2. /\ n \in Nat /\ t \in Seq(Call) /\ Len(t) = n - 1
      /\ \A i \in 1..n - 1 : i + 1 \in 1..n /\ t[i] = w[i + 1]
  BY <1>1
<1>3. ASSUME Stacked(w) PROVE Stacked(t)
  <2>1. SUFFICES ASSUME NEW i \in 1..n - 1, NEW j \in 1..n - 1, i < j,
                        t[j].op \in {"serve", "respond"}
                 PROVE  t[i].op \in ServeOp
    BY <1>2 DEF Stacked
  <2>2. i + 1 < j + 1
    BY <2>1
  <2>. QED BY <1>1, <1>2, <1>3, <2>1, <2>2 DEF Stacked
<1>4. ASSUME NoServing(w) PROVE NoServing(t)
  BY <1>1, <1>2, <1>4 DEF NoServing
<1>. QED BY <1>1, <1>2, <1>3, <1>4

\* Calls on top of a stack that is in order: of the service of a message, or over none
\* that serves.
LEMMA StackedOn ==
    ASSUME NEW t \in Seq(Call), Stacked(t), NEW calls \in Seq(Call),
           AllServing(calls) \/ (NoServing(t) /\ NoServing(calls))
    PROVE  Stacked(calls \o t)
<1>1. PICK m, n, u : m = Len(calls) /\ n = Len(t) /\ u = calls \o t
  OBVIOUS
<1>2. /\ m \in Nat /\ n \in Nat /\ Len(u) = m + n
      /\ \A i \in 1..m + n : u[i] = IF i <= m THEN calls[i] ELSE t[i - m]
  BY <1>1
<1>3. SUFFICES ASSUME NEW i \in 1..m + n, NEW j \in 1..m + n, i < j,
                      u[j].op \in {"serve", "respond"}
               PROVE  u[i].op \in ServeOp
  BY <1>1, <1>2 DEF Stacked
<1>4. CASE AllServing(calls)
  <2>1. CASE i <= m
    <3>1. i \in 1..m /\ u[i] = calls[i]
      BY <1>2, <2>1
    <3>. QED BY <1>1, <1>4, <3>1 DEF AllServing
  <2>2. CASE ~(i <= m)
    <3>1. /\ i - m \in 1..n /\ j - m \in 1..n /\ i - m < j - m /\ ~(j <= m)
      BY <1>2, <1>3, <2>2
    <3>2. u[i] = t[i - m] /\ u[j] = t[j - m]
      BY <1>2, <2>2, <3>1
    <3>. QED BY <1>1, <1>3, <3>1, <3>2 DEF Stacked
  <2>. QED BY <2>1, <2>2
<1>5. CASE NoServing(t) /\ NoServing(calls)
  <2>1. CASE j <= m
    <3>1. j \in 1..m /\ u[j] = calls[j]
      BY <1>2, <2>1
    <3>. QED BY <1>1, <1>3, <1>5, <3>1 DEF NoServing
  <2>2. CASE ~(j <= m)
    <3>1. j - m \in 1..n /\ u[j] = t[j - m]
      BY <1>2, <2>2
    <3>. QED BY <1>1, <1>3, <1>5, <3>1 DEF NoServing
  <2>. QED BY <2>1, <2>2
<1>. QED BY <1>4, <1>5

\* What a call of the code does to the stack.
LEMMA StackStays ==
    ASSUME KInv, work # <<>>
    PROVE  /\ Return => Stacked(work')
           /\ \A calls \in Seq(Call) :
                 AllServing(calls) /\ (Becomes(calls) \/ Calls(calls)) => Stacked(work')
           /\ Top.op \notin ServeOp => NoServing(work)
           /\ Top.op \notin ServeOp =>
                 \A calls \in Seq(Call) : NoServing(calls) /\ Becomes(calls) => Stacked(work')
           /\ Top.op \notin ServeOp /\ Return => NoServing(work')
<1>1. /\ work \in Seq(Call) /\ Stacked(work)
  BY SoundTypes DEF KInv, ToldInv
<1>2. Tail(work) \in Seq(Call) /\ Stacked(Tail(work)) /\ (NoServing(work) => NoServing(Tail(work)))
  BY <1>1, StackedBelow
<1>3. Return => Stacked(work')
  BY <1>2 DEF Return
<1>4. ASSUME NEW calls \in Seq(Call), AllServing(calls), Becomes(calls) \/ Calls(calls)
      PROVE  Stacked(work')
  <2>1. Stacked(calls \o work) /\ Stacked(calls \o Tail(work))
    BY <1>1, <1>2, <1>4, StackedOn
  <2>. QED BY <1>4, <2>1 DEF Becomes, Calls
<1>5. Top.op \notin ServeOp => NoServing(work)
  BY <1>1, NothingServesBelow DEF Top
<1>6. ASSUME Top.op \notin ServeOp, NEW calls \in Seq(Call), NoServing(calls), Becomes(calls)
      PROVE  Stacked(work')
  <2>1. Stacked(calls \o Tail(work))
    BY <1>2, <1>5, <1>6, StackedOn
  <2>. QED BY <1>6, <2>1 DEF Becomes
<1>7. Top.op \notin ServeOp /\ Return => NoServing(work')
  BY <1>2, <1>5 DEF Return
<1>. QED BY <1>3, <1>4, <1>5, <1>6, <1>7

\* A stack none of whose calls serves serves no stream.
LEMMA NoneServed ==
    ASSUME NEW w, NoServing(w), NEW s
    PROVE  ~SomeIn(w, Serving(s))
  BY DEF NoServing, SomeIn, Serving

-----------------------------------------------------------------------------
(***************************************************************************)
(* The streams that a step is not about.                                   *)
(***************************************************************************)
\* Nothing of M comes into a sequence.
NoMore(q2, q, M) == SomeIn(q2, M) => SomeIn(q, M)

NoWrites(s) == NoMore(queue', queue, ChunkWrites(s))
NoCalls(s) == NoMore(work', work, ChunkCalls(s)) /\ NoMore(work', work, Serving(s))

\* The payload of a response, what is read of it and the message it answers stay.
SameOf(st2, st) ==
    /\ st2.pending = st.pending /\ st2.todo = st.todo
    /\ st.end => st2.end

\* Nothing happens to what is told of s.
Same(s) ==
    /\ s \in Live' <=> s \in Live
    /\ SameOf(stream'[s], stream[s])
    /\ s \in Live /\ continuation' = s => continuation = s
    /\ peer'.out[s] = peer.out[s]
    /\ Used(s) => UsedBy(s, lastStreamId', pushStreamId')
    /\ NoWrites(s) /\ NoCalls(s)

\* A stream that nothing happens to is told of as before.
LEMMA SameStays ==
    ASSUME NEW s \in StreamId, stream \in [StreamId -> Stream], ToldOf(s), Same(s)
    PROVE  ToldOf(s)'
<1>1. /\ SomeIn(queue', ChunkWrites(s)) => SomeIn(queue, ChunkWrites(s))
      /\ SomeIn(work', ChunkCalls(s)) => SomeIn(work, ChunkCalls(s))
      /\ SomeIn(work', Serving(s)) => SomeIn(work, Serving(s))
  BY DEF Same, NoWrites, NoCalls, NoMore
<1>2. PICK st, st2 : st = stream[s] /\ st2 = stream'[s]
  OBVIOUS
<1>3. st2.pending = st.pending /\ st2.todo = st.todo /\ (st.end => st2.end)
  BY <1>2 DEF Same, SameOf
<1>4. ASSUME s \in Live' PROVE Told(queue', work', st2, s, continuation', peer'.out[s])
  <2>1. /\ s \in Live /\ (continuation' = s => continuation = s) /\ peer'.out[s] = peer.out[s]
    BY <1>4 DEF Same
  <2>2. Told(queue, work, st, s, continuation, peer.out[s])
    BY <1>2, <2>1 DEF ToldOf
  <2>. QED BY <1>1, <1>3, <2>1, <2>2 DEF Told
<1>5. ASSUME s \notin Live' PROVE Bare(work', st2, s)
  <2>1. Bare(work, st, s)
    BY <1>2, <1>5 DEF Same, ToldOf
  <2>. QED BY <1>1, <1>3, <2>1 DEF Bare
<1>6. ~UsedBy(s, lastStreamId', pushStreamId') => peer'.out[s] = "idle"
  BY DEF Same, ToldOf
<1>. QED BY <1>2, <1>4, <1>5, <1>6 DEF ToldOf, Used

\* No write that goes on with a file is added.
LEMMA QueueSame ==
    ASSUME NEW q \in Seq(Item), NEW s
    PROVE  /\ NoMore(q, q, ChunkWrites(s))
           /\ \A item \in Item : item.callback # "chunk" \/ item.stream # s =>
                  NoMore(Append(q, item), q, ChunkWrites(s))
           /\ q # <<>> => NoMore(Tail(q), q, ChunkWrites(s))
           /\ NoMore(<<>>, q, ChunkWrites(s))
<1>1. NoMore(q, q, ChunkWrites(s)) /\ NoMore(<<>>, q, ChunkWrites(s))
  BY InOne DEF NoMore
<1>2. ASSUME NEW item \in Item, item.callback # "chunk" \/ item.stream # s
      PROVE  NoMore(Append(q, item), q, ChunkWrites(s))
  <2>1. item \notin ChunkWrites(s)
    BY <1>2 DEF ChunkWrites
  <2>. QED BY <2>1, InAppended DEF NoMore
<1>3. q # <<>> => NoMore(Tail(q), q, ChunkWrites(s))
  BY InRest DEF NoMore
<1>. QED BY <1>1, <1>2, <1>3

\* No call that drives a response of s is made.
LEMMA CallsSame ==
    ASSUME KInv, work # <<>>, NEW s, NEW calls \in Seq(Call),
           ~SomeIn(calls, ChunkCalls(s)), ~SomeIn(calls, Serving(s)),
           Becomes(calls) \/ Calls(calls)
    PROVE  NoCalls(s)
<1>1. work \in Seq(Call) /\ Tail(work) \in Seq(Call)
  BY SoundTypes DEF KInv
<1>2. ASSUME NEW M, ~SomeIn(calls, M) PROVE NoMore(work', work, M)
  <2>1. SomeIn(Tail(work), M) => SomeIn(work, M)
    BY <1>1, InRest
  <2>2. SomeIn(calls \o work, M) => SomeIn(work, M)
    BY <1>1, <1>2, InJoined
  <2>3. SomeIn(calls \o Tail(work), M) => SomeIn(Tail(work), M)
    BY <1>1, <1>2, InJoined
  <2>. QED BY <2>1, <2>2, <2>3 DEF NoMore, Becomes, Calls
<1>. QED BY <1>2 DEF NoCalls

\* A call that returns leaves nothing new to drive a response.
LEMMA ReturnSame ==
    ASSUME KInv, NEW s
    PROVE  /\ work' = work => NoCalls(s)
           /\ work # <<>> /\ Return => NoCalls(s)
<1>1. work \in Seq(Call)
  BY SoundTypes DEF KInv
<1>2. work' = work => NoCalls(s)
  BY DEF NoCalls, NoMore
<1>3. ASSUME work # <<>>, Return PROVE NoCalls(s)
  BY <1>1, <1>3, InRest DEF Return, NoCalls, NoMore
<1>. QED BY <1>2, <1>3
-----------------------------------------------------------------------------
(***************************************************************************)
(* The steps that tell nothing of a response.                              *)
(***************************************************************************)
\* A step that tells nothing, serves nothing and moves no payload.
LEMMA QuietTold ==
    ASSUME KInv, table' = table, UNCHANGED ids, peer'.out = peer.out,
           \A s \in StreamId : SameOf(stream'[s], stream[s]),
           \A s \in Live : continuation' = s => continuation = s,
           \A s \in StreamId : NoWrites(s) /\ NoCalls(s),
           Stacked(work')
    PROVE  ToldInv'
<1>1. Live' = Live
  BY DEF Live
<1>2. lastStreamId' = lastStreamId /\ pushStreamId' = pushStreamId
  BY DEF ids
<1>3. ASSUME NEW s \in StreamId PROVE ToldOf(s)'
  <2>1. Same(s)
    BY <1>1, <1>2 DEF Same, Used
  <2>2. stream \in [StreamId -> Stream] /\ ToldOf(s)
    BY SoundTypes DEF KInv, ToldInv
  <2>. QED BY <2>1, <2>2, SameStays
<1>. QED BY <1>3 DEF ToldInv

\* The queue of such a step: nothing, one more write or one less.
QueueQuiet ==
    \/ queue' = queue
    \/ \E item \in Item : item.callback # "chunk" /\ queue' = Append(queue, item)
    \/ queue # <<>> /\ queue' = Tail(queue)

\* Its stack: nothing, a call less, or more of them that serve nothing.
LightOp == {"frames", "goaway", "schedule", "flush", "release", "settle"}
StackQuiet ==
    \/ work' = work
    \/ work # <<>> /\ Return
    \/ \E calls \in Seq(Call) :
          /\ work # <<>>
          /\ \A i \in 1..Len(calls) : calls[i].op \in LightOp
          /\ \/ Becomes(calls) /\ Top.op \notin ServeOp
             \/ (Becomes(calls) \/ Calls(calls)) /\ AllServing(calls)

\* Such a queue holds no new write that goes on with a file.
LEMMA QueueIsQuiet ==
    ASSUME KInv, QueueQuiet, NEW s
    PROVE  NoWrites(s)
<1>1. queue \in Seq(Item)
  BY SoundTypes DEF KInv
<1>. QED BY <1>1, QueueSame DEF QueueQuiet, NoWrites

\* Such a stack is in order, and holds no new call that drives a response.
LEMMA StackIsQuiet ==
    ASSUME KInv, StackQuiet
    PROVE  Stacked(work') /\ \A s : NoCalls(s)
<1>1. CASE work' = work
  BY <1>1, ReturnSame DEF KInv, ToldInv
<1>2. CASE work # <<>> /\ Return
  BY <1>2, ReturnSame, StackStays
<1>3. CASE \E calls \in Seq(Call) :
              /\ work # <<>>
              /\ \A i \in 1..Len(calls) : calls[i].op \in LightOp
              /\ \/ Becomes(calls) /\ Top.op \notin ServeOp
                 \/ (Becomes(calls) \/ Calls(calls)) /\ AllServing(calls)
  <2>1. PICK calls \in Seq(Call) :
              /\ work # <<>>
              /\ \A i \in 1..Len(calls) : calls[i].op \in LightOp
              /\ \/ Becomes(calls) /\ Top.op \notin ServeOp
                 \/ (Becomes(calls) \/ Calls(calls)) /\ AllServing(calls)
    BY <1>3
  <2>2. NoServing(calls)
    BY <2>1 DEF NoServing, LightOp
  <2>3. Stacked(work')
    BY <2>1, <2>2, StackStays
  <2>4. ASSUME NEW s PROVE ~SomeIn(calls, ChunkCalls(s)) /\ ~SomeIn(calls, Serving(s))
    BY <2>1 DEF SomeIn, ChunkCalls, Serving, LightOp
  <2>5. ASSUME NEW s PROVE NoCalls(s)
    BY <2>1, <2>4, CallsSame
  <2>. QED BY <2>3, <2>5
<1>. QED BY <1>1, <1>2, <1>3 DEF StackQuiet

\* A step that only moves the windows of the streams, and what it writes and calls.
LEMMA LightTold ==
    ASSUME KInv, table' = table, UNCHANGED ids, peer'.out = peer.out,
           \A s \in StreamId : SameOf(stream'[s], stream[s]),
           \A s \in Live : continuation' = s => continuation = s,
           QueueQuiet, StackQuiet
    PROVE  ToldInv'
  BY QuietTold, QueueIsQuiet, StackIsQuiet

\* A step that does nothing to any stream.
LEMMA IdleTold ==
    ASSUME KInv, UNCHANGED <<table, stream, ids, assembly, peer>>, QueueQuiet, StackQuiet
    PROVE  ToldInv'
<1>1. table' = table /\ UNCHANGED ids /\ peer' = peer /\ stream' = stream
  OBVIOUS
<1>2. continuation' = continuation
  BY DEF assembly
<1>3. \A s \in StreamId : SameOf(stream'[s], stream[s])
  BY <1>1 DEF SameOf
<1>. QED BY <1>1, <1>2, <1>3, LightTold

\* The stack that the handler of a frame leaves.
LEMMA FrameStack ==
    ASSUME KInv, work # <<>>, Top.op = "frames",
           \/ ConnectionError \/ work' = work \/ Return
           \/ Calls(<<>>) \/ Calls(<<Do("schedule", 0)>>)
    PROVE  StackQuiet
<1>1. Top.op \notin ServeOp
  BY DEF ServeOp
<1>2. ASSUME NEW op \in {"goaway", "schedule"}
      PROVE  /\ <<Do(op, 0)>> \in Seq(Call)
             /\ \A i \in 1..Len(<<Do(op, 0)>>) : <<Do(op, 0)>>[i].op = op
  BY LightCall DEF Do
<1>3. CASE ConnectionError
  BY <1>1, <1>2, <1>3 DEF ConnectionError, StackQuiet, LightOp
<1>4. CASE Calls(<<Do("schedule", 0)>>)
  BY <1>2, <1>4 DEF StackQuiet, LightOp, AllServing, ServeOp
<1>5. CASE Calls(<<>>)
  <2>1. work \in Seq(Call)
    BY SoundTypes DEF KInv
  <2>2. work' = work
    BY <1>5, <2>1 DEF Calls
  <2>. QED BY <2>2 DEF StackQuiet
<1>. QED BY <1>3, <1>4, <1>5 DEF StackQuiet

\* The frames that touch no stream: errors, PRIORITY, PING and GOAWAY, and the end of the
\* buffer.
LEMMA IdleFramesTold ==
    ASSUME KInv,
           HandleViolation \/ HandleOversized \/ HandlePriority \/ HandlePing \/ HandleGoaway
             \/ EndFrames
    PROVE  ToldInv'
<1>1. /\ work # <<>> /\ Top.op = "frames"
      /\ UNCHANGED <<table, stream, ids, assembly, peer>>
      /\ ConnectionError \/ work' = work \/ Return
  BY DEF HandleViolation, HandleOversized, HandlePriority, HandlePing, HandleGoaway, EndFrames,
         Taking, Running
<1>2. QueueQuiet
  <2>1. queue' = queue \/ queue' = Append(queue, Plain("PING", 0))
    BY DEF HandleViolation, HandleOversized, HandlePriority, HandlePing, HandleGoaway, EndFrames
  <2>2. Plain("PING", 0) \in Item /\ Plain("PING", 0).callback # "chunk"
    BY DEF Plain, Item, FrameType, Callback
  <2>. QED BY <2>1, <2>2 DEF QueueQuiet
<1>. QED BY <1>1, <1>2, FrameStack, IdleTold

\* The calls that only choose what is called next: the rounds of _schedule, the end of
\* _flush, the clean up of a request and the release of the connection.
LEMMA CallsTold ==
    ASSUME KInv, Schedule \/ EndFlush \/ Cleanup \/ Release
    PROVE  ToldInv'
<1>1. /\ work # <<>> /\ UNCHANGED <<table, stream, ids, assembly, peer>> /\ queue' = queue
  BY DEF Schedule, EndFlush, Cleanup, Release, Running
<1>2. Top \in Call /\ work \in Seq(Call)
  BY <1>1, SoundTypes, TopType DEF KInv
<1>3. StackQuiet
  <2>1. CASE Schedule
    <3>1. CASE Return
      BY <1>1, <3>1 DEF StackQuiet
    <3>2. CASE \E i \in Writable : Becomes(<<[Top EXCEPT
                       !.op = "flush", !.stream = table[i],
                       !.count = Len(stream[table[i]].pending)]>>)
      <4>1. PICK i \in Writable : Becomes(<<[Top EXCEPT
                       !.op = "flush", !.stream = table[i],
                       !.count = Len(stream[table[i]].pending)]>>)
        BY <3>2
      <4>2. table[i] \in StreamId /\ stream[table[i]] \in Stream
        BY SoundTypes DEF KInv, Writable
      <4>3. Len(stream[table[i]].pending) \in Nat
        BY <4>2 DEF Stream
      <4>4. PICK call : call = [Top EXCEPT !.op = "flush", !.stream = table[i],
                                           !.count = Len(stream[table[i]].pending)]
        OBVIOUS
      <4>5. call \in Call /\ call.op = "flush"
        BY <1>2, <4>2, <4>3, <4>4 DEF Call
      <4>6. <<call>> \in Seq(Call) /\ \A j \in 1..Len(<<call>>) : <<call>>[j].op = "flush"
        BY <4>5
      <4>. QED BY <1>1, <4>1, <4>4, <4>6 DEF StackQuiet, LightOp, AllServing, ServeOp
    <3>. QED BY <2>1, <3>1, <3>2 DEF Schedule
  <2>2. CASE EndFlush
    <3>1. CASE Return
      BY <1>1, <3>1 DEF StackQuiet
    <3>2. CASE Becomes(<<[Do("schedule", 0) EXCEPT !.round = Top.round + 1]>>)
      <4>1. PICK call : call = [Do("schedule", 0) EXCEPT !.round = Top.round + 1]
        OBVIOUS
      <4>2. Top.round \in Nat
        BY <1>2 DEF Call
      <4>3. call \in Call /\ call.op = "schedule"
        BY <4>1, <4>2 DEF Call, Do, Callback
      <4>4. <<call>> \in Seq(Call) /\ \A j \in 1..Len(<<call>>) : <<call>>[j].op = "schedule"
        BY <4>3
      <4>. QED BY <1>1, <3>2, <4>1, <4>4 DEF StackQuiet, LightOp, AllServing, ServeOp
    <3>. QED BY <2>2, <3>1, <3>2 DEF EndFlush
  <2>3. CASE Cleanup
    <3>1. CASE Return
      BY <1>1, <3>1 DEF StackQuiet
    <3>2. CASE Becomes(<<Do("release", Top.stream)>>)
      <4>1. PICK call : call = Do("release", Top.stream)
        OBVIOUS
      <4>2. Top.stream \in StreamId \cup {0} /\ Top.op = "callback"
        BY <1>2, <2>3 DEF Call, Cleanup, Running
      <4>3. call \in Call /\ call.op = "release" /\ Top.op \notin ServeOp
        BY <4>1, <4>2 DEF Call, Do, Callback, ServeOp
      <4>4. <<call>> \in Seq(Call) /\ \A j \in 1..Len(<<call>>) : <<call>>[j].op = "release"
        BY <4>3
      <4>. QED BY <1>1, <3>2, <4>1, <4>3, <4>4 DEF StackQuiet, LightOp
    <3>. QED BY <2>3, <3>1, <3>2 DEF Cleanup
  <2>4. CASE Release
    <3>1. Top.op \notin ServeOp
      BY <2>4 DEF Release, Running, ServeOp
    <3>2. CASE lock
      <4>1. <<Do("frames", 0)>> \in Seq(Call)
               /\ \A j \in 1..Len(<<Do("frames", 0)>>) : <<Do("frames", 0)>>[j].op = "frames"
        BY LightCall DEF Do
      <4>. QED BY <1>1, <2>4, <3>1, <3>2, <4>1 DEF StackQuiet, LightOp, Release
    <3>3. CASE ~lock
      <4>1. Becomes(<<>>)
        BY <2>4, <3>3 DEF Release
      <4>2. Return
        BY <1>1, <1>2, <4>1 DEF Becomes, Return
      <4>. QED BY <1>1, <4>2 DEF StackQuiet
    <3>. QED BY <3>2, <3>3
  <2>. QED BY <2>1, <2>2, <2>3, <2>4
<1>. QED BY <1>1, <1>3, IdleTold DEF QueueQuiet
\* The windows of a stream are no part of its response.
LEMMA WindowsSame ==
    ASSUME NEW st \in Stream, NEW st2,
           \/ st2 = st
           \/ \E n : st2 = [st EXCEPT !.sendWindow = n] \/ st2 = [st EXCEPT !.receiveWindow = n]
    PROVE  SameOf(st2, st)
  BY DEF SameOf, Stream

\* A read of the connection only enters the loop of the frames.
LEMMA ReceiveTold ==
    ASSUME KInv, Receive
    PROVE  ToldInv'
<1>1. /\ work = <<>> /\ work' = <<Do("frames", 0)>> /\ queue' = queue
      /\ UNCHANGED <<table, stream, ids, assembly, peer>>
  BY DEF Receive, Deliver
<1>2. PICK calls : calls = <<Do("frames", 0)>>
  OBVIOUS
<1>3. calls \in Seq(Call) /\ \A i \in 1..Len(calls) : calls[i].op = "frames"
  BY <1>2, LightCall DEF Do
<1>4. Stacked(work')
  BY <1>1, <1>2, <1>3 DEF Stacked
<1>5. \A s : NoWrites(s) /\ NoCalls(s)
  <2>1. \A s : ~SomeIn(calls, ChunkCalls(s)) /\ ~SomeIn(calls, Serving(s))
    BY <1>3 DEF SomeIn, ChunkCalls, Serving
  <2>. QED BY <1>1, <1>2, <2>1 DEF NoWrites, NoCalls, NoMore
<1>6. \A s \in StreamId : SameOf(stream'[s], stream[s])
  BY <1>1 DEF SameOf
<1>. QED BY <1>1, <1>4, <1>5, <1>6, QuietTold DEF assembly

\* DATA that is refused charges a window and ends in a connection error.
LEMMA RefuseDataTold ==
    ASSUME KInv, RefuseData
    PROVE  ToldInv'
<1>1. /\ work # <<>> /\ Top.op = "frames" /\ ConnectionError /\ queue' = queue
      /\ UNCHANGED <<table, ids, assembly, peer>>
      /\ \/ stream' = stream
         \/ stream' = [stream EXCEPT ![Head(buffer).stream].receiveWindow =
                                         @ - Head(buffer).size]
  BY DEF RefuseData, Taking, Running
<1>2. \A s \in StreamId : SameOf(stream'[s], stream[s])
  <2>1. stream \in [StreamId -> Stream]
    BY SoundTypes DEF KInv
  <2>2. \A s \in StreamId :
           stream'[s] = stream[s] \/ \E n : stream'[s] = [stream[s] EXCEPT !.receiveWindow = n]
    BY <1>1, <2>1
  <2>. QED BY <2>1, <2>2, WindowsSame
<1>3. table' = table /\ UNCHANGED ids /\ peer'.out = peer.out /\ continuation' = continuation
  BY <1>1 DEF assembly
<1>. QED BY <1>1, <1>2, <1>3, FrameStack, LightTold DEF QueueQuiet

\* HEADERS of a stream in excess open nothing.
LEMMA RefuseHeadersTold ==
    ASSUME KInv, RefuseHeaders
    PROVE  ToldInv'
<1>. DEFINE s == Head(buffer).stream
<1>1. /\ work # <<>> /\ buffer # <<>> /\ Top.op = "frames" /\ s \notin Live
      /\ Head(buffer).type = "HEADERS"
      /\ UNCHANGED <<table, stream, ids, peer>>
      /\ queue' = Append(queue, Plain("RST_STREAM", s))
      /\ work' = work \/ ConnectionError
      /\ continuation' = 0 \/ continuation' = s
  BY DEF RefuseHeaders, Taking, Running
<1>2. s \in StreamId \cup {0} /\ 0 \notin StreamId /\ Live \subseteq StreamId
  BY <1>1, SoundTypes, TakingType, StreamIdAssumption DEF KInv
<1>3. QueueQuiet
  <2>1. Plain("RST_STREAM", s) \in Item /\ Plain("RST_STREAM", s).callback # "chunk"
    BY <1>2, PlainType DEF FrameType, Plain
  <2>. QED BY <1>1, <2>1 DEF QueueQuiet
<1>4. \A x \in Live : continuation' = x => continuation = x
  BY <1>1, <1>2
<1>5. \A x \in StreamId : SameOf(stream'[x], stream[x])
  BY <1>1 DEF SameOf
<1>6. table' = table /\ UNCHANGED ids /\ peer'.out = peer.out
  BY <1>1
<1>. QED BY <1>1, <1>3, <1>4, <1>5, <1>6, FrameStack, LightTold

\* SETTINGS only move the windows of the streams that are held.
LEMMA HandleSettingsTold ==
    ASSUME KInv, HandleSettings
    PROVE  ToldInv'
<1>1. /\ work # <<>> /\ Top.op = "frames"
      /\ UNCHANGED <<table, ids, assembly>>
  BY DEF HandleSettings, Taking, Running
<1>2. /\ \/ ConnectionError /\ queue' = queue
         \/ Calls(<<Do("schedule", 0)>>) /\ queue' = Append(queue, Plain("SETTINGS", 0))
      /\ peer'.out = peer.out
      /\ \A s \in StreamId :
            stream'[s] = stream[s] \/ \E n : stream'[s] = [stream[s] EXCEPT !.sendWindow = n]
  BY SettingsMove DEF KInv
<1>3. \A s \in StreamId : SameOf(stream'[s], stream[s])
  BY <1>2, SoundTypes, WindowsSame DEF KInv
<1>4. QueueQuiet
  <2>1. Plain("SETTINGS", 0) \in Item /\ Plain("SETTINGS", 0).callback # "chunk"
    BY PlainType DEF FrameType, Plain
  <2>. QED BY <1>2, <2>1 DEF QueueQuiet
<1>5. table' = table /\ UNCHANGED ids /\ continuation' = continuation
  BY <1>1 DEF assembly
<1>. QED BY <1>1, <1>2, <1>3, <1>4, <1>5, FrameStack, LightTold

\* A WINDOW_UPDATE that overflows the window of no stream.
LEMMA HandleWindowUpdateTold ==
    ASSUME KInv, HandleWindowUpdate, ~OverflowsAStream
    PROVE  ToldInv'
<1>. DEFINE f == Head(buffer)
            s == f.stream
<1>1. /\ work # <<>> /\ Top.op = "frames"
      /\ UNCHANGED <<table, ids, assembly>>
  BY DEF HandleWindowUpdate, Taking, Running
<1>2. /\ stream' = stream \/ stream' = [stream EXCEPT ![s].sendWindow = @ + f.size]
      /\ queue' = queue
      /\ Calls(<<Do("schedule", 0)>>)
      /\ \/ peer' = [peer EXCEPT !.connGranted = @ + f.size]
         \/ peer' = [peer EXCEPT !.granted[s] = @ + f.size]
         \/ peer' = peer
  BY DEF HandleWindowUpdate, OverflowsAStream
<1>3. stream \in [StreamId -> Stream] /\ peer \in Peer
  BY SoundTypes DEF KInv
<1>. HIDE DEF s, f
<1>4. \A x \in StreamId : SameOf(stream'[x], stream[x])
  <2>1. \A x \in StreamId :
           stream'[x] = stream[x] \/ \E n : stream'[x] = [stream[x] EXCEPT !.sendWindow = n]
    <3>1. CASE stream' = stream
      BY <3>1
    <3>2. CASE stream' = [stream EXCEPT ![s].sendWindow = @ + f.size]
      BY <1>3, <3>2
    <3>. QED BY <1>2, <3>1, <3>2
  <2>. QED BY <1>3, <2>1, WindowsSame
<1>5. peer'.out = peer.out
  BY <1>2, <1>3 DEF Peer
<1>6. table' = table /\ UNCHANGED ids /\ continuation' = continuation
  BY <1>1 DEF assembly
<1>. QED BY <1>1, <1>2, <1>4, <1>5, <1>6, FrameStack, LightTold DEF QueueQuiet
-----------------------------------------------------------------------------
(***************************************************************************)
(* The steps that close.                                                   *)
(***************************************************************************)
\* A step that is about one stream.
LEMMA OneTold ==
    ASSUME KInv, NEW s, \A x \in StreamId \ {s} : Same(x), s \in StreamId => ToldOf(s)',
           Stacked(work')
    PROVE  ToldInv'
<1>1. ASSUME NEW x \in StreamId, x # s PROVE ToldOf(x)'
  <2>1. stream \in [StreamId -> Stream] /\ ToldOf(x)
    BY SoundTypes DEF KInv, ToldInv
  <2>. QED BY <1>1, <2>1, SameStays
<1>. QED BY <1>1 DEF ToldInv

\* A stack none of whose calls serves is in order.
LEMMA NoServingStacked ==
    ASSUME NEW w, NoServing(w)
    PROVE  Stacked(w)
  BY DEF NoServing, Stacked

\* Nothing is left of a session that is closed.
LEMMA SessionClosedTold ==
    ASSUME KInv, CloseSession, NoServing(work'), peer' = peer
    PROVE  ToldInv'
<1>1. /\ Live' = {} /\ stream' = [s \in StreamId |-> Unused] /\ UNCHANGED ids
  BY DEF CloseSession, Live
<1>2. ASSUME NEW s \in StreamId PROVE ToldOf(s)'
  <2>1. Bare(work', stream'[s], s)
    BY <1>1, NoneServed DEF Bare, Unused, Fresh
  <2>2. ~UsedBy(s, lastStreamId', pushStreamId') => peer'.out[s] = "idle"
    <3>1. ToldOf(s)
      BY DEF KInv, ToldInv
    <3>. QED BY <1>1, <3>1 DEF ToldOf, Used, ids
  <2>. QED BY <1>1, <2>1, <2>2 DEF ToldOf, Used
<1>. QED BY <1>2, NoServingStacked DEF ToldInv

\* Nothing is held of a stream that is closed.
LEMMA StreamClosedTold ==
    ASSUME KInv, NEW s \in Live, CloseStream(s), UNCHANGED ids, continuation' = continuation,
           NoServing(work'), \A x \in StreamId : NoWrites(x) /\ NoCalls(x),
           \A x \in StreamId \ {s} : peer'.out[x] = peer.out[x]
    PROVE  ToldInv'
<1>1. s \in StreamId /\ Used(s) /\ Live' = Live \ {s}
  BY LiveIsUsed, TableShrinks, SoundTypes DEF KInv
<1>2. stream \in [StreamId -> Stream] /\ stream' = [stream EXCEPT ![s] = Unused]
  BY SoundTypes DEF KInv, CloseStream
<1>3. lastStreamId' = lastStreamId /\ pushStreamId' = pushStreamId
  BY DEF ids
<1>4. ASSUME NEW x \in StreamId \ {s} PROVE Same(x)
  <2>1. stream'[x] = stream[x]
    BY <1>2, <1>4
  <2>. QED BY <1>1, <1>3, <1>4, <2>1 DEF Same, SameOf, Used
<1>5. ToldOf(s)'
  <2>1. stream'[s] = Unused
    BY <1>1, <1>2
  <2>2. Bare(work', stream'[s], s)
    BY <2>1, NoneServed DEF Bare, Unused, Fresh
  <2>. QED BY <1>1, <1>3, <2>2 DEF ToldOf, Used
<1>. QED BY <1>4, <1>5, OneTold, NoServingStacked

\* A RST_STREAM closes its stream, which nothing is told of any more.
LEMMA HandleResetTold ==
    ASSUME KInv, HandleReset
    PROVE  ToldInv'
<1>. DEFINE s == Head(buffer).stream
<1>1. /\ work # <<>> /\ Top.op = "frames" /\ queue' = queue /\ work' = work
      /\ UNCHANGED <<ids, assembly>>
      /\ IF s \in Live
         THEN CloseStream(s) /\ peer' = [peer EXCEPT !.out[s] = "reset"]
         ELSE UNCHANGED <<table, stream, tree, peer>>
  BY DEF HandleReset, Taking, Running
<1>. HIDE DEF s
<1>2. NoServing(work') /\ StackQuiet /\ QueueQuiet
  <2>1. Top.op \notin ServeOp
    BY <1>1 DEF ServeOp
  <2>. QED BY <1>1, <2>1, StackStays DEF StackQuiet, QueueQuiet
<1>3. CASE s \notin Live
  BY <1>1, <1>2, <1>3, IdleTold
<1>4. CASE s \in Live
  <2>1. \A x \in StreamId : NoWrites(x) /\ NoCalls(x)
    BY <1>2, QueueIsQuiet, StackIsQuiet
  <2>2. \A x \in StreamId \ {s} : peer'.out[x] = peer.out[x]
    BY <1>1, <1>4, SoundTypes DEF KInv, Peer
  <2>3. UNCHANGED ids /\ continuation' = continuation
    BY <1>1 DEF assembly
  <2>. QED BY <1>1, <1>2, <1>4, <2>1, <2>2, <2>3, StreamClosedTold
<1>. QED BY <1>3, <1>4

\* The end of a completion closes the stream whose response is over, or the session.
LEMMA SettleTold ==
    ASSUME KInv, Settle
    PROVE  ToldInv'
<1>. DEFINE s == Top.stream
<1>1. /\ work # <<>> /\ Top.op = "settle" /\ peer' = peer
      /\ \/ CloseSession /\ work' = <<>>
         \/ Return /\ UNCHANGED <<ids, assembly, queue, table, stream, tree>>
         \/ s \in Live /\ CloseStream(s) /\ Return /\ UNCHANGED <<ids, assembly, queue>>
  BY DEF Settle, Running
<1>. HIDE DEF s
<1>2. Return => NoServing(work') /\ StackQuiet
  <2>1. Top.op \notin ServeOp
    BY <1>1 DEF ServeOp
  <2>. QED BY <1>1, <2>1, StackStays DEF StackQuiet
<1>3. CASE CloseSession /\ work' = <<>>
  <2>1. NoServing(work')
    BY <1>3 DEF NoServing
  <2>. QED BY <1>1, <1>3, <2>1, SessionClosedTold
<1>4. CASE Return /\ UNCHANGED <<ids, assembly, queue, table, stream, tree>>
  BY <1>1, <1>2, <1>4, IdleTold DEF QueueQuiet
<1>5. CASE s \in Live /\ CloseStream(s) /\ Return /\ UNCHANGED <<ids, assembly, queue>>
  <2>1. \A x \in StreamId : NoWrites(x) /\ NoCalls(x)
    BY <1>2, <1>5, QueueIsQuiet, StackIsQuiet DEF QueueQuiet
  <2>2. UNCHANGED ids /\ continuation' = continuation
    BY <1>5 DEF assembly
  <2>. QED BY <1>1, <1>2, <1>5, <2>1, <2>2, StreamClosedTold
<1>. QED BY <1>1, <1>3, <1>4, <1>5

\* An error of the connection tells of itself, and of no stream, or closes the session.
LEMMA WriteGoawayTold ==
    ASSUME KInv, WriteGoaway
    PROVE  ToldInv'
<1>1. /\ work # <<>> /\ Top.op = "goaway" /\ peer' = peer /\ Return
      /\ \/ CloseSession
         \/ /\ UNCHANGED <<table, stream, ids, assembly, peer>>
            /\ queue' = Append(queue, [Plain("GOAWAY", 0) EXCEPT !.callback = "close"])
  BY DEF WriteGoaway, Running
<1>2. NoServing(work') /\ StackQuiet
  <2>1. Top.op \notin ServeOp
    BY <1>1 DEF ServeOp
  <2>. QED BY <1>1, <2>1, StackStays DEF StackQuiet
<1>3. CASE CloseSession
  BY <1>1, <1>2, <1>3, SessionClosedTold
<1>4. CASE /\ UNCHANGED <<table, stream, ids, assembly, peer>>
           /\ queue' = Append(queue, [Plain("GOAWAY", 0) EXCEPT !.callback = "close"])
  <2>1. PICK item : item = [Plain("GOAWAY", 0) EXCEPT !.callback = "close"]
    OBVIOUS
  <2>2. item \in Item /\ item.callback # "chunk"
    BY <2>1 DEF Plain, Item, FrameType, Callback
  <2>3. QueueQuiet
    BY <1>4, <2>1, <2>2 DEF QueueQuiet
  <2>. QED BY <1>2, <1>4, <2>3, IdleTold
<1>. QED BY <1>1, <1>3, <1>4

\* The closing of the transport takes all the streams.
LEMMA PeerClosesTold ==
    ASSUME KInv, PeerCloses
    PROVE  ToldInv'
<1>1. CloseSession /\ work' = <<>> /\ peer' = peer
  BY DEF PeerCloses
<1>2. NoServing(work')
  BY <1>1 DEF NoServing
<1>. QED BY <1>1, <1>2, SessionClosedTold
-----------------------------------------------------------------------------
(***************************************************************************)
(* The messages.                                                           *)
(***************************************************************************)
\* A stream that was opened or promised, with nothing under way for it.
LEMMA BeginsTold ==
    ASSUME NEW q, NEW w, NEW st, NEW s, NEW g, NEW out, out \in {"open", "reserved"},
           st.pending = <<>>,
           st.todo = <<>> \/ ~(SomeIn(q, ChunkWrites(s)) \/ SomeIn(w, ChunkCalls(s)))
    PROVE  Told(q, w, st, s, g, out)
  BY DEF Told

\* What drives a response with the fragments of a file is some of what drives it.
LEMMA ChunksDrive ==
    ASSUME NEW q, NEW w, NEW s
    PROVE  /\ ~SomeIn(q, Writes(s)) => ~SomeIn(q, ChunkWrites(s))
           /\ ~SomeIn(w, Carrying(s)) => ~SomeIn(w, ChunkCalls(s)) /\ ~SomeIn(w, Serving(s))
  BY DEF SomeIn, Writes, ChunkWrites, Carrying, ChunkCalls, Serving, Drive

\* The handler of a frame of s may have its message served, and calls nothing else for a
\* response.
LEMMA MessageStack ==
    ASSUME KInv, work # <<>>, Top.op = "frames", NEW s \in StreamId,
           \/ ConnectionError \/ Calls(<<>>) \/ work' = work
           \/ Calls(<<Do("serve", s)>>)
    PROVE  /\ Stacked(work')
           /\ \A x \in StreamId \ {s} : NoCalls(x)
           /\ NoMore(work', work, ChunkCalls(s))
<1>1. CASE ConnectionError \/ Calls(<<>>) \/ work' = work
  BY <1>1, FrameStack, StackIsQuiet DEF NoCalls
<1>2. CASE Calls(<<Do("serve", s)>>)
  <2>1. PICK c : c = Do("serve", s)
    OBVIOUS
  <2>2. c \in Call /\ c.op = "serve" /\ c.stream = s
    BY <2>1, DoType DEF Do
  <2>3. PICK calls : calls = <<c>>
    OBVIOUS
  <2>4. calls \in Seq(Call) /\ \A i \in 1..Len(calls) : calls[i] = c
    BY <2>2, <2>3
  <2>5. AllServing(calls) /\ Calls(calls)
    BY <1>2, <2>1, <2>2, <2>3, <2>4 DEF AllServing, ServeOp
  <2>6. Stacked(work')
    BY <2>5, <2>4, StackStays
  <2>7. ASSUME NEW x \in StreamId \ {s} PROVE NoCalls(x)
    <3>1. ~SomeIn(calls, ChunkCalls(x)) /\ ~SomeIn(calls, Serving(x))
      BY <2>2, <2>7, <2>4 DEF SomeIn, ChunkCalls, Serving
    <3>. QED BY <2>5, <2>4, <3>1, CallsSame
  <2>8. NoMore(work', work, ChunkCalls(s))
    <3>1. ~SomeIn(calls, ChunkCalls(s))
      BY <2>2, <2>4 DEF SomeIn, ChunkCalls
    <3>2. work \in Seq(Call)
      BY SoundTypes DEF KInv
    <3>. QED BY <2>5, <2>4, <3>1, <3>2, InJoined DEF NoMore, Calls
  <2>. QED BY <2>6, <2>7, <2>8
<1>. QED BY <1>1, <1>2

\* DATA that ends a message has it served, on a stream that has no head yet.
LEMMA HandleDataTold ==
    ASSUME KInv, HandleData
    PROVE  ToldInv'
<1>1. PICK f : f = Head(buffer)
  OBVIOUS
<1>2. PICK s : s = f.stream
  OBVIOUS
<1>3. /\ work # <<>> /\ Top.op = "frames" /\ buffer # <<>> /\ f.type = "DATA"
      /\ ~OutOfSequence(f) /\ StreamTakes(f)
      /\ UNCHANGED <<table, ids, assembly, peer>>
      /\ \/ queue' = queue
         \/ queue' = queue \o <<Plain("WINDOW_UPDATE", 0), Plain("WINDOW_UPDATE", s)>>
      /\ ConnectionError \/ Calls(<<>>) \/ Calls(<<Do("serve", s)>>)
  BY <1>1, <1>2 DEF HandleData, Taking, Running
<1>4. f \in Frame /\ s \in StreamId
  BY <1>1, <1>2, <1>3, SoundTypes, TakingType, FrameAssumption DEF KInv
<1>5. s \in Live /\ ~stream[s].end
  BY <1>2, <1>3, <1>4, TakenIsOpen DEF KInv
<1>6. /\ ~SomeIn(queue, ChunkWrites(s)) /\ ~SomeIn(work, ChunkCalls(s))
      /\ stream[s].pending = <<>>
  BY <1>5, Unserved, ChunksDrive DEF KInv
<1>7. PICK st \in Stream : st = stream[s]
  BY <1>4, SoundTypes DEF KInv
<1>8. PICK new : stream' = [stream EXCEPT ![s] = new] /\ new.pending = <<>>
  <2>. DEFINE new == [st EXCEPT !.received = stream[s].received + f.size, !.end = @ \/ f.end,
                                !.state = IF f.end THEN "HALF_CLOSED_REMOTE" ELSE @]
  <2>1. stream' = [stream EXCEPT ![s] = new]
    BY <1>1, <1>2, <1>7 DEF HandleData
  <2>2. new.pending = st.pending
    BY DEF Stream
  <2>. QED BY <1>6, <1>7, <2>1, <2>2
<1>9. stream'[s] = new /\ \A x \in StreamId \ {s} : stream'[x] = stream[x]
  BY <1>4, <1>8, SoundTypes DEF KInv
<1>10. ASSUME NEW x PROVE NoWrites(x)
  <2>1. queue \in Seq(Item)
    BY SoundTypes DEF KInv
  <2>2. CASE queue' = queue
    BY <2>2 DEF NoWrites, NoMore
  <2>3. CASE queue' = queue \o <<Plain("WINDOW_UPDATE", 0), Plain("WINDOW_UPDATE", s)>>
    <3>1. PICK a, b : a = Plain("WINDOW_UPDATE", 0) /\ b = Plain("WINDOW_UPDATE", s)
      OBVIOUS
    <3>2. a \in Item /\ b \in Item /\ a.callback # "chunk" /\ b.callback # "chunk"
      BY <1>4, <3>1, PlainType DEF FrameType, Plain
    <3>3. PICK items : items = <<a, b>>
      OBVIOUS
    <3>4. items \in Seq(Item)
      BY <3>2, <3>3
    <3>5. ~SomeIn(items, ChunkWrites(x))
      <4>1. 1..2 = {1, 2} /\ Len(items) = 2 /\ items[1] = a /\ items[2] = b
        BY <3>3
      <4>. QED BY <3>2, <4>1 DEF SomeIn, ChunkWrites
    <3>. QED BY <2>1, <2>3, <3>1, <3>3, <3>4, <3>5, InJoined DEF NoWrites, NoMore
  <2>. QED BY <1>3, <2>2, <2>3
<1>11. /\ Stacked(work')
       /\ \A x \in StreamId \ {s} : NoCalls(x)
       /\ NoMore(work', work, ChunkCalls(s))
  BY <1>3, <1>4, MessageStack
<1>12. Live' = Live /\ continuation' = continuation /\ lastStreamId' = lastStreamId
       /\ pushStreamId' = pushStreamId /\ peer' = peer
  BY <1>3 DEF Live, assembly, ids
<1>13. ASSUME NEW x \in StreamId \ {s} PROVE Same(x)
  BY <1>9, <1>10, <1>11, <1>12, <1>13 DEF Same, SameOf, Used
<1>14. ToldOf(s)'
  <2>1. peer.out[s] \in {"open", "reserved"} /\ Used(s)
    <3>1. Told(queue, work, stream[s], s, continuation, peer.out[s])
      BY <1>4, <1>5 DEF KInv, ToldInv, ToldOf
    <3>. QED BY <1>5, <3>1, LiveIsUsed, SoundTypes DEF Told, KInv
  <2>2. ~SomeIn(queue', ChunkWrites(s)) /\ ~SomeIn(work', ChunkCalls(s))
    BY <1>6, <1>10, <1>11 DEF NoWrites, NoMore
  <2>3. Told(queue', work', stream'[s], s, continuation', peer'.out[s])
    BY <1>8, <1>9, <1>12, <2>1, <2>2, BeginsTold
  <2>. QED BY <1>5, <1>12, <2>1, <2>3 DEF ToldOf, Used
<1>. QED BY <1>11, <1>13, <1>14, OneTold

\* A CONTINUATION that ends a message has it served, on a stream that has no head yet.
LEMMA HandleContinuationTold ==
    ASSUME KInv, HandleContinuation
    PROVE  ToldInv'
<1>1. PICK f, s : f = Head(buffer) /\ s = continuation
  OBVIOUS
<1>2. /\ work # <<>> /\ Top.op = "frames" /\ buffer # <<>> /\ f.type = "CONTINUATION"
      /\ ~Violates(f)
      /\ UNCHANGED <<table, ids, queue, peer>>
  BY <1>1 DEF HandleContinuation, Taking, Running
<1>3. s # 0 /\ (refused # s => s \in Live) /\ 0 \notin StreamId /\ Live \subseteq StreamId
  BY <1>1, <1>2, SoundTypes, StreamIdAssumption DEF Violates, KInv
<1>4. QueueQuiet /\ table' = table /\ UNCHANGED ids /\ peer'.out = peer.out
  BY <1>2 DEF QueueQuiet
<1>5. CASE ~f.endHeaders \/ refused = s
  <2>1. /\ stream' = stream /\ (continuation' = continuation \/ continuation' = 0)
        /\ ConnectionError \/ work' = work
    BY <1>1, <1>5 DEF HandleContinuation
  <2>2. \A x \in StreamId : SameOf(stream'[x], stream[x])
    BY <2>1 DEF SameOf
  <2>3. \A x \in Live : continuation' = x => continuation = x
    BY <1>3, <2>1
  <2>. QED BY <1>2, <1>4, <2>1, <2>2, <2>3, FrameStack, LightTold
<1>6. CASE f.endHeaders /\ refused # s
  <2>1. s \in Live /\ s \in StreamId /\ stream[s] \in Stream
    BY <1>3, <1>6, SoundTypes DEF KInv
  <2>2. EndBlock(s, stream[s], Gathered(f))
    BY <1>1, <1>6 DEF HandleContinuation
  <2>3. PICK new : stream' = [stream EXCEPT ![s] = new] /\ Alike(new, stream[s])
    BY <2>1, <2>2, EndBlockGoesOn
  <2>4. /\ continuation' = 0
        /\ ConnectionError \/ Calls(<<>>) \/ Calls(<<Do("serve", s)>>)
    BY <2>1, <2>2, EndBlockGoesOn
  <2>5. /\ ~SomeIn(queue, ChunkWrites(s)) /\ ~SomeIn(work, ChunkCalls(s))
        /\ stream[s].pending = <<>>
    BY <1>1, <2>1, Unserved, ChunksDrive DEF KInv
  <2>6. stream'[s] = new /\ new.pending = <<>> /\ \A x \in StreamId \ {s} : stream'[x] = stream[x]
    BY <2>1, <2>3, <2>5, SoundTypes DEF KInv, Alike
  <2>7. /\ Stacked(work')
        /\ \A x \in StreamId \ {s} : NoCalls(x)
        /\ NoMore(work', work, ChunkCalls(s))
    BY <1>2, <2>1, <2>4, MessageStack
  <2>8. Live' = Live /\ lastStreamId' = lastStreamId /\ pushStreamId' = pushStreamId
        /\ peer' = peer
    BY <1>2 DEF Live, ids
  <2>9. \A x : NoWrites(x)
    BY <1>4, QueueIsQuiet
  <2>10. ASSUME NEW x \in StreamId \ {s} PROVE Same(x)
    <3>1. x # 0
      BY <1>3, <2>10
    <3>. QED BY <2>4, <2>6, <2>7, <2>8, <2>9, <2>10, <3>1 DEF Same, SameOf, Used
  <2>11. ToldOf(s)'
    <3>1. peer.out[s] \in {"open", "reserved"} /\ Used(s)
      <4>1. Told(queue, work, stream[s], s, continuation, peer.out[s])
        BY <2>1 DEF KInv, ToldInv, ToldOf
      <4>. QED BY <1>1, <2>1, <4>1, LiveIsUsed, SoundTypes DEF Told, KInv
    <3>2. ~SomeIn(queue', ChunkWrites(s)) /\ ~SomeIn(work', ChunkCalls(s))
      BY <2>5, <2>7, <2>9 DEF NoWrites, NoMore
    <3>3. Told(queue', work', stream'[s], s, continuation', peer'.out[s])
      BY <2>6, <2>8, <3>1, <3>2, BeginsTold
    <3>. QED BY <2>1, <2>8, <3>1, <3>3 DEF ToldOf, Used
  <2>. QED BY <2>7, <2>10, <2>11, OneTold
<1>. QED BY <1>5, <1>6

\* HEADERS open a stream, or end the message of one that has no head yet.
LEMMA HandleHeadersTold ==
    ASSUME KInv, HandleHeaders
    PROVE  ToldInv'
<1>1. PICK s : s = Head(buffer).stream
  OBVIOUS
<1>2. /\ s \in StreamId /\ s \in Nat /\ s # 0 /\ continuation = 0
      /\ work # <<>> /\ Top.op = "frames" /\ UNCHANGED <<pushStreamId, queue>>
      /\ ~SomeIn(queue, ChunkWrites(s)) /\ ~SomeIn(work, ChunkCalls(s))
  BY <1>1, HeadersGoOn, ChunksDrive DEF KInv
<1>3. s \notin Live =>
         /\ s % 2 # 0 /\ s > lastStreamId /\ lastStreamId \in Nat
         /\ lastStreamId' = s /\ table' = Append(table, s)
         /\ peer' = [peer EXCEPT !.out[s] = "open", !.granted[s] = initialWindow]
  BY <1>1, HeadersGoOn DEF KInv
<1>4. s \in Live => UNCHANGED <<table, lastStreamId, peer>> /\ ~stream[s].end
  BY <1>1, HeadersGoOn DEF KInv
<1>5. PICK new :
         /\ stream' = [stream EXCEPT ![s] = new]
         /\ new.pending = <<>>
         /\ ConnectionError \/ Calls(<<>>) \/ work' = work \/ Calls(<<Do("serve", s)>>)
         /\ continuation' \in {0, s}
  BY <1>1, HeadersGoOn DEF KInv
<1>6. stream'[s] = new /\ \A x \in StreamId \ {s} : stream'[x] = stream[x]
  BY <1>2, <1>5, SoundTypes DEF KInv
<1>7. /\ Stacked(work')
      /\ \A x \in StreamId \ {s} : NoCalls(x)
      /\ NoMore(work', work, ChunkCalls(s))
  BY <1>2, <1>5, MessageStack
<1>8. \A x : NoWrites(x)
  BY <1>2, QueueIsQuiet DEF QueueQuiet
<1>9. /\ Live' = Live \cup {s}
      /\ \A x \in StreamId \ {s} : peer'.out[x] = peer.out[x]
      /\ peer'.out[s] \in {"open", "reserved"}
      /\ UsedBy(s, lastStreamId', pushStreamId')
      /\ \A x \in StreamId : Used(x) => UsedBy(x, lastStreamId', pushStreamId')
  <2>1. CASE s \in Live
    <3>1. Live' = Live \cup {s} /\ peer' = peer /\ lastStreamId' = lastStreamId
      BY <1>4, <2>1 DEF Live
    <3>2. Told(queue, work, stream[s], s, continuation, peer.out[s]) /\ Used(s)
      BY <1>2, <2>1, LiveIsUsed, SoundTypes DEF KInv, ToldInv, ToldOf
    <3>3. peer.out[s] \in {"open", "reserved"}
      BY <1>4, <2>1, <3>2 DEF Told
    <3>. QED BY <1>2, <3>1, <3>2, <3>3 DEF Used
  <2>2. CASE s \notin Live
    <3>1. Live' = Live \cup {s}
      BY <1>2, <1>3, <2>2, TableGrows DEF KInv
    <3>2. peer'.out = [peer.out EXCEPT ![s] = "open"]
          /\ peer.out \in [StreamId -> {"idle", "open", "reserved", "headers", "ended", "reset"}]
      BY <1>3, <2>2, SoundTypes DEF KInv, Peer
    <3>6. peer'.out[s] = "open" /\ \A x \in StreamId \ {s} : peer'.out[x] = peer.out[x]
      BY <1>2, <3>2
    <3>3. lastStreamId' = s /\ pushStreamId' = pushStreamId /\ StreamId \subseteq Nat
      BY <1>2, <1>3, <2>2, StreamIdAssumption
    <3>4. \A x \in StreamId : Used(x) => UsedBy(x, lastStreamId', pushStreamId')
      BY <1>2, <1>3, <2>2, <3>3 DEF Used, UsedBy
    <3>5. UsedBy(s, lastStreamId', pushStreamId')
      BY <1>2, <1>3, <2>2, <3>3 DEF UsedBy
    <3>. QED BY <3>1, <3>4, <3>5, <3>6
  <2>. QED BY <2>1, <2>2
<1>10. ASSUME NEW x \in StreamId \ {s} PROVE Same(x)
  <2>1. x # 0 /\ x # s
    BY <1>10, StreamIdAssumption
  <2>2. (x \in Live' <=> x \in Live) /\ (continuation' = x => continuation = x)
    BY <1>5, <1>9, <2>1
  <2>. QED BY <1>6, <1>7, <1>8, <1>9, <1>10, <2>2 DEF Same, SameOf
<1>11. ToldOf(s)'
  <2>1. ~SomeIn(queue', ChunkWrites(s)) /\ ~SomeIn(work', ChunkCalls(s))
    BY <1>2, <1>7, <1>8 DEF NoWrites, NoMore
  <2>2. Told(queue', work', stream'[s], s, continuation', peer'.out[s])
    BY <1>5, <1>6, <1>9, <2>1, BeginsTold
  <2>. QED BY <1>9, <2>2 DEF ToldOf, Used
<1>. QED BY <1>7, <1>10, <1>11, OneTold
-----------------------------------------------------------------------------
(***************************************************************************)
(* The responses.                                                          *)
(***************************************************************************)
\* What is served is held.
LEMMA ServedIsLive ==
    ASSUME KInv, work # <<>>, NEW s \in StreamId, Top \in Serving(s)
    PROVE  s \in Live /\ peer.out[s] \in {"open", "reserved"} /\ Used(s)
<1>1. work \in Seq(Call)
  BY SoundTypes DEF KInv
<1>2. SomeIn(work, Serving(s))
  <2>1. 1 \in 1..Len(work) /\ work[1] = Head(work)
    BY <1>1
  <2>. QED BY <2>1 DEF SomeIn, Top
<1>3. s \in Live
  BY <1>2 DEF KInv, ToldInv, ToldOf, Bare
<1>4. Told(queue, work, stream[s], s, continuation, peer.out[s])
  BY <1>3 DEF KInv, ToldInv, ToldOf
<1>. QED BY <1>2, <1>3, <1>4, LiveIsUsed, SoundTypes DEF Told, KInv

\* A completion runs the callback of the handler.
LEMMA WrittenTold ==
    ASSUME KInv, Written
    PROVE  ToldInv'
<1>1. PICK item, s : item = Head(queue) /\ s = item.stream
  OBVIOUS
<1>2. /\ work = <<>> /\ queue # <<>> /\ peer' = peer
      /\ \/ CloseSession /\ work' = work
         \/ /\ queue' = Tail(queue) /\ work' = work
            /\ UNCHANGED <<table, stream, ids, assembly>>
         \/ /\ queue' = Tail(queue) /\ s \in Live
            /\ work' = <<[Do("callback", s) EXCEPT !.callback = item.callback],
                         [Do("settle", s) EXCEPT !.slot = Slot(s)]>>
            /\ UNCHANGED <<table, stream, ids, assembly>>
  BY <1>1 DEF Written
<1>3. CASE CloseSession /\ work' = work
  <2>1. NoServing(work')
    BY <1>2, <1>3 DEF NoServing
  <2>. QED BY <1>2, <1>3, <2>1, SessionClosedTold
<1>4. CASE /\ queue' = Tail(queue) /\ work' = work
           /\ UNCHANGED <<table, stream, ids, assembly>>
  BY <1>2, <1>4, IdleTold DEF QueueQuiet, StackQuiet
<1>5. CASE /\ queue' = Tail(queue) /\ s \in Live
           /\ work' = <<[Do("callback", s) EXCEPT !.callback = item.callback],
                        [Do("settle", s) EXCEPT !.slot = Slot(s)]>>
           /\ UNCHANGED <<table, stream, ids, assembly>>
  <2>1. PICK a, b : /\ a = [Do("callback", s) EXCEPT !.callback = item.callback]
                    /\ b = [Do("settle", s) EXCEPT !.slot = Slot(s)]
    OBVIOUS
  <2>2. /\ a.op = "callback" /\ a.stream = s /\ a.callback = item.callback /\ b.op = "settle"
    BY <2>1 DEF Do
  <2>3. PICK w : w = <<a, b>>
    OBVIOUS
  <2>4. work' = w /\ \A i \in 1..Len(w) : w[i] = a \/ w[i] = b
    <3>1. 1..2 = {1, 2} /\ Len(w) = 2 /\ w[1] = a /\ w[2] = b
      BY <2>3
    <3>. QED BY <1>5, <2>1, <2>3, <3>1
  <2>5. Stacked(work')
    <3>1. NoServing(w)
      BY <2>2, <2>4 DEF NoServing
    <3>. QED BY <2>4, <3>1, NoServingStacked
  <2>6. ASSUME NEW x PROVE ~SomeIn(work', Serving(x))
    BY <2>2, <2>4 DEF SomeIn, Serving
  <2>7. ASSUME NEW x, x # s PROVE ~SomeIn(work', ChunkCalls(x))
    BY <2>2, <2>4, <2>7 DEF SomeIn, ChunkCalls
  <2>8. queue \in Seq(Item) /\ item \in Item /\ s \in StreamId /\ stream \in [StreamId -> Stream]
    BY <1>1, <1>2, <1>5, SoundTypes DEF KInv
  <2>9. \A x : NoWrites(x)
    BY <1>2, <1>5, QueueIsQuiet DEF QueueQuiet
  <2>10. Live' = Live /\ continuation' = continuation /\ lastStreamId' = lastStreamId
         /\ pushStreamId' = pushStreamId /\ stream' = stream
    BY <1>5 DEF Live, assembly, ids
  <2>11. ASSUME NEW x \in StreamId \ {s} PROVE Same(x)
    <3>1. NoCalls(x)
      BY <2>6, <2>7, <2>11 DEF NoCalls, NoMore
    <3>. QED BY <1>2, <2>9, <2>10, <3>1 DEF Same, SameOf, Used
  <2>12. Told(queue, work, stream[s], s, continuation, peer.out[s]) /\ Used(s)
    BY <1>5, <2>8, LiveIsUsed, SoundTypes DEF KInv, ToldInv, ToldOf
  <2>13. SomeIn(work', ChunkCalls(s)) => SomeIn(queue, ChunkWrites(s))
    <3>1. SomeIn(work', ChunkCalls(s)) => item.callback = "chunk"
      BY <2>2, <2>4 DEF SomeIn, ChunkCalls
    <3>2. item.callback = "chunk" => item \in ChunkWrites(s)
      BY <1>1, <2>8 DEF ChunkWrites
    <3>. QED BY <1>1, <1>2, <2>8, <3>1, <3>2, InRest
  <2>14. Told(queue', work', stream[s], s, continuation, peer.out[s])
    <3>1. SomeIn(queue', ChunkWrites(s)) => SomeIn(queue, ChunkWrites(s))
      BY <2>9 DEF NoWrites, NoMore
    <3>. QED BY <2>6, <2>12, <2>13, <3>1 DEF Told
  <2>15. ToldOf(s)'
    BY <1>2, <1>5, <2>10, <2>12, <2>14 DEF ToldOf, Used
  <2>. QED BY <2>5, <2>11, <2>15, OneTold
<1>. QED BY <1>2, <1>3, <1>4, <1>5

\* The calls that serve a message: a promise for each of its resources, then the response.
LEMMA ServeCalls ==
    ASSUME NEW s \in StreamId, NEW n \in Nat, NEW calls,
           calls = [i \in 1..n |-> Do("push", s)] \o <<Do("respond", s)>>
    PROVE  /\ calls \in Seq(Call)
           /\ \A i \in 1..Len(calls) : calls[i].op \in {"push", "respond"} /\ calls[i].stream = s
<1>1. PICK c, d : c = Do("push", s) /\ d = Do("respond", s)
  OBVIOUS
<1>2. /\ c \in Call /\ c.op = "push" /\ c.stream = s
      /\ d \in Call /\ d.op = "respond" /\ d.stream = s
  BY <1>1, DoType DEF Do
<1>3. PICK p, q : p = [i \in 1..n |-> c] /\ q = <<d>>
  OBVIOUS
<1>4. p \in Seq(Call) /\ q \in Seq(Call) /\ Len(p) = n /\ Len(q) = 1 /\ q[1] = d
      /\ \A i \in 1..n : p[i] = c
  BY <1>2, <1>3
<1>5. calls = p \o q
  BY <1>1, <1>3
<1>6. calls \in Seq(Call) /\ Len(calls) = n + 1
      /\ \A i \in 1..n + 1 : calls[i] = IF i <= n THEN p[i] ELSE q[i - n]
  <2>1. PICK m : m = Len(q) /\ m = 1
    BY <1>4
  <2>2. calls \in Seq(Call)
    BY <1>4, <1>5
  <2>3. Len(calls) = n + m
    BY <1>4, <1>5, <2>1
  <2>4. \A i \in 1..n + m : calls[i] = IF i <= n THEN p[i] ELSE q[i - n]
    BY <1>4, <1>5, <2>1
  <2>. QED BY <2>1, <2>2, <2>3, <2>4
<1>7. ASSUME NEW i \in 1..n + 1 PROVE calls[i] = c \/ calls[i] = d
  <2>1. CASE i <= n
    BY <1>4, <1>6, <2>1
  <2>2. CASE ~(i <= n)
    <3>1. i - n = 1
      BY <2>2
    <3>. QED BY <1>4, <1>6, <2>2, <3>1
  <2>. QED BY <2>1, <2>2
<1>. QED BY <1>2, <1>6, <1>7

\* A handler that takes a message promises first and then responds, on a stream that has no
\* head yet and nothing under way.
LEMMA ServeTold ==
    ASSUME KInv, Serve
    PROVE  ToldInv'
<1>1. /\ work # <<>> /\ Top.op = "serve"
      /\ UNCHANGED <<table, ids, assembly, queue, peer>>
  BY DEF Serve, Running
<1>2. PICK s : s = Top.stream
  OBVIOUS
<1>3. /\ s \in StreamId /\ Top \in Serving(s) /\ Top \in Carrying(s)
      /\ stream \in [StreamId -> Stream] /\ work \in Seq(Call)
  BY <1>1, <1>2, SoundTypes, TopType DEF StreamOp, Carrying, Serving, KInv
<1>4. PICK r \in Responses :
         /\ stream' = [stream EXCEPT ![s].kind = r.kind,
                                     ![s].todo = r.body, ![s].cut = r.cut]
         /\ Becomes([i \in 1..r.push |-> Do("push", s)] \o <<Do("respond", s)>>)
  BY <1>2 DEF Serve
<1>5. s \in Live /\ peer.out[s] \in {"open", "reserved"} /\ Used(s)
  BY <1>1, <1>3, ServedIsLive
<1>6. PICK calls : calls = [i \in 1..r.push |-> Do("push", s)] \o <<Do("respond", s)>>
  OBVIOUS
<1>7. /\ calls \in Seq(Call)
      /\ \A i \in 1..Len(calls) : calls[i].op \in {"push", "respond"} /\ calls[i].stream = s
  <2>1. r.push \in Nat
    BY ResponseAssumption DEF Response
  <2>2. PICK n \in Nat : n = r.push
    BY <2>1
  <2>3. calls = [i \in 1..n |-> Do("push", s)] \o <<Do("respond", s)>>
    BY <1>6, <2>2
  <2>. QED BY <1>3, <2>3, ServeCalls
<1>8. AllServing(calls) /\ Becomes(calls)
  BY <1>4, <1>6, <1>7 DEF AllServing, ServeOp
<1>9. Stacked(work')
  BY <1>1, <1>7, <1>8, StackStays
<1>10. ASSUME NEW x \in StreamId \ {s} PROVE NoCalls(x)
  <2>1. ~SomeIn(calls, ChunkCalls(x)) /\ ~SomeIn(calls, Serving(x))
    BY <1>7, <1>10 DEF SomeIn, ChunkCalls, Serving
  <2>. QED BY <1>1, <1>7, <1>8, <2>1, CallsSame
<1>11. /\ ~SomeIn(Tail(work), Carrying(s)) /\ ~SomeIn(queue, Writes(s)) /\ stream[s].pending = <<>>
  BY <1>1, <1>3, <1>5, TopCarries DEF KInv
<1>12. ~SomeIn(queue', ChunkWrites(s)) /\ ~SomeIn(work', ChunkCalls(s))
  <2>1. ~SomeIn(queue, ChunkWrites(s)) /\ ~SomeIn(Tail(work), ChunkCalls(s))
    BY <1>11, ChunksDrive
  <2>2. ~SomeIn(calls, ChunkCalls(s))
    BY <1>7 DEF SomeIn, ChunkCalls
  <2>3. Tail(work) \in Seq(Call)
    BY <1>1, <1>3
  <2>4. ~SomeIn(calls \o Tail(work), ChunkCalls(s))
    BY <1>7, <2>1, <2>2, <2>3, InJoined
  <2>. QED BY <1>1, <1>8, <2>1, <2>4 DEF Becomes
<1>13. /\ stream'[s].pending = stream[s].pending
       /\ \A x \in StreamId \ {s} : stream'[x] = stream[x]
  <2>1. PICK st \in Stream : st = stream[s]
    BY <1>3
  <2>2. PICK kind, todo, cut : kind = r.kind /\ todo = r.body /\ cut = r.cut
    OBVIOUS
  <2>. DEFINE new == [st EXCEPT !.kind = kind, !.todo = todo, !.cut = cut]
  <2>3. new.pending = st.pending
    BY DEF Stream
  <2>4. stream' = [stream EXCEPT ![s] = new]
    BY <1>3, <1>4, <2>1, <2>2
  <2>. HIDE DEF new
  <2>. QED BY <1>3, <2>1, <2>3, <2>4
<1>14. Live' = Live /\ continuation' = continuation /\ lastStreamId' = lastStreamId
       /\ pushStreamId' = pushStreamId /\ peer' = peer
  BY <1>1 DEF Live, assembly, ids
<1>15. ASSUME NEW x \in StreamId \ {s} PROVE Same(x)
  <2>1. NoWrites(x)
    BY <1>1 DEF NoWrites, NoMore
  <2>. QED BY <1>10, <1>13, <1>14, <2>1 DEF Same, SameOf, Used
<1>16. ToldOf(s)'
  <2>1. Told(queue', work', stream'[s], s, continuation', peer'.out[s])
    BY <1>5, <1>11, <1>12, <1>13, <1>14, BeginsTold
  <2>. QED BY <1>5, <1>14, <2>1 DEF ToldOf, Used
<1>. QED BY <1>9, <1>15, <1>16, OneTold

\* A promise opens a stream, and has it served before the response that it came with.
LEMMA PushTold ==
    ASSUME KInv, Push
    PROVE  ToldInv'
<1>. DEFINE p == pushStreamId + 2
<1>1. /\ work # <<>> /\ continuation' = continuation
      /\ work \in Seq(Call) /\ queue \in Seq(Item) /\ 0 \notin StreamId
  <2>1. work # <<>> /\ continuation' = continuation
    BY DEF Push, Running, assembly
  <2>. QED BY <2>1, SoundTypes, StreamIdAssumption DEF KInv
<1>2. \A x \in StreamId : Used(x) => UsedBy(x, lastStreamId', pushStreamId')
  BY UsedGrows DEF KInv
<1>3. CASE CanPush /\ p \in StreamId
  <2>1. PICK s \in StreamId : s = p
    BY <1>3
  <2>2. ~Used(s) /\ UsedBy(s, lastStreamId', pushStreamId')
    <3>1. TypeOK /\ PushEven
      BY SoundTypes DEF IInv, KInv
    <3>2. pushStreamId \in Nat /\ pushStreamId % 2 = 0 /\ pushStreamId' = s
      BY <1>3, <2>1, <3>1 DEF TypeOK, PushEven, Push
    <3>3. s \in Nat /\ s % 2 = 0 /\ s > pushStreamId
      BY <2>1, <3>2
    <3>. QED BY <3>2, <3>3 DEF Used, UsedBy
  <2>3. PICK new : new = [Fresh("RESERVED_LOCAL", initialWindow) EXCEPT
                             !.end = TRUE, !.headersComplete = TRUE]
    OBVIOUS
  <2>4. /\ queue' = Append(queue, Plain("PUSH_PROMISE", s))
        /\ table' = Append(table, s)
        /\ stream' = [stream EXCEPT ![s] = new]
        /\ peer' = [peer EXCEPT !.out[s] = "reserved", !.granted[s] = initialWindow]
        /\ Becomes(<<Do("serve", s)>>)
    BY <1>3, <2>1, <2>3 DEF Push
  <2>. HIDE DEF p
  <2>5. new.pending = <<>> /\ new.todo = <<>>
    BY <2>3 DEF Fresh
  <2>6. stream'[s] = new /\ \A x \in StreamId \ {s} : stream'[x] = stream[x]
    BY <2>4, SoundTypes DEF KInv
  <2>7. Live' = Live \cup {s}
    BY <2>2, <2>4, UnusedRests, TableGrows DEF KInv
  <2>8. peer'.out = [peer.out EXCEPT ![s] = "reserved"]
        /\ peer.out \in [StreamId -> {"idle", "open", "reserved", "headers", "ended", "reset"}]
    BY <2>4, SoundTypes DEF KInv, Peer
  <2>9. peer'.out[s] = "reserved" /\ \A x \in StreamId \ {s} : peer'.out[x] = peer.out[x]
    BY <2>8
  <2>10. \A x : NoWrites(x)
    <3>1. Plain("PUSH_PROMISE", s) \in Item /\ Plain("PUSH_PROMISE", s).callback # "chunk"
      BY PlainType DEF Plain
    <3>2. QueueQuiet
      BY <2>4, <3>1 DEF QueueQuiet
    <3>. QED BY <3>2, QueueIsQuiet
  <2>11. PICK c : c = Do("serve", s)
    OBVIOUS
  <2>12. c \in Call /\ c.op = "serve" /\ c.stream = s
    BY <2>11, DoType DEF Do
  <2>13. PICK calls : calls = <<c>>
    OBVIOUS
  <2>14. calls \in Seq(Call) /\ \A i \in 1..Len(calls) : calls[i] = c
    BY <2>12, <2>13
  <2>15. AllServing(calls) /\ Becomes(calls)
    BY <2>4, <2>11, <2>12, <2>13, <2>14 DEF AllServing, ServeOp
  <2>16. Stacked(work')
    BY <1>1, <2>14, <2>15, StackStays
  <2>17. ASSUME NEW x \in StreamId \ {s} PROVE Same(x)
    <3>1. ~SomeIn(calls, ChunkCalls(x)) /\ ~SomeIn(calls, Serving(x))
      BY <2>12, <2>14, <2>17 DEF SomeIn, ChunkCalls, Serving
    <3>2. NoCalls(x)
      BY <1>1, <2>14, <2>15, <3>1, CallsSame
    <3>. QED BY <1>1, <1>2, <2>6, <2>7, <2>9, <2>10, <2>17, <3>2 DEF Same, SameOf
  <2>18. ToldOf(s)'
    <3>1. Told(queue', work', stream'[s], s, continuation', peer'.out[s])
      BY <2>5, <2>6, <2>9, BeginsTold
    <3>. QED BY <2>2, <2>7, <3>1 DEF ToldOf, Used
  <2>. QED BY <2>16, <2>17, <2>18, OneTold
<1>4. CASE ~(CanPush /\ p \in StreamId)
  <2>1. UNCHANGED <<queue, table, stream, peer>> /\ Return
    BY <1>4 DEF Push
  <2>2. Live' = Live
    BY <2>1 DEF Live
  <2>3. Stacked(work') /\ \A x : NoCalls(x) /\ NoWrites(x)
    BY <1>1, <2>1, StackIsQuiet DEF StackQuiet, NoWrites, NoMore
  <2>4. ASSUME NEW x \in StreamId PROVE Same(x)
    BY <1>1, <1>2, <2>1, <2>2, <2>3 DEF Same, SameOf
  <2>. QED BY <1>1, <2>3, <2>4, OneTold
<1>. QED BY <1>3, <1>4

\* The head of the response of a stream that is served: whatever is held back after it is
\* the whole of it.
LEMMA RespondTold ==
    ASSUME KInv, Respond
    PROVE  ToldInv'
<1>. SInv
  BY DEF KInv
<1>1. PICK s : s = Top.stream
  OBVIOUS
<1>2. /\ work # <<>> /\ Top \in Serving(s) /\ UNCHANGED <<open, table, ids, assembly>>
      /\ s \in StreamId /\ Used(s)
      /\ Becomes(<<>>) \/ Becomes(<<Do("schedule", 0)>>)
  BY <1>1, RespondGoesOn
<1>3. /\ Top \in Carrying(s) /\ work \in Seq(Call) /\ queue \in Seq(Item) /\ peer \in Peer
      /\ Tail(work) \in Seq(Call) /\ stream \in [StreamId -> Stream]
  BY <1>2, SoundTypes DEF Carrying
<1>4. s \in Live
  BY <1>2, ServedIsLive
<1>5. PICK st \in Stream : st = stream[s]
  BY <1>3, <1>4, SoundTypes
<1>6. PICK new, item, o :
         /\ stream' = [stream EXCEPT ![s] = new]
         /\ queue' = Append(queue, item)
         /\ peer' = [peer EXCEPT !.out[s] = o]
         /\ new.end = st.end /\ new.todo = st.todo
         /\ item \in Item /\ item.stream = s
         /\ o \in {"headers", "ended"} /\ (item.callback = "chunk" => o = "headers")
         /\ \/ new.pending = st.pending
            \/ /\ item.callback \notin Drive /\ o = "headers"
               /\ new.pending = Append(st.pending, Chunk(PageSize(st), TRUE, "cleanup"))
  <2>1. PICK new, item, o : RespondsWith(s, new, item, o)
    BY <1>1, RespondGoesOn
  <2>. QED BY <1>5, <2>1 DEF RespondsWith
<1>7. /\ ~SomeIn(Tail(work), Carrying(s)) /\ ~SomeIn(queue, Writes(s))
      /\ st.pending = <<>> /\ st.end /\ continuation # s
  BY <1>2, <1>3, <1>4, <1>5, TopCarries
<1>8. PICK calls \in Seq(Call) :
         /\ Becomes(calls) /\ \A i \in 1..Len(calls) : calls[i].op = "schedule"
  <2>1. <<>> \in Seq(Call) /\ \A i \in 1..Len(<<>>) : <<>>[i].op = "schedule"
    OBVIOUS
  <2>2. <<Do("schedule", 0)>> \in Seq(Call)
        /\ \A i \in 1..Len(<<Do("schedule", 0)>>) : <<Do("schedule", 0)>>[i].op = "schedule"
    BY LightCall DEF Do
  <2>. QED BY <1>2, <2>1, <2>2
<1>9. Stacked(work') /\ \A x : NoCalls(x)
  <2>1. StackQuiet
    BY <1>2, <1>8 DEF StackQuiet, LightOp, AllServing, ServeOp
  <2>. QED BY <2>1, StackIsQuiet
<1>10. ~SomeIn(work', ChunkCalls(s)) /\ ~SomeIn(work', Serving(s))
  <2>1. ~SomeIn(Tail(work), ChunkCalls(s)) /\ ~SomeIn(Tail(work), Serving(s))
    BY <1>7, ChunksDrive
  <2>2. ~SomeIn(calls, ChunkCalls(s)) /\ ~SomeIn(calls, Serving(s))
    BY <1>8 DEF SomeIn, ChunkCalls, Serving
  <2>3. ~SomeIn(calls \o Tail(work), ChunkCalls(s)) /\ ~SomeIn(calls \o Tail(work), Serving(s))
    BY <1>3, <1>8, <2>1, <2>2, InJoined
  <2>. QED BY <1>8, <2>3 DEF Becomes
<1>11. Live' = Live /\ continuation' = continuation /\ lastStreamId' = lastStreamId
       /\ pushStreamId' = pushStreamId
  BY <1>2 DEF Live, assembly, ids
<1>12. stream'[s] = new /\ \A x \in StreamId \ {s} : stream'[x] = stream[x]
  BY <1>2, <1>3, <1>6
<1>13. peer'.out[s] = o /\ \A x \in StreamId \ {s} : peer'.out[x] = peer.out[x]
  BY <1>2, <1>3, <1>6 DEF Peer
<1>14. ASSUME NEW x \in StreamId \ {s} PROVE Same(x)
  <2>1. NoWrites(x)
    BY <1>3, <1>6, <1>14, QueueSame DEF NoWrites
  <2>. QED BY <1>9, <1>11, <1>12, <1>13, <2>1 DEF Same, SameOf, Used
<1>15. ToldOf(s)'
  <2>1. SomeIn(queue', ChunkWrites(s)) => o = "headers"
    <3>1. ~SomeIn(queue, ChunkWrites(s))
      BY <1>7, ChunksDrive
    <3>2. item \in ChunkWrites(s) => o = "headers"
      BY <1>6 DEF ChunkWrites
    <3>. QED BY <1>3, <1>6, <3>1, <3>2, InAppended
  <2>2. /\ new.pending # <<>> => o = "headers"
        /\ \A i \in 1..Len(new.pending) : new.pending[i].callback # "chunk"
    <3>1. CASE new.pending = st.pending
      BY <1>7, <3>1
    <3>2. CASE o = "headers"
               /\ new.pending = Append(st.pending, Chunk(PageSize(st), TRUE, "cleanup"))
      <4>1. PICK c : c = Chunk(PageSize(st), TRUE, "cleanup")
        OBVIOUS
      <4>2. c.callback # "chunk"
        BY <4>1 DEF Chunk
      <4>3. PICK held : held = <<c>>
        OBVIOUS
      <4>4. new.pending = held
        BY <1>7, <3>2, <4>1, <4>3
      <4>5. \A i \in 1..Len(held) : held[i] = c
        BY <4>3
      <4>. QED BY <3>2, <4>2, <4>4, <4>5
    <3>. QED BY <1>6, <3>1, <3>2
  <2>3. Told(queue', work', new, s, continuation', o)
    BY <1>6, <1>7, <1>10, <1>11, <2>1, <2>2 DEF Told
  <2>. QED BY <1>2, <1>4, <1>11, <1>12, <1>13, <2>3 DEF ToldOf, Used
<1>. QED BY <1>9, <1>14, <1>15, OneTold

\* The next fragment of a file comes after its head, and the last of them is the last that
\* was to be read.
LEMMA SendChunkTold ==
    ASSUME KInv, SendChunk
    PROVE  ToldInv'
<1>. SInv
  BY DEF KInv
<1>1. /\ work # <<>> /\ Top.op = "callback" /\ Top.callback = "chunk"
      /\ UNCHANGED <<table, ids, assembly, queue, peer>>
  BY DEF SendChunk, Running
<1>2. PICK s : s = Top.stream
  OBVIOUS
<1>3. /\ s \in StreamId /\ Top \in Carrying(s) /\ Top \in ChunkCalls(s)
      /\ work \in Seq(Call) /\ stream \in [StreamId -> Stream]
  BY <1>1, <1>2, SoundTypes, TopType DEF StreamOp, Carrying, ChunkCalls, Drive
<1>4. PICK st \in Stream : st = stream[s]
  BY <1>3, SoundTypes
<1>5. Top.op \notin ServeOp
  BY <1>1 DEF ServeOp
<1>6. CASE st.todo = <<>>
  <2>1. Becomes(<<Do("release", s)>>) /\ stream' = stream
    BY <1>2, <1>4, <1>6 DEF SendChunk
  <2>2. PICK c : c = Do("release", s)
    OBVIOUS
  <2>3. c \in Call /\ c.op = "release"
    BY <1>3, <2>2, DoType DEF Do
  <2>4. <<c>> \in Seq(Call) /\ \A i \in 1..Len(<<c>>) : <<c>>[i].op = "release"
    BY <2>3
  <2>5. StackQuiet
    BY <1>1, <1>5, <2>1, <2>2, <2>4 DEF StackQuiet, LightOp
  <2>. QED BY <1>1, <2>1, <2>5, IdleTold DEF QueueQuiet
<1>7. CASE st.todo # <<>>
  <2>1. PICK c : c = Chunk(Head(st.todo), Len(st.todo) = 1 /\ ~st.cut, "chunk")
    OBVIOUS
  <2>2. c.last => Len(st.todo) = 1
    BY <2>1 DEF Chunk
  <2>3. PICK todo, held : todo = Tail(st.todo) /\ held = Append(st.pending, c)
    OBVIOUS
  <2>. DEFINE new == [st EXCEPT !.todo = todo, !.pending = held]
  <2>4. Becomes(<<Do("schedule", 0)>>)
    BY <1>2, <1>4, <1>7 DEF SendChunk
  <2>5. stream' = [stream EXCEPT ![s] = new]
    <3>1. stream' = [stream EXCEPT ![s].todo = Tail(@), ![s].pending = Append(@, c)]
      BY <1>2, <1>4, <1>7, <2>1 DEF SendChunk
    <3>. QED BY <1>3, <1>4, <2>3, <3>1, SoundTypes
  <2>6. new.pending = held /\ new.todo = todo /\ new.end = st.end
    BY DEF Stream
  <2>. HIDE DEF new
  <2>7. s \in Live
    BY <1>3, <1>4, <1>7 DEF KInv, ToldInv, ToldOf, Bare
  <2>8. st.pending = <<>> /\ st.end /\ continuation # s /\ ~SomeIn(Tail(work), Carrying(s))
    BY <1>1, <1>3, <1>4, <2>7, TopCarries
  <2>9. Told(queue, work, st, s, continuation, peer.out[s])
    BY <1>3, <1>4, <2>7 DEF KInv, ToldInv, ToldOf
  <2>10. peer.out[s] = "headers"
    <3>1. SomeIn(work, ChunkCalls(s))
      BY <1>1, <1>3, InRest DEF Top
    <3>. QED BY <1>7, <2>9, <3>1 DEF Told
  <2>11. Stacked(work') /\ \A x : NoCalls(x)
    <3>1. <<Do("schedule", 0)>> \in Seq(Call)
          /\ \A i \in 1..Len(<<Do("schedule", 0)>>) : <<Do("schedule", 0)>>[i].op = "schedule"
      BY LightCall DEF Do
    <3>2. StackQuiet
      BY <1>1, <2>4, <3>1 DEF StackQuiet, LightOp, AllServing, ServeOp
    <3>. QED BY <3>2, StackIsQuiet
  <2>12. ~SomeIn(work', Serving(s))
    <3>1. ~SomeIn(work, Serving(s))
      <4>1. ~SomeIn(Tail(work), Serving(s)) /\ Top \notin Serving(s)
        BY <1>1, <2>8, ChunksDrive DEF Serving
      <4>. QED BY <1>1, <1>3, <4>1, InRest DEF Top
    <3>. QED BY <2>11, <3>1 DEF NoCalls, NoMore
  <2>13. \A i \in 1..Len(held) : held[i].last => todo = <<>>
    <3>1. PICK one : one = <<c>>
      OBVIOUS
    <3>2. held = one
      BY <2>3, <2>8, <3>1
    <3>3. \A i \in 1..Len(one) : one[i] = c
      BY <3>1
    <3>4. Len(st.todo) = 1 => todo = <<>>
      <4>1. PICK list \in Seq(Nat) : list = st.todo
        BY DEF Stream
      <4>2. ASSUME Len(list) = 1 PROVE Tail(list) = <<>>
        <5>1. PICK rest : rest = Tail(list)
          OBVIOUS
        <5>2. list # <<>>
          BY <4>2
        <5>3. rest \in Seq(Nat) /\ Len(rest) = Len(list) - 1
          BY <5>1, <5>2
        <5>4. Len(rest) = 0
          BY <4>2, <5>3
        <5>. QED BY <5>1, <5>3, <5>4
      <4>. QED BY <2>3, <4>1, <4>2
    <3>. QED BY <2>2, <3>2, <3>3, <3>4
  <2>14. Live' = Live /\ continuation' = continuation /\ lastStreamId' = lastStreamId
         /\ pushStreamId' = pushStreamId /\ peer' = peer
    BY <1>1 DEF Live, assembly, ids
  <2>15. stream'[s] = new /\ \A x \in StreamId \ {s} : stream'[x] = stream[x]
    BY <1>3, <2>5
  <2>16. ASSUME NEW x \in StreamId \ {s} PROVE Same(x)
    <3>1. NoWrites(x)
      BY <1>1 DEF NoWrites, NoMore
    <3>. QED BY <2>11, <2>14, <2>15, <3>1 DEF Same, SameOf, Used
  <2>17. ToldOf(s)'
    <3>1. Told(queue', work', new, s, continuation', peer'.out[s])
      BY <2>6, <2>8, <2>10, <2>12, <2>13, <2>14 DEF Told
    <3>2. Used(s)
      BY <2>7, LiveIsUsed, SoundTypes
    <3>. QED BY <2>7, <2>14, <2>15, <3>1, <3>2 DEF ToldOf, Used
  <2>. QED BY <2>11, <2>16, <2>17, OneTold
<1>. QED BY <1>6, <1>7

\* The only element of a sequence, replaced.
LEMMA OnlyReplaced ==
    ASSUME NEW pending \in Seq(Fragment), Len(pending) = 1, NEW moved \in Fragment
    PROVE  \A i \in 1..Len([pending EXCEPT ![1] = moved]) :
              [pending EXCEPT ![1] = moved][i] = moved
<1>1. PICK left : left = [pending EXCEPT ![1] = moved]
  OBVIOUS
<1>2. Len(left) = 1 /\ left[1] = moved
  BY <1>1
<1>3. \A i \in 1..Len(left) : left[i] = moved
  BY <1>2
<1>. QED BY <1>1, <1>3

\* What is left of the only fragment ends as the fragment does.
LEMMA LeftEnds ==
    ASSUME NEW pending \in Seq(Fragment), Len(pending) = 1, NEW n \in Nat, NEW whole \in BOOLEAN,
           NEW left,
           left = IF whole THEN Tail(pending) ELSE [pending EXCEPT ![1].offset = @ + n]
    PROVE  /\ whole => left = <<>>
           /\ \A i \in 1..Len(left) :
                 left[i].last = pending[1].last /\ left[i].callback = pending[1].callback
<1>1. pending # <<>> /\ pending[1] \in Fragment
  <2>1. 1 \in 1..Len(pending)
    OBVIOUS
  <2>. QED BY <2>1
<1>2. CASE whole
  <2>1. left = Tail(pending)
    BY <1>2
  <2>2. Len(left) = 0 /\ left \in Seq(Fragment)
    BY <1>1, <2>1
  <2>3. left = <<>>
    BY <2>2
  <2>. QED BY <2>2, <2>3
<1>3. CASE ~whole
  <2>1. PICK first \in Fragment : first = pending[1]
    BY <1>1
  <2>2. PICK moved : moved = [first EXCEPT !.offset = @ + n]
    OBVIOUS
  <2>3. moved.last = first.last /\ moved.callback = first.callback /\ moved \in Fragment
    BY <2>2, SMTT(20) DEF Fragment
  <2>4. left = [pending EXCEPT ![1] = moved]
    BY <1>3, <2>1, <2>2
  <2>5. \A i \in 1..Len(left) : left[i] = moved
    BY <2>3, <2>4, OnlyReplaced
  <2>. QED BY <1>3, <2>1, <2>3, <2>5
<1>. QED BY <1>2, <1>3

\* Payload is only sent after a head, and nothing is left to be read after the frame that
\* ends a response.
LEMMA FlushTold ==
    ASSUME KInv, Flush
    PROVE  ToldInv'
<1>. SInv
  BY DEF KInv
<1>1. PICK s : s = Top.stream
  OBVIOUS
<1>2. /\ UNCHANGED <<open, table, ids, assembly, work>>
      /\ s \in StreamId /\ Used(s) /\ stream[s].pending # <<>>
  BY <1>1, FlushGoesOn
<1>3. /\ work \in Seq(Call) /\ queue \in Seq(Item) /\ peer \in Peer
      /\ stream \in [StreamId -> Stream]
  BY SoundTypes
<1>4. PICK st \in Stream : st = stream[s]
  BY <1>2, <1>3
<1>5. PICK pending \in Seq(Fragment) : pending = st.pending
  BY DEF Stream
<1>6. PICK fragment, allowed, whole, last, left, new, item :
         FlushesOf(s, fragment, allowed, whole, last, left, new, item)
  BY <1>1, FlushGoesOn
<1>7. /\ fragment \in Fragment /\ allowed \in Nat /\ whole \in BOOLEAN /\ last \in BOOLEAN
      /\ fragment = pending[1]
      /\ last = (fragment.last /\ whole)
      /\ peer' = [peer EXCEPT !.sent[s] = @ + allowed,
                              !.connSent = @ + allowed,
                              !.out[s] = IF last THEN "ended" ELSE @]
      /\ left = IF whole THEN Tail(pending) ELSE [pending EXCEPT ![1].offset = @ + allowed]
      /\ stream' = [stream EXCEPT ![s] = new]
      /\ queue' = Append(queue, item)
      /\ new.end = st.end /\ new.todo = st.todo /\ new.pending = left
      /\ item \in Item /\ item.stream = s /\ item.callback = CallbackOf(fragment, whole)
  BY <1>4, <1>5, <1>6 DEF FlushesOf
<1>8. s \in Live
  BY <1>2 DEF KInv, ToldInv, ToldOf, Bare
<1>9. /\ ~SomeIn(queue, Writes(s)) /\ ~SomeIn(work, Carrying(s)) /\ Len(pending) = 1
      /\ st.end /\ continuation # s
  <2>1. Good(queue, work, st, s, continuation, peer.out[s])
    BY <1>4, <1>8 DEF SInv, EachIsGood
  <2>2. /\ ~SomeIn(queue, Writes(s)) /\ ~SomeIn(work, Carrying(s)) /\ Len(st.pending) <= 1
        /\ st.end /\ continuation # s
    BY <1>2, <1>4, <2>1 DEF Good, DrivenOnce, InTurn, AtRest
  <2>3. PICK n : n = Len(pending)
    OBVIOUS
  <2>4. n \in Nat /\ n # 0 /\ n <= 1
    BY <1>2, <1>4, <1>5, <2>2, <2>3
  <2>5. n = 1
    BY <2>4
  <2>. QED BY <2>2, <2>3, <2>5
<1>10. Told(queue, work, st, s, continuation, peer.out[s])
  BY <1>2, <1>4, <1>8 DEF KInv, ToldInv, ToldOf
<1>11. /\ peer.out[s] = "headers"
       /\ fragment.last /\ fragment.callback = "chunk" => st.todo = <<>>
  <2>1. 1 \in 1..Len(pending)
    BY <1>9
  <2>. QED BY <1>2, <1>4, <1>5, <1>7, <1>10, <2>1 DEF Told
<1>12. /\ whole => left = <<>>
       /\ \A i \in 1..Len(left) : left[i].last = fragment.last /\ left[i].callback = fragment.callback
  BY <1>7, <1>9, LeftEnds, SMTT(20)
<1>13. /\ peer'.out[s] = IF last THEN "ended" ELSE "headers"
       /\ \A x \in StreamId \ {s} : peer'.out[x] = peer.out[x]
  BY <1>2, <1>3, <1>7, <1>11 DEF Peer
<1>14. Stacked(work') /\ \A x : NoCalls(x)
  BY <1>2, StackIsQuiet DEF StackQuiet
<1>15. Live' = Live /\ continuation' = continuation /\ lastStreamId' = lastStreamId
       /\ pushStreamId' = pushStreamId /\ work' = work
  BY <1>2 DEF Live, assembly, ids
<1>16. stream'[s] = new /\ \A x \in StreamId \ {s} : stream'[x] = stream[x]
  BY <1>2, <1>3, <1>7
<1>17. ASSUME NEW x \in StreamId \ {s} PROVE Same(x)
  <2>1. NoWrites(x)
    BY <1>3, <1>7, <1>17, QueueSame DEF NoWrites
  <2>. QED BY <1>13, <1>14, <1>15, <1>16, <2>1 DEF Same, SameOf, Used
<1>18. Told(queue', work', new, s, continuation', peer'.out[s])
  <2>1. SomeIn(queue', ChunkWrites(s)) /\ new.todo # <<>> => ~last
    <3>1. ~SomeIn(queue, ChunkWrites(s))
      BY <1>9, ChunksDrive
    <3>2. item \in ChunkWrites(s) /\ new.todo # <<>> => ~last
      BY <1>7, <1>11 DEF ChunkWrites, CallbackOf
    <3>. QED BY <1>3, <1>7, <3>1, <3>2, InAppended
  <2>2. ~SomeIn(work', ChunkCalls(s)) /\ ~SomeIn(work', Serving(s))
    BY <1>9, <1>15, ChunksDrive
  <2>3. new.pending # <<>> => ~last
    BY <1>7, <1>12
  <2>4. \A i \in 1..Len(new.pending) :
           new.pending[i].last /\ new.pending[i].callback = "chunk" => new.todo = <<>>
    BY <1>7, <1>11, <1>12
  <2>. QED BY <1>7, <1>9, <1>13, <1>15, <2>1, <2>2, <2>3, <2>4 DEF Told
<1>19. ToldOf(s)'
  BY <1>2, <1>8, <1>15, <1>16, <1>18 DEF ToldOf, Used
<1>. QED BY <1>14, <1>17, <1>19, OneTold
-----------------------------------------------------------------------------
(***************************************************************************)
(* The contract with the peer.                                             *)
(***************************************************************************)
\* A session that has just been created has told nothing.
LEMMA InitKInv == Init => KInv
<1>. SUFFICES ASSUME Init PROVE KInv
  OBVIOUS
<1>1. /\ table = <<>> /\ queue = <<>> /\ work = <<>> /\ continuation = 0
      /\ stream = [s \in StreamId |-> Unused] /\ peer.out = [s \in StreamId |-> "idle"]
  BY DEF Init
<1>2. Live = {}
  BY <1>1 DEF Live
<1>3. ASSUME NEW s \in StreamId PROVE ToldOf(s)
  <2>1. ~SomeIn(work, Serving(s))
    BY <1>1 DEF SomeIn
  <2>2. stream[s].pending = <<>> /\ stream[s].todo = <<>>
    BY <1>1 DEF Unused, Fresh
  <2>. QED BY <1>1, <1>2, <2>1, <2>2 DEF ToldOf, Bare
<1>4. Stacked(work)
  BY <1>1 DEF Stacked
<1>. QED BY <1>3, <1>4, InitSInv DEF KInv, ToldInv

\* Every step keeps what the peer is told in order, but for the window update that
\* overflows the window of a stream.
LEMMA NextKInv == KInv /\ [Next /\ ~OverflowsAStream]_vars => KInv'
<1>. SUFFICES ASSUME KInv, [Next /\ ~OverflowsAStream]_vars PROVE KInv'
  OBVIOUS
<1>1. SInv'
  BY NextSInv DEF KInv
<1>2. CASE HandleFrame /\ ~OverflowsAStream
  BY <1>1, <1>2, IdleFramesTold, RefuseDataTold, HandleDataTold, HandleHeadersTold,
     RefuseHeadersTold, HandleContinuationTold, HandleResetTold, HandleSettingsTold,
     HandleWindowUpdateTold, WriteGoawayTold DEF HandleFrame, KInv
<1>3. CASE Server /\ ~HandleFrame
  BY <1>1, <1>3, ServeTold, PushTold, RespondTold, CallsTold, FlushTold, SendChunkTold,
     SettleTold DEF Server, KInv
<1>4. CASE Written \/ Receive \/ PeerCloses
  BY <1>1, <1>4, WrittenTold, ReceiveTold, PeerClosesTold DEF KInv
<1>5. CASE UNCHANGED vars
  <2>1. /\ UNCHANGED <<table, stream, ids, assembly, peer>>
        /\ queue' = queue /\ work' = work
    BY <1>5 DEF vars, session, ids, assembly
  <2>2. ToldInv'
    BY <2>1, IdleTold DEF QueueQuiet, StackQuiet
  <2>. QED BY <1>1, <2>2 DEF KInv
<1>. QED BY <1>2, <1>3, <1>4, <1>5 DEF Next

\* What the peer has been told of one stream.
LEMMA OutOfOne ==
    ASSUME NEW p \in Peer, NEW s \in StreamId, NEW o
    PROVE  /\ [p EXCEPT !.out[s] = o].out = [p.out EXCEPT ![s] = o]
           /\ [p EXCEPT !.out[s] = o].sent = p.sent
           /\ [p EXCEPT !.out[s] = o].granted = p.granted
           /\ [p EXCEPT !.out[s] = o].connSent = p.connSent
           /\ [p EXCEPT !.out[s] = o].connGranted = p.connGranted
  BY DEF Peer

\* A stream is opened or promised.
LEMMA BeginKept ==
    ASSUME peer \in Peer, initialWindow \in Nat, NEW s \in StreamId, peer.out[s] = "idle",
           NEW how \in {"open", "reserved"},
           peer' = [peer EXCEPT !.out[s] = how, !.granted[s] = initialWindow]
    PROVE  Contract!Begin(s, how)
<1>1. /\ peer'.out = [peer.out EXCEPT ![s] = how]
      /\ peer'.granted = [peer.granted EXCEPT ![s] = initialWindow]
      /\ peer'.sent = peer.sent /\ peer'.connSent = peer.connSent
      /\ peer'.connGranted = peer.connGranted
  BY DEF Peer
<1>2. peer.granted \in [StreamId -> Int]
  BY DEF Peer
<1>3. peer'.granted[s] = initialWindow /\ initialWindow >= 0
  BY <1>1, <1>2
<1>. QED BY <1>1, <1>3 DEF Contract!Begin

\* A handler responds on a stream that was opened or promised, and has not responded.
LEMMA RespondKept ==
    ASSUME KInv, Respond
    PROVE  Contract!Next
<1>1. PICK s : s = Top.stream
  OBVIOUS
<1>2. /\ work # <<>> /\ Top \in Serving(s) /\ s \in StreamId
      /\ \E new, item, o : RespondsWith(s, new, item, o)
  BY <1>1, RespondGoesOn DEF KInv
<1>3. PICK o \in {"headers", "ended"} : peer' = [peer EXCEPT !.out[s] = o]
  BY <1>2 DEF RespondsWith
<1>4. peer.out[s] \in {"open", "reserved"}
  BY <1>2, ServedIsLive
<1>5. peer \in Peer
  BY SoundTypes DEF KInv
<1>6. Contract!WriteHead(s, o)
  BY <1>2, <1>3, <1>4, <1>5, OutOfOne DEF Contract!WriteHead
<1>. QED BY <1>2, <1>3, <1>6 DEF Contract!Next

\* A frame of payload stays within what was granted, and follows a head.
LEMMA FlushKept ==
    ASSUME KInv, Flush
    PROVE  Contract!Next
<1>1. PICK s : s = Top.stream
  OBVIOUS
<1>2. /\ s \in StreamId /\ stream[s].pending # <<>>
      /\ \E fragment, allowed, whole, last, left, new, item :
            FlushesOf(s, fragment, allowed, whole, last, left, new, item)
  BY <1>1, FlushGoesOn DEF KInv
<1>3. PICK n \in Nat, last \in BOOLEAN :
         /\ n <= sendWindow /\ n <= stream[s].sendWindow
         /\ peer' = [peer EXCEPT !.sent[s] = @ + n,
                                 !.connSent = @ + n,
                                 !.out[s] = IF last THEN "ended" ELSE @]
  <2>1. PICK fragment, n, whole, last, left, new, item :
           FlushesOf(s, fragment, n, whole, last, left, new, item)
    BY <1>2
  <2>2. /\ n \in Nat /\ last \in BOOLEAN
        /\ n <= sendWindow /\ n <= stream[s].sendWindow
        /\ peer' = [peer EXCEPT !.sent[s] = @ + n,
                                !.connSent = @ + n,
                                !.out[s] = IF last THEN "ended" ELSE @]
    BY <2>1 DEF FlushesOf
  <2>. QED BY <2>2
<1>4. s \in Live
  BY <1>2 DEF KInv, ToldInv, ToldOf, Bare
<1>5. peer.out[s] = "headers"
  BY <1>2, <1>4 DEF KInv, ToldInv, ToldOf, Told
<1>6. /\ sendWindow = peer.connGranted - peer.connSent
      /\ stream[s].sendWindow = peer.granted[s] - peer.sent[s]
  BY <1>4 DEF KInv, SInv, IInv, WindowsAgree
<1>7. peer \in Peer
  BY SoundTypes DEF KInv
<1>8. PICK sent, connSent, out, o :
         /\ sent = peer.sent /\ connSent = peer.connSent /\ out = peer.out
         /\ o = IF last THEN "ended" ELSE out[s]
  OBVIOUS
<1>9. /\ peer.sent \in [StreamId -> Nat] /\ peer.granted \in [StreamId -> Int]
      /\ peer.connSent \in Nat /\ peer.connGranted \in Nat
      /\ peer.out \in [StreamId -> {"idle", "open", "reserved", "headers", "ended", "reset"}]
  BY <1>7 DEF Peer
<1>10. /\ peer'.sent = [peer.sent EXCEPT ![s] = @ + n]
       /\ peer'.connSent = peer.connSent + n
       /\ peer'.out = [peer.out EXCEPT ![s] = o]
       /\ peer'.granted = peer.granted /\ peer'.connGranted = peer.connGranted
  BY <1>3, <1>7, <1>8 DEF Peer
<1>11. peer'.out = peer.out \/ peer'.out = [peer.out EXCEPT ![s] = "ended"]
  BY <1>2, <1>8, <1>9, <1>10
<1>12. PICK m : m = peer'.connSent - peer.connSent
  OBVIOUS
<1>13. m = n
  BY <1>9, <1>10, <1>12
<1>14. n >= 0 /\ peer.sent[s] + n <= peer.granted[s] /\ peer.connSent + n <= peer.connGranted
  BY <1>2, <1>3, <1>6, <1>9
<1>15. Contract!WriteData(s)
  BY <1>5, <1>10, <1>11, <1>12, <1>13, <1>14 DEF Contract!WriteData
<1>. QED BY <1>2, <1>15 DEF Contract!Next

\* Nothing was told of a stream that was never opened, and something of one that is held.
LEMMA IdleOrNot ==
    ASSUME KInv, NEW s \in StreamId
    PROVE  /\ ~Used(s) => peer.out[s] = "idle"
           /\ s \in Live => peer.out[s] # "idle"
  BY DEF KInv, ToldInv, ToldOf, Told

\* New settings move the credit of the streams that are held.
LEMMA HandleSettingsKept ==
    ASSUME KInv, KInv', HandleSettings
    PROVE  Contract!Next
<1>. DEFINE difference == Head(buffer).size - initialWindow
            overflows == {i \in 1..Len(table) : difference > 0 /\
                            stream[table[i]].sendWindow > MaxWindow - difference}
            moved == {table[i] : i \in {j \in 1..Len(table) : \A k \in overflows : j < k}}
<1>1. peer' = [peer EXCEPT !.granted = [s \in StreamId |->
                  IF s \in moved THEN @[s] + difference ELSE @[s]]]
  BY DEF HandleSettings
<1>2. moved \subseteq Live
  BY DEF Live
<1>3. peer \in Peer /\ peer' \in Peer
  BY SoundTypes DEF KInv, SInv, IInv, TypeOK
<1>. HIDE DEF difference, overflows, moved
<1>4. /\ peer'.granted = [s \in StreamId |-> IF s \in moved THEN peer.granted[s] + difference
                                             ELSE peer.granted[s]]
      /\ peer'.out = peer.out /\ peer'.sent = peer.sent /\ peer'.connSent = peer.connSent
      /\ peer'.connGranted = peer.connGranted
  BY <1>1, <1>3 DEF Peer
<1>5. ASSUME NEW s \in StreamId, peer.out[s] = "idle" PROVE peer'.granted[s] = peer.granted[s]
  <2>1. s \notin moved
    BY <1>2, <1>5, IdleOrNot
  <2>. QED BY <1>4, <2>1
<1>6. /\ peer'.granted \in [StreamId -> Int] /\ peer.connGranted \in Nat
  BY <1>3 DEF Peer
<1>7. Contract!Grant
  BY <1>4, <1>5, <1>6 DEF Contract!Grant
<1>. QED BY <1>7 DEF Contract!Next

\* A window update gives credit to the connection, to a stream that is held, or to nobody.
LEMMA HandleWindowUpdateKept ==
    ASSUME KInv, KInv', HandleWindowUpdate, ~OverflowsAStream
    PROVE  Contract!Next \/ peer' = peer
<1>1. PICK f, s : f = Head(buffer) /\ s = f.stream
  OBVIOUS
<1>2. work # <<>> /\ buffer # <<>>
  BY DEF HandleWindowUpdate, Taking, Running
<1>3. f.size \in Nat
  BY <1>1, <1>2, SoundTypes, TakingType DEF KInv, Frame
<1>4. \/ peer' = [peer EXCEPT !.connGranted = @ + f.size]
      \/ s \in Live /\ peer' = [peer EXCEPT !.granted[s] = @ + f.size]
      \/ peer' = peer
  BY <1>1 DEF HandleWindowUpdate, OverflowsAStream
<1>5. peer \in Peer /\ peer' \in Peer /\ Live \subseteq StreamId
  BY SoundTypes DEF KInv, SInv, IInv, TypeOK
<1>6. /\ peer'.granted \in [StreamId -> Int] /\ peer.granted \in [StreamId -> Int]
      /\ peer.connGranted \in Nat /\ peer'.connGranted \in Nat
  BY <1>5 DEF Peer
<1>7. CASE peer' = [peer EXCEPT !.connGranted = @ + f.size]
  <2>1. /\ peer'.connGranted = peer.connGranted + f.size /\ peer'.granted = peer.granted
        /\ peer'.out = peer.out /\ peer'.sent = peer.sent /\ peer'.connSent = peer.connSent
    BY <1>5, <1>7 DEF Peer
  <2>2. peer'.connGranted >= peer.connGranted
    BY <1>3, <1>6, <2>1
  <2>3. Contract!Grant
    BY <1>6, <2>1, <2>2 DEF Contract!Grant
  <2>. QED BY <2>3 DEF Contract!Next
<1>8. CASE s \in Live /\ peer' = [peer EXCEPT !.granted[s] = @ + f.size]
  <2>1. /\ peer'.connGranted = peer.connGranted
        /\ peer'.granted = [peer.granted EXCEPT ![s] = @ + f.size]
        /\ peer'.out = peer.out /\ peer'.sent = peer.sent /\ peer'.connSent = peer.connSent
    BY <1>5, <1>8 DEF Peer
  <2>2. ASSUME NEW x \in StreamId, peer.out[x] = "idle" PROVE peer'.granted[x] = peer.granted[x]
    <3>1. x # s
      BY <1>5, <1>8, <2>2, IdleOrNot
    <3>. QED BY <1>6, <2>1, <3>1
  <2>3. Contract!Grant
    BY <1>6, <2>1, <2>2 DEF Contract!Grant
  <2>. QED BY <2>3 DEF Contract!Next
<1>. QED BY <1>4, <1>7, <1>8

\* The peer takes a stream back.
LEMMA HandleResetKept ==
    ASSUME KInv, HandleReset
    PROVE  Contract!Next \/ peer' = peer
<1>1. PICK s : s = Head(buffer).stream
  OBVIOUS
<1>2. peer' = peer \/ (s \in Live /\ peer' = [peer EXCEPT !.out[s] = "reset"])
  BY <1>1 DEF HandleReset
<1>3. peer \in Peer /\ Live \subseteq StreamId
  BY SoundTypes DEF KInv
<1>4. CASE s \in Live /\ peer' = [peer EXCEPT !.out[s] = "reset"]
  <2>1. s \in StreamId /\ peer.out[s] # "idle"
    BY <1>3, <1>4, IdleOrNot
  <2>2. Contract!Reset(s)
    BY <1>3, <1>4, <2>1, OutOfOne DEF Contract!Reset
  <2>. QED BY <2>1, <2>2 DEF Contract!Next
<1>. QED BY <1>2, <1>4

\* The peer opens a stream.
LEMMA HandleHeadersKept ==
    ASSUME KInv, HandleHeaders
    PROVE  Contract!Next \/ peer' = peer
<1>1. PICK s : s = Head(buffer).stream
  OBVIOUS
<1>2. /\ s \in StreamId /\ s \in Nat
      /\ s \notin Live =>
            /\ s % 2 # 0 /\ s > lastStreamId /\ lastStreamId \in Nat
            /\ peer' = [peer EXCEPT !.out[s] = "open", !.granted[s] = initialWindow]
      /\ s \in Live => peer' = peer
  BY <1>1, HeadersGoOn DEF KInv
<1>3. CASE s \notin Live
  <2>1. ~Used(s)
    BY <1>2, <1>3 DEF Used, UsedBy
  <2>2. peer.out[s] = "idle"
    BY <1>2, <2>1, IdleOrNot
  <2>3. peer \in Peer /\ initialWindow \in Nat
    BY SoundTypes DEF KInv, SInv, IInv, TypeOK
  <2>4. Contract!Begin(s, "open")
    BY <1>2, <1>3, <2>2, <2>3, BeginKept
  <2>. QED BY <1>2, <2>4 DEF Contract!Next
<1>. QED BY <1>2, <1>3

\* A stream is promised.
LEMMA PushKept ==
    ASSUME KInv, Push
    PROVE  Contract!Next \/ peer' = peer
<1>1. PICK p : p = pushStreamId + 2
  OBVIOUS
<1>2. \/ p \in StreamId /\ peer' = [peer EXCEPT !.out[p] = "reserved", !.granted[p] = initialWindow]
      \/ peer' = peer
  BY <1>1 DEF Push
<1>3. CASE p \in StreamId
           /\ peer' = [peer EXCEPT !.out[p] = "reserved", !.granted[p] = initialWindow]
  <2>1. ~Used(p)
    <3>1. TypeOK /\ PushEven
      BY SoundTypes DEF IInv, KInv
    <3>2. pushStreamId \in Nat /\ pushStreamId % 2 = 0
      BY <3>1 DEF TypeOK, PushEven
    <3>3. p \in Nat /\ p % 2 = 0 /\ p > pushStreamId
      BY <1>1, <3>2
    <3>. QED BY <3>2, <3>3 DEF Used, UsedBy
  <2>2. peer.out[p] = "idle"
    BY <1>3, <2>1, IdleOrNot
  <2>3. peer \in Peer /\ initialWindow \in Nat
    BY SoundTypes DEF KInv, SInv, IInv, TypeOK
  <2>4. Contract!Begin(p, "reserved")
    BY <1>3, <2>2, <2>3, BeginKept
  <2>. QED BY <1>3, <2>4 DEF Contract!Next
<1>. QED BY <1>2, <1>3

\* Any other step tells the peer nothing that the contract is about.
LEMMA StepKept ==
    ASSUME KInv, KInv', [Next /\ ~OverflowsAStream]_vars
    PROVE  [Contract!Next]_(Contract!contract)
<1>1. SUFFICES ASSUME peer' # peer PROVE Contract!Next
  BY DEF Contract!contract
<1>2. \/ HandleHeaders \/ HandleReset \/ HandleSettings
      \/ HandleWindowUpdate /\ ~OverflowsAStream
      \/ Push \/ Respond \/ Flush
  <2>1. CASE HandleFrame /\ ~OverflowsAStream
    BY <1>1, <2>1 DEF HandleFrame, HandleViolation, HandleOversized, RefuseData, HandleData,
       RefuseHeaders, HandleContinuation, HandlePriority, HandlePing, HandleGoaway, EndFrames,
       WriteGoaway
  <2>2. CASE Server /\ ~HandleFrame
    BY <1>1, <2>2 DEF Server, Serve, Schedule, EndFlush, SendChunk, Cleanup, Release, Settle
  <2>3. CASE Written \/ Receive \/ PeerCloses \/ UNCHANGED vars
    BY <1>1, <2>3 DEF Written, Receive, Deliver, PeerCloses, vars
  <2>. QED BY <2>1, <2>2, <2>3 DEF Next
<1>. QED BY <1>1, <1>2, HandleHeadersKept, HandleResetKept, HandleSettingsKept,
            HandleWindowUpdateKept, PushKept, RespondKept, FlushKept

\* The session keeps what it promises to its peer, whatever frames, completions, promises
\* and errors come in between: a head before any payload and nothing after the end or after
\* a reset, on streams that were opened or promised only, and no payload ahead of the credit
\* of the stream or of the connection (write_flush, write_end, _flush, close_stream).  Left
\* out is the window update that overflows the window of a stream, after which the code goes
\* on sending on a stream that it has reset.
THEOREM TheContractIsKept == Spec /\ [][~OverflowsAStream]_vars => KeepsContract
<1>1. Init => Contract!Init
  BY DEF Init, Contract!Init
<1>2. KInv /\ KInv' /\ [Next /\ ~OverflowsAStream]_vars => [Contract!Next]_(Contract!contract)
  BY StepKept
<1>3. [Next]_vars /\ [~OverflowsAStream]_vars => [Next /\ ~OverflowsAStream]_vars
  OBVIOUS
<1>. QED BY <1>1, <1>2, <1>3, InitKInv, NextKInv, PTL DEF Spec, KeepsContract, Contract!Spec
-----------------------------------------------------------------------------
(***************************************************************************)
(* What is served.                                                         *)
(***************************************************************************)
\* A block of headers that ends a message which has announced another size than the one of
\* the payload that came: the only end of a message where the code does not compare the two
\* (stream_http2.c).
EndsUncompared ==
    /\ HandleHeaders \/ HandleContinuation
    /\ work' # <<>> /\ Head(work').op = "serve"
    /\ LET st == stream'[Head(work').stream] IN st.announced /\ st.received # st.length

\* A message is served as soon as it is over: the call is never under another one, and its
\* payload is still what it announced.
MessageCalls == {call \in Call : call.op = "serve"}
ServesAtOnce == \A i \in 1..Len(work) : work[i].op = "serve" => i = 1
ServedSound == ServesAtOnce /\ ServedAsAnnounced

\* A step after which nothing is to be served.
LEMMA NothingToServe ==
    ASSUME work' \in Seq(Call), ~SomeIn(work', MessageCalls)
    PROVE  ServedSound'
<1>1. ASSUME NEW i \in 1..Len(work') PROVE work'[i].op # "serve"
  BY <1>1 DEF SomeIn, MessageCalls
<1>. QED BY <1>1 DEF ServedSound, ServesAtOnce, ServedAsAnnounced

\* Below the top of the stack nothing is, and at the top only if the top serves.
LEMMA NothingBelowServes ==
    ASSUME work \in Seq(Call), work # <<>>, ServesAtOnce
    PROVE  /\ Tail(work) \in Seq(Call) /\ ~SomeIn(Tail(work), MessageCalls)
           /\ Top.op # "serve" => ~SomeIn(work, MessageCalls)
<1>1. PICK n, t : n = Len(work) /\ t = Tail(work)
  OBVIOUS
<1>2. /\ n \in Nat /\ t \in Seq(Call) /\ Len(t) = n - 1 /\ Top = work[1]
      /\ \A i \in 1..n - 1 : i + 1 \in 1..n /\ t[i] = work[i + 1]
  BY <1>1 DEF Top
<1>3. ASSUME NEW i \in 1..n - 1 PROVE t[i].op # "serve"
  <2>1. i + 1 # 1
    OBVIOUS
  <2>. QED BY <1>1, <1>2, <2>1 DEF ServesAtOnce
<1>4. ASSUME Top.op # "serve", NEW i \in 1..n PROVE work[i].op # "serve"
  BY <1>1, <1>2, <1>4 DEF ServesAtOnce
<1>. QED BY <1>1, <1>2, <1>3, <1>4 DEF SomeIn, MessageCalls

\* One call that does not serve.
LEMMA OneUnserving ==
    ASSUME NEW call \in Call, call.op # "serve"
    PROVE  <<call>> \in Seq(Call) /\ ~SomeIn(<<call>>, MessageCalls)
<1>1. PICK calls : calls = <<call>>
  OBVIOUS
<1>2. calls \in Seq(Call) /\ \A i \in 1..Len(calls) : calls[i] = call
  BY <1>1
<1>. QED BY <1>1, <1>2 DEF SomeIn, MessageCalls

\* A step that calls nothing that serves.
UnservingStep ==
    \/ work' = work
    \/ Return
    \/ \E calls \in Seq(Call) :
          ~SomeIn(calls, MessageCalls) /\ (Becomes(calls) \/ Calls(calls))

LEMMA UnservingSound ==
    ASSUME work \in Seq(Call), work # <<>>, ServesAtOnce, work' \in Seq(Call),
           \/ Top.op # "serve" /\ UnservingStep
           \/ \E calls \in Seq(Call) : ~SomeIn(calls, MessageCalls) /\ Becomes(calls)
    PROVE  ServedSound'
<1>1. Tail(work) \in Seq(Call) /\ ~SomeIn(Tail(work), MessageCalls)
  BY NothingBelowServes
<1>2. Top.op # "serve" => ~SomeIn(work, MessageCalls)
  BY NothingBelowServes
<1>3. ASSUME NEW calls \in Seq(Call), ~SomeIn(calls, MessageCalls)
      PROVE  /\ ~SomeIn(calls \o Tail(work), MessageCalls)
             /\ Top.op # "serve" => ~SomeIn(calls \o work, MessageCalls)
  <2>1. SomeIn(calls \o Tail(work), MessageCalls)
           <=> SomeIn(calls, MessageCalls) \/ SomeIn(Tail(work), MessageCalls)
    BY <1>1, InJoined
  <2>2. SomeIn(calls \o work, MessageCalls)
           <=> SomeIn(calls, MessageCalls) \/ SomeIn(work, MessageCalls)
    BY InJoined
  <2>. QED BY <1>1, <1>2, <1>3, <2>1, <2>2
<1>4. ~SomeIn(work', MessageCalls)
  BY <1>1, <1>2, <1>3 DEF UnservingStep, Return, Becomes, Calls
<1>. QED BY <1>4, NothingToServe

\* A step that has the message of s served, which is what it announced.
LEMMA ServingSound ==
    ASSUME work \in Seq(Call), work # <<>>, Top.op # "serve", ServesAtOnce, NEW s \in StreamId,
           Becomes(<<Do("serve", s)>>) \/ Calls(<<Do("serve", s)>>),
           stream'[s].announced => stream'[s].received = stream'[s].length
    PROVE  ServedSound'
<1>1. PICK call : call = Do("serve", s)
  OBVIOUS
<1>2. call \in Call /\ call.op = "serve" /\ call.stream = s
  BY <1>1, DoType DEF Do
<1>3. PICK rest \in Seq(Call) : work' = <<call>> \o rest /\ ~SomeIn(rest, MessageCalls)
  BY <1>1, NothingBelowServes DEF Becomes, Calls
<1>4. PICK n : n = Len(rest)
  OBVIOUS
<1>5. /\ n \in Nat /\ Len(work') = n + 1 /\ work'[1] = call
      /\ \A i \in 2..n + 1 : work'[i] = rest[i - 1] /\ i - 1 \in 1..n
  BY <1>2, <1>3, <1>4
<1>6. ASSUME NEW i \in 1..n + 1, work'[i].op = "serve" PROVE i = 1
  <2>1. SUFFICES ASSUME i # 1 PROVE FALSE
    OBVIOUS
  <2>2. i \in 2..n + 1
    BY <1>5, <2>1
  <2>3. rest[i - 1].op # "serve"
    BY <1>3, <1>4, <1>5, <2>2 DEF SomeIn, MessageCalls
  <2>. QED BY <1>5, <1>6, <2>2, <2>3
<1>. QED BY <1>2, <1>5, <1>6 DEF ServedSound, ServesAtOnce, ServedAsAnnounced

\* The calls that the steps of the session make beside it.
LEMMA CallsUnserving ==
    ASSUME ConnectionError \/ (Calls(<<>>) /\ work \in Seq(Call)) \/ Calls(<<Do("schedule", 0)>>)
             \/ Becomes(<<Do("schedule", 0)>>) \/ work' = work \/ Return
             \/ (\E call \in Call : call.op # "serve" /\ Becomes(<<call>>))
    PROVE  UnservingStep
<1>1. /\ Do("goaway", 0) \in Call /\ Do("goaway", 0).op # "serve"
      /\ Do("schedule", 0) \in Call /\ Do("schedule", 0).op # "serve"
  BY DoType DEF Do
<1>2. CASE Calls(<<>>) /\ work \in Seq(Call)
  BY <1>2 DEF Calls, UnservingStep
<1>3. CASE Calls(<<Do("schedule", 0)>>) \/ Becomes(<<Do("schedule", 0)>>)
  BY <1>1, <1>3, OneUnserving DEF UnservingStep
<1>4. CASE ConnectionError
  BY <1>1, <1>4, OneUnserving DEF UnservingStep, ConnectionError
<1>5. CASE \E call \in Call : call.op # "serve" /\ Becomes(<<call>>)
  BY <1>5, OneUnserving DEF UnservingStep
<1>. QED BY <1>2, <1>3, <1>4, <1>5 DEF UnservingStep

\* The frames that have no message served.
LEMMA FramesServed ==
    ASSUME SInv, SInv', ServedSound,
           HandleViolation \/ HandleOversized \/ RefuseData \/ RefuseHeaders \/ HandlePriority
             \/ HandleReset \/ HandleSettings \/ HandlePing \/ HandleGoaway
             \/ HandleWindowUpdate \/ EndFrames
    PROVE  ServedSound'
<1>1. /\ work # <<>> /\ Top.op = "frames"
      /\ ConnectionError \/ work' = work \/ Return \/ Calls(<<Do("schedule", 0)>>)
  BY DEF HandleViolation, HandleOversized, RefuseData, RefuseHeaders, HandlePriority,
         HandleReset, HandleSettings, HandlePing, HandleGoaway, HandleWindowUpdate,
         EndFrames, Taking, Running
<1>2. UnservingStep
  BY <1>1, CallsUnserving
<1>3. work \in Seq(Call) /\ work' \in Seq(Call)
  BY SoundTypes DEF SInv, IInv, TypeOK
<1>. QED BY <1>1, <1>2, <1>3, UnservingSound DEF ServedSound

\* The calls that serve nothing themselves.
LEMMA CallsServed ==
    ASSUME SInv, SInv', ServedSound,
           WriteGoaway \/ Respond \/ Schedule \/ Flush \/ EndFlush \/ SendChunk \/ Cleanup
             \/ Release \/ Settle
    PROVE  ServedSound'
<1>1. work \in Seq(Call) /\ work' \in Seq(Call)
  BY SoundTypes DEF SInv, IInv, TypeOK
<1>2. work # <<>> /\ Top.op # "serve"
  BY DEF WriteGoaway, Respond, Schedule, Flush, EndFlush, SendChunk, Cleanup, Release, Settle,
         Running
<1>3. Top \in Call
  BY <1>2, SoundTypes, TopType
<1>4. CASE WriteGoaway \/ Respond \/ Flush
  <2>1. Return \/ work' = work \/ Becomes(<<Do("schedule", 0)>>)
    BY <1>4 DEF WriteGoaway, Respond, Flush
  <2>. QED BY <1>1, <1>2, <2>1, CallsUnserving, UnservingSound DEF ServedSound
<1>5. CASE Schedule
  <2>1. CASE Return
    BY <1>1, <1>2, <2>1, CallsUnserving, UnservingSound DEF ServedSound
  <2>2. CASE \E i \in Writable : Becomes(<<[Top EXCEPT
                       !.op = "flush", !.stream = table[i],
                       !.count = Len(stream[table[i]].pending)]>>)
    <3>1. PICK i \in Writable : Becomes(<<[Top EXCEPT
                       !.op = "flush", !.stream = table[i],
                       !.count = Len(stream[table[i]].pending)]>>)
      BY <2>2
    <3>2. table[i] \in StreamId /\ stream[table[i]] \in Stream
      BY SoundTypes DEF Writable
    <3>3. Len(stream[table[i]].pending) \in Nat
      BY <3>2 DEF Stream
    <3>4. PICK call : call = [Top EXCEPT !.op = "flush", !.stream = table[i],
                                         !.count = Len(stream[table[i]].pending)]
      OBVIOUS
    <3>5. call \in Call /\ call.op # "serve"
      BY <1>3, <3>2, <3>3, <3>4 DEF Call
    <3>6. Becomes(<<call>>)
      BY <3>1, <3>4
    <3>7. UnservingStep
      BY <3>5, <3>6, CallsUnserving
    <3>. QED BY <1>1, <1>2, <3>7, UnservingSound DEF ServedSound
  <2>. QED BY <1>5, <2>1, <2>2 DEF Schedule
<1>6. CASE EndFlush
  <2>1. CASE Return
    BY <1>1, <1>2, <2>1, CallsUnserving, UnservingSound DEF ServedSound
  <2>2. CASE Becomes(<<[Do("schedule", 0) EXCEPT !.round = Top.round + 1]>>)
    <3>1. PICK call : call = [Do("schedule", 0) EXCEPT !.round = Top.round + 1]
      OBVIOUS
    <3>2. Top.round \in Nat
      BY <1>3 DEF Call
    <3>3. call \in Call /\ call.op # "serve"
      BY <3>1, <3>2 DEF Call, Do, Callback
    <3>4. Becomes(<<call>>)
      BY <2>2, <3>1
    <3>5. UnservingStep
      BY <3>3, <3>4, CallsUnserving
    <3>. QED BY <1>1, <1>2, <3>5, UnservingSound DEF ServedSound
  <2>. QED BY <1>6, <2>1, <2>2 DEF EndFlush
<1>7. CASE SendChunk \/ Cleanup \/ Release
  <2>1. \/ Return \/ Becomes(<<Do("schedule", 0)>>) \/ Becomes(<<Do("release", Top.stream)>>)
        \/ Becomes(<<Do("frames", 0)>>) \/ Becomes(<<>>)
    BY <1>7 DEF SendChunk, Cleanup, Release
  <2>2. Top.stream \in StreamId \cup {0}
    BY <1>3 DEF Call
  <2>3. /\ Do("release", Top.stream) \in Call /\ Do("release", Top.stream).op # "serve"
        /\ Do("frames", 0) \in Call /\ Do("frames", 0).op # "serve"
    BY <2>2, DoType DEF Do
  <2>4. CASE Becomes(<<>>)
    <3>1. Return
      BY <1>1, <1>2, <2>4 DEF Becomes, Return
    <3>. QED BY <1>1, <1>2, <3>1, CallsUnserving, UnservingSound DEF ServedSound
  <2>5. CASE Becomes(<<Do("release", Top.stream)>>) \/ Becomes(<<Do("frames", 0)>>)
    <3>1. UnservingStep
      BY <2>3, <2>5, CallsUnserving
    <3>. QED BY <1>1, <1>2, <3>1, UnservingSound DEF ServedSound
  <2>6. CASE Return \/ Becomes(<<Do("schedule", 0)>>)
    BY <1>1, <1>2, <2>6, CallsUnserving, UnservingSound DEF ServedSound
  <2>. QED BY <2>1, <2>4, <2>5, <2>6
<1>8. CASE Settle
  <2>1. Return \/ work' = <<>>
    BY <1>8 DEF Settle
  <2>2. CASE work' = <<>>
    BY <2>2 DEF ServedSound, ServesAtOnce, ServedAsAnnounced
  <2>. QED BY <1>1, <1>2, <2>1, <2>2, CallsUnserving, UnservingSound DEF ServedSound
<1>. QED BY <1>4, <1>5, <1>6, <1>7, <1>8

\* A frame of payload that ends a message has it served only if nothing of it is missing.
LEMMA HandleDataServed ==
    ASSUME SInv, SInv', ServedSound, HandleData
    PROVE  ServedSound'
<1>1. PICK f : f = Head(buffer)
  OBVIOUS
<1>2. PICK s : s = f.stream
  OBVIOUS
<1>3. /\ work # <<>> /\ Top.op = "frames" /\ buffer # <<>> /\ f.type = "DATA"
  BY <1>1 DEF HandleData, Taking, Running
<1>4. f \in Frame /\ s \in StreamId
  BY <1>1, <1>2, <1>3, SoundTypes, TakingType, FrameAssumption
<1>5. PICK st \in Stream : st = stream[s]
  BY <1>4, SoundTypes
<1>6. work \in Seq(Call) /\ work' \in Seq(Call) /\ stream \in [StreamId -> Stream]
  BY SoundTypes DEF SInv, IInv, TypeOK
<1>7. PICK received : received = stream[s].received + f.size
  OBVIOUS
<1>8. \/ ConnectionError \/ Calls(<<>>)
      \/ Calls(<<Do("serve", s)>>) /\ Matches(st, received)
  BY <1>1, <1>2, <1>5, <1>7 DEF HandleData
<1>9. CASE Calls(<<Do("serve", s)>>) /\ Matches(st, received)
  <2>. DEFINE new == [st EXCEPT !.received = received, !.end = @ \/ f.end,
                                !.state = IF f.end THEN "HALF_CLOSED_REMOTE" ELSE @]
  <2>1. stream' = [stream EXCEPT ![s] = new]
    BY <1>1, <1>2, <1>5, <1>7 DEF HandleData
  <2>2. new.received = received /\ new.announced = st.announced /\ new.length = st.length
    BY DEF Stream
  <2>. HIDE DEF new
  <2>3. stream'[s] = new
    BY <1>4, <1>6, <2>1
  <2>4. stream'[s].announced => stream'[s].received = stream'[s].length
    BY <1>9, <2>2, <2>3 DEF Matches
  <2>. QED BY <1>3, <1>4, <1>6, <1>9, <2>4, ServingSound DEF ServedSound
<1>10. CASE ConnectionError \/ Calls(<<>>)
  BY <1>3, <1>6, <1>10, CallsUnserving, UnservingSound DEF ServedSound
<1>. QED BY <1>8, <1>9, <1>10

\* A block of headers that ends a message has it served, here with what it announced.
LEMMA BlockServed ==
    ASSUME SInv, SInv', ServedSound, HandleHeaders \/ HandleContinuation, ~EndsUncompared
    PROVE  ServedSound'
<1>1. work # <<>> /\ Top.op = "frames" /\ buffer # <<>>
  BY DEF HandleHeaders, HandleContinuation, Taking, Running
<1>2. work \in Seq(Call) /\ work' \in Seq(Call) /\ Head(buffer) \in Frame
  BY <1>1, SoundTypes, TakingType, FrameAssumption DEF SInv, IInv, TypeOK
<1>3. PICK s \in StreamId :
         ConnectionError \/ work' = work \/ Calls(<<>>) \/ Calls(<<Do("serve", s)>>)
  <2>1. CASE HandleHeaders
    <3>1. PICK s : s = Head(buffer).stream
      OBVIOUS
    <3>2. s \in StreamId
      BY <2>1, <3>1, HeadersGoOn
    <3>. QED BY <2>1, <3>1, <3>2 DEF HandleHeaders, EndBlock, KeepBlock
  <2>2. CASE HandleContinuation
    <3>1. PICK s : s = continuation
      OBVIOUS
    <3>2. s \in StreamId
      BY <2>2, <3>1, SoundTypes DEF HandleContinuation, Violates, Taking, TypeOK
    <3>. QED BY <2>2, <3>1, <3>2 DEF HandleContinuation, EndBlock
  <2>. QED BY <2>1, <2>2
<1>4. CASE Calls(<<Do("serve", s)>>)
  <2>1. PICK call : call = Do("serve", s)
    OBVIOUS
  <2>2. call \in Call /\ call.op = "serve" /\ call.stream = s
    BY <2>1, DoType DEF Do
  <2>3. work' # <<>> /\ Head(work') = call
    BY <1>2, <1>4, <2>1, <2>2 DEF Calls
  <2>4. stream'[s].announced => stream'[s].received = stream'[s].length
    BY <2>2, <2>3 DEF EndsUncompared
  <2>. QED BY <1>1, <1>2, <1>4, <2>4, ServingSound DEF ServedSound
<1>5. CASE ConnectionError \/ work' = work \/ Calls(<<>>)
  BY <1>1, <1>2, <1>5, CallsUnserving, UnservingSound DEF ServedSound
<1>. QED BY <1>3, <1>4, <1>5

\* A handler that takes a message leaves nothing to serve below it.
LEMMA ServeServed ==
    ASSUME SInv, SInv', ServedSound, Serve
    PROVE  ServedSound'
<1>1. work \in Seq(Call) /\ work' \in Seq(Call) /\ work # <<>>
  BY SoundTypes DEF SInv, IInv, TypeOK, Serve, Running
<1>2. PICK s : s = Top.stream
  OBVIOUS
<1>3. Top.op = "serve" /\ s \in StreamId
  BY <1>1, <1>2, SoundTypes, TopType DEF StreamOp, Serve, Running
<1>4. PICK r \in Responses : Becomes([i \in 1..r.push |-> Do("push", s)] \o <<Do("respond", s)>>)
  BY <1>2 DEF Serve
<1>5. PICK n \in Nat : n = r.push
  BY ResponseAssumption DEF Response
<1>6. PICK calls : calls = [i \in 1..n |-> Do("push", s)] \o <<Do("respond", s)>>
  OBVIOUS
<1>7. calls \in Seq(Call) /\ \A i \in 1..Len(calls) : calls[i].op \in {"push", "respond"}
  BY <1>3, <1>6, ServeCalls
<1>8. ~SomeIn(calls, MessageCalls) /\ Becomes(calls)
  BY <1>4, <1>5, <1>6, <1>7 DEF SomeIn, MessageCalls
<1>. QED BY <1>1, <1>7, <1>8, UnservingSound DEF ServedSound

\* A stream that is promised is served with nothing announced.
LEMMA PushServed ==
    ASSUME SInv, SInv', ServedSound, Push
    PROVE  ServedSound'
<1>1. work \in Seq(Call) /\ work' \in Seq(Call) /\ work # <<>> /\ Top.op # "serve"
      /\ stream \in [StreamId -> Stream]
  BY SoundTypes DEF SInv, IInv, TypeOK, Push, Running
<1>2. CASE Return
  BY <1>1, <1>2, CallsUnserving, UnservingSound DEF ServedSound
<1>3. CASE ~Return
  <2>1. PICK p \in StreamId :
           /\ stream' = [stream EXCEPT ![p] =
                 [Fresh("RESERVED_LOCAL", initialWindow) EXCEPT
                     !.end = TRUE, !.headersComplete = TRUE]]
           /\ Becomes(<<Do("serve", p)>>)
    BY <1>3 DEF Push
  <2>2. ~stream'[p].announced
    BY <1>1, <2>1 DEF Fresh
  <2>. QED BY <1>1, <2>1, <2>2, ServingSound DEF ServedSound
<1>. QED BY <1>2, <1>3

\* Between two events nothing is to be served, and an event only enters the loop of the
\* frames or the callback of a write.
LEMMA EventsServed ==
    ASSUME SInv, SInv', Written \/ Receive \/ PeerCloses
    PROVE  ServedSound'
<1>1. work = <<>> /\ work' \in Seq(Call)
  BY SoundTypes DEF SInv, IInv, TypeOK, Written, Receive, Deliver, PeerCloses
<1>2. CASE work' = work
  BY <1>1, <1>2 DEF ServedSound, ServesAtOnce, ServedAsAnnounced
<1>3. CASE Receive
  <2>1. PICK call : call = Do("frames", 0)
    OBVIOUS
  <2>2. call \in Call /\ call.op # "serve" /\ work' = <<call>>
    BY <1>3, <2>1, DoType DEF Do, Receive, Deliver
  <2>. QED BY <1>1, <2>2, OneUnserving, NothingToServe
<1>4. CASE Written /\ work' # work
  <2>1. PICK a, b : /\ work' = <<a, b>>
                    /\ a.op = "callback" /\ b.op = "settle"
    <3>1. PICK a, b : /\ a = [Do("callback", Head(queue).stream) EXCEPT
                                 !.callback = Head(queue).callback]
                      /\ b = [Do("settle", Head(queue).stream) EXCEPT
                                 !.slot = Slot(Head(queue).stream)]
      OBVIOUS
    <3>2. work' = <<a, b>>
      BY <1>4, <3>1 DEF Written
    <3>3. a.op = "callback" /\ b.op = "settle"
      BY <3>1 DEF Do
    <3>. QED BY <3>2, <3>3
  <2>2. PICK calls : calls = <<a, b>>
    OBVIOUS
  <2>3. 1..2 = {1, 2} /\ Len(calls) = 2 /\ calls[1] = a /\ calls[2] = b /\ work' = calls
    BY <2>1, <2>2
  <2>4. ~SomeIn(work', MessageCalls)
    BY <2>1, <2>3 DEF SomeIn, MessageCalls
  <2>. QED BY <1>1, <2>4, NothingToServe
<1>. QED BY <1>2, <1>3, <1>4 DEF PeerCloses

LEMMA NextServed ==
    ASSUME SInv, SInv', ServedSound, [Next /\ ~EndsUncompared]_vars
    PROVE  ServedSound'
<1>1. CASE UNCHANGED vars
  BY <1>1 DEF vars, session, ServedSound, ServesAtOnce, ServedAsAnnounced
<1>2. CASE Next /\ ~EndsUncompared
  BY <1>2, FramesServed, CallsServed, HandleDataServed, BlockServed, ServeServed, PushServed,
     EventsServed DEF Next, Server, HandleFrame
<1>. QED BY <1>1, <1>2

\* A message that comes in pieces, among the frames of others, promises and resets, is of a
\* stream that is held when it is put together, and is served at once and with the payload
\* that it announced (handle_data, the end of a header block, push_stream).
\* Left out is the block of headers that ends a message whose payload differs from what was
\* announced, which the code does not look for.
THEOREM BlocksAreAlwaysServed == Spec /\ [][~EndsUncompared]_vars => []BlocksAreServed
<1>1. Init => ServedSound
  BY DEF Init, ServedSound, ServesAtOnce, ServedAsAnnounced
<1>2. SInv /\ SInv' /\ ServedSound /\ [Next]_vars /\ [~EndsUncompared]_vars => ServedSound'
  <2>1. [Next]_vars /\ [~EndsUncompared]_vars => [Next /\ ~EndsUncompared]_vars
    OBVIOUS
  <2>. QED BY <2>1, NextServed
<1>3. SInv /\ ServedSound => BlocksAreServed
  BY DEF SInv, ServedSound, BlocksAreServed
<1>. QED BY <1>1, <1>2, <1>3, ResponsesAreDrivenOnce, PTL DEF Spec
=============================================================================
