----------------------------- MODULE EventLoop -----------------------------
(***************************************************************************)
(* The event loop of the service over its epoll polling: rounds of         *)
(* outstanding operations, wait and callbacks, the input and output of     *)
(* every connection (stream_io.c), their opening, closing and deletion     *)
(* (service.c), and the sockets of an edge triggered kernel.               *)
(*                                                                         *)
(* The loop is a single thread and todo is what it has still to do, the    *)
(* head first: the rest of the arrays of the round and, in front of it,    *)
(* the calls that the one being executed has made.  Peers act on their     *)
(* sockets between any two steps.                                          *)
(***************************************************************************)
EXTENDS Integers, SequencesExt, Lists

CONSTANTS
    Conn,          \* connections of the service
    Backend,       \* partial: the backend connection a client is proxied to
    ReadSize,      \* VIRIATUM_READ_SIZE
    MaxRead,       \* VIRIATUM_MAX_READ
    Gather,        \* WRITE_BUFFERS_STREAM_IO
    Room,          \* the bytes that a socket takes before it would block
    Sizes,         \* the sizes of the values that handlers write
    Timeout,       \* polling->timeout >= 0: a wait with no event ends
    MayCycle,      \* a module has set on_cycle
    MaxData,       \* bound: the bytes that a peer sends
    MaxAsked       \* bound: the bytes that are written on a connection

Clients == Conn \ {Backend[c] : c \in DOMAIN Backend}

ASSUME LoopAssumption ==
    /\ IsFiniteSet(Conn) /\ "none" \notin Conn
    /\ DOMAIN Backend \subseteq Conn
    /\ \A c \in DOMAIN Backend : Backend[c] \in Conn \ DOMAIN Backend
    /\ ReadSize \in Nat \ {0} /\ MaxRead \in Nat /\ Gather \in Nat \ {0}
    /\ Room \in Nat \ {0} /\ Sizes \subseteq Nat
    /\ Timeout \in BOOLEAN /\ MayCycle \in BOOLEAN
    /\ MaxData \in Nat /\ MaxAsked \in Nat

VARIABLES
    conn,              \* what connection_t keeps, and its write queue
    sock,              \* the two ends of the socket, as the kernel sees them
    backlog,           \* the connections that wait to be accepted
    connections,       \* connections_list of the service
    readOutstanding, writeOutstanding,
    removal,           \* remove_connections
    service,           \* its status, "finished" once close_service is over
    todo               \* the rest of the round

polling == <<readOutstanding, writeOutstanding, removal>>
vars == <<conn, sock, backlog, connections, polling, service, todo>>

-----------------------------------------------------------------------------
\* A value of the write queue: the bytes of it still to be sent, and where it
\* ends in all that has been written on the connection.
Value == [size : Nat, end : Nat]

Connection == [status : {"NEW", "OPEN", "CLOSED", "FREED"}, reading : BOOLEAN,
               writeValid : BOOLEAN, writeRegistered : BOOLEAN,
               outstanding : BOOLEAN, queue : Seq(Value), asked : Nat]

\* received are the bytes to be read, sent those the peer has ever sent, wire
\* those the kernel has taken; blocked tells that the kernel was asked for room
\* when there was none, by a send that was cut short or by the wait, and reports
\* it once the peer makes some; edge an event not reported yet.
Socket == [received : Nat, sent : Nat, fin : BOOLEAN, reset : BOOLEAN,
           room : Nat, wire : Nat, blocked : BOOLEAN, edge : BOOLEAN,
           watched : BOOLEAN]

Op == {"accept", "read", "write", "readable", "writable", "error", "wait",
       "reap", "handler", "hangup", "close", "onclose", "unlink", "send",
       "walk", "after", "cycle", "closeall", "finish"}
Do(op, c) == [op |-> op, conn |-> c, n |-> 0]
Loop(op)  == [op |-> op, conn |-> "none", n |-> 0]
Task == [op : Op, conn : Conn \cup {"none"}, n : Nat]

NewConnection == [status |-> "NEW", reading |-> TRUE, writeValid |-> FALSE,
                  writeRegistered |-> FALSE, outstanding |-> FALSE,
                  queue |-> <<>>, asked |-> 0]
NewSocket == [received |-> 0, sent |-> 0, fin |-> FALSE, reset |-> FALSE,
              room |-> Room, wire |-> 0, blocked |-> FALSE, edge |-> FALSE,
              watched |-> FALSE]

Init ==
    /\ conn = [c \in Conn |-> NewConnection]
    /\ sock = [c \in Conn |-> NewSocket]
    /\ backlog = {} /\ connections = {}
    /\ readOutstanding = <<>> /\ writeOutstanding = <<>> /\ removal = <<>>
    /\ service = "OPEN"
    /\ todo = <<>>

IsOpen(c) == conn[c].status = "OPEN"
Running(op) == todo # <<>> /\ Head(todo).op = op
This == Head(todo).conn
Becomes(tasks) == todo' = tasks \o Tail(todo)
Calls(tasks) == todo' = tasks \o todo
All(op, seq) == [i \in 1..Len(seq) |-> Do(op, seq[i])]

-----------------------------------------------------------------------------
(***************************************************************************)
(* The rounds of the loop (start_service, poll_polling_epoll,              *)
(* call_polling_epoll).                                                    *)
(***************************************************************************)
\* The operations left outstanding are taken off their buffers and run, the
\* reads before the writes.  Those that they leave in turn wait for the next
\* round, and the wait comes before it.
Outstanding ==
    /\ todo = <<>> /\ service = "OPEN"
    /\ readOutstanding' = <<>> /\ writeOutstanding' = <<>>
    /\ conn' = [c \in Conn |-> [conn[c] EXCEPT !.outstanding =
                   @ /\ c \notin ToSet(readOutstanding)]]
    /\ todo' = All("read", readOutstanding) \o All("write", writeOutstanding)
               \o <<Loop("wait")>>
    /\ UNCHANGED <<sock, backlog, connections, removal, service>>

\* What epoll reports of a socket besides the edge.
MayRead(c)  == /\ conn[c].reading
               /\ sock[c].received > 0 \/ sock[c].fin \/ sock[c].reset
MayWrite(c) == sock[c].room > 0 \/ sock[c].reset
Ready == {c \in Conn : /\ sock[c].watched /\ sock[c].edge
                       /\ MayRead(c) \/ MayWrite(c)}

\* What is run on the sockets that were reported: the reads, the writes, the
\* errors, and only then the deletions of what they have closed.
MutantEvents(order) ==
    All("readable", Those(order, {c \in Conn : MayRead(c)}))
    \o All("writable", Those(order, {c \in Conn : MayWrite(c)}))
    \o <<Loop("reap")>>
    \o All("error", Those(order, {c \in Conn : sock[c].reset}))
    \o <<Loop("cycle")>>

Events(order) ==
    All("readable", Those(order, {c \in Conn : MayRead(c)}))
    \o All("writable", Those(order, {c \in Conn : MayWrite(c)}))
    \o All("error", Those(order, {c \in Conn : sock[c].reset}))
    \o <<Loop("reap"), Loop("cycle")>>

\* A socket that is looked at while it has no room is reported when it has some.
LookedAt(s) ==
    [s EXCEPT !.blocked = @ \/ (s.watched /\ s.edge /\ s.room = 0)]

\* epoll_wait: the sockets that have an edge are reported with all that they
\* are ready for, in any order; with a timeout the wait may find none.  What is
\* accepted is not of the round, so that the accepting may be said to go first.
Wait ==
    /\ Running("wait")
    /\ Timeout \/ Ready # {} \/ backlog # {}
    /\ \E order \in SetToSeqs(Ready) :
          Becomes((IF backlog # {} THEN <<Loop("accept")>> ELSE <<>>)
                  \o Events(order))
    /\ sock' = [c \in Conn |-> [LookedAt(sock[c]) EXCEPT !.edge = @ /\ c \notin Ready]]
    /\ UNCHANGED <<conn, backlog, connections, polling, service>>

\* A connection is put in the list and watched, and the kernel reports at once
\* what its socket is ready for (open_connection, register_connection).
Opened(c)  == [conn[c] EXCEPT !.status = "OPEN"]
Watched(c) == [sock[c] EXCEPT !.watched = TRUE, !.edge = TRUE]

\* Every connection of the backlog is accepted.
Accept ==
    /\ Running("accept")
    /\ conn' = [c \in Conn |-> IF c \in backlog THEN Opened(c) ELSE conn[c]]
    /\ sock' = [c \in Conn |-> IF c \in backlog THEN Watched(c) ELSE sock[c]]
    /\ connections' = connections \cup backlog
    /\ backlog' = {}
    /\ Becomes(<<>>)
    /\ UNCHANGED <<polling, service>>

Delete(seq) ==
    [c \in Conn |-> IF c \in ToSet(seq)
                    THEN [conn[c] EXCEPT !.status = "FREED", !.queue = <<>>]
                    ELSE conn[c]]

\* The connections closed in the round are deleted once all of it has run.
Reap ==
    /\ Running("reap")
    /\ conn' = Delete(removal)
    /\ removal' = <<>>
    /\ Becomes(<<>>)
    /\ UNCHANGED <<sock, backlog, connections, readOutstanding,
                   writeOutstanding, service>>

-----------------------------------------------------------------------------
(***************************************************************************)
(* Reading (read_handler_stream_io).                                       *)
(***************************************************************************)
\* The reads of one call stop once they have taken more than MaxRead bytes, at
\* a read that is not filled, or at one that finds nothing: the number of bytes
\* taken and why they stopped.
Most == (MaxRead \div ReadSize + 1) * ReadSize
MutantReads(s) ==
    IF s.reset THEN [n |-> 0, why |-> "closed"]
    ELSE IF s.received >= Most THEN [n |-> Most, why |-> "short"]
    ELSE [n |-> s.received,
          why |-> IF s.received % ReadSize # 0 THEN "short"
                  ELSE IF s.fin THEN "closed" ELSE "again"]

Reads(s) ==
    IF s.reset THEN [n |-> 0, why |-> "closed"]
    ELSE IF s.received >= Most THEN [n |-> Most, why |-> "more"]
    ELSE [n |-> s.received,
          why |-> IF s.received % ReadSize # 0 THEN "short"
                  ELSE IF s.fin THEN "closed" ELSE "again"]

\* What is read is handed to the handler in one call, the code makes one for
\* every buffer that is filled.  A closed connection is skipped.
Read ==
    /\ Running("read") \/ Running("readable")
    /\ LET c == This
           read == Reads(sock[c])
           more == read.why = "more"
       IN  IF IsOpen(c)
           THEN /\ sock' = [sock EXCEPT ![c].received = @ - read.n]
                /\ conn' = [conn EXCEPT ![c].outstanding = @ \/ more]
                /\ readOutstanding' =
                      IF more /\ ~conn[c].outstanding
                      THEN Append(readOutstanding, c) ELSE readOutstanding
                /\ Becomes((IF read.n > 0 THEN <<Do("handler", c)>> ELSE <<>>)
                           \o IF read.why = "closed" THEN <<Do("hangup", c)>>
                              ELSE <<>>)
           ELSE Becomes(<<>>) /\ UNCHANGED <<conn, sock, readOutstanding>>
    /\ UNCHANGED <<backlog, connections, writeOutstanding, removal, service>>

\* The peer has closed its end: what is queued is written, as far as it can be,
\* and the connection is closed unless the handler has done it.
HangUp ==
    /\ Running("hangup")
    /\ LET c == This
       IN  Becomes(IF ~IsOpen(c) THEN <<>>
                   ELSE IF conn[c].queue # <<>>
                   THEN <<Do("send", c), Do("close", c)>>
                   ELSE <<Do("close", c)>>)
    /\ UNCHANGED <<conn, sock, backlog, connections, polling, service>>

-----------------------------------------------------------------------------
(***************************************************************************)
(* Writing (write_connection_c, register_write, write_handler_stream_io).  *)
(***************************************************************************)
\* A connection is made outstanding by a write unless one already waits for the
\* socket, or is outstanding itself, or the socket is not known to be writable.
Registers(k) == ~k.writeRegistered /\ k.writeValid /\ k.status = "OPEN"

Written(k, size) ==
    [k EXCEPT !.queue = Append(@, [size |-> size, end |-> k.asked + size]),
              !.asked = @ + size, !.writeRegistered = TRUE]

Enqueue(c, size) ==
    /\ conn' = [conn EXCEPT ![c] = Written(@, size)]
    /\ writeOutstanding' = IF Registers(conn[c])
                           THEN Append(writeOutstanding, c)
                           ELSE writeOutstanding

\* on_write of a connection; an event tells that its socket is writable.
Write ==
    /\ Running("write") \/ Running("writable")
    /\ LET c == This
       IN  /\ conn' = [conn EXCEPT ![c].writeValid =
                          @ \/ Head(todo).op = "writable"]
           /\ Becomes(IF IsOpen(c) THEN <<Do("send", c)>> ELSE <<>>)
    /\ UNCHANGED <<sock, backlog, connections, polling, service>>

\* One send of the values at the head of the queue, up to Gather of them.  An
\* empty queue ends the writing; a socket that takes nothing ends it until
\* the next event; a connection that was reset is closed.
Least(a, b) == IF a < b THEN a ELSE b
MutantDrained(k) == k
Drained(k) == [k EXCEPT !.writeRegistered = FALSE]
Send ==
    /\ Running("send")
    /\ LET c == This
           queue == conn[c].queue
           wanted == queue[Least(Gather, Len(queue))].end - sock[c].wire
           taken == Least(wanted, sock[c].room)
       IN  IF queue = <<>>
           THEN /\ conn' = [conn EXCEPT ![c] = Drained(@)]
                /\ Becomes(<<>>)
                /\ UNCHANGED sock
           ELSE IF sock[c].reset
           THEN Becomes(<<Do("close", c)>>) /\ UNCHANGED <<conn, sock>>
           ELSE /\ sock' = [sock EXCEPT ![c].wire = @ + taken,
                                        ![c].room = @ - taken,
                                        ![c].blocked = @ \/ taken < wanted]
                /\ IF taken = 0 /\ wanted > 0
                   THEN /\ conn' = [conn EXCEPT ![c].writeValid = FALSE]
                        /\ Becomes(<<>>)
                   ELSE /\ UNCHANGED conn
                        /\ Becomes(<<[op |-> "walk", conn |-> c, n |-> taken]>>)
    /\ UNCHANGED <<backlog, connections, polling, service>>

\* The values that the n bytes cover: the first of them leaves the queue and its
\* callback is run, or is left waiting with what was not sent.
MutantLeft(n, value) == n
Left(n, value) == n - value.size

Walk ==
    /\ Running("walk")
    /\ LET c == This
           n == Head(todo).n
           first == Head(conn[c].queue)
       IN  IF n < first.size
           THEN /\ conn' = [conn EXCEPT ![c].queue[1].size = @ - n,
                                        ![c].writeValid = FALSE]
                /\ Becomes(<<>>)
           ELSE /\ conn' = [conn EXCEPT ![c].queue = Tail(@)]
                /\ Becomes(<<Do("handler", c),
                             [op |-> "after", conn |-> c, n |-> Left(n, first)]>>)
    /\ UNCHANGED <<sock, backlog, connections, polling, service>>

\* After the callback: nothing more of a connection that it has closed, the
\* bytes left belong to the value that follows.
After ==
    /\ Running("after")
    /\ LET c == This
           n == Head(todo).n
       IN  Becomes(IF ~IsOpen(c) THEN <<>>
                   ELSE IF n = 0 \/ conn[c].queue = <<>> THEN <<Do("send", c)>>
                   ELSE <<[op |-> "walk", conn |-> c, n |-> n]>>)
    /\ UNCHANGED <<conn, sock, backlog, connections, polling, service>>

-----------------------------------------------------------------------------
(***************************************************************************)
(* Closing (close_connection, remove_connection_service,                   *)
(* unregister_connection_polling_epoll).                                   *)
(***************************************************************************)
\* A connection that is closed already is left alone; otherwise its handler
\* hears of it, and only then is it unlinked.
Close ==
    /\ Running("close") \/ Running("error")
    /\ Becomes(IF IsOpen(This) THEN <<Do("onclose", This), Do("unlink", This)>>
               ELSE <<>>)
    /\ UNCHANGED <<conn, sock, backlog, connections, polling, service>>

\* The closing of a client closes its backend; that of a backend which still
\* owes a response queues an empty value, on the connection being closed.
OnClose ==
    /\ Running("onclose")
    /\ LET c == This
           closesBackend == c \in DOMAIN Backend /\ IsOpen(Backend[c])
       IN  /\ Becomes(IF closesBackend THEN <<Do("close", Backend[c])>> ELSE <<>>)
           /\ \/ c \notin Clients /\ Enqueue(c, 0)
              \/ UNCHANGED <<conn, writeOutstanding>>
    /\ UNCHANGED <<sock, backlog, connections, readOutstanding, removal, service>>

MutantDiscard(seq, c) == seq
Discard(seq, c) == RemoveFirst(seq, c)

\* A connection waits once for its deletion.
Doomed(seq, c) == IF c \in ToSet(seq) THEN seq ELSE Append(seq, c)

Unlink ==
    /\ Running("unlink")
    /\ LET c == This
       IN  /\ conn' = [conn EXCEPT ![c].status = "CLOSED",
                                   ![c].outstanding = FALSE]
           /\ sock' = [sock EXCEPT ![c].watched = FALSE, ![c].edge = FALSE]
           /\ readOutstanding' = Discard(readOutstanding, c)
           /\ writeOutstanding' = Discard(writeOutstanding, c)
           /\ removal' = Doomed(removal, c)
           /\ connections' = connections \ {c}
    /\ Becomes(<<>>)
    /\ UNCHANGED <<backlog, service>>

-----------------------------------------------------------------------------
(***************************************************************************)
(* The handlers: what runs on data, in the callback of a write, and in     *)
(* on_cycle.  Each may act several times on its connection and on the one  *)
(* it is proxied to or from, on_cycle on any.                              *)
(***************************************************************************)
InHandler == Running("handler") \/ (Running("cycle") /\ MayCycle)
Peer(c) == {d \in Conn : \/ c \in DOMAIN Backend /\ Backend[c] = d
                         \/ d \in DOMAIN Backend /\ Backend[d] = c}
Reach == {c \in IF Running("cycle") THEN Conn ELSE {This} \cup Peer(This) :
             IsOpen(c)}

HandlerReturns ==
    /\ Running("handler") \/ Running("cycle")
    /\ Becomes(<<>>)
    /\ UNCHANGED <<conn, sock, backlog, connections, polling, service>>

HandlerWrites ==
    /\ InHandler
    /\ \E c \in Reach, size \in Sizes :
          /\ conn[c].asked + size <= MaxAsked
          /\ Enqueue(c, size)
    /\ UNCHANGED <<sock, backlog, connections, readOutstanding, removal,
                   service, todo>>

HandlerCloses ==
    /\ InHandler
    /\ \E c \in Reach : Calls(<<Do("close", c)>>)
    /\ UNCHANGED <<conn, sock, backlog, connections, polling, service>>

\* The backend of a client is connected to, in a call that blocks.
HandlerConnects ==
    /\ Running("handler") /\ This \in DOMAIN Backend /\ IsOpen(This)
    /\ LET b == Backend[This]
       IN  /\ conn[b].status = "NEW"
           /\ conn' = [conn EXCEPT ![b] = Opened(b)]
           /\ sock' = [sock EXCEPT ![b] = Watched(b)]
           /\ connections' = connections \cup {b}
    /\ UNCHANGED <<backlog, polling, service, todo>>

\* The reading of a backend is paused while its client has too much to be sent,
\* and resumed later: the kernel looks at the socket again in both cases.
HandlerPaces ==
    /\ Running("handler")
    /\ \E b \in Reach \ Clients :
          /\ conn' = [conn EXCEPT ![b].reading = ~@]
          /\ sock' = [sock EXCEPT ![b].edge = TRUE]
    /\ UNCHANGED <<backlog, connections, polling, service, todo>>

HandlerStops ==
    /\ InHandler /\ service = "OPEN"
    /\ service' = "CLOSED"
    /\ UNCHANGED <<conn, sock, backlog, connections, polling, todo>>

-----------------------------------------------------------------------------
(***************************************************************************)
(* The end of the service (close_service, close_connections_service,       *)
(* close_polling_epoll).                                                   *)
(***************************************************************************)
CloseService ==
    /\ todo = <<>> /\ service = "CLOSED"
    /\ todo' = <<Loop("closeall"), Loop("finish")>>
    /\ UNCHANGED <<conn, sock, backlog, connections, polling, service>>

CloseConnections ==
    /\ Running("closeall")
    /\ IF connections = {}
       THEN Becomes(<<>>) /\ UNCHANGED connections
       ELSE \E c \in connections :
               /\ connections' = connections \ {c}
               /\ Calls(<<Do("close", c)>>)
    /\ UNCHANGED <<conn, sock, backlog, polling, service>>

Finish ==
    /\ Running("finish")
    /\ conn' = Delete(removal)
    /\ removal' = <<>> /\ readOutstanding' = <<>> /\ writeOutstanding' = <<>>
    /\ service' = "FINISHED"
    /\ Becomes(<<>>)
    /\ UNCHANGED <<sock, backlog, connections>>

-----------------------------------------------------------------------------
(***************************************************************************)
(* The peers, and the kernel between them and the loop.                    *)
(***************************************************************************)
Reached(c) == c \in backlog \/ IsOpen(c)

PeerConnects(c) ==
    /\ c \in Clients /\ conn[c].status = "NEW" /\ c \notin backlog
    /\ service = "OPEN"
    /\ backlog' = backlog \cup {c}
    /\ UNCHANGED <<conn, sock, connections, polling, service, todo>>

\* What arrives, bytes or the end of them, is an edge of the socket.
PeerSends(c) ==
    /\ Reached(c) /\ ~sock[c].fin /\ ~sock[c].reset
    /\ \E n \in 1..(MaxData - sock[c].sent) :
          sock' = [sock EXCEPT ![c].received = @ + n, ![c].sent = @ + n,
                               ![c].edge = TRUE]
    /\ UNCHANGED <<conn, backlog, connections, polling, service, todo>>

PeerShuts(c) ==
    /\ Reached(c) /\ ~sock[c].fin /\ ~sock[c].reset
    /\ sock' = [sock EXCEPT ![c].fin = TRUE, ![c].edge = TRUE]
    /\ UNCHANGED <<conn, backlog, connections, polling, service, todo>>

PeerResets(c) ==
    /\ Reached(c) /\ ~sock[c].reset
    /\ sock' = [sock EXCEPT ![c].reset = TRUE, ![c].received = 0,
                            ![c].edge = TRUE]
    /\ UNCHANGED <<conn, backlog, connections, polling, service, todo>>

\* The peer makes room: an edge only when the kernel was asked for it.
PeerDrains(c) ==
    /\ Reached(c) /\ sock[c].room < Room
    /\ sock' = [sock EXCEPT ![c].room = Room, ![c].blocked = FALSE,
                            ![c].edge = @ \/ sock[c].blocked]
    /\ UNCHANGED <<conn, backlog, connections, polling, service, todo>>

Handler == \/ HandlerWrites \/ HandlerCloses \/ HandlerConnects
           \/ HandlerPaces \/ HandlerStops
Server == \/ Outstanding \/ Wait \/ Accept \/ Reap
          \/ Read \/ HangUp \/ Write \/ Send \/ Walk \/ After
          \/ Close \/ OnClose \/ Unlink \/ HandlerReturns
          \/ CloseService \/ CloseConnections \/ Finish
Peers == \E c \in Conn : \/ PeerConnects(c) \/ PeerSends(c) \/ PeerShuts(c)
                         \/ PeerResets(c) \/ PeerDrains(c)

Next == Server \/ Handler \/ Peers

Spec == Init /\ [][Next]_vars

\* The loop goes on, handlers return, and peers take what they are sent.
FairSpec ==
    /\ Spec
    /\ WF_vars(Server)
    /\ \A c \in Conn : WF_vars(PeerDrains(c))

-----------------------------------------------------------------------------
(***************************************************************************)
(* Properties.                                                             *)
(***************************************************************************)
\* The structures keep their types, and no counter passes its bound.
TypeOK ==
    /\ conn \in [Conn -> Connection] /\ sock \in [Conn -> Socket]
    /\ backlog \subseteq Clients /\ connections \subseteq Conn
    /\ readOutstanding \in Seq(Conn) /\ writeOutstanding \in Seq(Conn)
    /\ removal \in Seq(Conn)
    /\ service \in {"OPEN", "CLOSED", "FINISHED"}
    /\ todo \in Seq(Task)

\* The lists of the service and of the polling tell the same story: a connection
\* is watched exactly while it is open, waits once to be read again and only
\* while it is open, and is deleted once, after it was closed.
ListsAgree ==
    /\ \A c \in Conn : sock[c].watched <=> IsOpen(c)
    /\ \A c \in connections : IsOpen(c)
    /\ IsInjective(readOutstanding) /\ IsInjective(removal)
    /\ ToSet(readOutstanding) = {c \in Conn : IsOpen(c) /\ conn[c].outstanding}
    /\ service # "FINISHED" =>
          ToSet(removal) = {c \in Conn : conn[c].status = "CLOSED"}

\* No write is forgotten: what is queued on an open connection will be taken up
\* by its writing, now or in this round or the next one, or by an event of the
\* socket that is still to be reported or that the peer will make.
WriteIsDue ==
    \A c \in Conn :
        (IsOpen(c) /\ conn[c].queue # <<>>) =>
            /\ conn[c].writeRegistered
            /\ \/ c \in ToSet(writeOutstanding)
               \/ \E i \in 1..Len(todo) :
                     /\ todo[i].conn = c
                     /\ todo[i].op \in {"write", "writable", "send", "walk",
                                        "after", "close", "unlink", "error"}
               \/ sock[c].edge
               \/ sock[c].blocked

\* The bytes that a socket has taken are those of the values that have left the
\* queue, in the order in which they were written, with the part of the first
\* one left: no callback runs ahead of its bytes, none is sent twice.
Ahead(c) ==
    LET walks == {i \in 1..Len(todo) : /\ todo[i].conn = c
                                       /\ todo[i].op \in {"walk", "after"}}
    IN  IF walks = {} THEN 0 ELSE todo[CHOOSE i \in walks : \A j \in walks : i <= j].n
BytesAccounted ==
    \A c \in Conn :
        IsOpen(c) =>
            sock[c].wire - Ahead(c) =
                IF conn[c].queue = <<>> THEN conn[c].asked
                ELSE Head(conn[c].queue).end - Head(conn[c].queue).size

\* A connection is deleted only once nothing of the round is about it any more.
DeletedAfterTheRound ==
    [][\A c \in Conn :
          (conn[c].status # "FREED" /\ conn'[c].status = "FREED") =>
              /\ \A i \in 1..Len(todo) : todo[i].conn # c
              /\ c \notin ToSet(readOutstanding)]_vars

\* No operation that is left outstanding is about a connection that has been
\* deleted: unregister_connection takes it out of the buffers.
OutstandingIsAlive ==
    \A c \in ToSet(readOutstanding) \cup ToSet(writeOutstanding) :
        conn[c].status # "FREED"

\* What is queued is sent, unless the connection is closed.
QueuedIsWritten ==
    \A c \in Conn :
        (IsOpen(c) /\ conn[c].queue # <<>>) ~> (~IsOpen(c) \/ conn[c].queue = <<>>)

\* What is received is read, unless the reading is paused.
ReceivedIsRead ==
    \A c \in Conn :
        (IsOpen(c) /\ sock[c].received > 0)
            ~> (~IsOpen(c) \/ sock[c].received = 0 \/ ~conn[c].reading)

\* A connection that is closed is deleted.
ClosedIsDeleted ==
    \A c \in Conn : conn[c].status = "CLOSED" ~> conn[c].status = "FREED"

\* A connection whose peer has closed its end is closed.
PeerCloseIsSeen ==
    \A c \in Conn : (IsOpen(c) /\ sock[c].fin) ~> (~IsOpen(c) \/ ~conn[c].reading)

\* What is queued is going to be taken up, and is on the wire once, in its order, with
\* its callbacks behind it.
WritesAreSound ==
    TypeOK /\ WriteIsDue /\ BytesAccounted

\* The loop comes back to what it left: the bytes that a read stopped before, and the
\* connections that were closed in the middle of a round.
NothingIsForgotten ==
    ReceivedIsRead /\ ClosedIsDeleted
=============================================================================
