--------------------------- MODULE SelectPolling ---------------------------
(***************************************************************************)
(* The rounds of the loop over select (polling_select.c): the sets of      *)
(* handles that are watched, the connections that the ready ones are       *)
(* traced back to, the operations left outstanding and the connections     *)
(* that are deleted once a round is over.  What handlers do is any of the  *)
(* calls they may make on connections; handles are given again as soon as  *)
(* they are closed.  todo of EventLoop is slTodo here.                     *)
(***************************************************************************)
EXTENDS Integers, Sequences, SequencesExt, FiniteSets, FiniteSetsExt, Lists

CONSTANTS
    SlConn,     \* bound: the connections there ever are, in the order of their creation
    SlHandle,   \* bound: the handles of the sockets, as numbers
    SlCalls,    \* bound: the calls that one handler makes
    SlMostQueued  \* bound: the values that are queued on a connection

ASSUME SelectAssumption ==
    /\ SlConn \subseteq Nat /\ SlConn # {}
    /\ SlHandle \subseteq Nat /\ SlHandle # {} /\ IsFiniteSet(SlHandle)
    /\ SlCalls \in Nat /\ SlMostQueued \in Nat

VARIABLES
    slConn,     \* what connection_t keeps
    slList,     \* connections_list of the service
    slWatched,  \* sockets_read_set and sockets_write_set
    slReady,    \* read_connections and write_connections, with their sizes
    slOutstanding,  \* read_outstanding and write_outstanding
    slRemoval,  \* remove_connections
    slTodo      \* the rest of the round

slVars == <<slConn, slList, slWatched, slReady, slOutstanding, slRemoval, slTodo>>

NoBuffers == [read |-> <<>>, write |-> <<>>]
NotOpened == [status |-> "NEW", handle |-> 0, writeValid |-> FALSE,
              writeRegistered |-> FALSE, isOutstanding |-> FALSE, queued |-> 0]

SlIsOpen(c) == slConn[c].status = "OPEN"
SlDo(op, c) == [op |-> op, conn |-> c, n |-> 0]
SlAll(op, seq) == [i \in 1..Len(seq) |-> SlDo(op, seq[i])]
SlHandler(c) == [op |-> "handler", conn |-> c, n |-> SlCalls]
SlRound(op) == [op |-> op, conn |-> CHOOSE c \in SlConn : TRUE, n |-> 0]
SlRunning(op) == slTodo # <<>> /\ Head(slTodo).op = op
SlThis == Head(slTodo).conn
SlBecomes(tasks) == slTodo' = tasks \o Tail(slTodo)

\* The handle a new socket is given is the lowest that is free.
Opened(c) ==
    LET taken == {slConn[d].handle : d \in {e \in SlConn : SlIsOpen(e)}}
    IN  [slConn[c] EXCEPT !.status = "OPEN", !.handle = Min(SlHandle \ taken)]
SlMayOpen(c) == /\ slConn[c].status = "NEW"
                /\ \A d \in SlConn : d < c => slConn[d].status # "NEW"
                /\ Cardinality({d \in SlConn : SlIsOpen(d)}) < Cardinality(SlHandle)

\* The connection of the service itself is the first; it is not written to, and
\* it stays as long as the loop runs.
Listener == Min(SlConn)
SlInit ==
    /\ slConn = [c \in SlConn |-> IF c = Listener
                    THEN [NotOpened EXCEPT !.status = "OPEN", !.handle = Min(SlHandle)]
                    ELSE NotOpened]
    /\ slList = <<Listener>>
    /\ slWatched = [read |-> {Min(SlHandle)}, write |-> {}]
    /\ slReady = NoBuffers /\ slOutstanding = NoBuffers
    /\ slRemoval = <<>> /\ slTodo = <<>>

-----------------------------------------------------------------------------
\* _outstanding_polling_select: the buffers are emptied before what was in them
\* is run, so that the operations may leave others for the next round.
SlOutstanding ==
    /\ slTodo = <<>>
    /\ slConn' = [c \in SlConn |-> [slConn[c] EXCEPT !.isOutstanding =
                     @ /\ c \notin ToSet(slOutstanding.read)]]
    /\ slOutstanding' = NoBuffers
    /\ slTodo' = SlAll("read", slOutstanding.read) \o SlAll("write", slOutstanding.write)
                 \o <<SlRound("select"), SlRound("call")>>
    /\ UNCHANGED <<slList, slWatched, slReady, slRemoval>>

\* The connections of the handles that are ready, in the order of the list, as
\* long as there are bits that were not found.
TracedWith(found, reads, writes, c) ==
    IF found.left = 0 THEN found
    ELSE LET r == slConn[c].handle \in reads
             w == slConn[c].handle \in writes
         IN  [read  |-> IF r THEN Append(found.read, c) ELSE found.read,
              write |-> IF w THEN Append(found.write, c) ELSE found.write,
              left  |-> found.left - (IF r THEN 1 ELSE 0) - (IF w THEN 1 ELSE 0)]

Traced(reads, writes) ==
    LET found[n \in 0..Len(slList)] ==
          IF n = 0 THEN [read |-> <<>>, write |-> <<>>, left |-> Cardinality(reads) + Cardinality(writes)]
          ELSE TracedWith(found[n - 1], reads, writes, slList[n])
    IN  found[Len(slList)]

\* _poll_polling_select: any of the handles that are watched are ready, or none
\* when the wait is over.
SlSelect ==
    /\ SlRunning("select")
    /\ \E reads \in SUBSET slWatched.read, writes \in SUBSET slWatched.write :
          LET found == Traced(reads, writes)
          IN  slReady' = [read |-> found.read, write |-> found.write]
    /\ SlBecomes(<<>>)
    /\ UNCHANGED <<slConn, slList, slWatched, slOutstanding, slRemoval>>

AfterErrorKept(ready) == ready
AfterError(ready) == NoBuffers

\* A signal interrupts the wait: the error is left aside by the loop, which goes
\* on with the callbacks.
SlInterrupted ==
    /\ SlRunning("select")
    /\ slReady' = AfterError(slReady)
    /\ SlBecomes(<<>>)
    /\ UNCHANGED <<slConn, slList, slWatched, slOutstanding, slRemoval>>

\* _call_polling_select: the reads, the writes, and the deletions.
SlCall ==
    /\ SlRunning("call")
    /\ SlBecomes(SlAll("readable", slReady.read) \o SlAll("writable", slReady.write)
                 \o <<SlRound("reap")>>)
    /\ UNCHANGED <<slConn, slList, slWatched, slReady, slOutstanding, slRemoval>>

SlReap ==
    /\ SlRunning("reap")
    /\ slConn' = [c \in SlConn |-> IF c \in ToSet(slRemoval)
                                   THEN [slConn[c] EXCEPT !.status = "FREED"] ELSE slConn[c]]
    /\ slRemoval' = <<>>
    /\ SlBecomes(<<>>)
    /\ UNCHANGED <<slList, slWatched, slReady, slOutstanding>>

-----------------------------------------------------------------------------
\* on_read of a connection that is still open, its handler.
SlRead ==
    /\ SlRunning("read") \/ SlRunning("readable")
    /\ SlBecomes(IF SlIsOpen(SlThis) THEN <<SlHandler(SlThis)>> ELSE <<>>)
    /\ UNCHANGED <<slConn, slList, slWatched, slReady, slOutstanding, slRemoval>>

\* on_write: a value that is sent has its callback run, and the writing goes on;
\* a socket that takes no more is not valid until select says so; nothing left
\* takes the handle out of the set (unregister_write).
SlWrite ==
    /\ SlRunning("write") \/ SlRunning("writable") \/ SlRunning("send")
    /\ LET c == SlThis
           valid == SlRunning("writable") \/ slConn[c].writeValid
           k == [slConn[c] EXCEPT !.writeValid = valid]
       IN  \/ /\ ~SlIsOpen(c)
              /\ slConn' = [slConn EXCEPT ![c] = IF SlRunning("send") THEN @ ELSE k]
              /\ SlBecomes(<<>>)
              /\ UNCHANGED slWatched
           \/ /\ SlIsOpen(c) /\ k.queued > 0
              /\ slConn' = [slConn EXCEPT ![c] = [k EXCEPT !.queued = @ - 1]]
              /\ SlBecomes(<<SlHandler(c), SlDo("send", c)>>)
              /\ UNCHANGED slWatched
           \/ /\ SlIsOpen(c) /\ k.queued > 0
              /\ slConn' = [slConn EXCEPT ![c] = [k EXCEPT !.writeValid = FALSE]]
              /\ SlBecomes(<<>>)
              /\ UNCHANGED slWatched
           \/ /\ SlIsOpen(c) /\ k.queued = 0
              /\ slConn' = [slConn EXCEPT ![c] = [k EXCEPT !.writeRegistered = FALSE]]
              /\ slWatched' = [slWatched EXCEPT !.write =
                                  IF k.writeRegistered THEN @ \ {k.handle} ELSE @]
              /\ SlBecomes(<<>>)
    /\ UNCHANGED <<slList, slReady, slOutstanding, slRemoval>>

-----------------------------------------------------------------------------
(***************************************************************************)
(* The calls a handler makes.                                              *)
(***************************************************************************)
SlCalling == SlRunning("handler") /\ Head(slTodo).n > 0
SlCalled == SlBecomes(IF Head(slTodo).n = 1 THEN <<>> ELSE <<[Head(slTodo) EXCEPT !.n = @ - 1]>>)

SlReturn == /\ SlRunning("handler")
            /\ SlBecomes(<<>>)
            /\ UNCHANGED <<slConn, slList, slWatched, slReady, slOutstanding, slRemoval>>

\* register_connection_polling_select: a connection is accepted, or opened towards
\* a backend.
SlOpen ==
    /\ SlCalling
    /\ \E c \in SlConn :
          /\ SlMayOpen(c)
          /\ slConn' = [slConn EXCEPT ![c] = Opened(c)]
          /\ slList' = Append(slList, c)
          /\ slWatched' = [slWatched EXCEPT !.read = @ \cup {Opened(c).handle}]
    /\ SlCalled
    /\ UNCHANGED <<slReady, slOutstanding, slRemoval>>

\* register_write_polling_select: a write that is the first to be registered may
\* be left outstanding.  A connection that was drained while it is in the buffer
\* is not written again before the next round: the entry it would be given twice
\* is the one EventLoop has a run about.
WatchedToWrite(k, watched) == [watched EXCEPT !.write = @ \cup {k.handle}]

Registers(k) == ~k.writeRegistered /\ k.writeValid /\ k.status = "OPEN"
SlEnqueue ==
    /\ SlCalling
    /\ \E c \in SlConn :
          LET k == slConn[c]
          IN  /\ SlIsOpen(c) /\ c # Listener /\ k.queued < SlMostQueued
              /\ c \in ToSet(slOutstanding.write) => k.writeRegistered
              /\ slConn' = [slConn EXCEPT ![c].queued = @ + 1, ![c].writeRegistered = TRUE]
              /\ slWatched' = WatchedToWrite(k, slWatched)
              /\ slOutstanding' = IF Registers(k)
                                  THEN [slOutstanding EXCEPT !.write = Append(@, c)]
                                  ELSE slOutstanding
    /\ SlCalled
    /\ UNCHANGED <<slList, slReady, slRemoval>>

\* add_outstanding_polling_select: the reading of the connection was cut short.
SlAddOutstanding ==
    /\ SlCalling
    /\ LET c == SlThis
       IN  /\ SlIsOpen(c) /\ ~slConn[c].isOutstanding
           /\ slConn' = [slConn EXCEPT ![c].isOutstanding = TRUE]
           /\ slOutstanding' = [slOutstanding EXCEPT !.read = Append(@, c)]
    /\ SlCalled
    /\ UNCHANGED <<slList, slWatched, slReady, slRemoval>>

\* unregister_read and register_read: a connection whose other end is slow stops
\* being read, and is read again later.
SlThrottle ==
    /\ SlCalling
    /\ \E c \in SlConn :
          /\ SlIsOpen(c) /\ c # Listener
          /\ slWatched' = [slWatched EXCEPT !.read =
                IF slConn[c].handle \in @ THEN @ \ {slConn[c].handle} ELSE @ \cup {slConn[c].handle}]
    /\ SlCalled
    /\ UNCHANGED <<slConn, slList, slReady, slOutstanding, slRemoval>>

\* unregister_connection_polling_select: the handle leaves the sets, the connection
\* the buffers; it is deleted at the end of the round.
Unwatched(k, watched) ==
    [read  |-> watched.read \ {k.handle},
     write |-> IF k.writeRegistered THEN watched.write \ {k.handle} ELSE watched.write]

Discarded(c) == [read  |-> RemoveFirst(slOutstanding.read, c),
                 write |-> RemoveFirst(slOutstanding.write, c)]
SlClose ==
    /\ SlCalling
    /\ \E c \in SlConn :
          /\ SlIsOpen(c) /\ c # Listener
          /\ slWatched' = Unwatched(slConn[c], slWatched)
          /\ slOutstanding' = Discarded(c)
          /\ slRemoval' = Append(slRemoval, c)
          /\ slList' = Those(slList, SlConn \ {c})
          /\ slConn' = [slConn EXCEPT ![c].status = "CLOSED", ![c].isOutstanding = FALSE]
    /\ SlCalled
    /\ UNCHANGED slReady

SlNext ==
    \/ SlOutstanding \/ SlSelect \/ SlInterrupted \/ SlCall \/ SlReap
    \/ SlRead \/ SlWrite \/ SlReturn
    \/ SlOpen \/ SlEnqueue \/ SlAddOutstanding \/ SlThrottle \/ SlClose

SlSpec == SlInit /\ [][SlNext]_slVars

-----------------------------------------------------------------------------
\* No callback is run on a connection that was deleted, whoever closed it and in
\* whatever arrays of the round and buffers of the next one it was: those that
\* are kept after a round are not read again by one whose wait was interrupted.
ReachedIsAlive ==
    /\ \A i \in DOMAIN slTodo : slConn[slTodo[i].conn].status # "FREED" \/
                                slTodo[i].op \in {"select", "call", "reap"}
    /\ \A c \in ToSet(slOutstanding.read \o slOutstanding.write) : SlIsOpen(c)
    /\ SlRunning("call") => \A c \in ToSet(slReady.read \o slReady.write) :
                               slConn[c].status # "FREED"

\* A handle that is given again tells nothing of the connection that had it: the
\* bits of the sets are those that the open connections have asked for.
BitsOfTheOwner ==
    /\ slWatched.read \subseteq {slConn[c].handle : c \in ToSet(slList)}
    /\ slWatched.write = {slConn[c].handle : c \in {d \in ToSet(slList) : slConn[d].writeRegistered}}

\* What is queued on an open connection, once the handlers of a round are over,
\* has its handle watched: the room that its peer makes is noticed.
QueuedIsWatched ==
    slTodo = <<>> => \A c \in ToSet(slList) :
        slConn[c].queued > 0 => slConn[c].handle \in slWatched.write

\* Every bit that select has set is traced back to a connection that is open, to
\* the end of the list of connections.
EveryBitIsTraced ==
    SlRunning("select") =>
        LET found == Traced(slWatched.read, slWatched.write)
        IN  /\ found.left = 0
            /\ \A c \in ToSet(slList) :
                  /\ slConn[c].handle \in slWatched.read => c \in ToSet(found.read)
                  /\ slConn[c].handle \in slWatched.write => c \in ToSet(found.write)

\* The sets of select, the arrays of a round and the connections agree, though handles
\* are given again within a round.
SetsAreSound ==
    ReachedIsAlive /\ BitsOfTheOwner /\ QueuedIsWatched /\ EveryBitIsTraced
=============================================================================
