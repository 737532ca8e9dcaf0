------------------------------- MODULE Proxy -------------------------------
(***************************************************************************)
(* The proxy handler (handler_proxy.c): the messages of one client, each   *)
(* an exchange with a backend, the connections to the backends, kept for   *)
(* the messages that follow, and the handlers that close one side when the *)
(* other goes away.                                                        *)
(***************************************************************************)
EXTENDS Integers, Sequences, FiniteSets, SequencesExt

CONSTANTS
    Exchange,     \* the messages of the client, 1, 2, ...
    Backend,      \* the connections to backends that may be made, 1, 2, ...
    Concurrent,   \* how many at a time: one under HTTP/1, more under HTTP/2
    MostBody,     \* the fragments of a body, of one unit each
    MaxRead,      \* VIRIATUM_MAX_READ, in units
    TreRead       \* VIRIATUM_TRE_READ

\* The reading goes on before it would stop, once something was written.
ASSUME ProxyAssumption ==
    /\ Exchange \subseteq Nat \ {0} /\ Backend \subseteq Nat \ {0}
    /\ {Concurrent, TreRead} \subseteq Nat \ {0} /\ {MaxRead, MostBody} \subseteq Nat
    /\ TreRead <= MaxRead

VARIABLES
    exchange,     \* the context of every message
    backend,      \* every connection to a backend
    client,       \* the connection of the client: open, closed or looping
    onClose,      \* its on_close: the one of the stream, or of the proxy
    mapped,       \* connections_map of the client, 0 when there is none
    saved,        \* on_close_map of the client
    streamClosed  \* how often the close handler of its stream has run

proxyVars == <<exchange, backend, client, onClose, mapped, saved, streamClosed>>

\* struct handler_proxy_context_t: state follows the message, at is the
\* connection_c and out what is queued for the client.
NewExchange ==
    [state |-> "idle", at |-> 0, pending |-> FALSE, pendingWrite |-> 0,
     out |-> <<>>, got |-> <<>>]

\* The connection of a backend: exchange is what its parameters carry, kept
\* whether the reverse map knows its client, asked the messages it received.
NewBackend ==
    [status |-> "none", exchange |-> 0, kept |-> FALSE, reads |-> FALSE,
     asked |-> <<>>, sent |-> 0]

ProxyInit ==
    /\ exchange = [e \in Exchange |-> NewExchange]
    /\ backend = [b \in Backend |-> NewBackend]
    /\ client = "open" /\ onClose = "stream"
    /\ mapped = 0 /\ saved = "none"
    /\ streamClosed = 0

Active == {e \in Exchange : exchange[e].state \in {"reading", "waiting"}}

\* reuse_backend_handler_proxy, on the exchange that the parameters carry.
Reusable(b, e) ==
    /\ b # 0
    /\ \/ backend[b].exchange \in {0, e}
       \/ ~exchange[backend[b].exchange].pending

\* A connection that is used again carries another exchange from now on.
Takes(b, e) == [backend EXCEPT ![b].exchange = e]

\* A new connection to a backend, for an exchange.
Connected(e) ==
    [NewBackend EXCEPT !.status = "open", !.exchange = e, !.kept = TRUE, !.reads = TRUE]

\* The target of a message is known: its backend is the one of the client, or
\* one more if that one is busy, or none if it cannot be reached.
VirtualUrl(e) ==
    /\ client = "open"
    /\ exchange[e].state = "idle"
    /\ \A f \in Exchange : f < e => exchange[f].state # "idle"
    /\ Cardinality(Active) < Concurrent
    /\ LET begun(b) == [exchange EXCEPT ![e] =
                           [NewExchange EXCEPT !.state = "reading", !.at = b, !.pending = TRUE]]
           left == IF mapped = 0 \/ Reusable(mapped, e) THEN backend
                   ELSE [backend EXCEPT ![mapped].kept = FALSE]
       IN  IF Reusable(mapped, e)
           THEN /\ exchange' = begun(mapped)
                /\ backend' = Takes(mapped, e)
                /\ UNCHANGED <<onClose, mapped, saved>>
           ELSE \/ /\ exchange' = begun(0)
                   /\ backend' = left
                   /\ UNCHANGED <<onClose, mapped, saved>>
                \/ \E b \in Backend :
                     /\ backend[b].status = "none"
                     /\ \A c \in Backend : c < b => backend[c].status # "none"
                     /\ exchange' = begun(b)
                     /\ backend' = [left EXCEPT ![b] = Connected(e)]
                     /\ mapped' = b
                     /\ saved' = onClose /\ onClose' = "proxy"
    /\ UNCHANGED <<client, streamClosed>>

\* The clean up travels with the head, not with what ends the response.
FragmentOfHead(part, of, keep) ==
    [part |-> IF part = "head" THEN "end" ELSE part, of |-> of, keep |-> keep]

\* Something to be written for the client: the end of a response, or of an
\* error, carries the clean up and whether the connection is kept.
Fragment(part, of, keep) == [part |-> part, of |-> of, keep |-> keep]

\* The message is complete: it goes to the backend, or is answered with a bad
\* gateway when there is none.
RequestComplete(e) ==
    /\ client = "open"
    /\ exchange[e].state = "reading"
    /\ LET at == exchange[e].at IN
         IF at = 0
         THEN /\ \E keep \in BOOLEAN :
                   exchange' = [exchange EXCEPT ![e].state = "waiting",
                                    ![e].out = Append(@, Fragment("error", e, keep))]
              /\ UNCHANGED backend
         ELSE /\ exchange' = [exchange EXCEPT ![e].state = "waiting"]
              /\ backend' = [backend EXCEPT ![at].asked = Append(@, e)]
    /\ UNCHANGED <<client, onClose, mapped, saved, streamClosed>>

\* Something for the client is queued: too much of it stops the reading from
\* the backend.
Queue(x, fragment) ==
    LET c == [exchange[x] EXCEPT !.out = Append(@, fragment), !.pendingWrite = @ + 1]
        stops == c.at # 0 /\ c.pendingWrite >= MaxRead
    IN  /\ exchange' = [exchange EXCEPT ![x] = c]
        /\ backend' = [b \in Backend |->
                          [backend[b] EXCEPT !.reads = @ /\ ~(stops /\ b = c.at),
                                             !.sent = IF backend[b].exchange = x THEN @ + 1 ELSE @]]

\* A part of the response of a backend to the oldest message it was sent: the
\* head, a fragment of the body or the end, for the exchange that the
\* connection carries at that moment, if it carries any.
BackendAnswers(b, part) ==
    LET x == backend[b].exchange
        of == Head(backend[b].asked)
        ended == [backend EXCEPT ![b].asked = Tail(@), ![b].sent = 0]
    IN  /\ backend[b].status = "open" /\ backend[b].reads
        /\ backend[b].asked # <<>>
        /\ part = "head" <=> backend[b].sent = 0
        /\ part = "body" => backend[b].sent <= MostBody
        /\ CASE x = 0 ->
                  /\ backend' = IF part = "end" THEN ended ELSE [backend EXCEPT ![b].sent = @ + 1]
                  /\ UNCHANGED exchange
             [] x # 0 /\ part = "end" ->
                  /\ backend' = ended
                  /\ \E keep \in BOOLEAN :
                       exchange' = [exchange EXCEPT ![x].pending = FALSE,
                                        ![x].out = Append(@, Fragment("end", of, keep))]
             [] OTHER -> Queue(x, Fragment(part, of, TRUE))
        /\ UNCHANGED <<client, onClose, mapped, saved, streamClosed>>

\* The contexts of some exchanges are released: the backend that each of them
\* holds carries no exchange any more.
ReleaseContexts(X, ex) ==
    [e \in Exchange |-> IF e \in X THEN [ex[e] EXCEPT !.state = "over", !.at = 0, !.out = <<>>]
                        ELSE ex[e]]
Freed(X, bs) ==
    [b \in Backend |-> IF \E e \in X : exchange[e].at = b
                       THEN [bs[b] EXCEPT !.exchange = 0] ELSE bs[b]]

\* The close handler that is found in the connection of the client runs: the
\* one of the proxy looks the former one up and calls it, which is itself when
\* it was saved over itself.
CloseHandler == IF onClose = "stream" THEN "stream" ELSE saved

\* close_connection of the client: its stream releases what it holds, then
\* the backend that it is mapped to is closed and all of the maps forgotten.
CloseClient(ex, bs) ==
    IF CloseHandler = "proxy"
    THEN /\ client' = "looping"
         /\ exchange' = ex /\ backend' = bs
         /\ UNCHANGED <<onClose, mapped, saved, streamClosed>>
    ELSE LET X == {e \in Exchange : ex[e].state \in {"reading", "waiting"}}
             freed == IF CloseHandler = "stream" THEN Freed(X, bs) ELSE bs
         IN  /\ client' = "closed"
             /\ streamClosed' = streamClosed + (IF CloseHandler = "stream" THEN 1 ELSE 0)
             /\ exchange' = IF CloseHandler = "stream" THEN ReleaseContexts(X, ex) ELSE ex
             /\ onClose' = IF saved = "none" THEN onClose ELSE saved
             /\ backend' = IF onClose = "proxy" /\ mapped # 0
                           THEN [freed EXCEPT ![mapped] =
                                    [@ EXCEPT !.status = "closed", !.kept = FALSE, !.reads = FALSE]]
                           ELSE freed
             /\ mapped' = 0 /\ saved' = "none"

\* The frame that carried a fragment is counted with it.
ResumesNever(count) == count > MaxRead

\* _pending_handler_proxy: what is written counts no more, and the reading
\* goes on once little enough is left.
Less(count) == count - 1
Resumes(count) == count < TreRead

\* What is queued first of an exchange is written to the client: the reading
\* from the backend may go on, and the last of it gives the exchange up, as
\* the response of the backend says that the connection is to be treated.
Written(e) ==
    /\ client = "open"
    /\ exchange[e].out # <<>>
    /\ LET f == Head(exchange[e].out)
           at == exchange[e].at
           taken == [exchange EXCEPT ![e].out = Tail(@), ![e].got = Append(@, f)]
           less == Less(exchange[e].pendingWrite)
       IN  IF f.part \in {"head", "body"}
           THEN /\ exchange' = [taken EXCEPT ![e].pendingWrite = less]
                /\ backend' = [b \in Backend |->
                                  [backend[b] EXCEPT !.reads = @ \/ (b = at /\ Resumes(less))]]
                /\ UNCHANGED <<client, onClose, mapped, saved, streamClosed>>
           ELSE IF f.keep
           THEN /\ exchange' = ReleaseContexts({e}, taken)
                /\ backend' = Freed({e}, backend)
                /\ UNCHANGED <<client, onClose, mapped, saved, streamClosed>>
           ELSE CloseClient(ReleaseContexts({e}, taken), Freed({e}, backend))

\* The peer of the client goes away.
ClientGone == client = "open" /\ CloseClient(exchange, backend)

\* The other end of a backend goes away: what it was mapped to is forgotten
\* and the handler of the client restored; the exchange it carries has no
\* backend any more.
BackendGone(b) ==
    LET x == backend[b].exchange IN
    /\ backend[b].status = "open"
    /\ backend' = [backend EXCEPT ![b] = [NewBackend EXCEPT !.status = "closed",
                                                            !.exchange = x]]
    /\ IF backend[b].kept
       THEN onClose' = saved /\ mapped' = 0 /\ saved' = "none"
       ELSE UNCHANGED <<onClose, mapped, saved>>
    /\ exchange' = IF x = 0 THEN exchange ELSE [exchange EXCEPT ![x].at = 0]
    /\ UNCHANGED <<client, streamClosed>>

ProxyNext ==
    \/ \E e \in Exchange : VirtualUrl(e) \/ RequestComplete(e) \/ Written(e)
    \/ \E b \in Backend :
          BackendGone(b) \/ \E part \in {"head", "body", "end"} : BackendAnswers(b, part)
    \/ ClientGone

ProxySpec == ProxyInit /\ [][ProxyNext]_proxyVars

\* The event loop reads what the backends send and writes what is queued, and
\* a backend goes on with a response that it has begun.
ProxyFairness ==
    /\ \A e \in Exchange : WF_proxyVars(RequestComplete(e)) /\ WF_proxyVars(Written(e))
    /\ \A b \in Backend : WF_proxyVars(BackendAnswers(b, "head"))
    /\ \A b \in Backend : WF_proxyVars(BackendAnswers(b, "end"))

-----------------------------------------------------------------------------
(***************************************************************************)
(* Properties                                                              *)
(***************************************************************************)
\* The state of the proxy is of its type.
ProxyTypeOK ==
    /\ client \in {"open", "closed", "looping"}
    /\ onClose \in {"stream", "proxy"} /\ saved \in {"none", "stream", "proxy"}
    /\ mapped \in Backend \cup {0}
    /\ streamClosed \in Nat
    /\ \A e \in Exchange :
         /\ exchange[e].at \in Backend \cup {0}
         /\ exchange[e].state \in {"idle", "reading", "waiting", "over"}
         /\ exchange[e].pendingWrite \in 0..MostBody + 1
    /\ \A b \in Backend : backend[b].exchange \in Exchange \cup {0}

\* What is written for a message is the response to that message, whatever
\* the backend connection was used for before and whenever it answers.
NoResponseIsCrossed ==
    \A e \in Exchange : \A f \in ToSet(exchange[e].out \o exchange[e].got) : f.of = e

\* A message that waits for its backend is the one that the connection of that
\* backend carries, so that the answer finds it.
BackendCarriesItsMessage ==
    \A e \in Active :
        exchange[e].pending /\ exchange[e].at # 0 => backend[exchange[e].at].exchange = e

\* A connection carries no exchange whose context has been released.
NothingOfTheReleased ==
    \A b \in Backend :
        backend[b].status = "open" /\ backend[b].exchange # 0
            => exchange[backend[b].exchange].state # "over"

\* However the two sides go away, the close handler of the stream of the
\* client runs exactly once, and no backend is kept for a client that is gone.
ClosingReachesTheStream ==
    /\ client # "looping"
    /\ streamClosed = IF client = "closed" THEN 1 ELSE 0
    /\ client = "closed" => \A b \in Backend : ~backend[b].kept

\* The handler of the proxy is in place exactly as long as a backend is kept
\* for the client, and the maps agree with one another.
MapsAgree ==
    client = "open" =>
        /\ onClose = "proxy" <=> mapped # 0
        /\ mapped # 0 <=> saved # "none"
        /\ mapped # 0 => backend[mapped].status = "open" /\ backend[mapped].kept

\* A backend is only held back by what its exchange has queued, so that the
\* writing of it lets the reading go on; and the count of what is queued is
\* what is in the queue.
HeldBackByTheQueue ==
    /\ \A e \in Active : exchange[e].pendingWrite =
           Cardinality({i \in DOMAIN exchange[e].out : exchange[e].out[i].part \in {"head", "body"}})
    /\ \A b \in Backend : backend[b].status = "open" /\ ~backend[b].reads =>
           \E e \in Active : exchange[e].at = b /\ exchange[e].pendingWrite >= TreRead

\* The backend that a message was sent to went away before its response ended.
Lost(e) ==
    /\ exchange[e].pending /\ exchange[e].at = 0
    /\ \A f \in ToSet(exchange[e].out) : f.part # "error"

\* A message that is complete is answered, with a bad gateway when no backend
\* takes it, unless its backend goes away in the middle or the client does.
MessageIsAnswered ==
    \A e \in Exchange :
        (exchange[e].state = "waiting") ~>
            (exchange[e].state = "over" \/ Lost(e) \/ client # "open")

\* The two sides of every exchange know one another, and nobody else, until both are
\* gone.
ExchangesAreKept ==
    /\ ProxyTypeOK
    /\ NoResponseIsCrossed
    /\ BackendCarriesItsMessage
    /\ NothingOfTheReleased
    /\ ClosingReachesTheStream
    /\ MapsAgree
    /\ HeldBackByTheQueue
=============================================================================
