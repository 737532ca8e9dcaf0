-------------------------------- MODULE Wsgi --------------------------------
(***************************************************************************)
(* The WSGI handler of the Python package (viriatum_python/handler.c): one *)
(* request, from the callbacks of the parser that gather it to the one     *)
(* response that is composed when the application has returned.            *)
(*                                                                         *)
(* The application calls start_response again only as its specification    *)
(* allows, with the exception that the first call ended in.                *)
(***************************************************************************)
EXTENDS Integers, FiniteSets, SequencesExt, Lists

CONSTANTS
    WsName,          \* names of header fields
    WsMaxHeaders,    \* VIRIATUM_PYTHON_MAX_HEADERS
    WsMaxBody,       \* VIRIATUM_PYTHON_MAX_BODY
    WsFailsAnnounced,\* an application that has announced a length of its own may fail
                     \* while its result is gathered
    MostLines,       \* bound: header lines of a request, folded ones included
    MostPieces,      \* bound: pieces of the payload of a request
    MostStarts       \* bound: calls of start_response

ASSUME WsgiAssumption ==
    /\ {WsMaxHeaders, MostLines, MostPieces, MostStarts} \subseteq Nat
    /\ WsMaxBody \in Nat \ {0} /\ WsFailsAnnounced \in BOOLEAN

VARIABLES
    wsLines,     \* what the peer sent: lines of a name, or folded ones; 0 is no value
    wsPieces,    \* the sizes of the pieces of its payload
    wsPairs,     \* the context: the pairs of fields and values
    wsField,     \* the field that waits for its value, NoName while there is none
    wsBody,      \* the payload gathered, by pieces
    wsOverflow,
    wsState,     \* head, body, called, responded
    wsEnviron,   \* what the application was called with
    wsStarts,    \* calls of start_response: what each was given, and how it ended
    wsStarted,
    wsStatus,
    wsHeaders,   \* the headers of the response, each by the call that set it
    wsWritten,   \* bytes given to the write callable
    wsResponse   \* what was written: status, headers, announced length, payload

wsRequestVars == <<wsLines, wsPieces, wsPairs, wsField, wsBody, wsOverflow>>
wsAnswerVars == <<wsStarts, wsStarted, wsStatus, wsHeaders, wsWritten>>
wsVars == <<wsRequestVars, wsState, wsEnviron, wsAnswerVars, wsResponse>>

NoName == ""

WsInit ==
    /\ wsLines = <<>> /\ wsPieces = <<>> /\ wsPairs = <<>> /\ wsField = NoName
    /\ wsBody = <<>> /\ wsOverflow = FALSE
    /\ wsState = "head"
    /\ wsEnviron = [names |-> [n \in WsName |-> <<>>], body |-> <<>>]
    /\ wsStarts = <<>> /\ wsStarted = FALSE /\ wsStatus = 0 /\ wsHeaders = <<>> /\ wsWritten = 0
    /\ wsResponse = [status |-> 0, headers |-> <<>>, length |-> 0, payload |-> 0]

-----------------------------------------------------------------------------
(* The request: a line is its field and, when it has one, its value; the   *)
(* value of a folded line comes alone.                                     *)

Gathered == Len(wsPairs) >= WsMaxHeaders

\* The field waits for a value, in the place of one that never got its own.
FieldWaiting(name) == IF Gathered THEN wsField ELSE name

\* The value closes the pair of the field that waits, and is ignored without one.
Closed(field, value) ==
    IF Gathered \/ field = NoName \/ value = 0 THEN wsPairs ELSE Append(wsPairs, <<field, value>>)
StillWaiting(field, value) == IF Gathered \/ value = 0 THEN field ELSE NoName

Line(name, value) ==
    /\ wsState = "head" /\ Len(wsLines) < MostLines
    /\ wsLines' = Append(wsLines, [name |-> name, value |-> value])
    /\ LET field == IF name = NoName THEN wsField ELSE FieldWaiting(name)
       IN  /\ wsPairs' = Closed(field, value)
           /\ wsField' = StillWaiting(field, value)
    /\ UNCHANGED <<wsPieces, wsBody, wsOverflow, wsState, wsEnviron, wsAnswerVars, wsResponse>>

\* A line of a name with a value or with none, or a folded one.
Lines ==
    \E name \in WsName \union {NoName}, value \in {0, Len(wsLines) + 1} :
        /\ name = NoName => wsLines # <<>> /\ value # 0
        /\ Line(name, value)

\* A piece that would exceed the maximum is dropped and marks the request.
Size(pieces) == SumOf([i \in 1..Len(pieces) |-> pieces[i].size])
Overflows(size) == Size(wsBody) + size > WsMaxBody

Piece(size) ==
    /\ wsState \in {"head", "body"} /\ Len(wsPieces) < MostPieces
    /\ wsState' = "body"
    /\ LET piece == [at |-> Len(wsPieces) + 1, size |-> size]
       IN  /\ wsPieces' = Append(wsPieces, piece)
           /\ wsBody' = IF Overflows(size) THEN wsBody ELSE Append(wsBody, piece)
    /\ wsOverflow' = (wsOverflow \/ Overflows(size))
    /\ UNCHANGED <<wsLines, wsPairs, wsField, wsEnviron, wsAnswerVars, wsResponse>>

\* The environ: the values of the fields of one name are joined, in their order.
ValuesJoined(name) ==
    LET of == Those(wsPairs, {name} \X Nat)
    IN  [i \in DOMAIN of |-> of[i][2]]

\* A request is refused when a piece was dropped, whatever was gathered after it.
RefusesTheGathered == Overflows(0)
RefusesCut == wsOverflow

-----------------------------------------------------------------------------
(* The response.                                                           *)

\* What the envelope announces: the length the application set, or that of the
\* payload, what was written before what was returned.
Total(size) == wsWritten + size

Announces(headers, size) ==
    LET own == {i \in DOMAIN headers : headers[i].own}
    IN  IF own = {} THEN Total(size) ELSE headers[CHOOSE i \in own : \A j \in own : i <= j].length

Respond(status, headers, size) ==
    /\ wsState' = "responded"
    /\ wsResponse' = [status |-> status, headers |-> headers, length |-> Announces(headers, size),
                      payload |-> wsWritten + size]

\* The message is complete: a request that was cut is refused, any other is handed
\* to the application.
Complete ==
    /\ wsState \in {"head", "body"}
    /\ IF RefusesCut
       THEN /\ Respond(413, <<>>, 0)
            /\ UNCHANGED <<wsEnviron, wsStatus>>
       ELSE /\ wsState' = "called"
            /\ wsStatus' = 500
            /\ wsEnviron' = [names |-> [n \in WsName |-> ValuesJoined(n)], body |-> wsBody]
            /\ UNCHANGED wsResponse
    /\ UNCHANGED <<wsRequestVars, wsStarts, wsStarted, wsHeaders, wsWritten>>

\* The headers that a call gives, its own length among them or not.
HeadersGiven(call, own, length) ==
    <<[call |-> call, own |-> FALSE, length |-> 0]>>
        \o (IF own THEN <<[call |-> call, own |-> TRUE, length |-> length]>> ELSE <<>>)

\* The headers that a call begins with: those before it are discarded when it
\* brings an exception.
StartsOver(exception) == IF exception THEN <<>> ELSE wsHeaders

\* start_response: the exception is raised again once a response was started; the
\* call may fail on the status, or on one of the headers, with those before it
\* set; or it starts the response.
StartResponseCalled(exception) ==
    LET call == Len(wsStarts) + 1
        ends(how) == wsStarts' = Append(wsStarts, how)
    IN  /\ wsState = "called" /\ call <= MostStarts
        /\ exception <=> wsStarts # <<>>
        /\ \/ /\ exception /\ wsStarted
              /\ ends("raised")
              /\ UNCHANGED <<wsStarted, wsStatus, wsHeaders>>
           \/ /\ ~(exception /\ wsStarted)
              /\ \/ /\ ends("refused") /\ wsHeaders' = StartsOver(exception)
                    /\ UNCHANGED <<wsStarted, wsStatus>>
                 \/ \E own \in BOOLEAN, length \in 0..2, stored \in 1..2 :
                      LET given == HeadersGiven(call, own, length)
                      IN  /\ stored < Len(given)
                          /\ ends("refused") /\ wsStatus' = 200
                          /\ wsHeaders' = StartsOver(exception) \o SubSeq(given, 1, stored)
                          /\ UNCHANGED wsStarted
                 \/ \E own \in BOOLEAN, length \in 0..2 :
                      /\ own \/ length = 0
                      /\ ends("started") /\ wsStatus' = 200 /\ wsStarted' = TRUE
                      /\ wsHeaders' = StartsOver(exception) \o HeadersGiven(call, own, length)
        /\ UNCHANGED <<wsRequestVars, wsState, wsEnviron, wsWritten, wsResponse>>

\* The write callable, that a call which started the response returned.
WriteCalled ==
    /\ wsState = "called" /\ wsStarted /\ wsWritten < 1
    /\ wsWritten' = wsWritten + 1
    /\ UNCHANGED <<wsRequestVars, wsState, wsEnviron, wsStarts, wsStarted, wsStatus, wsHeaders, wsResponse>>

\* The application raises: an error, without any of its headers.
HeadersDropped == <<>>
ApplicationRaises ==
    /\ wsState = "called"
    /\ Respond(500, HeadersDropped, 0)
    /\ wsHeaders' = HeadersDropped /\ wsStatus' = 500
    /\ UNCHANGED <<wsRequestVars, wsEnviron, wsStarts, wsStarted, wsWritten>>

\* It returns an iterable, all of which is joined, having started a response; a
\* length of its own is that of what it writes and returns.
ApplicationReturns(size) ==
    /\ wsState = "called" /\ wsStarted
    /\ \A i \in DOMAIN wsHeaders : wsHeaders[i].own => wsHeaders[i].length = wsWritten + size
    /\ Respond(wsStatus, wsHeaders, size)
    /\ UNCHANGED <<wsRequestVars, wsEnviron, wsAnswerVars>>

\* The iterable fails, or has an item that is not of bytes: an error, with the
\* headers of the application.
IterationFails ==
    /\ wsState = "called" /\ wsStarted
    /\ WsFailsAnnounced \/ \A i \in DOMAIN wsHeaders : ~wsHeaders[i].own
    /\ Respond(500, wsHeaders, 0)
    /\ wsStatus' = 500
    /\ UNCHANGED <<wsRequestVars, wsEnviron, wsStarts, wsStarted, wsHeaders, wsWritten>>


WsNext ==
    \/ Lines
    \/ \E size \in 1..2 : Piece(size)
    \/ Complete
    \/ \E exception \in BOOLEAN : StartResponseCalled(exception)
    \/ WriteCalled
    \/ ApplicationRaises
    \/ \E size \in 0..1 : ApplicationReturns(size)
    \/ IterationFails

WsSpec == WsInit /\ [][WsNext]_wsVars

-----------------------------------------------------------------------------
(* The properties.                                                         *)

\* The value of line i: its own, or that of the first folded line below it.
ValueOf(i) ==
    LET own == {k \in i..Len(wsLines) :
                   wsLines[k].value # 0 /\ \A j \in i + 1..k : wsLines[j].name = NoName}
    IN  IF own = {} THEN 0 ELSE wsLines[CHOOSE k \in own : \A j \in own : k <= j].value

\* The lines the request is to be known by: the first ones that have a value.
Known ==
    LET valued == {i \in DOMAIN wsLines : wsLines[i].name # NoName /\ ValueOf(i) # 0}
    IN  {i \in valued : Cardinality({j \in valued : j < i}) < WsMaxHeaders}

\* The environ has every field under its own name, the values of one name in the
\* order of the request, and none that belongs to another line: fields and values
\* come in callbacks of their own (handler.c:346-403, 575-606).
FieldsKeepTheirValues ==
    wsState = "called" =>
        \A n \in WsName :
            wsEnviron.names[n] =
                LET of == Those([i \in DOMAIN wsLines |-> i],
                                {i \in Known : wsLines[i].name = n})
                IN  [k \in DOMAIN of |-> ValueOf(of[k])]

\* The application has all of the payload or is not called: a piece after one that
\* was dropped may still fit (handler.c:410-450, 900-935).
WholeOrRefused ==
    /\ wsState = "called" => wsEnviron.body = wsPieces
    /\ wsResponse.status = 413 <=> wsState = "responded" /\ Size(wsPieces) > WsMaxBody

\* The headers of a response are those of one call of start_response, the last that
\* started it (handler.c:747-768, 797-853).
HeadersOfOneStart ==
    wsState = "responded" =>
        \A i \in DOMAIN wsResponse.headers :
            /\ wsStarts[wsResponse.headers[i].call] = "started"
            /\ wsResponse.headers[i].call = wsResponse.headers[1].call

\* A response announces the payload that it has, an error its own: the next message
\* of the connection is read behind it (handler.c:977-1040).
AnnouncedIsWritten == wsState = "responded" => wsResponse.length = wsResponse.payload

\* An application is called with the request that was sent, or not at all, and answers
\* with the response of one start.
RequestIsWhole ==
    FieldsKeepTheirValues /\ WholeOrRefused /\ HeadersOfOneStart /\ AnnouncedIsWritten
=============================================================================
