----------------------------- MODULE HttpParser -----------------------------
(***************************************************************************)
(* The incremental parser of HTTP/1 (http_parser.c): what one call of      *)
(* process_data_http_parser does to the state it keeps between two calls.  *)
(* The bytes of a message are lexical units, each the run of bytes that    *)
(* the automaton consumes without a decision in between; a word that it    *)
(* recognises letter by letter is two units, so that a read may end in the *)
(* middle of it.                                                           *)
(***************************************************************************)
EXTENDS Integers, Sequences, SequencesExt

Type == {"request", "response"}

\* enum http_flags_e, but for the ones of the upper layers.
Flag == {"chunked", "keep_alive", "close", "trailing", "upgrade"}

\* How the methods are spelled, and the ones told apart by a later letter.
Spelling == [GET |-> <<"GE", "T">>, POST |-> <<"P", "OST">>,
             PUT |-> <<"P", "UT">>, CONNECT |-> <<"CON", "NECT">>]
FirstOf == [u \in {"GE", "P", "CON"} |->
               CASE u = "GE" -> "GET" [] u = "P" -> "POST" [] u = "CON" -> "CONNECT"]

\* http_version and what http_should_keep_alive takes of it.
Versions == {"HTTP/1.1", "HTTP/1.0"}
Digit == [u \in {"0", "1", "2", "3"} |->
             CASE u = "0" -> 0 [] u = "1" -> 1 [] u = "2" -> 2 [] u = "3" -> 3]
Blank == {"SP", "TAB"}
EndOfLine == {"CR", "LF"}

\* The characters of array tokens, no one of a line ending or a colon.
IsToken(u) == u \notin EndOfLine \cup {":", "TAB", "?"}
\* The characters of array normal_url_char.
IsUrl(u) == u \notin EndOfLine \cup {"SP", "TAB", "?"}

\* A reference into memory that does not hold the message any more.
Stale == -1
Garbage == <<"garbage">>

\* struct http_parser_t after create_http_parser: mark is whichever of the
\* three marks is set, 0 when none is.
NewParser(type) ==
    [type |-> type,
     state |-> IF type = "request" THEN "start_req" ELSE "start_res",
     header |-> "none", index |-> 0, flags |-> {"keep_alive", "close"},
     contentLength |-> -1, announced |-> 0, method |-> "none",
     version |-> "none", upgrade |-> FALSE, mark |-> 0]

\* An ongoing call: the parser, the callbacks made, the pointer, whether a
\* message was completed by it (parse_count) and how it returns early.
Running(parser, from) ==
    [p |-> parser, calls |-> <<>>, at |-> from, stop |-> FALSE, exit |-> "none"]

Call(r, on, what) == [r EXCEPT !.calls = Append(@, [on |-> on, data |-> what])]
Go(r, state) == [r EXCEPT !.p.state = state]
Fail(r) == [r EXCEPT !.stop = TRUE, !.exit = "error"]
MarkHere(r) == [r EXCEPT !.p.mark = r.at]

\* http_should_keep_alive.
KeepsAlive(p) ==
    IF p.version = "HTTP/1.1" THEN "close" \notin p.flags ELSE "keep_alive" \in p.flags

\* The size of a message as on_headers_complete is told it.
Announced(p) == IF p.contentLength > 0 THEN p.contentLength ELSE 0

\* HTTP_CALLBACK_DATA: what lies between the mark and the pointer.
Marked(r, buffer) ==
    IF r.p.mark = Stale THEN Garbage ELSE SubSeq(buffer, r.p.mark, r.at - 1)
Hand(r, buffer, on) ==
    IF r.p.mark = 0 THEN r
    ELSE [Call(r, on, Marked(r, buffer)) EXCEPT !.p.mark = 0]

\* message_complete and NEW_MESSAGE: the loop stops at the next byte.
CompleteMessage(r) ==
    [Call(r, "complete", KeepsAlive(r.p)) EXCEPT
        !.p.state = IF r.p.type = "request" THEN "start_req" ELSE "start_res",
        !.stop = TRUE]

Begin(r) ==
    Call([r EXCEPT !.p.flags = {}, !.p.contentLength = -1], "begin", <<>>)

Start(r, u) ==
    IF r.p.type = "request"
    THEN IF u \in EndOfLine THEN r
         ELSE IF u \in DOMAIN FirstOf
         THEN [Begin(r) EXCEPT !.p.method = FirstOf[u], !.p.index = 1, !.p.state = "method"]
         ELSE Fail(Begin(r))
    ELSE IF u \in Versions
         THEN [Begin(r) EXCEPT !.p.version = u, !.p.state = "status_code"]
         ELSE IF u \in EndOfLine THEN Begin(r) ELSE Fail(Begin(r))

\* STATE_REQ_METHOD: matches the name letter by letter, changing it where
\* two names part.
Method(r, u) ==
    LET spelled == Spelling[r.p.method] IN
    IF r.p.index = Len(spelled)
    THEN IF u = "SP" THEN Go(r, "before_url") ELSE Fail(r)
    ELSE IF u = spelled[r.p.index + 1] THEN [r EXCEPT !.p.index = @ + 1]
    ELSE IF r.p.method = "POST" /\ u = Spelling.PUT[2]
    THEN [r EXCEPT !.p.method = "PUT", !.p.index = @ + 1]
    ELSE Fail(r)

\* STATE_REQ_SPACES_BEFORE_URL to STATE_REQ_FRAGMENT.
BeforeUrl(r, u) ==
    IF u = "SP" THEN r
    ELSE IF IsUrl(u) THEN Go(MarkHere(r), "url") ELSE Fail(r)

Url(r, buffer, u) ==
    IF IsUrl(u) THEN r
    ELSE IF u = "SP" THEN Go(Hand(r, buffer, "url"), "version")
    ELSE IF u = "CR"
    THEN [Go(Hand(r, buffer, "url"), "line_almost_done") EXCEPT !.p.version = "HTTP/0.9"]
    ELSE IF u = "LF"
    THEN [Call(Go(Hand(r, buffer, "url"), "field_start"), "line", <<>>)
             EXCEPT !.p.version = "HTTP/0.9"]
    ELSE Fail(r)

\* STATE_REQ_HTTP_START to STATE_REQ_HTTP_MINOR.
Version(r, u) ==
    IF r.p.state = "version"
    THEN IF u = "SP" THEN r
         ELSE IF u \in Versions THEN [Go(r, "version_end") EXCEPT !.p.version = u]
         ELSE Fail(r)
    ELSE IF u = "CR" THEN Go(r, "line_almost_done")
    ELSE IF u = "LF" THEN Go(Call(r, "line", <<>>), "field_start")
    ELSE Fail(r)

\* STATE_RES_FIRST_STATUS_CODE to STATE_RES_LINE_ALMOST_DONE.
Status(r, u) ==
    IF r.p.state = "status_code"
    THEN IF u = "SP" THEN r ELSE IF u = "200" THEN Go(r, "status") ELSE Fail(r)
    ELSE IF u = "CR" THEN Go(r, "line_almost_done")
    ELSE IF u = "LF" THEN Go(Call(r, "line", <<>>), "field_start")
    ELSE r

LineAlmostDone(r, u) ==
    IF u # "LF" /\ r.p.type = "request" THEN Fail(r)
    ELSE Go(Call(r, "line", <<>>), "field_start")

\* The names the parser looks at, recognised as they are read.
StartName(u) == IF u \in {"con", "transfer-", "upgrade"} THEN u ELSE "general"
AfterName(header, u) ==
    CASE header = "con" /\ u = "nection" -> "connection"
      [] header = "con" /\ u = "tent-length" -> "content-length"
      [] header = "transfer-" /\ u = "encoding" -> "transfer-encoding"
      [] header \in {"connection", "content-length", "transfer-encoding", "upgrade"}
            /\ u = "SP" -> header
      [] OTHER -> "general"

\* The end of the headers, or of the trailers that follow the last chunk.
HeadersDone(r) ==
    IF "trailing" \in r.p.flags THEN CompleteMessage(r)
    ELSE LET upgrade == "upgrade" \in r.p.flags \/ r.p.method = "CONNECT"
             told == Call([r EXCEPT !.p.upgrade = upgrade, !.p.announced = Announced(r.p)],
                          "headers", Announced(r.p))
         IN  IF upgrade
             THEN [Call(told, "complete", KeepsAlive(r.p)) EXCEPT
                      !.stop = TRUE, !.exit = "upgrade"]
             ELSE IF "chunked" \in r.p.flags THEN Go(told, "chunk_size_start")
             ELSE IF r.p.contentLength = 0 THEN CompleteMessage(told)
             ELSE IF r.p.contentLength > 0 THEN Go(told, "body")
             ELSE IF r.p.type = "request" \/ KeepsAlive(r.p) THEN CompleteMessage(told)
             ELSE Go(told, "body_eof")

FieldStart(r, u) ==
    IF u = "CR" THEN Go(r, "headers_almost_done")
    ELSE IF u = "LF" THEN HeadersDone(Go(r, "headers_almost_done"))
    ELSE IF ~IsToken(u) THEN Fail(r)
    ELSE [Go(MarkHere(r), "field") EXCEPT !.p.header = StartName(u)]

Field(r, buffer, u) ==
    IF IsToken(u) THEN [r EXCEPT !.p.header = AfterName(@, u)]
    ELSE IF u = ":" THEN Go(Hand(r, buffer, "field"), "value_start")
    ELSE IF u = "CR" THEN Go(Hand(r, buffer, "field"), "almost_done")
    ELSE IF u = "LF" THEN Go(Hand(r, buffer, "field"), "field_start")
    ELSE Fail(r)

\* The first letter of a value, and the ones that follow it.
StartValue(r, u) ==
    CASE r.p.header = "upgrade" ->
            [r EXCEPT !.p.flags = @ \cup {"upgrade"}, !.p.header = "general"]
      [] r.p.header = "transfer-encoding" /\ u = "chun" -> [r EXCEPT !.p.header = u]
      [] r.p.header = "connection" /\ u \in {"keep-", "clo"} -> [r EXCEPT !.p.header = u]
      [] r.p.header = "content-length" ->
            IF u \in DOMAIN Digit THEN [r EXCEPT !.p.contentLength = Digit[u]] ELSE Fail(r)
      [] OTHER -> [r EXCEPT !.p.header = "general"]

NextValue(r, u) ==
    CASE r.p.header = "content-length" ->
            IF u = "SP" THEN r
            ELSE IF u \in DOMAIN Digit
            THEN [r EXCEPT !.p.contentLength = 10 * @ + Digit[u]] ELSE Fail(r)
      [] r.p.header = "chun" /\ u = "ked" -> [r EXCEPT !.p.header = "chunked"]
      [] r.p.header = "keep-" /\ u = "alive" -> [r EXCEPT !.p.header = "keep_alive"]
      [] r.p.header = "clo" /\ u = "se" -> [r EXCEPT !.p.header = "close"]
      [] r.p.header \in {"chunked", "keep_alive", "close"} /\ u = "SP" -> r
      [] OTHER -> [r EXCEPT !.p.header = "general"]

\* What the value said is forgotten when it ends with a bare line feed.
AlmostDoneForgets(r) == Go(r, "value_lws")

\* STATE_HEADER_ALMOST_DONE: only now is what the value said taken.
AlmostDone(r) ==
    [Go(r, "value_lws") EXCEPT
        !.p.flags = @ \cup ({r.p.header} \cap {"chunked", "keep_alive", "close"})]

ValueStart(r, buffer, u) ==
    IF u \in Blank THEN r
    ELSE LET m == Go(MarkHere(r), "value") IN
         IF u = "CR"
         THEN [Go(Hand(m, buffer, "value"), "almost_done") EXCEPT !.p.header = "general"]
         ELSE IF u = "LF" THEN Go(Hand(m, buffer, "value"), "field_start")
         ELSE StartValue(m, u)

Value(r, buffer, u) ==
    IF u = "CR" THEN Go(Hand(r, buffer, "value"), "almost_done")
    ELSE IF u = "LF" THEN AlmostDone(Hand(r, buffer, "value"))
    ELSE NextValue(r, u)

\* A line that starts with a blank goes on with the value before it.
ValueLws(r, u) ==
    IF u \in Blank THEN Go(r, "value_start") ELSE FieldStart(r, u)

\* A payload of an announced size, and one that only the end of the
\* connection ends: each unit of it is a call here, a run of them in the code.
Body(r) ==
    LET b == [Call(r, "body", <<"b">>) EXCEPT !.p.contentLength = @ - 1] IN
    IF b.p.contentLength = 0 THEN CompleteMessage(b) ELSE b
BodyEof(r) == Call(r, "body", <<"b">>)

ChunkSize(r, u) ==
    CASE r.p.state = "chunk_size_start" ->
            IF u \in DOMAIN Digit
            THEN [Go(r, "chunk_size") EXCEPT !.p.contentLength = Digit[u]] ELSE Fail(r)
      [] r.p.state = "chunk_size" /\ u = "CR" -> Go(r, "chunk_size_almost_done")
      [] r.p.state = "chunk_size" /\ u \in DOMAIN Digit ->
            [r EXCEPT !.p.contentLength = 16 * @ + Digit[u]]
      [] r.p.state = "chunk_size" /\ u \in {";", "SP"} -> Go(r, "chunk_parameters")
      [] r.p.state = "chunk_parameters" ->
            IF u = "CR" THEN Go(r, "chunk_size_almost_done") ELSE r
      [] r.p.state = "chunk_size_almost_done" ->
            IF r.p.contentLength = 0
            THEN [Go(Call(r, "line", <<>>), "field_start")
                     EXCEPT !.p.flags = @ \cup {"trailing"}]
            ELSE Go(r, "chunk_data")
      [] OTHER -> Fail(r)

ChunkData(r) ==
    CASE r.p.state = "chunk_data" ->
            [Call(r, "body", <<"b">>) EXCEPT
                !.p.contentLength = @ - 1,
                !.p.state = IF r.p.contentLength = 1 THEN "chunk_data_almost_done" ELSE @]
      [] r.p.state = "chunk_data_almost_done" -> Go(r, "chunk_data_done")
      [] OTHER -> Go(r, "chunk_size_start")

\* One turn of the loop of process_data_http_parser.
OneByte(r, buffer) ==
    LET u == buffer[r.at]
        s == r.p.state
        n == CASE s \in {"start_req", "start_res"} -> Start(r, u)
               [] s = "method" -> Method(r, u)
               [] s = "before_url" -> BeforeUrl(r, u)
               [] s = "url" -> Url(r, buffer, u)
               [] s \in {"version", "version_end"} -> Version(r, u)
               [] s \in {"status_code", "status"} -> Status(r, u)
               [] s = "line_almost_done" -> LineAlmostDone(r, u)
               [] s = "field_start" -> FieldStart(r, u)
               [] s = "field" -> Field(r, buffer, u)
               [] s = "value_start" -> ValueStart(r, buffer, u)
               [] s = "value" -> Value(r, buffer, u)
               [] s = "almost_done" -> AlmostDone(r)
               [] s = "value_lws" -> ValueLws(r, u)
               [] s = "headers_almost_done" -> HeadersDone(r)
               [] s = "body" -> Body(r)
               [] s = "body_eof" -> BodyEof(r)
               [] s \in {"chunk_size_start", "chunk_size", "chunk_parameters",
                         "chunk_size_almost_done"} -> ChunkSize(r, u)
               [] OTHER -> ChunkData(r)
    IN  [n EXCEPT !.at = @ + 1]

\* The end of the call: an exit in the middle of it, an error or a message
\* that asks for another protocol, keeps nothing of where the call was.
Return(r, parser) ==
    CASE r.exit # "none" ->
            [r EXCEPT !.p.state = parser.state, !.p.header = parser.header,
                      !.p.index = parser.index, !.p.mark = parser.mark]
      [] r.exit = "none" /\ r.p.state = "body_eof" -> CompleteMessage(r)
      [] OTHER -> r

\* process_data_http_parser over what lies in the buffer from a position on:
\* the parser, the callbacks, the size processed and whether it is an error.
Process(parser, buffer, from) ==
    LET n == Len(buffer) - from + 1
        step(r, k) == IF r.stop THEN r ELSE OneByte(r, buffer)
        end == Return(FoldLeft(step, Running(parser, from), [k \in 1..n |-> k]), parser)
    IN  IF n <= 0
        THEN [p |-> parser, calls |-> IF parser.state = "body_eof"
                                      THEN <<[on |-> "complete", data |-> KeepsAlive(parser)]>>
                                      ELSE <<>>,
              size |-> IF parser.state \in {"start_req", "start_res", "body_eof"} THEN 0 ELSE 1,
              error |-> FALSE]
        ELSE [p |-> end.p, calls |-> end.calls, size |-> end.at - from,
              error |-> end.exit = "error"]
=============================================================================
