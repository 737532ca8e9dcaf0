------------------------------ MODULE MCHttp1 -------------------------------
(***************************************************************************)
(* The messages of HTTP/1 of the instances: with and without a payload,    *)
(* chunked, of every version and wish for the connection, the preface and  *)
(* bytes that are no message.                                              *)
(***************************************************************************)
EXTENDS HttpConnection

Header(name, value) == [name |-> name, value |-> value]
Req(method, version, url, fields, length, chunks, keep) ==
    [kind |-> "request", method |-> method, version |-> version, url |-> url,
     fields |-> fields, length |-> length, chunks |-> chunks, keep |-> keep]
Other(kind) == [kind |-> kind]

Get == Req("GET", "HTTP/1.1", <<"/a">>, <<Header(<<"con", "v">>, <<"w">>)>>, 0, <<>>, TRUE)
Post == Req("POST", "HTTP/1.1", <<"/a", "?b">>,
            <<Header(<<"con", "tent-length">>, <<"2">>)>>, 2, <<>>, TRUE)
Closing == Req("GET", "HTTP/1.1", <<"/a">>,
               <<Header(<<"con", "nection">>, <<"clo", "se">>)>>, 0, <<>>, FALSE)
Old == Req("GET", "HTTP/1.0", <<"/a">>,
           <<Header(<<"con", "nection">>, <<"keep-", "alive">>)>>, 0, <<>>, TRUE)
Older == Req("GET", "HTTP/0.9", <<"/a">>, <<>>, 0, <<>>, FALSE)
Pieces == Req("PUT", "HTTP/1.1", <<"/a">>,
              <<Header(<<"transfer-", "encoding">>, <<"chun", "ked">>)>>, 0, <<2, 1>>, TRUE)
Requests == {Get, Post, Closing, Old, Older, Pieces, Other("preface"), Other("garbage")}

\* The messages of the findings.
MovedRequests == {Get, Post}
\* With these, the session that follows is handed bytes past those it was sent.
UpgradeRequests ==
    {Get, Req("GET", "HTTP/1.1", <<"/a">>, <<Header(<<"upgrade">>, <<"v">>)>>, 0, <<>>, TRUE)}
=============================================================================
