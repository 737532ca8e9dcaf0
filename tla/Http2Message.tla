---------------------------- MODULE Http2Message ----------------------------
(***************************************************************************)
(* How the fields of a header block of HTTP/2 become the calls of a        *)
(* handler (_block, _header, _pseudo and _verify_header_http2_connection   *)
(* of src/src/viriatum/stream/stream_http2.c), which are those that the    *)
(* parser of HTTP/1 makes.  A field is known by its kind, everything the   *)
(* code tells apart.                                                       *)
(***************************************************************************)
EXTENDS Naturals, Sequences, FiniteSets, SequencesExt, Lists

CONSTANT MostFields   \* bound: the fields of one block

VARIABLES
    gathered,     \* the fields decoded so far
    trailers,   \* http2_block.trailers: a second block of the message
    pseudo,     \* http2_block.pseudo: the pseudo headers seen
    regular,    \* http2_block.regular: a field that is no pseudo header was seen
    flushed,    \* http2_block.flushed: the pseudo headers were handed over
    handlerCalls, \* the calls made to the handler
    outcome     \* "open", "complete" or "refused"

messageVars == <<gathered, trailers, pseudo, regular, flushed, handlerCalls, outcome>>

RequestPseudo == {":method", ":scheme", ":path", ":authority"}
Required == {":method", ":scheme", ":path"}
\* Pseudo headers that are refused whenever they come: of a response, with
\* an empty path, of an unknown method or scheme, with a long authority.
WrongPseudo == {":status", ":path empty", ":method unknown"}
Pseudo == RequestPseudo \cup WrongPseudo
Regular == {"accept", "te trailers", "content-length"}
\* Fields that are refused for their name, their octets or their value.
WrongRegular == {"Upper", "control", "connection", "te gzip", "content-length none"}
Kind == Pseudo \cup Regular \cup WrongRegular

MessageInit ==
    /\ trailers \in BOOLEAN
    /\ gathered = <<>> /\ pseudo = {} /\ regular = FALSE /\ flushed = FALSE
    /\ handlerCalls = IF trailers THEN <<>> ELSE <<"begin">>
    /\ outcome = "open"

\* _pseudo_http2_connection: the calls it adds and whether it refuses.
PseudoCallsAlways == <<"url">> \o (IF ":authority" \in pseudo THEN <<"host">> ELSE <<>>)
PseudoCalls ==
    IF flushed \/ trailers THEN <<>>
    ELSE <<"url">> \o (IF ":authority" \in pseudo THEN <<"host">> ELSE <<>>)
PseudoIncomplete == ~flushed /\ ~trailers /\ ~(Required \subseteq pseudo)

RefuseField == outcome' = "refused" /\ UNCHANGED <<pseudo, regular, flushed, handlerCalls>>

PseudoField(f) ==
    /\ f \in Pseudo
    /\ IF regular \/ trailers \/ f \in WrongPseudo \/ f \in pseudo
       THEN RefuseField
       ELSE pseudo' = pseudo \cup {f} /\ UNCHANGED <<regular, flushed, handlerCalls, outcome>>

\* The pseudo headers are handed over before the first field that is none,
\* and stay handed over when that field is refused.
RegularField(f) ==
    /\ f \notin Pseudo
    /\ flushed' = TRUE
    /\ UNCHANGED pseudo
    /\ IF PseudoIncomplete
       THEN outcome' = "refused" /\ UNCHANGED <<regular, handlerCalls>>
       ELSE /\ regular' = TRUE
            /\ IF f \in WrongRegular
               THEN handlerCalls' = handlerCalls \o PseudoCalls /\ outcome' = "refused"
               ELSE handlerCalls' = handlerCalls \o PseudoCalls \o <<f>> /\ UNCHANGED outcome

GatherField(f) ==
    /\ outcome = "open" /\ Len(gathered) < MostFields
    /\ gathered' = Append(gathered, f)
    /\ PseudoField(f) \/ RegularField(f)
    /\ UNCHANGED trailers

\* The end of the block, in the case of END_STREAM with the message.
EndOfFields ==
    /\ outcome = "open"
    /\ flushed' = TRUE
    /\ IF PseudoIncomplete
       THEN outcome' = "refused" /\ UNCHANGED handlerCalls
       ELSE /\ outcome' = "complete"
            /\ handlerCalls' = handlerCalls \o PseudoCalls \o (IF trailers THEN <<>> ELSE <<"headers">>)
    /\ UNCHANGED <<gathered, trailers, pseudo, regular>>

MessageNext == EndOfFields \/ \E f \in Kind : GatherField(f)

MessageSpec == MessageInit /\ [][MessageNext]_messageVars

-----------------------------------------------------------------------------
(* Properties. *)

SelectFields(S) == Those(gathered, S)

\* A message that is complete reached the handler exactly as HTTP/1 would
\* have brought it: the start, the url, the host, the fields in their order
\* and the end of the headers; a section of trailers brings its fields alone.
ReachesTheHandlerInOrder ==
    outcome = "complete" =>
        handlerCalls = IF trailers THEN gathered
                ELSE <<"begin", "url">> \o
                     (IF ":authority" \in ToSet(gathered) THEN <<"host">> ELSE <<>>) \o
                     SelectFields(Regular) \o <<"headers">>

\* The handler is never told of the url of a request that lacks one of the
\* required pseudo headers, nor of a field of it, and none is told twice.
NothingOfTheIncomplete ==
    /\ ToSet(handlerCalls) \cap ({"url", "host"} \cup Regular) # {} =>
          trailers \/ Required \subseteq ToSet(gathered)
    /\ \A i, j \in DOMAIN handlerCalls : handlerCalls[i] \in {"begin", "url", "host", "headers"}
                                  /\ handlerCalls[i] = handlerCalls[j] => i = j

\* A block is complete only when each of its fields may be there, and stands
\* where it may: the pseudo headers once, before the others, not in trailers.
OnlyLegalBlocks ==
    outcome = "complete" =>
        /\ ToSet(gathered) \cap (WrongPseudo \cup WrongRegular) = {}
        /\ \A i, j \in DOMAIN gathered :
              /\ gathered[i] = gathered[j] /\ gathered[i] \in Pseudo => i = j
              /\ i < j /\ gathered[j] \in Pseudo => gathered[i] \in Pseudo
        /\ trailers => ToSet(gathered) \cap Pseudo = {}

\* A block of fields, in whatever order they come, is a whole message of HTTP/1 to the
\* handler, or trailers of one, or it is refused and never told to its end.
BlocksAreMessages ==
    ReachesTheHandlerInOrder /\ NothingOfTheIncomplete /\ OnlyLegalBlocks
=============================================================================
