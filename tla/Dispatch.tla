------------------------------ MODULE Dispatch ------------------------------
(***************************************************************************)
(* The dispatch handler (handler_dispatch.c): the base handler of a        *)
(* connection, which gives every message to the handler of the first       *)
(* location that its path matches, and answers those of a handler that is  *)
(* not loaded itself.                                                      *)
(***************************************************************************)
EXTENDS Integers, Sequences, SequencesExt, FiniteSets, FiniteSetsExt

CONSTANTS
    DpPath,       \* bound: the paths that are asked for
    DpLength(_),  \* the characters of a path
    DpIndex(_),   \* the path of the index file of a directory, or the path itself
    DpLocations,  \* the handlers of the locations, in their order
    DpEnd(_, _),  \* where the match of a location ends in a path, -1 when there is none
    DpSlash(_, _),  \* whether a character of a path is a slash
    DpLoaded,     \* bound: the handlers that may be loaded
    MostMessages  \* bound: messages on the connection

VARIABLES
    dpHandlers,  \* http_handlers_map
    dpBound,     \* http_handler of the connection
    dpSettings,  \* the handler whose callbacks are in http_settings
    dpContext,   \* the handler that context of the request belongs to
    dpMessage,   \* the message that is in progress, and how far it is
    dpServed     \* the messages that have been answered, as they were

dpVars == <<dpHandlers, dpBound, dpSettings, dpContext, dpMessage, dpServed>>

NoHandler == "none"
Fallback == "file"  \* DISPATCH_DEFAULT_HANDLER

\* What the handler of a message was told, after the index of its location the
\* offset of the virtual url.
NewMessage == [phase |-> "idle", path |-> NoHandler, told |-> <<>>, status |-> 0]

DpInit ==
    /\ dpHandlers \in DpLoaded
    /\ dpBound = NoHandler /\ dpSettings = NoHandler /\ dpContext = NoHandler
    /\ dpMessage = NewMessage
    /\ dpServed = <<>>

\* calculate_locations_service, register_handler_dispatch: the locations of the
\* configuration, each with its expression, in its order.
Matching(path) == {l \in DOMAIN DpLocations : DpEnd(l, path) # -1}

\* Where the search through the expressions stops.
LocationOf(path) == IF Matching(path) = {} THEN Len(DpLocations) + 1 ELSE Min(Matching(path))

HandlerOf(l) == IF l \in DOMAIN DpLocations THEN DpLocations[l] ELSE Fallback

\* What is told of a location: where its match ends in the path that was asked
\* for, without the character after it, or from the slash that it ends in.
LocationTold(l, end, asked) ==
    <<<<"location", l>>,
      <<"virtual_url", IF end > 0 /\ DpSlash(asked, end) THEN end - 1 ELSE end>>>>

IsLoaded(handler) == handler \in dpHandlers

-----------------------------------------------------------------------------
Binds(handler) == dpBound' = handler /\ dpSettings' = handler

\* data_handler_stream_http, before a message of a connection without a handler.
MessageBegins(path) ==
    /\ dpMessage.phase = "idle" /\ Len(dpServed) < MostMessages
    /\ Binds("dispatch")
    /\ dpMessage' = [NewMessage EXCEPT !.phase = "begun", !.path = path]
    /\ UNCHANGED <<dpHandlers, dpContext, dpServed>>

\* url_callback_handler_dispatch: the handler of the location of the path, which
\* an index file may change; a handler that is not loaded is found to be so only
\* for the path that was asked for.
UrlCallback ==
    LET asked == dpMessage.path
        first == LocationOf(asked)
        handler == HandlerOf(first)
        resolves == handler = "file" /\ DpIndex(asked) # asked
        path == IF resolves THEN DpIndex(asked) ELSE asked
        l == IF resolves THEN LocationOf(path) ELSE first
        target == IF l \in DOMAIN DpLocations THEN DpLocations[l] ELSE handler
        \* The end is of the last match that there was.
        end == IF l \in DOMAIN DpLocations THEN DpEnd(l, path) ELSE DpEnd(first, asked)
        matched == first \in DOMAIN DpLocations \/ l \in DOMAIN DpLocations
    IN  /\ dpMessage.phase = "begun"
        /\ IF ~IsLoaded(handler)
           THEN /\ dpMessage' = [dpMessage EXCEPT !.phase = "routed"]
                /\ dpContext' = "dispatch"
                /\ UNCHANGED <<dpBound, dpSettings>>
           ELSE IF target \notin dpHandlers
           THEN /\ dpMessage' = [dpMessage EXCEPT !.phase = "crashed"]
                /\ UNCHANGED <<dpBound, dpSettings, dpContext>>
           ELSE /\ Binds(target) /\ dpContext' = target
                /\ dpMessage' = [dpMessage EXCEPT !.phase = "routed",
                      !.told = <<<<"begin">>, <<"url", asked>>, <<"path", path>>>>
                               \o (IF matched THEN LocationTold(l, end, asked) ELSE <<>>)]
        /\ UNCHANGED <<dpHandlers, dpServed>>

\* message_complete_callback_handler_dispatch, which sends a 500, or the handler
\* that the message was given to, which answers what it does; the connection is
\* acquired until the answer has been written.
MessageCompletes ==
    /\ dpMessage.phase = "routed"
    /\ dpMessage' = [dpMessage EXCEPT !.phase = "answering",
                                      !.status = IF dpSettings = "dispatch" THEN 500 ELSE 200]
    /\ UNCHANGED <<dpHandlers, dpBound, dpSettings, dpContext, dpServed>>

\* Nothing is unset.
KeptBound == UNCHANGED <<dpSettings, dpContext>> /\ dpBound' = NoHandler

\* unset_handler_dispatch, or that of the handler.
Unbound == dpBound' = NoHandler /\ dpSettings' = NoHandler /\ dpContext' = NoHandler

\* _send_response_callback_handler_dispatch: the connection is released for the
\* message after, or closed.
ResponseWritten ==
    /\ dpMessage.phase = "answering"
    /\ Unbound
    /\ dpServed' = Append(dpServed, [dpMessage EXCEPT !.phase = dpBound])
    /\ \E keep \in BOOLEAN :
          dpMessage' = [NewMessage EXCEPT !.phase = IF keep THEN "idle" ELSE "closed"]
    /\ UNCHANGED dpHandlers

\* delete_http_connection, at any point, for what is bound to it.
DeleteConnection ==
    /\ dpMessage.phase \notin {"closed", "crashed"}
    /\ Unbound
    /\ dpMessage' = [NewMessage EXCEPT !.phase = "closed"]
    /\ UNCHANGED <<dpHandlers, dpServed>>

DpNext ==
    \/ \E path \in DpPath : MessageBegins(path)
    \/ UrlCallback \/ MessageCompletes \/ ResponseWritten \/ DeleteConnection

DpSpec == DpInit /\ [][DpNext]_dpVars

-----------------------------------------------------------------------------
(***************************************************************************)
(* Properties                                                              *)
(***************************************************************************)
\* The callbacks and the context of a connection are always those of the
\* handler that is bound to it, whichever of the two ends of a message is cut,
\* so that no handler is called with what another has made, and nothing is left
\* behind by a message (handler_dispatch.c:411, 535).
BoundAsAWhole ==
    /\ dpMessage.phase # "crashed" => dpSettings = dpBound
    /\ dpContext \in {NoHandler, dpBound}
    /\ dpMessage.phase \in {"idle", "closed"} => dpBound = NoHandler

\* Every message is served by the handler of the first location that its path
\* matches, told of that location after the path, or answered with an error
\* when the handler is not loaded (handler_dispatch.c:203).
ServedByItsLocation ==
    \A k \in DOMAIN dpServed :
        LET m == dpServed[k]
            matching == {l \in DOMAIN DpLocations : DpEnd(l, m.path) # -1}
            l == Min(matching)
            handler == IF matching = {} THEN Fallback ELSE DpLocations[l]
        IN  IF handler \notin dpHandlers
            THEN m.phase = "dispatch" /\ m.status = 500 /\ m.told = <<>>
            ELSE /\ m.phase = handler /\ m.status = 200
                 /\ SubSeq(m.told, 1, 2) = <<<<"begin">>, <<"url", m.path>>>>
                 /\ Len(m.told) = (IF matching = {} THEN 3 ELSE 5)
                 /\ matching # {} => m.told[4] = <<"location", l>>

\* A message of a handler that is not available is answered, it never takes the
\* process with it (handler_dispatch.c:263).
MissingIsAnswered == dpMessage.phase # "crashed"

\* What is left of the url after the location is a part of the url
\* (handler_dispatch.c:327).
VirtualUrlIsWithin ==
    \A k \in DOMAIN dpServed : \A n \in DOMAIN dpServed[k].told :
        dpServed[k].told[n][1] = "virtual_url" =>
            dpServed[k].told[n][2] \in 0..DpLength(dpServed[k].path)

\* A message is handled by one handler as a whole, that of its location.
MessagesAreDispatched ==
    BoundAsAWhole /\ ServedByItsLocation /\ MissingIsAnswered /\ VirtualUrlIsWithin
=============================================================================
