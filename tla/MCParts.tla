------------------------------ MODULE MCParts ------------------------------
(***************************************************************************)
(* Instances for TLC of the components of which no progress is stated.     *)
(* They are independent of each other: part says which of them takes       *)
(* steps, so that one run checks all of them, each as if it were alone.    *)
(***************************************************************************)
EXTENDS MCHttp1, Http2Priority, Hpack, HpackCoding, Http2Frame, Http2Message, FileHandler,
        ModPython, Wsgi, Modules, Listing, MemoryPool, LinkedList, HashMap, MCDispatch,
        SelectPolling, ThreadPool

-----------------------------------------------------------------------------
\* The streams of a peer that names idle ones, and two that are promised.
PushStreams == {1, 2, 3, 4, 5}
PeerStreams == {1, 3, 5}

-----------------------------------------------------------------------------
\* A static table of one field, and names and values that make fields of two,
\* three, four and five: three entries at most.
FieldNames == [a |-> 0, b |-> 1]
FieldValues == [v |-> 0, w |-> 2]
StaticTable == <<[name |-> "a", value |-> "v"]>>

\* A code of four symbols and the end of string, in octets of three bits.
SymbolOrder == <<2, 0, 1, 3, 8>>
CodeLengths == [s \in {0, 1, 2, 3, 8} |->
    CASE s = 2 -> 1 [] s = 0 -> 2 [] s = 1 -> 3 [] OTHER -> 4]

-----------------------------------------------------------------------------
\* Frames that are legal and that are wrong, each in its own way.
WireFrame(type, length, stream) ==
    [type |-> type, flags |-> {}, length |-> length, stream |-> stream, pad |-> 0]
Flagged(f, flags, pad) == [f EXCEPT !.flags = flags, !.pad = pad]
WireFrames ==
    {WireFrame("DATA", 2, 1), Flagged(WireFrame("DATA", 3, 1), {"PADDED"}, 2),
     Flagged(WireFrame("DATA", 3, 1), {"PADDED"}, 3), Flagged(WireFrame("DATA", 0, 1), {"PADDED"}, 0),
     Flagged(WireFrame("HEADERS", 8, 1), {"PADDED", "PRIORITY"}, 1),
     Flagged(WireFrame("HEADERS", 4, 1), {"PRIORITY"}, 0),
     Flagged(WireFrame("HEADERS", 7, 1), {"PADDED", "PRIORITY"}, 2),
     WireFrame("PRIORITY", 5, 1), WireFrame("SETTINGS", 0, 0),
     Flagged(WireFrame("SETTINGS", 6, 0), {"ACK"}, 0), WireFrame("PING", 8, 0),
     WireFrame("WINDOW_UPDATE", 4, 0), WireFrame("RST_STREAM", 4, 0), WireFrame("GOAWAY", 9, 0)}

-----------------------------------------------------------------------------
\* Two paths, one of them protected, that share the slot of their hash; the
\* first stream asks for the one and the second for the other.
SlotOf == [p \in FilePath |-> 1]
Asks == <<{"p"}, {"q"}>>
Ranges == {<<1, -1>>}

-----------------------------------------------------------------------------
\* The libraries, in the order of their directory.
ModulesOrder == <<"lua", "python", "php">>

-----------------------------------------------------------------------------
\* Templates that share an entry, and every root is given the address of the one
\* before it; a directory whose names change and one of whose files grows.
TemplateSlots == [p \in TmPath |-> 1]
TemplateContents == {[size |-> 1, parses |-> TRUE], [size |-> 2, parses |-> FALSE]}
DirectoryContents == {[names |-> 1, sizes |-> 1], [names |-> 2, sizes |-> 1], [names |-> 1, sizes |-> 2]}

-----------------------------------------------------------------------------
\* Names that fall on one element of a map of four, of which it is the last.
HashOfName(name) == name

-----------------------------------------------------------------------------
VARIABLE part
partsVars ==
    <<httpVars, vars, hpackVars, codingVars, frameVars, messageVars, fileVars, mpVars,
      wsVars, mdVars, lsVars, poolVars, listVars, mapVars, dpVars, slVars, tpVars, part>>

\* What is not chosen by the part that takes steps is the same in every state.
PartsInit ==
    /\ part \in {"http1", "tree", "hpack", "coding", "frames", "message", "files",
                 "mod_python", "wsgi", "modules", "listing", "pool", "list", "map",
                 "dispatch", "select", "threads"}
    /\ HttpInit /\ (part # "http1" => \A k \in 1..Pipeline : sent[k] = Other("preface"))
    /\ Init
    /\ HpackInit /\ (part # "hpack" => honest)
    /\ CodingInit /\ (part # "coding" => given = [kind |-> "string", text |-> <<>>])
    /\ FrameInit /\ (part # "frames" => frameWire = <<WireFrame("DATA", 2, 1)>>)
    /\ MessageInit /\ (part # "message" => ~trailers)
    /\ FileInit
    /\ MpInit
    /\ WsInit
    /\ MdInit
    /\ LsInit
    /\ PoolInit
    /\ ListInit /\ (part # "list" => ~listSorted)
    /\ MapInit /\ (part # "map" => ~mapSorted)
    /\ DpInit /\ (part # "dispatch" => dpHandlers = {"file"})
    /\ SlInit
    /\ TpInit /\ (part # "threads" => tpPlatform = "posix")

Idle ==
    /\ part # "http1" => UNCHANGED httpVars
    /\ part # "tree" => UNCHANGED vars
    /\ part # "hpack" => UNCHANGED hpackVars
    /\ part # "coding" => UNCHANGED codingVars
    /\ part # "frames" => UNCHANGED frameVars
    /\ part # "message" => UNCHANGED messageVars
    /\ part # "files" => UNCHANGED fileVars
    /\ part # "mod_python" => UNCHANGED mpVars
    /\ part # "wsgi" => UNCHANGED wsVars
    /\ part # "modules" => UNCHANGED mdVars
    /\ part # "listing" => UNCHANGED lsVars
    /\ part # "pool" => UNCHANGED poolVars
    /\ part # "list" => UNCHANGED listVars
    /\ part # "map" => UNCHANGED mapVars
    /\ part # "dispatch" => UNCHANGED dpVars
    /\ part # "select" => UNCHANGED slVars
    /\ part # "threads" => UNCHANGED tpVars
    /\ UNCHANGED part

PartsNext ==
    \/ part = "http1" /\ HttpNext /\ Idle
    \/ part = "tree" /\ Next /\ Idle
    \/ part = "hpack" /\ HpackNext /\ Idle
    \/ part = "coding" /\ CodingNext /\ Idle
    \/ part = "frames" /\ FrameNext /\ Idle
    \/ part = "message" /\ MessageNext /\ Idle
    \/ part = "files" /\ FileNext /\ Idle
    \/ part = "mod_python" /\ MpNext /\ Idle
    \/ part = "wsgi" /\ WsNext /\ Idle
    \/ part = "modules" /\ MdNext /\ Idle
    \/ part = "listing" /\ LsNext /\ Idle
    \/ part = "pool" /\ PoolNext /\ Idle
    \/ part = "list" /\ ListNext /\ Idle
    \/ part = "map" /\ MapNext /\ Idle
    \/ part = "dispatch" /\ DpNext /\ Idle
    \/ part = "select" /\ SlNext /\ Idle
    \/ part = "threads" /\ TpNext /\ Idle

PartsSpec == PartsInit /\ [][PartsNext]_partsVars
=============================================================================
