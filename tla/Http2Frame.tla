----------------------------- MODULE Http2Frame -----------------------------
(***************************************************************************)
(* The frames of HTTP/2 on the wire: how they are gathered from the reads  *)
(* of a connection (data_handler_stream_http2 of                           *)
(* src/src/viriatum/stream/stream_http2.c), verified, stripped of their    *)
(* padding and their priority, and what the settings say in each direction *)
(* (src/src/viriatum/http/http2.c).                                        *)
(*                                                                         *)
(* An octet on the wire is its position, so that the model tells whether   *)
(* the code reads the octet it means to.                                   *)
(***************************************************************************)
EXTENDS Integers, Sequences, FiniteSets, SequencesExt, FiniteSetsExt

CONSTANTS
    Frame,         \* the frames of the peer: [type, flags, length, stream, pad]
    MostFrames,    \* bound: the frames that it sends
    ReadMost,      \* bound: the octets of one read
    MaxFrameSize,  \* settings.max_frame_size
    Setting        \* the values that a setting is given

VARIABLES
    frameWire,          \* the frames that the peer sends
    arrived,       \* how many of their octets have been read
    frameBuffer,   \* the octets of http_connection->buffer up to buffer_offset
    frameRead,     \* http_connection->read_offset
    handled,       \* the frames handled, [frame, content]
    torn,          \* a GOAWAY was written for an error
    announced,     \* http2_connection->settings, of this end
    understood     \* what a peer that runs this code holds them to be

frameVars == <<frameWire, arrived, frameBuffer, frameRead, handled, torn, announced, understood>>

HeaderSize == 9
PrioritySize == 5
SettingSize == 6

-----------------------------------------------------------------------------
(* Where the frames are on the frameWire. *)

StartOf(k) == FoldLeft(LAMBDA n, f : n + HeaderSize + f.length, 1, SubSeq(frameWire, 1, k - 1))
Sent == StartOf(Len(frameWire) + 1) - 1
Payload(k) == [i \in 1..frameWire[k].length |-> StartOf(k) + HeaderSize + i - 1]

\* The frame whose header begins at octet p.
FrameAt(p) == CHOOSE k \in DOMAIN frameWire : StartOf(k) = p
IsFrame(p) == \E k \in DOMAIN frameWire : StartOf(k) = p

-----------------------------------------------------------------------------
(* verify_frame_http2 *)

OnStream == {"DATA", "HEADERS", "CONTINUATION", "PRIORITY", "RST_STREAM", "PUSH_PROMISE"}
OnConnection == {"SETTINGS", "PING", "GOAWAY"}

RightLength(f) ==
    CASE f.type = "PRIORITY" -> f.length = PrioritySize
      [] f.type \in {"RST_STREAM", "WINDOW_UPDATE"} -> f.length = 4
      [] f.type = "PING" -> f.length = 8
      [] f.type = "GOAWAY" -> f.length >= 8
      [] f.type = "SETTINGS" -> /\ "ACK" \in f.flags => f.length = 0
                                /\ f.length % SettingSize = 0
      [] f.type = "PUSH_PROMISE" -> f.length >= IF "PADDED" \in f.flags THEN 5 ELSE 4
      [] OTHER -> TRUE

Verified(f) ==
    /\ f.length <= MaxFrameSize
    /\ f.type \in OnStream => f.stream # 0
    /\ f.type \in OnConnection => f.stream = 0
    /\ RightLength(f)

-----------------------------------------------------------------------------
(* strip_padding_http2, and the priority of HEADERS. *)

Padded(f) == "PADDED" \in f.flags /\ f.type \in {"DATA", "HEADERS"}

PaddingFits(f) == Padded(f) => f.length >= 1 /\ f.pad < f.length

Stripped(f, payload) ==
    IF Padded(f) THEN SubSeq(payload, 2, f.length - f.pad) ELSE payload

Prioritised(f) == "PRIORITY" \in f.flags /\ f.type = "HEADERS"

\* The content that a frame hands on, of the payload it was found to have.
Content(f, payload) ==
    LET stripped == Stripped(f, payload)
    IN  IF Prioritised(f) THEN SubSeq(stripped, PrioritySize + 1, Len(stripped)) ELSE stripped

Acceptable(f, payload) ==
    /\ Verified(f) /\ PaddingFits(f)
    /\ Prioritised(f) => Len(Stripped(f, payload)) >= PrioritySize

-----------------------------------------------------------------------------
FrameInit ==
    /\ frameWire \in UNION {[1..n -> Frame] : n \in 1..MostFrames}
    /\ arrived = 0 /\ frameBuffer = <<>> /\ frameRead = 0
    /\ handled = <<>> /\ torn = FALSE
    /\ announced \in [{"streams", "table", "list", "window", "frame", "push"} -> Setting]
    /\ understood = [s \in DOMAIN announced |-> "default"]

\* One turn of the loop: a frame that is complete is handled, one that is
\* larger than announced is refused on its header.
TurnOf(b) ==
    LET size == Len(b.buffer) - b.read
        whole == size >= HeaderSize /\ IsFrame(b.buffer[b.read + 1])
        f == frameWire[FrameAt(b.buffer[b.read + 1])]
        payload == SubSeq(b.buffer, b.read + HeaderSize + 1, b.read + HeaderSize + f.length)
    IN  IF size < HeaderSize THEN [b EXCEPT !.over = TRUE]
        ELSE IF ~whole \/ f.length > MaxFrameSize THEN [b EXCEPT !.over = TRUE, !.torn = TRUE]
        ELSE IF size < HeaderSize + f.length THEN [b EXCEPT !.over = TRUE]
        ELSE IF ~Acceptable(f, payload)
             THEN [b EXCEPT !.over = TRUE, !.torn = TRUE, !.read = @ + HeaderSize + f.length]
        ELSE [b EXCEPT !.read = @ + HeaderSize + f.length,
                       !.handled = Append(@, [frame |-> f, content |-> Content(f, payload)])]

RECURSIVE Frames(_)
Frames(b) == IF b.over THEN b ELSE Frames(TurnOf(b))

\* What was not handled is moved to the start, unless an error returned early.
CompactOffsetOnly(b) ==
    IF b.torn THEN b ELSE [b EXCEPT !.buffer = SubSeq(@, 1, Len(@) - b.read), !.read = 0]
Compact(b) ==
    IF b.torn THEN b ELSE [b EXCEPT !.buffer = SubSeq(@, b.read + 1, Len(@)), !.read = 0]

\* A read of n octets; the connection is closing once it is torn.
ReadFrames(n) ==
    /\ ~torn /\ n <= Sent - arrived
    /\ LET b == Compact(Frames(
                  [buffer |-> frameBuffer \o [i \in 1..n |-> arrived + i],
                   read |-> frameRead, handled |-> handled, torn |-> FALSE, over |-> FALSE]))
       IN  /\ frameBuffer' = b.buffer /\ frameRead' = b.read
           /\ handled' = b.handled /\ torn' = b.torn
    /\ arrived' = arrived + n
    /\ UNCHANGED <<frameWire, announced, understood>>

\* encode_settings_http2: the settings in the order that they are written.
EncodedSettings(s) == <<<<"streams", s["streams"]>>, <<"table", s["table"]>>, <<"list", s["list"]>>,
                        <<"window", s["window"]>>, <<"frame", s["frame"]>>>>

\* decode_settings_http2: the entries one by one, one that is not known is
\* passed over (Http2Session has the ones that are not legal).
DecodeSettings(s, entries) == FoldLeft(LAMBDA d, e : [d EXCEPT ![e[1]] = e[2]], s, entries)

Announce ==
    /\ understood' = DecodeSettings(understood, EncodedSettings(announced))
    /\ UNCHANGED <<frameWire, arrived, frameBuffer, frameRead, handled, torn, announced>>

FrameNext == Announce \/ \E n \in 1..ReadMost : ReadFrames(n)

FrameSpec == FrameInit /\ [][FrameNext]_frameVars

-----------------------------------------------------------------------------
(* Properties. *)

\* The frames are handled in their order, each once and with the content that
\* it has on the frameWire, wherever the reads cut them; what is refused is the
\* first that had to be.
FramesAreWhole ==
    /\ \A k \in DOMAIN handled :
          handled[k] = [frame |-> frameWire[k], content |-> Content(frameWire[k], Payload(k))]
    /\ torn => LET k == Len(handled) + 1
               IN  frameWire[k].length > MaxFrameSize \/ ~Acceptable(frameWire[k], Payload(k))

\* What is handed on lies inside of the frame that announced it: neither the
\* padding nor the priority of one frame reaches into another, the sizes of
\* the three never go below zero.
ContentIsInside ==
    \A k \in DOMAIN handled :
        LET f == handled[k].frame
            taken == (IF Padded(f) THEN 1 + f.pad ELSE 0) + (IF Prioritised(f) THEN PrioritySize ELSE 0)
        IN  Len(handled[k].content) = f.length - taken

\* Nothing complete waits in the buffer: what a read leaves is the beginning
\* of one frame, so that the buffer never grows beyond one frame and a read.
NothingCompleteWaits ==
    ~torn => /\ arrived = StartOf(Len(handled) + 1) - 1 + Len(frameBuffer)
             /\ frameRead = 0
             /\ Len(frameBuffer) < HeaderSize + MaxFrameSize

\* A peer that runs this code holds the settings of this end for what they
\* are, once it was told, but for the promises, which only a client announces.
SettingsAreUnderstood ==
    \/ \A s \in DOMAIN announced : understood[s] = "default"
    \/ \A s \in DOMAIN announced \ {"push"} : understood[s] = announced[s]

\* However the reads cut them, the frames of the wire arrive, in their order, with their
\* own content.
FramesArrive ==
    FramesAreWhole /\ ContentIsInside /\ NothingCompleteWaits /\ SettingsAreUnderstood
=============================================================================
