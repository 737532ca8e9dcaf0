--------------------------- MODULE Http2Contract ---------------------------
(***************************************************************************)
(* What an HTTP/2 session promises to its peer, and nothing of how it is   *)
(* kept: on every stream a response is a head, then payload, then nothing, *)
(* it is only written on a stream that was opened or promised and that the *)
(* peer has not taken back, and no payload is sent ahead of the credit of  *)
(* the stream or of the connection.                                        *)
(***************************************************************************)
EXTENDS Integers

CONSTANTS StreamId, DefaultWindow

VARIABLES
    out,                    \* how far the response of a stream has gone
    sent, granted,          \* payload sent on a stream, credit it was given
    connSent, connGranted   \* the same of the connection

contract == <<out, sent, granted, connSent, connGranted>>

Init ==
    /\ out = [s \in StreamId |-> "idle"]
    /\ sent = [s \in StreamId |-> 0]
    /\ granted = [s \in StreamId |-> 0]
    /\ connSent = 0
    /\ connGranted = DefaultWindow

\* A stream is opened by the peer or promised to it, with its first credit.
Begin(s, how) ==
    /\ out[s] = "idle"
    /\ out' = [out EXCEPT ![s] = how]
    /\ \E window \in {granted'[s]} :
          window >= 0 /\ granted' = [granted EXCEPT ![s] = window]
    /\ UNCHANGED <<sent, connSent, connGranted>>

\* The head of the response, which may be the whole of it.
WriteHead(s, how) ==
    /\ out[s] \in {"open", "reserved"}
    /\ out' = [out EXCEPT ![s] = how]
    /\ UNCHANGED <<sent, granted, connSent, connGranted>>

\* A frame of payload, within the credit of the stream and the connection.
WriteData(s) ==
    LET n == connSent' - connSent
    IN  /\ out[s] = "headers"
        /\ n >= 0
        /\ n > 0 => /\ sent[s] + n <= granted[s]
                    /\ connSent + n <= connGranted
        /\ sent' = [sent EXCEPT ![s] = @ + n]
        /\ \/ out' = out
           \/ out' = [out EXCEPT ![s] = "ended"]
        /\ UNCHANGED <<granted, connGranted>>

\* The peer widens a window, or moves the ones of the streams.
Grant ==
    /\ granted' \in [StreamId -> Int]
    /\ \A s \in StreamId : out[s] = "idle" => granted'[s] = granted[s]
    /\ connGranted' >= connGranted
    /\ UNCHANGED <<out, sent, connSent>>

\* The stream is taken back by the peer, or reset.
Reset(s) ==
    /\ out[s] # "idle"
    /\ out' = [out EXCEPT ![s] = "reset"]
    /\ UNCHANGED <<sent, granted, connSent, connGranted>>

Next ==
    \/ Grant
    \/ \E s \in StreamId :
          \/ \E how \in {"open", "reserved"} : Begin(s, how)
          \/ \E how \in {"headers", "ended"} : WriteHead(s, how)
          \/ WriteData(s)
          \/ Reset(s)

Spec == Init /\ [][Next]_contract
=============================================================================
