---------------------------- MODULE MCEventLoop ----------------------------
(***************************************************************************)
(* Instances of EventLoop for TLC.                                         *)
(***************************************************************************)
EXTENDS EventLoop

\* A client and the backend that it is proxied to.
Proxied == [c \in {"client"} |-> "backend"]
\* A client that is served by itself.
Direct == [c \in {} |-> "none"]
=============================================================================
