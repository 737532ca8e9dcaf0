------------------------------ MODULE MCServer ------------------------------
(***************************************************************************)
(* Instances for TLC of the components of which progress is stated, the    *)
(* proxy and the two halves of the Python package.  They are independent   *)
(* of each other: part says which of them takes steps, so that one run     *)
(* checks all of them, each as if it were alone.                           *)
(***************************************************************************)
EXTENDS Proxy, Asgi, PythonServer

VARIABLE part
serverVars == <<proxyVars, asgiVars, pyVars, part>>

PartsInit ==
    /\ part \in {"proxy", "asgi", "python"}
    /\ ProxyInit
    /\ AsgiInit /\ (part # "asgi" => asgiProtocol = "http/1")
    /\ PyInit

PartsNext ==
    \/ part = "proxy" /\ ProxyNext /\ UNCHANGED <<asgiVars, pyVars, part>>
    \/ part = "asgi" /\ AsgiNext /\ UNCHANGED <<proxyVars, pyVars, part>>
    \/ part = "python" /\ PyNext /\ UNCHANGED <<proxyVars, asgiVars, part>>

PartsSpec ==
    /\ PartsInit /\ [][PartsNext]_serverVars
    /\ ProxyFairness /\ AsgiFairness /\ PyFairness
=============================================================================
