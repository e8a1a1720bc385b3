----------------------------- MODULE DataMemory -----------------------------
(***************************************************************************)
(* What the D-port promises the pipeline: one memory, in which a store     *)
(* changes exactly the word it addresses, once, at the cycle it is served, *)
(* and nothing else changes anything.                                      *)
(***************************************************************************)
EXTENDS CacheParams

VARIABLES view, port

Init ==
    /\ view \in [LineAddrs -> Line]
    /\ port = NoReq

\* The request on the port is held while the memory works on it.
Wait ==
    /\ port.op # "none"
    /\ UNCHANGED <<view, port>>

\* The request is served, and the port moves on to anything.
Serve ==
    /\ port.op # "none"
    /\ view' = IF port.op = "write"
               THEN [view EXCEPT ![port.addr][port.word] = port.data]
               ELSE view
    /\ port' \in DPort

Idle ==
    /\ port.op = "none"
    /\ port' \in DPort
    /\ UNCHANGED view

Next == Wait \/ Serve \/ Idle

Spec == Init /\ [][Next]_<<view, port>>
=============================================================================
