------------------------------- MODULE ICache -------------------------------
(***************************************************************************)
(* rtl/icache.v: the direct-mapped I-cache.  ICacheEdge is one clock edge  *)
(* with the input wires as parameters; fetch is the line address on the    *)
(* I-port or NoFetch when i_req is low.  The core may change it in any     *)
(* cycle (a branch redirect), also while a refill is in flight.            *)
(***************************************************************************)
EXTENDS CacheParams

VARIABLES
    ivalid, itags, ilines,  \* valid, tags ({tag, idx}), lines
    filling, drop,          \* a refill is in flight; do not install it
    miss_addr,              \* the line it is for
    im_req                  \* the register m_req

icVars == <<ivalid, itags, ilines, filling, drop, miss_addr, im_req>>

NoFetch == NAddrs           \* a value that is no line address

ICacheType ==
    /\ ivalid \in [IIndex -> BOOLEAN]
    /\ itags  \in [IIndex -> LineAddrs]
    /\ ilines \in [IIndex -> Line]
    /\ filling \in BOOLEAN /\ drop \in BOOLEAN
    /\ miss_addr \in LineAddrs
    /\ im_req \in BOOLEAN

ICacheInit ==
    /\ ivalid = [i \in IIndex |-> FALSE]
    /\ itags  \in [IIndex -> LineAddrs]
    /\ ilines \in [IIndex -> Line]
    /\ filling = FALSE /\ drop = FALSE
    /\ miss_addr = 0 /\ im_req = FALSE

IHit(a)   == ivalid[IIdx(a)] /\ itags[IIdx(a)] = a
IReady(a) == a # NoFetch /\ IHit(a) /\ ~filling

\* Mutants of IInval: the lines stay valid; a request in flight is dropped.
IInvalKeepsLines(inval, done) ==
    /\ inval
    /\ drop' = IF filling THEN ~done ELSE drop
    /\ filling' = (filling /\ ~done)
    /\ im_req' = IF filling /\ done THEN FALSE ELSE im_req
    /\ UNCHANGED <<ivalid, itags, ilines, miss_addr>>

IInvalDropsReq(inval, done) ==
    /\ inval
    /\ ivalid' = [i \in IIndex |-> FALSE]
    /\ drop' = IF filling THEN ~done ELSE drop
    /\ filling' = (filling /\ ~done)
    /\ im_req' = FALSE
    /\ UNCHANGED <<itags, ilines, miss_addr>>

\* inval (FENCE.I): every line goes, and a refill in flight is marked.
IInval(inval, done) ==
    /\ inval
    /\ ivalid' = [i \in IIndex |-> FALSE]
    /\ drop' = IF filling THEN ~done ELSE drop
    /\ filling' = (filling /\ ~done)
    /\ im_req' = IF filling /\ done THEN FALSE ELSE im_req
    /\ UNCHANGED <<itags, ilines, miss_addr>>

ILookup(fetch, inval) ==
    /\ ~inval /\ ~filling
    /\ IF fetch # NoFetch /\ ~IHit(fetch)
       THEN miss_addr' = fetch /\ im_req' = TRUE /\ filling' = TRUE
       ELSE UNCHANGED <<miss_addr, im_req, filling>>
    /\ UNCHANGED <<ivalid, itags, ilines, drop>>

\* The refill is always written into the arrays; drop keeps it invalid.
IFillDone(inval, done, rdata) ==
    /\ ~inval /\ filling /\ done
    /\ ilines' = [ilines EXCEPT ![IIdx(miss_addr)] = rdata]
    /\ itags'  = [itags  EXCEPT ![IIdx(miss_addr)] = miss_addr]
    /\ ivalid' = [ivalid EXCEPT ![IIdx(miss_addr)] = ~drop]
    /\ im_req' = FALSE /\ filling' = FALSE /\ drop' = FALSE
    /\ UNCHANGED miss_addr

IFillWait(inval, done) ==
    /\ ~inval /\ filling /\ ~done
    /\ UNCHANGED icVars

ICacheEdge(fetch, inval, done, rdata) ==
    \/ IInval(inval, done)
    \/ ILookup(fetch, inval)
    \/ IFillDone(inval, done, rdata)
    \/ IFillWait(inval, done)
=============================================================================
