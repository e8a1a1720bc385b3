------------------------------ MODULE LinePort ------------------------------
(***************************************************************************)
(* The one line port behind both caches: the grant of rtl/line_arb.v and   *)
(* the line memory it leads to.  The memory is rtl/oz/oz_burst_mem.v (the  *)
(* boot ROM, block RAM); rtl/mem_slow.v and rtl/axi4_line_master.v keep    *)
(* the same protocol: a request seen in IDLE and not in a done cycle is    *)
(* latched, its beats follow, and done is high for one cycle.  The number  *)
(* of beats and wait states is a free choice, and the one transaction at a *)
(* time that the port carries is applied to memory at its last beat.       *)
(***************************************************************************)
EXTENDS CacheParams

VARIABLES
    owner,                      \* line_arb: who holds the port
    mem,                        \* the memory array
    mstate,                     \* oz_burst_mem: IDLE or transferring
    l_we, l_addr, l_wdata,      \* the latched request
    mdone, rdata                \* done, and the line read

lpVars == <<owner, mem, mstate, l_we, l_addr, l_wdata, mdone, rdata>>

LinePortType ==
    /\ owner \in {"NONE", "D", "I"}
    /\ mem \in [LineAddrs -> Line]
    /\ mstate \in {"IDLE", "XFER"}
    /\ l_we \in BOOLEAN /\ l_addr \in LineAddrs /\ l_wdata \in Line
    /\ mdone \in BOOLEAN /\ rdata \in Line

LinePortInit ==
    /\ owner = "NONE"
    /\ mem \in [LineAddrs -> Line]
    /\ mstate = "IDLE"
    /\ l_we = FALSE /\ l_addr = 0
    /\ l_wdata = [w \in Words |-> 0]
    /\ mdone = FALSE /\ rdata = [w \in Words |-> 0]

DDone == mdone /\ owner = "D"
IDone == mdone /\ owner = "I"

\* Mutant of ArbEdge: the D side takes the port over in mid-transaction.
ArbEdgePreempts(d_req, i_req) ==
    owner' = IF mdone THEN "NONE"
             ELSE IF d_req THEN "D" ELSE IF i_req THEN "I" ELSE "NONE"

\* line_arb's register: released at done, granted from NONE, D first.
ArbEdge(d_req, i_req) ==
    owner' = IF mdone THEN "NONE"
             ELSE IF owner # "NONE" THEN owner
             ELSE IF d_req THEN "D" ELSE IF i_req THEN "I" ELSE "NONE"

\* ... and the request it lets through to the memory.
LmReq(d_req, i_req)   == \/ owner = "D" /\ d_req
                         \/ owner = "I" /\ i_req
LmWe(d_we)            == owner = "D" /\ d_we
LmAddr(d_addr, i_addr) == IF owner = "I" THEN i_addr ELSE d_addr

MemIdle(req) ==
    /\ mstate = "IDLE" /\ ~(req /\ ~mdone)
    /\ mdone' = FALSE
    /\ UNCHANGED <<mem, mstate, l_we, l_addr, l_wdata, rdata>>

MemAccept(req, we, addr, wdata) ==
    /\ mstate = "IDLE" /\ req /\ ~mdone
    /\ mstate' = "XFER"
    /\ l_we' = we /\ l_addr' = addr /\ l_wdata' = wdata
    /\ mdone' = FALSE
    /\ UNCHANGED <<mem, rdata>>

MemBeat ==
    /\ mstate = "XFER"
    /\ mdone' = FALSE
    /\ UNCHANGED <<mem, mstate, l_we, l_addr, l_wdata, rdata>>

MemLastBeat ==
    /\ mstate = "XFER"
    /\ mstate' = "IDLE"
    /\ mdone' = TRUE
    /\ IF l_we THEN mem' = [mem EXCEPT ![l_addr] = l_wdata] /\ UNCHANGED rdata
               ELSE rdata' = mem[l_addr] /\ UNCHANGED mem
    /\ UNCHANGED <<l_we, l_addr, l_wdata>>

MemEdge(req, we, addr, wdata) ==
    \/ MemIdle(req)
    \/ MemAccept(req, we, addr, wdata)
    \/ MemBeat
    \/ MemLastBeat
=============================================================================
