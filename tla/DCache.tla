------------------------------- MODULE DCache -------------------------------
(***************************************************************************)
(* rtl/dcache.v: the direct-mapped, write-back, write-allocate D-cache.    *)
(* One clock edge is one step.  DCacheEdge takes the cache's input wires   *)
(* as parameters: the D-port request p, clean, and m_done / m_rdata of the *)
(* memory side.  The tag array is kept as the line address {tag, idx} it   *)
(* forms together with its own index, so m_addr is read straight from it.  *)
(***************************************************************************)
EXTENDS CacheParams

VARIABLES
    dvalid, ddirty,     \* valid, dirty: one bit per line
    dtags, dlines,      \* tags, lines
    dstate,             \* state
    ci, cwb, cleaned,   \* the clean sweep: line looked at, writing back, over
    dm_req, dm_we, dm_addr  \* the registers m_req, m_we, m_addr

dcVars == <<dvalid, ddirty, dtags, dlines, dstate, ci, cwb, cleaned,
            dm_req, dm_we, dm_addr>>

DCacheType ==
    /\ dvalid \in [DIndex -> BOOLEAN]
    /\ ddirty \in [DIndex -> BOOLEAN]
    /\ dtags  \in [DIndex -> LineAddrs]
    /\ dlines \in [DIndex -> Line]
    /\ dstate \in {"IDLE", "WB", "FILL", "CLEAN"}
    /\ ci \in 0 .. DLines
    /\ cwb \in BOOLEAN /\ cleaned \in BOOLEAN
    /\ dm_req \in BOOLEAN /\ dm_we \in BOOLEAN
    /\ dm_addr \in LineAddrs

\* Reset: the tag and line arrays are not reset and hold anything.
DCacheInit ==
    /\ dvalid = [i \in DIndex |-> FALSE]
    /\ ddirty = [i \in DIndex |-> FALSE]
    /\ dtags  \in [DIndex -> LineAddrs]
    /\ dlines \in [DIndex -> Line]
    /\ dstate = "IDLE"
    /\ ci = 0 /\ cwb = FALSE /\ cleaned = FALSE
    /\ dm_req = FALSE /\ dm_we = FALSE /\ dm_addr = 0

\* The output wires.
DHit(a)          == dvalid[DIdx(a)] /\ dtags[DIdx(a)] = a
DReady(p)        == p.op # "none" /\ DHit(p.addr) /\ dstate = "IDLE"
DRdata(p)        == dlines[DIdx(p.addr)][p.word]
DMWdata(p)       == IF dstate = "CLEAN" THEN dlines[ci % DLines]
                                        ELSE dlines[DIdx(p.addr)]
DCleanDone(clean) == clean /\ cleaned

(***************************************************************************)
(* IDLE: nothing asked; the clean sweep starts between accesses only; a    *)
(* hit is served in place; a miss asks for the victim's write-back if it   *)
(* is dirty, else straight for the refill.                                 *)
(***************************************************************************)
DIdle(p, clean) ==
    /\ dstate = "IDLE" /\ p.op = "none" /\ ~(clean /\ ~cleaned)
    /\ cleaned' = (cleaned /\ clean)
    /\ UNCHANGED <<dvalid, ddirty, dtags, dlines, dstate, ci, cwb,
                   dm_req, dm_we, dm_addr>>

DStartClean(p, clean) ==
    /\ dstate = "IDLE" /\ p.op = "none" /\ clean /\ ~cleaned
    /\ ci' = 0 /\ cwb' = FALSE
    /\ dstate' = "CLEAN"
    /\ UNCHANGED <<dvalid, ddirty, dtags, dlines, cleaned,
                   dm_req, dm_we, dm_addr>>

DServe(p, clean) ==
    /\ DReady(p)
    /\ IF p.op = "write"
       THEN /\ dlines' = [dlines EXCEPT ![DIdx(p.addr)] = Merge(@, p)]
            /\ ddirty' = [ddirty EXCEPT ![DIdx(p.addr)] = TRUE]
       ELSE UNCHANGED <<dlines, ddirty>>
    /\ cleaned' = (cleaned /\ clean)
    /\ UNCHANGED <<dvalid, dtags, dstate, ci, cwb, dm_req, dm_we, dm_addr>>

\* Mutant of DMiss: a dirty victim is not written back.
DMissNoWriteBack(p, clean) ==
    /\ dstate = "IDLE" /\ p.op # "none" /\ ~DHit(p.addr)
    /\ dm_req' = TRUE
    /\ dm_we' = FALSE /\ dm_addr' = p.addr /\ dstate' = "FILL"
    /\ cleaned' = (cleaned /\ clean)
    /\ UNCHANGED <<dvalid, ddirty, dtags, dlines, ci, cwb>>

DMiss(p, clean) ==
    /\ dstate = "IDLE" /\ p.op # "none" /\ ~DHit(p.addr)
    /\ dm_req' = TRUE
    /\ LET i == DIdx(p.addr) IN
       IF dvalid[i] /\ ddirty[i]
       THEN dm_we' = TRUE /\ dm_addr' = dtags[i] /\ dstate' = "WB"
       ELSE dm_we' = FALSE /\ dm_addr' = p.addr /\ dstate' = "FILL"
    /\ cleaned' = (cleaned /\ clean)
    /\ UNCHANGED <<dvalid, ddirty, dtags, dlines, ci, cwb>>

\* Mutant of DWbDone: the request is dropped between write-back and refill.
DWbDoneDropsReq(p, clean, done) ==
    /\ dstate = "WB" /\ done
    /\ ddirty' = [ddirty EXCEPT ![DIdx(p.addr)] = FALSE]
    /\ dm_we' = FALSE /\ dm_addr' = p.addr /\ dm_req' = FALSE
    /\ dstate' = "FILL"
    /\ cleaned' = (cleaned /\ clean)
    /\ UNCHANGED <<dvalid, dtags, dlines, ci, cwb>>

\* WB and FILL: the burst's done, indexed by the address on the port now.
DWbDone(p, clean, done) ==
    /\ dstate = "WB" /\ done
    /\ ddirty' = [ddirty EXCEPT ![DIdx(p.addr)] = FALSE]
    /\ dm_we' = FALSE /\ dm_addr' = p.addr
    /\ dstate' = "FILL"
    /\ cleaned' = (cleaned /\ clean)
    /\ UNCHANGED <<dvalid, dtags, dlines, ci, cwb, dm_req>>

DFillDone(p, clean, done, rdata) ==
    /\ dstate = "FILL" /\ done
    /\ dlines' = [dlines EXCEPT ![DIdx(p.addr)] = rdata]
    /\ dtags'  = [dtags  EXCEPT ![DIdx(p.addr)] = p.addr]
    /\ dvalid' = [dvalid EXCEPT ![DIdx(p.addr)] = TRUE]
    /\ ddirty' = [ddirty EXCEPT ![DIdx(p.addr)] = FALSE]
    /\ dm_req' = FALSE
    /\ dstate' = "IDLE"
    /\ cleaned' = (cleaned /\ clean)
    /\ UNCHANGED <<ci, cwb, dm_we, dm_addr>>

DMissWait(clean, done) ==
    /\ dstate \in {"WB", "FILL"} /\ ~done
    /\ cleaned' = (cleaned /\ clean)
    /\ UNCHANGED <<dvalid, ddirty, dtags, dlines, dstate, ci, cwb,
                   dm_req, dm_we, dm_addr>>

\* Mutants of DCleanEnd: the sweep stops one line early; it is never over.
DCleanEndEarly ==
    /\ dstate = "CLEAN" /\ ~cwb /\ ci >= DLines - 1
    /\ cleaned' = TRUE
    /\ dstate' = "IDLE"
    /\ UNCHANGED <<dvalid, ddirty, dtags, dlines, ci, cwb,
                   dm_req, dm_we, dm_addr>>

DCleanEndNotSet ==
    /\ dstate = "CLEAN" /\ ~cwb /\ ci = DLines
    /\ cleaned' = FALSE
    /\ dstate' = "IDLE"
    /\ UNCHANGED <<dvalid, ddirty, dtags, dlines, ci, cwb,
                   dm_req, dm_we, dm_addr>>

\* CLEAN: one line after the other, a burst for each dirty one.
DCleanEnd ==
    /\ dstate = "CLEAN" /\ ~cwb /\ ci = DLines
    /\ cleaned' = TRUE
    /\ dstate' = "IDLE"
    /\ UNCHANGED <<dvalid, ddirty, dtags, dlines, ci, cwb,
                   dm_req, dm_we, dm_addr>>

DCleanScan(clean) ==
    /\ dstate = "CLEAN" /\ ~cwb /\ ci # DLines
    /\ IF dvalid[ci] /\ ddirty[ci]
       THEN /\ dm_req' = TRUE /\ dm_we' = TRUE /\ cwb' = TRUE
            /\ dm_addr' = dtags[ci]
            /\ UNCHANGED ci
       ELSE /\ ci' = ci + 1
            /\ UNCHANGED <<dm_req, dm_we, cwb, dm_addr>>
    /\ cleaned' = (cleaned /\ clean)
    /\ UNCHANGED <<dvalid, ddirty, dtags, dlines, dstate>>

DCleanWb(clean, done) ==
    /\ dstate = "CLEAN" /\ cwb
    /\ IF done
       THEN /\ ddirty' = [ddirty EXCEPT ![ci] = FALSE]
            /\ dm_req' = FALSE /\ dm_we' = FALSE /\ cwb' = FALSE
            /\ ci' = ci + 1
       ELSE UNCHANGED <<ddirty, dm_req, dm_we, cwb, ci>>
    /\ cleaned' = (cleaned /\ clean)
    /\ UNCHANGED <<dvalid, dtags, dlines, dstate, dm_addr>>

DCacheEdge(p, clean, done, rdata) ==
    \/ DIdle(p, clean)
    \/ DStartClean(p, clean)
    \/ DServe(p, clean)
    \/ DMiss(p, clean)
    \/ DWbDone(p, clean, done)
    \/ DFillDone(p, clean, done, rdata)
    \/ DMissWait(clean, done)
    \/ DCleanEnd
    \/ DCleanScan(clean)
    \/ DCleanWb(clean, done)
=============================================================================
