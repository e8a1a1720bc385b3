---------------------------- MODULE MemSysProofs ----------------------------
(***************************************************************************)
(* Proofs about MemSys, for every geometry of the caches.  The inductive   *)
(* invariant IInv is proved part by part, each part split on the actions   *)
(* of the components that can disturb it.                                  *)
(***************************************************************************)
EXTENDS MemSys, TLAPS

\* The index of a line address is an index of the cache arrays.
LEMMA IdxType ==
    /\ \A a \in LineAddrs : DIdx(a) \in DIndex
    /\ \A a \in LineAddrs : IIdx(a) \in IIndex
    /\ \A n \in 0 .. DLines : n % DLines \in DIndex
    /\ \A i \in DIndex : i % DLines = i
BY GeometryAssumption DEF LineAddrs, DIdx, IIdx, DIndex, IIndex

\* While the sweep of dcache.v is not over, ci is the index of a line.
LEMMA SweepIndex == DCacheType /\ ci # DLines => ci \in DIndex /\ ci % DLines = ci
<1>1. DCacheType /\ ci # DLines => ci \in DIndex
  BY GeometryAssumption DEF DCacheType, DIndex
<1> QED
  BY <1>1, IdxType

\* The D-port's requests have their type, and are what they are called.
LEMMA PortTypes ==
    /\ NoReq \in DPort /\ NoReq.op = "none"
    /\ ReadReqs \subseteq DPort /\ WriteReqs \subseteq DPort
    /\ \A p \in ReadReqs : p.op = "read"
    /\ \A line \in Line, p \in DPort : Merge(line, p) \in Line
<1>1. NoReq \in DPort /\ NoReq.op = "none"
  BY GeometryAssumption DEF NoReq, DPort, LineAddrs, Words, Vals
<1>2. \A line \in Line, p \in DPort : Merge(line, p) \in Line
  BY DEF Merge, Line, DPort
<1> QED
  BY <1>1, <1>2 DEF ReadReqs, WriteReqs

\* Reset gives every register a value of its type (dcache.v, icache.v, line_arb.v).
LEMMA InitType == Init => TypeOK
<1> SUFFICES ASSUME Init PROVE TypeOK
  OBVIOUS
<1>1. 0 \in LineAddrs /\ 0 \in 0 .. DLines /\ [w \in Words |-> 0] \in Line
  BY GeometryAssumption DEF LineAddrs, Line, Words, Vals
<1>2. DCacheType
  BY Zenon, <1>1 DEF Init, DCacheInit, DCacheType
<1>3. ICacheType
  BY Zenon, <1>1 DEF Init, ICacheInit, ICacheType
<1>4. LinePortType
  BY Zenon, <1>1 DEF Init, LinePortInit, LinePortType
<1>5. hist \in [LineAddrs -> SUBSET Line]
  BY <1>4 DEF Init, LinePortType
<1>6. 0 \in 0 .. 2
  OBVIOUS
<1> QED
  BY Zenon, <1>2, <1>3, <1>4, <1>5, <1>6, PortTypes DEF Init, TypeOK, WalkLevels

\* Each clock edge keeps every register in its type.
LEMMA StepType ==
    ASSUME IInv, NEW fetch \in LineAddrs \cup {NoFetch}, Edge(fetch, MemStep)
    PROVE  TypeOK'
<1> USE DEF IInv
<1>1. dport \in DPort /\ dport.addr \in LineAddrs /\ DIdx(dport.addr) \in DIndex
  BY IdxType DEF TypeOK, DPort
<1>2. DMWdata(dport) \in Line
  BY <1>1, IdxType DEF TypeOK, DCacheType, DMWdata
<1>3. rdata \in Line /\ dlines[DIdx(dport.addr)] \in Line
  BY <1>1 DEF TypeOK, LinePortType, DCacheType
<1>4. Merge(dlines[DIdx(dport.addr)], dport) \in Line
  BY <1>1, <1>3, PortTypes
<1>5. DCacheType'
  <2>0. 0 \in 0 .. DLines /\ (ci # DLines => ci + 1 \in 0 .. DLines /\ ci \in DIndex)
    BY GeometryAssumption DEF TypeOK, DCacheType, DIndex
  <2> USE <1>1 DEF TypeOK, DCacheType
  <2>1. CASE DIdle(dport, DcClean)              BY <2>1 DEF DIdle
  <2>2. CASE DStartClean(dport, DcClean)
    BY Zenon, <2>2, <2>0 DEF DStartClean
  <2>3. CASE DServe(dport, DcClean)             BY Zenon, <2>3, <1>4 DEF DServe
  <2>4. CASE DMiss(dport, DcClean)              BY Zenon, <2>4 DEF DMiss
  <2>5. CASE DWbDone(dport, DcClean, DDone)     BY Zenon, <2>5 DEF DWbDone
  <2>6. CASE DFillDone(dport, DcClean, DDone, rdata)
    BY Zenon, <2>6, <1>3 DEF DFillDone
  <2>7. CASE DMissWait(DcClean, DDone)          BY <2>7 DEF DMissWait
  <2>8. CASE DCleanEnd                          BY <2>8 DEF DCleanEnd
  <2>9. CASE DCleanScan(DcClean)
    BY Zenon, <2>9, <2>0 DEF DCleanScan
  <2>10. CASE DCleanWb(DcClean, DDone)
    BY Zenon, <2>10, <2>0 DEF DCleanWb, DStateInv
  <2> QED
    BY <2>1, <2>2, <2>3, <2>4, <2>5, <2>6, <2>7, <2>8, <2>9, <2>10
    DEF Edge, DCacheEdge
<1>6. ICacheType'
  <2> USE <1>3 DEF TypeOK, ICacheType
  <2>1. CASE IInval(IcInval, IDone)             BY Zenon, <2>1 DEF IInval
  <2>2. CASE ILookup(fetch, IcInval)            BY Zenon, <2>2 DEF ILookup
  <2>3. CASE IFillDone(IcInval, IDone, rdata)   BY Zenon, <2>3 DEF IFillDone
  <2>4. CASE IFillWait(IcInval, IDone)          BY <2>4 DEF IFillWait, icVars
  <2> QED
    BY <2>1, <2>2, <2>3, <2>4 DEF Edge, ICacheEdge
<1>7. LinePortType'
  <2> DEFINE req == LmReq(dm_req, im_req)  we == LmWe(dm_we)
             addr == LmAddr(dm_addr, miss_addr)
  <2>1. owner' \in {"NONE", "D", "I"}
    BY DEF Edge, ArbEdge, TypeOK, LinePortType
  <2>2. we \in BOOLEAN /\ addr \in LineAddrs
    BY DEF TypeOK, DCacheType, ICacheType, LmWe, LmAddr
  <2> HIDE DEF req, we, addr
  <2> USE <2>1 DEF TypeOK, LinePortType
  <2>3. CASE MemIdle(req)                       BY Zenon, <2>3 DEF MemIdle
  <2>4. CASE MemAccept(req, we, addr, DMWdata(dport))
    BY Zenon, <2>4, <2>2, <1>2 DEF MemAccept
  <2>5. CASE MemBeat                            BY Zenon, <2>5 DEF MemBeat
  <2>6. CASE MemLastBeat                        BY <2>6 DEF MemLastBeat
  <2> QED
    BY <2>3, <2>4, <2>5, <2>6 DEF Edge, MemStep, MemEdge, req, we, addr
<1>8. dport' \in DPort /\ fencei_req' \in BOOLEAN /\ walk' \in 0 .. WalkLevels
  <2>1. walk \in 0 .. 2
    BY DEF TypeOK, WalkLevels
  <2> USE PortTypes, <2>1 DEF WalkLevels
  <2>2. CASE CoreHold      BY <2>2, <1>1, RootsAssumption DEF CoreHold
  <2>3. CASE CoreRun       BY <2>3 DEF CoreRun, TypeOK
  <2>4. CASE CoreFenceI    BY <2>4 DEF CoreFenceI
  <2>5. CASE CoreInFence   BY <2>5 DEF CoreInFence
  <2> QED
    BY <2>2, <2>3, <2>4, <2>5 DEF Edge, CoreEdge
<1>9. fi_done' \in BOOLEAN
  BY DEF Edge, FenceSeqEdge
<1>10. hist' \in [LineAddrs -> SUBSET Line]
  <2>1. \A a \in LineAddrs : View(a) \in Line
    BY IdxType DEF View, TypeOK, DCacheType, LinePortType
  <2>2. Merge(View(dport.addr), dport) \in Line
    BY <1>1, <2>1, PortTypes
  <2> QED
    BY Zenon, <2>1, <2>2 DEF Edge, HistEdge, TypeOK
<1> QED
  BY <1>5, <1>6, <1>7, <1>8, <1>9, <1>10 DEF TypeOK

\* dcache.v is exhaustive: the D-cache's step, with its inputs named.
LEMMA DCases ==
    ASSUME NEW fetch, Edge(fetch, MemStep)
    PROVE  \/ DIdle(dport, DcClean) \/ DStartClean(dport, DcClean)
           \/ DServe(dport, DcClean) \/ DMiss(dport, DcClean)
           \/ DWbDone(dport, DcClean, DDone)
           \/ DFillDone(dport, DcClean, DDone, rdata)
           \/ DMissWait(DcClean, DDone) \/ DCleanEnd
           \/ DCleanScan(DcClean) \/ DCleanWb(DcClean, DDone)
BY DEF Edge, DCacheEdge

\* The core holds a request that is not ready (freeze in cpu_pipe_u.v), a walk
\* too as long as satp does not move its root under it.
LEMMA CoreHolds ==
    ASSUME OneRoot,
           NEW fetch, Edge(fetch, MemStep), dport.op # "none", ~DReady(dport)
    PROVE  dport' = dport
BY DEF Edge, CoreEdge, CoreHold, CoreRun, CoreFenceI, CoreInFence, PortFree, OneRoot

\* FENCE.I stays in EX until the acknowledge (fencei_wait in cpu_pipe_u.v).
LEMMA FenceHolds ==
    ASSUME NEW fetch, Edge(fetch, MemStep), IInv
    PROVE  /\ fencei_req /\ ~fi_done => fencei_req'
           /\ fencei_req /\ fi_done => ~fencei_req'
           /\ fi_done' <=> fencei_req /\ (fi_done \/ cleaned)
           /\ fencei_req' /\ fencei_req => dport'.op # "write"
           /\ fencei_req' /\ ~fencei_req => dport'.op # "write"
<1>1. fi_done' <=> fencei_req /\ (fi_done \/ cleaned)
  BY DEF Edge, FenceSeqEdge, DCleanDone, DcClean, IInv, TypeOK, DCacheType
<1>2. CASE CoreHold
  <2>1. dport'.op # "write" \/ dport' = dport
    BY <1>2, PortTypes, RootsAssumption DEF CoreHold
  <2> QED
    BY Zenon, <1>1, <1>2, <2>1 DEF CoreHold, IInv, FenceInv
<1>3. CASE CoreRun
  BY <1>1, <1>3 DEF CoreRun
<1>4. CASE CoreFenceI
  BY <1>1, <1>4, PortTypes DEF CoreFenceI
<1>5. CASE CoreInFence
  BY Zenon, <1>1, <1>5, PortTypes DEF CoreInFence
<1> QED
  BY <1>2, <1>3, <1>4, <1>5 DEF Edge, CoreEdge

\* A request of the D-cache to memory is held until it is done (dcache.v).
LEMMA DReqHeld ==
    ASSUME OneRoot, IInv, NEW fetch, Edge(fetch, MemStep), dm_req, ~DDone
    PROVE  /\ UNCHANGED <<dvalid, ddirty, dtags, dlines, dstate, ci, cwb>>
           /\ UNCHANGED <<dm_req, dm_we, dm_addr>>
           /\ DMWdata(dport)' = DMWdata(dport)
<1>1. dstate # "IDLE" /\ (dstate = "CLEAN" => cwb)
  BY DEF IInv, DStateInv
<1>2. DMissWait(DcClean, DDone) \/ DCleanWb(DcClean, DDone)
  BY Zenon, <1>1, DCases DEF DIdle, DStartClean, DServe, DReady, DMiss, DWbDone,
                      DFillDone, DCleanEnd, DCleanScan
<1>3. /\ UNCHANGED <<dvalid, ddirty, dtags, dlines, dstate, ci, cwb>>
      /\ UNCHANGED <<dm_req, dm_we, dm_addr>>
  BY Zenon, <1>2 DEF DMissWait, DCleanWb
<1>4. dstate \in {"WB", "FILL"} => dport' = dport
  BY CoreHolds DEF IInv, DStateInv, DReady
<1>5. dstate \in {"WB", "FILL", "CLEAN"}
  BY <1>1 DEF IInv, TypeOK, DCacheType
<1> QED
  BY <1>3, <1>4, <1>5 DEF DMWdata

\* So is a refill request of the I-cache, also over an inval (icache.v).
LEMMA IReqHeld ==
    ASSUME IInv, NEW fetch, Edge(fetch, MemStep), im_req, ~IDone
    PROVE  UNCHANGED <<im_req, miss_addr>>
BY Zenon DEF Edge, ICacheEdge, IInval, ILookup, IFillDone, IFillWait, icVars,
       IInv, HistInv

\* Memory only changes to take the line a waiting D-cache writes back.
LEMMA MemCases ==
    ASSUME IInv, NEW fetch, Edge(fetch, MemStep)
    PROVE  \/ mem' = mem
           \/ /\ dm_req /\ dm_we /\ ~DDone
              /\ dstate = "WB" \/ (dstate = "CLEAN" /\ cwb)
              /\ mem' = [mem EXCEPT ![dm_addr] = DMWdata(dport)]
<1>1. CASE MemLastBeat /\ l_we
  <2>1. /\ owner = "D" /\ dm_req /\ l_addr = dm_addr /\ dm_we
        /\ l_wdata = DMWdata(dport)
    BY Zenon, <1>1 DEF MemLastBeat, IInv, PortInv, PortHeld, TypeOK, LinePortType, DCacheType
  <2>2. ~DDone
    BY <1>1 DEF MemLastBeat, IInv, PortInv, DDone
  <2>3. dstate = "WB" \/ (dstate = "CLEAN" /\ cwb)
    BY <2>1 DEF IInv, DStateInv, TypeOK, DCacheType
  <2> QED
    BY <1>1, <2>1, <2>2, <2>3 DEF MemLastBeat
<1>2. CASE ~(MemLastBeat /\ l_we)
  BY <1>2 DEF Edge, MemStep, MemEdge, MemIdle, MemAccept, MemBeat, MemLastBeat
<1> QED
  BY <1>1, <1>2

\* The line a write-back carries is what the D side sees at its address.
LEMMA WriteBackIsView ==
    ASSUME IInv, dstate = "WB" \/ (dstate = "CLEAN" /\ cwb)
    PROVE  /\ dm_addr \in LineAddrs /\ DHit(dm_addr)
           /\ DMWdata(dport) = View(dm_addr)
<1>1. CASE dstate = "WB"
  <2>1. DIdx(dport.addr) \in DIndex
    BY IdxType DEF IInv, TypeOK, DPort
  <2>2. dm_addr = dtags[DIdx(dport.addr)] /\ dvalid[DIdx(dport.addr)]
    BY <1>1 DEF IInv, DStateInv
  <2>3. DIdx(dm_addr) = DIdx(dport.addr)
    BY <2>1, <2>2 DEF IInv, TagsPlaced
  <2> QED
    BY <1>1, <2>1, <2>2, <2>3 DEF DHit, DMWdata, View, IInv, TypeOK, DCacheType
<1>2. CASE dstate = "CLEAN" /\ cwb
  <2>1. ci \in DIndex /\ dvalid[ci] /\ dm_addr = dtags[ci]
    BY <1>2, GeometryAssumption DEF IInv, DStateInv, TypeOK, DCacheType, DIndex
  <2>2. DIdx(dm_addr) = ci /\ ci % DLines = ci
    BY <2>1, IdxType DEF IInv, TagsPlaced
  <2> QED
    BY <1>2, <2>1, <2>2 DEF DHit, DMWdata, View, IInv, TypeOK, DCacheType
<1> QED
  BY <1>1, <1>2

\* A fill puts a line where its address says (dcache.v S_FILL, icache.v).
LEMMA StepTags ==
    ASSUME IInv, NEW fetch, Edge(fetch, MemStep)
    PROVE  TagsPlaced'
<1>1. DIdx(dport.addr) \in DIndex /\ IIdx(miss_addr) \in IIndex
  BY IdxType DEF IInv, TypeOK, DPort, ICacheType
<1>2. \A i \in DIndex : dvalid'[i] => DIdx(dtags'[i]) = i
  <2>1. CASE DFillDone(dport, DcClean, DDone, rdata)
    BY <1>1, <2>1 DEF DFillDone, IInv, TypeOK, DCacheType, TagsPlaced
  <2>2. CASE ~DFillDone(dport, DcClean, DDone, rdata)
    <3>1. UNCHANGED <<dvalid, dtags>>
      BY Zenon, <2>2, DCases DEF DIdle, DStartClean, DServe, DMiss, DWbDone,
                          DMissWait, DCleanEnd, DCleanScan, DCleanWb
    <3> QED
      BY Zenon, <3>1 DEF IInv, TagsPlaced
  <2> QED
    BY <2>1, <2>2
<1>3. \A i \in IIndex : ivalid'[i] => IIdx(itags'[i]) = i
  <2>1. CASE IInval(IcInval, IDone)
    BY <2>1 DEF IInval
  <2>2. CASE ILookup(fetch, IcInval)
    BY <2>2 DEF ILookup, IInv, TagsPlaced
  <2>3. CASE IFillDone(IcInval, IDone, rdata)
    BY <1>1, <2>3 DEF IFillDone, IInv, TypeOK, ICacheType, TagsPlaced
  <2>4. CASE IFillWait(IcInval, IDone)
    BY Zenon, <2>4 DEF IFillWait, icVars, IInv, TagsPlaced
  <2> QED
    BY Zenon, <2>1, <2>2, <2>3, <2>4 DEF Edge, ICacheEdge
<1> QED
  BY <1>2, <1>3 DEF TagsPlaced

\* The states of dcache.v go with their requests, one action at a time.
LEMMA StepDState ==
    ASSUME OneRoot, IInv, NEW fetch, Edge(fetch, MemStep)
    PROVE  DStateInv'
<1>1. DIdx(dport.addr) \in DIndex
  BY IdxType DEF IInv, TypeOK, DPort
<1>2. dport.op # "none" /\ ~DReady(dport) => dport' = dport
  BY Zenon, CoreHolds
<1> USE <1>1 DEF IInv, DStateInv
<1>3. CASE DIdle(dport, DcClean)
  BY Zenon, <1>3 DEF DIdle
<1>4. CASE DStartClean(dport, DcClean)
  BY Zenon, <1>4, FenceHolds DEF DStartClean, DcClean
<1>5. CASE DServe(dport, DcClean)
  BY Zenon, <1>5 DEF DServe, DReady
<1>6. CASE DMiss(dport, DcClean)
  BY Zenon, <1>6, <1>2 DEF DMiss, DReady, DHit
<1>7. CASE DWbDone(dport, DcClean, DDone)
  BY Zenon, <1>7, <1>2 DEF DWbDone, DReady, DHit, TypeOK, DCacheType
<1>8. CASE DFillDone(dport, DcClean, DDone, rdata)
  BY <1>8 DEF DFillDone
<1>9. CASE DMissWait(DcClean, DDone)
  BY Zenon, <1>9, <1>2 DEF DMissWait, DReady, DHit
<1>10. CASE DCleanEnd
  BY Zenon, <1>10 DEF DCleanEnd
<1>11. CASE DCleanScan(DcClean)
  BY Zenon, <1>11, FenceHolds DEF DCleanScan
<1>12. CASE DCleanWb(DcClean, DDone)
  BY Zenon, <1>12, FenceHolds DEF DCleanWb
<1> QED
  BY Zenon, <1>3, <1>4, <1>5, <1>6, <1>7, <1>8, <1>9, <1>10, <1>11, <1>12, DCases

\* The grant of line_arb.v and the work of oz_burst_mem.v stay in step.
LEMMA StepPort ==
    ASSUME OneRoot, IInv, NEW fetch, Edge(fetch, MemStep)
    PROVE  PortInv'
<1> DEFINE req == LmReq(dm_req, im_req)  we == LmWe(dm_we)
           addr == LmAddr(dm_addr, miss_addr)
<1>1. owner' = IF mdone THEN "NONE"
               ELSE IF owner # "NONE" THEN owner
               ELSE IF dm_req THEN "D" ELSE IF im_req THEN "I" ELSE "NONE"
  BY DEF Edge, ArbEdge
<1>2. dm_req /\ ~DDone => /\ dm_req' /\ dm_we' = dm_we /\ dm_addr' = dm_addr
                          /\ DMWdata(dport)' = DMWdata(dport)
  BY Zenon, DReqHeld
<1>3. im_req /\ ~IDone => im_req' /\ miss_addr' = miss_addr
  BY Zenon, IReqHeld
<1>4. owner \in {"NONE", "D", "I"} /\ mdone \in BOOLEAN /\ l_we \in BOOLEAN
      /\ mem \in [LineAddrs -> Line] /\ l_addr \in LineAddrs
  BY DEF IInv, TypeOK, LinePortType
<1>5. (owner' = "D" => dm_req') /\ (owner' = "I" => im_req')
  BY <1>1, <1>2, <1>3, <1>4 DEF IInv, PortInv, DDone, IDone
<1> USE DEF IInv, PortInv, PortHeld, DDone, IDone
<1>6. CASE MemIdle(req)
  BY <1>5, <1>6 DEF MemIdle
<1>7. CASE MemAccept(req, we, addr, DMWdata(dport))
  <2>1. /\ ~mdone /\ mstate' = "XFER" /\ mdone' = FALSE
        /\ l_wdata' = DMWdata(dport)
    BY <1>7 DEF MemAccept
  <2>2. CASE owner = "D" /\ dm_req
    <3>1. l_we' = dm_we /\ l_addr' = dm_addr /\ dm_we \in BOOLEAN
      BY <1>7, <2>2 DEF MemAccept, LmWe, LmAddr, TypeOK, DCacheType
    <3> QED
      BY <1>1, <1>2, <1>5, <2>1, <2>2, <3>1
  <2>3. CASE owner = "I" /\ im_req
    <3>1. l_we' = FALSE /\ l_addr' = miss_addr
      BY Zenon, <1>7, <2>3 DEF MemAccept, LmWe, LmAddr
    <3> QED
      BY <1>1, <1>3, <1>5, <2>1, <2>3, <3>1
  <2> QED
    BY <1>7, <2>2, <2>3 DEF MemAccept, LmReq
<1>8. CASE MemBeat
  BY <1>1, <1>2, <1>3, <1>4, <1>5, <1>8 DEF MemBeat
<1>9. CASE MemLastBeat
  BY <1>1, <1>2, <1>3, <1>4, <1>5, <1>9 DEF MemLastBeat
<1> QED
  BY <1>6, <1>7, <1>8, <1>9 DEF Edge, MemStep, MemEdge

(***************************************************************************)
(* What the D side sees changes in one way only: a served store changes    *)
(* its own word (dcache.v).  Refills, write-backs and sweeps are invisible.*)
(***************************************************************************)
LEMMA StepView ==
    ASSUME OneRoot, IInv, NEW fetch, Edge(fetch, MemStep)
    PROVE  \A a \in LineAddrs :
             View(a)' = IF DReady(dport) /\ dport.op = "write" /\ a = dport.addr
                        THEN Merge(View(a), dport) ELSE View(a)
<1> TAKE a \in LineAddrs
<1> DEFINE i == DIdx(dport.addr)
<1>1. i \in DIndex /\ DIdx(a) \in DIndex
  BY IdxType DEF IInv, TypeOK, DPort
<1>2. dvalid \in [DIndex -> BOOLEAN] /\ ddirty \in [DIndex -> BOOLEAN]
      /\ dtags \in [DIndex -> LineAddrs] /\ dlines \in [DIndex -> Line]
      /\ mem \in [LineAddrs -> Line] /\ dport.addr \in LineAddrs
  BY DEF IInv, TypeOK, DCacheType, LinePortType, DPort
<1>3. CASE mem' # mem
  <2>1. /\ dm_req /\ ~DDone /\ dstate # "IDLE"
        /\ mem' = [mem EXCEPT ![dm_addr] = View(dm_addr)]
        /\ dm_addr \in LineAddrs /\ DHit(dm_addr)
    BY <1>3, MemCases, WriteBackIsView
  <2>2. UNCHANGED <<dvalid, dtags, dlines>>
    BY Zenon, <2>1, DReqHeld
  <2> QED
    BY <1>2, <2>1, <2>2 DEF View, DHit, DReady
<1>4. CASE mem' = mem
  <2>1. CASE DServe(dport, DcClean)
    BY <1>1, <1>2, <1>4, <2>1 DEF DServe, View, DHit, DReady
  <2>2. CASE DFillDone(dport, DcClean, DDone, rdata)
    <3>1. rdata = mem[dport.addr]
      BY <2>2 DEF DFillDone, DDone, IInv, PortInv, PortHeld, DStateInv
    <3>2. ~DHit(dport.addr) /\ ~(dvalid[i] /\ ddirty[i]) /\ ~DReady(dport)
      BY Zenon, <2>2 DEF DFillDone, IInv, DStateInv, DReady
    <3>3. dvalid[i] => dlines[i] = mem[dtags[i]]
      BY <1>1, <3>2 DEF IInv, CleanIsCopy
    <3>4. /\ dlines' = [dlines EXCEPT ![i] = rdata]
          /\ dtags'  = [dtags  EXCEPT ![i] = dport.addr]
          /\ dvalid' = [dvalid EXCEPT ![i] = TRUE]
      BY Zenon, <2>2 DEF DFillDone
    <3> HIDE DEF i
    <3>5. CASE DIdx(a) = i
      BY <1>1, <1>2, <1>4, <3>1, <3>2, <3>3, <3>4, <3>5 DEF View, DHit, i
    <3>6. CASE DIdx(a) # i
      BY <1>1, <1>2, <1>4, <3>2, <3>4, <3>6 DEF View, DHit
    <3> QED
      BY <3>5, <3>6
  <2>3. CASE ~DServe(dport, DcClean) /\ ~DFillDone(dport, DcClean, DDone, rdata)
    <3>1. UNCHANGED <<dvalid, dtags, dlines>>
      BY Zenon, <2>3, DCases DEF DIdle, DStartClean, DMiss, DWbDone, DMissWait,
                          DCleanEnd, DCleanScan, DCleanWb
    <3>2. ~DReady(dport)
      BY Zenon, <2>3, DCases DEF DReady, DIdle, DStartClean, DMiss, DWbDone, DMissWait,
                          DCleanEnd, DCleanScan, DCleanWb
    <3> QED
      BY Zenon, <1>4, <3>1, <3>2 DEF View, DHit
  <2> QED
    BY <2>1, <2>2, <2>3
<1> QED
  BY <1>3, <1>4

\* A line marked clean is a copy of memory (dcache.v's dirty bits).
LEMMA StepCleanCopy ==
    ASSUME OneRoot, IInv, NEW fetch, Edge(fetch, MemStep)
    PROVE  CleanIsCopy'
<1>1. DIdx(dport.addr) \in DIndex
  BY IdxType DEF IInv, TypeOK, DPort
<1> USE DEF IInv, CleanIsCopy, TypeOK, DCacheType, LinePortType
<1>2. CASE mem' # mem
  <2>1. /\ dm_req /\ ~DDone
        /\ mem' = [mem EXCEPT ![dm_addr] = View(dm_addr)]
        /\ dm_addr \in LineAddrs /\ DHit(dm_addr)
    BY <1>2, MemCases, WriteBackIsView
  <2>2. UNCHANGED <<dvalid, ddirty, dtags, dlines>>
    BY Zenon, <2>1, DReqHeld
  <2>3. \A j \in DIndex : dvalid[j] /\ dtags[j] = dm_addr => j = DIdx(dm_addr)
    BY DEF TagsPlaced
  <2> QED
    BY <2>1, <2>2, <2>3 DEF View
<1>3. CASE mem' = mem
  <2> USE <1>1, <1>3
  <2>1. CASE DIdle(dport, DcClean)          BY <2>1 DEF DIdle
  <2>2. CASE DStartClean(dport, DcClean)    BY <2>2 DEF DStartClean
  <2>3. CASE DServe(dport, DcClean)         BY <2>3 DEF DServe
  <2>4. CASE DMiss(dport, DcClean)          BY <2>4 DEF DMiss
  <2>5. CASE DWbDone(dport, DcClean, DDone)
    <3>1. mem[dtags[DIdx(dport.addr)]] = dlines[DIdx(dport.addr)]
      BY <2>5 DEF DWbDone, DDone, PortInv, PortHeld, DStateInv, DMWdata
    <3> QED
      BY <2>5, <3>1 DEF DWbDone
  <2>6. CASE DFillDone(dport, DcClean, DDone, rdata)
    <3>1. rdata = mem[dport.addr]
      BY <2>6 DEF DFillDone, DDone, PortInv, PortHeld, DStateInv
    <3> QED
      BY <2>6, <3>1 DEF DFillDone
  <2>7. CASE DMissWait(DcClean, DDone)      BY <2>7 DEF DMissWait
  <2>8. CASE DCleanEnd                      BY <2>8 DEF DCleanEnd
  <2>9. CASE DCleanScan(DcClean)            BY <2>9 DEF DCleanScan
  <2>10. CASE DCleanWb(DcClean, DDone)
    <3>1. CASE ~DDone
      BY <2>10, <3>1 DEF DCleanWb
    <3>2. CASE DDone
      <4>0. ci # DLines
        BY <2>10 DEF DCleanWb, DStateInv
      <4>1. ci \in DIndex /\ ci % DLines = ci
        BY Zenon, <4>0, SweepIndex
      <4>2. mem[dtags[ci]] = dlines[ci]
        BY <2>10, <3>2, <4>1 DEF DCleanWb, DDone, PortInv, PortHeld, DStateInv, DMWdata
      <4> QED
        BY <2>10, <3>2, <4>1, <4>2 DEF DCleanWb
    <3> QED
      BY <3>1, <3>2
  <2> QED
    BY Zenon, <2>1, <2>2, <2>3, <2>4, <2>5, <2>6, <2>7, <2>8, <2>9, <2>10, DCases
<1> QED
  BY Zenon, <1>2, <1>3

\* FENCE.I: the sweep of dcache.v leaves no dirty line, and none comes back
\* before the acknowledge; the I-cache is empty when it is given.
LEMMA StepFence ==
    ASSUME OneRoot, IInv, NEW fetch, Edge(fetch, MemStep)
    PROVE  FenceInv'
<1> DEFINE AllClean == \A i \in DIndex : ~(dvalid[i] /\ ddirty[i])
           Swept == \A i \in DIndex : i < ci => ~(dvalid[i] /\ ddirty[i])
<1>1. DIdx(dport.addr) \in DIndex
  BY IdxType DEF IInv, TypeOK, DPort
<1>2. fencei_req' => dport'.op # "write"
  BY FenceHolds DEF IInv, TypeOK
<1>3. cleaned' => fencei_req'
  <2>1. CASE DCleanEnd
    BY Zenon, <2>1, FenceHolds DEF DCleanEnd, IInv, DStateInv
  <2>2. CASE ~DCleanEnd
    <3>1. cleaned' = cleaned \/ cleaned' = (cleaned /\ DcClean)
      BY Zenon, <2>2, DCases DEF DIdle, DStartClean, DServe, DMiss, DWbDone, DFillDone,
                          DMissWait, DCleanScan, DCleanWb
    <3>2. DStartClean(dport, DcClean) => ~cleaned
      BY DEF DStartClean
    <3>3. cleaned' => cleaned /\ DcClean
      BY Zenon, <2>2, <3>2, DCases DEF DIdle, DStartClean, DServe, DMiss, DWbDone,
                          DFillDone, DMissWait, DCleanScan, DCleanWb
    <3> QED
      BY Zenon, <3>3, FenceHolds DEF DcClean
  <2> QED
    BY Zenon, <2>1, <2>2
<1>4. fencei_req /\ AllClean => AllClean'
  <2> USE <1>1 DEF IInv, TypeOK, DCacheType
  <2> SUFFICES ASSUME fencei_req, AllClean PROVE AllClean'
    OBVIOUS
  <2>1. CASE DServe(dport, DcClean)     BY <2>1 DEF DServe, FenceInv
  <2>2. CASE DWbDone(dport, DcClean, DDone)   BY <2>2 DEF DWbDone
  <2>3. CASE DFillDone(dport, DcClean, DDone, rdata)   BY <2>3 DEF DFillDone
  <2>4. CASE DCleanWb(DcClean, DDone)   BY Zenon, <2>4 DEF DCleanWb
  <2>5. CASE UNCHANGED <<dvalid, ddirty>>   BY Zenon, <2>5
  <2> QED
    BY Zenon, <2>1, <2>2, <2>3, <2>4, <2>5, DCases DEF DIdle, DStartClean, DMiss,
       DMissWait, DCleanEnd, DCleanScan
<1>5. dstate' = "CLEAN" => Swept'
  <2> SUFFICES ASSUME dstate' = "CLEAN" PROVE Swept'
    OBVIOUS
  <2>1. CASE DStartClean(dport, DcClean)
    BY <2>1, GeometryAssumption DEF DStartClean, DIndex
  <2>2. CASE DCleanScan(DcClean)
    <3>1. Swept /\ ci \in DIndex
      BY <2>2, GeometryAssumption DEF DCleanScan, IInv, FenceInv, TypeOK, DCacheType, DIndex
    <3>2. CASE dvalid[ci] /\ ddirty[ci]
      BY <2>2, <3>1, <3>2 DEF DCleanScan
    <3>3. CASE ~(dvalid[ci] /\ ddirty[ci])
      <4>1. ci' = ci + 1 /\ UNCHANGED <<dvalid, ddirty>>
        BY <2>2, <3>3 DEF DCleanScan
      <4> QED
        BY <3>1, <3>3, <4>1, GeometryAssumption DEF DIndex
    <3> QED
      BY <3>2, <3>3
  <2>3. CASE DCleanWb(DcClean, DDone)
    <3>1. Swept /\ ci \in DIndex /\ ddirty \in [DIndex -> BOOLEAN]
      BY <2>3, GeometryAssumption
      DEF DCleanWb, IInv, FenceInv, DStateInv, TypeOK, DCacheType, DIndex
    <3>2. CASE ~DDone
      BY <2>3, <3>1, <3>2 DEF DCleanWb
    <3>3. CASE DDone
      <4>1. ci' = ci + 1 /\ dvalid' = dvalid /\ ddirty' = [ddirty EXCEPT ![ci] = FALSE]
        BY <2>3, <3>3 DEF DCleanWb
      <4> QED
        BY <3>1, <4>1, GeometryAssumption DEF DIndex
    <3> QED
      BY <3>2, <3>3
  <2> QED
    BY <2>1, <2>2, <2>3, DCases DEF DIdle, DServe, DReady, DMiss, DWbDone,
       DFillDone, DMissWait, DCleanEnd
<1>6. fencei_req' /\ (cleaned' \/ fi_done') => AllClean'
  <2>1. CASE DCleanEnd
    <3>1. AllClean /\ fencei_req
      BY <2>1, GeometryAssumption DEF DCleanEnd, IInv, FenceInv, DStateInv, DIndex
    <3> QED
      BY Zenon, <3>1, <1>4
  <2>2. CASE ~DCleanEnd
    <3>1. cleaned' => cleaned
      BY Zenon, <2>2, DCases DEF DIdle, DStartClean, DServe, DMiss, DWbDone, DFillDone,
                          DMissWait, DCleanScan, DCleanWb
    <3>2. cleaned' \/ fi_done' => fencei_req /\ (cleaned \/ fi_done)
      BY <3>1, FenceHolds DEF IInv, FenceInv
    <3> QED
      BY Zenon, <3>2, <1>4 DEF IInv, FenceInv
  <2> QED
    BY <2>1, <2>2
<1>7. fencei_req' /\ fi_done' => \A i \in IIndex : ~ivalid'[i]
  <2> SUFFICES ASSUME fencei_req', fi_done' PROVE \A i \in IIndex : ~ivalid'[i]
    OBVIOUS
  <2>1. fencei_req /\ ~fi_done /\ cleaned
    BY FenceHolds
  <2>2. IcInval
    BY <2>1 DEF IcInval, DcClean, DCleanDone
  <2>3. IInval(IcInval, IDone)
    BY Zenon, <2>2 DEF Edge, ICacheEdge, ILookup, IFillDone, IFillWait
  <2> QED
    BY <2>3 DEF IInval
<1> QED
  BY <1>2, <1>3, <1>5, <1>6, <1>7 DEF FenceInv

\* At the acknowledge memory and the D side agree (soc_boot.v, dcache.v).
LEMMA AckClean == IInv => AckMeansClean
<1> SUFFICES ASSUME IInv, fencei_req, fi_done, NEW a \in LineAddrs
             PROVE  mem[a] = View(a)
  BY DEF AckMeansClean
<1>1. DIdx(a) \in DIndex
  BY Zenon, IdxType
<1> QED
  BY <1>1 DEF IInv, FenceInv, CleanIsCopy, View, DHit

\* What memory and the D side hold before and after an edge is in the history.
LEMMA HistKeeps ==
    ASSUME OneRoot, IInv, NEW fetch, Edge(fetch, MemStep), NEW a \in LineAddrs
    PROVE  /\ mem[a] \in hist'[a] /\ View(a) \in hist'[a] /\ View(a)' \in hist'[a]
           /\ ~(fencei_req /\ fi_done) => hist[a] \subseteq hist'[a]
<1>1. View(a)' = IF DReady(dport) /\ dport.op = "write" /\ a = dport.addr
                 THEN Merge(View(a), dport) ELSE View(a)
  BY Zenon, StepView
<1>2. mem[a] \in hist[a] /\ View(a) \in hist[a]
  BY DEF IInv, HistInv
<1>3. dport.addr \in LineAddrs /\ hist \in [LineAddrs -> SUBSET Line]
  BY Zenon DEF IInv, TypeOK, DPort
<1>4. CASE fencei_req /\ fi_done
  <2>1. dport.op # "write" /\ mem[a] = View(a)
    BY <1>4, AckClean DEF IInv, FenceInv, AckMeansClean
  <2>2. hist'[a] = {View(a)}
    BY <1>4 DEF Edge, HistEdge
  <2> QED
    BY Zenon, <1>1, <1>4, <2>1, <2>2
<1>5. CASE ~(fencei_req /\ fi_done) /\ DReady(dport) /\ dport.op = "write"
  <2>1. hist' = [hist EXCEPT ![dport.addr] = @ \cup {Merge(View(dport.addr), dport)}]
    BY <1>5 DEF Edge, HistEdge
  <2>2. hist[a] \subseteq hist'[a]
        /\ (a = dport.addr => Merge(View(a), dport) \in hist'[a])
    BY <1>3, <2>1
  <2> QED
    BY <1>1, <1>2, <1>5, <2>2
<1>6. CASE ~(fencei_req /\ fi_done) /\ ~(DReady(dport) /\ dport.op = "write")
  <2>1. hist' = hist
    BY <1>6 DEF Edge, HistEdge
  <2> QED
    BY <1>1, <1>2, <1>6, <2>1
<1> QED
  BY Zenon, <1>4, <1>5, <1>6

\* Refills take from memory what the history knows (icache.v, line_arb.v).
LEMMA StepHist ==
    ASSUME OneRoot, IInv, NEW fetch, Edge(fetch, MemStep)
    PROVE  HistInv'
<1>1. im_req' = filling'
  <2>0. im_req = filling /\ filling \in BOOLEAN /\ IDone \in BOOLEAN
    BY DEF IInv, HistInv, TypeOK, ICacheType, IDone, LinePortType
  <2>1. CASE IInval(IcInval, IDone)             BY <2>0, <2>1, Zenon DEF IInval
  <2>2. CASE ILookup(fetch, IcInval)            BY <2>0, <2>2, Zenon DEF ILookup
  <2>3. CASE IFillDone(IcInval, IDone, rdata)   BY <2>3, Zenon DEF IFillDone
  <2>4. CASE IFillWait(IcInval, IDone)          BY <2>0, <2>4 DEF IFillWait, icVars
  <2> QED
    BY <2>1, <2>2, <2>3, <2>4 DEF Edge, ICacheEdge
<1>2. ASSUME NEW a \in LineAddrs PROVE mem'[a] \in hist'[a] /\ View(a)' \in hist'[a]
  <2>1. mem'[a] = mem[a] \/ mem'[a] = View(a)
    BY Zenon, MemCases, WriteBackIsView DEF IInv, TypeOK, LinePortType
  <2> QED
    BY <2>1, HistKeeps
<1>3. ASSUME NEW i \in IIndex, ivalid'[i] PROVE ilines'[i] \in hist'[itags'[i]]
  <2>1. ICacheType /\ itags[i] \in LineAddrs
    BY Zenon DEF IInv, TypeOK, ICacheType
  <2>2. ivalid[i] => ilines[i] \in hist'[itags[i]]
    <3>1. ivalid[i] => ~(fencei_req /\ fi_done)
      BY DEF IInv, FenceInv
    <3> QED
      BY Zenon, <2>1, <3>1, HistKeeps DEF IInv, HistInv
  <2>3. CASE IInval(IcInval, IDone)
    BY <2>3, <1>3 DEF IInval
  <2>4. CASE ILookup(fetch, IcInval)
    BY <2>2, <2>4, <1>3 DEF ILookup
  <2>5. CASE IFillDone(IcInval, IDone, rdata)
    <3>1. rdata = mem[miss_addr] /\ miss_addr \in LineAddrs
      BY <2>5 DEF IFillDone, IDone, IInv, PortInv, PortHeld, TypeOK, ICacheType
    <3>2. rdata \in hist'[miss_addr]
      BY <3>1, HistKeeps
    <3>3. CASE i = IIdx(miss_addr)
      BY Zenon, <2>1, <2>5, <3>2, <3>3 DEF IFillDone, ICacheType
    <3>4. CASE i # IIdx(miss_addr)
      BY Zenon, <2>1, <2>2, <2>5, <3>4, <1>3 DEF IFillDone, ICacheType
    <3> QED
      BY <3>3, <3>4
  <2>6. CASE IFillWait(IcInval, IDone)
    BY Zenon, <2>2, <2>6, <1>3 DEF IFillWait, icVars
  <2> QED
    BY Zenon, <2>3, <2>4, <2>5, <2>6 DEF Edge, ICacheEdge
<1> QED
  BY <1>1, <1>2, <1>3 DEF HistInv

\* Reset establishes the invariant.
LEMMA InitInv == Init => IInv
<1> SUFFICES ASSUME Init PROVE IInv
  OBVIOUS
<1>1. TypeOK
  BY InitType
<1>2. /\ \A i \in DIndex : ~dvalid[i]
      /\ \A i \in IIndex : ~ivalid[i]
      /\ dstate = "IDLE" /\ ~dm_req /\ ~cleaned
      /\ ~im_req /\ ~filling /\ im_req = filling
      /\ owner = "NONE" /\ mstate = "IDLE" /\ ~mdone
      /\ ~fencei_req /\ hist = [a \in LineAddrs |-> {mem[a]}]
  BY Zenon DEF Init, DCacheInit, ICacheInit, LinePortInit
<1>3. \A a \in LineAddrs : View(a) = mem[a]
  BY <1>2, IdxType DEF View, DHit
<1> QED
  BY Zenon, <1>1, <1>2, <1>3 DEF IInv, TagsPlaced, DStateInv, CleanIsCopy, PortInv,
     PortHeld, FenceInv, HistInv

\* Every clock edge of soc_boot.v's cached memory system preserves it.
LEMMA StepInv ==
    ASSUME OneRoot
    PROVE  IInv /\ [Next]_vars => IInv'
<1> SUFFICES ASSUME IInv, [Next]_vars PROVE IInv'
  OBVIOUS
<1>1. CASE Next
  <2> PICK fetch \in LineAddrs \cup {NoFetch} : Edge(fetch, MemStep)
    BY <1>1 DEF Next
  <2> QED
    BY StepType, StepTags, StepDState, StepCleanCopy, StepPort, StepFence,
       StepHist DEF IInv
<1>2. CASE UNCHANGED vars
  <2> USE <1>2 DEF vars, dcVars, icVars, lpVars, sysVars, IInv
  <2>1. DHit(dport.addr)' = DHit(dport.addr) /\ DMWdata(dport)' = DMWdata(dport)
    BY Zenon DEF DHit, DMWdata
  <2>2. \A a \in LineAddrs : View(a)' = View(a)
    BY Zenon DEF View, DHit
  <2>3. TypeOK'
    <3>1. DCacheType'
      BY Zenon DEF TypeOK, DCacheType
    <3>2. ICacheType'
      BY Zenon DEF TypeOK, ICacheType
    <3>3. LinePortType'
      BY Zenon DEF TypeOK, LinePortType
    <3> QED
      BY Zenon, <3>1, <3>2, <3>3 DEF TypeOK
  <2>4. TagsPlaced'
    BY Zenon DEF TagsPlaced
  <2>5. DStateInv'
    BY Zenon, <2>1 DEF DStateInv
  <2>6. CleanIsCopy'
    BY Zenon DEF CleanIsCopy
  <2>7. PortInv'
    BY Zenon, <2>1 DEF PortInv, PortHeld
  <2>8. FenceInv'
    BY Zenon DEF FenceInv
  <2>9. HistInv'
    BY Zenon, <2>2 DEF HistInv
  <2> QED
    BY Zenon, <2>3, <2>4, <2>5, <2>6, <2>7, <2>8, <2>9
<1> QED
  BY <1>1, <1>2

(***************************************************************************)
(* The inductive invariant holds in every state, for every geometry.  As   *)
(* in every theorem below, OneRoot is the assumption that no walk in       *)
(* flight sees satp change (ptw.v:79): dcache.v counts on a held request.  *)
(***************************************************************************)
THEOREM InvariantHolds ==
    ASSUME OneRoot
    PROVE  Spec => []IInv
BY InitInv, StepInv, PTL DEF Spec

\* The registers of the cached memory system keep their types.
THEOREM TypesHold ==
    ASSUME OneRoot
    PROVE  Spec => []TypeOK
<1>1. IInv => TypeOK
  BY DEF IInv
<1> QED
  BY <1>1, InvariantHolds, PTL

\* After FENCE.I no fetch sees an older value (soc_boot.v, icache.v, dcache.v).
THEOREM FetchesAreFresh ==
    ASSUME OneRoot
    PROVE  Spec => []FetchFresh
<1>1. IInv => FetchFresh
  BY IdxType DEF IInv, HistInv, FetchFresh, IReady, IHit
<1> QED
  BY <1>1, InvariantHolds, PTL

\* FENCE.I is acknowledged only with every store in memory (soc_boot.v).
THEOREM AckIsClean ==
    ASSUME OneRoot
    PROVE  Spec => []AckMeansClean
BY AckClean, InvariantHolds, PTL

\* The memory works only on what the port's owner asks (line_arb.v).
THEOREM PortIsHeld ==
    ASSUME OneRoot
    PROVE  Spec => []PortHeld
<1>1. IInv => PortHeld
  BY DEF IInv, PortInv
<1> QED
  BY <1>1, InvariantHolds, PTL

(***************************************************************************)
(* dcache.v behind its port is a memory: MemSys implements DataMemory with *)
(* the cached copy, where there is one, as the value of a line.            *)
(***************************************************************************)
THEOREM DataIsAMemory ==
    ASSUME OneRoot
    PROVE  Spec => DataIsMemory
<1> DEFINE V == [a \in LineAddrs |-> View(a)]
<1>0. /\ Data!LineAddrs = LineAddrs /\ Data!Line = Line
      /\ Data!DPort = DPort /\ Data!NoReq = NoReq
  BY DEF Data!LineAddrs, LineAddrs, Data!Line, Line, Data!Words, Words, Data!Vals,
         Vals, Data!DPort, DPort, Data!NoReq, NoReq
<1>1. Init => Data!Init
  <2> SUFFICES ASSUME Init PROVE Data!Init
    OBVIOUS
  <2>1. \A a \in LineAddrs : View(a) \in Line
    BY InitType, IdxType DEF View, TypeOK, DCacheType, LinePortType
  <2> QED
    BY <1>0, <2>1 DEF Data!Init, Init
<1>2. IInv /\ IInv' /\ [Next]_vars => [Data!Next]_<<V, dport>>
  <2> SUFFICES ASSUME IInv, IInv', [Next]_vars PROVE [Data!Next]_<<V, dport>>
    BY Zenon
  <2>1. CASE UNCHANGED vars
    BY Zenon, <2>1 DEF vars, dcVars, lpVars, sysVars, View, DHit
  <2>2. CASE Next
    <3> PICK fetch \in LineAddrs \cup {NoFetch} : Edge(fetch, MemStep)
      BY <2>2 DEF Next
    <3>1. dport \in DPort /\ dport' \in DPort
      BY DEF IInv, TypeOK
    <3>2. \A a \in LineAddrs :
            View(a)' = IF DReady(dport) /\ dport.op = "write" /\ a = dport.addr
                       THEN Merge(View(a), dport) ELSE View(a)
      BY StepView
    <3>3. CASE DReady(dport)
      <4>1. dport.op # "none"
        BY <3>3 DEF DReady
      <4>2. CASE dport.op = "write"
        <5>1. V' = [V EXCEPT ![dport.addr][dport.word] = dport.data]
          BY <3>1, <3>2, <3>3, <4>2 DEF Merge
        <5> QED
          BY <1>0, <3>1, <4>1, <4>2, <5>1 DEF Data!Next, Data!Serve
      <4>3. CASE dport.op # "write"
        <5>1. V' = V
          BY <3>2, <4>3
        <5> QED
          BY <1>0, <3>1, <4>1, <4>3, <5>1 DEF Data!Next, Data!Serve
      <4> QED
        BY <4>2, <4>3
    <3>4. CASE ~DReady(dport)
      <4>1. V' = V
        BY <3>2, <3>4
      <4>2. CASE dport.op = "none"
        BY <1>0, <3>1, <4>1, <4>2 DEF Data!Next, Data!Idle
      <4>3. CASE dport.op # "none"
        BY <3>4, <4>1, <4>3, CoreHolds
      <4> QED
        BY <4>2, <4>3
    <3> QED
      BY <3>3, <3>4
  <2> QED
    BY <2>1, <2>2
<1> QED
  BY <1>1, <1>2, InvariantHolds, PTL DEF Spec, DataIsMemory, Data!Spec
=============================================================================
