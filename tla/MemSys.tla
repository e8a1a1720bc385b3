------------------------------- MODULE MemSys -------------------------------
(***************************************************************************)
(* The cached memory system of rtl/soc_boot.v (generate block g_cached):   *)
(* I-cache, D-cache, the arbiter and memory behind them, and the FENCE.I   *)
(* sequencer, driven by the two ports of the pipeline.  Everything hangs   *)
(* off one clock, so Next is one edge of all the parts together.           *)
(***************************************************************************)
EXTENDS DCache, ICache, LinePort

CONSTANT
    Roots       \* level-1 PTE reads that a write of satp swaps in a waiting walk

ASSUME RootsAssumption == Roots \subseteq ReadReqs

VARIABLES
    dport,      \* the core's D-port request
    fencei_req, \* a FENCE.I sits in EX with MEM empty behind it
    fi_done,    \* soc_boot's sequencer; also fencei_ack
    walk,       \* PTEs read in a row by the walker during the FENCE.I
    hist        \* history: the values each line has had since the last FENCE.I

sysVars == <<dport, fencei_req, fi_done, walk, hist>>
vars == <<dcVars, icVars, lpVars, sysVars>>

\* A page walk reads at most a level-1 and a level-0 PTE.
WalkLevels == 2

\* What the D side sees at line a: the cached copy if there is one.
View(a) == IF DHit(a) THEN dlines[DIdx(a)] ELSE mem[a]

\* The wires of soc_boot's FENCE.I sequencer.
DcClean == fencei_req /\ ~fi_done
IcInval == DcClean /\ DCleanDone(DcClean)

TypeOK ==
    /\ DCacheType /\ ICacheType /\ LinePortType
    /\ dport \in DPort
    /\ fencei_req \in BOOLEAN /\ fi_done \in BOOLEAN
    /\ walk \in 0 .. WalkLevels
    /\ hist \in [LineAddrs -> SUBSET Line]

Init ==
    /\ DCacheInit /\ ICacheInit /\ LinePortInit
    /\ dport = NoReq
    /\ fencei_req = FALSE /\ fi_done = FALSE
    /\ walk = 0
    /\ hist = [a \in LineAddrs |-> {mem[a]}]

\* Mutant of FenceSeqEdge: the acknowledge does not wait for the sweep.
FenceSeqEdgeAtOnce ==
    fi_done' = fencei_req

FenceSeqEdge ==
    fi_done' = (fencei_req /\ (fi_done \/ DCleanDone(DcClean)))

(***************************************************************************)
(* The pipeline, as far as its ports tell.  A D-port request is held until *)
(* it is ready, then the next one follows, or none.  FENCE.I asks only     *)
(* with MEM empty (~freeze) and holds EX until the acknowledge, so while   *)
(* it waits the D-port carries nothing but PTE reads of a fetch-side walk: *)
(* at most two in a row, then a cycle with the port free.  The exception   *)
(* to the holding is the walker's level-1 read: its address is made from   *)
(* the satp of the moment (ptw.v:79), so it turns into the read of another *)
(* root if satp is written while the walk waits.  Roots are the reads that *)
(* satp moves between; a load of one of these words is not told apart.     *)
(***************************************************************************)
PortFree == dport.op = "none" \/ DReady(dport)

CoreHold ==
    /\ ~PortFree
    /\ dport' \in {dport} \cup (IF dport \in Roots THEN Roots ELSE {})
    /\ fencei_req' = (fencei_req /\ ~fi_done)
    /\ UNCHANGED walk

CoreRun ==
    /\ PortFree /\ ~fencei_req
    /\ dport' \in {NoReq} \cup ReadReqs \cup WriteReqs
    /\ UNCHANGED <<fencei_req, walk>>

CoreFenceI ==
    /\ PortFree /\ ~fencei_req
    /\ fencei_req' = TRUE
    /\ \/ dport' = NoReq /\ walk' = 0
       \/ dport' \in ReadReqs /\ walk' = 1

CoreInFence ==
    /\ PortFree /\ fencei_req
    /\ fencei_req' = ~fi_done
    /\ \/ dport' = NoReq /\ walk' = 0
       \/ dport' \in ReadReqs /\ walk < WalkLevels /\ walk' = walk + 1

CoreEdge == CoreHold \/ CoreRun \/ CoreFenceI \/ CoreInFence

\* A completed FENCE.I leaves each line with one value; a store adds one.
HistEdge ==
    hist' = IF fencei_req /\ fi_done
            THEN [a \in LineAddrs |-> {View(a)}]
            ELSE IF DReady(dport) /\ dport.op = "write"
            THEN [hist EXCEPT ![dport.addr] = @ \cup {Merge(View(dport.addr), dport)}]
            ELSE hist

\* One clock edge; fetch is the I-port of this cycle, work the memory's.
Edge(fetch, MemWork) ==
    /\ DCacheEdge(dport, DcClean, DDone, rdata)
    /\ ICacheEdge(fetch, IcInval, IDone, rdata)
    /\ ArbEdge(dm_req, im_req)
    /\ MemWork
    /\ FenceSeqEdge
    /\ CoreEdge
    /\ HistEdge

MemStep == MemEdge(LmReq(dm_req, im_req), LmWe(dm_we),
                   LmAddr(dm_addr, miss_addr), DMWdata(dport))

Next == \E fetch \in LineAddrs \cup {NoFetch} : Edge(fetch, MemStep)

\* The memory does not insert wait states for ever.
LastBeat == \E fetch \in LineAddrs \cup {NoFetch} : Edge(fetch, MemLastBeat)

\* No walk in flight sees satp change: the tables have one root at most.
OneRoot == \A q, r \in Roots : q = r

Spec == Init /\ [][Next]_vars

FairSpec == Spec /\ WF_vars(Next) /\ WF_vars(LastBeat)
-----------------------------------------------------------------------------
(***************************************************************************)
(* The D-port is a memory (dcache.v): refills, write-backs and clean       *)
(* sweeps move lines about but never change what a load would return, and  *)
(* a served store changes its own word only.  dcache.v latches nothing of  *)
(* a request ("The core holds its request (address, mask, data) until      *)
(* ready"), so this, like the properties below, is stated for OneRoot.     *)
(* With a second root a read that moves in S_FILL makes dcache.v:121       *)
(* install the old root's line under the new root's tag; this property,    *)
(* FetchFresh and AckMeansClean then fail.                                 *)
(***************************************************************************)
Data == INSTANCE DataMemory WITH view <- [a \in LineAddrs |-> View(a)],
                                 port <- dport
DataIsMemory == Data!Spec

(***************************************************************************)
(* FENCE.I (soc_boot.v's sequencer, icache.v's inval and drop): whatever   *)
(* the I-cache would deliver, for any address, is a value the line had     *)
(* after the last completed FENCE.I; a store before it is never missed.    *)
(***************************************************************************)
FetchFresh ==
    \A a \in LineAddrs : IReady(a) => ilines[IIdx(a)] \in hist[a]

(***************************************************************************)
(* When FENCE.I is acknowledged (fi_done), main memory holds every store:  *)
(* no line is dirty and memory agrees with the D side everywhere.          *)
(***************************************************************************)
AckMeansClean ==
    fencei_req /\ fi_done =>
        \A a \in LineAddrs : mem[a] = View(a)

(***************************************************************************)
(* line_arb.v, oz_burst_mem.v: the memory never works on, or finishes, a   *)
(* transaction the port's owner has stopped asking for; its latched        *)
(* request is still the one on the owner's wires.                          *)
(***************************************************************************)
PortHeld ==
    mstate = "XFER" \/ mdone =>
        \/ owner = "D" /\ dm_req /\ l_addr = dm_addr /\ l_we = dm_we
           /\ (l_we => l_wdata = DMWdata(dport))
        \/ owner = "I" /\ im_req /\ l_addr = miss_addr /\ ~l_we

(***************************************************************************)
(* Nobody waits for ever: a D-port request is served (dcache.v), an        *)
(* I-cache refill is not starved by the D side's priority (line_arb.v),    *)
(* and a FENCE.I is acknowledged (soc_boot.v), walks behind it or not.     *)
(* The core holds its requests, so for those it is enough that the wait    *)
(* ends again and again.                                                   *)
(***************************************************************************)
Served == []<>PortFree /\ (im_req ~> IDone) /\ []<>(~fencei_req \/ fi_done)
-----------------------------------------------------------------------------
(***************************************************************************)
(* The inductive invariant behind the safety properties.                   *)
(***************************************************************************)
\* A line sits where its address says.
TagsPlaced ==
    /\ \A i \in DIndex : dvalid[i] => DIdx(dtags[i]) = i
    /\ \A i \in IIndex : ivalid[i] => IIdx(itags[i]) = i

\* Each state of the D-cache goes with one kind of request to memory.
DStateInv ==
    /\ dstate = "IDLE" => ~dm_req
    /\ dstate \in {"WB", "FILL"} =>
          /\ dport.op # "none" /\ ~DHit(dport.addr) /\ dm_req
    /\ dstate = "WB" =>
          /\ dvalid[DIdx(dport.addr)] /\ ddirty[DIdx(dport.addr)]
          /\ dm_we /\ dm_addr = dtags[DIdx(dport.addr)]
    /\ dstate = "FILL" =>
          /\ ~(dvalid[DIdx(dport.addr)] /\ ddirty[DIdx(dport.addr)])
          /\ ~dm_we /\ dm_addr = dport.addr
    /\ dstate = "CLEAN" => fencei_req /\ ~fi_done /\ ~cleaned
    /\ dstate = "CLEAN" /\ ~cwb => ~dm_req
    /\ dstate = "CLEAN" /\ cwb =>
          /\ ci # DLines /\ dvalid[ci] /\ ddirty[ci]
          /\ dm_req /\ dm_we /\ dm_addr = dtags[ci]

\* A clean line is a copy of memory.
CleanIsCopy ==
    \A i \in DIndex : dvalid[i] /\ ~ddirty[i] => dlines[i] = mem[dtags[i]]

\* The port: a grant goes with a request, work goes with a grant.
PortInv ==
    /\ PortHeld
    /\ owner = "D" => dm_req
    /\ owner = "I" => im_req
    /\ mdone => mstate = "IDLE"
    /\ mdone /\ l_we => mem[l_addr] = l_wdata
    /\ mdone /\ ~l_we => rdata = mem[l_addr]

\* The sweep leaves no dirty line behind, and nothing dirties one again.
FenceInv ==
    /\ fencei_req => dport.op # "write"
    /\ cleaned => fencei_req
    /\ dstate = "CLEAN" =>
          \A i \in DIndex : i < ci => ~(dvalid[i] /\ ddirty[i])
    /\ fencei_req /\ (cleaned \/ fi_done) =>
          \A i \in DIndex : ~(dvalid[i] /\ ddirty[i])
    /\ fencei_req /\ fi_done => \A i \in IIndex : ~ivalid[i]

\* Everything a fetch or a refill can meet is in the history.
HistInv ==
    /\ im_req = filling
    /\ \A a \in LineAddrs : mem[a] \in hist[a] /\ View(a) \in hist[a]
    /\ \A i \in IIndex : ivalid[i] => ilines[i] \in hist[itags[i]]

IInv ==
    /\ TypeOK /\ TagsPlaced /\ DStateInv /\ CleanIsCopy /\ PortInv
    /\ FenceInv /\ HistInv
=============================================================================
