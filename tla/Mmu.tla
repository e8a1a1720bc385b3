-------------------------------- MODULE Mmu ---------------------------------
(***************************************************************************)
(* Address translation in rtl/cpu_pipe_u.v: IF and EX with a TLB each      *)
(* (tlb.v), the shared page-table walker (ptw.v) on the D-port, the        *)
(* register wres that remembers a walk that found nothing, satp, and the   *)
(* stores and fences by which software changes the page tables.            *)
(*                                                                         *)
(* Of the pipeline only what paces translation is kept: an instruction is  *)
(* fetched into ID, chosen when it enters EX, and a data access occupies   *)
(* MEM until the D-port has answered.  One clock edge is one step.         *)
(***************************************************************************)
EXTENDS Tlb, Ptw

CONSTANTS
    Vas,                \* virtual pages the software touches
    Tables, Idx, Ppns,  \* page tables, indexes into them, physical pages
    InitTab,            \* the page tables at reset
    Stores,             \* PTE stores [t, i, pte] the software makes
    Satps,              \* by mode, the satp values [on, root] the software writes
    DataVas             \* pages of its data accesses

NoStore == [t |-> 0, i |-> 0, pte |-> [k |-> "bad", n |-> 0], none |-> TRUE]
Plain   == [t |-> 0, i |-> 0, pte |-> [k |-> "bad", n |-> 0], none |-> FALSE]
PteVals == [k : {"bad"}, n : {0}] \cup [k : {"leaf"}, n : Ppns] \cup [k : {"ptr"}, n : Tables]

ASSUME MmuAssumption ==
    /\ Vas \subseteq Idx \X Idx /\ DataVas \subseteq Vas
    /\ InitTab \in [Tables -> [Idx -> PteVals]]
    /\ Stores \subseteq [t : Tables, i : Idx, pte : PteVals]
    /\ Satps \in [{"M", "S"} -> SUBSET [on : BOOLEAN, root : Tables]]

VARIABLES
    mode, satp,         \* privilege (M, or S for S and U) and satp
    tab,                \* the page tables in memory
    pc, id,             \* IF; ID: none, an instruction, or a fetch fault
    ex, st,             \* the instruction in EX; the access in MEM
    itlb, dtlb, ptw, wres,
    seen                \* history: what the tables gave since the last fence

vars == <<mode, satp, tab, pc, id, ex, st, itlb, dtlb, ptw, wres, seen>>

\* Results of a walk: a leaf, a page fault or an access fault.
Leaf(p, s) == [ok |-> TRUE, super |-> s, ppn |-> p, af |-> FALSE]
Fault(a)   == [ok |-> FALSE, super |-> FALSE, ppn |-> 0, af |-> a]

\* What the tables m say of page va under root r: Sv32, two levels.
Walk(m, r, va) ==
    IF r \in Unreadable THEN Fault(TRUE)
    ELSE LET p1 == m[r][va[1]]
         IN  CASE p1.k = "leaf" -> Leaf(p1.n, TRUE)
               [] p1.k = "bad"  -> Fault(FALSE)
               [] OTHER -> IF p1.n \in Unreadable THEN Fault(TRUE)
                           ELSE LET p0 == m[p1.n][va[2]]
                                IN  IF isleaf(p0) THEN Leaf(p0.n, FALSE) ELSE Fault(FALSE)

NoOp == [k |-> "none", va |-> <<0, 0>>, s |-> NoStore, w |-> [on |-> FALSE, root |-> 0]]
Op(k) == [NoOp EXCEPT !.k = k]

\* Data accesses: of a PTE, or of anything else.
Accesses == {Plain} \cup {[t |-> s.t, i |-> s.i, pte |-> s.pte, none |-> FALSE] : s \in Stores}

\* The instructions software may execute in the current mode.
Ops ==
    {Op("nop"), Op("br"), Op("ecall"), Op("ret"), Op("sfence_all")}
    \cup {[Op("sfence") EXCEPT !.va = v] : v \in Vas}
    \cup [k : {"acc"}, va : DataVas, s : Accesses, w : {NoOp.w}]
    \cup {[Op("satp") EXCEPT !.w = x] : x \in Satps[mode]}

Init ==
    /\ mode = "M" /\ satp = [on |-> FALSE, root |-> 0] /\ tab = InitTab
    /\ pc \in Vas /\ id = "none" /\ ex = NoOp /\ st = NoStore
    /\ itlb = TlbInit /\ dtlb = TlbInit /\ ptw = WalkIdle
    /\ wres = [valid |-> FALSE, i |-> FALSE, va |-> <<0, 0>>, af |-> FALSE]
    /\ seen = [v \in Vas |-> {Walk(tab, satp.root, v)}]
-----------------------------------------------------------------------------
vm_on == mode # "M" /\ satp.on

\* IF
if_wres_fault == wres.valid /\ wres.i /\ wres.va = pc
if_pfault     == vm_on /\ ~hit(itlb, pc) /\ if_wres_fault
if_walk       == vm_on /\ ~hit(itlb, pc) /\ ~if_wres_fault
if_ok(in)     == if_pfault \/ (~if_walk /\ in.iready)

\* MEM and the D-port: the walker owns the port while busy.
ptw_busy   == busy(ptw)
m_port     == ~st.none
\* Mutant of m_done: MEM does not wait for a walk.
m_doneDuringWalk(in) == m_port /\ in.dready
m_done(in) == m_port /\ ~ptw_busy /\ in.dready
freeze(in) == m_port /\ ~m_done(in)

\* EX
ex_xlate      == ex.k = "acc" /\ vm_on
ex_wres_fault == wres.valid /\ ~wres.i /\ wres.va = ex.va
ex_dfault     == ex_xlate /\ ~hit(dtlb, ex.va) /\ ex_wres_fault
ex_dwalk      == ex_xlate /\ ~hit(dtlb, ex.va) /\ ~ex_wres_fault
ex_go(in)     == ex.k # "none" /\ ~freeze(in) /\ ~ex_dwalk
take_trap(in) == ex_go(in) /\ (ex.k \in {"ecall", "fault"} \/ ex_dfault)
redirect(in)  == take_trap(in) \/ (ex_go(in) /\ ex.k \in {"br", "ret"})
sfence_ex(in) == ex_go(in) /\ ex.k \in {"sfence", "sfence_all"}

\* The walker's request and its results.
ptw_start(in) ==
    IF ex_dwalk /\ ~m_port THEN [k |-> "d", va |-> ex.va]
    ELSE IF if_walk /\ ~m_port /\ ~redirect(in) THEN [k |-> "i", va |-> pc]
    ELSE [k |-> "none", va |-> pc]
pte           == LET a == mem_addr(ptw, satp.root) IN tab[a[1]][a[2]]
rdy(in)       == in.dready /\ ptw_busy
ptw_fill(in)  == good(ptw, satp.root, pte, rdy(in)) /\ ~drop(ptw, redirect(in))
ptw_fault(in) == bad(ptw, satp.root, pte, rdy(in)) /\ ~drop(ptw, redirect(in))
ptw_leaf(in, side) ==
    IF ptw_fill(in) /\ ptw.side_i = side THEN Leaf(pte.n, ptw.state = "L1") ELSE Fault(FALSE)
tlb_flush(in) == [k |-> IF ~sfence_ex(in) THEN "no"
                        ELSE IF ex.k = "sfence" THEN "one" ELSE "all", va |-> ex.va]
-----------------------------------------------------------------------------
FetchEdge(in) ==
    /\ pc' = IF redirect(in) THEN in.pc
             ELSE IF freeze(in) \/ ex_dwalk \/ ~if_ok(in) THEN pc ELSE in.pc
    /\ id' = IF redirect(in) THEN "none"
             ELSE IF freeze(in) \/ ex_dwalk THEN id
             ELSE IF ~if_ok(in) THEN "none"
             ELSE IF if_pfault THEN "fault" ELSE "instr"

ExecEdge(in) ==
    /\ ex' = IF freeze(in) \/ ex_dwalk THEN ex
             ELSE IF redirect(in) \/ id = "none" THEN NoOp
             ELSE IF id = "fault" THEN Op("fault") ELSE in.op
    /\ mode' = IF take_trap(in) THEN in.to
               ELSE IF ex_go(in) /\ ex.k = "ret" THEN "S" ELSE mode
    /\ satp' = IF ex_go(in) /\ ex.k = "satp" THEN ex.w ELSE satp
    /\ st' = IF freeze(in) THEN st
             ELSE IF ex_go(in) /\ ~take_trap(in) THEN ex.s ELSE NoStore
    /\ tab' = IF m_done(in) /\ st # Plain
              THEN [tab EXCEPT ![st.t][st.i] = st.pte] ELSE tab

\* Mutant of WresEdge: the fault is recorded for the other side.
WresEdgeWrongSide(in) ==
    wres' = IF take_trap(in) \/ sfence_ex(in) THEN [wres EXCEPT !.valid = FALSE]
            ELSE IF ptw_fault(in)
            THEN [valid |-> TRUE, i |-> ~ptw.side_i, va |-> ptw.va,
                  af |-> noread(ptw, satp.root)]
            ELSE wres

WresEdge(in) ==
    wres' = IF take_trap(in) \/ sfence_ex(in) THEN [wres EXCEPT !.valid = FALSE]
            ELSE IF ptw_fault(in)
            THEN [valid |-> TRUE, i |-> ptw.side_i, va |-> ptw.va,
                  af |-> noread(ptw, satp.root)]
            ELSE IF ptw_fill(in) /\ ptw.va = wres.va /\ ptw.side_i = wres.i
            THEN [wres EXCEPT !.valid = FALSE] ELSE wres

WalkEdge(in) ==
    /\ ptw'  = PtwEdge(ptw, satp.root, pte, rdy(in), redirect(in), ptw_start(in))
    /\ itlb' = TlbEdge(itlb, tlb_flush(in), ptw.va, ptw_leaf(in, TRUE))
    /\ dtlb' = TlbEdge(dtlb, tlb_flush(in), ptw.va, ptw_leaf(in, FALSE))

\* A fence makes the tables of this moment the only ones that count.
SeenEdge(in) ==
    seen' = [v \in Vas |->
        LET now == {Walk(tab', satp'.root, v)}
        IN  IF sfence_ex(in) /\ (ex.k = "sfence_all" \/ ex.va = v)
            THEN now ELSE seen[v] \cup now]

Edge(in) == FetchEdge(in) /\ ExecEdge(in) /\ WresEdge(in) /\ WalkEdge(in) /\ SeenEdge(in)

\* What the ports, the software and the trap routing may choose at an edge.
Inputs == [dready : BOOLEAN, iready : BOOLEAN, pc : Vas,
           op : IF id = "instr" THEN Ops ELSE {NoOp},
           to : IF ex.k \in {"ecall", "fault", "acc"} THEN {"M", "S"} ELSE {"M"}]

Next == \E in \in Inputs : Edge(in)

Answered == \E in \in Inputs : in.dready /\ in.iready /\ Edge(in)

Spec == Init /\ [][Next]_vars
FairSpec == Spec /\ WF_vars(Answered)
-----------------------------------------------------------------------------
(***************************************************************************)
(* A fence works: what a TLB or wres answers for a page is something the   *)
(* page tables said of it under satp since the last sfence.vma that        *)
(* covered the page, however PTE stores, walks, fences and redirects fall. *)
(***************************************************************************)
Fresh ==
    \A v \in Vas :
        /\ hit(itlb, v) => Leaf(lookup(itlb, v).ppn, lookup(itlb, v).super) \in seen[v]
        /\ hit(dtlb, v) => Leaf(lookup(dtlb, v).ppn, lookup(dtlb, v).super) \in seen[v]
        /\ wres.valid /\ wres.va = v => Fault(wres.af) \in seen[v]

(***************************************************************************)
(* docs/43: the core holds the address steady until ready and "the page    *)
(* walker does the same": while a PTE read waits, its address stays.       *)
(***************************************************************************)
WalkHoldsAddress ==
    [][busy(ptw) /\ ptw'.state = ptw.state
         => mem_addr(ptw', satp'.root) = mem_addr(ptw, satp.root)]_vars

(***************************************************************************)
(* A miss on either side is served or faults: the walker shared by IF and  *)
(* EX, the port it shares with MEM, and the single wres never leave one    *)
(* of them waiting for ever.                                               *)
(***************************************************************************)
MissServed == (if_walk ~> ~if_walk) /\ (ex_dwalk ~> ~ex_dwalk)
=============================================================================
