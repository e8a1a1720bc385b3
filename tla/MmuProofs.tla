----------------------------- MODULE MmuProofs ------------------------------
(***************************************************************************)
(* A fence works, for TLBs of every size, every page table and all         *)
(* software that leaves translation on while it runs translated: module    *)
(* Mmu's invariant Fresh.                                                  *)
(***************************************************************************)
EXTENDS Mmu, WellFoundedInduction, TLAPS

(***************************************************************************)
(* The inductive invariant.                                                *)
(***************************************************************************)

\* Software in S mode never turns translation off: it only changes the root.
StaysOn == \A x \in Satps["S"] : x.on = TRUE

\* The registers of the walker and of wres are records with these fields.
WalkNames == {"state", "side_i", "va", "l0", "killed"}
WresNames == {"valid", "i", "va", "af"}
Walker(w) ==
    /\ w = [x \in WalkNames |-> w[x]] /\ w.state \in {"IDLE", "L1", "L0"}
    /\ w.side_i \in BOOLEAN /\ w.killed \in BOOLEAN
Shapes ==
    /\ Walker(ptw)
    /\ wres = [x \in WresNames |-> wres[x]]

\* What the pipeline holds: pages, and satp values that the mode may write.
Software ==
    /\ pc \in Vas /\ mode \in {"M", "S"}
    /\ ex.k = "acc" => ex.va \in Vas
    /\ ex.k = "satp" => ex.w \in Satps[mode]

\* Every entry of a TLB is something the tables said of all its pages.
Entries(t) ==
    /\ t = [ent |-> t.ent, victim |-> t.victim]
    /\ DOMAIN t.ent = Slots /\ t.victim \in Slots
    /\ \A i \in Slots : \A v \in Vas :
         match(t.ent[i], v) => Leaf(t.ent[i].ppn, t.ent[i].sp) \in seen[v]

Remembered ==
    /\ \A v \in Vas : Walk(tab, satp.root, v) \in seen[v]
    /\ wres.valid => wres.va \in Vas /\ Fault(wres.af) \in seen[wres.va]

\* A walk that counts belongs to the miss that waits for it: EX stands still
\* under a data walk; under a fetch walk nothing follows what is in EX, and by
\* the second read that has left, unless it cannot move.
DataWalk == busy(ptw) /\ ~ptw.side_i => ex_dwalk /\ ptw.va = ex.va
FetchWalk ==
    busy(ptw) /\ ptw.side_i /\ ~ptw.killed =>
        /\ if_walk /\ ptw.va = pc /\ id = "none"
        /\ ptw.state = "L0" => ex.k = "none" \/ m_port \/ ex_dwalk

\* What the second read of the walk will find.
Second ==
    IF ptw.l0 \in Unreadable THEN Fault(TRUE)
    ELSE LET p0 == tab[ptw.l0][ptw.va[2]]
         IN  IF isleaf(p0) THEN Leaf(p0.n, FALSE) ELSE Fault(FALSE)
Underway == ptw.state = "L0" /\ ~ptw.killed => Second \in seen[ptw.va]

MInv == Shapes /\ Software /\ Entries(itlb) /\ Entries(dtlb) /\ Remembered /\ DataWalk /\ FetchWalk /\ Underway

(***************************************************************************)
(* One edge of the TLB and of the walker.                                  *)
(***************************************************************************)

\* An entry that matches after the edge matched before and was not flushed,
\* or is the one a walk has just delivered.
Kept(t, f, va, l, d) ==
    /\ d = [ent |-> d.ent, victim |-> d.victim]
    /\ DOMAIN d.ent = Slots /\ d.victim \in Slots
    /\ \A i \in Slots : \A v : match(d.ent[i], v) =>
         /\ f.k # "all"
         /\ \/ d.ent[i] = t.ent[i] /\ ~(f.k = "one" /\ f.va = v)
            \/ l.ok /\ d.ent[i] = [v |-> TRUE, sp |-> l.super, tag |-> va, ppn |-> l.ppn]

LEMMA TlbStep ==
    ASSUME NEW t, NEW f, NEW va, NEW l, t = [ent |-> t.ent, victim |-> t.victim],
           DOMAIN t.ent = Slots, t.victim \in Slots,
           NEW d, d = TlbEdge(t, f, va, l)
    PROVE  Kept(t, f, va, l, d)
<1> DEFINE u == IF f.k = "one" THEN flush_one(t, f.va) ELSE t
<1>1. ASSUME NEW v PROVE ~match(Empty, v)
  BY DEF match, Empty
<1>2. /\ u = [ent |-> u.ent, victim |-> u.victim] /\ DOMAIN u.ent = Slots /\ u.victim \in Slots
      /\ \A i \in Slots : \A v : match(u.ent[i], v) => u.ent[i] = t.ent[i] /\ ~(f.k = "one" /\ f.va = v)
  <2>1. CASE f.k = "one"
    <3> DEFINE e == [i \in Slots |-> IF match(t.ent[i], f.va) THEN Empty ELSE t.ent[i]]
    <3>1. u = [t EXCEPT !.ent = e]
      BY <2>1, Zenon DEF flush_one
    <3>2. ASSUME NEW i \in Slots, NEW v, match(e[i], v)
          PROVE  e[i] = t.ent[i] /\ f.va # v
      <4>1. ~match(t.ent[i], f.va) /\ e[i] = t.ent[i]
        BY <1>1, <3>2, Zenon
      <4> QED
        BY <4>1, <3>2, Zenon
    <3>3. DOMAIN e = Slots
      OBVIOUS
    <3> HIDE DEF e, u
    <3>4. u = [ent |-> e, victim |-> t.victim]
      BY <3>1
    <3>5. u.ent = e /\ u.victim = t.victim
      BY <3>4
    <3> QED
      BY <3>2, <3>3, <3>4, <3>5, Zenon
  <2>2. CASE f.k # "one"
    <3>1. u = t
      BY <2>2, Zenon
    <3> HIDE DEF u
    <3> QED
      BY <2>2, <3>1, Zenon
  <2> QED
    BY <2>1, <2>2, Zenon
<1>3. CASE f.k = "all"
  <2> DEFINE e == [i \in Slots |-> Empty]
  <2>1. d = [t EXCEPT !.ent = e]
    BY <1>3, Zenon DEF TlbEdge, flush_all
  <2>2. \A i \in Slots : e[i] = Empty
    OBVIOUS
  <2>3. DOMAIN e = Slots
    OBVIOUS
  <2> HIDE DEF e
  <2>4. d = [ent |-> e, victim |-> t.victim]
    BY <2>1
  <2>5. d.ent = e /\ d.victim = t.victim
    BY <2>4
  <2>6. \A i \in Slots : \A v : ~match(d.ent[i], v)
    BY <1>1, <2>2, <2>5, Zenon
  <2> QED
    BY <2>3, <2>4, <2>5, <2>6, Zenon DEF Kept
<1>4. CASE f.k # "all" /\ l.ok
  <2> DEFINE n == [v |-> TRUE, sp |-> l.super, tag |-> va, ppn |-> l.ppn]
             e == [u.ent EXCEPT ![u.victim] = n]  w == (u.victim + 1) % ENTRIES
  <2>1. d = [ent |-> e, victim |-> w]
    BY <1>4, Zenon DEF TlbEdge, fill
  <2> HIDE DEF u, n
  <2>2. w \in Slots
    BY <1>2, EntriesAssumption DEF Slots
  <2>3. DOMAIN e = Slots /\ \A i \in Slots : e[i] = u.ent[i] \/ e[i] = n
    BY <1>2
  <2> HIDE DEF e, w
  <2>4. d.ent = e /\ d.victim = w
    BY <2>1
  <2>5. \A i \in Slots : \A v : match(d.ent[i], v) =>
          (d.ent[i] = t.ent[i] /\ ~(f.k = "one" /\ f.va = v)) \/ d.ent[i] = n
    BY <1>2, <2>3, <2>4, Zenon
  <2> QED
    BY <1>4, <2>1, <2>2, <2>3, <2>4, <2>5, Zenon DEF n, Kept
<1>5. CASE f.k # "all" /\ ~l.ok
  <2>1. d = u
    BY <1>5, Zenon DEF TlbEdge
  <2> HIDE DEF u
  <2> QED
    BY <1>2, <1>5, <2>1, Zenon DEF Kept
<1> QED
  BY <1>3, <1>4, <1>5, Zenon

\* The walker starts, reads on, follows a pointer or ends.
Walked(w, root, p, rd, kill, start, d) ==
    /\ ~busy(w) /\ busy(d) => /\ d.state = "L1" /\ start.k # "none" /\ d.va = start.va
                              /\ ~d.killed /\ (d.side_i <=> start.k = "i")
    /\ busy(w) => d.va = w.va /\ (d.side_i <=> w.side_i) /\ (d.killed <=> drop(w, kill))
    /\ busy(w) /\ busy(d) =>
         \/ ~fin(w, root, rd) /\ d.state = w.state /\ d.l0 = w.l0
         \/ /\ w.state = "L1" /\ ~noread(w, root) /\ p.k = "ptr"
            /\ d.state = "L0" /\ d.l0 = p.n

LEMMA PtwStep ==
    ASSUME NEW w, Walker(w), NEW root, NEW p, NEW rd, NEW kill, NEW start,
           NEW d, d = PtwEdge(w, root, p, rd, kill, start)
    PROVE  Walker(d) /\ Walked(w, root, p, rd, kill, start, d)
<1>1. CASE ~busy(w) /\ start.k = "none"
  <2>1. d = [w EXCEPT !.killed = FALSE]
    BY <1>1, Zenon DEF PtwEdge
  <2> QED
    BY Zenon, <1>1, <2>1 DEF Walker, Walked, WalkNames, busy
<1>2. CASE ~busy(w) /\ start.k # "none"
  <2> DEFINE s == (start.k = "i")
  <2>1. d = [w EXCEPT !.state = "L1", !.side_i = s, !.va = start.va, !.killed = FALSE]
    BY <1>2, Zenon DEF PtwEdge
  <2>2. s \in BOOLEAN /\ (s <=> start.k = "i")
    BY Zenon
  <2> HIDE DEF s
  <2> QED
    BY Zenon, <1>2, <2>1, <2>2 DEF Walker, Walked, WalkNames, busy
<1>3. CASE busy(w)
  <2> DEFINE k == drop(w, kill)
             u == [w EXCEPT !.killed = k]
             follows == w.state = "L1" /\ ~noread(w, root) /\ p.k = "ptr"
  <2>1. d = IF ~fin(w, root, rd) THEN u
            ELSE IF follows THEN [u EXCEPT !.state = "L0", !.l0 = p.n]
            ELSE [u EXCEPT !.state = "IDLE"]
    BY <1>3, Zenon DEF PtwEdge
  <2>2. k \in BOOLEAN /\ (k <=> drop(w, kill))
    BY Zenon DEF drop
  <2> HIDE DEF k
  <2>3. CASE ~fin(w, root, rd)
    <3>1. d = [w EXCEPT !.killed = k]
      BY <2>1, <2>3, Zenon
    <3> QED
      BY <1>3, <2>2, <2>3, <3>1 DEF Walker, Walked, WalkNames, busy
  <2>4. CASE fin(w, root, rd) /\ follows
    <3>1. d = [u EXCEPT !.state = "L0", !.l0 = p.n]
      BY <2>1, <2>4, Zenon
    <3> QED
      BY Zenon, <1>3, <2>2, <2>4, <3>1 DEF Walker, Walked, WalkNames, busy
  <2>5. CASE fin(w, root, rd) /\ ~follows
    <3>1. d = [u EXCEPT !.state = "IDLE"]
      BY <2>1, <2>5, Zenon
    <3> QED
      BY Zenon, <1>3, <2>2, <3>1 DEF Walker, Walked, WalkNames, busy
  <2> QED
    BY <2>3, <2>4, <2>5, Zenon
<1> QED
  BY <1>1, <1>2, <1>3, Zenon

(***************************************************************************)
(* One edge of the core.                                                   *)
(***************************************************************************)

\* While the walker has the port no store reaches the tables, and an access
\* in MEM stands still.
LEMMA PortTaken ==
    ASSUME NEW in, Edge(in), busy(ptw)
    PROVE  tab' = tab /\ (m_port => freeze(in) /\ m_port')
<1>1. ~m_done(in)
  BY Zenon DEF m_done, ptw_busy
<1>2. tab' = tab
  BY <1>1, Zenon DEF Edge, ExecEdge
<1>3. ASSUME m_port PROVE freeze(in) /\ m_port'
  <2>1. freeze(in)
    BY <1>1, <1>3, Zenon DEF freeze
  <2>2. st' = st
    BY <2>1, Zenon DEF Edge, ExecEdge
  <2> QED
    BY <1>3, <2>1, <2>2, Zenon DEF m_port
<1> QED
  BY <1>2, <1>3

\* Nothing happens in EX unless the instruction there goes.
LEMMA ExStands ==
    ASSUME NEW in, Edge(in), ~ex_go(in)
    PROVE  mode' = mode /\ satp' = satp /\ ~redirect(in) /\ ~sfence_ex(in) /\ ~take_trap(in)
BY Zenon DEF Edge, ExecEdge, redirect, sfence_ex, take_trap

LEMMA FenceSatp ==
    ASSUME NEW in, Edge(in), sfence_ex(in)
    PROVE  satp' = satp
<1>1. ex.k # "satp"
  BY DEF sfence_ex
<1> QED
  BY <1>1, Zenon DEF Edge, ExecEdge

\* What the tables say now always counts; what they said, unless fenced.
LEMMA SeenStep ==
    ASSUME NEW in, Edge(in), NEW v \in Vas
    PROVE  /\ Walk(tab', satp'.root, v) \in seen'[v]
           /\ ~(sfence_ex(in) /\ (ex.k = "sfence_all" \/ ex.va = v)) => seen[v] \subseteq seen'[v]
<1> DEFINE now == {Walk(tab', satp'.root, v)}
           fenced == sfence_ex(in) /\ (ex.k = "sfence_all" \/ ex.va = v)
<1>1. seen'[v] = IF fenced THEN now ELSE seen[v] \cup now
  BY Zenon DEF Edge, SeenEdge
<1> HIDE DEF fenced
<1>2. CASE fenced
  BY <1>1, <1>2, Zenon DEF fenced
<1>3. CASE ~fenced
  BY <1>1, <1>3, Zenon DEF fenced
<1> QED
  BY <1>2, <1>3

\* By its second read, a walk that counts is overtaken by no fence.
LEMMA NoFenceUnderway ==
    ASSUME MInv, NEW in, Edge(in), ptw.state = "L0", ~ptw.killed
    PROVE  ~ex_go(in)
<1>1. busy(ptw)
  BY DEF busy
<1>2. m_port => freeze(in)
  BY <1>1, PortTaken, Zenon
<1>3. ex.k = "none" \/ m_port \/ ex_dwalk
  BY <1>1 DEF MInv, DataWalk, FetchWalk
<1> QED
  BY <1>2, <1>3, Zenon DEF ex_go

\* The page tables' answer at the first read.
LEMMA FirstRead ==
    ASSUME NEW in, Edge(in), ptw.state = "L1", NEW v \in Vas, v[1] = ptw.va[1]
    PROVE  LET r == Walk(tab, satp.root, v) IN
           /\ noread(ptw, satp.root) => r = Fault(TRUE)
           /\ ~noread(ptw, satp.root) /\ isleaf(pte) => r = Leaf(pte.n, TRUE)
           /\ ~noread(ptw, satp.root) /\ pte.k = "bad" => r = Fault(FALSE)
<1>1. mem_addr(ptw, satp.root) = <<satp.root, ptw.va[1]>> /\ busy(ptw)
  BY DEF mem_addr, busy
<1>2. noread(ptw, satp.root) <=> satp.root \in Unreadable
  BY <1>1 DEF noread
<1>3. pte = tab[satp.root][v[1]]
  BY <1>1 DEF pte
<1> QED
  BY Zenon, <1>2, <1>3 DEF Walk, isleaf

\* ... and at the second.
LEMMA SecondRead ==
    ASSUME ptw.state = "L0"
    PROVE  /\ noread(ptw, satp.root) => Second = Fault(TRUE)
           /\ ~noread(ptw, satp.root) /\ isleaf(pte) => Second = Leaf(pte.n, FALSE)
           /\ ~noread(ptw, satp.root) /\ ~isleaf(pte) => Second = Fault(FALSE)
<1>1. mem_addr(ptw, satp.root) = <<ptw.l0, ptw.va[2]>> /\ busy(ptw)
  BY DEF mem_addr, busy
<1>2. noread(ptw, satp.root) <=> ptw.l0 \in Unreadable
  BY <1>1 DEF noread
<1>3. pte = tab[ptw.l0][ptw.va[2]]
  BY <1>1 DEF pte
<1> QED
  BY <1>2, <1>3, Zenon DEF Second

\* A leaf the walker delivers is something the tables said of every page
\* the new entry covers, since the last fence.
LEMMA FillIsFresh ==
    ASSUME MInv, NEW in, Edge(in), ptw_fill(in), NEW v \in Vas
    PROVE  /\ ptw.state = "L1" /\ v[1] = ptw.va[1] => Leaf(pte.n, TRUE) \in seen'[v]
           /\ ptw.state # "L1" /\ v = ptw.va => Leaf(pte.n, FALSE) \in seen'[v]
<1>1. busy(ptw) /\ ~ptw.killed /\ ~noread(ptw, satp.root) /\ isleaf(pte)
  BY Zenon DEF ptw_fill, good, fin, drop
<1>2. tab' = tab
  BY <1>1, PortTaken
<1>3. ASSUME ptw.state = "L1", v[1] = ptw.va[1] PROVE Leaf(pte.n, TRUE) \in seen'[v]
  <2>1. Walk(tab, satp.root, v) = Leaf(pte.n, TRUE)
    BY <1>1, <1>3, FirstRead, Zenon
  <2>2. CASE sfence_ex(in)
    <3>1. Walk(tab', satp'.root, v) = Walk(tab, satp.root, v)
      BY <1>2, <2>2, FenceSatp, Zenon
    <3> QED
      BY <2>1, <3>1, SeenStep, Zenon
  <2>3. CASE ~sfence_ex(in)
    <3>1. Walk(tab, satp.root, v) \in seen[v]
      BY Zenon DEF MInv, Remembered
    <3> QED
      BY <2>1, <2>3, <3>1, SeenStep, Zenon
  <2> QED
    BY Zenon, <2>2, <2>3
<1>4. ASSUME ptw.state # "L1", v = ptw.va PROVE Leaf(pte.n, FALSE) \in seen'[v]
  <2>1. ptw.state = "L0"
    BY <1>1, <1>4 DEF busy, MInv, Shapes, Walker
  <2>2. Second = Leaf(pte.n, FALSE)
    BY <1>1, <2>1, SecondRead, Zenon
  <2>3. Second \in seen[v]
    BY <1>1, <1>4, <2>1, Zenon DEF MInv, Underway
  <2>4. ~sfence_ex(in)
    BY <1>1, <2>1, NoFenceUnderway, ExStands, Zenon
  <2> QED
    BY <2>2, <2>3, <2>4, SeenStep, Zenon
<1> QED
  BY <1>3, <1>4, Zenon

LEMMA WalkPage ==
    ASSUME MInv, busy(ptw), ~ptw.killed
    PROVE  ptw.va \in Vas
<1>1. CASE ptw.side_i
  BY <1>1, Zenon DEF MInv, FetchWalk, Software
<1>2. CASE ~ptw.side_i
  <2>1. ex.k = "acc" /\ ptw.va = ex.va
    BY <1>2, Zenon DEF MInv, DataWalk, ex_dwalk, ex_xlate
  <2> QED
    BY <2>1, Zenon DEF MInv, Software
<1> QED
  BY <1>1, <1>2

LEMMA FaultIsFresh ==
    ASSUME MInv, NEW in, Edge(in), ptw_fault(in), ~sfence_ex(in)
    PROVE  /\ ptw.va \in Vas
           /\ noread(ptw, satp.root) => Fault(TRUE) \in seen'[ptw.va]
           /\ ~noread(ptw, satp.root) => Fault(FALSE) \in seen'[ptw.va]
<1>1. busy(ptw) /\ ~ptw.killed
  BY Zenon DEF ptw_fault, bad, fin, noread, drop
<1>2. ptw.va \in Vas
  BY <1>1, WalkPage, Zenon
<1>3. noread(ptw, satp.root) \/ pte.k = "bad" \/ (ptw.state = "L0" /\ ~isleaf(pte))
  BY Zenon DEF ptw_fault, bad
<1>4. pte.k = "bad" => ~isleaf(pte)
  BY DEF isleaf
<1>5. seen[ptw.va] \subseteq seen'[ptw.va]
  BY <1>2, SeenStep, Zenon
<1>6. CASE ptw.state = "L1"
  <2>1. Walk(tab, satp.root, ptw.va) \in seen[ptw.va]
    BY <1>2, Zenon DEF MInv, Remembered
  <2>2. ptw.state # "L0"
    BY <1>6
  <2> QED
    BY <1>2, <1>3, <1>5, <1>6, <2>1, <2>2, FirstRead, Zenon
<1>7. CASE ptw.state = "L0"
  <2>1. Second \in seen[ptw.va]
    BY <1>1, <1>7, Zenon DEF MInv, Underway
  <2> QED
    BY <1>2, <1>3, <1>4, <1>5, <1>7, <2>1, SecondRead, Zenon
<1> QED
  BY Zenon, <1>1, <1>6, <1>7 DEF busy, MInv, Shapes, Walker

\* The entries of either TLB after the edge.
LEMMA EntriesStep ==
    ASSUME MInv, NEW in, Edge(in), NEW t, Entries(t), NEW side \in BOOLEAN,
           NEW d, d = TlbEdge(t, tlb_flush(in), ptw.va, ptw_leaf(in, side))
    PROVE  /\ d = [ent |-> d.ent, victim |-> d.victim]
           /\ DOMAIN d.ent = Slots /\ d.victim \in Slots
           /\ \A i \in Slots : \A v \in Vas :
                match(d.ent[i], v) => Leaf(d.ent[i].ppn, d.ent[i].sp) \in seen'[v]
<1> DEFINE f == tlb_flush(in)  l == ptw_leaf(in, side)
<1>1. /\ f.va = ex.va /\ (f.k # "all" => ~(sfence_ex(in) /\ ex.k = "sfence_all"))
      /\ sfence_ex(in) /\ f.k # "all" => f.k = "one"
  BY DEF tlb_flush, sfence_ex
<1>2. l.ok => ptw_fill(in) /\ l = Leaf(pte.n, ptw.state = "L1")
  <2>1. l = Fault(FALSE) \/ (ptw_fill(in) /\ l = Leaf(pte.n, ptw.state = "L1"))
    BY Zenon DEF ptw_leaf
  <2>2. ~Fault(FALSE).ok
    BY DEF Fault
  <2> QED
    BY <2>1, <2>2, Zenon
<1> HIDE DEF f, l
<1>3. /\ d = [ent |-> d.ent, victim |-> d.victim] /\ DOMAIN d.ent = Slots /\ d.victim \in Slots
      /\ \A i \in Slots : \A v : match(d.ent[i], v) =>
           /\ f.k # "all"
           /\ \/ d.ent[i] = t.ent[i] /\ ~(f.k = "one" /\ f.va = v)
              \/ l.ok /\ d.ent[i] = [v |-> TRUE, sp |-> l.super, tag |-> ptw.va, ppn |-> l.ppn]
  <2>1. d = TlbEdge(t, f, ptw.va, l)
    BY Zenon DEF f, l
  <2>2. t = [ent |-> t.ent, victim |-> t.victim] /\ DOMAIN t.ent = Slots /\ t.victim \in Slots
    BY Zenon DEF Entries
  <2>3. Kept(t, f, ptw.va, l, d)
    BY <2>1, <2>2, TlbStep, Zenon
  <2> QED
    BY <2>3, Zenon DEF Kept
<1>4. ASSUME NEW i \in Slots, NEW v \in Vas, match(d.ent[i], v)
      PROVE  Leaf(d.ent[i].ppn, d.ent[i].sp) \in seen'[v]
  <2>1. CASE d.ent[i] = t.ent[i] /\ ~(f.k = "one" /\ f.va = v)
    <3>1. Leaf(d.ent[i].ppn, d.ent[i].sp) \in seen[v]
      BY <1>4, <2>1, Zenon DEF Entries
    <3>2. ~(sfence_ex(in) /\ (ex.k = "sfence_all" \/ ex.va = v))
      BY <1>1, <1>3, <1>4, <2>1, Zenon
    <3> QED
      BY <3>1, <3>2, SeenStep, Zenon
  <2>2. CASE l.ok /\ d.ent[i] = [v |-> TRUE, sp |-> l.super, tag |-> ptw.va, ppn |-> l.ppn]
    <3>1. ptw_fill(in) /\ l = Leaf(pte.n, ptw.state = "L1")
      BY <1>2, <2>2
    <3>2. CASE ptw.state = "L1"
      <4>1. l = Leaf(pte.n, TRUE)
        BY <3>1, <3>2, Zenon
      <4>2. d.ent[i].ppn = pte.n /\ d.ent[i].sp = TRUE /\ d.ent[i].tag = ptw.va
        BY <2>2, <4>1 DEF Leaf
      <4>3. v[1] = ptw.va[1]
        BY <1>4, <4>2 DEF match
      <4> QED
        BY <3>1, <3>2, <4>2, <4>3, FillIsFresh, Zenon
    <3>3. CASE ptw.state # "L1"
      <4>1. l = Leaf(pte.n, FALSE)
        BY <3>1, <3>3, Zenon
      <4>2. d.ent[i].ppn = pte.n /\ d.ent[i].sp = FALSE /\ d.ent[i].tag = ptw.va
        BY <2>2, <4>1 DEF Leaf
      <4>3. v = ptw.va
        BY <1>4, <4>2 DEF match
      <4> QED
        BY <3>1, <3>3, <4>2, <4>3, FillIsFresh, Zenon
    <3> QED
      BY <3>2, <3>3
  <2> QED
    BY <1>3, <1>4, <2>1, <2>2, Zenon
<1> QED
  BY <1>3, <1>4, Zenon

(***************************************************************************)
(* The invariant is preserved, conjunct by conjunct.                       *)
(***************************************************************************)
LEMMA OpFields ==
    ASSUME NEW o \in Ops \cup {NoOp, Op("fault")}
    PROVE  /\ o.k = "acc" => o.va \in Vas
           /\ o.k = "satp" => o.w \in Satps[mode]
<1>1. CASE o \in {Op("nop"), Op("br"), Op("ecall"), Op("ret"), Op("sfence_all"), NoOp, Op("fault")}
  BY <1>1 DEF Op, NoOp
<1>2. CASE o \in {[Op("sfence") EXCEPT !.va = v] : v \in Vas}
  BY Zenon, <1>2 DEF Op, NoOp
<1>3. CASE o \in [k : {"acc"}, va : DataVas, s : Accesses, w : {NoOp.w}]
  BY <1>3, MmuAssumption
<1>4. CASE o \in {[Op("satp") EXCEPT !.w = x] : x \in Satps[mode]}
  BY Zenon, <1>4 DEF Op, NoOp
<1> QED
  BY <1>1, <1>2, <1>3, <1>4, Zenon DEF Ops

LEMMA InputFields ==
    ASSUME NEW in \in Inputs
    PROVE  in.pc \in Vas /\ in.to \in {"M", "S"} /\ in.op \in Ops \cup {NoOp, Op("fault")}
<1>1. in.pc \in Vas /\ in.op \in (IF id = "instr" THEN Ops ELSE {NoOp})
  BY DEF Inputs
<1>2. in.to \in IF ex.k \in {"ecall", "fault", "acc"} THEN {"M", "S"} ELSE {"M"}
  BY DEF Inputs
<1> QED
  BY <1>1, <1>2, Zenon

LEMMA SoftwareStep ==
    ASSUME MInv, NEW in \in Inputs, Edge(in)
    PROVE  Software'
<1>1. Software
  BY DEF MInv
<1>2. pc' \in Vas
  <2>1. pc' = pc \/ pc' = in.pc
    BY Zenon DEF Edge, FetchEdge
  <2> QED
    BY <1>1, <2>1, InputFields, Zenon DEF Software
<1>3. mode' \in {"M", "S"} /\ (mode' # mode => redirect(in))
  <2>1. (take_trap(in) /\ mode' = in.to) \/ (ex_go(in) /\ ex.k = "ret" /\ mode' = "S") \/ mode' = mode
    BY Zenon DEF Edge, ExecEdge
  <2>2. take_trap(in) \/ (ex_go(in) /\ ex.k = "ret") => redirect(in)
    BY Zenon DEF redirect
  <2> QED
    BY <1>1, <2>1, <2>2, InputFields, Zenon DEF Software
<1>4. CASE freeze(in) \/ ex_dwalk
  <2>1. ex' = ex /\ ~ex_go(in)
    BY <1>4, Zenon DEF Edge, ExecEdge, ex_go
  <2> QED
    BY <1>1, <1>2, <2>1, ExStands, Zenon DEF Software
<1>5. CASE ~(freeze(in) \/ ex_dwalk)
  <2>1. ex' \in Ops \cup {NoOp, Op("fault")} /\ (redirect(in) => ex' = NoOp)
    BY <1>5, InputFields, Zenon DEF Edge, ExecEdge
  <2>2. CASE redirect(in)
    <3>1. NoOp.k = "none"
      BY DEF NoOp
    <3>2. ex'.k # "acc" /\ ex'.k # "satp"
      BY <2>1, <2>2, <3>1
    <3> QED
      BY <1>2, <1>3, <3>2, Zenon DEF Software
  <2>3. CASE ~redirect(in)
    BY <1>2, <1>3, <2>1, <2>3, OpFields, Zenon DEF Software
  <2> QED
    BY <2>2, <2>3
<1> QED
  BY <1>4, <1>5

\* wres after the edge: forgotten, the fault of this edge, or as it was.
LEMMA WresStep ==
    ASSUME MInv, NEW in, Edge(in)
    PROVE  /\ wres' = [x \in WresNames |-> wres'[x]]
           /\ \/ ~wres'.valid
              \/ /\ wres' = [valid |-> TRUE, i |-> ptw.side_i, va |-> ptw.va, af |-> noread(ptw, satp.root)]
                 /\ ptw_fault(in) /\ ~sfence_ex(in)
              \/ wres' = wres /\ ~sfence_ex(in)
<1>1. wres = [x \in WresNames |-> wres[x]]
  BY Zenon DEF MInv, Shapes
<1> DEFINE af == noread(ptw, satp.root)
<1>2. \/ wres' = [wres EXCEPT !.valid = FALSE]
      \/ wres' = [valid |-> TRUE, i |-> ptw.side_i, va |-> ptw.va, af |-> af] /\ ptw_fault(in) /\ ~sfence_ex(in)
      \/ wres' = wres /\ ~sfence_ex(in)
  BY Zenon DEF Edge, WresEdge
<1> HIDE DEF af
<1>3. CASE wres' = [wres EXCEPT !.valid = FALSE]
  BY Zenon, <1>1, <1>3 DEF WresNames
<1>4. CASE wres' = [valid |-> TRUE, i |-> ptw.side_i, va |-> ptw.va, af |-> af] /\ ptw_fault(in) /\ ~sfence_ex(in)
  <2>1. wres' = [x \in WresNames |-> wres'[x]]
    BY <1>4 DEF WresNames
  <2> QED
    BY <1>4, <2>1, Zenon DEF af
<1>5. CASE wres' = wres /\ ~sfence_ex(in)
  BY <1>1, <1>5, Zenon
<1> QED
  BY <1>2, <1>3, <1>4, <1>5, Zenon

LEMMA RememberedStep ==
    ASSUME MInv, NEW in, Edge(in)
    PROVE  Remembered'
<1>1. \A v \in Vas : Walk(tab', satp'.root, v) \in seen'[v]
  BY SeenStep, Zenon
<1>2. ASSUME wres'.valid PROVE wres'.va \in Vas /\ Fault(wres'.af) \in seen'[wres'.va]
  <2> DEFINE af == noread(ptw, satp.root)
  <2>1. CASE /\ wres' = [valid |-> TRUE, i |-> ptw.side_i, va |-> ptw.va, af |-> af]
             /\ ptw_fault(in) /\ ~sfence_ex(in)
    <3>1. /\ ptw.va \in Vas
          /\ af => Fault(TRUE) \in seen'[ptw.va]
          /\ ~af => Fault(FALSE) \in seen'[ptw.va]
      BY <2>1, FaultIsFresh, Zenon
    <3>2. Fault(af) \in seen'[ptw.va]
      <4>1. af = TRUE \/ af = FALSE
        BY Zenon DEF noread
      <4> QED
        BY <3>1, <4>1, Zenon
    <3> HIDE DEF af
    <3>3. wres'.va = ptw.va /\ wres'.af = af
      BY <2>1
    <3> QED
      BY <3>1, <3>2, <3>3, Zenon
  <2>2. CASE wres' = wres /\ ~sfence_ex(in)
    <3>1. wres.va \in Vas /\ Fault(wres.af) \in seen[wres.va]
      BY <1>2, <2>2, Zenon DEF MInv, Remembered
    <3> QED
      BY <2>2, <3>1, SeenStep, Zenon
  <2> QED
    BY <1>2, <2>1, <2>2, WresStep, Zenon
<1> QED
  BY <1>1, <1>2, Zenon DEF Remembered

LEMMA ShapesStep ==
    ASSUME MInv, NEW in, Edge(in)
    PROVE  Shapes'
<1>1. Shapes /\ ptw' = PtwEdge(ptw, satp.root, pte, rdy(in), redirect(in), ptw_start(in))
  BY Zenon DEF MInv, Edge, WalkEdge
<1>2. Walker(ptw')
  BY <1>1, PtwStep, Zenon DEF Shapes
<1>3. Walker(ptw)'
  BY <1>2, Zenon DEF Walker
<1> QED
  BY <1>3, WresStep, Zenon DEF Shapes

\* The walker at this edge.
LEMMA WalkerStep ==
    ASSUME MInv, NEW in, Edge(in)
    PROVE  Walked(ptw, satp.root, pte, rdy(in), redirect(in), ptw_start(in), ptw')
<1>1. Shapes /\ ptw' = PtwEdge(ptw, satp.root, pte, rdy(in), redirect(in), ptw_start(in))
  BY Zenon DEF MInv, Edge, WalkEdge
<1> QED
  BY <1>1, PtwStep, Zenon DEF Shapes

\* A walk that goes on has delivered nothing.
LEMMA NoResult ==
    ASSUME MInv, NEW in, Edge(in), busy(ptw')
    PROVE  ~ptw_fill(in) /\ ~ptw_fault(in)
<1>1. CASE ~busy(ptw)
  BY <1>1, Zenon DEF ptw_fill, ptw_fault, good, bad, fin, noread
<1>2. CASE busy(ptw) /\ ~fin(ptw, satp.root, rdy(in))
  BY <1>2, Zenon DEF ptw_fill, ptw_fault, good, bad, fin
<1>3. CASE busy(ptw) /\ ptw.state = "L1" /\ ~noread(ptw, satp.root) /\ pte.k = "ptr"
  <2>1. ~isleaf(pte) /\ pte.k # "bad" /\ ptw.state # "L0"
    BY <1>3 DEF isleaf
  <2> QED
    BY <1>3, <2>1, Zenon DEF ptw_fill, ptw_fault, good, bad
<1> QED
  BY <1>1, <1>2, <1>3, WalkerStep, Zenon DEF Walked

\* Without a result, an access in EX that misses keeps missing there,
LEMMA DataMissHolds ==
    ASSUME MInv, NEW in, Edge(in), ex_dwalk, ~ptw_fill(in), ~ptw_fault(in)
    PROVE  ex' = ex /\ ex_dwalk'
<1>1. ~ex_go(in) /\ ex' = ex
  BY Zenon DEF ex_go, Edge, ExecEdge
<1>2. mode' = mode /\ satp' = satp /\ ~sfence_ex(in) /\ ~take_trap(in)
  BY <1>1, ExStands, Zenon
<1>3. wres' = wres
  BY <1>2, Zenon DEF Edge, WresEdge
<1>4. dtlb' = dtlb
  <2>1. dtlb' = TlbEdge(dtlb, tlb_flush(in), ptw.va, Fault(FALSE))
    BY Zenon DEF Edge, WalkEdge, ptw_leaf
  <2>2. tlb_flush(in).k = "no" /\ ~Fault(FALSE).ok
    BY <1>2 DEF tlb_flush, Fault
  <2>3. tlb_flush(in).k # "all" /\ tlb_flush(in).k # "one"
    BY <2>2
  <2> QED
    BY <2>1, <2>2, <2>3, Zenon DEF TlbEdge
<1> QED
  BY <1>1, <1>2, <1>3, <1>4, Zenon DEF ex_dwalk, ex_xlate, vm_on, ex_wres_fault, hit, hits

\* ... and so does a fetch, unless it is abandoned: translation stays on.
LEMMA FetchMissHolds ==
    ASSUME MInv, StaysOn, NEW in, Edge(in), if_walk, ~redirect(in), ~ptw_fill(in), ~ptw_fault(in)
    PROVE  pc' = pc /\ if_walk' /\ (id' = "none" \/ (id' = id /\ (freeze(in) \/ ex_dwalk)))
<1>1. ~if_ok(in)
  BY Zenon DEF if_ok, if_pfault, if_walk
<1>2. pc' = pc /\ (id' = "none" \/ (id' = id /\ (freeze(in) \/ ex_dwalk)))
  BY <1>1, Zenon DEF Edge, FetchEdge
<1>3. vm_on'
  <2>1. mode = "S" /\ satp.on
    BY DEF if_walk, vm_on, MInv, Software
  <2>2. mode' = mode
    BY Zenon DEF Edge, ExecEdge, redirect
  <2>3. satp' = satp \/ satp' \in Satps["S"]
    BY <2>1, Zenon DEF Edge, ExecEdge, MInv, Software
  <2>4. satp'.on
    BY <2>1, <2>3, Zenon DEF StaysOn
  <2> QED
    BY <2>1, <2>2, <2>4 DEF vm_on
<1>4. ~hit(itlb', pc)
  <2>1. itlb' = TlbEdge(itlb, tlb_flush(in), ptw.va, Fault(FALSE)) /\ ~Fault(FALSE).ok
    <3>1. itlb' = TlbEdge(itlb, tlb_flush(in), ptw.va, Fault(FALSE))
      BY Zenon DEF Edge, WalkEdge, ptw_leaf
    <3> QED
      BY <3>1 DEF Fault
  <2> DEFINE f == tlb_flush(in)  l == Fault(FALSE)
  <2> HIDE DEF f, l
  <2>2. itlb' = TlbEdge(itlb, f, ptw.va, l) /\ ~l.ok
    BY <2>1, Zenon DEF f, l
  <2>3. itlb = [ent |-> itlb.ent, victim |-> itlb.victim] /\ DOMAIN itlb.ent = Slots /\ itlb.victim \in Slots
    BY Zenon DEF MInv, Entries
  <2>4. Kept(itlb, f, ptw.va, l, itlb')
    BY <2>2, <2>3, TlbStep, Zenon
  <2>5. ASSUME NEW i \in Slots, match(itlb'.ent[i], pc) PROVE FALSE
    <3>1. itlb'.ent[i] = itlb.ent[i]
      BY <2>2, <2>4, <2>5, Zenon DEF Kept
    <3> QED
      BY <2>5, <3>1, Zenon DEF if_walk, hit, hits
  <2> QED
    BY <2>5, Zenon DEF hit, hits
<1>5. ~(wres'.valid /\ wres'.i /\ wres'.va = pc)
  BY WresStep, Zenon DEF if_walk, if_wres_fault
<1>6. (~hit(itlb, pc))' /\ (~if_wres_fault)'
  BY <1>2, <1>4, <1>5, Zenon DEF if_wres_fault
<1> QED
  BY <1>2, <1>3, <1>6, Zenon DEF if_walk

LEMMA DataWalkStep ==
    ASSUME MInv, NEW in, Edge(in)
    PROVE  DataWalk'
<1> SUFFICES ASSUME busy(ptw'), ~ptw'.side_i
             PROVE  ex_dwalk' /\ ptw'.va = ex'.va
  BY Zenon DEF DataWalk
<1>1. ex_dwalk /\ ptw'.va = ex.va
  <2>1. CASE busy(ptw)
    BY <2>1, WalkerStep, Zenon DEF Walked, MInv, DataWalk
  <2>2. CASE ~busy(ptw)
    <3>1. LET s == ptw_start(in) IN s.k # "none" /\ s.k # "i" /\ ptw'.va = s.va
      BY <2>2, WalkerStep, Zenon DEF Walked
    <3> QED
      BY <3>1 DEF ptw_start
  <2> QED
    BY <2>1, <2>2
<1> QED
  BY <1>1, NoResult, DataMissHolds, Zenon

LEMMA FetchWalkStep ==
    ASSUME MInv, StaysOn, NEW in, Edge(in)
    PROVE  FetchWalk'
<1> SUFFICES ASSUME busy(ptw'), ptw'.side_i, ~ptw'.killed
             PROVE  /\ if_walk' /\ ptw'.va = pc' /\ id' = "none"
                    /\ ptw'.state = "L0" => ex'.k = "none" \/ m_port' \/ ex_dwalk'
  BY Zenon DEF FetchWalk
<1>1. ~ptw_fill(in) /\ ~ptw_fault(in)
  BY NoResult
<1>2. CASE ~busy(ptw)
  <2>1. LET s == ptw_start(in) IN s.k = "i" /\ ptw'.va = s.va /\ ptw'.state = "L1"
    BY <1>2, WalkerStep, Zenon DEF Walked
  <2>2. if_walk /\ ~m_port /\ ~redirect(in) /\ ~ex_dwalk /\ ptw'.va = pc
    BY <2>1 DEF ptw_start
  <2>3. ~freeze(in)
    BY <2>2, Zenon DEF freeze
  <2>4. ptw'.state # "L0"
    BY <2>1
  <2> QED
    BY <1>1, <2>2, <2>3, <2>4, FetchMissHolds, Zenon
<1>3. CASE busy(ptw)
  <2>1. ptw.side_i /\ ~ptw.killed /\ ~redirect(in) /\ ptw'.va = ptw.va
    BY <1>3, WalkerStep, Zenon DEF Walked, drop
  <2>2. if_walk /\ ptw.va = pc /\ id = "none"
    BY <1>3, <2>1, Zenon DEF MInv, FetchWalk
  <2>3. if_walk' /\ pc' = pc /\ id' = "none"
    BY <1>1, <2>1, <2>2, FetchMissHolds, Zenon
  <2>4. ex'.k = "none" \/ m_port' \/ ex_dwalk'
    <3>1. CASE m_port
      BY <1>3, <3>1, PortTaken, Zenon
    <3>2. CASE ex_dwalk
      BY <1>1, <3>2, DataMissHolds, Zenon
    <3>3. CASE ~m_port /\ ~ex_dwalk
      <4>1. ex' = NoOp
        BY <2>2, <3>3, Zenon DEF Edge, ExecEdge, freeze
      <4> QED
        BY <4>1 DEF NoOp
    <3> QED
      BY <3>1, <3>2, <3>3
  <2> QED
    BY <2>1, <2>2, <2>3, <2>4, Zenon
<1> QED
  BY <1>2, <1>3

LEMMA UnderwayStep ==
    ASSUME MInv, NEW in, Edge(in)
    PROVE  Underway'
<1> SUFFICES ASSUME ptw'.state = "L0", ~ptw'.killed
             PROVE  Second' \in seen'[ptw'.va]
  BY Zenon DEF Underway
<1>1. busy(ptw') /\ ptw'.state # "L1"
  BY DEF busy
<1>2. busy(ptw) /\ ~ptw.killed /\ ptw'.va = ptw.va
  BY <1>1, WalkerStep, Zenon DEF Walked, drop
<1>3. ptw.va \in Vas /\ tab' = tab
  BY <1>2, WalkPage, PortTaken, Zenon
<1>4. CASE ptw.state = "L0" /\ ptw'.l0 = ptw.l0
  <2>1. Second' = Second
    BY <1>2, <1>3, <1>4, Zenon DEF Second
  <2>2. ~sfence_ex(in)
    BY <1>2, <1>4, NoFenceUnderway, ExStands, Zenon
  <2>3. Second \in seen[ptw.va]
    BY <1>2, <1>4, Zenon DEF MInv, Underway
  <2> QED
    BY <1>2, <1>3, <2>1, <2>2, <2>3, SeenStep, Zenon
<1>5. CASE ptw.state = "L1" /\ ~noread(ptw, satp.root) /\ pte.k = "ptr" /\ ptw'.l0 = pte.n
  <2>1. mem_addr(ptw, satp.root) = <<satp.root, ptw.va[1]>>
    BY <1>5 DEF mem_addr
  <2>2. satp.root \notin Unreadable /\ pte = tab[satp.root][ptw.va[1]]
    BY <1>2, <1>5, <2>1 DEF noread, pte
  <2>3. Walk(tab, satp.root, ptw.va) =
          IF pte.n \in Unreadable THEN Fault(TRUE)
          ELSE LET p0 == tab[pte.n][ptw.va[2]]
               IN  IF isleaf(p0) THEN Leaf(p0.n, FALSE) ELSE Fault(FALSE)
    <3>1. pte.k # "leaf" /\ pte.k # "bad"
      BY <1>5
    <3> QED
      BY <2>2, <3>1, Zenon DEF Walk
  <2>4. Second' = Walk(tab, satp.root, ptw.va)
    BY <1>2, <1>3, <1>5, <2>3, Zenon DEF Second
  <2>5. CASE sfence_ex(in)
    <3>1. Walk(tab', satp'.root, ptw.va) = Walk(tab, satp.root, ptw.va)
      BY <1>3, <2>5, FenceSatp, Zenon
    <3> QED
      BY <1>2, <1>3, <2>4, <3>1, SeenStep, Zenon
  <2>6. CASE ~sfence_ex(in)
    <3>1. Walk(tab, satp.root, ptw.va) \in seen[ptw.va]
      BY <1>3, Zenon DEF MInv, Remembered
    <3> QED
      BY <1>2, <1>3, <2>4, <2>6, <3>1, SeenStep, Zenon
  <2> QED
    BY <2>5, <2>6
<1>6. ptw'.state = ptw.state => ptw.state = "L0"
  OBVIOUS
<1> QED
  BY <1>1, <1>2, <1>4, <1>5, <1>6, WalkerStep, Zenon DEF Walked

LEMMA PowerOn == Init => MInv
<1> SUFFICES ASSUME Init PROVE MInv
  OBVIOUS
<1>1. ptw = WalkIdle /\ itlb = TlbInit /\ dtlb = TlbInit /\ ex = NoOp /\ pc \in Vas /\ mode = "M"
  BY DEF Init
<1>2. wres = [valid |-> FALSE, i |-> FALSE, va |-> <<0, 0>>, af |-> FALSE]
  BY DEF Init
<1>3. Shapes /\ ptw.state = "IDLE"
  BY <1>1, <1>2 DEF Shapes, Walker, WalkIdle, WalkNames, WresNames
<1>4. Software
  BY <1>1 DEF Software, NoOp
<1>5. ASSUME NEW t, t = TlbInit PROVE Entries(t)
  <2>1. t.ent = [i \in Slots |-> Empty] /\ t.victim = 0 /\ t = [ent |-> t.ent, victim |-> t.victim]
    BY <1>5 DEF TlbInit
  <2>2. 0 \in Slots
    BY EntriesAssumption DEF Slots
  <2>3. \A i \in Slots : t.ent[i] = Empty
    BY <2>1
  <2>4. \A v : ~match(Empty, v)
    BY DEF match, Empty
  <2>5. DOMAIN t.ent = Slots /\ t.victim \in Slots
    BY <2>1, <2>2
  <2>6. \A i \in Slots : \A v \in Vas : ~match(t.ent[i], v)
    BY <2>3, <2>4, Zenon
  <2> QED
    BY <2>1, <2>5, <2>6, Zenon DEF Entries
<1>6. Remembered
  <2>1. \A v \in Vas : seen[v] = {Walk(tab, satp.root, v)}
    BY Zenon DEF Init
  <2>2. ~wres.valid
    BY <1>2
  <2> QED
    BY <2>1, <2>2, Zenon DEF Remembered
<1>7. ~busy(ptw) /\ ptw.state # "L0"
  BY <1>3 DEF busy
<1> QED
  BY <1>1, <1>3, <1>4, <1>5, <1>6, <1>7, Zenon DEF MInv, DataWalk, FetchWalk, Underway

LEMMA Steps == MInv /\ StaysOn /\ [Next]_vars => MInv'
<1> SUFFICES ASSUME MInv, StaysOn, [Next]_vars PROVE MInv'
  OBVIOUS
<1>1. CASE UNCHANGED vars
  <2>1. /\ mode' = mode /\ satp' = satp /\ tab' = tab /\ pc' = pc /\ id' = id /\ ex' = ex /\ st' = st
        /\ itlb' = itlb /\ dtlb' = dtlb /\ ptw' = ptw /\ wres' = wres /\ seen' = seen
    BY <1>1 DEF vars
  <2>2. (Shapes /\ Software /\ Remembered)'
    BY <2>1, Zenon DEF MInv, Shapes, Walker, Software, Remembered
  <2>3. (Entries(itlb) /\ Entries(dtlb))'
    BY <2>1, Zenon DEF MInv, Entries
  <2>4. (DataWalk /\ FetchWalk /\ Underway)'
    BY <2>1, Zenon DEF MInv, DataWalk, FetchWalk, Underway, Second, ex_dwalk, ex_xlate, ex_wres_fault,
                       if_walk, if_wres_fault, vm_on, m_port
  <2> QED
    BY <2>2, <2>3, <2>4, Zenon DEF MInv
<1>2. CASE Next
  <2>1. PICK in \in Inputs : Edge(in)
    BY <1>2 DEF Next
  <2>2. Shapes' /\ Software' /\ Remembered' /\ DataWalk' /\ FetchWalk' /\ Underway'
    BY <2>1, ShapesStep, SoftwareStep, RememberedStep, DataWalkStep, FetchWalkStep, UnderwayStep, Zenon
  <2>3. /\ itlb' = TlbEdge(itlb, tlb_flush(in), ptw.va, ptw_leaf(in, TRUE))
        /\ dtlb' = TlbEdge(dtlb, tlb_flush(in), ptw.va, ptw_leaf(in, FALSE))
    BY <2>1, Zenon DEF Edge, WalkEdge
  <2>4. Entries(itlb)'
    <3>1. TRUE \in BOOLEAN /\ Entries(itlb)
      BY Zenon DEF MInv
    <3> QED
      BY <2>1, <2>3, <3>1, EntriesStep, Zenon DEF Entries
  <2>5. Entries(dtlb)'
    <3>1. FALSE \in BOOLEAN /\ Entries(dtlb)
      BY Zenon DEF MInv
    <3> QED
      BY <2>1, <2>3, <3>1, EntriesStep, Zenon DEF Entries
  <2> QED
    BY <2>2, <2>4, <2>5, Zenon DEF MInv
<1> QED
  BY <1>1, <1>2

(***************************************************************************)
(* The theorem.                                                            *)
(***************************************************************************)

\* The lookup loop of tlb.v ends with an entry that matches.
LEMMA LookupMatches ==
    ASSUME NEW t, NEW v, hit(t, v)
    PROVE  LET i == Max(hits(t, v)) IN i \in Slots /\ match(t.ent[i], v)
<1> DEFINE S == hits(t, v)  T == {ENTRIES - i : i \in S}
           lt == {p \in Nat \X Nat : p[1] < p[2]}
<1>1. S # {} /\ S \subseteq Slots /\ \A i \in S : match(t.ent[i], v)
  BY Zenon DEF hit, hits
<1> HIDE DEF S
<1>2. T # {} /\ T \subseteq Nat
  <2>1. \A i \in S : ENTRIES - i \in Nat
    BY <1>1, EntriesAssumption DEF Slots
  <2>2. T # {}
    BY <1>1, Zenon
  <2> QED
    BY <2>1, <2>2, Zenon
<1>3. IsWellFoundedOn(lt, Nat)
  BY NatLessThanWellFounded DEF OpToRel
<1>4. PICK x \in T : \A y \in T : ~(<<y, x>> \in lt)
  <2> HIDE DEF T, lt
  <2> QED
    BY <1>2, <1>3, WFMin, Zenon
<1>5. PICK i \in S : x = ENTRIES - i
  OBVIOUS
<1>6. \A j \in S : i >= j
  <2> SUFFICES ASSUME NEW j \in S PROVE i >= j
    OBVIOUS
  <2>1. ENTRIES - j \in T /\ ENTRIES - j \in Nat /\ ENTRIES - i \in Nat
    BY <1>1, EntriesAssumption DEF Slots
  <2>2. ~(ENTRIES - j < ENTRIES - i)
    BY Zenon, <1>2, <1>4, <1>5, <2>1
  <2> QED
    BY <1>1, <2>2, EntriesAssumption DEF Slots
<1>7. Max(S) \in S
  BY <1>6, Zenon DEF Max
<1> QED
  BY <1>1, <1>7, Zenon DEF S

\* However stores to the page tables, walks, fences, faults and redirects
\* fall, what a TLB or wres answers for a page is something the tables said
\* of it under satp since the last sfence.vma that covered the page - if S
\* mode does not turn translation off.
THEOREM FencesWork == ASSUME StaysOn PROVE Spec => []Fresh
<1>1. MInv => Fresh
  <2> SUFFICES ASSUME MInv, NEW v \in Vas
               PROVE  /\ hit(itlb, v) => Leaf(lookup(itlb, v).ppn, lookup(itlb, v).super) \in seen[v]
                      /\ hit(dtlb, v) => Leaf(lookup(dtlb, v).ppn, lookup(dtlb, v).super) \in seen[v]
                      /\ wres.valid /\ wres.va = v => Fault(wres.af) \in seen[v]
    BY Zenon DEF Fresh
  <2>1. ASSUME NEW t, Entries(t), hit(t, v)
        PROVE  Leaf(lookup(t, v).ppn, lookup(t, v).super) \in seen[v]
    <3> DEFINE i == Max(hits(t, v))
    <3>1. i \in Slots /\ match(t.ent[i], v)
      BY <2>1, LookupMatches, Zenon
    <3>2. lookup(t, v) = [super |-> t.ent[i].sp, ppn |-> t.ent[i].ppn]
      BY Zenon DEF lookup
    <3> HIDE DEF i
    <3>3. lookup(t, v).ppn = t.ent[i].ppn /\ lookup(t, v).super = t.ent[i].sp
      BY <3>2
    <3> QED
      BY <2>1, <3>1, <3>3, Zenon DEF Entries
  <2> QED
    BY <2>1, Zenon DEF MInv, Remembered
<1>2. MInv /\ [Next]_vars => MInv'
  BY Steps
<1> QED
  BY PowerOn, <1>1, <1>2, PTL DEF Spec
=============================================================================
