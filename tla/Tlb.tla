-------------------------------- MODULE Tlb ---------------------------------
(***************************************************************************)
(* rtl/tlb.v: a small fully associative TLB.  A virtual page is a pair     *)
(* <<VPN1, VPN0>>; a superpage entry matches on VPN1 alone.  What an entry *)
(* translates to is a record [super, ppn]: permissions are left out.       *)
(***************************************************************************)
EXTENDS Naturals, FiniteSetsExt

CONSTANT ENTRIES
ASSUME EntriesAssumption == ENTRIES \in Nat \ {0}

Slots == 0 .. ENTRIES - 1

Empty == [v |-> FALSE, sp |-> FALSE, tag |-> <<0, 0>>, ppn |-> 0]

\* Does entry e translate virtual page va?
match(e, va) == e.v /\ IF e.sp THEN e.tag[1] = va[1] ELSE e.tag = va

TlbInit == [ent |-> [i \in Slots |-> Empty], victim |-> 0]

hits(t, va) == {i \in Slots : match(t.ent[i], va)}
hit(t, va)  == hits(t, va) # {}

\* The lookup loop keeps the last entry that matches.
lookup(t, va) == LET e == t.ent[Max(hits(t, va))]
                 IN  [super |-> e.sp, ppn |-> e.ppn]

flush_one(t, va) ==
    [t EXCEPT !.ent = [i \in Slots |-> IF match(t.ent[i], va) THEN Empty ELSE t.ent[i]]]
flush_all(t) == [t EXCEPT !.ent = [i \in Slots |-> Empty]]

fill(t, va, leaf) ==
    [ent    |-> [t.ent EXCEPT ![t.victim] =
                   [v |-> TRUE, sp |-> leaf.super, tag |-> va, ppn |-> leaf.ppn]],
     victim |-> (t.victim + 1) % ENTRIES]

\* One edge: f is what the fence in EX flushes, l the leaf a finished walk
\* of va delivers, if any.  A full flush drops the fill of the same edge.
TlbEdge(t, f, va, l) ==
    IF f.k = "all" THEN flush_all(t)
    ELSE LET u == IF f.k = "one" THEN flush_one(t, f.va) ELSE t
         IN  IF l.ok THEN fill(u, va, l) ELSE u
=============================================================================
