-------------------------------- MODULE Ptw ---------------------------------
(***************************************************************************)
(* rtl/ptw.v: the Sv32 page-table walker that borrows the D-port.  Memory  *)
(* is a set of tables; a PTE is [k, n]: a leaf with page n, a pointer to   *)
(* table n, or one that is invalid (V, W without R, A under SVADE).        *)
(***************************************************************************)
EXTENDS Naturals

CONSTANT Unreadable             \* tables outside readable memory (PMA)

WalkIdle == [state |-> "IDLE", side_i |-> FALSE, va |-> <<0, 0>>, l0 |-> 0, killed |-> FALSE]

busy(w) == w.state # "IDLE"

\* The PTE's address: a table and an index.  At L1 it follows satp.
mem_addr(w, root) == IF w.state = "L1" THEN <<root, w.va[1]>> ELSE <<w.l0, w.va[2]>>

noread(w, root)   == busy(w) /\ mem_addr(w, root)[1] \in Unreadable
fin(w, root, rdy) == busy(w) /\ (rdy \/ noread(w, root))

isleaf(p) == p.k = "leaf"
good(w, root, pte, rdy) == fin(w, root, rdy) /\ ~noread(w, root) /\ isleaf(pte)
bad(w, root, pte, rdy)  ==
    \/ noread(w, root)
    \/ fin(w, root, rdy) /\ (pte.k = "bad" \/ (w.state = "L0" /\ ~isleaf(pte)))
drop(w, kill) == w.killed \/ (kill /\ w.side_i)

\* Mutant of PtwEdge: a kill is forgotten unless the read ends in that cycle.
PtwEdgeForgetsKill(w, root, pte, rdy, kill, start) ==
    IF ~busy(w) THEN
        IF start.k = "none" THEN [w EXCEPT !.killed = FALSE]
        ELSE [w EXCEPT !.state = "L1", !.side_i = (start.k = "i"), !.va = start.va,
                       !.killed = FALSE]
    ELSE IF ~fin(w, root, rdy) THEN w
    ELSE IF w.state = "L1" /\ ~noread(w, root) /\ pte.k = "ptr"
         THEN [w EXCEPT !.state = "L0", !.l0 = pte.n]
         ELSE [w EXCEPT !.state = "IDLE"]

\* One edge; start is the request sampled in IDLE, data side first.
PtwEdge(w, root, pte, rdy, kill, start) ==
    IF ~busy(w) THEN
        IF start.k = "none" THEN [w EXCEPT !.killed = FALSE]
        ELSE [w EXCEPT !.state = "L1", !.side_i = (start.k = "i"), !.va = start.va,
                       !.killed = FALSE]
    ELSE LET u == [w EXCEPT !.killed = drop(w, kill)]
         IN  IF ~fin(w, root, rdy) THEN u
             ELSE IF w.state = "L1" /\ ~noread(w, root) /\ pte.k = "ptr"
             THEN [u EXCEPT !.state = "L0", !.l0 = pte.n]
             ELSE [u EXCEPT !.state = "IDLE"]
=============================================================================
