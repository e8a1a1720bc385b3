------------------------------- MODULE MCMmu --------------------------------
EXTENDS Mmu, TLC

P(k, n) == [k |-> k, n |-> n]
S(t, i, p) == [t |-> t, i |-> i, pte |-> p]

OnePage == {<<0, 0>>}

\* Roots 0 and 1 (a superpage); table 2 is the lower table of root 0, table 3
\* lies outside memory.
Tab == (0 :> (0 :> P("ptr", 2) @@ 1 :> P("bad", 0)))
    @@ (1 :> (0 :> P("leaf", 1) @@ 1 :> P("bad", 0)))
    @@ (2 :> (0 :> P("leaf", 0) @@ 1 :> P("leaf", 1)))
    @@ (3 :> (0 :> P("bad", 0) @@ 1 :> P("bad", 0)))

On(r) == [on |-> TRUE, root |-> r]
Off(r) == [on |-> FALSE, root |-> r]
\* The machine switches between two roots; to one that cannot be read and back,
\* where S mode can only go there; S mode turns translation off.
ByMachine == [M |-> {On(0), On(1)}, S |-> {}]
ByBoth == [M |-> {On(0), On(3)}, S |-> {On(3)}]
TurnedOff == [M |-> {On(0)}, S |-> {Off(1)}]

\* Software that replaces a lower table by a superpage.
PromoteStores == {S(0, 0, P("leaf", 0))}
NoStores == {}
=============================================================================
