------------------------------ MODULE MCMemSys ------------------------------
(***************************************************************************)
(* MemSys for TLC.  Memory starts as zeroes and the arrays that reset does *)
(* not touch start with line 0: stores reach every other contents.         *)
(***************************************************************************)
EXTENDS MemSys

\* One root: the level-1 table is line 0, and satp always points there.
MCRoots == {[op |-> "read", addr |-> 0, word |-> 0, data |-> 0]}

ZeroLine == [w \in Words |-> 0]

MCInit ==
    /\ Init
    /\ mem = [a \in LineAddrs |-> ZeroLine]
    /\ dtags = [i \in DIndex |-> 0] /\ dlines = [i \in DIndex |-> ZeroLine]
    /\ itags = [i \in IIndex |-> 0] /\ ilines = [i \in IIndex |-> ZeroLine]

\* Line 1 is there to evict line 0 and keeps its contents.
MCNext == Next /\ (dport'.addr = 1 => dport'.data = 0)

MCFairSpec == MCInit /\ [][MCNext]_vars /\ WF_vars(MCNext) /\ WF_vars(LastBeat)
=============================================================================
