---------------------------- MODULE MCPipeCount -----------------------------
EXTENDS PipeCount, TLC

I(op, rd, rs1, rs2, imm) ==
    [op |-> op, rd |-> rd, rs1 |-> rs1, rs2 |-> rs2, imm |-> imm]

\* Stalls of either port or of both, interrupts, halt, a wait of EX and a
\* wrong prediction, in any order.
LoopInputs ==
    {Ready}
    \cup {[Ready EXCEPT !.ifok = FALSE]}
    \cup {[Ready EXCEPT !.dready = FALSE, !.ifok = i] : i \in BOOLEAN}
    \cup {[Ready EXCEPT !.irq = TRUE], [Ready EXCEPT !.halt = TRUE],
          [Ready EXCEPT !.xwait = TRUE], [Ready EXCEPT !.pred = 2]}

\* Producers and consumers over two registers; atomics; branches, jumps
\* through a register, faults and the trap return.
Accesses == {I("load", 1, 2, 0, 0), I("store", 0, 1, 2, 0)}
DataInstrs == Accesses \cup {I("alu", 2, 1, 1, 0), I("fencei", 0, 0, 0, 0)}
Sc == I("sc", 2, 1, 1, 0)
AtomInstrs == {I("lr", 1, 2, 0, 0), I("sc", 1, 2, 2, 0), I("amo", 1, 1, 1, 0), Sc}
CtrlInstrs == {I("branch", 0, 1, 2, 0), I("jal", 2, 0, 0, 0), I("jalr", 2, 1, 0, 0),
               I("illegal", 0, 0, 0, 0)}

\* Loops of four instructions; the handler at 4 returns at once.  The loops
\* with atomics run with interrupts enabled, the ones with jumps with a CSR
\* write before them.
Loop(i, a, b) == (0 :> I("alu", 1, 1, 0, 0)) @@ (1 :> i) @@ (2 :> a) @@ (3 :> b)
                 @@ (4 :> I("mret", 0, 0, 0, 0))
LoopProgs == {Loop(I("mie", 0, 1, 0, 0), a, b) : a \in AtomInstrs \ {Sc}, b \in AtomInstrs}
             \cup {Loop(I("load", 2, 1, 0, 0), a, b) : a \in DataInstrs, b \in Accesses}
             \cup {Loop(I("csr", 2, 1, 0, 0), a, I("ecall", 0, 0, 0, 0)) : a \in CtrlInstrs}
=============================================================================
