-------------------------------- MODULE Isa --------------------------------
(***************************************************************************)
(* What the pipelined core rtl/cpu_pipe_u.v promises a program: one        *)
(* instruction at a time, each seeing the results of all those before it,  *)
(* and precise traps.                                                      *)
(***************************************************************************)
EXTENDS InstrSet

VARIABLES prog, pc, regs, mem, resv, csr

\* No LR/SC reservation: a value that is no word address.
NoResv == NWords

vars == <<prog, pc, regs, mem, resv, csr>>

Init ==
    /\ prog \in Progs
    /\ pc = 0
    /\ regs = [r \in Regs |-> 0]
    /\ mem = [w \in Words |-> 0]
    /\ resv = NoResv
    /\ csr = [mie |-> FALSE, mpie |-> FALSE, mepc |-> 0, mcause |-> "none", scratch |-> 0]

Cause == IF pc \in NoExec THEN "ifault"
         ELSE Exception(prog[pc], regs[prog[pc].rs1], regs[prog[pc].rs2])

\* A trap changes nothing but the trap state, and drops the reservation.
Trap(c) ==
    /\ csr' = TrapCsr(csr, pc, c)
    /\ pc' = TVec
    /\ resv' = NoResv
    /\ UNCHANGED <<prog, regs, mem>>

TakeException == Cause # "none" /\ Trap(Cause)

TakeInterrupt == Cause = "none" /\ csr.mie /\ IrqOk(prog[pc]) /\ Trap("irq")

Execute ==
    LET i == prog[pc]  a == regs[i.rs1]  b == regs[i.rs2]
        w == Addr(a)   ok == i.op = "sc" /\ resv = w
    IN  /\ Cause = "none"
        /\ pc' = IF i.op = "mret" THEN csr.mepc
                 ELSE IF Taken(i, a, b) THEN Target(i, a) ELSE Seq(pc)
        /\ regs' = CASE i.op = "alu"  -> WriteReg(regs, i.rd, Alu(a, b))
                     [] i.op \in {"load", "lr", "amo"} -> WriteReg(regs, i.rd, mem[w])
                     [] i.op = "sc"   -> WriteReg(regs, i.rd, IF ok THEN 0 ELSE 1)
                     [] i.op \in {"jal", "jalr"} -> WriteReg(regs, i.rd, Link(pc))
                     [] i.op = "csr"  -> WriteReg(regs, i.rd, csr.scratch)
                     [] OTHER -> regs
        /\ mem' = CASE i.op = "store" \/ ok -> [mem EXCEPT ![w] = b]
                    [] i.op = "amo" -> [mem EXCEPT ![w] = AmoNew(@, b)]
                    [] OTHER -> mem
        /\ resv' = CASE i.op = "lr" -> w
                     [] i.op \in {"sc", "amo"} -> NoResv
                     [] OTHER -> resv
        /\ csr' = WriteCsr(csr, i, a)
        /\ UNCHANGED prog

Next == TakeException \/ TakeInterrupt \/ Execute

Spec == Init /\ [][Next]_vars
=============================================================================
