----------------------------- MODULE InstrSet ------------------------------
(***************************************************************************)
(* The instructions of the pipelined core rtl/cpu_pipe_u.v, as far as its  *)
(* control tells them apart.  An instruction is a record [op, rd, rs1,     *)
(* rs2, imm]; the arithmetic is abstracted to one ALU function and one AMO *)
(* function, addresses and jump targets are register values, and the       *)
(* machine-mode trap registers are kept in one record.                     *)
(***************************************************************************)
EXTENDS Naturals

CONSTANTS
    NRegs, NVals, NPcs, NWords, \* sizes: registers, values, code, data
    Progs,                      \* the programs: functions from Pcs to Instr
    TVec,                       \* mtvec
    NoExec,                     \* PCs whose fetch faults
    Misaligned, Faulting        \* addresses whose data access traps

Regs  == 0 .. NRegs - 1
Vals  == 0 .. NVals - 1
Pcs   == 0 .. NPcs - 1
Words == 0 .. NWords - 1
Ops   == {"alu", "load", "store", "lr", "sc", "amo", "branch", "jal", "jalr",
          "csr", "mie", "mret", "ecall", "illegal", "fencei", "nop"}
Instr == [op : Ops, rd : Regs, rs1 : Regs, rs2 : Regs, imm : Pcs]
Nop   == [op |-> "nop", rd |-> 0, rs1 |-> 0, rs2 |-> 0, imm |-> 0]

ASSUME IsaAssumption ==
    /\ NRegs \in Nat \ {0} /\ NVals \in Nat \ {0, 1}
    /\ NPcs \in Nat \ {0} /\ NWords \in Nat \ {0}
    /\ Progs \subseteq [Pcs -> Instr]
    /\ TVec \in Pcs /\ NoExec \subseteq Pcs
    /\ Misaligned \subseteq Vals /\ Faulting \subseteq Vals

\* Causes of a trap; "none" is no trap.
Causes == {"none", "ifault", "illegal", "ecall", "imisal", "misal", "dfault", "irq"}
Csrs   == [mie : BOOLEAN, mpie : BOOLEAN, mepc : Pcs, mcause : Causes, scratch : Vals]

(***************************************************************************)
(* Decode: control.v and the SYSTEM / atomics decode of cpu_pipe_u.v.      *)
(***************************************************************************)
MemRead(i)  == i.op \in {"load", "lr", "sc", "amo"}
MemAny(i)   == MemRead(i) \/ i.op = "store"
RegWrite(i) == i.op \in {"alu", "load", "lr", "sc", "amo", "jal", "jalr", "csr"}
Ctrl(i)     == i.op \in {"branch", "jal", "jalr"}

(***************************************************************************)
(* What EX computes from the operands a and b.                             *)
(***************************************************************************)
Seq(p)        == (p + 1) % NPcs                 \* pc + 4
Alu(a, b)     == (a + 2 * b + 1) % NVals
Addr(a)       == a % NWords
AmoNew(o, s)  == (o + s + 1) % NVals
Taken(i, a, b)  == i.op \in {"jal", "jalr"} \/ (i.op = "branch" /\ a = b)
Target(i, a)  == IF i.op = "jalr" THEN a ELSE i.imm
Link(p)       == Seq(p) % NVals                 \* pc + 4 as a register value

Exception(i, a, b) ==
    IF i.op = "illegal" THEN "illegal"
    ELSE IF i.op = "ecall" THEN "ecall"
    ELSE IF Taken(i, a, b) /\ Target(i, a) \notin Pcs THEN "imisal"
    ELSE IF MemAny(i) /\ a \in Misaligned THEN "misal"
    ELSE IF MemAny(i) /\ a \in Faulting THEN "dfault"
    ELSE "none"

\* Interrupts are not taken on an instruction that is touching the CSRs.
IrqOk(i) == i.op \notin {"mret", "csr", "mie"}

TrapCsr(cs, p, c) == [cs EXCEPT !.mepc = p, !.mcause = c, !.mpie = cs.mie, !.mie = FALSE]
MretCsr(cs)       == [cs EXCEPT !.mie = cs.mpie, !.mpie = TRUE]
WriteCsr(cs, i, a) ==
    CASE i.op = "csr" -> [cs EXCEPT !.scratch = a]
      [] i.op = "mie" -> [cs EXCEPT !.mie = (a # 0)]
      [] i.op = "mret" -> MretCsr(cs)
      [] OTHER -> cs
WriteReg(r, d, v) == IF d = 0 THEN r ELSE [r EXCEPT ![d] = v]
=============================================================================
