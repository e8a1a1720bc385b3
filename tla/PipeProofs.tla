----------------------------- MODULE PipeProofs -----------------------------
(***************************************************************************)
(* Proofs about the pipeline, for every program, every size of registers,  *)
(* values, code and data, and every set of inputs of its edges: the pipe   *)
(* implements the one-instruction-at-a-time machine Isa, and its event     *)
(* counters account for every cycle.                                       *)
(***************************************************************************)
EXTENDS PipeCount, TLAPS

\* The registers of the pipe hold values of their types.
IfTypes  == [valid : BOOLEAN, pc : Pcs, instr : Instr, ifault : BOOLEAN, pred : Pcs \cup {NoPc}]
IdTypes  == [valid : BOOLEAN, pc : Pcs, instr : Instr, ifault : BOOLEAN, pred : Pcs \cup {NoPc},
             rs1d : Vals, rs2d : Vals]
MemTypes == [valid : BOOLEAN, op : Ops, rd : Regs, wr : BOOLEAN, result : Vals,
             addr : Words, store : Vals]
WbTypes  == [valid : BOOLEAN, rd : Regs, wr : BOOLEAN, data : Vals]

PipeTypes ==
    /\ prog \in Progs /\ regs \in [Regs -> Vals] /\ dmem \in [Words -> Vals] /\ pc \in Pcs
    /\ ifid \in IfTypes /\ idex \in IdTypes /\ exmem \in MemTypes /\ memwb \in WbTypes
    /\ resv \in [valid : BOOLEAN, addr : Words]
    /\ amo_ph \in BOOLEAN /\ amo_old \in Vals
    /\ csr \in Csrs

\* A slot holds what IF fetched at its pc; a bubble carries a NOP, which
\* reads and writes nothing.
Fetched(s) ==
    IF s.valid THEN /\ s.ifault = (s.pc \in NoExec)
                    /\ s.instr = IF s.pc \in NoExec THEN Nop ELSE prog[s.pc]
    ELSE s.instr = Nop

\* Where IF went on after it fetched the instruction of slot s.
Guess(s) == IF s.pred # NoPc THEN s.pred ELSE Seq(s.pc)

\* The slots follow each other on the guessed path.
OnPath ==
    /\ ifid.valid => pc = Guess(ifid)
    /\ idex.valid => Guess(idex) = (IF ifid.valid THEN ifid.pc ELSE pc)

\* What MEM owes is what the instruction in it does; an AMO in its second
\* phase has read the old value.
Owed ==
    /\ exmem.wr <=> (exmem.op \in {"alu", "load", "lr", "sc", "amo", "jal", "jalr", "csr"})
    /\ amo_ph => exmem.op = "amo" /\ amo_old = dmem[exmem.addr]

\* An operand that neither MEM nor WB forwards is the register file's.
Current(r, d) ==
    \/ exmem.wr /\ exmem.rd # 0 /\ exmem.rd = r
    \/ memwb.wr /\ memwb.rd # 0 /\ memwb.rd = r
    \/ d = regs[r]

\* The operands of EX: current, and never those of a load still in MEM.
Operands ==
    idex.valid =>
      /\ Current(idex.instr.rs1, idex.rs1d) /\ Current(idex.instr.rs2, idex.rs2d)
      /\ exmem.op \in {"load", "lr", "sc", "amo"} /\ exmem.rd # 0
           => exmem.rd \notin {idex.instr.rs1, idex.instr.rs2}

PInv == PipeTypes /\ Fetched(ifid) /\ Fetched(idex) /\ OnPath /\ Owed /\ Operands
-----------------------------------------------------------------------------
\* The arithmetic of InstrSet stays in the sets it is meant for.
LEMMA Arithmetic ==
    /\ 0 \in Regs /\ 0 \in Vals /\ 1 \in Vals /\ 0 \in Pcs /\ 0 \in Words
    /\ NoPc \notin Pcs /\ NWords \notin Words
    /\ \A p \in Pcs : Seq(p) \in Pcs /\ Link(p) \in Vals
    /\ \A a, b \in Vals : Alu(a, b) \in Vals /\ AmoNew(a, b) \in Vals
    /\ \A a \in Vals : Addr(a) \in Words
<1>1. ASSUME NEW x \in Nat, NEW n \in Nat \ {0} PROVE x % n \in 0 .. n - 1
  OBVIOUS
<1>2. \A p \in Pcs : Seq(p) \in Pcs
  BY <1>1, IsaAssumption DEF Pcs, Seq
<1>3. \A p \in Pcs : Link(p) \in Vals
  <2>1. \A p \in Pcs : Seq(p) \in Nat
    BY <1>2, IsaAssumption DEF Pcs
  <2> QED
    BY <1>1, <2>1, IsaAssumption DEF Vals, Link
<1>4. \A a, b \in Vals : a + 2 * b + 1 \in Nat /\ a + b + 1 \in Nat
  BY IsaAssumption DEF Vals
<1>5. \A a, b \in Vals : Alu(a, b) \in Vals /\ AmoNew(a, b) \in Vals
  BY <1>1, <1>4, IsaAssumption DEF Vals, Alu, AmoNew
<1>6. \A a \in Vals : Addr(a) \in Words
  BY <1>1, IsaAssumption DEF Vals, Words, Addr
<1>7. /\ 0 \in Regs /\ 0 \in Vals /\ 1 \in Vals /\ 0 \in Pcs /\ 0 \in Words
      /\ NoPc \notin Pcs /\ NWords \notin Words
  BY IsaAssumption DEF Regs, Vals, Pcs, Words, NoPc
<1> QED
  BY <1>2, <1>3, <1>5, <1>6, <1>7

\* An instruction's fields, and those of the NOP in a bubble.
LEMMA Instrs ==
    /\ Nop \in Instr
    /\ \A i \in Instr : i.op \in Ops /\ i.rd \in Regs /\ i.rs1 \in Regs
                       /\ i.rs2 \in Regs /\ i.imm \in Pcs
    /\ \A p \in Progs, x \in Pcs : p[x] \in Instr
<1>1. Nop \in Instr
  BY Arithmetic DEF Nop, Instr, Ops
<1> QED
  BY <1>1, IsaAssumption DEF Instr

\* The forwarding network and MEM deliver values.
LEMMA Wires ==
    ASSUME PipeTypes
    PROVE  opA \in Vals /\ opB \in Vals /\ mem_value \in Vals /\ ex_result \in Vals
<1>1. opA \in Vals /\ opB \in Vals
  BY DEF PipeTypes, IdTypes, MemTypes, WbTypes, opA, opB, Forward
<1>2. mem_value \in Vals
  BY Arithmetic DEF PipeTypes, MemTypes, mem_value, m_load
<1>3. ex_result \in Vals
  BY <1>1, Arithmetic DEF PipeTypes, IdTypes, Csrs, ex_result
<1> QED
  BY <1>1, <1>2, <1>3

\* EX redirects only with an instruction that leaves it.
LEMMA Going ==
    ASSUME NEW in
    PROVE  /\ redirect(in) => ex_go(in)
           /\ take_trap(in) => ex_go(in)
           /\ ex_keep(in) => ex_go(in) /\ ~take_trap(in)
           /\ ex_go(in) => idex.valid /\ ~freeze(in) /\ ~ex_hold(in)
BY DEF redirect, take_trap, ex_keep, ex_go

\* An address or a target that raises no exception is one of the code.
LEMMA TargetInCode ==
    ASSUME PipeTypes, ~exception, ex_taken
    PROVE  ex_target \in Pcs
BY DEF exception, ex_cause, Exception, ex_taken, ex_target

\* The pc a redirect sends IF to is one of the code.
LEMMA RedirectInCode ==
    ASSUME PipeTypes, NEW in, redirect(in)
    PROVE  redirect_pc(in) \in Pcs
<1>1. CASE take_trap(in)
  BY <1>1, IsaAssumption DEF redirect_pc
<1>2. CASE ~take_trap(in)
  <2>1. ~exception
    BY <1>2, Going DEF take_trap
  <2>2. Seq(idex.pc) \in Pcs /\ csr.mepc \in Pcs
    BY Arithmetic DEF PipeTypes, IdTypes, Csrs
  <2> QED
    BY <1>2, <2>1, <2>2, TargetInCode DEF redirect_pc
<1> QED
  BY <1>1, <1>2

\* Every edge keeps the registers of the pipe in their types.
LEMMA StepTypes ==
    ASSUME PipeTypes, NEW in \in AnyInput, Edge(in)
    PROVE  PipeTypes'
<1> USE Arithmetic, Instrs, Wires
<1>1. prog' \in Progs
  BY DEF Edge, PipeTypes
<1>2. pc' \in Pcs /\ ifid' \in IfTypes
  <2>1. in.pred \in Pcs \cup {NoPc}
    BY DEF AnyInput
  <2>2. pc' \in Pcs
    BY <2>1, RedirectInCode DEF Edge, IfEdge, PipeTypes
  <2>3. IfBubble \in IfTypes
    BY DEF IfBubble, IfTypes
  <2>4. [valid |-> TRUE, pc |-> pc, instr |-> IF pc \in NoExec THEN Nop ELSE prog[pc],
         ifault |-> pc \in NoExec, pred |-> in.pred] \in IfTypes
    BY <2>1 DEF PipeTypes, IfTypes
  <2> QED
    BY <2>2, <2>3, <2>4 DEF Edge, IfEdge, PipeTypes
<1>3. idex' \in IdTypes
  <2>1. IdBubble \in IdTypes
    BY DEF IdBubble, IdTypes
  <2>2. [idex EXCEPT !.rs1d = opA, !.rs2d = opB] \in IdTypes
    BY Zenon DEF PipeTypes, IdTypes
  <2>3. /\ RegRead(ifid.instr.rs1) \in Vals /\ RegRead(ifid.instr.rs2) \in Vals
    BY DEF PipeTypes, IfTypes, WbTypes, RegRead
  <2>4. [valid |-> ifid.valid, pc |-> ifid.pc, instr |-> ifid.instr,
         ifault |-> ifid.ifault, pred |-> ifid.pred,
         rs1d |-> RegRead(ifid.instr.rs1), rs2d |-> RegRead(ifid.instr.rs2)] \in IdTypes
    BY <2>3 DEF PipeTypes, IfTypes, IdTypes
  <2> QED
    BY <2>1, <2>2, <2>4 DEF Edge, IdEdge
<1>4. exmem' \in MemTypes
  <2>1. MemBubble \in MemTypes
    BY DEF MemBubble, MemTypes, Ops
  <2>2. [valid |-> TRUE, op |-> idex.instr.op, rd |-> idex.instr.rd,
         wr |-> RegWrite(idex.instr), result |-> ex_result,
         addr |-> Addr(opA), store |-> opB] \in MemTypes
    BY DEF PipeTypes, IdTypes, MemTypes, RegWrite
  <2> QED
    BY <2>1, <2>2 DEF Edge, ExEdge, PipeTypes
<1>5. csr' \in Csrs
  <2>1. ex_cause \in Causes /\ "irq" \in Causes
    BY DEF ex_cause, Exception, Causes
  <2>2. \A c \in Causes : TrapCsr(csr, idex.pc, c) \in Csrs
    BY Zenon DEF TrapCsr, PipeTypes, Csrs, IdTypes
  <2>3. WriteCsr(csr, idex.instr, opA) \in Csrs
    BY Zenon DEF WriteCsr, MretCsr, PipeTypes, Csrs
  <2> QED
    BY <2>1, <2>2, <2>3 DEF Edge, ExEdge, PipeTypes
<1>6. dmem' \in [Words -> Vals] /\ amo_ph' \in BOOLEAN /\ amo_old' \in Vals
  <2>1. exmem.addr \in Words /\ exmem.store \in Vals /\ AmoNew(amo_old, exmem.store) \in Vals
    BY DEF PipeTypes, MemTypes
  <2>2. dmem' \in [Words -> Vals]
    BY <2>1 DEF Edge, PortEdge, PipeTypes
  <2>3. amo_ph' \in BOOLEAN
    BY Zenon DEF Edge, PortEdge, PipeTypes
  <2>4. amo_old' \in Vals
    BY <2>1 DEF Edge, PortEdge, PipeTypes
  <2> QED
    BY <2>2, <2>3, <2>4
<1>7. resv' \in [valid : BOOLEAN, addr : Words]
  BY Zenon DEF Edge, ResvEdge, PipeTypes, MemTypes
<1>8. regs' \in [Regs -> Vals] /\ memwb' \in WbTypes
  <2>1. WbBubble \in WbTypes
    BY DEF WbBubble, WbTypes
  <2>2. [valid |-> exmem.valid, rd |-> exmem.rd, wr |-> exmem.wr, data |-> mem_value] \in WbTypes
    BY DEF PipeTypes, MemTypes, WbTypes
  <2>3. regs' \in [Regs -> Vals]
    BY DEF Edge, WbEdge, WriteReg, PipeTypes, WbTypes
  <2> QED
    BY <2>1, <2>2, <2>3 DEF Edge, WbEdge
<1> QED
  BY <1>1, <1>2, <1>3, <1>4, <1>5, <1>6, <1>7, <1>8 DEF PipeTypes
-----------------------------------------------------------------------------
(***************************************************************************)
(* The front of the pipe: IF, IF/ID and ID/EX.                             *)
(***************************************************************************)

\* What an edge does to it: it flushes, waits, drops a bubble into ID/EX
\* behind a load, or moves on by one slot.
Flushed(in) == ifid' = IfBubble /\ idex' = IdBubble /\ pc' = redirect_pc(in)
Waiting     == ifid' = ifid /\ pc' = pc /\ idex' = [idex EXCEPT !.rs1d = opA, !.rs2d = opB]
Stalled     == ifid' = ifid /\ pc' = pc /\ idex' = IdBubble
Moved(in) ==
    /\ idex' = [valid |-> ifid.valid, pc |-> ifid.pc, instr |-> ifid.instr,
                ifault |-> ifid.ifault, pred |-> ifid.pred,
                rs1d |-> RegRead(ifid.instr.rs1), rs2d |-> RegRead(ifid.instr.rs2)]
    /\ IF in.ifok
       THEN /\ ifid' = [valid |-> TRUE, pc |-> pc,
                         instr |-> IF pc \in NoExec THEN Nop ELSE prog[pc],
                         ifault |-> pc \in NoExec, pred |-> in.pred]
            /\ pc' = IF in.pred # NoPc THEN in.pred ELSE Seq(pc)
       ELSE ifid' = IfBubble /\ pc' = pc

LEMMA FrontEdge ==
    ASSUME NEW in, Edge(in)
    PROVE  /\ redirect(in) => Flushed(in)
           /\ ~redirect(in) /\ (freeze(in) \/ ex_hold(in)) => Waiting
           /\ ~redirect(in) /\ ~freeze(in) /\ ~ex_hold(in) /\ load_use => Stalled
           /\ ~redirect(in) /\ ~freeze(in) /\ ~ex_hold(in) /\ ~load_use => Moved(in)
<1>1. redirect(in) => Flushed(in)
  BY Going DEF Edge, IfEdge, IdEdge, Flushed
<1>2. ~redirect(in) /\ (freeze(in) \/ ex_hold(in)) => Waiting
  BY DEF Edge, IfEdge, IdEdge, Waiting, front_hold
<1>3. ~redirect(in) /\ ~freeze(in) /\ ~ex_hold(in) /\ load_use => Stalled
  BY DEF Edge, IfEdge, IdEdge, Stalled, front_hold
<1>4. ~redirect(in) /\ ~freeze(in) /\ ~ex_hold(in) /\ ~load_use => Moved(in)
  BY DEF Edge, IfEdge, IdEdge, Moved, front_hold
<1> QED
  BY <1>1, <1>2, <1>3, <1>4

\* While ID/EX waits, only its operands change.
LEMMA WaitingKeeps ==
    ASSUME PipeTypes, Waiting
    PROVE  /\ idex'.valid = idex.valid /\ idex'.pc = idex.pc /\ idex'.instr = idex.instr
           /\ idex'.ifault = idex.ifault /\ idex'.pred = idex.pred
           /\ idex'.rs1d = opA /\ idex'.rs2d = opB
BY DEF PipeTypes, IdTypes, Waiting

\* The slots keep what was fetched, in the order of the guessed path.
LEMMA StepFront ==
    ASSUME PInv, NEW in \in AnyInput, Edge(in)
    PROVE  Fetched(ifid)' /\ Fetched(idex)' /\ OnPath'
<1> USE DEF PInv
<1>0. prog' = prog
  BY DEF Edge
<1>1. CASE redirect(in)
  BY <1>1, FrontEdge DEF Flushed, Fetched, OnPath, IfBubble, IdBubble
<1>2. CASE ~redirect(in) /\ (freeze(in) \/ ex_hold(in))
  BY <1>0, <1>2, FrontEdge, WaitingKeeps DEF Waiting, Fetched, OnPath, Guess
<1>3. CASE ~redirect(in) /\ ~freeze(in) /\ ~ex_hold(in) /\ load_use
  BY <1>0, <1>3, FrontEdge DEF Stalled, Fetched, OnPath, Guess, IdBubble
<1>4. CASE ~redirect(in) /\ ~freeze(in) /\ ~ex_hold(in) /\ ~load_use
  BY <1>0, <1>4, FrontEdge DEF Moved, Fetched, OnPath, Guess, IfBubble
<1> QED
  BY <1>1, <1>2, <1>3, <1>4

(***************************************************************************)
(* The back of the pipe: MEM and WB.                                       *)
(***************************************************************************)

\* A frozen pipe changes no memory, no reservation and nothing in MEM but
\* the phase of an AMO.
LEMMA Frozen ==
    ASSUME PInv, NEW in \in AnyInput, Edge(in), freeze(in)
    PROVE  /\ exmem' = exmem /\ dmem' = dmem /\ resv' = resv /\ csr' = csr
           /\ memwb' = WbBubble
           /\ amo_ph' => exmem.op = "amo" /\ amo_old' = dmem[exmem.addr]
<1>1. ~ex_go(in) /\ ~take_trap(in)
  BY Going
<1>2. m_done(in) => ~m_last
  BY DEF freeze, m_done
<1>3. exmem' = exmem /\ csr' = csr /\ memwb' = WbBubble
  BY <1>1 DEF Edge, ExEdge, WbEdge
<1>4. dmem' = dmem
  BY <1>2 DEF Edge, PortEdge, m_last, m_write, m_store, sc_ok
<1>5. resv' = resv
  BY <1>1, <1>2 DEF Edge, ResvEdge, m_last
<1>6. amo_ph' => exmem.op = "amo" /\ amo_old' = dmem[exmem.addr]
  BY Zenon, <1>2 DEF Edge, PortEdge, m_last, PInv, Owed
<1> QED
  BY <1>3, <1>4, <1>5, <1>6

\* An edge of a pipe that is not frozen completes what MEM and WB owe.
LEMMA Drained ==
    ASSUME PInv, NEW in \in AnyInput, Edge(in), ~freeze(in)
    PROVE  /\ memwb' = [valid |-> exmem.valid, rd |-> exmem.rd, wr |-> exmem.wr, data |-> aValue]
           /\ (IF memwb.wr THEN WriteReg(regs, memwb.rd, memwb.data) ELSE regs) = regs'
           /\ dmem' = aMem
           /\ IF take_trap(in) THEN ~resv'.valid
              ELSE (IF resv'.valid THEN resv'.addr ELSE NWords) = aResv
           /\ ~amo_ph'
<1>1. m_port => m_done(in) /\ m_last
  BY DEF freeze
<1>2. exmem.op = "amo" => amo_ph /\ m_done(in) /\ amo_old = dmem[exmem.addr]
  BY <1>1 DEF m_port, m_last, PInv, Owed
<1>3. mem_value = aValue
  BY <1>2 DEF aValue, mem_value
<1>4. memwb' = [valid |-> exmem.valid, rd |-> exmem.rd, wr |-> exmem.wr, data |-> aValue]
  BY <1>3 DEF Edge, WbEdge
<1>5. dmem' = aMem
  BY Zenon, <1>1, <1>2 DEF Edge, PortEdge, aMem, m_port, m_write, m_store, sc_ok, m_done
<1>6. IF take_trap(in) THEN ~resv'.valid
      ELSE (IF resv'.valid THEN resv'.addr ELSE NWords) = aResv
  <2>1. exmem.op = "lr" => m_done(in)
    BY <1>1 DEF m_port, m_load
  <2>2. m_done(in) => m_port
    BY DEF m_done
  <2>3. resv \in [valid : BOOLEAN, addr : Words]
    BY DEF PInv, PipeTypes
  <2> QED
    BY <2>1, <2>2, <2>3 DEF Edge, ResvEdge, aResv
<1>7. ~amo_ph'
  BY Zenon, <1>2 DEF Edge, PortEdge, PInv, Owed, PipeTypes
<1> QED
  BY <1>4, <1>5, <1>6, <1>7 DEF Edge, WbEdge

\* What enters MEM at an edge that is not frozen.
LEMMA EntersMem ==
    ASSUME NEW in, Edge(in), ~freeze(in)
    PROVE  /\ ~ex_keep(in) => exmem' = MemBubble
           /\ ex_keep(in) =>
                exmem' = [valid |-> TRUE, op |-> idex.instr.op, rd |-> idex.instr.rd,
                          wr |-> RegWrite(idex.instr), result |-> ex_result,
                          addr |-> Addr(opA), store |-> opB]
BY DEF Edge, ExEdge

LEMMA StepOwed ==
    ASSUME PInv, NEW in \in AnyInput, Edge(in)
    PROVE  Owed'
<1>1. CASE freeze(in)
  BY <1>1, Frozen DEF PInv, Owed
<1>2. CASE ~freeze(in)
  <2>1. ~amo_ph'
    BY <1>2, Drained
  <2>2. ~ex_keep(in) => exmem'.op = "nop" /\ ~exmem'.wr
    BY <1>2, EntersMem DEF MemBubble
  <2>3. ex_keep(in) => exmem'.op = idex.instr.op /\ exmem'.wr = RegWrite(idex.instr)
    BY <1>2, EntersMem
  <2>4. exmem' \in MemTypes
    BY StepTypes DEF PInv, PipeTypes
  <2> QED
    BY <2>1, <2>2, <2>3, <2>4 DEF Owed, RegWrite, MemTypes
<1> QED
  BY <1>1, <1>2

\* The operands of EX stay those of the program, whatever waits for what.
LEMMA StepOperands ==
    ASSUME PInv, NEW in \in AnyInput, Edge(in)
    PROVE  Operands'
<1> SUFFICES ASSUME idex'.valid PROVE Operands'
  BY DEF Operands
<1>t. /\ memwb \in WbTypes /\ exmem \in MemTypes /\ regs \in [Regs -> Vals]
      /\ idex.instr \in Instr /\ ifid.instr \in Instr
  BY DEF PInv, PipeTypes, IfTypes, IdTypes
<1>r. regs' = IF memwb.wr /\ memwb.rd # 0 THEN [regs EXCEPT ![memwb.rd] = memwb.data] ELSE regs
  BY DEF Edge, WbEdge, WriteReg
<1>1. CASE freeze(in)
  <2>1. Waiting /\ exmem' = exmem /\ memwb' = WbBubble
    BY <1>1, FrontEdge, Frozen, Going
  <2>2. /\ idex'.instr = idex.instr /\ idex.valid
        /\ idex'.rs1d = opA /\ idex'.rs2d = opB
    BY Zenon, <2>1, WaitingKeeps DEF PInv
  <2> QED
    BY <1>t, <1>r, <2>1, <2>2, Instrs DEF Operands, Current, PInv, opA, opB, Forward, WbBubble, WbTypes
<1>2. CASE ~freeze(in) /\ ex_hold(in)
  <2>1. Waiting /\ exmem' = MemBubble
    BY <1>2, FrontEdge, EntersMem, Going
  <2>2. /\ idex'.instr = idex.instr /\ idex.valid
        /\ idex'.rs1d = opA /\ idex'.rs2d = opB
    BY Zenon, <2>1, WaitingKeeps DEF PInv
  <2>3. memwb'.wr = exmem.wr /\ memwb'.rd = exmem.rd
    BY <1>2, Drained
  <2> QED
    BY Zenon, <1>t, <1>r, <2>1, <2>2, <2>3, Instrs
    DEF Operands, Current, PInv, opA, opB, Forward, WbTypes, MemBubble
<1>3. CASE ~freeze(in) /\ ~ex_hold(in)
  <2>1. Moved(in) /\ ~load_use
    BY <1>3, FrontEdge DEF Flushed, Stalled, IdBubble
  <2>2. /\ idex'.instr = ifid.instr
        /\ idex'.rs1d = RegRead(ifid.instr.rs1) /\ idex'.rs2d = RegRead(ifid.instr.rs2)
    BY <2>1 DEF Moved
  <2>3. idex'.rs1d = regs'[idex'.instr.rs1] /\ idex'.rs2d = regs'[idex'.instr.rs2]
    BY <1>t, <1>r, <2>2, Instrs DEF RegRead, WbTypes
  <2>4. exmem'.op \in {"load", "lr", "sc", "amo"} /\ exmem'.rd # 0
          => exmem'.rd \notin {ifid.instr.rs1, ifid.instr.rs2}
    BY <1>3, <2>1, EntersMem, Going DEF load_use, MemRead, MemBubble
  <2> QED
    BY <2>2, <2>3, <2>4 DEF Operands, Current
<1> QED
  BY <1>1, <1>2, <1>3
-----------------------------------------------------------------------------
LEMMA InitPInv == Init => PInv
<1> SUFFICES ASSUME Init PROVE PInv
  OBVIOUS
<1> USE Arithmetic, Instrs DEF Init
<1>1. ifid \in IfTypes /\ idex \in IdTypes /\ exmem \in MemTypes /\ memwb \in WbTypes
  BY Zenon DEF IfBubble, IdBubble, MemBubble, WbBubble, IfTypes, IdTypes, MemTypes, WbTypes, Ops
<1>2. csr \in Csrs
  BY DEF Csrs, Causes
<1>3. PipeTypes
  BY Zenon, <1>1, <1>2 DEF PipeTypes
<1>4. ~ifid.valid /\ ifid.instr = Nop /\ ~idex.valid /\ idex.instr = Nop
  BY DEF IfBubble, IdBubble
<1>5. exmem.op = "nop" /\ exmem.wr = FALSE
  BY DEF MemBubble
<1>6. Owed
  BY <1>5 DEF Owed
<1> QED
  BY <1>3, <1>4, <1>6 DEF PInv, Fetched, OnPath, Operands

LEMMA StepPInv ==
    ASSUME PInv, NEW in \in AnyInput, Edge(in)
    PROVE  PInv'
BY StepTypes, StepFront, StepOwed, StepOperands DEF PInv

LEMMA NextPInv == PInv /\ [Next]_vars => PInv'
<1>1. ASSUME PInv, Next PROVE PInv'
  BY <1>1, StepPInv, InputsAssumption DEF Next
<1>2. ASSUME PInv, UNCHANGED vars PROVE PInv'
  <2>1. PipeTypes'
    BY Zenon, <1>2 DEF vars, PInv, PipeTypes
  <2>2. Fetched(ifid)' /\ Fetched(idex)'
    BY Zenon, <1>2 DEF vars, PInv, Fetched
  <2>3. OnPath' /\ Owed'
    BY Zenon, <1>2 DEF vars, PInv, OnPath, Guess, Owed
  <2>4. Operands'
    BY Zenon, <1>2 DEF vars, PInv, Operands, Current
  <2> QED
    BY Zenon, <2>1, <2>2, <2>3, <2>4 DEF PInv
<1> QED
  BY <1>1, <1>2

\* The inductive invariant of the pipe (cpu_pipe_u.v): what is in flight is
\* the program's, on the guessed path, with the operands it will need.
THEOREM PipeInvariantHolds == Spec => []PInv
BY InitPInv, NextPInv, PTL DEF Spec
-----------------------------------------------------------------------------
(***************************************************************************)
(* The refinement: how an edge changes the state the program sees.         *)
(***************************************************************************)

\* EX reads the registers as the program sees them.
LEMMA SeesRegs ==
    ASSUME PInv, idex.valid
    PROVE  /\ aRegs \in [Regs -> Vals]
           /\ opA = aRegs[idex.instr.rs1] /\ opB = aRegs[idex.instr.rs2]
<1>t. /\ memwb \in WbTypes /\ exmem \in MemTypes /\ regs \in [Regs -> Vals]
      /\ idex.instr \in Instr /\ dmem \in [Words -> Vals]
  BY DEF PInv, PipeTypes, IdTypes
<1>1. aValue \in Vals
  BY <1>t, Wires DEF aValue, PInv, MemTypes
<1>2. aRegs \in [Regs -> Vals]
  BY <1>t, <1>1 DEF aRegs, WriteReg, WbTypes, MemTypes
<1>3. \A r \in Regs :
        aRegs[r] = IF exmem.wr /\ exmem.rd # 0 /\ exmem.rd = r THEN aValue
                   ELSE IF memwb.wr /\ memwb.rd # 0 /\ memwb.rd = r THEN memwb.data
                   ELSE regs[r]
  BY <1>t, <1>1 DEF aRegs, WriteReg, WbTypes, MemTypes
<1>4. exmem.op \notin {"load", "lr", "sc", "amo"} => aValue = exmem.result
  BY DEF aValue, mem_value, m_load
<1> QED
  BY <1>t, <1>2, <1>3, <1>4, Instrs DEF PInv, Operands, Current, opA, opB, Forward

\* Registers, memory and reservation, seen by the program, at an edge that
\* lets no instruction out of EX.
LEMMA Unseen ==
    ASSUME PInv, NEW in \in AnyInput, Edge(in), ~ex_keep(in)
    PROVE  /\ aRegs' = aRegs /\ aMem' = aMem
           /\ aResv' = IF take_trap(in) THEN NWords ELSE aResv
<1>t. /\ memwb \in WbTypes /\ exmem \in MemTypes /\ regs \in [Regs -> Vals]
      /\ dmem \in [Words -> Vals]
  BY DEF PInv, PipeTypes
<1>1. CASE freeze(in)
  <2>1. /\ exmem' = exmem /\ dmem' = dmem /\ resv' = resv /\ memwb' = WbBubble
        /\ ~take_trap(in)
    BY <1>1, Frozen, Going
  <2>2. m_store' = m_store /\ aValue' = aValue
    <3>1. exmem.op = "amo" => aValue' = aValue
      BY <2>1 DEF aValue
    <3>2. exmem.op # "amo" => mem_value' = mem_value
      BY <2>1 DEF mem_value, m_load, sc_ok
    <3> QED
      BY <2>1, <3>1, <3>2 DEF m_store, sc_ok, aValue
  <2>3. aMem' = aMem /\ aResv' = aResv
    BY <2>1, <2>2 DEF aMem, aResv
  <2>4. aRegs' = aRegs
    BY <2>1, <2>2 DEF aRegs, WbBubble, Edge, WbEdge
  <2> QED
    BY <2>1, <2>3, <2>4
<1>2. CASE ~freeze(in)
  <2>1. exmem' = MemBubble
    BY <1>2, EntersMem
  <2>2. aMem' = aMem
    BY <1>2, <2>1, Drained DEF aMem, m_store, sc_ok, MemBubble
  <2>3. aRegs' = aRegs
    BY <1>2, <2>1, Drained DEF aRegs, MemBubble
  <2>4. aResv' = IF take_trap(in) THEN NWords ELSE aResv
    BY <1>2, <2>1, Drained DEF aResv, MemBubble
  <2> QED
    BY <2>2, <2>3, <2>4
<1> QED
  BY <1>1, <1>2

\* The instruction the program is at moves on when one leaves EX, and only
\* then, and to where that instruction or its trap leads.
LEMMA NextPc ==
    ASSUME PInv, NEW in \in AnyInput, Edge(in)
    PROVE  /\ ~ex_go(in) => aPc' = aPc
           /\ ex_go(in) => aPc' = IF take_trap(in) THEN TVec
                                  ELSE IF idex.instr.op = "mret" THEN csr.mepc
                                  ELSE IF ex_taken THEN ex_target ELSE Seq(idex.pc)
<1> DEFINE after == IF ifid.valid THEN ifid.pc ELSE pc
<1>t. idex \in IdTypes /\ ifid \in IfTypes /\ PipeTypes
  BY DEF PInv, PipeTypes
<1>1. CASE redirect(in)
  <2>1. ~ifid'.valid /\ ~idex'.valid /\ pc' = redirect_pc(in)
    BY <1>1, FrontEdge DEF Flushed, IfBubble, IdBubble
  <2> QED
    BY <1>1, <2>1, Going DEF aPc, redirect_pc
<1>2. CASE ~redirect(in) /\ (freeze(in) \/ ex_hold(in))
  BY <1>2, <1>t, FrontEdge, WaitingKeeps, Going DEF aPc, Waiting
<1>3. CASE ~redirect(in) /\ ~freeze(in) /\ ~ex_hold(in)
  <2>1. aPc' = after
    <3>1. CASE load_use
      BY <1>3, <3>1, FrontEdge DEF aPc, Stalled, IdBubble
    <3>2. CASE ~load_use
      <4>1. Moved(in)
        BY <1>3, <3>2, FrontEdge
      <4>2. idex'.valid = ifid.valid /\ idex'.pc = ifid.pc
        BY <4>1 DEF Moved
      <4>3. IF in.ifok THEN ifid'.valid /\ ifid'.pc = pc ELSE ~ifid'.valid /\ pc' = pc
        BY <4>1 DEF Moved, IfBubble
      <4> QED
        BY <4>2, <4>3 DEF aPc
    <3> QED
      BY <3>1, <3>2
  <2>2. CASE ~idex.valid
    BY Zenon, <2>1, <2>2, Going DEF aPc
  <2>3. CASE idex.valid
    <3>1. ex_go(in) /\ ~take_trap(in) /\ ~mispred /\ idex.instr.op # "mret"
      BY <1>3, <2>3 DEF redirect, ex_go
    <3>2. Guess(idex) = IF ex_taken THEN ex_target ELSE Seq(idex.pc)
      BY <3>1 DEF mispred, Guess, ex_taken, Taken, Ctrl
    <3> QED
      BY <2>1, <2>3, <3>1, <3>2 DEF PInv, OnPath
  <2> QED
    BY <2>2, <2>3
<1> QED
  BY Zenon, <1>1, <1>2, <1>3

\* Registers, memory and reservation, seen by the program, when instruction
\* i leaves EX with operands a and b.
LEMMA Effect ==
    ASSUME PInv, NEW in \in AnyInput, Edge(in), ex_keep(in)
    PROVE  LET i == idex.instr  w == Addr(opA)  ok == i.op = "sc" /\ aResv = w
           IN  /\ aRegs' = CASE i.op \in {"load", "lr", "amo"} -> WriteReg(aRegs, i.rd, aMem[w])
                            [] i.op = "sc" -> WriteReg(aRegs, i.rd, IF ok THEN 0 ELSE 1)
                            [] i.op \in {"alu", "jal", "jalr", "csr"} ->
                                 WriteReg(aRegs, i.rd, ex_result)
                            [] OTHER -> aRegs
               /\ aMem' = CASE i.op = "store" \/ ok -> [aMem EXCEPT ![w] = opB]
                           [] i.op = "amo" -> [aMem EXCEPT ![w] = AmoNew(@, opB)]
                           [] OTHER -> aMem
               /\ aResv' = CASE i.op = "lr" -> w
                            [] i.op \in {"sc", "amo"} -> NWords
                            [] OTHER -> aResv
<1> DEFINE i == idex.instr  w == Addr(opA)  ok == i.op = "sc" /\ aResv = w
<1>1. ~freeze(in) /\ ~take_trap(in)
  BY Going
<1>2. exmem' = [valid |-> TRUE, op |-> i.op, rd |-> i.rd, wr |-> RegWrite(i),
                result |-> ex_result, addr |-> w, store |-> opB]
  BY <1>1, EntersMem
<1>3. w \in Words /\ NWords \notin Words
  BY Wires, Arithmetic DEF PInv
<1>4. aResv = IF resv'.valid THEN resv'.addr ELSE NWords
  BY <1>1, Drained
<1>5. sc_ok' <=> ok
  BY <1>2, <1>3, <1>4 DEF sc_ok
<1>6. dmem' = aMem
  BY <1>1, Drained
<1> HIDE DEF w
<1>7. aMem' = CASE i.op = "store" \/ ok -> [aMem EXCEPT ![w] = opB]
                [] i.op = "amo" -> [aMem EXCEPT ![w] = AmoNew(@, opB)]
                [] OTHER -> aMem
  BY <1>2, <1>5, <1>6 DEF aMem, m_store
<1>8. aResv' = CASE i.op = "lr" -> w
                 [] i.op \in {"sc", "amo"} -> NWords
                 [] OTHER -> aResv
  BY <1>2, <1>4 DEF aResv
<1>9. aRegs' = CASE i.op \in {"load", "lr", "amo"} -> WriteReg(aRegs, i.rd, aMem[w])
                 [] i.op = "sc" -> WriteReg(aRegs, i.rd, IF ok THEN 0 ELSE 1)
                 [] i.op \in {"alu", "jal", "jalr", "csr"} -> WriteReg(aRegs, i.rd, ex_result)
                 [] OTHER -> aRegs
  <2>1. aRegs = IF memwb'.wr THEN WriteReg(regs', memwb'.rd, memwb'.data) ELSE regs'
    BY <1>1, Drained DEF aRegs
  <2>2. aRegs' = IF RegWrite(i) THEN WriteReg(aRegs, i.rd, aValue') ELSE aRegs
    BY Zenon, <1>2, <2>1 DEF aRegs
  <2>3. aValue' = CASE i.op \in {"load", "lr", "amo"} -> aMem[w]
                    [] i.op = "sc" -> IF ok THEN 0 ELSE 1
                    [] OTHER -> ex_result
    BY <1>2, <1>5, <1>6 DEF aValue, mem_value, m_load
  <2> QED
    BY <2>2, <2>3 DEF RegWrite
<1> QED
  BY <1>7, <1>8, <1>9 DEF w

\* The abstract machine decodes and computes as EX does.
LEMMA SameIsa ==
    /\ Program!NoResv = NWords
    /\ \A i, a, b : Program!Exception(i, a, b) = Exception(i, a, b)
    /\ \A i, a, b : Program!Taken(i, a, b) <=> Taken(i, a, b)
    /\ \A i, a : Program!Target(i, a) = Target(i, a)
    /\ \A i : Program!IrqOk(i) <=> IrqOk(i)
    /\ \A p : Program!Seq(p) = Seq(p) /\ Program!Link(p) = Link(p)
    /\ \A a, b : Program!Alu(a, b) = Alu(a, b) /\ Program!AmoNew(a, b) = AmoNew(a, b)
    /\ \A a : Program!Addr(a) = Addr(a)
    /\ \A r, d, v : Program!WriteReg(r, d, v) = WriteReg(r, d, v)
    /\ \A c, p, k : Program!TrapCsr(c, p, k) = TrapCsr(c, p, k)
    /\ \A c, i, a : Program!WriteCsr(c, i, a) = WriteCsr(c, i, a)
<1>1. \A i, a, b : Program!Taken(i, a, b) <=> Taken(i, a, b)
  BY Zenon DEF Program!Taken, Taken
<1>2. \A i, a, b : Program!Exception(i, a, b) = Exception(i, a, b)
  BY Zenon DEF Program!Exception, Exception, Program!Taken, Taken, Program!Target, Target,
     Program!Pcs, Pcs, Program!MemAny, MemAny, Program!MemRead, MemRead
<1>3. \A p : Program!Seq(p) = Seq(p) /\ Program!Link(p) = Link(p)
  BY Zenon DEF Program!Seq, Seq, Program!Link, Link
<1>4. \A c, i, a : Program!WriteCsr(c, i, a) = WriteCsr(c, i, a)
  BY Zenon DEF Program!WriteCsr, WriteCsr, Program!MretCsr, MretCsr
<1> QED
  BY Zenon, <1>1, <1>2, <1>3, <1>4 DEF Program!NoResv, Program!Target, Target, Program!IrqOk, IrqOk, Program!Alu, Alu,
     Program!AmoNew, AmoNew, Program!Addr, Addr, Program!WriteReg, WriteReg,
     Program!TrapCsr, TrapCsr

\* What the abstract machine finds at its pc is what EX holds.
LEMMA SeesInstr ==
    ASSUME PInv, idex.valid
    PROVE  /\ aPc = idex.pc
           /\ Program!Cause = ex_cause
           /\ ~idex.ifault => prog[aPc] = idex.instr
           /\ idex.ifault => ex_cause = "ifault"
<1>1. aPc = idex.pc
  BY DEF aPc
<1>2. idex.ifault <=> aPc \in NoExec
  BY Zenon, <1>1 DEF PInv, Fetched
<1>3. ~idex.ifault => prog[aPc] = idex.instr
  BY <1>1, <1>2 DEF PInv, Fetched
<1>4. Program!Cause = ex_cause
  BY Zenon, <1>2, <1>3, SeesRegs, SameIsa DEF Program!Cause, ex_cause
<1> QED
  BY <1>1, <1>3, <1>4 DEF ex_cause

\* An instruction that leaves EX is one step of the abstract machine.
LEMMA ExIsExecute ==
    ASSUME PInv, NEW in \in AnyInput, Edge(in), ex_keep(in)
    PROVE  Program!Execute
<1>1. /\ ex_go(in) /\ ~take_trap(in) /\ idex.valid
  BY Going
<1>2. Program!Cause = "none" /\ aPc = idex.pc /\ prog[aPc] = idex.instr
  BY <1>1, SeesInstr DEF take_trap, exception
<1>3. opA = aRegs[idex.instr.rs1] /\ opB = aRegs[idex.instr.rs2]
  BY <1>1, SeesRegs
<1>4. aPc' = IF idex.instr.op = "mret" THEN csr.mepc
             ELSE IF Taken(idex.instr, opA, opB) THEN Target(idex.instr, opA) ELSE Seq(aPc)
  BY <1>1, <1>2, NextPc DEF ex_taken, ex_target
<1>5. csr' = WriteCsr(csr, idex.instr, opA) /\ prog' = prog
  BY <1>1 DEF Edge, ExEdge
<1> DEFINE i == idex.instr  w == Addr(opA)  ok == i.op = "sc" /\ aResv = w
<1>6. aRegs' = CASE i.op = "alu"  -> WriteReg(aRegs, i.rd, Alu(opA, opB))
                 [] i.op \in {"load", "lr", "amo"} -> WriteReg(aRegs, i.rd, aMem[w])
                 [] i.op = "sc"   -> WriteReg(aRegs, i.rd, IF ok THEN 0 ELSE 1)
                 [] i.op \in {"jal", "jalr"} -> WriteReg(aRegs, i.rd, Link(aPc))
                 [] i.op = "csr"  -> WriteReg(aRegs, i.rd, csr.scratch)
                 [] OTHER -> aRegs
  BY <1>2, Effect DEF ex_result
<1> HIDE DEF i, w, ok
<1>7. aMem' = CASE i.op = "store" \/ ok -> [aMem EXCEPT ![w] = opB]
                [] i.op = "amo" -> [aMem EXCEPT ![w] = AmoNew(@, opB)]
                [] OTHER -> aMem
  BY Effect DEF i, w, ok
<1>8. aResv' = CASE i.op = "lr" -> w
                 [] i.op \in {"sc", "amo"} -> NWords
                 [] OTHER -> aResv
  BY Effect DEF i, w
<1> QED
  BY Zenon, <1>2, <1>3, <1>4, <1>5, <1>6, <1>7, <1>8, SameIsa DEF Program!Execute, i, w, ok

\* A trap taken in EX is the precise trap of the abstract machine.
LEMMA ExIsTrap ==
    ASSUME PInv, NEW in \in AnyInput, Edge(in), take_trap(in)
    PROVE  Program!TakeException \/ Program!TakeInterrupt
<1>1. ex_go(in) /\ idex.valid /\ ~ex_keep(in)
  BY Going
<1>2. Program!Cause = ex_cause /\ aPc = idex.pc /\ (~exception => prog[aPc] = idex.instr)
  BY <1>1, SeesInstr DEF exception
<1>3. csr' = TrapCsr(csr, aPc, IF exception THEN ex_cause ELSE "irq") /\ prog' = prog
  BY Zenon, <1>2 DEF Edge, ExEdge
<1>4. aPc' = TVec /\ aResv' = NWords /\ aRegs' = aRegs /\ aMem' = aMem
  BY Zenon, <1>1, NextPc, Unseen
<1>5. CASE exception
  BY Zenon, <1>2, <1>3, <1>4, <1>5, SameIsa DEF exception, Program!TakeException, Program!Trap
<1>6. CASE ~exception
  BY Zenon, <1>2, <1>3, <1>4, <1>6, SameIsa
  DEF exception, take_trap, irq_take, Program!TakeInterrupt, Program!Trap
<1> QED
  BY <1>5, <1>6

(***************************************************************************)
(* The pipeline of cpu_pipe_u.v runs every program one instruction at a    *)
(* time, with precise traps: it implements Isa, for every program and for  *)
(* every behaviour of the ports, the predictor, interrupts and halt.       *)
(***************************************************************************)
THEOREM PipeImplementsIsa == Spec => PipeIsIsa
<1>1. Init => Program!Init
  <2> SUFFICES ASSUME Init PROVE Program!Init
    OBVIOUS
  <2>1. ~ifid.valid /\ ~idex.valid /\ ~memwb.wr /\ ~exmem.wr /\ exmem.op = "nop" /\ ~resv.valid
    BY Zenon DEF Init, IfBubble, IdBubble, MemBubble, WbBubble
  <2>2. aPc = pc /\ aRegs = regs /\ aMem = dmem /\ aResv = NWords
    BY <2>1 DEF aPc, aRegs, aMem, aResv, m_store, sc_ok
  <2> QED
    BY Zenon, <2>2, SameIsa DEF Init, Program!Init, Program!Regs, Regs, Program!Words, Words
<1>2. PInv /\ [Next]_vars => [Program!Next]_(Program!vars)
  <2> SUFFICES ASSUME PInv, [Next]_vars PROVE [Program!Next]_(Program!vars)
    OBVIOUS
  <2>1. CASE UNCHANGED vars
    BY <2>1 DEF vars, Program!vars, aPc, aRegs, aMem, aResv, aValue, mem_value, m_store, m_load, sc_ok
  <2>2. CASE Next
    <3>1. PICK in \in AnyInput : Edge(in)
      BY <2>2, InputsAssumption DEF Next
    <3>2. CASE ex_keep(in)
      BY <3>1, <3>2, ExIsExecute DEF Program!Next
    <3>3. CASE take_trap(in)
      BY <3>1, <3>3, ExIsTrap DEF Program!Next
    <3>4. CASE ~ex_keep(in) /\ ~take_trap(in)
      <4>1. ~ex_go(in)
        BY <3>4 DEF ex_keep
      <4>2. aPc' = aPc /\ aRegs' = aRegs /\ aMem' = aMem /\ aResv' = aResv
        BY <3>1, <3>4, <4>1, NextPc, Unseen
      <4>3. csr' = csr /\ prog' = prog
        BY <3>1, <3>4, <4>1 DEF Edge, ExEdge
      <4> QED
        BY <4>2, <4>3 DEF Program!vars
    <3> QED
      BY <3>2, <3>3, <3>4
  <2> QED
    BY <2>1, <2>2
<1> QED
  BY <1>1, <1>2, PipeInvariantHolds, PTL DEF Spec, PipeIsIsa, Program!Spec
-----------------------------------------------------------------------------
(***************************************************************************)
(* The event counters.  Behind an instruction in EX the only bubble is one *)
(* the I-port made, so a redirect finds no flush cycle still owed.         *)
(***************************************************************************)
CountInv ==
    /\ CyclesAccounted
    /\ idex.valid /\ ~ifid.valid => ifid_why = "fetch"
    /\ started /\ ~ifid.valid => ifid_why # "other"

LEMMA CountRunsPipe == CountSpec => Spec
<1>1. CountInit => Init
  BY DEF CountInit
<1>2. [CountNext]_pcVars => [Next]_vars
  BY Zenon DEF CountNext, CountEdge, Next, pcVars
<1> QED
  BY <1>1, <1>2, PTL DEF CountSpec, Spec

LEMMA StepCount ==
    ASSUME PInv, CountInv, NEW in \in AnyInput, CountEdge(in)
    PROVE  CountInv'
<1>t. PipeTypes
  BY DEF PInv
<1>e. Edge(in) /\ WhyEdge(in) /\ History(in)
  BY DEF CountEdge
<1>f. ev(in).flush <=> ~freeze(in) /\ ~ex_hold(in) /\ ~idex.valid /\ idex_why = "flush"
  BY Zenon DEF ev, bubble
<1>h. /\ started' <=> started \/ ex_go(in)
      /\ owed' = IF redirect(in) THEN owed + 2 ELSE IF ev(in).flush THEN owed - 1 ELSE owed
  BY Zenon, <1>e DEF History
<1>1. CASE redirect(in)
  <2>1. ~ifid'.valid /\ ~idex'.valid /\ ifid_why' = "flush" /\ idex_why' = "flush"
    BY <1>1, <1>e, FrontEdge, Going DEF Flushed, IfBubble, IdBubble, WhyEdge
  <2>2. idex.valid
    BY <1>1, Going
  <2> QED
    BY <1>1, <1>h, <2>1, <2>2 DEF CountInv, CyclesAccounted
<1>2. CASE ~redirect(in) /\ (freeze(in) \/ ex_hold(in))
  <2>1. ifid' = ifid /\ idex'.valid = idex.valid
    BY <1>2, <1>e, <1>t, FrontEdge, WaitingKeeps DEF Waiting
  <2>2. ifid_why' = ifid_why /\ idex_why' = idex_why
    BY <1>2, <1>e DEF WhyEdge, front_hold
  <2>3. owed' = owed /\ (started' <=> started)
    BY <1>2, <1>f, <1>h, Going
  <2> QED
    BY <2>1, <2>2, <2>3 DEF CountInv, CyclesAccounted
<1>3. CASE ~redirect(in) /\ ~freeze(in) /\ ~ex_hold(in) /\ load_use
  <2>1. Stalled /\ idex.valid
    BY Zenon, <1>3, <1>e, FrontEdge DEF load_use
  <2>2. ifid_why' = ifid_why /\ idex_why' = "load_use"
    BY <1>3, <1>e DEF WhyEdge, front_hold
  <2> QED
    BY <1>3, <1>f, <1>h, <2>1, <2>2 DEF CountInv, CyclesAccounted, Stalled, IdBubble
<1>4. CASE ~redirect(in) /\ ~freeze(in) /\ ~ex_hold(in) /\ ~load_use
  <2>1. Moved(in)
    BY <1>4, <1>e, FrontEdge
  <2>2. idex_why' = ifid_why /\ (~in.ifok => ifid_why' = "fetch")
    BY <1>4, <1>e DEF WhyEdge, front_hold
  <2>3. idex'.valid = ifid.valid
    BY Zenon, <2>1 DEF Moved
  <2>4. in.ifok => ifid'.valid
    <3>1. in.ifok => ifid' = [valid |-> TRUE, pc |-> pc,
                              instr |-> IF pc \in NoExec THEN Nop ELSE prog[pc],
                              ifault |-> pc \in NoExec, pred |-> in.pred]
      BY Zenon, <2>1 DEF Moved
    <3>2. in.ifok => ifid'.valid = TRUE
      BY <3>1
    <3> QED
      BY Zenon, <3>2
  <2>5. ~ifid'.valid => ifid_why' = "fetch"
    BY Zenon, <2>2, <2>4
  <2>6. started' /\ ~started => idex.valid
    BY Zenon, <1>h, Going
  <2>7. CyclesAccounted'
    <3>1. owed' = IF ~idex.valid /\ idex_why = "flush" THEN owed - 1 ELSE owed
      BY Zenon, <1>4, <1>f, <1>h
    <3>2. owed = (IF ~idex.valid /\ idex_why = "flush" THEN 1 ELSE 0)
               + (IF ~ifid.valid /\ ifid_why = "flush" THEN 1 ELSE 0)
      BY DEF CountInv, CyclesAccounted
    <3>3. owed' = IF ~ifid.valid /\ ifid_why = "flush" THEN 1 ELSE 0
      BY <3>1, <3>2
    <3>4. ~(~ifid'.valid /\ ifid_why' = "flush")
      BY <2>5
    <3>5. started' /\ ~idex'.valid => idex_why' # "other"
      BY <2>2, <2>3, <2>6 DEF CountInv
    <3> QED
      BY <2>2, <2>3, <3>3, <3>4, <3>5 DEF CyclesAccounted
  <2> QED
    BY <2>5, <2>7 DEF CountInv
<1> QED
  BY <1>1, <1>2, <1>3, <1>4

(***************************************************************************)
(* "Each one costs 2 flush cycles" (the comment on hpm7 in cpu_pipe_u.v),  *)
(* and every idle cycle of EX after the reset fill has a cause, for every  *)
(* program and every order of stalls, redirects and fetch misses.          *)
(***************************************************************************)
THEOREM CyclesAreAccounted == CountSpec => []CyclesAccounted
<1>1. CountInit => CountInv
  <2>1. CountInit => /\ ifid = IfBubble /\ idex = IdBubble
                     /\ ifid_why = "other" /\ idex_why = "other" /\ started = FALSE /\ owed = 0
    BY Zenon DEF CountInit, Init
  <2>2. IfBubble.valid = FALSE /\ IdBubble.valid = FALSE
    BY Zenon DEF IfBubble, IdBubble
  <2> QED
    BY <2>1, <2>2 DEF CountInv, CyclesAccounted
<1>2. PInv /\ CountInv /\ [CountNext]_pcVars => CountInv'
  <2>1. ASSUME PInv, CountInv, CountNext PROVE CountInv'
    BY <2>1, StepCount, InputsAssumption DEF CountNext
  <2>2. ASSUME CountInv, UNCHANGED pcVars PROVE CountInv'
    BY <2>2 DEF pcVars, vars, cntVars, CountInv, CyclesAccounted
  <2> QED
    BY <2>1, <2>2
<1>3. CountInv => CyclesAccounted
  BY DEF CountInv
<1> QED
  BY <1>1, <1>2, <1>3, CountRunsPipe, PipeInvariantHolds, PTL DEF CountSpec
=============================================================================
