-------------------------------- MODULE Pipe --------------------------------
(***************************************************************************)
(* rtl/cpu_pipe_u.v: the five-stage pipeline, one clock edge a step.  The  *)
(* pipeline registers are records; the wires of the source are operators   *)
(* of the same name.  Everything outside the pipe is an input of the edge  *)
(* and may be anything: the I-port and the D-port answer when they like,   *)
(* the branch predictor guesses what it likes, a data-side page walk or a  *)
(* FENCE.I holds EX as long as it likes, interrupts and halt come and go.  *)
(***************************************************************************)
EXTENDS InstrSet

NoPc == NPcs                    \* a prediction of "not taken"
AnyInput == [ifok : BOOLEAN, dready : BOOLEAN, irq : BOOLEAN, halt : BOOLEAN,
             xwait : BOOLEAN, pred : Pcs \cup {NoPc}]

CONSTANT Inputs                 \* what may happen at an edge
ASSUME InputsAssumption == Inputs \subseteq AnyInput

VARIABLES
    prog,           \* the program, in an instruction memory of its own
    regs, dmem,     \* register file; data memory behind the D-port
    pc,             \* IF
    ifid,           \* IF/ID: valid, pc, instr, ifault, pred
    idex,           \* ID/EX: the same and the operands rs1d, rs2d
    exmem,          \* EX/MEM: valid, op, rd, wr, result, addr, store
    memwb,          \* MEM/WB: valid, rd, wr, data
    resv,           \* LR/SC reservation: valid, addr
    amo_ph, amo_old,
    csr

vars == <<prog, regs, dmem, pc, ifid, idex, exmem, memwb, resv, amo_ph, amo_old,
          csr>>

IfBubble  == [valid |-> FALSE, pc |-> 0, instr |-> Nop, ifault |-> FALSE, pred |-> NoPc]
IdBubble  == [valid |-> FALSE, pc |-> 0, instr |-> Nop, ifault |-> FALSE, pred |-> NoPc,
              rs1d |-> 0, rs2d |-> 0]
MemBubble == [valid |-> FALSE, op |-> "nop", rd |-> 0, wr |-> FALSE, result |-> 0,
              addr |-> 0, store |-> 0]
WbBubble  == [valid |-> FALSE, rd |-> 0, wr |-> FALSE, data |-> 0]

Init ==
    /\ prog \in Progs
    /\ regs = [r \in Regs |-> 0] /\ dmem = [w \in Words |-> 0]
    /\ pc = 0
    /\ ifid = IfBubble /\ idex = IdBubble /\ exmem = MemBubble /\ memwb = WbBubble
    /\ resv = [valid |-> FALSE, addr |-> 0]
    /\ amo_ph = FALSE /\ amo_old = 0
    /\ csr = [mie |-> FALSE, mpie |-> FALSE, mepc |-> 0, mcause |-> "none", scratch |-> 0]
-----------------------------------------------------------------------------
(***************************************************************************)
(* MEM: one D-port request, two for an AMO (read, then write).             *)
(***************************************************************************)
sc_ok   == exmem.op = "sc" /\ resv.valid /\ resv.addr = exmem.addr
m_load  == exmem.op \in {"load", "lr"}
m_store == exmem.op = "store" \/ sc_ok
m_port  == m_load \/ m_store \/ exmem.op = "amo"
m_write == m_store \/ (exmem.op = "amo" /\ amo_ph)
m_last  == exmem.op # "amo" \/ amo_ph
\* Mutant of m_done: the I-port has priority at a shared memory.
m_doneFetchFirst(in) == m_port /\ ~in.halt /\ in.dready /\ ~in.ifok
m_done(in) == m_port /\ ~in.halt /\ in.dready
freeze(in) == in.halt \/ (m_port /\ ~(m_done(in) /\ m_last))

mem_value == CASE exmem.op = "sc"  -> IF sc_ok THEN 0 ELSE 1
               [] exmem.op = "amo" -> amo_old
               [] m_load           -> dmem[exmem.addr]
               [] OTHER            -> exmem.result

(***************************************************************************)
(* EX: the operands come from the forwarding network.                      *)
(***************************************************************************)
Forward(r, d) == IF exmem.wr /\ exmem.rd # 0 /\ exmem.rd = r THEN exmem.result
                 ELSE IF memwb.wr /\ memwb.rd # 0 /\ memwb.rd = r THEN memwb.data
                 ELSE d
opA == Forward(idex.instr.rs1, idex.rs1d)
opB == Forward(idex.instr.rs2, idex.rs2d)

ex_cause  == IF idex.ifault THEN "ifault" ELSE Exception(idex.instr, opA, opB)
exception == ex_cause # "none"
ex_hold(in) == /\ idex.valid /\ in.xwait
               /\ \/ MemAny(idex.instr) /\ opA \notin Misaligned
                  \/ idex.instr.op = "fencei"
ex_go(in)   == idex.valid /\ ~freeze(in) /\ ~ex_hold(in)
irq_take(in) == in.irq /\ csr.mie /\ ~exception /\ IrqOk(idex.instr)
take_trap(in) == ex_go(in) /\ (exception \/ irq_take(in))
ex_keep(in)   == ex_go(in) /\ ~take_trap(in)

ex_taken  == Taken(idex.instr, opA, opB)
ex_target == Target(idex.instr, opA)
\* Mutant of mispred: the target of a taken guess is not checked.
mispredDirection ==
    IF Ctrl(idex.instr) THEN ex_taken # (idex.pred # NoPc) ELSE idex.pred # NoPc
mispred   == IF Ctrl(idex.instr)
             THEN \/ ex_taken # (idex.pred # NoPc)
                  \/ ex_taken /\ ex_target # idex.pred
             ELSE idex.pred # NoPc
redirect(in) == \/ take_trap(in)
                \/ ex_go(in) /\ (mispred \/ idex.instr.op \in {"mret", "fencei"})
redirect_pc(in) == IF take_trap(in) THEN TVec
                   ELSE IF idex.instr.op = "mret" THEN csr.mepc
                   ELSE IF ex_taken THEN ex_target ELSE Seq(idex.pc)

ex_result == CASE idex.instr.op = "csr" -> csr.scratch
               [] idex.instr.op \in {"jal", "jalr"} -> Link(idex.pc)
               [] OTHER -> Alu(opA, opB)

load_use == /\ idex.valid /\ MemRead(idex.instr) /\ idex.instr.rd # 0
            /\ idex.instr.rd \in {ifid.instr.rs1, ifid.instr.rs2}
-----------------------------------------------------------------------------
(***************************************************************************)
(* The clock edge, stage by stage.                                         *)
(***************************************************************************)
front_hold(in) == ex_hold(in) \/ load_use

IfEdge(in) ==
    /\ pc' = IF redirect(in) THEN redirect_pc(in)
             ELSE IF freeze(in) \/ front_hold(in) \/ ~in.ifok THEN pc
             ELSE IF in.pred # NoPc THEN in.pred ELSE Seq(pc)
    /\ ifid' = IF redirect(in) THEN IfBubble
               ELSE IF freeze(in) \/ front_hold(in) THEN ifid
               ELSE IF ~in.ifok THEN IfBubble
               ELSE [valid |-> TRUE, pc |-> pc,
                     instr |-> IF pc \in NoExec THEN Nop ELSE prog[pc],
                     ifault |-> pc \in NoExec, pred |-> in.pred]

\* Register read with the WB -> ID bypass.
RegRead(r) == IF memwb.wr /\ memwb.rd # 0 /\ memwb.rd = r THEN memwb.data ELSE regs[r]

\* Mutant of IdEdge: operands are not kept current while EX waits.
IdEdgeNoRelatch(in) ==
    idex' = IF freeze(in) \/ ex_hold(in) THEN idex
            ELSE IF redirect(in) \/ load_use THEN IdBubble
            ELSE [valid |-> ifid.valid, pc |-> ifid.pc, instr |-> ifid.instr,
                  ifault |-> ifid.ifault, pred |-> ifid.pred,
                  rs1d |-> RegRead(ifid.instr.rs1), rs2d |-> RegRead(ifid.instr.rs2)]

IdEdge(in) ==
    idex' = IF freeze(in) \/ ex_hold(in)
            THEN [idex EXCEPT !.rs1d = opA, !.rs2d = opB]
            ELSE IF redirect(in) \/ load_use THEN IdBubble
            ELSE [valid |-> ifid.valid, pc |-> ifid.pc, instr |-> ifid.instr,
                  ifault |-> ifid.ifault, pred |-> ifid.pred,
                  rs1d |-> RegRead(ifid.instr.rs1), rs2d |-> RegRead(ifid.instr.rs2)]

ExEdge(in) ==
    /\ exmem' = IF freeze(in) THEN exmem
                ELSE IF ~ex_keep(in) THEN MemBubble
                ELSE [valid |-> TRUE, op |-> idex.instr.op, rd |-> idex.instr.rd,
                      wr |-> RegWrite(idex.instr), result |-> ex_result,
                      addr |-> Addr(opA), store |-> opB]
    /\ csr' = IF take_trap(in)
              THEN TrapCsr(csr, idex.pc, IF exception THEN ex_cause ELSE "irq")
              ELSE IF ex_go(in) THEN WriteCsr(csr, idex.instr, opA) ELSE csr

PortEdge(in) ==
    /\ dmem' = IF m_done(in) /\ m_write
               THEN [dmem EXCEPT ![exmem.addr] =
                       IF exmem.op = "amo" THEN AmoNew(amo_old, exmem.store)
                                           ELSE exmem.store]
               ELSE dmem
    /\ IF exmem.op = "amo" /\ m_done(in)
       THEN /\ amo_ph' = ~amo_ph
            /\ amo_old' = IF amo_ph THEN amo_old ELSE dmem[exmem.addr]
       ELSE UNCHANGED <<amo_ph, amo_old>>

\* Mutant of ResvEdge: an older LR in MEM wins over the trap in EX.
ResvEdgeLrFirst(in) ==
    resv' = IF exmem.op = "lr" /\ m_done(in)
               THEN [valid |-> TRUE, addr |-> exmem.addr]
               ELSE IF take_trap(in) \/ (exmem.op \in {"sc", "amo"} /\ ~freeze(in))
               THEN [resv EXCEPT !.valid = FALSE]
               ELSE resv

\* The reservation: a younger trap (EX) wins over an older LR (MEM).
ResvEdge(in) ==
    resv' = IF take_trap(in) THEN [resv EXCEPT !.valid = FALSE]
               ELSE IF exmem.op = "lr" /\ m_done(in)
               THEN [valid |-> TRUE, addr |-> exmem.addr]
               ELSE IF exmem.op \in {"sc", "amo"} /\ ~freeze(in)
               THEN [resv EXCEPT !.valid = FALSE]
               ELSE resv

WbEdge(in) ==
    /\ memwb' = IF freeze(in) THEN WbBubble
                ELSE [valid |-> exmem.valid, rd |-> exmem.rd, wr |-> exmem.wr,
                      data |-> mem_value]
    /\ regs' = IF memwb.wr THEN WriteReg(regs, memwb.rd, memwb.data) ELSE regs

Edge(in) ==
    /\ IfEdge(in) /\ IdEdge(in) /\ ExEdge(in)
    /\ PortEdge(in) /\ ResvEdge(in) /\ WbEdge(in)
    /\ UNCHANGED prog

Next == \E in \in Inputs : Edge(in)

Spec == Init /\ [][Next]_vars
-----------------------------------------------------------------------------
(***************************************************************************)
(* The refinement mapping.  An instruction takes effect when it leaves EX: *)
(* what MEM and WB still owe is added to the register file and to memory,  *)
(* and the oldest instruction not yet past EX is the program's next one.   *)
(***************************************************************************)
aValue == IF exmem.op = "amo" THEN dmem[exmem.addr] ELSE mem_value
aRegs  == LET r == IF memwb.wr THEN WriteReg(regs, memwb.rd, memwb.data) ELSE regs
          IN  IF exmem.wr THEN WriteReg(r, exmem.rd, aValue) ELSE r
aMem   == IF m_store THEN [dmem EXCEPT ![exmem.addr] = exmem.store]
          ELSE IF exmem.op = "amo"
          THEN [dmem EXCEPT ![exmem.addr] = AmoNew(@, exmem.store)]
          ELSE dmem
aResv  == IF exmem.op = "lr" THEN exmem.addr
          ELSE IF exmem.op \in {"sc", "amo"} \/ ~resv.valid THEN NWords
          ELSE resv.addr
aPc    == IF idex.valid THEN idex.pc ELSE IF ifid.valid THEN ifid.pc ELSE pc

Program == INSTANCE Isa WITH pc <- aPc, regs <- aRegs, mem <- aMem, resv <- aResv

(***************************************************************************)
(* Every step of the pipeline is one instruction of the program, one       *)
(* precise trap, or invisible: forwarding, load-use stalls, flushes, the   *)
(* frozen pipe and the two-request AMO never let an instruction see an old *)
(* value, execute twice, be lost, or take effect on a wrong path.          *)
(***************************************************************************)
PipeIsIsa == Program!Spec
=============================================================================
