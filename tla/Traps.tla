------------------------------- MODULE Traps --------------------------------
(***************************************************************************)
(* A hart (module CsrS) under arbitrary software and arbitrary interrupt   *)
(* lines: at every step any instruction of Instrs leaves EX, at any pc,    *)
(* with any of the lines of Lines raised.                                  *)
(*                                                                         *)
(* retM and retS are history: the privilege, the interrupt enable and the  *)
(* pc that the last trap to the level interrupted, until that level        *)
(* returns or software writes a register that holds them.                  *)
(***************************************************************************)
EXTENDS CsrS

CONSTANTS Instrs, Lines, Pcs

(* A CSR instruction names a register this module has and one of the three *)
(* kinds of write.                                                         *)
ASSUME InstrsAssumption == \A i \in Instrs : i.op = "csr" => i.w.a \in CsrNames /\ i.w.f3 \in {"w", "s", "c"}

(* Software delegates the supervisor's interrupts and no others, as every  *)
(* write of mideleg in the repository does: SSI, STI and SEI               *)
(* (rom_main.c:312), SSI (smode_demo.c:55) or none (rom_start.S:26,        *)
(* riscv_test.h:142).                                                      *)
ASSUME DelegAssumption == \A i \in Instrs : i.op = "csr" /\ i.w.a = "mideleg" => i.w.v \subseteq S_INT_MASK

VARIABLES csr, retM, retS

vars == <<csr, retM, retS>>

NoFrame == [valid |-> FALSE]
Frame(c, ie, pc) == [valid |-> TRUE, priv |-> c.priv, ie |-> ie \in c.mstatus, pc |-> pc]

Init == \E pc \in Pcs : csr = CsrInit(pc) /\ retM = NoFrame /\ retS = NoFrame

Writes(i, regs) == i.op = "csr" /\ i.w.a \in regs

Step(i, lines, pc) ==
  LET trap == take_trap(csr, lines, i)
      toS == trap /\ deleg(csr, trap_cause(csr, lines, i))
      toM == trap /\ ~toS
  IN /\ csr' = CsrEdge(csr, lines, i, pc)
     /\ retM' = IF toM THEN Frame(csr, 3, pc)
                ELSE IF ~trap /\ (i.op = "mret" \/ Writes(i, {"mstatus", "mepc"})) THEN NoFrame ELSE retM
     /\ retS' = IF toS THEN Frame(csr, 1, pc)
                ELSE IF ~trap /\ (i.op = "sret" \/ Writes(i, {"mstatus", "sstatus", "sepc"})) THEN NoFrame ELSE retS

Next == \E i \in Instrs, lines \in SUBSET Lines, pc \in Pcs : Step(i, lines, pc)

Spec == Init /\ [][Next]_vars

-----------------------------------------------------------------------------
Modes == {PRIV_M} \cup (IF HAS_S THEN {PRIV_S} ELSE {}) \cup (IF HAS_U THEN {PRIV_U} ELSE {})

(* What the last trap to M saved is still there for its mret, whatever     *)
(* traps to S, sret and writes of sstatus, sie and sip came between: MPP,  *)
(* MPIE and mepc are those of the interrupted program.  The same for the   *)
(* last trap to S, across traps to M, their mret, and whatever M does      *)
(* short of writing mstatus or sepc.  Both name a mode this hart has.      *)
FrameIntact ==
  /\ retM.valid => /\ MPP(csr.mstatus) = retM.priv
                   /\ (7 \in csr.mstatus) = retM.ie
                   /\ csr.mepc = retM.pc
  /\ retS.valid => /\ (IF 8 \in csr.mstatus THEN PRIV_S ELSE LEAST) = retS.priv
                   /\ (5 \in csr.mstatus) = retS.ie
                   /\ csr.sepc = retS.pc
  /\ csr.priv \in Modes /\ MPP(csr.mstatus) \in Modes

(* Where an interrupt belongs: only the supervisor's three are delegated.  *)
Target(i) == IF i \in S_INT_MASK /\ i \in csr.mideleg THEN PRIV_S ELSE PRIV_M
IE(p) == (IF p = PRIV_M THEN 3 ELSE 1) \in csr.mstatus
MayInterrupt(i) == Target(i) > csr.priv \/ (Target(i) = csr.priv /\ IE(Target(i)))

(* Interrupts are taken exactly as csr_s.v:105-108 and docs/39:86 say, for *)
(* every setting of the lines: one is taken if and only if some enabled,   *)
(* pending interrupt targets a higher level, or the current one with its   *)
(* enable bit set; and the trap goes to the level the interrupt targets.   *)
IrqAsSpecified ==
  \A lines \in SUBSET Lines :
    LET ready == {i \in csr.mie \cap mip(csr, lines) : MayInterrupt(i)}
        cause == irq_cause(csr, lines)
    IN /\ irq_pending(csr, lines) <=> ready # {}
       /\ irq_pending(csr, lines) =>
            /\ cause.n \in ready
            /\ Trap(csr, csr.mepc, cause).priv = Target(cause.n)
=============================================================================
