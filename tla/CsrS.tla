-------------------------------- MODULE CsrS --------------------------------
(***************************************************************************)
(* The trap controller rtl/csr_s.v: privilege, the mstatus stack bits,     *)
(* delegation, and the interrupt lines, as operators on one record c.      *)
(*                                                                         *)
(* A 32-bit register whose bits act one by one is the set of its bits that *)
(* are 1, under the numbers of the source (mstatus: SIE=1, MIE=3, SPIE=5,  *)
(* MPIE=7, SPP=8, MPP=12:11; mie/mip: SSI=1 .. MEI=11).  A register that   *)
(* is only stored and read back is a value: mepc and sepc here; the cause, *)
(* tvec, scratch and tval registers, satp (module Mmu), SUM, MXR and VS    *)
(* play no part in what this module decides and are left out.              *)
(***************************************************************************)
EXTENDS Naturals

CONSTANTS HAS_S, HAS_U      \* which of the lower privileges are built

(* A supervisor is built only on a core with user mode (Kconfig).          *)
ASSUME ModesAssumption == HAS_S \in BOOLEAN /\ HAS_U \in BOOLEAN /\ (HAS_S => HAS_U)

PRIV_M == 3
PRIV_S == 1
PRIV_U == 0
SSI == 1
MSI == 3
STI == 5
MTI == 7
SEI == 9
MEI == 11

SSTATUS_MASK == {1, 5, 8}
S_INT_MASK == {SSI, STI, SEI}
LEAST == IF HAS_U THEN PRIV_U ELSE PRIV_M

(* A trap cause: bit 31 and the low bits.                                  *)
Cause(is_int, n) == [is_int |-> is_int, n |-> n]

(* The two-bit field MPP of an mstatus value, and the bits of a level.     *)
MPP(ms) == (IF 11 \in ms THEN 1 ELSE 0) + (IF 12 \in ms THEN 2 ELSE 0)
MPPBits(p) == {b \in {11, 12} : p \div (IF b = 11 THEN 1 ELSE 2) % 2 = 1}
WithMPP(ms, p) == (ms \ {11, 12}) \cup MPPBits(p)
Bit(b, on) == IF on THEN {b} ELSE {}

CsrInit(pc0) ==
  [priv |-> PRIV_M, mstatus |-> MPPBits(LEAST), medeleg |-> {}, mideleg |-> {}, mie |-> {}, mip_sw |-> {},
   mepc |-> pc0, sepc |-> pc0]

(* What is pending: the software's bits and the hardware lines.            *)
mip(c, lines) == (c.mip_sw \cap S_INT_MASK) \cup (lines \cap {SEI, MTI, MEI})

glob_m(c) == c.priv < PRIV_M \/ 3 \in c.mstatus
glob_sDropsPriv(c) == c.priv < PRIV_S \/ 1 \in c.mstatus
glob_s(c) == c.priv < PRIV_S \/ (c.priv = PRIV_S /\ 1 \in c.mstatus)

(* The interrupts that may be taken now (f_mei .. f_sti).                  *)
f(c, lines) ==
  {i \in c.mie \cap mip(c, lines) :
     IF i \in S_INT_MASK /\ i \in c.mideleg THEN glob_s(c) ELSE glob_m(c)}

(* The one that is reported: standard priority MEI, MSI, MTI, SEI, SSI,    *)
(* STI.                                                                    *)
rank(i) == CASE i = MEI -> 1 [] i = MSI -> 2 [] i = MTI -> 3 [] i = SEI -> 4 [] i = SSI -> 5 [] i = STI -> 6
irq_pending(c, lines) == f(c, lines) # {}
irq_cause(c, lines) == Cause(TRUE, CHOOSE i \in f(c, lines) : \A j \in f(c, lines) : rank(i) <= rank(j))

deleg(c, cause) == HAS_S /\ c.priv # PRIV_M /\ cause.n \in (IF cause.is_int THEN c.mideleg ELSE c.medeleg)

(* The stack bits of one level (IE, PIE and the previous privilege) are    *)
(* pushed by a trap to it and popped by its return.                        *)
TrapToS(c, pc) ==
  [c EXCEPT !.sepc = pc, !.priv = PRIV_S,
            !.mstatus = (@ \ {1, 5, 8}) \cup Bit(5, 1 \in @) \cup Bit(8, c.priv = PRIV_S)]
TrapToMClearsSie(c, pc) ==
  [c EXCEPT !.mepc = pc, !.priv = PRIV_M,
            !.mstatus = WithMPP((@ \ {1, 3, 5, 7}) \cup Bit(7, 3 \in @) \cup Bit(5, 1 \in @), c.priv)]
TrapToM(c, pc) ==
  [c EXCEPT !.mepc = pc, !.priv = PRIV_M,
            !.mstatus = WithMPP((@ \ {3, 7}) \cup Bit(7, 3 \in @), c.priv)]
Trap(c, pc, cause) == IF deleg(c, cause) THEN TrapToS(c, pc) ELSE TrapToM(c, pc)

Mret(c) ==
  [c EXCEPT !.priv = MPP(c.mstatus), !.mstatus = WithMPP((@ \ {3, 7}) \cup Bit(3, 7 \in @) \cup {7}, LEAST)]
Sret(c) ==
  [c EXCEPT !.priv = IF 8 \in c.mstatus THEN PRIV_S ELSE LEAST,
            !.mstatus = (@ \ {1, 5, 8}) \cup Bit(1, 5 \in @) \cup {5}]

(* MPP is WARL: it only ever holds a privilege level this hart has.        *)
legal_mppAny(p) == p
legal_mpp(p) ==
  CASE p = PRIV_M -> PRIV_M
    [] p = PRIV_S /\ HAS_S -> PRIV_S
    [] p = PRIV_U /\ HAS_U -> PRIV_U
    [] OTHER -> LEAST

(* csrrw, csrrs and csrrc on a register that is a set of bits.             *)
nx(old, src, f3) == CASE f3 = "w" -> src [] f3 = "s" -> old \cup src [] f3 = "c" -> old \ src
MaskedNxAll(old, mask, src, f3) == nx(old, src, f3)
MaskedNx(old, mask, src, f3) == (old \ mask) \cup (nx(old \cap mask, src, f3) \cap mask)

(* The pending bits csrw mip reaches are the software's, never the lines:  *)
(* the mutant reads the live mip back instead.                             *)
NxMipLive(c, lines, src, f3) == nx(mip(c, lines), src, f3)
NxMip(c, lines, src, f3) == nx(c.mip_sw, src, f3)

(* One CSR write that commits.  w = [a |-> address, f3 |-> kind, v |->     *)
(* operand].                                                               *)
Write(c, lines, w) ==
  CASE w.a = "mstatus" -> LET n == nx(c.mstatus, w.v, w.f3)
                          IN [c EXCEPT !.mstatus = WithMPP(n, legal_mpp(MPP(n)))]
    [] w.a = "medeleg" -> [c EXCEPT !.medeleg = IF HAS_S THEN nx(@, w.v, w.f3) ELSE @]
    [] w.a = "mideleg" -> [c EXCEPT !.mideleg = IF HAS_S THEN nx(@, w.v, w.f3) ELSE @]
    [] w.a = "mie" -> [c EXCEPT !.mie = nx(@, w.v, w.f3)]
    [] w.a = "mip" -> [c EXCEPT !.mip_sw = NxMip(c, lines, w.v, w.f3)]
    [] w.a = "mepc" -> [c EXCEPT !.mepc = w.v]
    [] w.a = "sepc" -> [c EXCEPT !.sepc = w.v]
    [] w.a = "sstatus" -> [c EXCEPT !.mstatus = MaskedNx(@, SSTATUS_MASK, w.v, w.f3)]
    [] w.a = "sie" -> [c EXCEPT !.mie = MaskedNx(@, S_INT_MASK, w.v, w.f3)]
    [] w.a = "sip" -> [c EXCEPT !.mip_sw = MaskedNx(@, {SSI}, w.v, w.f3)]

CsrNames == {"mstatus", "medeleg", "mideleg", "mie", "mip", "mepc", "sepc", "sstatus", "sie", "sip"}

(* The lowest privilege that may touch a CSR: bits [9:8] of its address.   *)
csr_level(a) == IF a \in {"sstatus", "sie", "sip", "sepc"} THEN PRIV_S ELSE PRIV_M

(* The exception an instruction i of the core raises by itself, as a set   *)
(* of at most one cause number (cpu_pipe_u.v); i.op is "csr", "mret",      *)
(* "sret", "ecall", "fault" (any other synchronous cause, i.n) or "other". *)
exception(c, i) ==
  CASE i.op = "csr" -> IF csr_level(i.w.a) > c.priv \/ (~HAS_S /\ csr_level(i.w.a) = PRIV_S) THEN {2} ELSE {}
    [] i.op = "mret" -> IF c.priv # PRIV_M THEN {2} ELSE {}
    [] i.op = "sret" -> IF ~HAS_S \/ c.priv = PRIV_U THEN {2} ELSE {}
    [] i.op = "ecall" -> {8 + c.priv}
    [] i.op = "fault" -> {i.n}
    [] OTHER -> {}

irq_take(c, lines, i) == irq_pending(c, lines) /\ exception(c, i) = {} /\ i.op \notin {"mret", "sret", "csr"}
take_trap(c, lines, i) == exception(c, i) # {} \/ irq_take(c, lines, i)
trap_cause(c, lines, i) ==
  IF exception(c, i) # {} THEN Cause(FALSE, CHOOSE n \in exception(c, i) : TRUE) ELSE irq_cause(c, lines)

(* The clock edge on which instruction i at pc leaves EX (ex_go): the      *)
(* priority is trap, mret, sret, CSR write.                                *)
CsrEdge(c, lines, i, pc) ==
  IF take_trap(c, lines, i) THEN Trap(c, pc, trap_cause(c, lines, i))
  ELSE CASE i.op = "mret" -> Mret(c)
         [] i.op = "sret" -> Sret(c)
         [] i.op = "csr" -> Write(c, lines, i.w)
         [] OTHER -> c
=============================================================================
