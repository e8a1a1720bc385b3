----------------------------- MODULE SbiProofs ------------------------------
(***************************************************************************)
(* Proofs about the resident SBI, for every payload, every clock and every *)
(* movement of the interrupt lines: module Sbi's safety invariants.        *)
(***************************************************************************)
EXTENDS Sbi, TLAPS

(***************************************************************************)
(* The inductive invariant.                                                *)
(***************************************************************************)

\* c is a record with the registers of csr_s.v for its fields.
RegNames == {"priv", "mstatus", "medeleg", "mideleg", "mie", "mip_sw", "mepc", "sepc"}
Registers(c) == c = [x \in RegNames |-> c[x]]

Setting == {"s_far", "s_lo", "s_hi", "s_clear", "s_unmask"}   \* set_timer runs

\* The hart is in M while the firmware runs, and its mret goes back below M.
Hart ==
    /\ Registers(csr) /\ csr.priv \in {PRIV_M, PRIV_S, PRIV_U}
    /\ csr.priv = PRIV_M <=> fw # "run"
    /\ fw \notin {"rom", "run"} => MPP(csr.mstatus) \in {PRIV_S, PRIV_U}
    /\ fw # "rom" => csr.medeleg = MEDELEG /\ csr.mideleg = MIDELEG

\* A trap in hand is one of the two that are not delegated.
Handler ==
    /\ fw \in FwSteps /\ call \in Calls
    /\ fw = "entry" => mcause \in {Cause(TRUE, MTI), Cause(FALSE, 9)}
    /\ fw \in Setting => call.k = "set_timer"

\* mtimecmp, while the three stores of set_timer move it.
Compare ==
    /\ clint.mtime \in 0..MaxTime /\ clint.mtimecmp \in Times
    /\ fw = "s_lo" => \E l \in 0..ones : clint.mtimecmp = HALF * ones + l
    /\ fw = "s_hi" => clint.mtimecmp = HALF * ones + lo(call.t)
    /\ fw \in {"s_clear", "s_unmask"} => clint.mtimecmp = call.t

\* The machine timer has been taken and is not yet turned into STIP.
TimerTaken == fw = "t_mask" \/ (fw = "entry" /\ mcause = Cause(TRUE, MTI))

\* The deadline asked for: armed in mtimecmp, due, or being handed over.
Deadline ==
    /\ req \in Times \cup {NoReq}
    /\ req # NoReq /\ fw \notin {"s_lo", "s_hi", "s_clear", "s_unmask"} => clint.mtimecmp = req
    /\ MTI \in csr.mie => req # NoReq
    /\ STI \in csr.mip_sw \/ TimerTaken \/ fw = "t_raise" => req # NoReq /\ clint.mtime >= req
    /\ req # NoReq /\ fw \notin {"t_raise", "s_unmask"} => (MTI \in csr.mie <=> STI \notin csr.mip_sw)
    /\ TimerTaken => MTI \in csr.mie
    /\ fw = "t_raise" => MTI \notin csr.mie /\ STI \notin csr.mip_sw
    /\ fw = "s_unmask" => STI \notin csr.mip_sw

SInv == Hart /\ Handler /\ Compare /\ Deadline /\ NoPhantomSei

(***************************************************************************)
(* What each edge of csr_s.v does to the registers the invariant reads.    *)
(***************************************************************************)
SameDeleg(c, d) == d.medeleg = c.medeleg /\ d.mideleg = c.mideleg
SameIrqs(c, d) == d.mie = c.mie /\ d.mip_sw = c.mip_sw

LEMMA Levels == LEAST = PRIV_U /\ HAS_S /\ HAS_U
BY ModesAssumption, SbiAssumption DEF LEAST

LEMMA MppOf ==
    ASSUME NEW ms, NEW p \in {PRIV_M, PRIV_S, PRIV_U}
    PROVE  MPP(WithMPP(ms, p)) = p
<1>1. p \in {0, 1, 3}
  BY DEF PRIV_M, PRIV_S, PRIV_U
<1>2. MPPBits(p) = CASE p = 0 -> {} [] p = 1 -> {11} [] p = 3 -> {11, 12}
  BY <1>1 DEF MPPBits
<1> QED
  BY <1>1, <1>2 DEF MPP, WithMPP

LEMMA EdgeToS ==
    ASSUME NEW c, NEW pc, Registers(c)
    PROVE  LET d == TrapToS(c, pc)
           IN  Registers(d) /\ d.priv = PRIV_S /\ SameDeleg(c, d) /\ SameIrqs(c, d)
<1> DEFINE ms == (c.mstatus \ {1, 5, 8}) \cup Bit(5, 1 \in c.mstatus) \cup Bit(8, c.priv = PRIV_S)
<1>1. TrapToS(c, pc) = [c EXCEPT !.sepc = pc, !.priv = PRIV_S, !.mstatus = ms]
  BY Zenon DEF TrapToS
<1> HIDE DEF ms
<1> QED
  BY Zenon, <1>1 DEF Registers, RegNames, SameDeleg, SameIrqs

LEMMA EdgeToM ==
    ASSUME NEW c, NEW pc, Registers(c), c.priv \in {PRIV_M, PRIV_S, PRIV_U}
    PROVE  LET d == TrapToM(c, pc)
           IN  /\ Registers(d) /\ d.priv = PRIV_M /\ SameDeleg(c, d) /\ SameIrqs(c, d)
               /\ MPP(d.mstatus) = c.priv
<1> DEFINE s == (c.mstatus \ {3, 7}) \cup Bit(7, 3 \in c.mstatus)
           ms == WithMPP(s, c.priv)
<1>1. TrapToM(c, pc) = [c EXCEPT !.mepc = pc, !.priv = PRIV_M, !.mstatus = ms]
  BY Zenon DEF TrapToM
<1> HIDE DEF s
<1>2. MPP(ms) = c.priv
  BY MppOf
<1> HIDE DEF ms
<1> QED
  BY Zenon, <1>1, <1>2 DEF Registers, RegNames, SameDeleg, SameIrqs

LEMMA EdgeMret ==
    ASSUME NEW c, Registers(c)
    PROVE  LET d == Mret(c)
           IN  Registers(d) /\ d.priv = MPP(c.mstatus) /\ SameDeleg(c, d) /\ SameIrqs(c, d)
<1> DEFINE ms == WithMPP((c.mstatus \ {3, 7}) \cup Bit(3, 7 \in c.mstatus) \cup {7}, LEAST)
<1>1. Mret(c) = [c EXCEPT !.priv = MPP(c.mstatus), !.mstatus = ms]
  BY Zenon DEF Mret
<1> HIDE DEF ms
<1> QED
  BY Zenon, <1>1 DEF Registers, RegNames, SameDeleg, SameIrqs

LEMMA EdgeSret ==
    ASSUME NEW c, Registers(c)
    PROVE  LET d == Sret(c)
           IN  Registers(d) /\ d.priv \in {PRIV_S, PRIV_U} /\ SameDeleg(c, d) /\ SameIrqs(c, d)
<1> DEFINE p == IF 8 \in c.mstatus THEN PRIV_S ELSE LEAST
           ms == (c.mstatus \ {1, 5, 8}) \cup Bit(1, 5 \in c.mstatus) \cup {5}
<1>1. Sret(c) = [c EXCEPT !.priv = p, !.mstatus = ms]
  BY Zenon DEF Sret
<1>2. p \in {PRIV_S, PRIV_U}
  BY Levels
<1> HIDE DEF ms, p
<1> QED
  BY Zenon, <1>1, <1>2 DEF Registers, RegNames, SameDeleg, SameIrqs

\* What a CSR write leaves alone: all but the registers it names.
LEMMA WriteOne ==
    ASSUME NEW c, NEW l, NEW w, NEW d, Registers(c), d = Write(c, l, w)
    PROVE  /\ w.a = "mie" => /\ Registers(d) /\ d.priv = c.priv /\ d.mstatus = c.mstatus /\ SameDeleg(c, d)
                              /\ d.mie = nx(c.mie, w.v, w.f3) /\ d.mip_sw = c.mip_sw
           /\ w.a = "mip" => /\ Registers(d) /\ d.priv = c.priv /\ d.mstatus = c.mstatus /\ SameDeleg(c, d)
                              /\ d.mie = c.mie /\ d.mip_sw = nx(c.mip_sw, w.v, w.f3)
           /\ w.a = "mepc" => /\ Registers(d) /\ d.priv = c.priv /\ d.mstatus = c.mstatus
                               /\ SameDeleg(c, d) /\ SameIrqs(c, d)
           /\ w.a = "medeleg" => /\ Registers(d) /\ d.priv = c.priv /\ d.mstatus = c.mstatus
                                  /\ d.medeleg = nx(c.medeleg, w.v, w.f3) /\ d.mideleg = c.mideleg
                                  /\ SameIrqs(c, d)
           /\ w.a = "mideleg" => /\ Registers(d) /\ d.priv = c.priv /\ d.mstatus = c.mstatus
                                  /\ d.medeleg = c.medeleg /\ d.mideleg = nx(c.mideleg, w.v, w.f3)
                                  /\ SameIrqs(c, d)
<1> USE DEF Registers, RegNames, SameDeleg, SameIrqs, Write
<1>1. CASE w.a = "mie"       BY <1>1
<1>2. CASE w.a = "mip"       BY <1>2 DEF NxMip
<1>3. CASE w.a = "mepc"      BY <1>3
<1>4. CASE w.a = "medeleg"   BY <1>4, SbiAssumption
<1>5. CASE w.a = "mideleg"   BY <1>5, SbiAssumption
<1> QED
  BY Zenon, <1>1, <1>2, <1>3, <1>4, <1>5

\* The payload's own registers: none of them reaches MTIE, STIP or SEIP.
SRegs == {"sstatus", "sie", "sip", "sepc"}

LEMMA WriteSReg ==
    ASSUME NEW c, NEW l, NEW w, NEW d, Registers(c), d = Write(c, l, w), w.a \in SRegs
    PROVE  /\ Registers(d) /\ d.priv = c.priv /\ SameDeleg(c, d)
           /\ MTI \in d.mie <=> MTI \in c.mie
           /\ STI \in d.mip_sw <=> STI \in c.mip_sw
           /\ SEI \in d.mip_sw <=> SEI \in c.mip_sw
<1> DEFINE ie == MaskedNx(c.mie, S_INT_MASK, w.v, w.f3)
           ip == MaskedNx(c.mip_sw, {SSI}, w.v, w.f3)
<1>1. /\ MTI \in ie <=> MTI \in c.mie
      /\ STI \in ip <=> STI \in c.mip_sw
      /\ SEI \in ip <=> SEI \in c.mip_sw
  BY DEF MaskedNx, S_INT_MASK, SSI, STI, SEI, MTI
<1> HIDE DEF ie, ip
<1>2. /\ Registers(d) /\ d.priv = c.priv /\ SameDeleg(c, d)
      /\ d.mie \in {c.mie, ie} /\ d.mip_sw \in {c.mip_sw, ip}
  <2> USE DEF Registers, RegNames, SameDeleg, Write, ie, ip
  <2>1. CASE w.a = "sstatus"   BY <2>1
  <2>2. CASE w.a = "sie"       BY <2>2
  <2>3. CASE w.a = "sip"       BY <2>3
  <2>4. CASE w.a = "sepc"      BY <2>4
  <2> QED
    BY Zenon, <2>1, <2>2, <2>3, <2>4 DEF SRegs
<1> QED
  BY <1>1, <1>2

\* enter_payload leaves M for S with what the ROM delegates.
LEMMA WriteMstatus ==
    ASSUME NEW c, NEW l, NEW w, NEW d, Registers(c), d = Write(c, l, w), w.a = "mstatus"
    PROVE  /\ Registers(d) /\ SameDeleg(c, d) /\ SameIrqs(c, d)
           /\ LET n == nx(c.mstatus, w.v, w.f3) IN d.mstatus = WithMPP(n, legal_mpp(MPP(n)))
BY DEF Registers, RegNames, SameDeleg, SameIrqs, Write

LEMMA Entered ==
    ASSUME Registers(csr)
    PROVE  LET d == Mret(SetMppS(ClearMpp(DelegateInterrupts(DelegateExceptions(csr)))))
           IN  /\ Registers(d) /\ d.priv = PRIV_S /\ SameIrqs(csr, d)
               /\ d.medeleg = MEDELEG /\ d.mideleg = MIDELEG
<1> DEFINE c1 == DelegateExceptions(csr)
           c2 == DelegateInterrupts(c1)
           c3 == ClearMpp(c2)
           c4 == SetMppS(c3)
<1>1. Registers(c1) /\ c1.medeleg = MEDELEG /\ SameIrqs(csr, c1)
  <2> DEFINE w == W("medeleg", "w", MEDELEG)
  <2>1. w.a = "medeleg" /\ w.v = MEDELEG /\ w.f3 = "w"
    BY DEF W
  <2>2. c1 = Write(csr, {}, w)
    BY Zenon DEF DelegateExceptions
  <2> HIDE DEF w, c1
  <2>3. Registers(c1) /\ c1.medeleg = nx(csr.medeleg, w.v, w.f3) /\ SameIrqs(csr, c1)
    BY <2>1, <2>2, WriteOne
  <2> QED
    BY <2>1, <2>3 DEF nx
<1> HIDE DEF c1
<1>2. Registers(c2) /\ c2.medeleg = c1.medeleg /\ c2.mideleg = MIDELEG /\ SameIrqs(c1, c2)
  <2> DEFINE w == W("mideleg", "w", MIDELEG)
  <2>1. w.a = "mideleg" /\ w.v = MIDELEG /\ w.f3 = "w"
    BY DEF W
  <2>2. c2 = Write(c1, {}, w)
    BY Zenon DEF DelegateInterrupts
  <2> HIDE DEF w, c2
  <2>3. Registers(c2) /\ c2.medeleg = c1.medeleg /\ c2.mideleg = nx(c1.mideleg, w.v, w.f3) /\ SameIrqs(c1, c2)
    BY <1>1, <2>1, <2>2, WriteOne
  <2> QED
    BY <2>1, <2>3 DEF nx
<1> HIDE DEF c2
<1>3. Registers(c3) /\ SameDeleg(c2, c3) /\ SameIrqs(c2, c3) /\ 11 \notin c3.mstatus /\ 12 \notin c3.mstatus
  <2> DEFINE w == W("mstatus", "c", {11, 12, 7})
             n == nx(c2.mstatus, w.v, w.f3)
  <2>1. w.a = "mstatus" /\ w.v = {11, 12, 7} /\ w.f3 = "c"
    BY DEF W
  <2>2. c3 = Write(c2, {}, w)
    BY Zenon DEF ClearMpp
  <2> HIDE DEF w, c3
  <2>3. Registers(c3) /\ SameDeleg(c2, c3) /\ SameIrqs(c2, c3) /\ c3.mstatus = WithMPP(n, legal_mpp(MPP(n)))
    BY <1>2, <2>1, <2>2, WriteMstatus
  <2>4. n = c2.mstatus \ {11, 12, 7}
    BY <2>1 DEF nx
  <2> HIDE DEF n
  <2>5. MPP(n) = 0
    BY <2>4 DEF MPP
  <2>6. legal_mpp(0) = 0
    BY Levels DEF legal_mpp, PRIV_M, PRIV_S, PRIV_U
  <2>7. 11 \notin WithMPP(n, 0) /\ 12 \notin WithMPP(n, 0)
    BY DEF WithMPP, MPPBits
  <2> QED
    BY <2>3, <2>5, <2>6, <2>7
<1> HIDE DEF c3
<1>4. Registers(c4) /\ SameDeleg(c3, c4) /\ SameIrqs(c3, c4) /\ MPP(c4.mstatus) = PRIV_S
  <2> DEFINE w == W("mstatus", "s", {11})
             n == nx(c3.mstatus, w.v, w.f3)
  <2>1. w.a = "mstatus" /\ w.v = {11} /\ w.f3 = "s"
    BY DEF W
  <2>2. c4 = Write(c3, {}, w)
    BY Zenon DEF SetMppS
  <2> HIDE DEF w, c4
  <2>3. Registers(c4) /\ SameDeleg(c3, c4) /\ SameIrqs(c3, c4) /\ c4.mstatus = WithMPP(n, legal_mpp(MPP(n)))
    BY <1>3, <2>1, <2>2, WriteMstatus
  <2>4. n = c3.mstatus \cup {11}
    BY <2>1 DEF nx
  <2> HIDE DEF n
  <2>5. MPP(n) = PRIV_S
    BY <2>4, <1>3 DEF MPP, PRIV_S
  <2>6. legal_mpp(PRIV_S) = PRIV_S
    BY Levels DEF legal_mpp, PRIV_M, PRIV_S, PRIV_U
  <2> QED
    BY <2>3, <2>5, <2>6, MppOf
<1> HIDE DEF c4
<1>5. LET d == Mret(c4) IN Registers(d) /\ d.priv = MPP(c4.mstatus) /\ SameDeleg(c4, d) /\ SameIrqs(c4, d)
  BY <1>4, EdgeMret, Zenon
<1>6. LET d == Mret(c4)
      IN  /\ Registers(d) /\ d.priv = PRIV_S /\ SameIrqs(csr, d)
          /\ d.medeleg = MEDELEG /\ d.mideleg = MIDELEG
  BY <1>1, <1>2, <1>3, <1>4, <1>5, Zenon DEF SameDeleg, SameIrqs
<1> QED
  BY <1>6, Zenon DEF c1, c2, c3, c4

(***************************************************************************)
(* The halves of mtimecmp, and the clock.                                  *)
(***************************************************************************)
LEMMA Split ==
    ASSUME NEW x \in Times
    PROVE  hi(x) \in 0..ones /\ lo(x) \in 0..ones /\ x = HALF * hi(x) + lo(x)
<1>1. HALF \in Nat /\ HALF > 1 /\ x \in Nat /\ x < HALF * HALF
  BY ClintAssumption DEF Times
<1> DEFINE q == hi(x)
           r == lo(x)
<1>2. q = x \div HALF /\ r = x % HALF
  BY DEF hi, lo
<1> HIDE DEF q, r
<1>3. q \in Nat /\ r \in 0..(HALF - 1) /\ x = HALF * q + r
  <2>1. q \in Nat /\ r \in 0..(HALF - 1)
    BY <1>1, <1>2
  <2>2. x = HALF * q + r
    BY <1>1, <1>2
  <2> QED
    BY <2>1, <2>2
<1>4. q < HALF
  <2> SUFFICES ASSUME q >= HALF PROVE FALSE
    BY <1>1, <1>3
  <2>1. HALF * q >= HALF * HALF
    BY <1>1, <1>3
  <2> QED
    BY <1>1, <1>3, <2>1
<1>5. q \in 0..ones /\ r \in 0..ones
  BY <1>1, <1>3, <1>4 DEF ones
<1> QED
  BY <1>3, <1>5, Zenon DEF q, r

LEMMA Join ==
    ASSUME NEW a \in 0..ones, NEW b \in 0..ones
    PROVE  /\ HALF * a + b \in Times
           /\ hi(HALF * a + b) = a /\ lo(HALF * a + b) = b
<1> DEFINE x == HALF * a + b
<1>1. HALF \in Nat /\ HALF > 1 /\ a \in Nat /\ b \in Nat /\ a < HALF /\ b < HALF
  BY ClintAssumption DEF ones
<1>2. HALF * a + HALF <= HALF * HALF
  <2>1. HALF * (a + 1) <= HALF * HALF
    BY <1>1
  <2> QED
    BY <1>1, <2>1
<1>3. x \in Times
  BY <1>1, <1>2 DEF Times
<1>4. hi(x) \in Nat /\ lo(x) \in Nat /\ lo(x) < HALF /\ x = HALF * hi(x) + lo(x)
  BY <1>3, <1>1, Split DEF ones
<1> DEFINE h == hi(x)
           k == lo(x)
<1> HIDE DEF h, k
<1>5. h \in Nat /\ k \in Nat /\ k < HALF /\ HALF * a + b = HALF * h + k
  BY <1>4, Zenon DEF h, k
<1>6. ~(h < a)
  <2> SUFFICES ASSUME h < a PROVE FALSE
    OBVIOUS
  <2>1. HALF * (h + 1) <= HALF * a
    BY <1>1, <1>5
  <2> QED
    BY <1>1, <1>5, <2>1
<1>7. ~(a < h)
  <2> SUFFICES ASSUME a < h PROVE FALSE
    OBVIOUS
  <2>1. HALF * (a + 1) <= HALF * h
    BY <1>1, <1>5
  <2> QED
    BY <1>1, <1>5, <2>1
<1>8. h = a
  BY <1>1, <1>5, <1>6, <1>7
<1>9. k = b
  BY <1>1, <1>5, <1>8
<1> QED
  BY <1>3, <1>8, <1>9, Zenon DEF h, k

\* The clock never passes the values set_timer's first store puts mtimecmp at.
LEMMA FarAway ==
    ASSUME NEW m \in 0..MaxTime, NEW b \in 0..ones
    PROVE  ~(m >= HALF * ones + b)
BY ClintAssumption DEF ones

LEMMA Ticks ==
    ASSUME clint.mtime \in 0..MaxTime
    PROVE  /\ ClintEdge(clint, NoWrite).mtimecmp = clint.mtimecmp
           /\ \A v : /\ ClintEdge(clint, [a |-> "cmp_lo", v |-> v]).mtimecmp = HALF * hi(clint.mtimecmp) + v
                    /\ ClintEdge(clint, [a |-> "cmp_hi", v |-> v]).mtimecmp = HALF * v + lo(clint.mtimecmp)
           /\ \A w : w.a \notin {"mtime_lo", "mtime_hi"} =>
                 LET m == ClintEdge(clint, w).mtime IN m \in 0..MaxTime /\ m >= clint.mtime
<1>1. tick(clint.mtime) \in 0..MaxTime /\ tick(clint.mtime) >= clint.mtime
  BY ClintAssumption DEF tick
<1>2. ClintEdge(clint, NoWrite).mtimecmp = clint.mtimecmp
  BY DEF ClintEdge, NoWrite
<1>3. ASSUME NEW v
      PROVE  /\ ClintEdge(clint, [a |-> "cmp_lo", v |-> v]).mtimecmp = HALF * hi(clint.mtimecmp) + v
             /\ ClintEdge(clint, [a |-> "cmp_hi", v |-> v]).mtimecmp = HALF * v + lo(clint.mtimecmp)
  BY DEF ClintEdge
<1>4. ASSUME NEW w, w.a \notin {"mtime_lo", "mtime_hi"}
      PROVE  ClintEdge(clint, w).mtime = tick(clint.mtime)
  BY <1>4 DEF ClintEdge
<1> QED
  BY <1>1, <1>2, <1>3, <1>4, Zenon

(***************************************************************************)
(* The payload's instructions.                                             *)
(***************************************************************************)

\* An ecall, or one of PayloadInstrs.
Instruction(i) == i = [op |-> "ecall"] \/ i \in PayloadInstrs

\* Of the traps a payload takes, the SBI gets the machine timer, which was
\* then enabled and due, and the ecall of S mode.
LEMMA TrapsToSbi ==
    ASSUME Hart, fw = "run", NEW i, Instruction(i), NEW seip \in BOOLEAN,
           take_trap(csr, lines(seip), i), ~deleg(csr, trap_cause(csr, lines(seip), i))
    PROVE  \/ trap_cause(csr, lines(seip), i) = Cause(FALSE, 9)
           \/ trap_cause(csr, lines(seip), i) = Cause(TRUE, MTI) /\ MTI \in csr.mie /\ timer_irq(clint)
<1> DEFINE l == lines(seip)
<1>1. csr.medeleg = MEDELEG /\ csr.mideleg = MIDELEG /\ csr.priv \in {PRIV_S, PRIV_U} /\ csr.priv # PRIV_M
  BY DEF Hart
<1>2. CASE exception(csr, i) # {}
  <2> DEFINE E == exception(csr, i)
             n == CHOOSE x \in E : TRUE
  <2>1. trap_cause(csr, l, i) = Cause(FALSE, n)
    BY <1>2, Zenon DEF trap_cause
  <2>2. n \in E
    BY <1>2, Zenon
  <2>3. E \subseteq MEDELEG \cup {9}
    <3>1. CASE i = [op |-> "ecall"]
      <4>1. i.op = "ecall"
        BY <3>1
      <4>2. E = {8 + csr.priv}
        BY <4>1 DEF exception
      <4> QED
        BY <4>2, <1>1 DEF MEDELEG, PRIV_S, PRIV_U
    <3>2. CASE i \in PayloadInstrs
      <4>1. /\ i.op \in {"csr", "mret", "sret", "fault", "other"}
            /\ i.op = "fault" => i.n \in Faults
        BY <3>2, SbiAssumption
      <4>2. E \subseteq {2} \/ (i.op = "fault" /\ E = {i.n})
        BY <4>1 DEF exception
      <4> QED
        BY <4>1, <4>2 DEF MEDELEG, Faults
    <3> QED
      BY <3>1, <3>2 DEF Instruction
  <2> HIDE DEF n, E
  <2>4. Cause(FALSE, n).n = n /\ ~Cause(FALSE, n).is_int
    BY DEF Cause
  <2>5. n \notin MEDELEG
    BY <2>1, <2>4, <1>1, Levels, Zenon DEF deleg
  <2> QED
    BY <2>1, <2>2, <2>3, <2>5, Zenon
<1>3. CASE exception(csr, i) = {}
  <2> DEFINE F == f(csr, l)
             n == CHOOSE x \in F : \A y \in F : rank(x) <= rank(y)
  <2>1. trap_cause(csr, l, i) = Cause(TRUE, n)
    BY <1>3, Zenon DEF trap_cause, irq_cause
  <2>2. F # {} /\ F \subseteq {SSI, STI, SEI, MTI} /\ (MTI \in F => MTI \in csr.mie /\ timer_irq(clint))
    <3>1. F # {}
      BY <1>3, Zenon DEF take_trap, irq_take, irq_pending
    <3>2. F \subseteq csr.mie \cap mip(csr, l)
      BY Zenon DEF f
    <3>3. mip(csr, l) \subseteq {SSI, STI, SEI, MTI} /\ (MTI \in mip(csr, l) => timer_irq(clint))
      BY DEF mip, S_INT_MASK, lines, SSI, STI, SEI, MTI, MEI
    <3> QED
      BY <3>1, <3>2, <3>3, Zenon
  <2> HIDE DEF F
  <2>3. \E x \in F : \A y \in F : rank(x) <= rank(y)
    <3>1. rank(MTI) = 3 /\ rank(SEI) = 4 /\ rank(SSI) = 5 /\ rank(STI) = 6
      BY DEF rank, SSI, MSI, STI, MTI, SEI, MEI
    <3>2. CASE MTI \in F   BY <2>2, <3>1, <3>2
    <3>3. CASE MTI \notin F /\ SEI \in F   BY <2>2, <3>1, <3>3
    <3>4. CASE MTI \notin F /\ SEI \notin F /\ SSI \in F   BY <2>2, <3>1, <3>4
    <3>5. CASE MTI \notin F /\ SEI \notin F /\ SSI \notin F   BY <2>2, <3>1, <3>5
    <3> QED
      BY <3>2, <3>3, <3>4, <3>5
  <2>4. n \in F
    BY <2>3, Zenon
  <2> HIDE DEF n
  <2>5. Cause(TRUE, n).n = n /\ Cause(TRUE, n).is_int = TRUE
    BY DEF Cause
  <2>6. n \notin MIDELEG
    BY <2>1, <2>5, <1>1, Levels, Zenon DEF deleg
  <2>7. n = MTI
    BY <2>2, <2>4, <2>6 DEF MIDELEG
  <2> QED
    BY <2>1, <2>2, <2>4, <2>7, Zenon
<1> QED
  BY Zenon, <1>2, <1>3

\* What the payload cannot reach, whatever it executes.
Untouched(c, d) ==
    /\ SameDeleg(c, d)
    /\ MTI \in d.mie <=> MTI \in c.mie
    /\ STI \in d.mip_sw <=> STI \in c.mip_sw
    /\ SEI \in d.mip_sw <=> SEI \in c.mip_sw

LEMMA PayloadEdge ==
    ASSUME Hart, fw = "run", NEW i, Instruction(i), NEW l, NEW d, d = CsrEdge(csr, l, i, "pc")
    PROVE  /\ Registers(d) /\ Untouched(csr, d)
           /\ IF take_trap(csr, l, i) /\ ~deleg(csr, trap_cause(csr, l, i))
              THEN d.priv = PRIV_M /\ MPP(d.mstatus) = csr.priv
              ELSE d.priv \in {PRIV_S, PRIV_U}
<1> DEFINE trap == take_trap(csr, l, i)
           toS == deleg(csr, trap_cause(csr, l, i))
<1>1. Registers(csr) /\ csr.priv \in {PRIV_S, PRIV_U} /\ csr.priv \in {PRIV_M, PRIV_S, PRIV_U}
  BY DEF Hart
<1>2. \A e : SameIrqs(csr, e) /\ SameDeleg(csr, e) => Untouched(csr, e)
  BY Zenon DEF SameIrqs, Untouched
<1>3. CASE trap /\ toS
  <2>1. d = TrapToS(csr, "pc")
    BY <1>3, Zenon DEF CsrEdge, Trap
  <2>2. Registers(d) /\ d.priv = PRIV_S /\ SameDeleg(csr, d) /\ SameIrqs(csr, d)
    BY <2>1, <1>1, EdgeToS, Zenon
  <2> QED
    BY <2>2, <1>2, <1>3, Zenon
<1>4. CASE trap /\ ~toS
  <2>1. d = TrapToM(csr, "pc")
    BY <1>4, Zenon DEF CsrEdge, Trap
  <2>2. /\ Registers(d) /\ d.priv = PRIV_M /\ SameDeleg(csr, d) /\ SameIrqs(csr, d)
        /\ MPP(d.mstatus) = csr.priv
    BY <2>1, <1>1, EdgeToM, Zenon
  <2> QED
    BY <2>2, <1>2, <1>4, Zenon
<1>5. CASE ~trap
  <2>1. exception(csr, i) = {}
    BY <1>5, Zenon DEF take_trap
  <2>2. CASE i.op = "csr"
    <3>1. d = Write(csr, l, i.w)
      BY <1>5, <2>2 DEF CsrEdge
    <3>2. i.w.a \in SRegs
      BY <2>1, <2>2, <1>1 DEF exception, csr_level, SRegs, PRIV_M, PRIV_S, PRIV_U
    <3>3. Registers(d) /\ d.priv = csr.priv /\ Untouched(csr, d)
      BY <3>1, <3>2, <1>1, WriteSReg DEF Untouched
    <3> QED
      BY <3>3, <1>1, <1>5, Zenon
  <2>3. CASE i.op = "sret"
    <3>1. d = Sret(csr)
      BY <1>5, <2>3 DEF CsrEdge
    <3>2. Registers(d) /\ d.priv \in {PRIV_S, PRIV_U} /\ SameDeleg(csr, d) /\ SameIrqs(csr, d)
      BY <3>1, <1>1, EdgeSret, Zenon
    <3> QED
      BY <3>2, <1>2, <1>5, Zenon
  <2>4. i.op # "mret"
    BY <2>1, <1>1 DEF exception, PRIV_M, PRIV_S, PRIV_U
  <2>5. CASE i.op \notin {"csr", "sret"}
    <3>1. d = csr
      BY <1>5, <2>4, <2>5 DEF CsrEdge
    <3> QED
      BY <3>1, <1>1, <1>2, <1>5, Zenon DEF SameIrqs, SameDeleg
  <2> QED
    BY <2>2, <2>3, <2>5
<1> QED
  BY <1>3, <1>4, <1>5

\* Time passes in every step, and set_timer is the only one to move mtimecmp.
LEMMA StoreNothing ==
    ASSUME SInv, Store(NoWrite)
    PROVE  /\ clint'.mtime \in 0..MaxTime /\ clint'.mtime >= clint.mtime
           /\ clint'.mtimecmp = clint.mtimecmp /\ clint.mtimecmp \in Times
<1>1. clint.mtime \in 0..MaxTime /\ clint.mtimecmp \in Times /\ clint' = ClintEdge(clint, NoWrite)
  BY DEF SInv, Compare, Store
<1>2. NoWrite.a \notin {"mtime_lo", "mtime_hi"}
  BY DEF NoWrite
<1> QED
  BY <1>1, <1>2, Ticks, Zenon

LEMMA PayloadStep ==
    ASSUME SInv, NEW i, Instruction(i), NEW c \in Calls, NEW seip \in BOOLEAN, Payload(i, c, seip)
    PROVE  SInv'
<1> DEFINE l == lines(seip)
           cause == trap_cause(csr, l, i)
           toM == take_trap(csr, l, i) /\ ~deleg(csr, cause)
<1>1. /\ fw = "run" /\ csr' = CsrEdge(csr, l, i, "pc") /\ req' = req /\ Store(NoWrite)
      /\ toM => fw' = "entry" /\ mcause' = cause /\ call' = c
      /\ ~toM => fw' = fw /\ mcause' = mcause /\ call' = call
  BY Zenon DEF Payload
<1>2. Hart /\ Handler /\ Compare /\ Deadline /\ NoPhantomSei
  BY DEF SInv
<1>3. /\ Registers(csr') /\ Untouched(csr, csr')
      /\ toM => csr'.priv = PRIV_M /\ MPP(csr'.mstatus) = csr.priv
      /\ ~toM => csr'.priv \in {PRIV_S, PRIV_U}
  BY <1>1, <1>2, PayloadEdge, Zenon
<1>4. toM => \/ cause = Cause(FALSE, 9)
             \/ cause = Cause(TRUE, MTI) /\ MTI \in csr.mie /\ timer_irq(clint)
  BY <1>1, <1>2, TrapsToSbi, Zenon
<1>5. /\ clint'.mtime \in 0..MaxTime /\ clint'.mtime >= clint.mtime
      /\ clint'.mtimecmp = clint.mtimecmp /\ clint.mtimecmp \in Times /\ clint.mtime \in 0..MaxTime
  BY <1>1, <1>2, StoreNothing DEF Compare
<1> HIDE DEF toM, cause
<1>6. Hart'
  <2>1. csr.medeleg = MEDELEG /\ csr.mideleg = MIDELEG /\ csr.priv \in {PRIV_S, PRIV_U}
    BY <1>1, <1>2 DEF Hart
  <2>2. csr'.medeleg = MEDELEG /\ csr'.mideleg = MIDELEG
    BY <2>1, <1>3, Zenon DEF Untouched, SameDeleg
  <2> QED
    BY <2>1, <2>2, <1>1, <1>3 DEF Hart, PRIV_M, PRIV_S, PRIV_U
<1>7. Handler'
  BY Zenon, <1>1, <1>2, <1>4 DEF Handler, FwSteps, Setting
<1>8. Compare'
  BY <1>1, <1>5 DEF Compare
<1>9. Deadline'
  <2>1. /\ MTI \in csr'.mie <=> MTI \in csr.mie
        /\ STI \in csr'.mip_sw <=> STI \in csr.mip_sw
    BY <1>3, Zenon DEF Untouched
  <2>2. ~TimerTaken /\ (TimerTaken' => toM /\ MTI \in csr.mie /\ timer_irq(clint))
    <3>1. Cause(FALSE, 9) # Cause(TRUE, MTI)
      BY DEF Cause
    <3> QED
      BY Zenon, <3>1, <1>1, <1>4 DEF TimerTaken
  <2>3. fw' \in {"run", "entry"}
    BY <1>1, Zenon
  <2>4. TimerTaken' => req # NoReq /\ clint.mtime >= req /\ STI \notin csr.mip_sw
    BY <2>2, <1>1, <1>2, Zenon DEF Deadline, timer_irq
  <2>5. req \in Int /\ (req # NoReq => clint.mtimecmp = req)
    BY <1>1, <1>2, ClintAssumption DEF Deadline, Times, NoReq
  <2>6. STI \in csr.mip_sw => req # NoReq /\ clint.mtime >= req
    BY <1>1, <1>2, Zenon DEF Deadline
  <2>7. STI \in csr.mip_sw \/ TimerTaken' => req # NoReq /\ clint'.mtime >= req
    BY <2>4, <2>5, <2>6, <1>5
  <2>8. /\ req \in Times \cup {NoReq}
        /\ MTI \in csr.mie => req # NoReq
        /\ req # NoReq => (MTI \in csr.mie <=> STI \notin csr.mip_sw)
    BY <1>1, <1>2 DEF Deadline
  <2> QED
    BY <2>1, <2>2, <2>3, <2>5, <2>7, <2>8, <1>1, <1>5 DEF Deadline
<1>10. NoPhantomSei'
  BY <1>2, <1>3, Zenon DEF NoPhantomSei, Untouched
<1> QED
  BY <1>6, <1>7, <1>8, <1>9, <1>10 DEF SInv

(***************************************************************************)
(* The firmware's steps.                                                   *)
(***************************************************************************)

\* A step within the trap handler leaves the hart in M, ready to return.
LEMMA StaysInM ==
    ASSUME Hart, fw \notin {"rom", "run"}, fw' \notin {"rom", "run"},
           Registers(csr'), csr'.priv = csr.priv, csr'.mstatus = csr.mstatus, SameDeleg(csr, csr')
    PROVE  Hart'
<1>1. /\ csr.priv = PRIV_M /\ MPP(csr.mstatus) \in {PRIV_S, PRIV_U}
      /\ csr.medeleg = MEDELEG /\ csr.mideleg = MIDELEG
  BY DEF Hart
<1> QED
  BY <1>1 DEF Hart, SameDeleg

LEMMA EnterStep ==
    ASSUME SInv, EnterPayload
    PROVE  SInv'
<1>1. /\ fw = "rom" /\ fw' = "run" /\ mcause' = mcause /\ call' = call /\ req' = req /\ Store(NoWrite)
      /\ csr' = Mret(SetMppS(ClearMpp(DelegateInterrupts(DelegateExceptions(csr)))))
  BY DEF EnterPayload
<1>2. Hart /\ Handler /\ Compare /\ Deadline /\ NoPhantomSei
  BY DEF SInv
<1>3. /\ Registers(csr') /\ csr'.priv = PRIV_S /\ SameIrqs(csr, csr')
      /\ csr'.medeleg = MEDELEG /\ csr'.mideleg = MIDELEG
  <2>1. Registers(csr)
    BY <1>2 DEF Hart
  <2> QED
    BY <2>1, <1>1, Entered, Zenon
<1>4. /\ clint'.mtime \in 0..MaxTime /\ clint'.mtime >= clint.mtime
      /\ clint'.mtimecmp = clint.mtimecmp /\ clint.mtimecmp \in Times /\ clint.mtime \in 0..MaxTime
  BY <1>1, <1>2, StoreNothing DEF Compare
<1>5. Hart'
  BY <1>1, <1>3 DEF Hart, PRIV_M, PRIV_S, PRIV_U
<1>6. Handler'
  BY <1>1, <1>2 DEF Handler, FwSteps, Setting
<1>7. Compare'
  BY <1>1, <1>4 DEF Compare
<1>8. Deadline'
  <2>1. csr'.mie = csr.mie /\ csr'.mip_sw = csr.mip_sw /\ ~TimerTaken /\ ~TimerTaken'
    BY <1>1, <1>3 DEF SameIrqs, TimerTaken
  <2>2. req \in Int
    BY <1>2 DEF Deadline, NoReq, Times
  <2>3. STI \in csr.mip_sw => req # NoReq /\ clint'.mtime >= req
    BY <1>1, <1>2, <1>4, <2>2 DEF Deadline
  <2> QED
    BY <1>1, <1>2, <1>4, <2>1, <2>3 DEF Deadline
<1>9. NoPhantomSei'
  BY <1>2, <1>3 DEF NoPhantomSei, SameIrqs
<1> QED
  BY <1>5, <1>6, <1>7, <1>8, <1>9 DEF SInv

\* Dispatch, and the cycles in which nothing but the clock moves.
LEMMA DispatchStep ==
    ASSUME SInv, Dispatch
    PROVE  SInv'
<1>1. /\ fw = "entry" /\ csr' = csr /\ mcause' = mcause /\ call' = call /\ req' = req /\ Store(NoWrite)
      /\ fw' = CASE mcause = Cause(TRUE, MTI) -> "t_mask"
                 [] mcause = Cause(FALSE, 9) -> (CASE call.k = "set_timer" -> "s_far"
                                                   [] call.k = "reset" -> "reset"
                                                   [] call.k = "shutdown" -> "off"
                                                   [] OTHER -> "e_mepc")
                 [] OTHER -> "unexpected"
  BY DEF Dispatch
<1>2. Hart /\ Handler /\ Compare /\ Deadline /\ NoPhantomSei
  BY DEF SInv
<1>3. /\ clint'.mtime \in 0..MaxTime /\ clint'.mtime >= clint.mtime
      /\ clint'.mtimecmp = clint.mtimecmp /\ clint.mtimecmp \in Times /\ clint.mtime \in 0..MaxTime
  BY <1>1, <1>2, StoreNothing DEF Compare
<1>4. Cause(FALSE, 9) # Cause(TRUE, MTI)
  BY DEF Cause
<1>5. mcause \in {Cause(TRUE, MTI), Cause(FALSE, 9)}
  BY Zenon, <1>1, <1>2 DEF Handler
<1>6. \/ mcause = Cause(TRUE, MTI) /\ fw' = "t_mask"
      \/ mcause = Cause(FALSE, 9) /\ call.k = "set_timer" /\ fw' = "s_far"
      \/ mcause = Cause(FALSE, 9) /\ fw' \in {"reset", "off", "e_mepc"}
  BY Zenon, <1>1, <1>4, <1>5
<1>7. Hart'
  BY <1>1, <1>2, <1>6, StaysInM DEF Hart, SameDeleg
<1>8. Handler'
  BY Zenon, <1>1, <1>2, <1>6 DEF Handler, FwSteps, Setting
<1>9. Compare'
  BY <1>1, <1>3, <1>6 DEF Compare
<1>10. Deadline'
  <2>1. TimerTaken' => TimerTaken
    BY Zenon, <1>1, <1>6 DEF TimerTaken
  <2>2. req \in Int
    BY <1>2 DEF Deadline, NoReq, Times
  <2>3. STI \in csr.mip_sw \/ TimerTaken => req # NoReq /\ clint'.mtime >= req
    BY <1>1, <1>2, <1>3, <2>2 DEF Deadline
  <2>4. fw' \notin {"s_lo", "s_hi", "s_clear", "s_unmask", "t_raise"}
    BY Zenon, <1>6
  <2> QED
    BY <1>1, <1>2, <1>3, <2>1, <2>3, <2>4 DEF Deadline
<1>11. NoPhantomSei'
  BY <1>1, <1>2 DEF NoPhantomSei
<1> QED
  BY <1>7, <1>8, <1>9, <1>10, <1>11 DEF SInv

LEMMA IdleStep ==
    ASSUME SInv, Store(NoWrite), UNCHANGED <<csr, fw, mcause, call, req>>
    PROVE  SInv'
<1>1. Hart /\ Handler /\ Compare /\ Deadline /\ NoPhantomSei
  BY DEF SInv
<1>2. /\ clint'.mtime \in 0..MaxTime /\ clint'.mtime >= clint.mtime
      /\ clint'.mtimecmp = clint.mtimecmp /\ clint.mtimecmp \in Times /\ clint.mtime \in 0..MaxTime
  BY <1>1, StoreNothing DEF Compare
<1>3. Hart' /\ Handler' /\ NoPhantomSei'
  BY <1>1, Zenon DEF Hart, Handler, NoPhantomSei, Registers
<1>4. Compare'
  BY <1>1, <1>2 DEF Compare
<1>5. Deadline'
  <2>1. TimerTaken' <=> TimerTaken
    BY DEF TimerTaken
  <2>2. req \in Int
    BY <1>1 DEF Deadline, NoReq, Times
  <2>3. STI \in csr.mip_sw \/ TimerTaken \/ fw = "t_raise" => req # NoReq /\ clint'.mtime >= req
    BY <1>1, <1>2, <2>2 DEF Deadline
  <2> QED
    BY <1>1, <1>2, <2>1, <2>3 DEF Deadline
<1> QED
  BY <1>3, <1>4, <1>5 DEF SInv

\* The machine timer is masked, then STIP raised.
LEMMA MaskStep ==
    ASSUME SInv, NEW seip, FwCsr("t_mask", W("mie", "c", {MTI}), "t_raise", seip)
    PROVE  SInv'
<1> DEFINE w == W("mie", "c", {MTI})
<1>1. /\ fw = "t_mask" /\ fw' = "t_raise" /\ csr' = Write(csr, lines(seip), w) /\ Store(NoWrite)
      /\ mcause' = mcause /\ call' = call /\ req' = req
  BY DEF FwCsr
<1>2. Hart /\ Handler /\ Compare /\ Deadline /\ NoPhantomSei
  BY DEF SInv
<1>3. /\ Registers(csr') /\ csr'.priv = csr.priv /\ csr'.mstatus = csr.mstatus /\ SameDeleg(csr, csr')
      /\ csr'.mie = csr.mie \ {MTI} /\ csr'.mip_sw = csr.mip_sw
  <2>1. w.a = "mie" /\ w.f3 = "c" /\ w.v = {MTI} /\ Registers(csr)
    BY <1>2 DEF W, Hart
  <2> HIDE DEF w
  <2>2. /\ Registers(csr') /\ csr'.priv = csr.priv /\ csr'.mstatus = csr.mstatus /\ SameDeleg(csr, csr')
        /\ csr'.mie = nx(csr.mie, w.v, w.f3) /\ csr'.mip_sw = csr.mip_sw
    BY <2>1, <1>1, WriteOne
  <2> QED
    BY <2>1, <2>2 DEF nx
<1> HIDE DEF w
<1>4. /\ clint'.mtime \in 0..MaxTime /\ clint'.mtime >= clint.mtime
      /\ clint'.mtimecmp = clint.mtimecmp /\ clint.mtimecmp \in Times /\ clint.mtime \in 0..MaxTime
  BY <1>1, <1>2, StoreNothing DEF Compare
<1>5. Hart'
  BY <1>1, <1>2, <1>3, StaysInM
<1>6. Handler'
  BY <1>1, <1>2 DEF Handler, FwSteps, Setting
<1>7. Compare'
  BY <1>1, <1>2, <1>4 DEF Compare
<1>8. Deadline'
  <2>1. TimerTaken /\ ~TimerTaken'
    BY <1>1 DEF TimerTaken
  <2>2. req \in Times /\ req # NoReq /\ clint.mtime >= req /\ STI \notin csr.mip_sw /\ clint.mtimecmp = req
    BY <1>1, <1>2, <2>1 DEF Deadline
  <2> QED
    BY <1>1, <1>3, <1>4, <2>1, <2>2 DEF Deadline, Times
<1>9. NoPhantomSei'
  BY <1>2, <1>3 DEF NoPhantomSei, SEI, STI
<1> QED
  BY <1>5, <1>6, <1>7, <1>8, <1>9 DEF SInv

LEMMA RaiseStep ==
    ASSUME SInv, NEW seip, FwCsr("t_raise", W("mip", "s", {STI}), "exit", seip)
    PROVE  SInv'
<1> DEFINE w == W("mip", "s", {STI})
<1>1. /\ fw = "t_raise" /\ fw' = "exit" /\ csr' = Write(csr, lines(seip), w) /\ Store(NoWrite)
      /\ mcause' = mcause /\ call' = call /\ req' = req
  BY DEF FwCsr
<1>2. Hart /\ Handler /\ Compare /\ Deadline /\ NoPhantomSei
  BY DEF SInv
<1>3. /\ Registers(csr') /\ csr'.priv = csr.priv /\ csr'.mstatus = csr.mstatus /\ SameDeleg(csr, csr')
      /\ csr'.mie = csr.mie /\ csr'.mip_sw = csr.mip_sw \cup {STI}
  <2>1. w.a = "mip" /\ w.f3 = "s" /\ w.v = {STI} /\ Registers(csr)
    BY <1>2 DEF W, Hart
  <2> HIDE DEF w
  <2>2. /\ Registers(csr') /\ csr'.priv = csr.priv /\ csr'.mstatus = csr.mstatus /\ SameDeleg(csr, csr')
        /\ csr'.mie = csr.mie /\ csr'.mip_sw = nx(csr.mip_sw, w.v, w.f3)
    BY <2>1, <1>1, WriteOne
  <2> QED
    BY <2>1, <2>2 DEF nx
<1> HIDE DEF w
<1>4. /\ clint'.mtime \in 0..MaxTime /\ clint'.mtime >= clint.mtime
      /\ clint'.mtimecmp = clint.mtimecmp /\ clint.mtimecmp \in Times /\ clint.mtime \in 0..MaxTime
  BY <1>1, <1>2, StoreNothing DEF Compare
<1>5. Hart'
  BY <1>1, <1>2, <1>3, StaysInM
<1>6. Handler'
  BY <1>1, <1>2 DEF Handler, FwSteps, Setting
<1>7. Compare'
  BY <1>1, <1>2, <1>4 DEF Compare
<1>8. Deadline'
  <2>1. ~TimerTaken'
    BY <1>1 DEF TimerTaken
  <2>2. req \in Times /\ req # NoReq /\ clint.mtime >= req /\ MTI \notin csr.mie /\ clint.mtimecmp = req
    BY <1>1, <1>2 DEF Deadline
  <2> QED
    BY <1>1, <1>3, <1>4, <2>1, <2>2 DEF Deadline, Times
<1>9. NoPhantomSei'
  BY <1>2, <1>3 DEF NoPhantomSei, SEI, STI
<1> QED
  BY <1>5, <1>6, <1>7, <1>8, <1>9 DEF SInv

\* set_timer clears STIP, then unmasks the machine timer.
LEMMA ClearStep ==
    ASSUME SInv, NEW seip, call.k = "set_timer", SetTimerClear(seip)
    PROVE  SInv'
<1> DEFINE w == W("mip", "c", {STI})
<1>1. /\ fw = "s_clear" /\ fw' = "s_unmask" /\ csr' = Write(csr, lines(seip), w) /\ Store(NoWrite)
      /\ mcause' = mcause /\ call' = call /\ req' = req
  BY DEF SetTimerClear, FwCsr
<1>2. Hart /\ Handler /\ Compare /\ Deadline /\ NoPhantomSei
  BY DEF SInv
<1>3. /\ Registers(csr') /\ csr'.priv = csr.priv /\ csr'.mstatus = csr.mstatus /\ SameDeleg(csr, csr')
      /\ csr'.mie = csr.mie /\ csr'.mip_sw = csr.mip_sw \ {STI}
  <2>1. w.a = "mip" /\ w.f3 = "c" /\ w.v = {STI} /\ Registers(csr)
    BY <1>2 DEF W, Hart
  <2> HIDE DEF w
  <2>2. /\ Registers(csr') /\ csr'.priv = csr.priv /\ csr'.mstatus = csr.mstatus /\ SameDeleg(csr, csr')
        /\ csr'.mie = csr.mie /\ csr'.mip_sw = nx(csr.mip_sw, w.v, w.f3)
    BY <2>1, <1>1, WriteOne
  <2> QED
    BY <2>1, <2>2 DEF nx
<1> HIDE DEF w
<1>4. /\ clint'.mtime \in 0..MaxTime /\ clint'.mtime >= clint.mtime
      /\ clint'.mtimecmp = clint.mtimecmp /\ clint.mtimecmp \in Times /\ clint.mtime \in 0..MaxTime
  BY <1>1, <1>2, StoreNothing DEF Compare
<1>5. Hart'
  BY <1>1, <1>2, <1>3, StaysInM
<1>6. Handler'
  BY <1>1, <1>2 DEF Handler, FwSteps, Setting
<1>7. Compare'
  BY <1>1, <1>2, <1>4 DEF Compare
<1>8. Deadline'
  <2>1. ~TimerTaken'
    BY <1>1 DEF TimerTaken
  <2>2. req \in Times \cup {NoReq} /\ (MTI \in csr.mie => req # NoReq)
    BY <1>2 DEF Deadline
  <2> QED
    BY <1>1, <1>3, <2>1, <2>2 DEF Deadline
<1>9. NoPhantomSei'
  BY <1>2, <1>3 DEF NoPhantomSei, SEI, STI
<1> QED
  BY <1>5, <1>6, <1>7, <1>8, <1>9 DEF SInv

LEMMA UnmaskStep ==
    ASSUME SInv, call.k = "set_timer", SetTimerUnmask(call.t)
    PROVE  SInv'
<1> DEFINE w == W("mie", "s", {MTI})
<1>1. /\ fw = "s_unmask" /\ fw' = "e_mepc" /\ csr' = Write(csr, {}, w) /\ Store(NoWrite)
      /\ mcause' = mcause /\ call' = call /\ req' = call.t
  BY DEF SetTimerUnmask
<1>2. Hart /\ Handler /\ Compare /\ Deadline /\ NoPhantomSei
  BY DEF SInv
<1>3. /\ Registers(csr') /\ csr'.priv = csr.priv /\ csr'.mstatus = csr.mstatus /\ SameDeleg(csr, csr')
      /\ csr'.mie = csr.mie \cup {MTI} /\ csr'.mip_sw = csr.mip_sw
  <2>1. w.a = "mie" /\ w.f3 = "s" /\ w.v = {MTI} /\ Registers(csr)
    BY <1>2 DEF W, Hart
  <2> HIDE DEF w
  <2>2. /\ Registers(csr') /\ csr'.priv = csr.priv /\ csr'.mstatus = csr.mstatus /\ SameDeleg(csr, csr')
        /\ csr'.mie = nx(csr.mie, w.v, w.f3) /\ csr'.mip_sw = csr.mip_sw
    BY <2>1, <1>1, WriteOne
  <2> QED
    BY <2>1, <2>2 DEF nx
<1> HIDE DEF w
<1>4. /\ clint'.mtime \in 0..MaxTime /\ clint'.mtime >= clint.mtime
      /\ clint'.mtimecmp = clint.mtimecmp /\ clint.mtimecmp \in Times /\ clint.mtime \in 0..MaxTime
  BY <1>1, <1>2, StoreNothing DEF Compare
<1>5. Hart'
  BY <1>1, <1>2, <1>3, StaysInM
<1>6. Handler'
  BY <1>1, <1>2 DEF Handler, FwSteps, Setting
<1>7. Compare'
  BY <1>1, <1>2, <1>4 DEF Compare
<1>8. Deadline'
  <2>1. ~TimerTaken'
    BY <1>1 DEF TimerTaken
  <2>2. clint.mtimecmp = call.t /\ STI \notin csr.mip_sw
    BY <1>1, <1>2 DEF Deadline, Compare
  <2>3. req' \in Times /\ req' # NoReq
    BY <1>1, <1>4, <2>2 DEF Times, NoReq
  <2> QED
    BY <1>1, <1>3, <1>4, <2>1, <2>2, <2>3 DEF Deadline
<1>9. NoPhantomSei'
  BY <1>2, <1>3 DEF NoPhantomSei, SEI, STI
<1> QED
  BY <1>5, <1>6, <1>7, <1>8, <1>9 DEF SInv

\* An ecall returns behind itself.
LEMMA Ecall4Step ==
    ASSUME SInv, Ecall4
    PROVE  SInv'
<1> DEFINE w == W("mepc", "w", "pc+4")
<1>1. /\ fw = "e_mepc" /\ fw' = "exit" /\ csr' = Write(csr, lines(FALSE), w) /\ Store(NoWrite)
      /\ mcause' = mcause /\ call' = call /\ req' = req
  BY DEF Ecall4, FwCsr
<1>2. Hart /\ Handler /\ Compare /\ Deadline /\ NoPhantomSei
  BY DEF SInv
<1>3. /\ Registers(csr') /\ csr'.priv = csr.priv /\ csr'.mstatus = csr.mstatus /\ SameDeleg(csr, csr')
      /\ csr'.mie = csr.mie /\ csr'.mip_sw = csr.mip_sw
  <2>1. w.a = "mepc" /\ w.f3 = "w" /\ w.v = "pc+4" /\ Registers(csr)
    BY <1>2 DEF W, Hart
  <2> HIDE DEF w
  <2>2. /\ Registers(csr') /\ csr'.priv = csr.priv /\ csr'.mstatus = csr.mstatus /\ SameDeleg(csr, csr')
        /\ SameIrqs(csr, csr')
    <3> DEFINE l == lines(FALSE)
    <3>1. csr' = Write(csr, l, w)
      BY <1>1, Zenon
    <3> HIDE DEF l
    <3> QED
      BY <2>1, <3>1, WriteOne
  <2> QED
    BY <2>1, <2>2 DEF SameIrqs
<1> HIDE DEF w
<1>4. /\ clint'.mtime \in 0..MaxTime /\ clint'.mtime >= clint.mtime
      /\ clint'.mtimecmp = clint.mtimecmp /\ clint.mtimecmp \in Times /\ clint.mtime \in 0..MaxTime
  BY <1>1, <1>2, StoreNothing DEF Compare
<1>5. Hart'
  BY <1>1, <1>2, <1>3, StaysInM
<1>6. Handler'
  BY <1>1, <1>2 DEF Handler, FwSteps, Setting
<1>7. Compare'
  BY <1>1, <1>2, <1>4 DEF Compare
<1>8. Deadline'
  <2>1. ~TimerTaken /\ ~TimerTaken'
    BY <1>1 DEF TimerTaken
  <2>2. req \in Int
    BY <1>2 DEF Deadline, NoReq, Times
  <2>3. STI \in csr.mip_sw => req # NoReq /\ clint'.mtime >= req
    BY <1>2, <1>4, <2>2 DEF Deadline
  <2> QED
    BY Zenon, <1>1, <1>2, <1>3, <1>4, <2>1, <2>3 DEF Deadline
<1>9. NoPhantomSei'
  BY <1>2, <1>3 DEF NoPhantomSei, SEI, STI
<1> QED
  BY <1>5, <1>6, <1>7, <1>8, <1>9 DEF SInv

\* The three stores of set_timer: far away, then the low half, then the high.
LEMMA StoresStep ==
    ASSUME SInv, call.k = "set_timer", SetTimerStores(call.t)
    PROVE  SInv'
<1>1. Hart /\ Handler /\ Compare /\ Deadline /\ NoPhantomSei
  BY DEF SInv
<1>2. csr' = csr /\ mcause' = mcause /\ call' = call /\ req' = req
  BY DEF SetTimerStores, FwStore
<1>3. call.t \in Times
  <2>1. PICK t \in Deadlines : call = [k |-> "set_timer", t |-> t]
    BY <1>1 DEF Handler, Calls
  <2> QED
    BY <2>1, SbiAssumption
<1>4. /\ hi(call.t) \in 0..ones /\ lo(call.t) \in 0..ones /\ call.t = HALF * hi(call.t) + lo(call.t)
      /\ hi(clint.mtimecmp) \in 0..ones /\ lo(clint.mtimecmp) \in 0..ones
  BY <1>1, <1>3, Split DEF Compare
<1>5. ones \in 0..ones
  BY ClintAssumption DEF ones
<1>6. /\ fw \in {"s_far", "s_lo", "s_hi"} /\ fw' \in {"s_lo", "s_hi", "s_clear"}
      /\ clint'.mtime \in 0..MaxTime /\ clint'.mtime >= clint.mtime
      /\ clint'.mtimecmp \in Times
      /\ fw' = "s_lo" => \E l \in 0..ones : clint'.mtimecmp = HALF * ones + l
      /\ fw' = "s_hi" => clint'.mtimecmp = HALF * ones + lo(call.t)
      /\ fw' = "s_clear" => clint'.mtimecmp = call.t
  <2>1. clint.mtime \in 0..MaxTime
    BY <1>1 DEF Compare
  <2>2. CASE FwStore("s_far", [a |-> "cmp_hi", v |-> ones], "s_lo")
    <3> DEFINE w == [a |-> "cmp_hi", v |-> ones]
    <3>1. fw = "s_far" /\ fw' = "s_lo" /\ clint' = ClintEdge(clint, w)
      BY <2>2 DEF FwStore, Store
    <3>2. w.a = "cmp_hi"
      OBVIOUS
    <3>3. ClintEdge(clint, w).mtimecmp = HALF * ones + lo(clint.mtimecmp)
      BY <2>1, Ticks, Zenon
    <3> HIDE DEF w
    <3>4. LET m == ClintEdge(clint, w).mtime IN m \in 0..MaxTime /\ m >= clint.mtime
      BY <2>1, <3>2, Ticks
    <3>5. HALF * ones + lo(clint.mtimecmp) \in Times
      BY <1>4, <1>5, Join
    <3> QED
      BY <3>1, <3>3, <3>4, <3>5, <1>4
  <2>3. CASE FwStore("s_lo", [a |-> "cmp_lo", v |-> lo(call.t)], "s_hi")
    <3> DEFINE w == [a |-> "cmp_lo", v |-> lo(call.t)]
    <3>1. fw = "s_lo" /\ fw' = "s_hi" /\ clint' = ClintEdge(clint, w)
      BY <2>3 DEF FwStore, Store
    <3>2. w.a = "cmp_lo"
      OBVIOUS
    <3>3. ClintEdge(clint, w).mtimecmp = HALF * hi(clint.mtimecmp) + lo(call.t)
      BY <2>1, Ticks, Zenon
    <3> HIDE DEF w
    <3>4. LET m == ClintEdge(clint, w).mtime IN m \in 0..MaxTime /\ m >= clint.mtime
      BY <2>1, <3>2, Ticks
    <3>5. hi(clint.mtimecmp) = ones
      <4>1. PICK l \in 0..ones : clint.mtimecmp = HALF * ones + l
        BY <3>1, <1>1 DEF Compare
      <4> QED
        BY <4>1, <1>5, Join
    <3>6. HALF * ones + lo(call.t) \in Times
      BY <1>4, <1>5, Join
    <3> QED
      BY <3>1, <3>3, <3>4, <3>5, <3>6
  <2>4. CASE FwStore("s_hi", [a |-> "cmp_hi", v |-> hi(call.t)], "s_clear")
    <3> DEFINE w == [a |-> "cmp_hi", v |-> hi(call.t)]
    <3>1. fw = "s_hi" /\ fw' = "s_clear" /\ clint' = ClintEdge(clint, w)
      BY <2>4 DEF FwStore, Store
    <3>2. w.a = "cmp_hi"
      OBVIOUS
    <3>3. ClintEdge(clint, w).mtimecmp = HALF * hi(call.t) + lo(clint.mtimecmp)
      BY <2>1, Ticks, Zenon
    <3> HIDE DEF w
    <3>4. LET m == ClintEdge(clint, w).mtime IN m \in 0..MaxTime /\ m >= clint.mtime
      BY <2>1, <3>2, Ticks
    <3>5. lo(clint.mtimecmp) = lo(call.t)
      <4>1. clint.mtimecmp = HALF * ones + lo(call.t)
        BY <3>1, <1>1 DEF Compare
      <4> QED
        BY <4>1, <1>4, <1>5, Join
    <3> QED
      BY <3>1, <3>3, <3>4, <3>5, <1>3, <1>4
  <2> QED
    BY <2>2, <2>3, <2>4, Zenon DEF SetTimerStores
<1>7. Hart'
  BY <1>1, <1>2, <1>6, StaysInM DEF Hart, SameDeleg
<1>8. Handler'
  BY Zenon, <1>1, <1>2, <1>6 DEF Handler, FwSteps, Setting
<1>9. Compare'
  BY <1>2, <1>6 DEF Compare
<1>10. Deadline'
  <2>1. ~TimerTaken /\ ~TimerTaken'
    BY Zenon, <1>6 DEF TimerTaken
  <2>2. req \in Int /\ clint.mtime \in Int /\ clint'.mtime \in Int
    BY <1>1, <1>6 DEF Deadline, NoReq, Times, Compare
  <2>3. STI \in csr.mip_sw => req # NoReq /\ clint'.mtime >= req
    BY <1>1, <1>6, <2>2 DEF Deadline
  <2> QED
    BY <1>1, <1>2, <1>6, <2>1, <2>3 DEF Deadline
<1>11. NoPhantomSei'
  BY <1>1, <1>2 DEF NoPhantomSei
<1> QED
  BY <1>7, <1>8, <1>9, <1>10, <1>11 DEF SInv

\* sbi_trap returns: the mret goes back below M.
LEMMA ExitStep ==
    ASSUME SInv, Exit
    PROVE  SInv'
<1>1. /\ fw = "exit" /\ fw' = "run" /\ csr' = Mret(csr) /\ Store(NoWrite)
      /\ mcause' = mcause /\ call' = call /\ req' = req
  BY DEF Exit
<1>2. Hart /\ Handler /\ Compare /\ Deadline /\ NoPhantomSei
  BY DEF SInv
<1>3. Registers(csr') /\ csr'.priv = MPP(csr.mstatus) /\ SameDeleg(csr, csr') /\ SameIrqs(csr, csr')
  BY <1>1, <1>2, EdgeMret, Zenon DEF Hart
<1>4. /\ clint'.mtime \in 0..MaxTime /\ clint'.mtime >= clint.mtime
      /\ clint'.mtimecmp = clint.mtimecmp /\ clint.mtimecmp \in Times /\ clint.mtime \in 0..MaxTime
  BY <1>1, <1>2, StoreNothing DEF Compare
<1>5. Hart'
  <2>1. /\ MPP(csr.mstatus) \in {PRIV_S, PRIV_U} /\ csr.medeleg = MEDELEG /\ csr.mideleg = MIDELEG
    BY <1>1, <1>2 DEF Hart
  <2> QED
    BY <1>1, <1>3, <2>1 DEF Hart, SameDeleg, PRIV_M, PRIV_S, PRIV_U
<1>6. Handler'
  BY <1>1, <1>2 DEF Handler, FwSteps, Setting
<1>7. Compare'
  BY <1>1, <1>4 DEF Compare
<1>8. Deadline'
  <2>1. ~TimerTaken /\ ~TimerTaken'
    BY <1>1 DEF TimerTaken
  <2>2. req \in Int
    BY <1>2 DEF Deadline, NoReq, Times
  <2>3. STI \in csr.mip_sw => req # NoReq /\ clint'.mtime >= req
    BY <1>2, <1>4, <2>2 DEF Deadline
  <2> QED
    BY <1>1, <1>2, <1>3, <1>4, <2>1, <2>3 DEF Deadline, SameIrqs
<1>9. NoPhantomSei'
  BY <1>2, <1>3 DEF NoPhantomSei, SameIrqs
<1> QED
  BY <1>5, <1>6, <1>7, <1>8, <1>9 DEF SInv

\* Power-on, and the machine reset the payload asks for.
LEMMA PowerOn == Init => SInv
<1> SUFFICES ASSUME Init PROVE SInv
  OBVIOUS
<1>1. /\ csr = CsrInit("pc") /\ clint = ClintInit
      /\ fw = "rom" /\ mcause = Cause(FALSE, 0) /\ call = NoCall /\ req = NoReq
  BY DEF Init
<1> DEFINE ms == MPPBits(LEAST)
<1>2. csr = [priv |-> PRIV_M, mstatus |-> ms, medeleg |-> {}, mideleg |-> {}, mie |-> {}, mip_sw |-> {},
             mepc |-> "pc", sepc |-> "pc"]
  BY <1>1, Zenon DEF CsrInit
<1> HIDE DEF ms
<1>3. Hart /\ csr.mie = {} /\ csr.mip_sw = {}
  BY <1>1, <1>2 DEF Hart, Registers, RegNames
<1>4. Handler
  BY <1>1 DEF Handler, FwSteps, Setting, Calls, NoCall
<1>5. Compare
  BY <1>1, ClintAssumption DEF Compare, ClintInit, Times
<1>6. Deadline /\ NoPhantomSei
  BY <1>1, <1>3 DEF Deadline, NoPhantomSei, TimerTaken
<1> QED
  BY <1>3, <1>4, <1>5, <1>6 DEF SInv

LEMMA ResetStep == Reset => SInv'
<1>1. Reset => Init'
  BY DEF Reset, Init
<1> QED
  BY <1>1, PowerOn, PTL

\* One step of the machine, whoever takes it.
LEMMA Steps == SInv /\ [Next]_vars => SInv'
<1> SUFFICES ASSUME SInv, [Next]_vars PROVE SInv'
  OBVIOUS
<1>1. CASE UNCHANGED vars
  <2>1. csr' = csr /\ clint' = clint /\ fw' = fw /\ mcause' = mcause /\ call' = call /\ req' = req
    BY <1>1 DEF vars
  <2>2. Hart' <=> Hart
    BY <2>1, Zenon DEF Hart, Registers
  <2>3. Handler' <=> Handler
    BY <2>1, Zenon DEF Handler
  <2>4. (Compare' <=> Compare) /\ (Deadline' <=> Deadline) /\ (NoPhantomSei' <=> NoPhantomSei)
    BY <2>1 DEF Compare, Deadline, NoPhantomSei, TimerTaken
  <2> QED
    BY <2>2, <2>3, <2>4 DEF SInv
<1>2. CASE Stall \/ Spin
  BY <1>2, IdleStep, Zenon DEF Stall, Spin
<1>3. CASE EnterPayload \/ Dispatch \/ Ecall4 \/ Exit \/ Reset
  BY <1>3, EnterStep, DispatchStep, Ecall4Step, ExitStep, ResetStep, Zenon
<1>4. ASSUME NEW seip \in BOOLEAN, TimerTrap(seip) PROVE SInv'
  BY <1>4, MaskStep, RaiseStep, Zenon DEF TimerTrap
<1>5. ASSUME NEW seip \in BOOLEAN, SetTimer(seip) PROVE SInv'
  BY <1>5, StoresStep, ClearStep, UnmaskStep, Zenon DEF SetTimer
<1>6. ASSUME NEW seip \in BOOLEAN, PayloadCalls(seip) PROVE SInv'
  BY <1>6, PayloadStep, Zenon DEF PayloadCalls, Instruction
<1>7. ASSUME NEW seip \in BOOLEAN, NEW i \in PayloadInstrs, PayloadRuns(i, seip) PROVE SInv'
  <2>1. NoCall \in Calls
    BY DEF NoCall, Calls
  <2> QED
    BY <1>7, <2>1, PayloadStep, Zenon DEF PayloadRuns, Instruction
<1> QED
  BY <1>1, <1>2, <1>3, <1>4, <1>5, <1>6, <1>7, Zenon DEF Next, Firmware

LEMMA InvariantHolds == Spec => []SInv
BY PowerOn, Steps, PTL DEF Spec

(***************************************************************************)
(* The theorems.                                                           *)
(***************************************************************************)

\* Whatever the payload executes, every trap that reaches sbi_trap is one
\* it handles, and the hart is in M exactly while the firmware runs.
THEOREM TrapsAreKnown == Spec => []OnlyKnownTraps
<1>1. SInv => OnlyKnownTraps
  BY Zenon DEF SInv, Hart, Handler, OnlyKnownTraps
<1> QED
  BY <1>1, InvariantHolds, PTL

\* The payload never sees its timer early, a deadline is armed or pending
\* and never both, and mtimecmp is never in the past while set_timer's
\* stores move it.
THEOREM TimerIsExact == Spec => []TimerExact
<1>1. SInv => TimerExact
  <2> SUFFICES ASSUME SInv PROVE TimerExact
    OBVIOUS
  <2>1. Hart /\ Handler /\ Compare /\ Deadline
    BY DEF SInv
  <2>2. CASE fw = "s_lo"
    BY <2>1, <2>2, FarAway DEF TimerExact, Compare, timer_irq
  <2>3. CASE fw = "s_hi"
    <3>1. call.t \in Times
      <4>1. PICK t \in Deadlines : call = [k |-> "set_timer", t |-> t]
        BY <2>1, <2>3 DEF Handler, Calls, Setting
      <4> QED
        BY <4>1, SbiAssumption
    <3>2. lo(call.t) \in 0..ones
      BY <3>1, Split
    <3> QED
      BY <2>1, <2>3, <3>2, FarAway DEF TimerExact, Compare, timer_irq
  <2>4. CASE fw \notin {"s_lo", "s_hi"}
    BY <2>1, <2>4 DEF TimerExact, Deadline
  <2> QED
    BY <2>2, <2>3, <2>4
<1> QED
  BY <1>1, InvariantHolds, PTL

\* The supervisor external line is never captured in the software's bit by
\* the SBI's read-modify-writes of mip.
THEOREM SeiIsNeverCaptured == Spec => []NoPhantomSei
<1>1. SInv => NoPhantomSei
  BY DEF SInv
<1> QED
  BY <1>1, InvariantHolds, PTL
=============================================================================
