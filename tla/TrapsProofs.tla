---------------------------- MODULE TrapsProofs -----------------------------
(***************************************************************************)
(* Proofs about the trap controller csr_s.v, for every software, every     *)
(* setting of the interrupt lines and every choice of the built levels.    *)
(***************************************************************************)
EXTENDS Traps, TLAPS

(***************************************************************************)
(* The registers.                                                          *)
(***************************************************************************)

\* c is a record with the registers of csr_s.v for its fields.
RegNames == {"priv", "mstatus", "medeleg", "mideleg", "mie", "mip_sw", "mepc", "sepc"}
Registers(c) == c = [x \in RegNames |-> c[x]]

(***************************************************************************)
(* The bits of mstatus.                                                    *)
(***************************************************************************)
LEMMA MppBits ==
    ASSUME NEW ms, NEW p \in Modes
    PROVE  /\ MPP(WithMPP(ms, p)) = p
           /\ \A b : b \notin {11, 12} => (b \in WithMPP(ms, p) <=> b \in ms)
<1>1. p \in {0, 1, 3}
  BY DEF Modes, PRIV_M, PRIV_S, PRIV_U
<1>2. MPPBits(p) = CASE p = 0 -> {} [] p = 1 -> {11} [] p = 3 -> {11, 12}
  BY <1>1 DEF MPPBits
<1> QED
  BY <1>1, <1>2 DEF MPP, WithMPP

LEMMA LegalModes ==
    /\ LEAST \in Modes /\ PRIV_M \in Modes /\ (HAS_S => PRIV_S \in Modes /\ LEAST = PRIV_U)
    /\ \A p : legal_mpp(p) \in Modes
BY ModesAssumption DEF Modes, LEAST, legal_mpp, PRIV_M, PRIV_S, PRIV_U

LEMMA SameMpp ==
    ASSUME NEW a, NEW b, \A x : x \in {11, 12} => (x \in a <=> x \in b)
    PROVE  MPP(a) = MPP(b)
BY DEF MPP

\* csrw sstatus reaches SIE, SPIE and SPP and no other bit.
LEMMA StatusS ==
    ASSUME NEW ms, NEW v, NEW f3, NEW b, b \notin {1, 5, 8}
    PROVE  b \in MaskedNx(ms, SSTATUS_MASK, v, f3) <=> b \in ms
BY Zenon DEF MaskedNx, SSTATUS_MASK

(***************************************************************************)
(* What each edge does: a trap or a return moves the stack bits of its     *)
(* level and leaves every other register alone.                            *)
(***************************************************************************)
LEMMA TrapToSDoes ==
    ASSUME NEW c, NEW pc, NEW d, Registers(c), d = TrapToS(c, pc)
    PROVE  /\ Registers(d) /\ d.priv = PRIV_S /\ d.sepc = pc /\ d.mepc = c.mepc /\ d.mideleg = c.mideleg
           /\ \A b : b \notin {1, 5, 8} => (b \in d.mstatus <=> b \in c.mstatus)
           /\ 5 \in d.mstatus <=> 1 \in c.mstatus
           /\ 8 \in d.mstatus <=> c.priv = PRIV_S
<1> DEFINE ms == (c.mstatus \ {1, 5, 8}) \cup Bit(5, 1 \in c.mstatus) \cup Bit(8, c.priv = PRIV_S)
<1>1. d = [c EXCEPT !.sepc = pc, !.priv = PRIV_S, !.mstatus = ms]
  BY Zenon DEF TrapToS
<1>2. /\ \A b : b \notin {1, 5, 8} => (b \in ms <=> b \in c.mstatus)
      /\ 5 \in ms <=> 1 \in c.mstatus
      /\ 8 \in ms <=> c.priv = PRIV_S
  BY DEF Bit
<1> HIDE DEF ms
<1>3. Registers(d) /\ d.mstatus = ms /\ d.priv = PRIV_S /\ d.sepc = pc /\ d.mepc = c.mepc /\ d.mideleg = c.mideleg
  BY Zenon, <1>1 DEF Registers, RegNames
<1> QED
  BY <1>2, <1>3, Zenon

LEMMA TrapToMDoes ==
    ASSUME NEW c, NEW pc, NEW d, Registers(c), d = TrapToM(c, pc), c.priv \in Modes
    PROVE  /\ Registers(d) /\ d.priv = PRIV_M /\ d.mepc = pc /\ d.sepc = c.sepc /\ d.mideleg = c.mideleg
           /\ \A b : b \notin {3, 7, 11, 12} => (b \in d.mstatus <=> b \in c.mstatus)
           /\ 7 \in d.mstatus <=> 3 \in c.mstatus
           /\ MPP(d.mstatus) = c.priv
<1> DEFINE t  == (c.mstatus \ {3, 7}) \cup Bit(7, 3 \in c.mstatus)
           ms == WithMPP(t, c.priv)
<1>1. d = [c EXCEPT !.mepc = pc, !.priv = PRIV_M, !.mstatus = ms]
  BY Zenon DEF TrapToM
<1>2. /\ \A b : b \notin {3, 7, 11, 12} => (b \in ms <=> b \in c.mstatus)
      /\ 7 \in ms <=> 3 \in c.mstatus
      /\ MPP(ms) = c.priv
  <2>1. (\A b : b \notin {3, 7} => (b \in t <=> b \in c.mstatus)) /\ (7 \in t <=> 3 \in c.mstatus)
    BY DEF Bit
  <2> HIDE DEF t
  <2> QED
    BY <2>1, MppBits
<1> HIDE DEF ms
<1>3. Registers(d) /\ d.mstatus = ms /\ d.priv = PRIV_M /\ d.mepc = pc /\ d.sepc = c.sepc /\ d.mideleg = c.mideleg
  BY Zenon, <1>1 DEF Registers, RegNames
<1> QED
  BY <1>2, <1>3, Zenon

LEMMA MretDoes ==
    ASSUME NEW c, NEW d, Registers(c), d = Mret(c)
    PROVE  /\ Registers(d) /\ d.priv = MPP(c.mstatus) /\ d.mepc = c.mepc /\ d.sepc = c.sepc /\ d.mideleg = c.mideleg
           /\ \A b : b \notin {3, 7, 11, 12} => (b \in d.mstatus <=> b \in c.mstatus)
           /\ MPP(d.mstatus) = LEAST
<1> DEFINE t  == (c.mstatus \ {3, 7}) \cup Bit(3, 7 \in c.mstatus) \cup {7}
           ms == WithMPP(t, LEAST)
<1>1. d = [c EXCEPT !.priv = MPP(c.mstatus), !.mstatus = ms]
  BY Zenon DEF Mret
<1>2. /\ \A b : b \notin {3, 7, 11, 12} => (b \in ms <=> b \in c.mstatus)
      /\ MPP(ms) = LEAST
  <2>1. \A b : b \notin {3, 7} => (b \in t <=> b \in c.mstatus)
    BY DEF Bit
  <2> HIDE DEF t
  <2> QED
    BY <2>1, MppBits, LegalModes
<1> HIDE DEF ms
<1>3. Registers(d) /\ d.mstatus = ms /\ d.priv = MPP(c.mstatus) /\ d.mepc = c.mepc /\ d.sepc = c.sepc /\ d.mideleg = c.mideleg
  BY Zenon, <1>1 DEF Registers, RegNames
<1> QED
  BY <1>2, <1>3, Zenon

LEMMA SretDoes ==
    ASSUME NEW c, NEW d, Registers(c), d = Sret(c)
    PROVE  /\ Registers(d) /\ d.priv = (IF 8 \in c.mstatus THEN PRIV_S ELSE LEAST) /\ d.mepc = c.mepc /\ d.sepc = c.sepc /\ d.mideleg = c.mideleg
           /\ \A b : b \notin {1, 5, 8} => (b \in d.mstatus <=> b \in c.mstatus)
<1> DEFINE p == IF 8 \in c.mstatus THEN PRIV_S ELSE LEAST
           ms == (c.mstatus \ {1, 5, 8}) \cup Bit(1, 5 \in c.mstatus) \cup {5}
<1>1. d = [c EXCEPT !.priv = p, !.mstatus = ms]
  BY Zenon DEF Sret
<1>2. \A b : b \notin {1, 5, 8} => (b \in ms <=> b \in c.mstatus)
  BY DEF Bit
<1> HIDE DEF ms, p
<1>3. Registers(d) /\ d.mstatus = ms /\ d.priv = p /\ d.mepc = c.mepc /\ d.sepc = c.sepc /\ d.mideleg = c.mideleg
  BY Zenon, <1>1 DEF Registers, RegNames
<1> QED
  BY <1>2, <1>3, Zenon DEF p

LEMMA WriteDoes ==
    ASSUME NEW c, NEW l, NEW w, NEW d, Registers(c), w.a \in CsrNames, d = Write(c, l, w)
    PROVE  LET n == nx(c.mstatus, w.v, w.f3)
           IN  /\ Registers(d) /\ d.priv = c.priv
               /\ d.mepc = IF w.a = "mepc" THEN w.v ELSE c.mepc
               /\ d.sepc = IF w.a = "sepc" THEN w.v ELSE c.sepc
               /\ d.mstatus = CASE w.a = "mstatus" -> WithMPP(n, legal_mpp(MPP(n)))
                                [] w.a = "sstatus" -> MaskedNx(c.mstatus, SSTATUS_MASK, w.v, w.f3)
                                [] OTHER -> c.mstatus
<1> USE DEF Registers, RegNames, Write
<1>1. CASE w.a = "mstatus"   BY <1>1
<1>2. CASE w.a = "medeleg"   BY <1>2
<1>3. CASE w.a = "mideleg"   BY <1>3
<1>4. CASE w.a = "mie"       BY <1>4
<1>5. CASE w.a = "mip"       BY <1>5
<1>6. CASE w.a = "mepc"      BY <1>6
<1>7. CASE w.a = "sepc"      BY <1>7
<1>8. CASE w.a = "sstatus"   BY <1>8
<1>9. CASE w.a = "sie"       BY <1>9
<1>10. CASE w.a = "sip"      BY <1>10
<1> QED
  BY Zenon, <1>1, <1>2, <1>3, <1>4, <1>5, <1>6, <1>7, <1>8, <1>9, <1>10 DEF CsrNames

LEMMA WriteDelegates ==
    ASSUME NEW c, NEW l, NEW w, Registers(c), w.a \in CsrNames
    PROVE  Write(c, l, w).mideleg = IF w.a = "mideleg" /\ HAS_S THEN nx(c.mideleg, w.v, w.f3) ELSE c.mideleg
<1> USE DEF Registers, RegNames, Write
<1>1. CASE w.a = "mstatus"   BY <1>1
<1>2. CASE w.a = "medeleg"   BY <1>2
<1>3. CASE w.a = "mideleg"   BY <1>3
<1>4. CASE w.a = "mie"       BY <1>4
<1>5. CASE w.a = "mip"       BY <1>5
<1>6. CASE w.a = "mepc"      BY <1>6
<1>7. CASE w.a = "sepc"      BY <1>7
<1>8. CASE w.a = "sstatus"   BY <1>8
<1>9. CASE w.a = "sie"       BY <1>9
<1>10. CASE w.a = "sip"      BY <1>10
<1> QED
  BY Zenon, <1>1, <1>2, <1>3, <1>4, <1>5, <1>6, <1>7, <1>8, <1>9, <1>10 DEF CsrNames

(***************************************************************************)
(* The frames.                                                             *)
(***************************************************************************)
TInv == Registers(csr) /\ FrameIntact

\* The conjuncts of FrameIntact on a register file c.
SavedM(c, r) == r.valid => MPP(c.mstatus) = r.priv /\ (7 \in c.mstatus) = r.ie /\ c.mepc = r.pc
SavedS(c, r) ==
    r.valid => /\ (IF 8 \in c.mstatus THEN PRIV_S ELSE LEAST) = r.priv
               /\ (5 \in c.mstatus) = r.ie
               /\ c.sepc = r.pc
InModes(c) == c.priv \in Modes /\ MPP(c.mstatus) \in Modes

LEMMA Keeps ==
    ASSUME NEW c, NEW d, NEW r
    PROVE  /\ (\A b \in {7, 11, 12} : b \in c.mstatus <=> b \in d.mstatus) /\ c.mepc = d.mepc /\ SavedM(c, r)
                  => SavedM(d, r)
           /\ (\A b \in {5, 8} : b \in c.mstatus <=> b \in d.mstatus) /\ c.sepc = d.sepc /\ SavedS(c, r)
                  => SavedS(d, r)
           /\ SavedM(c, NoFrame) /\ SavedS(c, NoFrame)
<1>1. (\A b \in {7, 11, 12} : b \in c.mstatus <=> b \in d.mstatus)
         => MPP(c.mstatus) = MPP(d.mstatus) /\ (7 \in c.mstatus) = (7 \in d.mstatus)
  BY SameMpp
<1>2. (\A b \in {5, 8} : b \in c.mstatus <=> b \in d.mstatus)
         => (8 \in c.mstatus) = (8 \in d.mstatus) /\ (5 \in c.mstatus) = (5 \in d.mstatus)
  OBVIOUS
<1>3. SavedM(c, NoFrame) /\ SavedS(c, NoFrame)
  BY DEF SavedM, SavedS, NoFrame
<1> QED
  BY <1>1, <1>2, <1>3, Zenon DEF SavedM, SavedS

LEMMA ModeBits == HAS_S => \A p \in Modes : p # PRIV_M => p = IF p = PRIV_S THEN PRIV_S ELSE LEAST
BY ModesAssumption DEF Modes, LEAST, PRIV_M, PRIV_S, PRIV_U

LEMMA FramesStep ==
    ASSUME TInv, NEW i \in Instrs, NEW lines, NEW pc, Step(i, lines, pc)
    PROVE  TInv'
<1> DEFINE trap == take_trap(csr, lines, i)
           toS == trap /\ deleg(csr, trap_cause(csr, lines, i))
<1>1. Registers(csr) /\ SavedM(csr, retM) /\ SavedS(csr, retS) /\ InModes(csr)
  BY Zenon DEF TInv, FrameIntact, SavedM, SavedS, InModes
<1>2. SUFFICES Registers(csr') /\ SavedM(csr', retM') /\ SavedS(csr', retS') /\ InModes(csr')
  BY Zenon DEF TInv, FrameIntact, SavedM, SavedS, InModes, Modes
<1>3. /\ csr' = CsrEdge(csr, lines, i, pc)
      /\ retM' = IF trap /\ ~toS THEN Frame(csr, 3, pc)
                 ELSE IF ~trap /\ (i.op = "mret" \/ Writes(i, {"mstatus", "mepc"})) THEN NoFrame ELSE retM
      /\ retS' = IF toS THEN Frame(csr, 1, pc)
                 ELSE IF ~trap /\ (i.op = "sret" \/ Writes(i, {"mstatus", "sstatus", "sepc"})) THEN NoFrame
                 ELSE retS
  BY Zenon DEF Step
<1>4. csr.priv \in Modes /\ MPP(csr.mstatus) \in Modes
  BY <1>1 DEF InModes
<1>5. CASE toS
  <2>1. csr' = TrapToS(csr, pc) /\ retM' = retM /\ retS' = Frame(csr, 1, pc)
    BY <1>3, <1>5, Zenon DEF CsrEdge, Trap
  <2>2. /\ Registers(csr') /\ csr'.priv = PRIV_S /\ csr'.sepc = pc /\ csr'.mepc = csr.mepc
        /\ \A b : b \notin {1, 5, 8} => (b \in csr'.mstatus <=> b \in csr.mstatus)
        /\ 5 \in csr'.mstatus <=> 1 \in csr.mstatus
        /\ 8 \in csr'.mstatus <=> csr.priv = PRIV_S
    BY <2>1, <1>1, TrapToSDoes
  <2>4. HAS_S /\ csr.priv # PRIV_M
    BY <1>5, Zenon DEF deleg
  <2>5. SavedS(csr', retS')
    <3>1. (IF 8 \in csr'.mstatus THEN PRIV_S ELSE LEAST) = csr.priv
      BY <2>2, <2>4, <1>4, ModeBits, Zenon
    <3>2. (5 \in csr'.mstatus) = (1 \in csr.mstatus)
      BY <2>2
    <3> QED
      BY <2>1, <2>2, <3>1, <3>2 DEF SavedS, Frame
  <2>6. \A b \in {7, 11, 12} : b \in csr.mstatus <=> b \in csr'.mstatus
    BY <2>2
  <2>7. SavedM(csr', retM')
    BY <2>6, <2>1, <2>2, <1>1, Keeps
  <2>8. MPP(csr'.mstatus) = MPP(csr.mstatus)
    BY <2>6, SameMpp
  <2> QED
    BY <2>2, <2>4, <2>5, <2>7, <2>8, <1>4, LegalModes, Zenon DEF InModes
<1>6. CASE trap /\ ~toS
  <2>1. csr' = TrapToM(csr, pc) /\ retM' = Frame(csr, 3, pc) /\ retS' = retS
    BY <1>3, <1>6, Zenon DEF CsrEdge, Trap
  <2>2. /\ Registers(csr') /\ csr'.priv = PRIV_M /\ csr'.mepc = pc /\ csr'.sepc = csr.sepc
        /\ \A b : b \notin {3, 7, 11, 12} => (b \in csr'.mstatus <=> b \in csr.mstatus)
        /\ 7 \in csr'.mstatus <=> 3 \in csr.mstatus
        /\ MPP(csr'.mstatus) = csr.priv
    BY <2>1, <1>1, <1>4, TrapToMDoes
  <2>4. SavedM(csr', retM')
    <3>1. (7 \in csr'.mstatus) = (3 \in csr.mstatus)
      BY <2>2
    <3> QED
      BY <2>1, <2>2, <3>1 DEF SavedM, Frame
  <2>5. \A b \in {5, 8} : b \in csr.mstatus <=> b \in csr'.mstatus
    BY <2>2
  <2>6. SavedS(csr', retS')
    BY <2>5, <2>1, <2>2, <1>1, Keeps, Zenon
  <2> QED
    BY <2>2, <2>4, <2>6, <1>4, LegalModes, Zenon DEF InModes
<1>7. CASE ~trap /\ i.op = "mret"
  <2>1. csr' = Mret(csr) /\ retM' = NoFrame /\ retS' = retS
    BY <1>3, <1>7 DEF CsrEdge, Writes
  <2>2. /\ Registers(csr') /\ csr'.priv = MPP(csr.mstatus) /\ csr'.sepc = csr.sepc
        /\ \A b : b \notin {3, 7, 11, 12} => (b \in csr'.mstatus <=> b \in csr.mstatus)
        /\ MPP(csr'.mstatus) = LEAST
    BY <2>1, <1>1, MretDoes, Zenon
  <2>4. \A b \in {5, 8} : b \in csr.mstatus <=> b \in csr'.mstatus
    BY <2>2
  <2>5. SavedM(csr', retM') /\ SavedS(csr', retS')
    BY <2>4, <2>1, <2>2, <1>1, Keeps, Zenon
  <2> QED
    BY <2>2, <2>5, <1>4, LegalModes, Zenon DEF InModes
<1>8. CASE ~trap /\ i.op = "sret"
  <2>1. csr' = Sret(csr) /\ retM' = retM /\ retS' = NoFrame
    BY <1>3, <1>8 DEF CsrEdge, Writes
  <2>2. /\ Registers(csr') /\ csr'.priv = (IF 8 \in csr.mstatus THEN PRIV_S ELSE LEAST) /\ csr'.mepc = csr.mepc
        /\ \A b : b \notin {1, 5, 8} => (b \in csr'.mstatus <=> b \in csr.mstatus)
    BY <2>1, <1>1, SretDoes, Zenon
  <2>3. HAS_S
    BY <1>8 DEF take_trap, exception
  <2>4. \A b \in {7, 11, 12} : b \in csr.mstatus <=> b \in csr'.mstatus
    BY <2>2
  <2>5. SavedM(csr', retM') /\ SavedS(csr', retS')
    BY <2>4, <2>1, <2>2, <1>1, Keeps, Zenon
  <2>6. MPP(csr'.mstatus) = MPP(csr.mstatus)
    BY <2>4, SameMpp
  <2> QED
    BY <2>2, <2>3, <2>5, <2>6, <1>4, LegalModes, Zenon DEF InModes
<1>9. CASE ~trap /\ i.op = "csr"
  <2> DEFINE n == nx(csr.mstatus, i.w.v, i.w.f3)
  <2>1. csr' = Write(csr, lines, i.w) /\ i.w.a \in CsrNames
    BY <1>3, <1>9, InstrsAssumption DEF CsrEdge
  <2>2. /\ retM' = IF i.w.a \in {"mstatus", "mepc"} THEN NoFrame ELSE retM
        /\ retS' = IF i.w.a \in {"mstatus", "sstatus", "sepc"} THEN NoFrame ELSE retS
    BY <1>3, <1>9 DEF Writes
  <2>3. /\ Registers(csr') /\ csr'.priv = csr.priv
        /\ csr'.mepc = IF i.w.a = "mepc" THEN i.w.v ELSE csr.mepc
        /\ csr'.sepc = IF i.w.a = "sepc" THEN i.w.v ELSE csr.sepc
        /\ csr'.mstatus = CASE i.w.a = "mstatus" -> WithMPP(n, legal_mpp(MPP(n)))
                             [] i.w.a = "sstatus" -> MaskedNx(csr.mstatus, SSTATUS_MASK, i.w.v, i.w.f3)
                             [] OTHER -> csr.mstatus
    BY <2>1, <1>1, WriteDoes
  <2> HIDE DEF n
  <2>4. CASE i.w.a = "mstatus"
    <3>1. SavedM(csr', retM') /\ SavedS(csr', retS')
      BY <2>4, <2>2, Keeps
    <3>2. MPP(csr'.mstatus) \in Modes
      BY <2>4, <2>3, LegalModes, MppBits
    <3> QED
      BY <2>3, <3>1, <3>2, <1>4, Zenon DEF InModes
  <2>5. CASE i.w.a = "sstatus"
    <3>1. \A b \in {7, 11, 12} : b \in csr.mstatus <=> b \in csr'.mstatus
      BY <2>5, <2>3, StatusS
    <3>2. SavedM(csr', retM') /\ SavedS(csr', retS')
      BY <2>5, <2>2, <2>3, <3>1, <1>1, Keeps
    <3>3. MPP(csr'.mstatus) = MPP(csr.mstatus)
      BY <3>1, SameMpp
    <3> QED
      BY <2>3, <3>2, <3>3, <1>4, Zenon DEF InModes
  <2>6. CASE i.w.a \notin {"mstatus", "sstatus"}
    <3>1. csr'.mstatus = csr.mstatus
      BY <2>6, <2>3
    <3>2. SavedM(csr', retM')
      BY <2>6, <2>2, <2>3, <3>1, <1>1, Keeps
    <3>3. SavedS(csr', retS')
      BY <2>6, <2>2, <2>3, <3>1, <1>1, Keeps
    <3> QED
      BY <2>3, <3>1, <3>2, <3>3, <1>4, Zenon DEF InModes
  <2> QED
    BY <2>4, <2>5, <2>6
<1>10. CASE ~trap /\ i.op \notin {"mret", "sret", "csr"}
  <2>1. csr' = csr /\ retM' = retM /\ retS' = retS
    BY <1>3, <1>10 DEF CsrEdge, Writes
  <2> QED
    BY <2>1, <1>1, Zenon
<1> QED
  BY <1>5, <1>6, <1>7, <1>8, <1>9, <1>10

LEMMA TInvHolds == Spec => []TInv
<1>1. Init => TInv
  <2> SUFFICES ASSUME Init PROVE TInv
    OBVIOUS
  <2>1. PICK pc \in Pcs : csr = CsrInit(pc) /\ retM = NoFrame /\ retS = NoFrame
    BY DEF Init
  <2>2. Registers(csr) /\ csr.priv = PRIV_M /\ csr.mstatus = MPPBits(LEAST)
    BY <2>1 DEF Registers, RegNames, CsrInit
  <2>3. MPPBits(LEAST) = WithMPP({}, LEAST)
    BY DEF WithMPP
  <2>4. MPP(csr.mstatus) = LEAST
    BY <2>2, <2>3, MppBits, LegalModes
  <2> QED
    BY <2>1, <2>2, <2>4, LegalModes, Keeps, Zenon DEF TInv, FrameIntact, SavedM, SavedS
<1>2. TInv /\ [Next]_vars => TInv'
  <2> SUFFICES ASSUME TInv, [Next]_vars PROVE TInv'
    OBVIOUS
  <2>1. CASE Next
    BY <2>1, FramesStep, Zenon DEF Next
  <2>2. CASE UNCHANGED vars
    BY <2>2, Zenon DEF vars, TInv, Registers, FrameIntact
  <2> QED
    BY <2>1, <2>2
<1> QED
  BY <1>1, <1>2, PTL DEF Spec

(* What the trap to a level saved is what its return finds, for any        *)
(* software: traps, returns and CSR writes of the other level in between   *)
(* cannot disturb it (csr_s.v, the mstatus stack).                         *)
THEOREM FramesStayIntact == Spec => []FrameIntact
<1>1. TInv => FrameIntact
  BY DEF TInv
<1> QED
  BY <1>1, TInvHolds, PTL

(***************************************************************************)
(* The interrupts.                                                         *)
(***************************************************************************)

\* A machine interrupt is never delegated, and nothing is without S mode.
OnlySDelegated == csr.mideleg \subseteq S_INT_MASK /\ (~HAS_S => csr.mideleg = {})

LEMMA DelegStep ==
    ASSUME TInv, OnlySDelegated, NEW i \in Instrs, NEW lines, NEW pc, Step(i, lines, pc)
    PROVE  OnlySDelegated'
<1>1. Registers(csr) /\ csr.priv \in Modes /\ csr' = CsrEdge(csr, lines, i, pc)
  BY Zenon DEF TInv, FrameIntact, Step
<1>2. CASE take_trap(csr, lines, i)
  <2>1. csr' = TrapToS(csr, pc) \/ csr' = TrapToM(csr, pc)
    BY <1>1, <1>2, Zenon DEF CsrEdge, Trap
  <2>2. csr'.mideleg = csr.mideleg
    <3>1. TrapToS(csr, pc).mideleg = csr.mideleg
      BY <1>1, TrapToSDoes
    <3>2. TrapToM(csr, pc).mideleg = csr.mideleg
      BY <1>1, TrapToMDoes
    <3> QED
      BY <2>1, <3>1, <3>2, Zenon
  <2> QED
    BY <2>2 DEF OnlySDelegated
<1>3. CASE ~take_trap(csr, lines, i) /\ i.op = "csr"
  <2>1. csr' = Write(csr, lines, i.w) /\ i.w.a \in CsrNames /\ i.w.f3 \in {"w", "s", "c"}
    BY <1>1, <1>3, InstrsAssumption DEF CsrEdge
  <2>2. csr'.mideleg = IF i.w.a = "mideleg" /\ HAS_S THEN nx(csr.mideleg, i.w.v, i.w.f3) ELSE csr.mideleg
    <3>1. Write(csr, lines, i.w).mideleg
            = IF i.w.a = "mideleg" /\ HAS_S THEN nx(csr.mideleg, i.w.v, i.w.f3) ELSE csr.mideleg
      BY Zenon, <2>1, <1>1, WriteDelegates
    <3> QED
      BY <2>1, <3>1, Zenon
  <2>3. i.w.a = "mideleg" => nx(csr.mideleg, i.w.v, i.w.f3) \subseteq S_INT_MASK
    BY <2>1, <1>3, DelegAssumption DEF nx, OnlySDelegated
  <2> QED
    BY <2>2, <2>3, ModesAssumption DEF OnlySDelegated, S_INT_MASK
<1>4. CASE ~take_trap(csr, lines, i) /\ i.op # "csr"
  <2>1. csr' = Mret(csr) \/ csr' = Sret(csr) \/ csr' = csr
    BY <1>1, <1>4 DEF CsrEdge
  <2>2. Mret(csr).mideleg = csr.mideleg /\ Sret(csr).mideleg = csr.mideleg
    BY <1>1, MretDoes, SretDoes
  <2>3. csr'.mideleg = csr.mideleg
    BY <2>1, <2>2, Zenon
  <2> QED
    BY <2>3 DEF OnlySDelegated
<1> QED
  BY <1>2, <1>3, <1>4

\* Every nonempty set of interrupts has a first one in the order of rank.
LEMMA FirstOfRank ==
    ASSUME NEW F, F # {}, F \subseteq {SSI, STI, MTI, SEI, MEI}
    PROVE  \E i \in F : \A j \in F : rank(i) <= rank(j)
<1>1. rank(MEI) = 1 /\ rank(MTI) = 3 /\ rank(SEI) = 4 /\ rank(SSI) = 5 /\ rank(STI) = 6
  BY DEF rank, SSI, MSI, STI, MTI, SEI, MEI
<1>2. CASE MEI \in F   BY <1>1, <1>2
<1>3. CASE MEI \notin F /\ MTI \in F   BY <1>1, <1>3
<1>4. CASE MEI \notin F /\ MTI \notin F /\ SEI \in F   BY <1>1, <1>4
<1>5. CASE MEI \notin F /\ MTI \notin F /\ SEI \notin F /\ SSI \in F   BY <1>1, <1>5
<1>6. CASE MEI \notin F /\ MTI \notin F /\ SEI \notin F /\ SSI \notin F   BY <1>1, <1>6
<1> QED
  BY <1>2, <1>3, <1>4, <1>5, <1>6

LEMMA IrqsFollow ==
    ASSUME TInv, OnlySDelegated
    PROVE  IrqAsSpecified
<1> SUFFICES ASSUME NEW lines \in SUBSET Lines
             PROVE  LET ready == {i \in csr.mie \cap mip(csr, lines) : MayInterrupt(i)}
                        cause == irq_cause(csr, lines)
                    IN /\ irq_pending(csr, lines) <=> ready # {}
                       /\ irq_pending(csr, lines) =>
                            /\ cause.n \in ready
                            /\ Trap(csr, csr.mepc, cause).priv = Target(cause.n)
  BY Zenon DEF IrqAsSpecified
<1> DEFINE ready == {i \in csr.mie \cap mip(csr, lines) : MayInterrupt(i)}
           F == f(csr, lines)
<1>1. Registers(csr) /\ csr.priv \in {0, 1, 3} /\ csr.priv \in Modes
  BY DEF TInv, FrameIntact, Modes, PRIV_M, PRIV_S, PRIV_U
<1>2. ready = F
  <2>1. SUFFICES ASSUME NEW i PROVE MayInterrupt(i)
                     <=> IF i \in S_INT_MASK /\ i \in csr.mideleg THEN glob_s(csr) ELSE glob_m(csr)
    BY Zenon DEF f
  <2>2. CASE i \in S_INT_MASK /\ i \in csr.mideleg
    BY <1>1, <2>2 DEF MayInterrupt, Target, IE, glob_s, PRIV_M, PRIV_S
  <2>3. CASE ~(i \in S_INT_MASK /\ i \in csr.mideleg)
    BY <1>1, <2>3 DEF MayInterrupt, Target, IE, glob_m, PRIV_M, PRIV_S
  <2> QED
    BY <2>2, <2>3
<1>3. SUFFICES ASSUME F # {}
               PROVE  /\ irq_cause(csr, lines).n \in F
                      /\ Trap(csr, csr.mepc, irq_cause(csr, lines)).priv = Target(irq_cause(csr, lines).n)
  BY <1>2, Zenon DEF irq_pending
<1> DEFINE n == CHOOSE i \in F : \A j \in F : rank(i) <= rank(j)
<1>4. F \subseteq {SSI, STI, MTI, SEI, MEI}
  BY DEF f, mip, S_INT_MASK
<1>5. irq_cause(csr, lines) = Cause(TRUE, n)
  BY Zenon DEF irq_cause
<1>6. n \in F
  BY <1>3, <1>4, FirstOfRank, Zenon
<1>7. n \in csr.mideleg => HAS_S /\ csr.priv # PRIV_M /\ n \in S_INT_MASK
  <2>1. n \in csr.mideleg /\ n \in S_INT_MASK => glob_s(csr)
    BY <1>6, Zenon DEF f
  <2>2. glob_s(csr) => csr.priv # PRIV_M
    BY <1>1 DEF glob_s, PRIV_S, PRIV_M
  <2>3. n \in csr.mideleg => HAS_S /\ n \in S_INT_MASK
    BY DEF OnlySDelegated
  <2> QED
    BY <2>1, <2>2, <2>3, Zenon
<1> HIDE DEF n, F
<1>8. Cause(TRUE, n).n = n /\ Cause(TRUE, n).is_int = TRUE
  BY DEF Cause
<1>9. deleg(csr, Cause(TRUE, n)) <=> n \in csr.mideleg
  BY <1>7, <1>8, Zenon DEF deleg
<1>10. Trap(csr, csr.mepc, Cause(TRUE, n)).priv = IF n \in csr.mideleg THEN PRIV_S ELSE PRIV_M
  <2>1. CASE n \in csr.mideleg
    <3>1. Trap(csr, csr.mepc, Cause(TRUE, n)) = TrapToS(csr, csr.mepc)
      BY <2>1, <1>9, Zenon DEF Trap
    <3>2. TrapToS(csr, csr.mepc).priv = PRIV_S
      BY <1>1, TrapToSDoes
    <3> QED
      BY <2>1, <3>1, <3>2, Zenon
  <2>2. CASE n \notin csr.mideleg
    <3>1. Trap(csr, csr.mepc, Cause(TRUE, n)) = TrapToM(csr, csr.mepc)
      BY <2>2, <1>9, Zenon DEF Trap
    <3>2. TrapToM(csr, csr.mepc).priv = PRIV_M
      BY <1>1, TrapToMDoes
    <3> QED
      BY <2>2, <3>1, <3>2, Zenon
  <2> QED
    BY Zenon, <2>1, <2>2
<1> QED
  BY <1>5, <1>6, <1>7, <1>8, <1>10, Zenon DEF Target

(* An interrupt is taken exactly when an enabled, pending one targets a    *)
(* higher level or the current one with its enable set, and goes to the    *)
(* level it targets (csr_s.v, f_mei .. f_sti, irq_cause and trap_to_s),    *)
(* for any software that delegates only the supervisor's interrupts.       *)
THEOREM IrqsAsSpecified == Spec => []IrqAsSpecified
<1>1. Init => OnlySDelegated
  BY DEF Init, CsrInit, OnlySDelegated
<1>2. TInv /\ OnlySDelegated /\ [Next]_vars => OnlySDelegated'
  <2> SUFFICES ASSUME TInv, OnlySDelegated, [Next]_vars PROVE OnlySDelegated'
    OBVIOUS
  <2>1. CASE Next
    BY <2>1, DelegStep, Zenon DEF Next
  <2>2. CASE UNCHANGED vars
    BY <2>2, Zenon DEF vars, OnlySDelegated
  <2> QED
    BY <2>1, <2>2
<1> QED
  BY <1>1, <1>2, IrqsFollow, TInvHolds, PTL DEF Spec
=============================================================================
