-------------------------------- MODULE Sbi ---------------------------------
(***************************************************************************)
(* The resident SBI (sw/boot/rom_sbi.c, entered through rom_start.S) on    *)
(* the hart of module CsrS and the timer rtl/clint_sifive.v, below a       *)
(* payload that runs in S and U mode and does what it likes.               *)
(*                                                                         *)
(* S mode cannot see mtimecmp, so the SBI turns the machine timer into the *)
(* supervisor one: on a machine timer interrupt it masks MTIE and raises   *)
(* STIP; sbi_set_timer writes mtimecmp, clears STIP and unmasks MTIE.  The *)
(* clock ticks on every step, an instruction that waits is a Stall, and    *)
(* the supervisor external line seip moves freely.                         *)
(*                                                                         *)
(* Left out: the text the console calls print, and the registers a call    *)
(* saves, restores and answers in.                                         *)
(***************************************************************************)
EXTENDS CsrS, Integers

(***************************************************************************)
(* The core-local interruptor: mtime, mtimecmp and msip as one record t.   *)
(* The two 64-bit registers are written by halves; HALF is the number of   *)
(* values of a half (2^32 in the hardware).                                *)
(***************************************************************************)
CONSTANTS HALF,
          MaxTime     \* bound: mtime stops there

(* No run of the machine lasts 2^64 - 2^32 ticks.                          *)
ASSUME ClintAssumption == HALF \in Nat \ {0, 1} /\ MaxTime \in 0..(HALF * (HALF - 1) - 1)

Times == 0..(HALF * HALF - 1)
hi(x) == x \div HALF
lo(x) == x % HALF
ones == HALF - 1     \* 0xFFFFFFFF

(* Reset: no interrupt until armed.                                        *)
ClintInit == [mtime |-> 0, mtimecmp |-> HALF * HALF - 1, msip |-> 0]

timer_irq(t) == t.mtime >= t.mtimecmp
soft_irq(t) == t.msip = 1

NoWrite == [a |-> "none", v |-> 0]

tick(x) == IF x = MaxTime THEN x ELSE x + 1

(* A clock edge: the tick, and the store of this cycle, which wins over it *)
(* for the half it names.                                                  *)
ClintEdge(t, w) ==
  LET now == tick(t.mtime) IN
  [mtime |-> CASE w.a = "mtime_lo" -> HALF * hi(now) + w.v
               [] w.a = "mtime_hi" -> HALF * w.v + lo(now)
               [] OTHER -> now,
   mtimecmp |-> CASE w.a = "cmp_lo" -> HALF * hi(t.mtimecmp) + w.v
                  [] w.a = "cmp_hi" -> HALF * w.v + lo(t.mtimecmp)
                  [] OTHER -> t.mtimecmp,
   msip |-> IF w.a = "msip" THEN w.v % 2 ELSE t.msip]

(***************************************************************************)
(* The payload and the SBI.                                                *)
(***************************************************************************)
CONSTANTS Deadlines,       \* the times the payload asks for
          PayloadInstrs    \* its instructions, but for ecall

(* The exceptions of the core other than ecall (trap_cause, cpu_pipe_u.v). *)
Faults == {0, 1, 2, 3, 4, 5, 6, 7, 12, 13, 15}

(* The SBI serves payloads in S mode, which may execute anything.          *)
ASSUME SbiAssumption ==
  /\ HAS_S /\ Deadlines \subseteq Times
  /\ [op |-> "other"] \in PayloadInstrs
  /\ \A i \in PayloadInstrs :
       /\ i.op \in {"csr", "mret", "sret", "fault", "other"}
       /\ i.op = "csr" => i.w.a \in CsrNames
       /\ i.op = "fault" => i.n \in Faults

VARIABLES
  csr, clint,
  fw,        \* where the firmware is: "rom", "run" (the payload runs), or a step of sbi_trap
  mcause,    \* the cause of the last trap to M
  call,      \* what the payload's a7, a6, a0, a1 ask: an SBI call
  req        \* history: the deadline of the last completed set_timer, or NoReq

vars == <<csr, clint, fw, mcause, call, req>>

Calls == {[k |-> "set_timer", t |-> t] : t \in Deadlines} \cup {[k |-> k] : k \in {"console", "unsupported", "reset", "shutdown"}}
NoCall == [k |-> "unsupported"]
NoReq == -1

Init ==
  /\ csr = CsrInit("pc") /\ clint = ClintInit
  /\ fw = "rom" /\ mcause = Cause(FALSE, 0) /\ call = NoCall /\ req = NoReq

lines(seip) == (IF timer_irq(clint) THEN {MTI} ELSE {}) \cup (IF seip THEN {SEI} ELSE {})

W(a, f3, v) == [a |-> a, f3 |-> f3, v |-> v]

(* What the ROM delegates before it enters the payload.                    *)
MEDELEGNoMisaligned == {0, 2, 3, 8, 1, 5, 7, 12, 13, 15}
MEDELEG == {0, 2, 3, 8, 4, 6, 1, 5, 7, 12, 13, 15}
MIDELEG == {SSI, STI, SEI}

Store(w) == clint' = ClintEdge(clint, w)

(* rom_main's last lines and enter_payload: delegate, MPP = S, MPIE = 0,   *)
(* mret.                                                                   *)
DelegateExceptions(c) == Write(c, {}, W("medeleg", "w", MEDELEG))
DelegateInterrupts(c) == Write(c, {}, W("mideleg", "w", MIDELEG))
ClearMpp(c) == Write(c, {}, W("mstatus", "c", {11, 12, 7}))
SetMppS(c) == Write(c, {}, W("mstatus", "s", {11}))
EnterPayload ==
  /\ fw = "rom"
  /\ csr' = Mret(SetMppS(ClearMpp(DelegateInterrupts(DelegateExceptions(csr)))))
  /\ fw' = "run" /\ Store(NoWrite)
  /\ UNCHANGED <<mcause, call, req>>

(* One instruction i of the payload; an ecall names its call c.            *)
Payload(i, c, seip) ==
  LET l == lines(seip)
      trap == take_trap(csr, l, i)
      cause == trap_cause(csr, l, i)
  IN /\ fw = "run"
     /\ csr' = CsrEdge(csr, l, i, "pc")
     /\ IF trap /\ ~deleg(csr, cause) THEN fw' = "entry" /\ mcause' = cause /\ call' = c
        ELSE UNCHANGED <<fw, mcause, call>>
     /\ Store(NoWrite) /\ UNCHANGED req

PayloadCalls(seip) == \E c \in Calls : Payload([op |-> "ecall"], c, seip)
PayloadRuns(i, seip) == Payload(i, NoCall, seip)

(* A step of the firmware that is one CSR instruction, or one store to the *)
(* CLINT.                                                                  *)
FwCsr(at, w, next, seip) ==
  /\ fw = at /\ fw' = next
  /\ csr' = Write(csr, lines(seip), w) /\ Store(NoWrite)
  /\ UNCHANGED <<mcause, call, req>>
FwStore(at, w, next) ==
  /\ fw = at /\ fw' = next /\ Store(w)
  /\ UNCHANGED <<csr, mcause, call, req>>

(* sbi_trap: the registers are saved and the cause decides.                *)
Dispatch ==
  /\ fw = "entry"
  /\ fw' = CASE mcause = Cause(TRUE, MTI) -> "t_mask"
             [] mcause = Cause(FALSE, 9) -> (CASE call.k = "set_timer" -> "s_far"
                                               [] call.k = "reset" -> "reset"
                                               [] call.k = "shutdown" -> "off"
                                               [] OTHER -> "e_mepc")
             [] OTHER -> "unexpected"
  /\ Store(NoWrite) /\ UNCHANGED <<csr, mcause, call, req>>

(* machine timer -> supervisor timer                                       *)
TimerTrapNoMask(seip) ==
  \/ FwCsr("t_mask", W("mie", "c", {}), "t_raise", seip)
  \/ FwCsr("t_raise", W("mip", "s", {STI}), "exit", seip)
TimerTrap(seip) ==
  \/ FwCsr("t_mask", W("mie", "c", {MTI}), "t_raise", seip)
  \/ FwCsr("t_raise", W("mip", "s", {STI}), "exit", seip)

(* set_timer, store by store                                               *)
SetTimerStoresNoFar(t) ==
  \/ FwStore("s_far", NoWrite, "s_lo")
  \/ FwStore("s_lo", [a |-> "cmp_lo", v |-> lo(t)], "s_hi")
  \/ FwStore("s_hi", [a |-> "cmp_hi", v |-> hi(t)], "s_clear")
SetTimerStores(t) ==
  \/ FwStore("s_far", [a |-> "cmp_hi", v |-> ones], "s_lo")
  \/ FwStore("s_lo", [a |-> "cmp_lo", v |-> lo(t)], "s_hi")
  \/ FwStore("s_hi", [a |-> "cmp_hi", v |-> hi(t)], "s_clear")

SetTimerClearNothing(seip) == FwCsr("s_clear", W("mip", "c", {}), "s_unmask", seip)
SetTimerClear(seip) == FwCsr("s_clear", W("mip", "c", {STI}), "s_unmask", seip)

SetTimerUnmaskNot(t) ==
  /\ fw = "s_unmask" /\ fw' = "e_mepc"
  /\ UNCHANGED csr /\ req' = t
  /\ Store(NoWrite) /\ UNCHANGED <<mcause, call>>
SetTimerUnmask(t) ==
  /\ fw = "s_unmask" /\ fw' = "e_mepc"
  /\ csr' = Write(csr, {}, W("mie", "s", {MTI})) /\ req' = t
  /\ Store(NoWrite) /\ UNCHANGED <<mcause, call>>

SetTimer(seip) ==
  /\ call.k = "set_timer"
  /\ SetTimerStores(call.t) \/ SetTimerClear(seip) \/ SetTimerUnmask(call.t)

(* An ecall resumes after itself.                                          *)
Ecall4 == FwCsr("e_mepc", W("mepc", "w", "pc+4"), "exit", FALSE)

Exit ==
  /\ fw = "exit" /\ fw' = "run"
  /\ csr' = Mret(csr) /\ Store(NoWrite)
  /\ UNCHANGED <<mcause, call, req>>

(* fw_reset: the test device resets the whole machine, back to the ROM.    *)
Reset ==
  /\ fw = "reset" /\ fw' = "rom"
  /\ csr' = CsrInit("pc") /\ clint' = ClintInit /\ mcause' = Cause(FALSE, 0)
  /\ call' = NoCall /\ req' = NoReq

(* fw_poweroff: asked for, or after an unexpected trap is reported; the    *)
(* hart spins until the power goes.                                        *)
Spin == fw \in {"off", "unexpected"} /\ Store(NoWrite) /\ UNCHANGED <<csr, fw, mcause, call, req>>

(* A cycle in which no instruction finishes.                               *)
Stall == clint.mtime < MaxTime /\ Store(NoWrite) /\ UNCHANGED <<csr, fw, mcause, call, req>>

Firmware == EnterPayload \/ Dispatch \/ Ecall4 \/ Exit \/ Reset \/ Spin
            \/ \E seip \in BOOLEAN : TimerTrap(seip) \/ SetTimer(seip)

Next ==
  \/ Stall \/ Firmware
  \/ \E seip \in BOOLEAN : PayloadCalls(seip) \/ \E i \in PayloadInstrs : PayloadRuns(i, seip)

(* The core finishes the instructions it starts, and a payload that loops  *)
(* executes a jump again and again: an instruction that is neither a CSR   *)
(* access nor a return, on which an interrupt can be taken.                *)
Spec == Init /\ [][Next]_vars
Fairness == WF_vars(Firmware) /\ SF_vars(\E seip \in BOOLEAN : PayloadRuns([op |-> "other"], seip))
LiveSpec == Spec /\ Fairness

-----------------------------------------------------------------------------
FwSteps == {"rom", "run", "entry", "t_mask", "t_raise", "s_far", "s_lo", "s_hi", "s_clear", "s_unmask", "e_mepc",
            "exit", "reset", "off"}

(* Every trap that reaches the SBI is one it handles (rom_sbi.c:6): with   *)
(* what the ROM delegates, "unexpected trap" is never reported, and the    *)
(* hart is in M exactly while the firmware runs.                           *)
OnlyKnownTraps == fw \in FwSteps /\ (csr.priv = PRIV_M <=> fw # "run")

(* The payload never sees its timer early: STIP is up only when the        *)
(* deadline of the last set_timer has passed.  And once a deadline is set, *)
(* it is either armed in the machine timer or pending in the supervisor's, *)
(* never both: a masked and forgotten timer, or an interrupt storm of the  *)
(* machine timer, is impossible.  This takes the SBI's clear, the masking  *)
(* of MTIE and S mode's inability to write STIP together.  Nor does the    *)
(* deadline lie in the past at any moment between the two stores that move *)
(* it (set_timer's comment, rom_sbi.c:29), while mtime runs on.            *)
TimerExact ==
  /\ fw \in {"s_lo", "s_hi"} => ~timer_irq(clint)
  /\ STI \in csr.mip_sw /\ fw \in {"run", "exit"} => req # NoReq /\ clint.mtime >= req
  /\ req # NoReq /\ fw = "run" => (MTI \in csr.mie <=> STI \notin csr.mip_sw)

(* The SBI's set and clear of STIP leave the external interrupt alone: a   *)
(* raised SEIP line is never captured in the software's bit (csr_s.v:97),  *)
(* where nothing would ever clear it.                                      *)
NoPhantomSei == SEI \notin csr.mip_sw

(* Every deadline is delivered: the supervisor timer becomes pending,      *)
(* unless the payload sets another deadline, resets the machine or shuts   *)
(* it down.                                                                *)
Delivered ==
  \A t \in Deadlines : t <= MaxTime => ((req = t) ~> (STI \in csr.mip_sw \/ req # t \/ fw = "off"))
=============================================================================
