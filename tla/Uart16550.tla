----------------------------- MODULE Uart16550 ------------------------------
(***************************************************************************)
(* The ns16550a register interface rtl/uart16550.v, as operators on one    *)
(* record u.  The framers in front of it (uart_rx, uart_tx_cfg) appear as  *)
(* what they report: a received character r, and a transmitter that is     *)
(* busy for as long as a frame takes.                                      *)
(*                                                                         *)
(* The FIFOs are sequences (the source keeps a ring and a count); DEPTH is *)
(* 16, TMO 40 bit times, Trigger the levels 1, 4, 8, 14.  IER is the set   *)
(* of its bits.  Left out: the divisor and framing bits, MCR (loopback),   *)
(* MSR and SCR, which only hold what is written.                           *)
(***************************************************************************)
EXTENDS Naturals, Sequences

CONSTANTS DEPTH, TMO,
          Trigger      \* Trigger[t]: bytes waiting at FCR trigger setting t

ASSUME UartAssumption == DEPTH \in Nat \ {0} /\ TMO \in Nat /\ \A t \in 0..3 : Trigger[t] \in 1..DEPTH

UartInit ==
  [ier |-> {}, dlab |-> FALSE, fifo_en |-> FALSE, trig |-> 0, oe |-> FALSE, err |-> FALSE, thre_ip |-> FALSE,
   txq |-> <<>>, busy |-> FALSE, rxq |-> <<>>, idle |-> 0]

cap(u) == IF u.fifo_en THEN DEPTH ELSE 1

(* Interrupt identification, highest priority first.                       *)
rx_level(u) == Len(u.rxq) >= (IF u.fifo_en THEN Trigger[u.trig] ELSE 1)
cti(u) == u.rxq # <<>> /\ u.idle >= TMO
int_rls(u) == 2 \in u.ier /\ (u.oe \/ u.err)
int_rda(u) == 0 \in u.ier /\ rx_level(u)
int_cti(u) == 0 \in u.ier /\ u.fifo_en /\ cti(u)
int_thre(u) == 1 \in u.ier /\ u.thre_ip
iid(u) == IF int_rls(u) THEN 6 ELSE IF int_rda(u) THEN 4 ELSE IF int_cti(u) THEN 12 ELSE IF int_thre(u) THEN 2 ELSE 1
irq(u) == iid(u) # 1

(* What the CPU does to the UART in a cycle: b.k is "none", "rd" or "wr",  *)
(* b.r the register, b.v what a write carries.                             *)
NoBus == [k |-> "none", r |-> "none"]
Rd(r) == [k |-> "rd", r |-> r]
Wr(r, v) == [k |-> "wr", r |-> r, v |-> v]

pop_rx(u, b) == b.k = "rd" /\ b.r = "RBR" /\ ~u.dlab /\ u.rxq # <<>>
push_tx(u, b) == b.k = "wr" /\ b.r = "THR" /\ ~u.dlab /\ Len(u.txq) # cap(u)
tx_send(u) == u.txq # <<>> /\ ~u.busy

(* What the receiver reports: no character, or one, good or damaged.       *)
NoChar == [v |-> FALSE]
Char(c, bad) == [v |-> TRUE, c |-> c, bad |-> bad]
push_rx(u, r) == r.v /\ Len(u.rxq) # cap(u)
overrun(u, r) == r.v /\ Len(u.rxq) = cap(u)

Popped(q, yes) == IF yes THEN Tail(q) ELSE q
Pushed(q, yes, e) == IF yes THEN Append(q, e) ELSE q

(* FCR: the FIFOs are cleared on request and when FCR.0 changes.           *)
clears(u, b, which) == b.k = "wr" /\ b.r = "FCR" /\ (which \in b.v.clear \/ b.v.en # u.fifo_en)

rxqNext(u, b, r) ==
  IF clears(u, b, "rx") THEN <<>>
  ELSE Pushed(Popped(u.rxq, pop_rx(u, b)), push_rx(u, r), IF r.v THEN r.c ELSE 0)
txqNext(u, b) ==
  IF clears(u, b, "tx") THEN <<>>
  ELSE Pushed(Popped(u.txq, tx_send(u)), push_tx(u, b), IF b.k = "wr" THEN b.v ELSE 0)

(* Line status: set when a character arrives, which wins over the clear by *)
(* a read of LSR in the same cycle.                                        *)
oeNextClearFirst(u, b, r) == ~(b.k = "rd" /\ b.r = "LSR") /\ (u.oe \/ overrun(u, r))
oeNext(u, b, r) == overrun(u, r) \/ (u.oe /\ ~(b.k = "rd" /\ b.r = "LSR"))
errNext(u, b, r) == (r.v /\ r.bad) \/ (u.err /\ ~(b.k = "rd" /\ b.r = "LSR"))

(* The THR-empty interrupt: the last assignment of the cycle wins, a write *)
(* of IER over a read of IIR over the FIFO's own events.                   *)
threOnEnable(u, b) == b.k = "wr" /\ b.r = "IER" /\ ~u.dlab /\ 1 \in b.v /\ 1 \notin u.ier /\ u.txq = <<>>
threNext(u, b) ==
  \/ threOnEnable(u, b)
  \/ /\ ~(b.k = "rd" /\ b.r = "IIR" /\ iid(u) = 2)
     /\ IF push_tx(u, b) THEN FALSE ELSE (tx_send(u) /\ Len(u.txq) = 1) \/ u.thre_ip

idleNext(u, b, r) ==
  IF push_rx(u, r) \/ pop_rx(u, b) \/ u.rxq = <<>> THEN 0 ELSE IF u.idle >= TMO THEN u.idle ELSE u.idle + 1

(* The clock edge.  sent says that the transmitter ends its frame.         *)
UartEdge(u, b, r, sent) ==
  [ier |-> IF b.k = "wr" /\ b.r = "IER" /\ ~u.dlab THEN b.v ELSE u.ier,
   dlab |-> IF b.k = "wr" /\ b.r = "LCR" THEN b.v ELSE u.dlab,
   fifo_en |-> IF b.k = "wr" /\ b.r = "FCR" THEN b.v.en ELSE u.fifo_en,
   trig |-> IF b.k = "wr" /\ b.r = "FCR" THEN b.v.trig ELSE u.trig,
   oe |-> oeNext(u, b, r),
   err |-> errNext(u, b, r),
   thre_ip |-> threNext(u, b),
   txq |-> txqNext(u, b),
   busy |-> tx_send(u) \/ (u.busy /\ ~sent),
   rxq |-> rxqNext(u, b, r),
   idle |-> idleNext(u, b, r)]

(* What a load sees.                                                       *)
lsr(u) == [dr |-> u.rxq # <<>>, oe |-> u.oe, err |-> u.err, thre |-> u.txq = <<>>, temt |-> u.txq = <<>> /\ ~u.busy]
=============================================================================
