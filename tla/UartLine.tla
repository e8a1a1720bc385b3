------------------------------ MODULE UartLine ------------------------------
(***************************************************************************)
(* The serial line: the transmitter rtl/uart_tx_cfg.v drives it, the       *)
(* receiver rtl/uart_rx.v samples it through its two-flop synchroniser,    *)
(* each with its own idea of how many clocks a bit takes.  One step is one *)
(* clock; a byte is the sequence of its bits, lowest first.                *)
(***************************************************************************)
EXTENDS Naturals, Sequences

CONSTANTS Framings,    \* the settings [tx_cpb, rx_cpb, bits, parity, stop2] of the line
          IDLE_BITS,   \* idle bit times before `idle` (0 disables)
          Sent(_)      \* the bytes of that many bits the sender may send

ASSUME LineAssumption ==
  /\ Framings \subseteq [tx_cpb : Nat \ {0, 1}, rx_cpb : Nat \ {0, 1}, bits : 1..8,
                         parity : 0..2, stop2 : BOOLEAN]
  /\ IDLE_BITS \in 0..31
  /\ \A f \in Framings : Sent(f.bits) \subseteq [1..f.bits -> 0..1]

(* Neither end follows the other within a frame: the receiver samples bit  *)
(* k that many clocks after the edge of the start bit, and the line must   *)
(* carry bit k then.                                                       *)
FrameBits(f) == 1 + f.bits + (IF f.parity = 0 THEN 0 ELSE 1) + (IF f.stop2 THEN 2 ELSE 1)
SampledAt(f, k) == f.rx_cpb \div 2 + 1 + k * f.rx_cpb
Tolerated(f) ==
  \A k \in 0..(FrameBits(f) - 1) : k * f.tx_cpb <= SampledAt(f, k) /\ SampledAt(f, k) < (k + 1) * f.tx_cpb

ASSUME ToleranceAssumption == \A f \in Framings : Tolerated(f)

VARIABLES
  cfg,     \* the settings software gave the two ends
  tx,      \* the transmitter's registers; tx.line is its output
  rx,      \* the receiver's registers
  way      \* history: the bytes sent and not received yet

lineVars == <<cfg, tx, rx, way>>

TX_CPB == cfg.tx_cpb           \* clks_per_bit of the two ends
RX_CPB == cfg.rx_cpb
DATA_BITS == cfg.bits          \* 5..8
PARITY == cfg.parity           \* 0 none, 1 odd, 2 even
STOP2 == cfg.stop2             \* two stop bits

Zero == [i \in 1..DATA_BITS |-> 0]
Xor(a, b) == (a + b) % 2

LineInit ==
  /\ cfg \in Framings
  /\ tx = [st |-> "idle", cnt |-> 0, bidx |-> 1, sh |-> Zero, par |-> 0, stopcnt |-> 0, line |-> 1, busy |-> FALSE]
  /\ rx = [st |-> "idle", cnt |-> 0, bidx |-> 1, sh |-> Zero, par |-> 0, stopcnt |-> 0, sync |-> <<1, 1>>,
           data |-> Zero, valid |-> FALSE, ferr |-> FALSE, perr |-> FALSE,
           idle |-> FALSE, iclk |-> 0, ibit |-> 0, active |-> FALSE]
  /\ way = <<>>

-----------------------------------------------------------------------------
(* uart_tx_cfg                                                             *)
TxTimed(next) == IF tx.cnt = TX_CPB - 1 THEN [next EXCEPT !.cnt = 0] ELSE [tx EXCEPT !.cnt = @ + 1]

TxStart(b) == [tx EXCEPT !.sh = b, !.par = 0, !.cnt = 0, !.bidx = 1, !.busy = TRUE, !.line = 0, !.st = "start"]

TxData ==
  IF tx.bidx = DATA_BITS
  THEN IF PARITY # 0
       THEN [tx EXCEPT !.line = IF PARITY = 2 THEN tx.par ELSE 1 - tx.par, !.st = "par"]
       ELSE [tx EXCEPT !.line = 1, !.stopcnt = 0, !.st = "stop"]
  ELSE [tx EXCEPT !.bidx = @ + 1, !.line = tx.sh[tx.bidx + 1], !.par = Xor(@, tx.sh[tx.bidx + 1])]

TxStop ==
  IF STOP2 /\ tx.stopcnt = 0 THEN [tx EXCEPT !.stopcnt = 1] ELSE [tx EXCEPT !.busy = FALSE, !.st = "idle"]

TxRun ==
  CASE tx.st = "idle" -> [tx EXCEPT !.line = 1, !.busy = FALSE]
    [] tx.st = "start" -> TxTimed([tx EXCEPT !.line = tx.sh[1], !.par = tx.sh[1], !.bidx = 1, !.st = "data"])
    [] tx.st = "data" -> TxTimed(TxData)
    [] tx.st = "par" -> TxTimed([tx EXCEPT !.line = 1, !.stopcnt = 0, !.st = "stop"])
    [] tx.st = "stop" -> TxTimed(TxStop)

-----------------------------------------------------------------------------
(* uart_rx: the framer r of one cycle, then the idle detector.             *)
rxs == rx.sync[2]
RxTimed(r, next) == IF r.cnt = RX_CPB - 1 THEN [next EXCEPT !.cnt = 0] ELSE [r EXCEPT !.cnt = @ + 1]

(* Mutant: the midpoint is taken a whole bit after the edge.               *)
RxStartFull(r) ==
  IF r.cnt # RX_CPB - 1 THEN [r EXCEPT !.cnt = @ + 1]
  ELSE IF rxs = 0 THEN [r EXCEPT !.cnt = 0, !.bidx = 1, !.sh = Zero, !.par = 0, !.ferr = FALSE, !.perr = FALSE, !.st = "data"]
  ELSE [r EXCEPT !.st = "idle"]

(* A start bit is believed if the line is still low half a bit later.      *)
RxStart(r) ==
  IF r.cnt # RX_CPB \div 2 THEN [r EXCEPT !.cnt = @ + 1]
  ELSE IF rxs = 0 THEN [r EXCEPT !.cnt = 0, !.bidx = 1, !.sh = Zero, !.par = 0, !.ferr = FALSE, !.perr = FALSE, !.st = "data"]
  ELSE [r EXCEPT !.st = "idle"]

(* Mutant: the highest bit comes first.                                    *)
RxDataMsbFirst(r) ==
  [r EXCEPT !.sh[DATA_BITS + 1 - r.bidx] = rxs, !.par = Xor(@, rxs),
            !.st = IF r.bidx # DATA_BITS THEN "data" ELSE IF PARITY # 0 THEN "par" ELSE "stop",
            !.bidx = IF @ # DATA_BITS THEN @ + 1 ELSE @]
RxData(r) ==
  [r EXCEPT !.sh[r.bidx] = rxs, !.par = Xor(@, rxs),
            !.st = IF r.bidx # DATA_BITS THEN "data" ELSE IF PARITY # 0 THEN "par" ELSE "stop",
            !.bidx = IF @ # DATA_BITS THEN @ + 1 ELSE @]

(* Mutant: odd and even are swapped.                                       *)
RxParSwapped(r) ==
  [r EXCEPT !.stopcnt = 0, !.perr = IF PARITY = 1 THEN rxs # r.par ELSE rxs # 1 - r.par, !.st = "stop"]
RxPar(r) ==
  [r EXCEPT !.stopcnt = 0, !.perr = IF PARITY = 2 THEN rxs # r.par ELSE rxs # 1 - r.par, !.st = "stop"]

(* Mutant: a byte does not arm the idle detector.                          *)
RxStopSilent(r) ==
  LET f == [r EXCEPT !.ferr = @ \/ rxs = 0] IN
  IF STOP2 /\ r.stopcnt = 0 THEN [f EXCEPT !.stopcnt = 1]
  ELSE [f EXCEPT !.data = r.sh, !.valid = TRUE, !.st = "idle"]

RxStop(r) ==
  LET f == [r EXCEPT !.ferr = @ \/ rxs = 0] IN
  IF STOP2 /\ r.stopcnt = 0 THEN [f EXCEPT !.stopcnt = 1]
  ELSE [f EXCEPT !.data = r.sh, !.valid = TRUE, !.active = TRUE, !.st = "idle"]

RxFrame(r) ==
  CASE r.st = "idle" -> IF rxs = 0 THEN [r EXCEPT !.cnt = 0, !.st = "start"] ELSE r
    [] r.st = "start" -> RxStart(r)
    [] r.st = "data" -> RxTimed(r, RxData(r))
    [] r.st = "par" -> RxTimed(r, RxPar(r))
    [] r.st = "stop" -> RxTimed(r, RxStop(r))

(* Idle-line detection, between frames (the state before this edge).       *)
RxIdleDet(r) ==
  IF rx.st # "idle" \/ rxs = 0 THEN [r EXCEPT !.iclk = 0, !.ibit = 0]
  ELSE IF rx.iclk # RX_CPB - 1 THEN [r EXCEPT !.iclk = @ + 1]
  ELSE IF IDLE_BITS # 0 /\ rx.ibit >= IDLE_BITS - 1
       THEN [r EXCEPT !.iclk = 0, !.idle = rx.active, !.active = @ /\ ~rx.active]
       ELSE [r EXCEPT !.iclk = 0, !.ibit = (@ + 1) % 32]

RxEdge ==
  LET r == [rx EXCEPT !.sync = <<tx.line, rx.sync[1]>>, !.valid = FALSE, !.idle = FALSE]
  IN rx' = RxIdleDet(RxFrame(r))

-----------------------------------------------------------------------------
(* The receiver hands over the byte it completes on this edge.             *)
Way(sent) == LET w == way \o sent IN IF rx'.valid /\ w # <<>> THEN Tail(w) ELSE w

Send(b) == tx.st = "idle" /\ tx' = TxStart(b) /\ RxEdge /\ way' = Way(<<b>>)
Run == tx' = TxRun /\ RxEdge /\ way' = Way(<<>>)

LineNext == (Run \/ \E b \in Sent(DATA_BITS) : Send(b)) /\ UNCHANGED cfg
LineSpec == LineInit /\ [][LineNext]_lineVars
LineLiveSpec == LineSpec /\ WF_lineVars(LineNext)

-----------------------------------------------------------------------------
(* Every byte is received as it was sent, in order and without an error    *)
(* flag, with any gap between frames: whatever the parity and the stop     *)
(* bits, with the two ends' bit times as far apart as the constants say.   *)
ReceivedAsSent ==
  [][rx'.valid => /\ way # <<>> /\ rx'.data = Head(way)
                  /\ ~rx'.ferr /\ ~rx'.perr]_lineVars

(* The end of a message is announced: once a byte is handed over, the      *)
(* receiver sees the next start bit or it pulses `idle`.                   *)
EndAnnounced == rx.valid ~> (rx.idle \/ rx.st = "start")
=============================================================================
