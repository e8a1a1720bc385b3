------------------------------ MODULE LineProofs -----------------------------
(***************************************************************************)
(* A byte over the serial line, from uart_tx_cfg.v to uart_rx.v, for every *)
(* framing and every two bit times the receiver can tolerate: the byte is  *)
(* received as it was sent.                                                *)
(***************************************************************************)
EXTENDS UartLine, Integers, SequenceTheorems, FiniteSetTheorems, TLAPS

(* The parity bit counts the ones among the first j bits.                  *)
Parity(b, j) == Cardinality({i \in 1..j : b[i] = 1}) % 2
(* The position of the first stop bit in a frame whose start bit is bit 0. *)
FirstStop(f) == 1 + f.bits + (IF f.parity = 0 THEN 0 ELSE 1)

(* What the assumptions say of one framing; that the start bit is sampled  *)
(* inside the start bit makes a bit at least three clocks long.            *)
LEMMA FrameTypes ==
  ASSUME NEW f \in Framings
  PROVE  /\ f.tx_cpb \in Nat /\ f.rx_cpb \in Nat /\ f.tx_cpb >= 3 /\ f.rx_cpb >= 2
         /\ f.bits \in Nat /\ f.bits >= 1 /\ f.parity \in 0..2 /\ f.stop2 \in BOOLEAN
         /\ FirstStop(f) \in Nat /\ FirstStop(f) = f.bits + (IF f.parity = 0 THEN 1 ELSE 2)
         /\ FrameBits(f) \in Nat /\ FrameBits(f) = FirstStop(f) + (IF f.stop2 THEN 2 ELSE 1)
         /\ Sent(f.bits) \subseteq [1..f.bits -> 0..1]
<1>1. /\ f.tx_cpb \in Nat \ {0, 1} /\ f.rx_cpb \in Nat \ {0, 1} /\ f.bits \in 1..8 /\ f.parity \in 0..2 /\ f.stop2 \in BOOLEAN
      /\ Sent(f.bits) \subseteq [1..f.bits -> 0..1]
  BY LineAssumption
<1>2. /\ FirstStop(f) = f.bits + (IF f.parity = 0 THEN 1 ELSE 2) /\ FirstStop(f) \in Nat
      /\ FrameBits(f) = FirstStop(f) + (IF f.stop2 THEN 2 ELSE 1) /\ FrameBits(f) \in Nat
  BY <1>1 DEF FirstStop, FrameBits
<1>3. f.tx_cpb >= 3
  <2>1. 0 \in 0..(FrameBits(f) - 1)
    BY <1>1, <1>2
  <2>2. SampledAt(f, 0) < (0 + 1) * f.tx_cpb
    BY <2>1, ToleranceAssumption, Zenon DEF Tolerated
  <2> QED
    BY <1>1, <2>2 DEF SampledAt
<1>4. f.tx_cpb \in Nat /\ f.rx_cpb \in Nat /\ f.rx_cpb >= 2 /\ f.bits \in Nat /\ f.bits >= 1
  BY <1>1
<1> QED
  BY <1>1, <1>2, <1>3, <1>4, Zenon

(* Clocks and bits: clock p * t + c of a frame, c < t, lies in bit p.      *)
LEMMA BitOf ==
  ASSUME NEW t \in Nat \ {0}, NEW p \in Nat, NEW c \in 0..(t - 1)
  PROVE  (p * t + c) \div t = p
  OBVIOUS

LEMMA LaterBit ==
  ASSUME NEW t \in Nat, NEW p \in Nat, NEW q \in Nat, p <= q
  PROVE  p * t <= q * t
  OBVIOUS

LEMMA Beyond ==
  ASSUME NEW a \in Nat, NEW p \in Nat, NEW s \in Nat, NEW e \in Nat, a <= p, p <= s, e = s + 2
  PROVE  e + 1 >= a + 2 /\ e + 1 >= a
  OBVIOUS

(* The parity of a longer prefix, from the parity of a shorter one.        *)
LEMMA NoBits == \A b : Parity(b, 0) = 0
<1>1. \A b : {i \in 1..0 : b[i] = 1} = {}
  OBVIOUS
<1> QED
  BY <1>1, FS_EmptySet DEF Parity

LEMMA Halves ==
  \A n \in Nat : n % 2 \in 0..1 /\ (n + 1) % 2 = ((n % 2) + 1) % 2 /\ ((n % 2) + 0) % 2 = n % 2
  OBVIOUS

LEMMA OneBit ==
  ASSUME NEW n \in Nat, NEW b \in [1..n -> 0..1], NEW j \in Nat, j < n
  PROVE  Parity(b, j + 1) = Xor(Parity(b, j), b[j + 1]) /\ Parity(b, j) \in 0..1 /\ b[j + 1] \in 0..1
<1> DEFINE s(k) == {i \in 1..k : b[i] = 1}
<1>1. IsFiniteSet(s(j))
  <2>1. IsFiniteSet(1..j)
    BY FS_Interval
  <2> QED
    BY <2>1, FS_Subset
<1>2. Cardinality(s(j)) \in Nat
  BY <1>1, FS_CardinalityType
<1>3. b[j + 1] \in 0..1
  OBVIOUS
<1>4. CASE b[j + 1] = 1
  <2>1. s(j + 1) = s(j) \cup {j + 1} /\ j + 1 \notin s(j)
    BY <1>4
  <2>2. Cardinality(s(j + 1)) = Cardinality(s(j)) + 1
    BY <1>1, <2>1, FS_AddElement
  <2>3. Parity(b, j + 1) = (Cardinality(s(j)) + 1) % 2
    BY <2>2, Zenon DEF Parity
  <2> QED
    BY <1>2, <1>3, <1>4, <2>3, Halves, Zenon DEF Parity, Xor
<1>5. CASE b[j + 1] = 0
  <2>1. s(j + 1) = s(j)
    BY <1>5
  <2>2. Parity(b, j + 1) = Cardinality(s(j)) % 2
    BY <2>1, Zenon DEF Parity
  <2> QED
    BY <1>2, <1>3, <1>5, <2>2, Halves, Zenon DEF Parity, Xor
<1>6. b[j + 1] = 0 \/ b[j + 1] = 1
  BY <1>3
<1> QED
  BY <1>4, <1>5, <1>6, Zenon

(* The level of bit p of the frame that carries b; the line is high after  *)
(* it.                                                                     *)
BitLevel(f, b, p) ==
  IF p = 0 THEN 0
  ELSE IF p <= f.bits THEN b[p]
  ELSE IF p < FirstStop(f) THEN (IF f.parity = 2 THEN Parity(b, f.bits) ELSE 1 - Parity(b, f.bits))
  ELSE 1

(* The transmitter in clock c of bit p of the frame of b.                  *)
TxShape(t) == DOMAIN t = {"st", "cnt", "bidx", "sh", "par", "stopcnt", "line", "busy"}
TxAt(f, t, b, p, c) ==
  /\ t.sh = b /\ t.cnt = c /\ t.line = BitLevel(f, b, p)
  /\ \/ t.st = "start" /\ p = 0
     \/ t.st = "data" /\ p = t.bidx /\ p \in 1..f.bits /\ t.par = Parity(b, p)
     \/ t.st = "par" /\ f.parity # 0 /\ p = f.bits + 1
     \/ t.st = "stop" /\ p = FirstStop(f) + t.stopcnt /\ t.stopcnt \in (IF f.stop2 THEN 0..1 ELSE {0})
TxIdle(t) == t.st = "idle" /\ t.line = 1

(* From the first stop bit on the line is high.                            *)
LEMMA StopIsHigh ==
  ASSUME NEW f \in Framings, NEW b, NEW p \in Nat, p >= FirstStop(f)
  PROVE  BitLevel(f, b, p) = 1
<1>1. f.bits \in Nat /\ FirstStop(f) \in Nat /\ FirstStop(f) > f.bits
  BY FrameTypes
<1>2. p # 0 /\ ~(p <= f.bits) /\ ~(p < FirstStop(f))
  BY <1>1
<1> QED
  BY <1>2, Zenon DEF BitLevel

(* One clock of the transmitter: the next clock of the bit, the next bit,  *)
(* or the end of the frame.                                                *)
LEMMA TxTick ==
  ASSUME cfg \in Framings, TxShape(tx), NEW b \in [1..cfg.bits -> 0..1], NEW p \in Nat, p < FrameBits(cfg),
         NEW c \in Nat, c < cfg.tx_cpb, TxAt(cfg, tx, b, p, c), tx' = TxRun
  PROVE  /\ TxShape(tx')
         /\ c + 1 < cfg.tx_cpb => TxAt(cfg, tx', b, p, c + 1)
         /\ c + 1 = cfg.tx_cpb /\ p + 1 < FrameBits(cfg) => TxAt(cfg, tx', b, p + 1, 0)
         /\ c + 1 = cfg.tx_cpb /\ p + 1 = FrameBits(cfg) => TxIdle(tx') /\ tx'.sh = b
<1> DEFINE N == FrameBits(cfg)  S == FirstStop(cfg)  B == cfg.bits  T == cfg.tx_cpb
<1>1. /\ T \in Nat /\ T >= 3 /\ B \in Nat /\ B >= 1 /\ S \in Nat /\ N \in Nat
      /\ S = B + (IF cfg.parity = 0 THEN 1 ELSE 2) /\ N = S + (IF cfg.stop2 THEN 2 ELSE 1) /\ cfg.stop2 \in BOOLEAN
  BY FrameTypes, Zenon
<1>2. tx.sh = b /\ tx.cnt = c /\ tx.line = BitLevel(cfg, b, p)
  BY Zenon DEF TxAt
<1>3. tx.st # "idle"
  BY DEF TxAt
<1>4. CASE c + 1 < T
  <2>1. tx' = [tx EXCEPT !.cnt = c + 1]
    <3>1. tx.cnt # TX_CPB - 1
      BY <1>1, <1>2, <1>4 DEF TX_CPB
    <3>2. tx.st \in {"start", "data", "par", "stop"}
      BY DEF TxAt
    <3> QED
      BY <1>2, <3>1, <3>2 DEF TxRun, TxTimed
  <2>2. TxShape(tx') /\ tx'.cnt = c + 1 /\ tx'.sh = b /\ tx'.line = tx.line /\ tx'.st = tx.st /\ tx'.bidx = tx.bidx
        /\ tx'.par = tx.par /\ tx'.stopcnt = tx.stopcnt
    BY <1>2, <2>1 DEF TxShape
  <2>3. TxAt(cfg, tx', b, p, c + 1)
    BY <2>2, Zenon DEF TxAt
  <2> QED
    BY <1>1, <1>4, <2>2, <2>3
<1>5. CASE c + 1 = T
  <2>0. tx.cnt = TX_CPB - 1
    BY <1>1, <1>2, <1>5 DEF TX_CPB
  <2>1. CASE tx.st = "start"
    <3>1. p = 0
      BY <2>1 DEF TxAt
    <3>2. TxShape(tx') /\ tx'.cnt = 0 /\ tx'.sh = b /\ tx'.line = b[1] /\ tx'.st = "data" /\ tx'.bidx = 1 /\ tx'.par = b[1]
      BY <1>2, <2>0, <2>1 DEF TxShape, TxRun, TxTimed
    <3>3. Parity(b, 1) = b[1]
      <4>0. 0 \in Nat /\ 0 < B
        BY <1>1
      <4>1. Parity(b, 0 + 1) = Xor(Parity(b, 0), b[0 + 1]) /\ b[0 + 1] \in 0..1
        BY <1>1, <4>0, OneBit, Zenon
      <4>2. Parity(b, 0) = 0
        BY NoBits, Zenon
      <4>3. \A x \in 0..1 : Xor(0, x) = x
        BY DEF Xor
      <4>4. 0 + 1 = 1
        OBVIOUS
      <4> QED
        BY <4>1, <4>2, <4>3, <4>4, Zenon
    <3>4. BitLevel(cfg, b, 1) = b[1]
      BY <1>1 DEF BitLevel
    <3>5. TxAt(cfg, tx', b, 1, 0)
      BY <1>1, <3>2, <3>3, <3>4 DEF TxAt
    <3>6. p + 1 = 1 /\ p + 1 < N
      BY <1>1, <3>1
    <3> QED
      BY <1>1, <1>5, <3>2, <3>5, <3>6
  <2>2. CASE tx.st = "data"
    <3>1. p = tx.bidx /\ p \in 1..B /\ tx.par = Parity(b, p)
      BY <2>2 DEF TxAt
    <3>2. tx' = [TxData EXCEPT !.cnt = 0]
      BY <2>0, <2>2 DEF TxRun, TxTimed
    <3>3. CASE p < B
      <4>1. Parity(b, p + 1) = Xor(Parity(b, p), b[p + 1])
        BY <1>1, <3>3, OneBit
      <4>2. TxData = [tx EXCEPT !.bidx = @ + 1, !.line = b[p + 1], !.par = Xor(@, b[p + 1])]
        BY <1>1, <1>2, <3>1, <3>3 DEF TxData, DATA_BITS
      <4>3. TxShape(tx') /\ tx'.cnt = 0 /\ tx'.sh = b /\ tx'.line = b[p + 1] /\ tx'.st = "data" /\ tx'.bidx = p + 1
            /\ tx'.par = Xor(Parity(b, p), b[p + 1])
        BY <1>2, <2>2, <3>1, <3>2, <4>2 DEF TxShape
      <4>4. BitLevel(cfg, b, p + 1) = b[p + 1]
        BY <1>1, <3>1, <3>3 DEF BitLevel
      <4>5. TxAt(cfg, tx', b, p + 1, 0)
        BY <1>1, <3>1, <3>3, <4>1, <4>3, <4>4 DEF TxAt
      <4>6. p + 1 < N
        BY <1>1, <3>3
      <4> QED
        BY <1>1, <1>5, <4>3, <4>5, <4>6
    <3>4. CASE p = B /\ cfg.parity # 0
      <4>1. TxData = [tx EXCEPT !.line = IF cfg.parity = 2 THEN tx.par ELSE 1 - tx.par, !.st = "par"]
        BY <3>1, <3>4 DEF TxData, DATA_BITS, PARITY
      <4>2. TxShape(tx') /\ tx'.cnt = 0 /\ tx'.sh = b /\ tx'.st = "par"
            /\ tx'.line = IF cfg.parity = 2 THEN Parity(b, B) ELSE 1 - Parity(b, B)
        <5> DEFINE x == IF cfg.parity = 2 THEN tx.par ELSE 1 - tx.par
        <5>1. tx' = [[tx EXCEPT !.line = x, !.st = "par"] EXCEPT !.cnt = 0]
          BY <3>2, <4>1, Zenon
        <5>2. x = IF cfg.parity = 2 THEN Parity(b, B) ELSE 1 - Parity(b, B)
          BY <3>1, <3>4, Zenon
        <5> HIDE DEF x
        <5>3. TxShape(tx') /\ tx'.cnt = 0 /\ tx'.sh = b /\ tx'.st = "par" /\ tx'.line = x
          BY <1>2, <5>1 DEF TxShape
        <5> QED
          BY <5>2, <5>3, Zenon
      <4>3. BitLevel(cfg, b, B + 1) = IF cfg.parity = 2 THEN Parity(b, B) ELSE 1 - Parity(b, B)
        BY <1>1, <3>4 DEF BitLevel
      <4>4. TxAt(cfg, tx', b, B + 1, 0)
        BY <3>4, <4>2, <4>3, Zenon DEF TxAt
      <4>5. p + 1 < N
        BY <1>1, <3>4
      <4> QED
        BY <1>1, <1>5, <3>4, <4>2, <4>4, <4>5
    <3>5. CASE p = B /\ cfg.parity = 0
      <4>1. TxData = [tx EXCEPT !.line = 1, !.stopcnt = 0, !.st = "stop"]
        BY <3>1, <3>5 DEF TxData, DATA_BITS, PARITY
      <4>2. TxShape(tx') /\ tx'.cnt = 0 /\ tx'.sh = b /\ tx'.st = "stop" /\ tx'.line = 1 /\ tx'.stopcnt = 0
        BY <1>2, <3>2, <4>1 DEF TxShape
      <4>3. BitLevel(cfg, b, S) = 1 /\ S = B + 1 /\ S = S + 0
        BY <1>1, <3>5 DEF BitLevel
      <4>4. TxAt(cfg, tx', b, S, 0)
        BY <4>2, <4>3 DEF TxAt
      <4>5. p + 1 < N
        BY <1>1, <3>5
      <4> QED
        BY <1>1, <1>5, <3>5, <4>2, <4>3, <4>4, <4>5
    <3> QED
      BY <1>1, <3>1, <3>3, <3>4, <3>5
  <2>3. CASE tx.st = "par"
    <3>1. p = B + 1 /\ S = B + 2
      BY <1>1, <2>3 DEF TxAt
    <3>2. TxShape(tx') /\ tx'.cnt = 0 /\ tx'.sh = b /\ tx'.st = "stop" /\ tx'.line = 1 /\ tx'.stopcnt = 0
      BY <1>2, <2>0, <2>3 DEF TxShape, TxRun, TxTimed
    <3>3. BitLevel(cfg, b, S) = 1 /\ S = S + 0
      BY <1>1, <3>1 DEF BitLevel
    <3>4. TxAt(cfg, tx', b, S, 0)
      BY <3>2, <3>3 DEF TxAt
    <3>5. p + 1 = S /\ S < N
      BY <1>1, <3>1
    <3> QED
      BY <1>1, <1>5, <3>2, <3>4, <3>5
  <2>4. CASE tx.st = "stop"
    <3>1. p = S + tx.stopcnt /\ tx.stopcnt \in (IF cfg.stop2 THEN 0..1 ELSE {0})
      BY <2>4 DEF TxAt
    <3>2. tx' = [TxStop EXCEPT !.cnt = 0]
      BY <2>0, <2>4 DEF TxRun, TxTimed
    <3>3. tx.line = 1
      <4>1. p >= S
        BY <1>1, <3>1
      <4> QED
        BY <1>2, <4>1, StopIsHigh, Zenon
    <3>4. CASE cfg.stop2 /\ tx.stopcnt = 0
      <4>1. TxStop = [tx EXCEPT !.stopcnt = 1]
        BY <3>4 DEF TxStop, STOP2
      <4>2. TxShape(tx') /\ tx'.cnt = 0 /\ tx'.sh = b /\ tx'.st = "stop" /\ tx'.line = 1 /\ tx'.stopcnt = 1
        BY <1>2, <2>4, <3>2, <3>3, <4>1 DEF TxShape
      <4>3. BitLevel(cfg, b, S + 1) = 1
        BY <1>1 DEF BitLevel
      <4>4. TxAt(cfg, tx', b, S + 1, 0)
        BY <3>4, <4>2, <4>3 DEF TxAt
      <4>5. p + 1 = S + 1 /\ p + 1 < N
        BY <1>1, <3>1, <3>4
      <4> QED
        BY <1>1, <1>5, <4>2, <4>4, <4>5
    <3>5. CASE ~(cfg.stop2 /\ tx.stopcnt = 0)
      <4>1. TxStop = [tx EXCEPT !.busy = FALSE, !.st = "idle"]
        BY <3>5 DEF TxStop, STOP2
      <4>2. TxShape(tx') /\ tx'.cnt = 0 /\ tx'.sh = b /\ tx'.st = "idle" /\ tx'.line = 1
        BY <1>2, <3>2, <3>3, <4>1 DEF TxShape
      <4>3. p + 1 = N
        BY <1>1, <3>1, <3>5
      <4> QED
        BY <1>1, <1>5, <4>2, <4>3 DEF TxIdle
    <3> QED
      BY <3>4, <3>5
  <2> QED
    BY <2>1, <2>2, <2>3, <2>4 DEF TxAt
<1> QED
  BY <1>1, <1>4, <1>5

(* The idle detector leaves alone what the framer computes, and Clocked is *)
(* the record RxEdge hands to the framer.                                  *)
RxShape(r) ==
  DOMAIN r = {"st", "cnt", "bidx", "sh", "par", "stopcnt", "sync", "data", "valid", "ferr", "perr",
              "idle", "iclk", "ibit", "active"}
Alike(q, r) ==
  /\ RxShape(q) /\ q.st = r.st /\ q.cnt = r.cnt /\ q.bidx = r.bidx /\ q.sh = r.sh /\ q.par = r.par
  /\ q.stopcnt = r.stopcnt /\ q.sync = r.sync /\ q.data = r.data /\ q.valid = r.valid
  /\ q.ferr = r.ferr /\ q.perr = r.perr
Clocked == [rx EXCEPT !.sync = <<tx.line, rx.sync[1]>>, !.valid = FALSE, !.idle = FALSE]

LEMMA IdleDetAlike ==
  ASSUME NEW r, RxShape(r)
  PROVE  Alike(RxIdleDet(r), r)
<1>1. CASE rx.st # "idle" \/ rxs = 0
  BY <1>1 DEF RxIdleDet, Alike, RxShape
<1>2. CASE ~(rx.st # "idle" \/ rxs = 0) /\ rx.iclk # RX_CPB - 1
  BY <1>2 DEF RxIdleDet, Alike, RxShape
<1>3. CASE ~(rx.st # "idle" \/ rxs = 0) /\ rx.iclk = RX_CPB - 1
  <2>1. CASE IDLE_BITS # 0 /\ rx.ibit >= IDLE_BITS - 1
    BY <1>3, <2>1 DEF RxIdleDet, Alike, RxShape
  <2>2. CASE ~(IDLE_BITS # 0 /\ rx.ibit >= IDLE_BITS - 1)
    BY <1>3, <2>2 DEF RxIdleDet, Alike, RxShape
  <2> QED
    BY <2>1, <2>2
<1> QED
  BY <1>1, <1>2, <1>3

LEMMA EdgeAlike ==
  ASSUME RxShape(rx), RxEdge, RxShape(RxFrame(Clocked))
  PROVE  Alike(rx', RxFrame(Clocked))
<1>1. rx' = RxIdleDet(RxFrame(Clocked))
  BY Zenon DEF RxEdge, Clocked
<1> QED
  BY <1>1, IdleDetAlike, Zenon

LEMMA ClockedFields ==
  ASSUME RxShape(rx)
  PROVE  /\ RxShape(Clocked) /\ Clocked.st = rx.st /\ Clocked.cnt = rx.cnt /\ Clocked.bidx = rx.bidx /\ Clocked.sh = rx.sh
         /\ Clocked.par = rx.par /\ Clocked.stopcnt = rx.stopcnt /\ Clocked.sync = <<tx.line, rx.sync[1]>>
         /\ Clocked.data = rx.data /\ Clocked.valid = FALSE /\ Clocked.ferr = rx.ferr /\ Clocked.perr = rx.perr
  BY DEF RxShape, Clocked

(* Between two samples the receiver only counts.                           *)
Waits(r, c) == [r EXCEPT !.cnt = c]
LEMMA RxHolds ==
  ASSUME RxShape(rx), RxEdge, NEW c, RxFrame(Clocked) = Waits(Clocked, c)
  PROVE  /\ RxShape(rx') /\ rx'.st = rx.st /\ rx'.cnt = c /\ rx'.bidx = rx.bidx /\ rx'.sh = rx.sh
         /\ rx'.par = rx.par /\ rx'.stopcnt = rx.stopcnt /\ rx'.sync = <<tx.line, rx.sync[1]>>
         /\ rx'.valid = FALSE /\ rx'.ferr = rx.ferr /\ rx'.perr = rx.perr
<1> DEFINE q == Clocked
<1>1. /\ RxShape(q) /\ q.st = rx.st /\ q.cnt = rx.cnt /\ q.bidx = rx.bidx /\ q.sh = rx.sh
      /\ q.par = rx.par /\ q.stopcnt = rx.stopcnt /\ q.sync = <<tx.line, rx.sync[1]>>
      /\ q.valid = FALSE /\ q.ferr = rx.ferr /\ q.perr = rx.perr
  BY ClockedFields, Zenon
<1> HIDE DEF q
<1> DEFINE h == Waits(q, c)
<1>2. /\ RxShape(h) /\ h.st = q.st /\ h.cnt = c /\ h.bidx = q.bidx /\ h.sh = q.sh /\ h.par = q.par
      /\ h.stopcnt = q.stopcnt /\ h.sync = q.sync /\ h.valid = q.valid /\ h.ferr = q.ferr /\ h.perr = q.perr
  BY <1>1 DEF RxShape, Waits
<1> HIDE DEF h
<1>3. RxFrame(Clocked) = h
  BY Zenon DEF h, q
<1>4. Alike(rx', h)
  BY <1>2, <1>3, EdgeAlike, Zenon
<1> QED
  BY <1>1, <1>2, <1>4, Zenon DEF Alike

(* Between frames the receiver waits for the line to fall.                 *)
LEMMA RxLooks ==
  ASSUME RxShape(rx), RxEdge, rx.st = "idle"
  PROVE  /\ RxShape(rx') /\ rx'.sync = <<tx.line, rx.sync[1]>> /\ rx'.valid = FALSE
         /\ rx.sync[2] = 1 => rx'.st = "idle"
         /\ rx.sync[2] = 0 => rx'.st = "start" /\ rx'.cnt = 0
<1> DEFINE q == Clocked
<1>1. RxShape(q) /\ q.st = rx.st /\ q.sync = <<tx.line, rx.sync[1]>> /\ q.valid = FALSE
  BY ClockedFields, Zenon
<1> HIDE DEF q
<1> DEFINE h == IF rxs = 0 THEN [q EXCEPT !.cnt = 0, !.st = "start"] ELSE q
<1>2. RxFrame(q) = h
  BY <1>1 DEF RxFrame
<1>3. /\ RxShape(h) /\ h.sync = q.sync /\ h.valid = FALSE
      /\ rx.sync[2] = 1 => h.st = "idle"
      /\ rx.sync[2] = 0 => h.st = "start" /\ h.cnt = 0
  BY <1>1 DEF RxShape, rxs
<1> HIDE DEF h
<1>4. Alike(rx', h)
  BY <1>2, <1>3, EdgeAlike, Zenon DEF q
<1> QED
  BY <1>1, <1>3, <1>4, Zenon DEF Alike

(* The receiver takes sample k of the frame of b in w more clocks, and     *)
(* what it has taken so far agrees with b.  A frame without parity and     *)
(* with two stop bits is left at its first stop bit from the second frame  *)
(* on, when stopcnt is still set: k is then not the last bit.              *)
Sampling(f, r, b, k, w) ==
  /\ r.cnt \in Nat /\ w \in Nat
  /\ \/ r.st = "start" /\ k = 0 /\ r.cnt + w = f.rx_cpb \div 2
     \/ /\ r.cnt + w = f.rx_cpb - 1 /\ r.ferr = FALSE /\ r.perr = FALSE
        /\ \/ /\ r.st = "data" /\ k = r.bidx /\ k \in 1..f.bits /\ r.sh \in [1..f.bits -> 0..1]
              /\ (\A i \in 1..(k - 1) : r.sh[i] = b[i]) /\ r.par = Parity(b, k - 1)
           \/ r.st = "par" /\ f.parity # 0 /\ k = f.bits + 1 /\ r.sh = b /\ r.par = Parity(b, f.bits)
           \/ /\ r.st = "stop" /\ k \in FirstStop(f)..(FrameBits(f) - 1) /\ r.sh = b
              /\ f.stop2 /\ r.stopcnt = 0 => k + 1 < FrameBits(f)

(* One clock of the receiver before the sample is due.                     *)
LEMMA RxWaits ==
  ASSUME cfg \in Framings, RxShape(rx), RxEdge, NEW b, NEW k, NEW w \in Nat, w > 0, Sampling(cfg, rx, b, k, w)
  PROVE  /\ RxShape(rx') /\ Sampling(cfg, rx', b, k, w - 1) /\ rx'.valid = FALSE
         /\ rx'.sync = <<tx.line, rx.sync[1]>>
<1>0. cfg.rx_cpb \in Nat /\ cfg.rx_cpb >= 2 /\ rx.cnt \in Nat
  BY FrameTypes, Zenon DEF Sampling
<1>1. RxFrame(Clocked) = Waits(Clocked, rx.cnt + 1)
  <2> DEFINE q == Clocked
  <2>1. RxShape(q) /\ q.st = rx.st /\ q.cnt = rx.cnt
    BY ClockedFields, Zenon
  <2> HIDE DEF q
  <2>2. CASE rx.st = "start"
    <3>1. rx.cnt + w = RX_CPB \div 2
      BY <2>2 DEF Sampling, RX_CPB
    <3>2. rx.cnt # RX_CPB \div 2
      BY <1>0, <3>1
    <3> QED
      BY <2>1, <2>2, <3>2 DEF RxFrame, RxStart, Waits, q
  <2>3. CASE rx.st # "start"
    <3>1. rx.st \in {"data", "par", "stop"} /\ rx.cnt + w = RX_CPB - 1
      BY <2>3 DEF Sampling, RX_CPB
    <3>2. rx.cnt # RX_CPB - 1
      BY <1>0, <3>1 DEF RX_CPB
    <3> QED
      BY <2>1, <3>1, <3>2 DEF RxFrame, RxTimed, Waits, q
  <2> QED
    BY <2>2, <2>3
<1>2. /\ RxShape(rx') /\ rx'.st = rx.st /\ rx'.cnt = rx.cnt + 1 /\ rx'.bidx = rx.bidx /\ rx'.sh = rx.sh
      /\ rx'.par = rx.par /\ rx'.stopcnt = rx.stopcnt /\ rx'.sync = <<tx.line, rx.sync[1]>>
      /\ rx'.valid = FALSE /\ rx'.ferr = rx.ferr /\ rx'.perr = rx.perr
  BY <1>1, RxHolds, Zenon
<1>3. rx'.cnt \in Nat /\ w - 1 \in Nat /\ rx'.cnt + (w - 1) = rx.cnt + w
  BY <1>0, <1>2
<1>4. Sampling(cfg, rx', b, k, w - 1)
  BY <1>2, <1>3, Zenon DEF Sampling
<1> QED
  BY <1>2, <1>4, Zenon

(* The sample: if the synchronised line has the level of bit k, the        *)
(* receiver goes on to bit k + 1 or hands over b without an error flag.    *)
LEMMA RxSamples ==
  ASSUME cfg \in Framings, RxShape(rx), RxEdge, NEW b \in [1..cfg.bits -> 0..1], NEW k \in Nat,
         Sampling(cfg, rx, b, k, 0), rx.sync[2] = BitLevel(cfg, b, k)
  PROVE  /\ RxShape(rx') /\ rx'.sync = <<tx.line, rx.sync[1]>>
         /\ \/ /\ k + 1 < FrameBits(cfg) /\ rx'.valid = FALSE
               /\ Sampling(cfg, rx', b, k + 1, cfg.rx_cpb - 1)
            \/ /\ k >= FirstStop(cfg) /\ rx'.valid = TRUE
               /\ rx'.st = "idle" /\ rx'.data = b /\ rx'.ferr = FALSE /\ rx'.perr = FALSE
<1> DEFINE N == FrameBits(cfg)  S == FirstStop(cfg)  B == cfg.bits  R == cfg.rx_cpb  q == Clocked
<1>1. /\ R \in Nat /\ R >= 2 /\ B \in Nat /\ B >= 1 /\ S \in Nat /\ N \in Nat
      /\ S = B + (IF cfg.parity = 0 THEN 1 ELSE 2) /\ N = S + (IF cfg.stop2 THEN 2 ELSE 1) /\ cfg.stop2 \in BOOLEAN
  BY FrameTypes, Zenon
<1>2. /\ RxShape(q) /\ q.st = rx.st /\ q.cnt = rx.cnt /\ q.bidx = rx.bidx /\ q.sh = rx.sh
      /\ q.par = rx.par /\ q.stopcnt = rx.stopcnt /\ q.sync = <<tx.line, rx.sync[1]>>
      /\ q.valid = FALSE /\ q.ferr = rx.ferr /\ q.perr = rx.perr
  BY ClockedFields, Zenon
<1> HIDE DEF q
<1>3. 0 \in Nat /\ R - 1 \in Nat /\ 0 + (R - 1) = R - 1 /\ rx.cnt \in Nat
  BY <1>1 DEF Sampling
<1>4. CASE rx.st = "start"
  <2>1. k = 0 /\ rx.cnt = RX_CPB \div 2 /\ rxs = 0
    BY <1>1, <1>4 DEF Sampling, BitLevel, rxs, RX_CPB
  <2> DEFINE h == [q EXCEPT !.cnt = 0, !.bidx = 1, !.sh = Zero, !.par = 0, !.ferr = FALSE, !.perr = FALSE, !.st = "data"]
  <2>2. RxFrame(q) = h
    BY <1>2, <1>4, <2>1 DEF RxFrame, RxStart
  <2>3. /\ RxShape(h) /\ h.sync = q.sync /\ h.valid = q.valid /\ h.cnt = 0 /\ h.bidx = 1 /\ h.sh = Zero
        /\ h.par = 0 /\ h.ferr = FALSE /\ h.perr = FALSE /\ h.st = "data"
    BY <1>2 DEF RxShape
  <2> HIDE DEF h
  <2>4. Alike(rx', h)
    BY <2>2, <2>3, EdgeAlike, Zenon DEF q
  <2>5. Zero \in [1..B -> 0..1] /\ k + 1 = 1 /\ 1 \in 1..B /\ 1 - 1 = 0 /\ 1..0 = {} /\ k + 1 < N
    BY <1>1, <2>1 DEF Zero, DATA_BITS
  <2>6. Sampling(cfg, rx', b, 1, R - 1)
    <3>1. \A i \in 1..(1 - 1) : rx'.sh[i] = b[i]
      BY <2>5
    <3>2. Parity(b, 1 - 1) = 0
      BY <2>5, NoBits, Zenon
    <3> QED
      BY <1>3, <2>3, <2>4, <2>5, <3>1, <3>2, Zenon DEF Sampling, Alike
  <2> QED
    BY <1>2, <2>3, <2>4, <2>5, <2>6, Zenon DEF Alike
<1>5. CASE rx.st # "start"
  <2>1. /\ rx.cnt = RX_CPB - 1 /\ rx.ferr = FALSE /\ rx.perr = FALSE /\ rx.st \in {"data", "par", "stop"}
    BY <1>1, <1>5 DEF Sampling, RX_CPB
  <2>2. CASE rx.st = "data"
    <3>1. /\ k = rx.bidx /\ k \in 1..B /\ rx.sh \in [1..B -> 0..1]
          /\ (\A i \in 1..(k - 1) : rx.sh[i] = b[i]) /\ rx.par = Parity(b, k - 1)
      BY <2>2 DEF Sampling
    <3>2. rxs = b[k] /\ b[k] \in 0..1
      BY <1>1, <3>1 DEF BitLevel, rxs
    <3> DEFINE sh == [rx.sh EXCEPT ![k] = b[k]]
               st == IF k # B THEN "data" ELSE IF cfg.parity # 0 THEN "par" ELSE "stop"
               at == IF k # B THEN k + 1 ELSE k
               h == [[q EXCEPT !.sh = sh, !.par = Xor(rx.par, b[k]), !.st = st, !.bidx = at] EXCEPT !.cnt = 0]
    <3>3. RxFrame(q) = h
      <4>1. RxFrame(q) = RxTimed(q, RxData(q))
        BY <1>2, <2>2 DEF RxFrame
      <4>2. RxData(q) = [q EXCEPT !.sh = sh, !.par = Xor(rx.par, b[k]), !.st = st, !.bidx = at]
        BY <1>2, <3>1, <3>2 DEF RxData, RxShape, DATA_BITS, PARITY
      <4> QED
        BY <1>2, <2>1, <4>1, <4>2, Zenon DEF RxTimed
    <3> HIDE DEF sh, st, at
    <3>4. /\ RxShape(h) /\ h.sync = q.sync /\ h.valid = q.valid /\ h.cnt = 0 /\ h.bidx = at /\ h.sh = sh
          /\ h.par = Xor(rx.par, b[k]) /\ h.ferr = q.ferr /\ h.perr = q.perr /\ h.st = st /\ h.stopcnt = q.stopcnt
      BY <1>2 DEF RxShape
    <3> HIDE DEF h
    <3>5. Alike(rx', h)
      BY <3>3, <3>4, EdgeAlike, Zenon DEF q
    <3>6. sh \in [1..B -> 0..1] /\ \A i \in 1..k : sh[i] = b[i]
      <4>1. sh \in [1..B -> 0..1] /\ \A i \in 1..B : sh[i] = IF i = k THEN b[k] ELSE rx.sh[i]
        BY <3>1, <3>2 DEF sh
      <4>2. ASSUME NEW i \in 1..k PROVE i \in 1..B /\ (i # k => i \in 1..(k - 1))
        BY <1>1, <3>1
      <4> QED
        BY <3>1, <4>1, <4>2, Zenon
    <3>7. Parity(b, k) = Xor(rx.par, b[k])
      <4>1. k - 1 \in Nat /\ k - 1 < B /\ (k - 1) + 1 = k
        BY <1>1, <3>1
      <4>2. Parity(b, (k - 1) + 1) = Xor(Parity(b, k - 1), b[(k - 1) + 1])
        BY <1>1, <4>1, OneBit, Zenon
      <4> QED
        BY <3>1, <4>1, <4>2, Zenon
    <3>8. CASE k # B
      <4>1. st = "data" /\ at = k + 1 /\ k + 1 \in 1..B /\ (k + 1) - 1 = k /\ k + 1 < N
        <5>1. k + 1 \in 1..B /\ (k + 1) - 1 = k /\ k + 1 < N
          <6>1. k <= B /\ k # B
            BY <3>1, <3>8
          <6> QED
            BY <1>1, <6>1
        <5> QED
          BY <3>8, <5>1, Zenon DEF st, at
      <4>2. (\A i \in 1..((k + 1) - 1) : rx'.sh[i] = b[i]) /\ rx'.par = Parity(b, (k + 1) - 1)
        BY <3>4, <3>5, <3>6, <3>7, <4>1, Zenon DEF Alike
      <4>3. Sampling(cfg, rx', b, k + 1, R - 1)
        <5>1. /\ rx'.cnt = 0 /\ rx'.ferr = FALSE /\ rx'.perr = FALSE /\ rx'.st = "data" /\ rx'.bidx = k + 1
              /\ rx'.sh \in [1..B -> 0..1]
          BY <1>2, <2>1, <3>4, <3>5, <3>6, <4>1, Zenon DEF Alike
        <5> QED
          BY <1>3, <4>1, <4>2, <5>1, Zenon DEF Sampling
      <4> QED
        BY <1>2, <3>4, <3>5, <4>1, <4>3, Zenon DEF Alike
    <3>9. CASE k = B
      <4>1. sh = b
        BY <1>1, <3>6, <3>9
      <4>2. Sampling(cfg, rx', b, k + 1, R - 1)
        <5>1. CASE cfg.parity # 0
          <6>1. st = "par"
            BY <3>9, <5>1 DEF st
          <6> QED
            BY <1>2, <1>3, <2>1, <3>4, <3>5, <3>7, <3>9, <4>1, <5>1, <6>1, Zenon DEF Sampling, Alike
        <5>2. CASE cfg.parity = 0
          <6>1. st = "stop" /\ k + 1 \in S..(N - 1) /\ (cfg.stop2 => (k + 1) + 1 < N)
            BY <1>1, <3>9, <5>2 DEF st
          <6> QED
            BY <1>2, <1>3, <2>1, <3>4, <3>5, <4>1, <6>1, Zenon DEF Sampling, Alike
        <5> QED
          BY <5>1, <5>2
      <4>3. k + 1 < N
        BY <1>1, <3>9
      <4> QED
        BY <1>2, <3>4, <3>5, <4>2, <4>3, Zenon DEF Alike
    <3> QED
      BY <3>8, <3>9
  <2>3. CASE rx.st = "par"
    <3>1. cfg.parity # 0 /\ k = B + 1 /\ rx.sh = b /\ rx.par = Parity(b, B)
      BY <2>3 DEF Sampling
    <3>2. rxs = IF cfg.parity = 2 THEN Parity(b, B) ELSE 1 - Parity(b, B)
      <4>1. k # 0 /\ ~(k <= B) /\ k < S
        BY <1>1, <3>1
      <4> QED
        BY <4>1, Zenon DEF BitLevel, rxs
    <3>3. (IF PARITY = 2 THEN rxs # q.par ELSE rxs # 1 - q.par) = FALSE
      BY <1>2, <3>1, <3>2 DEF PARITY
    <3> DEFINE h == [[q EXCEPT !.stopcnt = 0, !.perr = FALSE, !.st = "stop"] EXCEPT !.cnt = 0]
    <3>4. RxFrame(q) = h
      <4>1. RxFrame(q) = RxTimed(q, RxPar(q))
        BY <1>2, <2>3 DEF RxFrame
      <4>2. RxPar(q) = [q EXCEPT !.stopcnt = 0, !.perr = FALSE, !.st = "stop"]
        BY <3>3, Zenon DEF RxPar
      <4> QED
        BY <1>2, <2>1, <4>1, <4>2, Zenon DEF RxTimed
    <3>5. /\ RxShape(h) /\ h.sync = q.sync /\ h.valid = q.valid /\ h.cnt = 0 /\ h.sh = q.sh
          /\ h.ferr = q.ferr /\ h.perr = FALSE /\ h.st = "stop" /\ h.stopcnt = 0
      BY <1>2 DEF RxShape
    <3> HIDE DEF h
    <3>6. Alike(rx', h)
      BY <3>4, <3>5, EdgeAlike, Zenon DEF q
    <3>7. k + 1 \in S..(N - 1) /\ (cfg.stop2 => (k + 1) + 1 < N) /\ k + 1 < N
      BY <1>1, <3>1
    <3>8. Sampling(cfg, rx', b, k + 1, R - 1)
      BY <1>2, <1>3, <2>1, <3>1, <3>5, <3>6, <3>7, Zenon DEF Sampling, Alike
    <3> QED
      BY <1>2, <3>5, <3>6, <3>7, <3>8, Zenon DEF Alike
  <2>4. CASE rx.st = "stop"
    <3>1. k \in S..(N - 1) /\ rx.sh = b /\ (cfg.stop2 /\ rx.stopcnt = 0 => k + 1 < N)
      BY <2>4 DEF Sampling
    <3>2. rxs = 1 /\ k >= S
      <4>1. k >= S
        BY <1>1, <3>1
      <4> QED
        BY <4>1, StopIsHigh, Zenon DEF rxs
    <3>3. (q.ferr \/ rxs = 0) = FALSE
      BY <1>2, <2>1, <3>2
    <3> DEFINE g == [q EXCEPT !.ferr = FALSE]
    <3>4. RxFrame(q) = RxTimed(q, RxStop(q))
      BY <1>2, <2>4 DEF RxFrame
    <3>5. RxStop(q) = IF STOP2 /\ q.stopcnt = 0 THEN [g EXCEPT !.stopcnt = 1]
                      ELSE [g EXCEPT !.data = q.sh, !.valid = TRUE, !.active = TRUE, !.st = "idle"]
      BY <3>3, Zenon DEF RxStop
    <3>6. CASE cfg.stop2 /\ rx.stopcnt = 0
      <4> DEFINE h == [[g EXCEPT !.stopcnt = 1] EXCEPT !.cnt = 0]
      <4>1. RxFrame(q) = h
        BY <1>2, <2>1, <3>4, <3>5, <3>6, Zenon DEF RxTimed, STOP2
      <4>2. /\ RxShape(h) /\ h.sync = q.sync /\ h.valid = q.valid /\ h.cnt = 0 /\ h.sh = q.sh
            /\ h.ferr = FALSE /\ h.perr = q.perr /\ h.st = q.st /\ h.stopcnt = 1
        BY <1>2 DEF RxShape
      <4> HIDE DEF h
      <4>3. Alike(rx', h)
        BY <4>1, <4>2, EdgeAlike, Zenon DEF q
      <4>4. k + 1 \in S..(N - 1) /\ 1 # 0 /\ k + 1 < N
        BY <1>1, <3>1, <3>6
      <4>5. Sampling(cfg, rx', b, k + 1, R - 1)
        BY <1>2, <1>3, <2>1, <2>4, <3>1, <4>2, <4>3, <4>4, Zenon DEF Sampling, Alike
      <4> QED
        BY <1>2, <4>2, <4>3, <4>4, <4>5, Zenon DEF Alike
    <3>7. CASE ~(cfg.stop2 /\ rx.stopcnt = 0)
      <4> DEFINE h == [[g EXCEPT !.data = q.sh, !.valid = TRUE, !.active = TRUE, !.st = "idle"] EXCEPT !.cnt = 0]
      <4>1. RxFrame(q) = h
        BY <1>2, <2>1, <3>4, <3>5, <3>7, Zenon DEF RxTimed, STOP2
      <4>2. /\ RxShape(h) /\ h.sync = q.sync /\ h.valid = TRUE /\ h.data = q.sh
            /\ h.ferr = FALSE /\ h.perr = q.perr /\ h.st = "idle"
        BY <1>2 DEF RxShape
      <4> HIDE DEF h
      <4>3. Alike(rx', h)
        BY <4>1, <4>2, EdgeAlike, Zenon DEF q
      <4> QED
        BY <1>2, <2>1, <3>1, <3>2, <4>2, <4>3, Zenon DEF Alike
    <3> QED
      BY <3>6, <3>7
  <2> QED
    BY <2>1, <2>2, <2>3, <2>4
<1> QED
  BY <1>4, <1>5

(* The level x clocks after the edge of the start bit, the transmitter e   *)
(* clocks after it, and the synchroniser, which shows the receiver the     *)
(* line of two clocks ago.                                                 *)
LevelAt(f, b, x) == IF x < 0 THEN 1 ELSE BitLevel(f, b, x \div f.tx_cpb)
Sending(f, t, b, e) ==
  \E p \in Nat, c \in Nat :
     p < FrameBits(f) /\ c < f.tx_cpb /\ e = p * f.tx_cpb + c /\ TxAt(f, t, b, p, c)
Seen(f, r, b, e) == r.sync = <<LevelAt(f, b, e - 1), LevelAt(f, b, e - 2)>>

(* The arithmetic of one clock, in a frame of n bits of t clocks.          *)
BitClock(n, t, p, c, e) ==
  /\ n * t \in Nat /\ e + 1 <= n * t /\ (c + 1 < t \/ c + 1 = t) /\ (p + 1 < n \/ p + 1 = n)
  /\ c + 1 < t => e + 1 = p * t + (c + 1) /\ e + 1 < n * t
  /\ c + 1 = t => e + 1 = (p + 1) * t + 0
  /\ c + 1 = t /\ p + 1 < n => e + 1 < n * t
  /\ c + 1 = t /\ p + 1 = n => e + 1 = n * t

LEMMA BitTimes ==
  ASSUME NEW n \in Nat, NEW t \in Nat, t >= 3, NEW p \in Nat, p < n, NEW c \in Nat, c < t, NEW e, e = p * t + c
  PROVE  BitClock(n, t, p, c, e)
<1>1. p * t \in Nat /\ (p + 1) * t = p * t + t /\ (p + 1) * t \in Nat /\ (p + 2) * t = (p + 1) * t + t /\ n * t \in Nat
  OBVIOUS
<1>2. (p + 1) * t <= n * t
  BY LaterBit
<1>3. p + 1 < n => (p + 2) * t <= n * t
  BY LaterBit
<1> QED
  BY <1>1, <1>2, <1>3 DEF BitClock

(* The transmitter's clock, in time instead of bits.                       *)
LEMMA LineTick ==
  ASSUME cfg \in Framings, TxShape(tx), NEW b \in [1..cfg.bits -> 0..1], NEW e \in Nat,
         Sending(cfg, tx, b, e), tx' = TxRun
  PROVE  /\ TxShape(tx') /\ tx.line = LevelAt(cfg, b, e) /\ tx.st # "idle"
         /\ FrameBits(cfg) * cfg.tx_cpb \in Nat /\ e + 1 <= FrameBits(cfg) * cfg.tx_cpb
         /\ e + 1 < FrameBits(cfg) * cfg.tx_cpb => Sending(cfg, tx', b, e + 1)
         /\ e + 1 = FrameBits(cfg) * cfg.tx_cpb => TxIdle(tx')
<1> DEFINE N == FrameBits(cfg)  T == cfg.tx_cpb
<1>1. N \in Nat /\ T \in Nat /\ T >= 3
  BY FrameTypes, Zenon
<1>2. PICK p \in Nat, c \in Nat : p < N /\ c < T /\ e = p * T + c /\ TxAt(cfg, tx, b, p, c)
  BY Zenon DEF Sending
<1>3. /\ TxShape(tx')
      /\ c + 1 < T => TxAt(cfg, tx', b, p, c + 1)
      /\ c + 1 = T /\ p + 1 < N => TxAt(cfg, tx', b, p + 1, 0)
      /\ c + 1 = T /\ p + 1 = N => TxIdle(tx')
  BY <1>2, TxTick, Zenon
<1>4. tx.line = BitLevel(cfg, b, p) /\ tx.st # "idle"
  BY <1>2 DEF TxAt
<1>5. tx.line = LevelAt(cfg, b, e)
  <2>1. T \in Nat \ {0} /\ c \in 0..(T - 1)
    BY <1>1, <1>2
  <2>2. e \div T = p
    BY <1>2, <2>1, BitOf, Zenon
  <2>3. ~(e < 0)
    OBVIOUS
  <2> QED
    BY <1>4, <2>2, <2>3, Zenon DEF LevelAt
<1>6. /\ N * T \in Nat /\ e + 1 <= N * T /\ (c + 1 < T \/ c + 1 = T) /\ (p + 1 < N \/ p + 1 = N)
      /\ c + 1 < T => e + 1 = p * T + (c + 1) /\ e + 1 < N * T
      /\ c + 1 = T => e + 1 = (p + 1) * T + 0
      /\ c + 1 = T /\ p + 1 < N => e + 1 < N * T
      /\ c + 1 = T /\ p + 1 = N => e + 1 = N * T
  <2>1. BitClock(N, T, p, c, e)
    BY <1>1, <1>2, BitTimes, Zenon
  <2> QED
    BY <2>1, Zenon DEF BitClock
<1>7. p + 1 \in Nat /\ c + 1 \in Nat /\ 0 \in Nat /\ 0 < T
  BY <1>1
<1>8. \A x, y \in Nat : x < y => x # y
  OBVIOUS
<1>9. e + 1 \in Nat
  OBVIOUS
<1>10. CASE c + 1 < T
  <2>1. Sending(cfg, tx', b, e + 1)
    BY <1>2, <1>3, <1>6, <1>7, <1>10, Zenon DEF Sending
  <2> QED
    BY <1>3, <1>4, <1>5, <1>6, <1>8, <1>9, <1>10, <2>1, Zenon
<1>11. CASE c + 1 = T /\ p + 1 < N
  <2>1. Sending(cfg, tx', b, e + 1)
    BY <1>3, <1>6, <1>7, <1>11, Zenon DEF Sending
  <2> QED
    BY <1>3, <1>4, <1>5, <1>6, <1>8, <1>9, <1>11, <2>1, Zenon
<1>12. CASE c + 1 = T /\ p + 1 = N
  BY <1>3, <1>4, <1>5, <1>6, <1>8, <1>9, <1>12, Zenon
<1> QED
  BY <1>6, <1>10, <1>11, <1>12, Zenon

(* The synchroniser's clock.                                               *)
LEMMA SeenTick ==
  ASSUME NEW b, NEW e \in Nat, Seen(cfg, rx, b, e),
         tx.line = LevelAt(cfg, b, e), rx'.sync = <<tx.line, rx.sync[1]>>
  PROVE  Seen(cfg, rx', b, e + 1)
<1>1. (e + 1) - 1 = e /\ (e + 1) - 2 = e - 1
  OBVIOUS
<1>2. rx.sync[1] = LevelAt(cfg, b, e - 1)
  BY DEF Seen
<1> QED
  BY <1>1, <1>2, Zenon DEF Seen

(* From the first stop bit on, in time.                                    *)
LEMMA HighAt ==
  ASSUME NEW f \in Framings, NEW b, NEW x \in Nat, x >= FirstStop(f) * f.tx_cpb
  PROVE  LevelAt(f, b, x) = 1
<1> DEFINE S == FirstStop(f)  T == f.tx_cpb  q == x \div T
<1>1. S \in Nat /\ T \in Nat \ {0}
  BY FrameTypes
<1>2. q \in Nat /\ x < (q + 1) * T
  BY <1>1
<1>3. q >= S
  <2> SUFFICES ASSUME q < S PROVE FALSE
    BY <1>1, <1>2
  <2> HIDE DEF q
  <2>1. q + 1 <= S /\ q + 1 \in Nat
    BY <1>1, <1>2
  <2>2. (q + 1) * T <= S * T
    BY <1>1, <2>1, LaterBit
  <2> QED
    BY <1>1, <1>2, <2>2
<1>4. BitLevel(f, b, q) = 1
  BY <1>2, <1>3, StopIsHigh
<1>5. ~(x < 0)
  OBVIOUS
<1> QED
  BY <1>4, <1>5, Zenon DEF LevelAt

(* The assumption on the bit times, for sample k.                          *)
LEMMA Within ==
  ASSUME NEW f \in Framings, NEW k \in Nat, k < FrameBits(f)
  PROVE  /\ SampledAt(f, k) \in Nat /\ k * f.tx_cpb \in Nat
         /\ k * f.tx_cpb <= SampledAt(f, k) /\ SampledAt(f, k) < k * f.tx_cpb + f.tx_cpb
         /\ SampledAt(f, k + 1) = SampledAt(f, k) + f.rx_cpb
<1>1. f.rx_cpb \in Nat /\ f.tx_cpb \in Nat /\ FrameBits(f) \in Nat
  BY FrameTypes, Zenon
<1>2. k \in 0..(FrameBits(f) - 1)
  BY <1>1
<1>3. k * f.tx_cpb <= SampledAt(f, k) /\ SampledAt(f, k) < (k + 1) * f.tx_cpb
  BY <1>2, ToleranceAssumption, Zenon DEF Tolerated
<1>4. SampledAt(f, k) \in Nat /\ SampledAt(f, k + 1) = SampledAt(f, k) + f.rx_cpb
  BY <1>1 DEF SampledAt
<1>5. (k + 1) * f.tx_cpb = k * f.tx_cpb + f.tx_cpb /\ k * f.tx_cpb \in Nat
  BY <1>1
<1> QED
  BY <1>3, <1>4, <1>5

(* Two ends that are programmed alike, with at least three clocks a bit,   *)
(* satisfy it.                                                             *)
THEOREM SameSpeedTolerated ==
  ASSUME NEW f, f.tx_cpb = f.rx_cpb, f.rx_cpb \in Nat, f.rx_cpb >= 3, FrameBits(f) \in Nat
  PROVE  Tolerated(f)
<1> DEFINE t == f.tx_cpb
<1>1. t \in Nat /\ t >= 3 /\ f.rx_cpb = t
  OBVIOUS
<1>2. \A u, k \in Nat : u >= 3 => k * u <= u \div 2 + 1 + k * u /\ u \div 2 + 1 + k * u < (k + 1) * u
  <2> SUFFICES ASSUME NEW u \in Nat, NEW k \in Nat, u >= 3
               PROVE  k * u <= u \div 2 + 1 + k * u /\ u \div 2 + 1 + k * u < (k + 1) * u
    OBVIOUS
  <2>1. k * u \in Nat /\ (k + 1) * u = k * u + u
    OBVIOUS
  <2>2. u \div 2 \in Nat /\ u \div 2 + 1 < u
    OBVIOUS
  <2> QED
    BY <2>1, <2>2
<1>3. \A k \in 0..(FrameBits(f) - 1) : k \in Nat
  OBVIOUS
<1> QED
  BY <1>1, <1>2, <1>3, Zenon DEF Tolerated, SampledAt

(* When sample k is due the synchroniser shows bit k.                      *)
LEMMA SampleLevel ==
  ASSUME NEW f \in Framings, NEW b, NEW r, NEW k \in Nat, k < FrameBits(f), NEW e,
         Seen(f, r, b, e), e = SampledAt(f, k) + 2
  PROVE  r.sync[2] = BitLevel(f, b, k)
<1> DEFINE T == f.tx_cpb  s == SampledAt(f, k)  c == s - k * T
<1>1. s \in Nat /\ k * T \in Nat /\ k * T <= s /\ s < k * T + T
  BY Within, Zenon
<1>2. T \in Nat \ {0}
  BY FrameTypes
<1>0. \A y, z, t \in Nat : y <= z /\ z < y + t => z - y \in 0..(t - 1) /\ z = y + (z - y) /\ ~(z < 0) /\ (z + 2) - 2 = z
  OBVIOUS
<1>3. c \in 0..(T - 1) /\ s = k * T + c /\ ~(s < 0) /\ e - 2 = s
  BY <1>0, <1>1, <1>2, Zenon
<1> HIDE DEF s
<1>4. s \div T = k
  BY <1>2, <1>3, BitOf, Zenon
<1>5. r.sync[2] = LevelAt(f, b, s)
  BY <1>3 DEF Seen
<1> QED
  BY <1>3, <1>4, <1>5, Zenon DEF LevelAt

(* A receiver still sampling when the frame has ended is at its last bit,  *)
(* and at most a clock away from it.                                       *)
LEMMA LastBit ==
  ASSUME NEW f \in Framings, NEW k \in Nat, k < FrameBits(f), NEW x \in Nat,
         FrameBits(f) * f.tx_cpb + x <= SampledAt(f, k) + 2
  PROVE  k = FrameBits(f) - 1 /\ x <= 1
<1> DEFINE N == FrameBits(f)  T == f.tx_cpb  s == SampledAt(f, k)
<1>1. s \in Nat /\ k * T \in Nat /\ s < k * T + T
  BY Within, Zenon
<1>2. N \in Nat /\ T \in Nat /\ T >= 3
  BY FrameTypes, Zenon
<1> HIDE DEF s
<1>3. N * T \in Nat /\ N * T + x <= s + 2
  BY <1>2 DEF s
<1>4. (k + 1) * T = k * T + T /\ (k + 2) * T = k * T + T + T
  BY <1>2
<1>5. ~(k + 2 <= N)
  <2> SUFFICES ASSUME k + 2 <= N PROVE FALSE
    OBVIOUS
  <2>1. (k + 2) * T <= N * T
    BY <1>2, LaterBit
  <2> QED
    BY <1>1, <1>2, <1>3, <1>4, <2>1
<1>6. k + 1 = N
  BY <1>2, <1>5
<1>7. N * T = k * T + T
  BY <1>4, <1>6
<1> QED
  BY <1>1, <1>2, <1>3, <1>6, <1>7

(* The six ways the two ends can stand to each other.  Resting: nothing is *)
(* on its way.  Begun: the start bit has not passed the synchroniser.      *)
(* Following: the receiver is as far into the frame as the transmitter,    *)
(* three clocks behind.  Trailing: the transmitter is through and the last *)
(* sample is still due.  Overlap: it has started the next frame already.   *)
(* DoneEarly: the receiver is through, the transmitter still in its stop   *)
(* bits.                                                                   *)
LineBytes(f) == [1..f.bits -> 0..1]
FrameEnd(f) == FrameBits(f) * f.tx_cpb
Resting(t, r, w) == TxIdle(t) /\ r.st = "idle" /\ r.sync = <<1, 1>> /\ w = <<>>
Begun(f, t, r, w, b) ==
  \E e \in 0..2 : Sending(f, t, b, e) /\ Seen(f, r, b, e) /\ r.st = "idle" /\ w = <<b>>
Following(f, t, r, w, b) ==
  \E e, k, x \in Nat :
     /\ Sending(f, t, b, e) /\ Seen(f, r, b, e) /\ Sampling(f, r, b, k, x) /\ w = <<b>>
     /\ k < FrameBits(f) /\ e + x = SampledAt(f, k) + 2
Trailing(f, t, r, w, b) ==
  \E e, x \in Nat :
     /\ TxIdle(t) /\ r.sync = <<1, 1>> /\ Sampling(f, r, b, FrameBits(f) - 1, x) /\ w = <<b>>
     /\ e >= FrameEnd(f) /\ e + x = SampledAt(f, FrameBits(f) - 1) + 2
Overlap(f, t, r, w, b) ==
  \E a \in LineBytes(f) :
     Sending(f, t, a, 0) /\ r.sync = <<1, 1>> /\ Sampling(f, r, b, FrameBits(f) - 1, 0) /\ w = <<b, a>>
DoneEarly(f, t, r, w, b) ==
  \E e \in Nat :
     /\ Sending(f, t, b, e) /\ e >= FirstStop(f) * f.tx_cpb
     /\ r.st = "idle" /\ r.sync = <<1, 1>> /\ w = <<>>
LineInvOf(f, t, r, w) ==
  /\ f \in Framings /\ TxShape(t) /\ RxShape(r)
  /\ \/ Resting(t, r, w)
     \/ \E b \in LineBytes(f) : \/ Begun(f, t, r, w, b) \/ Following(f, t, r, w, b) \/ Trailing(f, t, r, w, b)
                            \/ Overlap(f, t, r, w, b) \/ DoneEarly(f, t, r, w, b)
LineInv == LineInvOf(cfg, tx, rx, way)
HandsOver == rx'.valid => /\ way # <<>> /\ rx'.data = Head(way)
                          /\ ~rx'.ferr /\ ~rx'.perr
StepKeeps == LineInvOf(cfg, tx', rx', way') /\ HandsOver

(* What an edge takes from the bytes on their way.                         *)
LEMMA WayParts ==
  /\ \A a, b : /\ <<>> \o <<a>> = <<a>> /\ <<b>> \o <<a>> = <<b, a>> /\ <<b>> \o <<>> = <<b>>
               /\ <<b, a>> \o <<>> = <<b, a>> /\ Tail(<<b>>) = <<>> /\ Tail(<<b, a>>) = <<a>>
               /\ Head(<<b>>) = b /\ Head(<<b, a>>) = b /\ <<b>> # <<>> /\ <<b, a>> # <<>>
  /\ <<>> \o <<>> = <<>>
<1>1. \A a, b : /\ Tail(<<b>>) = <<>> /\ Tail(<<b, a>>) = <<a>>
                /\ Head(<<b>>) = b /\ Head(<<b, a>>) = b /\ <<b>> # <<>> /\ <<b, a>> # <<>>
  OBVIOUS
<1>2. ASSUME NEW a, NEW b
      PROVE  /\ <<>> \o <<a>> = <<a>> /\ <<b>> \o <<a>> = <<b, a>> /\ <<b>> \o <<>> = <<b>>
             /\ <<b, a>> \o <<>> = <<b, a>>
  <2>1. <<a>> \in Seq({a, b}) /\ <<b>> \in Seq({a, b}) /\ <<b, a>> \in Seq({a, b})
    OBVIOUS
  <2>2. <<>> \o <<a>> = <<a>> /\ <<b>> \o <<>> = <<b>> /\ <<b, a>> \o <<>> = <<b, a>>
    BY <2>1, ConcatEmptySeq
  <2>3. <<b>> \o <<a>> = <<b, a>>
    <3>1. Len(<<b>>) = 1 /\ Len(<<a>>) = 1 /\ Len(<<b, a>>) = 2 /\ <<b>>[1] = b /\ <<a>>[1] = a
          /\ <<b, a>>[1] = b /\ <<b, a>>[2] = a
      OBVIOUS
    <3> DEFINE s == <<b>> \o <<a>>
    <3>2. s \in Seq({a, b}) /\ Len(s) = 2 /\ s[1] = b /\ s[2] = a
      BY <2>1, <3>1
    <3> HIDE DEF s
    <3>3. \A i \in 1..2 : i = 1 \/ i = 2
      OBVIOUS
    <3>4. \A i \in 1..Len(s) : s[i] = <<b, a>>[i]
      BY <3>1, <3>2, <3>3, Zenon
    <3> QED
      BY <2>1, <3>1, <3>2, <3>4, SeqEqual, Zenon DEF s
  <2> QED
    BY <2>2, <2>3
<1>3. <<>> \o <<>> = <<>>
  OBVIOUS
<1> QED
  BY <1>1, <1>2, <1>3, Zenon

LEMMA HandedOver ==
  ASSUME rx'.valid = TRUE, rx'.ferr = FALSE, rx'.perr = FALSE, NEW b, rx'.data = b
  PROVE  /\ way = <<b>> => HandsOver /\ Way(<<>>) = <<>> /\ \A a : Way(<<a>>) = <<a>>
         /\ \A a : way = <<b, a>> => HandsOver /\ Way(<<>>) = <<a>>
<1>1. ASSUME way = <<b>> PROVE HandsOver /\ Way(<<>>) = <<>> /\ \A a : Way(<<a>>) = <<a>>
  <2>1. HandsOver
    BY <1>1, WayParts, Zenon DEF HandsOver
  <2>2. Way(<<>>) = <<>>
    BY <1>1, WayParts, Zenon DEF Way
  <2>3. ASSUME NEW a PROVE Way(<<a>>) = <<a>>
    <3>1. way \o <<a>> = <<b, a>> /\ <<b, a>> # <<>> /\ Tail(<<b, a>>) = <<a>>
      BY <1>1, WayParts, Zenon
    <3> QED
      BY <3>1, Zenon DEF Way
  <2> QED
    BY <2>1, <2>2, <2>3
<1>2. ASSUME NEW a, way = <<b, a>> PROVE HandsOver /\ Way(<<>>) = <<a>>
  <2>1. HandsOver
    BY <1>2, WayParts, Zenon DEF HandsOver
  <2>2. Way(<<>>) = <<a>>
    <3>1. way \o <<>> = <<b, a>> /\ <<b, a>> # <<>> /\ Tail(<<b, a>>) = <<a>>
      BY <1>2, WayParts, Zenon
    <3> QED
      BY <3>1, Zenon DEF Way
  <2> QED
    BY <2>1, <2>2
<1> QED
  BY <1>1, <1>2, Zenon

LEMMA NothingTaken ==
  ASSUME rx'.valid = FALSE
  PROVE  /\ HandsOver /\ \A s : Way(s) = way \o s
  BY Zenon DEF HandsOver, Way

LEMMA SyncPair == <<1, 1>>[1] = 1 /\ <<1, 1>>[2] = 1
  OBVIOUS

(* A frame begins.                                                         *)
LEMMA SendBegins ==
  ASSUME cfg \in Framings, TxShape(tx), NEW a \in Sent(DATA_BITS), tx' = TxStart(a)
  PROVE  TxShape(tx') /\ a \in LineBytes(cfg) /\ Sending(cfg, tx', a, 0)
<1>1. a \in LineBytes(cfg)
  BY FrameTypes, Zenon DEF LineBytes, DATA_BITS
<1>2. /\ TxShape(tx') /\ tx'.sh = a /\ tx'.cnt = 0 /\ tx'.line = 0 /\ tx'.st = "start"
  BY DEF TxShape, TxStart
<1>3. BitLevel(cfg, a, 0) = 0
  BY DEF BitLevel
<1>4. TxAt(cfg, tx', a, 0, 0)
  BY <1>2, <1>3, Zenon DEF TxAt
<1>5. 0 \in Nat /\ 0 < FrameBits(cfg) /\ 0 < cfg.tx_cpb /\ 0 = 0 * cfg.tx_cpb + 0
  BY FrameTypes
<1>6. Sending(cfg, tx', a, 0)
  BY <1>4, <1>5, Zenon DEF Sending
<1> QED
  BY <1>1, <1>2, <1>6

LEMMA AtFirst ==
  ASSUME NEW f, NEW r, NEW b, r.sync = <<1, 1>>
  PROVE  Seen(f, r, b, 0)
<1>1. 0 - 1 < 0 /\ 0 - 2 < 0
  OBVIOUS
<1>2. LevelAt(f, b, 0 - 1) = 1 /\ LevelAt(f, b, 0 - 2) = 1
  BY <1>1, Zenon DEF LevelAt
<1> QED
  BY <1>2, Zenon DEF Seen

(* The transmitter at rest.                                                *)
LEMMA IdleTx ==
  ASSUME TxShape(tx), TxIdle(tx), tx' = TxRun
  PROVE  TxShape(tx') /\ TxIdle(tx')
  BY DEF TxShape, TxIdle, TxRun

LEMMA FromResting ==
  ASSUME LineInv, Resting(tx, rx, way), RxEdge,
         \/ tx' = TxRun /\ way' = Way(<<>>)
         \/ \E b \in Sent(DATA_BITS) : tx' = TxStart(b) /\ way' = Way(<<b>>)
  PROVE  StepKeeps
<1>1. cfg \in Framings /\ TxShape(tx) /\ RxShape(rx)
  BY Zenon DEF LineInv, LineInvOf
<1>2. TxIdle(tx) /\ rx.st = "idle" /\ rx.sync = <<1, 1>> /\ way = <<>> /\ tx.line = 1
  BY Zenon DEF Resting, TxIdle
<1>3. RxShape(rx') /\ rx'.sync = <<1, 1>> /\ rx'.valid = FALSE /\ rx'.st = "idle"
  BY <1>1, <1>2, RxLooks, SyncPair, Zenon
<1>4. HandsOver /\ \A s : Way(s) = way \o s
  BY <1>3, NothingTaken, Zenon
<1>5. CASE tx' = TxRun /\ way' = Way(<<>>)
  <2>1. TxShape(tx') /\ TxIdle(tx')
    BY <1>1, <1>2, <1>5, IdleTx, Zenon
  <2>2. way' = <<>>
    BY <1>2, <1>4, <1>5, WayParts, Zenon
  <2> QED
    BY <1>1, <1>3, <1>4, <2>1, <2>2, Zenon DEF StepKeeps, LineInvOf, Resting
<1>6. ASSUME NEW b \in Sent(DATA_BITS), tx' = TxStart(b), way' = Way(<<b>>) PROVE StepKeeps
  <2>1. TxShape(tx') /\ b \in LineBytes(cfg) /\ Sending(cfg, tx', b, 0)
    BY <1>1, <1>6, SendBegins, Zenon
  <2>2. way' = <<b>>
    BY <1>2, <1>4, <1>6, WayParts, Zenon
  <2>3. Seen(cfg, rx', b, 0)
    BY <1>3, AtFirst, Zenon
  <2>4. 0 \in 0..2
    OBVIOUS
  <2>5. Begun(cfg, tx', rx', way', b)
    BY <1>3, <2>1, <2>2, <2>3, <2>4, Zenon DEF Begun
  <2> QED
    BY <1>1, <1>3, <1>4, <2>1, <2>5, Zenon DEF StepKeeps, LineInvOf
<1> QED
  BY <1>5, <1>6, Zenon

(* A step from each of them, and what it hands over.                       *)
LEMMA FromBegun ==
  ASSUME LineInv, NEW b \in LineBytes(cfg), Begun(cfg, tx, rx, way, b), RxEdge, tx' = TxRun, way' = Way(<<>>)
  PROVE  StepKeeps
<1>1. cfg \in Framings /\ TxShape(tx) /\ RxShape(rx) /\ b \in [1..cfg.bits -> 0..1]
  BY Zenon DEF LineInv, LineInvOf, LineBytes
<1>2. PICK e \in 0..2 : Sending(cfg, tx, b, e) /\ Seen(cfg, rx, b, e) /\ rx.st = "idle" /\ way = <<b>>
  BY Zenon DEF Begun
<1>3. e \in Nat
  OBVIOUS
<1>4. /\ TxShape(tx') /\ tx.line = LevelAt(cfg, b, e)
      /\ e + 1 < FrameBits(cfg) * cfg.tx_cpb => Sending(cfg, tx', b, e + 1)
  BY <1>1, <1>2, <1>3, LineTick, Zenon
<1>5. Sending(cfg, tx', b, e + 1)
  <2>1. \A n, t \in Nat : n >= 2 /\ t >= 3 => 3 < n * t
    <3> SUFFICES ASSUME NEW n \in Nat, NEW t \in Nat, n >= 2, t >= 3 PROVE 3 < n * t
      OBVIOUS
    <3>1. 2 * t <= n * t /\ n * t \in Nat
      BY LaterBit
    <3> QED
      BY <3>1
  <2>2. FrameBits(cfg) \in Nat /\ cfg.tx_cpb \in Nat /\ FrameBits(cfg) >= 2 /\ cfg.tx_cpb >= 3
    BY <1>1, FrameTypes
  <2>3. 3 < FrameBits(cfg) * cfg.tx_cpb /\ FrameBits(cfg) * cfg.tx_cpb \in Nat
    BY <2>1, <2>2
  <2>4. e + 1 < FrameBits(cfg) * cfg.tx_cpb
    BY <2>3
  <2> QED
    BY <1>4, <2>4, Zenon
<1>6. /\ RxShape(rx') /\ rx'.sync = <<tx.line, rx.sync[1]>> /\ rx'.valid = FALSE
      /\ rx.sync[2] = 1 => rx'.st = "idle"
      /\ rx.sync[2] = 0 => rx'.st = "start" /\ rx'.cnt = 0
  BY <1>1, <1>2, RxLooks, Zenon
<1>7. HandsOver /\ way' = <<b>>
  BY <1>2, <1>6, NothingTaken, WayParts, Zenon
<1>8. Seen(cfg, rx', b, e + 1)
  BY <1>2, <1>3, <1>4, <1>6, SeenTick, Zenon
<1>9. rx.sync[2] = LevelAt(cfg, b, e - 2)
  BY <1>2 DEF Seen
<1>10. CASE e < 2
  <2>1. e - 2 < 0 /\ e + 1 \in 0..2
    BY <1>10
  <2>2. rx'.st = "idle"
    BY <1>6, <1>9, <2>1, Zenon DEF LevelAt
  <2>3. Begun(cfg, tx', rx', way', b)
    BY <1>5, <1>7, <1>8, <2>1, <2>2, Zenon DEF Begun
  <2> QED
    BY <1>1, <1>4, <1>6, <1>7, <2>3, Zenon DEF StepKeeps, LineInvOf
<1>11. CASE e = 2
  <2> DEFINE x == cfg.rx_cpb \div 2
  <2>1. cfg.rx_cpb \in Nat /\ x \in Nat /\ 0 \in Nat /\ 0 + x = x /\ 0 < FrameBits(cfg) /\ e + 1 \in Nat
    BY <1>1, FrameTypes
  <2>2. rx.sync[2] = 0
    <3>1. e - 2 = 0 /\ ~(0 < 0)
      BY <1>11
    <3>2. 0 \div cfg.tx_cpb = 0
      BY <1>1, FrameTypes
    <3>3. BitLevel(cfg, b, 0) = 0
      BY Zenon DEF BitLevel
    <3> QED
      BY <1>9, <3>1, <3>2, <3>3, Zenon DEF LevelAt
  <2>3. Sampling(cfg, rx', b, 0, x)
    BY <1>6, <2>1, <2>2, Zenon DEF Sampling
  <2>4. (e + 1) + x = SampledAt(cfg, 0) + 2
    BY <1>11, <2>1 DEF SampledAt
  <2>5. Following(cfg, tx', rx', way', b)
    BY <1>5, <1>7, <1>8, <2>1, <2>3, <2>4, Zenon DEF Following
  <2> QED
    BY <1>1, <1>4, <1>6, <1>7, <2>5, Zenon DEF StepKeeps, LineInvOf
<1>12. e < 2 \/ e = 2
  OBVIOUS
<1> QED
  BY <1>10, <1>11, <1>12, Zenon

(* The last bit is a stop bit, and a stop bit is at least three clocks.    *)
LEMMA LastTimes ==
  ASSUME NEW f \in Framings
  PROVE  /\ FrameEnd(f) \in Nat /\ FirstStop(f) * f.tx_cpb \in Nat /\ FirstStop(f) * f.tx_cpb + 3 <= FrameEnd(f)
         /\ FrameBits(f) - 1 \in Nat /\ FrameBits(f) - 1 < FrameBits(f) /\ FrameBits(f) - 1 >= FirstStop(f)
<1> DEFINE N == FrameBits(f)  S == FirstStop(f)  T == f.tx_cpb
<1>1. N \in Nat /\ S \in Nat /\ T \in Nat /\ T >= 3 /\ S + 1 <= N
  BY FrameTypes
<1>2. (S + 1) * T <= N * T
  BY <1>1, LaterBit
<1>3. \A s, t, n \in Nat : t >= 3 /\ (s + 1) * t <= n * t => s * t + 3 <= n * t /\ n * t \in Nat /\ s * t \in Nat
  <2> SUFFICES ASSUME NEW s \in Nat, NEW t \in Nat, NEW n \in Nat, t >= 3, (s + 1) * t <= n * t
               PROVE  s * t + 3 <= n * t /\ n * t \in Nat /\ s * t \in Nat
    OBVIOUS
  <2>1. (s + 1) * t = s * t + t /\ n * t \in Nat /\ s * t \in Nat
    OBVIOUS
  <2> QED
    BY <2>1
<1>4. N - 1 \in Nat /\ N - 1 < N /\ N - 1 >= S
  BY <1>1
<1> QED
  BY <1>1, <1>2, <1>3, <1>4, Zenon DEF FrameEnd

(* The two synchroniser bits are high once the line has been.              *)
LEMMA BothHigh ==
  ASSUME NEW f \in Framings, NEW b, NEW r, NEW e \in Nat, Seen(f, r, b, e), e >= FirstStop(f) * f.tx_cpb + 2
  PROVE  r.sync = <<1, 1>>
<1> DEFINE s == FirstStop(f) * f.tx_cpb
<1>1. s \in Nat
  BY LastTimes, Zenon
<1> HIDE DEF s
<1>2. e >= s + 2
  BY DEF s
<1>3. e - 1 \in Nat /\ e - 2 \in Nat /\ e - 1 >= s /\ e - 2 >= s
  BY <1>1, <1>2
<1>4. LevelAt(f, b, e - 1) = 1 /\ LevelAt(f, b, e - 2) = 1
  BY <1>3, HighAt, Zenon DEF s
<1> QED
  BY <1>4, Zenon DEF Seen

LEMMA FromFollowing ==
  ASSUME LineInv, NEW b \in LineBytes(cfg), Following(cfg, tx, rx, way, b), RxEdge, tx' = TxRun, way' = Way(<<>>)
  PROVE  StepKeeps
<1> DEFINE N == FrameBits(cfg)  S == FirstStop(cfg)  T == cfg.tx_cpb  R == cfg.rx_cpb
<1>1. cfg \in Framings /\ TxShape(tx) /\ RxShape(rx) /\ b \in [1..cfg.bits -> 0..1]
  BY Zenon DEF LineInv, LineInvOf, LineBytes
<1>2. PICK e \in Nat, k \in Nat, x \in Nat :
         /\ Sending(cfg, tx, b, e) /\ Seen(cfg, rx, b, e) /\ Sampling(cfg, rx, b, k, x) /\ way = <<b>>
         /\ k < N /\ e + x = SampledAt(cfg, k) + 2
  BY Zenon DEF Following
<1>3. /\ TxShape(tx') /\ tx.line = LevelAt(cfg, b, e) /\ e + 1 <= FrameEnd(cfg)
      /\ e + 1 < FrameEnd(cfg) => Sending(cfg, tx', b, e + 1)
      /\ e + 1 = FrameEnd(cfg) => TxIdle(tx')
  BY <1>1, <1>2, LineTick, Zenon DEF FrameEnd
<1>4. ASSUME rx'.sync = <<tx.line, rx.sync[1]>> PROVE Seen(cfg, rx', b, e + 1)
  BY <1>2, <1>3, <1>4, SeenTick, Zenon
<1>5. FrameEnd(cfg) \in Nat /\ S * T \in Nat /\ S * T + 3 <= FrameEnd(cfg) /\ e + 1 \in Nat
  <2>1. e + 1 \in Nat
    OBVIOUS
  <2> QED
    BY <1>1, <2>1, LastTimes, Zenon
<1>6. SampledAt(cfg, k) \in Nat /\ SampledAt(cfg, k + 1) = SampledAt(cfg, k) + R /\ R \in Nat /\ R >= 2
  BY <1>1, <1>2, Within, FrameTypes, Zenon
<1>7. e + 1 < FrameEnd(cfg) \/ e + 1 = FrameEnd(cfg)
  BY <1>3, <1>5
<1>8. ASSUME RxShape(rx'), rx'.sync = <<tx.line, rx.sync[1]>>, rx'.valid = FALSE,
             NEW j \in Nat, NEW y \in Nat, j < N, Sampling(cfg, rx', b, j, y), (e + 1) + y = SampledAt(cfg, j) + 2
      PROVE  StepKeeps
  <2>1. HandsOver /\ way' = <<b>>
    BY <1>2, <1>8, NothingTaken, WayParts, Zenon
  <2>2. Seen(cfg, rx', b, e + 1)
    BY <1>4, <1>8, Zenon
  <2>3. CASE e + 1 < FrameEnd(cfg)
    <3>1. Following(cfg, tx', rx', way', b)
      BY <1>3, <1>5, <1>8, <2>1, <2>2, <2>3, Zenon DEF Following
    <3> QED
      BY <1>1, <1>3, <1>8, <2>1, <3>1, Zenon DEF StepKeeps, LineInvOf
  <2>4. CASE e + 1 = FrameEnd(cfg)
    <3>1. j = N - 1
      <4>1. SampledAt(cfg, j) \in Nat
        BY <1>1, <1>8, Within, Zenon
      <4>2. FrameEnd(cfg) + y <= SampledAt(cfg, j) + 2
        BY <1>5, <1>8, <2>4, <4>1
      <4> QED
        BY <1>1, <1>8, <4>2, LastBit, Zenon DEF FrameEnd
    <3>2. e + 1 >= S * T + 2 /\ e + 1 >= FrameEnd(cfg)
      BY <1>5, <2>4
    <3>3. rx'.sync = <<1, 1>>
      BY <1>1, <1>5, <2>2, <3>2, BothHigh, Zenon
    <3>4. Trailing(cfg, tx', rx', way', b)
      BY <1>3, <1>5, <1>8, <2>1, <2>4, <3>1, <3>2, <3>3, Zenon DEF Trailing
    <3> QED
      BY <1>1, <1>3, <1>8, <2>1, <3>4, Zenon DEF StepKeeps, LineInvOf
  <2> QED
    BY <1>7, <2>3, <2>4, Zenon
<1>9. CASE x > 0
  <2>1. /\ RxShape(rx') /\ Sampling(cfg, rx', b, k, x - 1) /\ rx'.valid = FALSE
        /\ rx'.sync = <<tx.line, rx.sync[1]>>
    BY <1>1, <1>2, <1>9, RxWaits, Zenon
  <2>2. x - 1 \in Nat /\ (e + 1) + (x - 1) = e + x
    BY <1>9
  <2> QED
    BY <1>2, <1>8, <2>1, <2>2, Zenon
<1>10. CASE x = 0
  <2>1. e = SampledAt(cfg, k) + 2
    BY <1>2, <1>6, <1>10
  <2>2. rx.sync[2] = BitLevel(cfg, b, k)
    BY <1>1, <1>2, <2>1, SampleLevel, Zenon
  <2>3. /\ RxShape(rx') /\ rx'.sync = <<tx.line, rx.sync[1]>>
        /\ \/ /\ k + 1 < N /\ rx'.valid = FALSE
              /\ Sampling(cfg, rx', b, k + 1, R - 1)
           \/ /\ k >= S /\ rx'.valid = TRUE
              /\ rx'.st = "idle" /\ rx'.data = b /\ rx'.ferr = FALSE /\ rx'.perr = FALSE
    BY <1>1, <1>2, <1>10, <2>2, RxSamples, Zenon
  <2>4. CASE k + 1 < N /\ rx'.valid = FALSE /\ Sampling(cfg, rx', b, k + 1, R - 1)
    <3>1. k + 1 \in Nat /\ R - 1 \in Nat /\ (e + 1) + (R - 1) = SampledAt(cfg, k + 1) + 2
      BY <1>6, <2>1
    <3> QED
      BY <1>8, <2>3, <2>4, <3>1, Zenon
  <2>5. CASE /\ k >= S /\ rx'.valid = TRUE
             /\ rx'.st = "idle" /\ rx'.data = b /\ rx'.ferr = FALSE /\ rx'.perr = FALSE
    <3>1. HandsOver /\ way' = <<>>
      BY <1>2, <2>5, HandedOver, Zenon
    <3>2. e + 1 >= S * T + 2 /\ e + 1 >= S * T
      <4>1. k * T <= SampledAt(cfg, k) /\ k * T \in Nat
        BY <1>1, <1>2, Within, Zenon
      <4>2. S * T <= k * T
        <5>1. S \in Nat /\ T \in Nat /\ S <= k
          BY <1>1, <2>5, FrameTypes
        <5> QED
          BY <5>1, LaterBit, Zenon
      <4> QED
        BY <1>5, <1>6, <2>1, <4>1, <4>2, Beyond, Zenon
    <3>3. rx'.sync = <<1, 1>>
      BY <1>1, <1>4, <1>5, <2>3, <3>2, BothHigh, Zenon
    <3>4. CASE e + 1 < FrameEnd(cfg)
      <4>1. DoneEarly(cfg, tx', rx', way', b)
        BY <1>3, <1>5, <2>5, <3>1, <3>2, <3>3, <3>4, Zenon DEF DoneEarly
      <4> QED
        BY <1>1, <1>3, <2>3, <3>1, <4>1, Zenon DEF StepKeeps, LineInvOf
    <3>5. CASE e + 1 = FrameEnd(cfg)
      BY <1>1, <1>3, <2>3, <2>5, <3>1, <3>3, <3>5, Zenon DEF StepKeeps, LineInvOf, Resting
    <3> QED
      BY <1>7, <3>4, <3>5, Zenon
  <2> QED
    BY <2>3, <2>4, <2>5, Zenon
<1>11. x > 0 \/ x = 0
  OBVIOUS
<1> QED
  BY <1>9, <1>10, <1>11, Zenon

LEMMA FromTrailing ==
  ASSUME LineInv, NEW b \in LineBytes(cfg), Trailing(cfg, tx, rx, way, b), RxEdge,
         \/ tx' = TxRun /\ way' = Way(<<>>)
         \/ \E a \in Sent(DATA_BITS) : tx' = TxStart(a) /\ way' = Way(<<a>>)
  PROVE  StepKeeps
<1> DEFINE N == FrameBits(cfg)
<1>1. cfg \in Framings /\ TxShape(tx) /\ RxShape(rx) /\ b \in [1..cfg.bits -> 0..1]
  BY Zenon DEF LineInv, LineInvOf, LineBytes
<1>2. PICK e \in Nat, x \in Nat :
         /\ TxIdle(tx) /\ rx.sync = <<1, 1>> /\ Sampling(cfg, rx, b, N - 1, x) /\ way = <<b>>
         /\ e >= FrameEnd(cfg) /\ e + x = SampledAt(cfg, N - 1) + 2
  BY Zenon DEF Trailing
<1>3. FrameEnd(cfg) \in Nat /\ N - 1 \in Nat /\ N - 1 < N /\ N - 1 >= FirstStop(cfg) /\ N \in Nat
  BY <1>1, LastTimes, FrameTypes, Zenon
<1>4. SampledAt(cfg, N - 1) \in Nat
  BY <1>1, <1>3, Within, Zenon
<1>5. x <= 1
  <2>1. FrameEnd(cfg) + x <= SampledAt(cfg, N - 1) + 2
    BY <1>2, <1>3, <1>4
  <2> QED
    BY <1>1, <1>3, <2>1, LastBit, Zenon DEF FrameEnd
<1>6. tx.line = 1 /\ rx.sync[1] = 1 /\ rx.sync[2] = 1
  BY <1>2, SyncPair, Zenon DEF TxIdle
<1>7. CASE x = 1
  <2>1. x > 0 /\ x - 1 = 0 /\ (e + 1) + 0 = e + x /\ e + 1 \in Nat /\ 0 \in Nat /\ e + 1 >= FrameEnd(cfg)
    BY <1>2, <1>3, <1>7
  <2>2. RxShape(rx') /\ Sampling(cfg, rx', b, N - 1, 0) /\ rx'.valid = FALSE /\ rx'.sync = <<1, 1>>
    <3>1. /\ RxShape(rx') /\ Sampling(cfg, rx', b, N - 1, x - 1) /\ rx'.valid = FALSE
          /\ rx'.sync = <<tx.line, rx.sync[1]>>
      BY <1>1, <1>2, <2>1, RxWaits, Zenon
    <3> QED
      BY <1>6, <2>1, <3>1, Zenon
  <2>3. HandsOver /\ \A s : Way(s) = <<b>> \o s
    BY <1>2, <2>2, NothingTaken, Zenon
  <2>4. CASE tx' = TxRun /\ way' = Way(<<>>)
    <3>1. TxShape(tx') /\ TxIdle(tx') /\ way' = <<b>>
      BY <1>1, <1>2, <2>3, <2>4, IdleTx, WayParts, Zenon
    <3>2. (e + 1) + 0 = SampledAt(cfg, N - 1) + 2
      BY <1>2, <2>1, Zenon
    <3>3. Trailing(cfg, tx', rx', way', b)
      BY <2>1, <2>2, <3>1, <3>2, Zenon DEF Trailing
    <3> QED
      BY <1>1, <2>2, <2>3, <3>1, <3>3, Zenon DEF StepKeeps, LineInvOf
  <2>5. ASSUME NEW a \in Sent(DATA_BITS), tx' = TxStart(a), way' = Way(<<a>>) PROVE StepKeeps
    <3>1. TxShape(tx') /\ a \in LineBytes(cfg) /\ Sending(cfg, tx', a, 0)
      BY <1>1, <2>5, SendBegins, Zenon
    <3>2. way' = <<b, a>>
      BY <2>3, <2>5, WayParts, Zenon
    <3>3. Overlap(cfg, tx', rx', way', b)
      BY <2>2, <3>1, <3>2, Zenon DEF Overlap
    <3> QED
      BY <1>1, <2>2, <2>3, <3>1, <3>3, Zenon DEF StepKeeps, LineInvOf
  <2> QED
    BY <2>4, <2>5, Zenon
<1>8. CASE x = 0
  <2>1. BitLevel(cfg, b, N - 1) = 1
    BY <1>1, <1>3, StopIsHigh, Zenon
  <2>2. /\ RxShape(rx') /\ rx'.sync = <<1, 1>>
        /\ rx'.valid = TRUE /\ rx'.st = "idle" /\ rx'.data = b /\ rx'.ferr = FALSE /\ rx'.perr = FALSE
    <3>1. ~((N - 1) + 1 < N)
      BY <1>3
    <3>2. Sampling(cfg, rx, b, N - 1, 0)
      BY <1>2, <1>8, Zenon
    <3> QED
      BY <1>1, <1>3, <1>6, <2>1, <3>1, <3>2, RxSamples, Zenon
  <2>3. HandsOver /\ Way(<<>>) = <<>> /\ \A a : Way(<<a>>) = <<a>>
    BY <1>2, <2>2, HandedOver, Zenon
  <2>4. CASE tx' = TxRun /\ way' = Way(<<>>)
    <3>1. TxShape(tx') /\ TxIdle(tx') /\ way' = <<>>
      BY <1>1, <1>2, <2>3, <2>4, IdleTx, Zenon
    <3> QED
      BY <1>1, <2>2, <2>3, <3>1, Zenon DEF StepKeeps, LineInvOf, Resting
  <2>5. ASSUME NEW a \in Sent(DATA_BITS), tx' = TxStart(a), way' = Way(<<a>>) PROVE StepKeeps
    <3>1. TxShape(tx') /\ a \in LineBytes(cfg) /\ Sending(cfg, tx', a, 0)
      BY <1>1, <2>5, SendBegins, Zenon
    <3>2. way' = <<a>> /\ Seen(cfg, rx', a, 0)
      BY <2>2, <2>3, <2>5, AtFirst, Zenon
    <3>3. 0 \in 0..2
      OBVIOUS
    <3>4. Begun(cfg, tx', rx', way', a)
      BY <2>2, <3>1, <3>2, <3>3, Zenon DEF Begun
    <3> QED
      BY <1>1, <2>2, <2>3, <3>1, <3>4, Zenon DEF StepKeeps, LineInvOf
  <2> QED
    BY <2>4, <2>5, Zenon
<1>9. x = 0 \/ x = 1
  BY <1>5
<1> QED
  BY <1>7, <1>8, <1>9, Zenon

LEMMA FromOverlap ==
  ASSUME LineInv, NEW b \in LineBytes(cfg), Overlap(cfg, tx, rx, way, b), RxEdge, tx' = TxRun, way' = Way(<<>>)
  PROVE  StepKeeps
<1> DEFINE N == FrameBits(cfg)
<1>1. cfg \in Framings /\ TxShape(tx) /\ RxShape(rx) /\ b \in [1..cfg.bits -> 0..1]
  BY Zenon DEF LineInv, LineInvOf, LineBytes
<1>2. PICK a \in LineBytes(cfg) :
         Sending(cfg, tx, a, 0) /\ rx.sync = <<1, 1>> /\ Sampling(cfg, rx, b, N - 1, 0) /\ way = <<b, a>>
  BY Zenon DEF Overlap
<1>3. N - 1 \in Nat /\ N - 1 >= FirstStop(cfg) /\ ~((N - 1) + 1 < N)
  <2>1. N - 1 \in Nat /\ N - 1 >= FirstStop(cfg) /\ N \in Nat
    BY <1>1, LastTimes, FrameTypes, Zenon
  <2>2. \A n \in Nat : ~((n - 1) + 1 < n)
    OBVIOUS
  <2> QED
    BY <2>1, <2>2, Zenon
<1>4. BitLevel(cfg, b, N - 1) = 1 /\ rx.sync[2] = 1
  BY <1>1, <1>2, <1>3, StopIsHigh, SyncPair, Zenon
<1>5. /\ RxShape(rx') /\ rx'.sync = <<tx.line, rx.sync[1]>>
      /\ rx'.valid = TRUE /\ rx'.st = "idle" /\ rx'.data = b /\ rx'.ferr = FALSE /\ rx'.perr = FALSE
  BY <1>1, <1>2, <1>3, <1>4, RxSamples, Zenon
<1>6. HandsOver /\ way' = <<a>>
  BY <1>2, <1>5, HandedOver, Zenon
<1>7. a \in [1..cfg.bits -> 0..1] /\ 0 \in Nat /\ 0 + 1 = 1 /\ 1 \in 0..2
  BY DEF LineBytes
<1>8. /\ TxShape(tx') /\ tx.line = LevelAt(cfg, a, 0)
      /\ 0 + 1 < FrameBits(cfg) * cfg.tx_cpb => Sending(cfg, tx', a, 0 + 1)
  BY <1>1, <1>2, <1>7, LineTick, Zenon
<1>9. Sending(cfg, tx', a, 0 + 1)
  <2>1. FrameEnd(cfg) \in Nat /\ FirstStop(cfg) * cfg.tx_cpb \in Nat /\ FirstStop(cfg) * cfg.tx_cpb + 3 <= FrameEnd(cfg)
    BY <1>1, LastTimes, Zenon
  <2>2. 0 + 1 < FrameEnd(cfg)
    BY <2>1
  <2> QED
    BY <1>8, <2>2, Zenon DEF FrameEnd
<1>10. Seen(cfg, rx', a, 0 + 1)
  <2>1. Seen(cfg, rx, a, 0)
    BY <1>2, AtFirst, Zenon
  <2> QED
    BY <1>5, <1>7, <1>8, <2>1, SeenTick, Zenon
<1>11. Begun(cfg, tx', rx', way', a)
  BY <1>5, <1>6, <1>7, <1>9, <1>10, Zenon DEF Begun
<1> QED
  BY <1>1, <1>2, <1>5, <1>6, <1>8, <1>11, Zenon DEF StepKeeps, LineInvOf

LEMMA FromDoneEarly ==
  ASSUME LineInv, NEW b \in LineBytes(cfg), DoneEarly(cfg, tx, rx, way, b), RxEdge, tx' = TxRun, way' = Way(<<>>)
  PROVE  StepKeeps
<1>1. cfg \in Framings /\ TxShape(tx) /\ RxShape(rx) /\ b \in [1..cfg.bits -> 0..1]
  BY Zenon DEF LineInv, LineInvOf, LineBytes
<1>2. PICK e \in Nat : /\ Sending(cfg, tx, b, e) /\ e >= FirstStop(cfg) * cfg.tx_cpb
                       /\ rx.st = "idle" /\ rx.sync = <<1, 1>> /\ way = <<>>
  BY Zenon DEF DoneEarly
<1>3. /\ TxShape(tx') /\ tx.line = LevelAt(cfg, b, e) /\ e + 1 <= FrameEnd(cfg)
      /\ e + 1 < FrameEnd(cfg) => Sending(cfg, tx', b, e + 1)
      /\ e + 1 = FrameEnd(cfg) => TxIdle(tx')
  BY <1>1, <1>2, LineTick, Zenon DEF FrameEnd
<1>4. tx.line = 1
  BY <1>1, <1>2, <1>3, HighAt, Zenon
<1>5. RxShape(rx') /\ rx'.sync = <<1, 1>> /\ rx'.valid = FALSE /\ rx'.st = "idle"
  BY <1>1, <1>2, <1>4, RxLooks, SyncPair, Zenon
<1>6. HandsOver /\ way' = <<>>
  BY <1>2, <1>5, NothingTaken, WayParts, Zenon
<1>7. FrameEnd(cfg) \in Nat /\ FirstStop(cfg) * cfg.tx_cpb \in Nat
  BY <1>1, LastTimes, Zenon
<1>8. e + 1 \in Nat /\ e + 1 >= FirstStop(cfg) * cfg.tx_cpb
  BY <1>2, <1>7
<1>9. CASE e + 1 < FrameEnd(cfg)
  <2>1. DoneEarly(cfg, tx', rx', way', b)
    BY <1>3, <1>5, <1>6, <1>8, <1>9, Zenon DEF DoneEarly
  <2> QED
    BY <1>1, <1>3, <1>5, <1>6, <2>1, Zenon DEF StepKeeps, LineInvOf
<1>10. CASE e + 1 = FrameEnd(cfg)
  BY <1>1, <1>3, <1>5, <1>6, <1>10, Zenon DEF StepKeeps, LineInvOf, Resting
<1>11. e + 1 < FrameEnd(cfg) \/ e + 1 = FrameEnd(cfg)
  BY <1>3, <1>7
<1> QED
  BY <1>9, <1>10, <1>11, Zenon

LEMMA BusyTx ==
  ASSUME NEW b, NEW e, Sending(cfg, tx, b, e)
  PROVE  tx.st # "idle"
<1>1. \E p, c : TxAt(cfg, tx, b, p, c)
  BY Zenon DEF Sending
<1> QED
  BY <1>1 DEF TxAt

LEMMA LineStep ==
  ASSUME LineInv, LineNext
  PROVE  LineInv' /\ HandsOver
<1>1. RxEdge /\ cfg' = cfg
  BY Zenon DEF LineNext, Run, Send
<1>2. \/ tx' = TxRun /\ way' = Way(<<>>)
      \/ tx.st = "idle" /\ \E b \in Sent(DATA_BITS) : tx' = TxStart(b) /\ way' = Way(<<b>>)
  BY Zenon DEF LineNext, Run, Send
<1>3. StepKeeps
  <2>1. CASE Resting(tx, rx, way)
    BY <1>1, <1>2, <2>1, FromResting, Zenon
  <2>2. ASSUME NEW b \in LineBytes(cfg), Begun(cfg, tx, rx, way, b) PROVE StepKeeps
    <3>1. tx.st # "idle"
      BY <2>2, BusyTx, Zenon DEF Begun
    <3> QED
      BY <1>1, <1>2, <2>2, <3>1, FromBegun, Zenon
  <2>3. ASSUME NEW b \in LineBytes(cfg), Following(cfg, tx, rx, way, b) PROVE StepKeeps
    <3>1. tx.st # "idle"
      BY <2>3, BusyTx, Zenon DEF Following
    <3> QED
      BY <1>1, <1>2, <2>3, <3>1, FromFollowing, Zenon
  <2>4. ASSUME NEW b \in LineBytes(cfg), Trailing(cfg, tx, rx, way, b) PROVE StepKeeps
    BY <1>1, <1>2, <2>4, FromTrailing, Zenon
  <2>5. ASSUME NEW b \in LineBytes(cfg), Overlap(cfg, tx, rx, way, b) PROVE StepKeeps
    <3>1. tx.st # "idle"
      BY <2>5, BusyTx, Zenon DEF Overlap
    <3> QED
      BY <1>1, <1>2, <2>5, <3>1, FromOverlap, Zenon
  <2>6. ASSUME NEW b \in LineBytes(cfg), DoneEarly(cfg, tx, rx, way, b) PROVE StepKeeps
    <3>1. tx.st # "idle"
      BY <2>6, BusyTx, Zenon DEF DoneEarly
    <3> QED
      BY <1>1, <1>2, <2>6, <3>1, FromDoneEarly, Zenon
  <2> QED
    BY <2>1, <2>2, <2>3, <2>4, <2>5, <2>6, Zenon DEF LineInv, LineInvOf
<1> QED
  BY <1>1, <1>3, Zenon DEF StepKeeps, LineInv

(* Every byte is received as it was sent, in order and without an error    *)
(* flag (uart_tx_cfg.v into uart_rx.v): for every framing, every byte,     *)
(* every gap between frames and every two bit times for which bit k of a   *)
(* frame is on the line when the receiver samples it.                      *)
THEOREM LineDelivers == LineSpec => ReceivedAsSent
<1>1. LineInit => LineInv
  <2> SUFFICES ASSUME LineInit PROVE LineInv
    OBVIOUS
  <2>1. cfg \in Framings /\ way = <<>>
    BY DEF LineInit
  <2>2. TxShape(tx) /\ TxIdle(tx)
    BY DEF LineInit, TxShape, TxIdle
  <2>3. RxShape(rx) /\ rx.st = "idle" /\ rx.sync = <<1, 1>>
    BY DEF LineInit, RxShape
  <2> QED
    BY <2>1, <2>2, <2>3, Zenon DEF LineInv, LineInvOf, Resting
<1>2. LineInv /\ [LineNext]_lineVars => LineInv' /\ [HandsOver]_lineVars
  <2> SUFFICES ASSUME LineInv, [LineNext]_lineVars PROVE LineInv' /\ [HandsOver]_lineVars
    OBVIOUS
  <2>1. CASE LineNext
    BY <2>1, LineStep, Zenon
  <2>2. CASE UNCHANGED lineVars
    <3>1. cfg' = cfg /\ tx' = tx /\ rx' = rx /\ way' = way
      BY <2>2 DEF lineVars
    <3> QED
      BY <2>2, <3>1, Zenon DEF LineInv
  <2> QED
    BY <2>1, <2>2
<1> QED
  BY <1>1, <1>2, PTL DEF LineSpec, ReceivedAsSent, HandsOver
=============================================================================
