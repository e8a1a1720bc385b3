---------------------------- MODULE BootRomProofs ---------------------------
(***************************************************************************)
(* For every word size, memory map, set of images, FIFO depth and number   *)
(* of streams and line faults: what the boot ROM accepts is written inside *)
(* the payload area only, the UART's errors are not lost while an image is *)
(* loaded, and an image that is entered is in memory as it was built.      *)
(***************************************************************************)
EXTENDS BootRom, SequenceTheorems, WellFoundedInduction, TLAPS

(***************************************************************************)
(* The checks, on their own.                                               *)
(***************************************************************************)


(* Unsigned addition wraps at most once.                                   *)
LEMMA AddCases ==
  ASSUME NEW a \in Words, NEW b \in Words
  PROVE  Add(a, b) = IF a + b < WORD THEN a + b ELSE a + b - WORD
BY MapAssumption DEF Add, Words

(* A range whose end is not below its start has not wrapped, so each of    *)
(* its addresses lies between the two.                                     *)
LEMMA RangeInside ==
  ASSUME NEW a \in Words, NEW n \in Words, Add(a, n) >= a, NEW k \in 0..(n - 1)
  PROVE  Add(a, k) >= a /\ Add(a, k) < Add(a, n)
<1>1. k \in Words /\ k < n
  BY MapAssumption DEF Words
<1>2. a + n < WORD
  BY AddCases, MapAssumption DEF Words
<1>3. Add(a, n) = a + n
  BY <1>2, AddCases
<1>4. Add(a, k) = a + k
  BY <1>1, <1>2, AddCases, MapAssumption DEF Words
<1> QED
  BY <1>1, <1>3, <1>4 DEF Words

(* load_image's checks: every byte of every segment of an accepted image,  *)
(* zero fill included, is written at or above PAYLOAD_BASE and below       *)
(* payload_end, whatever the addresses and sizes in the header.            *)
THEOREM AcceptedStaysInside ==
  ASSUME NEW h, h.segs \in Seq(Segments), NEW end \in Words, Verdict(h, end) = "ok"
  PROVE  \A i \in DOMAIN h.segs : Written(h.segs[i]) \subseteq PAYLOAD_BASE..(end - 1)
<1> SUFFICES ASSUME NEW i \in DOMAIN h.segs, NEW x \in Written(h.segs[i])
             PROVE  x \in PAYLOAD_BASE..(end - 1)
  OBVIOUS
<1> DEFINE s == h.segs[i]
<1>1. s \in Segments
  OBVIOUS
<1>2. s.addr \in Words /\ s.memsz \in Words
  BY <1>1 DEF Segments
<1>3. SegOk(s, end)
  BY DEF Verdict
<1>4. PICK k \in 0..(s.memsz - 1) : x = Add(s.addr, k)
  BY DEF Written
<1>5. Add(s.addr, s.memsz) >= s.addr /\ s.addr >= PAYLOAD_BASE /\ Add(s.addr, s.memsz) <= end
  BY <1>3 DEF SegOk
<1> HIDE DEF s
<1>6. Add(s.addr, k) >= s.addr /\ Add(s.addr, k) < Add(s.addr, s.memsz)
  BY <1>2, <1>5, RangeInside
<1>7. Add(s.addr, k) \in Int /\ Add(s.addr, s.memsz) \in Int
  BY <1>2, MapAssumption DEF Add, Words
<1> QED
  BY <1>2, <1>4, <1>5, <1>6, <1>7, MapAssumption DEF Words

(* rom_sbi.c's payload_buffer: a buffer it accepts lies in RAM above the   *)
(* firmware, whatever address and length the payload passes.               *)
THEOREM BufferStaysInside ==
  ASSUME NEW lo \in Words, NEW hi \in Words, NEW n \in Words, payload_buffer(lo, hi, n)
  PROVE  Buffer(lo, n) \subseteq PAYLOAD_BASE..(RAM_END - 1)
<1> SUFFICES ASSUME NEW k \in 0..(n - 1)
             PROVE  Add(lo, k) \in PAYLOAD_BASE..(RAM_END - 1)
  BY DEF Buffer
<1>1. Add(lo, n) >= lo /\ lo >= PAYLOAD_BASE /\ Add(lo, n) <= RAM_END
  BY DEF payload_buffer
<1>2. Add(lo, k) >= lo /\ Add(lo, k) < Add(lo, n)
  BY <1>1, RangeInside
<1>3. Add(lo, k) \in Int /\ Add(lo, n) \in Int
  BY MapAssumption DEF Add, Words
<1> QED
  BY <1>1, <1>2, <1>3, MapAssumption DEF Words

(***************************************************************************)
(* The inductive invariant.                                                *)
(***************************************************************************)

(* What comes over the line: a header character names an image.            *)
Kinds == {"M", "H", "S", "D", "N"}
Codes == {c \in Kinds \X Int \X Int : c[1] = "H" => c[2] \in DOMAIN Images}
Marked == {c \in Kinds \X Int \X Int \X BOOLEAN : c[1] = "H" => c[2] \in DOMAIN Images}

Wire == u.rxq \in Seq(Marked) /\ todo \in Seq(Codes) /\ gap \in BOOLEAN /\ u.dlab = FALSE

(* An image whose data is being received has been accepted, and a byte is  *)
(* only asked for while the segment has room.                              *)
Accepted ==
  /\ tab \in Seq(Marked) /\ seg \in Nat \ {0} /\ off \in Nat
  /\ ph = "data" =>
       /\ tab[1][2] \in DOMAIN Images /\ Verdict(Hdr, DTB_ADDR) = "ok"
       /\ pc \in {"lsr", "rbr"} => seg <= Len(Hdr.segs) /\ off < Hdr.segs[seg].filesz

Control ==
  /\ err = "ok" => pc = "booted"
  /\ pc = "booted" /\ ph = "data" => ~line_err
  /\ pc = "rbr" => u.rxq # <<>>
  /\ ph = "key" => InMemory # {}
  /\ ph \in {"hunt", "table", "data", "drain", "key"}
  /\ pc \in {"report", "seg"} => ph # "table" /\ (pc = "seg" => ph = "data")

(* While load_image runs, an error is in LSR or in line_err until its      *)
(* character has been taken, and in line_err from then on.                 *)
Loading == ph \in {"hunt", "table", "data"} /\ pc # "report"
Caught ==
  /\ old \in Nat
  /\ Loading =>
       /\ gap => u.oe \/ line_err
       /\ \A k \in 1..Len(u.rxq) : k > old /\ u.rxq[k][4] => u.oe \/ u.err \/ line_err
       /\ pc = "rbr" /\ old = 0 /\ u.rxq[1][4] => line_err
       /\ dirty => line_err

Mem == DOMAIN mem = Words /\ InPayload

RInv == Wire /\ Accepted /\ Control /\ Caught /\ Mem

(***************************************************************************)
(* The line.                                                               *)
(***************************************************************************)

(* What an edge with bus access b leaves of the UART and the line.         *)
Popping(b) == b = Rd("RBR") /\ u.rxq # <<>>
Was(b, k) == IF Popping(b) THEN k + 1 ELSE k
Fed(b) ==
  /\ Wire'
  /\ gap' => u'.oe \/ gap
  /\ b # Rd("LSR") => (u.oe => u'.oe) /\ (u.err => u'.err)
  /\ \A k \in 1..Len(u'.rxq) : u'.rxq[k][4] =>
        (Was(b, k) <= Len(u.rxq) /\ u.rxq[Was(b, k)][4]) \/ u'.err \/ gap
  /\ b # Rd("RBR") /\ u.rxq # <<>> => u'.rxq # <<>> /\ u'.rxq[1] = u.rxq[1]

Queued(S, q, e, pop, push, r) ==
  /\ r \in Seq(S)
  /\ \A k \in 1..Len(r) : LET j == IF pop THEN k + 1 ELSE k IN
        (j <= Len(q) /\ r[k] = q[j]) \/ (push /\ r[k] = e)
  /\ ~pop /\ q # <<>> => r # <<>> /\ r[1] = q[1]

LEMMA QueueStep ==
  ASSUME NEW S, NEW q \in Seq(S), NEW e, NEW pop \in BOOLEAN, NEW push \in BOOLEAN, push => e \in S,
         pop => q # <<>>,
         NEW r, r = Pushed(Popped(q, pop), push, e)
  PROVE  Queued(S, q, e, pop, push, r)
<1> DEFINE p == Popped(q, pop)
<1> HIDE DEF p
<1>1. /\ p \in Seq(S)
      /\ \A k \in 1..Len(p) : LET j == IF pop THEN k + 1 ELSE k IN j <= Len(q) /\ p[k] = q[j]
      /\ ~pop => p = q
  <2>1. CASE pop
    <3>1. p = Tail(q)
      BY <2>1, Zenon DEF Popped, p
    <3>2. Len(q) \in Nat /\ Len(q) > 0
      BY <2>1
    <3>3. p \in Seq(S) /\ Len(p) = Len(q) - 1 /\ \A k \in 1..Len(p) : p[k] = q[k + 1]
      BY <3>1, <3>2
    <3>4. \A k \in 1..Len(p) : k + 1 <= Len(q) /\ p[k] = q[k + 1]
      BY <3>2, <3>3
    <3> QED
      BY <2>1, <3>3, <3>4, Zenon
  <2>2. CASE ~pop
    BY <2>2 DEF Popped, p
  <2> QED
    BY <2>1, <2>2
<1>2. CASE push
  <2>1. r = Append(p, e) /\ e \in S
    BY <1>2 DEF Pushed, p
  <2>2. r \in Seq(S) /\ Len(r) = Len(p) + 1 /\ r[Len(p) + 1] = e /\ \A k \in 1..Len(p) : r[k] = p[k]
    BY <1>1, <2>1
  <2>3. ~pop /\ q # <<>> => r # <<>> /\ r[1] = q[1]
    BY <1>1, <2>2
  <2>4. ASSUME NEW k \in 1..Len(r)
        PROVE  LET j == IF pop THEN k + 1 ELSE k IN (j <= Len(q) /\ r[k] = q[j]) \/ (push /\ r[k] = e)
    <3>1. CASE k = Len(p) + 1
      BY Zenon, <1>2, <2>2, <3>1
    <3>2. CASE k \in 1..Len(p)
      BY <1>1, <2>2, <3>2
    <3>3. Len(p) \in Nat
      BY <1>1
    <3> QED
      BY <2>2, <3>1, <3>2, <3>3
  <2> QED
    BY <2>2, <2>3, <2>4, Zenon DEF Queued
<1>3. CASE ~push
  <2>1. r = p
    BY <1>3 DEF Pushed, p
  <2> QED
    BY <1>1, <2>1 DEF Queued
<1> QED
  BY <1>2, <1>3

LEMMA CharOnLine ==
  ASSUME NEW c \in Codes, gap \in BOOLEAN, NEW bad \in BOOLEAN
  PROVE  Flip(c) \in Codes /\ Mark(c, bad) \in Marked /\ (Mark(c, bad)[4] => bad \/ gap)
<1>1. c \in Kinds \X Int \X Int /\ (c[1] = "H" => c[2] \in DOMAIN Images)
  BY DEF Codes
<1>2. Flip(c) \in Codes
  <2>1. CASE c[1] = "D"
    <3>1. Flip(c) = <<"D", 1 - c[2], 0>> /\ 1 - c[2] \in Int
      BY <1>1, <2>1 DEF Flip
    <3>2. Flip(c) \in Kinds \X Int \X Int
      BY <3>1 DEF Kinds
    <3>3. Flip(c)[1] # "H"
      BY <3>1
    <3> QED
      BY <3>2, <3>3, Zenon DEF Codes
  <2>2. CASE c[1] # "D"
    <3>1. Flip(c) = <<"N", 0, 0>>
      BY <2>2 DEF Flip
    <3>2. Flip(c) \in Kinds \X Int \X Int
      BY <3>1 DEF Kinds
    <3>3. Flip(c)[1] # "H"
      BY <3>1
    <3> QED
      BY <3>2, <3>3, Zenon DEF Codes
  <2> QED
    BY <2>1, <2>2
<1>3. Mark(c, bad) \in Marked
  BY <1>1 DEF Marked, Mark
<1> QED
  BY <1>2, <1>3 DEF Mark

LEMMA EdgeStep ==
  ASSUME Wire, NEW b \in {NoBus, Rd("LSR"), Rd("RBR")}, NEW r,
         r = NoChar \/ (\E c \in Marked, bad \in BOOLEAN : r = Char(c, bad) /\ (c[4] => bad \/ gap)),
         u' = UartEdge(u, b, r, FALSE), todo' \in Seq(Codes),
         (gap' = gap /\ r = NoChar) \/ gap' = overrun(u, r)
  PROVE  Fed(b)
<1> DEFINE pop == pop_rx(u, b)  push == push_rx(u, r)  e == IF r.v THEN r.c ELSE 0
<1>1. b.k # "wr" /\ (b.k = "rd" /\ b.r = "RBR" <=> b = Rd("RBR")) /\ (b.k = "rd" /\ b.r = "LSR" <=> b = Rd("LSR"))
  BY DEF NoBus, Rd
<1>2. /\ u'.rxq = rxqNext(u, b, r) /\ (u'.oe <=> oeNext(u, b, r)) /\ (u'.err <=> errNext(u, b, r))
      /\ u'.dlab = FALSE
  <2>1. u'.dlab = u.dlab
    BY <1>1 DEF UartEdge
  <2> QED
    BY <2>1 DEF UartEdge, Wire
<1>3. pop <=> Popping(b)
  BY <1>1 DEF pop_rx, Popping, Wire
<1>4. r.v \in BOOLEAN /\ (r.v => r.c \in Marked /\ (r.c[4] => r.bad \/ gap))
  <2>1. CASE r = NoChar
    BY <2>1 DEF NoChar
  <2>2. CASE r # NoChar
    <3>1. PICK c \in Marked, bad \in BOOLEAN : r = Char(c, bad) /\ (c[4] => bad \/ gap)
      BY <2>2
    <3>2. r.v = TRUE /\ r.c = c /\ r.bad = bad
      BY <3>1 DEF Char
    <3> QED
      BY <3>1, <3>2, Zenon
  <2> QED
    BY <2>1, <2>2
<1>5. u'.rxq = Pushed(Popped(u.rxq, pop), push, e)
  BY <1>1, <1>2, Zenon DEF rxqNext, clears
<1>6. push => e \in Marked /\ (e[4] => r.bad \/ gap) /\ r.v
  BY <1>4 DEF push_rx
<1>7. pop \in BOOLEAN /\ push \in BOOLEAN /\ (pop => u.rxq # <<>>)
  BY DEF pop_rx, push_rx
<1> HIDE DEF pop, push, e
<1>8. Queued(Marked, u.rxq, e, pop, push, u'.rxq)
  <2>1. u.rxq \in Seq(Marked)
    BY DEF Wire
  <2> QED
    BY <1>5, <1>6, <1>7, <2>1, QueueStep, Zenon
<1>9. push /\ e[4] => u'.err \/ gap
  BY Zenon, <1>2, <1>6 DEF errNext
<1>10. b # Rd("LSR") => (u.oe => u'.oe) /\ (u.err => u'.err)
  BY Zenon, <1>1, <1>2 DEF oeNext, errNext
<1>11. gap' => u'.oe \/ gap
  BY Zenon, <1>2 DEF oeNext
<1>12. Wire'
  <2>1. gap' \in BOOLEAN
    BY Zenon DEF overrun, Wire
  <2> QED
    BY Zenon, <1>2, <1>8, <2>1 DEF Wire, Queued
<1>13. \A k \in 1..Len(u'.rxq) : u'.rxq[k][4] =>
          (Was(b, k) <= Len(u.rxq) /\ u.rxq[Was(b, k)][4]) \/ u'.err \/ gap
  BY <1>3, <1>8, <1>9, Zenon DEF Was, Queued
<1>14. b # Rd("RBR") /\ u.rxq # <<>> => u'.rxq # <<>> /\ u'.rxq[1] = u.rxq[1]
  BY <1>3, <1>8, Zenon DEF Popping, Queued
<1> QED
  BY <1>10, <1>11, <1>12, <1>13, <1>14, Zenon DEF Fed

LEMMA LineStep ==
  ASSUME Wire, NEW b \in {NoBus, Rd("LSR"), Rd("RBR")}, Line(b)
  PROVE  Fed(b)
<1>1. CASE Quiet(b)
  BY Zenon, <1>1, EdgeStep DEF Quiet, sender, Wire
<1>2. CASE Arrive(b)
  <2>1. todo # <<>> /\ Head(todo) \in Codes /\ Tail(todo) \in Seq(Codes) /\ gap \in BOOLEAN
    BY <1>2 DEF Arrive, Wire
  <2>2. PICK c \in Codes, bad \in BOOLEAN : Deliver(b, c, bad)
    <3>1. CASE Deliver(b, Head(todo), FALSE)
      BY Zenon, <2>1, <3>1
    <3>2. CASE \E bad \in BOOLEAN : Deliver(b, Flip(Head(todo)), bad)
      BY <2>1, <3>2, CharOnLine
    <3> QED
      BY Zenon, <1>2, <3>1, <3>2 DEF Arrive
  <2>3. /\ u' = UartEdge(u, b, Char(Mark(c, bad), bad), FALSE)
        /\ gap' = overrun(u, Char(Mark(c, bad), bad)) /\ todo' = Tail(todo)
    BY <2>2, Zenon DEF Deliver
  <2>4. Mark(c, bad) \in Marked /\ (Mark(c, bad)[4] => bad \/ gap)
    BY Zenon, <2>1, CharOnLine
  <2> DEFINE r == Char(Mark(c, bad), bad)
  <2>5. \E d \in Marked, x \in BOOLEAN : r = Char(d, x) /\ (d[4] => x \/ gap)
    BY <2>4, Zenon
  <2> HIDE DEF r
  <2>6. u' = UartEdge(u, b, r, FALSE) /\ todo' \in Seq(Codes) /\ gap' = overrun(u, r)
    BY <2>1, <2>3, Zenon DEF r
  <2> QED
    BY <2>5, <2>6, EdgeStep, Zenon
<1> QED
  BY <1>1, <1>2 DEF Line

(***************************************************************************)
(* What the sender sends.                                                  *)
(***************************************************************************)

LEMMA ImageFields ==
  ASSUME NEW i \in DOMAIN Images
  PROVE  /\ i \in Nat /\ Images[i].segs \in Seq(Segments) /\ Images[i].data \in Seq(Int)
         /\ DOMAIN Images = 1..Len(Images) /\ 1 \in DOMAIN Images
<1> DEFINE I == [ok : BOOLEAN, segs : Seq(Segments), entry : Words, size : Words, data : Seq(Int)]
<1>1. Images \in Seq(I) /\ Images # <<>>
  BY RomAssumption
<1>2. DOMAIN Images = 1..Len(Images) /\ Len(Images) \in Nat /\ Len(Images) > 0 /\ Images[i] \in I
  <2> HIDE DEF I
  <2> QED
    BY <1>1
<1> QED
  BY <1>2

LEMMA StreamOnLine ==
  ASSUME NEW i \in DOMAIN Images
  PROVE  Stream(i) \in Seq(Codes) /\ <<<<"N", 0, 0>>>> \in Seq(Codes)
<1> DEFINE h == <<<<"M", 0, 0>>, <<"H", i, 0>>>>
           s == [j \in DOMAIN Images[i].segs |-> <<"S", i, j>>]
           d == [k \in DOMAIN Images[i].data |-> <<"D", Images[i].data[k], 0>>]
<1>1. /\ i \in Int /\ DOMAIN Images[i].segs = 1..Len(Images[i].segs) /\ Len(Images[i].segs) \in Nat
      /\ DOMAIN Images[i].data = 1..Len(Images[i].data) /\ Len(Images[i].data) \in Nat
      /\ \A k \in DOMAIN Images[i].data : Images[i].data[k] \in Int
  BY ImageFields
<1>2. ASSUME NEW k \in Kinds, NEW x \in Int, NEW y \in Int, k = "H" => x \in DOMAIN Images
      PROVE  <<k, x, y>> \in Codes
  <2>1. <<k, x, y>> \in Kinds \X Int \X Int /\ <<k, x, y>>[1] = k /\ <<k, x, y>>[2] = x
    OBVIOUS
  <2> QED
    BY <1>2, <2>1, Zenon DEF Codes
<1>3. /\ <<"M", 0, 0>> \in Codes /\ <<"H", i, 0>> \in Codes /\ <<"N", 0, 0>> \in Codes
      /\ \A j \in Int : <<"S", i, j>> \in Codes
      /\ \A x \in Int : <<"D", x, 0>> \in Codes
  BY <1>1, <1>2 DEF Kinds
<1>4. s \in [1..Len(Images[i].segs) -> Codes]
  BY <1>1, <1>3
<1>5. d \in [1..Len(Images[i].data) -> Codes]
  BY <1>1, <1>3
<1>6. s \in Seq(Codes) /\ d \in Seq(Codes)
  <2>1. \A n \in Nat : \A f \in [1..n -> Codes] : f \in Seq(Codes)
    BY SeqDef
  <2> QED
    BY <1>1, <1>4, <1>5, <2>1, Zenon
<1>7. h \in Seq(Codes) /\ <<<<"N", 0, 0>>>> \in Seq(Codes)
  BY <1>3
<1> HIDE DEF h, s, d
<1>8. (h \o s) \o d \in Seq(Codes)
  BY <1>6, <1>7
<1> QED
  BY <1>7, <1>8, Zenon DEF Stream, h, s, d

(* The sender's own steps leave the ROM and the UART alone.                *)
LEMMA SenderStep ==
  ASSUME Wire, StartStream \/ GiveUp \/ Behave \/ SendAgain
  PROVE  Wire' /\ u' = u /\ gap' = gap /\ UNCHANGED rom
<1>1. u' = u /\ gap' = gap /\ UNCHANGED rom
  BY DEF StartStream, GiveUp, Behave, SendAgain
<1>2. todo' \in Seq(Codes)
  <2>1. CASE StartStream
    <3>1. PICK i \in DOMAIN Images : todo' \in {Stream(i), <<<<"N", 0, 0>>>>}
      BY <2>1 DEF StartStream
    <3>2. Stream(i) \in Seq(Codes) /\ <<<<"N", 0, 0>>>> \in Seq(Codes)
      BY StreamOnLine
    <3> QED
      BY <3>1, <3>2, Zenon
  <2>2. CASE SendAgain
    <3>1. 1 \in DOMAIN Images
      BY RomAssumption
    <3> QED
      BY <2>2, <3>1, StreamOnLine DEF SendAgain
  <2>3. CASE GiveUp \/ Behave
    <3>1. todo' = <<>> /\ <<>> \in Seq(Codes)
      BY <2>3 DEF GiveUp, Behave
    <3> QED
      BY <3>1, Zenon
  <2> QED
    BY <2>1, <2>2, <2>3
<1> QED
  BY <1>1, <1>2, Zenon DEF Wire

(***************************************************************************)
(* The ROM's steps.                                                        *)
(***************************************************************************)

LEMMA WireStep == ASSUME Wire, Next PROVE Wire'
<1>1. \A b \in {NoBus, Rd("LSR"), Rd("RBR")} : Line(b) => Wire'
  BY LineStep, Zenon DEF Fed
<1>2. CASE Idle \/ Putc \/ ReadLsr \/ ReadRbr \/ SegLoop \/ DrainEnd \/ MemLoad
  BY <1>1, <1>2, Zenon DEF Idle, Putc, ReadLsr, ReadRbr, SegLoop, DrainEnd, MemLoad
<1>3. CASE Report
  <2>1. u' = u /\ todo' = todo /\ gap' = FALSE
    BY <1>3 DEF Report
  <2> QED
    BY Zenon, <2>1 DEF Wire
<1>4. CASE StartStream \/ GiveUp \/ Behave \/ SendAgain
  BY <1>4, SenderStep
<1> QED
  BY <1>2, <1>3, <1>4, Zenon DEF Next, RomStep

(* A step that neither reads LSR nor takes a character, nor starts or ends *)
(* load_image, keeps every error where it is.                              *)
LEMMA CaughtWaits ==
  ASSUME RInv, Fed(NoBus), old' = old, line_err' = line_err, dirty' = dirty,
         Loading' => Loading, (pc' = "rbr") => (pc = "rbr")
  PROVE  Caught'
<1>1. NoBus # Rd("LSR") /\ NoBus # Rd("RBR") /\ \A k : Was(NoBus, k) = k
  BY DEF NoBus, Rd, Was, Popping
<1> SUFFICES ASSUME Loading, Loading'
             PROVE  /\ gap' => u'.oe \/ line_err'
                    /\ \A k \in 1..Len(u'.rxq) : k > old' /\ u'.rxq[k][4] => u'.oe \/ u'.err \/ line_err'
                    /\ pc' = "rbr" /\ old' = 0 /\ u'.rxq[1][4] => line_err'
                    /\ dirty' => line_err'
  BY DEF Caught, RInv
<1>2. /\ gap => u.oe \/ line_err
      /\ \A k \in 1..Len(u.rxq) : k > old /\ u.rxq[k][4] => u.oe \/ u.err \/ line_err
      /\ pc = "rbr" /\ old = 0 /\ u.rxq[1][4] => line_err
      /\ dirty => line_err
      /\ pc = "rbr" => u.rxq # <<>>
  BY Zenon DEF RInv, Caught, Control
<1>3. /\ gap' => u'.oe \/ gap
      /\ (u.oe => u'.oe) /\ (u.err => u'.err)
      /\ \A k \in 1..Len(u'.rxq) : u'.rxq[k][4] => (k <= Len(u.rxq) /\ u.rxq[k][4]) \/ u'.err \/ gap
      /\ u.rxq # <<>> => u'.rxq # <<>> /\ u'.rxq[1] = u.rxq[1]
  BY <1>1, Zenon DEF Fed
<1>4. ASSUME NEW k \in 1..Len(u'.rxq), k > old', u'.rxq[k][4] PROVE u'.oe \/ u'.err \/ line_err'
  <2>1. CASE k <= Len(u.rxq) /\ u.rxq[k][4]
    <3>1. k \in 1..Len(u.rxq)
      BY <2>1 DEF RInv, Wire
    <3> QED
      BY <1>2, <1>3, <1>4, <2>1, <3>1, Zenon
  <2> QED
    BY <1>2, <1>3, <1>4, <2>1, Zenon
<1>5. gap' => u'.oe \/ line_err'
  BY <1>2, <1>3, Zenon
<1>6. pc' = "rbr" /\ old' = 0 /\ u'.rxq[1][4] => line_err'
  BY <1>2, <1>3, Zenon
<1> QED
  BY <1>2, <1>4, <1>5, <1>6, Zenon

(* rx and rx_bytes keep what LSR says.                                     *)
LEMMA CaughtByLsr == ASSUME RInv, ReadLsr PROVE Caught'
<1>1. Fed(Rd("LSR"))
  BY LineStep, Zenon DEF ReadLsr, RInv
<1>2. /\ (line_err' <=> line_err \/ (ph \in {"hunt", "table", "data"} /\ (u.oe \/ u.err)))
      /\ ph' = ph /\ old' = old /\ dirty' = dirty /\ pc = "lsr"
      /\ pc' = (IF u.rxq # <<>> THEN "rbr" ELSE "lsr")
  BY Zenon DEF ReadLsr, lsr
<1>3. Rd("LSR") # Rd("RBR") /\ \A k : Was(Rd("LSR"), k) = k
  BY DEF Rd, Was, Popping
<1> SUFFICES ASSUME Loading, ph \in {"hunt", "table", "data"}
             PROVE  /\ gap' => u'.oe \/ line_err'
                    /\ \A k \in 1..Len(u'.rxq) : k > old' /\ u'.rxq[k][4] => u'.oe \/ u'.err \/ line_err'
                    /\ pc' = "rbr" /\ old' = 0 /\ u'.rxq[1][4] => line_err'
                    /\ dirty' => line_err'
  BY <1>2 DEF Caught, RInv, Loading
<1>4. /\ gap => line_err'
      /\ \A k \in 1..Len(u.rxq) : k > old /\ u.rxq[k][4] => line_err'
      /\ dirty => line_err'
  BY <1>2, Zenon DEF RInv, Caught
<1>5. /\ gap' => u'.oe \/ gap
      /\ \A k \in 1..Len(u'.rxq) : u'.rxq[k][4] => (k <= Len(u.rxq) /\ u.rxq[k][4]) \/ u'.err \/ gap
      /\ u.rxq # <<>> => u'.rxq # <<>> /\ u'.rxq[1] = u.rxq[1]
  BY <1>1, <1>3, Zenon DEF Fed
<1>6. ASSUME NEW k \in 1..Len(u'.rxq), k > old', u'.rxq[k][4] PROVE u'.oe \/ u'.err \/ line_err'
  <2>1. CASE k <= Len(u.rxq) /\ u.rxq[k][4]
    <3>1. k \in 1..Len(u.rxq)
      BY <2>1 DEF RInv, Wire
    <3> QED
      BY <1>2, <1>4, <1>6, <2>1, <3>1, Zenon
  <2> QED
    BY <1>4, <1>5, <1>6, <2>1, Zenon
<1>7. ASSUME pc' = "rbr", old' = 0, u'.rxq[1][4] PROVE line_err'
  <2>1. u.rxq # <<>>
    BY <1>2, <1>7
  <2>2. 1 \in 1..Len(u.rxq) /\ 1 > old
    BY <1>2, <1>7, <2>1 DEF RInv, Wire
  <2> QED
    BY <1>4, <1>5, <1>7, <2>1, <2>2, Zenon
<1> QED
  BY <1>2, <1>4, <1>5, <1>6, <1>7, Zenon

(* Where a character that was taken leads.                                 *)
LEMMA Taken ==
  ASSUME ReadRbr, NEW c, c = Head(u.rxq)
  PROVE  /\ pc = "rbr" /\ pc' # "rbr" /\ line_err' = line_err
         /\ old' = (IF old = 0 THEN 0 ELSE old - 1)
         /\ ph \in {"drain", "key"} => ph' = "drain"
         /\ (dirty' <=> dirty) \/ (dirty' <=> dirty \/ (c[4] /\ old = 0))
<1>1. /\ pc = "rbr" /\ line_err' = line_err
      /\ old' = (IF old = 0 THEN 0 ELSE old - 1)
  BY DEF ReadRbr
<1>2. CASE ph = "hunt" /\ Hunt(c)
  BY <1>1, <1>2 DEF Hunt
<1>3. CASE ph = "table" /\ Table(c)
  <2>1. dirty' <=> dirty \/ (c[4] /\ old = 0)
    BY Zenon, <1>3 DEF Table
  <2>2. pc' # "rbr"
    <3>1. CASE HeaderChar(c)
      BY <3>1 DEF HeaderChar, Fail
    <3>2. CASE TableChar(c)
      BY <3>2, Zenon DEF TableChar, Fail
    <3> QED
      BY <1>3, <3>1, <3>2, Zenon DEF Table
  <2> QED
    BY <1>1, <1>3, <2>1, <2>2
<1>4. CASE ph = "data" /\ Data(c)
  <2>1. pc' = "seg" /\ (dirty' <=> dirty \/ (c[4] /\ old = 0))
    BY <1>4, Zenon DEF Data
  <2> QED
    BY <1>1, <1>4, <2>1
<1>5. CASE ph \in {"drain", "key"} /\ Discard
  BY <1>1, <1>5 DEF Discard
<1> QED
  BY <1>2, <1>3, <1>4, <1>5, Zenon DEF ReadRbr

LEMMA CaughtByRbr == ASSUME RInv, ReadRbr PROVE Caught'
<1> DEFINE c == Head(u.rxq)
<1>1. Fed(Rd("RBR"))
  BY LineStep, Zenon DEF ReadRbr, RInv
<1>2. /\ pc = "rbr" /\ pc' # "rbr" /\ line_err' = line_err
      /\ old' = (IF old = 0 THEN 0 ELSE old - 1)
      /\ ph \in {"drain", "key"} => ph' = "drain"
      /\ (dirty' <=> dirty) \/ (dirty' <=> dirty \/ (c[4] /\ old = 0))
  BY Taken
<1>3. u.rxq # <<>> /\ u.rxq \in Seq(Marked) /\ old \in Nat /\ u'.rxq \in Seq(Marked)
  BY <1>1, <1>2 DEF RInv, Control, Wire, Caught, Fed
<1>4. c = u.rxq[1] /\ old' \in Nat
  BY <1>2, <1>3
<1> HIDE DEF c
<1>5. Rd("RBR") # Rd("LSR") /\ \A k : Was(Rd("RBR"), k) = k + 1
  BY <1>3 DEF Rd, Was, Popping
<1> SUFFICES ASSUME Loading'
             PROVE  /\ gap' => u'.oe \/ line_err'
                    /\ \A k \in 1..Len(u'.rxq) : k > old' /\ u'.rxq[k][4] => u'.oe \/ u'.err \/ line_err'
                    /\ dirty' => line_err'
  BY <1>2, <1>4 DEF Caught
<1>6. Loading
  BY <1>2 DEF Loading, RInv, Control
<1>7. /\ gap => u.oe \/ line_err
      /\ \A k \in 1..Len(u.rxq) : k > old /\ u.rxq[k][4] => u.oe \/ u.err \/ line_err
      /\ old = 0 /\ c[4] => line_err
      /\ dirty => line_err
  BY <1>2, <1>4, <1>6, Zenon DEF RInv, Caught
<1>8. /\ gap' => u'.oe \/ gap
      /\ (u.oe => u'.oe) /\ (u.err => u'.err)
      /\ \A k \in 1..Len(u'.rxq) : u'.rxq[k][4] => (k + 1 <= Len(u.rxq) /\ u.rxq[k + 1][4]) \/ u'.err \/ gap
  BY <1>1, <1>5, Zenon DEF Fed
<1>9. ASSUME NEW k \in 1..Len(u'.rxq), k > old', u'.rxq[k][4] PROVE u'.oe \/ u'.err \/ line_err'
  <2>1. CASE k + 1 <= Len(u.rxq) /\ u.rxq[k + 1][4]
    <3>1. k + 1 \in 1..Len(u.rxq) /\ k + 1 > old
      BY <1>2, <1>3, <1>9, <2>1
    <3> QED
      BY <1>2, <1>7, <1>8, <2>1, <3>1, Zenon
  <2> QED
    BY <1>2, <1>7, <1>8, <1>9, <2>1, Zenon
<1> QED
  BY <1>2, <1>7, <1>8, <1>9, Zenon

LEMMA CaughtStep == ASSUME RInv, Next PROVE Caught'
<1>1. CASE Idle
  <2>1. Fed(NoBus) /\ ph' = ph /\ pc' = pc /\ old' = old /\ line_err' = line_err /\ dirty' = dirty
    BY <1>1, LineStep, Zenon DEF Idle, RInv
  <2> QED
    BY <2>1, CaughtWaits, Zenon DEF Loading
<1>2. CASE Putc
  BY <1>2 DEF Putc, rom, Caught, Loading, RInv
<1>3. CASE SegLoop
  <2>1. Fed(NoBus) /\ old' = old /\ line_err' = line_err /\ dirty' = dirty /\ pc = "seg" /\ ph = "data"
    BY <1>3, LineStep, Zenon DEF SegLoop, RInv, Control
  <2>2. pc' # "rbr"
    BY <1>3, <2>1 DEF SegLoop, Finish, Fail, Enter
  <2> QED
    BY <2>1, <2>2, CaughtWaits DEF Loading
<1>4. CASE DrainEnd
  BY <1>4 DEF DrainEnd, Caught, Loading, RInv
<1>5. CASE Report
  <2>1. /\ u' = u /\ pc' = "lsr" /\ old' = Len(u.rxq) /\ gap' = FALSE /\ dirty' = FALSE
    BY <1>5 DEF Report
  <2>2. Len(u.rxq) \in Nat
    BY DEF RInv, Wire
  <2> QED
    BY <2>1, <2>2 DEF Caught
<1>6. CASE MemLoad
  BY <1>6 DEF MemLoad, Caught, Loading, RInv
<1>7. CASE StartStream \/ GiveUp \/ Behave \/ SendAgain
  <2>1. u' = u /\ gap' = gap /\ UNCHANGED rom
    BY <1>7, SenderStep, Zenon DEF RInv
  <2>2. ph' = ph /\ pc' = pc /\ old' = old /\ line_err' = line_err /\ dirty' = dirty
    BY <2>1 DEF rom
  <2> QED
    BY <2>1, <2>2, Zenon DEF Caught, Loading, RInv
<1> QED
  BY <1>1, <1>2, <1>3, <1>4, <1>5, <1>6, <1>7, CaughtByLsr, CaughtByRbr, Zenon DEF Next, RomStep

(* A character that completes nothing, one that ends the image with an     *)
(* error, and the ones that let the data in.                               *)
LEMMA TakenControl ==
  ASSUME RInv, ReadRbr
  PROVE  /\ err' = err \/ err' # "ok"
         /\ pc' \in {"lsr", "seg"} /\ (pc' = "seg" => ph' = "data")
         /\ ph' \in {"hunt", "table", "data", "drain"}
<1> DEFINE c == Head(u.rxq)
<1>1. CASE ph = "hunt" /\ Hunt(c)
  BY <1>1 DEF Hunt
<1>2. CASE ph = "table" /\ Table(c)
  <2>1. CASE HeaderChar(c)
    BY <1>2, <2>1 DEF HeaderChar, Fail
  <2>2. CASE TableChar(c)
    <3> DEFINE v == Verdict(Images[tab'[1][2]], DTB_ADDR)
    <3>1. \/ pc' = "lsr" /\ UNCHANGED <<ph, quiet, err>>
          \/ Fail("hdr_crc")
          \/ v # "ok" /\ Fail(v)
          \/ pc' = "seg" /\ ph' = "data" /\ UNCHANGED <<quiet, err>>
      BY <2>2, Zenon DEF TableChar
    <3> HIDE DEF v
    <3> QED
      BY <1>2, <3>1 DEF Fail
  <2> QED
    BY <1>2, <2>1, <2>2, Zenon DEF Table
<1>3. CASE ph = "data" /\ Data(c)
  BY <1>3 DEF Data
<1>4. CASE Discard
  BY <1>4 DEF Discard
<1> QED
  BY <1>1, <1>2, <1>3, <1>4, Zenon DEF ReadRbr

LEMMA ControlStep == ASSUME RInv, Next PROVE Control'
<1>1. Control
  BY DEF RInv
<1>2. \A b \in {NoBus, Rd("LSR")} : Line(b) => (u.rxq # <<>> => u'.rxq # <<>>)
  <2> SUFFICES ASSUME NEW b \in {NoBus, Rd("LSR")}, Line(b) PROVE u.rxq # <<>> => u'.rxq # <<>>
    OBVIOUS
  <2>1. Fed(b)
    BY LineStep, Zenon DEF RInv
  <2>2. b # Rd("RBR")
    BY DEF NoBus, Rd
  <2> QED
    BY <2>1, <2>2, Zenon DEF Fed
<1>3. CASE Idle \/ Putc
  <2>1. UNCHANGED <<pc, ph, err, line_err>> /\ (u.rxq # <<>> => u'.rxq # <<>>)
    BY <1>2, <1>3 DEF Idle, Putc, rom
  <2> QED
    BY <1>1, <2>1 DEF Control
<1>4. CASE ReadLsr
  <2>1. UNCHANGED <<ph, err>> /\ pc = "lsr" /\ pc' = (IF u.rxq # <<>> THEN "rbr" ELSE "lsr")
    BY Zenon, <1>4 DEF ReadLsr, lsr
  <2>2. u.rxq # <<>> => u'.rxq # <<>>
    BY <1>2, <1>4, Zenon DEF ReadLsr
  <2> QED
    BY <1>1, <2>1, <2>2 DEF Control
<1>5. CASE ReadRbr
  <2>1. pc = "rbr"
    BY <1>5 DEF ReadRbr
  <2> QED
    BY <1>1, <1>5, <2>1, TakenControl DEF Control
<1>6. CASE SegLoop
  <2>1. pc = "seg" /\ ph = "data" /\ line_err' = line_err
    BY <1>1, <1>6 DEF SegLoop, Control
  <2>2. \/ Finish
        \/ pc' = "lsr" /\ UNCHANGED <<ph, err>>
        \/ UNCHANGED <<pc, ph, err>>
    BY <1>6, Zenon DEF SegLoop
  <2>3. \/ pc' = "lsr" /\ ph' = "drain" /\ err' # "ok"
        \/ pc' = "booted" /\ ph' = ph /\ ~line_err
        \/ pc' = "lsr" /\ UNCHANGED <<ph, err>>
        \/ UNCHANGED <<pc, ph, err>>
    BY <2>2 DEF Finish, Fail, Enter
  <2> QED
    BY <1>1, <2>1, <2>3 DEF Control
<1>7. CASE DrainEnd
  BY <1>1, <1>7 DEF DrainEnd, Control
<1>8. CASE Report
  BY <1>1, <1>8 DEF Report, Control
<1>9. CASE MemLoad
  <2>1. /\ pc = "lsr" /\ ph = "key" /\ ph' = ph
        /\ pc' \in {"report", "booted"} /\ (pc' = "report" => err' # "ok")
    BY <1>9 DEF MemLoad
  <2> QED
    BY <1>1, <2>1 DEF Control
<1>10. CASE StartStream \/ GiveUp \/ Behave \/ SendAgain
  <2>1. u' = u /\ UNCHANGED rom
    BY <1>10, SenderStep, Zenon DEF RInv
  <2> QED
    BY <1>1, <2>1 DEF Control, rom
<1> QED
  BY <1>3, <1>4, <1>5, <1>6, <1>7, <1>8, <1>9, <1>10, Zenon DEF Next, RomStep

(* Nothing but TableChar enters the data phase, and only SegLoop asks for  *)
(* data there.                                                             *)
LEMMA HdrFields ==
  ASSUME NEW t \in Seq(Marked), t # <<>>, HdrCrcOk(t)
  PROVE  t[1][2] \in DOMAIN Images
<1>1. t[1] \in Marked /\ t[1][1] = "H"
  BY DEF HdrCrcOk
<1> QED
  BY <1>1 DEF Marked

LEMMA AcceptedStep == ASSUME RInv, Next PROVE Accepted'
<1>1. Accepted /\ Control /\ u.rxq \in Seq(Marked)
  BY DEF RInv, Wire
<1>2. ASSUME UNCHANGED <<tab, seg, off>>, ph' = "data" => ph = "data" /\ (pc' \in {"lsr", "rbr"} => pc \in {"lsr", "rbr"})
      PROVE  Accepted'
  <2>1. Hdr' = Hdr
    BY <1>2 DEF Hdr
  <2> QED
    BY <1>1, <1>2, <2>1 DEF Accepted
<1>3. CASE Idle \/ Putc \/ DrainEnd \/ MemLoad
  <2>1. UNCHANGED <<tab, seg, off>> /\ ph' = ph /\ (pc' = pc \/ pc' \in {"report", "booted"})
    BY <1>3 DEF Idle, Putc, rom, DrainEnd, MemLoad
  <2> QED
    BY <1>2, <2>1
<1>4. CASE ReadLsr
  BY <1>2, <1>4 DEF ReadLsr
<1>5. CASE Report
  <2>1. tab' = <<>> /\ ph' # "data" /\ seg' = seg /\ off' = off
    BY <1>5 DEF Report
  <2>2. <<>> \in Seq(Marked)
    OBVIOUS
  <2> QED
    BY <1>1, <2>1, <2>2, Zenon DEF Accepted
<1>6. CASE StartStream \/ GiveUp \/ Behave \/ SendAgain
  <2>1. UNCHANGED rom
    BY <1>6, SenderStep, Zenon DEF RInv
  <2> QED
    BY <1>2, <2>1 DEF rom
<1>7. CASE SegLoop
  <2>1. pc = "seg" /\ ph = "data" /\ tab' = tab /\ Hdr' = Hdr
    BY <1>1, <1>7 DEF SegLoop, Control, Hdr
  <2>2. CASE seg > Len(Hdr.segs)
    <3>1. Finish /\ UNCHANGED <<seg, off>>
      BY <1>7, <2>2 DEF SegLoop
    <3>2. ph' = "data" => pc' = "booted"
      BY <2>1, <3>1 DEF Finish, Fail, Enter
    <3> QED
      BY <1>2, <2>1, <3>1, <3>2
  <2>3. CASE ~(seg > Len(Hdr.segs)) /\ off < Hdr.segs[seg].filesz
    <3>1. pc' = "lsr" /\ UNCHANGED <<ph, seg, off>>
      BY <1>7, <2>3 DEF SegLoop
    <3>2. Hdr.segs \in Seq(Segments)
      BY <1>1, <2>1, ImageFields DEF Accepted, Hdr
    <3>3. seg <= Len(Hdr.segs)
      BY <1>1, <2>3, <3>2 DEF Accepted
    <3> QED
      BY <1>1, <2>1, <2>3, <3>1, <3>3 DEF Accepted
  <2>4. CASE ~(seg > Len(Hdr.segs)) /\ ~(off < Hdr.segs[seg].filesz)
    <3>1. seg' = seg + 1 /\ off' = 0 /\ UNCHANGED <<pc, ph>>
      BY <1>7, <2>4, Zenon DEF SegLoop
    <3> QED
      BY <1>1, <2>1, <3>1 DEF Accepted
  <2> QED
    BY <2>2, <2>3, <2>4
<1>8. CASE ReadRbr
  <2> DEFINE c == Head(u.rxq)
  <2>1. c \in Marked
    BY <1>1, <1>8 DEF ReadRbr, Control
  <2> HIDE DEF c
  <2>2. CASE ph = "hunt" /\ Hunt(c)
    BY <1>1, <2>2 DEF Hunt, Accepted
  <2>3. CASE ph = "data" /\ Data(c)
    <3>1. pc' = "seg" /\ UNCHANGED <<ph, tab, seg>> /\ off' = off + 1 /\ Hdr' = Hdr
      BY <2>3 DEF Data, Hdr
    <3> QED
      BY <1>1, <3>1 DEF Accepted
  <2>4. CASE Discard
    BY <1>2, <2>4 DEF Discard
  <2>5. CASE ph = "table" /\ Table(c)
    <3>1. seg' = 1 /\ off' = 0
      BY <2>5 DEF Table
    <3>2. CASE HeaderChar(c)
      <4>1. tab' = <<c>> /\ ph' # "data"
        BY <2>5, <3>2 DEF HeaderChar, Fail
      <4> QED
        BY <2>1, <3>1, <4>1 DEF Accepted
    <3>3. CASE TableChar(c)
      <4>1. tab' = Append(tab, c) /\ tab' \in Seq(Marked) /\ tab' # <<>>
        BY <1>1, <2>1, <3>3 DEF TableChar, Accepted
      <4>2. \/ ph' # "data"
            \/ HdrCrcOk(tab') /\ Verdict(Images[tab'[1][2]], DTB_ADDR) = "ok" /\ pc' = "seg" /\ ph' = "data"
        <5> DEFINE v == Verdict(Images[tab'[1][2]], DTB_ADDR)
        <5>1. \/ ph' = ph
              \/ Fail("hdr_crc")
              \/ Fail(v)
              \/ HdrCrcOk(tab') /\ v = "ok" /\ pc' = "seg" /\ ph' = "data"
          BY <3>3, Zenon DEF TableChar
        <5> HIDE DEF v
        <5>2. \/ ph' # "data"
              \/ HdrCrcOk(tab') /\ v = "ok" /\ pc' = "seg" /\ ph' = "data"
          BY <2>5, <5>1 DEF Fail
        <5> QED
          BY <5>2, Zenon DEF v
      <4>3. CASE ph' # "data"
        BY <3>1, <4>1, <4>3 DEF Accepted
      <4>4. CASE HdrCrcOk(tab') /\ Verdict(Images[tab'[1][2]], DTB_ADDR) = "ok" /\ pc' = "seg" /\ ph' = "data"
        <5>1. tab'[1][2] \in DOMAIN Images
          BY Zenon, <4>1, <4>4, HdrFields
        <5>2. Verdict(Hdr', DTB_ADDR) = "ok"
          BY <4>4, Zenon DEF Hdr
        <5> QED
          BY <3>1, <4>1, <4>4, <5>1, <5>2 DEF Accepted
      <4> QED
        BY <4>2, <4>3, <4>4
    <3> QED
      BY <2>5, <3>2, <3>3, Zenon DEF Table
  <2> QED
    BY <1>8, <2>2, <2>3, <2>4, <2>5, Zenon DEF ReadRbr, c
<1> QED
  BY <1>3, <1>4, <1>5, <1>6, <1>7, <1>8, Zenon DEF Next, RomStep

(* Every word an accepted image may be written to is inside its bounds.    *)
LEMMA WordInside ==
  ASSUME NEW i \in DOMAIN Images, NEW end \in Words, Verdict(Images[i], end) = "ok",
         NEW j \in DOMAIN Images[i].segs, NEW k \in 0..(Images[i].segs[j].memsz - 1),
         NEW x, x = Add(Images[i].segs[j].addr, k)
  PROVE  x \in Words /\ x >= PAYLOAD_BASE /\ x < end
<1>1. Images[i].segs \in Seq(Segments)
  BY ImageFields
<1>2. x \in Written(Images[i].segs[j])
  BY Zenon DEF Written
<1>3. x \in PAYLOAD_BASE..(end - 1)
  BY <1>1, <1>2, AcceptedStaysInside, Zenon
<1> QED
  BY <1>3, MapAssumption DEF Words

LEMMA MemStep == ASSUME RInv, Next PROVE Mem'
<1>1. DOMAIN mem = Words /\ InPayload /\ Control /\ DTB_ADDR \in Words /\ BOOTMEM_ADDR \in Words
  BY MapAssumption DEF RInv, Mem, Words
<1>2. ASSUME mem' = mem, ph' = "key" => ph = "key" PROVE Mem'
  <2>1. ph = "key" => BOOTMEM_ADDR <= DTB_ADDR
    BY <1>1, RomAssumption DEF Control
  <2>2. \A x \in Words : mem[x] # -1 => x >= PAYLOAD_BASE /\ x < (IF ph = "key" THEN BOOTMEM_ADDR ELSE DTB_ADDR)
    BY <1>1, Zenon DEF InPayload
  <2>3. \A x \in Words : x < BOOTMEM_ADDR /\ BOOTMEM_ADDR <= DTB_ADDR => x < DTB_ADDR
    BY MapAssumption DEF Words
  <2>4. InPayload'
    BY <1>2, <2>1, <2>2, <2>3, Zenon DEF InPayload
  <2> QED
    BY <1>1, <1>2, <2>4, Zenon DEF Mem
<1>3. CASE Idle \/ Putc \/ ReadLsr \/ DrainEnd \/ Report
  <2>1. mem' = mem /\ (ph' = ph \/ ph' = "hunt")
    BY <1>3 DEF Idle, Putc, rom, ReadLsr, DrainEnd, Report
  <2> QED
    BY <1>2, <2>1
<1>4. CASE StartStream \/ GiveUp \/ Behave \/ SendAgain
  <2>1. UNCHANGED rom
    BY <1>4, SenderStep, Zenon DEF RInv
  <2> QED
    BY <1>2, <2>1 DEF rom
<1>5. ASSUME ph = "data"
      PROVE  /\ tab[1][2] \in DOMAIN Images /\ Hdr = Images[tab[1][2]] /\ Verdict(Images[tab[1][2]], DTB_ADDR) = "ok"
             /\ seg \in Nat \ {0} /\ off \in Nat
             /\ pc \in {"lsr", "rbr"} => seg <= Len(Hdr.segs) /\ off < Hdr.segs[seg].filesz
             /\ Hdr.segs \in Seq(Segments)
             /\ \A j \in DOMAIN Hdr.segs : /\ Hdr.segs[j].filesz <= Hdr.segs[j].memsz
                                           /\ Hdr.segs[j].filesz \in Nat /\ Hdr.segs[j].memsz \in Nat
  <2>1. /\ tab[1][2] \in DOMAIN Images /\ Hdr = Images[tab[1][2]] /\ Verdict(Hdr, DTB_ADDR) = "ok"
        /\ seg \in Nat \ {0} /\ off \in Nat
        /\ pc \in {"lsr", "rbr"} => seg <= Len(Hdr.segs) /\ off < Hdr.segs[seg].filesz
    BY <1>5, Zenon DEF RInv, Accepted, Hdr
  <2>2. Hdr.segs \in Seq(Segments)
    BY <2>1, ImageFields
  <2>3. \A j \in DOMAIN Hdr.segs : Hdr.segs[j].filesz <= Hdr.segs[j].memsz
    BY Zenon, <2>1 DEF Verdict, SegOk
  <2>4. \A j \in DOMAIN Hdr.segs : Hdr.segs[j].filesz \in Nat /\ Hdr.segs[j].memsz \in Nat
    <3> SUFFICES ASSUME NEW j \in DOMAIN Hdr.segs PROVE Hdr.segs[j].filesz \in Nat /\ Hdr.segs[j].memsz \in Nat
      OBVIOUS
    <3>1. Hdr.segs[j] \in Segments
      BY <2>2
    <3> QED
      BY <3>1, MapAssumption DEF Segments, Words
  <2> QED
    BY Zenon, <2>1, <2>2, <2>3, <2>4
<1>6. ASSUME NEW m, DOMAIN m = Words, mem' = m, ph' = ph \/ ph' = "drain",
             NEW end, end = (IF ph = "key" THEN BOOTMEM_ADDR ELSE DTB_ADDR),
             \A x \in Words : m[x] # mem[x] => x >= PAYLOAD_BASE /\ x < end,
             ph # "key"  \/ ph' = ph
      PROVE  Mem'
  <2>1. \A x \in Words : mem[x] # -1 => x >= PAYLOAD_BASE /\ x < end
    BY <1>1, <1>6, Zenon DEF InPayload
  <2>2. end = (IF ph' = "key" THEN BOOTMEM_ADDR ELSE DTB_ADDR)
    BY <1>6
  <2>3. \A x \in Words : m[x] # -1 => x >= PAYLOAD_BASE /\ x < end
    BY <1>6, <2>1, Zenon
  <2> QED
    BY <1>6, <2>2, <2>3, Zenon DEF Mem, InPayload
<1>7. CASE ReadRbr
  <2> DEFINE c == Head(u.rxq)
  <2>1. CASE ph = "data" /\ Data(c)
    <3> DEFINE a == Add(Hdr.segs[seg].addr, off)  m == [mem EXCEPT ![a] = Value(c)]
    <3>1. mem' = m /\ ph' = ph /\ pc = "rbr"
      BY <1>7, <2>1, Zenon DEF Data, ReadRbr
    <3>2. seg \in DOMAIN Hdr.segs /\ off \in 0..(Hdr.segs[seg].memsz - 1)
      <4>1. seg \in DOMAIN Hdr.segs
        <5>1. seg \in Nat \ {0} /\ seg <= Len(Hdr.segs) /\ Hdr.segs \in Seq(Segments)
          BY <1>5, <2>1, <3>1
        <5> QED
          BY <5>1
      <4>2. /\ off \in Nat /\ off < Hdr.segs[seg].filesz /\ Hdr.segs[seg].filesz <= Hdr.segs[seg].memsz
            /\ Hdr.segs[seg].filesz \in Nat /\ Hdr.segs[seg].memsz \in Nat
        BY <1>5, <2>1, <3>1, <4>1, Zenon
      <4>3. \A o, f, s \in Nat : o < f /\ f <= s => o \in 0..(s - 1)
        OBVIOUS
      <4> QED
        BY <4>1, <4>2, <4>3, Zenon
    <3>3. a \in Words /\ a >= PAYLOAD_BASE /\ a < DTB_ADDR
      BY Zenon, <1>1, <1>5, <2>1, <3>2, WordInside
    <3>4. DOMAIN m = Words /\ \A x \in Words : m[x] # mem[x] => x = a
      <4> HIDE DEF a
      <4> QED
        BY <1>1
    <3> HIDE DEF a, m
    <3>5. \A x \in Words : m[x] # mem[x] => x >= PAYLOAD_BASE /\ x < DTB_ADDR
      BY <3>3, <3>4, Zenon
    <3> QED
      BY <1>6, <2>1, <3>1, <3>4, <3>5
  <2>2. CASE ph = "table" /\ Table(c)
    <3>1. mem' = mem
      BY <2>2 DEF Table
    <3>2. ph' # "key"
      BY <1>7, TakenControl
    <3> QED
      BY <1>2, <3>1, <3>2
  <2>3. CASE ph = "hunt" /\ Hunt(c)
    BY <1>2, <2>3 DEF Hunt
  <2>4. CASE Discard
    BY <1>2, <2>4 DEF Discard
  <2> QED
    BY <1>7, <2>1, <2>2, <2>3, <2>4, Zenon DEF ReadRbr
<1>8. CASE SegLoop
  <2>1. ph = "data"
    BY Zenon, <1>1, <1>8 DEF SegLoop, Control
  <2>2. CASE mem' = mem
    <3>1. ph' # "key"
      BY <1>8, <2>1 DEF SegLoop, Finish, Fail, Enter
    <3> QED
      BY <1>2, <2>2, <3>1
  <2>3. CASE mem' # mem
    <3>1. ~(seg > Len(Hdr.segs)) /\ mem' = ZeroFill(Hdr.segs[seg]) /\ ph' = ph
      BY Zenon, <1>8, <2>3 DEF SegLoop
    <3>2. seg \in DOMAIN Hdr.segs
      BY <1>5, <2>1, <3>1
    <3> DEFINE s == Hdr.segs[seg]  m == ZeroFill(s)
    <3>3. DOMAIN m = Words /\ \A x \in Words : m[x] # mem[x] => \E k \in s.filesz..(s.memsz - 1) : x = Add(s.addr, k)
      BY DEF ZeroFill
    <3>4. s.filesz..(s.memsz - 1) \subseteq 0..(s.memsz - 1)
      BY <1>5, <2>1, <3>2
    <3>5. \A k \in 0..(s.memsz - 1) : Add(s.addr, k) >= PAYLOAD_BASE /\ Add(s.addr, k) < DTB_ADDR
      BY <1>1, <1>5, <2>1, <3>2, WordInside
    <3>6. mem' = m
      BY <3>1
    <3> HIDE DEF s, m
    <3>7. \A x \in Words : m[x] # mem[x] => x >= PAYLOAD_BASE /\ x < DTB_ADDR
      BY <3>3, <3>4, <3>5, Zenon
    <3> QED
      BY <1>6, <2>1, <3>1, <3>3, <3>6, <3>7
  <2> QED
    BY <2>2, <2>3
<1>9. CASE MemLoad
  <2>1. ph = "key" /\ ph' = ph
    BY <1>9 DEF MemLoad
  <2>2. PICK i \in InMemory : mem' = mem \/ (MemVerdict(Images[i]) = "ok" /\ mem' = Fill(Images[i]))
    BY <1>9, Zenon DEF MemLoad
  <2>3. CASE mem' = mem
    BY <1>2, <2>1, <2>3
  <2>4. CASE MemVerdict(Images[i]) = "ok" /\ mem' = Fill(Images[i])
    <3>1. i \in DOMAIN Images /\ Verdict(Images[i], BOOTMEM_ADDR) = "ok"
      BY <2>4, RomAssumption DEF MemVerdict
    <3> DEFINE h == Images[i]  m == Fill(h)
    <3>2. DOMAIN m = Words
      BY Zenon DEF Fill
    <3>3. ASSUME NEW x \in Words, m[x] # mem[x]
          PROVE  \E j \in DOMAIN h.segs : \E k \in 0..(h.segs[j].memsz - 1) : x = Add(h.segs[j].addr, k)
      BY <3>3, Zenon DEF Fill
    <3>4. \A j \in DOMAIN h.segs : \A k \in 0..(h.segs[j].memsz - 1) :
             Add(h.segs[j].addr, k) >= PAYLOAD_BASE /\ Add(h.segs[j].addr, k) < BOOTMEM_ADDR
      BY <1>1, <3>1, WordInside
    <3>5. mem' = m
      BY <2>4
    <3> HIDE DEF h, m
    <3>6. \A x \in Words : m[x] # mem[x] => x >= PAYLOAD_BASE /\ x < BOOTMEM_ADDR
      BY <3>3, <3>4, Zenon
    <3> QED
      BY <1>6, <2>1, <3>2, <3>5, <3>6
  <2> QED
    BY <2>2, <2>3, <2>4
<1> QED
  BY <1>3, <1>4, <1>7, <1>8, <1>9, Zenon DEF Next, RomStep

(***************************************************************************)
(* The theorems.                                                           *)
(***************************************************************************)

LEMMA Reset == Init => RInv
<1> SUFFICES ASSUME Init PROVE RInv
  OBVIOUS
<1>1. u.rxq = <<>> /\ u.dlab = FALSE /\ u.oe = FALSE
  BY DEF Init, UartInit
<1>2. Wire
  <2>1. todo = <<>> /\ gap = FALSE
    BY DEF Init
  <2>2. <<>> \in Seq(Marked) /\ <<>> \in Seq(Codes)
    OBVIOUS
  <2> QED
    BY <1>1, <2>1, <2>2, Zenon DEF Wire
<1>3. Accepted /\ Control
  <2>1. Control
    BY <1>1 DEF Init, Control
  <2>2. tab = <<>> /\ seg = 1 /\ off = 0 /\ ph # "data"
    BY DEF Init
  <2> QED
    BY <2>1, <2>2 DEF Accepted
<1>4. Caught
  <2>1. old = 0 /\ gap = FALSE /\ dirty = FALSE /\ pc # "rbr"
    BY DEF Init
  <2> QED
    BY <1>1, <2>1 DEF Caught
<1>5. Mem
  <2>1. mem = [x \in Words |-> -1]
    BY DEF Init, Untouched
  <2> QED
    BY <2>1 DEF Mem, InPayload
<1> QED
  BY <1>2, <1>3, <1>4, <1>5 DEF RInv

LEMMA Stays == RInv /\ [Next]_vars => RInv'
<1> SUFFICES ASSUME RInv, [Next]_vars PROVE RInv'
  OBVIOUS
<1>1. CASE Next
  BY <1>1, WireStep, AcceptedStep, ControlStep, CaughtStep, MemStep, Zenon DEF RInv
<1>2. CASE UNCHANGED vars
  <2>1. u' = u /\ UNCHANGED rom /\ UNCHANGED sender
    BY <1>2 DEF vars
  <2>2. UNCHANGED <<pc, ph, line_err, tab, seg, off, err, mem, old, dirty, todo, gap>>
    BY <2>1 DEF rom, sender
  <2>3. Wire' /\ Control'
    BY <2>1, <2>2 DEF RInv, Wire, Control
  <2>4. Accepted'
    BY <2>2 DEF RInv, Accepted, Hdr
  <2>5. Caught'
    BY <2>1, <2>2, Zenon DEF RInv, Caught, Loading
  <2>6. Mem'
    BY <2>2, Zenon DEF RInv, Mem, InPayload
  <2> QED
    BY <2>3, <2>4, <2>5, <2>6, Zenon DEF RInv
<1> QED
  BY <1>1, <1>2

(* However images, noise, line errors and abandoned streams follow one     *)
(* another, the ROM writes nothing outside the payload area: an image's    *)
(* segments are checked before the first byte, and no byte is asked for    *)
(* beyond the segment it belongs to.                                       *)
THEOREM WritesStayInside == Spec => []InPayload
<1>1. RInv => InPayload
  BY DEF RInv, Mem
<1> QED
  BY Reset, Stays, <1>1, PTL DEF Spec

(* For every FIFO depth, and however reads of LSR, arriving characters,    *)
(* damage and overruns fall: an error of a character that came since       *)
(* load_image began is in LSR or in line_err until the character is taken, *)
(* so no image with such a character is entered, and RBR is read only when *)
(* a character waits.                                                      *)
THEOREM ErrorsAreKept == Spec => []NoSilentLoss
<1>1. RInv => NoSilentLoss
  <2> SUFFICES ASSUME RInv PROVE NoSilentLoss
    OBVIOUS
  <2>1. pc = "rbr" => u.rxq # <<>>
    BY DEF RInv, Control
  <2>2. err = "ok" /\ ph = "data" => ~line_err /\ Loading
    BY DEF RInv, Control, Loading
  <2> QED
    BY <2>1, <2>2 DEF RInv, Caught, NoSilentLoss
<1> QED
  BY Reset, Stays, <1>1, PTL DEF Spec

(***************************************************************************)
(* What is in memory.                                                      *)
(***************************************************************************)

(* The segments of an image as columns, and where the data of each starts. *)
Addr(h) == [i \in 1..Len(h.segs) |-> h.segs[i].addr]
File(h) == [i \in 1..Len(h.segs) |-> h.segs[i].filesz]
Size(h) == [i \in 1..Len(h.segs) |-> h.segs[i].memsz]
From(h) == [i \in 1..Len(h.segs) |-> Before(h, i)]

(* With o bytes of segment g written, and all of those before it: how much *)
(* of segment i is written, and which addresses that is.                   *)
Done(M, g, o, i) == IF i < g THEN M[i] ELSE IF i = g THEN o ELSE 0
Over(A, M, g, o, j, x) == A[j] <= x /\ x < A[j] + Done(M, g, o, j)

(* Whatever is written and not written over since is what it should be.    *)
Shows(A, F, M, P, d, m, g, o, i, k) ==
  k < Done(M, g, o, i) /\ (\A j \in DOMAIN A : j > i => ~Over(A, M, g, o, j, A[i] + k))
  => m[A[i] + k] = IF k < F[i] THEN d[P[i] + k + 1] ELSE 0
InPlace(A, F, M, P, d, m, g, o) == \A i \in DOMAIN A, k \in Words : Shows(A, F, M, P, d, m, g, o, i, k)

(* The data received is that of the segments before seg, and off bytes.    *)
Counted(F, P, n, d, g, o) ==
  /\ g \in 1..(n + 1) /\ o \in Nat
  /\ g <= n => o <= F[g] /\ Len(d) = P[g] + o
  /\ g > n => o = 0
  /\ \A i \in 1..n : i < g => P[i] + F[i] <= Len(d)
  /\ g = 1 => Len(d) = o
  /\ g > 1 => Len(d) = P[g - 1] + F[g - 1] + o

Placed ==
  ph = "data" =>
    /\ data \in Seq(Int)
    /\ Counted(File(Hdr), From(Hdr), Len(Hdr.segs), data, seg, off)
    /\ InPlace(Addr(Hdr), File(Hdr), Size(Hdr), From(Hdr), data, mem, seg, off)
    /\ pc = "booted" => seg = Len(Hdr.segs) + 1 /\ (missed \/ data = Hdr.data)
\* A non-empty set of naturals has a least element.
LEMMA LeastElement ==
    ASSUME NEW T, T \subseteq Nat, T # {}
    PROVE  \E x \in T : \A y \in T : x <= y
<1> DEFINE lt == {p \in Nat \X Nat : p[1] < p[2]}
<1>1. IsWellFoundedOn(lt, Nat)
  BY NatLessThanWellFounded DEF OpToRel
<1>2. PICK x \in T : \A y \in T : ~(<<y, x>> \in lt)
  BY <1>1, WFMin, Zenon
<1>3. \A y \in T : ~(y < x)
  BY Zenon, <1>2
<1> QED
  BY <1>3

\* Induction over an interval 0 .. n, for a set rather than a predicate.
LEMMA IntervalInduction ==
    ASSUME NEW n \in Nat, NEW S, 0 \in S, \A k \in 1 .. n : k - 1 \in S => k \in S
    PROVE  0 .. n \subseteq S
<1> DEFINE T == (0 .. n) \ S
<1> SUFFICES ASSUME T # {} PROVE FALSE
  OBVIOUS
<1>0. T \subseteq Nat
  OBVIOUS
<1>1. PICK x \in T : \A y \in T : x <= y
  <2> HIDE DEF T
  <2> QED
    BY Zenon, <1>0, LeastElement
<1>2. x \in 1 .. n /\ x - 1 \in 0 .. n
  BY <1>1
<1>3. x - 1 \in S
  BY <1>1, <1>2
<1> QED
  BY <1>1, <1>2, <1>3

(* Before's loop over the first n segments.                                *)
Sums(h, n, b) ==
  /\ b \in [1..(n + 1) -> Nat] /\ b[1] = 0
  /\ \A j \in 2..(n + 1) : b[j] = b[j - 1] + h.segs[j - 1].filesz

LEMMA SumsExist ==
  ASSUME NEW h, h.segs \in Seq(Segments)
  PROVE  \E b : Sums(h, Len(h.segs), b)
<1>0. Len(h.segs) \in Nat /\ \A j \in 1..Len(h.segs) : h.segs[j].filesz \in Nat
  <2>1. Len(h.segs) \in Nat /\ \A j \in 1..Len(h.segs) : h.segs[j] \in Segments
    OBVIOUS
  <2> QED
    BY <2>1, MapAssumption DEF Segments, Words
<1> DEFINE S == {n \in 0..Len(h.segs) : \E b : Sums(h, n, b)}
<1>1. 0 \in S
  <2>1. Sums(h, 0, [j \in 1..1 |-> 0])
    BY DEF Sums
  <2> QED
    BY <1>0, <2>1
<1>2. ASSUME NEW n \in 1..Len(h.segs), n - 1 \in S PROVE n \in S
  <2>1. PICK b : Sums(h, n - 1, b)
    BY <1>2
  <2>2. /\ n \in Nat \ {0} /\ n \in 1..n /\ b \in [1..n -> Nat] /\ b[1] = 0 /\ b[n] \in Nat
        /\ \A j \in 2..n : b[j] = b[j - 1] + h.segs[j - 1].filesz
    BY <1>0, <2>1 DEF Sums
  <2> DEFINE d == [j \in 1..(n + 1) |-> IF j = n + 1 THEN b[n] + h.segs[n].filesz ELSE b[j]]
  <2>3. b[n] + h.segs[n].filesz \in Nat
    BY <1>0, <2>2
  <2>4. d \in [1..(n + 1) -> Nat] /\ d[1] = 0
    BY <2>2, <2>3
  <2>5. \A j \in 2..(n + 1) : d[j] = d[j - 1] + h.segs[j - 1].filesz
    <3> SUFFICES ASSUME NEW j \in 2..(n + 1) PROVE d[j] = d[j - 1] + h.segs[j - 1].filesz
      BY Zenon
    <3>1. d[j - 1] = b[j - 1]
      BY <2>2
    <3>2. j # n + 1 => j \in 2..n /\ d[j] = b[j]
      BY <2>2
    <3>3. j = n + 1 => j - 1 = n /\ d[j] = b[n] + h.segs[n].filesz
      BY <2>2
    <3> QED
      BY <2>2, <3>1, <3>2, <3>3
  <2>6. Sums(h, n, d)
    BY Zenon, <2>4, <2>5 DEF Sums
  <2> QED
    BY <2>6
<1> HIDE DEF S
<1>3. 0..Len(h.segs) \subseteq S
  BY Zenon, <1>0, <1>1, <1>2, IntervalInduction
<1> QED
  BY <1>0, <1>3 DEF S

LEMMA BeforeSums ==
  ASSUME NEW h, h.segs \in Seq(Segments)
  PROVE  /\ Before(h, 1) = 0
         /\ \A i \in 1..Len(h.segs) : Before(h, i + 1) = Before(h, i) + h.segs[i].filesz
         /\ \A i \in 1..(Len(h.segs) + 1) : Before(h, i) \in Nat
<1> DEFINE n == Len(h.segs)
           Step(b) == [j \in 1..(n + 1) |-> IF j = 1 THEN 0 ELSE b[j - 1] + h.segs[j - 1].filesz]
           B == CHOOSE b : b = Step(b)
<1>0. n \in Nat /\ \A j \in 1..n : h.segs[j].filesz \in Nat
  <2>1. n \in Nat /\ \A j \in 1..n : h.segs[j] \in Segments
    OBVIOUS
  <2> QED
    BY <2>1, MapAssumption DEF Segments, Words
<1>1. PICK b : Sums(h, n, b)
  BY SumsExist
<1>2. b = Step(b)
  BY <1>0, <1>1 DEF Sums
<1>3. B = Step(B)
  BY Zenon, <1>2
<1>4. \A i : Before(h, i) = B[i]
  BY Zenon DEF Before
<1> HIDE DEF B
<1>5. \A j \in 1..(n + 1) : B[j] = IF j = 1 THEN 0 ELSE B[j - 1] + h.segs[j - 1].filesz
  BY Zenon, <1>3
<1>6. B[1] = 0 /\ \A i \in 1..n : B[i + 1] = B[i] + h.segs[i].filesz
  <2>1. 1 \in 1..(n + 1)
    BY <1>0
  <2>2. \A i \in 1..n : i + 1 \in 1..(n + 1) /\ i + 1 # 1 /\ (i + 1) - 1 = i
    BY <1>0
  <2> QED
    BY <1>5, <2>1, <2>2, Zenon
<1>7. \A i \in 1..(n + 1) : B[i] \in Nat
  <2> DEFINE S == {k \in 0..n : B[k + 1] \in Nat}
  <2>1. 0 \in S
    BY <1>0, <1>6
  <2>2. ASSUME NEW k \in 1..n, k - 1 \in S PROVE k \in S
    <3>1. B[k] \in Nat /\ B[k + 1] = B[k] + h.segs[k].filesz /\ h.segs[k].filesz \in Nat
      BY <1>0, <1>6, <2>2
    <3> QED
      BY <1>0, <3>1
  <2>3. 0..n \subseteq S
    <3> HIDE DEF S
    <3> QED
      BY Zenon, <1>0, <2>1, <2>2, IntervalInduction
  <2>4. \A i \in 1..(n + 1) : i - 1 \in 0..n /\ (i - 1) + 1 = i
    BY <1>0
  <2> QED
    BY Zenon, <2>3, <2>4
<1> QED
  BY <1>4, <1>6, <1>7, Zenon

(* The columns of an image that passed the checks.                         *)
Columns(n, A, F, M, P) ==
  /\ n \in Nat /\ A \in [1..n -> Nat] /\ F \in [1..n -> Nat] /\ M \in [1..n -> Nat] /\ P \in [1..n -> Nat]
  /\ \A i \in 1..n : F[i] <= M[i] /\ A[i] + M[i] < WORD

Column(A, F, M, P, i) ==
  /\ A[i] \in Nat /\ F[i] \in Nat /\ M[i] \in Nat /\ P[i] \in Nat
  /\ F[i] <= M[i] /\ A[i] + M[i] < WORD

LEMMA EachColumn ==
  ASSUME NEW n, NEW A, NEW F, NEW M, NEW P, Columns(n, A, F, M, P)
  PROVE  n \in Nat /\ DOMAIN A = 1..n /\ \A i \in 1..n : Column(A, F, M, P, i)
<1>1. /\ n \in Nat /\ A \in [1..n -> Nat] /\ F \in [1..n -> Nat] /\ M \in [1..n -> Nat] /\ P \in [1..n -> Nat]
      /\ \A i \in 1..n : F[i] <= M[i] /\ A[i] + M[i] < WORD
  BY Zenon DEF Columns
<1>2. \A i \in 1..n : A[i] \in Nat /\ F[i] \in Nat /\ M[i] \in Nat /\ P[i] \in Nat
  BY <1>1
<1> QED
  BY <1>1, <1>2, Zenon DEF Column

(* What is written of a segment grows.                                     *)
LEMMA OverGrows ==
  ASSUME NEW A, NEW F, NEW M, NEW P, NEW j \in Nat, Column(A, F, M, P, j), NEW g \in Nat, NEW o \in Nat, NEW x \in Nat
  PROVE  /\ Over(A, M, g, o, j, x) => Over(A, M, g, o + 1, j, x)
         /\ o <= M[g] /\ Over(A, M, g, o, j, x) => Over(A, M, g + 1, 0, j, x)
<1>1. A[j] \in Nat /\ M[j] \in Nat
  BY DEF Column
<1>2. CASE j < g
  BY <1>2 DEF Over, Done
<1>3. CASE j > g
  BY <1>1, <1>3 DEF Over, Done
<1>4. CASE j = g
  <2>1. Done(M, g, o, j) = o /\ Done(M, g, o + 1, j) = o + 1 /\ Done(M, g + 1, 0, j) = M[g]
    BY <1>4 DEF Done
  <2> QED
    BY <1>1, <1>4, <2>1 DEF Over
<1> QED
  BY <1>2, <1>3, <1>4

LEMMA Fits == \A a, b, k \in Nat : k < b /\ a + b < WORD => a + k \in Words
  BY MapAssumption DEF Words
LEMMA Inside ==
  /\ \A x, l \in Nat : x + 1 <= l => x + 1 \in 1..l
  /\ \A a, f, s, x \in Nat : ~(a <= x /\ x < a + s) => ~(a + f <= x /\ x < a + s)
  /\ \A a, o, x \in Nat : ~(a <= x /\ x < a + (o + 1)) => x # a + o
  /\ \A p, f, k, l \in Nat : k < f /\ p + f <= l => p + k + 1 <= l
  OBVIOUS
LEMMA Sum ==
  /\ \A x, y \in Nat : x + y \in Nat
  /\ \A x \in Nat : ~(x < 0) /\ x + 0 = x
  OBVIOUS
LEMMA Index ==
  \A l \in Nat : \A i \in 1..l :
     /\ i \in Nat /\ i <= l /\ ~(i > l) /\ i \in 1..(l + 1)
     /\ i + 1 <= l => i + 1 \in 1..l
     /\ i > 1 => i - 1 \in 1..l
  OBVIOUS
LEMMA OneAfter == \A x, y \in Nat : (x + y) + 1 = x + (y + 1)
  OBVIOUS
LEMMA WordIs == \A x \in Words : x \in Nat
  BY MapAssumption DEF Words

(* Data: the byte goes to the next address of the segment.                 *)
Received(d, v, e) == d \in Seq(Int) /\ v \in Int /\ e = Append(d, v)
Stored(m, x, v, w) == DOMAIN m = Words /\ w = [m EXCEPT ![x] = v]

LEMMA ByteInPlace ==
  ASSUME NEW n, NEW A, NEW F, NEW M, NEW P, Columns(n, A, F, M, P),
         NEW d, NEW m, NEW g \in 1..n, NEW o \in Nat, o < F[g],
         Counted(F, P, n, d, g, o), InPlace(A, F, M, P, d, m, g, o),
         NEW v, NEW e, Received(d, v, e), NEW w, Stored(m, A[g] + o, v, w)
  PROVE  Counted(F, P, n, e, g, o + 1) /\ InPlace(A, F, M, P, e, w, g, o + 1)
<1>1. n \in Nat /\ DOMAIN A = 1..n /\ \A i \in 1..n : Column(A, F, M, P, i)
  BY EachColumn
<1>2. /\ Len(d) \in Nat /\ Len(e) = Len(d) + 1 /\ e[Len(d) + 1] = v
      /\ \A k \in 1..Len(d) : e[k] = d[k]
  BY DEF Received
<1>3. /\ Len(d) = P[g] + o /\ (\A i \in 1..n : i < g => P[i] + F[i] <= Len(d))
      /\ (g = 1 => Len(d) = o) /\ (g > 1 => Len(d) = P[g - 1] + F[g - 1] + o)
  BY <1>1, Index, Zenon DEF Counted
<1>4. g \in Nat /\ A[g] \in Nat /\ F[g] \in Nat /\ M[g] \in Nat /\ P[g] \in Nat /\ F[g] <= M[g] /\ A[g] + M[g] < WORD
  BY <1>1, Index, Zenon DEF Column
<1>5. A[g] + o \in Words /\ \A x \in Words : w[x] = IF x = A[g] + o THEN v ELSE m[x]
  <2>1. o < M[g]
    BY <1>4
  <2>2. A[g] + o \in Words
    BY <1>4, <2>1, Fits, Zenon
  <2> QED
    BY <2>2 DEF Stored
<1>6. Counted(F, P, n, e, g, o + 1)
  <2>1. g \in 1..(n + 1) /\ o + 1 \in Nat /\ ~(g > n)
    <3>1. o + 1 \in Nat
      OBVIOUS
    <3> QED
      BY <1>1, <3>1, Index, Zenon
  <2>2. o + 1 <= F[g] /\ Len(e) = P[g] + (o + 1)
    <3>1. Len(d) = P[g] + o /\ Len(e) = Len(d) + 1
      BY <1>2, <1>3
    <3>2. Len(e) = P[g] + (o + 1)
      <4>1. Len(e) = (P[g] + o) + 1
        BY <3>1, Zenon
      <4>2. (P[g] + o) + 1 = P[g] + (o + 1)
        BY <1>4, OneAfter, Zenon
      <4> QED
        BY <4>1, <4>2, Zenon
    <3>3. o + 1 <= F[g]
      BY <1>4
    <3> QED
      BY <3>2, <3>3
  <2>3. ASSUME NEW i \in 1..n, i < g PROVE P[i] + F[i] <= Len(e)
    <3>1. P[i] + F[i] <= Len(d) /\ P[i] \in Nat /\ F[i] \in Nat /\ Len(e) = Len(d) + 1 /\ Len(d) \in Nat
      BY Zenon, <1>1, <1>2, <1>3, <2>3 DEF Column
    <3>2. \A x, y, l \in Nat : x + y <= l => x + y <= l + 1
      OBVIOUS
    <3> QED
      BY <3>1, <3>2, Zenon
  <2>4. g = 1 => Len(e) = o + 1
    BY <1>2, <1>3
  <2>5. ASSUME g > 1 PROVE Len(e) = P[g - 1] + F[g - 1] + (o + 1)
    <3>1. g - 1 \in 1..n
      BY <1>1, <2>5, Index, Zenon
    <3>2. P[g - 1] \in Nat /\ F[g - 1] \in Nat /\ Len(d) = P[g - 1] + F[g - 1] + o /\ Len(e) = Len(d) + 1
      BY <1>1, <1>2, <1>3, <2>5, <3>1, Zenon DEF Column
    <3>3. P[g - 1] + F[g - 1] \in Nat
      BY <3>2, Sum, Zenon
    <3>4. Len(e) = ((P[g - 1] + F[g - 1]) + o) + 1
      BY <3>2, Zenon
    <3>5. ((P[g - 1] + F[g - 1]) + o) + 1 = (P[g - 1] + F[g - 1]) + (o + 1)
      BY <3>3, OneAfter, Zenon
    <3> QED
      BY <3>4, <3>5, Zenon
  <2> QED
    BY <2>1, <2>2, <2>3, <2>4, <2>5, Zenon DEF Counted
<1>7. ASSUME NEW i \in 1..n, NEW k \in Words, k < Done(M, g, o + 1, i),
             \A j \in 1..n : j > i => ~Over(A, M, g, o + 1, j, A[i] + k)
      PROVE  w[A[i] + k] = IF k < F[i] THEN e[P[i] + k + 1] ELSE 0
  <2>0. k \in Nat /\ i \in Nat /\ A[i] \in Nat /\ F[i] \in Nat /\ M[i] \in Nat /\ P[i] \in Nat /\ F[i] <= M[i] /\ A[i] + M[i] < WORD
    BY <1>1, WordIs, Index, Zenon DEF Column
  <2>1. CASE i = g /\ k = o
    <3>1. P[i] + k + 1 = Len(d) + 1 /\ k < F[i]
      <4>1. Len(d) = P[g] + o
        BY <1>3
      <4> QED
        BY <1>4, <2>0, <2>1, <4>1
    <3>2. w[A[i] + k] = v /\ e[Len(d) + 1] = v
      BY <1>2, <1>5, <2>1
    <3> QED
      BY <3>1, <3>2, Zenon
  <2>2. CASE ~(i = g /\ k = o)
    <3>1. i <= g /\ k < Done(M, g, o, i) /\ k < M[i] /\ (i = g => k < o)
      <4>1. CASE i < g
        BY <1>4, <1>7, <2>0, <4>1 DEF Done
      <4>2. CASE i = g
        <5>1. Done(M, g, o + 1, i) = o + 1 /\ Done(M, g, o, i) = o
          BY <4>2, <1>4 DEF Done
        <5> QED
          BY <1>4, <1>7, <2>0, <2>2, <4>2, <5>1
      <4>3. CASE i > g
        <5>1. Done(M, g, o + 1, i) = 0
          BY <4>3, <1>4, <2>0 DEF Done
        <5>2. k < 0
          BY <1>7, <5>1, Zenon
        <5> QED
          BY <2>0, <5>2, Sum, Zenon
      <4> QED
        BY <1>4, <2>0, <4>1, <4>2, <4>3
    <3>2. \A j \in 1..n : j > i => ~Over(A, M, g, o, j, A[i] + k)
      <4> SUFFICES ASSUME NEW j \in 1..n, j > i PROVE ~Over(A, M, g, o, j, A[i] + k)
        OBVIOUS
      <4>1. ~Over(A, M, g, o + 1, j, A[i] + k)
        BY <1>7
      <4>2. j \in Nat /\ Column(A, F, M, P, j)
        BY <1>1
      <4>3. A[i] + k \in Nat
        BY <2>0, Sum, Zenon
      <4> QED
        BY <1>4, <4>1, <4>2, <4>3, OverGrows, Zenon
    <3>3. m[A[i] + k] = IF k < F[i] THEN d[P[i] + k + 1] ELSE 0
      <4>1. Shows(A, F, M, P, d, m, g, o, i, k) /\ DOMAIN A = 1..n
        BY Zenon, <1>1 DEF InPlace
      <4> QED
        BY <3>1, <3>2, <4>1, Zenon DEF Shows
    <3>4. A[i] + k # A[g] + o
      <4>1. CASE i = g
        BY <2>0, <2>2, <4>1
      <4>2. CASE i < g
        <5>1. ~Over(A, M, g, o + 1, g, A[i] + k)
          BY <1>7, <4>2
        <5>2. ~(A[g] <= A[i] + k /\ A[i] + k < A[g] + (o + 1))
          BY <5>1, <1>4 DEF Over, Done
        <5>3. A[i] + k \in Nat
          BY <2>0, Sum, Zenon
        <5> QED
          BY <1>4, <5>2, <5>3, Inside, Zenon
      <4> QED
        BY <1>4, <2>0, <3>1, <4>1, <4>2
    <3>5. w[A[i] + k] = m[A[i] + k]
      <4>2. A[i] + k \in Words
        BY <2>0, <3>1, Fits, Zenon
      <4> QED
        BY <1>5, <3>4, <4>2, Zenon
    <3>6. ASSUME k < F[i] PROVE e[P[i] + k + 1] = d[P[i] + k + 1]
      <4>1. P[i] + k + 1 <= Len(d)
        <5>1. CASE i = g
          <6>1. Len(d) = P[g] + o
            BY <1>3
          <6> QED
            BY <2>0, <3>1, <5>1, <6>1
        <5>2. CASE i < g
          <6>1. P[i] + F[i] <= Len(d) /\ Len(d) \in Nat
            BY <1>2, <1>3, <5>2
          <6> QED
            BY <2>0, <3>6, <6>1, Inside, Zenon
        <5> QED
          BY <1>4, <2>0, <3>1, <5>1, <5>2
      <4>2. P[i] + k + 1 \in 1..Len(d)
        <5>1. P[i] + k \in Nat /\ Len(d) \in Nat
          BY <1>2, <2>0, Sum, Zenon
        <5> QED
          BY <4>1, <5>1, Inside, Zenon
      <4> QED
        BY <1>2, <4>2, Zenon
    <3> QED
      BY <3>3, <3>5, <3>6, Zenon
  <2> QED
    BY Zenon, <2>1, <2>2
<1>8. InPlace(A, F, M, P, e, w, g, o + 1)
  BY <1>1, <1>7, Zenon DEF InPlace, Shows
<1> QED
  BY <1>6, <1>8

(* The zero fill, and on to the next segment.                              *)
Zeroed(m, a, b, w) == \A x \in Words : w[x] = IF a <= x /\ x < b THEN 0 ELSE m[x]

LEMMA ZerosInPlace ==
  ASSUME NEW n, NEW A, NEW F, NEW M, NEW P, Columns(n, A, F, M, P),
         NEW d, NEW m, NEW g \in 1..n, NEW o \in Nat, ~(o < F[g]),
         g + 1 <= n => P[g + 1] = P[g] + F[g],
         Counted(F, P, n, d, g, o), InPlace(A, F, M, P, d, m, g, o),
         NEW w, Zeroed(m, A[g] + F[g], A[g] + M[g], w)
  PROVE  Counted(F, P, n, d, g + 1, 0) /\ InPlace(A, F, M, P, d, w, g + 1, 0)
<1>1. n \in Nat /\ DOMAIN A = 1..n /\ \A i \in 1..n : Column(A, F, M, P, i)
  BY EachColumn
<1>2. g \in Nat /\ A[g] \in Nat /\ F[g] \in Nat /\ M[g] \in Nat /\ P[g] \in Nat /\ F[g] <= M[g] /\ A[g] + M[g] < WORD
  BY <1>1, Index, Zenon DEF Column
<1>3. o = F[g] /\ Len(d) = P[g] + F[g] /\ Len(d) \in Nat
  <2>1. o <= F[g] /\ Len(d) = P[g] + o
    BY <1>1, Index, Zenon DEF Counted
  <2>2. o = F[g]
    BY <1>2, <2>1
  <2> QED
    BY <1>2, <2>1, <2>2, Sum, Zenon
<1>4. Counted(F, P, n, d, g + 1, 0)
  <2>1. g + 1 \in 1..(n + 1) /\ 0 \in Nat /\ ~(g + 1 = 1) /\ (g + 1) - 1 = g
    BY <1>1
  <2>2. g + 1 <= n => 0 <= F[g + 1] /\ Len(d) = P[g + 1] + 0
    <3>1. g + 1 <= n => F[g + 1] \in Nat /\ P[g + 1] \in Nat
      BY <1>1, Index, Zenon DEF Column
    <3>2. \A x \in Nat : 0 <= x
      OBVIOUS
    <3> QED
      BY <1>3, <3>1, <3>2, Sum, Zenon
  <2>3. ASSUME NEW i \in 1..n, i < g + 1 PROVE P[i] + F[i] <= Len(d)
    <3>1. CASE i < g
      BY <3>1 DEF Counted
    <3>2. CASE i = g
      BY <1>2, <1>3, <3>2
    <3> QED
      BY <1>1, <1>2, <2>3, <3>1, <3>2
  <2>4. Len(d) = P[(g + 1) - 1] + F[(g + 1) - 1] + 0
    BY <1>2, <1>3, <2>1
  <2> QED
    BY <2>1, <2>2, <2>3, <2>4, Zenon DEF Counted
<1>5. ASSUME NEW i \in 1..n, NEW k \in Words, k < Done(M, g + 1, 0, i),
             \A j \in 1..n : j > i => ~Over(A, M, g + 1, 0, j, A[i] + k)
      PROVE  w[A[i] + k] = IF k < F[i] THEN d[P[i] + k + 1] ELSE 0
  <2>0. k \in Nat /\ i \in Nat /\ A[i] \in Nat /\ F[i] \in Nat /\ M[i] \in Nat /\ P[i] \in Nat /\ F[i] <= M[i] /\ A[i] + M[i] < WORD
    BY <1>1, WordIs, Index, Zenon DEF Column
  <2>1. i <= g /\ k < M[i]
    <3>1. CASE i < g + 1
      <4>1. Done(M, g + 1, 0, i) = M[i]
        BY <3>1 DEF Done
      <4>2. i <= g
        BY <1>2, <2>0, <3>1
      <4> QED
        BY <1>5, <4>1, <4>2
    <3>2. CASE ~(i < g + 1)
      <4>1. Done(M, g + 1, 0, i) = 0
        BY <3>2 DEF Done
      <4>2. k < 0
        BY <1>5, <4>1, Zenon
      <4> QED
        BY <2>0, <4>2, Sum, Zenon
    <3> QED
      BY <3>1, <3>2
  <2>2. A[i] + k \in Words
    BY <2>0, <2>1, Fits, Zenon
  <2>3. CASE i = g /\ ~(k < F[i])
    <3>1. A[g] + F[g] <= A[i] + k /\ A[i] + k < A[g] + M[g]
      BY <1>2, <2>0, <2>1, <2>3
    <3> QED
      BY <2>2, <2>3, <3>1, Zenon DEF Zeroed
  <2>4. CASE i < g \/ (i = g /\ k < F[i])
    <3>1. ~(A[g] + F[g] <= A[i] + k /\ A[i] + k < A[g] + M[g])
      <4>1. CASE i = g
        BY <1>2, <2>0, <2>4, <4>1
      <4>2. CASE i < g
        <5>1. ~Over(A, M, g + 1, 0, g, A[i] + k)
          BY <1>5, <4>2
        <5>2. ~(A[g] <= A[i] + k /\ A[i] + k < A[g] + M[g])
          BY <5>1, <1>2 DEF Over, Done
        <5>3. A[i] + k \in Nat
          BY <2>0, Sum, Zenon
        <5> QED
          BY <1>2, <5>2, <5>3, Inside, Zenon
      <4> QED
        BY <2>4, <4>1, <4>2
    <3>2. k < Done(M, g, o, i)
      BY <1>2, <1>3, <2>0, <2>1, <2>4 DEF Done
    <3>3. \A j \in 1..n : j > i => ~Over(A, M, g, o, j, A[i] + k)
      <4> SUFFICES ASSUME NEW j \in 1..n, j > i PROVE ~Over(A, M, g, o, j, A[i] + k)
        OBVIOUS
      <4>1. ~Over(A, M, g + 1, 0, j, A[i] + k)
        BY <1>5
      <4>2. j \in Nat /\ Column(A, F, M, P, j) /\ A[i] + k \in Nat /\ o <= M[g]
        <5>1. j \in Nat /\ Column(A, F, M, P, j)
          BY <1>1
        <5>2. A[i] + k \in Nat
          BY <2>0, Sum, Zenon
        <5>3. o <= M[g]
          BY <1>2, <1>3
        <5> QED
          BY <5>1, <5>2, <5>3
      <4> QED
        BY <1>2, <4>1, <4>2, OverGrows, Zenon
    <3>4. m[A[i] + k] = IF k < F[i] THEN d[P[i] + k + 1] ELSE 0
      <4>1. Shows(A, F, M, P, d, m, g, o, i, k) /\ DOMAIN A = 1..n
        BY Zenon, <1>1 DEF InPlace
      <4> QED
        BY <3>2, <3>3, <4>1, Zenon DEF Shows
    <3> QED
      BY <2>2, <3>1, <3>4, Zenon DEF Zeroed
  <2>5. i < g \/ i = g
    BY <1>2, <2>0, <2>1
  <2> QED
    BY <2>3, <2>4, <2>5, Zenon
<1>6. InPlace(A, F, M, P, d, w, g + 1, 0)
  BY <1>1, <1>5, Zenon DEF InPlace, Shows
<1> QED
  BY <1>4, <1>6

(* The addresses ZeroFill zeroes are the ones behind the file's bytes.     *)
LEMMA FillRange ==
  \A a, f, s \in Nat : a + s < WORD => \A x \in Words :
     (\E k \in f..(s - 1) : x = Add(a, k)) <=> (a + f <= x /\ x < a + s)
<1> SUFFICES ASSUME NEW a \in Nat, NEW f \in Nat, NEW s \in Nat, a + s < WORD, NEW x \in Words
             PROVE  (\E k \in f..(s - 1) : x = Add(a, k)) <=> (a + f <= x /\ x < a + s)
  OBVIOUS
<1>1. \A k \in f..(s - 1) : Add(a, k) = a + k
  BY MapAssumption DEF Add
<1>2. x \in Nat
  BY WordIs
<1>3. ASSUME a + f <= x, x < a + s PROVE \E k \in f..(s - 1) : x = Add(a, k)
  <2>1. x - a \in f..(s - 1) /\ x = a + (x - a)
    BY <1>2, <1>3
  <2> QED
    BY <1>1, <2>1, Zenon
<1>4. ASSUME NEW k \in f..(s - 1), x = Add(a, k) PROVE a + f <= x /\ x < a + s
  <2>1. x = a + k
    BY <1>1, <1>4
  <2> QED
    BY <2>1
<1> QED
  BY <1>3, <1>4

(* An image that load_image accepted has proper columns.                   *)
LEMMA AcceptedColumns ==
  ASSUME NEW h, h.segs \in Seq(Segments), Verdict(h, DTB_ADDR) = "ok"
  PROVE  /\ Columns(Len(h.segs), Addr(h), File(h), Size(h), From(h))
         /\ \A g \in 1..Len(h.segs) : g + 1 <= Len(h.segs) => From(h)[g + 1] = From(h)[g] + File(h)[g]
         /\ Len(h.segs) >= 1 => From(h)[1] = 0
<1> DEFINE n == Len(h.segs)
<1>1. n \in Nat /\ DOMAIN h.segs = 1..n /\ \A i \in 1..n : h.segs[i] \in Segments
  OBVIOUS
<1>2. \A s \in Segments : s.addr \in Words /\ s.filesz \in Words /\ s.memsz \in Words
  BY DEF Segments
<1>3. \A i \in 1..n : SegOk(h.segs[i], DTB_ADDR)
  BY <1>1, Zenon DEF Verdict
<1>4. \A a, b \in Words : Add(a, b) >= a => a + b < WORD
  <2> SUFFICES ASSUME NEW a \in Words, NEW b \in Words, Add(a, b) >= a PROVE a + b < WORD
    OBVIOUS
  <2>1. Add(a, b) = IF a + b < WORD THEN a + b ELSE a + b - WORD
    BY AddCases
  <2> QED
    BY <2>1, MapAssumption DEF Words
<1>5. /\ Before(h, 1) = 0
      /\ \A i \in 1..n : Before(h, i + 1) = Before(h, i) + h.segs[i].filesz
      /\ \A i \in 1..(n + 1) : Before(h, i) \in Nat
  BY BeforeSums
<1>6. ASSUME NEW i \in 1..n
      PROVE  /\ h.segs[i].addr \in Nat /\ h.segs[i].filesz \in Nat /\ h.segs[i].memsz \in Nat /\ Before(h, i) \in Nat
             /\ h.segs[i].filesz <= h.segs[i].memsz /\ h.segs[i].addr + h.segs[i].memsz < WORD
  <2>1. h.segs[i].addr \in Words /\ h.segs[i].filesz \in Words /\ h.segs[i].memsz \in Words
    BY <1>1, <1>2, Zenon
  <2>2. h.segs[i].filesz <= h.segs[i].memsz /\ Add(h.segs[i].addr, h.segs[i].memsz) >= h.segs[i].addr
    BY <1>3, Zenon DEF SegOk
  <2>3. i \in 1..(n + 1)
    BY <1>1
  <2>4. h.segs[i].addr + h.segs[i].memsz < WORD
    BY <1>4, <2>1, <2>2, Zenon
  <2>5. Before(h, i) \in Nat
    BY <1>5, <2>3, Zenon
  <2> QED
    BY <2>1, <2>2, <2>4, <2>5, WordIs, Zenon
<1>7. /\ \A i \in 1..n : /\ Addr(h)[i] = h.segs[i].addr /\ File(h)[i] = h.segs[i].filesz
                         /\ Size(h)[i] = h.segs[i].memsz /\ From(h)[i] = Before(h, i)
      /\ Addr(h) \in [1..n -> Nat] /\ File(h) \in [1..n -> Nat] /\ Size(h) \in [1..n -> Nat] /\ From(h) \in [1..n -> Nat]
  BY Zenon, <1>6 DEF Addr, File, Size, From
<1>8. Columns(n, Addr(h), File(h), Size(h), From(h))
  BY <1>1, <1>6, <1>7, Zenon DEF Columns
<1>9. \A g \in 1..n : g + 1 <= n => From(h)[g + 1] = From(h)[g] + File(h)[g]
  <2> SUFFICES ASSUME NEW g \in 1..n, g + 1 <= n PROVE From(h)[g + 1] = From(h)[g] + File(h)[g]
    OBVIOUS
  <2>1. g + 1 \in 1..n
    BY <1>1
  <2> QED
    BY <1>5, <1>7, <2>1, Zenon
<1>10. n >= 1 => From(h)[1] = 0
  <2>1. n >= 1 => 1 \in 1..n
    BY <1>1
  <2> QED
    BY <1>5, <1>7, <2>1, Zenon
<1> QED
  BY <1>8, <1>9, <1>10

(* The image being received.                                               *)
LEMMA HdrAccepted ==
  ASSUME Accepted, ph = "data"
  PROVE  Hdr.segs \in Seq(Segments) /\ Verdict(Hdr, DTB_ADDR) = "ok" /\ Len(Hdr.segs) \in Nat
<1>1. tab[1][2] \in DOMAIN Images /\ Verdict(Hdr, DTB_ADDR) = "ok"
  BY DEF Accepted
<1>2. Hdr.segs \in Seq(Segments)
  BY <1>1, ImageFields DEF Hdr
<1> QED
  BY <1>1, <1>2

LEMMA PlacedStep == ASSUME RInv, Accepted', Placed, Next PROVE Placed'
<1>1. Accepted /\ Control /\ Wire /\ DOMAIN mem = Words
  BY DEF RInv, Mem
<1>2. ASSUME UNCHANGED <<tab, data, seg, off, mem, missed>>, ph' = "data" => ph = "data" /\ (pc' = "booted" => pc = "booted")
      PROVE  Placed'
  <2>1. Hdr' = Hdr
    BY <1>2 DEF Hdr
  <2>2. /\ tab' = tab /\ data' = data /\ seg' = seg /\ off' = off /\ mem' = mem /\ missed' = missed
    BY <1>2
  <2> SUFFICES ASSUME ph' = "data" PROVE Placed'
    BY DEF Placed
  <2>3. ph = "data" /\ (pc' = "booted" => pc = "booted")
    BY <1>2
  <2>4. /\ data \in Seq(Int)
        /\ Counted(File(Hdr), From(Hdr), Len(Hdr.segs), data, seg, off)
        /\ InPlace(Addr(Hdr), File(Hdr), Size(Hdr), From(Hdr), data, mem, seg, off)
        /\ pc = "booted" => seg = Len(Hdr.segs) + 1 /\ (missed \/ data = Hdr.data)
    BY <2>3, Zenon DEF Placed
  <2> QED
    BY <2>1, <2>2, <2>3, <2>4, Zenon DEF Placed
<1>3. ASSUME ph' # "data" PROVE Placed'
  BY <1>3 DEF Placed
<1>4. CASE Idle \/ Putc \/ ReadLsr \/ DrainEnd
  <2>1. UNCHANGED <<tab, data, seg, off, mem, missed, ph>> /\ (pc' = "booted" => pc = "booted")
    BY <1>4 DEF Idle, Putc, rom, ReadLsr, DrainEnd
  <2> QED
    BY <1>2, <2>1
<1>5. CASE Report \/ MemLoad
  <2>1. ph' # "data"
    BY <1>5 DEF Report, MemLoad
  <2> QED
    BY <1>3, <2>1
<1>6. CASE StartStream \/ GiveUp \/ Behave \/ SendAgain
  <2>1. UNCHANGED rom
    BY <1>1, <1>6, SenderStep, Zenon
  <2> QED
    BY <1>2, <2>1 DEF rom
<1>7. CASE ReadRbr
  <2> DEFINE c == Head(u.rxq)
  <2>0. c \in Marked
    <3>1. u.rxq \in Seq(Marked) /\ u.rxq # <<>>
      BY <1>1, <1>7, Zenon DEF ReadRbr, Control, Wire
    <3> QED
      BY <3>1
  <2> HIDE DEF c
  <2>1. CASE ph = "hunt" /\ Hunt(c)
    <3>1. ph' # "data"
      BY <2>1 DEF Hunt
    <3> QED
      BY <1>3, <3>1
  <2>2. CASE Discard
    <3>1. ph' # "data"
      BY <2>2 DEF Discard
    <3> QED
      BY <1>3, <3>1
  <2>3. CASE ph = "table" /\ Table(c)
    <3> SUFFICES ASSUME ph' = "data" PROVE Placed'
      BY <1>3
    <3>1. seg' = 1 /\ off' = 0 /\ data' = <<>>
      BY <2>3 DEF Table
    <3>2. pc' = "seg" \/ pc' = "lsr"
      BY <1>7, TakenControl
    <3> DEFINE h == Hdr'
    <3>3. h.segs \in Seq(Segments) /\ Verdict(h, DTB_ADDR) = "ok" /\ Len(h.segs) \in Nat
      <4>1. tab'[1][2] \in DOMAIN Images /\ Verdict(h, DTB_ADDR) = "ok" /\ h = Images[tab'[1][2]]
        BY DEF Accepted, Hdr
      <4>2. h.segs \in Seq(Segments)
        BY <4>1, ImageFields, Zenon
      <4> HIDE DEF h
      <4>3. Len(h.segs) \in Nat
        BY <4>2
      <4> QED
        BY <4>1, <4>2, <4>3, Zenon
    <3> HIDE DEF h
    <3> DEFINE n == Len(h.segs)  A == Addr(h)  F == File(h)  M == Size(h)  P == From(h)
    <3>4. Columns(n, A, F, M, P) /\ (n >= 1 => P[1] = 0)
      BY <3>3, AcceptedColumns
    <3> HIDE DEF n, A, F, M, P
    <3>5. n \in Nat /\ DOMAIN A = 1..n /\ \A i \in 1..n : Column(A, F, M, P, i)
      BY <3>4, EachColumn
    <3>6. Counted(F, P, n, <<>>, 1, 0)
      <4>1. 1 \in 1..(n + 1) /\ Len(<<>>) = 0 /\ 0 \in Nat
        BY <3>5
      <4>2. 1 <= n => 0 <= F[1] /\ Len(<<>>) = P[1] + 0
        BY <3>4, <3>5 DEF Column
      <4>3. \A i \in 1..n : ~(i < 1)
        BY <3>5
      <4> QED
        BY <4>1, <4>2, <4>3 DEF Counted
    <3>7. \A m : InPlace(A, F, M, P, <<>>, m, 1, 0)
      <4>1. \A i \in 1..n : Done(M, 1, 0, i) = 0
        BY <3>5 DEF Done
      <4>2. \A k \in Words : ~(k < 0)
        BY MapAssumption DEF Words
      <4> QED
        BY <3>5, <4>1, <4>2, Zenon DEF InPlace, Shows
    <3>8. <<>> \in Seq(Int)
      OBVIOUS
    <3>9. pc' # "booted"
      BY <3>2
    <3>10. Counted(File(Hdr'), From(Hdr'), Len(Hdr'.segs), data', seg', off')
           /\ InPlace(Addr(Hdr'), File(Hdr'), Size(Hdr'), From(Hdr'), data', mem', seg', off')
      BY <3>1, <3>6, <3>7, Zenon DEF n, A, F, M, P, h
    <3> QED
      BY <3>1, <3>8, <3>9, <3>10, Zenon DEF Placed
  <2>4. CASE ph = "data" /\ Data(c)
    <3> DEFINE h == Hdr  v == Value(c)
    <3>1. /\ ph' = "data" /\ pc' = "seg" /\ tab' = tab /\ seg' = seg /\ off' = off + 1 /\ Hdr' = h
          /\ data' = Append(data, v) /\ mem' = [mem EXCEPT ![Add(h.segs[seg].addr, off)] = v]
      BY Zenon, <2>4 DEF Data, Hdr
    <3>2. h.segs \in Seq(Segments) /\ Verdict(h, DTB_ADDR) = "ok" /\ Len(h.segs) \in Nat
      BY <1>1, <2>4, HdrAccepted
    <3>3. /\ seg \in 1..Len(h.segs) /\ off \in Nat /\ off < h.segs[seg].filesz
      <4>1. pc = "rbr"
        BY <1>7 DEF ReadRbr
      <4>2. seg \in Nat \ {0} /\ off \in Nat /\ seg <= Len(h.segs) /\ off < h.segs[seg].filesz
        BY <1>1, <2>4, <4>1 DEF Accepted
      <4> QED
        BY <3>2, <4>2
    <3>4. /\ data \in Seq(Int) /\ Counted(File(h), From(h), Len(h.segs), data, seg, off)
          /\ InPlace(Addr(h), File(h), Size(h), From(h), data, mem, seg, off)
      BY <2>4, Zenon DEF Placed
    <3>5. v \in Int
      BY <2>0 DEF Value, Marked
    <3> HIDE DEF h, v
    <3> DEFINE n == Len(h.segs)  A == Addr(h)  F == File(h)  M == Size(h)  P == From(h)
    <3>6. Columns(n, A, F, M, P)
      BY <3>2, AcceptedColumns
    <3>7. A[seg] = h.segs[seg].addr /\ F[seg] = h.segs[seg].filesz
      BY <3>3 DEF Addr, File
    <3> HIDE DEF A, F, M, P
    <3>8. Add(h.segs[seg].addr, off) = A[seg] + off
      <4>1. Column(A, F, M, P, seg) /\ off < F[seg]
        BY Zenon, <3>3, <3>6, <3>7, EachColumn
      <4>2. A[seg] \in Nat /\ F[seg] \in Nat /\ M[seg] \in Nat /\ F[seg] <= M[seg] /\ A[seg] + M[seg] < WORD
        BY <4>1 DEF Column
      <4>3. off < M[seg]
        BY <3>3, <4>1, <4>2
      <4>4. A[seg] + off \in Words
        BY <3>3, <4>2, <4>3, Fits, Zenon
      <4>5. \A x \in Words : x % WORD = x
        BY MapAssumption DEF Words
      <4> QED
        BY <3>7, <4>4, <4>5, Zenon DEF Add
    <3>9. mem' = [mem EXCEPT ![A[seg] + off] = v]
      BY <3>1, <3>8, Zenon
    <3>10. off < F[seg] /\ Counted(F, P, n, data, seg, off) /\ InPlace(A, F, M, P, data, mem, seg, off)
      BY <3>3, <3>4, <3>7, Zenon DEF A, F, M, P
    <3> HIDE DEF n
    <3>11. Counted(F, P, n, data', seg, off + 1) /\ InPlace(A, F, M, P, data', mem', seg, off + 1)
      <4>1. seg \in 1..n /\ off \in Nat
        BY <3>3, Zenon DEF n
      <4>2. Received(data, v, data')
        BY <3>1, <3>4, <3>5, Zenon DEF Received
      <4>3. Stored(mem, A[seg] + off, v, mem')
        BY <1>1, <3>9, Zenon DEF Stored
      <4> QED
        BY <3>6, <3>10, <4>1, <4>2, <4>3, ByteInPlace, Zenon
    <3>12. data' \in Seq(Int) /\ pc' # "booted"
      BY <3>1, <3>4, <3>5
    <3>13. /\ Counted(File(Hdr'), From(Hdr'), Len(Hdr'.segs), data', seg', off')
           /\ InPlace(Addr(Hdr'), File(Hdr'), Size(Hdr'), From(Hdr'), data', mem', seg', off')
      BY <3>1, <3>11, Zenon DEF n, A, F, M, P
    <3> QED
      BY <3>12, <3>13, Zenon DEF Placed
  <2> QED
    BY <1>7, <2>1, <2>2, <2>3, <2>4, Zenon DEF ReadRbr, c
<1>8. CASE SegLoop
  <2>1. /\ pc = "seg" /\ ph = "data" /\ tab' = tab /\ data' = data /\ Hdr' = Hdr
    BY Zenon, <1>1, <1>8 DEF SegLoop, Control, Hdr
  <2> DEFINE h == Hdr
  <2>2. h.segs \in Seq(Segments) /\ Verdict(h, DTB_ADDR) = "ok" /\ Len(h.segs) \in Nat
    BY <1>1, <2>1, HdrAccepted
  <2>3. /\ data \in Seq(Int) /\ Counted(File(h), From(h), Len(h.segs), data, seg, off)
        /\ InPlace(Addr(h), File(h), Size(h), From(h), data, mem, seg, off)
    BY <2>1, Zenon DEF Placed
  <2>4. seg \in 1..(Len(h.segs) + 1) /\ off \in Nat
    BY <2>3 DEF Counted
  <2>5. CASE seg > Len(h.segs)
    <3>1. Finish /\ UNCHANGED <<seg, off, mem>>
      BY Zenon, <1>8, <2>5 DEF SegLoop
    <3>2. ph' = "data" => missed' = (data # Hdr.data)
      BY <2>1, <3>1 DEF Finish, Fail
    <3>3. seg = Len(h.segs) + 1
      BY <2>2, <2>4, <2>5
    <3> QED
      BY <2>1, <2>3, <3>1, <3>2, <3>3, Zenon DEF Placed
  <2>6. CASE ~(seg > Len(h.segs)) /\ off < h.segs[seg].filesz
    <3>1. pc' = "lsr" /\ UNCHANGED <<ph, seg, off, mem, missed>>
      BY <1>8, <2>6 DEF SegLoop
    <3> QED
      BY <1>2, <2>1, <3>1
  <2>7. CASE ~(seg > Len(h.segs)) /\ ~(off < h.segs[seg].filesz)
    <3>1. mem' = ZeroFill(h.segs[seg]) /\ seg' = seg + 1 /\ off' = 0 /\ pc' = pc /\ ph' = ph
      BY <1>8, <2>7, Zenon DEF SegLoop
    <3>2. seg \in 1..Len(h.segs)
      BY <2>2, <2>4, <2>7
    <3> HIDE DEF h
    <3> DEFINE n == Len(h.segs)  A == Addr(h)  F == File(h)  M == Size(h)  P == From(h)
    <3>3. Columns(n, A, F, M, P) /\ \A g \in 1..n : g + 1 <= n => P[g + 1] = P[g] + F[g]
      BY <2>2, AcceptedColumns
    <3>4. A[seg] = h.segs[seg].addr /\ F[seg] = h.segs[seg].filesz /\ M[seg] = h.segs[seg].memsz
      BY <3>2 DEF Addr, File, Size
    <3>5. Counted(F, P, n, data, seg, off) /\ InPlace(A, F, M, P, data, mem, seg, off) /\ ~(off < F[seg])
      BY <2>3, <2>7, <3>4, Zenon
    <3> HIDE DEF A, F, M, P, n
    <3>6. Zeroed(mem, A[seg] + F[seg], A[seg] + M[seg], mem')
      <4>1. seg \in 1..n
        BY <3>2 DEF n
      <4>2. Column(A, F, M, P, seg)
        BY <3>3, <4>1, EachColumn
      <4>3. A[seg] \in Nat /\ F[seg] \in Nat /\ M[seg] \in Nat /\ F[seg] <= M[seg] /\ A[seg] + M[seg] < WORD
        BY <4>2 DEF Column
      <4>4. \A x \in Words : mem'[x] = IF \E k \in F[seg]..(M[seg] - 1) : x = Add(A[seg], k) THEN 0 ELSE mem[x]
        BY <3>1, <3>4, Zenon DEF ZeroFill
      <4>5. \A x \in Words : (\E k \in F[seg]..(M[seg] - 1) : x = Add(A[seg], k))
                             <=> (A[seg] + F[seg] <= x /\ x < A[seg] + M[seg])
        BY Zenon, <4>3, FillRange
      <4> QED
        BY <4>4, <4>5, Zenon DEF Zeroed
    <3>7. Counted(F, P, n, data, seg + 1, 0) /\ InPlace(A, F, M, P, data, mem', seg + 1, 0)
      <4>1. seg \in 1..n /\ off \in Nat
        BY <2>4, <3>2 DEF n
      <4>2. seg + 1 <= n => P[seg + 1] = P[seg] + F[seg]
        BY <3>3, <4>1
      <4> QED
        BY Zenon, <3>3, <3>5, <3>6, <4>1, <4>2, ZerosInPlace
    <3>8. /\ Counted(File(Hdr'), From(Hdr'), Len(Hdr'.segs), data', seg', off')
          /\ InPlace(Addr(Hdr'), File(Hdr'), Size(Hdr'), From(Hdr'), data', mem', seg', off')
      BY <2>1, <3>1, <3>7, Zenon DEF n, A, F, M, P, h
    <3>9. pc' # "booted" /\ data' \in Seq(Int)
      BY Zenon, <2>1, <2>3, <3>1
    <3> QED
      BY <3>8, <3>9, Zenon DEF Placed
  <2> QED
    BY <2>5, <2>6, <2>7
<1> QED
  BY <1>4, <1>5, <1>6, <1>7, <1>8, Zenon DEF Next, RomStep

(* What load_image enters is the image that was built: the bytes of each   *)
(* segment and zeros behind them, except where a later segment lies over   *)
(* them, for every set of images and every behaviour of line and sender.   *)
THEOREM EnteredAsBuilt == Spec => []LoadedAsSent
<1>1. Init => Placed
  BY DEF Init, Placed
<1>2. RInv /\ RInv' /\ Placed /\ [Next]_vars => Placed'
  <2> SUFFICES ASSUME RInv, RInv', Placed, [Next]_vars PROVE Placed'
    OBVIOUS
  <2>1. CASE Next
    BY <2>1, PlacedStep DEF RInv
  <2>2. CASE UNCHANGED vars
    <3>1. tab' = tab /\ data' = data /\ seg' = seg /\ off' = off /\ mem' = mem /\ missed' = missed /\ ph' = ph /\ pc' = pc
      BY <2>2 DEF vars, rom
    <3> QED
      BY <3>1, Zenon DEF Placed, Hdr
  <2> QED
    BY <2>1, <2>2
<1>3. RInv /\ Placed => LoadedAsSent
  <2>0. SUFFICES ASSUME RInv, Placed, err = "ok", ph = "data", ~missed,
                        NEW i \in DOMAIN Hdr.segs, NEW k \in 0..(Hdr.segs[i].memsz - 1),
                        \A j \in DOMAIN Hdr.segs : j > i => Hdr.segs[i].addr + k \notin Written(Hdr.segs[j])
                 PROVE  mem[Hdr.segs[i].addr + k] =
                          IF k < Hdr.segs[i].filesz THEN Hdr.data[Before(Hdr, i) + k + 1] ELSE 0
    BY Zenon DEF LoadedAsSent
  <2> DEFINE h == Hdr
  <2>1. pc = "booted" /\ Accepted
    BY <2>0, Zenon DEF RInv, Control
  <2>2. h.segs \in Seq(Segments) /\ Verdict(h, DTB_ADDR) = "ok" /\ Len(h.segs) \in Nat
    BY Zenon, <2>0, <2>1, HdrAccepted
  <2>3. /\ seg = Len(h.segs) + 1 /\ data = h.data /\ Counted(File(h), From(h), Len(h.segs), data, seg, off)
        /\ InPlace(Addr(h), File(h), Size(h), From(h), data, mem, seg, off)
    BY <2>0, <2>1, Zenon DEF Placed
  <2>4. i \in DOMAIN h.segs /\ k \in 0..(h.segs[i].memsz - 1)
        /\ \A j \in DOMAIN h.segs : j > i => h.segs[i].addr + k \notin Written(h.segs[j])
    BY <2>0, Zenon
  <2> HIDE DEF h
  <2> DEFINE n == Len(h.segs)  A == Addr(h)  F == File(h)  M == Size(h)  P == From(h)
  <2>5. Columns(n, A, F, M, P)
    BY Zenon, <2>2, AcceptedColumns
  <2>6. n \in Nat /\ DOMAIN A = 1..n /\ \A j \in 1..n : Column(A, F, M, P, j)
    BY Zenon, <2>5, EachColumn
  <2>7. /\ DOMAIN h.segs = 1..n /\ i \in 1..n
        /\ \A j \in 1..n : /\ A[j] = h.segs[j].addr /\ F[j] = h.segs[j].filesz
                           /\ M[j] = h.segs[j].memsz /\ P[j] = Before(h, j)
    <3>1. DOMAIN h.segs = 1..n
      BY <2>2
    <3> QED
      BY <2>4, <3>1, Zenon DEF Addr, File, Size, From
  <2>8. InPlace(A, F, M, P, data, mem, seg, off) /\ seg = n + 1
    BY Zenon, <2>3
  <2>9. k \in 0..(M[i] - 1) /\ \A j \in 1..n : j > i => A[i] + k \notin Written(h.segs[j])
    BY <2>4, <2>7, Zenon
  <2> HIDE DEF A, F, M, P, n
  <2>10. A[i] \in Nat /\ M[i] \in Nat /\ A[i] + M[i] < WORD
    BY <2>6, <2>7, Zenon DEF Column
  <2>11. k \in Nat /\ k < M[i]
    <3>1. k \in 0..(M[i] - 1)
      BY <2>9
    <3> QED
      BY <2>10, <3>1
  <2>12. A[i] + k \in Words /\ k \in Words
    <3>1. 0 + k \in Words
      <4>1. 0 + M[i] < WORD
        BY <2>10, MapAssumption
      <4> QED
        BY <2>10, <2>11, <4>1, Fits, Zenon
    <3>2. 0 + k = k
      BY <2>11
    <3> QED
      BY <2>10, <2>11, <3>1, <3>2, Fits, Zenon
  <2>13. \A j \in 1..n : Done(M, seg, off, j) = M[j]
    <3>1. \A l \in Nat : \A j \in 1..l : j < l + 1
      OBVIOUS
    <3>2. n \in Nat /\ seg = n + 1
      BY <2>6, <2>8, Zenon
    <3> QED
      BY <3>1, <3>2, Zenon DEF Done
  <2>14. \A j \in 1..n : j > i => ~Over(A, M, seg, off, j, A[i] + k)
    <3> SUFFICES ASSUME NEW j \in 1..n, j > i, Over(A, M, seg, off, j, A[i] + k) PROVE FALSE
      BY Zenon
    <3>1. A[j] \in Nat /\ M[j] \in Nat /\ A[j] + M[j] < WORD
      BY Zenon, <2>6 DEF Column
    <3>2. A[j] <= A[i] + k /\ A[i] + k < A[j] + M[j]
      BY <2>13, Zenon DEF Over
    <3>3. A[j] + 0 <= A[i] + k
      <4>1. A[j] + 0 = A[j]
        BY <3>1, Sum, Zenon
      <4> QED
        BY <3>2, <4>1, Zenon
    <3>4. \E b \in 0..(M[j] - 1) : A[i] + k = Add(A[j], b)
      <4>1. 0 \in Nat
        OBVIOUS
      <4>2. \A x \in Words : (\E b \in 0..(M[j] - 1) : x = Add(A[j], b)) <=> (A[j] + 0 <= x /\ x < A[j] + M[j])
        BY Zenon, <3>1, <4>1, FillRange
      <4> QED
        BY <2>12, <3>2, <3>3, <4>2, Zenon
    <3>5. A[i] + k \in Written(h.segs[j])
      BY <2>7, <3>4, Zenon DEF Written
    <3> QED
      BY <2>9, <3>5
  <2>15. mem[A[i] + k] = IF k < F[i] THEN data[P[i] + k + 1] ELSE 0
    <3>1. Shows(A, F, M, P, data, mem, seg, off, i, k)
      BY <2>6, <2>7, <2>8, <2>12, Zenon DEF InPlace
    <3>2. k < Done(M, seg, off, i)
      BY Zenon, <2>7, <2>11, <2>13
    <3> QED
      BY <2>6, <2>14, <3>1, <3>2, Zenon DEF Shows
  <2> QED
    BY <2>3, <2>7, <2>15, Zenon DEF h
<1> QED
  BY Reset, Stays, <1>1, <1>2, <1>3, PTL DEF Spec
=============================================================================
