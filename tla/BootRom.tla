------------------------------ MODULE BootRom -------------------------------
(***************************************************************************)
(* The boot ROM waiting for an image (sw/boot/rom_main.c): it polls the    *)
(* 16550, and a sender that nothing holds back feeds the line.  A step is  *)
(* one clock edge of the UART together with what the ROM does in it, one   *)
(* register access at most; Idle lets any time pass between two accesses.  *)
(*                                                                         *)
(* A character is <<kind, i, j, mark>>: "M" the magic word, "H" the header *)
(* of image i, "S" its segment entry j, "D" a data byte i, "N" anything    *)
(* else.  The mark is history: the line damaged this character, or the     *)
(* UART lost one just before it.                                           *)
(***************************************************************************)
EXTENDS BootImg, Uart16550

CONSTANTS Images,         \* the headers a sender may send, a sequence
          InMemory,       \* which of them may be left in memory
          RVBI_MAX_SEGS,
          QUIET,          \* clocks of silence that end drain
          MaxStreams, MaxFaults   \* bounds: streams sent, line faults

ASSUME RomAssumption ==
  /\ Images \in Seq([ok : BOOLEAN, segs : Seq(Segments), entry : Words, size : Words, data : Seq(Int)])
  /\ Images # <<>> /\ QUIET \in Nat \ {0} /\ RVBI_MAX_SEGS \in Nat /\ InMemory \subseteq DOMAIN Images
  /\ InMemory # {} => BOOTMEM_ADDR <= DTB_ADDR

VARIABLES
  u,                    \* the UART
  pc, ph,               \* next access; what it is for: hunt, table, data, drain, key
  line_err, quiet,      \* rx's error bits; clocks since drain last got a byte
  tab, want,            \* header and segment entries received; entries expected
  seg, off, data,       \* the segment being filled, bytes in it; all data bytes
  err, mem,             \* load_image's result; what loading wrote where
  todo, gap, streams, faults, polite, \* the sender and the line
  old, dirty, missed    \* history: characters in the FIFO from before load_image
                        \* began; a marked one that came later was taken into the
                        \* image; the data CRC agreed although the data did not

rom == <<pc, ph, line_err, quiet, tab, want, seg, off, data, err, mem, old, dirty, missed>>
sender == <<todo, gap, streams, faults, polite>>
vars == <<u, rom, sender>>

Untouched == [x \in Words |-> -1]
Hdr == Images[tab[1][2]]
Value(c) == IF c[1] = "D" THEN c[2] ELSE 2

Stream(i) ==
  <<<<"M", 0, 0>>, <<"H", i, 0>>>> \o [j \in DOMAIN Images[i].segs |-> <<"S", i, j>>]
  \o [k \in DOMAIN Images[i].data |-> <<"D", Images[i].data[k], 0>>]

Init ==
  /\ u = [UartInit EXCEPT !.fifo_en = TRUE]
  /\ \/ InMemory # {} /\ pc = "lsr" /\ ph = "key"
     \/ pc = "report" /\ ph = "hunt"
  /\ line_err = FALSE /\ quiet = 0 /\ tab = <<>> /\ want = 0
  /\ seg = 1 /\ off = 0 /\ data = <<>> /\ err = "none" /\ mem = Untouched
  /\ todo = <<>> /\ gap = FALSE /\ streams = 0 /\ faults = 0 /\ polite = FALSE
  /\ old = 0 /\ dirty = FALSE /\ missed = FALSE

-----------------------------------------------------------------------------
(* The line, in the same edge: nothing arrives, or the next character of   *)
(* the stream does, whole, damaged with a framing error, or altered        *)
(* without one.  A character that finds the FIFO full is dropped.          *)
Mark(c, bad) == <<c[1], c[2], c[3], bad \/ gap>>
Flip(c) == IF c[1] = "D" THEN <<"D", 1 - c[2], 0>> ELSE <<"N", 0, 0>>

Deliver(b, c, bad) ==
  LET r == Char(Mark(c, bad), bad) IN
  /\ u' = UartEdge(u, b, r, FALSE)
  /\ gap' = overrun(u, r)
  /\ todo' = Tail(todo)
  /\ polite => u.rxq = <<>>

Quiet(b) == u' = UartEdge(u, b, NoChar, FALSE) /\ UNCHANGED sender

Arrive(b) ==
  /\ todo # <<>>
  /\ UNCHANGED <<streams, polite>>
  /\ \/ Deliver(b, Head(todo), FALSE) /\ UNCHANGED faults
     \/ /\ ~polite /\ faults < MaxFaults /\ faults' = faults + 1
        /\ \E bad \in BOOLEAN : Deliver(b, Flip(Head(todo)), bad)

Line(b) == Quiet(b) \/ Arrive(b)

(* The sender starts a stream, or noise, or gives one up half way; from    *)
(* some time on it sends whole images, each when the ROM waits for input.  *)
StartStream ==
  /\ ~polite /\ todo = <<>> /\ streams < MaxStreams
  /\ \E i \in DOMAIN Images : todo' \in {Stream(i), <<<<"N", 0, 0>>>>}
  /\ streams' = streams + 1 /\ UNCHANGED <<u, rom, gap, faults, polite>>
GiveUp == ~polite /\ todo # <<>> /\ todo' = <<>> /\ UNCHANGED <<u, rom, gap, streams, faults, polite>>
Behave == ~polite /\ polite' = TRUE /\ todo' = <<>> /\ UNCHANGED <<u, rom, gap, streams, faults>>
SendAgain ==
  /\ polite /\ todo = <<>> /\ u.rxq = <<>> /\ pc = "lsr" /\ ph \in {"hunt", "table", "data"}
  /\ todo' = Stream(1) /\ UNCHANGED <<u, rom, gap, streams, faults, polite>>

-----------------------------------------------------------------------------
(* The ROM.  Time passes for drain in every edge it spends there.          *)
(* Mutant: the time of the last byte is taken anew in every turn.          *)
TickRestarts == quiet' = 0
Tick == quiet' = IF ph = "drain" /\ quiet < QUIET THEN quiet + 1 ELSE quiet
Idle ==
  /\ Line(NoBus) /\ Tick
  /\ UNCHANGED <<pc, ph, line_err, tab, want, seg, off, data, err, mem, old, dirty, missed>>

(* rx, rx_bytes and ns16550_getc read LSR until it says data ready; rx and *)
(* rx_bytes keep its error bits, ns16550_getc drops them.                  *)
(* Mutant (first): RBR is read whatever LSR says.                          *)
ReadLsrBlind ==
  /\ pc = "lsr" /\ (ph = "drain" => quiet < QUIET)
  /\ pc' = "rbr" /\ Line(Rd("LSR")) /\ Tick
  /\ UNCHANGED <<ph, line_err, missed, tab, want, seg, off, data, err, mem, old, dirty>>
ReadLsr ==
  /\ pc = "lsr" /\ (ph = "drain" => quiet < QUIET)
  /\ line_err' = (line_err \/ (ph \in {"hunt", "table", "data"} /\ (lsr(u).oe \/ lsr(u).err)))
  /\ pc' = IF lsr(u).dr THEN "rbr" ELSE "lsr"
  /\ Line(Rd("LSR")) /\ Tick
  /\ UNCHANGED <<ph, tab, want, seg, off, data, err, mem, old, dirty, missed>>

Fail(e) == err' = e /\ pc' = "lsr" /\ ph' = "drain" /\ quiet' = 0

(* The characters that reach load_image, one by one.                       *)
Hunt(c) ==
  /\ pc' = "lsr" /\ tab' = <<>>
  /\ ph' = IF c[1] = "M" THEN "table" ELSE "hunt"
  /\ UNCHANGED <<quiet, want, seg, off, data, err, mem, dirty>>

(* A header that is not one has any segment count in it.                   *)
HeaderChar(c) ==
  /\ tab' = <<c>>
  /\ \/ /\ IF c[1] = "H" THEN ~Images[c[2]].ok ELSE TRUE
        /\ Fail("bad_hdr") /\ UNCHANGED want
     \/ /\ IF c[1] = "H" THEN Images[c[2]].ok /\ want' = 1 + Len(Images[c[2]].segs)
           ELSE want' \in 2..(1 + RVBI_MAX_SEGS)
        /\ pc' = "lsr" /\ UNCHANGED <<ph, quiet, err>>

HdrCrcOk(t) ==
  /\ t[1][1] = "H"
  /\ \A j \in 2..Len(t) : t[j][1] = "S" /\ t[j][2] = t[1][2] /\ t[j][3] = j - 1

TableChar(c) ==
  /\ tab' = Append(tab, c)
  /\ IF Len(tab') < want THEN pc' = "lsr" /\ UNCHANGED <<ph, quiet, err>>
     ELSE IF ~HdrCrcOk(tab') THEN Fail("hdr_crc")
     ELSE IF Verdict(Images[tab'[1][2]], DTB_ADDR) # "ok" THEN Fail(Verdict(Images[tab'[1][2]], DTB_ADDR))
     ELSE pc' = "seg" /\ ph' = "data" /\ UNCHANGED <<quiet, err>>
  /\ UNCHANGED want

Table(c) ==
  /\ IF tab = <<>> THEN HeaderChar(c) ELSE TableChar(c)
  /\ dirty' = (dirty \/ (c[4] /\ old = 0)) /\ seg' = 1 /\ off' = 0 /\ data' = <<>> /\ UNCHANGED mem

Data(c) ==
  /\ mem' = [mem EXCEPT ![Add(Hdr.segs[seg].addr, off)] = Value(c)]
  /\ off' = off + 1 /\ data' = Append(data, Value(c)) /\ dirty' = (dirty \/ (c[4] /\ old = 0))
  /\ pc' = "seg" /\ UNCHANGED <<ph, quiet, tab, want, seg, err>>

(* drain: a character was thrown away; a key: drain the rest of the line.  *)
Discard ==
  /\ quiet' = 0 /\ pc' = "lsr" /\ ph' = "drain"
  /\ UNCHANGED <<tab, want, seg, off, data, err, mem, dirty>>

ReadRbr ==
  /\ pc = "rbr" /\ Line(Rd("RBR")) /\ UNCHANGED <<line_err, missed>>
  /\ old' = IF old = 0 THEN 0 ELSE old - 1
  /\ LET c == Head(u.rxq) IN
     \/ ph = "hunt" /\ Hunt(c)
     \/ ph = "table" /\ Table(c)
     \/ ph = "data" /\ Data(c)
     \/ ph \in {"drain", "key"} /\ Discard

(* The segment loop: more data, the zero fill and the next segment, or the *)
(* verdict on the whole.                                                   *)
ZeroFill(s) ==
  [x \in Words |-> IF \E k \in s.filesz..(s.memsz - 1) : x = Add(s.addr, k) THEN 0 ELSE mem[x]]

(* Equal data has equal CRCs; different data may, once in 2^32 times.      *)
(* Mutant (first): the data CRC is not looked at.                          *)
Enter == err' = "ok" /\ pc' = "booted" /\ UNCHANGED <<ph, quiet>>
FinishNoCrc == (IF line_err THEN Fail("line") ELSE Enter) /\ UNCHANGED missed
Finish ==
  \/ line_err /\ Fail("line") /\ UNCHANGED missed
  \/ ~line_err /\ data # Hdr.data /\ Fail("data_crc") /\ UNCHANGED missed
  \/ ~line_err /\ Enter /\ missed' = (data # Hdr.data)

SegLoop ==
  /\ pc = "seg" /\ Line(NoBus) /\ UNCHANGED <<line_err, tab, want, data, old, dirty>>
  /\ IF seg > Len(Hdr.segs) THEN Finish /\ UNCHANGED <<seg, off, mem>>
     ELSE IF off < Hdr.segs[seg].filesz
          THEN pc' = "lsr" /\ UNCHANGED <<ph, quiet, seg, off, err, mem, missed>>
          ELSE /\ mem' = ZeroFill(Hdr.segs[seg]) /\ seg' = seg + 1 /\ off' = 0
               /\ UNCHANGED <<pc, ph, quiet, err, missed>>

(* drain's time is up.                                                     *)
DrainEnd ==
  /\ pc = "lsr" /\ ph = "drain" /\ quiet >= QUIET
  /\ pc' = "report" /\ line_err' = FALSE /\ Line(NoBus)
  /\ UNCHANGED <<ph, quiet, tab, want, seg, off, data, err, mem, old, dirty, missed>>

(* Printing polls LSR for room in the transmitter: the error bits it finds *)
(* there are gone.  So are those of before, when load_image starts.        *)
Putc ==
  /\ pc = "report" /\ Line(Rd("LSR"))
  /\ UNCHANGED rom

Report ==
  /\ pc = "report"
  /\ pc' = "lsr" /\ ph' = "hunt" /\ line_err' = FALSE /\ tab' = <<>>
  /\ dirty' = FALSE /\ old' = Len(u.rxq) /\ gap' = FALSE
  /\ UNCHANGED <<u, quiet, want, seg, off, data, err, mem, missed, todo, streams, faults, polite>>

(* No key came: the image in memory, which may have been damaged there.    *)
(* Nothing is read from the UART meanwhile, so this is one step.           *)
Fill(h) ==
  LET at(i, x) == \E k \in 0..(h.segs[i].memsz - 1) : x = Add(h.segs[i].addr, k)
  IN [x \in Words |-> IF \E i \in DOMAIN h.segs : at(i, x) THEN 3 ELSE mem[x]]

(* Mutant: the image in memory may be overwritten while it is read.        *)
MemVerdictDtb(h) == IF ~h.ok THEN "bad_hdr" ELSE Verdict(h, DTB_ADDR)
MemVerdict(h) == IF ~h.ok THEN "bad_hdr" ELSE Verdict(h, BOOTMEM_ADDR)

MemLoad ==
  /\ pc = "lsr" /\ ph = "key" /\ Line(NoBus)
  /\ \E i \in InMemory :
       \/ /\ MemVerdict(Images[i]) # "ok"
          /\ err' = MemVerdict(Images[i]) /\ pc' = "report" /\ UNCHANGED mem
       \/ /\ MemVerdict(Images[i]) = "ok" /\ mem' = Fill(Images[i])
          /\ \/ err' = "ok" /\ pc' = "booted"
             \/ err' = "data_crc" /\ pc' = "report"
  /\ UNCHANGED <<ph, line_err, quiet, tab, want, seg, off, data, old, dirty, missed>>

RomStep == ReadLsr \/ ReadRbr \/ SegLoop \/ DrainEnd \/ Report \/ MemLoad
Next == Idle \/ Putc \/ RomStep \/ StartStream \/ GiveUp \/ Behave \/ SendAgain
Spec == Init /\ [][Next]_vars

(* The ROM runs, the line carries what is sent, and the sender ends up     *)
(* sending whole images.                                                   *)
LiveSpec ==
  /\ Spec /\ WF_vars(RomStep) /\ WF_vars(Idle /\ todo' # todo)
  /\ WF_vars(Behave) /\ WF_vars(SendAgain)

-----------------------------------------------------------------------------
(* Nothing is ever written below the payload area, over the DTB or, from   *)
(* an image in memory, over that image: not even by an image refused later.*)
InPayload ==
  \A x \in Words : mem[x] # -1 =>
    x >= PAYLOAD_BASE /\ x < (IF ph = "key" THEN BOOTMEM_ADDR ELSE DTB_ADDR)

(* An image that is entered is in memory as it was built: the bytes of     *)
(* each segment, then zeros, but where a later segment lies over it, and   *)
(* although earlier images wrote there too, the line lost or changed       *)
(* characters, and senders gave up half way; only a CRC that agrees by     *)
(* chance is excused.                                                      *)
Before(h, i) ==
  LET b[j \in 1..(Len(h.segs) + 1)] == IF j = 1 THEN 0 ELSE b[j - 1] + h.segs[j - 1].filesz
  IN b[i]
LoadedAsSent ==
  (err = "ok" /\ ph = "data" /\ ~missed) =>
    \A i \in DOMAIN Hdr.segs : \A k \in 0..(Hdr.segs[i].memsz - 1) :
      LET x == Hdr.segs[i].addr + k IN
      (\A j \in DOMAIN Hdr.segs : j > i => x \notin Written(Hdr.segs[j])) =>
        mem[x] = IF k < Hdr.segs[i].filesz THEN Hdr.data[Before(Hdr, i) + k + 1] ELSE 0

(* Even if the CRC agrees by chance, no image is entered in which the UART *)
(* damaged a character or lost one since load_image began: every read of   *)
(* LSR clears the error bits, and none of load_image's may lose them.  (An *)
(* error from before, of a character that still waits in the FIFO, may be  *)
(* lost to drain or to printing.)  Nor is a character made up: RBR is read *)
(* only when one waits.                                                    *)
NoSilentLoss == ((err = "ok" /\ ph = "data") => ~dirty) /\ (pc = "rbr" => u.rxq # <<>>)

(* However the line and the senders misbehaved, once whole images are sent *)
(* one of them is entered.                                                 *)
Recovers == polite ~> (pc = "booted")
=============================================================================
