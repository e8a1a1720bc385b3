------------------------------ MODULE BootImg -------------------------------
(***************************************************************************)
(* What the boot ROM checks of an image before it writes a byte            *)
(* (sw/boot/rom_main.c, load_image), and of a buffer an SBI call names     *)
(* (rom_sbi.c, payload_buffer), in unsigned arithmetic of WORD values.     *)
(* A header h has ok (version and counts), segs, entry, size and data, the *)
(* bytes its data_crc was computed from.                                   *)
(***************************************************************************)
EXTENDS Integers, Sequences, Functions

CONSTANTS WORD,           \* 2^32
          PAYLOAD_BASE,   \* the firmware keeps what is below
          DTB_ADDR,       \* RAM_BASE + ram_size - DTB_AREA
          BOOTMEM_ADDR,   \* an image left in memory lies from here on
          RAM_END         \* RAM_BASE + ram_size

ASSUME MapAssumption ==
  /\ WORD \in Nat \ {0}
  /\ PAYLOAD_BASE \in 0..(WORD - 1) /\ DTB_ADDR \in 0..(WORD - 1)
  /\ BOOTMEM_ADDR \in 0..(WORD - 1) /\ RAM_END \in 0..(WORD - 1)
  /\ DTB_ADDR <= RAM_END

Words == 0..(WORD - 1)
Segments == [addr : Words, filesz : Words, memsz : Words]
Add(a, b) == (a + b) % WORD

(* One segment against the payload area [PAYLOAD_BASE, end).               *)
(* Mutant (first): no check for wrap-around.                               *)
SegOkNoWrap(s, end) ==
  s.filesz <= s.memsz /\ s.addr >= PAYLOAD_BASE /\ Add(s.addr, s.memsz) <= end
SegOk(s, end) ==
  /\ s.filesz <= s.memsz
  /\ Add(s.addr, s.memsz) >= s.addr
  /\ s.addr >= PAYLOAD_BASE
  /\ Add(s.addr, s.memsz) <= end

EntryOk(h) ==
  \E i \in DOMAIN h.segs : h.entry >= h.segs[i].addr /\ h.entry < Add(h.segs[i].addr, h.segs[i].filesz)

Total(h) == FoldFunction(Add, 0, [i \in DOMAIN h.segs |-> h.segs[i].filesz])

(* The verdict on a header whose CRC is right; "ok" lets the data in.      *)
Verdict(h, end) ==
  IF \E i \in DOMAIN h.segs : ~SegOk(h.segs[i], end) THEN "range"
  ELSE IF Total(h) # h.size THEN "sizes"
  ELSE IF ~EntryOk(h) THEN "entry"
  ELSE "ok"

(* The addresses loading a segment writes: filesz bytes, then zeros.       *)
Written(s) == { Add(s.addr, k) : k \in 0..(s.memsz - 1) }

(* rom_sbi.c: a buffer named by a payload.                                 *)
payload_buffer(lo, hi, n) ==
  hi = 0 /\ lo >= PAYLOAD_BASE /\ Add(lo, n) >= lo /\ Add(lo, n) <= RAM_END
Buffer(lo, n) == { Add(lo, k) : k \in 0..(n - 1) }
=============================================================================
