------------------------------- MODULE Serial -------------------------------
(***************************************************************************)
(* A line of input by interrupt, as sw/boot/kdemo.c receives it on the     *)
(* boot platform: characters arrive at the UART (module Uart16550), whose  *)
(* interrupt is source UART_IRQ of the PLIC (module PlicSifive), whose     *)
(* context 1 raises the supervisor external interrupt of the hart.         *)
(*                                                                         *)
(* One step is one clock cycle: the hart makes at most one access to a     *)
(* device, and at most one character arrives.  Nothing holds the sender    *)
(* back.  Characters are numbered in the order they are sent; crs are the  *)
(* ones that are a carriage return, and 0 is the NUL that ends a string.   *)
(***************************************************************************)
EXTENDS Uart16550, PlicSifive

CONSTANTS UART_IRQ,
          LINE,         \* sizeof line
          Inputs,       \* what may be typed: where its carriage returns are
          MaxChars      \* bound: characters sent in a behaviour

ASSUME LineSizeAssumption == LINE \in Nat \ {0}

S_CTX == 1              \* the context of hart 0 in S mode

VARIABLES
  u, ic,     \* the UART, the PLIC
  at,        \* the program: a step of external_irqs ("wfi" is its loop) or of s_trap
  back,      \* the step of external_irqs that s_trap returns to
  id,        \* s_trap's id
  chr,       \* s_trap's c
  line,      \* line[0 .. n_rx - 1]
  crs,       \* the carriage returns among the characters
  sent,      \* characters sent so far
  got,       \* history: the characters s_trap has read and dealt with
  dropped    \* history: the characters that met a full FIFO

text == <<line, got>>
serialVars == <<u, ic, at, back, id, chr, text, crs, sent, dropped>>

(* As the ROM leaves the machine: FIFOs on, no interrupts (ns16550_init).  *)
SerialInit ==
  /\ u = [UartInit EXCEPT !.fifo_en = TRUE]
  /\ ic = PlicInit /\ at = "prio" /\ back = "wfi" /\ id = 0 /\ chr = 0
  /\ line = <<>> /\ crs \in Inputs /\ sent = 0 /\ got = <<>> /\ dropped = {}

(* The devices' clock edge under the hart's accesses b and a.              *)
Cycle(b, a) ==
  \E arrives \in BOOLEAN :
    LET r == IF arrives THEN Char(sent + 1, FALSE) ELSE NoChar IN
    /\ arrives => sent < MaxChars
    /\ u' = UartEdge(u, b, r, FALSE)
    /\ ic' = PlicEdge(ic, a, IF irq(u) THEN {UART_IRQ} ELSE {})
    /\ sent' = IF arrives THEN sent + 1 ELSE sent
    /\ dropped' = IF overrun(u, r) THEN dropped \cup {sent + 1} ELSE dropped
    /\ UNCHANGED crs

Do(here, b, a, next) == at = here /\ at' = next /\ Cycle(b, a)

(* external_irqs and ns16550_rx_irq: the PLIC, then the trigger level with *)
(* the FIFOs kept as they are, then the UART's and the hart's enables.     *)
RxIrqFcrClears(trig) == [en |-> TRUE, clear |-> {"rx", "tx"}, trig |-> trig]
RxIrqFcr(trig) == [en |-> TRUE, clear |-> {}, trig |-> trig]

Setup ==
  /\ \/ Do("prio", NoBus, [k |-> "prio", id |-> UART_IRQ, v |-> 1], "enable")
     \/ Do("enable", NoBus, [k |-> "en", c |-> S_CTX, v |-> {UART_IRQ}], "thresh")
     \/ Do("thresh", NoBus, [k |-> "thresh", c |-> S_CTX, v |-> 0], "fcr")
     \/ Do("fcr", Wr("FCR", RxIrqFcr(1)), NoAccess, "ier")
     \/ Do("ier", Wr("IER", {0}), NoAccess, "wfi")
  /\ UNCHANGED <<back, id, chr, text>>

(* The loop in external_irqs: wfi waits for nothing (cpu_pipe_u.v takes it *)
(* for a no-op), so the last character stored is looked at all the time.   *)
Typed == line # <<>> /\ line[Len(line)] \in crs
Wait ==
  /\ ~eip(ic, S_CTX)
  /\ Do("wfi", NoBus, NoAccess, IF Typed THEN "clear" ELSE "wfi")
  /\ UNCHANGED <<back, id, chr, text>>

(* The interrupt: in the loop, or after it, until SIE is clear.            *)
Interrupt ==
  /\ eip(ic, S_CTX) /\ back' = at
  /\ Do("wfi", NoBus, NoAccess, "claim") \/ Do("clear", NoBus, NoAccess, "claim")
  /\ UNCHANGED <<id, chr, text>>

(* csr_clear(sstatus, SIE), and line[n_rx - 1] = 0.                        *)
Leave ==
  /\ Do("clear", NoBus, NoAccess, "done")
  /\ line' = [line EXCEPT ![Len(line)] = 0] /\ UNCHANGED <<back, id, chr, got>>

(* s_trap: while ((id = *plic_claim) != 0)                                 *)
ReadClaim ==
  /\ id' = best(ic, S_CTX)
  /\ Do("claim", NoBus, Claim(S_CTX), IF id' = 0 THEN back ELSE IF id' = UART_IRQ THEN "lsr" ELSE "complete")
  /\ UNCHANGED <<back, chr, text>>

(* while ((c = ns16550_getc(&uart)) >= 0), an LSR and an RBR read, then    *)
(* if (n_rx < sizeof line - 1) line[n_rx++] = c; the last byte of line is  *)
(* kept for a NUL, and a character that finds no place is thrown away.     *)
ReadLsrBlind == Do("lsr", Rd("LSR"), NoAccess, "rbr") /\ UNCHANGED <<back, id, chr, text>>
ReadLsr ==
  /\ Do("lsr", Rd("LSR"), NoAccess, IF lsr(u).dr THEN "rbr" ELSE "complete")
  /\ UNCHANGED <<back, id, chr, text>>
ReadRbr == Do("rbr", Rd("RBR"), NoAccess, "store") /\ chr' = Head(u.rxq) /\ UNCHANGED <<back, id, text>>
StoreChrLate ==
  /\ Do("store", NoBus, NoAccess, "lsr")
  /\ line' = IF Len(line) < LINE THEN Append(line, chr) ELSE line
  /\ got' = Append(got, chr) /\ UNCHANGED <<back, id, chr>>
StoreChr ==
  /\ Do("store", NoBus, NoAccess, "lsr")
  /\ line' = IF Len(line) < LINE - 1 THEN Append(line, chr) ELSE line
  /\ got' = Append(got, chr) /\ UNCHANGED <<back, id, chr>>

WriteCompleteForgets == Do("complete", NoBus, NoAccess, "claim") /\ UNCHANGED <<back, id, chr, text>>
WriteComplete == Do("complete", NoBus, Complete(S_CTX, id), "claim") /\ UNCHANGED <<back, id, chr, text>>

Hart == Setup \/ Wait \/ Interrupt \/ Leave \/ ReadClaim \/ ReadLsr \/ ReadRbr \/ StoreChr \/ WriteComplete

(* A cycle in which the hart executes something else.                      *)
Other == Cycle(NoBus, NoAccess) /\ UNCHANGED <<at, back, id, chr, text>>

SerialNext == Hart \/ Other
SerialSpec == SerialInit /\ [][SerialNext]_serialVars

(* The hart keeps executing.                                               *)
SerialLiveSpec == SerialSpec /\ WF_serialVars(Hart)

-----------------------------------------------------------------------------
InOrder(s) == \A i, j \in 1..Len(s) : i < j => s[i] < s[j]

(* Every character sent is read once and in order, or is in the FIFO, or   *)
(* in the handler's hand, or was dropped by a full FIFO; turning the       *)
(* receive interrupt on loses none of those already waiting ("FIFOs on     *)
(* (kept)", ns16550.c:54).  A character is read only when one waits.  line *)
(* holds the first of those that were read, as many as fit with a byte to  *)
(* spare for the NUL (kdemo.c:80); the later ones are thrown away.  After  *)
(* the loop the NUL stands on the last of them: line was not empty.        *)
InHand == IF at = "store" THEN <<chr>> ELSE <<>>
StreamIntact ==
  LET s == got \o InHand \o u.rxq IN
  /\ InOrder(s)
  /\ {s[i] : i \in 1..Len(s)} = 1..sent \ dropped
  /\ at = "rbr" => u.rxq # <<>>
  /\ Len(line) = IF Len(got) < LINE - 1 THEN Len(got) ELSE LINE - 1
  /\ at \in {"clear", "done"} => line # <<>>
  /\ \A i \in 1..Len(line) : line[i] = IF at = "done" /\ i = Len(line) THEN 0 ELSE got[i]

(* As long as the program waits, every character that was not dropped is   *)
(* read in the end (and stored, if line has a place for it), the last few  *)
(* below the trigger level too (by the receive timeout), and whenever they *)
(* arrive: before the interrupt is set up, while the handler drains the    *)
(* FIFO, or between its last look and the complete.  And the program does  *)
(* not wait for ever on a line whose last character is a carriage return.  *)
CaughtUp == \A k \in 1..sent : k \in dropped \/ \E i \in 1..Len(got) : got[i] = k
AllStored == []<>(at = "done" \/ (CaughtUp /\ ~Typed))
=============================================================================
