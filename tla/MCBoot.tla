------------------------------- MODULE MCBoot -------------------------------
(* Instances of BootRom and of UartLine: how an image gets over the serial  *)
(* line into memory.  The two meet only in the byte that is handed over; a  *)
(* behaviour has one of them, part, at work and leaves the other as it      *)
(* began.                                                                   *)
EXTENDS BootRom, UartLine

VARIABLE part

(* BootRom in a memory of eight words: firmware 0 and 1, the payload area 2 *)
(* to 5, the DTB 6 and 7.                                                   *)
Levels == [t \in 0..3 |-> 1]
S(a, f, m) == [addr |-> a, filesz |-> f, memsz |-> m]
H(segs, entry, d) == [ok |-> TRUE, segs |-> segs, entry |-> entry, size |-> Len(d), data |-> d]

Good == H(<<S(2, 2, 3)>>, 2, <<1, 0>>)
Two == H(<<S(4, 2, 2), S(2, 1, 3)>>, 2, <<0, 1, 1>>)   \* the second over the first
Wraps == H(<<S(5, 1, 5)>>, 5, <<1>>)
Low == H(<<S(1, 1, 1)>>, 1, <<1>>)
High == H(<<S(4, 1, 2)>>, 4, <<1>>)

MCImages ==
  <<Good, Two, High, Wraps, Low,
    [Good EXCEPT !.size = 1], [Good EXCEPT !.entry = 4], [Good EXCEPT !.ok = FALSE]>>

(* UartLine: 8N1 read by a receiver whose bit is 3% too long, 8O1 by one    *)
(* whose bit is 3% too short, 5E2 and 6N2 at the same speed.                *)
F(tx_cpb, rx_cpb, bits, parity, stop2) ==
  [tx_cpb |-> tx_cpb, rx_cpb |-> rx_cpb, bits |-> bits, parity |-> parity, stop2 |-> stop2]
SameSpeed == F(8, 8, 6, 0, TRUE)
MCFramings == {F(32, 33, 8, 0, FALSE), F(32, 31, 8, 1, FALSE), F(8, 8, 5, 2, TRUE), SameSpeed}

(* Every five-bit byte; of the others the patterns that stress sampling:    *)
(* constant, alternating, and a lone bit at either end.                     *)
Patterns(n) ==
  { [i \in 1..n |-> 0], [i \in 1..n |-> 1], [i \in 1..n |-> i % 2], [i \in 1..n |-> (i + 1) % 2],
    [i \in 1..n |-> IF i = 1 THEN 1 ELSE 0], [i \in 1..n |-> IF i = n THEN 1 ELSE 0] }
MCSent(n) == IF n = 5 THEN [1..n -> 0..1] ELSE Patterns(n)

EitherInit ==
  /\ Init /\ LineInit
  /\ \/ part = "rom" /\ cfg = SameSpeed
     \/ part = "line" /\ ph = "hunt"
EitherNext ==
  \/ part = "rom" /\ Next /\ UNCHANGED <<part, lineVars>>
  \/ part = "line" /\ LineNext /\ UNCHANGED <<part, vars>>

(* The fairness of LiveSpec and of LineLiveSpec, for the part at work.      *)
EitherSpec ==
  /\ EitherInit /\ [][EitherNext]_<<part, vars, lineVars>>
  /\ WF_vars(part = "rom" /\ RomStep) /\ WF_vars(part = "rom" /\ Idle /\ todo' # todo)
  /\ WF_vars(part = "rom" /\ Behave) /\ WF_vars(part = "rom" /\ SendAgain)
  /\ WF_lineVars(part = "line" /\ LineNext)
=============================================================================
