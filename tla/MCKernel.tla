------------------------------ MODULE MCKernel ------------------------------
(* Instances of Serial and of Sbi: the two interrupts a kernel in S mode    *)
(* lives on, the console's and the timer's.  They share no register that    *)
(* either model changes; a behaviour has one of them, part, at work and     *)
(* leaves the other as it began.                                            *)
EXTENDS Serial, Sbi

VARIABLE part

(* Serial with short FIFOs: trigger levels 1 and 3 of 4.  A line ends       *)
(* early, after line is full, twice, or never.                              *)
MCInputs == {{}, {3}, {5, 6}, {8}}
MCTrigger == [t \in 0..3 |-> IF t = 0 THEN 1 ELSE 3]

(* Sbi with a clock of a few ticks and deadlines on both sides of a carry   *)
(* between the halves of mtimecmp, and a payload that uses the supervisor's *)
(* registers, tries the machine's, and takes faults.                        *)
PayloadWrites ==
  {W("sstatus", "s", {1}), W("sie", "s", {STI, SEI}), W("sie", "c", {STI}),
   W("sip", "s", {SSI, STI}), W("sip", "w", {}), W("mie", "c", {MTI}), W("mip", "c", {STI})}
Software ==
  {[op |-> "csr", w |-> w] : w \in PayloadWrites} \cup {[op |-> o] : o \in {"mret", "sret", "other"}}
    \cup {[op |-> "fault", n |-> n] : n \in Faults}

EitherInit ==
  /\ SerialInit /\ Init
  /\ \/ part = "serial"
     \/ part = "sbi" /\ crs = {}
EitherNext ==
  \/ part = "serial" /\ SerialNext /\ UNCHANGED <<part, vars>>
  \/ part = "sbi" /\ Next /\ UNCHANGED <<part, serialVars>>

(* The fairness of SerialLiveSpec and of LiveSpec, for the part at work.    *)
EitherSpec ==
  /\ EitherInit /\ [][EitherNext]_<<part, serialVars, vars>>
  /\ WF_serialVars(part = "serial" /\ Hart)
  /\ WF_vars(part = "sbi" /\ Firmware)
  /\ SF_vars(part = "sbi" /\ \E seip \in BOOLEAN : PayloadRuns([op |-> "other"], seip))
=============================================================================
