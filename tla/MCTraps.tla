------------------------------ MODULE MCTraps -------------------------------
(* Instances of Traps: the instructions are the returns, ecall, a fault, a *)
(* plain instruction and CSR writes with the operands software would use.  *)
EXTENDS Traps

CONSTANTS Irqs,     \* the interrupts software enables and raises
          Deleg     \* the interrupts it may put in mideleg

W(a, f3, v) == [op |-> "csr", w |-> [a |-> a, f3 |-> f3, v |-> v]]

Plain == {[op |-> "mret"], [op |-> "sret"], [op |-> "ecall"], [op |-> "other"], [op |-> "fault", n |-> 13]}

(* mstatus takes a legal and an illegal MPP; the enables are set one by    *)
(* one.                                                                    *)
StatusWrites ==
  {W("mstatus", "w", {7} \cup b) : b \in {{11}, {12}}} \cup {W("mstatus", "s", {3})}
    \cup {W("sstatus", "s", {1}), W("sstatus", "c", {1}), W("sstatus", "w", {5, 8, 11, 12})}

IrqWrites ==
  {W("mie", f3, {i}) : f3 \in {"s", "c"}, i \in Irqs} \cup {W("sie", "w", Irqs)}
    \cup {W("mip", f3, {i}) : f3 \in {"s", "c"}, i \in Irqs \cap S_INT_MASK} \cup {W("sip", "s", {STI})}

DelegWrites == {W("mideleg", f3, {i}) : f3 \in {"s", "c"}, i \in Deleg}

FrameWrites ==
  {W("medeleg", f3, {8, 13}) : f3 \in {"s", "c"}} \cup {W(a, "w", 0) : a \in {"mepc", "sepc"}}

Software == Plain \cup StatusWrites \cup IrqWrites \cup DelegWrites \cup FrameWrites
=============================================================================
