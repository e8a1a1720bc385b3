----------------------------- MODULE PlicSifive -----------------------------
(***************************************************************************)
(* The platform-level interrupt controller rtl/plic_sifive.v, as operators *)
(* on one record p: priorities, per-context enables and thresholds, and    *)
(* the gateway's pending and in-service bits.                              *)
(***************************************************************************)
EXTENDS Naturals

CONSTANTS SOURCES,      \* IDs 1..SOURCES
          CONTEXTS      \* contexts 0..CONTEXTS-1

ASSUME PlicAssumption == SOURCES \in Nat /\ CONTEXTS \in Nat

Ids == 1..SOURCES
Ctxs == 0..(CONTEXTS - 1)

PlicInit ==
  [prio |-> [k \in Ids |-> 0], pend |-> {}, infl |-> {}, en |-> [c \in Ctxs |-> {}], thresh |-> [c \in Ctxs |-> 0]]

(* The arbitration loop of a context: ids upwards, a strictly higher       *)
(* priority replaces the best so far.                                      *)
bestLast(p, c) ==
  LET b[k \in 0..SOURCES] ==
        IF k = 0 THEN 0
        ELSE IF /\ k \in p.pend \cap p.en[c] /\ p.prio[k] > p.thresh[c]
                /\ b[k - 1] = 0 \/ p.prio[k] >= p.prio[b[k - 1]]
             THEN k ELSE b[k - 1]
  IN b[SOURCES]
best(p, c) ==
  LET b[k \in 0..SOURCES] ==
        IF k = 0 THEN 0
        ELSE LET bpri == IF b[k - 1] = 0 THEN 0 ELSE p.prio[b[k - 1]]
             IN IF k \in p.pend \cap p.en[c] /\ p.prio[k] > p.thresh[c] /\ p.prio[k] > bpri THEN k ELSE b[k - 1]
  IN b[SOURCES]

eip(p, c) == best(p, c) # 0

(* What the CPU does to the PLIC in a cycle: a write of a priority, an     *)
(* enable word or a threshold, a claim (a load of the claim register), or  *)
(* a complete (a store to it).                                             *)
NoAccess == [k |-> "none"]
Claim(c) == [k |-> "claim", c |-> c]
Complete(c, id) == [k |-> "complete", c |-> c, id |-> id]

claimed(p, a) == IF a.k = "claim" THEN best(p, a.c) ELSE 0

(* The gateway: an asserted source pends unless it is pending or in        *)
(* service; a claim moves it from pending to in service.  A complete in    *)
(* the same cycle is not seen yet.                                         *)
pendNextNoGate(p, a, src) == (p.pend \cup src) \ {claimed(p, a)}
pendNext(p, a, src) == (p.pend \cup (src \ p.infl)) \ {claimed(p, a)}
inflNext(p, a) ==
  (p.infl \ (IF a.k = "complete" THEN {a.id} ELSE {})) \cup ({claimed(p, a)} \ {0})

PlicEdge(p, a, src) ==
  [prio |-> IF a.k = "prio" THEN [p.prio EXCEPT ![a.id] = a.v] ELSE p.prio,
   en |-> IF a.k = "en" THEN [p.en EXCEPT ![a.c] = a.v] ELSE p.en,
   thresh |-> IF a.k = "thresh" THEN [p.thresh EXCEPT ![a.c] = a.v] ELSE p.thresh,
   pend |-> pendNext(p, a, src),
   infl |-> inflNext(p, a)]
=============================================================================
