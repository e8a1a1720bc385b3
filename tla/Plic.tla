-------------------------------- MODULE Plic --------------------------------
(***************************************************************************)
(* The PLIC between level-triggered devices and the interrupt handlers of  *)
(* its contexts, as the handlers of the repository use it: claim, serve    *)
(* the device, complete, and claim again until nothing is left (s_trap of  *)
(* sw/boot/kdemo.c).  All contexts share one hart, so one access happens   *)
(* per cycle, but a handler of context 0 (M mode) can interrupt the one of *)
(* context 1 (S mode) between any two of its accesses.                     *)
(***************************************************************************)
EXTENDS PlicSifive

CONSTANTS Prios, Threshs     \* the priorities and thresholds software writes

ASSUME PlicValues == Prios \subseteq Nat /\ Threshs \subseteq Nat

VARIABLES
  plic,
  src,      \* the devices that assert their line
  hold,     \* hold[c]: the source context c has claimed and not completed, or 0
  served    \* the contexts whose handler has served the device it holds

vars == <<plic, src, hold, served>>

Init == plic = PlicInit /\ src = {} /\ hold = [c \in Ctxs |-> 0] /\ served = {}

Edge(a) == plic' = PlicEdge(plic, a, src)

Assert(k) == k \notin src /\ src' = src \cup {k} /\ Edge(NoAccess) /\ UNCHANGED <<hold, served>>

(* A cycle without an access.                                              *)
Idle == Edge(NoAccess) /\ UNCHANGED <<src, hold, served>>

(* The handler of a lower context number is the more privileged one: while *)
(* it runs, the others wait.                                               *)
MayRun(c) == \A d \in Ctxs : d < c => hold[d] = 0

SetPrio(k, v) == Edge([k |-> "prio", id |-> k, v |-> v]) /\ UNCHANGED <<src, hold, served>>
SetEnable(c, s) == Edge([k |-> "en", c |-> c, v |-> s]) /\ UNCHANGED <<src, hold, served>>
SetThreshold(c, v) == Edge([k |-> "thresh", c |-> c, v |-> v]) /\ UNCHANGED <<src, hold, served>>

DoClaim(c) ==
  /\ MayRun(c) /\ hold[c] = 0
  /\ Edge(Claim(c)) /\ hold' = [hold EXCEPT ![c] = best(plic, c)] /\ UNCHANGED <<src, served>>

Serve(c) ==
  /\ MayRun(c) /\ hold[c] # 0 /\ c \notin served
  /\ src' = src \ {hold[c]} /\ served' = served \cup {c}
  /\ Edge(NoAccess) /\ UNCHANGED hold

DoCompleteForgets(c) ==
  /\ MayRun(c) /\ c \in served
  /\ Edge(NoAccess) /\ hold' = [hold EXCEPT ![c] = 0] /\ served' = served \ {c}
  /\ UNCHANGED src
DoComplete(c) ==
  /\ MayRun(c) /\ c \in served
  /\ Edge(Complete(c, hold[c])) /\ hold' = [hold EXCEPT ![c] = 0] /\ served' = served \ {c}
  /\ UNCHANGED src

Next ==
  \/ Idle
  \/ \E k \in Ids : Assert(k) \/ \E v \in Prios : SetPrio(k, v)
  \/ \E c \in Ctxs : \/ DoClaim(c) \/ Serve(c) \/ DoComplete(c)
                     \/ \E s \in SUBSET Ids : SetEnable(c, s)
                     \/ \E v \in Threshs : SetThreshold(c, v)

Spec == Init /\ [][Next]_vars

(* The clock runs.  The hart takes the interrupt a context raises and a    *)
(* handler goes on, though more privileged ones may delay it again and     *)
(* again: no device floods the hart, so the fairness is strong.            *)
LiveSpec ==
  Spec /\ WF_vars(Idle) /\ \A c \in Ctxs : SF_vars(eip(plic, c) /\ DoClaim(c)) /\ SF_vars(Serve(c)) /\ SF_vars(DoComplete(c))

-----------------------------------------------------------------------------
(* A source is served by one handler at a time: whatever software writes   *)
(* and whenever a handler is interrupted by that of the other context, a   *)
(* source in service is held by exactly one context, and it does not pend  *)
(* again before its complete.                                              *)
OneServer ==
  /\ \A c, d \in Ctxs : c # d /\ hold[c] # 0 => hold[c] # hold[d]
  /\ plic.infl = {hold[c] : c \in Ctxs} \ {0}
  /\ plic.pend \cap plic.infl = {}

(* A context is offered the right source, for every setting of priorities, *)
(* enables and thresholds: the highest priority above its threshold among  *)
(* those that pend for it, and the lowest ID of equals (the comment at     *)
(* plic_sifive.v:21).                                                      *)
Candidates(c) == {k \in plic.pend \cap plic.en[c] : plic.prio[k] > plic.thresh[c]}
BestIsHighest ==
  \A c \in Ctxs :
    IF Candidates(c) = {} THEN best(plic, c) = 0
    ELSE /\ best(plic, c) \in Candidates(c)
         /\ \A k \in Candidates(c) :
              \/ plic.prio[k] < plic.prio[best(plic, c)]
              \/ plic.prio[k] = plic.prio[best(plic, c)] /\ best(plic, c) <= k

(* No request is lost in the gateway, not even one raised while the        *)
(* source's last service is being completed: a source that from some time  *)
(* on is enabled in a context, above its threshold and with the highest    *)
(* priority of all, is served whenever it asserts its line.                *)
Wins(k, c) ==
  /\ k \in plic.en[c] /\ plic.prio[k] > plic.thresh[c]
  /\ \A j \in Ids \ {k} : plic.prio[j] < plic.prio[k]
Served == \A k \in Ids, c \in Ctxs : <>[]Wins(k, c) => (k \in src ~> k \notin src)
=============================================================================
