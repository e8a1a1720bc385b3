----------------------------- MODULE DeviceProofs ----------------------------
(***************************************************************************)
(* Proofs about what stands around the processor, section by section.      *)
(*  - The PLIC, for every number of sources and contexts and every setting *)
(*    of priorities, enables and thresholds: the arbitration loop of       *)
(*    plic_sifive.v is a recursive function; what it returns is proved by  *)
(*    induction on the loop counter, as a least counterexample.            *)
(*  - The UART's input, for every FIFO depth and trigger level: the        *)
(*    characters reach the program's line in the order they came.          *)
(*  - The lists and edit boxes of the configuration interface, for lists   *)
(*    and windows of every size and every scroll offset.                   *)
(***************************************************************************)
EXTENDS Plic, Serial, Scroll, SequenceTheorems, FiniteSetTheorems, WellFoundedInduction, TLAPS

\* A non-empty set of naturals has a least element.
LEMMA LeastElement ==
    ASSUME NEW T, T \subseteq Nat, T # {}
    PROVE  \E x \in T : \A y \in T : x <= y
<1> DEFINE lt == {p \in Nat \X Nat : p[1] < p[2]}
<1>1. IsWellFoundedOn(lt, Nat)
  BY NatLessThanWellFounded DEF OpToRel
<1>2. PICK x \in T : \A y \in T : ~(<<y, x>> \in lt)
  BY <1>1, WFMin, Zenon
<1>3. \A y \in T : ~(y < x)
  BY Zenon, <1>2
<1> QED
  BY <1>3

\* Induction over an interval 0 .. n, for a set rather than a predicate.
LEMMA IntervalInduction ==
    ASSUME NEW n \in Nat, NEW S, 0 \in S, \A k \in 1 .. n : k - 1 \in S => k \in S
    PROVE  0 .. n \subseteq S
<1> DEFINE T == (0 .. n) \ S
<1> SUFFICES ASSUME T # {} PROVE FALSE
  OBVIOUS
<1>0. T \subseteq Nat
  OBVIOUS
<1>1. PICK x \in T : \A y \in T : x <= y
  <2> HIDE DEF T
  <2> QED
    BY Zenon, <1>0, LeastElement
<1>2. x \in 1 .. n /\ x - 1 \in 0 .. n
  BY <1>1
<1>3. x - 1 \in S
  BY <1>1, <1>2
<1> QED
  BY <1>1, <1>2, <1>3
-----------------------------------------------------------------------------
(***************************************************************************)
(* The arbitration loop.                                                   *)
(***************************************************************************)

\* One turn of the loop: source k against the best source x so far.
Turn(p, c, k, x) ==
    LET bpri == IF x = 0 THEN 0 ELSE p.prio[x]
    IN IF k \in p.pend \cap p.en[c] /\ p.prio[k] > p.thresh[c] /\ p.prio[k] > bpri THEN k ELSE x

\* b holds the best source after each of the first n turns.
Loop(p, c, n, b) ==
    /\ b \in [0 .. n -> 0 .. n] /\ b[0] = 0
    /\ \A k \in 1 .. n : b[k] = Turn(p, c, k, b[k - 1])

LEMMA LoopRuns ==
    ASSUME NEW p, NEW c
    PROVE  \E b : Loop(p, c, SOURCES, b)
<1> DEFINE S == {n \in 0 .. SOURCES : \E b : Loop(p, c, n, b)}
<1>1. 0 \in S
  <2>1. Loop(p, c, 0, [k \in 0 .. 0 |-> 0])
    BY DEF Loop
  <2> QED
    BY <2>1, PlicAssumption
<1>2. ASSUME NEW n \in 1 .. SOURCES, n - 1 \in S PROVE n \in S
  <2>1. PICK b : Loop(p, c, n - 1, b)
    BY <1>2
  <2>2. n - 1 \in 0 .. n - 1 /\ b[n - 1] \in 0 .. n - 1
    BY <2>1, PlicAssumption DEF Loop
  <2>3. Turn(p, c, n, b[n - 1]) \in 0 .. n
    BY <2>2, PlicAssumption DEF Turn
  <2> DEFINE d == [k \in 0 .. n |-> IF k = n THEN Turn(p, c, n, b[n - 1]) ELSE b[k]]
  <2>4. d \in [0 .. n -> 0 .. n] /\ d[0] = 0
    BY <2>1, <2>3, PlicAssumption DEF Loop
  <2>5. \A k \in 1 .. n : d[k] = Turn(p, c, k, d[k - 1])
    <3> SUFFICES ASSUME NEW k \in 1 .. n PROVE d[k] = Turn(p, c, k, d[k - 1])
      BY Zenon
    <3>1. k - 1 \in 0 .. n /\ d[k - 1] = b[k - 1]
      BY PlicAssumption
    <3>2. k # n => k \in 1 .. n - 1 /\ d[k] = b[k]
      BY PlicAssumption
    <3>3. k = n => d[k] = Turn(p, c, n, b[n - 1])
      BY PlicAssumption
    <3> QED
      BY <2>1, <3>1, <3>2, <3>3 DEF Loop
  <2>6. Loop(p, c, n, d)
    BY Zenon, <2>4, <2>5 DEF Loop
  <2> QED
    BY <2>6
<1> HIDE DEF S
<1>3. 0 .. SOURCES \subseteq S
  BY <1>1, <1>2, IntervalInduction, PlicAssumption
<1> QED
  BY <1>3, PlicAssumption DEF S

\* best(p, c) is what the loop holds after its last turn.
LEMMA BestIsLoop ==
    ASSUME NEW p, NEW c
    PROVE  \E b : Loop(p, c, SOURCES, b) /\ best(p, c) = b[SOURCES]
<1> DEFINE Turns(b) == [k \in 0 .. SOURCES |-> IF k = 0 THEN 0 ELSE Turn(p, c, k, b[k - 1])]
           B == CHOOSE b : b = Turns(b)
<1>1. PICK b : Loop(p, c, SOURCES, b)
  BY LoopRuns
<1>2. b = Turns(b)
  BY <1>1, PlicAssumption DEF Loop
<1>3. B = Turns(B)
  BY Zenon, <1>2
<1>4. best(p, c) = B[SOURCES]
  BY DEF best, Turn
<1> HIDE DEF B
<1>5. \A k \in 0 .. SOURCES : B[k] = IF k = 0 THEN 0 ELSE Turn(p, c, k, B[k - 1])
  BY Zenon, <1>3
<1>6. B \in [0 .. SOURCES -> 0 .. SOURCES]
  <2> DEFINE S == {k \in 0 .. SOURCES : B[k] \in 0 .. SOURCES}
  <2>1. 0 \in S
    BY <1>5, PlicAssumption
  <2>2. ASSUME NEW k \in 1 .. SOURCES, k - 1 \in S PROVE k \in S
    BY <1>5, <2>2, PlicAssumption DEF Turn
  <2>3. 0 .. SOURCES \subseteq S
    <3> HIDE DEF S
    <3> QED
      BY <2>1, <2>2, IntervalInduction, PlicAssumption
  <2> QED
    BY <1>3, <2>3
<1>7. Loop(p, c, SOURCES, B)
  <2>1. B[0] = 0
    BY <1>5, PlicAssumption
  <2>2. \A k \in 1 .. SOURCES : B[k] = Turn(p, c, k, B[k - 1])
    BY <1>5, PlicAssumption
  <2> QED
    BY <1>6, <2>1, <2>2 DEF Loop
<1> QED
  BY <1>4, <1>7
-----------------------------------------------------------------------------
\* The registers of the PLIC and what its handlers hold.
PlicTypes ==
    /\ plic \in [prio : [Ids -> Nat], pend : SUBSET Ids, infl : SUBSET Ids,
                en : [Ctxs -> SUBSET Ids], thresh : [Ctxs -> Nat]]
    /\ src \subseteq Ids /\ hold \in [Ctxs -> Ids \cup {0}] /\ served \subseteq Ctxs

\* The loop of plic_sifive.v finds the highest priority above the
\* threshold, and the lowest ID of equals.
LEMMA Arbitration ==
    ASSUME PlicTypes, NEW c \in Ctxs
    PROVE  IF Candidates(c) = {} THEN best(plic, c) = 0
           ELSE /\ best(plic, c) \in Candidates(c)
                /\ \A k \in Candidates(c) :
                     \/ plic.prio[k] < plic.prio[best(plic, c)]
                     \/ plic.prio[k] = plic.prio[best(plic, c)] /\ best(plic, c) <= k
<1>1. PICK b : Loop(plic, c, SOURCES, b) /\ best(plic, c) = b[SOURCES]
  BY BestIsLoop
<1>t. /\ \A k \in Ids : plic.prio[k] \in Nat
      /\ plic.thresh[c] \in Nat /\ Candidates(c) \subseteq Ids
      /\ Ids = 1 .. SOURCES /\ SOURCES \in Nat
  BY PlicAssumption DEF PlicTypes, Candidates, Ids
\* After turn n the best source is right among the sources up to n.
<1> DEFINE Right(n) ==
             IF b[n] = 0 THEN \A k \in Candidates(c) : k > n
             ELSE /\ b[n] \in Candidates(c) /\ b[n] <= n
                  /\ \A k \in Candidates(c) :
                       k <= n => \/ plic.prio[k] < plic.prio[b[n]]
                                 \/ plic.prio[k] = plic.prio[b[n]] /\ b[n] <= k
           S == {n \in 0 .. SOURCES : Right(n)}
<1>2. 0 \in S
  BY <1>1, <1>t DEF Loop
<1>3. ASSUME NEW n \in 1 .. SOURCES, n - 1 \in S PROVE n \in S
  <2>1. b[n] = Turn(plic, c, n, b[n - 1]) /\ b[n - 1] \in 0 .. SOURCES
    BY <1>1, <1>t DEF Loop
  <2>2. n \in Ids /\ plic.prio[n] \in Nat /\ Right(n - 1)
    BY <1>3, <1>t
  <2>3. n \in Candidates(c) <=> n \in plic.pend \cap plic.en[c] /\ plic.prio[n] > plic.thresh[c]
    BY DEF Candidates
  <2>4. CASE b[n - 1] = 0
    <3>1. n \in Candidates(c) => b[n] = n
      BY <1>t, <2>1, <2>2, <2>3, <2>4 DEF Turn
    <3>2. n \notin Candidates(c) => b[n] = 0
      BY <2>1, <2>3, <2>4 DEF Turn
    <3>3. \A k \in Candidates(c) : k >= n
      BY <1>t, <2>2, <2>4
    <3> QED
      BY <1>t, <3>1, <3>2, <3>3
  <2>5. CASE b[n - 1] # 0
    <3>1. b[n - 1] \in Ids /\ plic.prio[b[n - 1]] \in Nat /\ b[n - 1] <= n - 1
      BY <1>t, <2>2, <2>5
    <3>2. CASE n \in Candidates(c) /\ plic.prio[n] > plic.prio[b[n - 1]]
      <4>1. b[n] = n
        BY <2>1, <2>3, <2>5, <3>2 DEF Turn
      <4>2. \A k \in Candidates(c) : k <= n - 1 => plic.prio[k] <= plic.prio[b[n - 1]]
        BY <1>t, <2>2, <2>5, <3>1
      <4>3. \A k \in Candidates(c) : k <= n => k = n \/ k <= n - 1
        BY <1>t
      <4>4. \A k \in Candidates(c) : k <= n => k = n \/ plic.prio[k] < plic.prio[n]
        BY <1>t, <2>2, <3>1, <3>2, <4>2, <4>3
      <4>5. n # 0 /\ Right(n)
        BY <1>t, <2>2, <3>2, <4>1, <4>4
      <4> QED
        BY <4>5
    <3>3. CASE ~(n \in Candidates(c) /\ plic.prio[n] > plic.prio[b[n - 1]])
      <4>1. b[n] = b[n - 1]
        BY <2>1, <2>3, <2>5, <3>3 DEF Turn
      <4> QED
        BY <1>t, <2>2, <2>5, <3>1, <3>3, <4>1
    <3> QED
      BY <3>2, <3>3
  <2> QED
    BY <2>4, <2>5
<1>4. 0 .. SOURCES \subseteq S
  <2> HIDE DEF S
  <2> QED
    BY Zenon, <1>2, <1>3, <1>t, IntervalInduction
<1>5. Right(SOURCES)
  BY <1>4, <1>t
<1> QED
  BY <1>1, <1>5, <1>t

LEMMA BestPends ==
    ASSUME PlicTypes, NEW c \in Ctxs
    PROVE  best(plic, c) \in plic.pend \cup {0} /\ best(plic, c) \in Ids \cup {0}
<1>1. best(plic, c) = 0 \/ best(plic, c) \in Candidates(c)
  BY Arbitration
<1> QED
  BY <1>1 DEF Candidates, PlicTypes
-----------------------------------------------------------------------------
(***************************************************************************)
(* The gateway.                                                            *)
(***************************************************************************)
PlicInv == PlicTypes /\ OneServer

\* The accesses of the handlers and of the software that sets the PLIC up.
Accesses ==
    {NoAccess} \cup {Claim(c) : c \in Ctxs} \cup {Complete(c, k) : c \in Ctxs, k \in Ids \cup {0}}
    \cup [k : {"prio"}, id : Ids, v : Nat] \cup [k : {"en"}, c : Ctxs, v : SUBSET Ids]
    \cup [k : {"thresh"}, c : Ctxs, v : Nat]

\* What an access does to the pending and the in-service bits.
LEMMA Gateway ==
    ASSUME PlicTypes, NEW a \in Accesses, Edge(a)
    PROVE  /\ plic' \in [prio : [Ids -> Nat], pend : SUBSET Ids, infl : SUBSET Ids,
                         en : [Ctxs -> SUBSET Ids], thresh : [Ctxs -> Nat]]
           /\ plic'.pend = pendNext(plic, a, src) /\ plic'.infl = inflNext(plic, a)
<1>1. plic'.pend = pendNext(plic, a, src) /\ plic'.infl = inflNext(plic, a)
  BY DEF Edge, PlicEdge
<1>2. claimed(plic, a) \in Ids \cup {0}
  <2>1. a.k = "claim" => a.c \in Ctxs
    BY DEF Accesses, NoAccess, Claim, Complete
  <2> QED
    BY <2>1, BestPends DEF claimed
<1>3. /\ a.k = "complete" => a.id \in Ids \cup {0}
      /\ a.k = "prio" => a.id \in Ids /\ a.v \in Nat
      /\ a.k = "en" => a.c \in Ctxs /\ a.v \in SUBSET Ids
      /\ a.k = "thresh" => a.c \in Ctxs /\ a.v \in Nat
  BY DEF Accesses, NoAccess, Claim, Complete
<1>4. pendNext(plic, a, src) \in SUBSET Ids /\ inflNext(plic, a) \in SUBSET Ids
  BY <1>2, <1>3 DEF pendNext, inflNext, PlicTypes
<1>5. /\ (IF a.k = "prio" THEN [plic.prio EXCEPT ![a.id] = a.v] ELSE plic.prio) \in [Ids -> Nat]
      /\ (IF a.k = "en" THEN [plic.en EXCEPT ![a.c] = a.v] ELSE plic.en) \in [Ctxs -> SUBSET Ids]
      /\ (IF a.k = "thresh" THEN [plic.thresh EXCEPT ![a.c] = a.v] ELSE plic.thresh) \in [Ctxs -> Nat]
  BY <1>3 DEF PlicTypes
<1> QED
  BY <1>1, <1>4, <1>5 DEF Edge, PlicEdge

\* An access that neither claims nor completes moves no source into or out
\* of service.
LEMMA QuietAccess ==
    ASSUME PlicInv, NEW a \in Accesses, a.k \notin {"claim", "complete"}, Edge(a),
           src' \subseteq Ids, hold' = hold, served' \subseteq Ctxs
    PROVE  PlicInv'
<1>1. claimed(plic, a) = 0
  BY DEF claimed
<1>2. plic'.infl = plic.infl /\ plic'.pend \subseteq plic.pend \cup (src \ plic.infl)
  BY Zenon, <1>1, Gateway DEF PlicInv, pendNext, inflNext
<1>3. PlicTypes'
  BY Gateway DEF PlicInv, PlicTypes
<1>4. OneServer'
  BY <1>2 DEF PlicInv, OneServer
<1> QED
  BY <1>3, <1>4 DEF PlicInv

LEMMA ClaimStep == ASSUME PlicInv, NEW c \in Ctxs, DoClaim(c) PROVE PlicInv'
<1> DEFINE best_c == best(plic, c)
<1>1. Claim(c) \in Accesses /\ claimed(plic, Claim(c)) = best_c /\ Claim(c).k = "claim"
  BY DEF Accesses, Claim, claimed
<1>2. best_c \in plic.pend \cup {0} /\ best_c \in Ids \cup {0}
  BY BestPends DEF PlicInv
<1> HIDE DEF best_c
<1>3. /\ plic'.pend = (plic.pend \cup (src \ plic.infl)) \ {best_c}
      /\ plic'.infl = plic.infl \cup ({best_c} \ {0})
  BY <1>1, Gateway DEF PlicInv, DoClaim, pendNext, inflNext
<1>4. hold[c] = 0 /\ hold' = [hold EXCEPT ![c] = best_c] /\ hold \in [Ctxs -> Ids \cup {0}]
  BY DEF DoClaim, best_c, PlicInv, PlicTypes
<1>5. PlicTypes'
  BY <1>1, <1>2, <1>4, Gateway DEF PlicInv, PlicTypes, DoClaim
<1>6. \A d \in Ctxs : hold'[d] = IF d = c THEN best_c ELSE hold[d]
  BY <1>4
<1>7. best_c # 0 => best_c \notin plic.infl
  BY <1>2 DEF PlicInv, OneServer, PlicTypes
<1>8. \A d, e \in Ctxs : d # e /\ hold'[d] # 0 => hold'[d] # hold'[e]
  BY <1>6, <1>7 DEF PlicInv, OneServer
<1>9. plic'.infl = {hold'[d] : d \in Ctxs} \ {0}
  BY <1>3, <1>4, <1>6 DEF PlicInv, OneServer
<1>10. plic'.pend \cap plic'.infl = {}
  BY <1>3 DEF PlicInv, OneServer
<1> QED
  BY <1>5, <1>8, <1>9, <1>10 DEF PlicInv, OneServer

LEMMA CompleteStep == ASSUME PlicInv, NEW c \in Ctxs, DoComplete(c) PROVE PlicInv'
<1> DEFINE a == Complete(c, hold[c])
<1>1. hold[c] \in Ids \cup {0} /\ hold \in [Ctxs -> Ids \cup {0}]
  BY DEF PlicInv, PlicTypes
<1>2. a \in Accesses /\ claimed(plic, a) = 0 /\ a.k = "complete" /\ a.id = hold[c]
  BY <1>1 DEF Accesses, Complete, claimed
<1> HIDE DEF a
<1>3. /\ plic'.pend \subseteq plic.pend \cup (src \ plic.infl)
      /\ plic'.infl = plic.infl \ {hold[c]}
  BY <1>2, Gateway DEF PlicInv, DoComplete, pendNext, inflNext, a
<1>4. hold' = [hold EXCEPT ![c] = 0]
  BY DEF DoComplete
<1>5. PlicTypes'
  BY <1>1, <1>2, <1>4, Gateway DEF PlicInv, PlicTypes, DoComplete, a
<1>6. \A d \in Ctxs : hold'[d] = IF d = c THEN 0 ELSE hold[d]
  BY <1>1, <1>4
<1>7. \A d, e \in Ctxs : d # e /\ hold'[d] # 0 => hold'[d] # hold'[e]
  BY <1>6 DEF PlicInv, OneServer
<1>8. plic'.infl = {hold'[d] : d \in Ctxs} \ {0}
  BY <1>3, <1>6 DEF PlicInv, OneServer
<1>9. plic'.pend \cap plic'.infl = {}
  BY <1>3 DEF PlicInv, OneServer
<1> QED
  BY <1>5, <1>7, <1>8, <1>9 DEF PlicInv, OneServer

LEMMA PlicStep == PlicInv /\ [Next]_vars => PlicInv'
<1> SUFFICES ASSUME PlicInv, [Next]_vars PROVE PlicInv'
  OBVIOUS
<1>t. src \subseteq Ids /\ served \subseteq Ctxs
  BY DEF PlicInv, PlicTypes
<1>n. NoAccess \in Accesses /\ NoAccess.k \notin {"claim", "complete"}
  BY DEF Accesses, NoAccess
<1>1. CASE Idle
  BY <1>1, <1>t, <1>n, QuietAccess DEF Idle
<1>2. ASSUME NEW k \in Ids, Assert(k) PROVE PlicInv'
  BY <1>2, <1>t, <1>n, QuietAccess DEF Assert
<1>3. ASSUME NEW k \in Ids, NEW x \in Prios, SetPrio(k, x) PROVE PlicInv'
  <2> DEFINE a == [k |-> "prio", id |-> k, v |-> x]
  <2>1. a \in Accesses /\ a.k \notin {"claim", "complete"}
    BY PlicValues DEF Accesses
  <2> QED
    BY <1>3, <1>t, <2>1, QuietAccess DEF SetPrio
<1>4. ASSUME NEW c \in Ctxs, NEW s \in SUBSET Ids, SetEnable(c, s) PROVE PlicInv'
  <2> DEFINE a == [k |-> "en", c |-> c, v |-> s]
  <2>1. a \in Accesses /\ a.k \notin {"claim", "complete"}
    BY DEF Accesses
  <2> QED
    BY <1>4, <1>t, <2>1, QuietAccess DEF SetEnable
<1>5. ASSUME NEW c \in Ctxs, NEW x \in Threshs, SetThreshold(c, x) PROVE PlicInv'
  <2> DEFINE a == [k |-> "thresh", c |-> c, v |-> x]
  <2>1. a \in Accesses /\ a.k \notin {"claim", "complete"}
    BY PlicValues DEF Accesses
  <2> QED
    BY <1>5, <1>t, <2>1, QuietAccess DEF SetThreshold
<1>6. ASSUME NEW c \in Ctxs, Serve(c) PROVE PlicInv'
  BY <1>6, <1>t, <1>n, QuietAccess DEF Serve
<1>7. CASE UNCHANGED vars
  BY <1>7 DEF vars, PlicInv, PlicTypes, OneServer
<1> QED
  BY <1>1, <1>2, <1>3, <1>4, <1>5, <1>6, <1>7, ClaimStep, CompleteStep DEF Next

LEMMA PlicStart == Init => PlicInv
BY DEF Init, PlicInit, PlicInv, PlicTypes, OneServer

\* The inductive invariant of the PLIC and its handlers.
LEMMA PlicInvHolds == Spec => []PlicInv
BY PlicStart, PlicStep, PTL DEF Spec

(***************************************************************************)
(* A source in service is held by exactly one handler and does not pend    *)
(* again before its complete (plic_sifive.v, s_trap of kdemo.c), for every *)
(* number of sources and contexts and however handlers interrupt each      *)
(* other.                                                                  *)
(***************************************************************************)
THEOREM OneServerEach == Spec => []OneServer
<1>1. PlicInv => OneServer
  BY DEF PlicInv
<1> QED
  BY <1>1, PlicInvHolds, PTL

(***************************************************************************)
(* The arbitration of plic_sifive.v offers a context the highest priority  *)
(* above its threshold, the lowest ID of equals, for every setting.        *)
(***************************************************************************)
THEOREM OffersTheHighest == Spec => []BestIsHighest
<1>1. PlicInv => BestIsHighest
  BY Arbitration DEF PlicInv, BestIsHighest
<1> QED
  BY <1>1, PlicInvHolds, PTL
-----------------------------------------------------------------------------
(***************************************************************************)
(* The stream of characters from the wire into the program's line.         *)
(***************************************************************************)
\* s holds, in order, the characters 1 to n but for those in d.
Whole(s, n, d) == InOrder(s) /\ {s[i] : i \in 1..Len(s)} = 1..n \ d

SerialTypes ==
    /\ u.dlab = FALSE /\ u.fifo_en = TRUE /\ u.rxq \in Seq(Nat)
    /\ got \in Seq(Nat) /\ chr \in Nat /\ sent \in Nat /\ dropped \subseteq 1..sent

\* The characters on their way, and what of them is in line.
Flow ==
    /\ Whole(got \o InHand \o u.rxq, sent, dropped)
    /\ at = "rbr" => u.rxq # <<>>
FlowInv == SerialTypes /\ Flow

Stored ==
    /\ line \in Seq(Nat)
    /\ Len(line) = IF Len(got) < LINE - 1 THEN Len(got) ELSE LINE - 1
    /\ at \in {"clear", "done"} => line # <<>>
    /\ \A i \in 1..Len(line) : line[i] = IF at = "done" /\ i = Len(line) THEN 0 ELSE got[i]
    /\ back \in {"wfi", "clear"} /\ (back = "clear" => line # <<>>)
SerialInv == FlowInv /\ Stored

\* What the hart does to the UART in a cycle.
BusOps == {NoBus, Rd("LSR"), Rd("RBR"), Wr("FCR", RxIrqFcr(1)), Wr("IER", {0})}

\* The FIFO after a cycle that leaves q of what was in it: q, or q and the
\* character that arrived, which is lost if the FIFO was full.
Fed(q) ==
    /\ u'.dlab = FALSE /\ u'.fifo_en = TRUE
    /\ \/ u'.rxq = q /\ sent' = sent /\ dropped' = dropped
       \/ u'.rxq = q /\ sent' = sent + 1 /\ dropped' = dropped \cup {sent + 1}
       \/ u'.rxq = Append(q, sent + 1) /\ sent' = sent + 1 /\ dropped' = dropped

LEMMA CycleFeeds ==
    ASSUME SerialTypes, NEW b \in BusOps, NEW a, Cycle(b, a)
    PROVE  Fed(Popped(u.rxq, b = Rd("RBR") /\ u.rxq # <<>>))
<1> DEFINE pop == b = Rd("RBR") /\ u.rxq # <<>>
           r(arrives) == IF arrives THEN Char(sent + 1, FALSE) ELSE NoChar
<1>1. PICK arrives \in BOOLEAN :
        /\ u' = UartEdge(u, b, r(arrives), FALSE)
        /\ sent' = IF arrives THEN sent + 1 ELSE sent
        /\ dropped' = IF overrun(u, r(arrives)) THEN dropped \cup {sent + 1} ELSE dropped
  BY Zenon DEF Cycle
<1>2. /\ b.k = "wr" /\ b.r = "FCR" => b.v.en = TRUE /\ b.v.clear = {}
      /\ ~(b.k = "wr" /\ b.r = "LCR")
      /\ b.k = "rd" /\ b.r = "RBR" <=> b = Rd("RBR")
  BY DEF BusOps, NoBus, Rd, Wr, RxIrqFcr
<1>3. pop_rx(u, b) <=> pop
  BY Zenon, <1>2 DEF pop_rx, SerialTypes
<1>4. ~clears(u, b, "rx")
  BY <1>2 DEF clears, SerialTypes
<1>5. u'.dlab = FALSE /\ u'.fifo_en = TRUE
  BY <1>1, <1>2 DEF UartEdge, SerialTypes
<1>6. u'.rxq = rxqNext(u, b, r(arrives))
  BY <1>1 DEF UartEdge
<1>7. CASE ~arrives
  <2>1. r(arrives) = NoChar /\ NoChar.v = FALSE
    BY <1>7 DEF NoChar
  <2>2. ~push_rx(u, NoChar) /\ ~overrun(u, NoChar)
    BY <2>1 DEF push_rx, overrun
  <2>3. u'.rxq = Popped(u.rxq, pop_rx(u, b))
    BY <1>4, <1>6, <2>1, <2>2, Zenon DEF rxqNext, Pushed
  <2>4. Popped(u.rxq, pop_rx(u, b)) = Popped(u.rxq, pop)
    BY <1>3, Zenon DEF Popped
  <2>5. sent' = sent /\ dropped' = dropped
    BY <1>1, <1>7, <2>1, <2>2, Zenon
  <2> QED
    BY <1>5, <2>3, <2>4, <2>5, Zenon DEF Fed
<1>8. CASE arrives
  <2> DEFINE c == Char(sent + 1, FALSE)
  <2>1. r(arrives) = c /\ c.v = TRUE /\ c.c = sent + 1
    BY <1>8 DEF Char
  <2> HIDE DEF c
  <2>2. push_rx(u, c) <=> ~overrun(u, c)
    BY <2>1, Zenon DEF push_rx, overrun
  <2>3. u'.rxq = Pushed(Popped(u.rxq, pop_rx(u, b)), push_rx(u, c), sent + 1)
    BY <1>4, <1>6, <2>1, Zenon DEF rxqNext
  <2>4. Popped(u.rxq, pop_rx(u, b)) = Popped(u.rxq, pop)
    BY <1>3, Zenon DEF Popped
  <2>5. sent' = sent + 1 /\ dropped' = IF overrun(u, c) THEN dropped \cup {sent + 1} ELSE dropped
    BY <1>1, <1>8, <2>1, Zenon
  <2> QED
    BY <1>5, <2>2, <2>3, <2>4, <2>5, Zenon DEF Fed, Pushed
<1> QED
  BY <1>7, <1>8

LEMMA SingletonSeq == \A c \in Nat : <<c>> \in Seq(Nat)
  OBVIOUS

\* A character more, stored or lost.
LEMMA OneMore ==
    ASSUME NEW s \in Seq(Nat), NEW n \in Nat, NEW d \in SUBSET (1..n), Whole(s, n, d)
    PROVE  Whole(Append(s, n + 1), n + 1, d) /\ Whole(s, n + 1, d \cup {n + 1})
<1> DEFINE t == Append(s, n + 1)
<1>1. t \in Seq(Nat) /\ Len(s) \in Nat /\ Len(t) = Len(s) + 1 /\ t[Len(s) + 1] = n + 1
      /\ \A i \in 1..Len(s) : t[i] = s[i]
  OBVIOUS
<1> HIDE DEF t
<1>2. \A i \in 1..Len(s) : s[i] \in 1..n
  BY DEF Whole
<1>3. {t[i] : i \in 1..Len(t)} = {s[i] : i \in 1..Len(s)} \cup {n + 1}
  <2>1. \A i \in 1..Len(t) : i = Len(s) + 1 \/ i \in 1..Len(s)
    BY <1>1
  <2>2. Len(s) + 1 \in 1..Len(t) /\ \A i \in 1..Len(s) : i \in 1..Len(t)
    BY <1>1
  <2> QED
    BY <1>1, <2>1, <2>2, Zenon
<1>4. InOrder(t)
  <2> SUFFICES ASSUME NEW i \in 1..Len(t), NEW j \in 1..Len(t), i < j PROVE t[i] < t[j]
    BY DEF InOrder
  <2>0. Len(t) = Len(s) + 1 /\ Len(s) \in Nat /\ i \in 1..Len(t) /\ j \in 1..Len(t)
    BY <1>1
  <2> HIDE DEF t
  <2>1. i \in 1..Len(s) /\ (j = Len(s) + 1 \/ j \in 1..Len(s))
    BY <2>0
  <2>2. CASE j = Len(s) + 1
    <3>1. t[j] = n + 1 /\ t[i] = s[i] /\ s[i] \in 1..n
      BY <1>1, <1>2, <2>1, <2>2, Zenon
    <3> QED
      BY <3>1
  <2>3. CASE j \in 1..Len(s)
    BY <1>1, <2>1, <2>3 DEF Whole, InOrder
  <2> QED
    BY <2>1, <2>2, <2>3
<1>5. (1..n \ d) \cup {n + 1} = 1..(n + 1) \ d /\ 1..(n + 1) \ (d \cup {n + 1}) = 1..n \ d
  OBVIOUS
<1> QED
  BY <1>3, <1>4, <1>5, Zenon DEF Whole, t

LEMMA Regroup ==
    \A a, b, c \in Seq(Nat) : (a \o b) \o c = a \o (b \o c)
<1> SUFFICES ASSUME NEW a \in Seq(Nat), NEW b \in Seq(Nat), NEW c \in Seq(Nat)
             PROVE  (a \o b) \o c = a \o (b \o c)
  OBVIOUS
<1>1. a \o b \in Seq(Nat) /\ b \o c \in Seq(Nat) /\ (a \o b) \o c \in Seq(Nat) /\ a \o (b \o c) \in Seq(Nat)
  OBVIOUS
<1> QED
  BY <1>1, SeqEqual

LEMMA AppendConcat ==
    ASSUME NEW l \in Seq(Nat), NEW q \in Seq(Nat), NEW c \in Nat
    PROVE  Append(l \o q, c) = l \o Append(q, c)
<1>1. <<c>> \in Seq(Nat) /\ l \o q \in Seq(Nat)
  BY SingletonSeq, ConcatProperties, Zenon
<1>2. Append(q, c) = q \o <<c>>
  BY AppendIsConcat, Zenon
<1>3. Append(l \o q, c) = (l \o q) \o <<c>>
  BY <1>1, AppendIsConcat, Zenon
<1>4. (l \o q) \o <<c>> = l \o (q \o <<c>>)
  BY <1>1, Regroup, Zenon
<1> QED
  BY <1>2, <1>3, <1>4, Zenon

\* A cycle that keeps what was stored and what waits leaves the stream whole.
LEMMA StreamKept ==
    ASSUME SerialTypes, NEW l \in Seq(Nat), NEW q \in Seq(Nat), Whole(l \o q, sent, dropped), Fed(q)
    PROVE  /\ Whole(l \o u'.rxq, sent', dropped') /\ u'.rxq \in Seq(Nat)
           /\ sent' \in Nat /\ dropped' \subseteq 1..sent'
<1>1. sent \in Nat /\ dropped \in SUBSET (1..sent) /\ l \o q \in Seq(Nat)
  BY DEF SerialTypes
<1>2. Whole(Append(l \o q, sent + 1), sent + 1, dropped) /\ Whole(l \o q, sent + 1, dropped \cup {sent + 1})
  BY <1>1, OneMore, Zenon
<1>3. Append(l \o q, sent + 1) = l \o Append(q, sent + 1)
  <2>1. sent + 1 \in Nat
    BY <1>1
  <2> QED
    BY <2>1, AppendConcat
<1>4. sent + 1 \in Nat /\ dropped \subseteq 1..(sent + 1) /\ dropped \cup {sent + 1} \subseteq 1..(sent + 1)
      /\ Append(q, sent + 1) \in Seq(Nat)
  BY <1>1
<1> QED
  BY <1>1, <1>2, <1>3, <1>4, Zenon DEF Fed

\* A cycle in which the hart reads no character leaves the FIFO to arrivals.
LEMMA QuietFeeds ==
    ASSUME SerialTypes, NEW b \in BusOps, b # Rd("RBR"), NEW a, Cycle(b, a)
    PROVE  Fed(u.rxq)
<1>1. Popped(u.rxq, b = Rd("RBR") /\ u.rxq # <<>>) = u.rxq
  BY Zenon DEF Popped
<1> QED
  BY <1>1, CycleFeeds, Zenon

\* A step in which the hart reads no character and stores none.
LEMMA QuietStep ==
    ASSUME FlowInv, NEW b \in BusOps, b # Rd("RBR"), NEW a, Cycle(b, a),
           UNCHANGED <<chr, got>>, InHand' = InHand, at' = "rbr" => u.rxq # <<>>
    PROVE  FlowInv'
<1> DEFINE l == got \o InHand
<1>1. l \in Seq(Nat) /\ l' = l /\ u.rxq \in Seq(Nat) /\ SerialTypes
  <2>1. InHand \in Seq(Nat)
    BY EmptySeq, SingletonSeq DEF InHand, FlowInv, SerialTypes
  <2> QED
    BY <2>1 DEF FlowInv, SerialTypes
<1>2. Whole(l \o u.rxq, sent, dropped)
  BY Zenon DEF FlowInv, Flow, Whole
<1>3. Fed(u.rxq)
  BY <1>1, QuietFeeds
<1> HIDE DEF l
<1>4. /\ Whole(l \o u'.rxq, sent', dropped') /\ u'.rxq \in Seq(Nat)
      /\ sent' \in Nat /\ dropped' \subseteq 1..sent'
  BY <1>1, <1>2, <1>3, StreamKept
<1>5. SerialTypes'
  BY <1>1, <1>3, <1>4 DEF SerialTypes, Fed
<1>6. u.rxq # <<>> => u'.rxq # <<>>
  BY <1>1, <1>3 DEF Fed, SerialTypes
<1>7. Whole(l' \o u'.rxq, sent', dropped')
  BY <1>1, <1>4, Zenon
<1>8. Flow'
  BY <1>6, <1>7, Zenon DEF Flow, Whole, l
<1> QED
  BY <1>5, <1>8 DEF FlowInv

LEMMA HeadTailConcat ==
    ASSUME NEW q \in Seq(Nat), q # <<>>
    PROVE  <<Head(q)>> \o Tail(q) = q
<1> DEFINE t == <<Head(q)>> \o Tail(q)
<1>1. Head(q) \in Nat /\ Tail(q) \in Seq(Nat) /\ Len(q) \in Nat \ {0} /\ Len(Tail(q)) = Len(q) - 1
      /\ \A i \in 1..Len(Tail(q)) : Tail(q)[i] = q[i + 1]
  OBVIOUS
<1>2. <<Head(q)>> \in Seq(Nat) /\ Len(<<Head(q)>>) = 1 /\ <<Head(q)>>[1] = q[1]
  BY <1>1, SingletonSeq
<1>3. /\ t \in Seq(Nat) /\ Len(t) = 1 + Len(Tail(q))
      /\ \A i \in 1..Len(t) : t[i] = IF i <= 1 THEN <<Head(q)>>[i] ELSE Tail(q)[i - 1]
  BY <1>1, <1>2, ConcatProperties
<1> HIDE DEF t
<1>4. Len(t) = Len(q) /\ \A i \in 1..Len(q) : t[i] = q[i]
  BY <1>1, <1>2, <1>3
<1>5. t = q
  BY <1>3, <1>4, SeqEqual
<1> QED
  BY <1>5 DEF t

\* ReadRbr moves the head of the FIFO into the handler's hand.
LEMMA ReadRbrStep ==
    ASSUME FlowInv, ReadRbr
    PROVE  FlowInv'
<1>1. /\ at = "rbr" /\ at' = "store" /\ Cycle(Rd("RBR"), NoAccess) /\ chr' = Head(u.rxq) /\ got' = got
  BY DEF ReadRbr, Do, text
<1>2. SerialTypes /\ u.rxq # <<>> /\ u.rxq \in Seq(Nat) /\ got \in Seq(Nat)
  BY <1>1 DEF FlowInv, Flow, SerialTypes
<1> DEFINE q == u.rxq
           l == got \o <<Head(q)>>
<1>3. Head(q) \in Nat /\ Tail(q) \in Seq(Nat) /\ <<Head(q)>> \in Seq(Nat) /\ <<Head(q)>> \o Tail(q) = q
  <2>1. Head(q) \in Nat /\ Tail(q) \in Seq(Nat)
    BY <1>2
  <2>2. <<Head(q)>> \in Seq(Nat)
    BY <2>1, SingletonSeq, Zenon
  <2>3. <<Head(q)>> \o Tail(q) = q
    BY <1>2, HeadTailConcat, Zenon
  <2> QED
    BY <2>1, <2>2, <2>3
<1>4. Fed(Tail(q))
  <2>1. Rd("RBR") \in BusOps
    BY DEF BusOps
  <2>2. Popped(q, Rd("RBR") = Rd("RBR") /\ q # <<>>) = Tail(q)
    BY <1>2, Zenon DEF Popped
  <2> QED
    BY <1>1, <1>2, <2>1, <2>2, CycleFeeds, Zenon
<1>5. l \o Tail(q) = (got \o InHand) \o q /\ l \in Seq(Nat)
  <2>1. l \o Tail(q) = got \o (<<Head(q)>> \o Tail(q))
    BY <1>2, <1>3, Regroup, Zenon
  <2>2. InHand = <<>>
    BY <1>1 DEF InHand
  <2>3. got \o <<>> = got
    BY <1>2, ConcatEmptySeq, Zenon
  <2>4. l \in Seq(Nat)
    BY <1>2, <1>3
  <2> QED
    BY <1>3, <2>1, <2>2, <2>3, <2>4, Zenon
<1>6. Whole(l \o Tail(q), sent, dropped)
  BY <1>5, Zenon DEF FlowInv, Flow, Whole
<1>7. /\ Whole(l \o u'.rxq, sent', dropped') /\ u'.rxq \in Seq(Nat)
      /\ sent' \in Nat /\ dropped' \subseteq 1..sent'
  BY <1>2, <1>3, <1>4, <1>5, <1>6, StreamKept, Zenon
<1>8. SerialTypes'
  BY <1>1, <1>2, <1>3, <1>4, <1>7 DEF SerialTypes, Fed
<1>9. InHand' = <<Head(q)>> /\ at' # "rbr"
  BY <1>1 DEF InHand
<1>10. Flow'
  BY <1>1, <1>7, <1>9, Zenon DEF Flow, Whole
<1> QED
  BY <1>8, <1>10 DEF FlowInv

\* StoreChr moves the character from the hand to the got.
LEMMA StoreChrStep ==
    ASSUME FlowInv, StoreChr
    PROVE  FlowInv'
<1>1. /\ at = "store" /\ at' = "lsr" /\ Cycle(NoBus, NoAccess) /\ chr' = chr /\ got' = Append(got, chr)
  BY DEF StoreChr, Do
<1>2. SerialTypes /\ u.rxq \in Seq(Nat) /\ got \in Seq(Nat) /\ chr \in Nat
  BY DEF FlowInv, SerialTypes
<1>3. Fed(u.rxq)
  <2>1. NoBus \in BusOps /\ NoBus # Rd("RBR")
    BY DEF BusOps, NoBus, Rd
  <2> QED
    BY <1>1, <1>2, <2>1, QuietFeeds, Zenon
<1> DEFINE l == Append(got, chr)
<1>4. l = got \o InHand /\ l \in Seq(Nat)
  <2>1. Append(got, chr) = got \o <<chr>> /\ l \in Seq(Nat)
    BY <1>2, AppendIsConcat, AppendProperties, Zenon
  <2> QED
    BY <1>1, <2>1, Zenon DEF InHand
<1>5. Whole(l \o u.rxq, sent, dropped)
  BY <1>4, Zenon DEF FlowInv, Flow, Whole
<1>6. /\ Whole(l \o u'.rxq, sent', dropped') /\ u'.rxq \in Seq(Nat)
      /\ sent' \in Nat /\ dropped' \subseteq 1..sent'
  BY <1>2, <1>3, <1>4, <1>5, StreamKept, Zenon
<1>7. SerialTypes'
  BY <1>1, <1>2, <1>3, <1>4, <1>6 DEF SerialTypes, Fed
<1>8. InHand' = <<>> /\ at' # "rbr" /\ got' \o InHand' = l
  <2>1. InHand' = <<>> /\ at' # "rbr"
    BY <1>1 DEF InHand
  <2>2. l \o <<>> = l
    BY <1>4, ConcatEmptySeq, Zenon
  <2> QED
    BY <1>1, <2>1, <2>2, Zenon
<1>9. Flow'
  BY <1>6, <1>8, Zenon DEF Flow, Whole
<1> QED
  BY <1>7, <1>9 DEF FlowInv

LEMMA FlowNext == FlowInv /\ Stored /\ [SerialNext]_serialVars => FlowInv'
<1> SUFFICES ASSUME FlowInv, Stored, [SerialNext]_serialVars PROVE FlowInv'
  OBVIOUS
<1>1. /\ {NoBus, Rd("LSR"), Wr("FCR", RxIrqFcr(1)), Wr("IER", {0})} \subseteq BusOps
      /\ NoBus # Rd("RBR") /\ Rd("LSR") # Rd("RBR")
      /\ Wr("FCR", RxIrqFcr(1)) # Rd("RBR") /\ Wr("IER", {0}) # Rd("RBR")
  BY DEF BusOps, NoBus, Rd, Wr
<1>2. ASSUME NEW here, NEW b \in BusOps, b # Rd("RBR"), NEW a, NEW next, Do(here, b, a, next),
             here # "store", next # "store", next = "rbr" => u.rxq # <<>>, UNCHANGED <<chr, got>>
      PROVE  FlowInv'
  <2>1. Cycle(b, a) /\ at = here /\ at' = next
    BY <1>2 DEF Do
  <2>2. InHand' = InHand
    BY <1>2, <2>1 DEF InHand
  <2> QED
    BY <1>2, <2>1, <2>2, QuietStep
<1>3. CASE Setup
  <2>1. UNCHANGED <<chr, got>>
    BY <1>3 DEF Setup, text
  <2>2. CASE Do("prio", NoBus, [k |-> "prio", id |-> UART_IRQ, v |-> 1], "enable")
    BY <1>1, <1>2, <2>1, <2>2
  <2>3. CASE Do("enable", NoBus, [k |-> "en", c |-> S_CTX, v |-> {UART_IRQ}], "thresh")
    BY <1>1, <1>2, <2>1, <2>3
  <2>4. CASE Do("thresh", NoBus, [k |-> "thresh", c |-> S_CTX, v |-> 0], "fcr")
    BY <1>1, <1>2, <2>1, <2>4
  <2>5. CASE Do("fcr", Wr("FCR", RxIrqFcr(1)), NoAccess, "ier")
    BY <1>1, <1>2, <2>1, <2>5
  <2>6. CASE Do("ier", Wr("IER", {0}), NoAccess, "wfi")
    BY <1>1, <1>2, <2>1, <2>6
  <2> QED
    BY <1>3, <2>2, <2>3, <2>4, <2>5, <2>6, Zenon DEF Setup
<1>4. CASE Wait
  <2> DEFINE next == IF Typed THEN "clear" ELSE "wfi"
  <2>1. Do("wfi", NoBus, NoAccess, next) /\ UNCHANGED <<chr, got>>
    BY <1>4, Zenon DEF Wait, text
  <2>2. next # "store" /\ next # "rbr"
    OBVIOUS
  <2> HIDE DEF next
  <2> QED
    BY <1>1, <1>2, <2>1, <2>2
<1>5. CASE Interrupt
  <2>1. UNCHANGED <<chr, got>>
    BY <1>5 DEF Interrupt, text
  <2>2. CASE Do("wfi", NoBus, NoAccess, "claim")
    BY <1>1, <1>2, <2>1, <2>2
  <2>3. CASE Do("clear", NoBus, NoAccess, "claim")
    BY <1>1, <1>2, <2>1, <2>3
  <2> QED
    BY <1>5, <2>2, <2>3, Zenon DEF Interrupt
<1>13. CASE Leave
  BY <1>1, <1>2, <1>13 DEF Leave
<1>6. CASE ReadClaim
  <2> DEFINE next == IF id' = 0 THEN back ELSE IF id' = UART_IRQ THEN "lsr" ELSE "complete"
  <2>1. Do("claim", NoBus, Claim(S_CTX), next) /\ UNCHANGED <<chr, got>>
    BY <1>6, Zenon DEF ReadClaim, text
  <2>2. next # "store" /\ next # "rbr"
    BY DEF Stored
  <2> HIDE DEF next
  <2> QED
    BY <1>1, <1>2, <2>1, <2>2
<1>7. CASE ReadLsr
  <2> DEFINE next == IF lsr(u).dr THEN "rbr" ELSE "complete"
  <2>1. Do("lsr", Rd("LSR"), NoAccess, next) /\ UNCHANGED <<chr, got>>
    BY <1>7, Zenon DEF ReadLsr, text
  <2>2. next # "store" /\ (next = "rbr" => u.rxq # <<>>)
    BY DEF lsr
  <2> HIDE DEF next
  <2> QED
    BY <1>1, <1>2, <2>1, <2>2
<1>8. CASE ReadRbr
  BY <1>8, ReadRbrStep
<1>9. CASE StoreChr
  BY <1>9, StoreChrStep
<1>10. CASE WriteComplete
  BY <1>1, <1>2, <1>10 DEF WriteComplete, text
<1>11. CASE Other
  <2>1. Cycle(NoBus, NoAccess) /\ UNCHANGED <<at, chr, got>>
    BY <1>11 DEF Other, text
  <2>2. InHand' = InHand /\ (at' = "rbr" => u.rxq # <<>>)
    BY <2>1 DEF InHand, FlowInv, Flow
  <2> QED
    BY <1>1, <2>1, <2>2, QuietStep
<1>12. CASE UNCHANGED serialVars
  BY <1>12 DEF serialVars, text, FlowInv, SerialTypes, Flow, InHand
<1> QED
  BY <1>3, <1>4, <1>5, <1>6, <1>7, <1>8, <1>9, <1>10, <1>11, <1>12, <1>13,
     Zenon DEF SerialNext, Hart

\* A step that stores nothing and does not leave the program's loop.
LEMMA StoredKept ==
    ASSUME Stored, UNCHANGED <<line, got>>, (at # "done" /\ at' # "done") \/ at' = at,
           at' = "clear" => line # <<>>,
           back' \in {"wfi", "clear"} /\ (back' = "clear" => line # <<>>)
    PROVE  Stored'
BY DEF Stored

LEMMA StoredNext == FlowInv /\ Stored /\ [SerialNext]_serialVars => Stored'
<1> SUFFICES ASSUME FlowInv, Stored, [SerialNext]_serialVars PROVE Stored'
  OBVIOUS
<1>0. back \in {"wfi", "clear"} /\ (back = "clear" => line # <<>>) /\ line \in Seq(Nat) /\ got \in Seq(Nat)
      /\ chr \in Nat /\ LINE \in Nat \ {0}
  BY LineSizeAssumption DEF Stored, FlowInv, SerialTypes
<1>1. CASE Setup
  BY <1>0, <1>1, StoredKept DEF Setup, Do, text
<1>2. CASE Wait
  <2>1. at = "wfi" /\ at' \in {"clear", "wfi"} /\ (at' = "clear" => line # <<>>) /\ UNCHANGED <<back, line, got>>
    BY <1>2 DEF Wait, Do, text, Typed
  <2> QED
    BY <1>0, <2>1, StoredKept
<1>3. CASE Interrupt
  <2>1. at \in {"wfi", "clear"} /\ at' = "claim" /\ back' = at /\ UNCHANGED <<line, got>>
    BY <1>3 DEF Interrupt, Do, text
  <2>2. at = "clear" => line # <<>>
    BY DEF Stored
  <2> QED
    BY <2>1, <2>2, StoredKept
<1>4. CASE Leave
  <2>1. /\ at = "clear" /\ at' = "done" /\ UNCHANGED <<back, got>>
        /\ line' = [line EXCEPT ![Len(line)] = 0] /\ line # <<>>
    BY <1>4 DEF Leave, Do, Stored
  <2>2. /\ line' \in Seq(Nat) /\ Len(line') = Len(line) /\ Len(line) \in 1..Len(line) /\ line' # <<>>
        /\ \A i \in 1..Len(line) : line'[i] = IF i = Len(line) THEN 0 ELSE line[i]
    BY <1>0, <2>1
  <2>3. \A i \in 1..Len(line) : line[i] = got[i]
    BY <2>1 DEF Stored
  <2> QED
    BY <1>0, <2>1, <2>2, <2>3 DEF Stored
<1>5. CASE ReadClaim
  <2>1. at = "claim" /\ at' \in {back, "lsr", "complete"} /\ UNCHANGED <<back, line, got>>
    BY <1>5 DEF ReadClaim, Do, text
  <2> QED
    BY <1>0, <2>1, StoredKept
<1>6. CASE ReadLsr
  <2>1. at = "lsr" /\ at' \in {"rbr", "complete"} /\ UNCHANGED <<back, line, got>>
    BY <1>6 DEF ReadLsr, Do, text
  <2> QED
    BY <1>0, <2>1, StoredKept
<1>7. CASE ReadRbr
  BY <1>0, <1>7, StoredKept DEF ReadRbr, Do, text
<1>8. CASE StoreChr
  <2>1. /\ at = "store" /\ at' = "lsr" /\ UNCHANGED back /\ got' = Append(got, chr)
        /\ line' = IF Len(line) < LINE - 1 THEN Append(line, chr) ELSE line
    BY <1>8 DEF StoreChr, Do
  <2>2. /\ Len(line) = IF Len(got) < LINE - 1 THEN Len(got) ELSE LINE - 1
        /\ \A i \in 1..Len(line) : line[i] = got[i]
    BY <2>1 DEF Stored
  <2>3. /\ Len(got) \in Nat /\ Len(line) \in Nat /\ Len(got') = Len(got) + 1 /\ got'[Len(got) + 1] = chr
        /\ \A i \in 1..Len(got) : got'[i] = got[i]
    BY <1>0, <2>1
  <2>4. CASE Len(line) < LINE - 1
    <3>0. line' = Append(line, chr)
      BY <2>1, <2>4
    <3>1. /\ line' \in Seq(Nat) /\ Len(line') = Len(line) + 1 /\ line' # <<>>
          /\ line'[Len(line) + 1] = chr /\ \A i \in 1..Len(line) : line'[i] = line[i]
      <4>1. line \in Seq(Nat) /\ chr \in Nat
        BY <1>0
      <4>2. /\ Append(line, chr) \in Seq(Nat) /\ Len(Append(line, chr)) = Len(line) + 1
            /\ Append(line, chr) # <<>> /\ Append(line, chr)[Len(line) + 1] = chr
            /\ \A i \in 1..Len(line) : Append(line, chr)[i] = line[i]
        BY <4>1, AppendProperties
      <4> QED
        BY <3>0, <4>2, Zenon
    <3>2. Len(line) = Len(got)
      BY <1>0, <2>2, <2>3, <2>4
    <3>3. \A i \in 1..Len(line') : line'[i] = got'[i]
      <4>1. \A i \in 1..(Len(got) + 1) : i = Len(got) + 1 \/ i \in 1..Len(got)
        BY <2>3
      <4> QED
        BY <2>2, <2>3, <3>1, <3>2, <4>1, Zenon
    <3>4. Len(line') = IF Len(got') < LINE - 1 THEN Len(got') ELSE LINE - 1
      BY <1>0, <2>3, <2>4, <3>1, <3>2
    <3> QED
      BY <1>0, <2>1, <3>1, <3>3, <3>4 DEF Stored
  <2>5. CASE ~(Len(line) < LINE - 1)
    <3>1. line' = line /\ Len(line) = LINE - 1 /\ Len(got) >= LINE - 1
      BY <1>0, <2>1, <2>2, <2>3, <2>5
    <3>2. \A i \in 1..Len(line') : line'[i] = got'[i]
      BY <1>0, <2>2, <2>3, <3>1
    <3>3. Len(line') = IF Len(got') < LINE - 1 THEN Len(got') ELSE LINE - 1
      BY <1>0, <2>3, <3>1
    <3> QED
      BY <1>0, <2>1, <3>1, <3>2, <3>3 DEF Stored
  <2> QED
    BY <2>4, <2>5
<1>9. CASE WriteComplete
  BY <1>0, <1>9, StoredKept DEF WriteComplete, Do, text
<1>10. CASE Other
  <2>1. UNCHANGED <<at, back, line, got>>
    BY <1>10 DEF Other, text
  <2> QED
    BY <1>0, <2>1, StoredKept DEF Stored
<1>11. CASE UNCHANGED serialVars
  <2>1. UNCHANGED <<at, back, line, got>>
    BY <1>11 DEF serialVars, text
  <2> QED
    BY <1>0, <2>1, StoredKept DEF Stored
<1> QED
  BY <1>1, <1>2, <1>3, <1>4, <1>5, <1>6, <1>7, <1>8, <1>9, <1>10, <1>11, Zenon DEF SerialNext, Hart

LEMMA SerialInvInit == SerialInit => SerialInv
<1> SUFFICES ASSUME SerialInit PROVE SerialInv
  OBVIOUS
<1>1. u.dlab = FALSE /\ u.fifo_en = TRUE /\ u.rxq = <<>>
  BY DEF SerialInit, UartInit
<1>2. line = <<>> /\ got = <<>> /\ sent = 0 /\ dropped = {} /\ chr = 0 /\ at = "prio" /\ back = "wfi"
  BY DEF SerialInit
<1>3. SerialTypes
  BY <1>1, <1>2, EmptySeq DEF SerialTypes
<1>4. Flow
  <2>1. (got \o InHand) \o u.rxq = <<>>
    BY <1>1, <1>2 DEF InHand
  <2>2. 1..Len(<<>>) = {} /\ 1..sent \ dropped = {}
    BY <1>2
  <2>3. at # "rbr"
    BY <1>2
  <2> QED
    BY <2>1, <2>2, <2>3, Zenon DEF Flow, Whole, InOrder
<1>5. Stored
  BY <1>2, LineSizeAssumption DEF Stored
<1> QED
  BY <1>3, <1>4, <1>5 DEF SerialInv, FlowInv

(* No character is lost on its way from the wire to the handler but those  *)
(* a full FIFO drops, and none overtakes another: whenever they arrive,    *)
(* before, while or after the interrupt is set up, whatever the FIFO's     *)
(* depth, the trigger levels, the PLIC's sources, where the carriage       *)
(* returns are and how many characters are sent.  What the program finds   *)
(* in line is the first LINE - 1 of them, for every size of line.          *)
THEOREM StreamStaysIntact == SerialSpec => []StreamIntact
<1>1. SerialInit => SerialInv
  BY SerialInvInit
<1>2. SerialInv /\ [SerialNext]_serialVars => SerialInv'
  BY FlowNext, StoredNext DEF SerialInv
<1>3. SerialInv => StreamIntact
  BY Zenon DEF SerialInv, FlowInv, Flow, Whole, Stored, StreamIntact
<1> QED
  BY <1>1, <1>2, <1>3, PTL DEF SerialSpec

-----------------------------------------------------------------------------
(* The configuration interface: Scroll.                                    *)

LEMMA MaxScroll == ASSUME NEW n \in Pos, NEW h \in Pos
                   PROVE max_scroll(n, h) \in Nat /\ max_scroll(n, h) <= n - 1 /\ n <= max_scroll(n, h) + h
  BY DEF max_scroll, Larger, Pos

(* One step down or up keeps the selection on the screen: the list scrolls   *)
(* with it at the edge, at the latest.                                       *)
LEMMA StepsShow ==
  ASSUME SCROLL_OFFSET \in Nat, NEW w \in Views, Shows(w)
  PROVE /\ select_next_menu_entry(w) \in Views /\ Shows(select_next_menu_entry(w))
        /\ select_prev_menu_entry(w) \in Views /\ Shows(select_prev_menu_entry(w))
<1>1. max_scroll(w.n, w.h) \in Nat /\ w.n <= max_scroll(w.n, w.h) + w.h
  BY MaxScroll DEF Views
<1>2. select_next_menu_entry(w) \in Views /\ Shows(select_next_menu_entry(w))
  <2>1. w.n \in Nat /\ w.h \in Nat /\ w.sel \in Nat /\ w.scroll \in Nat /\ w.n \in Pos /\ w.h \in Pos
        /\ w.sel < w.n /\ w.scroll <= w.sel /\ w.sel < w.scroll + w.h
    BY DEF Views, Shows, Pos
  <2>2. CASE w.sel < w.n - 1
    <3> DEFINE s == IF NearEnd(w) THEN w.scroll + 1 ELSE w.scroll
               m == max_scroll(w.n, w.h)
    <3>1. s \in Nat /\ s <= w.sel + 1 /\ w.sel + 1 < s + w.h
      <4>1. CASE NearEnd(w)
        BY <2>1, <4>1
      <4>2. CASE ~NearEnd(w)
        <5>1. w.sel + 1 < w.scroll + w.h - SCROLL_OFFSET \/ w.scroll >= m
          BY <1>1, <2>1, <4>2 DEF NearEnd
        <5> HIDE DEF m
        <5> QED
          BY <1>1, <2>1, <2>2, <4>2, <5>1 DEF m
      <4> QED
        BY <4>1, <4>2
    <3>2. select_next_menu_entry(w) = View(w.n, w.h, w.sel + 1, s)
      BY <2>2 DEF select_next_menu_entry, StepDown
    <3> HIDE DEF s
    <3> QED
      BY <2>1, <2>2, <3>1, <3>2 DEF View, Views, Shows
  <2>3. CASE ~(w.sel < w.n - 1)
    BY <2>3 DEF select_next_menu_entry
  <2> QED
    BY <2>2, <2>3
<1>3. select_prev_menu_entry(w) \in Views /\ Shows(select_prev_menu_entry(w))
  BY DEF select_prev_menu_entry, StepUp, NearTop, Larger, View, Views, Shows, Pos
<1> QED BY <1>2, <1>3

LEMMA PagesShow ==
  ASSUME SCROLL_OFFSET \in Nat, NEW w \in Views, Shows(w)
  PROVE page_down(w) \in Views /\ Shows(page_down(w)) /\ page_up(w) \in Views /\ Shows(page_up(w))
<1> DEFINE d1 == select_next_menu_entry(w)  d2 == select_next_menu_entry(d1)  d3 == select_next_menu_entry(d2)
           d4 == select_next_menu_entry(d3) d5 == select_next_menu_entry(d4)
           u1 == select_prev_menu_entry(w)  u2 == select_prev_menu_entry(u1)  u3 == select_prev_menu_entry(u2)
           u4 == select_prev_menu_entry(u3) u5 == select_prev_menu_entry(u4)
<1>1. d1 \in Views /\ Shows(d1) /\ u1 \in Views /\ Shows(u1) BY StepsShow
<1> HIDE DEF d1, u1
<1>2. d2 \in Views /\ Shows(d2) /\ u2 \in Views /\ Shows(u2) BY <1>1, StepsShow
<1> HIDE DEF d2, u2
<1>3. d3 \in Views /\ Shows(d3) /\ u3 \in Views /\ Shows(u3) BY <1>2, StepsShow
<1> HIDE DEF d3, u3
<1>4. d4 \in Views /\ Shows(d4) /\ u4 \in Views /\ Shows(u4) BY <1>3, StepsShow
<1> HIDE DEF d4, u4
<1>5. d5 \in Views /\ Shows(d5) /\ u5 \in Views /\ Shows(u5) BY <1>4, StepsShow
<1> HIDE DEF d5, u5
<1>6. page_down(w) = select_next_menu_entry(d5) /\ page_up(w) = select_prev_menu_entry(u5)
  BY DEF page_down, page_up, Thrice, d1, d2, d3, d4, d5, u1, u2, u3, u4, u5
<1> QED BY <1>5, <1>6, StepsShow

LEMMA CenterShows ==
  ASSUME NEW w \in Views, w.sel < w.n
  PROVE center_vertically(w) \in Views /\ Shows(center_vertically(w))
<1> DEFINE m == max_scroll(w.n, w.h)
           half == w.h \div 2
           s == Smaller(Larger(w.sel - half, 0), m)
<1>0. w.n \in Pos /\ w.h \in Pos /\ w.sel \in Nat
  BY DEF Views
<1>1. m \in Nat /\ w.n <= m + w.h
  BY <1>0, MaxScroll
<1>2. half \in Nat /\ half < w.h
  BY <1>0 DEF Pos
<1> HIDE DEF m, half
<1>3. s \in Nat /\ s <= w.sel /\ w.sel < s + w.h
  BY <1>0, <1>1, <1>2 DEF Larger, Smaller, Pos
<1> HIDE DEF s
<1>4. center_vertically(w) = [n |-> w.n, h |-> w.h, sel |-> w.sel, scroll |-> s]
  BY DEF center_vertically, View, s, m, half
<1> QED BY <1>0, <1>3, <1>4 DEF Views, Shows

LEMMA ResizeShows ==
  ASSUME NEW w \in Views, Shows(w), NEW h \in Pos
  PROVE resize(w, h) \in Views /\ Shows(resize(w, h))
  BY DEF resize, View, Views, Shows, Pos

LEMMA RowShows ==
  ASSUME NEW w \in Views, w.sel < w.n, NEW row \in 0..(w.h - 1)
  PROVE to_row(w, row) \in Views /\ Shows(to_row(w, row))
  BY DEF to_row, Larger, View, Views, Shows, Pos

LEMMA OtherListIsView ==
  ASSUME v \in Views, AnotherList
  PROVE LET w == OtherList(v'.n, v'.sel) IN w \in Views /\ w.sel < w.n /\ w.h = v.h
  BY DEF AnotherList, OtherList, View, Views, Pos

(* Whatever the user does, the main list has a selected entry, and it is on  *)
(* the screen: every _select_*_menu_entry(), _update_menu(), _enter_menu(),  *)
(* _leave_menu(), _jump_to() and _resize_main() keeps it there, for lists    *)
(* and windows of every size and every _SCROLL_OFFSET.                       *)
THEOREM SelectionStaysInView == ASSUME SCROLL_OFFSET \in Nat PROVE ListSpec => []InView
<1>1. ListInit => InView
  BY DEF ListInit, InView, Views, Shows, Pos
<1>2. InView /\ [ListNext]_v => InView'
  <2> SUFFICES ASSUME InView, [ListNext]_v PROVE InView'
    OBVIOUS
  <2>0. v \in Views /\ Shows(v)
    BY DEF InView
  <2>1. CASE ListKey
    <3>1. select_last_menu_entry(v) \in Views /\ Shows(select_last_menu_entry(v))
      <4>1. LET m == max_scroll(v.n, v.h) IN m \in Nat /\ m <= v.n - 1 /\ v.n <= m + v.h
        BY <2>0, MaxScroll DEF Views
      <4> QED BY <2>0, <4>1 DEF select_last_menu_entry, View, Views, Shows, Pos
    <3>2. select_first_menu_entry(v) \in Views /\ Shows(select_first_menu_entry(v))
      BY <2>0 DEF select_first_menu_entry, View, Views, Shows, Pos
    <3> QED BY <2>0, <2>1, <3>1, <3>2, StepsShow, PagesShow DEF ListKey, InView
  <2>2. CASE Open
    BY <2>2 DEF Open, View, InView, Views, Shows, Pos
  <2>3. CASE Keep
    <3>1. PICK row \in 0..(v.h - 1) : v' = to_row(OtherList(v'.n, v'.sel), row)
      BY <2>3 DEF Keep
    <3>2. AnotherList
      BY <2>3 DEF Keep
    <3> QED BY <2>0, <3>1, <3>2, OtherListIsView, RowShows DEF InView
  <2>4. CASE Jump
    <3>1. AnotherList /\ v'.h \in Pos /\ v' = resize(center_vertically(OtherList(v'.n, v'.sel)), v'.h)
      BY <2>4 DEF Jump
    <3> QED BY <2>0, <3>1, OtherListIsView, CenterShows, ResizeShows DEF InView
  <2>5. CASE Resize
    BY <2>0, <2>5, ResizeShows DEF Resize, InView
  <2>6. CASE UNCHANGED v
    BY <2>6 DEF InView
  <2> QED BY <2>1, <2>2, <2>3, <2>4, <2>5, <2>6 DEF ListNext
<1> QED BY <1>1, <1>2, PTL DEF ListSpec

(* The copies of the moves that the jump-to dialog has for its matches do    *)
(* what the main list's do, as long as there is a match; with none, they     *)
(* select entries that do not exist.                                         *)
THEOREM MatchesMoveLikeEntries ==
  ASSUME NEW w \in Views, Shows(w)
  PROVE select_next_match(w) = select_next_menu_entry(w) /\ select_prev_match(w) = select_prev_menu_entry(w)
  BY DEF select_next_match, select_next_menu_entry, select_prev_match, select_prev_menu_entry, View, Views, Shows, Pos

(* After every key the cursor of an edit box is on the screen, wherever the  *)
(* box was scrolled to before (a resized window leaves it anywhere), as soon *)
(* as the box is wider than _SCROLL_OFFSET.                                  *)
THEOREM CursorStaysInBox ==
  ASSUME SCROLL_OFFSET \in Nat, NEW width \in Nat, SCROLL_OFFSET < width,
         NEW b \in [len : Nat, i : Nat, hs : Nat], b.i <= b.len, NEW c \in edit_text(b, width)
  PROVE c \in [len : Nat, i : Nat, hs : Nat] /\ c.i <= c.len /\ c.hs <= c.i /\ c.i < c.hs + width
<1>1. PICK t \in Edits(b) : c = [len |-> t.len, i |-> t.i, hs |-> HScroll(t, b.hs, width)]
  BY DEF edit_text
<1>2. t.len \in Nat /\ t.i \in Nat /\ t.i <= t.len
  BY DEF Edits, Text, Larger, Smaller
<1>3. LET hs == HScroll(t, b.hs, width) IN hs \in Nat /\ hs <= t.i /\ t.i < hs + width
  BY <1>2 DEF HScroll, Larger, Smaller
<1> QED BY <1>1, <1>2, <1>3
=============================================================================
