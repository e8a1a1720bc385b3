----------------------------- MODULE PipeCount ------------------------------
(***************************************************************************)
(* The event counters of rtl/cpu_pipe_u.v (block g_cnt): every bubble is   *)
(* tagged with what made it and counted when it reaches EX.  The 64-bit    *)
(* counters themselves are left out; ev is the event each one counts.      *)
(***************************************************************************)
EXTENDS Pipe

VARIABLES
    ifid_why, idex_why, \* what left the bubble in IF/ID and in ID/EX
    started,            \* history: an instruction has left EX
    owed,               \* history: flush cycles redirects cost, not yet counted
    parity              \* history: flips whenever an instruction leaves EX

cntVars == <<ifid_why, idex_why, started, owed, parity>>
pcVars  == <<vars, cntVars>>

Why == {"other", "load_use", "flush", "fetch"}

CountInit ==
    /\ Init
    /\ ifid_why = "other" /\ idex_why = "other"
    /\ started = FALSE /\ owed = 0 /\ parity = FALSE

\* Mutant of WhyEdge: a flush tags the bubble in ID/EX only.
WhyEdgeForgetsIf(in) ==
    /\ ifid_why' = IF ~freeze(in) /\ ~front_hold(in) /\ ~in.ifok
                   THEN "fetch" ELSE ifid_why
    /\ idex_why' = IF freeze(in) \/ ex_hold(in) THEN idex_why
                   ELSE IF redirect(in) THEN "flush"
                   ELSE IF load_use THEN "load_use" ELSE ifid_why

\* Mutant of WhyEdge: the I-port's bubbles are not tagged.
WhyEdgeNoFetch(in) ==
    /\ ifid_why' = IF redirect(in) THEN "flush"
                   ELSE IF ~freeze(in) /\ ~front_hold(in) THEN "other" ELSE ifid_why
    /\ idex_why' = IF freeze(in) \/ ex_hold(in) THEN idex_why
                   ELSE IF redirect(in) THEN "flush"
                   ELSE IF load_use THEN "load_use" ELSE ifid_why

WhyEdge(in) ==
    /\ ifid_why' = IF redirect(in) THEN "flush"
                   ELSE IF ~freeze(in) /\ ~front_hold(in) /\ ~in.ifok
                   THEN "fetch" ELSE ifid_why
    /\ idex_why' = IF freeze(in) \/ ex_hold(in) THEN idex_why
                   ELSE IF redirect(in) THEN "flush"
                   ELSE IF load_use THEN "load_use" ELSE ifid_why

\* The events of the counters: instret, load-use, flush, fetch, freeze, mispredict.
bubble(in) == ~freeze(in) /\ ~ex_hold(in) /\ ~idex.valid
ev(in) == [instret   |-> ex_keep(in),
           load_use  |-> bubble(in) /\ idex_why = "load_use",
           flush     |-> bubble(in) /\ idex_why = "flush",
           fetch     |-> bubble(in) /\ idex_why = "fetch",
           freeze    |-> freeze(in) /\ ~in.halt,
           mispred   |-> ex_keep(in) /\ mispred]

History(in) ==
    /\ started' = (started \/ ex_go(in))
    /\ owed' = IF redirect(in) THEN owed + 2
               ELSE IF ev(in).flush THEN owed - 1 ELSE owed
    /\ parity' = IF ex_go(in) THEN ~parity ELSE parity

CountEdge(in) == Edge(in) /\ WhyEdge(in) /\ History(in)

CountNext == \E in \in Inputs : CountEdge(in)

\* The ports answer, walks and fences end, halt is released: now and then.
Ready == [ifok |-> TRUE, dready |-> TRUE, irq |-> FALSE, halt |-> FALSE,
          xwait |-> FALSE, pred |-> NoPc]

CountSpec == CountInit /\ [][CountNext]_pcVars
CountFairSpec == CountSpec /\ WF_pcVars(CountEdge(Ready))
-----------------------------------------------------------------------------
(***************************************************************************)
(* "Each one costs 2 flush cycles" (the comment on hpm7): the flush cycles *)
(* still to be counted are exactly the tagged bubbles in the pipe, however *)
(* stalls, freezes and fetch misses fall between them; none is lost or     *)
(* counted under another cause.  And the counters account for every cycle: *)
(* after the reset fill, a cycle in which EX is idle carries a cause.      *)
(***************************************************************************)
CyclesAccounted ==
    /\ owed = (IF ~idex.valid /\ idex_why = "flush" THEN 1 ELSE 0)
            + (IF ~ifid.valid /\ ifid_why = "flush" THEN 1 ELSE 0)
    /\ started /\ ~idex.valid => idex_why # "other"

(***************************************************************************)
(* The pipe never stalls for ever: instructions (or their traps) keep      *)
(* leaving EX, whatever the order of stalls, redirects and interrupts.     *)
(***************************************************************************)
Progress == []<>parity /\ []<>~parity
=============================================================================
