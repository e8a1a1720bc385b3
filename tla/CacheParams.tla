---------------------------- MODULE CacheParams ----------------------------
(***************************************************************************)
(* The geometry shared by the cached memory system of rtl/soc_boot.v       *)
(* (MEMSYS 1 and 2): physical memory is a set of lines, a line is a        *)
(* function from word offsets to words.  The address bus {tag, idx, word}  *)
(* is kept as a line address {tag, idx} and a word offset.                 *)
(***************************************************************************)
EXTENDS Naturals

CONSTANTS
    NAddrs,     \* lines of physical memory
    NWords,     \* LINE_WORDS
    NVals,      \* values of a word the properties tell apart
    DLines,     \* D_LINES, lines of the D-cache
    ILines      \* I_LINES, lines of the I-cache

ASSUME GeometryAssumption ==
    /\ NAddrs \in Nat \ {0}
    /\ NWords \in Nat \ {0}
    /\ NVals  \in Nat \ {0}
    /\ DLines \in Nat \ {0}
    /\ ILines \in Nat \ {0}

LineAddrs == 0 .. NAddrs - 1
Words     == 0 .. NWords - 1
Vals      == 0 .. NVals - 1
Line      == [Words -> Vals]

DIndex == 0 .. DLines - 1
IIndex == 0 .. ILines - 1

\* The index field of a line address.
DIdx(a) == a % DLines
IIdx(a) == a % ILines

(***************************************************************************)
(* A request on the core's D-port: op is the request and its direction     *)
(* (d_req, |d_we).  The pipeline zeroes the fields of a bubble.            *)
(***************************************************************************)
DPort == [op : {"none", "read", "write"}, addr : LineAddrs,
          word : Words, data : Vals]

NoReq == [op |-> "none", addr |-> 0, word |-> 0, data |-> 0]

ReadReqs == {p \in DPort : p.op = "read" /\ p.data = 0}

WriteReqs == {p \in DPort : p.op = "write"}

\* new_w, merged into a line: the addressed word replaced, the others kept.
Merge(line, p) == [line EXCEPT ![p.word] = p.data]
=============================================================================
