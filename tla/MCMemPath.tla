----------------------------- MODULE MCMemPath -----------------------------
(***************************************************************************)
(* Two senders that compete for the bridge and for the near memory.        *)
(***************************************************************************)
EXTENDS MemPath

CONSTANTS m1, m2, read1, read2, write2, near1, near2

MCfrom == [p \in Pkt |-> IF p \in {read1, near1} THEN m1 ELSE m2]
MCto == [p \in Pkt |-> IF p \in {near1, near2} THEN "near" ELSE "bridge"]
=============================================================================
