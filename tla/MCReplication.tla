--------------------------- MODULE MCReplication ---------------------------
(* A tablet with one slot for both keys, and its backup; the lengths are    *)
(* such that objects spare the footers of their blocks, as in MCTablet.     *)
EXTENDS Replication

MCKeys == {<<1>>, <<2>>}
MCValues == {<<>>, <<2, 2, 2>>}
MCHash == [k \in MCKeys |-> 0]

ASSUME SizesAssumption == ObjectsSpareFooters
============================================================================
