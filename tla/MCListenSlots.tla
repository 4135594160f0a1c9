---------------------------- MODULE MCListenSlots ----------------------------
(***************************************************************************)
(* Small instances of ListenSlots for TLC.  MaxTroubles bounds the resets  *)
(* and the FINs the browser begins, each on any connection, together with  *)
(* the sockets that have at a time the peer of a late SYN.                 *)
(***************************************************************************)
EXTENDS ListenSlots, TLC

CONSTANT MaxTroubles

ConnSymmetry == Permutations(Conns)

Those(what) == Cardinality({c \in Conns : what \in said[c]})
Late == {s \in Slots : tcb[s].state = "SYNOLD"}
InBounds == Those("rst") + Those("fin") + Cardinality(Late) <= MaxTroubles

MCSpec == Init /\ [][Next /\ InBounds']_vars
=============================================================================
