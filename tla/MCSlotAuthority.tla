-------------------------- MODULE MCSlotAuthority --------------------------
(***************************************************************************)
(* SlotAuthority for TLC.                                                  *)
(***************************************************************************)
EXTENDS SlotAuthority, TLC

\* Ids are only compared, so instances, slots and handoff ids are symmetric.
Symmetry == Permutations(Instance) \cup Permutations(Slot) \cup Permutations(HandoffId)

\* One slot that three instances fight for, or two slots between two instances and
\* one handoff id, for a shorter time.
Registered == {i \in Instance : lease[i] # NoLease}
Claimed == {s \in Slot : slot[s].epoch # 0}
Bounds ==
    \/ Cardinality(Claimed) <= 1
    \/ Cardinality(Registered) <= 2 /\ now <= 2 /\ Cardinality({handoff[s].id : s \in Slot} \ {None}) <= 1
=============================================================================
