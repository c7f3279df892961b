---------------------------- MODULE MCSequenceHA ----------------------------
(***************************************************************************)
(* SequenceHA for TLC: when the processes of a scenario start, and the     *)
(* symmetries.  Callers are interchangeable; instances are where all of    *)
(* them start at once and all or none of them may stop and crash.          *)
(***************************************************************************)
EXTENDS SequenceHA, TLC

CONSTANT i1, i2

\* All processes start at once, or a second one when the quiet window after the
\* first possible grant is over.
Together == [i \in Instance |-> 0]
Successor == [i \in Instance |-> IF i = i1 THEN 0 ELSE QuietWindow]

\* Two calls at once and two ranges as long as the processes' clock stands still, one
\* call and one range when it runs.
Busy == {c \in Caller : call[c] # NoCall}
Bounds ==
    \/ clock = 0
    \/ Cardinality(Busy) <= 1 /\ \A s \in Slot : mark[s] <= Step

\* One range for each owner of a slot.
OneRangeEach == \A s \in Slot : mark[s] <= Step * slot[s].epoch

Callers == Permutations(Caller)
Symmetry == Permutations(Instance) \cup Permutations(Caller)
=============================================================================
