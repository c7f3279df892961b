----------------------------- MODULE MCKeyState -----------------------------
(***************************************************************************)
(* KeyState for TLC: what the callers ask for, and how often.              *)
(***************************************************************************)
EXTENDS KeyState, TLC

CONSTANTS c1, c2, k1, k2

\* Single ids, and batches of one key: part of a range of three, and all of it.
Mixed == {[keys |-> <<k1>>, count |-> 1, batch |-> FALSE],
          [keys |-> <<k1>>, count |-> 2, batch |-> TRUE],
          [keys |-> <<k1>>, count |-> 3, batch |-> TRUE]}
\* Batches that name two keys in either order.
Crossed == {[keys |-> <<k1, k2>>, count |-> 2, batch |-> TRUE],
            [keys |-> <<k2, k1>>, count |-> 2, batch |-> TRUE]}

TwoAndOne == [c \in Caller |-> IF c = c1 THEN 2 ELSE 1]
OneEach == [c \in Caller |-> 1]

-----------------------------------------------------------------------------
\* A whole range in one batch is asked for by the first caller, and first.
MixedNext ==
    /\ Next
    /\ \A c \in Caller : At(c, "idle") /\ call'[c].pc = "prepare" /\ call'[c].count = Step
          => c = c1 /\ calls[c] = 0

MixedSpec == Init /\ [][MixedNext]_vars

-----------------------------------------------------------------------------
\* Crossed batches.  The first caller names the keys in the order of their names, which
\* leaves out nothing but other names for the same, and no idle state is collected:
\* nobody waits for that.
CrossedNext ==
    /\ Next
    /\ At(c1, "idle") /\ call'[c1].pc = "prepare" => KeyOf(call'[c1].o) = k1
    /\ victim' = None

CrossedSpec == Init /\ [][CrossedNext]_vars /\ Fairness
=============================================================================
