------------------------------ MODULE MCClient ------------------------------
(***************************************************************************)
(* The parts of the client SDK for TLC, side by side: what runs is chosen  *)
(* at the beginning.  In "sharing" two callers ask for one slot and share  *)
(* their route loads; in "batch" one caller asks for two slots, which part *)
(* and meet again; in "balancer" two goroutines change routes and          *)
(* endpoints under the pickers.                                            *)
(***************************************************************************)
EXTENDS Sdk, TLC

CONSTANTS s1, s2, c1

VARIABLE part

Batches == {{s1}, {s1, s2}}

pickerVars == <<owners, remotes, closed, at, built, state, newest>>
allVars == <<part, vars, pickerVars>>

PartsInit ==
    /\ part \in {"sharing", "batch", "balancer"}
    /\ Init /\ Pickers!Init
    /\ part # "batch" => \A s \in Slot : holder[s] = holder[s1]
    /\ part = "balancer" => holder = CHOOSE h \in [Slot -> [node : Node, epoch : {1}]] : TRUE

\* The bounds of the two parts of Client: one slot that everyone asks for, or one
\* caller that asks for both.
Sharing ==
    /\ \A c \in Caller : call'[c].keys \subseteq {s1}
    /\ \A s \in Slot \ {s1} : holder'[s] = holder[s]
    /\ latest' <= 2
Batch == \A c \in Caller : call'[c].keys \in {{}, Slot} /\ (c # c1 => call'[c] = NoCall)

\* The bound of Balancer: the pickers of one slot.
OneSlot == \A s \in Slot \ {s1} : owners'[s] = None

PartsNext ==
    /\ UNCHANGED part
    /\ \/ part = "sharing" /\ Next /\ Sharing /\ UNCHANGED pickerVars
       \/ part = "batch" /\ Next /\ Batch /\ UNCHANGED pickerVars
       \/ part = "balancer" /\ Pickers!Next /\ OneSlot /\ UNCHANGED vars

PartsSpec ==
    /\ PartsInit /\ [][PartsNext]_allVars
    /\ part = "balancer" \/ Fairness
=============================================================================
