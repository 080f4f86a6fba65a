------------------------------ MODULE Consensus ------------------------------
(***************************************************************************)
(* What the Paxos instances of a group promise (spec section 8, Safety):  *)
(* in each instance at most one value is chosen, and once chosen it stays *)
(* chosen.                                                                *)
(***************************************************************************)
EXTENDS Naturals, FiniteSets

CONSTANTS Values, Slots

VARIABLE chosen    \* chosen[i]: the values chosen in instance i

ConsensusTypeOK ==
    /\ chosen \in [Slots -> SUBSET Values]
    /\ \A i \in Slots : Cardinality(chosen[i]) <= 1

\* A run may find an instance with its value already chosen (by nodes
\* that ran before), or with none.
ConsensusInit == ConsensusTypeOK

\* Some proposed value becomes the chosen one of instance i.
Choose(i) == /\ chosen[i] = {}
             /\ \E v \in Values : chosen' = [chosen EXCEPT ![i] = {v}]

ConsensusSpec == ConsensusInit /\ [][\E i \in Slots : Choose(i)]_chosen
=============================================================================
