-------------------------- MODULE MCPayoutPipeline --------------------------
(***************************************************************************)
(* Instances of PayoutPipeline for TLC.                                    *)
(***************************************************************************)
EXTENDS PayoutPipeline, TLC

CONSTANTS p1, p2, owner, w1, w2, revenue

OnePayout  == {p1}
TwoPayouts == {p1, p2}
OneWorker  == {w1}
TwoWorkers == {w1, w2}

NetOne == [p \in {p1} |-> 2]
NetTwo == p1 :> 2 @@ p2 :> 3
OwnerOne == [p \in {p1} |-> owner]
OwnerTwo == [p \in {p1, p2} |-> owner]

\* One revenue line of n, as a CREDIT row.
Revenue(n) ==
  {[ key |-> revenue, owner |-> owner, entryType |-> "CREDIT", state |-> "AVAILABLE",
     amount |-> n, ledgerType |-> "REVENUE", recent |-> TRUE ]}
Revenue3 == Revenue(3)

NobodyIn == {}
LiveOnly == {"live"}
AllModes == {"live", "dry", "stub"}

Workers == Permutations(Worker)
=============================================================================
