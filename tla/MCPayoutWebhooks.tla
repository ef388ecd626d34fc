-------------------------- MODULE MCPayoutWebhooks --------------------------
(***************************************************************************)
(* Instances of PayoutWebhooks for TLC.                                    *)
(***************************************************************************)
EXTENDS PayoutWebhooks, TLC

CONSTANT Late   \* the items whose payee may be slow to claim the money

\* PayPal pays every item in the end; a late item may be unclaimed at first.
LatePayees == [i \in Item |-> IF i \in Late THEN {"success", "unclaimed"} ELSE {"success"}]

\* PayPal decides of a late item whatever it can: it refuses the item, or leaves
\* it unclaimed and then pays or refunds it, or pays and later refunds it.
AnyVerdicts == [i \in Item |-> IF i \in Late THEN Verdict ELSE {"success"}]

\* Requests do the same, and no liveness is checked where this is used.
Interchangeable == Permutations(Handler)
=============================================================================
