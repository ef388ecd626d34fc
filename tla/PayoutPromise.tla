---------------------------- MODULE PayoutPromise ----------------------------
(***************************************************************************)
(* What the payout pipeline promises about money, without ticks, versions, *)
(* statuses or polls: a payout is claimed before anything is sent for it,  *)
(* at most one instruction is out at a time and none after one was paid, a *)
(* payout is taken back for another try only when nothing is out, and it   *)
(* counts as settled, and is booked once, only when it was paid.           *)
(***************************************************************************)
CONSTANT Payout

VARIABLES
  stage,   \* open, claimed, settled or closed
  live,    \* the instructions of a payout that may still pay
  paid,    \* the instructions of a payout that did pay
  booked   \* payouts with a settled line in the ledger

vars == <<stage, live, paid, booked>>

Stage == {"open", "claimed", "settled", "closed"}

Init ==
  /\ stage  = [p \in Payout |-> "open"]
  /\ live   = [p \in Payout |-> {}]
  /\ paid   = [p \in Payout |-> {}]
  /\ booked = {}

Move(p, from, to) ==
  /\ stage[p] \in from
  /\ stage' = [stage EXCEPT ![p] = to]
  /\ UNCHANGED <<live, paid, booked>>

Idle(p) == live[p] = {} /\ paid[p] = {}

Claim(p)  == Idle(p) /\ Move(p, {"open"}, "claimed")
Reopen(p) == Idle(p) /\ Move(p, {"claimed"}, "open")
Settle(p) == paid[p] # {} /\ Move(p, {"claimed"}, "settled")
Close(p)  == Move(p, {"claimed"}, "closed")

\* The submit that follows a claim may come after the payout was closed.
Send(p) ==
  /\ Idle(p)
  /\ stage[p] \in {"claimed", "closed"}
  /\ \E i \in live'[p] : live' = [live EXCEPT ![p] = {i}]
  /\ UNCHANGED <<stage, paid, booked>>

Refuse(p) ==
  /\ live[p] # {}
  /\ live' = [live EXCEPT ![p] = {}]
  /\ UNCHANGED <<stage, paid, booked>>

Pay(p) ==
  /\ live[p] # {}
  /\ paid' = [paid EXCEPT ![p] = live[p]]
  /\ live' = [live EXCEPT ![p] = {}]
  /\ UNCHANGED <<stage, booked>>

Book(p) ==
  /\ stage[p] = "settled"
  /\ p \notin booked
  /\ booked' = booked \cup {p}
  /\ UNCHANGED <<stage, live, paid>>

Next ==
  \E p \in Payout :
    \/ Claim(p) \/ Reopen(p) \/ Settle(p) \/ Close(p)
    \/ Send(p) \/ Refuse(p) \/ Pay(p) \/ Book(p)

Spec == Init /\ [][Next]_vars
==============================================================================
