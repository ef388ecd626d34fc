---------------------------- MODULE RailFailover ----------------------------
(***************************************************************************)
(* The rail chain of src/payout/rail-registry.ts under the payout pipeline *)
(* of src/payout/pipeline.ts: one payout whose provider is the             *)
(* RailFallbackProvider.  A claimed submit walks the priority chain, and   *)
(* every provider.submit is a step of its own, so another tick, a crash or *)
(* a slow rail may come between two rails of one walk.                     *)
(*                                                                         *)
(* PayoutPipeline shows that at most one request is in the submit phase of *)
(* a payout; here that request is walk.  The transition that a poll leads  *)
(* to is one step with the poll: a verdict stays true, and the version     *)
(* check leaves nothing to happen in between.                              *)
(***************************************************************************)
EXTENDS Integers, Sequences, PayoutStateMachine

CONSTANTS
  Rail,       \* rails
  Chain,      \* RAIL_PRIORITY of the payout's destination type
  NoRequest,  \* providerRequestId is null
  MaxWalks,   \* bound: submits of the payout, over all days
  MaxFaults   \* bound: crashes, lost answers, rail outages, rewirings

ASSUME ChainAssumption == Chain \in Seq(Rail)
ASSUME RequestAssumption == NoRequest \notin [rail : Rail, n : Nat]
ASSUME WalkAssumption == MaxWalks \in Nat /\ MaxFaults \in Nat

VARIABLES
  status, requestId,   \* the payout row
  wiring,              \* what registry(rail) gives, and how it is configured
  instr,               \* what each rail did with each instruction it was sent
  pc, pos, attempts,   \* attemptSettlement: label, next rail, attempts so far
  req,                 \* the rail::id about to be recorded
  walks, faults

row  == <<status, requestId>>
walk == <<pc, pos, attempts, req>>
vars == <<row, wiring, instr, walk, walks, faults>>

-----------------------------------------------------------------------------
(* Data *)

\* absent: null; fenced: FencedRailProvider; stub: live, but its submitLive
\* and fetchStatusLive throw LivePathUnavailableError; dry, live: config.live.
Wiring == {"absent", "fenced", "stub", "dry", "live"}

RailOutcome == {"SUBMITTED", "REJECTED", "RAIL_UNAVAILABLE", "NOT_IMPLEMENTED", "UNKNOWN"}

\* sent: on its way; refused: not taken; pending: taken; paid, denied: final.
InstructionStatus == {"sent", "refused", "pending", "paid", "denied"}
CanPay            == {"sent", "pending", "paid"}

\* rail::id: n is the position of the instruction at the rail, DryRun a dry-run id.
DryRun    == 0
RequestId == [rail : Rail, n : Nat]

\* The outcome recorded for a rail that takes no instruction.
KnownFailure(kind) ==
  CASE kind = "absent" -> "RAIL_UNAVAILABLE"
    [] kind = "stub"   -> "RAIL_UNAVAILABLE"
    [] kind = "fenced" -> "NOT_IMPLEMENTED"

Attempted(outcome, label) ==
  /\ attempts' = Append(attempts, outcome)
  /\ pc' = label

-----------------------------------------------------------------------------
(* The walk: attemptSettlement *)

\* READY -> SUBMITTING, then provider.submit starts at the head of the chain.
Claim ==
  /\ status = "READY"
  /\ walks < MaxWalks
  /\ walks'    = walks + 1
  /\ status'   = "SUBMITTING"
  /\ pc'       = "next"
  /\ pos'      = 1
  /\ attempts' = <<>>
  /\ UNCHANGED <<requestId, wiring, instr, req, faults>>

\* Not registered, LivePathUnavailableError or RailNotImplementedError: continue.
PassRail ==
  /\ pc = "next" /\ pos <= Len(Chain)
  /\ wiring[Chain[pos]] \in {"absent", "stub", "fenced"}
  /\ Attempted(KnownFailure(wiring[Chain[pos]]), "next")
  /\ pos' = pos + 1
  /\ UNCHANGED <<row, wiring, instr, req, walks, faults>>

\* A rail that is not live answers SUBMITTED with a dry-run id.
SubmitDry ==
  /\ pc = "next" /\ pos <= Len(Chain)
  /\ wiring[Chain[pos]] = "dry"
  /\ Attempted("SUBMITTED", "recordSubmitted")
  /\ req' = [rail |-> Chain[pos], n |-> DryRun]
  /\ UNCHANGED <<row, wiring, instr, pos, walks, faults>>

SubmitLive ==
  LET r == Chain[pos] IN
  /\ pc = "next" /\ pos <= Len(Chain)
  /\ wiring[r] = "live"
  /\ instr' = [instr EXCEPT ![r] = Append(@, "sent")]
  /\ req'   = [rail |-> r, n |-> Len(instr[r]) + 1]
  /\ pc'    = "await"
  /\ UNCHANGED <<row, wiring, pos, attempts, walks, faults>>

\* Mutant: any error is a reason to try the next rail.
SubmitFailsEarlyPivots ==
  /\ pc = "next" /\ pos <= Len(Chain)
  /\ wiring[Chain[pos]] \in {"stub", "dry", "live"}
  /\ faults < MaxFaults
  /\ faults' = faults + 1
  /\ Attempted("UNKNOWN", "next")
  /\ pos' = pos + 1
  /\ UNCHANGED <<row, wiring, instr, req, walks>>

\* The rail throws before anything is sent (assertSubmitInvariants, OAuth),
\* not one of the two errors the walk knows: quarantined like a lost answer.
SubmitFailsEarly ==
  /\ pc = "next" /\ pos <= Len(Chain)
  /\ wiring[Chain[pos]] \in {"stub", "dry", "live"}
  /\ faults < MaxFaults
  /\ faults' = faults + 1
  /\ Attempted("UNKNOWN", "recordAmbiguous")
  /\ UNCHANGED <<row, wiring, instr, pos, req, walks>>

ReceiveAccepted ==
  /\ pc = "await"
  /\ instr[req.rail][req.n] \notin {"sent", "refused"}
  /\ Attempted("SUBMITTED", "recordSubmitted")
  /\ UNCHANGED <<row, wiring, instr, pos, req, walks, faults>>

\* A known-failed rail: the walk goes on with the next one.
ReceiveRejected ==
  /\ pc = "await"
  /\ instr[req.rail][req.n] = "refused"
  /\ Attempted("REJECTED", "next")
  /\ pos' = pos + 1
  /\ UNCHANGED <<row, wiring, instr, req, walks, faults>>

\* Mutant: a timeout is a reason to try the next rail.
LoseAnswerPivots ==
  /\ pc = "await"
  /\ faults < MaxFaults
  /\ faults' = faults + 1
  /\ Attempted("UNKNOWN", "next")
  /\ pos' = pos + 1
  /\ UNCHANGED <<row, wiring, instr, req, walks>>

\* A timeout or a network fault: no pivot.
LoseAnswer ==
  /\ pc = "await"
  /\ faults < MaxFaults
  /\ faults' = faults + 1
  /\ Attempted("UNKNOWN", "recordAmbiguous")
  /\ UNCHANGED <<row, wiring, instr, pos, req, walks>>

\* RailsExhaustedError: for the pipeline one more ambiguous submit.
Exhausted ==
  /\ pc = "next" /\ pos > Len(Chain)
  /\ pc' = "recordAmbiguous"
  /\ UNCHANGED <<row, wiring, instr, pos, attempts, req, walks, faults>>

\* The transition that ends the submit, unless somebody moved the payout.
RecordSubmitted ==
  /\ pc = "recordSubmitted"
  /\ pc' = "idle"
  /\ IF status = "SUBMITTING"
       THEN status' = "SUBMITTED" /\ requestId' = req
       ELSE UNCHANGED row
  /\ UNCHANGED <<wiring, instr, pos, attempts, req, walks, faults>>

RecordAmbiguous ==
  /\ pc = "recordAmbiguous"
  /\ pc' = "idle"
  /\ IF status = "SUBMITTING" THEN status' = "UNKNOWN" ELSE UNCHANGED status
  /\ UNCHANGED <<requestId, wiring, instr, pos, attempts, req, walks, faults>>

Walk ==
  \/ PassRail \/ SubmitDry \/ SubmitLive \/ SubmitFailsEarly
  \/ ReceiveAccepted \/ ReceiveRejected \/ LoseAnswer
  \/ Exhausted \/ RecordSubmitted \/ RecordAmbiguous

-----------------------------------------------------------------------------
(* Other ticks *)

\* The row changes to s because the store let the writer win.
MoveTo(s) ==
  /\ status' = s
  /\ UNCHANGED <<requestId, wiring, instr, walk, walks, faults>>

Interrupt == status = "SUBMITTING" /\ MoveTo("UNKNOWN")

Polled == status \in {"SUBMITTED", "PROCESSING", "UNKNOWN"}

QuarantineNoReference ==
  status = "UNKNOWN" /\ requestId = NoRequest /\ MoveTo("QUARANTINED")

\* Mutant: the id is taken to the head of the chain, whoever issued it.
FetchStatusAtHead ==
  IF requestId.n = DryRun \/ wiring[Head(Chain)] # "live"
     \/ requestId.n > Len(instr[Head(Chain)]) THEN "UNKNOWN"
  ELSE instr[Head(Chain)][requestId.n]

\* Mutant: the dry-run prefix is not seen behind the rail's name.
FetchStatusDryPays ==
  IF requestId.n = DryRun THEN "paid"
  ELSE IF wiring[requestId.rail] # "live" THEN "UNKNOWN"
  ELSE instr[requestId.rail][requestId.n]

\* The verdict of RailFallbackProvider.fetchStatus: the state of the
\* instruction when the rail that issued the id is registered and live,
\* otherwise UNKNOWN (or an error, which leads nowhere either).
FetchStatus ==
  IF requestId.n = DryRun \/ wiring[requestId.rail] # "live" THEN "UNKNOWN"
  ELSE instr[requestId.rail][requestId.n]

\* A rail that is fenced, or has the id of a live request and is not live.
FetchStatusThrows ==
  \/ wiring[requestId.rail] = "fenced"
  \/ requestId.n # DryRun /\ wiring[requestId.rail] \in {"stub", "dry"}

\* Evidence of payment.  SUBMITTED goes through PROCESSING, and stays there
\* if the tick dies between the two transactions.
PollPaid ==
  /\ Polled /\ requestId # NoRequest
  /\ FetchStatus = "paid"
  /\ \/ MoveTo("COMPLETED")
     \/ status = "SUBMITTED" /\ MoveTo("PROCESSING")

PollFailed ==
  /\ Polled /\ requestId # NoRequest
  /\ FetchStatus \in {"refused", "denied"}
  /\ MoveTo(IF status = "UNKNOWN" THEN "QUARANTINED" ELSE "PROVIDER_REJECTED")

PollPending ==
  /\ status = "SUBMITTED" /\ requestId # NoRequest
  /\ FetchStatus = "pending"
  /\ MoveTo("PROCESSING")

\* Enough polls without a verdict.
QuarantineEvidenceGap ==
  /\ status = "UNKNOWN" /\ requestId # NoRequest
  /\ ~FetchStatusThrows
  /\ MoveTo("QUARANTINED")

Reconcile == status = "COMPLETED" /\ MoveTo("RECONCILED")

\* Mutant: an ambiguous submit is requeued like a failed one.
RequeueUnknown == status \in {"PROVIDER_REJECTED", "UNKNOWN"} /\ MoveTo("READY")

Requeue == status = "PROVIDER_REJECTED" /\ MoveTo("READY")

Tick ==
  \/ Claim \/ Interrupt \/ QuarantineNoReference \/ PollPaid \/ PollFailed
  \/ PollPending \/ QuarantineEvidenceGap \/ Reconcile \/ Requeue

-----------------------------------------------------------------------------
(* Faults and rails *)

\* The process dies, or the transaction that ends the submit fails.
Crash ==
  /\ pc # "idle"
  /\ faults < MaxFaults
  /\ faults' = faults + 1
  /\ pc' = "idle"
  /\ UNCHANGED <<row, wiring, instr, pos, attempts, req, walks>>

\* registry(rail) is asked at every rail of a walk and at every poll, and
\* another deployment or configuration may answer differently.
Rewire(r) ==
  /\ faults < MaxFaults
  /\ faults' = faults + 1
  /\ \E kind \in Wiring \ {wiring[r]} : wiring' = [wiring EXCEPT ![r] = kind]
  /\ UNCHANGED <<row, instr, walk, walks>>

RailReceives(r) ==
  /\ \E i \in DOMAIN instr[r], answer \in {"pending", "refused"} :
       /\ instr[r][i] = "sent"
       /\ instr' = [instr EXCEPT ![r][i] = answer]
  /\ UNCHANGED <<row, wiring, walk, walks, faults>>

RailDecides(r) ==
  /\ \E i \in DOMAIN instr[r], answer \in {"paid", "denied"} :
       /\ instr[r][i] = "pending"
       /\ instr' = [instr EXCEPT ![r][i] = answer]
  /\ UNCHANGED <<row, wiring, walk, walks, faults>>

Init ==
  /\ status    = "READY"
  /\ requestId = NoRequest
  /\ wiring   \in [Rail -> Wiring]
  /\ instr     = [r \in Rail |-> <<>>]
  /\ pc        = "idle"
  /\ pos       = 1
  /\ attempts  = <<>>
  /\ req       = NoRequest
  /\ walks     = 0
  /\ faults    = 0

Next ==
  \/ Walk \/ Tick \/ Crash
  \/ \E r \in Rail : Rewire(r) \/ RailReceives(r) \/ RailDecides(r)

Spec == Init /\ [][Next]_vars

-----------------------------------------------------------------------------
(* Safety *)

TypeOK ==
  /\ status \in PAYOUT_STATUSES
  /\ requestId \in RequestId \cup {NoRequest}
  /\ wiring \in [Rail -> Wiring]
  /\ instr \in [Rail -> Seq(InstructionStatus)]
  /\ pc \in {"idle", "next", "await", "recordSubmitted", "recordAmbiguous"}
  /\ pos \in Nat \ {0}
  /\ attempts \in Seq(RailOutcome)
  /\ req \in RequestId \cup {NoRequest}
  /\ walks \in Nat
  /\ faults \in Nat

\* The instructions, over all rails, whose status is in S.
Instructions(S) ==
  UNION {{[rail |-> r, n |-> i] : i \in {k \in DOMAIN instr[r] : instr[r][k] \in S}} : r \in Rail}

\* "NEVER failover on UNKNOWN ... Blind rail-pivoting on an unknown state is
\* how double settlements happen": over all rails of the chain, all walks and
\* whatever other ticks do meanwhile, two instructions never can both pay.
OnePayingRail == \A x, y \in Instructions(CanPay) : x = y

\* "fetchStatus can route back to the owning rail": a payout counts as
\* completed only on the payment of the rail and the request its row names.
SettledOnOwningRail ==
  status \in {"COMPLETED", "RECONCILED"} =>
    /\ requestId # NoRequest
    /\ requestId.n \in DOMAIN instr[requestId.rail]
    /\ instr[requestId.rail][requestId.n] = "paid"

\* While a walk is going on nobody can start a second one, although other
\* ticks take the payout out of SUBMITTING under it.
OneWalk == pc # "idle" => StageOf(status) # "open"

\* After an attempt with an unknown outcome nothing is sent any more, not
\* even when the rail in fact refused.
NoPivotOnUnknown ==
  [][(\E r \in Rail : Len(instr'[r]) > Len(instr[r]))
       => "UNKNOWN" \notin {attempts[i] : i \in DOMAIN attempts}]_vars

Promise == INSTANCE PayoutPromise WITH
  Payout <- {"payout"},
  stage  <- [p \in {"payout"} |-> StageOf(status)],
  live   <- [p \in {"payout"} |-> Instructions({"sent", "pending"})],
  paid   <- [p \in {"payout"} |-> Instructions({"paid"})],
  booked <- IF status = "RECONCILED" THEN {"payout"} ELSE {}

\* The chain keeps the promise that one rail keeps: it moves money the way
\* PayoutPromise says.
KeepsPromise == Promise!Spec

-----------------------------------------------------------------------------
(* The inductive invariant behind the safety properties *)

\* Statuses a payout may be in while a walk is going on.
Busy == {"SUBMITTING", "UNKNOWN", "QUARANTINED", "COMPLETED", "RECONCILED"}

\* Nothing but x can still pay.
OnlyPays(x) == Instructions(CanPay) \subseteq {x}
NonePays    == Instructions(CanPay) = {}

WalkOK ==
  /\ pc # "idle" => status \in Busy
  /\ pc = "next" => NonePays
  /\ pc \in {"await", "recordSubmitted"} => OnlyPays(req) /\ req \in RequestId
  /\ pc = "await" => req.n \in DOMAIN instr[req.rail]
  /\ pc = "recordSubmitted" => req.n \in {DryRun} \cup DOMAIN instr[req.rail]

RowOK ==
  /\ StageOf(status) = "open" => NonePays
  /\ status \in {"SUBMITTED", "PROCESSING"} =>
       requestId \in RequestId /\ OnlyPays(requestId)
  /\ requestId # NoRequest =>
       requestId.n \in {DryRun} \cup DOMAIN instr[requestId.rail]

\* The walk, the row and the rails agree on what is out: the part of the
\* safety argument that single transitions can break.
ChainConsistent == WalkOK /\ RowOK /\ OnePayingRail /\ SettledOnOwningRail

-----------------------------------------------------------------------------
(* Liveness *)

\* A request goes on, ticks come again and again, rails get round to their work.
FairSpec ==
  /\ Spec
  /\ WF_vars(Walk)
  /\ WF_vars(Interrupt) /\ WF_vars(PollPaid) /\ WF_vars(Reconcile)
  /\ \A r \in Rail : WF_vars(RailReceives(r)) /\ WF_vars(RailDecides(r))

\* A payment by the rail that the row names reaches the books, as long as
\* that rail stays registered and live.
PaidIsReconciled ==
  (/\ status \in {"SUBMITTED", "PROCESSING"}
   /\ requestId # NoRequest /\ requestId.n # DryRun
   /\ instr[requestId.rail][requestId.n] = "paid")
  ~> \/ status = "RECONCILED"
     \/ requestId # NoRequest /\ wiring[requestId.rail] # "live"
=============================================================================
