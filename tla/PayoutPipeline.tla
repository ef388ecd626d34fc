--------------------------- MODULE PayoutPipeline ---------------------------
(***************************************************************************)
(* The payout pipeline driver of src/payout/pipeline.ts over the store of  *)
(* src/payout/prisma-driver.ts, run by concurrent requests to the tick     *)
(* endpoint (src/app/api/payouts/tick/route.ts) against an external rail.  *)
(*                                                                         *)
(* A tick lists drivable payouts and advances them one by one.  Every      *)
(* await of advancePayout ends a step: what the code has read so far is    *)
(* kept in seen and mem, and everybody else may move before the next step. *)
(* A status change is one transaction: compare-and-set on the version,     *)
(* history, and ledger line together (TryTransition).                      *)
(***************************************************************************)
EXTENDS Integers, Sequences, FiniteSets, PayoutStateMachine, OwnerLedger

CONSTANTS
  Payout,            \* payout ids
  Worker,            \* tick requests that may be in progress together
  NoPayout,          \* no payout in hand
  Net,               \* netAmount of each payout
  Owner,             \* ownerAccountId of each payout, or NoOwner
  NoOwner,           \* ownerAccountId is null
  Opening,           \* ledger rows that exist before the pipeline runs
  Malformed,         \* payouts with a bad fingerprint or no idempotency key
  Unroutable,        \* payouts whose destinationType has no provider
  Modes,             \* how a tick may find the rail configured
  Limit,             \* PAYOUT_TICK_LIMIT
  MaxPerTx,          \* maxPayoutPerTransaction
  MaxDaily,          \* maxDailySettlePerCurrency
  PollsBeforeQuarantine,
  MaxFailedSubmits,  \* maxFailedSubmitsPerDay
  Holdable,          \* bound: payouts on which holds come and go
  MaxFaults,         \* bound: crashes, storage errors and rail outages
  MaxClock           \* bound: midnights and ageing events

ASSUME PayoutAssumption == IsFiniteSet(Payout) /\ NoPayout \notin Payout
ASSUME NetAssumption == Net \in [Payout -> Nat]
ASSUME ModesAssumption == Modes \subseteq {"live", "dry", "stub"}
ASSUME BoundsAssumption ==
  /\ Limit \in Nat \ {0}
  /\ MaxFailedSubmits \in Nat
  /\ PollsBeforeQuarantine \in Nat \ {0}
  /\ MaxFaults \in Nat
  /\ MaxClock \in Nat

VARIABLES
  row,     \* the Payout table
  lines,   \* the ledger lines the pipeline has written, by idempotency key
  recent,  \* payouts whose PAYOUT_SETTLED line is at most 24 hours old
  failed,  \* history events of today that move a payout to a failure status
  noise,   \* poll events of today stamped with a failure status
  polls,   \* 'no verdict' events of the last 24 hours
  rank,    \* order of Payout.updatedAt: 0 is the oldest
  held,    \* does the payout have an unreleased PayoutHold
  batch,   \* what the rail did with each instruction sent, in sending order
  pc, todo, cur, seen, mem, mode,   \* the state of each tick request
  faults, clock

dbVars     == <<row, lines, recent, failed, noise, polls, rank>>
workerVars == <<pc, todo, cur, seen, mem, mode>>
envVars    == <<held, batch, faults, clock>>
vars       == <<dbVars, workerVars, envVars>>

-----------------------------------------------------------------------------
(* Data *)

\* Mutants: the tick forgets a status it has to drive.
DriveNoSubmitting ==
  { "CREATED", "ELIGIBLE", "RESERVED", "VALIDATED", "READY", "SUBMITTED",
    "PROCESSING", "COMPLETED", "UNKNOWN", "RETRYABLE_FAILURE", "PROVIDER_REJECTED" }
DriveNoCompleted ==
  { "CREATED", "ELIGIBLE", "RESERVED", "VALIDATED", "READY", "SUBMITTING",
    "SUBMITTED", "PROCESSING", "UNKNOWN", "RETRYABLE_FAILURE", "PROVIDER_REJECTED" }
DriveNoReady ==
  { "CREATED", "ELIGIBLE", "RESERVED", "VALIDATED", "SUBMITTING", "SUBMITTED",
    "PROCESSING", "COMPLETED", "UNKNOWN", "RETRYABLE_FAILURE", "PROVIDER_REJECTED" }

DRIVE_STATUSES ==
  { "CREATED", "ELIGIBLE", "RESERVED", "VALIDATED", "READY", "SUBMITTING",
    "SUBMITTED", "PROCESSING", "COMPLETED", "UNKNOWN", "RETRYABLE_FAILURE",
    "PROVIDER_REJECTED" }

FAILURE_STATUSES == {"RETRYABLE_FAILURE", "PROVIDER_REJECTED"}

LedgerWriteType == {"PAYOUT_RESERVED", "PAYOUT_SETTLED"}

ReconciliationStatus ==
  {"PENDING", "EVIDENCE_PENDING", "RECONCILIATION_REQUIRED", "RECONCILED", "QUARANTINED"}

\* Request ids: a real one is the position of the instruction in batch[p].
NoRequest == 0
DryRun    == -1

\* sent: on its way or being handled; refused: answered with a 4xx;
\* pending: accepted, NEW/PENDING/PROCESSING; paid: SUCCESS; denied: DENIED or CANCELED.
BatchStatus == {"sent", "refused", "pending", "paid", "denied"}
CanPay      == {"sent", "pending", "paid"}

PayoutRow == [ status : PAYOUT_STATUSES, version : Nat, requestId : Int,
               txnId : Int, recon : ReconciliationStatus ]

Fresh == [ status |-> "CREATED", version |-> 1, requestId |-> NoRequest,
           txnId |-> NoRequest, recon |-> "PENDING" ]

\* What a handler remembers between awaits besides the payout itself.
Memory  == [ req : Int, threw : BOOLEAN, polls : Nat, noted : PAYOUT_STATUSES ]
NoMemory == [ req |-> NoRequest, threw |-> FALSE, polls |-> 0, noted |-> "CREATED" ]

Label ==
  { "idle", "load", "checkHold", "markEligible", "checkBalance", "reserve",
    "validate", "markValidated", "markReady", "checkThrottle", "claim",
    "submit", "awaitAnswer", "recordSubmitted", "recordRejected",
    "recordUnavailable", "recordAmbiguous", "interrupt", "poll",
    "noReference", "evidenceProcessing", "evidenceCompleted", "reconcile",
    "verdictFailed", "markProcessing", "countPolls", "noteStatus",
    "writePoll", "evidenceGap", "checkRetry", "requeue" }

\* The ledger entries listLedgerEntries returns for an owner.
LineRow(l) ==
  [ key |-> l, owner |-> Owner[l[1]], entryType |-> "DEBIT",
    state |-> IF l[2] = "PAYOUT_RESERVED" THEN "AUTHORIZED" ELSE "SETTLED",
    amount |-> Net[l[1]], ledgerType |-> l[2],
    recent |-> l[2] = "PAYOUT_SETTLED" /\ l[1] \in recent ]

ListLedgerEntries(o) ==
  {MapEntryRow(r) : r \in {x \in Opening \cup {LineRow(l) : l \in lines} : x.owner = o}}

\* isHex64, positive amount, caps and rail: the problems of the RESERVED handler.
PolicyPasses(p) ==
  /\ p \notin Malformed
  /\ Net[p] > 0
  /\ Net[p] <= MaxPerTx
  /\ p \notin Unroutable
  /\ Owner[p] # NoOwner =>
       SettledLast24h(ListLedgerEntries(Owner[p])) + Net[p] <= MaxDaily

\* Mutant: the events are filtered by the wrong status column.
CountNothing(p) == noise[p]

CountFailedSubmitsToday(p) == failed[p] + noise[p]

\* listDrivablePayoutIds: the Limit drivable payouts touched longest ago.
Drivable == {p \in Payout : row[p].status \in DRIVE_STATUSES}
ListDrivablePayoutIds ==
  {p \in Drivable : Cardinality({q \in Drivable : rank[q] < rank[p]}) < Limit}

-----------------------------------------------------------------------------
(* Steps of a tick request *)

Goto(w, label) ==
  /\ pc' = [pc EXCEPT ![w] = label]
  /\ UNCHANGED <<todo, cur, seen, mem, mode>>

\* advancePayout returns: on to the next id, or the request is over.
Return(w) ==
  /\ pc'   = [pc EXCEPT ![w] = IF todo[w] = {} THEN "idle" ELSE "load"]
  /\ mode' = [mode EXCEPT ![w] = IF todo[w] = {} THEN "dry" ELSE @]
  /\ cur'  = [cur EXCEPT ![w] = NoPayout]
  /\ seen' = [seen EXCEPT ![w] = Fresh]
  /\ mem'  = [mem EXCEPT ![w] = NoMemory]
  /\ UNCHANGED todo

\* @updatedAt: p becomes the payout touched last.
Touch(p) ==
  rank' = [q \in Payout |->
             IF q = p THEN Cardinality(Payout) - 1
             ELSE IF rank[q] > rank[p] THEN rank[q] - 1 ELSE rank[q]]

Updated(p, to, patched) ==
  [ status |-> to, version |-> row[p].version + 1, requestId |-> patched.requestId,
    txnId |-> patched.txnId, recon |-> patched.recon ]

\* The transaction of applyTransition: row and patch, event, ledger line.
Commit(p, to, patched, newLines) ==
  /\ row' = [row EXCEPT ![p] = Updated(p, to, patched)]
  /\ lines' = lines \cup newLines
  /\ recent' = IF <<p, "PAYOUT_SETTLED">> \in newLines \ lines
                 THEN recent \cup {p} ELSE recent
  /\ failed' = IF to \in FAILURE_STATUSES
                 THEN [failed EXCEPT ![p] = @ + 1] ELSE failed
  /\ Touch(p)
  /\ UNCHANGED <<noise, polls>>

\* Mutant: the update is not conditional on the version.
WinsAlways(w, to, actor) == AssertTransition(seen[w].status, to, actor)

\* assertTransition on what was read, then exactly one writer wins.
Wins(w, to, actor) ==
  /\ AssertTransition(seen[w].status, to, actor)
  /\ row[cur[w]].version = seen[w].version

\* tryTransition, after which the handler goes on at label.  When the
\* transition is refused the handler reports an error and returns.
TryAndGoto(w, to, actor, patched, newLines, label) ==
  IF Wins(w, to, actor)
    THEN /\ Commit(cur[w], to, patched, newLines)
         /\ seen' = [seen EXCEPT ![w].status = to, ![w].version = @ + 1]
         /\ pc' = [pc EXCEPT ![w] = label]
         /\ UNCHANGED <<todo, cur, mem, mode>>
    ELSE Return(w) /\ UNCHANGED dbVars

\* tryTransition as the last thing a handler does.
TryTransition(w, to, actor, patched, newLines) ==
  /\ IF Wins(w, to, actor) THEN Commit(cur[w], to, patched, newLines)
                           ELSE UNCHANGED dbVars
  /\ Return(w)

\* POST /api/payouts/tick: read the rail's configuration and list the work.
StartTick(w) ==
  /\ pc[w] = "idle"
  /\ ListDrivablePayoutIds # {}
  /\ \E m \in Modes : mode' = [mode EXCEPT ![w] = m]
  /\ todo' = [todo EXCEPT ![w] = ListDrivablePayoutIds]
  /\ pc'   = [pc EXCEPT ![w] = "load"]
  /\ UNCHANGED <<cur, seen, mem, dbVars, envVars>>

\* Mutant: the switch has no COMPLETED case.
HandlerNoCompleted(status) ==
  CASE status = "CREATED"    -> "checkHold"
    [] status = "ELIGIBLE"   -> "checkBalance"
    [] status = "RESERVED"   -> "validate"
    [] status = "VALIDATED"  -> "markReady"
    [] status = "READY"      -> "checkThrottle"
    [] status = "SUBMITTING" -> "interrupt"
    [] status \in {"SUBMITTED", "PROCESSING", "UNKNOWN"} -> "poll"
    [] status \in FAILURE_STATUSES -> "checkRetry"
    [] OTHER -> "unhandled"

HandlerOf(status) ==
  CASE status = "CREATED"    -> "checkHold"
    [] status = "ELIGIBLE"   -> "checkBalance"
    [] status = "RESERVED"   -> "validate"
    [] status = "VALIDATED"  -> "markReady"
    [] status = "READY"      -> "checkThrottle"
    [] status = "SUBMITTING" -> "interrupt"
    [] status \in {"SUBMITTED", "PROCESSING", "UNKNOWN"} -> "poll"
    [] status = "COMPLETED"  -> "reconcile"
    [] status \in FAILURE_STATUSES -> "checkRetry"

\* getPayout and the switch on its status.  The ids are in the order listed;
\* here a request takes its ids in any order.
LoadPayout(w) ==
  /\ pc[w] = "load"
  /\ \E p \in todo[w] :
       /\ row[p].status \in DRIVE_STATUSES
       /\ todo' = [todo EXCEPT ![w] = @ \ {p}]
       /\ cur'  = [cur EXCEPT ![w] = p]
       /\ seen' = [seen EXCEPT ![w] = row[p]]
       /\ pc'   = [pc EXCEPT ![w] = HandlerOf(row[p].status)]
  /\ UNCHANGED <<mem, mode, dbVars, envVars>>

\* The payout reached a terminal status after it was listed.
SkipTerminal(w) ==
  /\ pc[w] = "load"
  /\ \E p \in todo[w] :
       /\ row[p].status \notin DRIVE_STATUSES
       /\ todo' = [todo EXCEPT ![w] = @ \ {p}]
       /\ pc'   = [pc EXCEPT ![w] = IF todo[w] = {p} THEN "idle" ELSE "load"]
       /\ mode' = [mode EXCEPT ![w] = IF todo[w] = {p} THEN "dry" ELSE @]
  /\ UNCHANGED <<cur, seen, mem, dbVars, envVars>>

CheckHold(w) ==
  /\ pc[w] = "checkHold"
  /\ IF held[cur[w]] THEN Return(w) ELSE Goto(w, "markEligible")
  /\ UNCHANGED <<dbVars, envVars>>

MarkEligible(w) ==
  /\ pc[w] = "markEligible"
  /\ TryTransition(w, "ELIGIBLE", "watchdog", row[cur[w]], {})
  /\ UNCHANGED envVars

CheckBalance(w) ==
  LET p == cur[w] IN
  /\ pc[w] = "checkBalance"
  /\ IF /\ Owner[p] # NoOwner
        /\ CanReserve(Net[p], Available(Owner[p], ListLedgerEntries(Owner[p])))
       THEN Goto(w, "reserve") ELSE Return(w)
  /\ UNCHANGED <<dbVars, envVars>>

Reserve(w) ==
  /\ pc[w] = "reserve"
  /\ TryTransition(w, "RESERVED", "system", row[cur[w]],
                   {<<cur[w], "PAYOUT_RESERVED">>})
  /\ UNCHANGED envVars

Validate(w) ==
  /\ pc[w] = "validate"
  /\ IF PolicyPasses(cur[w]) THEN Goto(w, "markValidated") ELSE Return(w)
  /\ UNCHANGED <<dbVars, envVars>>

MarkValidated(w) ==
  /\ pc[w] = "markValidated"
  /\ TryTransition(w, "VALIDATED", "system", row[cur[w]], {})
  /\ UNCHANGED envVars

MarkReady(w) ==
  /\ pc[w] = "markReady"
  /\ TryTransition(w, "READY", "system", row[cur[w]], {})
  /\ UNCHANGED envVars

\* Mutant: the submit goes out before the claim.
ThrottleThenSubmit(w) ==
  /\ pc[w] = "checkThrottle"
  /\ IF CountFailedSubmitsToday(cur[w]) < MaxFailedSubmits
       THEN Goto(w, "submit") ELSE Return(w)
  /\ UNCHANGED <<dbVars, envVars>>

CheckThrottle(w) ==
  /\ pc[w] = "checkThrottle"
  /\ IF /\ CountFailedSubmitsToday(cur[w]) < MaxFailedSubmits
        /\ cur[w] \notin Unroutable
       THEN Goto(w, "claim") ELSE Return(w)
  /\ UNCHANGED <<dbVars, envVars>>

\* The dispatch claim, before the side effect.
Claim(w) ==
  /\ pc[w] = "claim"
  /\ TryAndGoto(w, "SUBMITTING", "system", row[cur[w]], {}, "submit")
  /\ UNCHANGED envVars

\* provider.submit without a live rail: a dry-run id, or a fail-closed error.
SubmitNotLive(w) ==
  /\ pc[w] = "submit"
  /\ mode[w] # "live"
  /\ IF mode[w] = "dry"
       THEN /\ pc'  = [pc EXCEPT ![w] = "recordSubmitted"]
            /\ mem' = [mem EXCEPT ![w].req = DryRun]
       ELSE /\ pc'  = [pc EXCEPT ![w] = "recordUnavailable"]
            /\ UNCHANGED mem
  /\ UNCHANGED <<todo, cur, seen, mode, dbVars, envVars>>

\* submitLive: OAuth or destination lookup fails, and nothing is sent.
SubmitFailsEarly(w) ==
  /\ pc[w] = "submit"
  /\ mode[w] = "live"
  /\ faults < MaxFaults
  /\ faults' = faults + 1
  /\ Goto(w, "recordAmbiguous")
  /\ UNCHANGED <<held, batch, clock, dbVars>>

\* submitLive: the POST to the payouts API leaves.
SendInstruction(w) ==
  LET p == cur[w] IN
  /\ pc[w] = "submit"
  /\ mode[w] = "live"
  /\ batch' = [batch EXCEPT ![p] = Append(@, "sent")]
  /\ mem'   = [mem EXCEPT ![w].req = Len(batch[p]) + 1]
  /\ pc'    = [pc EXCEPT ![w] = "awaitAnswer"]
  /\ UNCHANGED <<todo, cur, seen, mode, held, faults, clock, dbVars>>

\* The rail answers 201 or 4xx.
ReceiveAnswer(w) ==
  LET b == batch[cur[w]][mem[w].req] IN
  /\ pc[w] = "awaitAnswer"
  /\ b # "sent"
  /\ Goto(w, IF b = "refused" THEN "recordRejected" ELSE "recordSubmitted")
  /\ UNCHANGED <<dbVars, envVars>>

\* Mutant: a timeout is taken for a failure that is safe to retry.
LoseAnswerRetryable(w) ==
  /\ pc[w] = "awaitAnswer"
  /\ faults < MaxFaults
  /\ faults' = faults + 1
  /\ Goto(w, "recordUnavailable")
  /\ UNCHANGED <<held, batch, clock, dbVars>>

\* 30 seconds pass, the connection breaks, or the answer is a 5xx.
LoseAnswer(w) ==
  /\ pc[w] = "awaitAnswer"
  /\ faults < MaxFaults
  /\ faults' = faults + 1
  /\ Goto(w, "recordAmbiguous")
  /\ UNCHANGED <<held, batch, clock, dbVars>>

RecordSubmitted(w) ==
  /\ pc[w] = "recordSubmitted"
  /\ TryTransition(w, "SUBMITTED", "system",
                   [row[cur[w]] EXCEPT !.requestId = mem[w].req], {})
  /\ UNCHANGED envVars

RecordRejected(w) ==
  /\ pc[w] = "recordRejected"
  /\ TryTransition(w, "PROVIDER_REJECTED", "system", row[cur[w]], {})
  /\ UNCHANGED envVars

RecordUnavailable(w) ==
  /\ pc[w] = "recordUnavailable"
  /\ TryTransition(w, "RETRYABLE_FAILURE", "system", row[cur[w]], {})
  /\ UNCHANGED envVars

RecordAmbiguous(w) ==
  /\ pc[w] = "recordAmbiguous"
  /\ TryTransition(w, "UNKNOWN", "system",
                   [row[cur[w]] EXCEPT !.recon = "EVIDENCE_PENDING"], {})
  /\ UNCHANGED envVars

\* Found in SUBMITTING: taken for the leftover of a crash.
MarkInterrupted(w) ==
  /\ pc[w] = "interrupt"
  /\ TryTransition(w, "UNKNOWN", "watchdog",
                   [row[cur[w]] EXCEPT !.recon = "EVIDENCE_PENDING"], {})
  /\ UNCHANGED envVars

\* Mutant: UNKNOWN without a reference waits, like the other two statuses.
PollWaitsForever(w) ==
  /\ pc[w] = "poll"
  /\ seen[w].requestId = NoRequest \/ cur[w] \in Unroutable
  /\ Return(w)
  /\ UNCHANGED <<dbVars, envVars>>

\* SUBMITTED, PROCESSING or UNKNOWN without a provider or a request id.
PollWithoutReference(w) ==
  /\ pc[w] = "poll"
  /\ seen[w].requestId = NoRequest \/ cur[w] \in Unroutable
  /\ IF seen[w].status = "UNKNOWN" THEN Goto(w, "noReference") ELSE Return(w)
  /\ UNCHANGED <<dbVars, envVars>>

QuarantineNoReference(w) ==
  /\ pc[w] = "noReference"
  /\ TryTransition(w, "QUARANTINED", "system", row[cur[w]], {})
  /\ UNCHANGED envVars

\* Mutant: a dry-run request reads as settled.
VerdictsDryRunPays(w) ==
  IF seen[w].requestId = DryRun THEN {"COMPLETED"} ELSE {"UNKNOWN"}

\* The verdicts fetchStatus may return for a request.
Verdicts(w) ==
  LET r == seen[w].requestId
      b == batch[cur[w]][r]
  IN  IF r = DryRun THEN {"UNKNOWN"}
      ELSE {"UNKNOWN"} \cup
           CASE b = "paid"                  -> {"COMPLETED"}
             [] b = "pending"               -> {"PENDING"}
             [] b \in {"refused", "denied"} -> {"FAILED"}
             [] b = "sent"                  -> {}

\* Where the handler goes on a verdict.
AfterVerdict(status, verdict) ==
  CASE verdict = "COMPLETED" /\ status = "SUBMITTED" -> "evidenceProcessing"
    [] verdict = "COMPLETED" /\ status # "SUBMITTED" -> "evidenceCompleted"
    [] verdict = "FAILED"                            -> "verdictFailed"
    [] verdict = "PENDING" /\ status = "SUBMITTED"   -> "markProcessing"
    [] OTHER                                         -> "countPolls"

FetchStatus(w) ==
  /\ pc[w] = "poll"
  /\ seen[w].requestId # NoRequest
  /\ cur[w] \notin Unroutable
  /\ seen[w].requestId = DryRun \/ mode[w] = "live"
  /\ \E v \in Verdicts(w) : Goto(w, AfterVerdict(seen[w].status, v))
  /\ UNCHANGED <<dbVars, envVars>>

\* fetchStatus throws: the rail is not live any more, or is unreachable.
FetchStatusThrows(w) ==
  /\ pc[w] = "poll"
  /\ seen[w].requestId \notin {NoRequest, DryRun}
  /\ cur[w] \notin Unroutable
  /\ IF mode[w] = "live" THEN faults < MaxFaults /\ faults' = faults + 1
                         ELSE UNCHANGED faults
  /\ pc'  = [pc EXCEPT ![w] = "noteStatus"]
  /\ mem' = [mem EXCEPT ![w].threw = TRUE]
  /\ UNCHANGED <<todo, cur, seen, mode, held, batch, clock, dbVars>>

EvidenceProcessing(w) ==
  /\ pc[w] = "evidenceProcessing"
  /\ TryAndGoto(w, "PROCESSING", "provider", row[cur[w]], {}, "evidenceCompleted")
  /\ UNCHANGED envVars

\* Mutant: the settled line rides with COMPLETED, not with RECONCILED.
EvidenceCompletedBooks(w) ==
  /\ pc[w] = "evidenceCompleted"
  /\ TryAndGoto(w, "COMPLETED", "provider",
                [row[cur[w]] EXCEPT !.txnId = seen[w].requestId,
                                    !.recon = "RECONCILIATION_REQUIRED"],
                {<<cur[w], "PAYOUT_SETTLED">>}, "reconcile")
  /\ UNCHANGED envVars

EvidenceCompleted(w) ==
  /\ pc[w] = "evidenceCompleted"
  /\ TryAndGoto(w, "COMPLETED", "provider",
                [row[cur[w]] EXCEPT !.txnId = seen[w].requestId,
                                    !.recon = "RECONCILIATION_REQUIRED"],
                {}, "reconcile")
  /\ UNCHANGED envVars

Reconcile(w) ==
  /\ pc[w] = "reconcile"
  /\ TryTransition(w, "RECONCILED", "system",
                   [row[cur[w]] EXCEPT !.recon = "RECONCILED"],
                   {<<cur[w], "PAYOUT_SETTLED">>})
  /\ UNCHANGED envVars

VerdictFailed(w) ==
  /\ pc[w] = "verdictFailed"
  /\ IF seen[w].status = "UNKNOWN"
       THEN TryTransition(w, "QUARANTINED", "provider",
                          [row[cur[w]] EXCEPT !.recon = "QUARANTINED"], {})
       ELSE TryTransition(w, "PROVIDER_REJECTED", "provider", row[cur[w]], {})
  /\ UNCHANGED envVars

MarkProcessing(w) ==
  /\ pc[w] = "markProcessing"
  /\ TryTransition(w, "PROCESSING", "provider", row[cur[w]], {})
  /\ UNCHANGED envVars

CountPolls(w) ==
  /\ pc[w] = "countPolls"
  /\ mem' = [mem EXCEPT ![w].polls = polls[cur[w]]]
  /\ pc'  = [pc EXCEPT ![w] = "noteStatus"]
  /\ UNCHANGED <<todo, cur, seen, mode, dbVars, envVars>>

\* recordProviderPoll reads the status in one query ...
NoteStatus(w) ==
  /\ pc[w] = "noteStatus"
  /\ mem' = [mem EXCEPT ![w].noted = row[cur[w]].status]
  /\ pc'  = [pc EXCEPT ![w] = "writePoll"]
  /\ UNCHANGED <<todo, cur, seen, mode, dbVars, envVars>>

\* ... and appends the event in another.  polls stops at the number that
\* decides; only the comparison with it is ever used.
WritePoll(w) ==
  LET p == cur[w]
      m == mem[w]
      gap == ~m.threw /\ seen[w].status = "UNKNOWN"
                      /\ m.polls + 1 >= PollsBeforeQuarantine
  IN
  /\ pc[w] = "writePoll"
  /\ noise' = IF m.noted \in FAILURE_STATUSES
                THEN [noise EXCEPT ![p] = @ + 1] ELSE noise
  /\ polls' = IF ~m.threw /\ polls[p] < PollsBeforeQuarantine
                THEN [polls EXCEPT ![p] = @ + 1] ELSE polls
  /\ IF gap THEN Goto(w, "evidenceGap") ELSE Return(w)
  /\ UNCHANGED <<row, lines, recent, failed, rank, envVars>>

QuarantineEvidenceGap(w) ==
  /\ pc[w] = "evidenceGap"
  /\ TryTransition(w, "QUARANTINED", "system",
                   [row[cur[w]] EXCEPT !.recon = "QUARANTINED"], {})
  /\ UNCHANGED envVars

CheckRetry(w) ==
  /\ pc[w] = "checkRetry"
  /\ IF /\ IsRetrySafe(seen[w].status)
        /\ CountFailedSubmitsToday(cur[w]) < MaxFailedSubmits
       THEN Goto(w, "requeue") ELSE Return(w)
  /\ UNCHANGED <<dbVars, envVars>>

Requeue(w) ==
  /\ pc[w] = "requeue"
  /\ TryTransition(w, "READY", "watchdog", row[cur[w]], {})
  /\ UNCHANGED envVars

Step(w) ==
  \/ StartTick(w)          \/ LoadPayout(w)         \/ SkipTerminal(w)
  \/ CheckHold(w)          \/ MarkEligible(w)
  \/ CheckBalance(w)       \/ Reserve(w)
  \/ Validate(w)           \/ MarkValidated(w)      \/ MarkReady(w)
  \/ CheckThrottle(w)      \/ Claim(w)
  \/ SubmitNotLive(w)      \/ SubmitFailsEarly(w)   \/ SendInstruction(w)
  \/ ReceiveAnswer(w)      \/ LoseAnswer(w)
  \/ RecordSubmitted(w)    \/ RecordRejected(w)
  \/ RecordUnavailable(w)  \/ RecordAmbiguous(w)    \/ MarkInterrupted(w)
  \/ PollWithoutReference(w) \/ QuarantineNoReference(w)
  \/ FetchStatus(w)        \/ FetchStatusThrows(w)
  \/ EvidenceProcessing(w) \/ EvidenceCompleted(w)  \/ Reconcile(w)
  \/ VerdictFailed(w)      \/ MarkProcessing(w)
  \/ CountPolls(w)         \/ NoteStatus(w)         \/ WritePoll(w)
  \/ QuarantineEvidenceGap(w)
  \/ CheckRetry(w)         \/ Requeue(w)

-----------------------------------------------------------------------------
(* Faults and surroundings *)

\* A query or a transaction of the store fails: the handler, or the catch of
\* runPayoutTick, reports an error and the request goes on with the next id.
\* A failed getPayout is a payout loaded and then failed.
StoreFails(w) ==
  /\ pc[w] \notin {"idle", "load", "submit", "awaitAnswer", "poll"}
  /\ faults < MaxFaults
  /\ faults' = faults + 1
  /\ Return(w)
  /\ UNCHANGED <<held, batch, clock, dbVars>>

\* The process that serves the request dies; nothing local survives.
Crash(w) ==
  /\ pc[w] # "idle"
  /\ faults < MaxFaults
  /\ faults' = faults + 1
  /\ pc'   = [pc EXCEPT ![w] = "idle"]
  /\ todo' = [todo EXCEPT ![w] = {}]
  /\ cur'  = [cur EXCEPT ![w] = NoPayout]
  /\ seen' = [seen EXCEPT ![w] = Fresh]
  /\ mem'  = [mem EXCEPT ![w] = NoMemory]
  /\ mode' = [mode EXCEPT ![w] = "dry"]
  /\ UNCHANGED <<held, batch, clock, dbVars>>

\* The rail gets an instruction, however late, and takes or refuses it.
RailReceives(p) ==
  /\ \E i \in DOMAIN batch[p], verdict \in {"pending", "refused"} :
       /\ batch[p][i] = "sent"
       /\ batch' = [batch EXCEPT ![p][i] = verdict]
  /\ UNCHANGED <<held, faults, clock, dbVars, workerVars>>

\* The rail pays or denies an instruction it took; both are final.
RailDecides(p) ==
  /\ \E i \in DOMAIN batch[p], verdict \in {"paid", "denied"} :
       /\ batch[p][i] = "pending"
       /\ batch' = [batch EXCEPT ![p][i] = verdict]
  /\ UNCHANGED <<held, faults, clock, dbVars, workerVars>>

\* Somebody places or releases a PayoutHold.
ChangeHold(p) ==
  /\ p \in Holdable
  /\ held' = [held EXCEPT ![p] = ~@]
  /\ UNCHANGED <<batch, faults, clock, dbVars, workerVars>>

\* 00:00 UTC: countFailedSubmitsToday starts again.
Midnight ==
  /\ clock < MaxClock
  /\ clock' = clock + 1
  /\ failed' = [p \in Payout |-> 0]
  /\ noise'  = [p \in Payout |-> 0]
  /\ UNCHANGED <<row, lines, recent, polls, rank, held, batch, faults, workerVars>>

\* A settled line leaves the 24-hour window.
SettledLineAges(p) ==
  /\ clock < MaxClock
  /\ clock' = clock + 1
  /\ p \in recent
  /\ recent' = recent \ {p}
  /\ UNCHANGED <<row, lines, failed, noise, polls, rank, held, batch, faults, workerVars>>

\* A poll event leaves the 24-hour window.
PollAges(p) ==
  /\ clock < MaxClock
  /\ clock' = clock + 1
  /\ polls[p] > 0
  /\ polls' = [polls EXCEPT ![p] = @ - 1]
  /\ UNCHANGED <<row, lines, recent, failed, noise, rank, held, batch, faults, workerVars>>

Environment ==
  \/ Midnight
  \/ \E p \in Payout : \/ RailReceives(p) \/ RailDecides(p) \/ ChangeHold(p)
                       \/ SettledLineAges(p) \/ PollAges(p)

Init ==
  /\ row    = [p \in Payout |-> Fresh]
  /\ lines  = {}
  /\ recent = {}
  /\ failed = [p \in Payout |-> 0]
  /\ noise  = [p \in Payout |-> 0]
  /\ polls  = [p \in Payout |-> 0]
  /\ rank \in [Payout -> 0 .. Cardinality(Payout) - 1]
  /\ \A p, q \in Payout : rank[p] = rank[q] => p = q
  /\ held   = [p \in Payout |-> FALSE]
  /\ batch  = [p \in Payout |-> <<>>]
  /\ pc     = [w \in Worker |-> "idle"]
  /\ todo   = [w \in Worker |-> {}]
  /\ cur    = [w \in Worker |-> NoPayout]
  /\ seen   = [w \in Worker |-> Fresh]
  /\ mem    = [w \in Worker |-> NoMemory]
  /\ mode   = [w \in Worker |-> "dry"]
  /\ faults = 0
  /\ clock  = 0

Next ==
  \/ \E w \in Worker : Step(w) \/ StoreFails(w) \/ Crash(w)
  \/ Environment

Spec == Init /\ [][Next]_vars

-----------------------------------------------------------------------------
(* Safety *)

TypeOK ==
  /\ row \in [Payout -> PayoutRow]
  /\ lines \subseteq Payout \X LedgerWriteType
  /\ recent \subseteq Payout
  /\ failed \in [Payout -> Nat]
  /\ noise \in [Payout -> Nat]
  /\ polls \in [Payout -> Nat]
  /\ rank \in [Payout -> Int]
  /\ held \in [Payout -> BOOLEAN]
  /\ batch \in [Payout -> Seq(BatchStatus)]
  /\ pc \in [Worker -> Label]
  /\ todo \in [Worker -> SUBSET Payout]
  /\ cur \in [Worker -> Payout \cup {NoPayout}]
  /\ seen \in [Worker -> PayoutRow]
  /\ mem \in [Worker -> Memory]
  /\ mode \in [Worker -> {"live", "dry", "stub"}]
  /\ faults \in Nat
  /\ clock \in Nat

\* The instructions of p that moved money or still may.
Paying(p) == {i \in DOMAIN batch[p] : batch[p][i] \in CanPay}

\* Money moves at most once.  However ticks overlap, crash, lose answers or
\* requeue, two instructions of one payout never can both be paid, even by a
\* rail that ignores the idempotency key ("two concurrent ticks can never
\* double-submit", pipeline.ts READY handler).
OnePayingInstruction ==
  \A p \in Payout : \A i, j \in Paying(p) : i = j

\* A payout that a tick may dispatch, or may requeue for dispatch, has no
\* instruction left at the rail that could pay (isRetrySafe: "no execution
\* occurred"), although rejections reach the row late.
RetrySafeIsUnpaid ==
  \A p \in Payout :
    row[p].status \in {"CREATED", "ELIGIBLE", "RESERVED", "VALIDATED", "READY"}
                        \cup FAILURE_STATUSES
      => Paying(p) = {}

\* COMPLETED and RECONCILED rest on provider evidence: the row names the
\* instruction that was paid.  Dry-run evidence never gets there.
SettledOnEvidence ==
  \A p \in Payout :
    row[p].status \in {"COMPLETED", "RECONCILED"} =>
      /\ row[p].txnId \in DOMAIN batch[p]
      /\ batch[p][row[p].txnId] = "paid"

\* The ledger and the statuses tell the same story after every transaction:
\* a payout past ELIGIBLE holds its reservation line, and the settled line
\* is there exactly when the payout is RECONCILED.
LedgerFollowsStatus ==
  \A p \in Payout :
    /\ <<p, "PAYOUT_RESERVED">> \in lines <=> row[p].status \notin {"CREATED", "ELIGIBLE"}
    /\ <<p, "PAYOUT_SETTLED">> \in lines <=> row[p].status = "RECONCILED"

\* At most MaxFailedSubmits failed submissions of a payout per UTC day, even
\* when the count is read long before the claim it guards.
ThrottleHolds == \A p \in Payout : failed[p] <= MaxFailedSubmits

\* Every change of status, by whichever tick and however old the status it
\* read, is a legal transition out of the status the row really has, and
\* moves the version by one; a row whose status stays is not touched.
LegalSteps ==
  [][\A p \in Payout : row'[p] # row[p] =>
       /\ <<row[p].status, row'[p].status>> \in LEGAL_TRANSITIONS
       /\ row'[p].version = row[p].version + 1]_vars

-----------------------------------------------------------------------------
(* The inductive invariant behind the safety properties *)

SubmitPhase ==
  {"submit", "awaitAnswer", "recordSubmitted", "recordRejected",
   "recordUnavailable", "recordAmbiguous"}

\* The statuses a request may be acting on at a label.
StatusesAt(label) ==
  CASE label \in {"checkHold", "markEligible"}  -> {"CREATED"}
    [] label \in {"checkBalance", "reserve"}    -> {"ELIGIBLE"}
    [] label \in {"validate", "markValidated"}  -> {"RESERVED"}
    [] label = "markReady"                      -> {"VALIDATED"}
    [] label \in {"checkThrottle", "claim"}     -> {"READY"}
    [] label \in SubmitPhase \cup {"interrupt"} -> {"SUBMITTING"}
    [] label \in {"noReference", "evidenceGap"} -> {"UNKNOWN"}
    [] label \in {"evidenceProcessing", "markProcessing"} -> {"SUBMITTED"}
    [] label = "evidenceCompleted"              -> {"PROCESSING", "UNKNOWN"}
    [] label = "reconcile"                      -> {"COMPLETED"}
    [] label \in {"checkRetry", "requeue"}      -> FAILURE_STATUSES
    [] OTHER                                    -> {"SUBMITTED", "PROCESSING", "UNKNOWN"}

\* Statuses from which a later tick may (again) claim the payout.
Open == {"CREATED", "ELIGIBLE", "RESERVED", "VALIDATED", "READY"} \cup FAILURE_STATUSES

\* Statuses a payout may be in while a claimed submit is still going on.
Busy == {"SUBMITTING", "UNKNOWN", "QUARANTINED", "COMPLETED", "RECONCILED"}

InHand(w) == pc[w] \notin {"idle", "load"}

Dead(p)      == \A i \in DOMAIN batch[p] : batch[p][i] \notin CanPay
Alone(p, i)  == /\ i \in DOMAIN batch[p]
                /\ \A j \in DOMAIN batch[p] : j # i => batch[p][j] \notin CanPay
IsRef(p, r)  == r \in {NoRequest, DryRun} \cup DOMAIN batch[p]
Backed(p, r) == (r = DryRun /\ Dead(p)) \/ Alone(p, r)

\* What a request read is the row's content for as long as the version agrees.
SnapshotOK(w) ==
  InHand(w) =>
    /\ cur[w] \in Payout
    /\ seen[w].status \in StatusesAt(pc[w])
    /\ IsRef(cur[w], seen[w].requestId)
    /\ seen[w].version <= row[cur[w]].version
    /\ seen[w].version = row[cur[w]].version =>
         /\ seen[w].status = row[cur[w]].status
         /\ seen[w].requestId = row[cur[w]].requestId

SubmitOK(w) ==
  pc[w] \in SubmitPhase =>
    /\ row[cur[w]].status \in Busy
    /\ pc[w] \in {"submit", "recordRejected", "recordUnavailable"} => Dead(cur[w])
    /\ pc[w] = "awaitAnswer" => Alone(cur[w], mem[w].req)
    /\ pc[w] = "recordSubmitted" => Backed(cur[w], mem[w].req)

VerdictOK(w) ==
  LET p == cur[w]
      r == seen[w].requestId
  IN  /\ pc[w] = "verdictFailed" =>
           r \in DOMAIN batch[p] /\ batch[p][r] \in {"refused", "denied"}
      /\ pc[w] \in {"evidenceProcessing", "evidenceCompleted"} =>
           r \in DOMAIN batch[p] /\ batch[p][r] = "paid"

\* A claim is held by one request.
OneSubmitter ==
  \A v, w \in Worker :
    /\ pc[v] \in SubmitPhase /\ pc[w] \in SubmitPhase
    /\ cur[v] = cur[w]
    => v = w

\* r is a content the row of p may have, given what is out at the rail.
RecordOK(p, r) ==
  /\ IsRef(p, r.requestId)
  /\ r.status \in Open => Dead(p)
  /\ r.status \in {"SUBMITTED", "PROCESSING"} => Backed(p, r.requestId)
  /\ r.status \in {"COMPLETED", "RECONCILED"} =>
       r.txnId \in DOMAIN batch[p] /\ batch[p][r.txnId] = "paid"

RowOK(p) == RecordOK(p, row[p])

\* Everything that relates rows, requests in progress and the rail.
Consistent ==
  /\ \A w \in Worker : SnapshotOK(w) /\ SubmitOK(w) /\ VerdictOK(w)
  /\ OneSubmitter
  /\ \A p \in Payout : RowOK(p)

-----------------------------------------------------------------------------
(* The promise this pipeline implements *)

Promise == INSTANCE PayoutPromise WITH
  stage  <- [p \in Payout |-> StageOf(row[p].status)],
  live   <- [p \in Payout |-> {i \in DOMAIN batch[p] : batch[p][i] \in {"sent", "pending"}}],
  paid   <- [p \in Payout |-> {i \in DOMAIN batch[p] : batch[p][i] = "paid"}],
  booked <- {p \in Payout : <<p, "PAYOUT_SETTLED">> \in lines}

\* Money moves as PayoutPromise says, whatever the ticks, crashes and answers
\* do: each step of the driver is one step of the promise or none.
KeepsPromise == Promise!Spec

-----------------------------------------------------------------------------
(* What the source says of itself and the code does not do *)

NetOf(ps) == MapThenSumSet(LAMBDA p : Net[p], ps)

\* ledger.ts canReserve: "Reservations can never push available negative".
\* An owner's reservations stay within the owner's opening credits.
ReservationsCovered ==
  \A o \in {Owner[p] : p \in Payout} \ {NoOwner} :
    NetOf({p \in Payout : Owner[p] = o /\ <<p, "PAYOUT_RESERVED">> \in lines})
      <= Credits({MapEntryRow(r) : r \in {x \in Opening : x.owner = o}})

-----------------------------------------------------------------------------
(* Liveness *)

\* Somebody calls the tick endpoint again and again (it is driven hourly), a
\* request goes on until it is done, and the rail gets round to what it got.
Fairness ==
  /\ \A w \in Worker : WF_vars(Step(w))
  /\ \A p \in Payout : WF_vars(RailReceives(p)) /\ WF_vars(RailDecides(p))

FairSpec == Spec /\ Fairness

\* An interrupted submit does not stay: the next ticks resolve it.
SubmittingResolves ==
  \A p \in Payout : row[p].status = "SUBMITTING" ~> row[p].status # "SUBMITTING"

\* An ambiguous payout does not stay ambiguous.
UnknownResolves ==
  \A p \in Payout :
    row[p].status = "UNKNOWN" ~> row[p].status \in {"RECONCILED", "QUARANTINED"}

\* "Completed payouts never dangle": evidence of payment ends in a settled
\* ledger line, across crashes between the two transactions.
CompletedIsBooked ==
  \A p \in Payout :
    row[p].status = "COMPLETED" ~> <<p, "PAYOUT_SETTLED">> \in lines

\* A payout that was reserved is not left behind by a tick that dies, or whose
\* queries fail, between the listing, the claim and the submit: a later tick
\* gets it to the rail, or the throttle stops it after failures.  This is said
\* of a list with room for it (Payout no larger than Limit).
ReservedIsDispatched ==
  \A p \in Payout :
    row[p].status = "VALIDATED" ~>
      batch[p] # <<>> \/ row[p].status \in {"UNKNOWN", "QUARANTINED"}
=============================================================================
