---------------------------- MODULE OpsResolver ----------------------------
(***************************************************************************)
(* The operations desk of the payout tables: the handlers of               *)
(* src/app/api/ops/resolve, its resolve_all run, the auto-pilot run of     *)
(* src/app/api/ops/auto-pilot, the approve endpoint, the sweep of          *)
(* phantom-quarantine.mjs, and the truth guards every write goes through.  *)
(*                                                                         *)
(* A handler reads its rows in one step and writes them one by one later,  *)
(* each from the copy it read and whatever the row has become: no update   *)
(* asks for a status or a version.  A run is a list of phases, each of     *)
(* which lists rows first and comes to them, in no given order, later.     *)
(***************************************************************************)
EXTENDS Naturals, FiniteSets

CONSTANTS
  Item, Batch,      \* rows
  BatchOf,          \* the batch of each item
  Misdirected,      \* items whose recipient matches no verified owner account
  AllowApproval,    \* AUTOPILOT_ALLOW_BATCH_APPROVAL
  FirstRow,         \* the rows an item may start as
  FirstBatch,       \* the rows a batch may start as
  Desk,             \* those who make single calls
  Run,              \* the resolve_all run, as a caller of handlers
  Idle,             \* a run that is not running
  NoCall,           \* a caller whose handler has returned
  MaxCalls          \* bound: single calls, receipts and runs, together

ASSUME BatchAssumption == BatchOf \in [Item -> Batch] /\ Misdirected \subseteq Item
ASSUME ApprovalAssumption == AllowApproval \in BOOLEAN
ASSUME CallerAssumption == Run \notin Desk
ASSUME BoundAssumption == MaxCalls \in Nat

VARIABLES
  item,    \* PayoutItem
  batch,   \* PayoutBatch
  recov,   \* completed PB-RECOVERY batches of an item; Many stands for more
  op,      \* the handler each caller is in
  all,     \* the resolve_all run: phase and rows left
  pilot,   \* the auto-pilot run: phase, rows left, what it has read
  calls    \* calls, receipts and runs so far

rows == <<item, batch, recov>>
vars == <<rows, op, all, pilot, calls>>

Caller == Desk \cup {Run}

-----------------------------------------------------------------------------
(* Rows.  A reference is abstracted to who recognises it.                  *)
(*   real   a provider's reference                                         *)
(*   minted made up by this code, and matched by every pattern             *)
(*   pp     made up by advance_paypal_batch: "PP-" and a batch number or a *)
(*          provider's batch id, which no pattern matches unless the id    *)
(*          begins with a digit                                            *)
(*   legacy TXRECON-..., of older runs: only the guards and the auto-pilot *)
(*          know it                                                        *)

Ref == {"none", "real", "minted", "pp", "legacy"}

ItemStatus == {"pending", "unclaimed", "processing", "failed",
               "awaiting", "needs_proof", "completed"}

\* misplaced: failureReason starts with MISPLACED; logged: a completed
\* withdrawal is in the transaction log.
ItemRow == [status : ItemStatus, tref : Ref, ext : Ref, misplaced : BOOLEAN, logged : BOOLEAN]

BatchStatus == {"pending_approval", "approved", "processing",
                "submitted_to_paypal", "failed", "completed"}

BatchRow == [status : BatchStatus, ref : {"none", "real"}]

ASSUME FirstAssumption == FirstRow \subseteq ItemRow /\ FirstBatch \subseteq BatchRow

Many == 2

Of(b)   == {i \in Item : BatchOf[i] = b}
Stat(i) == item[i].status

ItemsIn(ss)   == {i \in Item : Stat(i) \in ss}
BatchesIn(ss) == {b \in Batch : batch[b].status \in ss}

-----------------------------------------------------------------------------
(* References and guards *)

\* isSyntheticOrEmptyRef of the resolver says no.
ResolverReal == {"real", "pp", "legacy"}

\* isSyntheticRef of the guards says no.
GuardReal == {"real", "pp"}

\* isRealProviderRef of the auto-pilot says yes.
PilotReal == {"real", "pp"}

\* Mutant: the guards judge the row after the write, not the payload alone.
RowGuardAccepts(sent, row) ==
  sent \in GuardReal \/ \E f \in DOMAIN row \cap {"ext", "tref", "ref"} : row[f] \in GuardReal

\* auditMutation lets a completed item through when the payload itself
\* carries a reference; the payloads with one carry its proof hash as well.
GuardAccepts(sent, row) == sent \in GuardReal

\* Mutant: the guards share the resolver's list of patterns.
LenientRefused(sent, row) == row.status = "completed" /\ sent \notin ResolverReal

\* The guards refuse a write that makes this row with this reference in it.
Refused(sent, row) == row.status = "completed" /\ ~GuardAccepts(sent, row)

-----------------------------------------------------------------------------
(* What the resolver writes *)

\* buildPayoutItemWrite: failureReason is rewritten in both branches, and an
\* externalRef that is on the row is not looked at.
BuiltItem(row, preferred, fallback) ==
  IF preferred \in ResolverReal
  THEN [row EXCEPT !.status = "completed", !.tref = preferred, !.ext = preferred, !.misplaced = FALSE]
  ELSE [row EXCEPT !.status = "awaiting", !.tref = fallback, !.ext = "none", !.misplaced = FALSE]

\* A batch update; "keep" leaves the reference out of the payload.
BatchWrite == [status : BatchStatus, ref : {"none", "real", "keep"}]

Only(status) == [status |-> status, ref |-> "keep"]

Written(row, write) ==
  [status |-> write.status, ref |-> IF write.ref = "keep" THEN row.ref ELSE write.ref]

\* buildPayoutBatchWrite without a fallback.
BuiltBatch(row) ==
  [status |-> IF row.ref = "real" THEN "completed" ELSE "processing", ref |-> row.ref]

-----------------------------------------------------------------------------
(* The handlers.  A call is what its variables hold between two awaits:    *)
(*   at     the batch, or the item of a recovery                           *)
(*   seen   the items still to write, as they were read                    *)
(*   row    the batch as it was read                                       *)
(*   bare   what it has read or written lacks a receipt                    *)
(*   write  the update it will make of the batch                           *)

Act == {"retry", "flag", "advance", "recalculate", "retryBatch", "paypal", "recover", "approve"}

Call(act, b, todo) ==
  [act |-> act, at |-> b, seen |-> [i \in todo |-> item[i]], row |-> batch[b],
   bare |-> FALSE, write |-> Only("processing"), pc |-> "items"]

ToBatch(k, write) == [k EXCEPT !.write = write, !.pc = "batch"]

\* Where a handler goes when its items are written.
AfterItems(k) ==
  CASE k.act = "retry" -> IF k.row.status = "failed" THEN [k EXCEPT !.pc = "failed"] ELSE NoCall
    [] k.act = "advance" -> [k EXCEPT !.pc = "failed"]
    [] k.act = "retryBatch" -> ToBatch(k, BuiltBatch(k.row))
    [] k.act = "paypal" ->
         ToBatch(k, IF k.bare THEN [BuiltBatch(k.row) EXCEPT !.status = "processing"] ELSE BuiltBatch(k.row))
    [] k.act = "recover" -> IF k.bare THEN NoCall ELSE [k EXCEPT !.pc = "recovery"]
    [] OTHER -> NoCall

Proceed(k) == IF DOMAIN k.seen = {} THEN AfterItems(k) ELSE k

Goes(c, k) == op' = [op EXCEPT ![c] = k]
Reads(c, k) == Goes(c, Proceed(k)) /\ UNCHANGED rows

\* retryItem: no status is asked for.
RetryItem(c, i) == Reads(c, Call("retry", BatchOf[i], {i}))

\* flagPaymentMethod: the same write from the item's own reference.
FlagPaymentMethod(c, i) == Reads(c, Call("flag", BatchOf[i], {i}))

\* Mutant: items that wait for a receipt are taken for stale ones.
BroadAdvanceBatch(c, b) ==
  Reads(c, Call("advance", b, Of(b) \cap ItemsIn({"pending", "unclaimed", "processing", "awaiting"})))

\* advanceBatch: the batch follows its own reference, not its items.
AdvanceBatch(c, b) ==
  Reads(c, Call("advance", b, Of(b) \cap ItemsIn({"pending", "unclaimed", "processing"})))

\* retryBatch: failed items only; the batch is not held back by the others.
RetryBatch(c, b) == Reads(c, Call("retryBatch", b, Of(b) \cap ItemsIn({"failed"})))

\* advancePaypalBatch: waits for the items, and leaves them a pp reference.
AdvancePaypalBatch(c, b) == Reads(c, Call("paypal", b, Of(b) \cap ItemsIn({"processing", "pending"})))

\* recalculateBatch: the status of the items as read, and no reference.
RecalculateBatch(c, b) ==
  LET some(ss) == \E i \in Of(b) : Stat(i) \in ss
      status   == IF some({"failed"}) THEN "failed"
                  ELSE IF some(ItemStatus \ {"completed"}) THEN "processing" ELSE "completed"
  IN  Goes(c, ToBatch(Call("recalculate", b, {}), Only(status))) /\ UNCHANGED rows

\* recoverMisplaced returns when the recipient is an owner account.
RecoverMisplaced(c, i) ==
  i \in Misdirected /\ Reads(c, [Call("recover", BatchOf[i], {i}) EXCEPT !.at = i])

\* POST of payout-batches/approve: the status is asked for in the read only.
ApproveBatch(c, b) ==
  /\ batch[b].status = "pending_approval"
  /\ Goes(c, ToBatch(Call("approve", b, {}), Only("approved")))
  /\ UNCHANGED rows

\* reconcileTransaction: writes the log the item should have come with, and
\* nothing of what it read but the amount.
ReconcileTransaction(i) ==
  /\ item' = [item EXCEPT ![i].logged = TRUE]
  /\ UNCHANGED <<batch, recov, op>>

-----------------------------------------------------------------------------
(* The steps of a handler after its read *)

Busy(c, pc) == op[c] # NoCall /\ op[c].pc = pc

\* Mutant: a retry always asks for a new reference.
FreshRetryRef(row) == "minted"

\* preferredTransactionRef of a retry: item.transactionRef || syntheticTxRef.
RetryRef(row) == IF row.tref = "none" THEN "minted" ELSE row.tref

\* The rows one item may be rewritten to: what was read, with the outcome;
\* recoverMisplaced leaves the references and the log alone.
Rewrites(k, i) ==
  LET was == k.seen[i]
      out == CASE k.act \in {"retry", "retryBatch"} -> {BuiltItem(was, RetryRef(was), "minted")}
               [] k.act = "paypal" ->
                    {BuiltItem(was, was.tref, r) : r \in IF k.row.ref = "none" THEN {"pp"} ELSE {"pp", "minted"}}
               [] k.act = "recover" -> {[item[i] EXCEPT !.status = "failed", !.misplaced = TRUE]}
               [] OTHER -> {BuiltItem(was, was.tref, "minted")}
  IN  {[row EXCEPT !.logged = item[i].logged] : row \in out}

LeavesBare(k, i, row) ==
  \/ k.act = "paypal"  /\ row.status # "completed"
  \/ k.act = "recover" /\ k.seen[i].ext \notin ResolverReal

\* A refused write throws out of the handler; nothing of resolve_all catches it.
Throws(c) ==
  /\ Goes(c, NoCall)
  /\ all' = IF c = Run THEN Idle ELSE all
  /\ UNCHANGED rows

\* The next item of the loop is updated by its id alone.
WriteItem(c) ==
  /\ Busy(c, "items")
  /\ \E i \in DOMAIN op[c].seen : \E row \in Rewrites(op[c], i) :
       LET k    == op[c]
           left == [j \in DOMAIN k.seen \ {i} |-> k.seen[j]]
       IN  IF Refused(row.tref, row)
           THEN Throws(c)
           ELSE /\ item' = [item EXCEPT ![i] = row]
                /\ Goes(c, Proceed([k EXCEPT !.seen = left, !.bare = @ \/ LeavesBare(k, i, row)]))
                /\ UNCHANGED <<batch, recov, all>>
  /\ UNCHANGED <<pilot, calls>>

FailedIn(b) == \E i \in Of(b) : Stat(i) = "failed"

\* payoutItem.count of the failed items: retryItem leaves the batch alone
\* while there are any, advanceBatch leaves it open.
CountFailed(c) ==
  /\ Busy(c, "failed")
  /\ LET k == op[c]
     IN  Goes(c, CASE k.act = "retry" -> IF FailedIn(k.at) THEN NoCall ELSE [k EXCEPT !.pc = "accounted"]
                   [] OTHER -> ToBatch(k, IF FailedIn(k.at) THEN Only("processing") ELSE BuiltBatch(k.row)))
  /\ UNCHANGED <<rows, all, pilot, calls>>

\* retryItem counts the items that are accounted for against all of them.
CountAccounted(c) ==
  /\ Busy(c, "accounted")
  /\ LET k  == op[c]
         ok == Of(k.at) \subseteq ItemsIn({"completed", "processing", "awaiting", "needs_proof"})
     IN  Goes(c, ToBatch(k, IF ok THEN BuiltBatch(k.row) ELSE Only("processing")))
  /\ UNCHANGED <<rows, all, pilot, calls>>

\* Mutant: recalculateBatch writes around the guards.
RawWriteBatch(c) ==
  /\ Busy(c, "batch")
  /\ LET k   == op[c]
         row == Written(batch[k.at], k.write)
     IN  IF k.act # "recalculate" /\ Refused(k.write.ref, row)
         THEN Throws(c)
         ELSE batch' = [batch EXCEPT ![k.at] = row] /\ Goes(c, NoCall) /\ UNCHANGED <<item, recov, all>>
  /\ UNCHANGED <<pilot, calls>>

\* The last update of a handler, by the batch's id alone.
WriteBatch(c) ==
  /\ Busy(c, "batch")
  /\ LET k   == op[c]
         row == Written(batch[k.at], k.write)
     IN  IF Refused(k.write.ref, row)
         THEN Throws(c)
         ELSE batch' = [batch EXCEPT ![k.at] = row] /\ Goes(c, NoCall) /\ UNCHANGED <<item, recov, all>>
  /\ UNCHANGED <<pilot, calls>>

\* recoverMisplaced makes a recovery batch, completed because the misplaced
\* payment itself had a real receipt when it was read.  The payout of the
\* recovery has no revenue event and is always refused.
WriteRecovery(c) ==
  /\ Busy(c, "recovery")
  /\ recov' = [recov EXCEPT ![op[c].at] = IF @ < Many THEN @ + 1 ELSE Many]
  /\ Goes(c, NoCall)
  /\ UNCHANGED <<item, batch, all, pilot, calls>>

HandlerStep(c) ==
  WriteItem(c) \/ CountFailed(c) \/ CountAccounted(c) \/ WriteBatch(c) \/ WriteRecovery(c)

-----------------------------------------------------------------------------
(* resolve_all: phase p lists its rows and calls one handler for each.     *)

LastAll == 7

AllRows(p) ==
  CASE p = 1 -> ItemsIn({"failed"})
    [] p = 2 -> BatchesIn({"approved", "processing"})
    [] p = 3 -> BatchesIn({"failed"})
    [] p = 4 -> BatchesIn({"submitted_to_paypal"})
    [] p = 5 -> ItemsIn({"unclaimed"})
    [] p = 6 -> ItemsIn({"completed"})
    [] p = 7 -> ItemsIn({"completed"}) \cap Misdirected

AllHandler(p, x) ==
  \/ p \in {1, 5} /\ RetryItem(Run, x)
  \/ p = 2 /\ AdvanceBatch(Run, x)
  \/ p = 3 /\ RetryBatch(Run, x)
  \/ p = 4 /\ AdvancePaypalBatch(Run, x)
  \/ p = 6 /\ ReconcileTransaction(x)
  \/ p = 7 /\ RecoverMisplaced(Run, x)

StartAll ==
  /\ all = Idle
  /\ all' = [phase |-> 1, todo |-> AllRows(1)]
  /\ UNCHANGED <<rows, op, pilot>>

AllCall ==
  /\ all # Idle /\ op[Run] = NoCall
  /\ \E x \in all.todo :
       /\ AllHandler(all.phase, x)
       /\ all' = [all EXCEPT !.todo = @ \ {x}]
  /\ UNCHANGED <<pilot, calls>>

AllNextPhase ==
  /\ all # Idle /\ op[Run] = NoCall
  /\ all.todo = {}
  /\ all' = IF all.phase = LastAll THEN Idle
            ELSE [phase |-> all.phase + 1, todo |-> AllRows(all.phase + 1)]
  /\ UNCHANGED <<rows, op, pilot, calls>>

-----------------------------------------------------------------------------
(* The auto-pilot.  What its run holds:                                    *)
(*   todo  rows of the phase it has not come to                            *)
(*   read  items it has read and will write                                *)
(*   real  the items that had a provider's reference when it read them     *)
(*   held  an item of this phase was parked                                *)
(*   at    the batch it is in, and next, the status it will give it        *)

LastPilot == 9

HasRealRef(i) == item[i].ext \in PilotReal \/ item[i].tref \in PilotReal

RealNow == {i \in Item : HasRealRef(i)}

\* Open items of the batches in status bs, and the batches with none.
OpenIn(bs, ss) == {i \in ItemsIn(ss) : BatchOf[i] \in BatchesIn({bs})}
NoneIn(bs, ss) == {b \in BatchesIn({bs}) : Of(b) \cap ItemsIn(ss) = {}}

\* Items that come with the list of the phase, and are written one by one.
PilotRead(p) ==
  CASE p = 2 -> OpenIn("approved", {"failed", "pending"})
    [] p = 3 -> OpenIn("processing", {"processing", "pending"})
    [] p = 4 -> ItemsIn({"failed"})
    [] p = 6 -> OpenIn("submitted_to_paypal", {"processing", "pending"})
    [] p = 7 -> ItemsIn({"unclaimed"})
    [] p = 9 -> {i \in ItemsIn({"completed"}) : item[i].ext = "none"}
    [] OTHER -> {}

\* Batches, and in phase 8 the items of the completed withdrawals.
PilotTodo(p) ==
  CASE p = 1 -> IF AllowApproval THEN BatchesIn({"pending_approval"}) ELSE {}
    [] p = 2 -> NoneIn("approved", {"failed", "pending"})
    [] p = 3 -> BatchesIn({"processing"})
    [] p = 5 -> BatchesIn({"failed"})
    [] p = 6 -> NoneIn("submitted_to_paypal", {"processing", "pending"})
    [] p = 8 -> {i \in Item : item[i].logged}
    [] OTHER -> {}

EnterPilot(p) ==
  [phase |-> p, todo |-> PilotTodo(p), read |-> PilotRead(p), real |-> RealNow,
   held |-> FALSE, at |-> {}, next |-> "processing"]

StartPilot ==
  /\ pilot = Idle
  /\ pilot' = EnterPilot(1)
  /\ UNCHANGED <<rows, op, all>>

PilotIn(ps) == pilot # Idle /\ pilot.phase \in ps

\* A phase that throws is caught: its other rows wait for the next run.
PhaseThrows == pilot' = [pilot EXCEPT !.todo = {}, !.read = {}, !.at = {}, !.next = "processing"]

Park(row) == [row EXCEPT !.status = "needs_proof", !.misplaced = FALSE]

\* completeWithRealProof, judging the item by what was read of it: the payload
\* that would complete one with a reference carries none.
CompleteWithRealProof(i) ==
  LET done == [item[i] EXCEPT !.status = "completed", !.misplaced = FALSE]
  IN  /\ PilotIn({2, 3, 4, 5, 6, 7, 8}) /\ i \in pilot.read
      /\ pilot.phase = 3 => pilot.at = {}
      /\ IF i \in pilot.real /\ Refused("none", done)
         THEN PhaseThrows /\ UNCHANGED item
         ELSE /\ item' = [item EXCEPT ![i] = IF i \in pilot.real THEN done ELSE Park(@)]
              /\ pilot' = [pilot EXCEPT !.read = @ \ {i}, !.held = @ \/ i \notin pilot.real]
      /\ UNCHANGED <<batch, recov, op, all, calls>>

\* Mutant: the sweep writes a status that no reader knows.
OddQuarantine(i) ==
  /\ PilotIn({9}) /\ i \in pilot.read
  /\ item' = [item EXCEPT ![i].status = "quarantined"]
  /\ pilot' = [pilot EXCEPT !.read = @ \ {i}]
  /\ UNCHANGED <<batch, recov, op, all, calls>>

\* quarantinePayoutItems: a completed row without an externalRef, as read.
Quarantine(i) ==
  /\ PilotIn({9}) /\ i \in pilot.read
  /\ item' = [item EXCEPT ![i].status = "needs_proof"]
  /\ pilot' = [pilot EXCEPT !.read = @ \ {i}]
  /\ UNCHANGED <<batch, recov, op, all, calls>>

\* autoApproveBatches: every item proven, and the amount within the threshold.
PilotApprove(b) ==
  /\ PilotIn({1}) /\ b \in pilot.todo
  /\ \E within \in BOOLEAN :
       batch' = IF within /\ Of(b) # {} /\ Of(b) \subseteq pilot.real
                THEN [batch EXCEPT ![b].status = "approved"] ELSE batch
  /\ pilot' = [pilot EXCEPT !.todo = @ \ {b}]
  /\ UNCHANGED <<item, recov, op, all, calls>>

\* A batch update of the auto-pilot, with no reference in the payload.
PilotSets(b, status) ==
  LET row == Written(batch[b], Only(status))
  IN  /\ IF Refused("none", row)
         THEN PhaseThrows /\ UNCHANGED batch
         ELSE /\ batch' = [batch EXCEPT ![b] = row]
              /\ pilot' = [pilot EXCEPT !.todo = @ \ {b}, !.at = {}, !.next = "processing"]
      /\ UNCHANGED <<item, recov, op, all, calls>>

\* A batch listed without open items is completed, in advanceApprovedBatches
\* and advancePaypalBatches.
PilotCompleteBatch(b) == PilotIn({2, 6}) /\ b \in pilot.todo /\ PilotSets(b, "completed")

\* advanceProcessingBatches reads the items again when it has been through them.
PilotRecalculate(b) ==
  LET done == ~pilot.held /\ Of(b) \subseteq ItemsIn({"completed"})
  IN  /\ PilotIn({3}) /\ b \in pilot.todo /\ pilot.at = {}
      /\ Of(b) \cap pilot.read = {}
      /\ pilot' = [pilot EXCEPT !.at = {b},
                     !.next = IF FailedIn(b) THEN "failed" ELSE IF done THEN "completed" ELSE "processing"]
      /\ UNCHANGED <<rows, op, all, calls>>

PilotSetStatus(b) == PilotIn({3}) /\ b \in pilot.at /\ PilotSets(b, pilot.next)

\* retryFailedBatches reads the open items when it comes to the batch.
PilotRetryBatch(b) ==
  /\ PilotIn({5}) /\ b \in pilot.todo /\ pilot.at = {}
  /\ pilot' = [pilot EXCEPT !.at = {b}, !.real = RealNow,
                 !.read = Of(b) \cap ItemsIn({"failed", "pending", "processing"})]
  /\ UNCHANGED <<rows, op, all, calls>>

\* ... and all of them again when it has been through those: with none parked
\* and all completed it goes on to complete the batch, else leaves it failed.
PilotCheckBatch(b) ==
  /\ PilotIn({5}) /\ b \in pilot.at /\ pilot.read = {} /\ pilot.next = "processing"
  /\ IF ~pilot.held /\ Of(b) \subseteq ItemsIn({"completed"})
     THEN pilot' = [pilot EXCEPT !.next = "completed"]
     ELSE pilot' = [pilot EXCEPT !.todo = @ \ {b}, !.at = {}]
  /\ UNCHANGED <<rows, op, all, calls>>

PilotCloseBatch(b) ==
  PilotIn({5}) /\ b \in pilot.at /\ pilot.next = "completed" /\ PilotSets(b, "completed")

\* reconcileTransactions reads the item of a completed withdrawal when it comes
\* to it, and passes over completed and misplaced ones.
PilotReconcile(i) ==
  /\ PilotIn({8}) /\ i \in pilot.todo /\ pilot.read = {}
  /\ pilot' = [pilot EXCEPT !.todo = @ \ {i}, !.real = RealNow,
                 !.read = IF Stat(i) = "completed" \/ item[i].misplaced THEN {} ELSE {i}]
  /\ UNCHANGED <<rows, op, all, calls>>

PilotNextPhase ==
  /\ pilot # Idle
  /\ pilot.todo = {} /\ pilot.read = {} /\ pilot.at = {}
  /\ pilot' = IF pilot.phase = LastPilot THEN Idle ELSE EnterPilot(pilot.phase + 1)
  /\ UNCHANGED <<rows, op, all, calls>>

PilotStep ==
  \/ \E i \in Item : CompleteWithRealProof(i) \/ PilotReconcile(i) \/ Quarantine(i)
  \/ \E b \in Batch : \/ PilotApprove(b) \/ PilotCompleteBatch(b)
                      \/ PilotRecalculate(b) \/ PilotSetStatus(b)
                      \/ PilotRetryBatch(b) \/ PilotCheckBatch(b) \/ PilotCloseBatch(b)
  \/ PilotNextPhase

-----------------------------------------------------------------------------
(* Single calls, approvals and receipts *)

\* POST of the resolver with one action, or of payout-batches/approve.
OpCall(d) ==
  /\ op[d] = NoCall
  /\ \/ \E i \in Item : \/ RetryItem(d, i)
                        \/ FlagPaymentMethod(d, i)
                        \/ ReconcileTransaction(i)
                        \/ RecoverMisplaced(d, i)
     \/ \E b \in Batch : \/ AdvanceBatch(d, b)
                         \/ RecalculateBatch(d, b)
                         \/ RetryBatch(d, b)
                         \/ AdvancePaypalBatch(d, b)
                         \/ ApproveBatch(d, b)
  /\ UNCHANGED <<all, pilot>>

\* The review queue or a webhook puts a provider's reference on the row.
AttachReceipt(i) ==
  /\ Stat(i) # "completed"
  /\ \/ item' = [item EXCEPT ![i].tref = "real"]
     \/ item' = [item EXCEPT ![i].ext = "real"]
  /\ item' # item
  /\ UNCHANGED <<batch, recov, op, all, pilot>>

Init ==
  /\ item \in [Item -> FirstRow]
  /\ batch \in [Batch -> FirstBatch]
  /\ recov = [i \in Item |-> 0]
  /\ op = [c \in Caller |-> NoCall]
  /\ all = Idle
  /\ pilot = Idle
  /\ calls = 0

Single ==
  \/ StartAll \/ StartPilot
  \/ \E d \in Desk : OpCall(d)
  \/ \E i \in Item : AttachReceipt(i)

Next ==
  \/ calls < MaxCalls /\ calls' = calls + 1 /\ Single
  \/ \E c \in Caller : HandlerStep(c)
  \/ AllCall \/ AllNextPhase
  \/ PilotStep

Spec == Init /\ [][Next]_vars

-----------------------------------------------------------------------------
(* Properties *)

CallRow ==
  [act : Act, at : Item \cup Batch, seen : UNION {[S -> ItemRow] : S \in SUBSET Item},
   row : BatchRow, bare : BOOLEAN, write : BatchWrite,
   pc : {"items", "failed", "accounted", "batch", "recovery"}]

AllRun == [phase : {1, 5, 6, 7}, todo : SUBSET Item] \cup [phase : {2, 3, 4}, todo : SUBSET Batch]

PilotRun ==
  [phase : 1..LastPilot, todo : SUBSET (Item \cup Batch), read : SUBSET Item,
   real : SUBSET Item, held : BOOLEAN, at : SUBSET Batch,
   next : {"failed", "processing", "completed"}]

\* The rows stay rows of their types, and handlers and runs work on rows.
TypeOK ==
  /\ item \in [Item -> ItemRow]
  /\ batch \in [Batch -> BatchRow]
  /\ recov \in [Item -> 0..Many]
  /\ op \in [Caller -> CallRow \cup {NoCall}]
  /\ all \in AllRun \cup {Idle}
  /\ pilot \in PilotRun \cup {Idle}
  /\ calls \in Nat

ReceiptOf(row) == IF row.ext # "none" THEN row.ext ELSE row.tref
Receipt(i)     == ReceiptOf(item[i])

\* The tables start without phantoms: the rows that the guards would refuse and
\* that are older than the guards are what the sweep is for.
NoPhantoms ==
  /\ \A row \in FirstRow : row.status = "completed" => ReceiptOf(row) \in GuardReal
  /\ \A row \in FirstBatch : row.status = "completed" => row.ref = "real"

\* What buildPayoutItemWrite says of itself: no item is ever completed on an
\* empty or a made-up reference.  It fails: see OnlyPaypalRefSlips.
NeverSynthetic == \A i \in Item : Stat(i) = "completed" => Receipt(i) = "real"

\* However calls and runs interleave, write from outdated reads or are cut
\* short, a completed item carries a provider's reference or the one made-up
\* reference that is on no list, that of advance_paypal_batch: none of the
\* other references this code mints completes an item.
OnlyPaypalRefSlips == \A i \in Item : Stat(i) = "completed" => Receipt(i) \in {"real", "pp"}

\* A completed batch carries a provider's batch reference, whichever of the
\* handlers completed it, those that recalculate it from its items too.
CompletedBatchIsProven == \A b \in Batch : batch[b].status = "completed" => batch[b].ref = "real"

\* The auto-pilot completes no item and no batch: its payloads never carry the
\* reference that is on the row, and the guards judge the payload.
AutoPilotCompletesNothing ==
  [][pilot' # pilot =>
       /\ \A i \in Item : item'[i].status = "completed" => Stat(i) = "completed"
       /\ \A b \in Batch : batch'[b].status = "completed" => batch[b].status = "completed"]_vars

\* The handler c is in has read item i and is still to write it; it has now.
Holds(c, i) == op[c] # NoCall /\ i \in DOMAIN op[c].seen
Wrote(c, i) == Holds(c, i) /\ ~Holds(c, i)'

\* A provider's transaction reference is lost only to an outdated read: the
\* handler that writes over it read the row before the reference was on it.
\* No handler, run or phase that has seen one ever replaces it.
RealRefLostToStaleReadOnly ==
  [][\A i \in Item :
       item[i].tref = "real" /\ item'[i].tref # "real"
         => \E c \in Caller : Wrote(c, i) /\ op[c].seen[i].tref # "real"]_vars

Waiting == {"awaiting", "needs_proof"}

\* An item that waits for a receipt is completed by a call about that item
\* (retry, flag), or by a handler of its batch that read it before it came to
\* wait: no batch handler takes up an item it sees waiting.
WaitingNeedsAHand ==
  [][\A i \in Item :
       Stat(i) \in Waiting /\ item'[i].status = "completed"
         => \E c \in Caller : /\ Wrote(c, i)
                              /\ op[c].act \in {"retry", "flag"} \/ op[c].seen[i].status \notin Waiting]_vars
=============================================================================
