--------------------------- MODULE PayoutWebhooks ---------------------------
(***************************************************************************)
(* One payout batch at PayPal and its rows in the ledger: the command that *)
(* submits it (emit-revenue-events.mjs), the webhook server that is told   *)
(* of its items (paypal-webhook-server.mjs), the daemon's sync, and the    *)
(* operator who approves and cancels.  They share the rows and nothing     *)
(* else: every read and every write of a row is a step of its own.         *)
(*                                                                         *)
(* PayPal takes a sender_batch_id once, decides the items in its own time, *)
(* and may deliver an event it has posted at any time, in any order and    *)
(* again.                                                                  *)
(***************************************************************************)
EXTENDS Naturals, FiniteSets

CONSTANTS
  Item,        \* the items of the batch
  Handler,     \* webhook requests that can be in progress at once
  Nothing,     \* no event
  Verdicts,    \* what PayPal may decide of each item here
  Busy,        \* do as many batches follow as the daemon looks at in a pass
  MaxIncidents \* approvals, cancellations, crashes, lost answers, and reads
               \* and writes that fail

\* What the events PAYMENT.PAYOUTS-ITEM.* are mapped to.
Verdict == {"success", "failed", "unclaimed", "refunded"}
ASSUME VerdictsAssumption == Verdicts \in [Item -> SUBSET Verdict]

\* PAYMENT.PAYOUTSBATCH.SUCCESS, and one event for each verdict on an item.
BatchEvent == <<Nothing, "completed">>
Event == (Item \X Verdict) \cup {BatchEvent}

ItemStatus == Verdict \cup {"pending", "processing", "cancelled"}
ItemRow == [status : ItemStatus, known : BOOLEAN]

BatchStatus == {"pending_approval", "approved", "submitted_to_paypal", "completed",
                "failed", "cancelled"}
BatchRow == [status : BatchStatus, id : BOOLEAN, said : BOOLEAN]

VARIABLES
  item,     \* PayoutItem: its status, and whether its PayPal id is known
  batch,    \* PayoutBatch: its status, and from its notes whether the PayPal
            \* id is there and the PayPal status says SUCCESS
  rev,      \* status of the revenue event an item pays out
  rows,     \* withdrawals in the transaction log for an item
  truth,    \* PayPal: the item's status
  paid,     \* PayPal: the items that were a success at some time
  mail,     \* PayPal: the events posted
  newest,   \* other batches: this one is still among the newest the daemon looks at
  done,     \* webhook server: the dedupe store
  job,      \* webhook server: the requests in progress
  submit, sync, cancel,   \* the three commands
  blind,    \* history: items whose withdrawal was looked for in vain while it
            \* was being created, or by a query that failed
  incidents   \* how many there were

rowVars  == <<item, batch, rev, rows>>
outside  == <<truth, paid, mail, newest>>
server   == <<done, job, blind>>
commands == <<submit, sync, cancel>>
vars == <<rowVars, outside, server, commands, incidents>>

Idle == [pc |-> "idle", todo |-> {}]
\* A request: its next step, its event, and what it has read of the batch's notes.
Job(pc, ev, said) == [pc |-> pc, ev |-> ev, said |-> said]
NoJob == Job("idle", Nothing, FALSE)

Incident == incidents < MaxIncidents /\ incidents' = incidents + 1

Status(i) == item[i].status
ItemOf(h) == job[h].ev[1]
VerdictOf(h) == job[h].ev[2]

Goto(h, pc) == job' = [job EXCEPT ![h] = Job(pc, @.ev, @.said)]
SetStatus(i, s) == item' = [item EXCEPT ![i].status = s]
SetBatch(s) == batch' = [batch EXCEPT !.status = s]

AllFinal == \A i \in Item : Status(i) \notin {"pending", "processing"}
AllSuccess == \A i \in Item : Status(i) = "success"

\* Mutant: a batch is completed when its items are final.
OptimisticRollUp == IF AllFinal THEN "completed" ELSE "none"

\* Where the items found final lead: the status the batch is given next.
RollUp == IF ~AllFinal THEN "none" ELSE IF AllSuccess THEN "completed" ELSE "failed"

-----------------------------------------------------------------------------
(* PayPal *)

Follows(s) ==
  CASE s = "pending"   -> {"success", "failed", "unclaimed"}
    [] s = "unclaimed" -> {"success", "refunded"}
    [] s = "success"   -> {"refunded"}
    [] OTHER           -> {}

Decide(i, v) ==
  /\ v \in Follows(truth[i]) \cap Verdicts[i]
  /\ truth' = [truth EXCEPT ![i] = v]
  /\ paid' = IF v = "success" THEN paid \cup {i} ELSE paid
  /\ mail' = mail \cup {<<i, v>>}
                  \cup (IF \A j \in Item : truth'[j] # "pending" THEN {BatchEvent} ELSE {})
  /\ UNCHANGED <<rowVars, newest, server, commands, incidents>>

-----------------------------------------------------------------------------
(* The webhook server *)

\* Mutant: the event is marked as done before it is applied.
EagerDeliver(h, e) ==
  /\ job[h] = NoJob
  /\ e \in mail \ done
  /\ job' = [job EXCEPT ![h] = Job(IF e = BatchEvent THEN "readBatch" ELSE "read", e, FALSE)]
  /\ done' = done \cup {e}
  /\ UNCHANGED <<rowVars, outside, blind, commands, incidents>>

\* A verified event that the dedupe store does not know.
Deliver(h, e) ==
  /\ job[h] = NoJob
  /\ e \in mail \ done
  /\ job' = [job EXCEPT ![h] = Job(IF e = BatchEvent THEN "readBatch" ELSE "read", e, FALSE)]
  /\ UNCHANGED <<rowVars, outside, done, blind, commands, incidents>>

Allowed(from) ==
  CASE from = "pending"    -> Verdict \cup {"processing", "cancelled"}
    [] from = "processing" -> Verdict \cup {"cancelled"}
    [] from = "unclaimed"  -> {"refunded", "cancelled"}
    [] OTHER               -> {}

IsValidItemStatusTransition(from, to) == from = to \/ to \in Allowed(from)

\* An item that is not found, or may not move, is answered with 200.
ReadItem(h) ==
  /\ job[h].pc = "read"
  /\ LET applies == /\ item[ItemOf(h)].known
                    /\ IsValidItemStatusTransition(Status(ItemOf(h)), VerdictOf(h))
     IN  Goto(h, IF applies THEN "write" ELSE "turned down")
  /\ UNCHANGED <<rowVars, outside, done, blind, commands, incidents>>

WriteItem(h) ==
  /\ job[h].pc = "write"
  /\ SetStatus(ItemOf(h), VerdictOf(h))
  /\ Goto(h, "notes")
  /\ UNCHANGED <<batch, rev, rows, outside, done, blind, commands, incidents>>

\* The batch's notes are read, changed and written back: what the sync writes in
\* them meanwhile is lost.  A write that fails is passed over.
ReadNotes(h) ==
  /\ job[h].pc = "notes"
  /\ job' = [job EXCEPT ![h] = Job("writeNotes", @.ev, batch.said)]
  /\ UNCHANGED <<rowVars, outside, done, blind, commands, incidents>>

WriteNotes(h) ==
  /\ job[h].pc = "writeNotes"
  /\ \/ batch' = [batch EXCEPT !.said = job[h].said] /\ UNCHANGED incidents
     \/ Incident /\ UNCHANGED batch
  /\ job' = [job EXCEPT ![h] = Job(IF VerdictOf(h) = "success" THEN "revenue" ELSE "list", @.ev, FALSE)]
  /\ UNCHANGED <<item, rev, rows, outside, done, blind, commands>>

\* A write of the revenue event that fails is passed over, too.
WriteRevenue(h, from, s, next) ==
  /\ job[h].pc = from
  /\ Goto(h, next)
  /\ \/ rev' = [rev EXCEPT ![ItemOf(h)] = s] /\ UNCHANGED incidents
     \/ Incident /\ UNCHANGED rev
  /\ UNCHANGED <<item, batch, rows, outside, done, blind, commands>>

MarkPaidOut(h) == WriteRevenue(h, "revenue", "paid_out", "find")

Creating(i) == \E g \in Handler : job[g].pc = "create" /\ ItemOf(g) = i

\* Mutant: the withdrawal is created without a lookup.
EagerFindWithdrawal(h) ==
  /\ job[h].pc = "find"
  /\ Goto(h, "create")
  /\ UNCHANGED <<rowVars, outside, done, blind, commands, incidents>>

\* A lookup that fails counts as one that finds nothing.
FindWithdrawal(h) ==
  LET i == ItemOf(h)
  IN  /\ job[h].pc = "find"
      /\ \/ /\ Goto(h, IF rows[i] > 0 THEN "list" ELSE "create")
            /\ blind' = IF Creating(i) THEN blind \cup {i} ELSE blind
            /\ UNCHANGED incidents
         \/ Incident /\ Goto(h, "create") /\ blind' = blind \cup {i}
      /\ UNCHANGED <<rowVars, outside, done, commands>>

CreateWithdrawal(h) ==
  /\ job[h].pc = "create"
  /\ rows' = [rows EXCEPT ![ItemOf(h)] = @ + 1]
  /\ Goto(h, "list")
  /\ UNCHANGED <<item, batch, rev, outside, done, blind, commands, incidents>>

ListItems(h) ==
  /\ job[h].pc = "list"
  /\ Goto(h, IF RollUp = "none" THEN "ack" ELSE RollUp)
  /\ UNCHANGED <<rowVars, outside, done, blind, commands, incidents>>

WriteRollUp(h) ==
  /\ job[h].pc \in {"completed", "failed"}
  /\ SetBatch(job[h].pc)
  /\ Goto(h, IF job[h].pc = "completed" THEN "confirm" ELSE "ack")
  /\ UNCHANGED <<item, rev, rows, outside, done, blind, commands, incidents>>

\* The revenue event of the last item goes back to confirmed.
ConfirmRevenue(h) == WriteRevenue(h, "confirm", "confirmed", "ack")

\* Of the statuses a batch can have, only "completed" may move to "completed".
ReadBatch(h) ==
  /\ job[h].pc = "readBatch"
  /\ LET applies == batch.id /\ batch.status = "completed"
     IN  Goto(h, IF applies THEN "writeBatch" ELSE "turned down")
  /\ UNCHANGED <<rowVars, outside, done, blind, commands, incidents>>

WriteBatch(h) ==
  /\ job[h].pc = "writeBatch"
  /\ batch' = [batch EXCEPT !.status = "completed", !.said = TRUE]
  /\ Goto(h, "ack")
  /\ UNCHANGED <<item, rev, rows, outside, done, blind, commands, incidents>>

\* markDone, then the answer 200.
Acknowledge(h) ==
  /\ job[h].pc \in {"ack", "turned down"}
  /\ done' = done \cup {job[h].ev}
  /\ job' = [job EXCEPT ![h] = NoJob]
  /\ UNCHANGED <<rowVars, outside, blind, commands, incidents>>

\* A read or write outside a catch fails: the answer is 500.
Throw(h) ==
  /\ job[h].pc \in {"read", "write", "create", "list", "completed", "failed", "readBatch", "writeBatch"}
  /\ Incident
  /\ job' = [job EXCEPT ![h] = NoJob]
  /\ UNCHANGED <<rowVars, outside, done, blind, commands>>

\* The dedupe store keeps an entry for half an hour.
Expire(e) ==
  /\ e \in done
  /\ Incident
  /\ done' = done \ {e}
  /\ UNCHANGED <<rowVars, outside, job, blind, commands>>

\* The store flushes itself to a file after every entry, but not at once.
ServerCrash ==
  /\ Incident
  /\ job' = [h \in Handler |-> NoJob]
  /\ done' \in SUBSET done
  /\ UNCHANGED <<rowVars, outside, blind, commands>>

Webhook(h) ==
  \/ \E e \in Event : Deliver(h, e)
  \/ ReadItem(h) \/ WriteItem(h) \/ ReadNotes(h) \/ WriteNotes(h) \/ MarkPaidOut(h) \/ FindWithdrawal(h)
  \/ CreateWithdrawal(h) \/ ListItems(h) \/ WriteRollUp(h) \/ ConfirmRevenue(h)
  \/ ReadBatch(h) \/ WriteBatch(h) \/ Acknowledge(h) \/ Throw(h)

-----------------------------------------------------------------------------
(* submitPayPalPayoutBatch *)

SubmitRead ==
  /\ submit = Idle
  /\ batch.status = "approved"
  /\ submit' = [Idle EXCEPT !.pc = "create"]
  /\ UNCHANGED <<rowVars, outside, server, sync, cancel, incidents>>

\* PayPal refuses a sender_batch_id it has seen, and the command throws; so it
\* does when the answer is lost.
SubmitCreate ==
  /\ submit.pc = "create"
  /\ IF \A i \in Item : truth[i] = "unsent"
       THEN /\ truth' = [i \in Item |-> "pending"]
            /\ \/ submit' = [Idle EXCEPT !.pc = "record"] /\ UNCHANGED incidents
               \/ Incident /\ submit' = Idle
       ELSE submit' = Idle /\ UNCHANGED <<truth, incidents>>
  /\ UNCHANGED <<rowVars, paid, mail, newest, server, sync, cancel>>

\* The answer lists the items or it does not.
SubmitRecord ==
  /\ submit.pc = "record"
  /\ batch' = [status |-> "submitted_to_paypal", id |-> TRUE, said |-> FALSE]
  /\ submit' \in {Idle, [pc |-> "items", todo |-> Item]}
  /\ UNCHANGED <<item, rev, rows, outside, server, sync, cancel, incidents>>

\* One of a command's writes of an item; one that fails is passed over.
Rest(cmd, i, next) == IF cmd.todo = {i} THEN next ELSE [cmd EXCEPT !.todo = @ \ {i}]

SubmitItem(i) ==
  /\ submit.pc = "items" /\ i \in submit.todo
  /\ submit' = Rest(submit, i, Idle)
  /\ \/ item' = [item EXCEPT ![i] = [status |-> "processing", known |-> TRUE]] /\ UNCHANGED incidents
     \/ Incident /\ UNCHANGED item
  /\ UNCHANGED <<batch, rev, rows, outside, server, sync, cancel>>

SubmitDies ==
  /\ submit # Idle
  /\ Incident
  /\ submit' = Idle
  /\ UNCHANGED <<rowVars, outside, server, sync, cancel>>

Submit == SubmitRead \/ SubmitCreate \/ SubmitRecord \/ (\E i \in Item : SubmitItem(i)) \/ SubmitDies

-----------------------------------------------------------------------------
(* syncPayPalBatchToLedger *)

LedgerStatus(s) == IF s = "pending" THEN "processing" ELSE s

NothingRead == [i \in Item |-> Nothing]
NoSync == [pc |-> "idle", todo |-> {}, view |-> NothingRead, success |-> FALSE]

\* Mutant: only batches that are on their way are synced.
PickySyncFetch ==
  /\ sync = NoSync
  /\ batch.id /\ batch.status = "submitted_to_paypal"
  /\ sync' = [pc |-> "items", todo |-> Item, view |-> [i \in Item |-> LedgerStatus(truth[i])],
              success |-> \A i \in Item : truth[i] # "pending"]
  /\ UNCHANGED <<rowVars, outside, server, submit, cancel, incidents>>

\* The batch as PayPal has it now: its items, and whether its status is SUCCESS.
\* The rows of the items are read with a list of fields that lacks the revenue
\* event, so that no revenue is written.
SyncFetch ==
  /\ sync = NoSync
  /\ batch.id
  /\ sync' = [pc |-> "items", todo |-> Item, view |-> [i \in Item |-> LedgerStatus(truth[i])],
              success |-> \A i \in Item : truth[i] # "pending"]
  /\ UNCHANGED <<rowVars, outside, server, submit, cancel, incidents>>

SyncItem(i) ==
  /\ sync.pc = "items" /\ i \in sync.todo
  /\ sync' = [Rest(sync, i, [sync EXCEPT !.pc = "notes", !.todo = {}]) EXCEPT !.view[i] = Nothing]
  /\ \/ item' = [item EXCEPT ![i] = [status |-> sync.view[i], known |-> TRUE]] /\ UNCHANGED incidents
     \/ Incident /\ UNCHANGED item
  /\ UNCHANGED <<batch, rev, rows, outside, server, submit, cancel>>

SyncNotes ==
  /\ sync.pc = "notes"
  /\ sync' = IF sync.success THEN [NoSync EXCEPT !.pc = "list"] ELSE NoSync
  /\ \/ batch' = [batch EXCEPT !.said = sync.success] /\ UNCHANGED incidents
     \/ Incident /\ UNCHANGED batch
  /\ UNCHANGED <<item, rev, rows, outside, server, submit, cancel>>

SyncList ==
  /\ sync.pc = "list"
  /\ sync' = IF RollUp = "none" THEN NoSync ELSE [sync EXCEPT !.pc = RollUp]
  /\ UNCHANGED <<rowVars, outside, server, submit, cancel, incidents>>

SyncRollUp ==
  /\ sync.pc \in {"completed", "failed"}
  /\ sync' = NoSync
  /\ \/ SetBatch(sync.pc) /\ UNCHANGED incidents
     \/ Incident /\ UNCHANGED batch
  /\ UNCHANGED <<item, rev, rows, outside, server, submit, cancel>>

SyncDies ==
  /\ sync # NoSync
  /\ Incident
  /\ sync' = NoSync
  /\ UNCHANGED <<rowVars, outside, server, submit, cancel>>

SyncStep == (\E i \in Item : SyncItem(i)) \/ SyncNotes \/ SyncList \/ SyncRollUp
Sync == SyncFetch \/ SyncStep \/ SyncDies

\* The daemon's pass exports the batches, newest first and whatever their
\* status, and looks at the first syncPayPalLimit (25) of them: as many new
\* batches later it does not look at this one again.
Overtaken ==
  /\ Busy /\ newest
  /\ newest' = FALSE
  /\ UNCHANGED <<rowVars, truth, paid, mail, server, commands, incidents>>

-----------------------------------------------------------------------------
(* approvePayoutBatch and cancelPayoutBatch *)

\* The status is not looked at.
Approve ==
  /\ Incident
  /\ SetBatch("approved")
  /\ UNCHANGED <<item, rev, rows, outside, server, commands>>

CancelRead ==
  /\ cancel = Idle
  /\ batch.status \notin {"submitted_to_paypal", "completed", "failed"}
  /\ Incident
  /\ cancel' = [Idle EXCEPT !.pc = "batch"]
  /\ UNCHANGED <<rowVars, outside, server, submit, sync>>

CancelBatch ==
  /\ cancel.pc = "batch"
  /\ SetBatch("cancelled")
  /\ cancel' = [pc |-> "items", todo |-> Item]
  /\ UNCHANGED <<item, rev, rows, outside, server, submit, sync, incidents>>

\* Revenue that is not paid out is confirmed before and after.
CancelItem(i) ==
  /\ cancel.pc = "items" /\ i \in cancel.todo
  /\ SetStatus(i, "cancelled")
  /\ cancel' = Rest(cancel, i, Idle)
  /\ UNCHANGED <<batch, rev, rows, outside, server, submit, sync, incidents>>

CancelDies ==
  /\ cancel # Idle
  /\ cancel' = Idle
  /\ UNCHANGED <<rowVars, outside, server, submit, sync, incidents>>

Operator == Approve \/ CancelRead \/ CancelBatch \/ (\E i \in Item : CancelItem(i)) \/ CancelDies

-----------------------------------------------------------------------------

\* createPayoutBatchesFromEarnings
Init ==
  /\ item = [i \in Item |-> [status |-> "pending", known |-> FALSE]]
  /\ batch \in [status : {"pending_approval", "approved"}, id : {FALSE}, said : {FALSE}]
  /\ rev = [i \in Item |-> "confirmed"]
  /\ rows = [i \in Item |-> 0]
  /\ truth = [i \in Item |-> "unsent"]
  /\ paid = {} /\ mail = {} /\ newest = TRUE
  /\ done = {} /\ job = [h \in Handler |-> NoJob]
  /\ submit = Idle /\ sync = NoSync /\ cancel = Idle
  /\ blind = {}
  /\ incidents = 0

Next ==
  \/ \E i \in Item, v \in Verdict : Decide(i, v)
  \/ \E h \in Handler : Webhook(h)
  \/ \E e \in Event : Expire(e)
  \/ ServerCrash
  \/ Submit
  \/ Sync
  \/ Overtaken
  \/ Operator

Spec == Init /\ [][Next]_vars

\* computeTruthStatusForBatch says COMPLETED: the daemon lets the batch alone.
TruthCompleted == batch.said /\ AllSuccess

\* The daemon's pass comes round again and again, calls the sync of a batch it
\* looks at, and the sync runs to its end.
DaemonSync == newest /\ ~TruthCompleted /\ SyncFetch
FairSpec == Spec /\ WF_vars(DaemonSync \/ SyncStep)

-----------------------------------------------------------------------------
(* Properties *)

Jobs == [pc : {"idle", "read", "write", "notes", "writeNotes", "revenue", "find", "create", "list",
               "completed", "failed", "confirm", "readBatch", "writeBatch", "ack", "turned down"},
         ev : Event \cup {Nothing}, said : BOOLEAN]
Submits == [pc : {"idle", "create", "record", "items"}, todo : SUBSET Item]
Syncs == [pc : {"idle", "items", "notes", "list", "completed", "failed"}, todo : SUBSET Item,
          view : [Item -> ItemStatus \cup {Nothing}], success : BOOLEAN]
Cancels == [pc : {"idle", "batch", "items"}, todo : SUBSET Item]

\* Rows, PayPal's account of the items, and the requests and commands under way.
TypeOK ==
  /\ item \in [Item -> ItemRow]
  /\ batch \in BatchRow
  /\ rev \in [Item -> {"confirmed", "paid_out"}]
  /\ rows \in [Item -> Nat]
  /\ truth \in [Item -> Verdict \cup {"unsent", "pending"}]
  /\ paid \subseteq Item /\ mail \subseteq Event /\ done \subseteq mail
  /\ newest \in BOOLEAN
  /\ job \in [Handler -> Jobs]
  /\ submit \in Submits /\ sync \in Syncs /\ cancel \in Cancels
  /\ blind \subseteq Item

\* Whatever the ledger takes for paid, PayPal has paid at some time: a
\* successful item, a revenue event paid out, a withdrawal, and every item of a
\* completed batch.
SuccessIsPaid ==
  /\ \A i \in Item : (Status(i) = "success" \/ rev[i] = "paid_out" \/ rows[i] > 0) => i \in paid
  /\ batch.status = "completed" => paid = Item

\* However often an event is delivered, and wherever the server dies, an item
\* has one withdrawal, unless its row was looked for in vain while another
\* request was creating it or by a query that failed.
OneWithdrawalUnlessBlind == \A i \in Item : rows[i] > 1 => i \in blind

\* A success enters the dedupe store only when it has been turned down or when
\* it has been applied as far as the withdrawal, so that what a crash or a failed
\* write of that row interrupts is done again.  (The write of paid_out before it
\* may fail and is passed over; see WriteRevenue.)
TurnedDown(e) == \E h \in Handler : job[h].pc = "turned down" /\ job[h].ev = e
AckedIsApplied ==
  [][\A i \in Item : <<i, "success">> \in done' \ done
       => TurnedDown(<<i, "success">>) \/ (rows[i] > 0 /\ i \in paid)]_vars

\* A batch whose PayPal id the ledger has comes to agree with PayPal, whether
\* the webhooks were turned down, swallowed or overtaken and whatever the
\* operator does meanwhile: its items have the statuses PayPal gives them, and
\* once all of them are decided the batch is completed or failed.  It need not
\* when the daemon takes it for completed before, or when so many newer batches
\* come that the daemon's pass does not reach it any more.
Agrees ==
  /\ \A i \in Item : Status(i) = LedgerStatus(truth[i])
  /\ AllFinal => batch.status \in {"completed", "failed"}
LedgerCatchesUp == batch.id ~> (Agrees \/ TruthCompleted \/ ~newest)
=============================================================================
