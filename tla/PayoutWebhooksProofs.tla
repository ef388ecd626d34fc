------------------------ MODULE PayoutWebhooksProofs ------------------------
(***************************************************************************)
(* Proofs about PayoutWebhooks, for any items, any number of requests in   *)
(* progress, any verdicts of PayPal and any number of incidents.           *)
(***************************************************************************)
EXTENDS PayoutWebhooks, TLAPS

\* The steps of a request that applies the verdict on an item.
ItemSteps == {"read", "write", "notes", "writeNotes", "revenue", "find", "create", "list",
              "completed", "failed", "confirm"}

\* A request holds an event of PayPal's, and one that looks for the withdrawal
\* the event of a success.
Fits(j, posted) ==
  /\ j.pc # "idle" => j.ev \in posted
  /\ j.pc \in ItemSteps => j.ev \in Item \X Verdict
  /\ j.pc \in {"revenue", "find", "create"} => j.ev[2] = "success"
JobShape == \A h \in Handler : Fits(job[h], mail)

\* The ledger has the id of a batch, and the sync the items of one, that PayPal has.
KnownShape ==
  /\ (batch.id \/ submit.pc = "record") => \A i \in Item : truth[i] # "unsent"
  /\ sync.pc = "items" => \A i \in sync.todo : sync.view[i] \in ItemStatus

Shape == TypeOK /\ JobShape /\ KnownShape

LEMMA ShapeInit == Init => Shape
<1> SUFFICES ASSUME Init PROVE Shape
  OBVIOUS
<1>1. item \in [Item -> ItemRow] /\ batch \in BatchRow /\ ~batch.id
  BY DEF Init, ItemRow, ItemStatus, BatchRow, BatchStatus
<1>2. /\ job \in [Handler -> Jobs]
      /\ \A h \in Handler : job[h].pc = "idle"
  BY DEF Init, Job, NoJob, Jobs
<1>3. /\ submit \in Submits /\ sync \in Syncs /\ cancel \in Cancels
      /\ submit.pc = "idle" /\ sync.pc = "idle"
  BY DEF Init, Idle, NoSync, NothingRead, Submits, Syncs, Cancels
<1>4. TypeOK
  BY <1>1, <1>2, <1>3 DEF Init, TypeOK
<1> QED
  BY <1>1, <1>2, <1>3, <1>4 DEF Shape, JobShape, KnownShape, Fits, ItemSteps

\* PayPal decides.
LEMMA ShapeDecide ==
  ASSUME Shape, NEW i \in Item, NEW v \in Verdict, Decide(i, v)
  PROVE  Shape'
<1>1. /\ v \in Verdicts[i] /\ v \in Follows(truth[i])
      /\ truth' = [truth EXCEPT ![i] = v]
      /\ paid' \subseteq Item
      /\ mail \subseteq mail' /\ mail' \subseteq Event
      /\ UNCHANGED <<item, batch, rev, rows, newest, done, job, blind, submit, sync, cancel, incidents>>
  BY DEF Decide, Shape, TypeOK, Event, BatchEvent, rowVars, server, commands
<1>2. v \in Verdict
  OBVIOUS
<1>3. truth' \in [Item -> Verdict \cup {"unsent", "pending"}]
  BY <1>1 DEF Shape, TypeOK
<1>4. TypeOK'
  BY <1>1, <1>3 DEF Shape, TypeOK
<1>5. \A j \in Item : truth[j] # "unsent" => truth'[j] # "unsent"
  BY <1>1 DEF Verdict, Shape, TypeOK
<1> QED
  BY <1>1, <1>4, <1>5 DEF Shape, JobShape, KnownShape, Fits

-----------------------------------------------------------------------------
\* A request goes to a step that suits its event.
LEMMA JobBecomes ==
  ASSUME Shape, NEW h \in Handler, NEW j \in Jobs, Fits(j, mail),
         job' = [job EXCEPT ![h] = j], mail' = mail
  PROVE  job' \in [Handler -> Jobs] /\ JobShape'
<1>1. \A g \in Handler : job'[g] = IF g = h THEN j ELSE job[g]
  BY DEF Shape, TypeOK
<1>2. job' \in [Handler -> Jobs]
  BY DEF Shape, TypeOK
<1> QED
  BY <1>1, <1>2 DEF Shape, JobShape

LEMMA JobGoes ==
  ASSUME Shape, NEW h \in Handler, NEW pc, NEW said \in BOOLEAN,
         job' = [job EXCEPT ![h] = Job(pc, @.ev, said)], mail' = mail,
         job[h].pc # "idle",
         pc \in ItemSteps \cup {"readBatch", "writeBatch", "ack", "turned down"},
         pc \in ItemSteps => job[h].pc \in ItemSteps,
         pc \in {"revenue", "find", "create"} => VerdictOf(h) = "success"
  PROVE  job' \in [Handler -> Jobs] /\ JobShape'
<1> DEFINE j == Job(pc, job[h].ev, said)
<1>1. job[h] \in Jobs /\ Fits(job[h], mail)
  BY DEF Shape, TypeOK, JobShape
<1>2. j \in Jobs
  BY <1>1 DEF Jobs, ItemSteps, Job
<1>3. j.pc = pc /\ j.ev = job[h].ev
  BY DEF Job
<1>4. Fits(j, mail)
  BY <1>1, <1>3 DEF Fits, VerdictOf
<1> HIDE DEF j
<1>5. job' = [job EXCEPT ![h] = j]
  BY DEF j
<1> QED
  BY <1>2, <1>4, <1>5, JobBecomes

LEMMA JobGoto ==
  ASSUME Shape, NEW h \in Handler, NEW pc, Goto(h, pc), mail' = mail,
         job[h].pc # "idle",
         pc \in ItemSteps \cup {"readBatch", "writeBatch", "ack", "turned down"},
         pc \in ItemSteps => job[h].pc \in ItemSteps,
         pc \in {"revenue", "find", "create"} => VerdictOf(h) = "success"
  PROVE  job' \in [Handler -> Jobs] /\ JobShape'
<1>1. job[h].said \in BOOLEAN
  BY DEF Shape, TypeOK, Jobs
<1>2. job' = [job EXCEPT ![h] = Job(pc, @.ev, job[h].said)]
  BY DEF Goto
<1> QED
  BY <1>1, <1>2, JobGoes

LEMMA ShapeDeliver ==
  ASSUME Shape, NEW h \in Handler, NEW e \in Event, Deliver(h, e)
  PROVE  Shape'
<1> DEFINE j == Job(IF e = BatchEvent THEN "readBatch" ELSE "read", e, FALSE)
<1>1. /\ job' = [job EXCEPT ![h] = j]
      /\ e \in mail
      /\ UNCHANGED <<item, batch, rev, rows, truth, paid, mail, newest, done, blind, submit, sync, cancel, incidents>>
  BY DEF Deliver, rowVars, outside, commands
<1>2. j \in Jobs
  BY DEF Job, Jobs
<1>3. Fits(j, mail)
  BY <1>1 DEF Fits, Job, ItemSteps, Event
<1> HIDE DEF j
<1>4. job' \in [Handler -> Jobs] /\ JobShape'
  BY <1>1, <1>2, <1>3, JobBecomes
<1>5. TypeOK'
  BY <1>1, <1>4 DEF Shape, TypeOK
<1> QED
  BY <1>1, <1>4, <1>5 DEF Shape, KnownShape

\* A request that is over.
LEMMA NoJobFits == NoJob \in Jobs /\ NoJob.pc = "idle" /\ \A m : Fits(NoJob, m)
  BY DEF NoJob, Job, Jobs, Fits, ItemSteps

LEMMA JobEnds ==
  ASSUME Shape, NEW h \in Handler, job' = [job EXCEPT ![h] = NoJob], mail' = mail
  PROVE  job' \in [Handler -> Jobs] /\ JobShape'
  BY NoJobFits, JobBecomes

\* The steps of a request that write no row change its place only.
LEMMA ShapeServer ==
  ASSUME Shape, NEW h \in Handler,
         ReadItem(h) \/ FindWithdrawal(h) \/ ListItems(h) \/ ReadBatch(h)
  PROVE  Shape'
<1>1. job' \in [Handler -> Jobs] /\ JobShape'
  <2>1. CASE ReadItem(h)
    BY <2>1, JobGoto DEF ReadItem, ItemSteps, outside
  <2>2. CASE FindWithdrawal(h)
    BY <2>2, JobGoto DEF FindWithdrawal, ItemSteps, outside, Shape, JobShape, Fits, VerdictOf
  <2>3. CASE ListItems(h)
    BY <2>3, JobGoto DEF ListItems, RollUp, ItemSteps, outside
  <2>4. CASE ReadBatch(h)
    BY <2>4, JobGoto DEF ReadBatch, ItemSteps, outside
  <2> QED
    BY <2>1, <2>2, <2>3, <2>4
<1>2. UNCHANGED <<item, batch, rev, rows, truth, paid, mail, newest, done, submit, sync, cancel>>
  BY DEF ReadItem, FindWithdrawal, ListItems, ReadBatch, rowVars, outside, commands
<1>3. blind' \subseteq Item
  <2>1. CASE FindWithdrawal(h)
    <3>1. ItemOf(h) \in Item
      BY <2>1 DEF FindWithdrawal, Shape, JobShape, Fits, ItemOf, ItemSteps
    <3> QED
      BY <2>1, <3>1 DEF FindWithdrawal, Shape, TypeOK
  <2>2. CASE ReadItem(h) \/ ListItems(h) \/ ReadBatch(h)
    BY <2>2 DEF ReadItem, ListItems, ReadBatch, Shape, TypeOK
  <2> QED
    BY <2>1, <2>2
<1>4. TypeOK'
  BY <1>1, <1>2, <1>3 DEF Shape, TypeOK
<1> QED
  BY <1>1, <1>2, <1>4 DEF Shape, KnownShape

\* The steps that write a row of the item, of its revenue or of the batch.
LEMMA ShapeWriteItem ==
  ASSUME Shape, NEW h \in Handler, WriteItem(h)
  PROVE  Shape'
<1>1. job' \in [Handler -> Jobs] /\ JobShape'
  BY JobGoto DEF WriteItem, ItemSteps, outside
<1>2. ItemOf(h) \in Item /\ VerdictOf(h) \in Verdict
  BY DEF WriteItem, Shape, JobShape, Fits, ItemOf, VerdictOf, ItemSteps
<1>3. item' = [item EXCEPT ![ItemOf(h)].status = VerdictOf(h)]
  BY DEF WriteItem, SetStatus
<1>4. item' \in [Item -> ItemRow]
  BY <1>2, <1>3 DEF Shape, TypeOK, ItemRow, ItemStatus
<1>5. UNCHANGED <<batch, rev, rows, truth, paid, mail, newest, done, blind, submit, sync, cancel>>
  BY DEF WriteItem, outside, commands
<1> QED
  BY <1>1, <1>4, <1>5 DEF Shape, TypeOK, KnownShape

LEMMA ShapeNotes ==
  ASSUME Shape, NEW h \in Handler, ReadNotes(h) \/ WriteNotes(h)
  PROVE  Shape'
<1>1. batch.said \in BOOLEAN /\ job[h].said \in BOOLEAN
  BY DEF Shape, TypeOK, BatchRow, Jobs
<1>2. job' \in [Handler -> Jobs] /\ JobShape'
  <2>1. CASE ReadNotes(h)
    BY <2>1, <1>1, JobGoes DEF ReadNotes, ItemSteps, outside
  <2>2. CASE WriteNotes(h)
    BY <2>2, <1>1, JobGoes DEF WriteNotes, ItemSteps, outside
  <2> QED
    BY <2>1, <2>2
<1>3. batch' \in BatchRow /\ batch'.id = batch.id
  BY <1>1 DEF ReadNotes, WriteNotes, rowVars, Shape, TypeOK, BatchRow
<1>4. UNCHANGED <<item, rev, rows, truth, paid, mail, newest, done, blind, submit, sync, cancel>>
  BY DEF ReadNotes, WriteNotes, rowVars, outside, commands
<1> QED
  BY <1>2, <1>3, <1>4 DEF Shape, TypeOK, KnownShape

LEMMA ShapeWriteRevenue ==
  ASSUME Shape, NEW h \in Handler, MarkPaidOut(h) \/ ConfirmRevenue(h)
  PROVE  Shape'
<1>1. job' \in [Handler -> Jobs] /\ JobShape'
  <2>1. CASE MarkPaidOut(h)
    BY <2>1, JobGoto DEF MarkPaidOut, WriteRevenue, ItemSteps, outside, Shape, JobShape, Fits, VerdictOf
  <2>2. CASE ConfirmRevenue(h)
    BY <2>2, JobGoto DEF ConfirmRevenue, WriteRevenue, ItemSteps, outside
  <2> QED
    BY <2>1, <2>2
<1>2. ItemOf(h) \in Item
  BY DEF MarkPaidOut, ConfirmRevenue, WriteRevenue, Shape, JobShape, Fits, ItemOf, ItemSteps
<1>3. rev' \in [Item -> {"confirmed", "paid_out"}]
  BY <1>2 DEF MarkPaidOut, ConfirmRevenue, WriteRevenue, Shape, TypeOK
<1>4. UNCHANGED <<item, batch, rows, truth, paid, mail, newest, done, blind, submit, sync, cancel>>
  BY DEF MarkPaidOut, ConfirmRevenue, WriteRevenue, outside, commands
<1> QED
  BY <1>1, <1>3, <1>4 DEF Shape, TypeOK, KnownShape

LEMMA ShapeCreateWithdrawal ==
  ASSUME Shape, NEW h \in Handler, CreateWithdrawal(h)
  PROVE  Shape'
<1>1. job' \in [Handler -> Jobs] /\ JobShape'
  BY JobGoto DEF CreateWithdrawal, ItemSteps, outside
<1>2. rows' = [rows EXCEPT ![ItemOf(h)] = @ + 1]
  BY DEF CreateWithdrawal
<1>3. rows' \in [Item -> Nat]
  <2> DEFINE i == ItemOf(h)
             n == rows[i] + 1
  <2>1. i \in Item
    BY DEF CreateWithdrawal, Shape, JobShape, Fits, ItemOf, ItemSteps
  <2>2. n \in Nat
    BY <2>1 DEF Shape, TypeOK
  <2>3. rows' = [rows EXCEPT ![i] = n]
    BY <1>2
  <2> HIDE DEF i, n
  <2> QED
    BY <2>1, <2>2, <2>3 DEF Shape, TypeOK
<1>4. UNCHANGED <<item, batch, rev, truth, paid, mail, newest, done, blind, submit, sync, cancel>>
  BY DEF CreateWithdrawal, outside, commands
<1> QED
  BY <1>1, <1>3, <1>4 DEF Shape, TypeOK, KnownShape

LEMMA ShapeWriteBatch ==
  ASSUME Shape, NEW h \in Handler, WriteRollUp(h) \/ WriteBatch(h)
  PROVE  Shape'
<1>1. job' \in [Handler -> Jobs] /\ JobShape'
  <2>1. CASE WriteRollUp(h)
    BY <2>1, JobGoto DEF WriteRollUp, ItemSteps, outside
  <2>2. CASE WriteBatch(h)
    BY <2>2, JobGoto DEF WriteBatch, ItemSteps, outside
  <2> QED
    BY <2>1, <2>2
<1>2. batch' \in BatchRow /\ batch'.id = batch.id
  BY DEF WriteRollUp, WriteBatch, SetBatch, Shape, TypeOK, BatchRow, BatchStatus
<1>3. UNCHANGED <<item, rev, rows, truth, paid, mail, newest, done, blind, submit, sync, cancel>>
  BY DEF WriteRollUp, WriteBatch, outside, commands
<1> QED
  BY <1>1, <1>2, <1>3 DEF Shape, TypeOK, KnownShape

LEMMA ShapeAcknowledge ==
  ASSUME Shape, NEW h \in Handler, Acknowledge(h) \/ Throw(h)
  PROVE  Shape'
<1>1. job' \in [Handler -> Jobs] /\ JobShape'
  BY JobEnds DEF Acknowledge, Throw, outside
<1>2. done' \subseteq mail
  BY DEF Acknowledge, Throw, Shape, TypeOK, JobShape, Fits
<1>3. UNCHANGED <<item, batch, rev, rows, truth, paid, mail, newest, blind, submit, sync, cancel>>
  BY DEF Acknowledge, Throw, rowVars, outside, commands
<1> QED
  BY <1>1, <1>2, <1>3 DEF Shape, TypeOK, KnownShape

LEMMA ShapeDedupe ==
  ASSUME Shape, ServerCrash \/ \E e \in Event : Expire(e)
  PROVE  Shape'
<1>1. job' \in [Handler -> Jobs] /\ \A h \in Handler : job'[h] = job[h] \/ job'[h] = NoJob
  BY NoJobFits DEF ServerCrash, Expire, Shape, TypeOK
<1>2. UNCHANGED <<item, batch, rev, rows, truth, paid, mail, newest, blind, submit, sync, cancel>>
  BY DEF ServerCrash, Expire, rowVars, outside, commands
<1>3. JobShape'
  BY <1>1, <1>2, NoJobFits DEF Shape, JobShape
<1>4. done' \subseteq mail
  BY DEF ServerCrash, Expire, Shape, TypeOK
<1> QED
  BY <1>1, <1>2, <1>3, <1>4 DEF Shape, TypeOK, KnownShape

-----------------------------------------------------------------------------
\* The commands.
LEMMA ItemRowIs ==
  ASSUME item \in [Item -> ItemRow], NEW i \in Item, NEW s \in ItemStatus,
         \/ item' = [item EXCEPT ![i] = [status |-> s, known |-> TRUE]]
         \/ UNCHANGED item
  PROVE  item' \in [Item -> ItemRow]
<1>1. [status |-> s, known |-> TRUE] \in ItemRow
  BY DEF ItemRow
<1> QED
  BY <1>1

LEMMA ShapeSubmit ==
  ASSUME Shape, Submit
  PROVE  Shape'
<1> USE DEF rowVars, outside, server, Shape, TypeOK, KnownShape, Submits, Idle
<1>1. CASE SubmitRead
  BY <1>1 DEF SubmitRead, JobShape
<1>2. CASE SubmitCreate
  <2>1. truth' \in [Item -> Verdict \cup {"unsent", "pending"}]
    BY <1>2 DEF SubmitCreate
  <2>2. \A i \in Item : truth[i] # "unsent" => truth'[i] # "unsent"
    BY <1>2 DEF SubmitCreate
  <2>3. submit' \in Submits /\ (submit'.pc = "record" => \A i \in Item : truth'[i] # "unsent")
    BY <1>2 DEF SubmitCreate
  <2>4. UNCHANGED <<item, batch, rev, rows, paid, mail, newest, done, job, blind, sync, cancel>>
    BY <1>2 DEF SubmitCreate
  <2> QED
    BY <2>1, <2>2, <2>3, <2>4 DEF JobShape
<1>3. CASE SubmitRecord
  BY <1>3 DEF SubmitRecord, BatchRow, BatchStatus, JobShape
<1>4. ASSUME NEW i \in Item, SubmitItem(i) PROVE Shape'
  <2>1. submit' \in Submits /\ submit'.pc # "record"
    BY <1>4 DEF SubmitItem, Rest
  <2>2. item' \in [Item -> ItemRow]
    BY <1>4, ItemRowIs DEF SubmitItem, ItemStatus
  <2>3. UNCHANGED <<batch, rev, rows, truth, paid, mail, newest, done, job, blind, sync, cancel>>
    BY <1>4 DEF SubmitItem
  <2> QED
    BY <2>1, <2>2, <2>3 DEF JobShape
<1>5. CASE SubmitDies
  BY <1>5 DEF SubmitDies, JobShape
<1> QED
  BY <1>1, <1>2, <1>3, <1>4, <1>5 DEF Submit

LEMMA ShapeSync ==
  ASSUME Shape, Sync
  PROVE  Shape'
<1>1. NoSync \in Syncs /\ NoSync.pc = "idle"
  BY DEF NoSync, NothingRead, Syncs
<1> USE DEF rowVars, outside, server, Shape, TypeOK, KnownShape
<1>2. CASE SyncFetch
  <2>1. \A i \in Item : LedgerStatus(truth[i]) \in ItemStatus
    BY <1>2 DEF SyncFetch, LedgerStatus, ItemStatus
  <2>2. sync' \in Syncs /\ \A i \in Item : sync'.view[i] \in ItemStatus
    BY <1>2, <2>1 DEF SyncFetch, Syncs
  <2> QED
    BY <1>2, <2>2 DEF SyncFetch, JobShape
<1>3. ASSUME NEW i \in Item, SyncItem(i) PROVE Shape'
  <2>1. sync.view[i] \in ItemStatus
    BY <1>3 DEF SyncItem
  <2>2. item' \in [Item -> ItemRow]
    BY <1>3, <2>1, ItemRowIs DEF SyncItem
  <2>3. /\ sync' \in Syncs
        /\ sync'.pc = "items" => \A j \in sync'.todo : j # i /\ j \in sync.todo /\ sync'.view[j] = sync.view[j]
    BY <1>3 DEF SyncItem, Rest, Syncs
  <2> QED
    BY <1>3, <2>2, <2>3 DEF SyncItem, JobShape
<1>4. CASE SyncNotes
  <2>1. sync' \in Syncs /\ sync'.pc # "items"
    BY <1>1, <1>4 DEF SyncNotes, Syncs
  <2>2. batch' \in BatchRow /\ batch'.id = batch.id
    BY <1>4 DEF SyncNotes, BatchRow, Syncs
  <2> QED
    BY <1>4, <2>1, <2>2 DEF SyncNotes, JobShape
<1>5. CASE SyncList
  <2>1. sync' \in Syncs /\ sync'.pc # "items"
    BY <1>1, <1>5 DEF SyncList, RollUp, Syncs
  <2> QED
    BY <1>5, <2>1 DEF SyncList, JobShape
<1>6. CASE SyncRollUp
  <2>1. batch' \in BatchRow /\ batch'.id = batch.id
    BY <1>6 DEF SyncRollUp, SetBatch, BatchRow, BatchStatus
  <2> QED
    BY <1>1, <1>6, <2>1 DEF SyncRollUp, JobShape
<1>7. CASE SyncDies
  BY <1>1, <1>7 DEF SyncDies, JobShape
<1> QED
  BY <1>2, <1>3, <1>4, <1>5, <1>6, <1>7 DEF Sync, SyncStep

LEMMA ShapeOperator ==
  ASSUME Shape, Operator
  PROVE  Shape'
<1> USE DEF rowVars, outside, server, commands, Shape, TypeOK, KnownShape, Cancels, Idle
<1>1. CASE Approve \/ CancelBatch
  <2>1. batch' \in BatchRow /\ batch'.id = batch.id
    BY <1>1 DEF Approve, CancelBatch, SetBatch, BatchRow, BatchStatus
  <2>2. cancel' \in Cancels
    BY <1>1 DEF Approve, CancelBatch
  <2> QED
    BY <1>1, <2>1, <2>2 DEF Approve, CancelBatch, JobShape
<1>2. CASE CancelRead \/ CancelDies
  BY <1>2 DEF CancelRead, CancelDies, JobShape
<1>3. ASSUME NEW i \in Item, CancelItem(i) PROVE Shape'
  <2>1. item' \in [Item -> ItemRow]
    BY <1>3 DEF CancelItem, SetStatus, ItemRow, ItemStatus
  <2>2. cancel' \in Cancels
    BY <1>3 DEF CancelItem, Rest
  <2> QED
    BY <1>3, <2>1, <2>2 DEF CancelItem, JobShape
<1> QED
  BY <1>1, <1>2, <1>3 DEF Operator

LEMMA ShapeOvertaken ==
  ASSUME Shape, Overtaken
  PROVE  Shape'
  BY DEF Overtaken, rowVars, server, commands, Shape, TypeOK, JobShape, KnownShape

LEMMA ShapeStep == Shape /\ [Next]_vars => Shape'
<1> SUFFICES ASSUME Shape, [Next]_vars PROVE Shape'
  OBVIOUS
<1>1. CASE UNCHANGED vars
  BY <1>1 DEF vars, rowVars, outside, server, commands, Shape, TypeOK, JobShape, KnownShape
<1>2. ASSUME NEW h \in Handler, Webhook(h) PROVE Shape'
  BY <1>2, ShapeDeliver, ShapeServer, ShapeWriteItem, ShapeNotes, ShapeWriteRevenue,
     ShapeCreateWithdrawal, ShapeWriteBatch, ShapeAcknowledge DEF Webhook
<1> QED
  BY <1>1, <1>2, ShapeDecide, ShapeDedupe, ShapeSubmit, ShapeSync, ShapeOvertaken, ShapeOperator DEF Next

\* Rows, requests and commands keep their shape.
THEOREM TypeCorrect == Spec => []TypeOK
<1>1. Shape => TypeOK
  BY DEF Shape
<1> QED
  BY <1>1, ShapeInit, ShapeStep, PTL DEF Spec

-----------------------------------------------------------------------------
\* What the ledger takes for paid, what a request or the sync is about to take
\* for paid, and what PayPal has said of it.
PaidInv ==
  /\ Shape
  /\ SuccessIsPaid
  /\ \A i \in Item : (truth[i] = "success" \/ <<i, "success">> \in mail) => i \in paid
  /\ \A h \in Handler : job[h].pc \in {"completed", "writeBatch"} => paid = Item
  /\ sync.pc = "items" => \A i \in sync.todo : sync.view[i] = "success" => i \in paid
  /\ sync.pc = "completed" => paid = Item

\* An item has one withdrawal, or one request is about to create the first.
OneInv ==
  /\ Shape
  /\ \A i \in Item \ blind :
       /\ rows[i] \in {0, 1}
       /\ rows[i] = 1 => ~Creating(i)
       /\ \A g, h \in Handler :
            /\ job[g].pc = "create" /\ ItemOf(g) = i
            /\ job[h].pc = "create" /\ ItemOf(h) = i
            => g = h

\* Where the requests are after a step of one of them.
LEMMA Places ==
  ASSUME Shape, NEW h \in Handler, NEW pc, NEW said,
         job' = [job EXCEPT ![h] = Job(pc, @.ev, said)]
  PROVE  \A g \in Handler : /\ job'[g].pc = IF g = h THEN pc ELSE job[g].pc
                            /\ job'[g].ev = job[g].ev
  BY DEF Shape, TypeOK, Job

LEMMA GotoPlaces ==
  ASSUME Shape, NEW h \in Handler, NEW pc, Goto(h, pc)
  PROVE  \A g \in Handler : /\ job'[g].pc = IF g = h THEN pc ELSE job[g].pc
                            /\ job'[g].ev = job[g].ev
<1>1. job' = [job EXCEPT ![h] = Job(pc, @.ev, job[h].said)]
  BY DEF Goto
<1> QED
  BY <1>1, Places

\* Where a request goes that has read a row.
LEMMA ReadItemGoes ==
  ASSUME NEW h \in Handler, ReadItem(h)
  PROVE  \E pc \in {"write", "turned down"} : Goto(h, pc)
<1> DEFINE applies == /\ item[ItemOf(h)].known
                      /\ IsValidItemStatusTransition(Status(ItemOf(h)), VerdictOf(h))
           pc == IF applies THEN "write" ELSE "turned down"
<1>1. Goto(h, pc)
  BY DEF ReadItem
<1>2. pc \in {"write", "turned down"}
  OBVIOUS
<1> HIDE DEF pc
<1> QED
  BY <1>1, <1>2

LEMMA ReadBatchGoes ==
  ASSUME NEW h \in Handler, ReadBatch(h)
  PROVE  \E pc \in {"writeBatch", "turned down"} :
            Goto(h, pc) /\ (pc = "writeBatch" => batch.status = "completed")
<1> DEFINE applies == batch.id /\ batch.status = "completed"
           pc == IF applies THEN "writeBatch" ELSE "turned down"
<1>1. Goto(h, pc)
  BY DEF ReadBatch
<1>2. pc \in {"writeBatch", "turned down"} /\ (pc = "writeBatch" => batch.status = "completed")
  OBVIOUS
<1> HIDE DEF pc
<1> QED
  BY <1>1, <1>2

LEMMA ListItemsGoes ==
  ASSUME NEW h \in Handler, ListItems(h)
  PROVE  \E pc \in {"ack", "completed", "failed"} :
            Goto(h, pc) /\ (pc = "completed" => RollUp = "completed")
<1> DEFINE pc == IF RollUp = "none" THEN "ack" ELSE RollUp
<1>1. Goto(h, pc)
  BY DEF ListItems
<1>2. pc \in {"ack", "completed", "failed"} /\ (pc = "completed" => RollUp = "completed")
  BY DEF RollUp
<1> HIDE DEF pc
<1> QED
  BY <1>1, <1>2

LEMMA EndPlaces ==
  ASSUME Shape, NEW h \in Handler, job' = [job EXCEPT ![h] = NoJob]
  PROVE  \A g \in Handler : /\ job'[g].pc = IF g = h THEN "idle" ELSE job[g].pc
                            /\ g # h => job'[g].ev = job[g].ev
  BY NoJobFits DEF Shape, TypeOK

-----------------------------------------------------------------------------
\* Items that are all a success are all paid.
LEMMA RollUpIsPaid == PaidInv /\ RollUp = "completed" => paid = Item
  BY DEF RollUp, AllSuccess, PaidInv, SuccessIsPaid, Shape, TypeOK

LEMMA PaidInit == Init => PaidInv
<1> SUFFICES ASSUME Init PROVE PaidInv
  OBVIOUS
<1>1. /\ \A i \in Item : Status(i) = "pending" /\ rev[i] = "confirmed" /\ rows[i] = 0 /\ truth[i] = "unsent"
      /\ batch.status \in {"pending_approval", "approved"}
      /\ mail = {}
  BY DEF Init, Status
<1>2. \A h \in Handler : job[h].pc = "idle"
  BY NoJobFits DEF Init
<1>3. sync.pc = "idle"
  BY DEF Init, NoSync
<1> QED
  BY <1>1, <1>2, <1>3, ShapeInit DEF PaidInv, SuccessIsPaid

LEMMA PaidDecide ==
  ASSUME PaidInv, Shape', NEW i \in Item, NEW v \in Verdict, Decide(i, v)
  PROVE  PaidInv'
<1>1. /\ paid \subseteq paid' /\ (v = "success" => i \in paid')
      /\ truth' = [truth EXCEPT ![i] = v]
      /\ \A j \in Item : <<j, "success">> \in mail' => <<j, "success">> \in mail \/ (j = i /\ v = "success")
      /\ UNCHANGED <<item, batch, rev, rows, job, sync>>
  BY DEF Decide, BatchEvent, rowVars, server, commands
<1>2. paid = Item => paid' = Item
  BY <1>1 DEF Shape, TypeOK
<1>3. SuccessIsPaid'
  BY <1>1, <1>2 DEF PaidInv, SuccessIsPaid, Status
<1>4. \A j \in Item : (truth'[j] = "success" \/ <<j, "success">> \in mail') => j \in paid'
  BY <1>1 DEF PaidInv, Shape, TypeOK
<1> QED
  BY <1>1, <1>2, <1>3, <1>4 DEF PaidInv

LEMMA PaidServer ==
  ASSUME PaidInv, Shape', NEW h \in Handler, Webhook(h)
  PROVE  PaidInv'
<1>0. Shape
  BY DEF PaidInv
<1>1. UNCHANGED <<truth, paid, mail, sync>>
  BY DEF Webhook, Deliver, ReadItem, WriteItem, ReadNotes, WriteNotes, MarkPaidOut, WriteRevenue,
         FindWithdrawal, CreateWithdrawal, ListItems, WriteRollUp, ConfirmRevenue, ReadBatch, WriteBatch,
         Acknowledge, Throw, outside, commands
<1>a. job[h].pc \in ItemSteps => ItemOf(h) \in Item /\ (VerdictOf(h) = "success" => ItemOf(h) \in paid)
  BY <1>0 DEF Shape, JobShape, Fits, ItemOf, VerdictOf, PaidInv, ItemSteps
<1>b. job[h].pc \in {"revenue", "find", "create"} => ItemOf(h) \in paid
  BY <1>0, <1>a DEF Shape, JobShape, Fits, VerdictOf, ItemSteps
<1> SUFFICES /\ SuccessIsPaid'
             /\ \A g \in Handler : job'[g].pc \in {"completed", "writeBatch"} => paid = Item
  BY <1>1 DEF PaidInv
<1>2. CASE \E e \in Event : Deliver(h, e)
  <2>1. \A g \in Handler : job'[g] = job[g] \/ job'[g].pc \in {"read", "readBatch"}
    BY <1>0, <1>2 DEF Deliver, Job, Shape, TypeOK
  <2>2. UNCHANGED <<item, batch, rev, rows>>
    BY <1>2 DEF Deliver, rowVars
  <2> QED
    BY <1>1, <2>1, <2>2 DEF PaidInv, SuccessIsPaid, Status
<1>3. CASE ReadItem(h) \/ FindWithdrawal(h) \/ ListItems(h) \/ ReadBatch(h)
  <2>1. PICK pc : /\ Goto(h, pc)
                  /\ pc = "completed" => RollUp = "completed"
                  /\ pc = "writeBatch" => batch.status = "completed"
    <3>1. CASE ReadItem(h)
      BY <3>1, ReadItemGoes
    <3>2. CASE FindWithdrawal(h)
      BY <3>2 DEF FindWithdrawal
    <3>3. CASE ListItems(h)
      BY <3>3, ListItemsGoes
    <3>4. CASE ReadBatch(h)
      BY <3>4, ReadBatchGoes
    <3> QED
      BY <1>3, <3>1, <3>2, <3>3, <3>4
  <2>2. pc \in {"completed", "writeBatch"} => paid = Item
    BY <2>1, RollUpIsPaid DEF PaidInv, SuccessIsPaid
  <2>3. UNCHANGED <<item, batch, rev, rows>>
    BY <1>3 DEF ReadItem, FindWithdrawal, ListItems, ReadBatch, rowVars
  <2> QED
    BY <1>0, <1>1, <2>1, <2>2, <2>3, GotoPlaces DEF PaidInv, SuccessIsPaid, Status
<1>4. CASE WriteItem(h)
  <2>1. \A j \in Item : Status(j)' = "success" => Status(j) = "success" \/ j \in paid
    BY <1>0, <1>4, <1>a DEF WriteItem, SetStatus, Status, Shape, TypeOK, ItemRow, ItemSteps
  <2>2. UNCHANGED <<batch, rev, rows>> /\ Goto(h, "notes")
    BY <1>4 DEF WriteItem
  <2> QED
    BY <1>0, <1>1, <2>1, <2>2, GotoPlaces DEF PaidInv, SuccessIsPaid
<1>5. CASE ReadNotes(h) \/ WriteNotes(h)
  <2>1. UNCHANGED <<item, rev, rows>> /\ batch'.status = batch.status
    BY <1>0, <1>5 DEF ReadNotes, WriteNotes, rowVars, Shape, TypeOK, BatchRow
  <2>2. PICK pc \in {"writeNotes", "revenue", "list"}, said \in BOOLEAN :
          job' = [job EXCEPT ![h] = Job(pc, @.ev, said)]
    BY <1>0, <1>5 DEF ReadNotes, WriteNotes, Shape, TypeOK, BatchRow
  <2>3. \A g \in Handler : job'[g].pc = IF g = h THEN pc ELSE job[g].pc
    BY <1>0, <2>2, Places
  <2> QED
    BY <1>1, <2>1, <2>2, <2>3 DEF PaidInv, SuccessIsPaid, Status
<1>6. CASE MarkPaidOut(h) \/ ConfirmRevenue(h)
  <2>1. \A j \in Item : rev'[j] = "paid_out" => rev[j] = "paid_out" \/ j \in paid
    BY <1>0, <1>6, <1>b DEF MarkPaidOut, ConfirmRevenue, WriteRevenue, Shape, TypeOK
  <2>2. UNCHANGED <<item, batch, rows>> /\ (Goto(h, "find") \/ Goto(h, "ack"))
    BY <1>6 DEF MarkPaidOut, ConfirmRevenue, WriteRevenue
  <2> QED
    BY <1>0, <1>1, <2>1, <2>2, GotoPlaces DEF PaidInv, SuccessIsPaid, Status
<1>7. CASE CreateWithdrawal(h)
  <2>1. \A j \in Item : rows'[j] = rows[j] \/ j \in paid
    BY <1>0, <1>7, <1>b DEF CreateWithdrawal, Shape, TypeOK
  <2>2. UNCHANGED <<item, batch, rev>> /\ Goto(h, "list")
    BY <1>7 DEF CreateWithdrawal
  <2> QED
    BY <1>0, <1>1, <2>1, <2>2, GotoPlaces DEF PaidInv, SuccessIsPaid, Status
<1>8. CASE WriteRollUp(h) \/ WriteBatch(h)
  <2>1. batch'.status = "completed" => paid = Item
    BY <1>0, <1>8 DEF WriteRollUp, WriteBatch, SetBatch, PaidInv, Shape, TypeOK, BatchRow
  <2>2. UNCHANGED <<item, rev, rows>> /\ (Goto(h, "confirm") \/ Goto(h, "ack"))
    BY <1>8 DEF WriteRollUp, WriteBatch
  <2> QED
    BY <1>0, <1>1, <2>1, <2>2, GotoPlaces DEF PaidInv, SuccessIsPaid, Status
<1>9. CASE Acknowledge(h) \/ Throw(h)
  <2>1. UNCHANGED <<item, batch, rev, rows>> /\ job' = [job EXCEPT ![h] = NoJob]
    BY <1>9 DEF Acknowledge, Throw, rowVars
  <2>2. \A g \in Handler : job'[g].pc = IF g = h THEN "idle" ELSE job[g].pc
    BY <1>0, <2>1, EndPlaces
  <2> QED
    BY <1>1, <2>1, <2>2 DEF PaidInv, SuccessIsPaid, Status
<1> QED
  BY <1>2, <1>3, <1>4, <1>5, <1>6, <1>7, <1>8, <1>9 DEF Webhook

LEMMA PaidCommands ==
  ASSUME PaidInv, Shape', ServerCrash \/ (\E e \in Event : Expire(e)) \/ Submit \/ Operator
  PROVE  PaidInv'
<1>0. Shape
  BY DEF PaidInv
<1>1. UNCHANGED <<paid, mail, sync, rev, rows>>
  BY DEF ServerCrash, Expire, Submit, SubmitRead, SubmitCreate, SubmitRecord, SubmitItem, SubmitDies,
         Overtaken, Operator, Approve, CancelRead, CancelBatch, CancelItem, CancelDies, rowVars, outside, server, commands
<1>2. \A h \in Handler : job'[h].pc \in {job[h].pc, "idle"}
  BY <1>0, NoJobFits
  DEF ServerCrash, Expire, Submit, SubmitRead, SubmitCreate, SubmitRecord, SubmitItem, SubmitDies,
      Overtaken, Operator, Approve, CancelRead, CancelBatch, CancelItem, CancelDies, rowVars, outside, server, commands
<1>3. \A i \in Item : Status(i)' \in {Status(i), "processing", "cancelled"}
  BY <1>0 DEF ServerCrash, Expire, Submit, SubmitRead, SubmitCreate, SubmitRecord, SubmitItem, SubmitDies,
      Overtaken, Operator, Approve, CancelRead, CancelBatch, CancelItem, CancelDies, rowVars, outside, server, commands,
      SetStatus, Status, Shape, TypeOK, ItemRow
<1>4. batch'.status \in {batch.status, "approved", "cancelled", "submitted_to_paypal"}
  BY <1>0 DEF ServerCrash, Expire, Submit, SubmitRead, SubmitCreate, SubmitRecord, SubmitItem, SubmitDies,
      Overtaken, Operator, Approve, CancelRead, CancelBatch, CancelItem, CancelDies, rowVars, outside, server, commands,
      SetBatch, Shape, TypeOK, BatchRow
<1>5. \A i \in Item : truth'[i] = "success" => truth[i] = "success"
  BY <1>0 DEF ServerCrash, Expire, Submit, SubmitRead, SubmitCreate, SubmitRecord, SubmitItem, SubmitDies,
      Overtaken, Operator, Approve, CancelRead, CancelBatch, CancelItem, CancelDies, rowVars, outside, server, commands,
      Shape, TypeOK
<1> QED
  BY <1>1, <1>2, <1>3, <1>4, <1>5 DEF PaidInv, SuccessIsPaid

LEMMA PaidSync ==
  ASSUME PaidInv, Shape', Sync
  PROVE  PaidInv'
<1>0. Shape
  BY DEF PaidInv
<1>1. UNCHANGED <<truth, paid, mail, job, rev, rows>>
  BY DEF Sync, SyncStep, SyncFetch, SyncItem, SyncNotes, SyncList, SyncRollUp, SyncDies, rowVars, outside, server
<1>2. \A i \in Item : Status(i)' = "success" => Status(i) = "success" \/ i \in paid
  <2>1. ASSUME NEW i \in Item, SyncItem(i)
        PROVE  \A j \in Item : Status(j)' = "success" => Status(j) = "success" \/ j \in paid
    BY <1>0, <2>1 DEF SyncItem, Status, PaidInv, Shape, TypeOK
  <2>2. CASE SyncFetch \/ SyncNotes \/ SyncList \/ SyncRollUp \/ SyncDies
    BY <2>2 DEF SyncFetch, SyncNotes, SyncList, SyncRollUp, SyncDies, rowVars, Status
  <2> QED
    BY <2>1, <2>2 DEF Sync, SyncStep
<1>3. batch'.status = "completed" => batch.status = "completed" \/ sync.pc = "completed"
  BY <1>0 DEF Sync, SyncStep, SyncFetch, SyncItem, SyncNotes, SyncList, SyncRollUp, SyncDies, rowVars,
              SetBatch, Shape, TypeOK, BatchRow
<1>4. sync'.pc = "completed" => RollUp = "completed" \/ sync.pc = "completed"
  <2>1. ASSUME NEW i \in Item, SyncItem(i) PROVE sync'.pc # "completed"
    BY <1>0, <2>1 DEF SyncItem, Rest, Shape, TypeOK, Syncs
  <2>2. CASE SyncFetch \/ SyncNotes \/ SyncRollUp \/ SyncDies
    BY <1>0, <2>2 DEF SyncFetch, SyncNotes, SyncRollUp, SyncDies, NoSync
  <2>3. CASE SyncList
    BY <1>0, <2>3 DEF SyncList, NoSync, Shape, TypeOK, Syncs
  <2> QED
    BY <2>1, <2>2, <2>3 DEF Sync, SyncStep
<1>5. sync'.pc = "items" => \A i \in sync'.todo : sync'.view[i] = "success" => i \in paid
  <2>1. CASE SyncFetch
    BY <1>0, <2>1 DEF SyncFetch, LedgerStatus, PaidInv
  <2>2. ASSUME NEW i \in Item, SyncItem(i)
        PROVE  sync'.pc = "items" => /\ sync.pc = "items"
                                     /\ \A j \in sync'.todo : j \in sync.todo /\ sync'.view[j] = sync.view[j]
    BY <1>0, <2>2 DEF SyncItem, Rest, Shape, TypeOK, Syncs
  <2>3. CASE SyncNotes \/ SyncList \/ SyncRollUp \/ SyncDies
    <3>1. sync'.pc # "items"
      BY <1>0, <2>3 DEF SyncNotes, SyncList, SyncRollUp, SyncDies, RollUp, NoSync, Shape, TypeOK, Syncs
    <3> QED
      BY <3>1
  <2> QED
    BY <2>1, <2>2, <2>3 DEF Sync, SyncStep, PaidInv
<1> QED
  BY <1>1, <1>2, <1>3, <1>4, <1>5, RollUpIsPaid DEF PaidInv, SuccessIsPaid

LEMMA PaidStep == PaidInv /\ [Next]_vars => PaidInv'
<1> SUFFICES ASSUME PaidInv, [Next]_vars PROVE PaidInv'
  OBVIOUS
<1>1. Shape'
  BY ShapeStep DEF PaidInv
<1>2. CASE UNCHANGED vars
  BY <1>1, <1>2 DEF vars, rowVars, outside, server, commands, PaidInv, SuccessIsPaid, Status
<1>3. CASE Overtaken
  BY <1>1, <1>3 DEF Overtaken, rowVars, server, commands, PaidInv, SuccessIsPaid, Status
<1> QED
  BY <1>1, <1>2, <1>3, PaidDecide, PaidServer, PaidCommands, PaidSync DEF Next

\* What the ledger takes for paid PayPal has paid, whatever is lost, repeated,
\* overtaken or cancelled on the way.
THEOREM LedgerTrustsPayments == Spec => []SuccessIsPaid
<1>1. PaidInv => SuccessIsPaid
  BY DEF PaidInv
<1> QED
  BY <1>1, PaidInit, PaidStep, PTL DEF Spec

-----------------------------------------------------------------------------
\* The requests that are creating a withdrawal, before and after a step of one.
At(h, i) == job[h].pc = "create" /\ ItemOf(h) = i

LEMMA OneInit == Init => OneInv
  BY ShapeInit, NoJobFits DEF Init, OneInv, Creating

LEMMA OneStep == OneInv /\ [Next]_vars => OneInv'
<1> SUFFICES ASSUME OneInv, [Next]_vars PROVE OneInv'
  OBVIOUS
<1>0. Shape /\ Shape'
  BY ShapeStep DEF OneInv
<1>1. SUFFICES ASSUME NEW i \in Item \ blind'
      PROVE  /\ rows'[i] \in {0, 1}
             /\ rows'[i] = 1 => \A g \in Handler : ~At(g, i)'
             /\ \A g, h \in Handler : At(g, i)' /\ At(h, i)' => g = h
  BY <1>0, <1>1 DEF OneInv, Creating, At
\* A step that creates nothing, and lets nobody begin to.
<1>2. ASSUME rows'[i] = rows[i], i \notin blind, \A g \in Handler : At(g, i)' => At(g, i)
      PROVE  /\ rows'[i] \in {0, 1}
             /\ rows'[i] = 1 => \A g \in Handler : ~At(g, i)'
             /\ \A g, h \in Handler : At(g, i)' /\ At(h, i)' => g = h
  BY <1>2 DEF OneInv, Creating, At
<1>3. ASSUME NEW h \in Handler, FindWithdrawal(h)
      PROVE  /\ rows'[i] \in {0, 1}
             /\ rows'[i] = 1 => \A g \in Handler : ~At(g, i)'
             /\ \A f, g \in Handler : At(f, i)' /\ At(g, i)' => f = g
  <2>1. ItemOf(h) \in Item
    BY <1>0, <1>3 DEF FindWithdrawal, Shape, JobShape, Fits, ItemOf, ItemSteps
  <2>2. rows' = rows /\ i \notin blind
    BY <1>3, <2>1 DEF FindWithdrawal, rowVars
  <2>3. CASE i = ItemOf(h)
    <3>1. /\ ~Creating(i)
          /\ Goto(h, IF rows[i] > 0 THEN "list" ELSE "create")
      BY <1>3, <2>3 DEF FindWithdrawal
    <3>2. CASE rows[i] = 0
      <4>1. \A g \in Handler : At(g, i)' => g = h
        BY <1>0, <3>1, GotoPlaces DEF At, Creating, ItemOf
      <4> QED
        BY <2>2, <3>2, <4>1
    <3>3. CASE rows[i] # 0
      <4>1. rows[i] = 1 /\ rows[i] > 0
        BY <2>2, <3>3 DEF OneInv
      <4>2. Goto(h, "list")
        BY <3>1, <4>1
      <4>3. \A g \in Handler : At(g, i)' => At(g, i)
        BY <1>0, <4>2, GotoPlaces DEF At, ItemOf
      <4> QED
        BY <1>2, <2>2, <4>3
    <3> QED
      BY <3>2, <3>3
  <2>4. CASE i # ItemOf(h)
    <3>1. PICK pc : Goto(h, pc)
      BY <1>3 DEF FindWithdrawal
    <3>2. \A g \in Handler : At(g, i)' => At(g, i)
      BY <1>0, <2>4, <3>1, GotoPlaces DEF At, ItemOf
    <3> QED
      BY <1>2, <2>2, <3>2
  <2> QED
    BY <2>3, <2>4
<1>4. ASSUME NEW h \in Handler, CreateWithdrawal(h)
      PROVE  /\ rows'[i] \in {0, 1}
             /\ rows'[i] = 1 => \A g \in Handler : ~At(g, i)'
             /\ \A f, g \in Handler : At(f, i)' /\ At(g, i)' => f = g
  <2>1. Goto(h, "list") /\ blind' = blind /\ rows' = [rows EXCEPT ![ItemOf(h)] = @ + 1]
        /\ job[h].pc = "create"
    BY <1>4 DEF CreateWithdrawal
  <2>2. \A g \in Handler : At(g, i)' => g # h /\ At(g, i)
    BY <1>0, <2>1, GotoPlaces DEF At, ItemOf
  <2>3. CASE i = ItemOf(h)
    <3>1. rows[i] = 0 /\ \A g \in Handler : At(g, i) => g = h
      BY <2>1, <2>3 DEF OneInv, Creating, At
    <3>2. rows'[i] = 1
      BY <1>0, <2>1, <2>3, <3>1 DEF Shape, TypeOK
    <3> QED
      BY <2>2, <3>1, <3>2
  <2>4. CASE i # ItemOf(h)
    <3>1. rows'[i] = rows[i]
      BY <1>0, <2>1, <2>4 DEF Shape, TypeOK
    <3> QED
      BY <1>2, <2>1, <2>2, <3>1
  <2> QED
    BY <2>3, <2>4
<1>5. CASE UNCHANGED <<rows, blind, job>>
  BY <1>2, <1>5 DEF At, ItemOf
<1>6. ASSUME NEW h \in Handler,
             \/ \E e \in Event : Deliver(h, e)
             \/ ReadItem(h) \/ WriteItem(h) \/ ReadNotes(h) \/ WriteNotes(h) \/ MarkPaidOut(h)
             \/ ListItems(h) \/ WriteRollUp(h) \/ ConfirmRevenue(h)
             \/ ReadBatch(h) \/ WriteBatch(h) \/ Acknowledge(h) \/ Throw(h)
      PROVE  rows' = rows /\ blind' = blind /\ \A g \in Handler : At(g, i)' => At(g, i)
  <2>1. rows' = rows /\ blind' = blind
    BY <1>6 DEF Deliver, ReadItem, WriteItem, ReadNotes, WriteNotes, MarkPaidOut, WriteRevenue, ListItems,
                WriteRollUp, ConfirmRevenue, ReadBatch, WriteBatch, Acknowledge, Throw, rowVars
  <2>2. \A g \in Handler \ {h} : job'[g] = job[g]
    BY <1>0, <1>6 DEF Deliver, ReadItem, WriteItem, ReadNotes, WriteNotes, MarkPaidOut, WriteRevenue, ListItems,
                WriteRollUp, ConfirmRevenue, ReadBatch, WriteBatch, Acknowledge, Throw, Goto, Shape, TypeOK
  <2>3. job'[h].pc # "create"
    <3>1. CASE \E e \in Event : Deliver(h, e)
      BY <1>0, <3>1 DEF Deliver, Job, Shape, TypeOK
    <3>2. CASE \/ ReadItem(h) \/ WriteItem(h) \/ MarkPaidOut(h) \/ WriteRollUp(h)
               \/ ListItems(h) \/ ConfirmRevenue(h) \/ ReadBatch(h) \/ WriteBatch(h)
      <4>1. \E pc : Goto(h, pc) /\ pc # "create"
        <5>1. CASE WriteItem(h) \/ MarkPaidOut(h) \/ ConfirmRevenue(h) \/ WriteBatch(h)
          BY <5>1 DEF WriteItem, MarkPaidOut, ConfirmRevenue, WriteRevenue, WriteBatch
        <5>2. CASE WriteRollUp(h)
          <6> DEFINE pc == IF job[h].pc = "completed" THEN "confirm" ELSE "ack"
          <6>1. Goto(h, pc) /\ pc # "create"
            BY <5>2 DEF WriteRollUp
          <6> HIDE DEF pc
          <6> QED
            BY <6>1
        <5> QED
          BY <3>2, <5>1, <5>2, ReadItemGoes, ListItemsGoes, ReadBatchGoes
      <4> QED
        BY <1>0, <4>1, GotoPlaces
    <3>4. CASE ReadNotes(h) \/ WriteNotes(h)
      BY <1>0, <3>4 DEF ReadNotes, WriteNotes, Job, Shape, TypeOK
    <3>5. CASE Acknowledge(h) \/ Throw(h)
      BY <1>0, <3>5, NoJobFits DEF Acknowledge, Throw, Shape, TypeOK
    <3> QED
      BY <1>6, <3>1, <3>2, <3>4, <3>5
  <2> QED
    BY <2>1, <2>2, <2>3 DEF At, ItemOf
<1>7. CASE ServerCrash
  BY <1>2, <1>7, NoJobFits DEF ServerCrash, rowVars, At
<1>8. CASE UNCHANGED vars
  BY <1>5, <1>8 DEF vars, rowVars, server
<1>9. CASE \E j \in Item, v \in Verdict : Decide(j, v)
  BY <1>5, <1>9 DEF Decide, rowVars, server
<1>10. CASE \E e \in Event : Expire(e)
  BY <1>5, <1>10 DEF Expire, rowVars
<1>11. CASE Submit \/ Sync \/ Overtaken \/ Operator
  BY <1>5, <1>11
  DEF Submit, SubmitRead, SubmitCreate, SubmitRecord, SubmitItem, SubmitDies,
      Sync, SyncStep, SyncFetch, SyncItem, SyncNotes, SyncList, SyncRollUp, SyncDies,
      Overtaken, Operator, Approve, CancelRead, CancelBatch, CancelItem, CancelDies, rowVars, server
<1> QED
  BY <1>2, <1>3, <1>4, <1>6, <1>7, <1>8, <1>9, <1>10, <1>11 DEF Next, Webhook

\* Without a lookup in vain an item never gets a second withdrawal.
THEOREM OneWithdrawal == Spec => []OneWithdrawalUnlessBlind
<1>1. OneInv => OneWithdrawalUnlessBlind
  BY DEF OneInv, OneWithdrawalUnlessBlind
<1> QED
  BY <1>1, OneInit, OneStep, PTL DEF Spec

-----------------------------------------------------------------------------
\* A request on a success that is past its withdrawal has found or created it.
Past == {"list", "completed", "failed", "confirm", "ack"}
Booked(j) ==
  /\ \A i \in Item : j.pc \in Past /\ j.ev = <<i, "success">> => rows[i] > 0
  /\ j.pc \in {"readBatch", "writeBatch"} => j.ev = BatchEvent
BookedInv == PaidInv /\ \A h \in Handler : Booked(job[h])

LEMMA BookedInit == Init => BookedInv
  BY PaidInit, NoJobFits DEF Init, BookedInv, Booked, Past

\* Withdrawals stay, so a step of one request leaves the others as they are.
LEMMA BookedOne ==
  ASSUME BookedInv, NEW h \in Handler, PaidInv', Booked(job[h])',
         \A i \in Item : rows'[i] >= rows[i],
         \A g \in Handler \ {h} : job'[g] = job[g]
  PROVE  BookedInv'
<1>1. rows \in [Item -> Nat] /\ rows' \in [Item -> Nat]
  BY DEF BookedInv, PaidInv, Shape, TypeOK
<1>2. ASSUME NEW g \in Handler \ {h} PROVE Booked(job[g])'
  BY <1>1, <1>2 DEF BookedInv, Booked
<1> QED
  BY <1>2 DEF BookedInv

LEMMA BookedGoto ==
  ASSUME BookedInv, NEW h \in Handler, PaidInv', NEW pc, Goto(h, pc),
         \A i \in Item : rows'[i] >= rows[i],
         \A i \in Item : pc \in Past /\ job[h].ev = <<i, "success">> => job[h].pc \in Past \/ rows'[i] > 0,
         pc \in {"readBatch", "writeBatch"} => job[h].ev = BatchEvent
  PROVE  BookedInv'
<1>1. Shape /\ rows \in [Item -> Nat] /\ rows' \in [Item -> Nat]
  BY DEF BookedInv, PaidInv, Shape, TypeOK
<1>2. job'[h].pc = pc /\ job'[h].ev = job[h].ev
  BY <1>1, GotoPlaces
<1>3. \A g \in Handler \ {h} : job'[g] = job[g]
  BY <1>1 DEF Goto, Shape, TypeOK
<1>4. Booked(job[h])'
  BY <1>1, <1>2 DEF BookedInv, Booked
<1> QED
  BY <1>3, <1>4, BookedOne

LEMMA BookedServer ==
  ASSUME BookedInv, PaidInv', NEW h \in Handler, Webhook(h)
  PROVE  BookedInv'
<1>0. Shape /\ rows \in [Item -> Nat] /\ rows' \in [Item -> Nat]
  BY DEF BookedInv, PaidInv, Shape, TypeOK
<1>a. job[h].pc \in {"readBatch", "writeBatch"} => job[h].ev = BatchEvent
  BY DEF BookedInv, Booked
<1>b. \A i \in Item : BatchEvent # <<i, "success">>
  BY DEF BatchEvent
<1>1. CASE \E e \in Event : Deliver(h, e)
  <2>1. PICK e \in Event : Deliver(h, e)
    BY <1>1
  <2>2. /\ job'[h].ev = e /\ job'[h].pc \in {"read", "readBatch"}
        /\ job'[h].pc = "readBatch" => e = BatchEvent
        /\ \A g \in Handler \ {h} : job'[g] = job[g]
        /\ rows' = rows
    BY <1>0, <2>1 DEF Deliver, Job, Shape, TypeOK, rowVars
  <2>3. Booked(job[h])'
    BY <2>2 DEF Booked, Past
  <2> QED
    BY <1>0, <2>2, <2>3, BookedOne
<1>2. CASE ReadItem(h) \/ ReadBatch(h)
  <2>1. rows' = rows /\ \E pc \in {"write", "turned down", "writeBatch"} :
                          Goto(h, pc) /\ (pc = "writeBatch" => job[h].ev = BatchEvent)
    <3>1. CASE ReadItem(h)
      BY <3>1, ReadItemGoes DEF ReadItem, rowVars
    <3>2. CASE ReadBatch(h)
      BY <1>a, <3>2, ReadBatchGoes DEF ReadBatch, rowVars
    <3> QED
      BY <1>2, <3>1, <3>2
  <2>2. \A i \in Item : rows'[i] >= rows[i]
    <3> SUFFICES ASSUME NEW i \in Item PROVE rows'[i] >= rows[i]
      OBVIOUS
    <3>1. rows' = rows
      BY <1>2 DEF ReadItem, ReadBatch, rowVars
    <3>2. rows[i] \in Nat
      BY <1>0
    <3>3. rows'[i] = rows[i]
      BY <3>1
    <3> QED
      BY <3>2, <3>3
  <2>3. PICK pc \in {"write", "turned down", "writeBatch"} :
          Goto(h, pc) /\ (pc = "writeBatch" => job[h].ev = BatchEvent)
    BY <2>1
  <2>4. pc \notin Past /\ pc # "readBatch"
    BY <2>3 DEF Past
  <2> QED
    BY <2>2, <2>3, <2>4, BookedGoto
<1>3. CASE WriteItem(h) \/ MarkPaidOut(h)
  <2>1. rows' = rows /\ \E pc \in {"notes", "find"} : Goto(h, pc)
    BY <1>3 DEF WriteItem, MarkPaidOut, WriteRevenue
  <2> QED
    BY <1>0, <2>1, BookedGoto DEF Past
<1>4. CASE ReadNotes(h) \/ WriteNotes(h)
  <2>1. /\ rows' = rows
        /\ \A g \in Handler \ {h} : job'[g] = job[g]
        /\ job'[h].ev = job[h].ev
        /\ job'[h].pc \in {"writeNotes", "revenue", "list"}
        /\ job'[h].pc = "list" => job[h].ev[2] # "success"
    BY <1>0, <1>4 DEF ReadNotes, WriteNotes, Job, VerdictOf, Shape, TypeOK, rowVars
  <2>2. Booked(job[h])'
    BY <2>1 DEF Booked, Past
  <2> QED
    BY <1>0, <2>1, <2>2, BookedOne
<1>5. CASE FindWithdrawal(h)
  <2>1. rows' = rows /\ \E pc \in {"list", "create"} : Goto(h, pc) /\ (pc = "list" => rows[ItemOf(h)] > 0)
    <3> DEFINE pc == IF rows[ItemOf(h)] > 0 THEN "list" ELSE "create"
    <3>1. rows' = rows /\ (Goto(h, pc) \/ Goto(h, "create"))
      BY <1>5 DEF FindWithdrawal, rowVars
    <3>2. pc \in {"list", "create"} /\ (pc = "list" => rows[ItemOf(h)] > 0)
      OBVIOUS
    <3> HIDE DEF pc
    <3> QED
      BY <3>1, <3>2
  <2> QED
    BY <1>0, <2>1, BookedGoto DEF Past, ItemOf
<1>6. CASE CreateWithdrawal(h)
  <2>1. Goto(h, "list") /\ rows' = [rows EXCEPT ![ItemOf(h)] = @ + 1]
    BY <1>6 DEF CreateWithdrawal
  <2>2. \A i \in Item : rows'[i] >= rows[i] /\ (job[h].ev = <<i, "success">> => rows'[i] > 0)
    BY <1>0, <2>1 DEF ItemOf
  <2> QED
    BY <2>1, <2>2, BookedGoto
<1>7. CASE ListItems(h) \/ WriteRollUp(h) \/ ConfirmRevenue(h)
  <2>1. rows' = rows /\ job[h].pc \in Past
    BY <1>7 DEF ListItems, WriteRollUp, ConfirmRevenue, WriteRevenue, rowVars, Past
  <2>2. \E pc \in Past : Goto(h, pc)
    <3>1. CASE ListItems(h)
      BY <3>1, ListItemsGoes DEF Past
    <3>2. CASE ConfirmRevenue(h)
      BY <3>2 DEF ConfirmRevenue, WriteRevenue, Past
    <3>3. CASE WriteRollUp(h)
      <4> DEFINE pc == IF job[h].pc = "completed" THEN "confirm" ELSE "ack"
      <4>1. Goto(h, pc) /\ pc \in Past
        BY <3>3 DEF WriteRollUp, Past
      <4> HIDE DEF pc
      <4> QED
        BY <4>1
    <3> QED
      BY <1>7, <3>1, <3>2, <3>3
  <2> QED
    BY <1>0, <2>1, <2>2, BookedGoto DEF Past
<1>8. CASE WriteBatch(h)
  <2>1. rows' = rows /\ Goto(h, "ack") /\ job[h].ev = BatchEvent
    BY <1>8, <1>a DEF WriteBatch
  <2> QED
    BY <1>0, <1>b, <2>1, BookedGoto
<1>9. CASE Acknowledge(h) \/ Throw(h)
  <2>1. rows' = rows /\ job' = [job EXCEPT ![h] = NoJob]
    BY <1>9 DEF Acknowledge, Throw, rowVars
  <2>2. /\ job'[h].pc = "idle"
        /\ \A g \in Handler \ {h} : job'[g] = job[g]
    BY <1>0, <2>1, NoJobFits DEF Shape, TypeOK
  <2>3. Booked(job[h])'
    BY <2>2 DEF Booked, Past
  <2> QED
    BY <1>0, <2>1, <2>2, <2>3, BookedOne
<1> QED
  BY <1>1, <1>2, <1>3, <1>4, <1>5, <1>6, <1>7, <1>8, <1>9 DEF Webhook

LEMMA BookedStep == BookedInv /\ [Next]_vars => BookedInv'
<1> SUFFICES ASSUME BookedInv, [Next]_vars PROVE BookedInv'
  OBVIOUS
<1>1. PaidInv'
  BY PaidStep DEF BookedInv
<1>2. CASE UNCHANGED <<rows, job>>
  BY <1>1, <1>2 DEF BookedInv, Booked
<1>3. CASE ServerCrash
  BY <1>1, <1>3, NoJobFits DEF ServerCrash, rowVars, BookedInv, Booked, Past
<1>4. CASE (\E i \in Item, v \in Verdict : Decide(i, v)) \/ (\E e \in Event : Expire(e))
  BY <1>2, <1>4 DEF Decide, Expire, rowVars, server
<1>5. CASE Submit \/ Sync \/ Overtaken \/ Operator
  BY <1>2, <1>5
  DEF Submit, SubmitRead, SubmitCreate, SubmitRecord, SubmitItem, SubmitDies,
      Sync, SyncStep, SyncFetch, SyncItem, SyncNotes, SyncList, SyncRollUp, SyncDies,
      Overtaken, Operator, Approve, CancelRead, CancelBatch, CancelItem, CancelDies, rowVars, server
<1>6. CASE UNCHANGED vars
  BY <1>2, <1>6 DEF vars, rowVars, server
<1> QED
  BY <1>1, <1>3, <1>4, <1>5, <1>6, BookedServer DEF Next

\* Only an acknowledgement adds an event to the dedupe store.
LEMMA AckedStep ==
  ASSUME BookedInv, [Next]_vars, NEW i \in Item, <<i, "success">> \in done' \ done
  PROVE  TurnedDown(<<i, "success">>) \/ (rows[i] > 0 /\ i \in paid)
<1>1. PICK h \in Handler : Acknowledge(h)
  BY DEF Next, vars, Decide, Webhook, Deliver, ReadItem, WriteItem, ReadNotes, WriteNotes, MarkPaidOut,
     WriteRevenue, FindWithdrawal, CreateWithdrawal, ListItems, WriteRollUp, ConfirmRevenue, ReadBatch,
     WriteBatch, Throw, Expire, ServerCrash, Submit, SubmitRead, SubmitCreate, SubmitRecord, SubmitItem,
     SubmitDies, Sync, SyncStep, SyncFetch, SyncItem, SyncNotes, SyncList, SyncRollUp, SyncDies, Overtaken, Operator,
     Approve, CancelRead, CancelBatch, CancelItem, CancelDies, server
<1>2. job[h].ev = <<i, "success">> /\ job[h].pc \in {"ack", "turned down"}
  BY <1>1 DEF Acknowledge
<1>3. CASE job[h].pc = "turned down"
  BY <1>2, <1>3 DEF TurnedDown
<1>4. CASE job[h].pc = "ack"
  <2>1. rows[i] > 0
    BY <1>2, <1>4 DEF BookedInv, Booked, Past
  <2>2. <<i, "success">> \in mail
    BY <1>2, <1>4 DEF BookedInv, PaidInv, Shape, JobShape, Fits
  <2> QED
    BY <2>1, <2>2 DEF BookedInv, PaidInv
<1> QED
  BY <1>2, <1>3, <1>4

\* The success that the dedupe store will swallow has been turned down, or has
\* its withdrawal.
THEOREM AcknowledgedIsApplied == Spec => AckedIsApplied
<1>1. BookedInv /\ [Next]_vars =>
        [\A i \in Item : <<i, "success">> \in done' \ done
           => TurnedDown(<<i, "success">>) \/ (rows[i] > 0 /\ i \in paid)]_vars
  BY AckedStep
<1> QED
  BY <1>1, BookedInit, BookedStep, PTL DEF Spec, AckedIsApplied
=============================================================================
