------------------------- MODULE PayoutSafetyProofs -------------------------
(***************************************************************************)
(* Why money moves at most once: Consistent is inductive, and the safety   *)
(* properties about rows and the rail follow from it; then what a step     *)
(* writes, and from that the ledger, the throttle, and the refinement of   *)
(* PayoutPromise.  For any number of payouts and of overlapping ticks.     *)
(***************************************************************************)
EXTENDS PayoutTypeProofs

WorkerOK(w) == SnapshotOK(w) /\ SubmitOK(w) /\ VerdictOK(w)

IInv == WorkerTypeOK /\ DbTypeOK /\ EnvTypeOK /\ Consistent

\* v is not the request that moves.
Unmoved(v) == /\ pc'[v] = pc[v]     /\ cur'[v] = cur[v]
              /\ seen'[v] = seen[v] /\ mem'[v] = mem[v]

\* Instructions stay, and what the rail decided stays decided.
Settles(p) ==
  \A i \in DOMAIN batch[p] :
    /\ i \in DOMAIN batch'[p]
    /\ batch[p][i] \in {"refused", "denied", "paid"} => batch'[p][i] = batch[p][i]

\* No instruction that could not pay before can pay now.
Quiet(p) ==
  /\ DOMAIN batch'[p] = DOMAIN batch[p]
  /\ \A i \in DOMAIN batch[p] : batch'[p][i] \in CanPay => batch[p][i] \in CanPay

\* A row is left alone or its version moves on.
RowsGrow ==
  \A p \in Payout : row'[p] = row[p] \/ row'[p].version = row[p].version + 1

-----------------------------------------------------------------------------
(* What survives a change at the rail *)

LEMMA RefSurvives ==
  ASSUME NEW p, Settles(p), NEW r, IsRef(p, r)
  PROVE  IsRef(p, r)'
  BY DEF Settles, IsRef

LEMMA DeadSurvives ==
  ASSUME NEW p, Quiet(p), Dead(p)
  PROVE  Dead(p)'
  BY DEF Quiet, Dead

LEMMA AloneSurvives ==
  ASSUME NEW p, Quiet(p), NEW i, Alone(p, i)
  PROVE  Alone(p, i)'
  BY DEF Quiet, Alone

LEMMA BackedSurvives ==
  ASSUME NEW p, Quiet(p), NEW r, Backed(p, r)
  PROVE  Backed(p, r)'
  BY DeadSurvives, AloneSurvives DEF Backed

LEMMA RecordSurvives ==
  ASSUME NEW p, Settles(p), NEW r, RecordOK(p, r),
         Quiet(p) \/ r.status \notin Open \cup {"SUBMITTED", "PROCESSING"}
  PROVE  RecordOK(p, r)'
<1>1. IsRef(p, r.requestId)'
  BY RefSurvives DEF RecordOK
<1>2. r.status \in Open => Dead(p)'
  BY DeadSurvives DEF RecordOK
<1>3. r.status \in {"SUBMITTED", "PROCESSING"} => Backed(p, r.requestId)'
  BY BackedSurvives DEF RecordOK
<1>4. r.status \in {"COMPLETED", "RECONCILED"} =>
        r.txnId \in DOMAIN batch'[p] /\ batch'[p][r.txnId] = "paid"
  BY DEF RecordOK, Settles
<1> QED
  BY <1>1, <1>2, <1>3, <1>4 DEF RecordOK

LEMMA SameBatch ==
  ASSUME batch' = batch, NEW p
  PROVE  Settles(p) /\ Quiet(p)
  BY DEF Settles, Quiet

-----------------------------------------------------------------------------
(* A request that does not move *)

LEMMA Bystander ==
  ASSUME WorkerTypeOK, DbTypeOK, RowsGrow,
         NEW v \in Worker, Unmoved(v), WorkerOK(v),
         InHand(v) => Settles(cur[v]),
         pc[v] \in SubmitPhase => Quiet(cur[v]) /\ row'[cur[v]].status \in Busy
  PROVE  WorkerOK(v)'
<1>1. CASE ~InHand(v)
  BY <1>1 DEF WorkerOK, SnapshotOK, SubmitOK, VerdictOK, InHand, SubmitPhase, Unmoved
<1>2. CASE InHand(v)
  <2>1. cur[v] \in Payout /\ cur'[v] = cur[v] /\ InHand(v)'
    BY <1>2 DEF WorkerOK, SnapshotOK, Unmoved, InHand
  <2>2. IsRef(cur[v], seen[v].requestId)'
    <3>1. IsRef(cur[v], seen[v].requestId)
      BY <1>2 DEF WorkerOK, SnapshotOK
    <3> DEFINE p == cur[v]
               r == seen[v].requestId
    <3>2. \A q, s : Settles(q) /\ IsRef(q, s) => s \in {NoRequest, DryRun} \cup DOMAIN batch'[q]
      BY DEF Settles, IsRef
    <3> QED
      BY <1>2, <3>1, <3>2 DEF IsRef, Unmoved
  <2>3. /\ seen[v].version <= row'[cur[v]].version
        /\ seen[v].version = row'[cur[v]].version => row'[cur[v]] = row[cur[v]]
    <3>1. seen[v].version \in Nat /\ row[cur[v]].version \in Nat
      BY <2>1 DEF WorkerTypeOK, DbTypeOK, PayoutRow
    <3>2. seen[v].version <= row[cur[v]].version
      BY <1>2 DEF WorkerOK, SnapshotOK
    <3> QED
      BY <2>1, <3>1, <3>2 DEF RowsGrow
  <2>4. SnapshotOK(v)'
    BY <1>2, <2>1, <2>2, <2>3 DEF WorkerOK, SnapshotOK, Unmoved
  <2>5. SubmitOK(v)'
    <3>1. \A q : Quiet(q) /\ Dead(q) =>
             \A i \in DOMAIN batch'[q] : batch'[q][i] \notin CanPay
      BY DEF Quiet, Dead
    <3>2. \A q, i : Quiet(q) /\ Alone(q, i) =>
             /\ i \in DOMAIN batch'[q]
             /\ \A j \in DOMAIN batch'[q] : j # i => batch'[q][j] \notin CanPay
      BY DEF Quiet, Alone
    <3> QED
      BY <3>1, <3>2 DEF WorkerOK, SubmitOK, Unmoved, Dead, Alone, Backed
  <2>6. VerdictOK(v)'
    BY <1>2 DEF WorkerOK, VerdictOK, Unmoved, Settles
  <2> QED
    BY <2>4, <2>5, <2>6 DEF WorkerOK
<1> QED
  BY <1>1, <1>2
-----------------------------------------------------------------------------
(* A step that touches neither rows nor the rail *)

LEMMA LocalStep ==
  ASSUME IInv, NEW w \in Worker, \A v \in Worker \ {w} : Unmoved(v),
         row' = row, batch' = batch, WorkerOK(w)',
         pc'[w] \in SubmitPhase => pc[w] \in SubmitPhase /\ cur'[w] = cur[w]
  PROVE  Consistent'
<1>1. \A v \in Worker \ {w} : WorkerOK(v)'
  <2> SUFFICES ASSUME NEW v \in Worker \ {w} PROVE WorkerOK(v)'
    OBVIOUS
  <2>1. WorkerOK(v) /\ RowsGrow /\ WorkerTypeOK /\ DbTypeOK
    BY DEF IInv, Consistent, WorkerOK, RowsGrow
  <2>2. Settles(cur[v]) /\ Quiet(cur[v])
    BY SameBatch
  <2>3. pc[v] \in SubmitPhase => row'[cur[v]].status \in Busy
    BY <2>1 DEF WorkerOK, SubmitOK
  <2> QED
    BY <2>1, <2>2, <2>3, Bystander
<1>2. OneSubmitter'
  BY DEF IInv, Consistent, OneSubmitter, Unmoved
<1>3. \A p \in Payout : RowOK(p)'
  BY DEF IInv, Consistent, RowOK, RecordOK, IsRef, Dead, Alone, Backed
<1> QED
  BY <1>1, <1>2, <1>3 DEF Consistent, WorkerOK

\* A request that has returned has no obligations.
LEMMA AtRest ==
  ASSUME NEW w \in Worker, pc'[w] \in {"idle", "load"}
  PROVE  WorkerOK(w)' /\ pc'[w] \notin SubmitPhase
  BY DEF WorkerOK, SnapshotOK, SubmitOK, VerdictOK, InHand, SubmitPhase

LEMMA ReturnMoves ==
  ASSUME NEW w \in Worker, WorkerTypeOK, Return(w)
  PROVE  /\ pc'[w] \in {"idle", "load"}
         /\ \A v \in Worker \ {w} : Unmoved(v)
  BY DEF WorkerTypeOK, Return, Unmoved

LEMMA GotoMoves ==
  ASSUME NEW w \in Worker, NEW label, WorkerTypeOK, Goto(w, label)
  PROVE  /\ pc'[w] = label /\ cur' = cur /\ seen' = seen /\ mem' = mem
         /\ \A v \in Worker \ {w} : Unmoved(v)
  BY DEF WorkerTypeOK, Goto, Unmoved

LEMMA ReturnStep ==
  ASSUME IInv, NEW w \in Worker, Return(w), row' = row, batch' = batch
  PROVE  Consistent'
  BY ReturnMoves, AtRest, LocalStep DEF IInv

\* A request goes on to a label that neither submits nor acts on a verdict.
LEMMA PlainStep ==
  ASSUME IInv, NEW w \in Worker, InHand(w), row' = row, batch' = batch,
         \A v \in Worker \ {w} : Unmoved(v),
         cur'[w] = cur[w], seen'[w] = seen[w],
         pc'[w] \notin SubmitPhase
           \cup {"idle", "load", "verdictFailed", "evidenceProcessing", "evidenceCompleted"},
         seen[w].status \in StatusesAt(pc'[w])
  PROVE  Consistent'
<1>1. SnapshotOK(w)'
  BY DEF IInv, Consistent, SnapshotOK, InHand, IsRef
<1>2. SubmitOK(w)' /\ VerdictOK(w)'
  BY DEF SubmitOK, VerdictOK
<1> QED
  BY <1>1, <1>2, LocalStep DEF WorkerOK

\* A submit in progress goes on; the rail and the rows stay.
LEMMA SubmitStep ==
  ASSUME IInv, NEW w \in Worker, pc[w] \in SubmitPhase, row' = row, batch' = batch,
         \A v \in Worker \ {w} : Unmoved(v),
         cur'[w] = cur[w], seen'[w] = seen[w], pc'[w] \in SubmitPhase,
         pc'[w] \in {"submit", "recordRejected", "recordUnavailable"} => Dead(cur[w]),
         pc'[w] = "awaitAnswer" => Alone(cur[w], mem'[w].req),
         pc'[w] = "recordSubmitted" => Backed(cur[w], mem'[w].req)
  PROVE  Consistent'
<1>1. InHand(w) /\ InHand(w)'
  BY DEF InHand, SubmitPhase
<1>2. SnapshotOK(w)'
  <2>1. seen[w].status \in StatusesAt(pc[w])
    BY <1>1 DEF IInv, Consistent, SnapshotOK
  <2>2. seen[w].status \in StatusesAt(pc'[w])
    BY <2>1 DEF StatusesAt, SubmitPhase
  <2> QED
    BY <1>1, <2>2 DEF IInv, Consistent, SnapshotOK, IsRef
<1>3. SubmitOK(w)'
  <2>1. SubmitOK(w)
    BY DEF IInv, Consistent
  <2> QED
    BY <2>1 DEF SubmitOK, Dead, Alone, Backed
<1>4. VerdictOK(w)'
  BY DEF VerdictOK, SubmitPhase
<1> QED
  BY <1>2, <1>3, <1>4, LocalStep DEF WorkerOK

-----------------------------------------------------------------------------
(* A step that writes the row of one payout *)

LEMMA WriteStep ==
  ASSUME IInv, NEW w \in Worker, NEW p \in Payout, NEW r,
         row' = [row EXCEPT ![p] = r], r.version = row[p].version + 1,
         batch' = batch, \A v \in Worker \ {w} : Unmoved(v), WorkerOK(w)',
         RecordOK(p, r),
         \A v \in Worker \ {w} : pc[v] \in SubmitPhase /\ cur[v] = p =>
           r.status \in Busy /\ ~(pc'[w] \in SubmitPhase /\ cur'[w] = p),
         pc'[w] \in SubmitPhase => cur'[w] = p
  PROVE  Consistent'
<1>1. RowsGrow
  BY DEF IInv, DbTypeOK, RowsGrow
<1>2. \A v \in Worker \ {w} : WorkerOK(v)'
  <2> SUFFICES ASSUME NEW v \in Worker \ {w} PROVE WorkerOK(v)'
    OBVIOUS
  <2>1. WorkerOK(v) /\ WorkerTypeOK /\ DbTypeOK
    BY DEF IInv, Consistent, WorkerOK
  <2>2. Settles(cur[v]) /\ Quiet(cur[v])
    BY SameBatch
  <2>3. pc[v] \in SubmitPhase => row'[cur[v]].status \in Busy
    <3>1. pc[v] \in SubmitPhase => cur[v] \in Payout /\ row[cur[v]].status \in Busy
      BY <2>1 DEF WorkerOK, SnapshotOK, SubmitOK, InHand, SubmitPhase
    <3> QED
      BY <2>1, <3>1 DEF DbTypeOK
  <2> QED
    BY <1>1, <2>1, <2>2, <2>3, Bystander
<1>3. OneSubmitter'
  <2>1. \A u, v \in Worker \ {w} :
          pc'[u] \in SubmitPhase /\ pc'[v] \in SubmitPhase /\ cur'[u] = cur'[v] => u = v
    BY DEF IInv, Consistent, OneSubmitter, Unmoved
  <2>2. \A v \in Worker \ {w} :
          ~(pc'[v] \in SubmitPhase /\ pc'[w] \in SubmitPhase /\ cur'[v] = cur'[w])
    BY DEF Unmoved
  <2> QED
    BY <2>1, <2>2 DEF OneSubmitter
<1>4. \A q \in Payout : RowOK(q)'
  <2> SUFFICES ASSUME NEW q \in Payout PROVE RecordOK(q, row[q])'
    BY DEF RowOK
  <2>1. RecordOK(q, row'[q])
    BY DEF IInv, DbTypeOK, Consistent, RowOK
  <2> QED
    BY <2>1 DEF RecordOK, IsRef, Dead, Alone, Backed
<1> QED
  BY <1>2, <1>3, <1>4 DEF Consistent, WorkerOK

\* A submit that is in progress keeps the payout where only it, or the next
\* tick's verdict of "interrupted", can move it.
LEMMA SubmitKeepsBusy ==
  ASSUME IInv, NEW w \in Worker, NEW p \in Payout, cur[w] = p, InHand(w),
         NEW to, NEW actor, Wins(w, to, actor),
         seen[w].status = "SUBMITTING" => pc[w] \in SubmitPhase \/ to = "UNKNOWN"
  PROVE  /\ seen[w].status = row[p].status
         /\ seen[w].requestId = row[p].requestId
         /\ <<row[p].status, to>> \in LEGAL_TRANSITIONS
         /\ \A v \in Worker \ {w} : pc[v] \in SubmitPhase /\ cur[v] = p => to \in Busy
<1>1. /\ seen[w].status = row[p].status
      /\ seen[w].requestId = row[p].requestId
      /\ <<row[p].status, to>> \in LEGAL_TRANSITIONS
  BY DEF IInv, Consistent, SnapshotOK, Wins, AssertTransition
<1>2. ASSUME NEW v \in Worker \ {w}, pc[v] \in SubmitPhase, cur[v] = p
      PROVE  to \in Busy
  <2>1. row[p].status \in Busy
    BY <1>2 DEF IInv, Consistent, SubmitOK
  <2>2. pc[w] \notin SubmitPhase
    BY <1>2 DEF IInv, Consistent, OneSubmitter
  <2> QED
    BY <1>1, <2>1, <2>2 DEF Busy, LEGAL_TRANSITIONS
<1> QED
  BY <1>1, <1>2

LEMMA TryTransitionStep ==
  ASSUME IInv, NEW w \in Worker, InHand(w), NEW to, NEW actor, NEW patched, NEW newLines,
         TryTransition(w, to, actor, patched, newLines), batch' = batch,
         Wins(w, to, actor) => RecordOK(cur[w], Updated(cur[w], to, patched)),
         seen[w].status = "SUBMITTING" => pc[w] \in SubmitPhase \/ to = "UNKNOWN"
  PROVE  Consistent'
<1>1. cur[w] \in Payout /\ Return(w)
  BY DEF IInv, Consistent, SnapshotOK, TryTransition
<1>2. /\ \A v \in Worker \ {w} : Unmoved(v)
      /\ WorkerOK(w)' /\ pc'[w] \notin SubmitPhase
  BY <1>1, ReturnMoves, AtRest DEF IInv
<1>3. CASE Wins(w, to, actor)
  <2> DEFINE r == Updated(cur[w], to, patched)
  <2>1. row' = [row EXCEPT ![cur[w]] = r] /\ r.version = row[cur[w]].version + 1
    BY <1>3 DEF TryTransition, Commit, Updated
  <2>2. \A v \in Worker \ {w} : pc[v] \in SubmitPhase /\ cur[v] = cur[w] => r.status \in Busy
    BY <1>1, <1>3, SubmitKeepsBusy DEF Updated
  <2>3. RecordOK(cur[w], r)
    BY <1>3
  <2> HIDE DEF r
  <2> QED
    BY <1>1, <1>2, <2>1, <2>2, <2>3, WriteStep
<1>4. CASE ~Wins(w, to, actor)
  BY <1>1, <1>4, ReturnStep DEF TryTransition, dbVars
<1> QED
  BY <1>3, <1>4

\* The same for a handler that goes on at label after the transition.
LEMMA TryAndGotoStep ==
  ASSUME IInv, NEW w \in Worker, InHand(w), NEW to, NEW actor, NEW patched, NEW newLines,
         NEW label, label \notin {"idle", "load"},
         TryAndGoto(w, to, actor, patched, newLines, label), batch' = batch,
         Wins(w, to, actor) => RecordOK(cur[w], Updated(cur[w], to, patched)),
         seen[w].status = "SUBMITTING" => pc[w] \in SubmitPhase \/ to = "UNKNOWN",
         to \in StatusesAt(label), patched.requestId = row[cur[w]].requestId,
         label \in SubmitPhase => label = "submit" /\ to = "SUBMITTING"
                                    /\ row[cur[w]].status \in Open,
         label \in {"evidenceProcessing", "evidenceCompleted"} =>
           /\ seen[w].requestId \in DOMAIN batch[cur[w]]
           /\ batch[cur[w]][seen[w].requestId] = "paid",
         label # "verdictFailed"
  PROVE  Consistent'
<1>1. cur[w] \in Payout
  BY DEF IInv, Consistent, SnapshotOK
<1>2. CASE ~Wins(w, to, actor)
  BY <1>2, ReturnStep DEF TryAndGoto, dbVars
<1>3. CASE Wins(w, to, actor)
  <2> DEFINE p == cur[w]
             r == Updated(p, to, patched)
  <2>1. row' = [row EXCEPT ![p] = r] /\ r.version = row[p].version + 1
    BY <1>3 DEF TryAndGoto, Commit, Updated
  <2>2. /\ seen[w].status = row[p].status
        /\ seen[w].requestId = row[p].requestId
        /\ \A v \in Worker \ {w} : pc[v] \in SubmitPhase /\ cur[v] = p => to \in Busy
    BY <1>1, <1>3, SubmitKeepsBusy
  <2>3. /\ \A v \in Worker \ {w} : Unmoved(v)
        /\ pc'[w] = label /\ cur'[w] = p
        /\ seen'[w].status = to /\ seen'[w].version = seen[w].version + 1
        /\ seen'[w].requestId = seen[w].requestId
    BY <1>3 DEF TryAndGoto, Unmoved, IInv, WorkerTypeOK, PayoutRow
  <2>4. row'[p] = r /\ seen[w].version = row[p].version /\ row[p].version \in Nat
    BY <1>1, <1>3, <2>1 DEF IInv, DbTypeOK, PayoutRow, Wins
  <2>5. SnapshotOK(w)'
    <3>1. IsRef(p, seen[w].requestId) /\ batch' = batch
      BY DEF IInv, Consistent, SnapshotOK
    <3>2. IsRef(cur[w], seen[w].requestId)'
      BY <2>3, <3>1 DEF IsRef
    <3> QED
      BY <1>1, <2>2, <2>3, <2>4, <3>2 DEF SnapshotOK, Updated
  <2>6. label \in SubmitPhase => Dead(p)
    BY <1>1 DEF IInv, Consistent, RowOK, RecordOK
  <2>7. SubmitOK(w)'
    BY <2>3, <2>4, <2>6 DEF SubmitOK, Updated, Busy, Dead
  <2>8. VerdictOK(w)'
    BY <2>3 DEF VerdictOK
  <2>9. \A v \in Worker \ {w} : pc[v] \in SubmitPhase /\ cur[v] = p =>
          r.status \in Busy /\ ~(pc'[w] \in SubmitPhase /\ cur'[w] = p)
    <3>1. ASSUME NEW v \in Worker \ {w}, pc[v] \in SubmitPhase, cur[v] = p
          PROVE  row[p].status \notin Open
      BY <3>1 DEF IInv, Consistent, SubmitOK, Busy, Open, FAILURE_STATUSES
    <3> QED
      BY <2>2, <2>3, <3>1 DEF Updated
  <2>10. RecordOK(p, r)
    BY <1>3
  <2>11. WorkerOK(w)'
    BY <2>5, <2>7, <2>8 DEF WorkerOK
  <2>12. cur'[w] = p /\ \A v \in Worker \ {w} : Unmoved(v)
    BY <2>3
  <2> HIDE DEF r
  <2> QED
    BY <1>1, <2>1, <2>9, <2>10, <2>11, <2>12, WriteStep
<1> QED
  BY <1>2, <1>3

-----------------------------------------------------------------------------
(* Every action of a request *)

LEMMA InHandFacts ==
  ASSUME IInv, NEW w \in Worker, InHand(w)
  PROVE  /\ cur[w] \in Payout /\ seen[w].status \in StatusesAt(pc[w])
         /\ WorkerOK(w) /\ RecordOK(cur[w], row[cur[w]])
         /\ IsRef(cur[w], seen[w].requestId)
  BY DEF IInv, Consistent, SnapshotOK, WorkerOK, RowOK

\* A status change that keeps what the row refers to.
LEMMA RecordMoves ==
  ASSUME NEW p, NEW to, NEW patched, RecordOK(p, row[p]),
         patched.requestId = row[p].requestId, patched.txnId = row[p].txnId,
         to \in Open => row[p].status \in Open \/ Dead(p),
         to \in {"SUBMITTED", "PROCESSING"} => row[p].status \in {"SUBMITTED", "PROCESSING"},
         to \in {"COMPLETED", "RECONCILED"} => row[p].status \in {"COMPLETED", "RECONCILED"}
  PROVE  RecordOK(p, Updated(p, to, patched))
  BY DEF RecordOK, Updated

\* A patch of the reconciliation status leaves the references alone.
LEMMA ReconPatch ==
  ASSUME DbTypeOK, NEW p \in Payout, NEW c
  PROVE  /\ [row[p] EXCEPT !.recon = c].requestId = row[p].requestId
         /\ [row[p] EXCEPT !.recon = c].txnId = row[p].txnId
  BY DEF DbTypeOK, PayoutRow

\* A read-only handler step: give up, or go on to a label it does nothing at.
LEMMA CheckStep ==
  ASSUME IInv, NEW w \in Worker, InHand(w), NEW label,
         Goto(w, label) \/ Return(w), row' = row, batch' = batch,
         label \notin SubmitPhase
           \cup {"idle", "load", "verdictFailed", "evidenceProcessing", "evidenceCompleted"},
         Goto(w, label) => seen[w].status \in StatusesAt(label)
  PROVE  Consistent'
<1>1. CASE Return(w)
  BY <1>1, ReturnStep
<1>2. CASE Goto(w, label)
  BY <1>2, GotoMoves, PlainStep DEF IInv
<1> QED
  BY <1>1, <1>2

LEMMA StepConsistent ==
  ASSUME IInv, NEW w \in Worker, Step(w)
  PROVE  Consistent'
<1> DEFINE p == cur[w]
<1>0. WorkerTypeOK /\ DbTypeOK /\ EnvTypeOK
  BY DEF IInv
<1>1. CASE StartTick(w)
  <2>1. /\ pc'[w] \in {"idle", "load"} /\ row' = row /\ batch' = batch
        /\ \A v \in Worker \ {w} : Unmoved(v)
    BY <1>0, <1>1 DEF StartTick, WorkerTypeOK, Unmoved, dbVars, envVars
  <2> QED
    BY <2>1, AtRest, LocalStep
<1>2. CASE SkipTerminal(w)
  <2>1. /\ pc'[w] \in {"idle", "load"} /\ row' = row /\ batch' = batch
        /\ \A v \in Worker \ {w} : Unmoved(v)
    BY <1>0, <1>2 DEF SkipTerminal, WorkerTypeOK, Unmoved, dbVars, envVars
  <2> QED
    BY <2>1, AtRest, LocalStep
<1>3. CASE LoadPayout(w)
  <2>1. PICK q \in todo[w] :
           /\ row[q].status \in DRIVE_STATUSES
           /\ cur'  = [cur EXCEPT ![w] = q]
           /\ seen' = [seen EXCEPT ![w] = row[q]]
           /\ pc'   = [pc EXCEPT ![w] = HandlerOf(row[q].status)]
    BY <1>3 DEF LoadPayout
  <2>2. q \in Payout /\ RecordOK(q, row[q]) /\ row[q].version \in Nat
    BY <1>0, <2>1 DEF WorkerTypeOK, IInv, Consistent, RowOK, DbTypeOK, PayoutRow
  <2>3. /\ \A v \in Worker \ {w} : Unmoved(v)
        /\ cur'[w] = q /\ seen'[w] = row[q] /\ pc'[w] = HandlerOf(row[q].status)
        /\ row' = row /\ batch' = batch
    BY <1>0, <1>3, <2>1 DEF LoadPayout, WorkerTypeOK, Unmoved, dbVars, envVars
  <2>4. /\ HandlerOf(row[q].status) \notin SubmitPhase
             \cup {"verdictFailed", "evidenceProcessing", "evidenceCompleted"}
        /\ row[q].status \in StatusesAt(HandlerOf(row[q].status))
    BY <2>1 DEF DRIVE_STATUSES, HandlerOf, FAILURE_STATUSES, SubmitPhase, StatusesAt
  <2>5. SnapshotOK(w)'
    BY <2>2, <2>3, <2>4 DEF SnapshotOK, RecordOK, IsRef
  <2>6. SubmitOK(w)' /\ VerdictOK(w)'
    BY <2>3, <2>4 DEF SubmitOK, VerdictOK
  <2> QED
    BY <2>3, <2>4, <2>5, <2>6, LocalStep DEF WorkerOK
<1>4. CASE CheckHold(w)
  <2>1. InHand(w) /\ row' = row /\ batch' = batch /\ (Goto(w, "markEligible") \/ Return(w))
    BY <1>4 DEF CheckHold, InHand, dbVars, envVars
  <2>2. seen[w].status \in StatusesAt("markEligible")
    BY <1>4, <2>1, InHandFacts DEF CheckHold, StatusesAt, SubmitPhase
  <2> QED
    BY <2>1, <2>2, CheckStep DEF SubmitPhase
<1>5. CASE CheckBalance(w)
  <2>1. InHand(w) /\ row' = row /\ batch' = batch /\ (Goto(w, "reserve") \/ Return(w))
    BY <1>5 DEF CheckBalance, InHand, dbVars, envVars
  <2>2. seen[w].status \in StatusesAt("reserve")
    BY <1>5, <2>1, InHandFacts DEF CheckBalance, StatusesAt, SubmitPhase
  <2> QED
    BY <2>1, <2>2, CheckStep DEF SubmitPhase
<1>6. CASE Validate(w)
  <2>1. InHand(w) /\ row' = row /\ batch' = batch /\ (Goto(w, "markValidated") \/ Return(w))
    BY <1>6 DEF Validate, InHand, dbVars, envVars
  <2>2. seen[w].status \in StatusesAt("markValidated")
    BY <1>6, <2>1, InHandFacts DEF Validate, StatusesAt, SubmitPhase
  <2> QED
    BY <2>1, <2>2, CheckStep DEF SubmitPhase
<1>7. CASE CheckThrottle(w)
  <2>1. InHand(w) /\ row' = row /\ batch' = batch /\ (Goto(w, "claim") \/ Return(w))
    BY <1>7 DEF CheckThrottle, InHand, dbVars, envVars
  <2>2. seen[w].status \in StatusesAt("claim")
    BY <1>7, <2>1, InHandFacts DEF CheckThrottle, StatusesAt, SubmitPhase
  <2> QED
    BY <2>1, <2>2, CheckStep DEF SubmitPhase
<1>8. CASE PollWithoutReference(w)
  <2>1. InHand(w) /\ row' = row /\ batch' = batch /\ (Goto(w, "noReference") \/ Return(w))
    BY <1>8 DEF PollWithoutReference, InHand, dbVars, envVars
  <2>2. CASE Return(w)
    BY <2>1, <2>2, ReturnStep
  <2>3. CASE Goto(w, "noReference") /\ seen[w].status = "UNKNOWN"
    BY <2>1, <2>3, CheckStep DEF StatusesAt, SubmitPhase
  <2> QED
    BY <1>8, <2>2, <2>3 DEF PollWithoutReference
<1>9. CASE CheckRetry(w)
  <2>1. InHand(w) /\ row' = row /\ batch' = batch /\ (Goto(w, "requeue") \/ Return(w))
    BY <1>9 DEF CheckRetry, InHand, dbVars, envVars
  <2>2. seen[w].status \in StatusesAt("requeue")
    BY <1>9, <2>1, InHandFacts DEF CheckRetry, StatusesAt, SubmitPhase
  <2> QED
    BY <2>1, <2>2, CheckStep DEF SubmitPhase
<1>10. CASE WritePoll(w)
  <2>1. /\ InHand(w) /\ row' = row /\ batch' = batch
        /\ Return(w) \/ (Goto(w, "evidenceGap") /\ seen[w].status = "UNKNOWN")
    BY <1>10 DEF WritePoll, InHand, envVars
  <2>2. CASE Return(w)
    BY <2>1, <2>2, ReturnStep
  <2>3. CASE Goto(w, "evidenceGap") /\ seen[w].status = "UNKNOWN"
    BY <2>1, <2>3, CheckStep DEF StatusesAt, SubmitPhase
  <2> QED
    BY <2>1, <2>2, <2>3
<1>11. CASE FetchStatusThrows(w)
  <2>1. /\ InHand(w) /\ row' = row /\ batch' = batch
        /\ \A v \in Worker \ {w} : Unmoved(v)
        /\ cur'[w] = cur[w] /\ seen'[w] = seen[w]
        /\ pc'[w] \in {"noteStatus", "writePoll"}
    BY <1>0, <1>11 DEF FetchStatusThrows, WorkerTypeOK, Unmoved, InHand, dbVars, envVars
  <2>2. seen[w].status \in StatusesAt(pc'[w])
    BY <1>11, <2>1, InHandFacts DEF FetchStatusThrows, StatusesAt, SubmitPhase
  <2> QED
    BY <2>1, <2>2, PlainStep DEF SubmitPhase
<1>12. CASE CountPolls(w)
  <2>1. /\ InHand(w) /\ row' = row /\ batch' = batch
        /\ \A v \in Worker \ {w} : Unmoved(v)
        /\ cur'[w] = cur[w] /\ seen'[w] = seen[w]
        /\ pc'[w] \in {"noteStatus", "writePoll"}
    BY <1>0, <1>12 DEF CountPolls, WorkerTypeOK, Unmoved, InHand, dbVars, envVars
  <2>2. seen[w].status \in StatusesAt(pc'[w])
    BY <1>12, <2>1, InHandFacts DEF CountPolls, StatusesAt, SubmitPhase
  <2> QED
    BY <2>1, <2>2, PlainStep DEF SubmitPhase
<1>13. CASE NoteStatus(w)
  <2>1. /\ InHand(w) /\ row' = row /\ batch' = batch
        /\ \A v \in Worker \ {w} : Unmoved(v)
        /\ cur'[w] = cur[w] /\ seen'[w] = seen[w]
        /\ pc'[w] \in {"noteStatus", "writePoll"}
    BY <1>0, <1>13 DEF NoteStatus, WorkerTypeOK, Unmoved, InHand, dbVars, envVars
  <2>2. seen[w].status \in StatusesAt(pc'[w])
    BY <1>13, <2>1, InHandFacts DEF NoteStatus, StatusesAt, SubmitPhase
  <2> QED
    BY <2>1, <2>2, PlainStep DEF SubmitPhase
<1>14. CASE SubmitNotLive(w)
  <2>1. /\ pc[w] \in SubmitPhase /\ row' = row /\ batch' = batch
        /\ \A v \in Worker \ {w} : Unmoved(v)
        /\ cur'[w] = cur[w] /\ seen'[w] = seen[w]
        /\ pc'[w] \in {"recordSubmitted", "recordUnavailable"}
        /\ pc'[w] = "recordSubmitted" => mem'[w].req = DryRun
    BY <1>0, <1>14 DEF SubmitNotLive, WorkerTypeOK, Unmoved, SubmitPhase, dbVars, envVars, Memory
  <2>2. Dead(cur[w])
    BY <1>14, <2>1 DEF SubmitNotLive, IInv, Consistent, SubmitOK
  <2> QED
    BY <2>1, <2>2, SubmitStep DEF SubmitPhase, Backed
<1>15. CASE SubmitFailsEarly(w)
  <2>1. /\ pc[w] \in SubmitPhase /\ row' = row /\ batch' = batch
        /\ Goto(w, "recordAmbiguous")
    BY <1>15 DEF SubmitFailsEarly, SubmitPhase, dbVars
  <2> QED
    BY <1>0, <2>1, GotoMoves, SubmitStep DEF SubmitPhase
<1>16. CASE LoseAnswer(w)
  <2>1. /\ pc[w] \in SubmitPhase /\ row' = row /\ batch' = batch
        /\ Goto(w, "recordAmbiguous")
    BY <1>16 DEF LoseAnswer, SubmitPhase, dbVars
  <2> QED
    BY <1>0, <2>1, GotoMoves, SubmitStep DEF SubmitPhase
<1>17. CASE ReceiveAnswer(w)
  <2> DEFINE b == batch[cur[w]][mem[w].req]
             label == IF b = "refused" THEN "recordRejected" ELSE "recordSubmitted"
  <2>1. /\ pc[w] \in SubmitPhase /\ row' = row /\ batch' = batch
        /\ Goto(w, label)
    BY <1>17 DEF ReceiveAnswer, SubmitPhase, dbVars, envVars
  <2>2. Alone(cur[w], mem[w].req)
    BY <1>17, <2>1 DEF ReceiveAnswer, IInv, Consistent, SubmitOK
  <2>3. b = "refused" => Dead(cur[w])
    BY <2>2 DEF Alone, Dead, CanPay
  <2>4. pc'[w] = label /\ cur' = cur /\ seen' = seen /\ mem' = mem
        /\ \A v \in Worker \ {w} : Unmoved(v)
    BY <1>0, <2>1, GotoMoves
  <2> QED
    BY <2>1, <2>2, <2>3, <2>4, SubmitStep DEF SubmitPhase, Backed
<1>18. CASE SendInstruction(w)
  <2> DEFINE n == Len(batch[p]) + 1
  <2>1. /\ pc[w] = "submit" /\ InHand(w) /\ p \in Payout /\ batch[p] \in Seq(BatchStatus)
        /\ Dead(p) /\ row[p].status \in Busy
    BY <1>0, <1>18, InHandFacts
       DEF SendInstruction, InHand, EnvTypeOK, WorkerOK, SubmitOK, SubmitPhase
  <2>2. /\ row' = row /\ batch' = [batch EXCEPT ![p] = Append(batch[p], "sent")]
        /\ \A v \in Worker \ {w} : Unmoved(v)
        /\ pc'[w] = "awaitAnswer" /\ cur'[w] = p /\ seen'[w] = seen[w] /\ mem'[w].req = n
    BY <1>0, <1>18 DEF SendInstruction, WorkerTypeOK, Unmoved, dbVars, Memory
  <2>3. /\ batch'[p] = Append(batch[p], "sent")
        /\ \A q \in Payout \ {p} : batch'[q] = batch[q]
    BY <1>0, <2>1, <2>2 DEF EnvTypeOK
  <2>4. \A q \in Payout : Settles(q)
    BY <2>1, <2>3 DEF Settles
  <2>5. \A q \in Payout \ {p} : Quiet(q)
    BY <2>3 DEF Quiet
  <2>6. \A v \in Worker \ {w} : WorkerOK(v)'
    <3> SUFFICES ASSUME NEW v \in Worker \ {w} PROVE WorkerOK(v)'
      OBVIOUS
    <3>1. WorkerOK(v) /\ RowsGrow
      BY <2>2 DEF IInv, Consistent, WorkerOK, RowsGrow
    <3>2. InHand(v) => cur[v] \in Payout
      BY <3>1 DEF WorkerOK, SnapshotOK
    <3>3. pc[v] \in SubmitPhase =>
            InHand(v) /\ cur[v] # p /\ row'[cur[v]].status \in Busy
      BY <2>1, <2>2, <3>1
         DEF IInv, Consistent, OneSubmitter, WorkerOK, SubmitOK, SubmitPhase, InHand
    <3> QED
      BY <1>0, <2>2, <2>4, <2>5, <3>1, <3>2, <3>3, Bystander
  <2>7. WorkerOK(w)'
    <3>1. IsRef(p, seen[w].requestId) /\ SnapshotOK(w) /\ seen[w].status \in {"SUBMITTING"}
      BY <2>1, InHandFacts DEF WorkerOK, StatusesAt, SubmitPhase
    <3>2. IsRef(p, seen[w].requestId)'
      <4>1. seen[w].requestId \in {NoRequest, DryRun} \cup DOMAIN batch'[p]
        BY <2>1, <2>4, <3>1 DEF IsRef, Settles
      <4> QED
        BY <2>2, <4>1 DEF IsRef
    <3>3. SnapshotOK(w)'
      BY <2>1, <2>2, <3>1, <3>2 DEF SnapshotOK, StatusesAt, SubmitPhase, InHand
    <3>4. n \in DOMAIN batch'[p]
          /\ \A j \in DOMAIN batch'[p] : j # n => batch'[p][j] \notin CanPay
      BY <2>1, <2>3 DEF Dead
    <3>5. SubmitOK(w)'
      BY <2>1, <2>2, <3>4 DEF SubmitOK, Alone
    <3>6. VerdictOK(w)'
      BY <2>2 DEF VerdictOK
    <3> QED
      BY <3>3, <3>5, <3>6 DEF WorkerOK
  <2>8. OneSubmitter'
    BY <2>1, <2>2 DEF IInv, Consistent, OneSubmitter, Unmoved, SubmitPhase
  <2>9. \A q \in Payout : RowOK(q)'
    <3> SUFFICES ASSUME NEW q \in Payout PROVE RowOK(q)'
      OBVIOUS
    <3>1. RecordOK(q, row[q]) /\ Settles(q)
      BY <2>4 DEF IInv, Consistent, RowOK
    <3>2. Quiet(q) \/ row[q].status \notin Open \cup {"SUBMITTED", "PROCESSING"}
      BY <2>1, <2>5 DEF Busy, Open, FAILURE_STATUSES
    <3>3. RecordOK(q, row[q])'
      <4> DEFINE r == row[q]
      <4>1. \A x : x = r => (x.status \in {"COMPLETED", "RECONCILED"} =>
               x.txnId \in DOMAIN batch'[q] /\ batch'[q][x.txnId] = "paid")
        BY <3>1 DEF RecordOK, Settles
      <4>2. row[q].status \in Open => \A i \in DOMAIN batch'[q] : batch'[q][i] \notin CanPay
        BY <3>1, <3>2 DEF RecordOK, Quiet, Dead
      <4>3. row[q].requestId \in {NoRequest, DryRun} \cup DOMAIN batch'[q]
        BY <3>1 DEF RecordOK, IsRef, Settles
      <4>4. row[q].status \in {"SUBMITTED", "PROCESSING"} => Quiet(q) /\ Backed(q, row[q].requestId)
        BY <3>1, <3>2 DEF RecordOK
      <4>5. row[q].status \in {"SUBMITTED", "PROCESSING"} => Backed(q, row[q].requestId)'
        BY <2>2, <4>4 DEF Quiet, Backed, Dead, Alone
      <4> QED
        BY <2>2, <4>1, <4>2, <4>3, <4>5 DEF RecordOK, Dead, IsRef
    <3> QED
      BY <3>3 DEF RowOK
  <2> QED
    BY <2>6, <2>7, <2>8, <2>9 DEF Consistent, WorkerOK
<1>19. CASE FetchStatus(w)
  <2>1. /\ pc[w] = "poll" /\ InHand(w) /\ row' = row /\ batch' = batch
        /\ seen[w].requestId # NoRequest
    BY <1>19 DEF FetchStatus, InHand, dbVars, envVars
  <2>2. PICK v \in Verdicts(w) : Goto(w, AfterVerdict(seen[w].status, v))
    BY <1>19 DEF FetchStatus
  <2> DEFINE label == AfterVerdict(seen[w].status, v)
             r == seen[w].requestId
  <2>3. /\ pc'[w] = label /\ cur' = cur /\ seen' = seen
        /\ \A u \in Worker \ {w} : Unmoved(u)
    BY <1>0, <2>2, GotoMoves
  <2>4. seen[w].status \in {"SUBMITTED", "PROCESSING", "UNKNOWN"}
    BY <2>1, InHandFacts DEF StatusesAt, SubmitPhase
  <2>5. r = DryRun \/ r \in DOMAIN batch[p]
    BY <2>1, InHandFacts DEF IsRef
  <2>6. /\ label = "verdictFailed" =>
             r \in DOMAIN batch[p] /\ batch[p][r] \in {"refused", "denied"}
        /\ label \in {"evidenceProcessing", "evidenceCompleted"} =>
             r \in DOMAIN batch[p] /\ batch[p][r] = "paid"
    <3>1. r = DryRun => v = "UNKNOWN"
      BY DEF Verdicts
    <3>2. r # DryRun => batch[p][r] \in BatchStatus
      BY <1>0, <2>1, <2>5, InHandFacts DEF EnvTypeOK
    <3>3. r # DryRun => /\ v = "FAILED" => batch[p][r] \in {"refused", "denied"}
                        /\ v = "COMPLETED" => batch[p][r] = "paid"
      BY <3>2 DEF Verdicts, BatchStatus
    <3>4. /\ label = "verdictFailed" => v = "FAILED"
          /\ label \in {"evidenceProcessing", "evidenceCompleted"} => v = "COMPLETED"
      BY DEF AfterVerdict
    <3> QED
      BY <2>5, <3>1, <3>3, <3>4
  <2>7. seen[w].status \in StatusesAt(label)
    BY <2>4 DEF AfterVerdict, StatusesAt, SubmitPhase
  <2>8. label \notin SubmitPhase \cup {"idle", "load"}
    BY DEF AfterVerdict, SubmitPhase
  <2>9. SnapshotOK(w)'
    BY <2>1, <2>3, <2>7, <2>8, InHandFacts DEF WorkerOK, SnapshotOK, IsRef
  <2>10. SubmitOK(w)'
    BY <2>3, <2>8 DEF SubmitOK
  <2>11. VerdictOK(w)'
    BY <2>1, <2>3, <2>6 DEF VerdictOK
  <2> QED
    BY <2>1, <2>3, <2>8, <2>9, <2>10, <2>11, LocalStep DEF WorkerOK
<1>20. CASE MarkEligible(w)
  <2>1. /\ InHand(w) /\ pc[w] = "markEligible" /\ batch' = batch
        /\ TryTransition(w, "ELIGIBLE", "watchdog", row[p], {})
    BY <1>20 DEF MarkEligible, InHand, envVars
  <2>2. p \in Payout /\ RecordOK(p, row[p]) /\ seen[w].status \in StatusesAt("markEligible")
    BY <2>1, InHandFacts
  <2>3. seen[w].status = "SUBMITTING" => pc[w] \in SubmitPhase \/ "ELIGIBLE" = "UNKNOWN"
    BY <2>1, <2>2 DEF StatusesAt, SubmitPhase, FAILURE_STATUSES
  <2>4. Wins(w, "ELIGIBLE", "watchdog") => row[p].status \in StatusesAt("markEligible")
    BY <2>1, <2>2, <2>3, SubmitKeepsBusy
  <2>6. Wins(w, "ELIGIBLE", "watchdog") => RecordOK(p, Updated(p, "ELIGIBLE", row[p]))
    BY <2>2, <2>4, RecordMoves DEF StatusesAt, SubmitPhase, Open, FAILURE_STATUSES
  <2> QED
    BY <2>1, <2>3, <2>6, TryTransitionStep
<1>21. CASE Reserve(w)
  <2>1. /\ InHand(w) /\ pc[w] = "reserve" /\ batch' = batch
        /\ TryTransition(w, "RESERVED", "system", row[p], {<<p, "PAYOUT_RESERVED">>})
    BY <1>21 DEF Reserve, InHand, envVars
  <2>2. p \in Payout /\ RecordOK(p, row[p]) /\ seen[w].status \in StatusesAt("reserve")
    BY <2>1, InHandFacts
  <2>3. seen[w].status = "SUBMITTING" => pc[w] \in SubmitPhase \/ "RESERVED" = "UNKNOWN"
    BY <2>1, <2>2 DEF StatusesAt, SubmitPhase, FAILURE_STATUSES
  <2>4. Wins(w, "RESERVED", "system") => row[p].status \in StatusesAt("reserve")
    BY <2>1, <2>2, <2>3, SubmitKeepsBusy
  <2>6. Wins(w, "RESERVED", "system") => RecordOK(p, Updated(p, "RESERVED", row[p]))
    BY <2>2, <2>4, RecordMoves DEF StatusesAt, SubmitPhase, Open, FAILURE_STATUSES
  <2> QED
    BY <2>1, <2>3, <2>6, TryTransitionStep
<1>22. CASE MarkValidated(w)
  <2>1. /\ InHand(w) /\ pc[w] = "markValidated" /\ batch' = batch
        /\ TryTransition(w, "VALIDATED", "system", row[p], {})
    BY <1>22 DEF MarkValidated, InHand, envVars
  <2>2. p \in Payout /\ RecordOK(p, row[p]) /\ seen[w].status \in StatusesAt("markValidated")
    BY <2>1, InHandFacts
  <2>3. seen[w].status = "SUBMITTING" => pc[w] \in SubmitPhase \/ "VALIDATED" = "UNKNOWN"
    BY <2>1, <2>2 DEF StatusesAt, SubmitPhase, FAILURE_STATUSES
  <2>4. Wins(w, "VALIDATED", "system") => row[p].status \in StatusesAt("markValidated")
    BY <2>1, <2>2, <2>3, SubmitKeepsBusy
  <2>6. Wins(w, "VALIDATED", "system") => RecordOK(p, Updated(p, "VALIDATED", row[p]))
    BY <2>2, <2>4, RecordMoves DEF StatusesAt, SubmitPhase, Open, FAILURE_STATUSES
  <2> QED
    BY <2>1, <2>3, <2>6, TryTransitionStep
<1>23. CASE MarkReady(w)
  <2>1. /\ InHand(w) /\ pc[w] = "markReady" /\ batch' = batch
        /\ TryTransition(w, "READY", "system", row[p], {})
    BY <1>23 DEF MarkReady, InHand, envVars
  <2>2. p \in Payout /\ RecordOK(p, row[p]) /\ seen[w].status \in StatusesAt("markReady")
    BY <2>1, InHandFacts
  <2>3. seen[w].status = "SUBMITTING" => pc[w] \in SubmitPhase \/ "READY" = "UNKNOWN"
    BY <2>1, <2>2 DEF StatusesAt, SubmitPhase, FAILURE_STATUSES
  <2>4. Wins(w, "READY", "system") => row[p].status \in StatusesAt("markReady")
    BY <2>1, <2>2, <2>3, SubmitKeepsBusy
  <2>6. Wins(w, "READY", "system") => RecordOK(p, Updated(p, "READY", row[p]))
    BY <2>2, <2>4, RecordMoves DEF StatusesAt, SubmitPhase, Open, FAILURE_STATUSES
  <2> QED
    BY <2>1, <2>3, <2>6, TryTransitionStep
<1>24. CASE RecordRejected(w)
  <2>1. /\ InHand(w) /\ pc[w] = "recordRejected" /\ batch' = batch
        /\ TryTransition(w, "PROVIDER_REJECTED", "system", row[p], {})
    BY <1>24 DEF RecordRejected, InHand, envVars
  <2>2. p \in Payout /\ RecordOK(p, row[p]) /\ seen[w].status \in StatusesAt("recordRejected")
    BY <2>1, InHandFacts
  <2>3. seen[w].status = "SUBMITTING" => pc[w] \in SubmitPhase \/ "PROVIDER_REJECTED" = "UNKNOWN"
    BY <2>1, <2>2 DEF StatusesAt, SubmitPhase, FAILURE_STATUSES
  <2>4. Wins(w, "PROVIDER_REJECTED", "system") => row[p].status \in StatusesAt("recordRejected")
    BY <2>1, <2>2, <2>3, SubmitKeepsBusy
  <2>5. Dead(p)
    BY <2>1 DEF IInv, Consistent, SubmitOK, SubmitPhase
  <2>6. Wins(w, "PROVIDER_REJECTED", "system") => RecordOK(p, Updated(p, "PROVIDER_REJECTED", row[p]))
    BY <2>2, <2>4, <2>5, RecordMoves DEF StatusesAt, SubmitPhase, Open, FAILURE_STATUSES
  <2> QED
    BY <2>1, <2>3, <2>6, TryTransitionStep
<1>25. CASE RecordUnavailable(w)
  <2>1. /\ InHand(w) /\ pc[w] = "recordUnavailable" /\ batch' = batch
        /\ TryTransition(w, "RETRYABLE_FAILURE", "system", row[p], {})
    BY <1>25 DEF RecordUnavailable, InHand, envVars
  <2>2. p \in Payout /\ RecordOK(p, row[p]) /\ seen[w].status \in StatusesAt("recordUnavailable")
    BY <2>1, InHandFacts
  <2>3. seen[w].status = "SUBMITTING" => pc[w] \in SubmitPhase \/ "RETRYABLE_FAILURE" = "UNKNOWN"
    BY <2>1, <2>2 DEF StatusesAt, SubmitPhase, FAILURE_STATUSES
  <2>4. Wins(w, "RETRYABLE_FAILURE", "system") => row[p].status \in StatusesAt("recordUnavailable")
    BY <2>1, <2>2, <2>3, SubmitKeepsBusy
  <2>5. Dead(p)
    BY <2>1 DEF IInv, Consistent, SubmitOK, SubmitPhase
  <2>6. Wins(w, "RETRYABLE_FAILURE", "system") => RecordOK(p, Updated(p, "RETRYABLE_FAILURE", row[p]))
    BY <2>2, <2>4, <2>5, RecordMoves DEF StatusesAt, SubmitPhase, Open, FAILURE_STATUSES
  <2> QED
    BY <2>1, <2>3, <2>6, TryTransitionStep
<1>26. CASE RecordAmbiguous(w)
  <2>1. /\ InHand(w) /\ pc[w] = "recordAmbiguous" /\ batch' = batch
        /\ TryTransition(w, "UNKNOWN", "system", [row[p] EXCEPT !.recon = "EVIDENCE_PENDING"], {})
    BY <1>26 DEF RecordAmbiguous, InHand, envVars
  <2>2. p \in Payout /\ RecordOK(p, row[p]) /\ seen[w].status \in StatusesAt("recordAmbiguous")
    BY <2>1, InHandFacts
  <2>3. seen[w].status = "SUBMITTING" => pc[w] \in SubmitPhase \/ "UNKNOWN" = "UNKNOWN"
    BY <2>1, <2>2 DEF StatusesAt, SubmitPhase, FAILURE_STATUSES
  <2>4. Wins(w, "UNKNOWN", "system") => row[p].status \in StatusesAt("recordAmbiguous")
    BY <2>1, <2>2, <2>3, SubmitKeepsBusy
  <2>5. [row[p] EXCEPT !.recon = "EVIDENCE_PENDING"].requestId = row[p].requestId
        /\ [row[p] EXCEPT !.recon = "EVIDENCE_PENDING"].txnId = row[p].txnId
    BY <1>0, <2>2, ReconPatch
  <2>6. Wins(w, "UNKNOWN", "system") => RecordOK(p, Updated(p, "UNKNOWN", [row[p] EXCEPT !.recon = "EVIDENCE_PENDING"]))
    BY <2>2, <2>4, <2>5, RecordMoves DEF StatusesAt, SubmitPhase, Open, FAILURE_STATUSES
  <2> QED
    BY <2>1, <2>3, <2>6, TryTransitionStep
<1>27. CASE MarkInterrupted(w)
  <2>1. /\ InHand(w) /\ pc[w] = "interrupt" /\ batch' = batch
        /\ TryTransition(w, "UNKNOWN", "watchdog", [row[p] EXCEPT !.recon = "EVIDENCE_PENDING"], {})
    BY <1>27 DEF MarkInterrupted, InHand, envVars
  <2>2. p \in Payout /\ RecordOK(p, row[p]) /\ seen[w].status \in StatusesAt("interrupt")
    BY <2>1, InHandFacts
  <2>3. seen[w].status = "SUBMITTING" => pc[w] \in SubmitPhase \/ "UNKNOWN" = "UNKNOWN"
    BY <2>1, <2>2 DEF StatusesAt, SubmitPhase, FAILURE_STATUSES
  <2>4. Wins(w, "UNKNOWN", "watchdog") => row[p].status \in StatusesAt("interrupt")
    BY <2>1, <2>2, <2>3, SubmitKeepsBusy
  <2>5. [row[p] EXCEPT !.recon = "EVIDENCE_PENDING"].requestId = row[p].requestId
        /\ [row[p] EXCEPT !.recon = "EVIDENCE_PENDING"].txnId = row[p].txnId
    BY <1>0, <2>2, ReconPatch
  <2>6. Wins(w, "UNKNOWN", "watchdog") => RecordOK(p, Updated(p, "UNKNOWN", [row[p] EXCEPT !.recon = "EVIDENCE_PENDING"]))
    BY <2>2, <2>4, <2>5, RecordMoves DEF StatusesAt, SubmitPhase, Open, FAILURE_STATUSES
  <2> QED
    BY <2>1, <2>3, <2>6, TryTransitionStep
<1>28. CASE QuarantineNoReference(w)
  <2>1. /\ InHand(w) /\ pc[w] = "noReference" /\ batch' = batch
        /\ TryTransition(w, "QUARANTINED", "system", row[p], {})
    BY <1>28 DEF QuarantineNoReference, InHand, envVars
  <2>2. p \in Payout /\ RecordOK(p, row[p]) /\ seen[w].status \in StatusesAt("noReference")
    BY <2>1, InHandFacts
  <2>3. seen[w].status = "SUBMITTING" => pc[w] \in SubmitPhase \/ "QUARANTINED" = "UNKNOWN"
    BY <2>1, <2>2 DEF StatusesAt, SubmitPhase, FAILURE_STATUSES
  <2>4. Wins(w, "QUARANTINED", "system") => row[p].status \in StatusesAt("noReference")
    BY <2>1, <2>2, <2>3, SubmitKeepsBusy
  <2>6. Wins(w, "QUARANTINED", "system") => RecordOK(p, Updated(p, "QUARANTINED", row[p]))
    BY <2>2, <2>4, RecordMoves DEF StatusesAt, SubmitPhase, Open, FAILURE_STATUSES
  <2> QED
    BY <2>1, <2>3, <2>6, TryTransitionStep
<1>29. CASE Reconcile(w)
  <2>1. /\ InHand(w) /\ pc[w] = "reconcile" /\ batch' = batch
        /\ TryTransition(w, "RECONCILED", "system", [row[p] EXCEPT !.recon = "RECONCILED"], {<<p, "PAYOUT_SETTLED">>})
    BY <1>29 DEF Reconcile, InHand, envVars
  <2>2. p \in Payout /\ RecordOK(p, row[p]) /\ seen[w].status \in StatusesAt("reconcile")
    BY <2>1, InHandFacts
  <2>3. seen[w].status = "SUBMITTING" => pc[w] \in SubmitPhase \/ "RECONCILED" = "UNKNOWN"
    BY <2>1, <2>2 DEF StatusesAt, SubmitPhase, FAILURE_STATUSES
  <2>4. Wins(w, "RECONCILED", "system") => row[p].status \in StatusesAt("reconcile")
    BY <2>1, <2>2, <2>3, SubmitKeepsBusy
  <2>5. [row[p] EXCEPT !.recon = "RECONCILED"].requestId = row[p].requestId
        /\ [row[p] EXCEPT !.recon = "RECONCILED"].txnId = row[p].txnId
    BY <1>0, <2>2, ReconPatch
  <2>6. Wins(w, "RECONCILED", "system") => RecordOK(p, Updated(p, "RECONCILED", [row[p] EXCEPT !.recon = "RECONCILED"]))
    BY <2>2, <2>4, <2>5, RecordMoves DEF StatusesAt, SubmitPhase, Open, FAILURE_STATUSES
  <2> QED
    BY <2>1, <2>3, <2>6, TryTransitionStep
<1>30. CASE MarkProcessing(w)
  <2>1. /\ InHand(w) /\ pc[w] = "markProcessing" /\ batch' = batch
        /\ TryTransition(w, "PROCESSING", "provider", row[p], {})
    BY <1>30 DEF MarkProcessing, InHand, envVars
  <2>2. p \in Payout /\ RecordOK(p, row[p]) /\ seen[w].status \in StatusesAt("markProcessing")
    BY <2>1, InHandFacts
  <2>3. seen[w].status = "SUBMITTING" => pc[w] \in SubmitPhase \/ "PROCESSING" = "UNKNOWN"
    BY <2>1, <2>2 DEF StatusesAt, SubmitPhase, FAILURE_STATUSES
  <2>4. Wins(w, "PROCESSING", "provider") => row[p].status \in StatusesAt("markProcessing")
    BY <2>1, <2>2, <2>3, SubmitKeepsBusy
  <2>6. Wins(w, "PROCESSING", "provider") => RecordOK(p, Updated(p, "PROCESSING", row[p]))
    BY <2>2, <2>4, RecordMoves DEF StatusesAt, SubmitPhase, Open, FAILURE_STATUSES
  <2> QED
    BY <2>1, <2>3, <2>6, TryTransitionStep
<1>31. CASE QuarantineEvidenceGap(w)
  <2>1. /\ InHand(w) /\ pc[w] = "evidenceGap" /\ batch' = batch
        /\ TryTransition(w, "QUARANTINED", "system", [row[p] EXCEPT !.recon = "QUARANTINED"], {})
    BY <1>31 DEF QuarantineEvidenceGap, InHand, envVars
  <2>2. p \in Payout /\ RecordOK(p, row[p]) /\ seen[w].status \in StatusesAt("evidenceGap")
    BY <2>1, InHandFacts
  <2>3. seen[w].status = "SUBMITTING" => pc[w] \in SubmitPhase \/ "QUARANTINED" = "UNKNOWN"
    BY <2>1, <2>2 DEF StatusesAt, SubmitPhase, FAILURE_STATUSES
  <2>4. Wins(w, "QUARANTINED", "system") => row[p].status \in StatusesAt("evidenceGap")
    BY <2>1, <2>2, <2>3, SubmitKeepsBusy
  <2>5. [row[p] EXCEPT !.recon = "QUARANTINED"].requestId = row[p].requestId
        /\ [row[p] EXCEPT !.recon = "QUARANTINED"].txnId = row[p].txnId
    BY <1>0, <2>2, ReconPatch
  <2>6. Wins(w, "QUARANTINED", "system") => RecordOK(p, Updated(p, "QUARANTINED", [row[p] EXCEPT !.recon = "QUARANTINED"]))
    BY <2>2, <2>4, <2>5, RecordMoves DEF StatusesAt, SubmitPhase, Open, FAILURE_STATUSES
  <2> QED
    BY <2>1, <2>3, <2>6, TryTransitionStep
<1>32. CASE Requeue(w)
  <2>1. /\ InHand(w) /\ pc[w] = "requeue" /\ batch' = batch
        /\ TryTransition(w, "READY", "watchdog", row[p], {})
    BY <1>32 DEF Requeue, InHand, envVars
  <2>2. p \in Payout /\ RecordOK(p, row[p]) /\ seen[w].status \in StatusesAt("requeue")
    BY <2>1, InHandFacts
  <2>3. seen[w].status = "SUBMITTING" => pc[w] \in SubmitPhase \/ "READY" = "UNKNOWN"
    BY <2>1, <2>2 DEF StatusesAt, SubmitPhase, FAILURE_STATUSES
  <2>4. Wins(w, "READY", "watchdog") => row[p].status \in StatusesAt("requeue")
    BY <2>1, <2>2, <2>3, SubmitKeepsBusy
  <2>6. Wins(w, "READY", "watchdog") => RecordOK(p, Updated(p, "READY", row[p]))
    BY <2>2, <2>4, RecordMoves DEF StatusesAt, SubmitPhase, Open, FAILURE_STATUSES
  <2> QED
    BY <2>1, <2>3, <2>6, TryTransitionStep
<1>33. CASE RecordSubmitted(w)
  <2> DEFINE patched == [row[p] EXCEPT !.requestId = mem[w].req]
  <2>1. /\ InHand(w) /\ pc[w] \in SubmitPhase /\ batch' = batch
        /\ TryTransition(w, "SUBMITTED", "system", patched, {})
    BY <1>33 DEF RecordSubmitted, InHand, SubmitPhase, envVars
  <2>2. p \in Payout /\ RecordOK(p, row[p]) /\ Backed(p, mem[w].req)
    BY <1>33, <2>1, InHandFacts DEF RecordSubmitted, WorkerOK, SubmitOK
  <2>3. patched.requestId = mem[w].req
    BY <1>0, <2>2 DEF DbTypeOK, PayoutRow
  <2>4. IsRef(p, mem[w].req)
    BY <2>2 DEF Backed, IsRef, Alone
  <2>5. RecordOK(p, Updated(p, "SUBMITTED", patched))
    BY <2>2, <2>3, <2>4 DEF RecordOK, Updated, Open, FAILURE_STATUSES
  <2> HIDE DEF patched
  <2> QED
    BY <2>1, <2>5, TryTransitionStep
<1>34. CASE VerdictFailed(w)
  <2> DEFINE r == seen[w].requestId
             closed == [row[p] EXCEPT !.recon = "QUARANTINED"]
  <2>1. /\ InHand(w) /\ pc[w] = "verdictFailed" /\ batch' = batch
        /\ \/ seen[w].status = "UNKNOWN" /\ TryTransition(w, "QUARANTINED", "provider", closed, {})
           \/ seen[w].status # "UNKNOWN" /\ TryTransition(w, "PROVIDER_REJECTED", "provider", row[p], {})
    BY <1>34 DEF VerdictFailed, InHand, envVars
  <2>2. /\ p \in Payout /\ RecordOK(p, row[p]) 
        /\ seen[w].status \in {"SUBMITTED", "PROCESSING", "UNKNOWN"}
        /\ r \in DOMAIN batch[p] /\ batch[p][r] \notin CanPay
    BY <2>1, InHandFacts DEF WorkerOK, VerdictOK, StatusesAt, SubmitPhase, CanPay
  <2>3. CASE seen[w].status = "UNKNOWN" /\ TryTransition(w, "QUARANTINED", "provider", closed, {})
    <3>1. RecordOK(p, Updated(p, "QUARANTINED", closed))
      <4>1. closed.requestId = row[p].requestId /\ closed.txnId = row[p].txnId
        BY <1>0, <2>2, ReconPatch
      <4> HIDE DEF closed
      <4> QED
        BY <2>2, <4>1, RecordMoves DEF Open, FAILURE_STATUSES
    <3> QED
      BY <2>1, <2>3, <3>1, TryTransitionStep
  <2>4. CASE /\ seen[w].status # "UNKNOWN"
             /\ TryTransition(w, "PROVIDER_REJECTED", "provider", row[p], {})
    <3>1. Wins(w, "PROVIDER_REJECTED", "provider") => Dead(p)
      <4> SUFFICES ASSUME Wins(w, "PROVIDER_REJECTED", "provider") PROVE Dead(p)
        OBVIOUS
      <4>1. row[p].status \in {"SUBMITTED", "PROCESSING"} /\ row[p].requestId = r
        BY <2>1, <2>2, <2>4, SubmitKeepsBusy
      <4>2. Backed(p, r)
        BY <2>2, <4>1 DEF RecordOK
      <4> QED
        BY <2>2, <4>2 DEF Backed, Alone, Dead
    <3>2. Wins(w, "PROVIDER_REJECTED", "provider") =>
            RecordOK(p, Updated(p, "PROVIDER_REJECTED", row[p]))
      BY <2>2, <3>1, RecordMoves
    <3> QED
      BY <2>1, <2>2, <2>4, <3>2, TryTransitionStep
  <2> QED
    BY <2>1, <2>3, <2>4
<1>35. CASE Claim(w)
  <2>1. /\ InHand(w) /\ pc[w] = "claim" /\ batch' = batch
        /\ TryAndGoto(w, "SUBMITTING", "system", row[p], {}, "submit")
    BY <1>35 DEF Claim, InHand, envVars
  <2>2. p \in Payout /\ RecordOK(p, row[p]) /\ seen[w].status = "READY"
    BY <2>1, InHandFacts DEF StatusesAt, SubmitPhase
  <2>3. Wins(w, "SUBMITTING", "system") => row[p].status = "READY"
    BY <2>1, <2>2, SubmitKeepsBusy
  <2>4. Wins(w, "SUBMITTING", "system") => RecordOK(p, Updated(p, "SUBMITTING", row[p]))
    BY <2>2, RecordMoves DEF Open, FAILURE_STATUSES
  <2>5. CASE Wins(w, "SUBMITTING", "system")
    BY <2>1, <2>2, <2>3, <2>4, <2>5, TryAndGotoStep DEF StatusesAt, SubmitPhase, Open
  <2>6. CASE ~Wins(w, "SUBMITTING", "system")
    BY <2>1, <2>6, ReturnStep DEF TryAndGoto, dbVars
  <2> QED
    BY <2>5, <2>6
<1>36. CASE EvidenceProcessing(w)
  <2>1. /\ InHand(w) /\ pc[w] = "evidenceProcessing" /\ batch' = batch
        /\ TryAndGoto(w, "PROCESSING", "provider", row[p], {}, "evidenceCompleted")
    BY <1>36 DEF EvidenceProcessing, InHand, envVars
  <2>2. /\ p \in Payout /\ RecordOK(p, row[p]) /\ seen[w].status = "SUBMITTED"
        /\ seen[w].requestId \in DOMAIN batch[p] /\ batch[p][seen[w].requestId] = "paid"
    BY <2>1, InHandFacts DEF StatusesAt, SubmitPhase, WorkerOK, VerdictOK
  <2>3. Wins(w, "PROCESSING", "provider") => row[p].status = "SUBMITTED"
    BY <2>1, <2>2, SubmitKeepsBusy
  <2>4. Wins(w, "PROCESSING", "provider") => RecordOK(p, Updated(p, "PROCESSING", row[p]))
    BY <2>2, <2>3, RecordMoves DEF Open, FAILURE_STATUSES
  <2> QED
    BY <2>1, <2>2, <2>4, TryAndGotoStep DEF StatusesAt, SubmitPhase
<1>37. CASE EvidenceCompleted(w)
  <2> DEFINE r == seen[w].requestId
             patched == [row[p] EXCEPT !.txnId = r, !.recon = "RECONCILIATION_REQUIRED"]
  <2>1. /\ InHand(w) /\ pc[w] = "evidenceCompleted" /\ batch' = batch
        /\ TryAndGoto(w, "COMPLETED", "provider", patched, {}, "reconcile")
    BY <1>37 DEF EvidenceCompleted, InHand, envVars
  <2>2. /\ p \in Payout /\ RecordOK(p, row[p]) /\ seen[w].status \in {"PROCESSING", "UNKNOWN"}
        /\ r \in DOMAIN batch[p] /\ batch[p][r] = "paid"
    BY <2>1, InHandFacts DEF StatusesAt, SubmitPhase, WorkerOK, VerdictOK
  <2>3. patched.txnId = r /\ patched.requestId = row[p].requestId
    BY <1>0, <2>2 DEF DbTypeOK, PayoutRow
  <2>4. RecordOK(p, Updated(p, "COMPLETED", patched))
    BY <2>2, <2>3 DEF RecordOK, Updated, Open, FAILURE_STATUSES
  <2> HIDE DEF patched
  <2> QED
    BY <2>1, <2>2, <2>3, <2>4, TryAndGotoStep DEF StatusesAt, SubmitPhase
<1> QED
  BY <1>1, <1>2, <1>3, <1>4, <1>5, <1>6, <1>7, <1>8, <1>9, <1>10, <1>11,
     <1>12, <1>13, <1>14, <1>15, <1>16, <1>17, <1>18, <1>19, <1>20,
     <1>21, <1>22, <1>23, <1>24, <1>25, <1>26, <1>27, <1>28, <1>29,
     <1>30, <1>31, <1>32, <1>33, <1>34, <1>35, <1>36, <1>37
     DEF Step

-----------------------------------------------------------------------------
(* Crashes, storage errors, the rail and the clock *)

LEMMA FaultConsistent ==
  ASSUME IInv, NEW w \in Worker, StoreFails(w) \/ Crash(w)
  PROVE  Consistent'
<1>1. CASE StoreFails(w)
  BY <1>1, ReturnStep DEF StoreFails, dbVars
<1>2. CASE Crash(w)
  <2>1. /\ pc'[w] = "idle" /\ row' = row /\ batch' = batch
        /\ \A v \in Worker \ {w} : Unmoved(v)
    BY <1>2 DEF Crash, IInv, WorkerTypeOK, Unmoved, dbVars
  <2> QED
    BY <2>1, AtRest, LocalStep
<1> QED
  BY <1>1, <1>2

\* The rail moves instructions that may pay, and only to what they may become.
LEMMA RailKeeps ==
  ASSUME EnvTypeOK, NEW p \in Payout, RailReceives(p) \/ RailDecides(p), NEW q \in Payout
  PROVE  Settles(q) /\ Quiet(q)
<1>1. PICK i \in DOMAIN batch[p], new \in {"pending", "refused", "paid", "denied"} :
        /\ batch[p][i] \in {"sent", "pending"}
        /\ batch' = [batch EXCEPT ![p][i] = new]
  BY DEF RailReceives, RailDecides
<1>2. batch'[p] = [batch[p] EXCEPT ![i] = new] /\ (q # p => batch'[q] = batch[q])
  BY <1>1 DEF EnvTypeOK
<1>3. DOMAIN batch'[q] = DOMAIN batch[q]
  BY <1>2
<1>4. \A j \in DOMAIN batch[q] :
        \/ batch'[q][j] = batch[q][j]
        \/ batch[q][j] \in {"sent", "pending"}
  BY <1>1, <1>2
<1> QED
  BY <1>3, <1>4 DEF Settles, Quiet, CanPay

\* Nobody but the rail moves.
LEMMA RailStep ==
  ASSUME IInv, UNCHANGED <<row, workerVars>>,
         \A q \in Payout : Settles(q) /\ Quiet(q)
  PROVE  Consistent'
<1>1. \A v \in Worker : WorkerOK(v)'
  <2> SUFFICES ASSUME NEW v \in Worker PROVE WorkerOK(v)'
    OBVIOUS
  <2>1. WorkerOK(v) /\ RowsGrow /\ Unmoved(v) /\ WorkerTypeOK /\ DbTypeOK
    BY DEF IInv, Consistent, WorkerOK, RowsGrow, Unmoved, workerVars
  <2>2. InHand(v) => Settles(cur[v]) /\ Quiet(cur[v])
    BY <2>1 DEF WorkerOK, SnapshotOK
  <2>3. pc[v] \in SubmitPhase => InHand(v) /\ row'[cur[v]].status \in Busy
    BY <2>1 DEF WorkerOK, SubmitOK, SubmitPhase, InHand
  <2> QED
    BY <2>1, <2>2, <2>3, Bystander
<1>2. OneSubmitter'
  BY DEF IInv, Consistent, OneSubmitter, workerVars
<1>3. \A q \in Payout : RowOK(q)'
  <2> SUFFICES ASSUME NEW q \in Payout PROVE RowOK(q)'
    OBVIOUS
  <2>1. RecordOK(q, row[q]) /\ Settles(q) /\ Quiet(q)
    BY DEF IInv, Consistent, RowOK
  <2>2. row[q].requestId \in {NoRequest, DryRun} \cup DOMAIN batch'[q]
    BY <2>1 DEF RecordOK, IsRef, Settles
  <2>3. row[q].status \in Open => \A i \in DOMAIN batch'[q] : batch'[q][i] \notin CanPay
    BY <2>1 DEF RecordOK, Quiet, Dead
  <2>4. row[q].status \in {"SUBMITTED", "PROCESSING"} => Backed(q, row[q].requestId)'
    BY <2>1 DEF RecordOK, Quiet, Backed, Dead, Alone
  <2>5. row[q].status \in {"COMPLETED", "RECONCILED"} =>
          row[q].txnId \in DOMAIN batch'[q] /\ batch'[q][row[q].txnId] = "paid"
    BY <2>1 DEF RecordOK, Settles
  <2> QED
    BY <2>2, <2>3, <2>4, <2>5 DEF RowOK, RecordOK, IsRef, Dead
<1> QED
  BY <1>1, <1>2, <1>3 DEF Consistent, WorkerOK

LEMMA EnvironmentConsistent ==
  ASSUME IInv, Environment
  PROVE  Consistent'
<1>0. \A q \in Payout : batch' = batch => Settles(q) /\ Quiet(q)
  BY SameBatch
<1>1. CASE Midnight
  BY <1>0, <1>1, RailStep DEF Midnight
<1>2. ASSUME NEW p \in Payout, RailReceives(p) \/ RailDecides(p)
      PROVE  Consistent'
  <2>1. UNCHANGED <<row, workerVars>>
    BY <1>2 DEF RailReceives, RailDecides, dbVars
  <2>2. \A q \in Payout : Settles(q) /\ Quiet(q)
    BY <1>2, RailKeeps DEF IInv
  <2> QED
    BY <2>1, <2>2, RailStep
<1>3. ASSUME NEW p \in Payout, ChangeHold(p) \/ SettledLineAges(p) \/ PollAges(p)
      PROVE  Consistent'
  BY <1>0, <1>3, RailStep DEF ChangeHold, SettledLineAges, PollAges, dbVars
<1> QED
  BY <1>1, <1>2, <1>3 DEF Environment

-----------------------------------------------------------------------------
(* The inductive invariant *)

LEMMA InitIInv == Init => IInv
<1> SUFFICES ASSUME Init PROVE IInv
  OBVIOUS
<1>1. WorkerTypeOK
  BY FreshType DEF Init, WorkerTypeOK, Label
<1>2. DbTypeOK
  <2>1. Cardinality(Payout) \in Nat
    BY PayoutAssumption, FS_CardinalityType
  <2>2. rank \in [Payout -> Int]
    BY <2>1 DEF Init
  <2> QED
    BY <2>2, FreshType DEF Init, DbTypeOK
<1>3. EnvTypeOK
  BY DEF Init, EnvTypeOK
<1>4. \A w \in Worker : SnapshotOK(w) /\ SubmitOK(w) /\ VerdictOK(w)
  BY DEF Init, SnapshotOK, SubmitOK, VerdictOK, InHand, SubmitPhase
<1>5. OneSubmitter
  BY DEF Init, OneSubmitter, SubmitPhase
<1>6. \A p \in Payout : RowOK(p)
  BY DEF Init, RowOK, RecordOK, IsRef, Fresh, Dead
<1> QED
  BY <1>1, <1>2, <1>3, <1>4, <1>5, <1>6 DEF IInv, Consistent

LEMMA NextIInv == IInv /\ [Next]_vars => IInv'
<1> SUFFICES ASSUME IInv, [Next]_vars PROVE IInv'
  OBVIOUS
<1>0. WorkerTypeOK /\ DbTypeOK /\ EnvTypeOK
  BY DEF IInv
<1>1. ASSUME NEW w \in Worker, Step(w) PROVE IInv'
  <2>1. PayoutInHand
    BY DEF IInv, Consistent, SnapshotOK, PayoutInHand
  <2> QED
    BY <1>0, <1>1, <2>1, StepType, StepConsistent DEF IInv
<1>2. ASSUME NEW w \in Worker, StoreFails(w) \/ Crash(w) PROVE IInv'
  BY <1>0, <1>2, FaultType, FaultConsistent DEF IInv
<1>3. CASE Environment
  BY <1>0, <1>3, EnvironmentType, EnvironmentConsistent DEF IInv
<1>4. CASE UNCHANGED vars
  <2>1. WorkerTypeOK' /\ DbTypeOK' /\ EnvTypeOK'
    BY <1>0, <1>4 DEF vars, dbVars, workerVars, envVars, WorkerTypeOK, DbTypeOK, EnvTypeOK
  <2>2. Consistent'
    BY <1>4, SameBatch, RailStep DEF vars, dbVars, workerVars, envVars
  <2> QED
    BY <2>1, <2>2 DEF IInv
<1> QED
  BY <1>1, <1>2, <1>3, <1>4 DEF Next

\* What rows, requests in progress and the rail agree on, in every state the
\* driver can reach.
THEOREM Inductive == Spec => []IInv
  BY InitIInv, NextIInv, PTL DEF Spec

-----------------------------------------------------------------------------
(* What follows *)

\* Every variable keeps its type, and a request past getPayout has a payout
\* in hand (pipeline.ts; rows as prisma-driver.ts reads and writes them).
THEOREM TypeCorrect == Spec => []TypeOK
<1>1. IInv => TypeOK
  BY TypeSplit DEF IInv
<1> QED
  BY <1>1, Inductive, PTL

\* Rows, requests in progress and the rail agree, however ticks overlap, crash
\* and lose answers.
THEOREM ConsistentAlways == Spec => []Consistent
<1>1. IInv => Consistent
  BY DEF IInv
<1> QED
  BY <1>1, Inductive, PTL

\* A payout that may be dispatched (again) has nothing at the rail that could
\* pay: the requeue of the RETRYABLE_FAILURE / PROVIDER_REJECTED handler and
\* the claim of the READY handler are safe.
THEOREM RetryIsSafe == Spec => []RetrySafeIsUnpaid
<1>1. IInv => RetrySafeIsUnpaid
  BY DEF IInv, Consistent, RowOK, RecordOK, Dead, Open, RetrySafeIsUnpaid, Paying
<1> QED
  BY <1>1, Inductive, PTL

\* A row is COMPLETED or RECONCILED only with the id of an instruction that
\* was paid (the evidence branch of the poll handler).
THEOREM EvidenceIsReal == Spec => []SettledOnEvidence
<1>1. IInv => SettledOnEvidence
  BY DEF IInv, Consistent, RowOK, RecordOK, SettledOnEvidence
<1> QED
  BY <1>1, Inductive, PTL

-----------------------------------------------------------------------------
(* One paying instruction *)

LEMMA OnlySendSends ==
  ASSUME NEW w \in Worker, Step(w), ~SendInstruction(w)
  PROVE  batch' = batch
  BY DEF Step, envVars, StartTick, LoadPayout, SkipTerminal, CheckHold, MarkEligible,
         CheckBalance, Reserve, Validate, MarkValidated, MarkReady, CheckThrottle,
         Claim, SubmitNotLive, SubmitFailsEarly, ReceiveAnswer, LoseAnswer,
         RecordSubmitted, RecordRejected, RecordUnavailable, RecordAmbiguous,
         MarkInterrupted, PollWithoutReference, QuarantineNoReference, FetchStatus,
         FetchStatusThrows, EvidenceProcessing, EvidenceCompleted, Reconcile,
         VerdictFailed, MarkProcessing, CountPolls, NoteStatus, WritePoll,
         QuarantineEvidenceGap, CheckRetry, Requeue

\* What a step of anybody does to the instructions of a payout.
LEMMA RailSteps ==
  ASSUME IInv, [Next]_vars, NEW p \in Payout
  PROVE  \/ Quiet(p)
         \/ Dead(p) /\ batch'[p] = Append(batch[p], "sent")
<1>1. ASSUME NEW w \in Worker, SendInstruction(w)
      PROVE  \/ Quiet(p)
             \/ Dead(p) /\ batch'[p] = Append(batch[p], "sent")
  <2>1. pc[w] = "submit" /\ Dead(cur[w]) /\ cur[w] \in Payout
    BY <1>1, InHandFacts DEF SendInstruction, InHand, WorkerOK, SubmitOK, SubmitPhase
  <2>2. CASE p = cur[w]
    BY <1>1, <2>1, <2>2 DEF SendInstruction, IInv, EnvTypeOK
  <2>3. CASE p # cur[w]
    <3>1. batch'[p] = batch[p]
      BY <1>1, <2>1, <2>3 DEF SendInstruction, IInv, EnvTypeOK
    <3> QED
      BY <3>1 DEF Quiet
  <2> QED
    BY <2>2, <2>3
<1>2. ASSUME NEW w \in Worker, Step(w), ~SendInstruction(w) PROVE Quiet(p)
  BY <1>2, OnlySendSends, SameBatch
<1>3. ASSUME NEW w \in Worker, StoreFails(w) \/ Crash(w) PROVE Quiet(p)
  BY <1>3, SameBatch DEF StoreFails, Crash
<1>4. CASE Environment
  <2>1. ASSUME NEW q \in Payout, RailReceives(q) \/ RailDecides(q) PROVE Quiet(p)
    BY <2>1, RailKeeps DEF IInv
  <2>2. ASSUME NEW q \in Payout, ChangeHold(q) \/ SettledLineAges(q) \/ PollAges(q)
        PROVE  Quiet(p)
    BY <2>2, SameBatch DEF ChangeHold, SettledLineAges, PollAges
  <2>3. CASE Midnight
    BY <2>3, SameBatch DEF Midnight
  <2> QED
    BY <1>4, <2>1, <2>2, <2>3 DEF Environment
<1>5. CASE UNCHANGED vars
  BY <1>5, SameBatch DEF vars, envVars
<1> QED
  BY <1>1, <1>2, <1>3, <1>4, <1>5 DEF Next

\* Money moves at most once: of the instructions ever sent for a payout at
\* most one was paid or can still be paid.
THEOREM MoneyMovesAtMostOnce == Spec => []OnePayingInstruction
<1>1. Init => OnePayingInstruction
  BY DEF Init, OnePayingInstruction, Paying
<1>2. IInv /\ OnePayingInstruction /\ [Next]_vars => OnePayingInstruction'
  <2> SUFFICES ASSUME IInv, OnePayingInstruction, [Next]_vars, NEW p \in Payout
               PROVE  \A i, j \in Paying(p)' : i = j
    BY DEF OnePayingInstruction
  <2>1. CASE Quiet(p)
    <3>1. Paying(p)' \subseteq Paying(p)
      BY <2>1 DEF Quiet, Paying
    <3> QED
      BY <3>1 DEF OnePayingInstruction
  <2>2. CASE Dead(p) /\ batch'[p] = Append(batch[p], "sent")
    <3>1. \A i \in Paying(p)' : i = Len(batch[p]) + 1
      BY <2>2 DEF Paying, Dead, IInv, EnvTypeOK
    <3> QED
      BY <3>1
  <2> QED
    BY <2>1, <2>2, RailSteps
<1> QED
  BY <1>1, <1>2, Inductive, PTL DEF Spec

-----------------------------------------------------------------------------
(* Legal steps *)

\* A request writes a row only by winning a legal transition of the payout
\* it has in hand.
LEMMA OnlyWinsWrite ==
  ASSUME NEW w \in Worker, Step(w), row' # row
  PROVE  \E to, actor, patched :
           /\ InHand(w) /\ Wins(w, to, actor)
           /\ row' = [row EXCEPT ![cur[w]] = Updated(cur[w], to, patched)]
<1> DEFINE Writes(to, actor, patched) ==
             /\ InHand(w) /\ Wins(w, to, actor)
             /\ row' = [row EXCEPT ![cur[w]] = Updated(cur[w], to, patched)]
<1>1. ASSUME NEW to, NEW actor, NEW patched, NEW newLines, InHand(w),
             TryTransition(w, to, actor, patched, newLines)
      PROVE  Writes(to, actor, patched)
  BY <1>1 DEF TryTransition, Commit, dbVars
<1>2. ASSUME NEW to, NEW actor, NEW patched, NEW newLines, NEW label, InHand(w),
             TryAndGoto(w, to, actor, patched, newLines, label)
      PROVE  Writes(to, actor, patched)
  BY <1>2 DEF TryAndGoto, Commit, dbVars
<1> HIDE DEF Writes
<1>3. \E to, actor, patched : Writes(to, actor, patched)
  <2>1. CASE MarkEligible(w) \/ Reserve(w) \/ MarkValidated(w) \/ MarkReady(w)
    BY <1>1, <2>1 DEF MarkEligible, Reserve, MarkValidated, MarkReady, InHand
  <2>2. CASE RecordSubmitted(w) \/ RecordRejected(w) \/ RecordUnavailable(w)
               \/ RecordAmbiguous(w) \/ MarkInterrupted(w) \/ QuarantineNoReference(w)
    BY <1>1, <2>2 DEF RecordSubmitted, RecordRejected, RecordUnavailable,
         RecordAmbiguous, MarkInterrupted, QuarantineNoReference, InHand
  <2>3. CASE Reconcile(w) \/ VerdictFailed(w) \/ MarkProcessing(w)
               \/ QuarantineEvidenceGap(w) \/ Requeue(w)
    BY <1>1, <2>3 DEF Reconcile, VerdictFailed, MarkProcessing,
         QuarantineEvidenceGap, Requeue, InHand
  <2>4. CASE Claim(w) \/ EvidenceProcessing(w) \/ EvidenceCompleted(w)
    BY <1>2, <2>4 DEF Claim, EvidenceProcessing, EvidenceCompleted, InHand
  <2> QED
    BY <2>1, <2>2, <2>3, <2>4
       DEF Step, dbVars, StartTick, LoadPayout, SkipTerminal, CheckHold, CheckBalance,
           Validate, CheckThrottle, SubmitNotLive, SubmitFailsEarly, SendInstruction,
           ReceiveAnswer, LoseAnswer, PollWithoutReference, FetchStatus,
           FetchStatusThrows, CountPolls, NoteStatus, WritePoll, CheckRetry
<1> QED
  BY <1>3 DEF Writes

\* Every write is a legal transition out of the status the row really has,
\* and moves the version on by one: no lost update, however stale the read.
THEOREM StepsAreLegal == Spec => LegalSteps
<1>1. IInv /\ [Next]_vars =>
        [\A p \in Payout : row'[p] # row[p] =>
           /\ <<row[p].status, row'[p].status>> \in LEGAL_TRANSITIONS
           /\ row'[p].version = row[p].version + 1]_vars
  <2> SUFFICES ASSUME IInv, Next, NEW p \in Payout, row'[p] # row[p]
               PROVE  /\ <<row[p].status, row'[p].status>> \in LEGAL_TRANSITIONS
                      /\ row'[p].version = row[p].version + 1
    OBVIOUS
  <2>1. PICK w \in Worker : Step(w)
    BY DEF Next, StoreFails, Crash, Environment, Midnight, RailReceives, RailDecides,
           ChangeHold, SettledLineAges, PollAges, dbVars
  <2>2. PICK to, actor, patched :
          /\ InHand(w) /\ Wins(w, to, actor)
          /\ row' = [row EXCEPT ![cur[w]] = Updated(cur[w], to, patched)]
    BY <2>1, OnlyWinsWrite
  <2>3. p = cur[w] /\ row'[p] = Updated(p, to, patched)
    BY <2>2 DEF IInv, DbTypeOK
  <2>4. seen[w].status = row[p].status
    BY <2>2, <2>3 DEF IInv, Consistent, SnapshotOK, Wins
  <2> QED
    BY <2>2, <2>3, <2>4 DEF Wins, AssertTransition, Updated
<1> QED
  BY <1>1, Inductive, PTL DEF Spec, LegalSteps
-----------------------------------------------------------------------------
(* What a step writes *)

\* The ledger lines that ride with a status.
LinesAt(p, to) ==
  IF to = "RESERVED" THEN {<<p, "PAYOUT_RESERVED">>}
  ELSE IF to = "RECONCILED" THEN {<<p, "PAYOUT_SETTLED">>} ELSE {}

\* The driver goes fewer ways than the table allows: it cancels nothing, fails
\* no validation, quarantines only UNKNOWN, and claims at one place.
Driven(w, to) ==
  /\ to \notin {"CANCELLED", "VALIDATION_FAILED"}
  /\ to = "QUARANTINED" => seen[w].status = "UNKNOWN"
  /\ to = "SUBMITTING" => pc[w] = "claim"

\* w wins the transition of the payout it has in hand.
Transits(w, to, actor, patched) ==
  /\ InHand(w) /\ Driven(w, to) /\ Wins(w, to, actor)
  /\ Commit(cur[w], to, patched, LinesAt(cur[w], to))

Transited(w) == \E to, actor, patched : Transits(w, to, actor, patched)

Unwritten == UNCHANGED <<row, lines, recent, failed>>

LEMMA TryTransits ==
  ASSUME NEW w, NEW to, NEW actor, NEW patched, NEW newLines,
         TryTransition(w, to, actor, patched, newLines),
         InHand(w), Driven(w, to), newLines = LinesAt(cur[w], to)
  PROVE  Unwritten \/ Transited(w)
<1>1. CASE Wins(w, to, actor)
  <2>1. Transits(w, to, actor, patched)
    BY <1>1 DEF Transits, TryTransition
  <2> QED
    BY <2>1 DEF Transited
<1>2. CASE ~Wins(w, to, actor)
  BY <1>2 DEF TryTransition, dbVars, Unwritten
<1> QED
  BY <1>1, <1>2

LEMMA TryAndGotoTransits ==
  ASSUME NEW w, NEW to, NEW actor, NEW patched, NEW newLines, NEW label,
         TryAndGoto(w, to, actor, patched, newLines, label),
         InHand(w), Driven(w, to), newLines = LinesAt(cur[w], to)
  PROVE  Unwritten \/ Transited(w)
<1>1. CASE Wins(w, to, actor)
  <2>1. Transits(w, to, actor, patched)
    BY <1>1 DEF Transits, TryAndGoto
  <2> QED
    BY <2>1 DEF Transited
<1>2. CASE ~Wins(w, to, actor)
  BY <1>2 DEF TryAndGoto, dbVars, Unwritten
<1> QED
  BY <1>1, <1>2

\* A request changes rows, ledger and failure counts only together, by a
\* transition it wins.
LEMMA StepTransits ==
  ASSUME IInv, NEW w \in Worker, Step(w)
  PROVE  Unwritten \/ Transited(w)
<1> DEFINE Plain == {"ELIGIBLE", "VALIDATED", "READY", "SUBMITTED", "PROCESSING",
                    "COMPLETED", "UNKNOWN"} \cup FAILURE_STATUSES
<1>1. ASSUME NEW to \in Plain
      PROVE  Driven(w, to) /\ LinesAt(cur[w], to) = {}
  BY DEF Driven, LinesAt, FAILURE_STATUSES
<1>2. ASSUME NEW to \in Plain, NEW actor, NEW patched, InHand(w),
             TryTransition(w, to, actor, patched, {})
      PROVE  Unwritten \/ Transited(w)
  BY <1>1, <1>2, TryTransits
<1>3. CASE MarkEligible(w) \/ MarkValidated(w) \/ MarkReady(w)
             \/ MarkProcessing(w) \/ Requeue(w)
  BY <1>2, <1>3
     DEF MarkEligible, MarkValidated, MarkReady, MarkProcessing, Requeue, InHand
<1>4. CASE RecordSubmitted(w) \/ RecordRejected(w) \/ RecordUnavailable(w)
             \/ RecordAmbiguous(w) \/ MarkInterrupted(w)
  BY <1>2, <1>4 DEF RecordSubmitted, RecordRejected, RecordUnavailable,
     RecordAmbiguous, MarkInterrupted, InHand, FAILURE_STATUSES
<1>5. CASE QuarantineNoReference(w) \/ QuarantineEvidenceGap(w)
  <2>1. InHand(w) /\ seen[w].status = "UNKNOWN"
    BY <1>5, InHandFacts
       DEF QuarantineNoReference, QuarantineEvidenceGap, InHand, StatusesAt, SubmitPhase
  <2>2. Driven(w, "QUARANTINED") /\ LinesAt(cur[w], "QUARANTINED") = {}
    BY <2>1 DEF Driven, LinesAt
  <2> QED
    BY <1>5, <2>1, <2>2, TryTransits DEF QuarantineNoReference, QuarantineEvidenceGap
<1>6. CASE VerdictFailed(w)
  <2>1. CASE seen[w].status = "UNKNOWN"
    <3>1. Driven(w, "QUARANTINED") /\ LinesAt(cur[w], "QUARANTINED") = {}
      BY <2>1 DEF Driven, LinesAt
    <3> QED
      BY <1>6, <2>1, <3>1, TryTransits DEF VerdictFailed, InHand
  <2>2. CASE seen[w].status # "UNKNOWN"
    BY <1>2, <1>6, <2>2 DEF VerdictFailed, InHand, FAILURE_STATUSES
  <2> QED
    BY <2>1, <2>2
<1>7. CASE Reserve(w)
  <2>1. Driven(w, "RESERVED") /\ LinesAt(cur[w], "RESERVED") = {<<cur[w], "PAYOUT_RESERVED">>}
    BY DEF Driven, LinesAt
  <2> QED
    BY <1>7, <2>1, TryTransits DEF Reserve, InHand
<1>8. CASE Reconcile(w)
  <2>1. Driven(w, "RECONCILED") /\ LinesAt(cur[w], "RECONCILED") = {<<cur[w], "PAYOUT_SETTLED">>}
    BY DEF Driven, LinesAt
  <2> QED
    BY <1>8, <2>1, TryTransits DEF Reconcile, InHand
<1>9. CASE Claim(w)
  <2>1. Driven(w, "SUBMITTING") /\ LinesAt(cur[w], "SUBMITTING") = {}
    BY <1>9 DEF Driven, LinesAt, Claim
  <2> QED
    BY <1>9, <2>1, TryAndGotoTransits DEF Claim, InHand
<1>10. CASE EvidenceProcessing(w) \/ EvidenceCompleted(w)
  BY <1>1, <1>10, TryAndGotoTransits DEF EvidenceProcessing, EvidenceCompleted, InHand
<1> QED
  BY <1>3, <1>4, <1>5, <1>6, <1>7, <1>8, <1>9, <1>10
     DEF Step, Unwritten, dbVars, StartTick, LoadPayout, SkipTerminal, CheckHold,
         CheckBalance, Validate, CheckThrottle, SubmitNotLive, SubmitFailsEarly,
         SendInstruction, ReceiveAnswer, LoseAnswer, PollWithoutReference, FetchStatus,
         FetchStatusThrows, CountPolls, NoteStatus, WritePoll, CheckRetry
\* What a won transition does to its payout, from the status it really has.
LEMMA TransitFacts ==
  ASSUME IInv, NEW w \in Worker, NEW to, NEW actor, NEW patched,
         Transits(w, to, actor, patched)
  PROVE  /\ cur[w] \in Payout
         /\ <<row[cur[w]].status, to>> \in LEGAL_TRANSITIONS
         /\ row[cur[w]].status = seen[w].status
         /\ to = "QUARANTINED" => row[cur[w]].status = "UNKNOWN"
         /\ row'[cur[w]].status = to
         /\ \A q \in Payout : q # cur[w] => row'[q] = row[q]
<1>1. cur[w] \in Payout /\ row[cur[w]].status = seen[w].status
  BY DEF Transits, Wins, IInv, Consistent, SnapshotOK
<1>2. row' = [row EXCEPT ![cur[w]] = Updated(cur[w], to, patched)]
  BY DEF Transits, Commit
<1> QED
  BY <1>1, <1>2 DEF Transits, Wins, AssertTransition, Driven, IInv, DbTypeOK, Updated

\* Rows and ledger change only together, in a transition somebody wins;
\* failure counts change there or at midnight.
LEMMA NextTransits ==
  ASSUME IInv, [Next]_vars
  PROVE  \/ \E w \in Worker : Step(w) /\ Transited(w)
         \/ /\ UNCHANGED <<row, lines>>
            /\ failed' = failed \/ Midnight
<1>1. CASE \E w \in Worker : Step(w)
  BY <1>1, StepTransits DEF Unwritten
<1>2. CASE ~\E w \in Worker : Step(w)
  BY <1>2 DEF Next, vars, dbVars, StoreFails, Crash, Environment, Midnight, RailReceives,
              RailDecides, ChangeHold, SettledLineAges, PollAges
<1> QED
  BY <1>1, <1>2

-----------------------------------------------------------------------------
(* The books *)

\* The ledger and the statuses tell the same story, however ticks overlap and
\* crash: a payout past ELIGIBLE holds its reservation line, and the settled
\* line is there exactly when the payout is RECONCILED.
THEOREM BooksFollowStatus == Spec => []LedgerFollowsStatus
<1>1. Init => LedgerFollowsStatus
  BY DEF Init, LedgerFollowsStatus, Fresh
<1>2. IInv /\ LedgerFollowsStatus /\ [Next]_vars => LedgerFollowsStatus'
  <2> SUFFICES ASSUME IInv, LedgerFollowsStatus, [Next]_vars
               PROVE  LedgerFollowsStatus'
    OBVIOUS
  <2>1. CASE UNCHANGED <<row, lines>>
    BY <2>1 DEF LedgerFollowsStatus
  <2>2. ASSUME NEW w \in Worker, Transited(w) PROVE LedgerFollowsStatus'
    <3>1. PICK to, actor, patched : Transits(w, to, actor, patched)
      BY <2>2 DEF Transited
    <3> DEFINE p == cur[w]
    <3>2. /\ p \in Payout /\ <<row[p].status, to>> \in LEGAL_TRANSITIONS
          /\ row'[p].status = to
          /\ \A q \in Payout : q # p => row'[q] = row[q]
      BY <3>1, TransitFacts
    <3>3. lines' = lines \cup LinesAt(p, to)
      BY <3>1 DEF Transits, Commit
    <3>4. \A q, t : <<q, t>> \in LinesAt(p, to)
                       <=> /\ q = p
                           /\ \/ t = "PAYOUT_RESERVED" /\ to = "RESERVED"
                              \/ t = "PAYOUT_SETTLED" /\ to = "RECONCILED"
      BY DEF LinesAt
    <3>5. /\ to = "RESERVED" <=> row[p].status = "ELIGIBLE" /\ to # "CANCELLED"
          /\ to = "RECONCILED" <=> row[p].status = "COMPLETED"
          /\ row[p].status # "RECONCILED"
          /\ to \in {"CREATED", "ELIGIBLE"} <=> row[p].status = "CREATED" /\ to # "CANCELLED"
          /\ to # "CANCELLED"
      BY <3>1, <3>2 DEF LEGAL_TRANSITIONS, Transits, Driven
    <3>6. ASSUME NEW q \in Payout
          PROVE  /\ <<q, "PAYOUT_RESERVED">> \in lines'
                       <=> row'[q].status \notin {"CREATED", "ELIGIBLE"}
                 /\ <<q, "PAYOUT_SETTLED">> \in lines' <=> row'[q].status = "RECONCILED"
      <4>1. CASE q # p
        BY <3>2, <3>3, <3>4, <4>1 DEF LedgerFollowsStatus
      <4>2. CASE q = p
        BY <3>2, <3>3, <3>4, <3>5, <4>2 DEF LedgerFollowsStatus
      <4> QED
        BY <4>1, <4>2
    <3> QED
      BY <3>6 DEF LedgerFollowsStatus
  <2> QED
    BY <2>1, <2>2, NextTransits
<1> QED
  BY <1>1, <1>2, Inductive, PTL DEF Spec
-----------------------------------------------------------------------------
(* The throttle *)

\* A payout that may still fail has room for one more failure today, and so
\* has the payout of a claim that can still win.
RoomToFail ==
  /\ \A p \in Payout :
       row[p].status \in {"SUBMITTING", "SUBMITTED", "PROCESSING"}
         => failed[p] < MaxFailedSubmits
  /\ \A w \in Worker :
       pc[w] = "claim" /\ seen[w].version = row[cur[w]].version
         => failed[cur[w]] < MaxFailedSubmits

LEMMA OthersWait ==
  ASSUME WorkerTypeOK, NEW w \in Worker, Step(w)
  PROVE  \A v \in Worker \ {w} : Unmoved(v)
<1>1. ASSUME NEW to, NEW actor, NEW patched, NEW newLines,
             TryTransition(w, to, actor, patched, newLines)
      PROVE  \A v \in Worker \ {w} : Unmoved(v)
  BY <1>1, ReturnMoves DEF TryTransition
<1>2. ASSUME NEW to, NEW actor, NEW patched, NEW newLines, NEW label,
             TryAndGoto(w, to, actor, patched, newLines, label)
      PROVE  \A v \in Worker \ {w} : Unmoved(v)
  <2>1. CASE Wins(w, to, actor)
    BY <1>2, <2>1 DEF TryAndGoto, WorkerTypeOK, Unmoved
  <2>2. CASE ~Wins(w, to, actor)
    BY <1>2, <2>2, ReturnMoves DEF TryAndGoto
  <2> QED
    BY <2>1, <2>2
<1>3. CASE MarkEligible(w) \/ Reserve(w) \/ MarkValidated(w) \/ MarkReady(w)
             \/ RecordSubmitted(w) \/ RecordRejected(w) \/ RecordUnavailable(w)
  BY <1>1, <1>3 DEF MarkEligible, Reserve, MarkValidated, MarkReady, RecordSubmitted,
                    RecordRejected, RecordUnavailable
<1>4. CASE RecordAmbiguous(w) \/ MarkInterrupted(w) \/ QuarantineNoReference(w)
             \/ Reconcile(w) \/ VerdictFailed(w) \/ MarkProcessing(w)
             \/ QuarantineEvidenceGap(w) \/ Requeue(w)
  BY <1>1, <1>4 DEF RecordAmbiguous, MarkInterrupted, QuarantineNoReference, Reconcile,
                    VerdictFailed, MarkProcessing, QuarantineEvidenceGap, Requeue
<1>5. CASE Claim(w) \/ EvidenceProcessing(w) \/ EvidenceCompleted(w)
  BY <1>2, <1>5 DEF Claim, EvidenceProcessing, EvidenceCompleted
<1>6. CASE CheckHold(w) \/ CheckBalance(w) \/ Validate(w) \/ CheckThrottle(w)
             \/ PollWithoutReference(w) \/ CheckRetry(w) \/ WritePoll(w)
             \/ FetchStatus(w) \/ ReceiveAnswer(w) \/ LoseAnswer(w) \/ SubmitFailsEarly(w)
  BY <1>6, ReturnMoves, GotoMoves
     DEF CheckHold, CheckBalance, Validate, CheckThrottle, PollWithoutReference,
         CheckRetry, WritePoll, FetchStatus, ReceiveAnswer, LoseAnswer, SubmitFailsEarly
<1>7. CASE StartTick(w) \/ LoadPayout(w) \/ SkipTerminal(w) \/ SubmitNotLive(w)
             \/ SendInstruction(w) \/ FetchStatusThrows(w) \/ CountPolls(w) \/ NoteStatus(w)
  BY <1>7 DEF StartTick, LoadPayout, SkipTerminal, SubmitNotLive, SendInstruction,
              FetchStatusThrows, CountPolls, NoteStatus, WorkerTypeOK, Unmoved
<1> QED
  BY <1>3, <1>4, <1>5, <1>6, <1>7 DEF Step

\* A request gets to the claim only by passing the throttle.
LEMMA ThrottleGuardsClaim ==
  ASSUME WorkerTypeOK, NEW w \in Worker, Step(w), pc'[w] = "claim"
  PROVE  CheckThrottle(w)
<1>1. ASSUME NEW to, NEW actor, NEW patched, NEW newLines,
             TryTransition(w, to, actor, patched, newLines)
      PROVE  FALSE
  BY <1>1, ReturnMoves DEF TryTransition
<1>2. ASSUME NEW to, NEW actor, NEW patched, NEW newLines, NEW label, label # "claim",
             TryAndGoto(w, to, actor, patched, newLines, label)
      PROVE  FALSE
  <2>1. CASE Wins(w, to, actor)
    BY <1>2, <2>1 DEF TryAndGoto, WorkerTypeOK
  <2>2. CASE ~Wins(w, to, actor)
    BY <1>2, <2>2, ReturnMoves DEF TryAndGoto
  <2> QED
    BY <2>1, <2>2
<1>3. CASE MarkEligible(w) \/ Reserve(w) \/ MarkValidated(w) \/ MarkReady(w)
             \/ RecordSubmitted(w) \/ RecordRejected(w) \/ RecordUnavailable(w)
  BY <1>1, <1>3 DEF MarkEligible, Reserve, MarkValidated, MarkReady, RecordSubmitted,
                    RecordRejected, RecordUnavailable
<1>4. CASE RecordAmbiguous(w) \/ MarkInterrupted(w) \/ QuarantineNoReference(w)
             \/ Reconcile(w) \/ VerdictFailed(w) \/ MarkProcessing(w)
             \/ QuarantineEvidenceGap(w) \/ Requeue(w)
  BY <1>1, <1>4 DEF RecordAmbiguous, MarkInterrupted, QuarantineNoReference, Reconcile,
                    VerdictFailed, MarkProcessing, QuarantineEvidenceGap, Requeue
<1>5. CASE Claim(w) \/ EvidenceProcessing(w) \/ EvidenceCompleted(w)
  BY <1>2, <1>5 DEF Claim, EvidenceProcessing, EvidenceCompleted
<1>6. CASE CheckHold(w) \/ CheckBalance(w) \/ Validate(w) \/ PollWithoutReference(w)
             \/ CheckRetry(w) \/ WritePoll(w)
             \/ ReceiveAnswer(w) \/ LoseAnswer(w) \/ SubmitFailsEarly(w)
  BY <1>6, ReturnMoves, GotoMoves
     DEF CheckHold, CheckBalance, Validate, PollWithoutReference,
         CheckRetry, WritePoll, ReceiveAnswer, LoseAnswer, SubmitFailsEarly
<1>7. CASE FetchStatus(w)
  <2>1. \A status, v : AfterVerdict(status, v) # "claim"
    BY DEF AfterVerdict
  <2> QED
    BY <1>7, <2>1, GotoMoves DEF FetchStatus
<1>8. CASE LoadPayout(w)
  <2>1. \A status \in DRIVE_STATUSES : HandlerOf(status) # "claim"
    BY DEF HandlerOf, DRIVE_STATUSES, FAILURE_STATUSES
  <2> QED
    BY <1>8, <2>1 DEF LoadPayout, WorkerTypeOK
<1>9. CASE StartTick(w) \/ SkipTerminal(w) \/ SubmitNotLive(w)
             \/ SendInstruction(w) \/ FetchStatusThrows(w) \/ CountPolls(w) \/ NoteStatus(w)
  BY <1>9 DEF StartTick, SkipTerminal, SubmitNotLive, SendInstruction,
              FetchStatusThrows, CountPolls, NoteStatus, WorkerTypeOK
<1> QED
  BY <1>3, <1>4, <1>5, <1>6, <1>7, <1>8, <1>9 DEF Step
\* Nothing is written: a claim that can still win was one before, or the
\* throttle was just passed.
LEMMA RoomAtRest ==
  ASSUME IInv, RoomToFail, [Next]_vars, row' = row, failed' = failed, NEW v \in Worker,
         pc'[v] = "claim", seen'[v].version = row[cur'[v]].version
  PROVE  failed[cur'[v]] < MaxFailedSubmits
<1>1. CASE pc[v] = "claim" /\ cur'[v] = cur[v] /\ seen'[v] = seen[v]
  BY <1>1 DEF RoomToFail
<1>2. ASSUME NEW w \in Worker, Step(w)
      PROVE  failed[cur'[v]] < MaxFailedSubmits
  <2>1. CASE w # v
    BY <1>1, <1>2, <2>1, OthersWait DEF IInv, Unmoved
  <2>2. CASE w = v
    <3>1. CheckThrottle(v)
      BY <1>2, <2>2, ThrottleGuardsClaim DEF IInv
    <3>2. cur'[v] = cur[v] /\ cur[v] \in Payout
      BY <3>1, ReturnMoves, GotoMoves, InHandFacts DEF CheckThrottle, IInv, InHand
    <3>3. failed[cur[v]] + noise[cur[v]] < MaxFailedSubmits
      BY <3>1, ReturnMoves DEF CheckThrottle, CountFailedSubmitsToday, IInv
    <3> QED
      BY <3>2, <3>3, BoundsAssumption DEF IInv, DbTypeOK
  <2> QED
    BY <2>1, <2>2
<1>3. ASSUME NEW w \in Worker, StoreFails(w) \/ Crash(w)
      PROVE  failed[cur'[v]] < MaxFailedSubmits
  <2>1. w # v
    BY <1>3, ReturnMoves DEF StoreFails, Crash, IInv, WorkerTypeOK
  <2>2. Unmoved(v)
    BY <1>3, <2>1, ReturnMoves DEF StoreFails, Crash, IInv, WorkerTypeOK, Unmoved
  <2> QED
    BY <1>1, <2>2 DEF Unmoved
<1>4. CASE Environment \/ UNCHANGED vars
  BY <1>1, <1>4 DEF vars, workerVars, Environment, Midnight, RailReceives, RailDecides,
                    ChangeHold, SettledLineAges, PollAges
<1> QED
  BY <1>2, <1>3, <1>4 DEF Next

\* At most MaxFailedSubmits failed submissions of a payout per UTC day, even
\* when the count is read long before the claim it guards: a request that
\* read it too early loses the claim on the version.
THEOREM ThrottleIsKept == Spec => []ThrottleHolds
<1>1. Init => ThrottleHolds /\ RoomToFail
  BY BoundsAssumption DEF Init, ThrottleHolds, RoomToFail, Fresh
<1>2. IInv /\ ThrottleHolds /\ RoomToFail /\ [Next]_vars => (ThrottleHolds /\ RoomToFail)'
  <2> SUFFICES ASSUME IInv, ThrottleHolds, RoomToFail, [Next]_vars
               PROVE  (ThrottleHolds /\ RoomToFail)'
    OBVIOUS
  <2>1. CASE UNCHANGED <<row, failed>>
    <3>1. ASSUME NEW v \in Worker, pc'[v] = "claim", seen'[v].version = row'[cur'[v]].version
          PROVE  failed'[cur'[v]] < MaxFailedSubmits
      BY <2>1, <3>1, RoomAtRest
    <3> QED
      BY <2>1, <3>1 DEF ThrottleHolds, RoomToFail
  <2>2. CASE Midnight
    <3>1. \A p \in Payout : failed'[p] = 0 /\ failed[p] \in Nat
      BY <2>2 DEF Midnight, IInv, DbTypeOK
    <3>2. \A w \in Worker : pc[w] = "claim" => cur[w] \in Payout
      BY InHandFacts DEF InHand
    <3> QED
      BY <2>2, <3>1, <3>2, BoundsAssumption
         DEF Midnight, workerVars, ThrottleHolds, RoomToFail
  <2>3. ASSUME NEW w \in Worker, Step(w), Transited(w)
        PROVE  (ThrottleHolds /\ RoomToFail)'
    <3>1. PICK to, actor, patched : Transits(w, to, actor, patched)
      BY <2>3 DEF Transited
    <3> DEFINE p == cur[w]
    <3>2. /\ p \in Payout /\ <<row[p].status, to>> \in LEGAL_TRANSITIONS
          /\ row'[p].status = to /\ row[p].status = seen[w].status
          /\ \A q \in Payout : q # p => row'[q] = row[q]
      BY <3>1, TransitFacts
    <3>3. /\ pc[w] = "claim" => seen[w].version = row[p].version
          /\ to = "SUBMITTING" => pc[w] = "claim"
      BY <3>1 DEF Transits, Driven, Wins
    <3>4. /\ to \in FAILURE_STATUSES => failed' = [failed EXCEPT ![p] = @ + 1]
          /\ to \notin FAILURE_STATUSES => failed' = failed
      BY <3>1 DEF Transits, Commit
    <3>5. /\ to \in FAILURE_STATUSES \cup {"SUBMITTED", "PROCESSING"}
               => row[p].status \in {"SUBMITTING", "SUBMITTED", "PROCESSING"}
      BY <3>2 DEF LEGAL_TRANSITIONS, FAILURE_STATUSES
    <3>6. to \in FAILURE_STATUSES \cup {"SUBMITTING", "SUBMITTED", "PROCESSING"}
            => failed[p] < MaxFailedSubmits
      BY <3>2, <3>3, <3>5 DEF RoomToFail
    <3>7. \A q \in Payout : q # p => failed'[q] = failed[q]
      BY <3>4 DEF IInv, DbTypeOK
    <3>8. /\ failed'[p] <= MaxFailedSubmits
          /\ to \notin FAILURE_STATUSES => failed'[p] = failed[p]
      BY <3>2, <3>4, <3>6, BoundsAssumption DEF IInv, DbTypeOK, ThrottleHolds
    <3>9. ThrottleHolds'
      BY <3>7, <3>8 DEF ThrottleHolds
    <3>10. ASSUME NEW q \in Payout,
                  row'[q].status \in {"SUBMITTING", "SUBMITTED", "PROCESSING"}
           PROVE  failed'[q] < MaxFailedSubmits
      BY <3>2, <3>6, <3>7, <3>8, <3>10 DEF RoomToFail, FAILURE_STATUSES
    <3>11. ASSUME NEW v \in Worker, pc'[v] = "claim",
                  seen'[v].version = row'[cur'[v]].version
           PROVE  failed'[cur'[v]] < MaxFailedSubmits
      <4>1. CASE v = w
        <5>1. CheckThrottle(w)
          BY <2>3, <3>11, <4>1, ThrottleGuardsClaim DEF IInv
        <5>2. row' = row
          BY <5>1 DEF CheckThrottle, dbVars
        <5> QED
          BY <3>1, <3>2, <5>2 DEF LEGAL_TRANSITIONS
      <4>2. CASE v # w
        <5>1. Unmoved(v)
          BY <2>3, <4>2, OthersWait DEF IInv
        <5>2. cur[v] \in Payout /\ seen[v].version <= row[cur[v]].version
          BY <3>11, <5>1 DEF Unmoved, IInv, Consistent, SnapshotOK, InHand
        <5>3. cur[v] # p
          <6>1. row'[p].version = row[p].version + 1 /\ row[p].version \in Nat
            BY <3>1, <3>2 DEF Transits, Commit, Updated, IInv, DbTypeOK, PayoutRow
          <6>2. seen[v].version \in Nat
            BY DEF IInv, WorkerTypeOK, PayoutRow
          <6> QED
            BY <3>11, <5>1, <5>2, <6>1, <6>2 DEF Unmoved
        <5> QED
          BY <3>2, <3>7, <3>11, <5>1, <5>2, <5>3 DEF Unmoved, RoomToFail
      <4> QED
        BY <4>1, <4>2
    <3> QED
      BY <3>9, <3>10, <3>11 DEF RoomToFail
  <2> QED
    BY <2>1, <2>2, <2>3, NextTransits
<1> QED
  BY <1>1, <1>2, Inductive, PTL DEF Spec
-----------------------------------------------------------------------------
(* The driver implements the promise *)

Live(p) == {i \in DOMAIN batch[p] : batch[p][i] \in {"sent", "pending"}}
Paid(p) == {i \in DOMAIN batch[p] : batch[p][i] = "paid"}

Settled(p) == <<p, "PAYOUT_SETTLED">> \in lines

\* Rows move within their stage, and books and rail stay: no step of the promise.
LEMMA Stutters ==
  ASSUME batch' = batch,
         \A p \in Payout : StageOf(row'[p].status) = StageOf(row[p].status),
         \A p \in Payout : Settled(p)' <=> Settled(p)
  PROVE  UNCHANGED Promise!vars
<1>1. [p \in Payout |-> StageOf(row[p].status)]' = [p \in Payout |-> StageOf(row[p].status)]
  OBVIOUS
<1>2. {p \in Payout : <<p, "PAYOUT_SETTLED">> \in lines}'
        = {p \in Payout : <<p, "PAYOUT_SETTLED">> \in lines}
  BY DEF Settled
<1> QED
  BY <1>1, <1>2 DEF Promise!vars

\* One payout changes its stage.
LEMMA Moves ==
  ASSUME NEW p \in Payout, NEW from, NEW to, batch' = batch,
         StageOf(row[p].status) \in from, StageOf(row'[p].status) = to,
         \A q \in Payout : q # p => row'[q] = row[q],
         \A q \in Payout : Settled(q)' <=> Settled(q)
  PROVE  Promise!Move(p, from, to)
<1>1. [q \in Payout |-> StageOf(row[q].status)]'
        = [[q \in Payout |-> StageOf(row[q].status)] EXCEPT ![p] = to]
  OBVIOUS
<1>2. {q \in Payout : <<q, "PAYOUT_SETTLED">> \in lines}'
        = {q \in Payout : <<q, "PAYOUT_SETTLED">> \in lines}
  BY DEF Settled
<1> QED
  BY <1>1, <1>2 DEF Promise!Move

LEMMA DeadIsIdle ==
  ASSUME NEW p \in Payout
  PROVE  /\ Promise!Idle(p) <=> Live(p) = {} /\ Paid(p) = {}
         /\ Dead(p) <=> Live(p) = {} /\ Paid(p) = {}
<1>1. Promise!Idle(p) <=> Live(p) = {} /\ Paid(p) = {}
  BY DEF Promise!Idle, Live, Paid
<1>2. Dead(p) <=> Live(p) = {} /\ Paid(p) = {}
  BY DEF Dead, CanPay, Live, Paid
<1> QED
  BY <1>1, <1>2

\* A won transition is one step of the promise, or none.
LEMMA TransitKeepsPromise ==
  ASSUME IInv, IInv', LedgerFollowsStatus, NEW w \in Worker, Step(w), Transited(w)
  PROVE  Promise!Next \/ UNCHANGED Promise!vars
<1>1. PICK to, actor, patched : Transits(w, to, actor, patched)
  BY DEF Transited
<1> PICK p \in Payout : p = cur[w]
  BY <1>1, TransitFacts
<1> PICK from : from = row[p].status
  OBVIOUS
<1>2. /\ <<from, to>> \in LEGAL_TRANSITIONS /\ row'[p].status = to
      /\ \A q \in Payout : q # p => row'[q] = row[q]
      /\ to \notin {"CANCELLED", "VALIDATION_FAILED"}
      /\ to = "QUARANTINED" => from = "UNKNOWN"
  BY <1>1, TransitFacts DEF Transits, Driven
<1>3. batch' = batch
  <2>1. row' # row
    BY <1>2 DEF LEGAL_TRANSITIONS
  <2>2. ~SendInstruction(w)
    BY <2>1 DEF SendInstruction, dbVars
  <2> QED
    BY <2>2, OnlySendSends
<1>4. \A q \in Payout : Settled(q)' <=> Settled(q) \/ (q = p /\ to = "RECONCILED")
  BY <1>1 DEF Transits, Commit, LinesAt, Settled
<1>5. RecordOK(p, row[p]) /\ RecordOK(p, row[p])'
  BY DEF IInv, Consistent, RowOK
<1>6. CASE to = "SUBMITTING"
  <2>1. from = "READY"
    BY <1>2, <1>6 DEF LEGAL_TRANSITIONS
  <2>2. Promise!Idle(p)
    BY <1>2, <1>5, <2>1, DeadIsIdle DEF RecordOK, Open
  <2>3. StageOf(from) = "open" /\ StageOf(to) = "claimed"
    BY <1>6, <2>1 DEF StageOf
  <2>4. Promise!Move(p, {"open"}, "claimed")
    BY <1>2, <1>3, <1>4, <1>6, <2>3, Moves
  <2> QED
    BY <1>2, <2>2, <2>4 DEF Promise!Claim, Promise!Next
<1>7. CASE to \in FAILURE_STATUSES
  <2>1. StageOf(from) = "claimed" /\ StageOf(to) = "open" /\ to # "RECONCILED"
    BY <1>2, <1>7 DEF LEGAL_TRANSITIONS, FAILURE_STATUSES, StageOf
  <2>2. Dead(p)'
    BY <1>2, <1>5, <1>7 DEF RecordOK, Open
  <2>3. Promise!Idle(p)
    <3>1. Dead(p)
      BY <1>3, <2>2 DEF Dead
    <3> QED
      BY <3>1, DeadIsIdle
  <2>4. Promise!Move(p, {"claimed"}, "open")
    BY <1>2, <1>3, <1>4, <2>1, Moves
  <2> QED
    BY <1>2, <2>3, <2>4 DEF Promise!Reopen, Promise!Next
<1>8. CASE to = "COMPLETED"
  <2>1. StageOf(from) = "claimed" /\ StageOf(to) = "settled"
    BY <1>2, <1>8 DEF LEGAL_TRANSITIONS, StageOf
  <2>2. Paid(p) # {}
    BY <1>2, <1>3, <1>5, <1>8 DEF RecordOK, Paid
  <2>3. Promise!Move(p, {"claimed"}, "settled")
    BY <1>2, <1>3, <1>4, <1>8, <2>1, Moves
  <2> QED
    BY <1>2, <2>2, <2>3 DEF Promise!Settle, Promise!Next, Paid
<1>9. CASE to = "QUARANTINED"
  <2>1. StageOf(from) = "claimed" /\ StageOf(to) = "closed"
    BY <1>2, <1>9 DEF StageOf
  <2>2. Promise!Move(p, {"claimed"}, "closed")
    BY <1>2, <1>3, <1>4, <1>9, <2>1, Moves
  <2> QED
    BY <1>2, <2>2 DEF Promise!Close, Promise!Next
<1>10. CASE to = "RECONCILED"
  <2>1. from = "COMPLETED"
    BY <1>2, <1>10 DEF LEGAL_TRANSITIONS
  <2>2. ~Settled(p)
    BY <1>2, <2>1 DEF LedgerFollowsStatus, Settled
  <2>3. StageOf(from) = "settled" /\ StageOf(to) = "settled"
    BY <1>10, <2>1 DEF StageOf
  <2>4. [q \in Payout |-> StageOf(row[q].status)]' = [q \in Payout |-> StageOf(row[q].status)]
    BY <1>2, <2>3
  <2>5. {q \in Payout : <<q, "PAYOUT_SETTLED">> \in lines}'
          = {q \in Payout : <<q, "PAYOUT_SETTLED">> \in lines} \cup {p}
    BY <1>2, <1>4, <1>10 DEF Settled
  <2>6. Promise!Book(p)
    BY <1>2, <1>3, <2>2, <2>3, <2>4, <2>5 DEF Promise!Book, Settled
  <2> QED
    BY <2>6 DEF Promise!Next
<1>11. CASE to \notin {"SUBMITTING", "COMPLETED", "QUARANTINED", "RECONCILED"} \cup FAILURE_STATUSES
  <2>1. StageOf(to) = StageOf(from)
    BY <1>2, <1>11 DEF LEGAL_TRANSITIONS, FAILURE_STATUSES, StageOf
  <2> QED
    BY <1>2, <1>3, <1>4, <1>11, <2>1, Stutters
<1> QED
  BY <1>6, <1>7, <1>8, <1>9, <1>10, <1>11

\* The submit after a claim is the promise's Send.
LEMMA SendKeepsPromise ==
  ASSUME IInv, NEW w \in Worker, SendInstruction(w)
  PROVE  Promise!Next
<1> PICK p \in Payout : p = cur[w]
  BY InHandFacts DEF SendInstruction, InHand
<1> PICK n : n = Len(batch[p]) + 1
  OBVIOUS
<1>1. pc[w] = "submit" /\ Dead(p) /\ row[p].status \in Busy
  BY InHandFacts DEF SendInstruction, InHand, WorkerOK, SubmitOK, SubmitPhase
<1>2. /\ batch'[p] = Append(batch[p], "sent") /\ batch[p] \in Seq(BatchStatus)
      /\ \A q \in Payout : q # p => batch'[q] = batch[q]
      /\ row' = row /\ lines' = lines
  BY <1>1 DEF SendInstruction, IInv, EnvTypeOK, dbVars
<1>3. Live(p) = {} /\ Paid(p) = {} /\ Promise!Idle(p)
  BY <1>1, DeadIsIdle
<1>4. Live(p)' = {n} /\ Paid(p)' = {}
  <2>1. DOMAIN batch'[p] = DOMAIN batch[p] \cup {n} /\ n \notin DOMAIN batch[p]
    BY <1>2
  <2>2. batch'[p][n] = "sent" /\ \A i \in DOMAIN batch[p] : batch'[p][i] = batch[p][i]
    BY <1>2
  <2> QED
    BY <1>3, <2>1, <2>2 DEF Live, Paid
<1>5. StageOf(row[p].status) \in {"claimed", "closed"}
  <2>1. row[p].status \notin {"COMPLETED", "RECONCILED"}
    BY <1>1, <1>3 DEF IInv, Consistent, RowOK, RecordOK, Paid
  <2> QED
    BY <1>1, <2>1 DEF Busy, StageOf
<1>6. [q \in Payout |-> Live(q)]' = [[q \in Payout |-> Live(q)] EXCEPT ![p] = {n}]
  BY <1>1, <1>2, <1>4 DEF Live
<1>7. [q \in Payout |-> Paid(q)]' = [q \in Payout |-> Paid(q)]
  BY <1>1, <1>2, <1>3, <1>4 DEF Paid
<1>8. Promise!Send(p)
  BY <1>1, <1>2, <1>3, <1>4, <1>5, <1>6, <1>7 DEF Promise!Send, Live, Paid
<1> QED
  BY <1>8 DEF Promise!Next

\* Only one instruction is out, and it is the one the rail moves.
LEMMA RailKeepsPromise ==
  ASSUME IInv, OnePayingInstruction, NEW p \in Payout, RailReceives(p) \/ RailDecides(p)
  PROVE  Promise!Next \/ UNCHANGED Promise!vars
<1>1. PICK i \in DOMAIN batch[p], verdict \in {"pending", "refused", "paid", "denied"} :
        batch[p][i] \in {"sent", "pending"} /\ batch' = [batch EXCEPT ![p][i] = verdict]
  BY DEF RailReceives, RailDecides
<1>2. UNCHANGED <<row, lines>>
  BY DEF RailReceives, RailDecides, dbVars
<1>3. /\ DOMAIN batch'[p] = DOMAIN batch[p] /\ batch'[p][i] = verdict
      /\ \A j \in DOMAIN batch[p] : j # i => batch'[p][j] = batch[p][j]
      /\ \A q \in Payout : q # p => batch'[q] = batch[q]
  BY <1>1 DEF IInv, EnvTypeOK
<1>4. /\ i \in Paying(p)
      /\ \A j \in DOMAIN batch[p] : j # i => batch[p][j] \notin CanPay
  BY <1>1 DEF OnePayingInstruction, Paying, CanPay
<1>5. Live(p) = {i} /\ Paid(p) = {}
  BY <1>1, <1>4 DEF Live, Paid, CanPay
<1>6. /\ Live(p)' = IF verdict = "pending" THEN {i} ELSE {}
      /\ Paid(p)' = IF verdict = "paid" THEN {i} ELSE {}
  BY <1>1, <1>3, <1>4 DEF Live, Paid, CanPay
<1>7. \A q \in Payout : q # p => Live(q)' = Live(q) /\ Paid(q)' = Paid(q)
  BY <1>3 DEF Live, Paid
<1>8. [q \in Payout |-> Live(q)]' =
        [[q \in Payout |-> Live(q)] EXCEPT ![p] = IF verdict = "pending" THEN {i} ELSE {}]
  BY <1>6, <1>7
<1>9. [q \in Payout |-> Paid(q)]' =
        [[q \in Payout |-> Paid(q)] EXCEPT ![p] = IF verdict = "paid" THEN {i} ELSE {}]
  BY <1>6, <1>7
<1>10. CASE verdict = "pending"
  <2>1. [q \in Payout |-> Live(q)]' = [q \in Payout |-> Live(q)]
    BY <1>5, <1>6, <1>7, <1>10
  <2>2. [q \in Payout |-> Paid(q)]' = [q \in Payout |-> Paid(q)]
    BY <1>5, <1>6, <1>7, <1>10
  <2> QED
    BY <1>2, <2>1, <2>2 DEF Promise!vars, Live, Paid
<1>11. CASE verdict = "paid"
  <2>1. Promise!Pay(p)
    BY <1>2, <1>5, <1>8, <1>9, <1>11 DEF Promise!Pay, Live, Paid
  <2> QED
    BY <2>1 DEF Promise!Next
<1>12. CASE verdict \notin {"pending", "paid"}
  <2>1. [q \in Payout |-> Paid(q)]' = [q \in Payout |-> Paid(q)]
    BY <1>5, <1>6, <1>7, <1>12
  <2>2. Promise!Refuse(p)
    BY <1>2, <1>5, <1>8, <1>12, <2>1 DEF Promise!Refuse, Live, Paid
  <2> QED
    BY <2>2 DEF Promise!Next
<1> QED
  BY <1>10, <1>11, <1>12

\* The driver moves money the way PayoutPromise says: whatever overlaps, dies,
\* is lost or comes late, each step of it is one step of the promise or none.
THEOREM DriverKeepsPromise == Spec => KeepsPromise
<1>1. Init => Promise!Init
  <2> SUFFICES ASSUME Init PROVE Promise!Init
    OBVIOUS
  <2>1. \A p \in Payout : Live(p) = {} /\ Paid(p) = {}
    BY DEF Init, Live, Paid
  <2>2. StageOf("CREATED") = "open"
    BY DEF StageOf
  <2> QED
    BY <2>1, <2>2 DEF Init, Fresh, Promise!Init, Live, Paid
<1>2. IInv /\ IInv' /\ LedgerFollowsStatus /\ OnePayingInstruction /\ [Next]_vars
        => [Promise!Next]_(Promise!vars)
  <2> SUFFICES ASSUME IInv, IInv', LedgerFollowsStatus, OnePayingInstruction, [Next]_vars
               PROVE  Promise!Next \/ UNCHANGED Promise!vars
    OBVIOUS
  <2>1. CASE UNCHANGED <<row, lines, batch>>
    BY <2>1, Stutters DEF Settled
  <2>2. ASSUME NEW w \in Worker, SendInstruction(w)
        PROVE  Promise!Next \/ UNCHANGED Promise!vars
    BY <2>2, SendKeepsPromise
  <2>3. ASSUME NEW w \in Worker, Step(w), Transited(w)
        PROVE  Promise!Next \/ UNCHANGED Promise!vars
    BY <2>3, TransitKeepsPromise
  <2>4. ASSUME NEW p \in Payout, RailReceives(p) \/ RailDecides(p)
        PROVE  Promise!Next \/ UNCHANGED Promise!vars
    BY <2>4, RailKeepsPromise
  <2>5. ASSUME NEW w \in Worker, Step(w)
        PROVE  \/ UNCHANGED <<row, lines, batch>> \/ SendInstruction(w) \/ Transited(w)
    BY <2>5, OnlySendSends, StepTransits DEF Unwritten
  <2>6. ASSUME NEW w \in Worker, StoreFails(w) \/ Crash(w)
        PROVE  UNCHANGED <<row, lines, batch>>
    BY <2>6 DEF StoreFails, Crash, dbVars
  <2>7. CASE Environment
    BY <2>1, <2>4, <2>7 DEF Environment, Midnight, ChangeHold, SettledLineAges, PollAges, dbVars
  <2>8. CASE UNCHANGED vars
    BY <2>1, <2>8 DEF vars, dbVars, envVars
  <2> QED
    BY <2>1, <2>2, <2>3, <2>5, <2>6, <2>7, <2>8 DEF Next
<1> QED
  BY <1>1, <1>2, Inductive, BooksFollowStatus, MoneyMovesAtMostOnce, PTL
     DEF Spec, KeepsPromise, Promise!Spec
=============================================================================
