-------------------------- MODULE PayoutTypeProofs --------------------------
(***************************************************************************)
(* Type correctness of PayoutPipeline, for any number of payouts and of    *)
(* overlapping tick requests, any amounts, caps and bounds.                *)
(***************************************************************************)
EXTENDS PayoutPipeline, FiniteSetTheorems, TLAPS

-----------------------------------------------------------------------------
(* Type correctness *)

WorkerTypeOK ==
  /\ pc \in [Worker -> Label]
  /\ todo \in [Worker -> SUBSET Payout]
  /\ cur \in [Worker -> Payout \cup {NoPayout}]
  /\ seen \in [Worker -> PayoutRow]
  /\ mem \in [Worker -> Memory]
  /\ mode \in [Worker -> {"live", "dry", "stub"}]

DbTypeOK ==
  /\ row \in [Payout -> PayoutRow]
  /\ lines \subseteq Payout \X LedgerWriteType
  /\ recent \subseteq Payout
  /\ failed \in [Payout -> Nat]
  /\ noise \in [Payout -> Nat]
  /\ polls \in [Payout -> Nat]
  /\ rank \in [Payout -> Int]

EnvTypeOK ==
  /\ held \in [Payout -> BOOLEAN]
  /\ batch \in [Payout -> Seq(BatchStatus)]
  /\ faults \in Nat
  /\ clock \in Nat

LEMMA TypeSplit == TypeOK <=> WorkerTypeOK /\ DbTypeOK /\ EnvTypeOK
  BY DEF TypeOK, WorkerTypeOK, DbTypeOK, EnvTypeOK

LEMMA FreshType == Fresh \in PayoutRow /\ NoMemory \in Memory
  BY DEF Fresh, PayoutRow, PAYOUT_STATUSES, NoRequest, ReconciliationStatus,
         NoMemory, Memory

LEMMA GotoType ==
  ASSUME NEW w \in Worker, NEW label \in Label, WorkerTypeOK, Goto(w, label)
  PROVE  WorkerTypeOK'
  BY DEF WorkerTypeOK, Goto

LEMMA ReturnType ==
  ASSUME NEW w \in Worker, WorkerTypeOK, Return(w)
  PROVE  WorkerTypeOK'
  BY FreshType DEF WorkerTypeOK, Return, Label

LEMMA CommitType ==
  ASSUME NEW p \in Payout, NEW to \in PAYOUT_STATUSES, NEW patched \in PayoutRow,
         NEW newLines, newLines \subseteq Payout \X LedgerWriteType,
         DbTypeOK, Commit(p, to, patched, newLines)
  PROVE  DbTypeOK'
<1>1. row' \in [Payout -> PayoutRow]
  <2>1. Updated(p, to, patched) \in PayoutRow
    BY DEF DbTypeOK, Updated, PayoutRow
  <2> QED
    BY <2>1 DEF DbTypeOK, Commit
<1>2. failed' \in [Payout -> Nat]
  <2>1. failed[p] + 1 \in Nat
    BY DEF DbTypeOK
  <2> QED
    BY <2>1 DEF DbTypeOK, Commit
<1>3. rank' \in [Payout -> Int]
  <2>1. Cardinality(Payout) \in Nat
    BY PayoutAssumption, FS_CardinalityType
  <2> QED
    BY <2>1 DEF DbTypeOK, Commit, Touch
<1>4. lines' \subseteq Payout \X LedgerWriteType /\ recent' \subseteq Payout
  BY DEF DbTypeOK, Commit
<1> QED
  BY <1>1, <1>2, <1>3, <1>4 DEF DbTypeOK, Commit

LEMMA TryTransitionType ==
  ASSUME NEW w \in Worker, cur[w] \in Payout, NEW to \in PAYOUT_STATUSES,
         NEW actor, NEW patched \in PayoutRow,
         NEW newLines, newLines \subseteq Payout \X LedgerWriteType,
         WorkerTypeOK, DbTypeOK,
         TryTransition(w, to, actor, patched, newLines)
  PROVE  WorkerTypeOK' /\ DbTypeOK'
<1>1. WorkerTypeOK'
  BY ReturnType DEF TryTransition
<1>2. CASE Wins(w, to, actor)
  BY <1>1, <1>2, CommitType DEF TryTransition
<1>3. CASE ~Wins(w, to, actor)
  BY <1>1, <1>3 DEF TryTransition, dbVars, DbTypeOK
<1> QED
  BY <1>2, <1>3

LEMMA TryAndGotoType ==
  ASSUME NEW w \in Worker, cur[w] \in Payout, NEW to \in PAYOUT_STATUSES,
         NEW actor, NEW patched \in PayoutRow,
         NEW newLines, newLines \subseteq Payout \X LedgerWriteType,
         NEW label \in Label, WorkerTypeOK, DbTypeOK,
         TryAndGoto(w, to, actor, patched, newLines, label)
  PROVE  WorkerTypeOK' /\ DbTypeOK'
<1>1. CASE Wins(w, to, actor)
  <2>1. DbTypeOK'
    BY <1>1, CommitType DEF TryAndGoto
  <2>2. seen' \in [Worker -> PayoutRow]
    BY <1>1 DEF TryAndGoto, WorkerTypeOK, PayoutRow
  <2> QED
    BY <1>1, <2>1, <2>2 DEF TryAndGoto, WorkerTypeOK
<1>2. CASE ~Wins(w, to, actor)
  BY <1>2, ReturnType DEF TryAndGoto, dbVars, DbTypeOK
<1> QED
  BY <1>1, <1>2

\* A request past getPayout has a payout in hand.
PayoutInHand == \A w \in Worker : InHand(w) => cur[w] \in Payout

LEMMA PatchedType ==
  ASSUME DbTypeOK, NEW p \in Payout
  PROVE  /\ row[p] \in PayoutRow
         /\ \A r \in Int : [row[p] EXCEPT !.requestId = r] \in PayoutRow
         /\ \A c \in ReconciliationStatus : [row[p] EXCEPT !.recon = c] \in PayoutRow
         /\ \A r \in Int, c \in ReconciliationStatus :
              [row[p] EXCEPT !.txnId = r, !.recon = c] \in PayoutRow
<1>1. row[p] \in PayoutRow
  BY DEF DbTypeOK
<1> QED
  BY <1>1 DEF PayoutRow

LEMMA StepType ==
  ASSUME NEW w \in Worker, WorkerTypeOK, DbTypeOK, EnvTypeOK, PayoutInHand, Step(w)
  PROVE  WorkerTypeOK' /\ DbTypeOK' /\ EnvTypeOK'
<1>1. CASE CheckHold(w)
  <2>1. WorkerTypeOK'
    BY <1>1, GotoType, ReturnType DEF CheckHold, Label
  <2> QED
    BY <1>1, <2>1 DEF CheckHold, dbVars, envVars, DbTypeOK, EnvTypeOK
<1>2. CASE CheckBalance(w)
  <2>1. WorkerTypeOK'
    BY <1>2, GotoType, ReturnType DEF CheckBalance, Label
  <2> QED
    BY <1>2, <2>1 DEF CheckBalance, dbVars, envVars, DbTypeOK, EnvTypeOK
<1>3. CASE Validate(w)
  <2>1. WorkerTypeOK'
    BY <1>3, GotoType, ReturnType DEF Validate, Label
  <2> QED
    BY <1>3, <2>1 DEF Validate, dbVars, envVars, DbTypeOK, EnvTypeOK
<1>4. CASE CheckThrottle(w)
  <2>1. WorkerTypeOK'
    BY <1>4, GotoType, ReturnType DEF CheckThrottle, Label
  <2> QED
    BY <1>4, <2>1 DEF CheckThrottle, dbVars, envVars, DbTypeOK, EnvTypeOK
<1>5. CASE ReceiveAnswer(w)
  <2>1. WorkerTypeOK'
    BY <1>5, GotoType, ReturnType DEF ReceiveAnswer, Label
  <2> QED
    BY <1>5, <2>1 DEF ReceiveAnswer, dbVars, envVars, DbTypeOK, EnvTypeOK
<1>6. CASE PollWithoutReference(w)
  <2>1. WorkerTypeOK'
    BY <1>6, GotoType, ReturnType DEF PollWithoutReference, Label
  <2> QED
    BY <1>6, <2>1 DEF PollWithoutReference, dbVars, envVars, DbTypeOK, EnvTypeOK
<1>7. CASE CheckRetry(w)
  <2>1. WorkerTypeOK'
    BY <1>7, GotoType, ReturnType DEF CheckRetry, Label
  <2> QED
    BY <1>7, <2>1 DEF CheckRetry, dbVars, envVars, DbTypeOK, EnvTypeOK
<1>8. CASE SubmitFailsEarly(w)
  <2>1. WorkerTypeOK'
    BY <1>8, GotoType DEF SubmitFailsEarly, Label
  <2> QED
    BY <1>8, <2>1 DEF SubmitFailsEarly, dbVars, DbTypeOK, EnvTypeOK
<1>9. CASE LoseAnswer(w)
  <2>1. WorkerTypeOK'
    BY <1>9, GotoType DEF LoseAnswer, Label
  <2> QED
    BY <1>9, <2>1 DEF LoseAnswer, dbVars, DbTypeOK, EnvTypeOK
<1>10. CASE MarkEligible(w)
  <2>1. cur[w] \in Payout
    BY <1>10 DEF MarkEligible, InHand, PayoutInHand
  <2>2. row[cur[w]] \in PayoutRow
    BY <2>1, PatchedType
  <2>3. WorkerTypeOK' /\ DbTypeOK'
    BY <1>10, <2>1, <2>2, TryTransitionType DEF MarkEligible, PAYOUT_STATUSES
  <2> QED
    BY <1>10, <2>3 DEF MarkEligible, envVars, EnvTypeOK
<1>11. CASE Reserve(w)
  <2>1. cur[w] \in Payout
    BY <1>11 DEF Reserve, InHand, PayoutInHand
  <2>2. row[cur[w]] \in PayoutRow
    BY <2>1, PatchedType
  <2>3. WorkerTypeOK' /\ DbTypeOK'
    BY <1>11, <2>1, <2>2, TryTransitionType DEF Reserve, PAYOUT_STATUSES, LedgerWriteType
  <2> QED
    BY <1>11, <2>3 DEF Reserve, envVars, EnvTypeOK
<1>12. CASE MarkValidated(w)
  <2>1. cur[w] \in Payout
    BY <1>12 DEF MarkValidated, InHand, PayoutInHand
  <2>2. row[cur[w]] \in PayoutRow
    BY <2>1, PatchedType
  <2>3. WorkerTypeOK' /\ DbTypeOK'
    BY <1>12, <2>1, <2>2, TryTransitionType DEF MarkValidated, PAYOUT_STATUSES
  <2> QED
    BY <1>12, <2>3 DEF MarkValidated, envVars, EnvTypeOK
<1>13. CASE MarkReady(w)
  <2>1. cur[w] \in Payout
    BY <1>13 DEF MarkReady, InHand, PayoutInHand
  <2>2. row[cur[w]] \in PayoutRow
    BY <2>1, PatchedType
  <2>3. WorkerTypeOK' /\ DbTypeOK'
    BY <1>13, <2>1, <2>2, TryTransitionType DEF MarkReady, PAYOUT_STATUSES
  <2> QED
    BY <1>13, <2>3 DEF MarkReady, envVars, EnvTypeOK
<1>14. CASE RecordSubmitted(w)
  <2>1. cur[w] \in Payout
    BY <1>14 DEF RecordSubmitted, InHand, PayoutInHand
  <2>2. [row[cur[w]] EXCEPT !.requestId = mem[w].req] \in PayoutRow
    BY <2>1, PatchedType DEF WorkerTypeOK, Memory
  <2>3. WorkerTypeOK' /\ DbTypeOK'
    BY <1>14, <2>1, <2>2, TryTransitionType DEF RecordSubmitted, PAYOUT_STATUSES
  <2> QED
    BY <1>14, <2>3 DEF RecordSubmitted, envVars, EnvTypeOK
<1>15. CASE RecordRejected(w)
  <2>1. cur[w] \in Payout
    BY <1>15 DEF RecordRejected, InHand, PayoutInHand
  <2>2. row[cur[w]] \in PayoutRow
    BY <2>1, PatchedType
  <2>3. WorkerTypeOK' /\ DbTypeOK'
    BY <1>15, <2>1, <2>2, TryTransitionType DEF RecordRejected, PAYOUT_STATUSES
  <2> QED
    BY <1>15, <2>3 DEF RecordRejected, envVars, EnvTypeOK
<1>16. CASE RecordUnavailable(w)
  <2>1. cur[w] \in Payout
    BY <1>16 DEF RecordUnavailable, InHand, PayoutInHand
  <2>2. row[cur[w]] \in PayoutRow
    BY <2>1, PatchedType
  <2>3. WorkerTypeOK' /\ DbTypeOK'
    BY <1>16, <2>1, <2>2, TryTransitionType DEF RecordUnavailable, PAYOUT_STATUSES
  <2> QED
    BY <1>16, <2>3 DEF RecordUnavailable, envVars, EnvTypeOK
<1>17. CASE RecordAmbiguous(w)
  <2>1. cur[w] \in Payout
    BY <1>17 DEF RecordAmbiguous, InHand, PayoutInHand
  <2>2. [row[cur[w]] EXCEPT !.recon = "EVIDENCE_PENDING"] \in PayoutRow
    BY <2>1, PatchedType DEF ReconciliationStatus
  <2>3. WorkerTypeOK' /\ DbTypeOK'
    BY <1>17, <2>1, <2>2, TryTransitionType DEF RecordAmbiguous, PAYOUT_STATUSES
  <2> QED
    BY <1>17, <2>3 DEF RecordAmbiguous, envVars, EnvTypeOK
<1>18. CASE MarkInterrupted(w)
  <2>1. cur[w] \in Payout
    BY <1>18 DEF MarkInterrupted, InHand, PayoutInHand
  <2>2. [row[cur[w]] EXCEPT !.recon = "EVIDENCE_PENDING"] \in PayoutRow
    BY <2>1, PatchedType DEF ReconciliationStatus
  <2>3. WorkerTypeOK' /\ DbTypeOK'
    BY <1>18, <2>1, <2>2, TryTransitionType DEF MarkInterrupted, PAYOUT_STATUSES
  <2> QED
    BY <1>18, <2>3 DEF MarkInterrupted, envVars, EnvTypeOK
<1>19. CASE QuarantineNoReference(w)
  <2>1. cur[w] \in Payout
    BY <1>19 DEF QuarantineNoReference, InHand, PayoutInHand
  <2>2. row[cur[w]] \in PayoutRow
    BY <2>1, PatchedType
  <2>3. WorkerTypeOK' /\ DbTypeOK'
    BY <1>19, <2>1, <2>2, TryTransitionType DEF QuarantineNoReference, PAYOUT_STATUSES
  <2> QED
    BY <1>19, <2>3 DEF QuarantineNoReference, envVars, EnvTypeOK
<1>20. CASE Reconcile(w)
  <2>1. cur[w] \in Payout
    BY <1>20 DEF Reconcile, InHand, PayoutInHand
  <2>2. [row[cur[w]] EXCEPT !.recon = "RECONCILED"] \in PayoutRow
    BY <2>1, PatchedType DEF ReconciliationStatus
  <2>3. WorkerTypeOK' /\ DbTypeOK'
    BY <1>20, <2>1, <2>2, TryTransitionType DEF Reconcile, PAYOUT_STATUSES, LedgerWriteType
  <2> QED
    BY <1>20, <2>3 DEF Reconcile, envVars, EnvTypeOK
<1>21. CASE VerdictFailed(w)
  <2>1. cur[w] \in Payout
    BY <1>21 DEF VerdictFailed, InHand, PayoutInHand
  <2>2. [row[cur[w]] EXCEPT !.recon = "QUARANTINED"] \in PayoutRow
    BY <2>1, PatchedType DEF ReconciliationStatus
  <2>5. row[cur[w]] \in PayoutRow
    BY <2>1, PatchedType
  <2>3. WorkerTypeOK' /\ DbTypeOK'
    BY <1>21, <2>1, <2>2, <2>5, TryTransitionType DEF VerdictFailed, PAYOUT_STATUSES
  <2> QED
    BY <1>21, <2>3 DEF VerdictFailed, envVars, EnvTypeOK
<1>22. CASE MarkProcessing(w)
  <2>1. cur[w] \in Payout
    BY <1>22 DEF MarkProcessing, InHand, PayoutInHand
  <2>2. row[cur[w]] \in PayoutRow
    BY <2>1, PatchedType
  <2>3. WorkerTypeOK' /\ DbTypeOK'
    BY <1>22, <2>1, <2>2, TryTransitionType DEF MarkProcessing, PAYOUT_STATUSES
  <2> QED
    BY <1>22, <2>3 DEF MarkProcessing, envVars, EnvTypeOK
<1>23. CASE QuarantineEvidenceGap(w)
  <2>1. cur[w] \in Payout
    BY <1>23 DEF QuarantineEvidenceGap, InHand, PayoutInHand
  <2>2. [row[cur[w]] EXCEPT !.recon = "QUARANTINED"] \in PayoutRow
    BY <2>1, PatchedType DEF ReconciliationStatus
  <2>3. WorkerTypeOK' /\ DbTypeOK'
    BY <1>23, <2>1, <2>2, TryTransitionType DEF QuarantineEvidenceGap, PAYOUT_STATUSES
  <2> QED
    BY <1>23, <2>3 DEF QuarantineEvidenceGap, envVars, EnvTypeOK
<1>24. CASE Requeue(w)
  <2>1. cur[w] \in Payout
    BY <1>24 DEF Requeue, InHand, PayoutInHand
  <2>2. row[cur[w]] \in PayoutRow
    BY <2>1, PatchedType
  <2>3. WorkerTypeOK' /\ DbTypeOK'
    BY <1>24, <2>1, <2>2, TryTransitionType DEF Requeue, PAYOUT_STATUSES
  <2> QED
    BY <1>24, <2>3 DEF Requeue, envVars, EnvTypeOK
<1>25. CASE Claim(w)
  <2>1. cur[w] \in Payout
    BY <1>25 DEF Claim, InHand, PayoutInHand
  <2>2. row[cur[w]] \in PayoutRow
    BY <2>1, PatchedType
  <2>3. WorkerTypeOK' /\ DbTypeOK'
    BY <1>25, <2>1, <2>2, TryAndGotoType DEF Claim, PAYOUT_STATUSES, Label
  <2> QED
    BY <1>25, <2>3 DEF Claim, envVars, EnvTypeOK
<1>26. CASE EvidenceProcessing(w)
  <2>1. cur[w] \in Payout
    BY <1>26 DEF EvidenceProcessing, InHand, PayoutInHand
  <2>2. row[cur[w]] \in PayoutRow
    BY <2>1, PatchedType
  <2>3. WorkerTypeOK' /\ DbTypeOK'
    BY <1>26, <2>1, <2>2, TryAndGotoType DEF EvidenceProcessing, PAYOUT_STATUSES, Label
  <2> QED
    BY <1>26, <2>3 DEF EvidenceProcessing, envVars, EnvTypeOK
<1>27. CASE EvidenceCompleted(w)
  <2>1. cur[w] \in Payout
    BY <1>27 DEF EvidenceCompleted, InHand, PayoutInHand
  <2>2. [row[cur[w]] EXCEPT !.txnId = seen[w].requestId, !.recon = "RECONCILIATION_REQUIRED"]
        \in PayoutRow
    <3>1. seen[w].requestId \in Int
      BY DEF WorkerTypeOK, PayoutRow
    <3> QED
      BY <2>1, <3>1, PatchedType DEF ReconciliationStatus
  <2>3. WorkerTypeOK' /\ DbTypeOK'
    BY <1>27, <2>1, <2>2, TryAndGotoType DEF EvidenceCompleted, PAYOUT_STATUSES, Label
  <2> QED
    BY <1>27, <2>3 DEF EvidenceCompleted, envVars, EnvTypeOK
<1>28. CASE FetchStatus(w)
  <2>1. \A s, v : AfterVerdict(s, v) \in Label
    BY DEF AfterVerdict, Label
  <2>2. WorkerTypeOK'
    BY <1>28, <2>1, GotoType DEF FetchStatus
  <2> QED
    BY <1>28, <2>2 DEF FetchStatus, dbVars, envVars, DbTypeOK, EnvTypeOK
<1>29. CASE LoadPayout(w)
  <2>1. PICK p \in todo[w] :
           /\ row[p].status \in DRIVE_STATUSES
           /\ todo' = [todo EXCEPT ![w] = @ \ {p}]
           /\ cur'  = [cur EXCEPT ![w] = p]
           /\ seen' = [seen EXCEPT ![w] = row[p]]
           /\ pc'   = [pc EXCEPT ![w] = HandlerOf(row[p].status)]
    BY <1>29 DEF LoadPayout
  <2>2. p \in Payout /\ row[p] \in PayoutRow
    BY <2>1, PatchedType DEF WorkerTypeOK
  <2>3. HandlerOf(row[p].status) \in Label
    BY <2>1 DEF DRIVE_STATUSES, HandlerOf, FAILURE_STATUSES, Label
  <2>4. WorkerTypeOK'
    BY <1>29, <2>1, <2>2, <2>3 DEF LoadPayout, WorkerTypeOK
  <2> QED
    BY <1>29, <2>4 DEF LoadPayout, dbVars, envVars, DbTypeOK, EnvTypeOK
<1>30. CASE StartTick(w)
  <2>1. ListDrivablePayoutIds \subseteq Payout
    BY DEF ListDrivablePayoutIds, Drivable
  <2>2. WorkerTypeOK'
    BY <1>30, <2>1, ModesAssumption DEF StartTick, WorkerTypeOK, Label
  <2> QED
    BY <1>30, <2>2 DEF StartTick, dbVars, envVars, DbTypeOK, EnvTypeOK
<1>31. CASE SkipTerminal(w)
  <2>1. WorkerTypeOK'
    BY <1>31 DEF SkipTerminal, WorkerTypeOK, Label
  <2> QED
    BY <1>31, <2>1 DEF SkipTerminal, dbVars, envVars, DbTypeOK, EnvTypeOK
<1>32. CASE SubmitNotLive(w)
  <2>1. CASE mode[w] = "dry"
    <3>1. [mem[w] EXCEPT !.req = DryRun] \in Memory
      BY DEF WorkerTypeOK, Memory, DryRun
    <3>2. mem' = [mem EXCEPT ![w] = [mem[w] EXCEPT !.req = DryRun]]
      BY <1>32, <2>1 DEF SubmitNotLive
    <3>3. WorkerTypeOK'
      BY <1>32, <2>1, <3>1, <3>2 DEF SubmitNotLive, WorkerTypeOK, Label
    <3> QED
      BY <1>32, <3>3 DEF SubmitNotLive, dbVars, envVars, DbTypeOK, EnvTypeOK
  <2>2. CASE mode[w] # "dry"
    <3>1. WorkerTypeOK'
      BY <1>32, <2>2 DEF SubmitNotLive, WorkerTypeOK, Label
    <3> QED
      BY <1>32, <3>1 DEF SubmitNotLive, dbVars, envVars, DbTypeOK, EnvTypeOK
  <2> QED
    BY <2>1, <2>2
<1>33. CASE SendInstruction(w)
  <2>1. cur[w] \in Payout
    BY <1>33 DEF SendInstruction, InHand, PayoutInHand
  <2>2. Len(batch[cur[w]]) + 1 \in Int /\ Append(batch[cur[w]], "sent") \in Seq(BatchStatus)
    BY <2>1 DEF EnvTypeOK, BatchStatus
  <2>3. WorkerTypeOK'
    BY <1>33, <2>2 DEF SendInstruction, WorkerTypeOK, Label, Memory
  <2> QED
    BY <1>33, <2>1, <2>2, <2>3 DEF SendInstruction, dbVars, DbTypeOK, EnvTypeOK
<1>34. CASE FetchStatusThrows(w)
  <2>1. WorkerTypeOK'
    BY <1>34 DEF FetchStatusThrows, WorkerTypeOK, Label, Memory
  <2> QED
    BY <1>34, <2>1 DEF FetchStatusThrows, dbVars, DbTypeOK, EnvTypeOK
<1>35. CASE CountPolls(w)
  <2>1. cur[w] \in Payout
    BY <1>35 DEF CountPolls, InHand, PayoutInHand
  <2>2. polls[cur[w]] \in Nat
    BY <2>1 DEF DbTypeOK, PayoutRow
  <2>3. WorkerTypeOK'
    BY <1>35, <2>2 DEF CountPolls, WorkerTypeOK, Label, Memory
  <2> QED
    BY <1>35, <2>3 DEF CountPolls, dbVars, envVars, DbTypeOK, EnvTypeOK
<1>36. CASE NoteStatus(w)
  <2>1. cur[w] \in Payout
    BY <1>36 DEF NoteStatus, InHand, PayoutInHand
  <2>2. row[cur[w]].status \in PAYOUT_STATUSES
    BY <2>1 DEF DbTypeOK, PayoutRow
  <2>3. WorkerTypeOK'
    BY <1>36, <2>2 DEF NoteStatus, WorkerTypeOK, Label, Memory
  <2> QED
    BY <1>36, <2>3 DEF NoteStatus, dbVars, envVars, DbTypeOK, EnvTypeOK
<1>37. CASE WritePoll(w)
  <2>1. cur[w] \in Payout
    BY <1>37 DEF WritePoll, InHand, PayoutInHand
  <2>2. WorkerTypeOK'
    BY <1>37, GotoType, ReturnType DEF WritePoll, Label
  <2>3. DbTypeOK'
    BY <1>37, <2>1 DEF WritePoll, DbTypeOK
  <2> QED
    BY <1>37, <2>2, <2>3 DEF WritePoll, envVars, EnvTypeOK
<1> QED
  BY <1>1, <1>2, <1>3, <1>4, <1>5, <1>6, <1>7, <1>8, <1>9, <1>10, <1>11,
     <1>12, <1>13, <1>14, <1>15, <1>16, <1>17, <1>18, <1>19, <1>20, <1>21,
     <1>22, <1>23, <1>24, <1>25, <1>26, <1>27, <1>28, <1>29, <1>30, <1>31,
     <1>32, <1>33, <1>34, <1>35, <1>36, <1>37
     DEF Step

LEMMA FaultType ==
  ASSUME NEW w \in Worker, WorkerTypeOK, DbTypeOK, EnvTypeOK, StoreFails(w) \/ Crash(w)
  PROVE  WorkerTypeOK' /\ DbTypeOK' /\ EnvTypeOK'
<1>1. CASE StoreFails(w)
  <2>1. WorkerTypeOK'
    BY <1>1, ReturnType DEF StoreFails
  <2> QED
    BY <1>1, <2>1 DEF StoreFails, dbVars, DbTypeOK, EnvTypeOK
<1>2. CASE Crash(w)
  <2>1. WorkerTypeOK'
    BY <1>2, FreshType DEF Crash, WorkerTypeOK, Label
  <2> QED
    BY <1>2, <2>1 DEF Crash, dbVars, DbTypeOK, EnvTypeOK
<1> QED
  BY <1>1, <1>2

LEMMA EnvironmentType ==
  ASSUME WorkerTypeOK, DbTypeOK, EnvTypeOK, Environment
  PROVE  WorkerTypeOK' /\ DbTypeOK' /\ EnvTypeOK'
<1>0. UNCHANGED workerVars => WorkerTypeOK'
  BY DEF workerVars, WorkerTypeOK
<1>1. CASE Midnight
  BY <1>0, <1>1 DEF Midnight, DbTypeOK, EnvTypeOK
<1>2. ASSUME NEW p \in Payout, RailReceives(p) \/ RailDecides(p)
      PROVE  WorkerTypeOK' /\ DbTypeOK' /\ EnvTypeOK'
  <2>1. PICK i \in DOMAIN batch[p], new \in {"pending", "refused", "paid", "denied"} :
          batch' = [batch EXCEPT ![p][i] = new]
    BY <1>2 DEF RailReceives, RailDecides
  <2>2. [batch[p] EXCEPT ![i] = new] \in Seq(BatchStatus)
    BY DEF EnvTypeOK, BatchStatus
  <2>3. batch' \in [Payout -> Seq(BatchStatus)]
    BY <2>1, <2>2 DEF EnvTypeOK
  <2> QED
    BY <1>0, <1>2, <2>3 DEF RailReceives, RailDecides, dbVars, DbTypeOK, EnvTypeOK
<1>3. ASSUME NEW p \in Payout, ChangeHold(p)
      PROVE  WorkerTypeOK' /\ DbTypeOK' /\ EnvTypeOK'
  BY <1>0, <1>3 DEF ChangeHold, dbVars, DbTypeOK, EnvTypeOK
<1>4. ASSUME NEW p \in Payout, SettledLineAges(p)
      PROVE  WorkerTypeOK' /\ DbTypeOK' /\ EnvTypeOK'
  BY <1>0, <1>4 DEF SettledLineAges, DbTypeOK, EnvTypeOK
<1>5. ASSUME NEW p \in Payout, PollAges(p)
      PROVE  WorkerTypeOK' /\ DbTypeOK' /\ EnvTypeOK'
  BY <1>0, <1>5 DEF PollAges, DbTypeOK, EnvTypeOK
<1> QED
  BY <1>1, <1>2, <1>3, <1>4, <1>5 DEF Environment
=============================================================================
