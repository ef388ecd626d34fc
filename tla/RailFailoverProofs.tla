------------------------- MODULE RailFailoverProofs -------------------------
(***************************************************************************)
(* Proofs about RailFailover, for every chain of rails: type correctness,  *)
(* the inductive invariant, and that the walk keeps PayoutPromise.         *)
(***************************************************************************)
EXTENDS RailFailover, TLAPS

-----------------------------------------------------------------------------
(* Types *)

LEMMA InitType == Init => TypeOK
<1> SUFFICES ASSUME Init PROVE TypeOK
  OBVIOUS
<1>1. instr \in [Rail -> Seq(InstructionStatus)]
  BY DEF Init
<1>2. attempts \in Seq(RailOutcome)
  BY DEF Init
<1> QED
  BY <1>1, <1>2, WalkAssumption DEF Init, TypeOK, PAYOUT_STATUSES

LEMMA OutcomeType ==
  ASSUME TypeOK, NEW o \in RailOutcome, NEW l, Attempted(o, l)
  PROVE  attempts' \in Seq(RailOutcome) /\ pc' = l
BY DEF TypeOK, Attempted

\* Every step of the walk keeps the types.
LEMMA WalkType == TypeOK /\ Walk => TypeOK'
<1> SUFFICES ASSUME TypeOK, Walk PROVE TypeOK'
  OBVIOUS
<1> USE DEF row, walk
<1>0. pos \in 1 .. Len(Chain) => Chain[pos] \in Rail
  BY ChainAssumption
<1>1. CASE PassRail
  <2>1. KnownFailure(wiring[Chain[pos]]) \in RailOutcome
    BY <1>1 DEF PassRail, KnownFailure, RailOutcome
  <2>2. attempts' \in Seq(RailOutcome) /\ pc' = "next"
    BY <1>1, <2>1, OutcomeType DEF PassRail
  <2> QED
    BY <1>1, <2>2 DEF PassRail, TypeOK
<1>2. CASE SubmitDry
  <2>1. attempts' \in Seq(RailOutcome) /\ pc' = "recordSubmitted"
    BY <1>2, OutcomeType DEF SubmitDry, RailOutcome
  <2>2. req' \in RequestId
    BY <1>2, <1>0 DEF SubmitDry, TypeOK, RequestId, DryRun
  <2> QED
    BY <1>2, <2>1, <2>2 DEF SubmitDry, TypeOK
<1>3. CASE SubmitLive
  <2>1. Chain[pos] \in Rail
    BY <1>3, <1>0 DEF SubmitLive, TypeOK
  <2>2. Append(instr[Chain[pos]], "sent") \in Seq(InstructionStatus)
    BY <2>1 DEF TypeOK, InstructionStatus
  <2>3. req' \in RequestId
    BY <1>3, <2>1 DEF SubmitLive, TypeOK, RequestId
  <2> QED
    BY <1>3, <2>1, <2>2, <2>3 DEF SubmitLive, TypeOK
<1>4. CASE SubmitFailsEarly
  <2>1. attempts' \in Seq(RailOutcome) /\ pc' = "recordAmbiguous"
    BY <1>4, OutcomeType DEF SubmitFailsEarly, RailOutcome
  <2> QED
    BY <1>4, <2>1 DEF SubmitFailsEarly, TypeOK
<1>5. CASE ReceiveAccepted
  <2>1. attempts' \in Seq(RailOutcome) /\ pc' = "recordSubmitted"
    BY <1>5, OutcomeType DEF ReceiveAccepted, RailOutcome
  <2> QED
    BY <1>5, <2>1 DEF ReceiveAccepted, TypeOK
<1>6. CASE ReceiveRejected
  <2>1. attempts' \in Seq(RailOutcome) /\ pc' = "next"
    BY <1>6, OutcomeType DEF ReceiveRejected, RailOutcome
  <2> QED
    BY <1>6, <2>1 DEF ReceiveRejected, TypeOK
<1>7. CASE LoseAnswer
  <2>1. attempts' \in Seq(RailOutcome) /\ pc' = "recordAmbiguous"
    BY <1>7, OutcomeType DEF LoseAnswer, RailOutcome
  <2> QED
    BY <1>7, <2>1 DEF LoseAnswer, TypeOK
<1>8. CASE Exhausted
  BY <1>8 DEF Exhausted, TypeOK
<1>9. CASE RecordSubmitted
  BY <1>9 DEF RecordSubmitted, TypeOK, PAYOUT_STATUSES
<1>10. CASE RecordAmbiguous
  BY <1>10 DEF RecordAmbiguous, TypeOK, PAYOUT_STATUSES
<1> QED
  BY <1>1, <1>2, <1>3, <1>4, <1>5, <1>6, <1>7, <1>8, <1>9, <1>10 DEF Walk

\* A tick only writes a status.
LEMMA TickType == TypeOK /\ Tick => TypeOK'
<1> SUFFICES ASSUME TypeOK, Tick PROVE TypeOK'
  OBVIOUS
<1>1. CASE Claim
  <2>1. attempts' \in Seq(RailOutcome)
    BY <1>1 DEF Claim
  <2> QED
    BY <1>1, <2>1 DEF Claim, TypeOK, PAYOUT_STATUSES
<1>2. ASSUME NEW s \in PAYOUT_STATUSES, MoveTo(s) PROVE TypeOK'
  BY <1>2 DEF MoveTo, TypeOK, walk
<1> QED
  BY <1>1, <1>2 DEF Tick, Interrupt, QuarantineNoReference, PollPaid, PollFailed,
     PollPending, QuarantineEvidenceGap, Reconcile, Requeue, PAYOUT_STATUSES

LEMMA SurroundingsType ==
  ASSUME TypeOK, Crash \/ \E r \in Rail : Rewire(r) \/ RailReceives(r) \/ RailDecides(r)
  PROVE  TypeOK'
<1>1. CASE Crash
  BY <1>1 DEF Crash, TypeOK, row
<1>2. ASSUME NEW r \in Rail, Rewire(r) PROVE TypeOK'
  <2>1. PICK kind \in Wiring : wiring' = [wiring EXCEPT ![r] = kind]
    BY <1>2 DEF Rewire
  <2> QED
    BY <1>2, <2>1 DEF Rewire, TypeOK, row, walk
<1>3. ASSUME NEW r \in Rail, NEW i \in DOMAIN instr[r], NEW a \in InstructionStatus,
             instr' = [instr EXCEPT ![r][i] = a],
             UNCHANGED <<row, wiring, walk, walks, faults>>
      PROVE  TypeOK'
  <2>1. instr[r] \in Seq(InstructionStatus)
    BY DEF TypeOK
  <2>2. [instr[r] EXCEPT ![i] = a] \in Seq(InstructionStatus)
    BY <2>1
  <2> QED
    BY <1>3, <2>2 DEF TypeOK, row, walk
<1>4. ASSUME NEW r \in Rail, RailReceives(r) PROVE TypeOK'
  BY <1>3, <1>4 DEF RailReceives, InstructionStatus
<1>5. ASSUME NEW r \in Rail, RailDecides(r) PROVE TypeOK'
  BY <1>3, <1>5 DEF RailDecides, InstructionStatus
<1> QED
  BY <1>1, <1>2, <1>4, <1>5

LEMMA NextType == TypeOK /\ [Next]_vars => TypeOK'
<1>1. TypeOK /\ UNCHANGED vars => TypeOK'
  BY DEF TypeOK, vars, row, walk
<1> QED
  BY <1>1, WalkType, TickType, SurroundingsType DEF Next

-----------------------------------------------------------------------------
(* What is out at the rails *)

LEMMA InstructionsDef ==
  TypeOK =>
    \A S : \A x :
      x \in Instructions(S) <=>
        /\ x \in RequestId
        /\ x.n \in DOMAIN instr[x.rail]
        /\ instr[x.rail][x.n] \in S
<1> SUFFICES ASSUME TypeOK, NEW S, NEW x
             PROVE  x \in Instructions(S) <=>
                      /\ x \in RequestId
                      /\ x.n \in DOMAIN instr[x.rail]
                      /\ instr[x.rail][x.n] \in S
  OBVIOUS
<1>1. \A r \in Rail : DOMAIN instr[r] \subseteq Nat
  BY DEF TypeOK
<1>2. x \in Instructions(S) <=>
        \E r \in Rail : \E i \in DOMAIN instr[r] :
          instr[r][i] \in S /\ x = [rail |-> r, n |-> i]
  BY DEF Instructions
<1> QED
  BY <1>1, <1>2 DEF RequestId

LEMMA InstructionsDefNext ==
  TypeOK' =>
    \A S : \A x :
      x \in Instructions(S)' <=>
        /\ x \in RequestId
        /\ x.n \in DOMAIN instr'[x.rail]
        /\ instr'[x.rail][x.n] \in S
<1> SUFFICES ASSUME TypeOK', NEW S, NEW x
             PROVE  x \in Instructions(S)' <=>
                      /\ x \in RequestId
                      /\ x.n \in DOMAIN instr'[x.rail]
                      /\ instr'[x.rail][x.n] \in S
  OBVIOUS
<1>1. \A r \in Rail : DOMAIN instr'[r] \subseteq Nat
  BY DEF TypeOK
<1>2. x \in Instructions(S)' <=>
        \E r \in Rail : \E i \in DOMAIN instr'[r] :
          instr'[r][i] \in S /\ x = [rail |-> r, n |-> i]
  BY DEF Instructions
<1> QED
  BY <1>1, <1>2 DEF RequestId

\* A rail changes its mind about one instruction, and about no other.
LEMMA RailMoves ==
  ASSUME TypeOK, TypeOK', NEW r \in Rail, NEW i \in DOMAIN instr[r],
         NEW a \in InstructionStatus, instr' = [instr EXCEPT ![r][i] = a],
         NEW S
  PROVE  \A x : x \in Instructions(S)' <=>
                  IF x = [rail |-> r, n |-> i] THEN a \in S ELSE x \in Instructions(S)
<1> SUFFICES ASSUME NEW x
             PROVE  x \in Instructions(S)' <=>
                      IF x = [rail |-> r, n |-> i] THEN a \in S ELSE x \in Instructions(S)
  OBVIOUS
<1>1. instr \in [Rail -> Seq(InstructionStatus)] /\ i \in Nat
  BY DEF TypeOK
<1>2. instr'[r] = [instr[r] EXCEPT ![i] = a] /\ \A q \in Rail \ {r} : instr'[q] = instr[q]
  BY <1>1
<1>3. DOMAIN instr'[r] = DOMAIN instr[r]
  BY <1>2
<1>4. CASE x = [rail |-> r, n |-> i]
  BY <1>1, <1>2, <1>3, <1>4, InstructionsDefNext DEF RequestId
<1>5. CASE x \in RequestId /\ x # [rail |-> r, n |-> i]
  <2>1. x.rail = r => x.n # i
    BY <1>5 DEF RequestId
  <2>2. x.rail \in Rail
    BY <1>5 DEF RequestId
  <2>3. x.n \in DOMAIN instr'[x.rail] <=> x.n \in DOMAIN instr[x.rail]
    BY <1>2, <1>3, <2>2
  <2>4. x.n \in DOMAIN instr[x.rail] => instr'[x.rail][x.n] = instr[x.rail][x.n]
    BY <1>2, <2>1, <2>2
  <2> QED
    BY <1>5, <2>3, <2>4, InstructionsDef, InstructionsDefNext
<1>6. CASE x \notin RequestId
  <2>1. x # [rail |-> r, n |-> i]
    BY <1>1, <1>6 DEF RequestId
  <2> QED
    BY <1>6, <2>1, InstructionsDef, InstructionsDefNext
<1> QED
  BY <1>4, <1>5, <1>6

\* A submit adds the instruction it sends.
LEMMA SubmitAdds ==
  ASSUME TypeOK, TypeOK', SubmitLive, NEW S
  PROVE  /\ req' \in RequestId
         /\ req'.n \in DOMAIN instr'[req'.rail]
         /\ \A x : x \in Instructions(S)' <=>
                     (x = req' /\ "sent" \in S) \/ x \in Instructions(S)
<1> DEFINE r == Chain[pos]
<1>1. r \in Rail
  BY ChainAssumption DEF SubmitLive, TypeOK
<1>2. instr[r] \in Seq(InstructionStatus) /\ instr \in [Rail -> Seq(InstructionStatus)]
  BY <1>1 DEF TypeOK
<1>3. /\ instr' = [instr EXCEPT ![r] = Append(instr[r], "sent")]
      /\ req' = [rail |-> r, n |-> Len(instr[r]) + 1]
  BY DEF SubmitLive
<1> HIDE DEF r
<1>4. instr'[r] = Append(instr[r], "sent") /\ \A q \in Rail \ {r} : instr'[q] = instr[q]
  BY <1>1, <1>2, <1>3
<1>5. /\ DOMAIN instr'[r] = DOMAIN instr[r] \cup {Len(instr[r]) + 1}
      /\ instr'[r][Len(instr[r]) + 1] = "sent"
      /\ \A k \in DOMAIN instr[r] : instr'[r][k] = instr[r][k]
      /\ Len(instr[r]) + 1 \notin DOMAIN instr[r]
  BY <1>2, <1>4 DEF InstructionStatus
<1>6. req' \in RequestId /\ req'.n \in DOMAIN instr'[req'.rail]
  BY <1>1, <1>2, <1>3, <1>5 DEF RequestId
<1>7. ASSUME NEW x
      PROVE  x \in Instructions(S)' <=> (x = req' /\ "sent" \in S) \/ x \in Instructions(S)
  <2>1. CASE x = req'
    BY <1>3, <1>5, <1>6, <2>1, InstructionsDef, InstructionsDefNext
  <2>2. CASE x \in RequestId /\ x # req'
    <3>1. x.rail \in Rail /\ (x.rail = r => x.n # Len(instr[r]) + 1)
      BY <1>3, <2>2 DEF RequestId
    <3>2. x.n \in DOMAIN instr'[x.rail] <=> x.n \in DOMAIN instr[x.rail]
      BY <1>4, <1>5, <3>1
    <3>3. x.n \in DOMAIN instr[x.rail] => instr'[x.rail][x.n] = instr[x.rail][x.n]
      BY <1>4, <1>5, <3>1
    <3> QED
      BY <2>2, <3>2, <3>3, InstructionsDef, InstructionsDefNext
  <2>3. CASE x \notin RequestId
    BY <1>6, <2>3, InstructionsDef, InstructionsDefNext
  <2> QED
    BY <2>1, <2>2, <2>3
<1> QED
  BY <1>6, <1>7

-----------------------------------------------------------------------------
(* The inductive invariant *)

IInv == TypeOK /\ ChainConsistent

LEMMA InitIInv == Init => IInv
<1> SUFFICES ASSUME Init PROVE IInv
  OBVIOUS
<1>1. TypeOK
  BY InitType
<1>2. \A S : Instructions(S) = {}
  <2> SUFFICES ASSUME NEW S, NEW x \in Instructions(S) PROVE FALSE
    OBVIOUS
  <2>1. x \in RequestId /\ x.n \in DOMAIN instr[x.rail]
    BY <1>1, InstructionsDef
  <2>2. instr[x.rail] = <<>>
    BY <2>1 DEF Init, RequestId
  <2> QED
    BY <2>1, <2>2
<1>3. WalkOK /\ RowOK
  BY <1>2 DEF Init, WalkOK, RowOK, NonePays, OnlyPays
<1>4. OnePayingRail /\ SettledOnOwningRail
  BY <1>2 DEF Init, OnePayingRail, SettledOnOwningRail
<1> QED
  BY <1>1, <1>3, <1>4 DEF IInv, ChainConsistent

LEMMA SameInstructions == instr' = instr => \A S : Instructions(S)' = Instructions(S)
BY DEF Instructions

\* What is paid out is not affected by a step that sends nothing, if the row
\* keeps its request and does not become COMPLETED by it.
LEMMA SettledStays ==
  ASSUME IInv, UNCHANGED <<instr, requestId>>,
         status' \in {"COMPLETED", "RECONCILED"} => status \in {"COMPLETED", "RECONCILED"}
  PROVE  OnePayingRail' /\ SettledOnOwningRail'
<1>1. OnePayingRail'
  BY SameInstructions DEF IInv, ChainConsistent, OnePayingRail
<1>2. SettledOnOwningRail'
  BY DEF IInv, ChainConsistent, SettledOnOwningRail
<1> QED
  BY <1>1, <1>2

LEMMA WalkConsistent == IInv /\ Walk => ChainConsistent'
<1> SUFFICES ASSUME IInv, Walk PROVE ChainConsistent'
  OBVIOUS
<1>1. TypeOK /\ WalkOK /\ RowOK /\ OnePayingRail /\ SettledOnOwningRail
  BY DEF IInv, ChainConsistent
<1>2. TypeOK'
  BY <1>1, WalkType
\* The steps that do not touch the row or the rails, and only go on when
\* nothing can pay, or with what is out in hand.
<1>3. ASSUME UNCHANGED <<row, instr>>, pc # "idle", WalkOK' PROVE ChainConsistent'
  <2>1. RowOK'
    BY <1>1, <1>3, SameInstructions DEF RowOK, NonePays, OnlyPays, row
  <2> QED
    BY <1>3, <2>1, SettledStays DEF ChainConsistent, row
<1>4. CASE PassRail
  <2>1. WalkOK'
    BY <1>1, <1>4, SameInstructions DEF PassRail, Attempted, WalkOK, NonePays, row
  <2> QED
    BY <1>3, <1>4, <2>1 DEF PassRail
<1>5. CASE SubmitDry
  <2>1. req' \in RequestId /\ req'.n = DryRun
    BY <1>1, <1>5, ChainAssumption DEF SubmitDry, TypeOK, RequestId, DryRun
  <2>2. WalkOK'
    BY <1>1, <1>5, <2>1, SameInstructions
    DEF SubmitDry, Attempted, WalkOK, NonePays, OnlyPays, row
  <2> QED
    BY <1>3, <1>5, <2>2 DEF SubmitDry
<1>6. CASE SubmitLive
  <2>1. NonePays /\ status \in Busy /\ pc' = "await" /\ UNCHANGED row
    BY <1>1, <1>6 DEF SubmitLive, WalkOK
  <2>2. /\ req' \in RequestId /\ req'.n \in DOMAIN instr'[req'.rail]
        /\ \A x : x \in Instructions(CanPay)' <=> x = req'
    BY <1>1, <1>2, <1>6, <2>1, SubmitAdds DEF NonePays, CanPay
  <2>3. /\ \A q \in Rail : DOMAIN instr[q] \subseteq DOMAIN instr'[q]
        /\ \A q \in Rail : \A k \in DOMAIN instr[q] : instr'[q][k] = instr[q][k]
    <3>1. Chain[pos] \in Rail
      BY <1>1, <1>6, ChainAssumption DEF SubmitLive, TypeOK
    <3>2. instr[Chain[pos]] \in Seq(InstructionStatus) /\ DOMAIN instr = Rail
      BY <1>1, <3>1 DEF TypeOK
    <3>3. \A q \in Rail : instr'[q] = IF q = Chain[pos] THEN Append(instr[q], "sent") ELSE instr[q]
      BY <1>6, <3>2 DEF SubmitLive
    <3>4. /\ DOMAIN instr[Chain[pos]] \subseteq DOMAIN Append(instr[Chain[pos]], "sent")
          /\ \A k \in DOMAIN instr[Chain[pos]] :
               Append(instr[Chain[pos]], "sent")[k] = instr[Chain[pos]][k]
      BY <3>2 DEF InstructionStatus
    <3> QED
      BY <3>3, <3>4
  <2>4. WalkOK'
    BY <2>1, <2>2 DEF WalkOK, OnlyPays, row
  <2>5. requestId' = requestId /\ (requestId # NoRequest => requestId.rail \in Rail)
    BY <1>1, <2>1 DEF TypeOK, RequestId, row
  <2>6. RowOK'
    BY <1>1, <2>1, <2>3, <2>5 DEF RowOK, Busy, StageOf, row
  <2>7. OnePayingRail'
    BY <2>2 DEF OnePayingRail
  <2>8. SettledOnOwningRail'
    BY <1>1, <2>1, <2>3, <2>5 DEF SettledOnOwningRail, row
  <2> QED
    BY <2>4, <2>6, <2>7, <2>8 DEF ChainConsistent
<1>7. CASE SubmitFailsEarly
  <2>1. WalkOK'
    BY <1>1, <1>7, SameInstructions DEF SubmitFailsEarly, Attempted, WalkOK, row
  <2> QED
    BY <1>3, <1>7, <2>1 DEF SubmitFailsEarly
<1>8. CASE ReceiveAccepted
  <2>1. WalkOK'
    BY <1>1, <1>8, SameInstructions
    DEF ReceiveAccepted, Attempted, WalkOK, OnlyPays, row
  <2> QED
    BY <1>3, <1>8, <2>1 DEF ReceiveAccepted
<1>9. CASE ReceiveRejected
  <2>1. NonePays
    BY <1>1, <1>9, InstructionsDef
    DEF ReceiveRejected, WalkOK, OnlyPays, NonePays, CanPay
  <2>2. WalkOK'
    BY <1>1, <1>9, <2>1, SameInstructions
    DEF ReceiveRejected, Attempted, WalkOK, NonePays, row
  <2> QED
    BY <1>3, <1>9, <2>2 DEF ReceiveRejected
<1>10. CASE LoseAnswer
  <2>1. WalkOK'
    BY <1>1, <1>10, SameInstructions DEF LoseAnswer, Attempted, WalkOK, row
  <2> QED
    BY <1>3, <1>10, <2>1 DEF LoseAnswer
<1>11. CASE Exhausted
  <2>1. WalkOK'
    BY <1>1, <1>11, SameInstructions DEF Exhausted, WalkOK, row
  <2> QED
    BY <1>3, <1>11, <2>1 DEF Exhausted
<1>12. CASE RecordSubmitted
  <2>1. WalkOK'
    BY <1>12 DEF RecordSubmitted, WalkOK
  <2>2. CASE status = "SUBMITTING"
    <3>1. status' = "SUBMITTED" /\ requestId' = req /\ instr' = instr
      BY <1>12, <2>2 DEF RecordSubmitted
    <3>2. OnlyPays(req) /\ req \in RequestId /\ req.n \in {DryRun} \cup DOMAIN instr[req.rail]
      BY <1>1, <1>12 DEF RecordSubmitted, WalkOK
    <3>3. RowOK'
      BY <3>1, <3>2, SameInstructions DEF RowOK, OnlyPays, StageOf
    <3>4. OnePayingRail' /\ SettledOnOwningRail'
      BY <1>1, <3>1, SameInstructions DEF OnePayingRail, SettledOnOwningRail
    <3> QED
      BY <2>1, <3>3, <3>4 DEF ChainConsistent
  <2>3. CASE status # "SUBMITTING"
    BY <1>3, <1>12, <2>1, <2>3 DEF RecordSubmitted, row
  <2> QED
    BY <2>2, <2>3
<1>13. CASE RecordAmbiguous
  <2>1. WalkOK'
    BY <1>13 DEF RecordAmbiguous, WalkOK
  <2>2. CASE status = "SUBMITTING"
    <3>1. status' = "UNKNOWN" /\ UNCHANGED <<instr, requestId>>
      BY <1>13, <2>2 DEF RecordAmbiguous
    <3>2. RowOK'
      BY <1>1, <3>1 DEF RowOK, StageOf
    <3> QED
      BY <2>1, <3>1, <3>2, SettledStays DEF ChainConsistent
  <2>3. CASE status # "SUBMITTING"
    BY <1>3, <1>13, <2>1, <2>3 DEF RecordAmbiguous, row
  <2> QED
    BY <2>2, <2>3
<1> QED
  BY <1>4, <1>5, <1>6, <1>7, <1>8, <1>9, <1>10, <1>11, <1>12, <1>13 DEF Walk

LEMMA TickConsistent == IInv /\ Tick => ChainConsistent'
<1> SUFFICES ASSUME IInv, Tick PROVE ChainConsistent'
  OBVIOUS
<1>1. TypeOK /\ WalkOK /\ RowOK /\ OnePayingRail /\ SettledOnOwningRail
  BY DEF IInv, ChainConsistent
<1>2. CASE Claim
  <2>1. NonePays
    BY <1>1, <1>2 DEF Claim, RowOK, StageOf
  <2>2. WalkOK'
    BY <1>2, <2>1, SameInstructions DEF Claim, WalkOK, NonePays, Busy
  <2>3. RowOK'
    BY <1>1, <1>2 DEF Claim, RowOK, StageOf
  <2> QED
    BY <1>2, <2>2, <2>3, SettledStays DEF Claim, ChainConsistent
\* A tick that only moves the row, among the statuses a walk may find.
<1>3. ASSUME NEW s \in PAYOUT_STATUSES, MoveTo(s),
             status \in Busy => s \in Busy,
             StageOf(s) = "open" => NonePays,
             s \in {"SUBMITTED", "PROCESSING"} => status \in {"SUBMITTED", "PROCESSING"}
      PROVE  WalkOK' /\ RowOK'
  <2>1. status' = s /\ UNCHANGED <<requestId, instr, walk>>
    BY <1>3 DEF MoveTo
  <2>2. WalkOK'
    BY <1>1, <1>3, <2>1, SameInstructions DEF WalkOK, NonePays, OnlyPays, walk
  <2>3. RowOK'
    BY <1>1, <1>3, <2>1, SameInstructions DEF RowOK, NonePays, OnlyPays
  <2> QED
    BY <2>2, <2>3
<1>4. CASE Interrupt \/ QuarantineNoReference \/ QuarantineEvidenceGap
  <2>1. PICK s \in {"UNKNOWN", "QUARANTINED"} : MoveTo(s)
    BY <1>4 DEF Interrupt, QuarantineNoReference, QuarantineEvidenceGap
  <2>2. WalkOK' /\ RowOK'
    BY <1>3, <2>1 DEF Busy, StageOf, PAYOUT_STATUSES
  <2> QED
    BY <2>1, <2>2, SettledStays DEF MoveTo, ChainConsistent
<1>5. CASE PollPaid
  <2>1. /\ requestId # NoRequest /\ requestId.n \in DOMAIN instr[requestId.rail]
        /\ instr[requestId.rail][requestId.n] = "paid"
    BY <1>1, <1>5 DEF PollPaid, FetchStatus, RowOK
  <2>2. PICK s \in {"COMPLETED", "PROCESSING"} :
          MoveTo(s) /\ (s = "PROCESSING" => status = "SUBMITTED")
    BY <1>5 DEF PollPaid
  <2>3. WalkOK' /\ RowOK'
    BY <1>3, <2>2 DEF Busy, StageOf, PAYOUT_STATUSES
  <2>4. UNCHANGED <<requestId, instr>>
    BY <2>2 DEF MoveTo
  <2>5. OnePayingRail' /\ SettledOnOwningRail'
    BY <1>1, <2>1, <2>4, SameInstructions DEF OnePayingRail, SettledOnOwningRail
  <2> QED
    BY <2>3, <2>5 DEF ChainConsistent
<1>6. CASE PollFailed
  <2>1. /\ requestId # NoRequest /\ FetchStatus \in {"refused", "denied"}
        /\ status \in {"SUBMITTED", "PROCESSING", "UNKNOWN"}
    BY <1>6 DEF PollFailed, Polled
  <2>2. status \in {"SUBMITTED", "PROCESSING"} => NonePays
    BY <1>1, <2>1, InstructionsDef DEF FetchStatus, RowOK, OnlyPays, NonePays, CanPay
  <2>3. PICK s \in {"QUARANTINED", "PROVIDER_REJECTED"} :
          MoveTo(s) /\ (s = "QUARANTINED" <=> status = "UNKNOWN")
    BY <1>6 DEF PollFailed
  <2>4. WalkOK' /\ RowOK'
    BY <1>3, <2>1, <2>2, <2>3 DEF Busy, StageOf, PAYOUT_STATUSES
  <2> QED
    BY <2>3, <2>4, SettledStays DEF MoveTo, ChainConsistent
<1>7. CASE PollPending
  <2>1. MoveTo("PROCESSING") /\ status = "SUBMITTED"
    BY <1>7 DEF PollPending
  <2>2. WalkOK' /\ RowOK'
    BY <1>3, <2>1 DEF Busy, StageOf, PAYOUT_STATUSES
  <2> QED
    BY <2>1, <2>2, SettledStays DEF MoveTo, ChainConsistent
<1>8. CASE Reconcile
  <2>1. MoveTo("RECONCILED") /\ status = "COMPLETED"
    BY <1>8 DEF Reconcile
  <2>2. WalkOK' /\ RowOK'
    BY <1>3, <2>1 DEF Busy, StageOf, PAYOUT_STATUSES
  <2> QED
    BY <2>1, <2>2, SettledStays DEF MoveTo, ChainConsistent
<1>9. CASE Requeue
  <2>1. MoveTo("READY") /\ status = "PROVIDER_REJECTED"
    BY <1>9 DEF Requeue
  <2>2. NonePays
    BY <1>1, <2>1 DEF RowOK, StageOf
  <2>3. WalkOK' /\ RowOK'
    BY <1>3, <2>1, <2>2 DEF Busy, StageOf, PAYOUT_STATUSES
  <2> QED
    BY <2>1, <2>3, SettledStays DEF MoveTo, ChainConsistent
<1> QED
  BY <1>2, <1>4, <1>5, <1>6, <1>7, <1>8, <1>9 DEF Tick

\* A rail answers or decides: nothing new can pay, and what was paid stays so.
LEMMA RailConsistent ==
  ASSUME IInv, TypeOK', NEW r \in Rail, NEW i \in DOMAIN instr[r],
         NEW a \in InstructionStatus, instr[r][i] \in {"sent", "pending"},
         instr' = [instr EXCEPT ![r][i] = a],
         UNCHANGED <<row, walk>>
  PROVE  ChainConsistent'
<1>1. TypeOK /\ WalkOK /\ RowOK /\ OnePayingRail /\ SettledOnOwningRail
  BY DEF IInv, ChainConsistent
<1>2. Instructions(CanPay)' \subseteq Instructions(CanPay)
  <2>1. [rail |-> r, n |-> i] \in Instructions(CanPay)
    <3>1. i \in Nat
      BY <1>1 DEF TypeOK
    <3> QED
      BY <1>1, <3>1, InstructionsDef DEF RequestId, CanPay
  <2> QED
    BY <1>1, <2>1, RailMoves
<1>3. /\ \A q \in Rail : DOMAIN instr'[q] = DOMAIN instr[q]
      /\ \A q \in Rail : \A k \in DOMAIN instr[q] :
           instr[q][k] = "paid" => instr'[q][k] = "paid"
  <2>1. instr[r] \in Seq(InstructionStatus) /\ DOMAIN instr = Rail
    BY <1>1 DEF TypeOK
  <2>2. \A q \in Rail : instr'[q] = IF q = r THEN [instr[r] EXCEPT ![i] = a] ELSE instr[q]
    BY <2>1
  <2> QED
    BY <2>1, <2>2
<1>4. /\ requestId # NoRequest => requestId.rail \in Rail
      /\ req \in RequestId => req.rail \in Rail
  BY <1>1 DEF TypeOK, RequestId
<1>5. UNCHANGED <<status, requestId, pc, req>>
  BY DEF row, walk
<1>6. WalkOK'
  BY <1>1, <1>2, <1>3, <1>4, <1>5 DEF WalkOK, NonePays, OnlyPays
<1>7. RowOK'
  BY <1>1, <1>2, <1>3, <1>4, <1>5 DEF RowOK, NonePays, OnlyPays
<1>8. OnePayingRail'
  BY <1>1, <1>2 DEF OnePayingRail
<1>9. SettledOnOwningRail'
  BY <1>1, <1>3, <1>4, <1>5 DEF SettledOnOwningRail
<1> QED
  BY <1>6, <1>7, <1>8, <1>9 DEF ChainConsistent

LEMMA SurroundingsConsistent ==
  ASSUME IInv, Crash \/ \E r \in Rail : Rewire(r) \/ RailReceives(r) \/ RailDecides(r)
  PROVE  ChainConsistent'
<1>1. TypeOK /\ TypeOK' /\ WalkOK /\ RowOK
  BY SurroundingsType DEF IInv, ChainConsistent
<1>2. CASE Crash
  <2>1. WalkOK'
    BY <1>2 DEF Crash, WalkOK
  <2>2. RowOK'
    BY <1>1, <1>2, SameInstructions DEF Crash, RowOK, NonePays, OnlyPays, row
  <2> QED
    BY <1>2, <2>1, <2>2, SettledStays DEF Crash, ChainConsistent, row
<1>3. ASSUME NEW r \in Rail, Rewire(r) PROVE ChainConsistent'
  <2>1. UNCHANGED <<instr, row, walk>>
    BY <1>3 DEF Rewire
  <2>2. WalkOK' /\ RowOK'
    BY <1>1, <2>1, SameInstructions DEF WalkOK, RowOK, NonePays, OnlyPays, row, walk
  <2> QED
    BY <2>1, <2>2, SettledStays DEF ChainConsistent, row
<1>4. ASSUME NEW r \in Rail, RailReceives(r) PROVE ChainConsistent'
  <2>1. PICK i \in DOMAIN instr[r], a \in {"pending", "refused"} :
          instr[r][i] = "sent" /\ instr' = [instr EXCEPT ![r][i] = a]
    BY <1>4 DEF RailReceives
  <2>2. UNCHANGED <<row, walk>> /\ a \in InstructionStatus
    BY <1>4 DEF RailReceives, InstructionStatus
  <2> QED
    BY <1>1, <2>1, <2>2, RailConsistent
<1>5. ASSUME NEW r \in Rail, RailDecides(r) PROVE ChainConsistent'
  <2>1. PICK i \in DOMAIN instr[r], a \in {"paid", "denied"} :
          instr[r][i] = "pending" /\ instr' = [instr EXCEPT ![r][i] = a]
    BY <1>5 DEF RailDecides
  <2>2. UNCHANGED <<row, walk>> /\ a \in InstructionStatus
    BY <1>5 DEF RailDecides, InstructionStatus
  <2> QED
    BY <1>1, <2>1, <2>2, RailConsistent
<1> QED
  BY <1>2, <1>3, <1>4, <1>5

LEMMA NextIInv == IInv /\ [Next]_vars => IInv'
<1> SUFFICES ASSUME IInv, [Next]_vars PROVE IInv'
  OBVIOUS
<1>1. TypeOK'
  BY NextType DEF IInv
<1>2. CASE UNCHANGED vars
  <2>1. UNCHANGED <<row, instr, walk>>
    BY <1>2 DEF vars
  <2>2. WalkOK' /\ RowOK'
    BY <2>1, SameInstructions
    DEF IInv, ChainConsistent, WalkOK, RowOK, NonePays, OnlyPays, row, walk
  <2>3. ChainConsistent'
    BY <2>1, <2>2, SettledStays DEF ChainConsistent, row
  <2> QED
    BY <1>1, <2>3 DEF IInv
<1>3. CASE Next
  <2>1. ChainConsistent'
    BY <1>3, WalkConsistent, TickConsistent, SurroundingsConsistent DEF Next
  <2> QED
    BY <1>1, <2>1 DEF IInv
<1> QED
  BY <1>2, <1>3

\* IInv is inductive: what the walk, the row and the rails agree on is kept.
THEOREM ChainInvariant == Spec => []IInv
<1>1. Init => IInv
  BY InitIInv
<1>2. IInv /\ [Next]_vars => IInv'
  BY NextIInv
<1> QED
  BY <1>1, <1>2, PTL DEF Spec

\* Row, rails, walk and tick keep their types, for any chain of rails.
THEOREM TypeCorrect == Spec => []TypeOK
<1>1. IInv => TypeOK
  BY DEF IInv
<1> QED
  BY <1>1, ChainInvariant, PTL

\* The row, the walk that is going on and the instructions at the rails agree:
\* what the pipeline believes of a payout is what its rails can still do.
THEOREM ChainIsConsistent == Spec => []ChainConsistent
<1>1. IInv => ChainConsistent
  BY DEF IInv
<1> QED
  BY <1>1, ChainInvariant, PTL

\* Over all rails of a chain, two instructions of a payout never can both pay,
\* for any chain, any number of submits and any number of faults.
THEOREM OneRailPays == Spec => []OnePayingRail
<1>1. IInv => OnePayingRail
  BY DEF IInv, ChainConsistent
<1> QED
  BY <1>1, ChainInvariant, PTL

\* A payout counts as completed on a payment of the rail its row names.
THEOREM EvidenceIsOwned == Spec => []SettledOnOwningRail
<1>1. IInv => SettledOnOwningRail
  BY DEF IInv, ChainConsistent
<1> QED
  BY <1>1, ChainInvariant, PTL

\* While a walk is going on the payout cannot be claimed for a second one.
THEOREM WalksAreAlone == Spec => []OneWalk
<1>1. IInv => OneWalk
  BY DEF IInv, ChainConsistent, WalkOK, OneWalk, StageOf, Busy
<1> QED
  BY <1>1, ChainInvariant, PTL

-----------------------------------------------------------------------------
(* No pivot after an unknown outcome *)

\* A walk that may still send something has known outcomes only.
AttemptsKnown ==
  pc \in {"next", "await"} => \A i \in DOMAIN attempts : attempts[i] # "UNKNOWN"

LEMMA KnownAttempt ==
  ASSUME TypeOK, NEW o \in RailOutcome, o # "UNKNOWN", NEW l, Attempted(o, l),
         pc \in {"next", "await"}, AttemptsKnown
  PROVE  AttemptsKnown'
BY DEF TypeOK, Attempted, AttemptsKnown

LEMMA NextAttemptsKnown == TypeOK /\ AttemptsKnown /\ [Next]_vars => AttemptsKnown'
<1> SUFFICES ASSUME TypeOK, AttemptsKnown, [Next]_vars PROVE AttemptsKnown'
  OBVIOUS
<1>1. CASE UNCHANGED walk
  BY <1>1 DEF AttemptsKnown, walk
<1>2. CASE Walk
  <2>1. CASE PassRail
    <3>1. /\ KnownFailure(wiring[Chain[pos]]) \in RailOutcome
          /\ KnownFailure(wiring[Chain[pos]]) # "UNKNOWN"
      BY <2>1 DEF PassRail, KnownFailure, RailOutcome
    <3> QED
      BY <2>1, <3>1, KnownAttempt DEF PassRail
  <2>2. CASE ReceiveRejected
    BY <2>2, KnownAttempt DEF ReceiveRejected, RailOutcome
  <2>3. CASE SubmitLive
    BY <2>3 DEF SubmitLive, AttemptsKnown
  <2>4. CASE pc' \notin {"next", "await"}
    BY <2>4 DEF AttemptsKnown
  <2> QED
    BY <1>2, <2>1, <2>2, <2>3, <2>4
    DEF Walk, SubmitDry, SubmitFailsEarly, ReceiveAccepted, LoseAnswer,
        Exhausted, RecordSubmitted, RecordAmbiguous, Attempted
<1>3. CASE Claim
  BY <1>3 DEF Claim, AttemptsKnown
<1>4. CASE Crash
  BY <1>4 DEF Crash, AttemptsKnown
<1> QED
  BY <1>1, <1>2, <1>3, <1>4
  DEF Next, Tick, Interrupt, QuarantineNoReference, PollPaid, PollFailed, PollPending,
      QuarantineEvidenceGap, Reconcile, Requeue, MoveTo, Rewire, RailReceives,
      RailDecides, vars, walk

\* "NEVER failover on UNKNOWN": after an attempt with an unknown outcome a
\* walk sends nothing any more, on whatever chain.
THEOREM NeverPivots == Spec => NoPivotOnUnknown
<1> DEFINE Pivot == (\E r \in Rail : Len(instr'[r]) > Len(instr[r]))
                      => "UNKNOWN" \notin {attempts[i] : i \in DOMAIN attempts}
<1>1. Init => AttemptsKnown
  BY DEF Init, AttemptsKnown
<1>2. TypeOK /\ AttemptsKnown /\ [Next]_vars => [Pivot]_vars
  <2> SUFFICES ASSUME TypeOK, AttemptsKnown, Next PROVE Pivot
    BY DEF vars
  <2>1. CASE SubmitLive
    BY <2>1 DEF SubmitLive, AttemptsKnown
  <2>2. CASE UNCHANGED instr
    <3>1. \A r \in Rail : Len(instr[r]) \in Nat
      BY DEF TypeOK
    <3> QED
      BY <2>2, <3>1
  <2>3. ASSUME NEW q \in Rail, NEW i \in DOMAIN instr[q], NEW a,
               instr' = [instr EXCEPT ![q][i] = a]
        PROVE  Pivot
    <3>1. \A r \in Rail : instr[r] \in Seq(InstructionStatus)
      BY DEF TypeOK
    <3>2. \A r \in Rail : instr'[r] = IF r = q THEN [instr[q] EXCEPT ![i] = a] ELSE instr[r]
      BY <2>3 DEF TypeOK
    <3>3. Len([instr[q] EXCEPT ![i] = a]) = Len(instr[q])
      BY <3>1
    <3>4. \A r \in Rail : Len(instr'[r]) = Len(instr[r]) /\ Len(instr[r]) \in Nat
      BY <3>1, <3>2, <3>3
    <3> QED
      BY <3>4
  <2>4. ASSUME NEW q \in Rail, RailReceives(q) \/ RailDecides(q) PROVE Pivot
    BY <2>3, <2>4 DEF RailReceives, RailDecides
  <2> QED
    BY <2>1, <2>2, <2>4
    DEF Next, Walk, PassRail, SubmitDry, SubmitFailsEarly, ReceiveAccepted, ReceiveRejected,
        LoseAnswer, Exhausted, RecordSubmitted, RecordAmbiguous, Tick, Claim, Interrupt,
        QuarantineNoReference, PollPaid, PollFailed, PollPending, QuarantineEvidenceGap,
        Reconcile, Requeue, MoveTo, Crash, Rewire
<1>3. TypeOK /\ TypeOK' /\ AttemptsKnown /\ [Next]_vars => AttemptsKnown'
  BY NextAttemptsKnown
<1> QED
  BY <1>1, <1>2, <1>3, InitType, NextType, PTL DEF Spec, NoPivotOnUnknown

-----------------------------------------------------------------------------
(* The chain implements the promise *)

Live == Instructions({"sent", "pending"})
Paid == Instructions({"paid"})

LEMMA OutIsLiveOrPaid == TypeOK => Instructions(CanPay) = Live \cup Paid
BY InstructionsDef DEF Live, Paid, CanPay

\* A step that keeps the stage, the books and the rails is none of the promise's.
LEMMA Stutters ==
  ASSUME UNCHANGED instr, StageOf(status') = StageOf(status),
         status' = "RECONCILED" <=> status = "RECONCILED"
  PROVE  UNCHANGED Promise!vars
<1>1. Instructions({"sent", "pending"})' = Instructions({"sent", "pending"})
  BY DEF Instructions
<1>2. Instructions({"paid"})' = Instructions({"paid"})
  BY DEF Instructions
<1>3. StageOf(status)' = StageOf(status)
  OBVIOUS
<1> QED
  BY <1>1, <1>2, <1>3 DEF Promise!vars

\* A step that only moves the stage.
LEMMA Moves ==
  ASSUME UNCHANGED instr, status # "RECONCILED", status' # "RECONCILED",
         NEW from, StageOf(status) \in from
  PROVE  Promise!Move("payout", from, StageOf(status'))
<1>1. Instructions({"sent", "pending"})' = Instructions({"sent", "pending"})
  BY DEF Instructions
<1>2. Instructions({"paid"})' = Instructions({"paid"})
  BY DEF Instructions
<1>3. StageOf(status)' = StageOf(status')
  OBVIOUS
<1> QED
  BY <1>1, <1>2, <1>3 DEF Promise!Move

LEMMA NothingOut ==
  ASSUME TypeOK, NonePays
  PROVE  Live = {} /\ Paid = {} /\ Promise!Idle("payout")
<1>1. Live = {} /\ Paid = {}
  BY OutIsLiveOrPaid DEF NonePays
<1> QED
  BY <1>1 DEF Promise!Idle, Live, Paid

LEMMA WalkKeepsPromise ==
  ASSUME IInv, TypeOK', Walk
  PROVE  Promise!Next \/ UNCHANGED Promise!vars
<1>1. TypeOK /\ WalkOK /\ RowOK /\ OnePayingRail /\ SettledOnOwningRail
  BY DEF IInv, ChainConsistent
<1>2. CASE SubmitLive
  <2>1. NonePays /\ status \in Busy /\ UNCHANGED status
    BY <1>1, <1>2 DEF SubmitLive, WalkOK, row
  <2>2. Promise!Idle("payout") /\ Live = {} /\ Paid = {}
    BY <1>1, <2>1, NothingOut
  <2>3. status \notin {"COMPLETED", "RECONCILED"}
    <3>1. SUFFICES ASSUME status \in {"COMPLETED", "RECONCILED"} PROVE FALSE
      OBVIOUS
    <3>2. requestId \in Instructions({"paid"})
      BY <1>1, <3>1, InstructionsDef DEF SettledOnOwningRail, TypeOK
    <3> QED
      BY <2>2, <3>2 DEF Paid
  <2>4. /\ Instructions({"sent", "pending"})' = {req'}
        /\ Instructions({"paid"})' = {}
    <3>1. \A x : x \in Instructions({"sent", "pending"})' <=> x = req'
      BY <1>1, <1>2, <2>2, SubmitAdds DEF Live
    <3>2. \A x : x \notin Instructions({"paid"})'
      BY <1>1, <1>2, <2>2, SubmitAdds DEF Paid
    <3> QED
      BY <3>1, <3>2
  <2>5. StageOf(status) \in {"claimed", "closed"} /\ StageOf(status)' = StageOf(status)
    BY <2>1, <2>3 DEF StageOf, Busy
  <2>6. Promise!Send("payout")
    BY <2>1, <2>2, <2>4, <2>5 DEF Promise!Send, Live, Paid
  <2> QED
    BY <2>6 DEF Promise!Next
<1>3. CASE UNCHANGED <<status, instr>>
  BY <1>3, Stutters
<1>4. CASE status = "SUBMITTING" /\ status' \in {"SUBMITTED", "UNKNOWN"} /\ UNCHANGED instr
  BY <1>4, Stutters DEF StageOf
<1> QED
  BY <1>2, <1>3, <1>4
  DEF Walk, PassRail, SubmitDry, SubmitFailsEarly, ReceiveAccepted, ReceiveRejected,
      LoseAnswer, Exhausted, RecordSubmitted, RecordAmbiguous, row

LEMMA TickKeepsPromise ==
  ASSUME IInv, Tick
  PROVE  Promise!Next \/ UNCHANGED Promise!vars
<1>1. TypeOK /\ WalkOK /\ RowOK /\ OnePayingRail /\ SettledOnOwningRail
  BY DEF IInv, ChainConsistent
<1>2. CASE Claim
  <2>1. Promise!Idle("payout")
    BY <1>1, <1>2, NothingOut DEF Claim, RowOK, StageOf
  <2>2. Promise!Move("payout", {"open"}, "claimed")
    BY <1>2, Moves DEF Claim, StageOf
  <2> QED
    BY <2>1, <2>2 DEF Promise!Claim, Promise!Next
<1>3. CASE Interrupt \/ PollPending \/ Requeue
  BY <1>3, Stutters DEF Interrupt, PollPending, Requeue, MoveTo, StageOf
<1>4. CASE QuarantineNoReference \/ QuarantineEvidenceGap
  <2>1. Promise!Move("payout", {"claimed"}, "closed")
    BY <1>4, Moves DEF QuarantineNoReference, QuarantineEvidenceGap, MoveTo, StageOf
  <2> QED
    BY <2>1 DEF Promise!Close, Promise!Next
<1>5. CASE PollPaid
  <2>1. requestId \in Instructions({"paid"})
    BY <1>1, <1>5, InstructionsDef DEF PollPaid, FetchStatus, RowOK, TypeOK
  <2>2. CASE MoveTo("COMPLETED")
    <3>1. Promise!Move("payout", {"claimed"}, "settled")
      BY <1>5, <2>2, Moves DEF PollPaid, Polled, MoveTo, StageOf
    <3> QED
      BY <2>1, <3>1 DEF Promise!Settle, Promise!Next
  <2>3. CASE status = "SUBMITTED" /\ MoveTo("PROCESSING")
    BY <2>3, Stutters DEF MoveTo, StageOf
  <2> QED
    BY <1>5, <2>2, <2>3 DEF PollPaid
<1>6. CASE PollFailed
  <2>1. CASE status = "UNKNOWN"
    <3>1. Promise!Move("payout", {"claimed"}, "closed")
      BY <1>6, <2>1, Moves DEF PollFailed, MoveTo, StageOf
    <3> QED
      BY <3>1 DEF Promise!Close, Promise!Next
  <2>2. CASE status # "UNKNOWN"
    <3>1. status \in {"SUBMITTED", "PROCESSING"} /\ status' = "PROVIDER_REJECTED" /\ UNCHANGED instr
      BY <1>6, <2>2 DEF PollFailed, Polled, MoveTo
    <3>2. NonePays
      BY <1>1, <1>6, <3>1, InstructionsDef
      DEF PollFailed, FetchStatus, RowOK, OnlyPays, NonePays, CanPay
    <3>3. Promise!Idle("payout")
      BY <1>1, <3>2, NothingOut
    <3>4. Promise!Move("payout", {"claimed"}, "open")
      BY <3>1, Moves DEF StageOf
    <3> QED
      BY <3>3, <3>4 DEF Promise!Reopen, Promise!Next
  <2> QED
    BY <2>1, <2>2
<1>7. CASE Reconcile
  <2>1. status = "COMPLETED" /\ status' = "RECONCILED" /\ UNCHANGED instr
    BY <1>7 DEF Reconcile, MoveTo
  <2>2. /\ Instructions({"sent", "pending"})' = Instructions({"sent", "pending"})
        /\ Instructions({"paid"})' = Instructions({"paid"})
    BY <2>1 DEF Instructions
  <2>3. StageOf(status)' = StageOf(status) /\ StageOf(status) = "settled"
    BY <2>1 DEF StageOf
  <2>4. Promise!Book("payout")
    BY <2>1, <2>2, <2>3 DEF Promise!Book
  <2> QED
    BY <2>4 DEF Promise!Next
<1> QED
  BY <1>2, <1>3, <1>4, <1>5, <1>6, <1>7 DEF Tick

LEMMA SurroundingsKeepPromise ==
  ASSUME IInv, TypeOK',
         Crash \/ \E r \in Rail : Rewire(r) \/ RailReceives(r) \/ RailDecides(r)
  PROVE  Promise!Next \/ UNCHANGED Promise!vars
<1>1. TypeOK /\ OnePayingRail
  BY DEF IInv, ChainConsistent
<1>2. CASE Crash \/ \E r \in Rail : Rewire(r)
  BY <1>2, Stutters DEF Crash, Rewire, row
\* Only one instruction is out, and it is the one the rail moves.
<1>3. ASSUME NEW r \in Rail, NEW i \in DOMAIN instr[r],
             NEW a \in InstructionStatus, a # "sent", instr[r][i] \in {"sent", "pending"},
             instr' = [instr EXCEPT ![r][i] = a], UNCHANGED row
      PROVE  Promise!Next \/ UNCHANGED Promise!vars
  <2> DEFINE x == [rail |-> r, n |-> i]
  <2>1. x \in Live /\ x \notin Paid
    <3>1. i \in Nat
      BY <1>1 DEF TypeOK
    <3> QED
      BY <1>1, <1>3, <3>1, InstructionsDef DEF RequestId, Live, Paid
  <2> HIDE DEF x
  <2>2. Live = {x} /\ Paid = {}
    BY <1>1, <2>1, OutIsLiveOrPaid DEF OnePayingRail
  <2>3. /\ Instructions({"sent", "pending"})' = IF a = "pending" THEN {x} ELSE {}
        /\ Instructions({"paid"})' = IF a = "paid" THEN {x} ELSE {}
    <3>1. \A y : y \in Instructions({"sent", "pending"})' <=>
                   IF y = x THEN a \in {"sent", "pending"} ELSE y \in Live
      BY <1>1, <1>3, RailMoves DEF x, Live
    <3>2. \A y : y \in Instructions({"paid"})' <=> IF y = x THEN a \in {"paid"} ELSE y \in Paid
      BY <1>1, <1>3, RailMoves DEF x, Paid
    <3> QED
      BY <1>3, <2>2, <3>1, <3>2
  <2>4. StageOf(status)' = StageOf(status) /\ UNCHANGED status
    BY <1>3 DEF row
  <2>5. CASE a = "pending"
    BY <2>2, <2>3, <2>4, <2>5 DEF Promise!vars, Live, Paid
  <2>6. CASE a = "paid"
    <3>1. Promise!Pay("payout")
      BY <2>2, <2>3, <2>4, <2>6 DEF Promise!Pay, Live, Paid
    <3> QED
      BY <3>1 DEF Promise!Next
  <2>7. CASE a \notin {"pending", "paid"}
    <3>1. Promise!Refuse("payout")
      BY <2>2, <2>3, <2>4, <2>7 DEF Promise!Refuse, Live, Paid
    <3> QED
      BY <3>1 DEF Promise!Next
  <2> QED
    BY <2>5, <2>6, <2>7
<1>4. ASSUME NEW r \in Rail, RailReceives(r) PROVE Promise!Next \/ UNCHANGED Promise!vars
  <2>1. PICK i \in DOMAIN instr[r], a \in {"pending", "refused"} :
          instr[r][i] = "sent" /\ instr' = [instr EXCEPT ![r][i] = a]
    BY <1>4 DEF RailReceives
  <2>2. UNCHANGED row /\ a \in InstructionStatus /\ a # "sent"
    BY <1>4 DEF RailReceives, InstructionStatus
  <2> QED
    BY <1>3, <2>1, <2>2
<1>5. ASSUME NEW r \in Rail, RailDecides(r) PROVE Promise!Next \/ UNCHANGED Promise!vars
  <2>1. PICK i \in DOMAIN instr[r], a \in {"paid", "denied"} :
          instr[r][i] = "pending" /\ instr' = [instr EXCEPT ![r][i] = a]
    BY <1>5 DEF RailDecides
  <2>2. UNCHANGED row /\ a \in InstructionStatus /\ a # "sent"
    BY <1>5 DEF RailDecides, InstructionStatus
  <2> QED
    BY <1>3, <2>1, <2>2
<1> QED
  BY <1>2, <1>4, <1>5

\* The walk over the chain moves money the way PayoutPromise says, step by
\* step: every step of it is one step of the promise or none.
THEOREM ChainKeepsPromise == Spec => KeepsPromise
<1>1. Init => Promise!Init
  <2> SUFFICES ASSUME Init PROVE Promise!Init
    OBVIOUS
  <2>1. NonePays
    BY InitIInv DEF Init, IInv, ChainConsistent, RowOK, StageOf
  <2>2. Live = {} /\ Paid = {}
    BY <2>1, InitType, NothingOut
  <2> QED
    BY <2>2 DEF Init, Promise!Init, Live, Paid, StageOf
<1>2. IInv /\ IInv' /\ [Next]_vars => [Promise!Next]_(Promise!vars)
  <2> SUFFICES ASSUME IInv, IInv', [Next]_vars PROVE [Promise!Next]_(Promise!vars)
    OBVIOUS
  <2>1. CASE UNCHANGED vars
    BY <2>1, Stutters DEF vars, row
  <2>2. CASE Next
    BY <2>2, WalkKeepsPromise, TickKeepsPromise, SurroundingsKeepPromise DEF Next, IInv
  <2> QED
    BY <2>1, <2>2
<1> QED
  BY <1>1, <1>2, ChainInvariant, PTL DEF Spec, KeepsPromise, Promise!Spec
=============================================================================
