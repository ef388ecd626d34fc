----------------------------- MODULE TreasuryProofs ---------------------------
(* Proofs about Treasury, for every set of callers, every amount and every     *)
(* bound.  Three inductive invariants: Backing relates each call's place in    *)
(* releaseOwnerFunds to the payments initiated, booked and dropped, Serial     *)
(* says what one call at a time may rely on, and Books what the account and    *)
(* the bucket say of the payments.                                             *)
EXTENDS Treasury, TLAPS

InitiatedIsPending(c) ==
    call[c].pc = "initiated" =>
        /\ call[c].pay \in DOMAIN bank \ (booked \cup dropped)
        /\ bank[call[c].pay] = call[c].amount
WrittenIsBooked(c) ==
    call[c].pc \in {"booked", "roomy", "closing"} => call[c].pay \in booked
BusyHasAmount(c) == call[c].pc # "idle" => call[c].amount \in Nat \ {0}
InitiatedDiffer(c, d) ==
    c # d /\ call[c].pc = "initiated" /\ call[d].pc = "initiated"
      => call[c].pay # call[d].pay
InHand(p) == \E c \in Caller : call[c].pc = "initiated" /\ call[c].pay = p

Calls ==
    /\ \A c \in Caller : InitiatedIsPending(c) /\ WrittenIsBooked(c) /\ BusyHasAmount(c)
    /\ \A c, d \in Caller : InitiatedDiffer(c, d)
Traced ==
    /\ settled \subseteq booked
    /\ booked \cap dropped = {}
    /\ \A p \in DOMAIN bank : p \in booked \cup dropped \/ InHand(p)

Backing == TypeOK /\ Calls /\ Traced

Serial ==
    ~overlap =>
        /\ account.held >= 0
        /\ bucket <= Allocated
        /\ \A c, d \in Caller : call[c].pc # "idle" /\ call[d].pc # "idle" => c = d
        /\ \A c \in Caller :
             /\ call[c].pc \in {"cleared", "initiated"} => call[c].amount <= account.held
             /\ call[c].pc = "roomy" => bucket + call[c].amount <= Allocated

AccountType == [received : Nat, held : Int, spendable : Nat, sent : Nat, active : BOOLEAN]
CallType == [pc : {"idle"} \cup InFlight, amount : Nat, pay : Nat]
PaymentType == Nat \ {0}

LEMMA BackingInit == Init => Backing
<1> SUFFICES ASSUME Init PROVE Backing
  OBVIOUS
<1>1. Idle \in CallType /\ Idle.pc = "idle"
  BY DEF Idle, CallType, InFlight
<1>2. /\ account \in AccountType /\ bank \in Seq(PaymentType) /\ DOMAIN bank = {}
      /\ outcome \in Seq(Outcome) /\ Len(outcome) = Len(bank)
  BY DEF Init, AccountType, PaymentType
<1>3. TypeOK
  <2>1. /\ bucket \in Nat /\ booked = {} /\ settled = {} /\ dropped = {}
        /\ foreign \in BOOLEAN /\ overlap \in BOOLEAN
    BY DEF Init
  <2>2. call \in [Caller -> CallType] /\ seeder \in [Seeder -> Nat]
    BY <1>1 DEF Init
  <2> QED
    BY <1>2, <2>1, <2>2 DEF TypeOK, AccountType, CallType, PaymentType
<1> QED
  BY <1>1, <1>2, <1>3
  DEF Init, Backing, Calls, Traced, InitiatedIsPending, WrittenIsBooked, BusyHasAmount,
      InitiatedDiffer

LEMMA SerialInit == Init => Serial
  BY TreasuryAssumption DEF Init, Serial, Idle

(* What TypeOK says, under the names used here. *)
LEMMA TypeShape ==
  TypeOK <=> /\ account \in AccountType
             /\ bucket \in Nat
             /\ bank \in Seq(PaymentType)
             /\ outcome \in Seq(Outcome) /\ Len(outcome) = Len(bank)
             /\ booked \subseteq DOMAIN bank
             /\ settled \subseteq DOMAIN bank
             /\ dropped \subseteq DOMAIN bank
             /\ foreign \in BOOLEAN
             /\ call \in [Caller -> CallType]
             /\ seeder \in [Seeder -> Nat]
             /\ overlap \in BOOLEAN
  BY DEF TypeOK, AccountType, PaymentType, CallType

(* The writes of the account row keep its shape. *)
LEMMA AccountWrites ==
  ASSUME account \in AccountType, NEW n \in Nat
  PROVE  /\ \A b \in BOOLEAN : [account EXCEPT !.active = b] \in AccountType
         /\ [account EXCEPT !.received = n] \in AccountType
         /\ [account EXCEPT !.sent = n] \in AccountType
         /\ [account EXCEPT !.sent = @ + n] \in AccountType
         /\ [account EXCEPT !.held = @ + n] \in AccountType
  BY DEF AccountType

LEMMA BookedAccount ==
  ASSUME account \in AccountType, NEW n \in Nat
  PROVE  [account EXCEPT !.held = @ - n, !.spendable = @ + n, !.sent = @ + n]
           \in AccountType
<1>1. /\ account.held - n \in Int
      /\ account.spendable + n \in Nat
      /\ account.sent + n \in Nat
  BY DEF AccountType
<1> QED
  BY <1>1, Zenon DEF AccountType

(* A payment more at the bank: the list and its outcomes grow by one place.   *)
LEMMA InitiateShape ==
  ASSUME TypeOK, NEW c \in Caller, Initiate(c), call[c].amount \in PaymentType
  PROVE  /\ bank' \in Seq(PaymentType)
         /\ outcome' \in Seq(Outcome) /\ Len(outcome') = Len(bank')
         /\ Len(bank) + 1 \in Nat /\ Len(bank) + 1 \notin DOMAIN bank
         /\ DOMAIN bank' = DOMAIN bank \cup {Len(bank) + 1}
         /\ bank'[Len(bank) + 1] = call[c].amount
         /\ \A p \in DOMAIN bank : bank'[p] = bank[p]
<1> PICK n : n = call[c].amount
  OBVIOUS
<1>1. bank \in Seq(PaymentType) /\ outcome \in Seq(Outcome) /\ Len(outcome) = Len(bank)
  BY TypeShape
<1>2. bank' = Append(bank, n) /\ n \in PaymentType
  BY DEF Initiate
<1>3. PICK o \in Outcome : outcome' = Append(outcome, o)
  BY DEF Initiate
<1>4. /\ bank' \in Seq(PaymentType) /\ Len(bank') = Len(bank) + 1
      /\ bank'[Len(bank) + 1] = n
      /\ \A p \in DOMAIN bank : bank'[p] = bank[p]
  BY <1>1, <1>2
<1>5. outcome' \in Seq(Outcome) /\ Len(outcome') = Len(outcome) + 1
  BY <1>1, <1>3
<1>6. /\ DOMAIN bank = 1..Len(bank) /\ DOMAIN bank' = 1..(Len(bank) + 1)
      /\ Len(bank) \in Nat
  BY <1>1, <1>4
<1> QED
  BY <1>1, <1>4, <1>5, <1>6

(* Steps that touch no call, no payment and none of their history.            *)
LEMMA BackingFrame ==
  ASSUME Backing, TypeOK',
         UNCHANGED <<bank, booked, settled, dropped, call>>
  PROVE  Backing'
  BY DEF Backing, Calls, Traced, InitiatedIsPending, WrittenIsBooked, BusyHasAmount,
         InitiatedDiffer, InHand

(* Steps of one call: what the others hold stays theirs, what this one leaves *)
(* is booked or dropped.                                                      *)
LEMMA BackingMove ==
  ASSUME Backing, TypeOK', NEW c \in Caller,
         \A d \in Caller \ {c} : call'[d] = call[d],
         DOMAIN bank \subseteq DOMAIN bank',
         \A p \in DOMAIN bank : bank'[p] = bank[p],
         booked \subseteq booked',
         InitiatedIsPending(c)', WrittenIsBooked(c)', BusyHasAmount(c)',
         \A d \in Caller \ {c} : call[d].pc = "initiated" =>
            /\ call[d].pay \notin booked' \cup dropped'
            /\ call'[c].pc = "initiated" => call'[c].pay # call[d].pay,
         settled' \subseteq booked', booked' \cap dropped' = {},
         \A p \in DOMAIN bank' :
            \/ p \in booked' \cup dropped'
            \/ call'[c].pc = "initiated" /\ call'[c].pay = p
            \/ \E d \in Caller \ {c} : call[d].pc = "initiated" /\ call[d].pay = p
  PROVE  Backing'
<1>1. ASSUME NEW d \in Caller
      PROVE  InitiatedIsPending(d)' /\ WrittenIsBooked(d)' /\ BusyHasAmount(d)'
  <2>1. CASE d = c
    BY <2>1
  <2>2. CASE d # c
    <3>1. call'[d] = call[d]
      BY <2>2
    <3>2. InitiatedIsPending(d)'
      <4>1. SUFFICES ASSUME call[d].pc = "initiated"
                     PROVE  /\ call[d].pay \in DOMAIN bank' \ (booked' \cup dropped')
                            /\ bank'[call[d].pay] = call[d].amount
        BY <3>1 DEF InitiatedIsPending
      <4>2. call[d].pay \in DOMAIN bank /\ bank[call[d].pay] = call[d].amount
        BY <4>1 DEF Backing, Calls, InitiatedIsPending
      <4>3. call[d].pay \notin booked' \cup dropped'
        BY <2>2, <4>1
      <4> QED
        BY <4>2, <4>3
    <3>3. WrittenIsBooked(d)' /\ BusyHasAmount(d)'
      BY <3>1 DEF Backing, Calls, WrittenIsBooked, BusyHasAmount
    <3> QED
      BY <3>2, <3>3
  <2> QED
    BY <2>1, <2>2
<1>2. \A d, e \in Caller : InitiatedDiffer(d, e)'
  BY DEF Backing, Calls, InitiatedDiffer
<1>3. \A p \in DOMAIN bank' : p \in booked' \cup dropped' \/ InHand(p)'
  BY DEF InHand
<1> QED
  BY <1>1, <1>2, <1>3 DEF Backing, Calls, Traced

(* What Backing says of the other calls and of the payments. *)
LEMMA OthersHold ==
  ASSUME Backing, NEW c \in Caller
  PROVE  /\ \A d \in Caller \ {c} : call[d].pc = "initiated" =>
               /\ call[d].pay \in DOMAIN bank
               /\ call[d].pay \notin booked \cup dropped
               /\ call[c].pc = "initiated" => call[c].pay # call[d].pay
         /\ \A p \in DOMAIN bank :
               \/ p \in booked \cup dropped
               \/ call[c].pc = "initiated" /\ call[c].pay = p
               \/ \E d \in Caller \ {c} : call[d].pc = "initiated" /\ call[d].pay = p
         /\ booked \subseteq DOMAIN bank /\ dropped \subseteq DOMAIN bank
         /\ settled \subseteq booked /\ booked \cap dropped = {}
  BY DEF Backing, Calls, Traced, InitiatedIsPending, InitiatedDiffer, InHand, TypeOK

(* Starting a call, for an operator or for the harness. *)
LEMMA BeginBacking ==
  ASSUME Backing, NEW c \in Caller, NEW amount \in Nat \ {0}, Begin(c, amount)
  PROVE  Backing'
<1>1. call \in [Caller -> CallType]
  BY TypeShape DEF Backing
<1>2. /\ call' \in [Caller -> CallType]
      /\ call'[c].pc = "cleared" /\ call'[c].amount = amount
      /\ \A d \in Caller \ {c} : call'[d] = call[d]
  BY <1>1 DEF Begin, CallType, InFlight
<1>3. /\ account' = account /\ bank' = bank /\ outcome' = outcome /\ bucket' = bucket
      /\ booked' = booked /\ settled' = settled /\ dropped' = dropped
      /\ foreign' = foreign /\ seeder' = seeder /\ overlap' \in BOOLEAN
      /\ call[c].pc = "idle"
  BY DEF Begin, bankSide, books, Backing, TypeOK
<1>4. TypeOK'
  BY <1>2, <1>3, TypeShape DEF Backing, TypeOK, CallType
<1>5. InitiatedIsPending(c)' /\ WrittenIsBooked(c)' /\ BusyHasAmount(c)'
  BY <1>2 DEF InitiatedIsPending, WrittenIsBooked, BusyHasAmount
<1> QED
  BY <1>2, <1>3, <1>4, <1>5, OthersHold, BackingMove

LEMMA BeginSerial ==
  ASSUME Backing, Serial, NEW c \in Caller, NEW amount \in Nat \ {0}, Begin(c, amount)
  PROVE  Serial'
  BY DEF Backing, Serial, Begin, Releasable, TypeOK, InFlight, bankSide, books

(* A call ends with nothing in its hands: its id, if any, is booked or dropped. *)
LEMMA ReturnBacking ==
  ASSUME Backing, NEW c \in Caller, Return(c),
         UNCHANGED <<account, bucket, booked, foreign, seeder, overlap>>,
         settled' = settled
           \/ (call[c].pc = "closing" /\ settled' = settled \cup {call[c].pay}),
         \/ Unanswered(c) /\ call[c].pc = "cleared"
         \/ /\ UNCHANGED bankSide
            /\ call[c].pc = "initiated" /\ dropped' = dropped \cup {call[c].pay}
         \/ UNCHANGED <<bankSide, dropped>> /\ call[c].pc # "initiated"
  PROVE  Backing'
<1>1. TypeOK /\ call \in [Caller -> CallType] /\ Idle \in CallType /\ Idle.pc = "idle"
  BY TypeShape DEF Backing, Idle, CallType
<1>2. /\ call' \in [Caller -> CallType]
      /\ call'[c].pc = "idle"
      /\ \A d \in Caller \ {c} : call'[d] = call[d]
  BY <1>1 DEF Return
<1>3. settled' \subseteq booked /\ settled \subseteq booked
  BY DEF Backing, Traced, Calls, WrittenIsBooked
<1>4. InitiatedIsPending(c)' /\ WrittenIsBooked(c)' /\ BusyHasAmount(c)'
  BY <1>2 DEF InitiatedIsPending, WrittenIsBooked, BusyHasAmount
<1>5. ASSUME UNCHANGED <<bankSide, dropped>>, call[c].pc # "initiated" PROVE Backing'
  <2>1. bank' = bank /\ outcome' = outcome /\ dropped' = dropped
    BY <1>5 DEF bankSide
  <2>2. TypeOK'
    BY <1>1, <1>2, <1>3, <2>1, TypeShape DEF TypeOK, CallType
  <2> QED
    BY <1>2, <1>3, <1>4, <1>5, <2>1, <2>2, OthersHold, BackingMove
<1>6. ASSUME UNCHANGED bankSide, call[c].pc = "initiated",
             dropped' = dropped \cup {call[c].pay}
      PROVE  Backing'
  <2>1. bank' = bank /\ outcome' = outcome
    BY <1>6 DEF bankSide
  <2>2. call[c].pay \in DOMAIN bank /\ call[c].pay \notin booked
    BY <1>6 DEF Backing, Calls, InitiatedIsPending
  <2>3. TypeOK'
    BY <1>1, <1>2, <1>3, <1>6, <2>1, <2>2, TypeShape DEF TypeOK, CallType
  <2> QED
    BY <1>2, <1>3, <1>4, <1>6, <2>1, <2>2, <2>3, OthersHold, BackingMove
<1>7. ASSUME Initiate(c), dropped' = dropped \cup {Len(bank) + 1}, call[c].pc = "cleared"
      PROVE  Backing'
  <2>1. call[c].amount \in PaymentType
    BY <1>7 DEF Backing, Calls, BusyHasAmount, PaymentType
  <2> PICK id : id = Len(bank) + 1
    OBVIOUS
  <2>2. /\ bank' \in Seq(PaymentType)
        /\ outcome' \in Seq(Outcome) /\ Len(outcome') = Len(bank')
        /\ id \notin DOMAIN bank
        /\ DOMAIN bank' = DOMAIN bank \cup {id}
        /\ \A p \in DOMAIN bank : bank'[p] = bank[p]
    BY <1>1, <1>7, <2>1, InitiateShape
  <2>3. dropped' = dropped \cup {id}
    BY <1>7
  <2>4. TypeOK'
    BY <1>1, <1>2, <1>3, <2>2, <2>3, TypeShape DEF TypeOK, CallType, PaymentType
  <2> QED
    BY <1>2, <1>3, <1>4, <1>7, <2>2, <2>3, <2>4, OthersHold, BackingMove
<1> QED
  BY <1>5, <1>6, <1>7 DEF Unanswered

(* Every step keeps Backing. *)
LEMMA BackingStep == Backing /\ [Next]_vars => Backing'
<1> SUFFICES ASSUME Backing, [Next]_vars PROVE Backing'
  OBVIOUS
<1>0. /\ TypeOK
      /\ account \in AccountType
      /\ call \in [Caller -> CallType]
      /\ bank \in Seq(PaymentType)
      /\ outcome \in Seq(Outcome) /\ Len(outcome) = Len(bank)
      /\ seeder \in [Seeder -> Nat]
      /\ bucket \in Nat
  BY TypeShape DEF Backing
<1>1. CASE UNCHANGED vars
  <2>1. TypeOK'
    BY <1>0, <1>1 DEF vars, TypeOK
  <2> QED
    BY <1>1, <2>1, BackingFrame DEF vars
<1>2. CASE AccountStep
  <2> DEFINE untouched == <<bank, outcome, bucket, booked, settled, dropped, call, seeder, overlap>>
             Kept == account' \in AccountType /\ foreign' \in BOOLEAN /\ untouched' = untouched
  <2>1. Kept
    <3>1. foreign \in BOOLEAN
      BY <1>0 DEF TypeOK
    <3>2. ASSUME NEW n \in Outside \cup 1..MaxReceived, PatchReceived(n) PROVE Kept
      <4>1. n \in Nat
        BY TreasuryAssumption
      <4> QED
        BY <1>0, <3>1, <3>2, <4>1, AccountWrites
        DEF PatchReceived, bankSide, books, callers
    <3>3. ASSUME NEW n \in Outside, PatchSent(n) \/ SplitSent(n) PROVE Kept
      <4>1. n \in Nat
        BY TreasuryAssumption
      <4> QED
        BY <1>0, <3>1, <3>3, <4>1, AccountWrites
        DEF PatchSent, SplitSent, bankSide, callers
    <3>4. ASSUME NEW b \in BOOLEAN, PatchActive(b) PROVE Kept
      <4>1. account' \in AccountType
        BY <1>0, <3>4, AccountWrites, 0 \in Nat DEF PatchActive
      <4> QED
        BY <3>1, <3>4, <4>1 DEF PatchActive, bankSide, books, callers
    <3> QED
      BY <1>2, <3>2, <3>3, <3>4 DEF AccountStep
  <2>2. TypeOK'
    BY <1>0, <2>1 DEF TypeOK, AccountType
  <2> QED
    BY <2>1, <2>2, BackingFrame
<1>3. ASSUME NEW s \in Seeder, ReconcileRead(s) PROVE Backing'
  <2>1. account.received - account.held \in Nat
    BY <1>0, <1>3 DEF ReconcileRead, AccountType
  <2>2. seeder' \in [Seeder -> Nat]
    BY <1>0, <1>3, <2>1 DEF ReconcileRead
  <2>3. UNCHANGED <<account, bank, outcome, bucket, booked, settled, dropped, foreign,
                    call, overlap>>
    BY <1>3 DEF ReconcileRead, bankSide, books
  <2>4. TypeOK'
    BY <1>0, <2>2, <2>3 DEF TypeOK
  <2> QED
    BY <2>3, <2>4, BackingFrame
<1>4. ASSUME NEW s \in Seeder, ReconcileSeed(s) PROVE Backing'
  <2>1. account' \in AccountType /\ seeder' \in [Seeder -> Nat]
    BY <1>0, <1>4, AccountWrites DEF ReconcileSeed
  <2>2. UNCHANGED <<bank, outcome, bucket, booked, settled, dropped, foreign, call, overlap>>
    BY <1>4 DEF ReconcileSeed, bankSide, books
  <2>3. TypeOK'
    BY <1>0, <2>1, <2>2 DEF TypeOK, AccountType
  <2> QED
    BY <2>2, <2>3, BackingFrame
<1>5. ASSUME NEW p \in DOMAIN bank, BankDecides(p) PROVE Backing'
  <2>1. outcome' \in Seq(Outcome) /\ Len(outcome') = Len(outcome)
    BY <1>0, <1>5 DEF BankDecides
  <2>2. UNCHANGED <<account, bank, bucket, booked, settled, dropped, foreign, call, seeder,
                    overlap>>
    BY <1>5 DEF BankDecides, books, callers
  <2>3. TypeOK'
    BY <1>0, <2>1, <2>2 DEF TypeOK
  <2> QED
    BY <2>2, <2>3, BackingFrame
<1>6. ASSUME NEW c \in Operator, OperatorRelease(c) PROVE Backing'
  BY <1>6, TreasuryAssumption, BeginBacking DEF OperatorRelease, Caller
<1>7. ASSUME NEW h \in Harness, HarnessRelease(h) PROVE Backing'
  BY <1>7, TreasuryAssumption, BeginBacking DEF HarnessRelease, Caller
<1>8. ASSUME NEW c \in Caller, SendAnswered(c) PROVE Backing'
  <2>1. call[c].amount \in PaymentType /\ Initiate(c) /\ call[c].pc = "cleared"
    BY <1>8 DEF SendAnswered, Backing, Calls, BusyHasAmount, PaymentType
  <2> PICK id : id = Len(bank) + 1
    OBVIOUS
  <2>2. /\ bank' \in Seq(PaymentType)
        /\ outcome' \in Seq(Outcome) /\ Len(outcome') = Len(bank')
        /\ id \in Nat /\ id \notin DOMAIN bank
        /\ DOMAIN bank' = DOMAIN bank \cup {id}
        /\ bank'[id] = call[c].amount
        /\ \A p \in DOMAIN bank : bank'[p] = bank[p]
    BY <1>0, <2>1, InitiateShape
  <2>3. /\ call' \in [Caller -> CallType]
        /\ call'[c].pc = "initiated" /\ call'[c].pay = id /\ call'[c].amount = call[c].amount
        /\ \A d \in Caller \ {c} : call'[d] = call[d]
    <3>1. call' = [call EXCEPT ![c].pc = "initiated", ![c].pay = id]
      BY <1>8 DEF SendAnswered
    <3> QED
      BY <1>0, <2>2, <3>1 DEF CallType, InFlight
  <2>4. UNCHANGED <<account, bucket, booked, settled, dropped, foreign, seeder, overlap>>
    BY <1>8 DEF SendAnswered, books
  <2>5. TypeOK'
    BY <1>0, <2>2, <2>3, <2>4, TypeShape DEF TypeOK, CallType, PaymentType
  <2>6. InitiatedIsPending(c)' /\ WrittenIsBooked(c)' /\ BusyHasAmount(c)'
    BY <2>1, <2>2, <2>3, <2>4, OthersHold
    DEF InitiatedIsPending, WrittenIsBooked, BusyHasAmount, PaymentType
  <2> QED
    BY <2>1, <2>2, <2>3, <2>4, <2>5, <2>6, OthersHold, BackingMove
<1>9. ASSUME NEW c \in Caller, SendFailed(c) PROVE Backing'
  BY <1>9, ReturnBacking DEF SendFailed
<1>10. ASSUME NEW c \in Caller, Book(c) PROVE Backing'
  <2>1. account' \in AccountType
    <3>1. call[c].amount \in Nat
      BY <1>0 DEF CallType
    <3> QED
      BY <1>0, <1>10, <3>1, BookedAccount DEF Book
  <2>2. /\ call' \in [Caller -> CallType]
        /\ call'[c].pc = "booked"
        /\ call'[c].pay = call[c].pay /\ call'[c].amount = call[c].amount
        /\ \A d \in Caller \ {c} : call'[d] = call[d]
    BY <1>0, <1>10 DEF Book, Move, CallType, InFlight
  <2>3. /\ call[c].pc = "initiated" /\ booked' = booked \cup {call[c].pay}
        /\ UNCHANGED <<bank, outcome, bucket, settled, dropped, foreign, seeder, overlap>>
    BY <1>10 DEF Book, bankSide
  <2>4. call[c].pay \in DOMAIN bank \ (booked \cup dropped)
    BY <2>3 DEF Backing, Calls, InitiatedIsPending
  <2>5. TypeOK'
    BY <1>0, <2>1, <2>2, <2>3, <2>4, TypeShape DEF TypeOK, AccountType, CallType
  <2>6. InitiatedIsPending(c)' /\ WrittenIsBooked(c)' /\ BusyHasAmount(c)'
    BY <2>2, <2>3
    DEF Backing, Calls, InitiatedIsPending, WrittenIsBooked, BusyHasAmount
  <2> QED
    BY <2>2, <2>3, <2>4, <2>5, <2>6, OthersHold, BackingMove
<1>11. ASSUME NEW c \in Caller, BucketRead(c) \/ BucketCharge(c) PROVE Backing'
  <2>1. /\ call' \in [Caller -> CallType]
        /\ call'[c].pc \in {"roomy", "closing"} /\ call[c].pc \in {"booked", "roomy"}
        /\ call'[c].pay = call[c].pay /\ call'[c].amount = call[c].amount
        /\ \A d \in Caller \ {c} : call'[d] = call[d]
    BY <1>0, <1>11 DEF BucketRead, BucketCharge, Move, CallType, InFlight
  <2>2. UNCHANGED <<account, bank, outcome, booked, settled, dropped, foreign, seeder, overlap>>
    BY <1>11 DEF BucketRead, BucketCharge, bankSide, books
  <2>3. bucket' \in Nat
    BY <1>0, <1>11 DEF BucketRead, BucketCharge, books, CallType
  <2>4. TypeOK'
    BY <1>0, <2>1, <2>2, <2>3, TypeShape DEF TypeOK, CallType
  <2>5. InitiatedIsPending(c)' /\ WrittenIsBooked(c)' /\ BusyHasAmount(c)'
    BY <2>1, <2>2 DEF Backing, Calls, InitiatedIsPending, WrittenIsBooked, BusyHasAmount
  <2> QED
    BY <2>1, <2>2, <2>4, <2>5, OthersHold, BackingMove
<1>12. ASSUME NEW c \in Caller, Settle(c) PROVE Backing'
  BY <1>12, ReturnBacking DEF Settle
<1>13. ASSUME NEW c \in Caller, Crash(c) PROVE Backing'
  BY <1>13, ReturnBacking DEF Crash
<1> QED
  BY <1>1, <1>2, <1>3, <1>4, <1>5, <1>6, <1>7, <1>8, <1>9, <1>10, <1>11, <1>12, <1>13
  DEF Next, ReleaseStep

(* Every step keeps Serial, given Backing. *)
LEMMA SerialStep == Backing /\ Serial /\ [Next]_vars => Serial'
<1> SUFFICES ASSUME Backing, Serial, [Next]_vars PROVE Serial'
  OBVIOUS
<1> USE DEF Serial, bankSide, books, callers
<1>0. /\ account \in AccountType
      /\ bucket \in Nat
      /\ call \in [Caller -> CallType]
      /\ seeder \in [Seeder -> Nat]
  BY TypeShape DEF Backing
<1>1. CASE UNCHANGED vars
  BY <1>1 DEF vars
<1>2. CASE AccountStep
  <2>1. account'.held = account.held /\ UNCHANGED <<bucket, call, overlap>>
    BY <1>0, <1>2
    DEF AccountStep, PatchReceived, PatchSent, PatchActive, SplitSent, AccountType
  <2> QED
    BY <2>1
<1>3. ASSUME NEW s \in Seeder, ReconcileRead(s) PROVE Serial'
  BY <1>3 DEF ReconcileRead
<1>4. ASSUME NEW s \in Seeder, ReconcileSeed(s) PROVE Serial'
  BY <1>0, <1>4 DEF ReconcileSeed, AccountType, CallType
<1>5. ASSUME NEW p \in DOMAIN bank, BankDecides(p) PROVE Serial'
  BY <1>5 DEF BankDecides
<1>6. ASSUME NEW c \in Operator, OperatorRelease(c) PROVE Serial'
  BY <1>6, TreasuryAssumption, BeginSerial DEF OperatorRelease, Caller
<1>7. ASSUME NEW h \in Harness, HarnessRelease(h) PROVE Serial'
  BY <1>7, TreasuryAssumption, BeginSerial DEF HarnessRelease, Caller
<1>8. ASSUME NEW c \in Caller, SendAnswered(c) PROVE Serial'
  BY <1>0, <1>8 DEF SendAnswered, CallType
<1>9. ASSUME NEW c \in Caller, SendFailed(c) PROVE Serial'
  BY <1>0, <1>9 DEF SendFailed, Return, Idle, CallType
<1>10. ASSUME NEW c \in Caller, Book(c) PROVE Serial'
  BY <1>0, <1>10 DEF Book, Move, AccountType, CallType
<1>11. ASSUME NEW c \in Caller, BucketRead(c) PROVE Serial'
  BY <1>0, <1>11, TreasuryAssumption DEF BucketRead, Move, CallType
<1>12. ASSUME NEW c \in Caller, BucketCharge(c) PROVE Serial'
  BY <1>0, <1>12, TreasuryAssumption DEF BucketCharge, Move, CallType
<1>13. ASSUME NEW c \in Caller, Settle(c) PROVE Serial'
  BY <1>0, <1>13 DEF Settle, Return, Idle, CallType
<1>14. ASSUME NEW c \in Caller, Crash(c) PROVE Serial'
  BY <1>0, <1>14 DEF Crash, Return, Idle, CallType
<1> QED
  BY <1>1, <1>2, <1>3, <1>4, <1>5, <1>6, <1>7, <1>8, <1>9, <1>10, <1>11, <1>12, <1>13, <1>14
  DEF Next, ReleaseStep

(* A step that lowers the held balance is the booking of one pending payment. *)
LEMMA HeldStep ==
  ASSUME Backing, Next, account'.held < account.held
  PROVE  \E p \in DOMAIN bank \ (booked \cup dropped) :
            /\ account'.held = account.held - bank[p]
            /\ booked' = booked \cup {p}
<1>0. account \in AccountType /\ seeder \in [Seeder -> Nat] /\ account.held \in Int
  BY TypeShape DEF Backing, AccountType
<1>1. \E c \in Caller : Book(c)
  <2>1. ASSUME AccountStep PROVE account'.held = account.held
    BY <1>0, <2>1
    DEF AccountStep, PatchReceived, PatchSent, PatchActive, SplitSent, AccountType
  <2>2. ASSUME NEW s \in Seeder, ReconcileSeed(s) PROVE ~(account'.held < account.held)
    BY <1>0, <2>2 DEF ReconcileSeed, AccountType
  <2>3. ASSUME ~AccountStep, ~(\E s \in Seeder : ReconcileSeed(s)), ~(\E c \in Caller : Book(c))
        PROVE  account' = account
    BY <2>3
    DEF Next, ReleaseStep, ReconcileRead, BankDecides, OperatorRelease, HarnessRelease, Begin,
        SendAnswered, SendFailed, BucketRead, BucketCharge, Settle, Crash
  <2> QED
    BY <1>0, <2>1, <2>2, <2>3
<1>2. PICK c \in Caller : Book(c)
  BY <1>1
<1>3. /\ call[c].pay \in DOMAIN bank \ (booked \cup dropped)
      /\ bank[call[c].pay] = call[c].amount
  BY <1>2 DEF Backing, Calls, InitiatedIsPending, Book
<1> QED
  BY <1>0, <1>2, <1>3 DEF Book, AccountType

-----------------------------------------------------------------------------
(* The two invariants hold of every behaviour. *)
LEMMA BackingInvariant == Spec => []Backing
  BY BackingInit, BackingStep, PTL DEF Spec

(* Rows, calls and history keep their shape under every interleaving, failure *)
(* and crash of releaseOwnerFunds, reconcile-held and the writes from outside. *)
THEOREM TypeCorrect == Spec => []TypeOK
<1>1. Backing => TypeOK
  BY DEF Backing
<1> QED
  BY <1>1, BackingInvariant, PTL

(* A completed settlement names a payment initiated at the bank, whose id came *)
(* back and which the account has booked.                                      *)
THEOREM SettlementsAreBooked == Spec => []SettlementIsBooked
<1>1. Backing => SettlementIsBooked
  BY DEF Backing, Traced, TypeOK, SettlementIsBooked
<1> QED
  BY <1>1, BackingInvariant, PTL

(* Money the bank has moved is booked or in hand, unless its id was lost.     *)
THEOREM ExecutedPaymentsAreKnown == Spec => []ExecutedIsKnown
<1>1. Backing => ExecutedIsKnown
  BY DEF Backing, Traced, InHand, ExecutedIsKnown
<1> QED
  BY <1>1, BackingInvariant, PTL

(* releaseOwnerFunds is fail-closed: held goes down only by the amount of one *)
(* initiation whose id came back, and never twice for the same one.           *)
THEOREM FailClosed == Spec => HeldLeavesOnlyInitiated
<1>1. Backing /\ [Next]_vars =>
        [account'.held < account.held =>
           \E p \in DOMAIN bank \ (booked \cup dropped) :
              /\ account'.held = account.held - bank[p]
              /\ booked' = booked \cup {p}]_vars
  BY HeldStep
<1> QED
  BY <1>1, BackingInvariant, PTL DEF Spec, HeldLeavesOnlyInitiated

(* Releases that never overlap cannot overdraw the held balance or a bucket.  *)
THEOREM SerialReleases == Spec => []SerialReleasesAreCovered
<1>1. Serial => SerialReleasesAreCovered
  BY DEF Serial, SerialReleasesAreCovered
<1> QED
  BY <1>1, BackingInit, SerialInit, BackingStep, SerialStep, PTL DEF Spec

-----------------------------------------------------------------------------
(* Sums.  The list of payments only grows at its end, so that its sums exist   *)
(* and are unique is itself an invariant: it holds of the empty list, and a    *)
(* payment more keeps it.                                                      *)

Sums(f, b, payments) ==
    f = [n \in 0..Len(b) |->
           IF n = 0 THEN 0 ELSE f[n - 1] + IF n \in payments THEN b[n] ELSE 0]

TotalOf(b, payments) == (CHOOSE f : Sums(f, b, payments))[Len(b)]

Summable(b) ==
    \A payments : \E f \in [0..Len(b) -> Nat] :
        Sums(f, b, payments) /\ \A g : Sums(g, b, payments) => g = f

LEMMA TotalIsTotalOf ==
  ASSUME NEW payments
  PROVE  Total(payments) = TotalOf(bank, payments)
  BY DEF Total, TotalOf, Sums

LEMMA TotalIs ==
  ASSUME NEW b, Summable(b), NEW payments, NEW f, Sums(f, b, payments)
  PROVE  TotalOf(b, payments) = f[Len(b)]
<1>1. (CHOOSE g : Sums(g, b, payments)) = f
  BY DEF Summable
<1> QED
  BY <1>1 DEF TotalOf

LEMMA TotalIsNat ==
  ASSUME NEW b \in Seq(PaymentType), Summable(b), NEW payments
  PROVE  TotalOf(b, payments) \in Nat
<1>1. PICK f \in [0..Len(b) -> Nat] : Sums(f, b, payments)
  BY DEF Summable
<1> QED
  BY <1>1, TotalIs

LEMMA PaymentAt ==
  ASSUME NEW b \in Seq(PaymentType), NEW p \in DOMAIN b
  PROVE  p \in 1..Len(b) /\ Len(b) \in Nat /\ b[p] \in Nat
<1>1. b[p] \in PaymentType /\ p \in 1..Len(b) /\ Len(b) \in Nat
  OBVIOUS
<1> QED
  BY <1>1 DEF PaymentType

LEMMA SummableNone == Summable(<<>>)
<1>1. ASSUME NEW payments
      PROVE  \E f \in [0..Len(<<>>) -> Nat] :
               Sums(f, <<>>, payments) /\ \A g : Sums(g, <<>>, payments) => g = f
  <2> DEFINE f == [n \in 0..0 |-> 0]
  <2>1. Sums(f, <<>>, payments) /\ f \in [0..Len(<<>>) -> Nat]
    BY DEF Sums
  <2>2. ASSUME NEW g, Sums(g, <<>>, payments) PROVE g = f
    BY <2>2 DEF Sums
  <2> QED
    BY <2>1, <2>2
<1> QED
  BY <1>1 DEF Summable

LEMMA TotalOfNone ==
  ASSUME NEW b \in Seq(PaymentType), Summable(b)
  PROVE  TotalOf(b, {}) = 0
<1> DEFINE f == [n \in 0..Len(b) |-> 0]
<1>1. Sums(f, b, {})
  BY DEF Sums
<1> QED
  BY <1>1, TotalIs

LEMMA TotalOfOne ==
  ASSUME NEW b \in Seq(PaymentType), Summable(b), NEW p \in DOMAIN b
  PROVE  TotalOf(b, {p}) = b[p]
<1> DEFINE f == [n \in 0..Len(b) |-> IF n >= p THEN b[p] ELSE 0]
<1>1. b[p] \in Nat /\ p \in 1..Len(b) /\ Len(b) \in Nat
  BY PaymentAt
<1>2. Sums(f, b, {p})
  <2>1. ASSUME NEW n \in 0..Len(b)
        PROVE  f[n] = IF n = 0 THEN 0 ELSE f[n - 1] + IF n \in {p} THEN b[n] ELSE 0
    BY <1>1
  <2> QED
    BY <2>1 DEF Sums
<1>3. f[Len(b)] = b[p]
  BY <1>1
<1> HIDE DEF f
<1> QED
  BY <1>2, <1>3, TotalIs

LEMMA TotalOfTwo ==
  ASSUME NEW b \in Seq(PaymentType), Summable(b), NEW s, NEW t, s \cap t = {}
  PROVE  TotalOf(b, s \cup t) = TotalOf(b, s) + TotalOf(b, t)
<1>1. PICK f \in [0..Len(b) -> Nat] : Sums(f, b, s)
  BY DEF Summable
<1>2. PICK g \in [0..Len(b) -> Nat] : Sums(g, b, t)
  BY DEF Summable
<1> DEFINE h == [n \in 0..Len(b) |-> f[n] + g[n]]
<1>3. Sums(h, b, s \cup t)
  <2>1. ASSUME NEW n \in 0..Len(b)
        PROVE  h[n] = IF n = 0 THEN 0
                      ELSE h[n - 1] + IF n \in s \cup t THEN b[n] ELSE 0
    <3>1. CASE n = 0
      BY <1>1, <1>2, <3>1 DEF Sums
    <3>2. CASE n # 0
      <4>1. n \in DOMAIN b /\ n - 1 \in 0..Len(b) /\ b[n] \in Nat
        <5>1. n \in DOMAIN b
          BY <3>2
        <5> QED
          BY <3>2, <5>1, PaymentAt
      <4>2. f[n] = f[n - 1] + IF n \in s THEN b[n] ELSE 0
        BY <1>1, <3>2 DEF Sums
      <4>3. g[n] = g[n - 1] + IF n \in t THEN b[n] ELSE 0
        BY <1>2, <3>2 DEF Sums
      <4>4. f[n - 1] \in Nat /\ g[n - 1] \in Nat
        BY <4>1
      <4>5. h[n] = f[n] + g[n] /\ h[n - 1] = f[n - 1] + g[n - 1]
        BY <4>1
      <4> HIDE DEF h
      <4>6. CASE n \in s
        BY <3>2, <4>1, <4>2, <4>3, <4>4, <4>5, <4>6
      <4>7. CASE n \notin s
        BY <3>2, <4>1, <4>2, <4>3, <4>4, <4>5, <4>7
      <4> QED
        BY <4>6, <4>7
    <3> QED
      BY <3>1, <3>2
  <2> QED
    BY <2>1 DEF Sums
<1>4. Len(b) \in 0..Len(b)
  OBVIOUS
<1> QED
  BY <1>1, <1>2, <1>3, <1>4, TotalIs

LEMMA TotalOfOneMore ==
  ASSUME NEW b \in Seq(PaymentType), Summable(b), NEW s, NEW p \in DOMAIN b, p \notin s
  PROVE  TotalOf(b, s \cup {p}) = TotalOf(b, s) + b[p]
<1>1. s \cap {p} = {}
  OBVIOUS
<1>2. TotalOf(b, {p}) = b[p]
  BY TotalOfOne
<1>3. TotalOf(b, s \cup {p}) = TotalOf(b, s) + TotalOf(b, {p})
  BY <1>1, TotalOfTwo
<1> QED
  BY <1>2, <1>3

(* One payment more at the end of the list: every set still has its sum, and  *)
(* the sums of payments made before stay what they were.                      *)
LEMMA SummableAppend ==
  ASSUME NEW b \in Seq(PaymentType), Summable(b), NEW x \in PaymentType
  PROVE  /\ Summable(Append(b, x))
         /\ \A s \in SUBSET DOMAIN b : TotalOf(Append(b, x), s) = TotalOf(b, s)
<1> DEFINE c == Append(b, x)
           m == Len(b) + 1
           add(s) == IF m \in s THEN x ELSE 0
<1>1. /\ c \in Seq(PaymentType) /\ Len(c) = m /\ Len(b) \in Nat
      /\ c[m] = x /\ \A n \in 1..Len(b) : c[n] = b[n]
  OBVIOUS
<1>2. x \in Nat
  BY DEF PaymentType
<1> HIDE DEF c, m
<1>3. m = Len(b) + 1
  BY DEF m
<1>4. ASSUME NEW s, NEW f \in [0..Len(b) -> Nat], Sums(f, b, s),
             \A g : Sums(g, b, s) => g = f
      PROVE  \E h \in [0..Len(c) -> Nat] :
               /\ Sums(h, c, s) /\ \A g : Sums(g, c, s) => g = h
               /\ h[Len(c)] = f[Len(b)] + add(s)
  <2> DEFINE h == [n \in 0..m |-> IF n = m THEN f[Len(b)] + add(s) ELSE f[n]]
  <2>1. h \in [0..Len(c) -> Nat] /\ h[Len(c)] = f[Len(b)] + add(s)
    BY <1>1, <1>2, <1>3
  <2>2. ASSUME NEW n \in 1..Len(b)
        PROVE  f[n] = f[n - 1] + IF n \in s THEN b[n] ELSE 0
    BY <1>4 DEF Sums
  <2>3. f[0] = 0
    BY <1>1, <1>4 DEF Sums
  <2>4. Sums(h, c, s)
    <3>1. ASSUME NEW n \in 0..Len(c)
          PROVE  h[n] = IF n = 0 THEN 0
                        ELSE h[n - 1] + IF n \in s THEN c[n] ELSE 0
      <4>1. CASE n = 0
        BY <1>1, <1>3, <2>3, <4>1
      <4>2. CASE n \in 1..Len(b)
        BY <1>1, <1>3, <2>2, <4>2
      <4>3. CASE n = m
        BY <1>1, <1>3, <4>3
      <4> QED
        BY <1>1, <1>3, <4>1, <4>2, <4>3
    <3> QED
      BY <1>1, <3>1 DEF Sums
  <2>5. ASSUME NEW g, Sums(g, c, s)
        PROVE  g = h
    <3> DEFINE r == [n \in 0..Len(b) |-> g[n]]
    <3>1. g = [n \in 0..m |->
                 IF n = 0 THEN 0 ELSE g[n - 1] + IF n \in s THEN c[n] ELSE 0]
      BY <1>1, <2>5 DEF Sums
    <3>2. Sums(r, b, s)
      <4>1. ASSUME NEW n \in 0..Len(b)
            PROVE  r[n] = IF n = 0 THEN 0
                          ELSE r[n - 1] + IF n \in s THEN b[n] ELSE 0
        <5>1. CASE n = 0
          BY <1>1, <1>3, <3>1, <5>1
        <5>2. CASE n # 0
          <6>1. n \in 1..Len(b) /\ n - 1 \in 0..Len(b) /\ n \in 0..m
            BY <1>1, <1>3, <5>2
          <6>2. g[n] = g[n - 1] + IF n \in s THEN c[n] ELSE 0
            BY <3>1, <5>2, <6>1
          <6> QED
            BY <1>1, <5>2, <6>1, <6>2
        <5> QED
          BY <5>1, <5>2
      <4> HIDE DEF r
      <4>2. r = [n \in 0..Len(b) |-> r[n]]
        BY DEF r
      <4> QED
        BY <4>1, <4>2 DEF Sums
    <3>3. r = f
      BY <1>4, <3>2
    <3>4. \A n \in 0..Len(b) : g[n] = f[n]
      BY <3>3
    <3>5. g[m] = f[Len(b)] + add(s)
      <4>1. m \in 0..m /\ m # 0 /\ m - 1 = Len(b) /\ Len(b) \in 0..Len(b)
        BY <1>1, <1>3
      <4>2. g[m] = g[m - 1] + IF m \in s THEN c[m] ELSE 0
        BY <3>1, <4>1
      <4> QED
        BY <1>1, <3>4, <4>1, <4>2
    <3>6. ASSUME NEW n \in 0..m PROVE g[n] = h[n]
      <4>1. CASE n = m
        BY <3>5, <4>1
      <4>2. CASE n # m
        <5>1. n \in 0..Len(b)
          BY <1>1, <1>3, <4>2
        <5> QED
          BY <3>4, <4>2, <5>1
      <4> QED
        BY <4>1, <4>2
    <3>7. g = [n \in 0..m |-> g[n]] /\ h = [n \in 0..m |-> h[n]]
      BY <3>1
    <3> HIDE DEF h
    <3> QED
      BY <3>6, <3>7
  <2> HIDE DEF h
  <2> QED
    BY <2>1, <2>4, <2>5
<1>5. Summable(c)
  <2>1. ASSUME NEW s
        PROVE  \E h \in [0..Len(c) -> Nat] :
                 Sums(h, c, s) /\ \A g : Sums(g, c, s) => g = h
    <3>1. PICK f \in [0..Len(b) -> Nat] : Sums(f, b, s) /\ \A g : Sums(g, b, s) => g = f
      BY DEF Summable
    <3> HIDE DEF add
    <3> QED
      BY <1>4, <3>1
  <2> QED
    BY <2>1 DEF Summable
<1>6. ASSUME NEW s \in SUBSET DOMAIN b PROVE TotalOf(c, s) = TotalOf(b, s)
  <2>1. PICK f \in [0..Len(b) -> Nat] : Sums(f, b, s) /\ \A g : Sums(g, b, s) => g = f
    BY DEF Summable
  <2>2. PICK h \in [0..Len(c) -> Nat] : Sums(h, c, s) /\ h[Len(c)] = f[Len(b)] + add(s)
    BY <1>4, <2>1
  <2>3. add(s) = 0 /\ f[Len(b)] \in Nat
    BY <1>1, <1>3
  <2> QED
    BY <1>5, <2>1, <2>2, <2>3, TotalIs
<1> QED
  BY <1>5, <1>6 DEF c

-----------------------------------------------------------------------------
(* The books.  What the bucket has been charged for is a set of booked         *)
(* payments; a call that has booked its payment and not yet charged the bucket *)
(* still holds that payment outside the set, each call its own.                *)

Uncharged == {"booked", "roomy"}

HoldsAmount(c) ==
    call[c].pc \in Uncharged => bank[call[c].pay] = call[c].amount
UnchargedDiffer(c, d) ==
    c # d /\ call[c].pc \in Uncharged /\ call[d].pc \in Uncharged
      => call[c].pay # call[d].pay
ChargedFor(payments) ==
    /\ bucket = TotalOf(bank, payments)
    /\ \A c \in Caller : call[c].pc \in Uncharged => call[c].pay \notin payments

Books ==
    /\ Summable(bank)
    /\ account.spendable = TotalOf(bank, booked)
    /\ ~foreign => account.sent = account.spendable
    /\ \A c \in Caller : HoldsAmount(c)
    /\ \A c, d \in Caller : UnchargedDiffer(c, d)
    /\ \E charged \in SUBSET booked : ChargedFor(charged)

LEMMA BackingShape ==
  ASSUME Backing
  PROVE  /\ bank \in Seq(PaymentType) /\ booked \subseteq DOMAIN bank
         /\ call \in [Caller -> CallType] /\ account \in AccountType
         /\ \A c \in Caller : call[c].pc \in Uncharged => call[c].pay \in booked
  BY TypeShape DEF Backing, Calls, WrittenIsBooked, Uncharged

LEMMA BooksInit == Init => Books
<1> SUFFICES ASSUME Init PROVE Books
  OBVIOUS
<1>1. bank = <<>> /\ bank \in Seq(PaymentType) /\ Summable(bank)
  BY SummableNone DEF Init
<1>2. TotalOf(bank, {}) = 0
  BY <1>1, TotalOfNone
<1>3. /\ account.sent = 0 /\ account.spendable = 0 /\ bucket = 0 /\ booked = {}
      /\ \A c \in Caller : call[c].pc = "idle"
  BY DEF Init, Idle
<1> QED
  BY <1>1, <1>2, <1>3 DEF Books, HoldsAmount, UnchargedDiffer, ChargedFor, Uncharged

(* Steps that book nothing and charge nothing, whether or not the bank pays.  *)
LEMMA BooksKept ==
  ASSUME Backing, Books,
         bank' = bank \/ \E x \in PaymentType : bank' = Append(bank, x),
         booked' = booked, bucket' = bucket,
         account'.spendable = account.spendable,
         foreign' \/ (foreign' = foreign /\ account'.sent = account.sent),
         \A c \in Caller : call'[c].pc \in Uncharged =>
            /\ call[c].pc \in Uncharged
            /\ call'[c].pay = call[c].pay /\ call'[c].amount = call[c].amount
  PROVE  Books'
<1>1. /\ Summable(bank')
      /\ \A s \in SUBSET DOMAIN bank : TotalOf(bank', s) = TotalOf(bank, s)
      /\ \A p \in DOMAIN bank : bank'[p] = bank[p]
  <2>1. CASE bank' = bank
    BY <2>1 DEF Books
  <2>2. ASSUME NEW x \in PaymentType, bank' = Append(bank, x) 
        PROVE  /\ Summable(bank')
               /\ \A s \in SUBSET DOMAIN bank : TotalOf(bank', s) = TotalOf(bank, s)
               /\ \A p \in DOMAIN bank : bank'[p] = bank[p]
    <3>1. \A p \in DOMAIN bank : bank'[p] = bank[p]
      BY <2>2, BackingShape
    <3> QED
      BY <2>2, <3>1, BackingShape, SummableAppend DEF Books
  <2> QED
    BY <2>1, <2>2
<1>2. PICK charged \in SUBSET booked : ChargedFor(charged)
  BY DEF Books
<1>3. /\ account'.spendable = TotalOf(bank', booked')
      /\ ~foreign' => account'.sent = account'.spendable
      /\ bucket' = TotalOf(bank', charged)
  BY <1>1, <1>2, BackingShape DEF Books, ChargedFor
<1>4. \A c \in Caller : HoldsAmount(c)'
  BY <1>1, BackingShape DEF Books, HoldsAmount
<1>5. \A c, d \in Caller : UnchargedDiffer(c, d)'
  BY DEF Books, UnchargedDiffer
<1>6. ChargedFor(charged)'
  BY <1>2, <1>3 DEF ChargedFor
<1> QED
  BY <1>1, <1>2, <1>3, <1>4, <1>5, <1>6 DEF Books

(* Booking adds the amount of one payment that was not booked.                *)
LEMMA BooksOnBook ==
  ASSUME Backing, Books, NEW c \in Caller, Book(c)
  PROVE  Books'
<1> DEFINE p == call[c].pay
           n == call[c].amount
<1>1. /\ p \in DOMAIN bank \ booked /\ bank[p] = n /\ n \in Nat
      /\ bank' = bank /\ bucket' = bucket /\ booked' = booked \cup {p}
      /\ foreign' = foreign
  BY BackingShape DEF Backing, Calls, InitiatedIsPending, Book, bankSide, CallType
<1>2. /\ call'[c].pc = "booked" /\ call'[c].pay = p /\ call'[c].amount = n
      /\ \A d \in Caller \ {c} : call'[d] = call[d]
  BY BackingShape DEF Book, Move, CallType
<1>3. account'.sent = account.sent + n /\ account'.spendable = account.spendable + n
  BY BackingShape DEF Book, AccountType
<1> HIDE DEF p, n
<1>4. TotalOf(bank, booked \cup {p}) = TotalOf(bank, booked) + n
  <2>1. Summable(bank) /\ bank \in Seq(PaymentType) /\ p \in DOMAIN bank /\ p \notin booked
    BY <1>1, BackingShape DEF Books
  <2> QED
    BY <1>1, <2>1, TotalOfOneMore
<1>5. /\ account'.spendable = TotalOf(bank', booked')
      /\ ~foreign' => account'.sent = account'.spendable
  BY <1>1, <1>3, <1>4 DEF Books
<1>6. PICK charged \in SUBSET booked : ChargedFor(charged)
  BY DEF Books
<1>7. ChargedFor(charged)'
  <2>1. p \notin charged
    BY <1>1, <1>6
  <2> QED
    BY <1>1, <1>2, <1>6, <2>1 DEF ChargedFor
<1>8. \A d \in Caller : HoldsAmount(d)'
  BY <1>1, <1>2 DEF Books, HoldsAmount
<1>9. ASSUME NEW d \in Caller, d # c, call[d].pc \in Uncharged PROVE call[d].pay # p
  BY <1>1, <1>9, BackingShape
<1>10. \A d, e \in Caller : UnchargedDiffer(d, e)'
  BY <1>2, <1>9 DEF Books, UnchargedDiffer
<1> QED
  BY <1>1, <1>5, <1>6, <1>7, <1>8, <1>10 DEF Books

(* A charge moves the caller's own payment into what the bucket was charged.  *)
LEMMA BooksOnCharge ==
  ASSUME Backing, Books, NEW c \in Caller, BucketCharge(c)
  PROVE  Books'
<1> PICK p : p = call[c].pay
  OBVIOUS
<1> PICK n : n = call[c].amount
  OBVIOUS
<1>1. /\ call[c].pc \in Uncharged /\ p \in booked /\ bank[p] = n
      /\ bucket' = bucket + n
      /\ bank' = bank /\ booked' = booked /\ account' = account /\ foreign' = foreign
  BY BackingShape DEF Books, HoldsAmount, BucketCharge, Uncharged, bankSide
<1>2. call'[c].pc = "closing" /\ \A d \in Caller \ {c} : call'[d] = call[d]
  BY BackingShape DEF BucketCharge, Move, CallType
<1>3. PICK charged \in SUBSET booked : ChargedFor(charged)
  BY DEF Books
<1>4. p \notin charged
  BY <1>1, <1>3 DEF ChargedFor
<1>5. TotalOf(bank, charged \cup {p}) = TotalOf(bank, charged) + n
  <2>1. Summable(bank) /\ bank \in Seq(PaymentType) /\ p \in DOMAIN bank
    BY <1>1, BackingShape DEF Books
  <2> QED
    BY <1>1, <1>4, <2>1, TotalOfOneMore
<1>6. ASSUME NEW d \in Caller, call'[d].pc \in Uncharged
      PROVE  call'[d] = call[d] /\ d # c /\ call[d].pay # p
  BY <1>1, <1>2, <1>6 DEF Books, UnchargedDiffer, Uncharged
<1>7. ChargedFor(charged \cup {p})'
  <2>1. bucket' = TotalOf(bank', charged \cup {p})
    BY <1>1, <1>3, <1>5 DEF ChargedFor
  <2>2. \A d \in Caller : call'[d].pc \in Uncharged => call'[d].pay \notin charged \cup {p}
    BY <1>3, <1>6 DEF ChargedFor
  <2> QED
    BY <2>1, <2>2 DEF ChargedFor
<1>8. /\ \A d \in Caller : HoldsAmount(d)'
      /\ \A d, e \in Caller : UnchargedDiffer(d, e)'
  BY <1>1, <1>6 DEF Books, HoldsAmount, UnchargedDiffer
<1>9. charged \cup {p} \in SUBSET booked'
  BY <1>1, <1>3
<1> QED
  BY <1>1, <1>7, <1>8, <1>9 DEF Books

(* Every step keeps Books, given Backing. *)
LEMMA BooksStep == Backing /\ Books /\ [Next]_vars => Books'
<1> SUFFICES ASSUME Backing, Books, [Next]_vars PROVE Books'
  OBVIOUS
<1>0. /\ call \in [Caller -> CallType] /\ account \in AccountType
      /\ Idle.pc \notin Uncharged
  BY BackingShape DEF Idle, Uncharged
<1>1. CASE UNCHANGED vars
  BY <1>1, BooksKept DEF vars
<1>2. CASE AccountStep
  <2>1. /\ account'.spendable = account.spendable
        /\ foreign' \/ (foreign' = foreign /\ account'.sent = account.sent)
        /\ UNCHANGED <<bank, booked, bucket, call>>
    BY <1>0, <1>2
    DEF AccountStep, PatchReceived, PatchSent, PatchActive, SplitSent, AccountType,
        bankSide, books, callers
  <2> QED
    BY <2>1, BooksKept
<1>3. ASSUME NEW s \in Seeder, ReconcileRead(s) PROVE Books'
  BY <1>3, BooksKept DEF ReconcileRead, bankSide, books
<1>4. ASSUME NEW s \in Seeder, ReconcileSeed(s) PROVE Books'
  <2>1. account'.sent = account.sent /\ account'.spendable = account.spendable
    BY <1>0, <1>4 DEF ReconcileSeed, AccountType
  <2> QED
    BY <1>4, <2>1, BooksKept DEF ReconcileSeed, bankSide, books
<1>5. ASSUME NEW p \in DOMAIN bank, BankDecides(p) PROVE Books'
  BY <1>5, BooksKept DEF BankDecides, books, callers
<1>6. ASSUME NEW c \in Caller, NEW amount, Begin(c, amount)
      PROVE  Books'
  <2>1. /\ call'[c].pc \notin Uncharged
        /\ \A d \in Caller \ {c} : call'[d] = call[d]
    BY <1>0, <1>6 DEF Begin, Uncharged
  <2> QED
    BY <1>6, <2>1, BooksKept DEF Begin, bankSide, books
<1>7. ASSUME NEW c \in Operator, OperatorRelease(c) PROVE Books'
  BY <1>6, <1>7 DEF OperatorRelease, Caller
<1>8. ASSUME NEW h \in Harness, HarnessRelease(h) PROVE Books'
  BY <1>6, <1>8 DEF HarnessRelease, Caller
<1>9. ASSUME NEW c \in Caller, SendAnswered(c) \/ SendFailed(c) \/ Settle(c) \/ Crash(c)
      PROVE  Books'
  <2> PICK n : n = call[c].amount
    OBVIOUS
  <2>1. bank' = bank \/ (n \in PaymentType /\ bank' = Append(bank, n))
    BY <1>9
    DEF SendAnswered, SendFailed, Settle, Crash, Unanswered, Initiate, bankSide,
        Backing, Calls, BusyHasAmount, PaymentType
  <2>2. /\ call'[c].pc \notin Uncharged
        /\ \A d \in Caller \ {c} : call'[d] = call[d]
    BY <1>0, <1>9
    DEF SendAnswered, SendFailed, Settle, Crash, Return, Uncharged, CallType
  <2>3. UNCHANGED <<booked, bucket, account, foreign>>
    BY <1>9 DEF SendAnswered, SendFailed, Settle, Crash, books
  <2> QED
    BY <2>1, <2>2, <2>3, BooksKept
<1>10. ASSUME NEW c \in Caller, BucketRead(c) PROVE Books'
  <2>1. /\ call[c].pc \in Uncharged
        /\ call'[c].pay = call[c].pay /\ call'[c].amount = call[c].amount
        /\ \A d \in Caller \ {c} : call'[d] = call[d]
    BY <1>0, <1>10 DEF BucketRead, Move, Uncharged, CallType
  <2> QED
    BY <1>10, <2>1, BooksKept DEF BucketRead, bankSide, books
<1> QED
  BY <1>1, <1>2, <1>3, <1>4, <1>5, <1>7, <1>8, <1>9, <1>10, BooksOnBook, BooksOnCharge
  DEF Next, ReleaseStep

(* What the account calls spendable is the sum of the initiations booked, each *)
(* counted once; sent is the same sum until it is written from outside; and    *)
(* the bucket has been charged for some of those payments and nothing else.    *)
THEOREM BooksAreKept == Spec => []BooksAreBacked
<1>1. Backing /\ Books => BooksAreBacked
  <2> SUFFICES ASSUME Backing, Books PROVE BooksAreBacked
    OBVIOUS
  <2>1. bank \in Seq(PaymentType) /\ Summable(bank)
    BY BackingShape DEF Books
  <2>2. PICK charged \in SUBSET booked : ChargedFor(charged)
    BY DEF Books
  <2> DEFINE left == booked \ charged
  <2>3. booked = charged \cup left /\ charged \cap left = {}
    OBVIOUS
  <2> HIDE DEF left
  <2>4. TotalOf(bank, booked) = TotalOf(bank, charged) + TotalOf(bank, left)
    BY <2>1, <2>3, TotalOfTwo
  <2>5. TotalOf(bank, charged) \in Nat /\ TotalOf(bank, left) \in Nat
    BY <2>1, TotalIsNat
  <2>6. bucket = TotalOf(bank, charged) /\ account.spendable = TotalOf(bank, booked)
    BY <2>2 DEF Books, ChargedFor
  <2>7. bucket <= account.spendable
    BY <2>4, <2>5, <2>6
  <2>8. Total(booked) = TotalOf(bank, booked)
    BY TotalIsTotalOf
  <2> QED
    BY <2>6, <2>7, <2>8 DEF Books, BooksAreBacked
<1> QED
  BY <1>1, BackingInit, BooksInit, BackingStep, BooksStep, PTL DEF Spec
=============================================================================
