------------------------------- MODULE Treasury -------------------------------
(* The owner's money in src/lib/treasury/release-engine.ts and the endpoint    *)
(* src/app/api/treasury/release/route.ts: receipts are attributed to the HELD  *)
(* balance of an OwnerAccount (op reconcile-held), and a release initiates a   *)
(* payment of held money over the bank's API, then books it (held ->           *)
(* spendable, sent), charges a fund bucket and records a completed settlement. *)
(* Each database call is a step of its own, since nothing locks the account    *)
(* row between the check and the booking.  Releases are called by operators    *)
(* (POST) and by the harness scripts/auto-run-v354-owner-payouts.ts, whose     *)
(* stages pay the backlog row and the preset account again and again.          *)
(*                                                                             *)
(* What comes back from the bank is the id of an INITIATION.  The code looks   *)
(* at the id and not at the status beside it, so an initiation with an id is   *)
(* booked whether the bank has executed it, holds it or has refused it.        *)
EXTENDS Integers, Sequences, FiniteSets

CONSTANTS
    Operator,     \* concurrent POST /api/treasury/release calls
    Harness,      \* runs of the payout harness ({} or one process)
    Seeder,       \* concurrent reconcile-held calls
    Amounts,      \* amounts an operator may ask for, in whole units
    RowAmount,    \* amount of the harness's backlog row, and of its preset
    Allocated,    \* what the bucket named by the calls holds at the start
    AutoRef,      \* the reference the harness builds (never a bank payment id)
    MayCrash,     \* whether a caller may die in the middle of a call
    Outside,      \* figures written to totalReceived and totalSent from outside
    MaxReceived,  \* bound: total receipts, and totalSent as written from outside
    MaxPaid       \* bound: payments initiated at the bank

ASSUME TreasuryAssumption ==
    /\ Amounts \subseteq Nat \ {0}
    /\ RowAmount \in Nat \ {0}
    /\ Allocated \in Nat
    /\ MayCrash \in BOOLEAN
    /\ Outside \subseteq Nat
    /\ MaxReceived \in Nat
    /\ MaxPaid \in Nat
    /\ AutoRef \notin Nat
    /\ Operator \cap Harness = {}

VARIABLES
    account,   \* the OwnerAccount row: received, held, spendable, sent, active
    bucket,    \* the FundBucket row: what has been released from it
    bank,      \* external: amounts of the payments initiated; an index is a payment id
    outcome,   \* external: what the bank makes of each of them
    booked,    \* history: payment ids whose account update has been written
    settled,   \* referenceId of each completed OwnerSettlement row
    dropped,   \* history: payment ids that no call came back with or lived to book
    foreign,   \* history: totalSent has been written by something but a release
    call,      \* per caller: where its releaseOwnerFunds call is
    seeder,    \* per reconcile-held call: the increment it has computed, or 0
    overlap    \* history: two releases were in flight at once

vars == <<account, bucket, bank, outcome, booked, settled, dropped, foreign,
          call, seeder, overlap>>

Caller == Operator \cup Harness
InFlight == {"cleared", "initiated", "booked", "roomy", "closing"}
Outcome == {"pending", "executed", "rejected"}

TypeOK ==
    \* Rows, calls and history keep their shape; balances are whole, and only
    \* the held balance is allowed to be an arbitrary integer.
    /\ account \in [received : Nat, held : Int, spendable : Nat, sent : Nat,
                    active : BOOLEAN]
    /\ bucket \in Nat
    /\ bank \in Seq(Nat \ {0})
    /\ outcome \in Seq(Outcome) /\ Len(outcome) = Len(bank)
    /\ booked \subseteq DOMAIN bank
    /\ settled \subseteq DOMAIN bank
    /\ dropped \subseteq DOMAIN bank
    /\ foreign \in BOOLEAN
    /\ call \in [Caller -> [pc : {"idle"} \cup InFlight, amount : Nat, pay : Nat]]
    /\ seeder \in [Seeder -> Nat]
    /\ overlap \in BOOLEAN

Idle == [pc |-> "idle", amount |-> 0, pay |-> 0]

Init ==
    /\ account = [received |-> 0, held |-> 0, spendable |-> 0, sent |-> 0,
                  active |-> TRUE]
    /\ bucket = 0
    /\ bank = <<>>
    /\ outcome = <<>>
    /\ booked = {}
    /\ settled = {}
    /\ dropped = {}
    /\ foreign = FALSE
    /\ call = [c \in Caller |-> Idle]
    /\ seeder = [s \in Seeder |-> 0]
    /\ overlap = FALSE

-----------------------------------------------------------------------------
\* What belongs to the bank, to the books of a release, and to the callers.
bankSide == <<bank, outcome>>
books == <<bucket, booked, settled, dropped, foreign>>
callers == <<call, seeder, overlap>>

(* PATCH /api/owner-accounts/[id] assigns what the body says: a higher figure  *)
(* for the receipts, or one of Outside, which may lower it or write over what  *)
(* a release has added to totalSent; and isActive, which DELETE clears too.    *)
PatchReceived(n) ==
    /\ n \in Outside \/ n > account.received
    /\ account' = [account EXCEPT !.received = n]
    /\ UNCHANGED <<bankSide, books, callers>>

PatchActive(b) ==
    /\ account' = [account EXCEPT !.active = b]
    /\ UNCHANGED <<bankSide, books, callers>>

PatchSent(n) ==
    /\ account' = [account EXCEPT !.sent = n]
    /\ foreign' = TRUE
    /\ UNCHANGED <<bankSide, bucket, booked, settled, dropped, callers>>

(* settleAndPayout adds the account's share of a revenue split to totalSent.  *)
SplitSent(n) ==
    /\ account.sent + n <= MaxReceived
    /\ account' = [account EXCEPT !.sent = @ + n]
    /\ foreign' = TRUE
    /\ UNCHANGED <<bankSide, bucket, booked, settled, dropped, callers>>

(* reconcile-held reads the account, and only later increments held by the    *)
(* difference it saw.                                                         *)
ReconcileRead(s) ==
    /\ seeder[s] = 0
    /\ account.active
    /\ account.received > account.held
    /\ seeder' = [seeder EXCEPT ![s] = account.received - account.held]
    /\ UNCHANGED <<account, bankSide, books, call, overlap>>

ReconcileSeed(s) ==
    /\ seeder[s] > 0
    /\ account' = [account EXCEPT !.held = @ + seeder[s]]
    /\ seeder' = [seeder EXCEPT ![s] = 0]
    /\ UNCHANGED <<bankSide, books, call, overlap>>

(* External: the bank makes up its mind about a payment it has taken.         *)
BankDecides(p) ==
    /\ outcome[p] = "pending"
    /\ \E o \in Outcome \ {"pending"} : outcome' = [outcome EXCEPT ![p] = o]
    /\ UNCHANGED <<account, bank, books, callers>>

-----------------------------------------------------------------------------
(* releaseOwnerFunds *)

\* Mutant: the balance is not checked before the send.
UncheckedReleasable(amount) == amount > 0
(* The guard of a release: only the held balance, as read now, is releasable. *)
Releasable(amount) == amount <= account.held

(* Start a call: a request on an inactive account or above the held balance   *)
(* is refused without a trace.                                                *)
Begin(c, amount) ==
    /\ call[c].pc = "idle"
    /\ account.active
    /\ Releasable(amount)
    /\ call' = [call EXCEPT ![c] = [pc |-> "cleared", amount |-> amount, pay |-> 0]]
    /\ overlap' = (overlap \/ \E d \in Caller : call[d].pc # "idle")
    /\ UNCHANGED <<account, bankSide, books, seeder>>

OperatorRelease(c) == \E amount \in Amounts : Begin(c, amount)

(* Is there a completed settlement whose referenceId is the built reference?  *)
Existing(ref) == ref \in settled

(* A stage of the harness pays the row, or the preset, unless a settlement    *)
(* with its reference is there; the next stage and the next run do the same.  *)
HarnessRelease(h) == ~Existing(AutoRef) /\ Begin(h, RowAmount)

Move(c, pc) == call' = [call EXCEPT ![c].pc = pc]
Return(c) == call' = [call EXCEPT ![c] = Idle]

(* The bank takes the call's credit transfer, and says of it what it will.    *)
Initiate(c) ==
    /\ Len(bank) < MaxPaid
    /\ bank' = Append(bank, call[c].amount)
    /\ \E o \in Outcome : outcome' = Append(outcome, o)

\* Mutant: only a payment the bank calls executed is booked, the rest is refused.
FinalSendAnswered(c) ==
    /\ call[c].pc = "cleared"
    /\ Initiate(c)
    /\ call' = IF outcome'[Len(bank) + 1] = "executed"
               THEN [call EXCEPT ![c].pc = "initiated", ![c].pay = Len(bank) + 1]
               ELSE [call EXCEPT ![c] = Idle]
    /\ UNCHANGED <<account, books, seeder, overlap>>
(* A payment id comes back.  Its status, whatever it is, is not looked at.    *)
SendAnswered(c) ==
    /\ call[c].pc = "cleared"
    /\ Initiate(c)
    /\ call' = [call EXCEPT ![c].pc = "initiated", ![c].pay = Len(bank) + 1]
    /\ UNCHANGED <<account, books, seeder, overlap>>

(* No id reached the caller: the bank never took the payment, or it did.      *)
Unanswered(c) ==
    \/ UNCHANGED <<bankSide, dropped>>
    \/ Initiate(c) /\ dropped' = dropped \cup {Len(bank) + 1}

\* Mutant: an answer without a payment id is booked under a made-up one.
TrustingSendFailed(c) ==
    /\ call[c].pc = "cleared"
    /\ call' = [call EXCEPT ![c].pc = "initiated", ![c].pay = Len(bank) + 1]
    /\ UNCHANGED <<account, bankSide, books, seeder, overlap>>
(* The call throws, or answers without a real payment id: the caller returns  *)
(* needs_manual_proof and books nothing, whether or not the bank took it.     *)
SendFailed(c) ==
    /\ call[c].pc = "cleared"
    /\ Unanswered(c)
    /\ Return(c)
    /\ UNCHANGED <<account, bucket, booked, settled, foreign, seeder, overlap>>

\* Mutant: the update can be retried after it was written.
RetriedBook(c) ==
    /\ call[c].pc = "initiated"
    /\ account' = [account EXCEPT !.held = @ - call[c].amount,
                                  !.spendable = @ + call[c].amount,
                                  !.sent = @ + call[c].amount]
    /\ booked' = booked \cup {call[c].pay}
    /\ Move(c, "booked") \/ call' = call
    /\ UNCHANGED <<bankSide, bucket, settled, dropped, foreign, seeder, overlap>>
(* The account update after a real payment id. *)
Book(c) ==
    /\ call[c].pc = "initiated"
    /\ account' = [account EXCEPT !.held = @ - call[c].amount,
                                  !.spendable = @ + call[c].amount,
                                  !.sent = @ + call[c].amount]
    /\ booked' = booked \cup {call[c].pay}
    /\ Move(c, "booked")
    /\ UNCHANGED <<bankSide, bucket, settled, dropped, foreign, seeder, overlap>>

\* Mutant: the bucket and the settlement do not wait for the account update.
EagerBucketRead(c) ==
    /\ call[c].pc \in {"initiated", "booked"}
    /\ Move(c, "closing")
    /\ UNCHANGED <<account, bankSide, books, seeder, overlap>>
(* The bucket is read; it is charged later, and only if it had the room.      *)
BucketRead(c) ==
    /\ call[c].pc = "booked"
    /\ Move(c, IF Allocated - bucket >= call[c].amount THEN "roomy" ELSE "closing")
    /\ UNCHANGED <<account, bankSide, books, seeder, overlap>>

BucketCharge(c) ==
    /\ call[c].pc = "roomy"
    /\ bucket' = bucket + call[c].amount
    /\ Move(c, "closing")
    /\ UNCHANGED <<account, bankSide, booked, settled, dropped, foreign, seeder, overlap>>

(* The completed settlement, whose referenceId is the bank's payment id.      *)
Settle(c) ==
    /\ call[c].pc = "closing"
    /\ settled' = settled \cup {call[c].pay}
    /\ Return(c)
    /\ UNCHANGED <<account, bankSide, bucket, booked, dropped, foreign, seeder, overlap>>

(* The process dies, or a database call throws, between two steps of a call:  *)
(* the rest is never written, and an id not yet booked is lost with it.       *)
Crash(c) ==
    /\ MayCrash
    /\ \/ call[c].pc = "cleared" /\ Unanswered(c)
       \/ /\ call[c].pc = "initiated"
          /\ dropped' = dropped \cup {call[c].pay}
          /\ UNCHANGED bankSide
       \/ /\ call[c].pc \in {"booked", "roomy", "closing"}
          /\ UNCHANGED <<bankSide, dropped>>
    /\ Return(c)
    /\ UNCHANGED <<account, bucket, booked, settled, foreign, seeder, overlap>>

ReleaseStep(c) ==
    \/ SendAnswered(c) \/ SendFailed(c) \/ Book(c)
    \/ BucketRead(c) \/ BucketCharge(c) \/ Settle(c) \/ Crash(c)

AccountStep ==
    \/ \E n \in Outside \cup 1..MaxReceived : PatchReceived(n)
    \/ \E n \in Outside : PatchSent(n) \/ SplitSent(n)
    \/ \E b \in BOOLEAN : PatchActive(b)

Next ==
    \/ AccountStep
    \/ \E s \in Seeder : ReconcileRead(s) \/ ReconcileSeed(s)
    \/ \E p \in DOMAIN bank : BankDecides(p)
    \/ \E c \in Operator : OperatorRelease(c)
    \/ \E h \in Harness : HarnessRelease(h)
    \/ \E c \in Caller : ReleaseStep(c)

Spec == Init /\ [][Next]_vars

-----------------------------------------------------------------------------
(* What the payments of a set come to: their running sum over the bank's list. *)
Total(payments) ==
    LET upTo[n \in 0..Len(bank)] ==
          IF n = 0 THEN 0
                   ELSE upTo[n - 1] + IF n \in payments THEN bank[n] ELSE 0
    IN  upTo[Len(bank)]

(* Whatever callers interleave or die, what the account calls spendable is    *)
(* exactly the initiations booked, each counted once; the bucket is charged   *)
(* for no more than that; and sent is the same sum until something else than  *)
(* a release writes it (a PATCH, a revenue split).                            *)
BooksAreBacked ==
    /\ account.spendable = Total(booked)
    /\ bucket <= account.spendable
    /\ ~foreign => account.sent = account.spendable

(* A completed settlement names a payment that was initiated at the bank, of  *)
(* which an id came back, and that the account has booked: the row written    *)
(* last never gets ahead of the account, and no made-up id gets into it.  It  *)
(* does not say that the bank has executed the payment, nor does the code.    *)
SettlementIsBooked ==
    /\ settled \subseteq booked
    /\ booked \subseteq DOMAIN bank \ dropped

(* Held money goes down only by the amount of one initiation whose id came    *)
(* back and that nobody has booked before: a refusal, a throw, a lost answer, *)
(* a crash or a PATCH leaves it untouched, and none is taken from it twice.   *)
HeldLeavesOnlyInitiated ==
    [][account'.held < account.held =>
         \E p \in DOMAIN bank \ (booked \cup dropped) :
            /\ account'.held = account.held - bank[p]
            /\ booked' = booked \cup {p}]_vars

(* Money the bank has moved is booked, or its id is in the hands of a call    *)
(* that will book it; it escapes the books only when no id came back or the   *)
(* caller died.  The bank may execute a payment long after it answered, when  *)
(* the call is over and nothing polls it: this is what booking at the answer, *)
(* before the outcome is known, is for.                                       *)
ExecutedIsKnown ==
    \A p \in DOMAIN bank :
        outcome[p] = "executed" =>
            \/ p \in booked \cup dropped
            \/ \E c \in Caller : call[c].pc = "initiated" /\ call[c].pay = p

(* As long as no two releases were in flight at once, the check is enough:    *)
(* held never goes below zero and the bucket never below what it was given.   *)
SerialReleasesAreCovered == ~overlap => account.held >= 0 /\ bucket <= Allocated

-----------------------------------------------------------------------------
(* What the comments promise. *)

(* release-engine.ts: a release "only ever moves value OUT of heldBalance     *)
(* (never exceeds it)", held being receipts attributed and not yet moved; so  *)
(* the same receipt is sent once.                                             *)
ReceiptsSentOnce == account.sent <= account.received
=============================================================================
