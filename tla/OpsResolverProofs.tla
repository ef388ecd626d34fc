------------------------- MODULE OpsResolverProofs -------------------------
(***************************************************************************)
(* What the operations desk can and cannot complete or lose, for any       *)
(* number of items, batches, callers and calls.  A handler writes from the *)
(* rows it read earlier, so the theorems rest on what a call in flight     *)
(* holds (FromOpenItems) and on what each write makes of it.               *)
(***************************************************************************)
EXTENDS OpsResolver, TLAPS

\* A batch handler in flight holds no item that it read waiting, and the
\* handlers of a batch alone hold no item at all.
FromOpenItems ==
  \A c \in Caller : op[c] # NoCall =>
    /\ op[c].act \in {"advance", "retryBatch", "paypal"} =>
         \A i \in DOMAIN op[c].seen : op[c].seen[i].status \notin Waiting
    /\ op[c].act \in {"recalculate", "approve"} => DOMAIN op[c].seen = {}

\* A row is written as a handler writes it: completed only on a reference the
\* guards take, which is then its receipt.
ProvenRow(row) == row.status = "completed" => row.ext \in GuardReal

-----------------------------------------------------------------------------
(* What the resolver writes *)

LEMMA RefFacts ==
  /\ GuardReal \subseteq ResolverReal /\ ResolverReal \subseteq Ref
  /\ "none" \notin ResolverReal /\ "minted" \notin ResolverReal /\ "real" \in ResolverReal
  /\ "none" \notin GuardReal
  /\ "none" \in Ref /\ "minted" \in Ref /\ "pp" \in Ref /\ "real" \in Ref
  BY DEF GuardReal, ResolverReal, Ref

LEMMA BuiltItemFacts ==
  ASSUME NEW r \in ItemRow, NEW preferred \in Ref, NEW fallback \in Ref
  PROVE  LET w == BuiltItem(r, preferred, fallback)
         IN  /\ w \in ItemRow
             /\ w.status = "completed" => w.ext = w.tref
             /\ preferred = "real" => w.tref = "real"
<1>1. CASE preferred \in ResolverReal
  BY <1>1, RefFacts DEF BuiltItem, ItemRow, ItemStatus
<1>2. CASE preferred \notin ResolverReal
  BY <1>2, RefFacts DEF BuiltItem, ItemRow, ItemStatus
<1> QED
  BY <1>1, <1>2

LEMMA BatchWriteFacts ==
  /\ \A s \in BatchStatus : Only(s) \in BatchWrite
  /\ \A r \in BatchRow : /\ BuiltBatch(r) \in BatchWrite
                         /\ [BuiltBatch(r) EXCEPT !.status = "processing"] \in BatchWrite
  /\ \A r \in BatchRow, w \in BatchWrite : Written(r, w) \in BatchRow
  /\ \A r \in BatchRow, w \in BatchWrite :
       Written(r, w).status = "completed" /\ ~Refused(w.ref, Written(r, w)) => Written(r, w).ref = "real"
  BY DEF Only, BuiltBatch, Written, BatchRow, BatchWrite, BatchStatus, Refused, GuardAccepts, GuardReal

LEMMA SeenFacts ==
  ASSUME NEW k \in CallRow
  PROVE  /\ DOMAIN k.seen \subseteq Item
         /\ \A i \in DOMAIN k.seen : k.seen[i] \in ItemRow
<1>1. PICK S \in SUBSET Item : k.seen \in [S -> ItemRow]
  BY DEF CallRow
<1> QED
  BY <1>1

\* What one item may be rewritten to.
LEMMA RewriteFacts ==
  ASSUME item \in [Item -> ItemRow], NEW k \in CallRow, NEW i \in DOMAIN k.seen,
         NEW row \in Rewrites(k, i)
  PROVE  /\ row \in ItemRow
         /\ row.status = "completed" => row.ext = row.tref /\ k.act # "recover"
         /\ row.tref = "real" \/ k.seen[i].tref # "real" \/ row.tref = item[i].tref
<1> DEFINE was == k.seen[i]
<1>1. i \in Item /\ was \in ItemRow /\ item[i] \in ItemRow
  BY SeenFacts
<1>2. was.tref \in Ref /\ RetryRef(was) \in Ref /\ (was.tref = "real" => RetryRef(was) = "real")
  BY <1>1, RefFacts DEF ItemRow, RetryRef
<1>3. \A r \in ItemRow : LET w == [r EXCEPT !.logged = item[i].logged]
                         IN  /\ w \in ItemRow /\ w.status = r.status
                             /\ w.tref = r.tref /\ w.ext = r.ext
  BY <1>1 DEF ItemRow
<1> DEFINE Good(r) == /\ r \in ItemRow
                      /\ r.status = "completed" => r.ext = r.tref /\ k.act # "recover"
                      /\ r.tref = "real" \/ was.tref # "real" \/ r.tref = item[i].tref
<1>4. k.act # "recover" => Good(BuiltItem(was, RetryRef(was), "minted"))
  BY <1>1, <1>2, RefFacts, BuiltItemFacts
<1>5. k.act # "recover" => Good(BuiltItem(was, was.tref, "minted")) /\ Good(BuiltItem(was, was.tref, "pp"))
  BY <1>1, <1>2, RefFacts, BuiltItemFacts
<1>6. Good([item[i] EXCEPT !.status = "failed", !.misplaced = TRUE])
  BY <1>1 DEF ItemRow, ItemStatus
<1>7. \E r : Good(r) /\ row = [r EXCEPT !.logged = item[i].logged]
  <2>1. CASE k.act \in {"retry", "retryBatch"}
    <3>1. row = [BuiltItem(was, RetryRef(was), "minted") EXCEPT !.logged = item[i].logged]
      BY <2>1 DEF Rewrites
    <3> QED
      BY <1>4, <2>1, <3>1
  <2>2. CASE k.act = "paypal"
    <3>1. \E f \in {"pp", "minted"} : row = [BuiltItem(was, was.tref, f) EXCEPT !.logged = item[i].logged]
      BY <2>2 DEF Rewrites
    <3> QED
      BY <1>5, <2>2, <3>1
  <2>3. CASE k.act = "recover"
    BY <1>6, <2>3 DEF Rewrites
  <2>4. CASE k.act \notin {"retry", "retryBatch", "paypal", "recover"}
    <3>1. row = [BuiltItem(was, was.tref, "minted") EXCEPT !.logged = item[i].logged]
      BY <2>4 DEF Rewrites
    <3> QED
      BY <1>5, <2>4, <3>1
  <2> QED
    BY <2>1, <2>2, <2>3, <2>4
<1>8. PICK r : Good(r) /\ row = [r EXCEPT !.logged = item[i].logged]
  BY <1>7
<1> QED
  BY <1>3, <1>8

-----------------------------------------------------------------------------
(* A call in flight *)

\* One caller goes on; the calls of the others stay.
LEMMA GoesFacts ==
  ASSUME TypeOK, FromOpenItems, NEW c \in Caller, NEW k, Goes(c, k),
         k = NoCall \/ /\ k \in CallRow
                       /\ k.act \in {"advance", "retryBatch", "paypal"} =>
                            \A i \in DOMAIN k.seen : k.seen[i].status \notin Waiting
                       /\ k.act \in {"recalculate", "approve"} => DOMAIN k.seen = {}
  PROVE  op' \in [Caller -> CallRow \cup {NoCall}] /\ FromOpenItems'
<1>1. op' \in [Caller -> CallRow \cup {NoCall}] /\ op'[c] = k /\ \A d \in Caller \ {c} : op'[d] = op[d]
  BY DEF Goes, TypeOK
<1>2. ASSUME NEW d \in Caller, op'[d] # NoCall
      PROVE  /\ op'[d].act \in {"advance", "retryBatch", "paypal"} =>
                  \A i \in DOMAIN op'[d].seen : op'[d].seen[i].status \notin Waiting
             /\ op'[d].act \in {"recalculate", "approve"} => DOMAIN op'[d].seen = {}
  <2>1. CASE d = c
    BY <1>1, <1>2, <2>1
  <2>2. CASE d # c
    BY <1>1, <1>2, <2>2 DEF FromOpenItems
  <2> QED
    BY <2>1, <2>2
<1> QED
  BY <1>1, <1>2 DEF FromOpenItems

LEMMA CallFacts ==
  ASSUME TypeOK, NEW act \in Act, NEW at \in Batch, NEW todo \in SUBSET Item
  PROVE  LET k == Call(act, at, todo)
         IN  /\ k \in CallRow /\ k.act = act /\ DOMAIN k.seen = todo
             /\ \A i \in todo : k.seen[i] = item[i]
<1>1. [i \in todo |-> item[i]] \in [todo -> ItemRow]
  BY DEF TypeOK
<1>2. [i \in todo |-> item[i]] \in UNION {[S -> ItemRow] : S \in SUBSET Item}
  BY <1>1
<1>3. batch[at] \in BatchRow /\ Only("processing") \in BatchWrite
  BY BatchWriteFacts DEF TypeOK, BatchStatus
<1> QED
  BY <1>2, <1>3 DEF Call, CallRow

\* A handler that goes on to its batch or returns holds what it held.
LEMMA ProceedFacts ==
  ASSUME NEW k \in CallRow
  PROVE  \/ Proceed(k) = NoCall
         \/ Proceed(k) \in CallRow /\ Proceed(k).act = k.act /\ Proceed(k).seen = k.seen
<1>1. /\ k.row \in BatchRow
      /\ \A w \in BatchWrite : /\ ToBatch(k, w) \in CallRow
                               /\ ToBatch(k, w).act = k.act /\ ToBatch(k, w).seen = k.seen
  BY DEF ToBatch, CallRow
<1>2. \A p \in {"failed", "recovery"} :
        /\ [k EXCEPT !.pc = p] \in CallRow
        /\ [k EXCEPT !.pc = p].act = k.act /\ [k EXCEPT !.pc = p].seen = k.seen
  BY DEF CallRow
<1>3. \/ AfterItems(k) = NoCall
      \/ \E w \in BatchWrite : AfterItems(k) = ToBatch(k, w)
      \/ \E p \in {"failed", "recovery"} : AfterItems(k) = [k EXCEPT !.pc = p]
  BY <1>1, BatchWriteFacts DEF AfterItems
<1> QED
  BY <1>1, <1>2, <1>3 DEF Proceed

\* A handler's read.
LEMMA ReadsFacts ==
  ASSUME TypeOK, FromOpenItems, NEW c \in Caller, NEW k \in CallRow, Reads(c, k),
         k.act \in {"advance", "retryBatch", "paypal"} =>
           \A i \in DOMAIN k.seen : k.seen[i].status \notin Waiting,
         k.act \notin {"recalculate", "approve"}
  PROVE  op' \in [Caller -> CallRow \cup {NoCall}] /\ FromOpenItems' /\ UNCHANGED rows
<1>1. Goes(c, Proceed(k)) /\ UNCHANGED rows
  BY DEF Reads
<1> QED
  BY <1>1, ProceedFacts, GoesFacts

\* The starts of the handlers of one item, of a batch and of its open items.
LEMMA HandlerReads ==
  ASSUME TypeOK, FromOpenItems, NEW c \in Caller,
         \/ \E i \in Item : RetryItem(c, i) \/ FlagPaymentMethod(c, i) \/ RecoverMisplaced(c, i)
         \/ \E b \in Batch : \/ AdvanceBatch(c, b) \/ RetryBatch(c, b) \/ AdvancePaypalBatch(c, b)
                             \/ RecalculateBatch(c, b) \/ ApproveBatch(c, b)
  PROVE  op' \in [Caller -> CallRow \cup {NoCall}] /\ FromOpenItems' /\ UNCHANGED rows
<1> DEFINE Held(S) == \A i \in S : item[i].status \notin Waiting
<1>1. ASSUME NEW i \in Item, RetryItem(c, i) \/ FlagPaymentMethod(c, i)
      PROVE  op' \in [Caller -> CallRow \cup {NoCall}] /\ FromOpenItems' /\ UNCHANGED rows
  <2>1. PICK a \in {"retry", "flag"} : Reads(c, Call(a, BatchOf[i], {i}))
    BY <1>1 DEF RetryItem, FlagPaymentMethod
  <2>2. BatchOf[i] \in Batch /\ a \in Act
    BY BatchAssumption DEF Act
  <2>3. Call(a, BatchOf[i], {i}) \in CallRow /\ Call(a, BatchOf[i], {i}).act = a
    BY <2>2, CallFacts
  <2> QED
    BY <2>1, <2>3, ReadsFacts
<1>2. ASSUME NEW i \in Item, RecoverMisplaced(c, i)
      PROVE  op' \in [Caller -> CallRow \cup {NoCall}] /\ FromOpenItems' /\ UNCHANGED rows
  <2> DEFINE k == Call("recover", BatchOf[i], {i})
  <2>1. k \in CallRow /\ k.act = "recover"
    BY BatchAssumption, CallFacts DEF Act
  <2>2. [k EXCEPT !.at = i] \in CallRow /\ [k EXCEPT !.at = i].act = "recover"
    BY <2>1 DEF CallRow
  <2> QED
    BY <1>2, <2>2, ReadsFacts DEF RecoverMisplaced
<1>3. ASSUME NEW b \in Batch, AdvanceBatch(c, b) \/ RetryBatch(c, b) \/ AdvancePaypalBatch(c, b)
      PROVE  op' \in [Caller -> CallRow \cup {NoCall}] /\ FromOpenItems' /\ UNCHANGED rows
  <2>1. PICK a \in {"advance", "retryBatch", "paypal"}, S \in SUBSET Item :
          Held(S) /\ Reads(c, Call(a, b, S))
    BY <1>3 DEF AdvanceBatch, RetryBatch, AdvancePaypalBatch, ItemsIn, Stat, Waiting
  <2>2. a \in Act
    BY DEF Act
  <2>3. /\ Call(a, b, S) \in CallRow /\ Call(a, b, S).act = a
        /\ \A i \in DOMAIN Call(a, b, S).seen : Call(a, b, S).seen[i].status \notin Waiting
    BY <2>1, <2>2, CallFacts
  <2> QED
    BY <2>1, <2>3, ReadsFacts
<1>4. ASSUME NEW b \in Batch, RecalculateBatch(c, b) \/ ApproveBatch(c, b)
      PROVE  op' \in [Caller -> CallRow \cup {NoCall}] /\ FromOpenItems' /\ UNCHANGED rows
  <2>1. PICK a \in {"recalculate", "approve"}, s \in BatchStatus :
          Goes(c, ToBatch(Call(a, b, {}), Only(s))) /\ UNCHANGED rows
    BY <1>4 DEF RecalculateBatch, ApproveBatch, BatchStatus
  <2>2. a \in Act /\ Only(s) \in BatchWrite
    BY BatchWriteFacts DEF Act
  <2>3. Call(a, b, {}) \in CallRow /\ Call(a, b, {}).act = a /\ DOMAIN Call(a, b, {}).seen = {}
    BY <2>2, CallFacts
  <2> DEFINE k == ToBatch(Call(a, b, {}), Only(s))
  <2>4. k \in CallRow /\ k.act = a /\ DOMAIN k.seen = {}
    BY <2>2, <2>3 DEF ToBatch, CallRow
  <2> QED
    BY <2>1, <2>4, GoesFacts
<1> QED
  BY <1>1, <1>2, <1>3, <1>4

-----------------------------------------------------------------------------
(* What a step does to the rows *)

\* An item is completed, and a reference lost, as the properties allow.
ItemMoves(i) ==
  /\ item'[i].status = "completed" =>
       \/ item[i].status = "completed" /\ item'[i].tref = item[i].tref /\ item'[i].ext = item[i].ext
       \/ item'[i].ext \in GuardReal
  /\ item[i].tref = "real" /\ item'[i].tref # "real" =>
       \E c \in Caller : Wrote(c, i) /\ op[c].seen[i].tref # "real"
  /\ item[i].status \in Waiting /\ item'[i].status = "completed" =>
       \E c \in Caller : /\ Wrote(c, i)
                         /\ op[c].act \in {"retry", "flag"} \/ op[c].seen[i].status \notin Waiting

ItemsMove == item' \in [Item -> ItemRow] /\ \A i \in Item : ItemMoves(i)

\* Only a provider's batch reference completes a batch.
BatchesMove ==
  /\ batch' \in [Batch -> BatchRow]
  /\ \A b \in Batch :
       batch'[b].status = "completed" => batch'[b].ref = "real" \/ batch'[b] = batch[b]

CallsMove == op' \in [Caller -> CallRow \cup {NoCall}] /\ FromOpenItems'

\* The auto-pilot completes nothing.
PilotMoves ==
  /\ \A i \in Item : item'[i].status = "completed" => item[i].status = "completed"
  /\ \A b \in Batch : batch'[b].status = "completed" => batch[b].status = "completed"

RowsMove == ItemsMove /\ BatchesMove /\ recov' \in [Item -> 0..Many] /\ CallsMove

LEMMA SameItems ==
  ASSUME TypeOK, item' = item
  PROVE  ItemsMove
  BY DEF TypeOK, ItemsMove, ItemMoves, Waiting

LEMMA SameBatches ==
  ASSUME TypeOK, batch' = batch
  PROVE  BatchesMove
  BY DEF TypeOK, BatchesMove

LEMMA SameCalls ==
  ASSUME TypeOK, FromOpenItems, op' = op
  PROVE  CallsMove
  BY DEF TypeOK, CallsMove, FromOpenItems

\* One row is rewritten outside a handler: it keeps its provider's reference
\* and is not completed.
LEMMA OneRow ==
  ASSUME TypeOK, NEW i \in Item, NEW row \in ItemRow, item' = [item EXCEPT ![i] = row],
         item[i].tref = "real" => row.tref = "real",
         row.status = "completed" => /\ item[i].status = "completed"
                                     /\ row.tref = item[i].tref /\ row.ext = item[i].ext
  PROVE  ItemsMove
<1>1. item'[i] = row /\ \A j \in Item \ {i} : item'[j] = item[j]
  BY DEF TypeOK
<1>2. ItemMoves(i)
  BY <1>1 DEF ItemMoves, Waiting
<1>3. \A j \in Item \ {i} : ItemMoves(j)
  BY <1>1 DEF ItemMoves, Waiting
<1> QED
  BY <1>2, <1>3 DEF TypeOK, ItemsMove

\* The step of a handler that writes an item.
LEMMA WriteItemMoves ==
  ASSUME TypeOK, FromOpenItems, NEW c \in Caller, WriteItem(c)
  PROVE  RowsMove
<1> DEFINE k == op[c]
           left(x) == [j \in DOMAIN k.seen \ {x} |-> k.seen[j]]
           next(x, r) == [k EXCEPT !.seen = left(x), !.bare = @ \/ LeavesBare(k, x, r)]
<1>1. k # NoCall /\ k \in CallRow
  BY DEF WriteItem, Busy, TypeOK
<1> DEFINE Did(i, row) ==
             \/ Refused(row.tref, row) /\ Throws(c)
             \/ /\ ~Refused(row.tref, row)
                /\ item' = [item EXCEPT ![i] = row]
                /\ Goes(c, Proceed(next(i, row)))
                /\ UNCHANGED <<batch, recov, all>>
<1>a. PICK i \in DOMAIN k.seen : \E row \in Rewrites(k, i) : Did(i, row)
  BY DEF WriteItem
<1>2. PICK row \in Rewrites(k, i) : Did(i, row)
  BY <1>a
<1>3. i \in Item /\ k.seen[i] \in ItemRow
  BY <1>1, SeenFacts
<1>4. CASE Throws(c)
  <2>1. UNCHANGED rows /\ CallsMove
    BY <1>4, GoesFacts DEF Throws, CallsMove
  <2> QED
    BY <2>1, SameItems, SameBatches DEF rows, RowsMove, TypeOK
<1>5. CASE /\ ~Refused(row.tref, row)
           /\ item' = [item EXCEPT ![i] = row]
           /\ Goes(c, Proceed(next(i, row)))
           /\ UNCHANGED <<batch, recov, all>>
  <2>1. /\ row \in ItemRow
        /\ row.status = "completed" => row.ext = row.tref /\ k.act # "recover"
        /\ row.tref = "real" \/ k.seen[i].tref # "real" \/ row.tref = item[i].tref
    BY <1>1, RewriteFacts DEF TypeOK
  <2>2. next(i, row) \in CallRow
    <3>1. left(i) \in UNION {[S -> ItemRow] : S \in SUBSET Item}
      <4>1. DOMAIN k.seen \ {i} \in SUBSET Item /\ left(i) \in [DOMAIN k.seen \ {i} -> ItemRow]
        BY <1>1, SeenFacts
      <4> QED
        BY <4>1
    <3>2. (k.bare \/ LeavesBare(k, i, row)) \in BOOLEAN
      BY <1>1, Zenon DEF LeavesBare, CallRow
    <3> QED
      BY <1>1, <3>1, <3>2 DEF CallRow
  <2>3. next(i, row).act = k.act /\ next(i, row).seen = left(i)
    BY <1>1 DEF CallRow
  <2>4. \/ Proceed(next(i, row)) = NoCall
        \/ /\ Proceed(next(i, row)) \in CallRow
           /\ Proceed(next(i, row)).act = k.act /\ Proceed(next(i, row)).seen = left(i)
    BY <2>2, <2>3, ProceedFacts
  <2>5. CallsMove
    <3>1. k.act \in {"advance", "retryBatch", "paypal"} =>
            \A j \in DOMAIN left(i) : left(i)[j].status \notin Waiting
      BY <1>1 DEF FromOpenItems
    <3>2. k.act \notin {"recalculate", "approve"}
      BY <1>1, <1>2 DEF FromOpenItems
    <3> HIDE DEF k, left, next
    <3> QED
      BY <1>5, <2>4, <3>1, <3>2, GoesFacts DEF CallsMove
  <2>6. Wrote(c, i)
    <3>1. Holds(c, i)
      BY <1>1, <1>2 DEF Holds
    <3>2. op'[c] = Proceed(next(i, row))
      BY <1>5 DEF Goes, TypeOK
    <3>3. i \notin DOMAIN left(i)
      OBVIOUS
    <3> HIDE DEF left, next
    <3> QED
      BY <2>4, <3>1, <3>2, <3>3 DEF Wrote, Holds
  <2>7. item'[i] = row /\ \A j \in Item \ {i} : item'[j] = item[j]
    BY <1>3, <1>5 DEF TypeOK
  <2>8. ItemMoves(i)
    <3>1. row.status = "completed" => row.ext \in GuardReal
      BY <1>5, <2>1 DEF Refused, GuardAccepts
    <3>2. item[i].tref = "real" /\ row.tref # "real" => k.seen[i].tref # "real"
      BY <2>1
    <3>3. row.status = "completed" => k.act \in {"retry", "flag"} \/ k.seen[i].status \notin Waiting
      <4>1. k.act \in Act /\ k.act \notin {"recalculate", "approve"}
        BY <1>1, <1>2 DEF CallRow, FromOpenItems
      <4>2. k.act \in {"advance", "retryBatch", "paypal"} => k.seen[i].status \notin Waiting
        BY <1>1, <1>2 DEF FromOpenItems
      <4> QED
        BY <2>1, <4>1, <4>2 DEF Act
    <3> QED
      BY <2>6, <2>7, <3>1, <3>2, <3>3 DEF ItemMoves
  <2>9. \A j \in Item \ {i} : ItemMoves(j)
    BY <2>7 DEF ItemMoves, Waiting
  <2>10. item' \in [Item -> ItemRow]
    BY <1>3, <1>5, <2>1 DEF TypeOK
  <2> QED
    BY <1>5, <2>5, <2>8, <2>9, <2>10, SameBatches DEF RowsMove, ItemsMove, TypeOK
<1> QED
  BY <1>2, <1>4, <1>5

\* A batch update: it is refused when it would complete without a reference.
LEMMA OneBatch ==
  ASSUME TypeOK, NEW b, NEW w \in BatchWrite,
         batch' = [batch EXCEPT ![b] = Written(batch[b], w)],
         ~Refused(w.ref, Written(batch[b], w))
  PROVE  BatchesMove
<1>1. CASE b \in Batch
  <2>1. batch[b] \in BatchRow
    BY <1>1 DEF TypeOK
  <2> QED
    BY <1>1, <2>1, BatchWriteFacts DEF TypeOK, BatchesMove
<1>2. CASE b \notin Batch
  BY <1>2 DEF TypeOK, BatchesMove
<1> QED
  BY <1>1, <1>2

\* The steps of a handler that count or write its batch.
LEMMA HandlerMoves ==
  ASSUME TypeOK, FromOpenItems, NEW c \in Caller, HandlerStep(c)
  PROVE  RowsMove
<1> DEFINE k == op[c]
           Held(h) == /\ h.act \in {"advance", "retryBatch", "paypal"} =>
                           \A i \in DOMAIN h.seen : h.seen[i].status \notin Waiting
                      /\ h.act \in {"recalculate", "approve"} => DOMAIN h.seen = {}
<1>1. k # NoCall => k \in CallRow /\ Held(k)
  BY DEF TypeOK, FromOpenItems
<1>2. ASSUME NEW w \in BatchWrite, k # NoCall
      PROVE  ToBatch(k, w) \in CallRow /\ Held(ToBatch(k, w))
  <2>1. ToBatch(k, w) \in CallRow /\ ToBatch(k, w).act = k.act /\ ToBatch(k, w).seen = k.seen
    BY <1>1, <1>2 DEF ToBatch, CallRow
  <2> QED
    BY <1>1, <1>2, <2>1
<1>3. CASE CountFailed(c)
  <2>1. k # NoCall /\ k.row \in BatchRow
    BY <1>1, <1>3 DEF CountFailed, Busy, CallRow
  <2>2. [k EXCEPT !.pc = "accounted"] \in CallRow /\ Held([k EXCEPT !.pc = "accounted"])
    <3>1. /\ [k EXCEPT !.pc = "accounted"] \in CallRow
          /\ [k EXCEPT !.pc = "accounted"].act = k.act /\ [k EXCEPT !.pc = "accounted"].seen = k.seen
      BY <1>1, <2>1 DEF CallRow
    <3> QED
      BY <1>1, <2>1, <3>1
  <2>3. Only("processing") \in BatchWrite /\ BuiltBatch(k.row) \in BatchWrite
    BY <2>1, BatchWriteFacts DEF BatchStatus
  <2>4. PICK h : Goes(c, h) /\ (h = NoCall \/ (h \in CallRow /\ Held(h)))
    <3>1. \/ Goes(c, NoCall) \/ Goes(c, [k EXCEPT !.pc = "accounted"])
          \/ Goes(c, ToBatch(k, Only("processing"))) \/ Goes(c, ToBatch(k, BuiltBatch(k.row)))
      <4>1. CASE k.act = "retry"
        BY <1>3, <4>1 DEF CountFailed
      <4>2. CASE k.act # "retry"
        BY <1>3, <4>2 DEF CountFailed
      <4> QED
        BY <4>1, <4>2
    <3> QED
      BY <1>2, <2>1, <2>2, <2>3, <3>1
  <2> QED
    BY <1>3, <2>4, GoesFacts, SameItems, SameBatches
    DEF CountFailed, rows, RowsMove, CallsMove, TypeOK
<1>4. CASE CountAccounted(c)
  <2>1. k # NoCall /\ k.row \in BatchRow
    BY <1>1, <1>4 DEF CountAccounted, Busy, CallRow
  <2>2. Only("processing") \in BatchWrite /\ BuiltBatch(k.row) \in BatchWrite
    BY <2>1, BatchWriteFacts DEF BatchStatus
  <2>3. PICK w \in BatchWrite : Goes(c, ToBatch(k, w))
    BY <1>4, <2>2 DEF CountAccounted
  <2>4. ToBatch(k, w) \in CallRow /\ Held(ToBatch(k, w))
    BY <1>2, <2>1
  <2>5. CallsMove
    BY <2>3, <2>4, GoesFacts DEF CallsMove
  <2> QED
    BY <1>4, <2>5, SameItems, SameBatches DEF CountAccounted, rows, RowsMove, TypeOK
<1>5. CASE WriteBatch(c)
  <2>1. Goes(c, NoCall) /\ UNCHANGED <<item, recov>>
    BY <1>5 DEF WriteBatch, Throws, rows
  <2>2. CallsMove
    BY <2>1, GoesFacts DEF CallsMove
  <2>3. BatchesMove
    <3>1. k # NoCall /\ k.write \in BatchWrite
      BY <1>1, <1>5 DEF WriteBatch, Busy, CallRow
    <3>2. \/ batch' = batch
          \/ /\ batch' = [batch EXCEPT ![k.at] = Written(batch[k.at], k.write)]
             /\ ~Refused(k.write.ref, Written(batch[k.at], k.write))
      BY <1>5 DEF WriteBatch, Throws, rows
    <3>3. ASSUME NEW b, NEW w \in BatchWrite, batch' = [batch EXCEPT ![b] = Written(batch[b], w)],
                 ~Refused(w.ref, Written(batch[b], w))
          PROVE  BatchesMove
      BY <3>3, OneBatch
    <3> HIDE DEF k
    <3>4. CASE batch' = batch
      BY <3>4, SameBatches
    <3>5. CASE batch' # batch
      BY <3>1, <3>2, <3>3, <3>5, Zenon
    <3> QED
      BY <3>4, <3>5
  <2> QED
    BY <2>1, <2>2, <2>3, SameItems DEF RowsMove, TypeOK
<1>6. CASE WriteRecovery(c)
  <2>1. CallsMove
    BY <1>6, GoesFacts DEF WriteRecovery, CallsMove
  <2>2. recov' \in [Item -> 0..Many]
    <3> DEFINE n == IF recov[k.at] < Many THEN recov[k.at] + 1 ELSE Many
    <3>1. recov \in [Item -> 0..Many] /\ recov' = [recov EXCEPT ![k.at] = n]
      BY <1>6 DEF WriteRecovery, TypeOK
    <3>2. k.at \in Item => n \in 0..Many
      BY <3>1 DEF Many
    <3> HIDE DEF k, n
    <3> QED
      BY <3>1, <3>2
  <2> QED
    BY <1>6, <2>1, <2>2, SameItems, SameBatches DEF WriteRecovery, RowsMove
<1> QED
  BY <1>3, <1>4, <1>5, <1>6, WriteItemMoves DEF HandlerStep

-----------------------------------------------------------------------------
(* What a step of the auto-pilot does *)

\* Its updates of a run keep it a run.
LEMMA RunFacts ==
  ASSUME TypeOK, pilot # Idle
  PROVE  /\ pilot \in PilotRun
         /\ \A T \in SUBSET (Item \cup Batch) : [pilot EXCEPT !.todo = T] \in PilotRun
         /\ \A R \in SUBSET Item, h \in BOOLEAN : [pilot EXCEPT !.read = R, !.held = h] \in PilotRun
         /\ PhaseThrows => pilot' \in PilotRun
<1>1. pilot \in PilotRun
  BY DEF TypeOK
<1> QED
  BY <1>1 DEF PilotRun, PhaseThrows

\* A batch update of the auto-pilot: with no reference in its payload the
\* guards refuse it when it would complete the batch.
LEMMA PilotSetsMoves ==
  ASSUME TypeOK, pilot # Idle, NEW b \in Batch, NEW s \in BatchStatus, PilotSets(b, s)
  PROVE  /\ BatchesMove /\ pilot' \in PilotRun /\ UNCHANGED <<item, recov, op, all, calls>>
         /\ \A x \in Batch : batch'[x].status = "completed" => batch[x].status = "completed"
<1> DEFINE row == Written(batch[b], Only(s))
<1>1. Only(s) \in BatchWrite /\ Only(s).ref = "keep"
  BY BatchWriteFacts DEF Only
<1>2. batch[b] \in BatchRow /\ row \in BatchRow
  BY <1>1, BatchWriteFacts DEF TypeOK
<1>3. /\ UNCHANGED <<item, recov, op, all, calls>>
      /\ \/ PhaseThrows /\ UNCHANGED batch
         \/ /\ ~Refused("none", row) /\ batch' = [batch EXCEPT ![b] = row]
            /\ pilot' = [pilot EXCEPT !.todo = @ \ {b}, !.at = {}, !.next = "processing"]
  BY DEF PilotSets
<1>4. [pilot EXCEPT !.todo = @ \ {b}, !.at = {}, !.next = "processing"] \in PilotRun
  BY RunFacts DEF PilotRun
<1>5. CASE UNCHANGED batch /\ PhaseThrows
  BY <1>3, <1>5, RunFacts, SameBatches
<1>6. CASE ~Refused("none", row) /\ batch' = [batch EXCEPT ![b] = row]
  <2>1. row.status # "completed" /\ ~Refused(Only(s).ref, row)
    BY <1>6, RefFacts DEF Refused, GuardAccepts
  <2>2. BatchesMove
    BY <1>1, <1>6, <2>1, OneBatch
  <2>3. \A x \in Batch : batch'[x].status = "completed" => batch[x].status = "completed"
    BY <1>6, <2>1 DEF TypeOK
  <2>4. pilot' \in PilotRun
    BY <1>3, <1>4, RunFacts
  <2> QED
    BY <1>3, <2>2, <2>3, <2>4
<1> QED
  BY <1>3, <1>5, <1>6

\* The auto-pilot writes the row of an item twice: it completes or parks it, and
\* its sweep sets it back to needs_proof.
LEMMA PilotItemMoves ==
  ASSUME TypeOK, NEW i \in Item, CompleteWithRealProof(i) \/ Quarantine(i)
  PROVE  /\ ItemsMove /\ pilot' \in PilotRun /\ UNCHANGED <<batch, recov, op, all, calls>>
         /\ \A x \in Item : item'[x].status = "completed" => item[x].status = "completed"
<1>1. item[i] \in ItemRow /\ pilot # Idle /\ pilot \in PilotRun
  BY RunFacts DEF TypeOK, CompleteWithRealProof, Quarantine, PilotIn
<1>2. pilot.read \ {i} \in SUBSET Item /\ pilot.held \in BOOLEAN
  BY <1>1 DEF PilotRun
<1>3. \A row \in ItemRow :
        /\ row.tref = item[i].tref /\ row.status # "completed" /\ item' = [item EXCEPT ![i] = row]
        => /\ ItemsMove
           /\ \A x \in Item : item'[x].status = "completed" => item[x].status = "completed"
  BY OneRow DEF TypeOK
<1>4. CASE CompleteWithRealProof(i)
  <2> DEFINE done == [item[i] EXCEPT !.status = "completed", !.misplaced = FALSE]
             held == pilot.held \/ i \notin pilot.real
  <2>1. done.status = "completed"
    BY <1>1 DEF ItemRow
  <2>2. Refused("none", done)
    BY <2>1, RefFacts DEF Refused, GuardAccepts
  <2>3. \/ PhaseThrows /\ UNCHANGED item
        \/ /\ item' = [item EXCEPT ![i] = Park(item[i])]
           /\ pilot' = [pilot EXCEPT !.read = @ \ {i}, !.held = held]
    BY <1>4, <2>2 DEF CompleteWithRealProof
  <2>4. Park(item[i]) \in ItemRow /\ Park(item[i]).tref = item[i].tref
        /\ Park(item[i]).status # "completed"
    BY <1>1 DEF Park, ItemRow, ItemStatus
  <2>5. pilot' \in PilotRun
    <3>1. held \in BOOLEAN
      BY <1>2, Zenon
    <3>2. [pilot EXCEPT !.read = pilot.read \ {i}, !.held = held] \in PilotRun
      BY <1>1, <1>2, <3>1, RunFacts
    <3> QED
      BY <1>1, <2>3, <3>2, RunFacts
  <2> QED
    BY <1>3, <1>4, <2>3, <2>4, <2>5, SameItems DEF CompleteWithRealProof
<1>5. CASE Quarantine(i)
  <2> DEFINE row == [item[i] EXCEPT !.status = "needs_proof"]
  <2>1. row \in ItemRow /\ row.tref = item[i].tref /\ row.status # "completed"
    BY <1>1 DEF ItemRow, ItemStatus
  <2>2. item' = [item EXCEPT ![i] = row]
    BY <1>5 DEF Quarantine
  <2>3. pilot' \in PilotRun
    BY <1>1, <1>2, <1>5 DEF Quarantine, PilotRun
  <2> QED
    BY <1>3, <1>5, <2>1, <2>2, <2>3 DEF Quarantine
<1> QED
  BY <1>4, <1>5

\* The lists of a phase are lists of rows.
LEMMA EnterFacts ==
  /\ \A p \in 1..LastPilot : EnterPilot(p) \in PilotRun
  /\ \A p \in 1..LastAll : [phase |-> p, todo |-> AllRows(p)] \in AllRun
<1>1. \A ss : ItemsIn(ss) \in SUBSET Item /\ BatchesIn(ss) \in SUBSET Batch
  BY DEF ItemsIn, BatchesIn
<1>2. \A bs, ss : OpenIn(bs, ss) \in SUBSET Item /\ NoneIn(bs, ss) \in SUBSET Batch
  BY DEF OpenIn, NoneIn, ItemsIn, BatchesIn
<1>3. ASSUME NEW p \in 1..LastPilot PROVE EnterPilot(p) \in PilotRun
  <2>1. PilotRead(p) \in SUBSET Item
    BY <1>1, <1>2 DEF PilotRead
  <2>2. PilotTodo(p) \in SUBSET (Item \cup Batch)
    <3>1. {i \in Item : item[i].logged} \in SUBSET (Item \cup Batch)
      OBVIOUS
    <3> QED
      BY <1>1, <1>2, <3>1 DEF PilotTodo
  <2>3. RealNow \in SUBSET Item
    BY DEF RealNow
  <2> QED
    BY <2>1, <2>2, <2>3 DEF EnterPilot, PilotRun
<1>4. /\ \A p \in {1, 5, 6, 7} : AllRows(p) \in SUBSET Item
      /\ \A p \in {2, 3, 4} : AllRows(p) \in SUBSET Batch
  BY <1>1 DEF AllRows
<1>5. \A p \in 1..LastAll : p \in {1, 5, 6, 7} \/ p \in {2, 3, 4}
  BY DEF LastAll
<1> QED
  BY <1>3, <1>4, <1>5 DEF AllRun

\* Every step of the auto-pilot.
LEMMA PilotStepMoves ==
  ASSUME TypeOK, PilotStep
  PROVE  /\ ItemsMove /\ BatchesMove /\ PilotMoves
         /\ pilot' \in PilotRun \cup {Idle} /\ UNCHANGED <<recov, op, all, calls>>
<1> DEFINE Still == UNCHANGED <<rows, op, all, calls>> /\ pilot' \in PilotRun \cup {Idle}
<1>1. CASE Still
  BY <1>1, SameItems, SameBatches DEF rows, PilotMoves
<1>2. ASSUME NEW i \in Item, CompleteWithRealProof(i) \/ Quarantine(i)
      PROVE  /\ ItemsMove /\ BatchesMove /\ PilotMoves
             /\ pilot' \in PilotRun \cup {Idle} /\ UNCHANGED <<recov, op, all, calls>>
  BY <1>2, PilotItemMoves, SameBatches DEF PilotMoves
<1>3. ASSUME NEW i \in Item, PilotReconcile(i) PROVE Still
  <2>1. pilot # Idle /\ pilot \in PilotRun
    BY <1>3, RunFacts DEF PilotReconcile, PilotIn
  <2> QED
    BY <1>3, <2>1 DEF PilotReconcile, PilotRun, RealNow
<1>4. ASSUME NEW b \in Batch, PilotApprove(b)
      PROVE  /\ ItemsMove /\ BatchesMove /\ PilotMoves
             /\ pilot' \in PilotRun \cup {Idle} /\ UNCHANGED <<recov, op, all, calls>>
  <2>1. pilot # Idle /\ pilot \in PilotRun
    BY <1>4, RunFacts DEF PilotApprove, PilotIn
  <2>2. pilot' \in PilotRun
    BY <1>4, <2>1 DEF PilotApprove, PilotRun
  <2>3. batch' = batch \/ batch' = [batch EXCEPT ![b].status = "approved"]
    BY <1>4 DEF PilotApprove
  <2>4. batch[b] \in BatchRow /\ \A x \in Batch : batch[x] \in BatchRow
    BY DEF TypeOK
  <2>5. /\ batch' \in [Batch -> BatchRow]
        /\ \A x \in Batch : batch'[x] = batch[x] \/ batch'[x].status = "approved"
    BY <2>3, <2>4 DEF TypeOK, BatchRow, BatchStatus
  <2> QED
    BY <1>4, <2>2, <2>5, SameItems DEF PilotApprove, BatchesMove, PilotMoves
<1>5. ASSUME NEW b \in Batch, PilotCompleteBatch(b) \/ PilotSetStatus(b) \/ PilotCloseBatch(b)
      PROVE  /\ ItemsMove /\ BatchesMove /\ PilotMoves
             /\ pilot' \in PilotRun \cup {Idle} /\ UNCHANGED <<recov, op, all, calls>>
  <2>1. pilot # Idle /\ pilot.next \in BatchStatus
    BY <1>5, RunFacts DEF PilotCompleteBatch, PilotSetStatus, PilotCloseBatch, PilotIn, PilotRun, BatchStatus
  <2>2. PICK s \in BatchStatus : PilotSets(b, s)
    BY <1>5, <2>1 DEF PilotCompleteBatch, PilotSetStatus, PilotCloseBatch, BatchStatus
  <2> QED
    BY <2>1, <2>2, PilotSetsMoves, SameItems DEF PilotMoves
<1>6. ASSUME NEW b \in Batch, PilotRecalculate(b) \/ PilotRetryBatch(b) \/ PilotCheckBatch(b)
      PROVE  Still
  <2>1. pilot # Idle /\ pilot \in PilotRun
    BY <1>6, RunFacts DEF PilotRecalculate, PilotRetryBatch, PilotCheckBatch, PilotIn
  <2>2. CASE PilotRecalculate(b)
    BY <2>1, <2>2 DEF PilotRecalculate, PilotRun
  <2>3. CASE PilotRetryBatch(b)
    BY <2>1, <2>3 DEF PilotRetryBatch, PilotRun, RealNow, Of
  <2>4. CASE PilotCheckBatch(b)
    <3>1. [pilot EXCEPT !.next = "completed"] \in PilotRun
      BY <2>1 DEF PilotRun
    <3>2. [pilot EXCEPT !.todo = @ \ {b}, !.at = {}] \in PilotRun
      BY <2>1 DEF PilotRun
    <3> QED
      BY <2>4, <3>1, <3>2 DEF PilotCheckBatch
  <2> QED
    BY <1>6, <2>2, <2>3, <2>4
<1>7. CASE PilotNextPhase
  <2>1. pilot # Idle /\ pilot \in PilotRun
    BY <1>7, RunFacts DEF PilotNextPhase
  <2>2. pilot.phase # LastPilot => pilot.phase + 1 \in 1..LastPilot
    BY <2>1 DEF PilotRun, LastPilot
  <2>3. Still
    BY <1>7, <2>2, EnterFacts DEF PilotNextPhase
  <2> QED
    BY <1>1, <2>3
<1> QED
  BY <1>1, <1>2, <1>3, <1>4, <1>5, <1>6, <1>7 DEF PilotStep

-----------------------------------------------------------------------------
(* Every step *)

RunsMove == all' \in AllRun \cup {Idle} /\ pilot' \in PilotRun \cup {Idle} /\ calls' \in Nat

LEMMA LoggedRow ==
  ASSUME TypeOK, NEW i \in Item, item' = [item EXCEPT ![i].logged = TRUE]
  PROVE  ItemsMove
<1> DEFINE row == [item[i] EXCEPT !.logged = TRUE]
<1>1. item[i] \in ItemRow /\ item' = [item EXCEPT ![i] = row]
  BY DEF TypeOK
<1>2. row \in ItemRow /\ row.tref = item[i].tref /\ row.ext = item[i].ext /\ row.status = item[i].status
  BY <1>1 DEF ItemRow
<1> QED
  BY <1>1, <1>2, OneRow

LEMMA ReceiptRow ==
  ASSUME TypeOK, NEW i \in Item, AttachReceipt(i)
  PROVE  ItemsMove
<1>1. item[i] \in ItemRow /\ item[i].status # "completed"
  BY DEF TypeOK, AttachReceipt, Stat
<1>2. PICK row \in ItemRow : /\ item' = [item EXCEPT ![i] = row] /\ row.status = item[i].status
                             /\ row.tref \in {item[i].tref, "real"}
  <2>1. CASE item' = [item EXCEPT ![i].tref = "real"]
    <3>1. [item[i] EXCEPT !.tref = "real"] \in ItemRow
      BY <1>1, RefFacts DEF ItemRow
    <3> QED
      BY <1>1, <2>1, <3>1 DEF ItemRow
  <2>2. CASE item' = [item EXCEPT ![i].ext = "real"]
    <3>1. [item[i] EXCEPT !.ext = "real"] \in ItemRow
      BY <1>1, RefFacts DEF ItemRow
    <3> QED
      BY <1>1, <2>2, <3>1 DEF ItemRow
  <2> QED
    BY <2>1, <2>2 DEF AttachReceipt
<1> QED
  BY <1>1, <1>2, OneRow

\* A call of a handler, by whoever makes it.
LEMMA CallMoves ==
  ASSUME TypeOK, FromOpenItems, NEW c \in Caller,
         \/ \E i \in Item : \/ RetryItem(c, i) \/ FlagPaymentMethod(c, i)
                            \/ RecoverMisplaced(c, i) \/ ReconcileTransaction(i)
         \/ \E b \in Batch : \/ AdvanceBatch(c, b) \/ RetryBatch(c, b) \/ AdvancePaypalBatch(c, b)
                             \/ RecalculateBatch(c, b) \/ ApproveBatch(c, b)
  PROVE  RowsMove
<1>1. ASSUME NEW i \in Item, ReconcileTransaction(i) PROVE RowsMove
  BY <1>1, LoggedRow, SameBatches, SameCalls DEF ReconcileTransaction, RowsMove, TypeOK
<1>2. CASE op' \in [Caller -> CallRow \cup {NoCall}] /\ FromOpenItems' /\ UNCHANGED rows
  BY <1>2, SameItems, SameBatches DEF rows, RowsMove, CallsMove, TypeOK
<1> QED
  BY <1>1, <1>2, HandlerReads

LEMMA AllCallMoves ==
  ASSUME TypeOK, FromOpenItems, AllCall
  PROVE  RowsMove /\ all' \in AllRun
<1>1. PICK x \in all.todo : AllHandler(all.phase, x) /\ all' = [all EXCEPT !.todo = @ \ {x}]
  BY DEF AllCall
<1>2. all \in AllRun
  BY DEF AllCall, TypeOK
<1>3. /\ \/ all.phase \in {1, 5, 6, 7} /\ x \in Item
         \/ all.phase \in {2, 3, 4} /\ x \in Batch
      /\ all' \in AllRun
  <2>1. CASE all \in [phase : {1, 5, 6, 7}, todo : SUBSET Item]
    BY <1>1, <2>1 DEF AllRun
  <2>2. CASE all \in [phase : {2, 3, 4}, todo : SUBSET Batch]
    BY <1>1, <2>2 DEF AllRun
  <2> QED
    BY <1>2, <2>1, <2>2 DEF AllRun
<1>4. Run \in Caller
  BY DEF Caller
<1> QED
  BY <1>1, <1>3, <1>4, CallMoves DEF AllHandler

\* The only steps that complete an item or a batch are those of a handler and of
\* the auto-pilot, and the auto-pilot's complete none.
LEMMA NextMoves ==
  ASSUME TypeOK, FromOpenItems, [Next]_vars
  PROVE  RowsMove /\ RunsMove /\ (pilot' # pilot => PilotMoves)
<1>1. CASE UNCHANGED rows /\ UNCHANGED op /\ RunsMove
  BY <1>1, SameItems, SameBatches, SameCalls DEF rows, RowsMove, TypeOK, PilotMoves
<1>2. CASE UNCHANGED vars
  BY <1>1, <1>2 DEF vars, RunsMove, TypeOK
<1>3. calls < MaxCalls /\ calls' = calls + 1 => calls' \in Nat
  BY DEF TypeOK
<1>4. CASE calls' \in Nat /\ Single
  <2>1. CASE StartAll
    <3>1. [phase |-> 1, todo |-> AllRows(1)] \in AllRun
      BY EnterFacts DEF LastAll
    <3> QED
      BY <1>1, <1>4, <2>1, <3>1 DEF StartAll, RunsMove, TypeOK
  <2>2. CASE StartPilot
    <3>1. EnterPilot(1) \in PilotRun
      BY EnterFacts DEF LastPilot
    <3> QED
      BY <1>1, <1>4, <2>2, <3>1 DEF StartPilot, RunsMove, TypeOK
  <2>3. ASSUME NEW d \in Desk, OpCall(d)
        PROVE  RowsMove /\ RunsMove /\ (pilot' # pilot => PilotMoves)
    <3>1. d \in Caller
      BY DEF Caller
    <3>2. RowsMove
      BY <2>3, <3>1, CallMoves DEF OpCall
    <3> QED
      BY <1>4, <2>3, <3>2 DEF OpCall, RunsMove, TypeOK
  <2>4. ASSUME NEW i \in Item, AttachReceipt(i)
        PROVE  RowsMove /\ RunsMove /\ (pilot' # pilot => PilotMoves)
    BY <1>4, <2>4, ReceiptRow, SameBatches, SameCalls DEF AttachReceipt, RowsMove, RunsMove, TypeOK
  <2> QED
    BY <1>4, <2>1, <2>2, <2>3, <2>4 DEF Single
<1>5. ASSUME NEW c \in Caller, HandlerStep(c)
      PROVE  RowsMove /\ RunsMove /\ (pilot' # pilot => PilotMoves)
  <2>1. UNCHANGED <<pilot, calls>> /\ (all' = all \/ all' = Idle)
    BY <1>5 DEF HandlerStep, WriteItem, CountFailed, CountAccounted, WriteBatch, WriteRecovery, Throws
  <2> QED
    BY <1>5, <2>1, HandlerMoves DEF RunsMove, TypeOK
<1>6. CASE AllCall
  BY <1>6, AllCallMoves DEF AllCall, RunsMove, TypeOK
<1>7. CASE AllNextPhase
  <2>1. all \in AllRun /\ UNCHANGED <<rows, op, pilot, calls>>
    BY <1>7 DEF AllNextPhase, TypeOK
  <2>2. all.phase \in 1..LastAll
    BY <2>1 DEF AllRun, LastAll
  <2>3. all.phase # LastAll => [phase |-> all.phase + 1, todo |-> AllRows(all.phase + 1)] \in AllRun
    BY <2>2, EnterFacts DEF LastAll
  <2>4. all' \in AllRun \cup {Idle}
    BY <1>7, <2>3 DEF AllNextPhase
  <2> QED
    BY <1>1, <2>1, <2>4 DEF RunsMove, TypeOK
<1>8. CASE PilotStep
  <2>1. FromOpenItems'
    BY <1>8, PilotStepMoves, SameCalls DEF CallsMove
  <2> QED
    BY <1>8, <2>1, PilotStepMoves DEF RowsMove, CallsMove, RunsMove, TypeOK
<1> QED
  BY <1>2, <1>3, <1>4, <1>5, <1>6, <1>7, <1>8 DEF Next

-----------------------------------------------------------------------------
(* The theorems *)

\* The inductive invariant: rows and calls of their types, and what a call in
\* flight may hold.
Inv == TypeOK /\ FromOpenItems

THEOREM Invariant == Spec => []Inv
<1>1. Init => Inv
  BY FirstAssumption DEF Init, Inv, TypeOK, FromOpenItems, Many
<1>2. Inv /\ [Next]_vars => Inv'
  BY NextMoves DEF Inv, TypeOK, RowsMove, ItemsMove, BatchesMove, CallsMove, RunsMove
<1> QED
  BY <1>1, <1>2, PTL DEF Spec

\* Rows, calls in flight and runs keep their types, for any number of callers.
THEOREM TypeCorrect == Spec => []TypeOK
  BY Invariant, PTL DEF Inv

\* However calls and runs interleave, write from outdated reads or are cut
\* short, a completed item carries a provider's reference or the one of
\* advance_paypal_batch, and no other reference the code mints.
THEOREM OnlyThePaypalReferenceSlips == NoPhantoms => (Spec => []OnlyPaypalRefSlips)
<1>1. NoPhantoms /\ Init => OnlyPaypalRefSlips
  BY DEF NoPhantoms, Init, OnlyPaypalRefSlips, Stat, Receipt, GuardReal
<1>2. Inv /\ OnlyPaypalRefSlips /\ [Next]_vars => OnlyPaypalRefSlips'
  <2> SUFFICES ASSUME Inv, OnlyPaypalRefSlips, [Next]_vars, NEW i \in Item,
                      item'[i].status = "completed"
               PROVE  ReceiptOf(item'[i]) \in {"real", "pp"}
    BY DEF OnlyPaypalRefSlips, Stat, Receipt
  <2>1. CASE item[i].status = "completed" /\ item'[i].tref = item[i].tref
                                          /\ item'[i].ext = item[i].ext
    BY <2>1 DEF OnlyPaypalRefSlips, Stat, Receipt, ReceiptOf
  <2>2. CASE item'[i].ext \in GuardReal
    BY <2>2 DEF ReceiptOf, GuardReal
  <2> QED
    BY <2>1, <2>2, NextMoves DEF Inv, RowsMove, ItemsMove, ItemMoves
<1> QED
  BY <1>1, <1>2, Invariant, PTL DEF Spec

\* A completed batch carries a provider's batch reference, whichever handler or
\* run completed it and however old its read of the batch was.
THEOREM CompletedBatchesAreProven == NoPhantoms => (Spec => []CompletedBatchIsProven)
<1>1. NoPhantoms /\ Init => CompletedBatchIsProven
  BY DEF NoPhantoms, Init, CompletedBatchIsProven
<1>2. Inv /\ CompletedBatchIsProven /\ [Next]_vars => CompletedBatchIsProven'
  BY NextMoves DEF Inv, CompletedBatchIsProven, RowsMove, BatchesMove
<1> QED
  BY <1>1, <1>2, Invariant, PTL DEF Spec

\* The auto-pilot completes no item and no batch, in any phase and whatever the
\* other runs and calls do meanwhile.
THEOREM PilotCompletesNothing == Spec => AutoPilotCompletesNothing
<1>1. Inv /\ [Next]_vars =>
        [pilot' # pilot =>
           /\ \A i \in Item : item'[i].status = "completed" => Stat(i) = "completed"
           /\ \A b \in Batch : batch'[b].status = "completed"
                                 => batch[b].status = "completed"]_vars
  BY NextMoves DEF Inv, PilotMoves, Stat
<1> QED
  BY <1>1, Invariant, PTL DEF Spec, AutoPilotCompletesNothing

\* A provider's transaction reference is lost only by a handler that read the
\* row before the reference was on it.
THEOREM RealRefsAreLostToStaleReads == Spec => RealRefLostToStaleReadOnly
<1>1. Inv /\ [Next]_vars =>
        [\A i \in Item :
           item[i].tref = "real" /\ item'[i].tref # "real"
             => \E c \in Caller : Wrote(c, i) /\ op[c].seen[i].tref # "real"]_vars
  BY NextMoves DEF Inv, RowsMove, ItemsMove, ItemMoves
<1> QED
  BY <1>1, Invariant, PTL DEF Spec, RealRefLostToStaleReadOnly

\* An item that waits for a receipt is completed by a call about that item, or
\* by a batch handler that read it before it came to wait.
THEOREM WaitingIsCompletedByHand == Spec => WaitingNeedsAHand
<1>1. Inv /\ [Next]_vars =>
        [\A i \in Item :
           Stat(i) \in Waiting /\ item'[i].status = "completed"
             => \E c \in Caller :
                  /\ Wrote(c, i)
                  /\ op[c].act \in {"retry", "flag"} \/ op[c].seen[i].status \notin Waiting]_vars
  BY NextMoves DEF Inv, RowsMove, ItemsMove, ItemMoves, Stat
<1> QED
  BY <1>1, Invariant, PTL DEF Spec, WaitingNeedsAHand
=============================================================================
