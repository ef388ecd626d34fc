--------------------------- MODULE LedgerLockProofs ---------------------------
(* Proofs about AuthoritativeLedger, for every set of processes and any number *)
(* of attempts, lines and crashes: until a cleanup unlinks a live lock, the    *)
(* lock file excludes, and what is written under it is one chain.              *)
EXTENDS AuthoritativeLedger, TLAPS

Earlier(i) == {j \in Readable(file) : j < i}

(* Who is inside knows the last line; who is about to write an event of an    *)
(* append has a line to chain to; a nested acquisition never succeeds.        *)
Knows(p) ==
    /\ pc[p] = "write" => /\ ~nested[p]
                          /\ LastLine(file, last[p])
                          /\ last[p] = 0 => op[p] # "append"
    /\ nested[p] => pc[p] \in {"stat", "unlink", "open"}

Exclusive ==
    /\ TypeOK
    /\ ~stolen =>
        /\ \A p \in Proc : Inside(p) => lock = p
        /\ \A p \in Proc : Knows(p)

Chained == ~stolen => \A i \in Readable(file) :
                        /\ IsLastOf(file[i].prev, Earlier(i))
                        /\ file[i].prev = 0 => file[i].boot

-----------------------------------------------------------------------------
(* What appending a line does to the set of readable lines. *)
LEMMA AppendReadable ==
  ASSUME NEW lines \in Seq(Line), NEW line \in Line
  PROVE  LET after == Append(lines, line)
             n == Len(lines) + 1
         IN  /\ after \in Seq(Line)
             /\ Len(after) = n
             /\ after[n] = line
             /\ \A i \in DOMAIN lines : after[i] = lines[i]
             /\ \A i \in Readable(lines) : i \in Nat /\ i < n
             /\ line.torn => Readable(after) = Readable(lines)
             /\ ~line.torn => Readable(after) = Readable(lines) \cup {n}
<1> DEFINE after == Append(lines, line)
           n == Len(lines) + 1
<1>1. /\ after \in Seq(Line) /\ Len(after) = n /\ after[n] = line
      /\ \A i \in DOMAIN lines : after[i] = lines[i]
      /\ DOMAIN lines = 1..Len(lines) /\ DOMAIN after = 1..n
      /\ Len(lines) \in Nat
  OBVIOUS
<1>2. \A i \in DOMAIN lines : i \in Nat /\ i < n
  BY <1>1
<1>3. DOMAIN after = DOMAIN lines \cup {n} /\ n \notin DOMAIN lines
  BY <1>1
<1> HIDE DEF after, n
<1>4. line.torn => Readable(after) = Readable(lines)
  BY <1>1, <1>3 DEF Readable
<1>5. ~line.torn => Readable(after) = Readable(lines) \cup {n}
  BY <1>1, <1>3 DEF Readable
<1> QED
  BY <1>1, <1>2, <1>4, <1>5 DEF Readable, after, n

LEMMA AppendLength ==
  ASSUME NEW lines \in Seq(Line), NEW line \in Line, NEW after, after = Append(lines, line)
  PROVE  /\ after \in Seq(Line)
         /\ Len(after) = Len(lines) + 1
         /\ Len(lines) \in Nat
  OBVIOUS

LEMMA NewLineType ==
  ASSUME TypeOK, NEW p \in Proc, NEW torn \in BOOLEAN
  PROVE  /\ NewLine(p, torn) \in Line
         /\ NewLine(p, torn).torn = torn
         /\ NewLine(p, torn).prev = last[p]
         /\ NewLine(p, torn).by = op[p]
         /\ NewLine(p, torn).boot = (op[p] # "append" \/ nested[p])
  BY DEF TypeOK, NewLine, Line

LEMMA ExclusiveInit == Init => Exclusive
<1> SUFFICES ASSUME Init PROVE Exclusive
  OBVIOUS
<1>1. TypeOK
  <2>1. file \in Seq(Line) /\ 0 \in 0..Len(file)
    BY DEF Init
  <2>2. Attempts \in 0..Attempts
    BY LedgerAssumption
  <2> QED
    BY <2>1, <2>2 DEF Init, TypeOK, PC, Op
<1> QED
  BY <1>1 DEF Init, Exclusive, Inside, Knows

-----------------------------------------------------------------------------
(* Types. *)
LEMMA TypeStep == TypeOK /\ [Next]_vars => TypeOK'
<1> SUFFICES ASSUME TypeOK, [Next]_vars PROVE TypeOK'
  OBVIOUS
<1> USE DEF TypeOK, PC, Op
<1>1. CASE UNCHANGED vars
  BY <1>1 DEF vars
<1>2. CASE Age
  BY <1>2 DEF Age
<1>3. ASSUME NEW p \in Proc, Call(p) PROVE TypeOK'
  <2>1. PICK o \in Op : op' = [op EXCEPT ![p] = o]
    BY <1>3 DEF Call
  <2>2. op' \in [Proc -> Op] /\ Attempts \in 0..Attempts /\ 0 \in 0..Len(file)
    BY <2>1, LedgerAssumption
  <2> QED
    BY <1>3, <2>2 DEF Call
<1>4. ASSUME NEW p \in Proc, Stat(p) PROVE TypeOK'
  BY <1>4 DEF Stat
<1>5. ASSUME NEW p \in Proc, Unlink(p) PROVE TypeOK'
  BY <1>5 DEF Unlink
<1>6. ASSUME NEW p \in Proc, Open(p) PROVE TypeOK'
  BY <1>6 DEF Open
<1>7. ASSUME NEW p \in Proc, Retry(p) PROVE TypeOK'
  <2>1. tries[p] - 1 \in 0..Attempts
    BY <1>7, LedgerAssumption DEF Retry
  <2> QED
    BY <1>7, <2>1 DEF Retry
<1>8. ASSUME NEW p \in Proc, Read(p) PROVE TypeOK'
  <2>1. Attempts \in 0..Attempts
    BY LedgerAssumption
  <2>2. PICK i \in 0..Len(file) : last' = [last EXCEPT ![p] = i]
    BY <1>8 DEF Read
  <2>3. last' \in [Proc -> 0..Len(file)]
    BY <2>2
  <2>4. /\ pc' \in [Proc -> PC] /\ nested' \in [Proc -> BOOLEAN]
        /\ tries' \in [Proc -> 0..Attempts]
    BY <1>8, <2>1 DEF Read
  <2> QED
    BY <1>8, <2>3, <2>4 DEF Read
<1>9. ASSUME NEW p \in Proc, Write(p) PROVE TypeOK'
  <2>1. file' \in Seq(Line) /\ Len(file') = Len(file) + 1 /\ Len(file) \in Nat
    <3>1. NewLine(p, FALSE) \in Line
      BY NewLineType
    <3>2. file' = Append(file, NewLine(p, FALSE)) /\ file \in Seq(Line)
      BY <1>9 DEF Write
    <3> HIDE DEF TypeOK
    <3> QED
      BY <3>1, <3>2, AppendLength, Zenon
  <2>2. last' \in [Proc -> 0..Len(file')]
    <3>1. last' = [last EXCEPT ![p] = Len(file) + 1] /\ last \in [Proc -> 0..Len(file)]
      BY <1>9 DEF Write
    <3>2. 0..Len(file) \subseteq 0..Len(file') /\ Len(file) + 1 \in 0..Len(file')
      BY <2>1
    <3> QED
      BY <3>1, <3>2, Zenon
  <2> QED
    BY <1>9, <2>1, <2>2 DEF Write
<1>10. ASSUME NEW p \in Proc, Release(p) PROVE TypeOK'
  BY <1>10 DEF Release
<1>11. ASSUME NEW p \in Proc, Crash(p) PROVE TypeOK'
  <2>1. file' \in Seq(Line) /\ Len(file') >= Len(file) /\ Len(file) \in Nat /\ Len(file') \in Nat
    <3>1. NewLine(p, TRUE) \in Line
      BY NewLineType
    <3>2. file' = file \/ file' = Append(file, NewLine(p, TRUE))
      BY <1>11 DEF Crash
    <3>3. file \in Seq(Line)
      OBVIOUS
    <3>4. CASE file' = file
      BY <3>3, <3>4
    <3>5. CASE file' = Append(file, NewLine(p, TRUE))
      <4> HIDE DEF TypeOK
      <4>1. file' \in Seq(Line) /\ Len(file') = Len(file) + 1 /\ Len(file) \in Nat
        BY <3>1, <3>3, <3>5, AppendLength, Zenon
      <4> QED
        BY <4>1
    <3> QED
      BY <3>2, <3>4, <3>5
  <2>2. last' \in [Proc -> 0..Len(file')]
    BY <1>11, <2>1 DEF Crash
  <2>3. lock' \in Proc \cup {Free, Orphan, Stale}
    BY <1>11 DEF Crash
  <2>4. pc' \in [Proc -> PC] /\ nested' \in [Proc -> BOOLEAN]
    BY <1>11 DEF Crash
  <2> QED
    BY <1>11, <2>1, <2>2, <2>3, <2>4 DEF Crash
<1> QED
  BY <1>1, <1>2, <1>3, <1>4, <1>5, <1>6, <1>7, <1>8, <1>9, <1>10, <1>11 DEF Next, Step

-----------------------------------------------------------------------------
(* Mutual exclusion. *)
LEMMA ExclusiveStep == Exclusive /\ [Next]_vars => Exclusive'
<1> SUFFICES ASSUME Exclusive, [Next]_vars, ~stolen'
             PROVE  \A q \in Proc : (Inside(q) => lock = q)' /\ Knows(q)'
  BY TypeStep DEF Exclusive
<1>0. /\ TypeOK
      /\ pc \in [Proc -> PC] /\ nested \in [Proc -> BOOLEAN] /\ op \in [Proc -> Op]
      /\ \A r \in Proc : r # Free /\ r # Orphan /\ r # Stale
  BY LedgerAssumption DEF Exclusive, TypeOK
<1>a. ~stolen
  BY DEF Next, Step, vars, Age, Call, Stat, Unlink, Open, Retry, Read, Write, Release, Crash
<1>b. \A r \in Proc : (Inside(r) => lock = r) /\ Knows(r)
  BY <1>a DEF Exclusive
<1> USE DEF Inside, Knows
<1>1. CASE UNCHANGED vars
  BY <1>1, <1>b DEF vars
<1>2. CASE Age
  BY <1>2, <1>0, <1>b DEF Age
<1>3. ASSUME NEW p \in Proc, Call(p), NEW q \in Proc
      PROVE  (Inside(q) => lock = q)' /\ Knows(q)'
  <2>1. /\ pc' = [pc EXCEPT ![p] = "stat"] /\ pc[p] = "idle"
        /\ UNCHANGED <<file, lock, nested>>
        /\ last' = [last EXCEPT ![p] = 0]
        /\ p # q => op'[q] = op[q] /\ last'[q] = last[q]
    BY <1>3, <1>0 DEF Call, TypeOK
  <2> QED
    BY <2>1, <1>0, <1>b
<1>4. ASSUME NEW p \in Proc, Stat(p), NEW q \in Proc
      PROVE  (Inside(q) => lock = q)' /\ Knows(q)'
  BY <1>4, <1>0, <1>b DEF Stat
<1>5. ASSUME NEW p \in Proc, Unlink(p), NEW q \in Proc
      PROVE  (Inside(q) => lock = q)' /\ Knows(q)'
  BY <1>5, <1>0, <1>b DEF Unlink
<1>6. ASSUME NEW p \in Proc, Open(p), NEW q \in Proc
      PROVE  (Inside(q) => lock = q)' /\ Knows(q)'
  BY <1>6, <1>0, <1>b DEF Open
<1>7. ASSUME NEW p \in Proc, Retry(p), NEW q \in Proc
      PROVE  (Inside(q) => lock = q)' /\ Knows(q)'
  <2>1. CASE pc' = pc /\ nested' = nested
    BY <1>7, <2>1, <1>0, <1>b DEF Retry
  <2>2. CASE /\ pc' = [pc EXCEPT ![p] = IF nested[p] THEN "release" ELSE "idle"]
             /\ nested' = [nested EXCEPT ![p] = FALSE]
    BY <1>7, <2>2, <1>0, <1>b DEF Retry
  <2> QED
    BY <1>7, <2>1, <2>2 DEF Retry
<1>8. ASSUME NEW p \in Proc, Read(p), NEW q \in Proc
      PROVE  (Inside(q) => lock = q)' /\ Knows(q)'
  <2>1. PICK i \in 0..Len(file) :
         /\ LastLine(file, i)
         /\ last' = [last EXCEPT ![p] = i]
         /\ \/ /\ pc' = [pc EXCEPT ![p] = "stat"]
               /\ nested' = [nested EXCEPT ![p] = TRUE]
            \/ /\ pc' = [pc EXCEPT ![p] = "release"]
               /\ nested' = nested
            \/ /\ pc' = [pc EXCEPT ![p] = "write"]
               /\ nested' = nested
               /\ i = 0 => op[p] # "append" \/ nested[p]
    BY <1>8 DEF Read
  <2>2. pc[p] = "read" /\ UNCHANGED <<file, lock, op>>
    BY <1>8 DEF Read
  <2>3. lock = p /\ ~nested[p]
    BY <2>2, <1>b
  <2>4. /\ last'[p] = i
        /\ p # q => last'[q] = last[q] /\ pc'[q] = pc[q] /\ nested'[q] = nested[q]
    BY <2>1, <1>0 DEF TypeOK
  <2>5. CASE p # q
    BY <2>2, <2>4, <2>5, <1>b
  <2>6. CASE p = q
    BY <2>1, <2>2, <2>3, <2>4, <2>6, <1>0
  <2> QED
    BY <2>5, <2>6
<1>9. ASSUME NEW p \in Proc, Write(p), NEW q \in Proc
      PROVE  (Inside(q) => lock = q)' /\ Knows(q)'
  <2>1. /\ pc[p] = "write" /\ lock = p /\ ~nested[p]
        /\ pc' = [pc EXCEPT ![p] = "release"]
        /\ UNCHANGED <<lock, op, nested>>
    BY <1>9, <1>b DEF Write
  <2>2. p # q => ~Inside(q)
    BY <2>1, <1>b
  <2> QED
    BY <2>1, <2>2, <1>0, <1>b
<1>10. ASSUME NEW p \in Proc, Release(p), NEW q \in Proc
      PROVE  (Inside(q) => lock = q)' /\ Knows(q)'
  <2>1. /\ pc[p] = "release" /\ lock = p /\ ~nested[p]
        /\ pc' = [pc EXCEPT ![p] = "idle"]
        /\ nested' = [nested EXCEPT ![p] = FALSE]
        /\ UNCHANGED <<file, op, last>>
    BY <1>10, <1>b DEF Release
  <2>2. p # q => ~Inside(q)
    BY <2>1, <1>b
  <2> QED
    BY <2>1, <2>2, <1>0, <1>b
<1>11. ASSUME NEW p \in Proc, Crash(p), NEW q \in Proc
      PROVE  (Inside(q) => lock = q)' /\ Knows(q)'
  <2>1. /\ lock' = IF lock = p THEN Orphan ELSE lock
        /\ pc' = [pc EXCEPT ![p] = "idle"]
        /\ nested' = [nested EXCEPT ![p] = FALSE]
        /\ UNCHANGED <<op, last>>
        /\ pc[p] # "write" => file' = file
    BY <1>11 DEF Crash
  <2>2. pc[p] = "write" /\ p # q => ~Inside(q)
    BY <1>b
  <2> QED
    BY <2>1, <2>2, <1>0, <1>b
<1> QED
  BY <1>1, <1>2, <1>3, <1>4, <1>5, <1>6, <1>7, <1>8, <1>9, <1>10, <1>11 DEF Next, Step

-----------------------------------------------------------------------------
(* The file changes by one line, torn or chained to the last readable one.    *)
LEMMA FileStep ==
  ASSUME Exclusive, [Next]_vars, ~stolen'
  PROVE  \/ file' = file
         \/ \E line \in Line :
              /\ file' = Append(file, line)
              /\ line.torn \/ /\ LastLine(file, line.prev)
                              /\ line.prev = 0 => line.boot /\ line.by # "append"
<1>a. ~stolen
  BY DEF Next, Step, vars, Age, Call, Stat, Unlink, Open, Retry, Read, Write, Release, Crash
<1>b. TypeOK /\ \A r \in Proc : Knows(r)
  BY <1>a DEF Exclusive
<1>1. CASE \E p \in Proc : Write(p)
  <2>1. PICK p \in Proc : Write(p)
    BY <1>1
  <2>2. /\ file' = Append(file, NewLine(p, FALSE))
        /\ LastLine(file, last[p]) /\ ~nested[p]
        /\ last[p] = 0 => op[p] # "append"
    BY <2>1, <1>b DEF Write, Knows
  <2>3. /\ NewLine(p, FALSE) \in Line
        /\ NewLine(p, FALSE).prev = last[p]
        /\ NewLine(p, FALSE).by = op[p]
        /\ NewLine(p, FALSE).boot = (op[p] # "append" \/ nested[p])
    BY <1>b, NewLineType
  <2> QED
    BY <2>2, <2>3
<1>2. CASE \E p \in Proc : Crash(p)
  <2>1. PICK p \in Proc : Crash(p)
    BY <1>2
  <2>2. file' = file \/ file' = Append(file, NewLine(p, TRUE))
    BY <2>1 DEF Crash
  <2>3. NewLine(p, TRUE) \in Line /\ NewLine(p, TRUE).torn = TRUE
    BY <1>b, NewLineType
  <2> QED
    BY <2>2, <2>3
<1>3. CASE ~(\E p \in Proc : Write(p)) /\ ~(\E p \in Proc : Crash(p))
  BY <1>3 DEF Next, Step, vars, Age, Call, Stat, Unlink, Open, Retry, Read, Release
<1> QED
  BY <1>1, <1>2, <1>3

LEMMA ChainedStep == Exclusive /\ Chained /\ [Next]_vars => Chained'
<1> SUFFICES ASSUME Exclusive, Chained, [Next]_vars, ~stolen',
                    NEW i \in Readable(file')
             PROVE  /\ IsLastOf(file'[i].prev, {j \in Readable(file') : j < i})
                    /\ file'[i].prev = 0 => file'[i].boot
  BY DEF Chained, Earlier
<1>a. ~stolen
  BY DEF Next, Step, vars, Age, Call, Stat, Unlink, Open, Retry, Read, Write, Release, Crash
<1>b. \A k \in Readable(file) : /\ IsLastOf(file[k].prev, {j \in Readable(file) : j < k})
                                /\ file[k].prev = 0 => file[k].boot
  BY <1>a DEF Chained, Earlier
<1>1. CASE file' = file
  BY <1>1, <1>b
<1>2. ASSUME NEW line \in Line, file' = Append(file, line),
             line.torn \/ (LastLine(file, line.prev) /\ (line.prev = 0 => line.boot))
      PROVE  /\ IsLastOf(file'[i].prev, {j \in Readable(file') : j < i})
             /\ file'[i].prev = 0 => file'[i].boot
  <2> DEFINE n == Len(file) + 1
  <2>1. /\ file'[n] = line
        /\ n \in Nat
        /\ \A k \in Readable(file) : file'[k] = file[k]
        /\ \A k \in Readable(file) : k \in Nat /\ k < n
        /\ line.torn => Readable(file') = Readable(file)
        /\ ~line.torn => Readable(file') = Readable(file) \cup {n}
    <3>1. file \in Seq(Line)
      BY DEF Exclusive, TypeOK
    <3>2. \A k \in Readable(file) : k \in DOMAIN file
      BY DEF Readable
    <3> QED
      BY <1>2, <3>1, <3>2, AppendReadable
  <2> HIDE DEF n
  <2>2. CASE i \in Readable(file)
    <3>1. i \in Nat /\ i < n /\ file'[i] = file[i]
      BY <2>1, <2>2
    <3>2. \A j : j \in Readable(file') /\ j < i <=> j \in Readable(file) /\ j < i
      <4>1. ~(n < i)
        BY <2>1, <3>1
      <4> QED
        BY <2>1, <3>1, <4>1
    <3>3. {j \in Readable(file') : j < i} = {j \in Readable(file) : j < i}
      BY <3>2
    <3> QED
      BY <1>b, <2>2, <3>1, <3>3
  <2>3. CASE i \notin Readable(file)
    <3>1. i = n /\ ~line.torn
      BY <2>1, <2>3
    <3>2. {j \in Readable(file') : j < n} = Readable(file)
      <4>1. ~(n < n)
        BY <2>1
      <4>2. Readable(file') = Readable(file) \cup {n}
        BY <2>1, <3>1
      <4>3. \A k \in Readable(file) : k < n
        BY <2>1
      <4> QED
        BY <4>1, <4>2, <4>3
    <3> QED
      BY <1>2, <2>1, <3>1, <3>2 DEF LastLine
  <2> QED
    BY <2>2, <2>3
<1> QED
  BY <1>1, <1>2, FileStep

-----------------------------------------------------------------------------
LEMMA ExclusiveInvariant == Spec => []Exclusive
  BY ExclusiveInit, ExclusiveStep, PTL DEF Spec

(* Lines, lock and call state keep their shape under every interleaving.      *)
THEOREM LedgerTypes == Spec => []TypeOK
<1>1. Exclusive => TypeOK
  BY DEF Exclusive
<1> QED
  BY <1>1, ExclusiveInvariant, PTL

(* The lock file excludes until a cleanup unlinks a lock that is not stale.   *)
THEOREM LockExcludes == Spec => []MutexUntilStolen
<1>1. Exclusive => MutexUntilStolen
  BY DEF Exclusive, MutexUntilStolen
<1> QED
  BY <1>1, ExclusiveInvariant, PTL

(* Until then the readable lines form one chain from a bootstrap line.        *)
THEOREM LinesChain == Spec => []ChainUntilStolen
<1>1. Init => Chained
  BY DEF Init, Chained, Readable
<1>2. Chained => ChainUntilStolen
  BY DEF Chained, ChainUntilStolen, Earlier
<1> QED
  BY <1>1, <1>2, ExclusiveInvariant, ChainedStep, PTL DEF Spec

(* Only a bootstrap call puts the first line into a ledger.                   *)
THEOREM BootstrapStarts == Spec => OnlyBootstrapStarts
<1>1. Exclusive /\ [Next]_vars =>
        [~stolen /\ Readable(file) = {} =>
           \A i \in Readable(file') : file'[i].by # "append"]_vars
  <2> SUFFICES ASSUME Exclusive, [Next]_vars, ~stolen, Readable(file) = {},
                      NEW i \in Readable(file')
               PROVE  file'[i].by # "append"
    OBVIOUS
  <2>1. CASE stolen'
    BY <2>1
       DEF Next, Step, vars, Age, Call, Stat, Unlink, Open, Retry, Read, Write,
           Release, Crash
  <2>2. CASE ~stolen'
    <3>1. file' # file
      OBVIOUS
    <3>2. PICK line \in Line :
            /\ file' = Append(file, line)
            /\ line.torn \/ /\ LastLine(file, line.prev)
                            /\ line.prev = 0 => line.boot /\ line.by # "append"
      BY <2>2, <3>1, FileStep
    <3>3. file \in Seq(Line)
      BY DEF Exclusive, TypeOK
    <3> DEFINE n == Len(file) + 1
    <3>4. /\ file'[n] = line
          /\ line.torn => Readable(file') = Readable(file)
          /\ ~line.torn => Readable(file') = Readable(file) \cup {n}
      BY <3>2, <3>3, AppendReadable
    <3> HIDE DEF n
    <3>5. i = n /\ ~line.torn
      BY <3>4
    <3>6. line.prev = 0
      BY <3>2, <3>5 DEF LastLine, IsLastOf
    <3> QED
      BY <3>2, <3>4, <3>5, <3>6
  <2> QED
    BY <2>1, <2>2
<1> QED
  BY <1>1, ExclusiveInvariant, PTL DEF Spec, OnlyBootstrapStarts
=============================================================================
