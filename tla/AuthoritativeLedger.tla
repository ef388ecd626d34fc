-------------------------- MODULE AuthoritativeLedger --------------------------
(* src/ledger/AuthoritativeLedger.ts: a hash-chained ndjson file that several  *)
(* processes append to, each under a lock file it creates with O_EXCL, polls   *)
(* for a bounded number of attempts, and removes when done.  A lock file older *)
(* than ten minutes is removed before the attempts start; stat and unlink are  *)
(* two system calls, and unlink removes whatever file is there by then.  The   *)
(* code between open and unlink is synchronous, so a live holder's lock does   *)
(* not grow old: only the lock of a process that died does.                    *)
EXTENDS Integers, Sequences, FiniteSets, SequencesExt

CONSTANTS
    Proc,        \* processes with a ledger object on the same file
    Free,        \* no lock file
    Orphan,      \* lock file of a dead process, younger than ten minutes
    Stale,       \* lock file of a dead process, older than ten minutes
    Attempts,    \* attempts to open the lock file (10 in the code)
    MaxLines     \* bound: no call starts on a file with this many lines

ASSUME LedgerAssumption ==
    /\ Free \notin Proc /\ Orphan \notin Proc /\ Stale \notin Proc
    /\ Free # Orphan /\ Free # Stale /\ Orphan # Stale
    /\ Attempts \in Nat \ {0}
    /\ MaxLines \in Nat

VARIABLES
    file,     \* lines; the hash of line i stands as i, genesis as 0
    lock,     \* the lock file
    pc,       \* where each process is in acquireLockSync, append, bootstrap
    op,       \* what its outer call is
    nested,   \* append has called bootstrap while holding the lock
    tries,    \* attempts left
    last,     \* hash it will chain to: the line readLastLine found
    stolen    \* history: a lock file that was not stale has been unlinked
              \* by a stale-lock cleanup

vars == <<file, lock, pc, op, nested, tries, last, stolen>>

Op == {"append", "bootstrap", "force"}
PC == {"idle", "stat", "unlink", "open", "read", "write", "release"}

(* A line: what it chains to, whether it is a bootstrap event, which call     *)
(* wrote it, and whether the write was cut short.                             *)
Line == [prev : Nat, boot : BOOLEAN, by : Op, torn : BOOLEAN]

TypeOK ==
    \* Lines chain backwards, and the lock, counters and call state have shape.
    /\ file \in Seq(Line)
    /\ lock \in Proc \cup {Free, Orphan, Stale}
    /\ pc \in [Proc -> PC]
    /\ op \in [Proc -> Op]
    /\ nested \in [Proc -> BOOLEAN]
    /\ tries \in [Proc -> 0..Attempts]
    /\ last \in [Proc -> 0..Len(file)]
    /\ stolen \in BOOLEAN

Init ==
    /\ file = <<>>
    /\ lock = Free
    /\ pc = [p \in Proc |-> "idle"]
    /\ op = [p \in Proc |-> "append"]
    /\ nested = [p \in Proc |-> FALSE]
    /\ tries = [p \in Proc |-> Attempts]
    /\ last = [p \in Proc |-> 0]
    /\ stolen = FALSE

(* In the critical section: between open and unlink of the lock file.         *)
Inside(p) == pc[p] \in {"read", "write", "release"} \/ nested[p]

Readable(lines) == {i \in DOMAIN lines : ~lines[i].torn}
IsLastOf(i, S) == IF S = {} THEN i = 0 ELSE i \in S /\ \A j \in S : j <= i

\* Mutant: a torn last line ends the search, as if the file were empty.
ShortSightedLastLine(lines, i) ==
    IF lines # <<>> /\ ~lines[Len(lines)].torn THEN i = Len(lines) ELSE i = 0
(* readLastLine: i is the last line that parses, 0 when none does.            *)
LastLine(lines, i) == IsLastOf(i, Readable(lines))

-----------------------------------------------------------------------------
Call(p) ==
    /\ pc[p] = "idle"
    /\ Len(file) < MaxLines
    /\ op' \in {[op EXCEPT ![p] = o] : o \in Op}
    /\ pc' = [pc EXCEPT ![p] = "stat"]
    /\ tries' = [tries EXCEPT ![p] = Attempts]
    /\ last' = [last EXCEPT ![p] = 0]
    /\ UNCHANGED <<file, lock, nested, stolen>>

(* acquireLockSync *)

Stat(p) ==
    /\ pc[p] = "stat"
    /\ pc' = [pc EXCEPT ![p] = IF lock = Stale THEN "unlink" ELSE "open"]
    /\ UNCHANGED <<file, lock, op, nested, tries, last, stolen>>

Unlink(p) ==
    /\ pc[p] = "unlink"
    /\ lock' = Free
    /\ stolen' = (stolen \/ lock \notin {Free, Stale})
    /\ pc' = [pc EXCEPT ![p] = "open"]
    /\ UNCHANGED <<file, op, nested, tries, last>>

\* Mutant: a lock file is opened without O_EXCL.
SharedOpen(p) ==
    /\ pc[p] = "open"
    /\ lock' = p
    /\ pc' = [pc EXCEPT ![p] = "read"]
    /\ UNCHANGED <<file, op, nested, tries, last, stolen>>
\* Mutant: a process that holds the lock may take it again.
ReentrantOpen(p) ==
    /\ pc[p] = "open"
    /\ lock \in {Free, p}
    /\ lock' = p
    /\ pc' = [pc EXCEPT ![p] = "read"]
    /\ UNCHANGED <<file, op, nested, tries, last, stolen>>
Open(p) ==
    /\ pc[p] = "open"
    /\ lock = Free
    /\ lock' = p
    /\ pc' = [pc EXCEPT ![p] = "read"]
    /\ UNCHANGED <<file, op, nested, tries, last, stolen>>

\* Mutant: the attempts are not counted.
EndlessRetry(p) ==
    /\ pc[p] = "open"
    /\ lock # Free
    /\ UNCHANGED vars
(* A failed attempt; after the last one the call throws LOCK_TIMEOUT, which   *)
(* a nested bootstrap passes on to append, whose finally releases the lock.   *)
Retry(p) ==
    /\ pc[p] = "open"
    /\ lock # Free
    /\ tries' = [tries EXCEPT ![p] = @ - 1]
    /\ \/ /\ tries[p] > 1
          /\ UNCHANGED <<pc, nested>>
       \/ /\ tries[p] = 1
          /\ pc' = [pc EXCEPT ![p] = IF nested[p] THEN "release" ELSE "idle"]
          /\ nested' = [nested EXCEPT ![p] = FALSE]
    /\ UNCHANGED <<file, lock, op, last, stolen>>

-----------------------------------------------------------------------------
(* append, bootstrap *)

(* An append with nothing to chain to calls bootstrap, which acquires the     *)
(* lock from the start; an unforced bootstrap of a non-empty file writes      *)
(* nothing.                                                                   *)
Read(p) ==
    /\ pc[p] = "read"
    /\ \E i \in 0..Len(file) :
         /\ LastLine(file, i)
         /\ last' = [last EXCEPT ![p] = i]
         /\ \/ /\ op[p] = "append" /\ ~nested[p] /\ i = 0
               /\ nested' = [nested EXCEPT ![p] = TRUE]
               /\ tries' = [tries EXCEPT ![p] = Attempts]
               /\ pc' = [pc EXCEPT ![p] = "stat"]
            \/ /\ i # 0 /\ (op[p] = "bootstrap" \/ nested[p])
               /\ pc' = [pc EXCEPT ![p] = "release"]
               /\ UNCHANGED <<nested, tries>>
            \/ /\ IF op[p] = "append" /\ ~nested[p] THEN i # 0
                  ELSE i = 0 \/ op[p] = "force"
               /\ pc' = [pc EXCEPT ![p] = "write"]
               /\ UNCHANGED <<nested, tries>>
    /\ UNCHANGED <<file, lock, op, stolen>>

NewLine(p, torn) ==
    [prev |-> last[p], boot |-> op[p] # "append" \/ nested[p],
     by |-> op[p], torn |-> torn]

Write(p) ==
    /\ pc[p] = "write"
    /\ file' = Append(file, NewLine(p, FALSE))
    /\ last' = [last EXCEPT ![p] = Len(file) + 1]
    /\ pc' = [pc EXCEPT ![p] = "release"]
    /\ UNCHANGED <<lock, op, nested, tries, stolen>>

(* The lock file is unlinked, whoever created it.  After a nested bootstrap   *)
(* the append goes on to write its own line.                                  *)
Release(p) ==
    /\ pc[p] = "release"
    /\ lock' = Free
    /\ pc' = [pc EXCEPT ![p] = IF nested[p] THEN "write" ELSE "idle"]
    /\ nested' = [nested EXCEPT ![p] = FALSE]
    /\ UNCHANGED <<file, op, tries, last, stolen>>

-----------------------------------------------------------------------------
(* The process dies.  Its lock file stays; a write in progress may leave a    *)
(* line that does not parse.                                                  *)
Crash(p) ==
    /\ pc[p] # "idle"
    /\ lock' = IF lock = p THEN Orphan ELSE lock
    /\ \/ file' = file
       \/ pc[p] = "write" /\ file' = Append(file, NewLine(p, TRUE))
    /\ pc' = [pc EXCEPT ![p] = "idle"]
    /\ nested' = [nested EXCEPT ![p] = FALSE]
    /\ UNCHANGED <<op, tries, last, stolen>>

(* Ten minutes pass over a dead process's lock file.                          *)
Age ==
    /\ lock = Orphan
    /\ lock' = Stale
    /\ UNCHANGED <<file, pc, op, nested, tries, last, stolen>>

Step(p) ==
    \/ Stat(p) \/ Unlink(p) \/ Open(p) \/ Retry(p)
    \/ Read(p) \/ Write(p) \/ Release(p)

Next == Age \/ \E p \in Proc : Call(p) \/ Step(p) \/ Crash(p)

(* The code between two system calls runs on; nothing makes a process call,   *)
(* crash, or wait ten minutes.                                                *)
Spec == Init /\ [][Next]_vars /\ \A p \in Proc : WF_vars(Step(p))

-----------------------------------------------------------------------------
(* As long as no cleanup unlinked a lock that was not stale, at most one      *)
(* process is in the critical section, and the lock file is its own.          *)
MutexUntilStolen == ~stolen => \A p \in Proc : Inside(p) => lock = p

(* As long as no cleanup unlinked a live lock, the lines that parse form one  *)
(* chain from a bootstrap line, whatever crashes cut short in between.        *)
ChainUntilStolen ==
    ~stolen => \A i \in Readable(file) :
                  /\ IsLastOf(file[i].prev, {j \in Readable(file) : j < i})
                  /\ file[i].prev = 0 => file[i].boot

(* append on a file with no readable line calls bootstrap under the lock it   *)
(* holds and times out on itself, so only a bootstrap call starts a ledger.   *)
OnlyBootstrapStarts ==
    [][~stolen /\ Readable(file) = {} =>
         \A i \in Readable(file') : file'[i].by # "append"]_vars

(* Every call returns, with a result or LOCK_TIMEOUT, even if a process died  *)
(* with the lock, or the call waits for the lock it holds.                    *)
CallsReturn == \A p \in Proc : pc[p] # "idle" ~> pc[p] = "idle"

=============================================================================
