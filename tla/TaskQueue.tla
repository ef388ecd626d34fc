------------------------------- MODULE TaskQueue -------------------------------
(* The agents' task queue, src/task-queue.mjs, and the loop that works it off, *)
(* src/task-orchestrator.mjs.  A queue is a directory: <id>.task.json, a claim *)
(* directory made with mkdir (which only one process can do) that gets a       *)
(* claim.json with a lease, and <id>.done.json.  Nothing else coordinates the  *)
(* workers: a status is whatever the files say when they are read, a claim     *)
(* directory without claim.json is taken for an abandoned one, and no call     *)
(* checks whose claim it removes.                                              *)
EXTENDS Integers, FiniteSets, Sequences

CONSTANTS
    Worker,      \* concurrent processOnce passes: processes, or ticks of one
    Task,
    Nobody,      \* no claim.json
    MaxCrashes   \* bound: passes that die

ASSUME QueueAssumption == Nobody \notin Worker /\ MaxCrashes \in Nat

VARIABLES
    file,     \* the task file: not yet "new", "queued", or "gone" after clear
    result,   \* the done file: "none", "ok" or "failed"
    dir,      \* the claim directory exists
    claim,    \* who wrote the claim.json in it, or Nobody
    expired,  \* that claim's lease is over
    pc,       \* where each pass is
    cur,      \* the task it is at
    todo,     \* claims left to look at, or candidates left to try
    early,    \* history: a claim was removed from under a pass on its task
    rerun,    \* history: a pass has claimed a task from a list read before the
              \* task was finished
    crashes

vars == <<file, result, dir, claim, expired, pc, cur, todo, early, rerun, crashes>>
claims == <<dir, claim, expired>>
history == <<early, rerun, crashes>>

PC == {"idle", "reap", "remove", "list", "claim", "write", "run", "release"}

TypeOK ==
    \* Files and passes keep their shape, and a claim.json is in a directory.
    /\ file \in [Task -> {"new", "queued", "gone"}]
    /\ result \in [Task -> {"none", "ok", "failed"}]
    /\ dir \in [Task -> BOOLEAN]
    /\ claim \in [Task -> Worker \cup {Nobody}]
    /\ expired \in [Task -> BOOLEAN]
    /\ pc \in [Worker -> PC]
    /\ cur \in [Worker -> Task]
    /\ todo \in [Worker -> SUBSET Task]
    /\ early \in BOOLEAN /\ rerun \in BOOLEAN
    /\ crashes \in 0..MaxCrashes
    /\ \A t \in Task : claim[t] # Nobody => dir[t]

Init ==
    /\ file = [t \in Task |-> "new"]
    /\ result = [t \in Task |-> "none"]
    /\ dir = [t \in Task |-> FALSE]
    /\ claim = [t \in Task |-> Nobody]
    /\ expired = [t \in Task |-> FALSE]
    /\ pc = [w \in Worker |-> "idle"]
    /\ cur \in [Worker -> Task]
    /\ \A v, w \in Worker : cur[v] = cur[w]
    /\ todo = [w \in Worker |-> {}]
    /\ early = FALSE /\ rerun = FALSE
    /\ crashes = 0

(* A pass that has made the claim directory and not yet a result.             *)
On(w, t) == pc[w] \in {"write", "run"} /\ cur[w] = t

Queued(t) == file[t] = "queued" /\ result[t] = "none" /\ claim[t] = Nobody

Goto(w, label) == pc' = [pc EXCEPT ![w] = label]

(* _releaseClaim: the directory goes with everything in it, whoever made it.  *)
ReleaseClaim(t) ==
    /\ dir' = [dir EXCEPT ![t] = FALSE]
    /\ claim' = [claim EXCEPT ![t] = Nobody]
    /\ expired' = [expired EXCEPT ![t] = FALSE]
    /\ early' = (early \/ \E v \in Worker : On(v, t))

-----------------------------------------------------------------------------
Enqueue(t) ==
    /\ file[t] = "new"
    /\ file' = [file EXCEPT ![t] = "queued"]
    /\ UNCHANGED <<result, claims, pc, cur, todo, history>>

(* clear drops a task that finished well, with its files and its claim.       *)
Clear(t) ==
    /\ file[t] = "queued"
    /\ result[t] = "ok"
    /\ file' = [file EXCEPT ![t] = "gone"]
    /\ result' = [result EXCEPT ![t] = "none"]
    /\ ReleaseClaim(t)
    /\ UNCHANGED <<pc, cur, todo, rerun, crashes>>

(* Fifteen minutes pass.  A command is killed after ten, so the lease of a    *)
(* pass that is still on the task does not run out.                           *)
Expire(t) ==
    /\ claim[t] # Nobody
    /\ ~expired[t]
    /\ ~On(claim[t], t)
    /\ expired' = [expired EXCEPT ![t] = TRUE]
    /\ UNCHANGED <<file, result, dir, claim, pc, cur, todo, history>>

-----------------------------------------------------------------------------
(* processOnce: reap, then claim, run and finish a task *)

(* The sweep goes over the claim directories there are when it starts.        *)
StartPass(w) ==
    /\ pc[w] = "idle"
    /\ todo' = [todo EXCEPT ![w] = {t \in Task : dir[t]}]
    /\ Goto(w, "reap")
    /\ UNCHANGED <<file, result, claims, cur, history>>

\* Mutant: a directory without a claim file is left alone.
CautiousReapable(t) == result[t] # "none" \/ (claim[t] # Nobody /\ expired[t])
\* Mutant: the claim of a finished task is left to its owner.
TrustingReapable(t) ==
    result[t] = "none" /\ (claim[t] = Nobody \/ expired[t])
Reapable(t) == result[t] # "none" \/ claim[t] = Nobody \/ expired[t]

ReapLook(w) ==
    /\ pc[w] = "reap"
    /\ \E t \in todo[w] :
         /\ cur' = [cur EXCEPT ![w] = t]
         /\ IF Reapable(t)
            THEN Goto(w, "remove") /\ todo' = todo
            ELSE todo' = [todo EXCEPT ![w] = @ \ {t}] /\ pc' = pc
    /\ UNCHANGED <<file, result, claims, history>>

ReapRemove(w) ==
    /\ pc[w] = "remove"
    /\ ReleaseClaim(cur[w])
    /\ todo' = [todo EXCEPT ![w] = @ \ {cur[w]}]
    /\ Goto(w, "reap")
    /\ UNCHANGED <<file, result, cur, rerun, crashes>>

ReapDone(w) ==
    /\ pc[w] = "reap"
    /\ todo[w] = {}
    /\ Goto(w, "list")
    /\ UNCHANGED <<file, result, claims, cur, todo, history>>

(* claim: list the queued tasks, then try to make a directory for each; their *)
(* priorities are left open, so any of them may come first.                   *)
List(w) ==
    /\ pc[w] = "list"
    /\ todo' = [todo EXCEPT ![w] = {t \in Task : Queued(t)}]
    /\ Goto(w, "claim")
    /\ UNCHANGED <<file, result, claims, cur, history>>

\* Mutant: an existing directory is taken over (mkdir is recursive).
RecursiveMkdir(w, t) ==
    /\ dir' = [dir EXCEPT ![t] = TRUE]
    /\ cur' = [cur EXCEPT ![w] = t]
    /\ rerun' = (rerun \/ result[t] # "none" \/ file[t] = "gone")
    /\ Goto(w, "write")
(* mkdir, for one process at a time.                                          *)
Mkdir(w, t) ==
    /\ ~dir[t]
    /\ dir' = [dir EXCEPT ![t] = TRUE]
    /\ cur' = [cur EXCEPT ![w] = t]
    /\ rerun' = (rerun \/ result[t] # "none" \/ file[t] = "gone")
    /\ Goto(w, "write")

ClaimTry(w) ==
    /\ pc[w] = "claim"
    /\ \E t \in todo[w] :
         /\ todo' = [todo EXCEPT ![w] = IF dir[t] THEN @ \ {t} ELSE {}]
         /\ \/ Mkdir(w, t)
            \/ dir[t] /\ UNCHANGED <<dir, cur, rerun, pc>>
    /\ UNCHANGED <<file, result, claim, expired, early, crashes>>

ClaimNone(w) ==
    /\ pc[w] = "claim"
    /\ todo[w] = {}
    /\ Goto(w, "idle")
    /\ UNCHANGED <<file, result, claims, cur, todo, history>>

(* claim.json is written, into a directory that is made again if reap took    *)
(* it; a task that has been cleared meanwhile is not run.                     *)
ClaimWrite(w) ==
    /\ pc[w] = "write"
    /\ LET t == cur[w]
       IN  /\ dir' = [dir EXCEPT ![t] = TRUE]
           /\ claim' = [claim EXCEPT ![t] = w]
           /\ expired' = [expired EXCEPT ![t] = FALSE]
           /\ Goto(w, IF file[t] = "queued" THEN "run" ELSE "idle")
    /\ UNCHANGED <<file, result, cur, todo, history>>

\* Mutant: _releaseClaim may throw, and the catch around complete calls fail.
CaughtFinish(w, outcome) ==
    /\ \/ pc[w] = "run"
       \/ pc[w] = "release" /\ outcome = "failed"
    /\ IF file[cur[w]] = "queued"
       THEN result' = [result EXCEPT ![cur[w]] = outcome] /\ Goto(w, "release")
       ELSE result' = result /\ Goto(w, "idle")
    /\ UNCHANGED <<file, claims, cur, todo, history>>
(* complete or fail: the command ended well, or failed, timed out, or there   *)
(* is no handler for it; a cleared task makes both throw.                     *)
Finish(w, outcome) ==
    /\ pc[w] = "run"
    /\ IF file[cur[w]] = "queued"
       THEN result' = [result EXCEPT ![cur[w]] = outcome] /\ Goto(w, "release")
       ELSE result' = result /\ Goto(w, "idle")
    /\ UNCHANGED <<file, claims, cur, todo, history>>

Release(w) ==
    /\ pc[w] = "release"
    /\ ReleaseClaim(cur[w])
    /\ Goto(w, "idle")
    /\ UNCHANGED <<file, result, cur, todo, rerun, crashes>>

Crash(w) ==
    /\ pc[w] # "idle"
    /\ crashes < MaxCrashes
    /\ crashes' = crashes + 1
    /\ Goto(w, "idle")
    /\ todo' = [todo EXCEPT ![w] = {}]
    /\ UNCHANGED <<file, result, claims, cur, early, rerun>>

Pass(w) ==
    \/ StartPass(w) \/ ReapLook(w) \/ ReapRemove(w) \/ ReapDone(w)
    \/ List(w) \/ ClaimTry(w) \/ ClaimNone(w) \/ ClaimWrite(w)
    \/ \E outcome \in {"ok", "failed"} : Finish(w, outcome)
    \/ Release(w)

Next ==
    \/ \E t \in Task : Enqueue(t) \/ Clear(t) \/ Expire(t)
    \/ \E w \in Worker : Pass(w) \/ Crash(w)

(* runLoop starts a pass on every tick, and a pass goes on unless it dies;    *)
(* leases run out by the clock.                                               *)
Spec ==
    /\ Init /\ [][Next]_vars
    /\ \A w \in Worker : WF_vars(Pass(w))
    /\ \A t \in Task : WF_vars(Expire(t))

-----------------------------------------------------------------------------
(* As long as nobody removed a claim from under a pass, no two passes are on  *)
(* one task: mkdir keeps them apart, through crashes and expired leases.      *)
OneRunnerUntilEarly ==
    ~early => \A v, w \in Worker : \A t \in Task : On(v, t) /\ On(w, t) => v = w

(* As long as nobody removed a claim from under a pass, and no pass claimed   *)
(* from a list older than the result, a result is final until clear.          *)
ResultIsFinal ==
    [][~early /\ ~rerun =>
         \A t \in Task : result[t] # "none" /\ file'[t] # "gone" =>
                           result'[t] = result[t]]_vars

(* Every task in the queue is finished some day (and perhaps cleared), though *)
(* passes die between any two steps and leave their claims behind.            *)
EveryTaskFinishes ==
    \A t \in Task : file[t] = "queued" ~> result[t] # "none" \/ file[t] = "gone"

(* No claim outlives its task: once a task is finished, or cleared, its claim *)
(* directory is removed some day.                                             *)
ClaimsAreSwept ==
    \A t \in Task : result[t] # "none" \/ file[t] = "gone" ~> ~dir[t]
=============================================================================
