---------------------------- MODULE TaskQueueProofs ----------------------------
(* Proofs about TaskQueue, for every set of workers and tasks and any number   *)
(* of crashes: what mkdir gives the queue, and what it does not.               *)
EXTENDS TaskQueue, TLAPS

(* A pass on a task has the directory to itself, and, if its list was not     *)
(* stale, no result is there yet.                                             *)
Owned ==
    /\ TypeOK
    /\ ~early =>
         \A w \in Worker : \A t \in Task :
            On(w, t) => /\ dir[t]
                        /\ \A v \in Worker : On(v, t) => v = w
                        /\ ~rerun => result[t] = "none"

LEMMA OwnedInit == Init => Owned
<1> SUFFICES ASSUME Init PROVE Owned
  OBVIOUS
<1>1. /\ pc \in [Worker -> PC] /\ \A w \in Worker : pc[w] = "idle"
      /\ claim \in [Task -> Worker \cup {Nobody}] /\ \A t \in Task : claim[t] = Nobody
      /\ crashes \in 0..MaxCrashes
  BY QueueAssumption DEF Init, PC
<1>2. TypeOK
  BY <1>1 DEF Init, TypeOK
<1> QED
  BY <1>1, <1>2 DEF Owned, On

-----------------------------------------------------------------------------
LEMMA ReleaseType ==
  ASSUME TypeOK, NEW t \in Task, ReleaseClaim(t)
  PROVE  /\ dir' \in [Task -> BOOLEAN]
         /\ claim' \in [Task -> Worker \cup {Nobody}]
         /\ expired' \in [Task -> BOOLEAN]
         /\ \A u \in Task : claim'[u] # Nobody => dir'[u]
         /\ early' \in BOOLEAN
  BY DEF TypeOK, ReleaseClaim

LEMMA TypeStep == TypeOK /\ [Next]_vars => TypeOK'
<1> SUFFICES ASSUME TypeOK, [Next]_vars PROVE TypeOK'
  OBVIOUS
<1> USE DEF claims, history, Goto
<1>1. CASE UNCHANGED vars
  BY <1>1 DEF vars, TypeOK
<1>2. ASSUME NEW t \in Task, Enqueue(t) PROVE TypeOK'
  BY <1>2 DEF Enqueue, TypeOK
<1>3. ASSUME NEW t \in Task, Clear(t) PROVE TypeOK'
  BY <1>3, ReleaseType DEF Clear, TypeOK
<1>4. ASSUME NEW t \in Task, Expire(t) PROVE TypeOK'
  BY <1>4 DEF Expire, TypeOK
<1>5. ASSUME NEW w \in Worker, StartPass(w) PROVE TypeOK'
  BY <1>5 DEF StartPass, TypeOK, PC
<1>6. ASSUME NEW w \in Worker, ReapLook(w) PROVE TypeOK'
  BY <1>6 DEF ReapLook, TypeOK, PC
<1>7. ASSUME NEW w \in Worker, ReapRemove(w) PROVE TypeOK'
  <2>1. cur[w] \in Task
    BY DEF TypeOK
  <2> QED
    BY <1>7, <2>1, ReleaseType DEF ReapRemove, TypeOK, PC
<1>8. ASSUME NEW w \in Worker, ReapDone(w) PROVE TypeOK'
  BY <1>8 DEF ReapDone, TypeOK, PC
<1>9. ASSUME NEW w \in Worker, List(w) PROVE TypeOK'
  BY <1>9 DEF List, TypeOK, PC
<1>10. ASSUME NEW w \in Worker, ClaimTry(w) PROVE TypeOK'
  <2>1. PICK t \in todo[w] :
          /\ todo' = [todo EXCEPT ![w] = IF dir[t] THEN @ \ {t} ELSE {}]
          /\ Mkdir(w, t) \/ (dir[t] /\ UNCHANGED <<dir, cur, rerun, pc>>)
    BY <1>10 DEF ClaimTry
  <2>2. t \in Task /\ todo' \in [Worker -> SUBSET Task]
    BY <2>1 DEF TypeOK
  <2>3. UNCHANGED <<file, result, claim, expired, early, crashes>>
    BY <1>10 DEF ClaimTry
  <2>4. CASE Mkdir(w, t)
    BY <2>2, <2>3, <2>4 DEF Mkdir, TypeOK, PC
  <2>5. CASE UNCHANGED <<dir, cur, rerun, pc>>
    BY <2>2, <2>3, <2>5 DEF TypeOK
  <2> QED
    BY <2>1, <2>4, <2>5
<1>11. ASSUME NEW w \in Worker, ClaimNone(w) PROVE TypeOK'
  BY <1>11 DEF ClaimNone, TypeOK, PC
<1>12. ASSUME NEW w \in Worker, ClaimWrite(w) PROVE TypeOK'
  <2>1. cur[w] \in Task
    BY DEF TypeOK
  <2> QED
    BY <1>12, <2>1 DEF ClaimWrite, TypeOK, PC
<1>13. ASSUME NEW w \in Worker, NEW outcome \in {"ok", "failed"}, Finish(w, outcome)
       PROVE  TypeOK'
  <2>1. cur[w] \in Task
    BY DEF TypeOK
  <2> QED
    BY <1>13, <2>1 DEF Finish, TypeOK, PC
<1>14. ASSUME NEW w \in Worker, Release(w) PROVE TypeOK'
  <2>1. cur[w] \in Task
    BY DEF TypeOK
  <2> QED
    BY <1>14, <2>1, ReleaseType DEF Release, TypeOK, PC
<1>15. ASSUME NEW w \in Worker, Crash(w) PROVE TypeOK'
  BY <1>15, QueueAssumption DEF Crash, TypeOK, PC
<1> QED
  BY <1>1, <1>2, <1>3, <1>4, <1>5, <1>6, <1>7, <1>8, <1>9, <1>10, <1>11, <1>12,
     <1>13, <1>14, <1>15
  DEF Next, Pass

-----------------------------------------------------------------------------
LEMMA OwnedStep == Owned /\ [Next]_vars => Owned'
<1> SUFFICES ASSUME Owned, [Next]_vars, ~early', NEW w \in Worker, NEW t \in Task, On(w, t)'
             PROVE  /\ dir'[t]
                    /\ \A v \in Worker : On(v, t)' => v = w
                    /\ ~rerun' => result'[t] = "none"
  BY TypeStep DEF Owned
<1>0. /\ TypeOK
      /\ pc \in [Worker -> PC] /\ cur \in [Worker -> Task] /\ dir \in [Task -> BOOLEAN]
      /\ result \in [Task -> {"none", "ok", "failed"}]
  BY DEF Owned, TypeOK
<1>a. ~early
  BY DEF Next, Pass, vars, history, Enqueue, Clear, Expire, StartPass, ReapLook, ReapRemove,
         ReapDone, List, ClaimTry, ClaimNone, ClaimWrite, Finish, Release, Crash, ReleaseClaim
<1>b. \A x \in Worker : \A u \in Task :
         On(x, u) => /\ dir[u]
                     /\ \A v \in Worker : On(v, u) => v = x
                     /\ ~rerun => result[u] = "none"
  BY <1>a DEF Owned
<1>c. ASSUME NEW u \in Task, ReleaseClaim(u), NEW x \in Worker, On(x, t)
      PROVE  dir'[t] = dir[t]
  BY <1>0, <1>c DEF ReleaseClaim
<1> USE DEF claims, history, Goto
<1>1. CASE UNCHANGED vars
  BY <1>1, <1>b DEF vars, On
<1>3. CASE \E u \in Task : Enqueue(u) \/ Expire(u)
  BY <1>3, <1>b DEF Enqueue, Expire, On
<1>4. CASE \E u \in Task : Clear(u)
  <2>1. PICK u \in Task : Clear(u)
    BY <1>4
  <2>2. /\ ReleaseClaim(u)
        /\ UNCHANGED <<pc, cur, rerun>>
        /\ result' = [result EXCEPT ![u] = "none"]
    BY <2>1 DEF Clear
  <2>3. \A x \in Worker : On(x, t)' <=> On(x, t)
    BY <2>2 DEF On
  <2> QED
    BY <1>0, <1>b, <1>c, <2>2, <2>3
<1>5. ASSUME NEW p \in Worker,
             StartPass(p) \/ ReapLook(p) \/ ReapDone(p) \/ List(p) \/ ClaimNone(p) \/ Crash(p)
      PROVE  /\ UNCHANGED <<dir, result, rerun>>
             /\ \A x \in Worker : On(x, t)' => On(x, t)
  BY <1>0, <1>5 DEF StartPass, ReapLook, ReapDone, List, ClaimNone, Crash, On
<1>6. ASSUME NEW p \in Worker, ReapRemove(p) \/ Release(p)
      PROVE  /\ UNCHANGED <<result, rerun>>
             /\ \A x \in Worker : On(x, t)' => On(x, t)
             /\ dir'[t] = dir[t]
  <2>1. ReleaseClaim(cur[p]) /\ UNCHANGED <<result, rerun>> /\ cur[p] \in Task
    BY <1>0, <1>6 DEF ReapRemove, Release
  <2>2. \A x \in Worker : On(x, t)' => On(x, t)
    BY <1>0, <1>6 DEF ReapRemove, Release, On
  <2> QED
    BY <1>c, <2>1, <2>2
<1>7. ASSUME NEW p \in Worker, ClaimTry(p)
      PROVE  /\ dir'[t]
             /\ \A v \in Worker : On(v, t)' => v = w
             /\ ~rerun' => result'[t] = "none"
  <2>1. PICK u \in todo[p] : Mkdir(p, u) \/ UNCHANGED <<dir, cur, rerun, pc>>
    BY <1>7 DEF ClaimTry
  <2>2. UNCHANGED result /\ u \in Task /\ pc[p] = "claim"
    BY <1>0, <1>7, <2>1 DEF ClaimTry, TypeOK
  <2>3. CASE UNCHANGED <<dir, cur, rerun, pc>>
    BY <2>2, <2>3, <1>b DEF On
  <2>4. CASE Mkdir(p, u)
    <3>1. /\ ~dir[u] /\ dir' = [dir EXCEPT ![u] = TRUE]
          /\ pc' = [pc EXCEPT ![p] = "write"] /\ cur' = [cur EXCEPT ![p] = u]
          /\ ~rerun' => ~rerun /\ result[u] = "none"
      BY <2>4 DEF Mkdir
    <3>2. \A x \in Worker : x # p => (On(x, t)' <=> On(x, t))
      BY <1>0, <3>1 DEF On
    <3>3. On(p, t)' <=> t = u
      BY <1>0, <3>1 DEF On
    <3>4. \A x \in Worker : ~On(x, u)
      BY <1>b, <2>2, <3>1
    <3>5. CASE t = u
      BY <1>0, <2>2, <3>1, <3>2, <3>3, <3>4, <3>5
    <3>6. CASE t # u
      BY <1>0, <1>b, <2>2, <3>1, <3>2, <3>3, <3>6
    <3> QED
      BY <3>5, <3>6
  <2> QED
    BY <2>1, <2>3, <2>4
<1>8. ASSUME NEW p \in Worker, ClaimWrite(p)
      PROVE  /\ UNCHANGED <<result, rerun>>
             /\ \A x \in Worker : On(x, t)' => On(x, t)
             /\ dir[t] => dir'[t]
  BY <1>0, <1>8 DEF ClaimWrite, On
<1>9. ASSUME NEW p \in Worker, NEW outcome \in {"ok", "failed"}, Finish(p, outcome)
      PROVE  /\ dir'[t]
             /\ \A v \in Worker : On(v, t)' => v = w
             /\ ~rerun' => result'[t] = "none"
  <2>1. /\ UNCHANGED <<dir, rerun, cur>> /\ pc[p] = "run"
        /\ \/ result' = [result EXCEPT ![cur[p]] = outcome] /\ pc' = [pc EXCEPT ![p] = "release"]
           \/ result' = result /\ pc' = [pc EXCEPT ![p] = "idle"]
    BY <1>9 DEF Finish
  <2>2. \A x \in Worker : On(x, t)' => On(x, t) /\ x # p
    BY <1>0, <2>1 DEF On
  <2>3. On(p, cur[p]) /\ cur[p] \in Task
    BY <1>0, <2>1 DEF On
  <2>4. t # cur[p]
    BY <1>b, <2>2, <2>3
  <2> QED
    BY <1>0, <1>b, <2>1, <2>2, <2>4
<1> QED
  BY <1>1, <1>3, <1>4, <1>5, <1>6, <1>7, <1>8, <1>9, <1>b DEF Next, Pass

LEMMA OwnedInvariant == Spec => []Owned
  BY OwnedInit, OwnedStep, PTL DEF Spec

-----------------------------------------------------------------------------
(* Files and passes keep their shape, and a claim.json is in a directory.     *)
THEOREM QueueTypes == Spec => []TypeOK
<1>1. Owned => TypeOK
  BY DEF Owned
<1> QED
  BY <1>1, OwnedInvariant, PTL

(* No two passes are on one task until a claim is removed from under one.     *)
THEOREM OneRunner == Spec => []OneRunnerUntilEarly
<1>1. Owned => OneRunnerUntilEarly
  BY DEF Owned, OneRunnerUntilEarly
<1> QED
  BY <1>1, OwnedInvariant, PTL

(* Until then, and while no pass claims from a stale list, results are final. *)
THEOREM ResultsAreFinal == Spec => ResultIsFinal
<1>1. Owned /\ [Next]_vars =>
        [~early /\ ~rerun =>
           \A t \in Task : result[t] # "none" /\ file'[t] # "gone" =>
                             result'[t] = result[t]]_vars
  <2> SUFFICES ASSUME Owned, Next, ~early, ~rerun, NEW t \in Task,
                      result[t] # "none", file'[t] # "gone"
               PROVE  result'[t] = result[t]
    BY DEF vars
  <2>0. /\ result \in [Task -> {"none", "ok", "failed"}]
        /\ file \in [Task -> {"new", "queued", "gone"}]
        /\ cur \in [Worker -> Task]
    BY DEF Owned, TypeOK
  <2>1. CASE \E u \in Task : Clear(u)
    BY <2>0, <2>1 DEF Clear
  <2>2. ASSUME NEW w \in Worker, NEW outcome \in {"ok", "failed"}, Finish(w, outcome)
        PROVE  result'[t] = result[t]
    <3>1. On(w, cur[w]) /\ cur[w] \in Task
      BY <2>0, <2>2 DEF Finish, On
    <3>2. t # cur[w]
      BY <3>1 DEF Owned
    <3> QED
      BY <2>0, <2>2, <3>2 DEF Finish
  <2>3. CASE result' = result
    BY <2>3
  <2> QED
    BY <2>1, <2>2, <2>3
    DEF Next, Pass, Enqueue, Expire, StartPass, ReapLook, ReapRemove, ReapDone, List,
        ClaimTry, ClaimNone, ClaimWrite, Release, Crash
<1> QED
  BY <1>1, OwnedInvariant, PTL DEF Spec, ResultIsFinal
=============================================================================
