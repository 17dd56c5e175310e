------------------------- MODULE BashDispatch_proofs -------------------------
(* Proofs about BashDispatch, for every set of sessions, calls and limits. *)
EXTENDS BashDispatch, FiniteSetTheorems, TLAPS

\* Every step keeps the types; the attempts of a job stay within their limit, since
\* an unfinished job has attempts left (workerLifecycle.ts, bash.ts, queues.ts).
LEMMA TypeStep == TypeOK /\ AttemptsInv /\ [Next]_vars => TypeOK'
<1> USE Assumptions DEF TypeOK, Open, Settled, Live, GivenUp, Resolved, Alive, Dead
<1> SUFFICES ASSUME TypeOK, AttemptsInv, [Next]_vars PROVE TypeOK'
  OBVIOUS
<1> USE DEF orchestratorVars, redisVars
<1>1. ASSUME NEW s \in Sessions, OrchestratorStep(s) PROVE TypeOK'
  <2>1. CASE StartSession(s)
    <3>1. session' \in [Sessions -> {"new", "up", "quitting", "ended", "killed"}]
      <4>1. PICK x \in {"ended", "up"} : session' = [session EXCEPT ![s] = x]
        BY <2>1 DEF StartSession
      <4> QED BY <4>1
    <3>2. CASE UNCHANGED worker BY <2>1, <3>1, <3>2 DEF StartSession
    <3>3. ASSUME NEW w \in {"up", "failed"}, worker' = [worker EXCEPT ![s] = w]
          PROVE  TypeOK'
      BY <2>1, <3>1, <3>3 DEF StartSession
    <3> QED BY <2>1, <3>2, <3>3 DEF StartSession
  <2>2. CASE WorkerExitEvent(s)
    <3> DEFINE crash == ~shutdownInitiated[s] /\ (worker[s] # "exit0" \/ pendingJobs[s] # {})
    <3>1. call' = [c \in Calls |-> IF crash /\ c \in pendingJobs[s] THEN "crashed" ELSE call[c]]
      BY <2>2 DEF WorkerExitEvent
    <3>2. call' \in [Calls -> {"new"} \cup Open \cup Settled]
      <4> HIDE DEF crash
      <4> QED BY <3>1
    <3>3. pendingJobs' \in [Sessions -> SUBSET Calls]
      BY <2>2 DEF WorkerExitEvent
    <3>4. session' \in [Sessions -> {"new", "up", "quitting", "ended", "killed"}]
      BY <2>2 DEF WorkerExitEvent
    <3> QED BY <2>2, <3>2, <3>3, <3>4 DEF WorkerExitEvent
  <2>3. CASE Shutdown(s) BY <2>3 DEF Shutdown
  <2>4. CASE ShutdownTimeout(s) BY <2>4 DEF ShutdownTimeout
  <2>5. CASE OrchestratorDies(s) BY <2>5 DEF OrchestratorDies
  <2> QED BY <1>1, <2>1, <2>2, <2>3, <2>4, <2>5 DEF OrchestratorStep
<1>2. ASSUME NEW c \in Calls, CallStep(c) PROVE TypeOK'
  <2>1. CASE CheckBash(c) BY <2>1 DEF CheckBash
  <2>2. CASE AnswerApproval(c) BY <2>2 DEF AnswerApproval
  <2>3. CASE QueueAdd(c) BY <2>3 DEF QueueAdd
  <2>4. CASE TrackJob(c) BY <2>4 DEF TrackJob
  <2>5. CASE JobFinished(c) BY <2>5 DEF JobFinished
  <2> QED BY <1>2, <2>1, <2>2, <2>3, <2>4, <2>5 DEF CallStep
<1>3. ASSUME NEW w \in Sessions, NEW c \in Calls, JobStep(w, c) PROVE TypeOK'
  <2>1. CASE MoveToActive(w, c) BY <2>1 DEF MoveToActive
  <2>2. CASE SpawnBash(w, c) BY <2>2 DEF SpawnBash
  <2>3. CASE SpawnThrows(w, c)
    <3>1. attempts[c] + 1 \in 0..MaxAttempts
      <4>1. job[c] = "active" BY <2>3 DEF SpawnThrows, ActiveOn
      <4>2. attempts[c] < MaxAttempts BY <4>1 DEF AttemptsInv
      <4>3. attempts[c] \in 0..MaxAttempts OBVIOUS
      <4> QED BY <4>2, <4>3
    <3>2. attempts' \in [Calls -> 0..MaxAttempts]
      BY <2>3, <3>1 DEF SpawnThrows
    <3> QED BY <2>3, <3>2 DEF SpawnThrows
  <2>4. CASE TimeoutKill(w, c) BY <2>4 DEF TimeoutKill
  <2>5. CASE CloseBash(w, c) BY <2>5 DEF CloseBash
  <2>6. CASE MoveToCompleted(w, c) BY <2>6 DEF MoveToCompleted
  <2>7. CASE RecoverStalled(w, c)
    <3>1. CASE stalled[c] < MaxStalled
      <4>1. stalled[c] + 1 \in 0..MaxStalled BY <3>1
      <4>2. stalled' = [stalled EXCEPT ![c] = stalled[c] + 1]
        BY <2>7, <3>1 DEF RecoverStalled
      <4>3. stalled' \in [Calls -> 0..MaxStalled] BY <4>1, <4>2
      <4> QED BY <2>7, <3>1, <4>3 DEF RecoverStalled
    <3>2. CASE ~(stalled[c] < MaxStalled) BY <2>7, <3>2 DEF RecoverStalled
    <3> QED BY <3>1, <3>2
  <2> QED BY <1>3, <2>1, <2>2, <2>3, <2>4, <2>5, <2>6, <2>7 DEF JobStep
<1>4. ASSUME NEW w \in Sessions, WorkerStep(w) PROVE TypeOK'
  <2>1. CASE SignalWorker(w) BY <2>1 DEF SignalWorker
  <2>2. CASE WorkerExits(w) BY <2>2 DEF WorkerExits
  <2>3. CASE WorkerCrashes(w) BY <2>3 DEF WorkerCrashes
  <2> QED BY <1>4, <2>1, <2>2, <2>3 DEF WorkerStep
<1>5. CASE UNCHANGED vars BY <1>5 DEF vars
<1> QED BY <1>1, <1>2, <1>3, <1>4, <1>5 DEF Next

\* Every step leaves an unfinished job attempts: only the one failed attempt of
\* SpawnThrows counts, and a job is enqueued once (queues.ts, bashJob.ts).
LEMMA AttemptsStep == TypeOK /\ VetoHolds /\ AttemptsInv /\ [Next]_vars => AttemptsInv'
<1> USE Assumptions DEF TypeOK
<1> SUFFICES ASSUME TypeOK, VetoHolds, AttemptsInv, [Next]_vars,
                    NEW d \in Calls, job'[d] \notin {"completed", "failed"}
             PROVE  attempts'[d] < MaxAttempts
  BY DEF AttemptsInv
<1> USE DEF AttemptsInv, orchestratorVars, redisVars
<1>1. CASE \E s \in Sessions : OrchestratorStep(s)
  BY <1>1 DEF OrchestratorStep, StartSession, WorkerExitEvent, Shutdown,
              ShutdownTimeout, OrchestratorDies
<1>2. ASSUME NEW c \in Calls, CallStep(c) PROVE attempts'[d] < MaxAttempts
  <2>1. CASE QueueAdd(c) BY <2>1 DEF QueueAdd, VetoHolds
  <2>2. CASE CheckBash(c) \/ AnswerApproval(c) \/ TrackJob(c) \/ JobFinished(c)
    BY <2>2 DEF CheckBash, AnswerApproval, TrackJob, JobFinished
  <2> QED BY <1>2, <2>1, <2>2 DEF CallStep
<1>3. ASSUME NEW w \in Sessions, NEW c \in Calls, JobStep(w, c)
      PROVE  attempts'[d] < MaxAttempts
  <2>1. CASE MoveToActive(w, c) BY <2>1 DEF MoveToActive
  <2>2. CASE SpawnThrows(w, c) BY <2>2 DEF SpawnThrows
  <2>3. CASE MoveToCompleted(w, c) BY <2>3 DEF MoveToCompleted
  <2>4. CASE RecoverStalled(w, c) BY <2>4 DEF RecoverStalled
  <2>5. CASE SpawnBash(w, c) \/ TimeoutKill(w, c) \/ CloseBash(w, c)
    BY <2>5 DEF SpawnBash, TimeoutKill, CloseBash
  <2> QED BY <1>3, <2>1, <2>2, <2>3, <2>4, <2>5 DEF JobStep
<1>4. CASE \E w \in Sessions : WorkerStep(w)
  BY <1>4 DEF WorkerStep, SignalWorker, WorkerExits, WorkerCrashes
<1>5. CASE UNCHANGED vars BY <1>5 DEF vars
<1> QED BY <1>1, <1>2, <1>3, <1>4, <1>5 DEF Next

\* No step gives a call a second live bash under a second live worker: a worker that
\* starts one holds the job, and a worker that has one holds the job or completed it.
LEMMA OneLiveStep ==
  TypeOK /\ FreshSession /\ RunInv /\ OneLiveExecution /\ [Next]_vars => OneLiveExecution'
<1> USE Assumptions DEF TypeOK, Live, Alive, Dead, orchestratorVars, redisVars
<1> SUFFICES ASSUME TypeOK, FreshSession, RunInv, OneLiveExecution, [Next]_vars,
                    NEW d \in Calls, NEW u \in Sessions, NEW v \in Sessions,
                    worker'[u] \in Alive, worker'[v] \in Alive,
                    proc'[u][d] \in Live, proc'[v][d] \in Live
             PROVE  u = v
  BY DEF OneLiveExecution
\* A step that starts no worker and no bash for this call.
<1>1. ASSUME \A x \in {u, v} : worker[x] \in Alive /\ proc[x][d] \in Live
      PROVE  u = v
  BY <1>1 DEF OneLiveExecution
<1>2. ASSUME NEW s \in Sessions, OrchestratorStep(s) PROVE u = v
  <2>1. UNCHANGED proc
    BY <1>2 DEF OrchestratorStep, StartSession, WorkerExitEvent, Shutdown,
                ShutdownTimeout, OrchestratorDies
  <2>2. \A x \in {u, v} : worker[x] \in Alive \cup Dead BY <2>1 DEF RunInv
  <2>3. CASE StartSession(s)
    <3>1. \A x \in {u, v} : x # s BY <2>2, <2>3 DEF StartSession, FreshSession
    <3> QED BY <1>1, <2>1, <2>3, <3>1 DEF StartSession
  <2>4. CASE WorkerExitEvent(s) \/ Shutdown(s) \/ ShutdownTimeout(s) \/ OrchestratorDies(s)
    <3>1. \A x \in {u, v} : worker[x] \in Alive
      BY <2>4 DEF WorkerExitEvent, Shutdown, ShutdownTimeout, OrchestratorDies
    <3> QED BY <1>1, <2>1, <3>1
  <2> QED BY <1>2, <2>3, <2>4 DEF OrchestratorStep
<1>3. ASSUME NEW c \in Calls, CallStep(c) PROVE u = v
  BY <1>1, <1>3 DEF CallStep, CheckBash, AnswerApproval, QueueAdd, TrackJob, JobFinished
<1>4. ASSUME NEW w \in Sessions, NEW c \in Calls, JobStep(w, c) PROVE u = v
  <2>1. CASE SpawnBash(w, c)
    <3>1. UNCHANGED worker /\ job[c] = "active" /\ lock[c] = w
      BY <2>1 DEF SpawnBash, ActiveOn
    <3>2. \A x \in {u, v} : c = d => proc[x][d] \in Live \/ x = w
      BY <2>1 DEF SpawnBash
    <3>3. c = d => u = w /\ v = w BY <3>1, <3>2 DEF RunInv
    <3>4. c # d => \A x \in {u, v} : proc[x][d] \in Live BY <2>1 DEF SpawnBash
    <3> QED BY <1>1, <3>1, <3>3, <3>4
  <2>2. CASE TimeoutKill(w, c) BY <1>1, <2>2 DEF TimeoutKill
  <2>3. CASE CloseBash(w, c) BY <1>1, <2>3 DEF CloseBash
  <2>4. CASE MoveToActive(w, c) \/ SpawnThrows(w, c) \/ MoveToCompleted(w, c) \/ RecoverStalled(w, c)
    BY <1>1, <2>4 DEF MoveToActive, SpawnThrows, MoveToCompleted, RecoverStalled
  <2> QED BY <1>4, <2>1, <2>2, <2>3, <2>4 DEF JobStep
<1>5. ASSUME NEW w \in Sessions, WorkerStep(w) PROVE u = v
  BY <1>1, <1>5 DEF WorkerStep, SignalWorker, WorkerExits, WorkerCrashes
<1>6. CASE UNCHANGED vars BY <1>1, <1>6 DEF vars
<1> QED BY <1>2, <1>3, <1>4, <1>5, <1>6 DEF Next

\* The inductive invariant: what the orchestrators, the workers and Redis know
\* of each other (workerLifecycle.ts, bash.ts, bashJob.ts).
THEOREM IInvCorrect == Spec => []IInv
<1> USE Assumptions DEF Open, Settled, Live, GivenUp, Resolved, Alive, Dead, orchestratorVars, redisVars
<1>1. Init => IInv
  BY DEF Init, IInv, TypeOK, AttemptsInv, FreshSession, OneOpenCall, TrackedWait, TrackingExact,
         VetoHolds, LockInv, RunInv, OneLiveExecution, AnswerInv
<1>2. IInv /\ [Next]_vars => IInv'
  <2> SUFFICES ASSUME IInv, TypeOK', AttemptsInv', OneLiveExecution', [Next]_vars
               PROVE  IInv'
    BY TypeStep, AttemptsStep, OneLiveStep DEF IInv
  <2> USE DEF IInv, TypeOK
  <2>1. ASSUME NEW s \in Sessions, OrchestratorStep(s) PROVE IInv'
    <3>1. CASE StartSession(s)
      <4> USE <3>1 DEF StartSession
      <4>1. OneOpenCall' /\ TrackedWait' /\ VetoHolds' /\ AnswerInv'
        BY DEF OneOpenCall, TrackedWait, VetoHolds, AnswerInv
      <4>2. FreshSession' BY DEF FreshSession
      <4>3. TrackingExact' BY DEF TrackingExact, FreshSession, TrackedWait
      <4>4. LockInv' BY DEF LockInv, FreshSession
      <4>5. RunInv' BY DEF RunInv, FreshSession
      <4> QED BY <4>1, <4>2, <4>3, <4>4, <4>5
    <3>2. CASE WorkerExitEvent(s)
      <4> USE <3>2 DEF WorkerExitEvent
      <4>1. LockInv' /\ RunInv'
        BY DEF LockInv, RunInv
      <4>2. FreshSession' BY DEF FreshSession, TrackedWait
      <4>3. OneOpenCall' BY DEF OneOpenCall
      <4>4. TrackedWait' BY DEF TrackedWait
      <4>5. TrackingExact' BY DEF TrackingExact, TrackedWait
      <4>6. VetoHolds' BY DEF VetoHolds
      <4>7. AnswerInv' BY DEF AnswerInv
      <4> QED BY <4>1, <4>2, <4>3, <4>4, <4>5, <4>6, <4>7
    <3>3. CASE Shutdown(s)
      <4> USE <3>3 DEF Shutdown
      <4>1. OneOpenCall' /\ TrackedWait' /\ VetoHolds' /\ AnswerInv'
        BY DEF OneOpenCall, TrackedWait, VetoHolds, AnswerInv
      <4>2. FreshSession' BY DEF FreshSession
      <4>3. TrackingExact' BY DEF TrackingExact
      <4>4. LockInv' BY DEF LockInv
      <4>5. RunInv' BY DEF RunInv
      <4> QED BY <4>1, <4>2, <4>3, <4>4, <4>5
    <3>4. CASE ShutdownTimeout(s)
      <4> USE <3>4 DEF ShutdownTimeout
      <4>1. OneOpenCall' /\ TrackedWait' /\ VetoHolds' /\ AnswerInv'
        BY DEF OneOpenCall, TrackedWait, VetoHolds, AnswerInv
      <4>2. FreshSession' BY DEF FreshSession
      <4>3. TrackingExact' BY DEF TrackingExact
      <4>4. LockInv' BY DEF LockInv
      <4>5. RunInv' BY DEF RunInv
      <4> QED BY <4>1, <4>2, <4>3, <4>4, <4>5
    <3>5. CASE OrchestratorDies(s)
      <4> USE <3>5 DEF OrchestratorDies
      <4>1. OneOpenCall' /\ VetoHolds' /\ LockInv' /\ RunInv' /\ AnswerInv'
        BY DEF OneOpenCall, VetoHolds, LockInv, RunInv, AnswerInv
      <4>2. FreshSession' BY DEF FreshSession
      <4>3. TrackedWait' BY DEF TrackedWait
      <4>4. TrackingExact' BY DEF TrackingExact
      <4> QED BY <4>1, <4>2, <4>3, <4>4
    <3> QED BY <2>1, <3>1, <3>2, <3>3, <3>4, <3>5 DEF OrchestratorStep
  <2>2. ASSUME NEW c \in Calls, CallStep(c) PROVE IInv'
    <3>1. CASE CheckBash(c)
      <4> USE <3>1 DEF CheckBash
      <4>1. LockInv' /\ RunInv'
        BY DEF LockInv, RunInv
      <4>2. FreshSession' BY DEF FreshSession
      <4>3. OneOpenCall' BY DEF OneOpenCall, OpenCalls
      <4>4. TrackedWait' BY DEF TrackedWait
      <4>5. TrackingExact' BY DEF TrackingExact
      <4>6. VetoHolds' BY DEF VetoHolds
      <4>7. AnswerInv' BY DEF AnswerInv
      <4> QED BY <4>1, <4>2, <4>3, <4>4, <4>5, <4>6, <4>7
    <3>2. CASE AnswerApproval(c)
      <4> USE <3>2 DEF AnswerApproval
      <4>1. LockInv' /\ RunInv'
        BY DEF LockInv, RunInv
      <4>2. FreshSession' BY DEF FreshSession
      <4>3. OneOpenCall' BY DEF OneOpenCall
      <4>4. TrackedWait' BY DEF TrackedWait
      <4>5. TrackingExact' BY DEF TrackingExact
      <4>6. VetoHolds' BY DEF VetoHolds
      <4>7. AnswerInv' BY DEF AnswerInv
      <4> QED BY <4>1, <4>2, <4>3, <4>4, <4>5, <4>6, <4>7
    <3>3. CASE QueueAdd(c)
      <4> USE <3>3 DEF QueueAdd
      <4>1. FreshSession' BY DEF FreshSession
      <4>2. OneOpenCall' BY DEF OneOpenCall
      <4>3. TrackedWait' BY DEF TrackedWait
      <4>4. TrackingExact' BY DEF TrackingExact
      <4>5. VetoHolds' BY DEF VetoHolds
      <4>6. LockInv' BY DEF LockInv, VetoHolds
      <4>7. RunInv' BY DEF RunInv, VetoHolds
      <4>8. AnswerInv' BY DEF AnswerInv, VetoHolds
      <4> QED BY <4>1, <4>2, <4>3, <4>4, <4>5, <4>6, <4>7, <4>8
    <3>4. CASE TrackJob(c)
      <4> USE <3>4 DEF TrackJob
      <4>1. LockInv' /\ RunInv'
        BY DEF LockInv, RunInv
      <4>2. FreshSession' BY DEF FreshSession
      <4>3. OneOpenCall' BY DEF OneOpenCall
      <4>4. TrackedWait' BY DEF TrackedWait
      <4>5. TrackingExact' BY DEF TrackingExact
      <4>6. VetoHolds' BY DEF VetoHolds
      <4>7. AnswerInv' BY DEF AnswerInv
      <4> QED BY <4>1, <4>2, <4>3, <4>4, <4>5, <4>6, <4>7
    <3>5. CASE JobFinished(c)
      <4> USE <3>5 DEF JobFinished
      <4>1. LockInv' /\ RunInv'
        BY DEF LockInv, RunInv
      <4>2. FreshSession' BY DEF FreshSession
      <4>3. OneOpenCall'
        <5>1. PICK a \in {"result", "failed"} : call' = [call EXCEPT ![c] = a]
          OBVIOUS
        <5>2. \A d \in Calls : call'[d] \in Open => call[d] \in Open
          BY <5>1
        <5> QED BY <5>2 DEF OneOpenCall
      <4>4. TrackedWait' BY DEF TrackedWait
      <4>5. TrackingExact' BY DEF TrackingExact
      <4>6. VetoHolds' BY DEF VetoHolds
      <4>7. AnswerInv' BY DEF AnswerInv
      <4> QED BY <4>1, <4>2, <4>3, <4>4, <4>5, <4>6, <4>7
    <3> QED BY <2>2, <3>1, <3>2, <3>3, <3>4, <3>5 DEF CallStep
  <2>3. ASSUME NEW w \in Sessions, NEW c \in Calls, JobStep(w, c) PROVE IInv'
    <3>1. CASE MoveToActive(w, c)
      <4> USE <3>1 DEF MoveToActive
      <4>1. FreshSession' /\ OneOpenCall' /\ TrackedWait' /\ TrackingExact'
        BY DEF FreshSession, OneOpenCall, TrackedWait, TrackingExact
      <4>2. VetoHolds' BY DEF VetoHolds
      <4>3. LockInv' BY DEF LockInv
      <4>4. RunInv' BY DEF RunInv
      <4>5. AnswerInv' BY DEF AnswerInv
      <4> QED BY <4>1, <4>2, <4>3, <4>4, <4>5
    <3>2. CASE SpawnBash(w, c)
      <4> USE <3>2 DEF SpawnBash
      <4>1. FreshSession' /\ OneOpenCall' /\ TrackedWait' /\ TrackingExact' /\ LockInv'
        BY DEF FreshSession, OneOpenCall, TrackedWait, TrackingExact, LockInv
      <4>2. VetoHolds' BY DEF VetoHolds, ActiveOn
      <4>3. RunInv' BY DEF RunInv, ActiveOn, LockInv
      <4>4. AnswerInv' BY DEF AnswerInv, ActiveOn
      <4> QED BY <4>1, <4>2, <4>3, <4>4
    <3>3. CASE SpawnThrows(w, c)
      <4> USE <3>3 DEF SpawnThrows
      <4>1. FreshSession' /\ OneOpenCall' /\ TrackedWait' /\ TrackingExact'
        BY DEF FreshSession, OneOpenCall, TrackedWait, TrackingExact
      <4>2. VetoHolds' BY DEF VetoHolds, ActiveOn
      <4>3. LockInv' BY DEF LockInv, ActiveOn
      <4>4. RunInv' BY DEF RunInv, ActiveOn
      <4>5. AnswerInv' BY DEF AnswerInv, ActiveOn
      <4> QED BY <4>1, <4>2, <4>3, <4>4, <4>5
    <3>4. CASE TimeoutKill(w, c)
      <4> USE <3>4 DEF TimeoutKill
      <4>1. FreshSession' /\ OneOpenCall' /\ TrackedWait' /\ TrackingExact' /\ LockInv'
        BY DEF FreshSession, OneOpenCall, TrackedWait, TrackingExact, LockInv
      <4>2. VetoHolds' BY DEF VetoHolds
      <4>3. RunInv' BY DEF RunInv
      <4>4. AnswerInv' BY DEF AnswerInv
      <4> QED BY <4>1, <4>2, <4>3, <4>4
    <3>5. CASE CloseBash(w, c)
      <4> USE <3>5 DEF CloseBash
      <4>1. FreshSession' /\ OneOpenCall' /\ TrackedWait' /\ TrackingExact' /\ LockInv'
        BY DEF FreshSession, OneOpenCall, TrackedWait, TrackingExact, LockInv
      <4>2. VetoHolds' BY DEF VetoHolds
      <4>3. RunInv' BY DEF RunInv
      <4>4. AnswerInv' BY DEF AnswerInv
      <4> QED BY <4>1, <4>2, <4>3, <4>4
    <3>6. CASE MoveToCompleted(w, c)
      <4> USE <3>6 DEF MoveToCompleted
      <4>1. FreshSession' /\ OneOpenCall' /\ TrackedWait' /\ TrackingExact'
        BY DEF FreshSession, OneOpenCall, TrackedWait, TrackingExact
      <4>2. VetoHolds' BY DEF VetoHolds, ActiveOn
      <4>3. LockInv' BY DEF LockInv, ActiveOn
      <4>4. RunInv' BY DEF RunInv, ActiveOn
      <4>5. AnswerInv' BY DEF AnswerInv, ActiveOn
      <4> QED BY <4>1, <4>2, <4>3, <4>4, <4>5
    <3>7. CASE RecoverStalled(w, c)
      <4> USE <3>7 DEF RecoverStalled
      <4>1. FreshSession' /\ OneOpenCall' /\ TrackedWait' /\ TrackingExact'
        BY DEF FreshSession, OneOpenCall, TrackedWait, TrackingExact
      <4>2. VetoHolds' BY DEF VetoHolds
      <4>3. LockInv' BY DEF LockInv
      <4>4. RunInv' BY DEF RunInv, LockInv
      <4>5. AnswerInv' BY DEF AnswerInv
      <4> QED BY <4>1, <4>2, <4>3, <4>4, <4>5
    <3> QED BY <2>3, <3>1, <3>2, <3>3, <3>4, <3>5, <3>6, <3>7 DEF JobStep
  <2>4. ASSUME NEW w \in Sessions, WorkerStep(w) PROVE IInv'
    <3>1. CASE SignalWorker(w)
      <4> USE <3>1 DEF SignalWorker
      <4>1. OneOpenCall' /\ TrackedWait' /\ TrackingExact' /\ VetoHolds' /\ AnswerInv'
        BY DEF OneOpenCall, TrackedWait, TrackingExact, VetoHolds, AnswerInv
      <4>2. FreshSession' BY DEF FreshSession
      <4>3. LockInv' BY DEF LockInv
      <4>4. RunInv' BY DEF RunInv
      <4> QED BY <4>1, <4>2, <4>3, <4>4
    <3>2. CASE WorkerExits(w)
      <4> USE <3>2 DEF WorkerExits
      <4>1. OneOpenCall' /\ TrackedWait' /\ TrackingExact' /\ VetoHolds' /\ AnswerInv'
        BY DEF OneOpenCall, TrackedWait, TrackingExact, VetoHolds, AnswerInv
      <4>2. FreshSession' BY DEF FreshSession
      <4>3. LockInv' BY DEF LockInv
      <4>4. RunInv' BY DEF RunInv
      <4> QED BY <4>1, <4>2, <4>3, <4>4
    <3>3. CASE WorkerCrashes(w)
      <4> USE <3>3 DEF WorkerCrashes
      <4>1. OneOpenCall' /\ TrackedWait' /\ TrackingExact' /\ VetoHolds' /\ AnswerInv'
        BY DEF OneOpenCall, TrackedWait, TrackingExact, VetoHolds, AnswerInv
      <4>2. FreshSession' BY DEF FreshSession
      <4>3. LockInv' BY DEF LockInv
      <4>4. RunInv' BY DEF RunInv
      <4> QED BY <4>1, <4>2, <4>3, <4>4
    <3> QED BY <2>4, <3>1, <3>2, <3>3 DEF WorkerStep
  <2>5. CASE UNCHANGED vars
    BY <2>5 DEF vars, FreshSession, OneOpenCall, TrackedWait, TrackingExact,
                VetoHolds, LockInv, RunInv, AnswerInv
  <2> QED BY <2>1, <2>2, <2>3, <2>4, <2>5 DEF Next
<1> QED BY <1>1, <1>2, PTL DEF Spec
-----------------------------------------------------------------------------
(* What follows from the inductive invariant                               *)

\* One answer, one job and a bounded number of attempts per call, whatever fails.
THEOREM TypeCorrect == Spec => []TypeOK
BY IInvCorrect, PTL DEF IInv

\* workerLifecycle's Map holds exactly the waiting calls of a running session.
THEOREM TrackingCorrect == Spec => []TrackingExact
BY IInvCorrect, PTL DEF IInv

\* No job and no process for a dangerous command before approval or after a veto.
THEOREM VetoCorrect == Spec => []VetoHolds
BY IInvCorrect, PTL DEF IInv

\* Two live workers never run the command of one call at once.
THEOREM OneLiveCorrect == Spec => []OneLiveExecution
BY IInvCorrect, PTL DEF IInv

-----------------------------------------------------------------------------
(* How often a command is started                                          *)

Started(c) == {w \in Sessions : proc[w][c] \in Ran}

\* A job that waits has been started at most once per recovery; one that is active
\* may have been started once more, by the worker that holds it.
Counted(c) ==
  /\ IsFiniteSet(Started(c))
  /\ Cardinality(Started(c)) <= 1 + stalled[c]
  /\ job[c] = "waiting" => Cardinality(Started(c)) <= stalled[c]
  /\ job[c] = "active" => Cardinality(Started(c) \ {lock[c]}) <= stalled[c]

LEMMA Holder ==
  ASSUME NEW S, IsFiniteSet(S), NEW w
  PROVE  /\ Cardinality(S) \in Nat /\ Cardinality(S \ {w}) \in Nat
         /\ Cardinality(S \ {w}) <= Cardinality(S)
         /\ Cardinality(S) <= Cardinality(S \ {w}) + 1
<1>1. IsFiniteSet(S \ {w}) BY FS_RemoveElement
<1>2. Cardinality(S) \in Nat /\ Cardinality(S \ {w}) \in Nat BY <1>1, FS_CardinalityType
<1>3. Cardinality(S \ {w}) = IF w \in S THEN Cardinality(S) - 1 ELSE Cardinality(S)
  BY FS_RemoveElement
<1> QED BY <1>2, <1>3

LEMMA CountStep ==
  IInv /\ (\A c \in Calls : Counted(c)) /\ [Next]_vars => (\A c \in Calls : Counted(c))'
<1> USE Assumptions
<1> SUFFICES ASSUME IInv, \A c \in Calls : Counted(c), [Next]_vars, NEW d \in Calls
             PROVE  Counted(d)'
  OBVIOUS
<1> DEFINE S == Started(d)
<1>a. /\ IsFiniteSet(S)
      /\ Cardinality(S) <= 1 + stalled[d]
      /\ job[d] = "waiting" => Cardinality(S) <= stalled[d]
      /\ job[d] = "active" => Cardinality(S \ {lock[d]}) <= stalled[d]
  BY DEF Counted
<1>b. stalled[d] \in Nat /\ TypeOK
  BY DEF IInv, TypeOK
\* A step that does nothing for this call.
<1>1. ASSUME \A w \in Sessions : proc'[w][d] \in Ran <=> proc[w][d] \in Ran,
             job'[d] = job[d], lock'[d] = lock[d], stalled'[d] = stalled[d]
      PROVE  Counted(d)'
  <2>1. Started(d)' = S BY <1>1 DEF Started
  <2> QED BY <1>1, <1>a, <2>1 DEF Counted
<1>2. CASE \E s \in Sessions : OrchestratorStep(s)
  BY <1>1, <1>2 DEF OrchestratorStep, StartSession, WorkerExitEvent, Shutdown,
                    ShutdownTimeout, OrchestratorDies, orchestratorVars, redisVars
<1>3. CASE \E w \in Sessions : WorkerStep(w)
  BY <1>1, <1>3 DEF WorkerStep, SignalWorker, WorkerExits, WorkerCrashes, redisVars
<1>4. CASE UNCHANGED vars
  BY <1>1, <1>4 DEF vars
<1>5. ASSUME NEW c \in Calls, CallStep(c) PROVE Counted(d)'
  <2>1. CASE CheckBash(c) \/ AnswerApproval(c) \/ TrackJob(c) \/ JobFinished(c)
    BY <1>1, <2>1 DEF CheckBash, AnswerApproval, TrackJob, JobFinished, redisVars
  <2>2. CASE QueueAdd(c) /\ c # d
    BY <1>1, <1>b, <2>2 DEF QueueAdd, TypeOK
  <2>3. CASE QueueAdd(c) /\ c = d
    <3>1. S = {} BY <2>3 DEF QueueAdd, IInv, VetoHolds, Started, Ran, Live
    <3>2. Started(d)' = S /\ UNCHANGED stalled /\ job'[d] = "waiting"
      BY <2>3, <1>b DEF QueueAdd, Started, TypeOK
    <3> QED BY <3>1, <3>2, <1>a, <1>b, FS_EmptySet DEF Counted
  <2> QED BY <1>5, <2>1, <2>2, <2>3 DEF CallStep
<1>6. ASSUME NEW w \in Sessions, NEW c \in Calls, JobStep(w, c) PROVE Counted(d)'
  <2>1. CASE c # d
    <3>1. CASE SpawnBash(w, c)
      BY <1>1, <1>b, <2>1, <3>1 DEF SpawnBash, TypeOK, redisVars
    <3>2. CASE TimeoutKill(w, c)
      BY <1>1, <1>b, <2>1, <3>2 DEF TimeoutKill, TypeOK, redisVars
    <3>3. CASE CloseBash(w, c)
      BY <1>1, <1>b, <2>1, <3>3 DEF CloseBash, TypeOK, redisVars
    <3>4. CASE MoveToActive(w, c) \/ SpawnThrows(w, c) \/ MoveToCompleted(w, c) \/ RecoverStalled(w, c)
      BY <1>1, <1>b, <2>1, <3>4
      DEF MoveToActive, SpawnThrows, MoveToCompleted, RecoverStalled, TypeOK
    <3> QED BY <1>6, <3>1, <3>2, <3>3, <3>4 DEF JobStep
  <2>2. CASE c = d
    <3>1. CASE MoveToActive(w, d)
      <4>1. Started(d)' = S /\ UNCHANGED stalled /\ job[d] = "waiting"
            /\ job'[d] = "active" /\ lock'[d] = w
        BY <3>1, <1>b DEF MoveToActive, Started, TypeOK
      <4>2. Cardinality(S) <= stalled[d] /\ Cardinality(S \ {w}) <= stalled[d]
        <5>1. Cardinality(S) <= stalled[d] BY <4>1, <1>a
        <5>2. /\ Cardinality(S) \in Nat /\ Cardinality(S \ {w}) \in Nat
              /\ Cardinality(S \ {w}) <= Cardinality(S)
          BY <1>a, Holder
        <5> HIDE DEF S
        <5> QED BY <5>1, <5>2, <1>b
      <4> HIDE DEF S
      <4> QED BY <4>1, <4>2, <1>a DEF Counted
    <3>2. CASE SpawnBash(w, d) /\ proc'[w][d] = "refused"
      <4>1. Started(d)' = S /\ UNCHANGED <<job, lock, stalled>>
        BY <3>2, <1>b DEF SpawnBash, Started, TypeOK, redisVars, Ran, Live
      <4> QED BY <4>1, <1>a DEF Counted
    <3>2a. CASE SpawnBash(w, d) /\ proc'[w][d] # "refused"
      <4>1. job[d] = "active" /\ lock[d] = w /\ UNCHANGED <<job, lock, stalled>>
        BY <3>2a DEF SpawnBash, ActiveOn, redisVars
      <4>2. Started(d)' = S \cup {w} BY <3>2a, <1>b DEF SpawnBash, Started, TypeOK, Ran, Live
      <4>3. IsFiniteSet(S \cup {w}) BY <1>a, FS_AddElement
      <4>4. (S \cup {w}) \ {w} = S \ {w} OBVIOUS
      <4>5. Cardinality(S \ {w}) <= stalled[d] BY <4>1, <1>a
      <4>6. /\ Cardinality(S \cup {w}) \in Nat /\ Cardinality(S \ {w}) \in Nat
            /\ Cardinality(S \cup {w}) <= Cardinality(S \ {w}) + 1
        BY <4>3, <4>4, Holder
      <4> HIDE DEF S
      <4>7. Cardinality(S \cup {w}) <= 1 + stalled[d] BY <4>5, <4>6, <1>b
      <4>8. job'[d] = "active" /\ lock'[d] = w /\ stalled'[d] = stalled[d] BY <4>1
      <4> QED BY <4>2, <4>3, <4>4, <4>5, <4>7, <4>8 DEF Counted
    <3>3. CASE SpawnThrows(w, d)
      <4>1. S = {} /\ Started(d)' = S /\ UNCHANGED stalled
        BY <3>3 DEF SpawnThrows, IInv, RunInv, Started, Ran, Live
      <4>2. job'[d] # "active" BY <3>3, <1>b DEF SpawnThrows, TypeOK
      <4>3. Started(d)' = {} /\ stalled'[d] = stalled[d] BY <4>1
      <4>4. IsFiniteSet({}) /\ Cardinality({}) = 0 BY FS_EmptySet
      <4> QED BY <4>2, <4>3, <4>4, <1>b DEF Counted
    <3>4. CASE TimeoutKill(w, d) \/ CloseBash(w, d)
      <4>1. \A v \in Sessions : proc'[v][d] \in Ran <=> proc[v][d] \in Ran
        <5>1. CASE TimeoutKill(w, d) BY <5>1, <1>b DEF TimeoutKill, TypeOK, Ran, Live
        <5>2. CASE CloseBash(w, d) BY <5>2, <1>b DEF CloseBash, Ran, Live, TypeOK
        <5> QED BY <3>4, <5>1, <5>2
      <4> QED BY <1>1, <3>4, <4>1 DEF TimeoutKill, CloseBash, redisVars
    <3>5. CASE MoveToCompleted(w, d)
      <4>1. Started(d)' = S /\ UNCHANGED stalled /\ job'[d] = "completed"
        BY <3>5, <1>b DEF MoveToCompleted, Started, TypeOK
      <4> QED BY <4>1, <1>a DEF Counted
    <3>6. CASE RecoverStalled(w, d)
      <4>1. Started(d)' = S /\ job[d] = "active" BY <3>6 DEF RecoverStalled, Started
      <4>2. CASE stalled[d] < MaxStalled
        <5>1. stalled'[d] = stalled[d] + 1 /\ job'[d] = "waiting"
          BY <3>6, <4>2, <1>b DEF RecoverStalled, TypeOK
        <5>2. /\ Cardinality(S) \in Nat /\ Cardinality(S \ {lock[d]}) \in Nat
              /\ Cardinality(S) <= Cardinality(S \ {lock[d]}) + 1
          BY <1>a, Holder
        <5>3. Cardinality(S \ {lock[d]}) <= stalled[d] BY <4>1, <1>a
        <5> HIDE DEF S
        <5>4. Cardinality(S) <= stalled'[d] /\ Cardinality(S) <= 1 + stalled'[d]
          BY <5>1, <5>2, <5>3, <1>b
        <5> QED BY <4>1, <5>1, <5>4, <1>a DEF Counted
      <4>3. CASE ~(stalled[d] < MaxStalled)
        <5>1. UNCHANGED stalled /\ job'[d] = "failed"
          BY <3>6, <4>3, <1>b DEF RecoverStalled, TypeOK
        <5> QED BY <4>1, <5>1, <1>a DEF Counted
      <4> QED BY <4>2, <4>3
    <3> QED BY <1>6, <2>2, <3>1, <3>2, <3>2a, <3>3, <3>4, <3>5, <3>6 DEF JobStep
  <2> QED BY <2>1, <2>2
<1> QED BY <1>2, <1>3, <1>4, <1>5, <1>6 DEF Next

\* A command is started once, and once more per recovery from a dead worker: attempts
\* that fail do not repeat it (queues.ts, worker.ts).
THEOREM ExecutionsCorrect == Spec => []ExecutionsBounded
<1>1. Init => \A c \in Calls : Counted(c)
  <2> SUFFICES ASSUME Init, NEW c \in Calls PROVE Counted(c)
    OBVIOUS
  <2>1. Started(c) = {} /\ stalled[c] = 0 /\ job[c] = "none" BY DEF Init, Started, Ran, Live
  <2> QED BY <2>1, FS_EmptySet DEF Counted
<1>2. (\A c \in Calls : Counted(c)) => ExecutionsBounded
  BY DEF Counted, Started, ExecutionsBounded
<1> QED BY <1>1, <1>2, CountStep, IInvCorrect, PTL DEF Spec

-----------------------------------------------------------------------------
(* The dispatch path implements ShellCalls                                 *)

\* A step that gives one call a new answer and touches no process.
LEMMA AnswerStep ==
  ASSUME NEW c \in Calls, NEW a,
         \A d \in Calls : Answer(d)' = IF d = c THEN a ELSE Answer(d)
  PROVE  [d \in Calls |-> Answer(d)]' = [[d \in Calls |-> Answer(d)] EXCEPT ![c] = a]
OBVIOUS

\* A step that changes no answer, nor whether a process started, closed or was given up.
LEMMA SilentStep ==
  ASSUME \A d \in Calls : Answer(d)' = Answer(d),
         \A w \in Sessions, d \in Calls :
            /\ proc'[w][d] \in Ran <=> proc[w][d] \in Ran
            /\ (proc'[w][d] = "closed") <=> (proc[w][d] = "closed")
            /\ proc'[w][d] \in GivenUp <=> proc[w][d] \in GivenUp
  PROVE  UNCHANGED Promise!abstractVars
<1>1. \A d \in Calls : {w \in Sessions : proc[w][d] \in Ran}' = {w \in Sessions : proc[w][d] \in Ran}
  OBVIOUS
<1>2. \A d \in Calls : {w \in Sessions : proc[w][d] = "closed"}' = {w \in Sessions : proc[w][d] = "closed"}
  OBVIOUS
<1>3. \A d \in Calls : {w \in Sessions : proc[w][d] \in GivenUp}' = {w \in Sessions : proc[w][d] \in GivenUp}
  OBVIOUS
<1> QED BY <1>1, <1>2, <1>3 DEF Promise!abstractVars

\* A step that leaves calls and processes alone is silent.
LEMMA QuietStep ==
  ASSUME UNCHANGED <<call, proc>>
  PROVE  UNCHANGED Promise!abstractVars
<1>1. \A d \in Calls : Answer(d)' = Answer(d)
  BY DEF Answer
<1> QED BY <1>1, SilentStep

\* A step of the dispatch path is a step of ShellCalls or leaves it unchanged.
LEMMA StepRefines == IInv /\ [Next]_vars => [Promise!Next]_(Promise!abstractVars)
<1> SUFFICES ASSUME IInv, [Next]_vars
             PROVE  Promise!Next \/ UNCHANGED Promise!abstractVars
  OBVIOUS
<1> USE DEF orchestratorVars, redisVars
<1>1. ASSUME NEW s \in Sessions, OrchestratorStep(s)
      PROVE  Promise!Next \/ UNCHANGED Promise!abstractVars
  <2>1. CASE WorkerExitEvent(s)
    <3>1. CASE UNCHANGED call
      BY <2>1, <3>1, QuietStep DEF WorkerExitEvent
    <3>2. CASE ~UNCHANGED call
      <4>1. PICK c \in pendingJobs[s] : call'[c] = "crashed"
        BY <2>1, <3>2 DEF WorkerExitEvent, IInv, TypeOK
      <4>2. c \in Calls /\ call[c] = "waiting"
        BY <4>1 DEF IInv, TypeOK, TrackedWait
      <4>3. pendingJobs[s] = {c}
        BY <4>1, <4>2 DEF IInv, TypeOK, TrackedWait, OneOpenCall, Open
      <4>4. \A d \in Calls : call'[d] = IF d = c THEN "crashed" ELSE call[d]
        BY <2>1, <4>1, <4>3 DEF WorkerExitEvent
      <4>5. \A d \in Calls : Answer(d)' = IF d = c THEN "crashed" ELSE Answer(d)
        BY <4>4 DEF Answer
      <4>6. Answer(c) = "vetted" BY <4>2 DEF Answer
      <4>7. Promise!Report(c)
        BY <2>1, <4>2, <4>5, <4>6, AnswerStep DEF Promise!Report, WorkerExitEvent
      <4> QED BY <4>2, <4>7 DEF Promise!Next
    <3> QED BY <3>1, <3>2
  <2>2. CASE StartSession(s) \/ Shutdown(s) \/ ShutdownTimeout(s) \/ OrchestratorDies(s)
    BY <2>2, QuietStep DEF StartSession, Shutdown, ShutdownTimeout, OrchestratorDies
  <2> QED BY <1>1, <2>1, <2>2 DEF OrchestratorStep
<1>2. ASSUME NEW c \in Calls, CallStep(c)
      PROVE  Promise!Next \/ UNCHANGED Promise!abstractVars
  <2> USE DEF IInv, TypeOK
  <2>1. CASE CheckBash(c) /\ c \in Dangerous
    <3>1. \A d \in Calls : Answer(d)' = Answer(d)
      BY <2>1 DEF CheckBash, Answer
    <3> QED BY <2>1, <3>1, SilentStep DEF CheckBash
  <2>2. CASE CheckBash(c) /\ c \notin Dangerous
    <3>1. \A d \in Calls : Answer(d)' = IF d = c THEN "vetted" ELSE Answer(d)
      BY <2>2 DEF CheckBash, Answer
    <3>2. Answer(c) = "unvetted" BY <2>2 DEF CheckBash, Answer
    <3>3. [d \in Calls |-> Answer(d)]' = [[d \in Calls |-> Answer(d)] EXCEPT ![c] = "vetted"]
      BY <3>1, AnswerStep
    <3>4. Promise!Vet(c)
      BY <2>2, <3>2, <3>3 DEF CheckBash, Promise!Vet
    <3> QED BY <3>4 DEF Promise!Next
  <2>3. CASE AnswerApproval(c)
    <3>1. PICK next \in {"adding", "rejected"} : call' = [call EXCEPT ![c] = next]
      BY <2>3 DEF AnswerApproval
    <3> DEFINE a == IF next = "adding" THEN "vetted" ELSE "rejected"
    <3>2. \A d \in Calls : Answer(d)' = IF d = c THEN a ELSE Answer(d)
      BY <3>1 DEF Answer
    <3>3. Answer(c) = "unvetted" BY <2>3 DEF AnswerApproval, Answer
    <3>4. a \in {"vetted", "rejected"} OBVIOUS
    <3> HIDE DEF a
    <3>5. [d \in Calls |-> Answer(d)]' = [[d \in Calls |-> Answer(d)] EXCEPT ![c] = a]
      BY <3>2, AnswerStep
    <3>6. \E x \in {"vetted", "rejected"} :
            [d \in Calls |-> Answer(d)]' = [[d \in Calls |-> Answer(d)] EXCEPT ![c] = x]
      BY <3>4, <3>5
    <3>7. UNCHANGED proc BY <2>3 DEF AnswerApproval
    <3>8. Promise!Vet(c)
      <4>1. [d \in Calls |-> Answer(d)][c] = "unvetted" BY <3>3
      <4>2. UNCHANGED <<[d \in Calls |-> {w \in Sessions : proc[w][d] \in Ran}],
                        [d \in Calls |-> {w \in Sessions : proc[w][d] = "closed"}],
                        [d \in Calls |-> {w \in Sessions : proc[w][d] \in GivenUp}]>>
        BY <3>7
      <4> HIDE DEF IInv, TypeOK
      <4> QED BY <4>1, <4>2, <3>6, Zenon DEF Promise!Vet
    <3> QED BY <3>8 DEF Promise!Next
  <2>4. CASE QueueAdd(c) \/ TrackJob(c)
    <3>1. \A d \in Calls : Answer(d)' = Answer(d)
      BY <2>4 DEF QueueAdd, TrackJob, Answer
    <3> QED BY <2>4, <3>1, SilentStep DEF QueueAdd, TrackJob
  <2>5. CASE JobFinished(c)
    <3>1. PICK a \in {"result", "failed"} :
            call' = [call EXCEPT ![c] = a] /\ (a = "result" => job[c] = "completed")
      BY <2>5 DEF JobFinished
    <3>2. \A d \in Calls : Answer(d)' = IF d = c THEN a ELSE Answer(d)
      BY <3>1 DEF Answer
    <3>3. Answer(c) = "vetted" BY <2>5 DEF JobFinished, Answer
    <3>4. a = "result" => {w \in Sessions : proc[w][c] = "closed"}
                          \cup {w \in Sessions : proc[w][c] \in GivenUp} # {}
      <4>1. a = "result" => \E w \in Sessions : proc[w][c] \in Resolved
        BY <3>1 DEF AnswerInv
      <4> QED BY <4>1 DEF Resolved
    <3>5. [d \in Calls |-> Answer(d)]' = [[d \in Calls |-> Answer(d)] EXCEPT ![c] = a]
      BY <3>2, AnswerStep
    <3>6. \E x \in {"result", "crashed", "failed"} :
            /\ x = "result" => [d \in Calls |-> {w \in Sessions : proc[w][d] = "closed"}][c]
                 \cup [d \in Calls |-> {w \in Sessions : proc[w][d] \in GivenUp}][c] # {}
            /\ [d \in Calls |-> Answer(d)]' = [[d \in Calls |-> Answer(d)] EXCEPT ![c] = x]
      BY <3>4, <3>5
    <3>7. UNCHANGED proc BY <2>5 DEF JobFinished
    <3>8. Promise!Report(c)
      <4>1. [d \in Calls |-> Answer(d)][c] = "vetted" BY <3>3
      <4>2. UNCHANGED <<[d \in Calls |-> {w \in Sessions : proc[w][d] \in Ran}],
                        [d \in Calls |-> {w \in Sessions : proc[w][d] = "closed"}],
                        [d \in Calls |-> {w \in Sessions : proc[w][d] \in GivenUp}]>>
        BY <3>7
      <4> HIDE DEF IInv, TypeOK
      <4> QED BY <4>1, <4>2, <3>6, Zenon DEF Promise!Report
    <3> QED BY <3>8 DEF Promise!Next
  <2> QED BY <1>2, <2>1, <2>2, <2>3, <2>4, <2>5 DEF CallStep
<1>3. ASSUME NEW w \in Sessions, NEW c \in Calls, JobStep(w, c)
      PROVE  Promise!Next \/ UNCHANGED Promise!abstractVars
  <2> USE DEF IInv, TypeOK
  <2> USE DEF Live, Ran, GivenUp
  <2>1. CASE SpawnBash(w, c)
    <3>1. Answer(c) \in {"vetted", "crashed"}
      BY <2>1 DEF SpawnBash, ActiveOn, VetoHolds, AnswerInv, Answer, Open, Settled
    <3>2. \A d \in Calls : Answer(d)' = Answer(d)
      BY <2>1 DEF SpawnBash, Answer
    <3>3. PICK outcome \in {"running", "refused"} : proc' = [proc EXCEPT ![w][c] = outcome]
      BY <2>1 DEF SpawnBash
    <3>4. \A v \in Sessions, d \in Calls :
            proc'[v][d] = IF v = w /\ d = c THEN outcome ELSE proc[v][d]
      BY <3>3
    <3>5. proc[w][c] = "none" BY <2>1 DEF SpawnBash
    <3>6. \A d \in Calls :
            {v \in Sessions : proc[v][d] = "closed"}' = {v \in Sessions : proc[v][d] = "closed"}
      BY <3>4, <3>5
    <3>7. CASE outcome = "running"
      <4>1. \A d \in Calls :
              /\ {v \in Sessions : proc[v][d] \in Ran}' =
                   IF d = c THEN {v \in Sessions : proc[v][c] \in Ran} \cup {w}
                   ELSE {v \in Sessions : proc[v][d] \in Ran}
              /\ {v \in Sessions : proc[v][d] \in GivenUp}' = {v \in Sessions : proc[v][d] \in GivenUp}
        BY <3>4, <3>5, <3>7
      <4>2. w \notin {v \in Sessions : proc[v][c] \in Ran} \cup {v \in Sessions : proc[v][c] \in GivenUp}
        BY <3>5
      <4>3. Promise!Start(w, c)
        <5> HIDE DEF IInv, TypeOK, Live, Ran, GivenUp
        <5>1. [d \in Calls |-> Answer(d)][c] \in {"vetted", "crashed"} BY <3>1
        <5>2. [d \in Calls |-> {v \in Sessions : proc[v][d] \in Ran}]' =
                [[d \in Calls |-> {v \in Sessions : proc[v][d] \in Ran}] EXCEPT
                  ![c] = [d \in Calls |-> {v \in Sessions : proc[v][d] \in Ran}][c] \cup {w}]
          BY <4>1
        <5>3. UNCHANGED <<[d \in Calls |-> Answer(d)],
                          [d \in Calls |-> {v \in Sessions : proc[v][d] = "closed"}],
                          [d \in Calls |-> {v \in Sessions : proc[v][d] \in GivenUp}]>>
          BY <3>2, <3>6, <4>1
        <5>4. w \notin [d \in Calls |-> {v \in Sessions : proc[v][d] \in Ran}][c]
                       \cup [d \in Calls |-> {v \in Sessions : proc[v][d] \in GivenUp}][c]
          BY <4>2
        <5> QED BY <5>1, <5>2, <5>3, <5>4, Zenon DEF Promise!Start
      <4> QED BY <4>3 DEF Promise!Next
    <3>8. CASE outcome = "refused"
      <4>1. \A d \in Calls :
              /\ {v \in Sessions : proc[v][d] \in GivenUp}' =
                   IF d = c THEN {v \in Sessions : proc[v][c] \in GivenUp} \cup {w}
                   ELSE {v \in Sessions : proc[v][d] \in GivenUp}
              /\ {v \in Sessions : proc[v][d] \in Ran}' = {v \in Sessions : proc[v][d] \in Ran}
        BY <3>4, <3>5, <3>8
      <4>2. w \notin {v \in Sessions : proc[v][c] = "closed"} \cup {v \in Sessions : proc[v][c] \in GivenUp}
        BY <3>5
      <4>3. Promise!GiveUp(w, c)
        <5> HIDE DEF IInv, TypeOK, Live, Ran, GivenUp
        <5>1. [d \in Calls |-> Answer(d)][c] \in {"vetted", "crashed"} BY <3>1
        <5>2. [d \in Calls |-> {v \in Sessions : proc[v][d] \in GivenUp}]' =
                [[d \in Calls |-> {v \in Sessions : proc[v][d] \in GivenUp}] EXCEPT
                  ![c] = [d \in Calls |-> {v \in Sessions : proc[v][d] \in GivenUp}][c] \cup {w}]
          BY <4>1
        <5>3. UNCHANGED <<[d \in Calls |-> Answer(d)],
                          [d \in Calls |-> {v \in Sessions : proc[v][d] \in Ran}],
                          [d \in Calls |-> {v \in Sessions : proc[v][d] = "closed"}]>>
          BY <3>2, <3>6, <4>1
        <5>4. w \notin [d \in Calls |-> {v \in Sessions : proc[v][d] = "closed"}][c]
                       \cup [d \in Calls |-> {v \in Sessions : proc[v][d] \in GivenUp}][c]
          BY <4>2
        <5> QED BY <5>1, <5>2, <5>3, <5>4, Zenon DEF Promise!GiveUp
      <4> QED BY <4>3 DEF Promise!Next
    <3> QED BY <3>7, <3>8
  <2>2. CASE CloseBash(w, c)
    <3>1. \A d \in Calls : Answer(d)' = Answer(d)
      BY <2>2 DEF CloseBash, Answer
    <3>2. \A v \in Sessions, d \in Calls :
            proc'[v][d] = IF v = w /\ d = c THEN "closed" ELSE proc[v][d]
      BY <2>2 DEF CloseBash
    <3>3. proc[w][c] \in Live BY <2>2 DEF CloseBash
    <3>4. \A d \in Calls :
            /\ {v \in Sessions : proc[v][d] = "closed"}' =
                 IF d = c THEN {v \in Sessions : proc[v][c] = "closed"} \cup {w}
                 ELSE {v \in Sessions : proc[v][d] = "closed"}
            /\ {v \in Sessions : proc[v][d] \in Ran}' = {v \in Sessions : proc[v][d] \in Ran}
            /\ {v \in Sessions : proc[v][d] \in GivenUp}' =
                 IF d = c THEN {v \in Sessions : proc[v][c] \in GivenUp} \ {w}
                 ELSE {v \in Sessions : proc[v][d] \in GivenUp}
      BY <3>2, <3>3
    <3>5. w \in {v \in Sessions : proc[v][c] \in Ran} \ {v \in Sessions : proc[v][c] = "closed"}
      BY <3>3
    <3>6. Promise!End(w, c)
      <4> HIDE DEF IInv, TypeOK, Live, Ran, GivenUp
      <4>1. w \in [d \in Calls |-> {v \in Sessions : proc[v][d] \in Ran}][c]
                   \ [d \in Calls |-> {v \in Sessions : proc[v][d] = "closed"}][c]
        BY <3>5
      <4>2. [d \in Calls |-> {v \in Sessions : proc[v][d] = "closed"}]' =
              [[d \in Calls |-> {v \in Sessions : proc[v][d] = "closed"}] EXCEPT
                ![c] = [d \in Calls |-> {v \in Sessions : proc[v][d] = "closed"}][c] \cup {w}]
        BY <3>4
      <4>3. [d \in Calls |-> {v \in Sessions : proc[v][d] \in GivenUp}]' =
              [[d \in Calls |-> {v \in Sessions : proc[v][d] \in GivenUp}] EXCEPT
                ![c] = [d \in Calls |-> {v \in Sessions : proc[v][d] \in GivenUp}][c] \ {w}]
        BY <3>4
      <4>4. UNCHANGED <<[d \in Calls |-> Answer(d)], [d \in Calls |-> {v \in Sessions : proc[v][d] \in Ran}]>>
        BY <3>1, <3>4
      <4> QED BY <4>1, <4>2, <4>3, <4>4, Zenon DEF Promise!End
    <3> QED BY <3>6 DEF Promise!Next
  <2>3. CASE TimeoutKill(w, c)
    <3>1. \A d \in Calls : Answer(d)' = Answer(d)
      BY <2>3 DEF TimeoutKill, Answer
    <3>2. PICK outcome \in {"killed", "escaped"} : proc' = [proc EXCEPT ![w][c] = outcome]
      BY <2>3 DEF TimeoutKill
    <3>3. \A v \in Sessions, d \in Calls :
            proc'[v][d] = IF v = w /\ d = c THEN outcome ELSE proc[v][d]
      BY <3>2
    <3>4. proc[w][c] = "running" BY <2>3 DEF TimeoutKill
    <3>5. CASE outcome = "killed"
      BY <3>1, <3>3, <3>4, <3>5, SilentStep
    <3>6. CASE outcome = "escaped"
      <4>1. \A d \in Calls :
              /\ {v \in Sessions : proc[v][d] \in GivenUp}' =
                   IF d = c THEN {v \in Sessions : proc[v][c] \in GivenUp} \cup {w}
                   ELSE {v \in Sessions : proc[v][d] \in GivenUp}
              /\ {v \in Sessions : proc[v][d] \in Ran}' = {v \in Sessions : proc[v][d] \in Ran}
        BY <3>3, <3>4, <3>6
      <4>5. \A d \in Calls :
              {v \in Sessions : proc[v][d] = "closed"}' = {v \in Sessions : proc[v][d] = "closed"}
        BY <3>3, <3>4, <3>6
      <4>2. w \notin {v \in Sessions : proc[v][c] = "closed"} \cup {v \in Sessions : proc[v][c] \in GivenUp}
        BY <3>4
      <4>3. job[c] = "active"
        BY <2>3, <3>4 DEF TimeoutKill, RunInv
      <4>4. Answer(c) \in {"vetted", "crashed"}
        BY <4>3 DEF VetoHolds, AnswerInv, Answer, Open, Settled
      <4>6. Promise!GiveUp(w, c)
        <5> HIDE DEF IInv, TypeOK, Live, Ran, GivenUp
        <5>1. [d \in Calls |-> Answer(d)][c] \in {"vetted", "crashed"} BY <4>4
        <5>2. [d \in Calls |-> {v \in Sessions : proc[v][d] \in GivenUp}]' =
                [[d \in Calls |-> {v \in Sessions : proc[v][d] \in GivenUp}] EXCEPT
                  ![c] = [d \in Calls |-> {v \in Sessions : proc[v][d] \in GivenUp}][c] \cup {w}]
          BY <4>1
        <5>3. UNCHANGED <<[d \in Calls |-> Answer(d)], [d \in Calls |-> {v \in Sessions : proc[v][d] \in Ran}],
                          [d \in Calls |-> {v \in Sessions : proc[v][d] = "closed"}]>>
          BY <3>1, <4>1, <4>5
        <5>4. w \notin [d \in Calls |-> {v \in Sessions : proc[v][d] = "closed"}][c]
                       \cup [d \in Calls |-> {v \in Sessions : proc[v][d] \in GivenUp}][c]
          BY <4>2
        <5> QED BY <5>1, <5>2, <5>3, <5>4, Zenon DEF Promise!GiveUp
      <4> QED BY <4>6 DEF Promise!Next
    <3> QED BY <3>5, <3>6
  <2>4. CASE MoveToActive(w, c) \/ SpawnThrows(w, c) \/ MoveToCompleted(w, c) \/ RecoverStalled(w, c)
    BY <2>4, QuietStep DEF MoveToActive, SpawnThrows, MoveToCompleted, RecoverStalled
  <2> QED BY <1>3, <2>1, <2>2, <2>3, <2>4 DEF JobStep
<1>4. ASSUME NEW w \in Sessions, WorkerStep(w)
      PROVE  UNCHANGED Promise!abstractVars
  BY <1>4, QuietStep DEF WorkerStep, SignalWorker, WorkerExits, WorkerCrashes
<1>5. CASE UNCHANGED vars
  BY <1>5, QuietStep DEF vars
<1> QED BY <1>1, <1>2, <1>3, <1>4, <1>5 DEF Next

\* Whatever worker dies or is recovered, the bash tool keeps its promise: one
\* answer per call, no start before vetting, no result before a runner is done.
THEOREM DispatchKeepsPromise == Spec => KeepsPromise
<1>1. Init => Promise!Init
  BY DEF Init, Promise!Init, Answer, Ran, Live, GivenUp
<1> QED BY <1>1, IInvCorrect, StepRefines, PTL DEF Spec, KeepsPromise, Promise!Spec
=============================================================================
