---------------------------- MODULE BashDispatch ----------------------------
(***************************************************************************)
(* The path of a shell command from the bash tool to a bash process and    *)
(* back: the tool (src/tools/bash.ts), the HITL check, the BullMQ queue in  *)
(* Redis (external), the worker process (src/queue/worker.ts,               *)
(* src/queue/jobs/bashJob.ts) and the orchestrator's handle on that worker  *)
(* (src/runtime/workerLifecycle.ts).                                        *)
(*                                                                         *)
(* A session is one orchestrator process; it owns one worker process, named *)
(* by the same value.  All sessions of a machine share one Redis, hence one *)
(* queue, so a worker also runs the jobs of other sessions.                 *)
(***************************************************************************)
EXTENDS Naturals, FiniteSets

CONSTANTS Sessions,      \* orchestrator processes, and their workers
          Calls,         \* invocations of the bash tool; also the BullMQ job ids
          SessionOf,     \* the session each call is made in
          Dangerous,     \* calls whose command isDangerous() matches
          Unspawnable,   \* calls for which child_process.spawn throws (a NUL in an argument)
          Lingering,     \* calls whose background children keep the output pipes open
          Mortal,        \* sessions whose orchestrator may be killed (a bound on the runs)
          Concurrency,   \* jobs one worker runs at a time
          MaxAttempts,   \* BullMQ attempts of a job
          MaxStalled,    \* BullMQ maxStalledCount
          NoWorker       \* the lock holder of a job no worker runs

ASSUME Assumptions ==
  /\ SessionOf \in [Calls -> Sessions]
  /\ Dangerous \subseteq Calls /\ Unspawnable \subseteq Calls /\ Lingering \subseteq Calls
  /\ Mortal \subseteq Sessions
  /\ Concurrency \in Nat \ {0} /\ MaxAttempts \in Nat \ {0} /\ MaxStalled \in Nat
  /\ NoWorker \notin Sessions

VARIABLES
  \* orchestrator processes
  session,            \* life cycle of the orchestrator process
  exitSeen,           \* its 'exit' listener on the worker has run
  shutdownInitiated,  \* workerLifecycle's flag
  pendingJobs,        \* workerLifecycle's Map, as the set of its keys
  call,               \* where each bash call is
  \* worker processes
  worker,             \* the OS process
  proc,               \* what became of the bash process of a call in a worker
  \* Redis
  job,                \* the BullMQ job of a call
  lock,               \* the worker holding an active job
  attempts,           \* failed attempts of a job
  stalled             \* times a job was recovered from a dead worker

orchestratorVars == <<session, exitSeen, shutdownInitiated, pendingJobs, call>>
redisVars == <<job, lock, attempts, stalled>>
vars == <<session, exitSeen, shutdownInitiated, pendingJobs, call,
          worker, proc, job, lock, attempts, stalled>>

Open    == {"hitl", "adding", "added", "waiting"}
Settled == {"rejected", "result", "crashed", "failed"}
Live    == {"running", "killed", "escaped"}   \* there is a bash process
Ran     == Live \cup {"closed"}               \* there is or was one
Alive   == {"up", "closing"}
Dead    == {"exit0", "exitN", "signal"}

\* runBashJob resolves, and never rejects: at bash's 'close', and at an 'error' of the
\* child, which says that no bash was started or that bash cannot be killed.
GivenUp  == {"refused", "escaped"}
Resolved == {"closed"} \cup GivenUp

TypeOK ==
  /\ session \in [Sessions -> {"new", "up", "quitting", "ended", "killed"}]
  /\ exitSeen \in [Sessions -> BOOLEAN]
  /\ shutdownInitiated \in [Sessions -> BOOLEAN]
  /\ pendingJobs \in [Sessions -> SUBSET Calls]
  /\ call \in [Calls -> {"new"} \cup Open \cup Settled]
  /\ worker \in [Sessions -> {"none", "failed"} \cup Alive \cup Dead]
  /\ proc \in [Sessions -> [Calls -> {"none"} \cup Live \cup Resolved]]
  /\ job \in [Calls -> {"none", "waiting", "active", "completed", "failed"}]
  /\ lock \in [Calls -> Sessions \cup {NoWorker}]
  /\ attempts \in [Calls -> 0..MaxAttempts]
  /\ stalled \in [Calls -> 0..MaxStalled]

Init ==
  /\ session = [s \in Sessions |-> "new"]
  /\ exitSeen = [s \in Sessions |-> FALSE]
  /\ shutdownInitiated = [s \in Sessions |-> FALSE]
  /\ pendingJobs = [s \in Sessions |-> {}]
  /\ call = [c \in Calls |-> "new"]
  /\ worker = [s \in Sessions |-> "none"]
  /\ proc = [s \in Sessions |-> [c \in Calls |-> "none"]]
  /\ job = [c \in Calls |-> "none"]
  /\ lock = [c \in Calls |-> NoWorker]
  /\ attempts = [c \in Calls |-> 0]
  /\ stalled = [c \in Calls |-> 0]

OpenCalls(s) == {c \in Calls : SessionOf[c] = s /\ call[c] \in Open}
ActiveOn(w)  == {c \in Calls : job[c] = "active" /\ lock[c] = w}

-----------------------------------------------------------------------------
(* The orchestrator: startWorker, the bash tool, the exit handler, shutdown *)

\* startWorker: refused by the Redis ping, spawned, or spawned in vain (the
\* 'error' event only writes to stderr; no 'exit' event follows it).
StartSession(s) ==
  /\ session[s] = "new"
  /\ \/ /\ session' = [session EXCEPT ![s] = "ended"]
        /\ UNCHANGED worker
     \/ \E w \in {"up", "failed"} :
          /\ session' = [session EXCEPT ![s] = "up"]
          /\ worker' = [worker EXCEPT ![s] = w]
  /\ UNCHANGED <<exitSeen, shutdownInitiated, pendingJobs, call, proc, redisVars>>

\* Mutant of CheckBash: the job is enqueued before the user has answered.
CheckBashEnqueuesFirst(c) ==
  /\ session[SessionOf[c]] = "up"
  /\ call[c] = "new"
  /\ OpenCalls(SessionOf[c]) = {}
  /\ call' = [call EXCEPT ![c] = IF c \in Dangerous THEN "hitl" ELSE "adding"]
  /\ job' = [job EXCEPT ![c] = IF c \in Dangerous THEN "waiting" ELSE @]
  /\ UNCHANGED <<session, exitSeen, shutdownInitiated, pendingJobs, worker, proc,
                 lock, attempts, stalled>>

\* The ReAct loop invokes one tool at a time, so a session has one open call.
CheckBash(c) ==
  /\ session[SessionOf[c]] = "up"
  /\ call[c] = "new"
  /\ OpenCalls(SessionOf[c]) = {}
  /\ call' = [call EXCEPT ![c] = IF c \in Dangerous THEN "hitl" ELSE "adding"]
  /\ UNCHANGED <<session, exitSeen, shutdownInitiated, pendingJobs, worker, proc, redisVars>>

\* The user answers the approval prompt; a veto throws 'HITL rejected:'.
AnswerApproval(c) ==
  /\ session[SessionOf[c]] = "up"
  /\ call[c] = "hitl"
  /\ \E next \in {"adding", "rejected"} : call' = [call EXCEPT ![c] = next]
  /\ UNCHANGED <<session, exitSeen, shutdownInitiated, pendingJobs, worker, proc, redisVars>>

\* Redis stores the job; the tool is still awaiting the reply.
QueueAdd(c) ==
  /\ session[SessionOf[c]] = "up"
  /\ call[c] = "adding"
  /\ call' = [call EXCEPT ![c] = "added"]
  /\ job' = [job EXCEPT ![c] = "waiting"]
  /\ UNCHANGED <<session, exitSeen, shutdownInitiated, pendingJobs, worker, proc,
                 lock, attempts, stalled>>

\* The tool resumes: trackJob, then the race between the job and a crash.
TrackJob(c) ==
  LET s == SessionOf[c] IN
  /\ session[s] = "up"
  /\ call[c] = "added"
  /\ call' = [call EXCEPT ![c] = "waiting"]
  /\ pendingJobs' = [pendingJobs EXCEPT ![s] = @ \cup {c}]
  /\ UNCHANGED <<session, exitSeen, shutdownInitiated, worker, proc, redisVars>>

\* Mutant of JobFinished: no finally, so the entry stays in pendingJobs.
JobFinishedKeepsEntry(c) ==
  /\ session[SessionOf[c]] = "up"
  /\ call[c] = "waiting"
  /\ \/ job[c] = "completed" /\ call' = [call EXCEPT ![c] = "result"]
     \/ job[c] = "failed" /\ call' = [call EXCEPT ![c] = "failed"]
  /\ UNCHANGED <<session, exitSeen, shutdownInitiated, pendingJobs, worker, proc, redisVars>>

\* Mutant of JobFinished: a job that is being retried or rerun counts as finished.
JobFinishedTooEarly(c) ==
  LET s == SessionOf[c] IN
  /\ session[s] = "up"
  /\ call[c] = "waiting"
  /\ \/ job[c] \in {"active", "completed"} /\ call' = [call EXCEPT ![c] = "result"]
     \/ job[c] = "failed" /\ call' = [call EXCEPT ![c] = "failed"]
  /\ pendingJobs' = [pendingJobs EXCEPT ![s] = @ \ {c}]
  /\ UNCHANGED <<session, exitSeen, shutdownInitiated, worker, proc, redisVars>>

\* waitUntilFinished settles from a queue event; the finally releases the job.
JobFinished(c) ==
  LET s == SessionOf[c] IN
  /\ session[s] = "up"
  /\ call[c] = "waiting"
  /\ \/ job[c] = "completed" /\ call' = [call EXCEPT ![c] = "result"]
     \/ job[c] = "failed" /\ call' = [call EXCEPT ![c] = "failed"]
  /\ pendingJobs' = [pendingJobs EXCEPT ![s] = @ \ {c}]
  /\ UNCHANGED <<session, exitSeen, shutdownInitiated, worker, proc, redisVars>>

\* The 'exit' listener.  A rejected promise settles its race, and runs the
\* tool's finally, before any other event.  During shutdown the second
\* listener resolves shutdown() instead.
WorkerExitEvent(s) ==
  LET crash == /\ ~shutdownInitiated[s]
               /\ worker[s] # "exit0" \/ pendingJobs[s] # {}
  IN
  /\ session[s] \in {"up", "quitting"}
  /\ worker[s] \in Dead
  /\ ~exitSeen[s]
  /\ exitSeen' = [exitSeen EXCEPT ![s] = TRUE]
  /\ call' = [c \in Calls |-> IF crash /\ c \in pendingJobs[s] THEN "crashed" ELSE call[c]]
  /\ pendingJobs' = [pendingJobs EXCEPT ![s] = IF crash THEN {} ELSE @]
  /\ session' = [session EXCEPT ![s] = IF @ = "quitting" THEN "ended" ELSE @]
  /\ UNCHANGED <<shutdownInitiated, worker, proc, redisVars>>

\* main's finally, reached between tool calls: shutdown() returns at once when
\* the child has an exitCode (a child killed by a signal has none), else SIGTERM.
Shutdown(s) ==
  LET hasExitCode == \/ worker[s] = "failed"
                     \/ exitSeen[s] /\ worker[s] \in {"exit0", "exitN"}
  IN
  /\ session[s] = "up"
  /\ OpenCalls(s) = {}
  /\ shutdownInitiated' = [shutdownInitiated EXCEPT ![s] = TRUE]
  /\ session' = [session EXCEPT ![s] = IF hasExitCode THEN "ended" ELSE "quitting"]
  /\ worker' = [worker EXCEPT ![s] = IF @ = "up" THEN "closing" ELSE @]
  /\ UNCHANGED <<exitSeen, pendingJobs, call, proc, redisVars>>

\* Two seconds without an exit event: SIGKILL, and shutdown() resolves.  The child
\* is the `pnpm` that runs the worker; the worker dies with it, or outlives it.
ShutdownTimeout(s) ==
  /\ session[s] = "quitting"
  /\ session' = [session EXCEPT ![s] = "ended"]
  /\ \/ worker' = [worker EXCEPT ![s] = IF @ \in Alive THEN "signal" ELSE @]
     \/ UNCHANGED worker
  /\ UNCHANGED <<exitSeen, shutdownInitiated, pendingJobs, call, proc, redisVars>>

\* The orchestrator is killed: its memory is gone, its worker lives on.
OrchestratorDies(s) ==
  /\ s \in Mortal
  /\ session[s] \in {"up", "quitting"}
  /\ session' = [session EXCEPT ![s] = "killed"]
  /\ pendingJobs' = [pendingJobs EXCEPT ![s] = {}]
  /\ UNCHANGED <<exitSeen, shutdownInitiated, call, worker, proc, redisVars>>

-----------------------------------------------------------------------------
(* The worker process                                                      *)

\* BullMQ hands a waiting job to a worker with a free slot (external).
MoveToActive(w, c) ==
  /\ worker[w] = "up"
  /\ job[c] = "waiting"
  /\ Cardinality(ActiveOn(w)) < Concurrency
  /\ job' = [job EXCEPT ![c] = "active"]
  /\ lock' = [lock EXCEPT ![c] = w]
  /\ UNCHANGED <<orchestratorVars, worker, proc, attempts, stalled>>

\* runBashJob starts bash, or the system refuses: a cwd that does not exist, no right
\* to enter it, no bash, no process to spare.  Then the child emits 'error'.
SpawnBash(w, c) ==
  /\ worker[w] \in Alive
  /\ c \in ActiveOn(w) \ Unspawnable
  /\ proc[w][c] = "none"
  /\ \E outcome \in {"running", "refused"} : proc' = [proc EXCEPT ![w][c] = outcome]
  /\ UNCHANGED <<orchestratorVars, worker, redisVars>>

\* Mutant of SpawnThrows: the failed attempt is not counted.
SpawnThrowsUncounted(w, c) ==
  /\ worker[w] \in Alive
  /\ c \in ActiveOn(w) \cap Unspawnable
  /\ job' = [job EXCEPT ![c] = IF attempts[c] + 1 < MaxAttempts THEN "waiting" ELSE "failed"]
  /\ lock' = [lock EXCEPT ![c] = NoWorker]
  /\ UNCHANGED <<orchestratorVars, worker, proc, attempts, stalled>>

\* Mutant of SpawnThrows: the attempts of a job are never used up.
SpawnThrowsForEver(w, c) ==
  /\ worker[w] \in Alive
  /\ c \in ActiveOn(w) \cap Unspawnable
  /\ attempts' = [attempts EXCEPT ![c] = @ + 1]
  /\ job' = [job EXCEPT ![c] = "waiting"]
  /\ lock' = [lock EXCEPT ![c] = NoWorker]
  /\ UNCHANGED <<orchestratorVars, worker, proc, stalled>>

\* spawn throws inside the promise executor: the job fails and BullMQ retries
\* it until its attempts are used up.
SpawnThrows(w, c) ==
  LET n == attempts[c] + 1 IN
  /\ worker[w] \in Alive
  /\ c \in ActiveOn(w) \cap Unspawnable
  /\ attempts' = [attempts EXCEPT ![c] = n]
  /\ job' = [job EXCEPT ![c] = IF n < MaxAttempts THEN "waiting" ELSE "failed"]
  /\ lock' = [lock EXCEPT ![c] = NoWorker]
  /\ UNCHANGED <<orchestratorVars, worker, proc, stalled>>

\* Mutant of TimeoutKill: a worker that is closing has cleared its timers.
TimeoutKillWhileUp(w, c) ==
  /\ worker[w] = "up"
  /\ proc[w][c] = "running"
  /\ \E outcome \in {"killed", "escaped"} : proc' = [proc EXCEPT ![w][c] = outcome]
  /\ UNCHANGED <<orchestratorVars, worker, redisVars>>

\* The job's timer: SIGKILL to bash.  The system refuses it when bash has become a
\* program of another user (`sudo ...`): 'error', while the command goes on.
TimeoutKill(w, c) ==
  /\ worker[w] \in Alive
  /\ proc[w][c] = "running"
  /\ \E outcome \in {"killed", "escaped"} : proc' = [proc EXCEPT ![w][c] = outcome]
  /\ UNCHANGED <<orchestratorVars, worker, redisVars>>

\* bash and every holder of its pipes are gone: 'close'.  The bash process of a dead
\* worker ends the same way, unobserved.
CloseBash(w, c) ==
  /\ proc[w][c] \in Live
  /\ proc' = [proc EXCEPT ![w][c] = "closed"]
  /\ UNCHANGED <<orchestratorVars, worker, redisVars>>

\* BullMQ records the result of the resolved job (external).
MoveToCompleted(w, c) ==
  /\ worker[w] \in Alive
  /\ c \in ActiveOn(w)
  /\ proc[w][c] \in Resolved
  /\ job' = [job EXCEPT ![c] = "completed"]
  /\ lock' = [lock EXCEPT ![c] = NoWorker]
  /\ UNCHANGED <<orchestratorVars, worker, proc, attempts, stalled>>

\* Mutant of RecoverStalled: the recovery is not counted.
RecoverStalledUncounted(w, c) ==
  /\ worker[w] = "up"
  /\ job[c] = "active"
  /\ worker[lock[c]] \notin Alive
  /\ job' = [job EXCEPT ![c] = "waiting"]
  /\ lock' = [lock EXCEPT ![c] = NoWorker]
  /\ UNCHANGED <<orchestratorVars, worker, proc, attempts, stalled>>

\* Mutant of RecoverStalled: the lock of a busy, living worker is taken to have expired.
RecoverStalledFromLive(w, c) ==
  /\ worker[w] = "up"
  /\ job[c] = "active"
  /\ lock[c] # w
  /\ stalled[c] < MaxStalled
  /\ job' = [job EXCEPT ![c] = "waiting"]
  /\ stalled' = [stalled EXCEPT ![c] = @ + 1]
  /\ lock' = [lock EXCEPT ![c] = NoWorker]
  /\ UNCHANGED <<orchestratorVars, worker, proc, attempts>>

\* A worker finds an active job whose lock expired with its holder (external).
RecoverStalled(w, c) ==
  /\ worker[w] = "up"
  /\ job[c] = "active"
  /\ worker[lock[c]] \notin Alive
  /\ IF stalled[c] < MaxStalled
       THEN /\ job' = [job EXCEPT ![c] = "waiting"]
            /\ stalled' = [stalled EXCEPT ![c] = @ + 1]
       ELSE /\ job' = [job EXCEPT ![c] = "failed"]
            /\ UNCHANGED stalled
  /\ lock' = [lock EXCEPT ![c] = NoWorker]
  /\ UNCHANGED <<orchestratorVars, worker, proc, attempts>>

\* A SIGTERM or SIGINT from outside starts worker.ts' own shutdown.
SignalWorker(w) ==
  /\ worker[w] = "up"
  /\ worker' = [worker EXCEPT ![w] = "closing"]
  /\ UNCHANGED <<orchestratorVars, proc, redisVars>>

\* worker.close() has waited for the running jobs; process.exit(0).
WorkerExits(w) ==
  /\ worker[w] = "closing"
  /\ ActiveOn(w) = {}
  /\ worker' = [worker EXCEPT ![w] = "exit0"]
  /\ UNCHANGED <<orchestratorVars, proc, redisVars>>

\* The worker dies at any point: an error exit or a signal.
WorkerCrashes(w) ==
  /\ worker[w] \in Alive
  /\ \E how \in {"exitN", "signal"} : worker' = [worker EXCEPT ![w] = how]
  /\ UNCHANGED <<orchestratorVars, proc, redisVars>>

-----------------------------------------------------------------------------
OrchestratorStep(s) ==
  \/ StartSession(s) \/ WorkerExitEvent(s) \/ Shutdown(s)
  \/ ShutdownTimeout(s) \/ OrchestratorDies(s)

CallStep(c) ==
  \/ CheckBash(c) \/ AnswerApproval(c) \/ QueueAdd(c) \/ TrackJob(c) \/ JobFinished(c)

JobStep(w, c) ==
  \/ MoveToActive(w, c) \/ SpawnBash(w, c) \/ SpawnThrows(w, c) \/ TimeoutKill(w, c)
  \/ CloseBash(w, c) \/ MoveToCompleted(w, c) \/ RecoverStalled(w, c)

WorkerStep(w) == SignalWorker(w) \/ WorkerExits(w) \/ WorkerCrashes(w)

Next ==
  \/ \E s \in Sessions : OrchestratorStep(s)
  \/ \E c \in Calls : CallStep(c)
  \/ \E w \in Sessions, c \in Calls : JobStep(w, c)
  \/ \E w \in Sessions : WorkerStep(w)

Spec == Init /\ [][Next]_vars

\* Event loops keep running, BullMQ serves its queue and its stalled check, and
\* the job timer fires.  A killed bash closes unless a child lingers on its
\* pipes; a command need not end by itself, nor a user answer, nor a process die.
Fairness ==
  /\ \A s \in Sessions :
       /\ WF_vars(WorkerExitEvent(s))
       /\ WF_vars(ShutdownTimeout(s))
       /\ WF_vars(WorkerExits(s))
  /\ \A c \in Calls : WF_vars(QueueAdd(c) \/ TrackJob(c) \/ JobFinished(c))
  /\ \A w \in Sessions, c \in Calls :
       /\ WF_vars(MoveToActive(w, c))
       /\ WF_vars(SpawnBash(w, c) \/ SpawnThrows(w, c) \/ TimeoutKill(w, c)
                   \/ MoveToCompleted(w, c))
       /\ WF_vars(c \notin Lingering /\ proc[w][c] = "killed" /\ CloseBash(w, c))
       /\ WF_vars(RecoverStalled(w, c))

FairSpec == Spec /\ Fairness

-----------------------------------------------------------------------------
(* Properties                                                              *)

\* The Map of workerLifecycle holds exactly the calls that wait in the race of
\* bash.ts: the finally leaks no entry, and no waiting call lacks its rejecter.
TrackingExact ==
  \A s \in Sessions : session[s] = "up" =>
    pendingJobs[s] = {c \in Calls : SessionOf[c] = s /\ call[c] = "waiting"}

\* Until the user has approved a dangerous command, and for ever after a veto,
\* Redis holds no job for it and no worker has started it (hitlGate, bash.ts).
VetoHolds ==
  \A c \in Calls : call[c] \in {"new", "hitl", "adding", "rejected"} =>
    job[c] = "none" /\ \A w \in Sessions : proc[w][c] = "none"

\* Two workers alive at once never both run the command of one call: a second
\* run needs the first worker dead (its bash process may still be running).
OneLiveExecution ==
  \A c \in Calls : \A v, w \in Sessions :
    worker[v] \in Alive /\ worker[w] \in Alive /\ proc[v][c] \in Live /\ proc[w][c] \in Live
      => v = w

\* A command starts at most once more than its job was recovered from a dead
\* worker: BullMQ's attempts never repeat a command that has started.
ExecutionsBounded ==
  \A c \in Calls :
    Cardinality({w \in Sessions : proc[w][c] \in Ran}) <= 1 + stalled[c]

\* The state of a call as its caller sees it: a dangerous command is vetted by
\* the user's answer, any other by the gate itself.
Answer(c) ==
  CASE call[c] \in {"new", "hitl"}             -> "unvetted"
    [] call[c] \in {"adding", "added", "waiting"} -> "vetted"
    [] OTHER                                  -> call[c]

Promise == INSTANCE ShellCalls WITH
  Runners <- Sessions,
  answer  <- [c \in Calls |-> Answer(c)],
  started <- [c \in Calls |-> {w \in Sessions : proc[w][c] \in Ran}],
  ended   <- [c \in Calls |-> {w \in Sessions : proc[w][c] = "closed"}],
  givenUp <- [c \in Calls |-> {w \in Sessions : proc[w][c] \in GivenUp}]

\* The dispatch path keeps the bash tool's promise: one answer per call, no start
\* before vetting or after a result, no result before a runner is done with the
\* command: its run ended, it could not be started, or it could not be killed.
KeepsPromise == Promise!Spec

\* A call registered with trackJob while its worker process lives is settled,
\* by its job or by the worker's exit, whatever happens to any worker.
TrackedCallSettles ==
  \A c \in Calls :
    LET s == SessionOf[c] IN
    (c \in pendingJobs[s] /\ worker[s] \in Alive)
      ~> (call[c] \in Settled \/ session[s] = "killed")

\* worker.close() ends: a worker told to stop exits within the time its jobs'
\* timeouts allow (v1.5-mycelium-design.md, 3.4).
ClosingWorkerExits ==
  \A w \in Sessions : worker[w] = "closing" ~> worker[w] \in Dead

-----------------------------------------------------------------------------
(* The inductive invariant: what each part of the state says of the others  *)

\* A session that has not started has no worker and has made no call.
FreshSession ==
  \A s \in Sessions : session[s] = "new" =>
    worker[s] = "none" /\ \A c \in Calls : SessionOf[c] = s => call[c] = "new"

\* A session has at most one open call.
OneOpenCall ==
  \A c, d \in Calls :
    SessionOf[c] = SessionOf[d] /\ call[c] \in Open /\ call[d] \in Open => c = d

\* The registered calls of a session are waiting calls of that session.
TrackedWait ==
  \A s \in Sessions : \A c \in pendingJobs[s] : SessionOf[c] = s /\ call[c] = "waiting"

\* An active job, and no other, is locked by a worker that has been started.
LockInv ==
  \A c \in Calls :
    /\ job[c] = "active" <=> lock[c] # NoWorker
    /\ job[c] = "active" => worker[lock[c]] \in Alive \cup Dead

\* A bash process runs a command that can be spawned; it belongs to a started
\* worker and, while that worker lives, to the job the worker holds, or it is one
\* that could not be killed and its job has completed.
RunInv ==
  \A w \in Sessions, c \in Calls :
    /\ proc[w][c] # "none" => worker[w] \in Alive \cup Dead /\ c \notin Unspawnable
    /\ proc[w][c] \in Live /\ worker[w] \in Alive =>
         \/ job[c] = "active" /\ lock[c] = w
         \/ job[c] = "completed" /\ proc[w][c] = "escaped"

\* An answer from the queue is final there too, and a worker is done with a
\* completed job: it ran, could not be started, or could not be killed.
AnswerInv ==
  \A c \in Calls :
    /\ call[c] = "result" => job[c] = "completed"
    /\ call[c] = "failed" => job[c] = "failed"
    /\ job[c] = "completed" => \E w \in Sessions : proc[w][c] \in Resolved

\* A job that has not finished has attempts left.
AttemptsInv ==
  \A c \in Calls : job[c] \notin {"completed", "failed"} => attempts[c] < MaxAttempts

IInv ==
  /\ TypeOK /\ AttemptsInv /\ FreshSession /\ OneOpenCall /\ TrackedWait /\ TrackingExact
  /\ VetoHolds /\ LockInv /\ RunInv /\ OneLiveExecution /\ AnswerInv

=============================================================================
