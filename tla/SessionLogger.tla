--------------------------- MODULE SessionLogger ---------------------------
(***************************************************************************)
(* The logger of a session (src/util/logger.ts) and the end of the session  *)
(* that flushes it (the finally of main in src/index.ts).  Entries are      *)
(* queued at once and appended to the log file by a chain of promises, one  *)
(* link per entry.  A link takes all that is queued when it runs, so the    *)
(* links behind it may find nothing.  An append that fails loses its batch  *)
(* and must not break the chain.                                           *)
(*                                                                         *)
(* Entries are numbered in the order they are logged, and so are the links. *)
(***************************************************************************)
EXTENDS Naturals, Sequences, Functions

CONSTANTS MaxLogged,   \* bound: entries logged
          MaxBurst     \* bound: entries logged without an await in between

ASSUME LoggerAssumptions == MaxLogged \in Nat /\ MaxBurst \in Nat

VARIABLES
  session,  \* running, awaiting the flush, closing what is left, or crashed
  mark,     \* the entries, and so the links, there were when flush was called
  logged,   \* entries logged so far
  queue,    \* those no link has taken yet
  batch,    \* what the running link is appending; empty when none is
  settled,  \* links that have settled
  file,     \* the entries in the log file
  lost      \* the entries of the batches that failed

chainVars == <<queue, batch, settled, file, lost>>
loggerVars == <<session, mark, logged, chainVars>>

LoggerTypeOK ==
  /\ session \in {"running", "flushing", "closing", "crashed"}
  /\ logged \in 0..MaxLogged
  /\ mark \in 0..logged
  /\ queue \in Seq(1..logged) /\ batch \in Seq(1..logged) /\ file \in Seq(1..logged)
  /\ settled \in 0..logged
  /\ lost \subseteq 1..logged

LoggerInit ==
  /\ session = "running"
  /\ mark = 0
  /\ logged = 0
  /\ queue = <<>> /\ batch = <<>>
  /\ settled = 0
  /\ file = <<>>
  /\ lost = {}

-----------------------------------------------------------------------------
(* The chain                                                               *)

\* enqueue, n times without an await in between; the session logs as it ends, too.
Enqueue(n) ==
  /\ session # "crashed"
  /\ logged + n <= MaxLogged
  /\ logged' = logged + n
  /\ queue' = queue \o [k \in 1..n |-> logged + k]
  /\ UNCHANGED <<session, mark, batch, settled, file, lost>>

\* Mutant of RunLink: the queue is read and not emptied.
RunLinkKeepingQueue ==
  /\ settled < logged /\ batch = <<>>
  /\ batch' = queue
  /\ UNCHANGED <<session, mark, logged, queue, settled, file, lost>>

\* The next link runs: it takes the queue, or has nothing to do.
RunLink ==
  /\ settled < logged /\ batch = <<>>
  /\ IF queue = <<>>
       THEN settled' = settled + 1 /\ UNCHANGED <<queue, batch>>
       ELSE batch' = queue /\ queue' = <<>> /\ UNCHANGED settled
  /\ UNCHANGED <<session, mark, logged, file, lost>>

\* The directory is there and the batch appended; the link is settled.
BatchWritten ==
  /\ batch # <<>>
  /\ file' = file \o batch
  /\ batch' = <<>>
  /\ settled' = settled + 1
  /\ UNCHANGED <<session, mark, logged, queue, lost>>

\* Mutant of BatchFails: the batch is queued again instead of dropped.
BatchRetried ==
  /\ batch # <<>>
  /\ queue' = batch \o queue
  /\ batch' = <<>>
  /\ UNCHANGED <<session, mark, logged, settled, file, lost>>

\* mkdir or appendFile rejects; the catch settles the link all the same.
BatchFails ==
  /\ batch # <<>>
  /\ lost' = lost \cup Range(batch)
  /\ batch' = <<>>
  /\ settled' = settled + 1
  /\ UNCHANGED <<session, mark, logged, queue, file>>

-----------------------------------------------------------------------------
(* The session                                                             *)

\* The finally of main calls flush, which awaits the links there are by now.
Flush ==
  /\ session = "running"
  /\ session' = "flushing"
  /\ mark' = logged
  /\ UNCHANGED <<logged, chainVars>>

\* Mutant of Close: the flush is not awaited.
CloseAtOnce ==
  /\ session = "flushing"
  /\ session' = "closing"
  /\ UNCHANGED <<mark, logged, chainVars>>

\* flush resolves, and main goes on to close the queues, the servers and the worker.
Close ==
  /\ session = "flushing"
  /\ settled >= mark
  /\ session' = "closing"
  /\ UNCHANGED <<mark, logged, chainVars>>

\* process.exit, or the process is killed: nothing is appended any more.
Crash ==
  /\ session # "crashed"
  /\ session' = "crashed"
  /\ UNCHANGED <<mark, logged, chainVars>>

Chain == session # "crashed" /\ (RunLink \/ BatchWritten \/ BatchFails)

LoggerNext == Chain \/ Flush \/ Close \/ Crash \/ \E n \in 1..MaxBurst : Enqueue(n)

LoggerSpec == LoggerInit /\ [][LoggerNext]_loggerVars

\* Promises are run on, appends return or fail, and so do the awaits of main.
LoggerFairSpec == LoggerSpec /\ WF_loggerVars(Chain) /\ WF_loggerVars(Close)

-----------------------------------------------------------------------------
(* Properties                                                              *)

Increasing(s) == \A i, j \in DOMAIN s : i < j => s[i] < s[j]

\* However entries fall into batches and whichever of these fail, every entry is in one
\* place: in the file, on its way or lost with its batch; and the file has its entries
\* in the order they were logged, each once ("drops only the failing batch",
\* logger.ts 28-31).
LogInOrder ==
  /\ Increasing(file \o batch \o queue)
  /\ Range(file \o batch \o queue) \cup lost = 1..logged
  /\ Range(file \o batch \o queue) \cap lost = {}

\* When main goes on to close the session, all that was logged before the flush is in
\* the file or lost with its batch; what is logged later may come to nothing.
FlushedIsLogged ==
  session = "closing" => 1..mark \subseteq Range(file) \cup lost

\* A session that flushes comes to its end and nothing queued stays queued, whatever
\* appends fail: the chain outlives them.
LogSettles ==
  /\ settled < logged ~> settled = logged \/ session = "crashed"
  /\ session = "flushing" ~> session \in {"closing", "crashed"}

-----------------------------------------------------------------------------
(* The inductive invariant                                                 *)

\* A link that settles has taken, or left to an earlier one, all that was queued before
\* it: what waits was queued behind the links that have settled, and behind the one
\* that runs.
Behind ==
  /\ \A e \in Range(batch) : e > settled
  /\ batch # <<>> => settled < logged
  /\ \A e \in Range(queue) : e > IF batch = <<>> THEN settled ELSE settled + 1

FlushAwaited == session = "closing" => settled >= mark

LoggerInv == LoggerTypeOK /\ LogInOrder /\ Behind /\ FlushAwaited
=============================================================================
