------------------------------ MODULE UploadJobs ------------------------------
(***************************************************************************)
(* The asynchronous upload of the registry backend: POST /upload/async     *)
(* stores a validated batch as a row of upload_jobs and hands it to QStash *)
(* or, when publishing fails, to a local worker thread.  Three parties can *)
(* then try to run a job: the request itself (runFallback), the QStash     *)
(* callback (delivered late, never, or many times) and the sweep of stale  *)
(* jobs.  Whoever wins the conditional UPDATE of claim() writes the batch  *)
(* and records the outcome.                                                *)
(*                                                                         *)
(* Atomic steps are single database statements, and the synchronous        *)
(* JavaScript between two awaits.  A database call may be refused, or take *)
(* effect while its answer is lost; the process may die and be restarted,  *)
(* or be put to sleep until a request wakes it.  Each such event spends    *)
(* one unit of the bound MaxFaults.                                        *)
(***************************************************************************)
EXTENDS Naturals, FiniteSets

CONSTANTS
  Jobs,               \* ids of upload_jobs rows
  NoJob,              \* the task of a runner that is idle
  Callbacks,          \* concurrent POST /upload/async/callback requests
  Fallbacks,          \* concurrent runFallback() calls
  QStashConfigured,   \* are QSTASH_TOKEN and PUBLIC_BASE_URL set?
  MaxFaults           \* bound: lost calls, lost answers, crashes and sleeps, together

ASSUME ConstantsAssumption ==
  /\ NoJob \notin Jobs
  /\ Callbacks \cap Fallbacks = {}
  /\ QStashConfigured \in BOOLEAN
  /\ MaxFaults \in Nat

Runners == Callbacks \cup Fallbacks

VARIABLES
  status,     \* upload_jobs.status, "none" before the row exists
  dispatch,   \* upload_jobs.dispatch_method
  aged,       \* jobs whose created_at is before the sweep's cutoff
  request,    \* where the upload request of a job stands
  mail,       \* jobs QStash has accepted and may still deliver
  swept,      \* jobs the running sweep has read and not yet started
  pc,         \* where a callback or a fallback run stands
  task,       \* the job it works on
  writes,     \* how often the batch of a job was committed
  dirty,      \* jobs committed since the analytics cache was last cleared
  process,    \* is the Node process up, stopped or asleep?
  faults      \* faults so far

jobVars  == <<status, dispatch>>
runVars  == <<pc, task>>
procVars == <<request, swept, dirty, process>>
vars == <<status, dispatch, aged, request, mail, swept, pc, task, writes,
          dirty, process, faults>>

up == (process = "up")

JobStatuses == {"none", "queued", "processing", "completed", "failed"}
DispatchMethods == {"null", "qstash", "local-fallback"}
RequestSteps == {"none", "publish", "dispatchQStash", "dispatchFallback", "done"}

\* The points at which a callback or a fallback run waits for the database.
OwnerSteps == {"write", "invalidate", "complete", "fail"}
RunnerSteps == {"idle", "find", "claim"} \cup OwnerSteps

Init ==
  /\ status = [j \in Jobs |-> "none"]
  /\ dispatch = [j \in Jobs |-> "null"]
  /\ aged = {}
  /\ request = [j \in Jobs |-> "none"]
  /\ mail = {}
  /\ swept = {}
  /\ pc = [r \in Runners |-> "idle"]
  /\ task = [r \in Runners |-> NoJob]
  /\ writes = [j \in Jobs |-> 0]
  /\ dirty = {}
  /\ process = "up"
  /\ faults = 0

-------------------------------------------------------------------------------
(* Moving a runner, and what failure does to it.                           *)

Start(r, j, step) ==
  /\ pc[r] = "idle"
  /\ pc' = [pc EXCEPT ![r] = step]
  /\ task' = [task EXCEPT ![r] = j]

Goto(r, step) ==
  /\ pc' = [pc EXCEPT ![r] = step]
  /\ task' = task

Finish(r) ==
  /\ pc' = [pc EXCEPT ![r] = "idle"]
  /\ task' = [task EXCEPT ![r] = NoJob]

Fault ==
  /\ faults < MaxFaults
  /\ faults' = faults + 1

\* The process ends, and is stopped or asleep then.  Everything in its memory
\* goes: requests, callbacks, fallback runs and their worker threads, the sweep,
\* and the analytics cache.  A statement the database still executes afterwards
\* is the step that ran it, then this one.
ProcessEnds(how) ==
  /\ process' = how
  /\ request' = [j \in Jobs |-> IF request[j] = "none" THEN "none" ELSE "done"]
  /\ swept' = {}
  /\ dirty' = {}
  /\ pc' = [r \in Runners |-> "idle"]
  /\ task' = [r \in Runners |-> NoJob]

\* An exception no handler catches.  A callback answers 500.  The promise of
\* runFallback is void-ed by both of its callers, so its rejection is unhandled
\* and ends the Node process.
Escapes(r) ==
  \/ r \in Callbacks /\ Finish(r) /\ UNCHANGED procVars
  \/ r \in Fallbacks /\ ProcessEnds("stopped")

\* UPDATE upload_jobs SET status WHERE id: unconditional, as repository.update is.
SetStatus(j, s) == status' = [status EXCEPT ![j] = s]

-------------------------------------------------------------------------------
(* POST /upload/async, from the point where the batch is validated.        *)

Create(j) ==
  /\ up
  /\ request[j] = "none"
  /\ SetStatus(j, "queued")
  /\ request' = [request EXCEPT ![j] = "publish"]
  /\ UNCHANGED <<dispatch, aged, mail, swept, pc, task, writes, dirty, process, faults>>

\* The insert is refused, or done but not acknowledged: the request answers 500
\* and, in the second case, leaves a queued job nobody was told of.
CreateFails(j) ==
  /\ up
  /\ request[j] = "none"
  /\ Fault
  /\ \/ status' = status
     \/ SetStatus(j, "queued")
  /\ request' = [request EXCEPT ![j] = "done"]
  /\ UNCHANGED <<dispatch, aged, mail, swept, pc, task, writes, dirty, process>>

\* publish() answers true only when QStash acknowledged in time.  False: not
\* configured, refused, or timed out, and then QStash may hold the job anyway.
Publish(j) ==
  /\ up
  /\ request[j] = "publish"
  /\ \/ /\ QStashConfigured
        /\ mail' = mail \cup {j}
        /\ request' = [request EXCEPT ![j] = "dispatchQStash"]
     \/ /\ \/ mail' = mail
           \/ QStashConfigured /\ mail' = mail \cup {j}
        /\ request' = [request EXCEPT ![j] = "dispatchFallback"]
  /\ UNCHANGED <<status, dispatch, aged, swept, pc, task, writes, dirty, process, faults>>

\* Mutant: the entity loaded at creation is saved whole instead of one column.
SetDispatchSavesRow(j) ==
  /\ up
  /\ \/ /\ request[j] = "dispatchQStash"
        /\ dispatch' = [dispatch EXCEPT ![j] = "qstash"]
        /\ UNCHANGED runVars
     \/ /\ request[j] = "dispatchFallback"
        /\ dispatch' = [dispatch EXCEPT ![j] = "local-fallback"]
        /\ \E r \in Fallbacks : Start(r, j, "claim")
  /\ SetStatus(j, "queued")
  /\ request' = [request EXCEPT ![j] = "done"]
  /\ UNCHANGED <<aged, mail, swept, writes, dirty, process, faults>>

\* setDispatchMethod, and in the same tick, if publishing failed, the start of
\* runFallback(job) up to its claim.
SetDispatch(j) ==
  /\ up
  /\ \/ /\ request[j] = "dispatchQStash"
        /\ dispatch' = [dispatch EXCEPT ![j] = "qstash"]
        /\ UNCHANGED runVars
     \/ /\ request[j] = "dispatchFallback"
        /\ dispatch' = [dispatch EXCEPT ![j] = "local-fallback"]
        /\ \E r \in Fallbacks : Start(r, j, "claim")
  /\ request' = [request EXCEPT ![j] = "done"]
  /\ UNCHANGED <<status, aged, mail, swept, writes, dirty, process, faults>>

\* The UPDATE throws, so the request answers 500 and never starts a fallback.
SetDispatchFails(j) ==
  /\ up
  /\ Fault
  /\ \/ /\ request[j] = "dispatchQStash"
        /\ dispatch' \in {dispatch, [dispatch EXCEPT ![j] = "qstash"]}
     \/ /\ request[j] = "dispatchFallback"
        /\ dispatch' \in {dispatch, [dispatch EXCEPT ![j] = "local-fallback"]}
  /\ request' = [request EXCEPT ![j] = "done"]
  /\ UNCHANGED <<status, aged, mail, swept, pc, task, writes, dirty, process>>

RequestStep(j) ==
  \/ Create(j) \/ CreateFails(j)
  \/ Publish(j)
  \/ SetDispatch(j) \/ SetDispatchFails(j)

-------------------------------------------------------------------------------
(* The QStash callback: findById, claim, transaction, record.              *)

\* QStash posts the callback of a job it accepted.  The message stays: QStash
\* delivers at least once and retries what was not answered 200.
Deliver(j, r) ==
  /\ up
  /\ j \in mail
  /\ r \in Callbacks
  /\ Start(r, j, "find")
  /\ UNCHANGED <<status, dispatch, aged, mail, writes, faults, procVars>>

\* QStash gives a job up, or had only pretended to accept it.
Drop(j) ==
  /\ j \in mail
  /\ mail' = mail \ {j}
  /\ UNCHANGED <<status, dispatch, aged, pc, task, writes, faults, procVars>>

Find(r) ==
  /\ up
  /\ pc[r] = "find"
  /\ IF status[task[r]] = "queued" THEN Goto(r, "claim") ELSE Finish(r)
  /\ UNCHANGED <<status, dispatch, aged, mail, writes, faults, procVars>>

FindFails(r) ==
  /\ up
  /\ pc[r] = "find"
  /\ Fault
  /\ Escapes(r)
  /\ UNCHANGED <<status, dispatch, aged, mail, writes>>

-------------------------------------------------------------------------------
(* From the claim on, a callback and a fallback run take the same steps;   *)
(* they differ in what happens when the database does not answer.          *)

\* Mutant: the UPDATE without its AND status = 'queued'.
ClaimUnguarded(r) ==
  /\ up
  /\ pc[r] = "claim"
  /\ SetStatus(task[r], "processing")
  /\ Goto(r, "write")
  /\ UNCHANGED <<dispatch, aged, mail, writes, faults, procVars>>

\* The compare and swap: UPDATE .. SET 'processing' WHERE id AND status 'queued'.
Claim(r) ==
  /\ up
  /\ pc[r] = "claim"
  /\ \/ /\ status[task[r]] = "queued"
        /\ SetStatus(task[r], "processing")
        /\ Goto(r, "write")
     \/ /\ status[task[r]] # "queued"
        /\ Finish(r)
        /\ UNCHANGED status
  /\ UNCHANGED <<dispatch, aged, mail, writes, faults, procVars>>

ClaimFails(r) ==
  /\ up
  /\ pc[r] = "claim"
  /\ Fault
  /\ \/ UNCHANGED status
     \/ status[task[r]] = "queued" /\ SetStatus(task[r], "processing")
  /\ Escapes(r)
  /\ UNCHANGED <<dispatch, aged, mail, writes>>

\* The transaction of writeUploadBatch commits: all four passes, or nothing.
WriteCommits(r) ==
  /\ up
  /\ pc[r] = "write"
  /\ writes' = [writes EXCEPT ![task[r]] = @ + 1]
  /\ dirty' = dirty \cup {task[r]}
  /\ Goto(r, "invalidate")
  /\ UNCHANGED <<status, dispatch, aged, request, mail, swept, process, faults>>

\* Mutant: the passes run without a transaction around them.
WriteNotAtomic(r) ==
  /\ up
  /\ pc[r] = "write"
  /\ writes' = [writes EXCEPT ![task[r]] = @ + 1]
  /\ Goto(r, "fail")
  /\ UNCHANGED <<status, dispatch, aged, mail, faults, procVars>>

\* Mutant: no handler turns the rejected transaction into an outcome.
WriteUncaught(r) ==
  /\ up
  /\ pc[r] = "write"
  /\ Finish(r)
  /\ UNCHANGED <<status, dispatch, aged, mail, writes, faults, procVars>>

\* A statement of the batch is rejected (a constraint, a deadlock) or the worker
\* thread stops before COMMIT: no fault of the surroundings is needed.
WriteRollsBack(r) ==
  /\ up
  /\ pc[r] = "write"
  /\ Goto(r, "fail")
  /\ UNCHANGED <<status, dispatch, aged, mail, writes, faults, procVars>>

\* COMMIT takes effect but its answer is lost, or the worker thread stops after
\* COMMIT and before postMessage: the run believes that nothing was written.
WriteAckLost(r) ==
  /\ up
  /\ pc[r] = "write"
  /\ Fault
  /\ writes' = [writes EXCEPT ![task[r]] = @ + 1]
  /\ dirty' = dirty \cup {task[r]}
  /\ Goto(r, "fail")
  /\ UNCHANGED <<status, dispatch, aged, request, mail, swept, process>>

\* Mutant: the cache is not cleared.
InvalidateForgotten(r) ==
  /\ up
  /\ pc[r] = "invalidate"
  /\ Goto(r, "complete")
  /\ UNCHANGED <<status, dispatch, aged, mail, writes, faults, procVars>>

\* registryService.invalidateAnalyticsCache()
Invalidate(r) ==
  /\ up
  /\ pc[r] = "invalidate"
  /\ dirty' = {}
  /\ Goto(r, "complete")
  /\ UNCHANGED <<status, dispatch, aged, request, mail, swept, writes, process, faults>>

MarkCompleted(r) ==
  /\ up
  /\ pc[r] = "complete"
  /\ SetStatus(task[r], "completed")
  /\ Finish(r)
  /\ UNCHANGED <<dispatch, aged, mail, writes, faults, procVars>>

\* markCompleted throws, done or not.  In the callback it is inside the try, so
\* the catch goes on to markFailed; in runFallback nothing catches it.
MarkCompletedFails(r) ==
  /\ up
  /\ pc[r] = "complete"
  /\ Fault
  /\ UNCHANGED status \/ SetStatus(task[r], "completed")
  /\ \/ r \in Callbacks /\ Goto(r, "fail") /\ UNCHANGED procVars
     \/ r \in Fallbacks /\ ProcessEnds("stopped")
  /\ UNCHANGED <<dispatch, aged, mail, writes>>

\* Mutant: a status name the column's type does not have.
MarkFailedAsError(r) ==
  /\ up
  /\ pc[r] = "fail"
  /\ SetStatus(task[r], "error")
  /\ Finish(r)
  /\ UNCHANGED <<dispatch, aged, mail, writes, faults, procVars>>

MarkFailed(r) ==
  /\ up
  /\ pc[r] = "fail"
  /\ SetStatus(task[r], "failed")
  /\ Finish(r)
  /\ UNCHANGED <<dispatch, aged, mail, writes, faults, procVars>>

MarkFailedFails(r) ==
  /\ up
  /\ pc[r] = "fail"
  /\ Fault
  /\ UNCHANGED status \/ SetStatus(task[r], "failed")
  /\ Escapes(r)
  /\ UNCHANGED <<dispatch, aged, mail, writes>>

RunnerStep(r) ==
  \/ Find(r) \/ FindFails(r)
  \/ Claim(r) \/ ClaimFails(r)
  \/ WriteCommits(r) \/ WriteRollsBack(r) \/ WriteAckLost(r)
  \/ Invalidate(r)
  \/ MarkCompleted(r) \/ MarkCompletedFails(r)
  \/ MarkFailed(r) \/ MarkFailedFails(r)

-------------------------------------------------------------------------------
(* The sweep of stale jobs, time, and the life of the process.             *)

\* Time: created_at of a job that is still queued passes the cutoff.
Age(j) ==
  /\ status[j] = "queued"
  /\ j \notin aged
  /\ aged' = aged \cup {j}
  /\ UNCHANGED <<status, dispatch, mail, pc, task, writes, faults, procVars>>

\* Mutant: the sweep only looks for jobs QStash is known to have accepted.
SweepReadQStashOnly ==
  /\ up
  /\ swept = {}
  /\ swept' = {j \in aged : status[j] = "queued" /\ dispatch[j] = "qstash"}
  /\ UNCHANGED <<status, dispatch, aged, request, mail, pc, task, writes,
                 dirty, process, faults>>

\* findStaleQueued.  A read that throws is logged by the scheduler and changes
\* nothing; the next interval reads again.
SweepRead ==
  /\ up
  /\ swept = {}
  /\ swept' = {j \in aged : status[j] = "queued"}
  /\ swept' # {}
  /\ UNCHANGED <<status, dispatch, aged, request, mail, pc, task, writes,
                 dirty, process, faults>>

\* The loop over what was read: void runFallback(job), up to its claim.  The job
\* may have been claimed since the read.
SweepRun(j) ==
  /\ up
  /\ j \in swept
  /\ \E r \in Fallbacks : Start(r, j, "claim")
  /\ swept' = swept \ {j}
  /\ UNCHANGED <<status, dispatch, aged, request, mail, writes, dirty, process, faults>>

\* The instance is stopped (a redeploy, out of memory) anywhere ...
Crash ==
  /\ up
  /\ Fault
  /\ ProcessEnds("stopped")
  /\ UNCHANGED <<status, dispatch, aged, mail, writes>>

\* ... and started again by the platform.
Restart ==
  /\ process = "stopped"
  /\ process' = "up"
  /\ UNCHANGED <<status, dispatch, aged, request, mail, swept, pc, task, writes,
                 dirty, faults>>

\* On the free plan it is put to sleep when no request has come in for a while,
\* whatever its runs and its sweep are doing ...
Sleep ==
  /\ up
  /\ Fault
  /\ ProcessEnds("asleep")
  /\ UNCHANGED <<status, dispatch, aged, mail, writes>>

\* ... and only an inbound request starts it: a client's, or QStash's.
Wake ==
  /\ process = "asleep"
  /\ process' = "up"
  /\ UNCHANGED <<status, dispatch, aged, request, mail, swept, pc, task, writes,
                 dirty, faults>>

\* All requests answered, nothing queued, nothing running: the system rests.
\* Any other state without a successor is a deadlock.
Settled ==
  /\ up
  /\ \A j \in Jobs : request[j] = "done" /\ status[j] # "queued"
  /\ \A r \in Runners : pc[r] = "idle"
  /\ mail = {} /\ swept = {}
  /\ UNCHANGED vars

Next ==
  \/ \E j \in Jobs :
       \/ RequestStep(j)
       \/ \E r \in Callbacks : Deliver(j, r)
       \/ Drop(j) \/ Age(j) \/ SweepRun(j)
  \/ \E r \in Runners : RunnerStep(r)
  \/ SweepRead \/ Crash \/ Restart \/ Sleep \/ Wake \/ Settled

Spec == Init /\ [][Next]_vars

\* What the running process does without being asked: its awaits resume, the
\* interval fires, clocks advance; and the platform starts an instance that was
\* stopped.  Nothing is assumed of clients or of QStash, so nothing of Wake, nor
\* of faults.
Fairness ==
  /\ WF_vars(Restart)
  /\ WF_vars(SweepRead)
  /\ \A r \in Runners : WF_vars(RunnerStep(r))
  /\ \A j \in Jobs :
       /\ WF_vars(request[j] # "none" /\ RequestStep(j))
       /\ WF_vars(SweepRun(j))
       /\ WF_vars(Age(j))

FairSpec == Spec /\ Fairness

-------------------------------------------------------------------------------
(* Properties                                                              *)

TypeOK ==
  /\ status \in [Jobs -> JobStatuses]
  /\ dispatch \in [Jobs -> DispatchMethods]
  /\ aged \subseteq Jobs
  /\ request \in [Jobs -> RequestSteps]
  /\ mail \subseteq Jobs
  /\ swept \subseteq Jobs
  /\ pc \in [Runners -> RunnerSteps]
  /\ task \in [Runners -> Jobs \cup {NoJob}]
  /\ writes \in [Jobs -> Nat]
  /\ dirty \subseteq Jobs
  /\ process \in {"up", "stopped", "asleep"}
  /\ faults \in Nat
  /\ \A r \in Runners : pc[r] = "idle" <=> task[r] = NoJob

\* A late or repeated QStash delivery, a fallback and a sweep can all reach one
\* job: its batch is still committed once at most.
WrittenAtMostOnce == \A j \in Jobs : writes[j] <= 1

\* A job reported 'completed' has its rows in the registry, and the analytics
\* cache was cleared after they were committed.
CompletedWasInvalidated ==
  \A j \in Jobs : status[j] = "completed" => writes[j] = 1 /\ j \notin dirty

\* A job is left 'processing' with nobody working on it only if a database
\* answer was lost or the process died: no rejected batch has this effect.
OrphanedOnlyByFault ==
  \A j \in Jobs : status[j] = "processing" =>
    \/ \E r \in Runners : task[r] = j /\ pc[r] \in OwnerSteps
    \/ faults > 0

\* The jobs keep the contract, with every interleaving of the three dispatch
\* paths and every fault.
Contract == INSTANCE JobContract WITH faulted <- faults > 0
ImplementsContract == Contract!Spec

\* However often the process is put to sleep, some request wakes it.
SomethingWakesIt == process = "asleep" ~> up

\* With faults too, a job that was queued does not stay so, provided a process that
\* sleeps is always woken: whatever became of QStash's message, of the request or
\* of the process, the sweep finds it.
LeavesQueued ==
  SomethingWakesIt =>
    \A j \in Jobs : status[j] = "queued" ~> status[j] # "queued"

\* Every job gets its outcome recorded, rejected batches included, unless a fault
\* comes between.
EveryJobFinishes ==
  \A j \in Jobs :
    status[j] = "queued" ~> status[j] \in {"completed", "failed"} \/ faults > 0

\* What the upload's description says: poll for the outcome.  A job somebody has
\* claimed gets one.
ClaimedJobFinishes ==
  \A j \in Jobs :
    status[j] = "processing" ~> status[j] \in {"completed", "failed"}

-------------------------------------------------------------------------------
(* The inductive invariant behind the safety properties.                   *)

\* A runner past the claim owns its job: it alone, and the job is 'processing'
\* until that runner itself records an outcome.
OwnsTask(r) == pc[r] \in OwnerSteps

OneOwner ==
  \A r, s \in Runners :
    OwnsTask(r) /\ OwnsTask(s) /\ task[r] = task[s] => r = s

OwnersHoldTheClaim ==
  \A r \in Runners : OwnsTask(r) =>
    \/ status[task[r]] = "processing"
    \/ pc[r] = "fail" /\ status[task[r]] = "completed" /\ faults > 0

\* How far the owner is tells what was committed and what the cache may miss.
ProgressMatchesWrites ==
  \A r \in Runners :
    /\ pc[r] = "write" => writes[task[r]] = 0
    /\ pc[r] \in {"invalidate", "complete"} => writes[task[r]] = 1
    /\ pc[r] = "complete" => task[r] \notin dirty
    /\ pc[r] = "fail" => writes[task[r]] = 0 \/ faults > 0

UnclaimedUnwritten ==
  \A j \in Jobs : status[j] \in {"none", "queued"} => writes[j] = 0

\* A job exists from its insert on, and nobody mails, sweeps or ages it before.
UnbornUntilCreated ==
  \A j \in Jobs :
    /\ request[j] = "none" => status[j] = "none"
    /\ request[j] \notin {"none", "done"} => status[j] # "none"
    /\ status[j] = "none" => j \notin mail \cup swept \cup aged

ClaimInv ==
  /\ OneOwner
  /\ OwnersHoldTheClaim
  /\ ProgressMatchesWrites
  /\ UnclaimedUnwritten
  /\ UnbornUntilCreated
  /\ WrittenAtMostOnce
  /\ CompletedWasInvalidated
  /\ OrphanedOnlyByFault
===============================================================================
