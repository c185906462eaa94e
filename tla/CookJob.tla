------------------------------- MODULE CookJob -------------------------------
(***************************************************************************)
(* Cook jobs and the workflows that wait for them: JobPackrat.executeJob   *)
(* and its record* helpers, JobCook (submit, stage, run, poll, clean up),  *)
(* JobEngine's map of live jobs, WorkflowEngine.jobUpdated and             *)
(* WorkflowJob.update.                                                     *)
(*                                                                         *)
(* A job runs in one asynchronous call of executeJob.  Whenever it records *)
(* a new status it starts updateEngines without awaiting it: that call     *)
(* re-reads the JobRun and WorkflowStep rows, passes the news to the       *)
(* workflow, and writes the step back, each after an await of its own, so  *)
(* the calls of one job overtake each other and the job.                   *)
(*                                                                         *)
(* The Cook server is external: cook[j] is what it reports about a job, or *)
(* that it will not answer about that job any more.  The requests have no  *)
(* timeout of their own.                                                   *)
(***************************************************************************)
EXTENDS Naturals, FiniteSets

CONSTANTS
    Jobs,               \* Cook jobs, each started by a WorkflowJob
    Scenes,             \* jobs whose cleanup creates system objects
    NestedOf,           \* the inspection such a cleanup starts and waits for
    NoJob,              \* for a scene without models: nothing to inspect
    Permits,            \* CookSimultaneousJobs
    JobRetryCount,      \* JOB_RETRY_COUNT
    RequestRetryCount,  \* CookRequestRetryCount
    Reports,            \* the states in which a poll may find a running job
    Unreliable,         \* requests to Cook, and file staging, may fail
    Silence,            \* Cook may leave a request without any answer
    WaitTimeouts,       \* the wait for a nested inspection may time out
    MaxDbFailures       \* bound on database calls that fail for good

ASSUME ConstantsAssumption ==
    /\ Scenes \subseteq Jobs
    /\ NoJob \notin Jobs
    /\ NestedOf \in [Scenes -> (Jobs \ Scenes) \cup {NoJob}]
    /\ \A r, s \in Scenes : NestedOf[r] = NestedOf[s] => r = s \/ NestedOf[r] = NoJob
    /\ Permits \in Nat \ {0}
    /\ JobRetryCount \in Nat \ {0}
    /\ RequestRetryCount \in Nat \ {0}
    /\ Reports \subseteq {"waiting", "running", "done", "error", "cancelled"}
    /\ Unreliable \in BOOLEAN /\ Silence \in BOOLEAN /\ WaitTimeouts \in BOOLEAN
    /\ MaxDbFailures \in Nat

VARIABLES
    pc,           \* where executeJob is
    attempt,      \* its loop counter, from 1
    tries,        \* requestCount, or errorCount while polling
    res,          \* what startJobWorker is about to return
    returned,     \* what it returned last, before executeJob handles it
    results,      \* JobPackrat._results
    status,       \* the status in the JobRun object in memory
    cook,         \* the state the Cook server reports
    dbStatus,     \* the status in the JobRun row
    updates,      \* calls of updateEngines, by the status that caused them
    stepState,    \* the state in the WorkflowStep row
    workflowMap,  \* WorkflowEngine.workflowMap, by job
    wfResults,    \* WorkflowJob.results
    complete,     \* workflows that have signalled completion
    jobMap,       \* JobEngine.jobMap
    cleanup,      \* whether and from where cleanupJob's work runs
    cleanups,     \* how often that work was started
    dbFailures    \* failed database calls so far

jobVars      == <<pc, attempt, tries, res, returned, results>>
recordVars   == <<status, dbStatus, updates, dbFailures>>
workflowVars == <<stepState, workflowMap, wfResults, complete>>
cleanupVars  == <<cleanup, cleanups>>
vars == <<jobVars, recordVars, workflowVars, cleanupVars, cook, jobMap>>

-----------------------------------------------------------------------------
Terminal == {"eDone", "eError", "eCancelled"}
Statuses == {"eUnitialized", "eCreated", "eRunning", "eWaiting"} \cup Terminal

(* JobIOResults: a failure may carry allowRetry.                           *)
Results == {"success", "failure", "retryable"}

CookStates == {"none", "created", "waiting", "running", "done", "error", "cancelled",
               "silent"}

PCs == {"idle", "created", "queued", "post", "stage", "patch", "poll",
        "signal", "cleanup", "returning", "ended"}

(* Inside startJobWorkerInternal, and so inside the semaphore.             *)
Holding == {"post", "stage", "patch", "poll", "signal", "cleanup"}

(* A call of updateEngines: the await it is in, and the rows it has read.  *)
Stages  == {"none", "readRun", "readStep", "apply", "write", "completed"}
Calls   == [at : Stages, run : Statuses, step : Statuses]
Call(at, run, step) == [at |-> at, run |-> run, step |-> step]
NoCall  == Call("none", "eUnitialized", "eUnitialized")

Init ==
    /\ pc = [j \in Jobs |-> "idle"]
    /\ attempt = [j \in Jobs |-> 1]
    /\ tries = [j \in Jobs |-> 0]
    /\ res = [j \in Jobs |-> "failure"]
    /\ returned = [j \in Jobs |-> "failure"]
    /\ results = [j \in Jobs |-> "failure"]
    /\ status = [j \in Jobs |-> "eUnitialized"]
    /\ cook = [j \in Jobs |-> "none"]
    /\ dbStatus = [j \in Jobs |-> "eUnitialized"]
    /\ updates = [j \in Jobs |-> [s \in Statuses |-> NoCall]]
    /\ stepState = [j \in Jobs |-> "eCreated"]
    /\ workflowMap = {}
    /\ wfResults = [j \in Jobs |-> "failure"]
    /\ complete = {}
    /\ jobMap = {}
    /\ cleanup = [j \in Jobs |-> "none"]
    /\ cleanups = [j \in Jobs |-> 0]
    /\ dbFailures = 0

Goto(j, l) == pc' = [pc EXCEPT ![j] = l]

DbFails == /\ dbFailures < MaxDbFailures
           /\ dbFailures' = dbFailures + 1

-----------------------------------------------------------------------------
(* Recording a status: JobPackrat.record*.                                 *)

(* As SetStatus, with the engines told before the row is saved.            *)
TellBeforeSave(j, s) ==
    /\ status' = [status EXCEPT ![j] = s]
    /\ \/ dbStatus' = [dbStatus EXCEPT ![j] = s] /\ UNCHANGED dbFailures
       \/ DbFails /\ UNCHANGED dbStatus
    /\ updates' = [updates EXCEPT ![j][s] =
                       Call("readStep", dbStatus[j], "eUnitialized")]

(* The JobRun is saved, whether or not that works, and then the engines    *)
(* are told, without waiting for them.                                     *)
SetStatus(j, s) ==
    /\ status' = [status EXCEPT ![j] = s]
    /\ \/ dbStatus' = [dbStatus EXCEPT ![j] = s] /\ UNCHANGED dbFailures
       \/ DbFails /\ UNCHANGED dbStatus
    /\ updates' = [updates EXCEPT ![j][s] = Call("readRun", "eUnitialized", "eUnitialized")]

Record(j, s, updated) ==
    IF updated THEN SetStatus(j, s) ELSE UNCHANGED recordVars

RecordCreated(j) == Record(j, "eCreated", status[j] = "eUnitialized")
RecordWaiting(j) == Record(j, "eWaiting", status[j] # "eWaiting")
RecordStart(j)   == Record(j, "eRunning", status[j] # "eRunning")
RecordSuccess(j) == Record(j, "eDone", status[j] # "eDone")
RecordFailure(j) == Record(j, "eError", status[j] # "eError")

(* recordCancel returns early unless the status is eCancelled already.     *)
RecordCancel(j)  == Record(j, "eCancelled", status[j] = "eCancelled")

-----------------------------------------------------------------------------
(* WorkflowEngine.create, WorkflowJob.start and JobEngine.create: rows for *)
(* the workflow, its step and the job run, and an entry in both maps.      *)
(* A nested inspection is created while the cleanup of its scene runs.     *)
Create(j) ==
    /\ pc[j] = "idle"
    /\ \A s \in Scenes : NestedOf[s] = j => cleanup[s] \in {"byJob", "byUpdate"}
    /\ workflowMap' = workflowMap \cup {j}
    /\ jobMap' = jobMap \cup {j}
    /\ Goto(j, "created")
    /\ UNCHANGED <<attempt, tries, res, returned, results, recordVars, stepState,
                   wfResults, complete, cleanupVars, cook>>

(* executeJob, up to the semaphore in startJobWorker.                      *)
Execute(j) ==
    /\ pc[j] = "created"
    /\ RecordCreated(j)
    /\ Goto(j, "queued")
    /\ UNCHANGED <<attempt, tries, res, returned, results, workflowVars,
                   cleanupVars, cook, jobMap>>

Acquire(j) ==
    /\ pc[j] = "queued"
    /\ Cardinality({i \in Jobs : pc[i] \in Holding}) < Permits
    /\ Goto(j, "post")
    /\ tries' = [tries EXCEPT ![j] = 0]
    /\ UNCHANGED <<attempt, res, returned, results, recordVars, workflowVars,
                   cleanupVars, cook, jobMap>>

(* POST /job answered 201.                                                 *)
Post(j) ==
    /\ pc[j] = "post" /\ cook[j] # "silent"
    /\ cook' = [cook EXCEPT ![j] = IF @ = "none" THEN "created" ELSE @]
    /\ Goto(j, "stage")
    /\ UNCHANGED <<attempt, tries, res, returned, results, recordVars, workflowVars,
                   cleanupVars, jobMap>>

StageFiles(j) ==
    /\ pc[j] = "stage"
    /\ \/ Goto(j, "patch") /\ UNCHANGED res
       \/ /\ Unreliable
          /\ Goto(j, "signal")
          /\ res' = [res EXCEPT ![j] = "failure"]
    /\ tries' = [tries EXCEPT ![j] = 0]
    /\ UNCHANGED <<attempt, returned, results, recordVars, workflowVars,
                   cleanupVars, cook, jobMap>>

(* PATCH .../run answered 202: Cook may still report the job as created.   *)
Patch(j) ==
    /\ pc[j] = "patch" /\ cook[j] # "silent"
    /\ Goto(j, "poll")
    /\ tries' = [tries EXCEPT ![j] = 0]
    /\ UNCHANGED <<attempt, res, returned, results, recordVars, workflowVars,
                   cleanupVars, cook, jobMap>>

(* Either request failed: try again, or leave it to the outer level.       *)
RequestFails(j) ==
    /\ Unreliable
    /\ pc[j] \in {"post", "patch"} /\ cook[j] # "silent"
    /\ IF tries[j] + 1 < RequestRetryCount
       THEN /\ tries' = [tries EXCEPT ![j] = @ + 1]
            /\ UNCHANGED <<pc, res>>
       ELSE /\ res' = [res EXCEPT ![j] = "retryable"]
            /\ Goto(j, "signal")
            /\ UNCHANGED tries
    /\ UNCHANGED <<attempt, returned, results, recordVars, workflowVars,
                   cleanupVars, cook, jobMap>>

(* Either request was answered with status 500.                            *)
RequestStops(j) ==
    /\ Unreliable
    /\ pc[j] \in {"post", "patch"} /\ cook[j] # "silent"
    /\ res' = [res EXCEPT ![j] = "failure"]
    /\ Goto(j, "signal")
    /\ UNCHANGED <<attempt, tries, returned, results, recordVars, workflowVars,
                   cleanupVars, cook, jobMap>>

-----------------------------------------------------------------------------
(* pollingLoop and pollingCallback.                                        *)

(* CookTimeout has passed since polling began.                             *)
Expire(j) ==
    /\ results' = [results EXCEPT ![j] = "failure"]
    /\ res' = [res EXCEPT ![j] = "failure"]
    /\ Goto(j, "signal")

(* Once a poll is over, and only then, the loop looks at the time.         *)
PollAgain(j) == Expire(j) \/ UNCHANGED <<pc, res, results>>

(* A report that is not final, or a failure that is not counted.           *)
Pending(j) ==
    \/ cook[j] = "created" /\ RecordCreated(j)
    \/ cook[j] = "waiting" /\ RecordWaiting(j)
    \/ cook[j] = "running" /\ RecordStart(j)
    \/ Unreliable /\ cook[j] # "silent" /\ UNCHANGED recordVars

(* As PollPending, had only counted failures been checked for the time.    *)
PollPendingForEver(j) ==
    /\ pc[j] = "poll"
    /\ Pending(j)
    /\ UNCHANGED <<jobVars, workflowVars, cleanupVars, cook, jobMap>>

PollPending(j) ==
    /\ pc[j] = "poll"
    /\ Pending(j)
    /\ PollAgain(j)
    /\ UNCHANGED <<attempt, tries, returned, workflowVars, cleanupVars, cook, jobMap>>

(* pollingLoop returns _results, which the record* helper may have set.    *)
EndPolling(j, updated, r) ==
    /\ results' = [results EXCEPT ![j] = IF updated THEN r ELSE @]
    /\ res' = [res EXCEPT ![j] = IF updated THEN r ELSE results[j]]
    /\ Goto(j, "signal")
    /\ UNCHANGED <<attempt, tries, returned, workflowVars, cleanupVars, cook, jobMap>>

PollDone(j) ==
    /\ pc[j] = "poll" /\ cook[j] = "done"
    /\ RecordSuccess(j)
    /\ EndPolling(j, status[j] # "eDone", "success")

PollError(j) ==
    /\ pc[j] = "poll" /\ cook[j] = "error"
    /\ RecordFailure(j)
    /\ EndPolling(j, status[j] # "eError", "failure")

PollCancelled(j) ==
    /\ pc[j] = "poll" /\ cook[j] = "cancelled"
    /\ RecordCancel(j)
    /\ EndPolling(j, status[j] = "eCancelled", "failure")

(* A connection failure or status 400 counts; too many end the loop.       *)
CountFailure(j, limit) ==
    /\ Unreliable
    /\ pc[j] = "poll" /\ cook[j] # "silent"
    /\ IF tries[j] < limit
       THEN /\ tries' = [tries EXCEPT ![j] = @ + 1]
            /\ PollAgain(j)
       ELSE /\ results' = [results EXCEPT ![j] = "failure"]
            /\ res' = [res EXCEPT ![j] = "retryable"]
            /\ Goto(j, "signal")
            /\ UNCHANGED tries
    /\ UNCHANGED <<attempt, returned, recordVars, workflowVars, cleanupVars, cook, jobMap>>

(* As PollFails, giving up one failure later.                              *)
PollFailsOnceMore(j) == CountFailure(j, RequestRetryCount + 1)

PollFails(j) == CountFailure(j, RequestRetryCount)

(* Status 500 ends the loop with whatever _results holds.                  *)
PollStops(j) ==
    /\ Unreliable
    /\ pc[j] = "poll" /\ cook[j] # "silent"
    /\ res' = [res EXCEPT ![j] = results[j]]
    /\ Goto(j, "signal")
    /\ UNCHANGED <<attempt, tries, returned, results, recordVars, workflowVars,
                   cleanupVars, cook, jobMap>>

-----------------------------------------------------------------------------
(* cleanupJob has two callers: signalCompletion, inside the semaphore, and *)
(* updateEngines.  Its work is done for a success, by the first to ask.    *)

(* As CleanupDue, without the cleanupCalled flag.                          *)
CleanupDueAgain(j) == j \in Scenes /\ results[j] = "success"

CleanupDue(j) ==
    /\ j \in Scenes
    /\ results[j] = "success"
    /\ cleanup[j] = "none"

StartCleanup(j, caller) ==
    /\ cleanup' = [cleanup EXCEPT ![j] = caller]
    /\ cleanups' = [cleanups EXCEPT ![j] = @ + 1]

SignalCompletion(j) ==
    /\ pc[j] = "signal"
    /\ IF CleanupDue(j)
       THEN StartCleanup(j, "byJob") /\ Goto(j, "cleanup")
       ELSE UNCHANGED cleanupVars /\ Goto(j, "returning")
    /\ UNCHANGED <<attempt, tries, res, returned, results, recordVars,
                   workflowVars, cook, jobMap>>

(* createSystemObjects ends without an inspection, when the inspection's   *)
(* workflow completes, or when the wait for that times out.                *)
EndCleanup(j) ==
    /\ cleanup[j] \in {"byJob", "byUpdate"}
    /\ NestedOf[j] # NoJob =>
           \/ pc[NestedOf[j]] = "idle"
           \/ NestedOf[j] \in complete
           \/ WaitTimeouts
    /\ cleanup' = [cleanup EXCEPT ![j] = "done"]
    /\ IF cleanup[j] = "byJob" THEN Goto(j, "returning") ELSE UNCHANGED pc
    /\ UNCHANGED <<attempt, tries, res, returned, results, recordVars,
                   workflowVars, cleanups, cook, jobMap>>

-----------------------------------------------------------------------------
(* As Return, had recordFailure kept allowRetry.                           *)
ReturnWithRetry(j) ==
    /\ pc[j] = "returning"
    /\ returned' = [returned EXCEPT ![j] = res[j]]
    /\ results' = [results EXCEPT ![j] = res[j]]
    /\ IF res[j] = "success" THEN UNCHANGED recordVars ELSE RecordFailure(j)
    /\ IF res[j] = "retryable" /\ attempt[j] < JobRetryCount
       THEN attempt' = [attempt EXCEPT ![j] = @ + 1] /\ Goto(j, "queued")
       ELSE UNCHANGED attempt /\ Goto(j, "ended")
    /\ UNCHANGED <<tries, res, workflowVars, cleanupVars, cook, jobMap>>

(* startJobWorker returns to executeJob.  recordFailure, when it records   *)
(* anything, replaces _results by one that does not allow a retry; then    *)
(* executeJob looks at _results to decide whether to try again.            *)
Return(j) ==
    LET r == IF res[j] # "success" /\ status[j] # "eError" THEN "failure" ELSE res[j] IN
    /\ pc[j] = "returning"
    /\ returned' = [returned EXCEPT ![j] = res[j]]
    /\ results' = [results EXCEPT ![j] = r]
    /\ IF res[j] = "success" THEN UNCHANGED recordVars ELSE RecordFailure(j)
    /\ IF r = "retryable" /\ attempt[j] < JobRetryCount
       THEN attempt' = [attempt EXCEPT ![j] = @ + 1] /\ Goto(j, "queued")
       ELSE UNCHANGED attempt /\ Goto(j, "ended")
    /\ UNCHANGED <<tries, res, workflowVars, cleanupVars, cook, jobMap>>

-----------------------------------------------------------------------------
(* updateEngines, for the call that recording status s started.            *)

Advance(j, s, call) == updates' = [updates EXCEPT ![j][s] = call]

(* jobUpdated is over; only a final status goes to the job engine as well. *)
JobUpdated(j, s) ==
    Advance(j, s, IF s \in Terminal
                  THEN Call("completed", "eUnitialized", "eUnitialized") ELSE NoCall)

ReadJobRun(j, s) ==
    /\ updates[j][s].at = "readRun"
    /\ \/ Advance(j, s, Call("readStep", dbStatus[j], "eUnitialized")) /\ UNCHANGED dbFailures
       \/ DbFails /\ JobUpdated(j, s)
    /\ UNCHANGED <<jobVars, status, dbStatus, workflowVars, cleanupVars, cook, jobMap>>

ReadWorkflowStep(j, s) ==
    /\ updates[j][s].at = "readStep"
    /\ \/ Advance(j, s, Call("apply", updates[j][s].run, stepState[j])) /\ UNCHANGED dbFailures
       \/ DbFails /\ JobUpdated(j, s)
    /\ UNCHANGED <<jobVars, status, dbStatus, workflowVars, cleanupVars, cook, jobMap>>

(* jobUpdated looks the workflow up; WorkflowJob.update decides, on the    *)
(* rows read so far, what there is to do.                                  *)
UpdateWorkflow(j, s) ==
    LET run == updates[j][s].run   step == updates[j][s].step IN
    /\ updates[j][s].at = "apply"
    /\ \/ /\ j \notin workflowMap
          /\ JobUpdated(j, s)
          /\ UNCHANGED <<workflowMap, wfResults>>
       \/ /\ j \in workflowMap /\ step \in Terminal      \* "job is already done"
          /\ workflowMap' = workflowMap \ {j}
          /\ JobUpdated(j, s)
          /\ UNCHANGED wfResults
       \/ /\ j \in workflowMap /\ step \notin Terminal
          /\ wfResults' = [wfResults EXCEPT ![j] =
                 IF run \notin Terminal THEN @
                 ELSE IF run = "eDone" THEN "success" ELSE "failure"]
          /\ IF run = step THEN JobUpdated(j, s)
             ELSE Advance(j, s, Call("write", run, "eUnitialized"))
          /\ UNCHANGED workflowMap
    /\ UNCHANGED <<jobVars, status, dbStatus, dbFailures, stepState, complete,
                   cleanupVars, cook, jobMap>>

(* The step is saved, whether or not that works; after a final status the  *)
(* workflow signals its completion and leaves the map.                     *)
WriteWorkflowStep(j, s) ==
    LET run == updates[j][s].run IN
    /\ updates[j][s].at = "write"
    /\ \/ stepState' = [stepState EXCEPT ![j] = run] /\ UNCHANGED dbFailures
       \/ DbFails /\ UNCHANGED stepState
    /\ IF run \in Terminal
       THEN complete' = complete \cup {j} /\ workflowMap' = workflowMap \ {j}
       ELSE UNCHANGED <<complete, workflowMap>>
    /\ JobUpdated(j, s)
    /\ UNCHANGED <<jobVars, status, dbStatus, wfResults, cleanupVars, cook, jobMap>>

(* JobEngine.jobCompleted, and the other call of cleanupJob.               *)
JobCompleted(j, s) ==
    /\ updates[j][s].at = "completed"
    /\ jobMap' = jobMap \ {j}
    /\ IF CleanupDue(j) THEN StartCleanup(j, "byUpdate") ELSE UNCHANGED cleanupVars
    /\ Advance(j, s, NoCall)
    /\ UNCHANGED <<jobVars, status, dbStatus, dbFailures, workflowVars, cook>>

-----------------------------------------------------------------------------
(* The Cook server works on a job, or somebody cancels it there.  Only a   *)
(* poll reads what it reports, and any number of steps fit between two.    *)
CookAdvances(j) ==
    /\ pc[j] = "poll"
    /\ cook[j] \in {"created", "waiting", "running"}
    /\ \E c \in Reports :
          /\ c = "waiting" => cook[j] = "created"
          /\ c # cook[j]
          /\ cook' = [cook EXCEPT ![j] = c]
    /\ UNCHANGED <<jobVars, recordVars, workflowVars, cleanupVars, jobMap>>

(* It never answers the request under way, nor a later one about this job. *)
CookFallsSilent(j) ==
    /\ Silence
    /\ pc[j] \in {"post", "patch", "poll"} /\ cook[j] # "silent"
    /\ cook' = [cook EXCEPT ![j] = "silent"]
    /\ UNCHANGED <<jobVars, recordVars, workflowVars, cleanupVars, jobMap>>

JobStep(j) ==
    \/ Execute(j) \/ Acquire(j)
    \/ Post(j) \/ StageFiles(j) \/ Patch(j) \/ RequestFails(j) \/ RequestStops(j)
    \/ PollPending(j) \/ PollDone(j) \/ PollError(j) \/ PollCancelled(j)
    \/ PollFails(j) \/ PollStops(j)
    \/ SignalCompletion(j) \/ EndCleanup(j) \/ Return(j)

UpdateStep(j, s) ==
    \/ ReadJobRun(j, s) \/ ReadWorkflowStep(j, s) \/ UpdateWorkflow(j, s)
    \/ WriteWorkflowStep(j, s) \/ JobCompleted(j, s)

Next == \E j \in Jobs : \/ Create(j) \/ CookAdvances(j) \/ CookFallsSilent(j) \/ JobStep(j)
                        \/ \E s \in Statuses : UpdateStep(j, s)

Spec == Init /\ [][Next]_vars

(* Promises that can go on do, also those nobody awaits: a request that    *)
(* Cook answers or refuses is answered or fails in the end, file staging   *)
(* ends, and the ten hours of polling pass.  The semaphore serves its      *)
(* queue in order.  Nothing makes Cook answer, or make progress, or makes  *)
(* anybody create a further workflow.                                      *)
Fairness ==
    \A j \in Jobs : /\ WF_vars(JobStep(j))
                    /\ SF_vars(Acquire(j))
                    /\ WF_vars(\E s \in Statuses : UpdateStep(j, s))

FairSpec == Spec /\ Fairness

-----------------------------------------------------------------------------
(* Every variable keeps its type.                                          *)
TypeOK ==
    /\ pc \in [Jobs -> PCs]
    /\ attempt \in [Jobs -> 1 .. JobRetryCount]
    /\ tries \in [Jobs -> 0 .. RequestRetryCount]
    /\ res \in [Jobs -> Results]
    /\ returned \in [Jobs -> Results]
    /\ results \in [Jobs -> Results]
    /\ status \in [Jobs -> Statuses]
    /\ cook \in [Jobs -> CookStates]
    /\ dbStatus \in [Jobs -> Statuses]
    /\ updates \in [Jobs -> [Statuses -> Calls]]
    /\ stepState \in [Jobs -> Statuses]
    /\ workflowMap \subseteq Jobs
    /\ wfResults \in [Jobs -> Results]
    /\ complete \subseteq Jobs
    /\ jobMap \subseteq Jobs
    /\ cleanup \in [Jobs -> {"none", "byJob", "byUpdate", "done"}]
    /\ cleanups \in [Jobs -> Nat]
    /\ dbFailures \in Nat

(* Whoever waits for a workflow is told how its job ended: the result it   *)
(* gets was read from a JobRun row that is final and still says the same,  *)
(* although the calls of updateEngines run late and in any order.          *)
OutcomeAgrees ==
    \A j \in complete :
        /\ dbStatus[j] \in Terminal
        /\ wfResults[j] = "success" <=> dbStatus[j] = "eDone"

(* A JobRun row that says done, error or cancelled is never written again: *)
(* neither executeJob's own failure handling nor another attempt follows   *)
(* a final status that a reader may have acted on.                         *)
FinalStatusStays ==
    [][\A j \in Jobs : dbStatus[j] \in Terminal => dbStatus'[j] = dbStatus[j]]_vars

(* The objects of a finished scene are created once: signalCompletion and  *)
(* updateEngines both call cleanupJob, exactly one of them does the work,  *)
(* and it is not skipped.                                                  *)
CleanedUpOnce ==
    \A j \in Scenes :
        /\ cleanups[j] <= 1
        /\ pc[j] = "ended" => (cleanups[j] = 1 <=> results[j] = "success")

(* In the end every workflow whose job has ended has heard of that, and no *)
(* entry of either map outlives it.                                        *)
WorkflowHears ==
    <>[](\A j \in Jobs : pc[j] = "ended" =>
             j \in complete /\ j \notin workflowMap /\ j \notin jobMap)

(* A request that Cook never answers holds its permit for ever.  That is   *)
(* the only thing that keeps a job from its end: every other job that was  *)
(* created ends, unless it queues behind requests like that for all the    *)
(* permits, although scenes hold theirs while they wait for inspections    *)
(* that queue for one, and whatever else Cook does.                        *)
JobsEnd ==
    <>[](LET Stuck == {j \in Jobs : cook[j] = "silent"} IN
         \A j \in Jobs \ Stuck :
             \/ pc[j] \in {"idle", "ended"}
             \/ pc[j] = "queued" /\ Cardinality(Stuck) >= Permits)
=============================================================================
