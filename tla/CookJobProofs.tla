---------------------------- MODULE CookJobProofs ----------------------------
(***************************************************************************)
(* For any number of jobs, permits, attempts and database failures:        *)
(*   TypeCorrect          every variable of CookJob keeps its type;        *)
(*   OutcomeAgreesAlways  a completed workflow tells what the final JobRun *)
(*                        row says;                                        *)
(*   FinalStatusKept      a final JobRun row is never written again;       *)
(*   CleanedUpOnceAlways  the cleanup of a finished scene is done once.    *)
(*                                                                         *)
(* The argument: until polling ends the status in memory is not final, and *)
(* afterwards it is final only in agreement with what startJobWorker is    *)
(* about to return, so recordFailure never overwrites a final status and   *)
(* no further attempt follows one (JobKept).  Whatever the calls of        *)
(* updateEngines have read, if it is final it is what the row still says   *)
(* (EngineKept).  A success is reported only at the end of polling and is  *)
(* not taken back, and startJobWorker does not return one before one of    *)
(* the two callers of cleanupJob has claimed the work (CleanupKept).       *)
(***************************************************************************)
EXTENDS CookJob, TLAPS

Early == {"idle", "created", "queued", "post", "stage", "patch", "poll"}
Late  == {"signal", "cleanup", "returning"}

(* The status in memory, the result under way and the row of one job.      *)
JobKept(j) ==
    /\ pc[j] \in Early => status[j] \notin Terminal /\ results[j] # "success"
    /\ pc[j] \in Late =>
          /\ status[j] = "eDone" <=> res[j] = "success"
          /\ status[j] = "eError" => res[j] = "failure"
          /\ status[j] # "eCancelled"
    /\ dbStatus[j] \in Terminal => status[j] = dbStatus[j]
    /\ cleanup[j] = "byJob" => pc[j] = "cleanup"

(* What one call of updateEngines holds.                                   *)
CallKept(j, s) ==
    /\ updates[j][s].run \in Terminal => updates[j][s].run = dbStatus[j]
    /\ updates[j][s].at = "write" /\ updates[j][s].run \in Terminal =>
           (wfResults[j] = "success" <=> updates[j][s].run = "eDone")

(* What the workflow of one job knows.                                     *)
EngineKept(j) ==
    /\ \A s \in Statuses : CallKept(j, s)
    /\ j \in complete => /\ dbStatus[j] \in Terminal
                         /\ wfResults[j] = "success" <=> dbStatus[j] = "eDone"

OutcomeInv ==
    /\ TypeOK
    /\ \A j \in Jobs : JobKept(j)
    /\ \A j \in Jobs : EngineKept(j)

-----------------------------------------------------------------------------
(* Changing a table at one job keeps its type.                             *)
LEMMA ExceptType ==
    ASSUME NEW T, NEW f \in [Jobs -> T], NEW j \in Jobs, NEW v \in T
    PROVE  [f EXCEPT ![j] = v] \in [Jobs -> T]
    OBVIOUS

(* A record of a call of updateEngines has the type of one.                *)
LEMMA CallType ==
    ASSUME NEW at \in Stages, NEW run \in Statuses, NEW step \in Statuses
    PROVE  Call(at, run, step) \in Calls
    BY DEF Call, Calls

(* Storing a call keeps the type of the table of calls.                    *)
LEMMA UpdatesType ==
    ASSUME TypeOK, NEW j \in Jobs, NEW s \in Statuses, NEW c \in Calls,
           updates' = [updates EXCEPT ![j][s] = c]
    PROVE  updates' \in [Jobs -> [Statuses -> Calls]]
    BY DEF TypeOK

(* Recording a status, or not recording it, keeps the types.               *)
LEMMA RecordType ==
    ASSUME TypeOK, NEW j \in Jobs, NEW s \in Statuses, NEW updated \in BOOLEAN,
           Record(j, s, updated)
    PROVE  /\ status' \in [Jobs -> Statuses]
           /\ dbStatus' \in [Jobs -> Statuses]
           /\ updates' \in [Jobs -> [Statuses -> Calls]]
           /\ dbFailures' \in Nat
  <1>1. CASE updated
    <2>1. SetStatus(j, s)
        BY <1>1 DEF Record
    <2>2. Call("readRun", "eUnitialized", "eUnitialized") \in Calls
        BY CallType DEF Stages, Statuses
    <2>3. updates' \in [Jobs -> [Statuses -> Calls]]
        BY <2>1, <2>2, UpdatesType DEF SetStatus
    <2>4. status' \in [Jobs -> Statuses] /\ dbStatus' \in [Jobs -> Statuses]
        BY <2>1 DEF SetStatus, TypeOK
    <2>5. dbFailures' \in Nat
        BY <2>1 DEF SetStatus, DbFails, TypeOK
    <2>6. QED
        BY <2>3, <2>4, <2>5
  <1>2. CASE ~updated
    BY <1>2 DEF Record, recordVars, TypeOK
  <1>3. QED
    BY <1>1, <1>2

(* The end of jobUpdated keeps the type of the table of calls.             *)
LEMMA JobUpdatedType ==
    ASSUME TypeOK, NEW j \in Jobs, NEW s \in Statuses, JobUpdated(j, s)
    PROVE  updates' \in [Jobs -> [Statuses -> Calls]]
  <1>1. (IF s \in Terminal THEN Call("completed", "eUnitialized", "eUnitialized")
         ELSE NoCall) \in Calls
    BY CallType DEF NoCall, Stages, Statuses
  <1>2. QED
    BY <1>1, UpdatesType DEF JobUpdated, Advance

(* The initial state is well typed.                                        *)
LEMMA InitType == Init => TypeOK
  <1>1. NoCall \in Calls
    BY CallType DEF NoCall, Stages, Statuses
  <1>2. QED
    BY <1>1, ConstantsAssumption DEF Init, TypeOK, PCs, Results, CookStates, Statuses

(* A poll that is not over records a status that is not final, or nothing. *)
LEMMA PendingRecords ==
    ASSUME NEW j \in Jobs, Pending(j)
    PROVE  \E s \in {"eCreated", "eWaiting", "eRunning"}, u \in BOOLEAN : Record(j, s, u)
  <1>1. CASE UNCHANGED recordVars
    <2>1. Record(j, "eCreated", FALSE)
      BY <1>1 DEF Record
    <2>2. QED
      BY <2>1
  <1>2. QED
    BY <1>1 DEF Pending, RecordCreated, RecordWaiting, RecordStart

(* Every step of executeJob keeps the types.                               *)
LEMMA JobStepType ==
    ASSUME TypeOK, NEW j \in Jobs, JobStep(j)
    PROVE  TypeOK'
  <1> USE DEF Goto, jobVars, recordVars, workflowVars, cleanupVars
  <1>1. CASE Execute(j)
    <2>1. Record(j, "eCreated", status[j] = "eUnitialized")
        BY <1>1 DEF Execute, RecordCreated
    <2>2. QED
        BY <1>1, <2>1, RecordType DEF Execute, TypeOK, Statuses, PCs
  <1>2. CASE Acquire(j)
    BY <1>2, ConstantsAssumption DEF Acquire, TypeOK, PCs
  <1>3. CASE Post(j)
    BY <1>3 DEF Post, TypeOK, PCs, CookStates
  <1>4. CASE StageFiles(j)
    <2>1. pc' \in [Jobs -> PCs]
        BY <1>4 DEF StageFiles, TypeOK, PCs
    <2>2. res' \in [Jobs -> Results]
        BY <1>4 DEF StageFiles, TypeOK, Results
    <2>3. tries' \in [Jobs -> 0 .. RequestRetryCount]
        BY <1>4, ConstantsAssumption DEF StageFiles, TypeOK
    <2>4. QED
        BY <1>4, <2>1, <2>2, <2>3 DEF StageFiles, TypeOK
  <1>5. CASE Patch(j)
    BY <1>5, ConstantsAssumption DEF Patch, TypeOK, PCs
  <1>6. CASE RequestFails(j)
    <2>1. pc' \in [Jobs -> PCs]
        BY <1>6 DEF RequestFails, TypeOK, PCs
    <2>2. res' \in [Jobs -> Results]
        BY <1>6 DEF RequestFails, TypeOK, Results
    <2>3. tries' \in [Jobs -> 0 .. RequestRetryCount]
        <3>1. tries \in [Jobs -> 0 .. RequestRetryCount]
            BY DEF TypeOK
        <3>2. \/ tries' = tries
              \/ /\ tries[j] + 1 < RequestRetryCount
                 /\ tries' = [tries EXCEPT ![j] = @ + 1]
            BY <1>6 DEF RequestFails
        <3>3. QED
            BY <3>1, <3>2, ConstantsAssumption
    <2>4. QED
        BY <1>6, <2>1, <2>2, <2>3 DEF RequestFails, TypeOK
  <1>7. CASE RequestStops(j)
    BY <1>7 DEF RequestStops, TypeOK, PCs, Results
  <1>8. CASE PollPending(j)
    <2>1. \E s \in Statuses, u \in BOOLEAN : Record(j, s, u)
        BY <1>8, PendingRecords DEF PollPending, Statuses
    <2>2. pc' \in [Jobs -> PCs] /\ res' \in [Jobs -> Results] /\ results' \in [Jobs -> Results]
        BY <1>8 DEF PollPending, PollAgain, Expire, TypeOK, PCs, Results
    <2>3. QED
        BY <1>8, <2>1, <2>2, RecordType DEF PollPending, TypeOK
  <1>9. CASE PollDone(j)
    <2>1. Record(j, "eDone", status[j] # "eDone")
        BY <1>9 DEF PollDone, RecordSuccess
    <2>2. QED
        BY <1>9, <2>1, RecordType
        DEF PollDone, EndPolling, TypeOK, Statuses, Terminal, PCs, Results
  <1>10. CASE PollError(j)
    <2>1. Record(j, "eError", status[j] # "eError")
        BY <1>10 DEF PollError, RecordFailure
    <2>2. QED
        BY <1>10, <2>1, RecordType
        DEF PollError, EndPolling, TypeOK, Statuses, Terminal, PCs, Results
  <1>11. CASE PollCancelled(j)
    <2>1. Record(j, "eCancelled", status[j] = "eCancelled")
        BY <1>11 DEF PollCancelled, RecordCancel
    <2>2. QED
        BY <1>11, <2>1, RecordType
        DEF PollCancelled, EndPolling, TypeOK, Statuses, Terminal, PCs, Results
  <1>12. CASE PollFails(j)
    <2>1. pc' \in [Jobs -> PCs]
        BY <1>12 DEF PollFails, CountFailure, PollAgain, Expire, TypeOK, PCs
    <2>2. res' \in [Jobs -> Results] /\ results' \in [Jobs -> Results]
        BY <1>12 DEF PollFails, CountFailure, PollAgain, Expire, TypeOK, Results
    <2>3. tries' \in [Jobs -> 0 .. RequestRetryCount]
      <3>1. tries[j] \in 0 .. RequestRetryCount /\ tries \in [Jobs -> 0 .. RequestRetryCount]
        BY DEF TypeOK
      <3>2. CASE tries[j] < RequestRetryCount
        <4>1. tries[j] + 1 \in 0 .. RequestRetryCount
            BY <3>1, <3>2, ConstantsAssumption
        <4>2. tries' = [tries EXCEPT ![j] = tries[j] + 1]
            BY <1>12, <3>2 DEF PollFails, CountFailure
        <4>3. QED
            BY <3>1, <4>1, <4>2, ExceptType
      <3>3. CASE ~(tries[j] < RequestRetryCount)
        BY <1>12, <3>1, <3>3 DEF PollFails, CountFailure
      <3>4. QED
        BY <3>2, <3>3
    <2>4. QED
        BY <1>12, <2>1, <2>2, <2>3 DEF PollFails, CountFailure, TypeOK
  <1>13. CASE PollStops(j)
    BY <1>13 DEF PollStops, TypeOK, PCs
  <1>14. CASE SignalCompletion(j)
    <2>1. pc' \in [Jobs -> PCs]
        BY <1>14 DEF SignalCompletion, TypeOK, PCs
    <2>2. cleanup' \in [Jobs -> {"none", "byJob", "byUpdate", "done"}]
        BY <1>14 DEF SignalCompletion, StartCleanup, TypeOK
    <2>3. cleanups' \in [Jobs -> Nat]
      <3>1. cleanups \in [Jobs -> Nat] /\ cleanups[j] + 1 \in Nat
        BY DEF TypeOK
      <3>2. \/ cleanups' = cleanups
            \/ cleanups' = [cleanups EXCEPT ![j] = cleanups[j] + 1]
        BY <1>14 DEF SignalCompletion, StartCleanup
      <3>3. QED
        BY <3>1, <3>2, ExceptType
    <2>4. QED
        BY <1>14, <2>1, <2>2, <2>3 DEF SignalCompletion, TypeOK
  <1>15. CASE EndCleanup(j)
    BY <1>15 DEF EndCleanup, TypeOK, PCs
  <1>16. CASE Return(j)
    <2>1. /\ status' \in [Jobs -> Statuses]
          /\ dbStatus' \in [Jobs -> Statuses]
          /\ updates' \in [Jobs -> [Statuses -> Calls]]
          /\ dbFailures' \in Nat
      <3>1. CASE res[j] = "success"
        BY <1>16, <3>1 DEF Return, TypeOK
      <3>2. CASE res[j] # "success"
        <4>1. Record(j, "eError", status[j] # "eError")
            BY <1>16, <3>2 DEF Return, RecordFailure
        <4>2. QED
            BY <4>1, RecordType DEF Statuses, Terminal
      <3>3. QED
        BY <3>1, <3>2
    <2>2. /\ returned' \in [Jobs -> Results]
          /\ results' \in [Jobs -> Results]
        BY <1>16 DEF Return, TypeOK, Results
    <2>3. pc' \in [Jobs -> PCs]
        BY <1>16 DEF Return, TypeOK, PCs
    <2>4. attempt' \in [Jobs -> 1 .. JobRetryCount]
      <3>1. attempt[j] \in 1 .. JobRetryCount /\ attempt \in [Jobs -> 1 .. JobRetryCount]
        BY DEF TypeOK
      <3>2. \/ attempt' = attempt
            \/ /\ attempt[j] < JobRetryCount
               /\ attempt' = [attempt EXCEPT ![j] = attempt[j] + 1]
        BY <1>16 DEF Return
      <3>3. attempt[j] < JobRetryCount => attempt[j] + 1 \in 1 .. JobRetryCount
        BY <3>1, ConstantsAssumption
      <3>4. QED
        BY <3>1, <3>2, <3>3, ExceptType
    <2>5. QED
        BY <1>16, <2>1, <2>2, <2>3, <2>4 DEF Return, TypeOK
  <1>17. QED
    BY <1>1, <1>2, <1>3, <1>4, <1>5, <1>6, <1>7, <1>8, <1>9, <1>10, <1>11, <1>12,
       <1>13, <1>14, <1>15, <1>16 DEF JobStep

(* Every step of a call of updateEngines keeps the types.                  *)
LEMMA UpdateStepType ==
    ASSUME TypeOK, NEW j \in Jobs, NEW s \in Statuses, UpdateStep(j, s)
    PROVE  TypeOK'
  <1> USE DEF jobVars, recordVars, workflowVars, cleanupVars
  <1>0. updates[j][s] \in Calls /\ updates[j][s].run \in Statuses
    BY DEF TypeOK, Calls
  <1>1. CASE ReadJobRun(j, s)
    <2>1. Call("readStep", dbStatus[j], "eUnitialized") \in Calls
        BY CallType DEF Stages, Statuses, TypeOK
    <2>2. updates' \in [Jobs -> [Statuses -> Calls]]
        BY <1>1, <2>1, UpdatesType, JobUpdatedType DEF ReadJobRun, Advance
    <2>3. QED
        BY <1>1, <2>2 DEF ReadJobRun, DbFails, TypeOK
  <1>2. CASE ReadWorkflowStep(j, s)
    <2>1. Call("apply", updates[j][s].run, stepState[j]) \in Calls
        BY <1>0, CallType DEF Stages, TypeOK
    <2>2. updates' \in [Jobs -> [Statuses -> Calls]]
        BY <1>2, <2>1, UpdatesType, JobUpdatedType DEF ReadWorkflowStep, Advance
    <2>3. QED
        BY <1>2, <2>2 DEF ReadWorkflowStep, DbFails, TypeOK
  <1>3. CASE UpdateWorkflow(j, s)
    <2>1. Call("write", updates[j][s].run, "eUnitialized") \in Calls
        BY <1>0, CallType DEF Stages, Statuses
    <2>2. updates' \in [Jobs -> [Statuses -> Calls]]
        BY <1>3, <2>1, UpdatesType, JobUpdatedType DEF UpdateWorkflow, Advance
    <2>3. wfResults' \in [Jobs -> Results]
        BY <1>3 DEF UpdateWorkflow, TypeOK, Results
    <2>4. QED
        BY <1>3, <2>2, <2>3 DEF UpdateWorkflow, TypeOK
  <1>4. CASE WriteWorkflowStep(j, s)
    <2>1. updates' \in [Jobs -> [Statuses -> Calls]]
        <3>1. JobUpdated(j, s)
            BY <1>4 DEF WriteWorkflowStep
        <3>2. QED
            BY <3>1, JobUpdatedType
    <2>2. QED
        BY <1>0, <1>4, <2>1 DEF WriteWorkflowStep, DbFails, TypeOK
  <1>5. CASE JobCompleted(j, s)
    <2>1. NoCall \in Calls
        BY CallType DEF NoCall, Stages, Statuses
    <2>2. updates' \in [Jobs -> [Statuses -> Calls]]
        BY <1>5, <2>1, UpdatesType DEF JobCompleted, Advance
    <2>3. cleanup' \in [Jobs -> {"none", "byJob", "byUpdate", "done"}]
        BY <1>5 DEF JobCompleted, StartCleanup, TypeOK
    <2>4. cleanups' \in [Jobs -> Nat]
      <3>1. cleanups \in [Jobs -> Nat] /\ cleanups[j] + 1 \in Nat
        BY DEF TypeOK
      <3>2. \/ cleanups' = cleanups
            \/ cleanups' = [cleanups EXCEPT ![j] = cleanups[j] + 1]
        BY <1>5 DEF JobCompleted, StartCleanup
      <3>3. QED
        BY <3>1, <3>2, ExceptType
    <2>5. QED
        BY <1>5, <2>2, <2>3, <2>4 DEF JobCompleted, TypeOK
  <1>6. QED
    BY <1>1, <1>2, <1>3, <1>4, <1>5 DEF UpdateStep

(* Every step keeps the types.                                             *)
LEMMA TypeStep == TypeOK /\ [Next]_vars => TypeOK'
  <1> SUFFICES ASSUME TypeOK, [Next]_vars PROVE TypeOK'
    OBVIOUS
  <1> USE DEF jobVars, recordVars, workflowVars, cleanupVars
  <1>1. CASE UNCHANGED vars
    BY <1>1 DEF vars, TypeOK
  <1>2. ASSUME NEW j \in Jobs, Create(j) PROVE TypeOK'
    BY <1>2 DEF Create, Goto, TypeOK, PCs
  <1>3. ASSUME NEW j \in Jobs, CookAdvances(j) PROVE TypeOK'
    BY <1>3, ConstantsAssumption DEF CookAdvances, TypeOK, CookStates
  <1>4. ASSUME NEW j \in Jobs, CookFallsSilent(j) PROVE TypeOK'
    BY <1>4 DEF CookFallsSilent, TypeOK, CookStates
  <1>5. QED
    BY <1>1, <1>2, <1>3, <1>4, JobStepType, UpdateStepType DEF Next

(* Every variable of CookJob keeps its type, for all values of the         *)
(* constants.                                                              *)
THEOREM TypeCorrect == Spec => []TypeOK
  <1>1. QED
    BY InitType, TypeStep, PTL DEF Spec

-----------------------------------------------------------------------------
FinalKept == \A i \in Jobs : dbStatus[i] \in Terminal => dbStatus'[i] = dbStatus[i]

(* The three facts every step is shown to keep.                            *)
Kept == /\ \A i \in Jobs : JobKept(i)'
        /\ \A i \in Jobs : EngineKept(i)'
        /\ FinalKept

(* What recording a status does to the status in memory and in the row.    *)
LEMMA RecordFacts ==
    ASSUME TypeOK, NEW j \in Jobs, NEW s \in Statuses, NEW updated \in BOOLEAN,
           Record(j, s, updated)
    PROVE  /\ \A i \in Jobs : i # j => status'[i] = status[i] /\ dbStatus'[i] = dbStatus[i]
           /\ updated => status'[j] = s /\ dbStatus'[j] \in {s, dbStatus[j]}
           /\ ~updated => UNCHANGED recordVars
  <1>1. CASE updated
    <2>1. SetStatus(j, s)
        BY <1>1 DEF Record
    <2>2. status' = [status EXCEPT ![j] = s]
        BY <2>1 DEF SetStatus
    <2>3. dbStatus' = [dbStatus EXCEPT ![j] = s] \/ dbStatus' = dbStatus
        BY <2>1 DEF SetStatus
    <2>4. QED
        BY <1>1, <2>2, <2>3 DEF TypeOK
  <1>2. CASE ~updated
    BY <1>2 DEF Record, recordVars
  <1>3. QED
    BY <1>1, <1>2

(* The workflows do not notice a step that leaves their rows alone.        *)
LEMMA EngineUnchanged ==
    ASSUME \A i \in Jobs : EngineKept(i),
           UNCHANGED <<dbStatus, updates, wfResults, complete>>
    PROVE  \A i \in Jobs : EngineKept(i)'
    BY DEF EngineKept, CallKept

(* Recording a status in a row that is not final yet spoils nothing that a *)
(* call of updateEngines or a workflow knows, for they know nothing final. *)
LEMMA EngineRecorded ==
    ASSUME TypeOK, NEW j \in Jobs, NEW s \in Statuses, NEW updated \in BOOLEAN,
           Record(j, s, updated),
           updated => dbStatus[j] \notin Terminal,
           \A i \in Jobs : EngineKept(i),
           UNCHANGED workflowVars
    PROVE  (\A i \in Jobs : EngineKept(i)') /\ FinalKept
  <1>1. CASE ~updated
    <2>1. UNCHANGED <<dbStatus, updates, wfResults, complete>>
        BY <1>1, RecordFacts DEF recordVars, workflowVars
    <2>2. QED
        BY <2>1, EngineUnchanged DEF FinalKept
  <1>2. CASE updated
    <2>1. SetStatus(j, s)
        BY <1>2 DEF Record
    <2>2. dbStatus[j] \notin Terminal
        BY <1>2
    <2>3. \A i \in Jobs : i # j => dbStatus'[i] = dbStatus[i]
        BY RecordFacts
    <2>4. ASSUME NEW i \in Jobs, NEW t \in Statuses PROVE CallKept(i, t)'
      <3>1. CallKept(i, t)
        BY <2>4 DEF EngineKept
      <3>2. CASE i = j /\ t = s
        <4>1. updates'[i][t] = Call("readRun", "eUnitialized", "eUnitialized")
            BY <2>1, <3>2 DEF SetStatus, TypeOK
        <4>2. updates'[i][t].run \notin Terminal
            BY <4>1 DEF Call, Terminal
        <4>3. QED
            BY <4>2 DEF CallKept
      <3>3. CASE ~(i = j /\ t = s)
        <4>1. updates'[i][t] = updates[i][t]
            BY <2>1, <3>3 DEF SetStatus, TypeOK
        <4>2. CASE i = j
            BY <2>2, <3>1, <4>1, <4>2 DEF CallKept
        <4>3. CASE i # j
            BY <2>3, <3>1, <4>1, <4>3 DEF CallKept, workflowVars
        <4>4. QED
            BY <4>2, <4>3
      <3>4. QED
        BY <3>2, <3>3
    <2>5. ASSUME NEW i \in Jobs, i \in complete'
          PROVE  /\ dbStatus'[i] \in Terminal
                 /\ wfResults'[i] = "success" <=> dbStatus'[i] = "eDone"
      <3>1. i \in complete
        BY <2>5 DEF workflowVars
      <3>2. i # j
        BY <2>2, <3>1 DEF EngineKept
      <3>3. QED
        BY <2>3, <3>1, <3>2 DEF EngineKept, workflowVars
    <2>6. FinalKept
        BY <2>2, <2>3 DEF FinalKept
    <2>7. QED
        BY <2>4, <2>5, <2>6 DEF EngineKept
  <1>3. QED
    BY <1>1, <1>2

(* A row whose job has not been polled to its end is not final.            *)
LEMMA EarlyRow ==
    ASSUME NEW j \in Jobs, JobKept(j), pc[j] \in Early
    PROVE  dbStatus[j] \notin Terminal
    BY DEF JobKept

(* Steps of executeJob that record nothing.                                *)
LEMMA QuietStepKept ==
    ASSUME OutcomeInv, NEW j \in Jobs, UNCHANGED <<recordVars, workflowVars>>,
           \/ Acquire(j) \/ Post(j) \/ StageFiles(j) \/ Patch(j)
           \/ RequestFails(j) \/ RequestStops(j)
           \/ PollFails(j) \/ PollStops(j)
           \/ SignalCompletion(j) \/ EndCleanup(j)
    PROVE  Kept
  <1>1. (\A i \in Jobs : EngineKept(i)') /\ FinalKept
    BY EngineUnchanged DEF OutcomeInv, FinalKept, recordVars, workflowVars
  <1>2. ASSUME NEW i \in Jobs, i # j PROVE JobKept(i)'
    <2>1. JobKept(i)
        BY DEF OutcomeInv
    <2>2. UNCHANGED <<status, dbStatus>>
        BY DEF recordVars
    <2>3. /\ pc'[i] = pc[i] /\ res'[i] = res[i] /\ results'[i] = results[i]
          /\ cleanup'[i] = cleanup[i]
        BY <1>2 DEF OutcomeInv, TypeOK, Goto, Acquire, Post, StageFiles, Patch,
                    RequestFails, RequestStops, PollFails, CountFailure, PollAgain, Expire, PollStops,
                    SignalCompletion, EndCleanup, StartCleanup, cleanupVars
    <2>4. QED
        BY <2>1, <2>2, <2>3 DEF JobKept
  <1>3. JobKept(j)'
    <2>1. JobKept(j) /\ pc \in [Jobs -> PCs] /\ res \in [Jobs -> Results]
          /\ results \in [Jobs -> Results]
          /\ cleanup \in [Jobs -> {"none", "byJob", "byUpdate", "done"}]
        BY DEF OutcomeInv, TypeOK
    <2>2. UNCHANGED <<status, dbStatus>>
        BY DEF recordVars
    <2>3. CASE Acquire(j)
        BY <2>1, <2>2, <2>3 DEF Acquire, Goto, JobKept, Early, Late, cleanupVars
    <2>4. CASE Post(j)
        BY <2>1, <2>2, <2>4 DEF Post, Goto, JobKept, Early, Late, cleanupVars
    <2>5. CASE StageFiles(j)
        BY <2>1, <2>2, <2>5 DEF StageFiles, Goto, JobKept, Early, Late, cleanupVars, Terminal
    <2>6. CASE Patch(j)
        BY <2>1, <2>2, <2>6 DEF Patch, Goto, JobKept, Early, Late, cleanupVars
    <2>7. CASE RequestFails(j)
        BY <2>1, <2>2, <2>7 DEF RequestFails, Goto, JobKept, Early, Late, cleanupVars, Terminal
    <2>8. CASE RequestStops(j)
        BY <2>1, <2>2, <2>8 DEF RequestStops, Goto, JobKept, Early, Late, cleanupVars, Terminal
    <2>9. CASE PollFails(j)
        BY <2>1, <2>2, <2>9 DEF PollFails, CountFailure, PollAgain, Expire, Goto, JobKept, Early, Late, cleanupVars, Terminal
    <2>10. CASE PollStops(j)
        BY <2>1, <2>2, <2>10 DEF PollStops, Goto, JobKept, Early, Late, cleanupVars, Terminal
    <2>11. CASE SignalCompletion(j)
        BY <2>1, <2>2, <2>11 DEF SignalCompletion, StartCleanup, Goto, JobKept, Early, Late,
               cleanupVars
    <2>12. CASE EndCleanup(j)
        BY <2>1, <2>2, <2>12 DEF EndCleanup, Goto, JobKept, Early, Late
    <2>13. QED
        BY <2>3, <2>4, <2>5, <2>6, <2>7, <2>8, <2>9, <2>10, <2>11, <2>12
  <1>4. QED
    BY <1>1, <1>2, <1>3 DEF Kept

(* A step that records a status for job j in a row that is not final keeps *)
(* what is known of every other job, and the agreement of row and memory.  *)
LEMMA RecordedKept ==
    ASSUME OutcomeInv, NEW j \in Jobs, NEW s \in Statuses, NEW updated \in BOOLEAN,
           Record(j, s, updated),
           updated => dbStatus[j] \notin Terminal,
           \A i \in Jobs : i # j => /\ pc'[i] = pc[i] /\ res'[i] = res[i]
                                    /\ results'[i] = results[i]
                                    /\ cleanup'[i] = cleanup[i],
           UNCHANGED workflowVars
    PROVE  /\ \A i \in Jobs : EngineKept(i)'
           /\ FinalKept
           /\ \A i \in Jobs : i # j => JobKept(i)'
           /\ dbStatus'[j] \in Terminal => status'[j] = dbStatus'[j]
           /\ updated => status'[j] = s
           /\ ~updated => status'[j] = status[j]
  <1>1. TypeOK /\ JobKept(j)
    BY DEF OutcomeInv
  <1>2. (\A i \in Jobs : EngineKept(i)') /\ FinalKept
    BY <1>1, EngineRecorded DEF OutcomeInv
  <1>3. /\ \A i \in Jobs : i # j => status'[i] = status[i] /\ dbStatus'[i] = dbStatus[i]
        /\ updated => status'[j] = s /\ dbStatus'[j] \in {s, dbStatus[j]}
        /\ ~updated => status'[j] = status[j] /\ dbStatus'[j] = dbStatus[j]
    BY <1>1, RecordFacts DEF recordVars
  <1>4. ASSUME NEW i \in Jobs, i # j PROVE JobKept(i)'
    <2>1. JobKept(i)
        BY DEF OutcomeInv
    <2>2. QED
        BY <1>3, <1>4, <2>1 DEF JobKept
  <1>5. dbStatus'[j] \in Terminal => status'[j] = dbStatus'[j]
    BY <1>1, <1>3 DEF JobKept
  <1>6. QED
    BY <1>2, <1>3, <1>4, <1>5

(* Starting the job, and polls that find it under way.                     *)
LEMMA PendingKept ==
    ASSUME OutcomeInv, NEW j \in Jobs, Execute(j) \/ PollPending(j)
    PROVE  Kept
  <1>1. TypeOK /\ JobKept(j)
    BY DEF OutcomeInv
  <1>2. pc[j] \in {"created", "poll"} /\ pc[j] \in Early
    BY DEF Execute, PollPending, Early
  <1>3. dbStatus[j] \notin Terminal /\ status[j] \notin Terminal /\ results[j] # "success"
    BY <1>1, <1>2, EarlyRow DEF JobKept
  <1>4. PICK s \in {"eCreated", "eWaiting", "eRunning"}, updated \in BOOLEAN :
            Record(j, s, updated)
    BY PendingRecords DEF Execute, PollPending, RecordCreated
  <1>5. s \in Statuses /\ s \notin Terminal
    BY DEF Statuses, Terminal
  <1>6. UNCHANGED <<cleanup, workflowVars>>
    BY DEF Execute, PollPending, cleanupVars
  <1>7. /\ \A i \in Jobs : i # j => /\ pc'[i] = pc[i] /\ res'[i] = res[i]
                                    /\ results'[i] = results[i]
        /\ \/ pc'[j] \in {"queued", "poll"} /\ results'[j] = results[j]
           \/ pc'[j] = "signal" /\ results'[j] = "failure" /\ res'[j] = "failure"
    BY <1>1, <1>2 DEF TypeOK, Execute, PollPending, PollAgain, Expire, Goto
  <1>8. /\ \A i \in Jobs : EngineKept(i)'
        /\ FinalKept
        /\ \A i \in Jobs : i # j => JobKept(i)'
        /\ dbStatus'[j] \in Terminal => status'[j] = dbStatus'[j]
        /\ updated => status'[j] = s
        /\ ~updated => status'[j] = status[j]
    BY <1>3, <1>4, <1>5, <1>6, <1>7, RecordedKept
  <1>9. cleanup[j] # "byJob"
    BY <1>1, <1>2 DEF JobKept
  <1>10. JobKept(j)'
    <2>1. status'[j] \notin Terminal /\ cleanup'[j] # "byJob"
      BY <1>3, <1>5, <1>6, <1>8, <1>9
    <2>2. dbStatus'[j] \in Terminal => status'[j] = dbStatus'[j]
      BY <1>8
    <2>3. CASE pc'[j] \in {"queued", "poll"} /\ results'[j] = results[j]
      BY <1>3, <2>1, <2>2, <2>3 DEF JobKept, Early, Late
    <2>4. CASE pc'[j] = "signal" /\ results'[j] = "failure" /\ res'[j] = "failure"
      BY <2>1, <2>2, <2>4 DEF JobKept, Early, Late, Terminal
    <2>5. QED
      BY <1>7, <2>3, <2>4
  <1>11. QED
    BY <1>8, <1>10 DEF Kept

(* Polls that find the job at an end.                                      *)
LEMMA PollEndKept ==
    ASSUME OutcomeInv, NEW j \in Jobs, PollDone(j) \/ PollError(j) \/ PollCancelled(j)
    PROVE  Kept
  <1>1. TypeOK /\ JobKept(j)
    BY DEF OutcomeInv
  <1>2. pc[j] = "poll" /\ pc[j] \in Early
    BY DEF PollDone, PollError, PollCancelled, Early
  <1>3. dbStatus[j] \notin Terminal /\ status[j] \notin Terminal /\ results[j] # "success"
    BY <1>1, <1>2, EarlyRow DEF JobKept
  <1>4. cleanup[j] # "byJob"
    BY <1>1, <1>2 DEF JobKept
  <1>5. PICK s \in Terminal, updated \in BOOLEAN, r \in {"success", "failure"} :
            /\ Record(j, s, updated)
            /\ EndPolling(j, updated, r)
            /\ s = "eDone" <=> r = "success"
            /\ updated <=> s # "eCancelled"
    <2>1. CASE PollDone(j)
        BY <1>3, <2>1 DEF PollDone, RecordSuccess, Terminal
    <2>2. CASE PollError(j)
        BY <1>3, <2>2 DEF PollError, RecordFailure, Terminal
    <2>3. CASE PollCancelled(j)
        BY <1>3, <2>3 DEF PollCancelled, RecordCancel, Terminal
    <2>4. QED
        BY <2>1, <2>2, <2>3
  <1>6. s \in Statuses
    BY DEF Statuses
  <1>7. /\ UNCHANGED <<cleanup, workflowVars>>
        /\ pc' = [pc EXCEPT ![j] = "signal"]
        /\ results' = [results EXCEPT ![j] = IF updated THEN r ELSE @]
        /\ res' = [res EXCEPT ![j] = IF updated THEN r ELSE results[j]]
    BY <1>5 DEF EndPolling, Goto, cleanupVars
  <1>8. /\ \A i \in Jobs : i # j => /\ pc'[i] = pc[i] /\ res'[i] = res[i]
                                    /\ results'[i] = results[i]
        /\ pc'[j] = "signal"
        /\ res'[j] = IF updated THEN r ELSE results[j]
    BY <1>1, <1>7 DEF TypeOK
  <1>9. /\ \A i \in Jobs : EngineKept(i)'
        /\ FinalKept
        /\ \A i \in Jobs : i # j => JobKept(i)'
        /\ dbStatus'[j] \in Terminal => status'[j] = dbStatus'[j]
        /\ updated => status'[j] = s
        /\ ~updated => status'[j] = status[j]
    BY <1>3, <1>5, <1>6, <1>7, <1>8, RecordedKept
  <1>10. JobKept(j)'
    BY <1>3, <1>4, <1>5, <1>7, <1>8, <1>9 DEF JobKept, Early, Late, Terminal
  <1>11. QED
    BY <1>9, <1>10 DEF Kept

(* The return to executeJob: a failure is recorded unless the row says so  *)
(* already, and a job whose status is final is not tried again.            *)
LEMMA ReturnKept ==
    ASSUME OutcomeInv, NEW j \in Jobs, Return(j)
    PROVE  Kept
  <1>1. TypeOK /\ JobKept(j)
    BY DEF OutcomeInv
  <1>2. pc[j] = "returning" /\ pc[j] \in Late
    BY DEF Return, Late
  <1>3. /\ status[j] = "eDone" <=> res[j] = "success"
        /\ status[j] = "eError" => res[j] = "failure"
        /\ status[j] # "eCancelled"
    BY <1>1, <1>2 DEF JobKept
  <1> DEFINE updated == res[j] # "success" /\ status[j] # "eError"
  <1>4. Record(j, "eError", updated)
    BY DEF Return, RecordFailure, Record
  <1>5. updated => dbStatus[j] \notin Terminal
    BY <1>1, <1>3 DEF JobKept, Terminal
  <1>6. /\ UNCHANGED <<res, cleanup, workflowVars>>
        /\ pc' = [pc EXCEPT ![j] = "ended"]
        /\ \E r \in Results : results' = [results EXCEPT ![j] = r]
    <2>1. (IF updated THEN "failure" ELSE res[j]) # "retryable"
        BY <1>3, <1>1 DEF TypeOK, Results
    <2>2. (IF updated THEN "failure" ELSE res[j]) \in Results
        BY <1>1 DEF TypeOK, Results
    <2>3. QED
        BY <2>1, <2>2 DEF Return, Goto, cleanupVars
  <1>7. /\ \A i \in Jobs : i # j => pc'[i] = pc[i] /\ results'[i] = results[i]
        /\ pc'[j] = "ended"
    BY <1>1, <1>6 DEF TypeOK
  <1>8. /\ \A i \in Jobs : EngineKept(i)'
        /\ FinalKept
        /\ \A i \in Jobs : i # j => JobKept(i)'
        /\ dbStatus'[j] \in Terminal => status'[j] = dbStatus'[j]
    <2>1. "eError" \in Statuses /\ updated \in BOOLEAN
        BY DEF Statuses, Terminal
    <2>2. QED
        BY <1>4, <1>5, <1>6, <1>7, <2>1, RecordedKept
  <1>9. cleanup[j] # "byJob"
    BY <1>1, <1>2 DEF JobKept
  <1>10. JobKept(j)'
    BY <1>6, <1>7, <1>8, <1>9 DEF JobKept, Early, Late
  <1>11. QED
    BY <1>8, <1>10 DEF Kept

(* Creating a job, and what Cook does.                                     *)
LEMMA OutsideKept ==
    ASSUME OutcomeInv, NEW j \in Jobs, Create(j) \/ CookAdvances(j) \/ CookFallsSilent(j)
    PROVE  Kept
  <1>1. TypeOK /\ \A i \in Jobs : JobKept(i)
    BY DEF OutcomeInv
  <1>2. UNCHANGED <<status, dbStatus, updates, res, results, cleanup, wfResults, complete>>
    BY DEF Create, CookAdvances, CookFallsSilent, jobVars, recordVars, workflowVars, cleanupVars
  <1>3. (\A i \in Jobs : EngineKept(i)') /\ FinalKept
    BY <1>2, EngineUnchanged DEF OutcomeInv, FinalKept
  <1>4. ASSUME NEW i \in Jobs PROVE JobKept(i)'
    <2>1. JobKept(i)
        BY <1>1
    <2>2. pc'[i] = pc[i] \/ (pc[i] = "idle" /\ pc'[i] = "created")
        BY <1>1 DEF Create, CookAdvances, CookFallsSilent, Goto, TypeOK, jobVars
    <2>3. QED
        BY <1>2, <2>1, <2>2 DEF JobKept, Early, Late
  <1>5. QED
    BY <1>3, <1>4 DEF Kept

(* A call of updateEngines does not touch the job, except that it may take *)
(* over the cleanup, which only an unclaimed one lets it do.               *)
LEMMA UpdateJobKept ==
    ASSUME OutcomeInv, NEW j \in Jobs, NEW s \in Statuses, UpdateStep(j, s)
    PROVE  FinalKept /\ \A i \in Jobs : JobKept(i)'
  <1>1. TypeOK /\ \A i \in Jobs : JobKept(i)
    BY DEF OutcomeInv
  <1>2. UNCHANGED <<pc, res, results, status, dbStatus>>
    BY DEF UpdateStep, ReadJobRun, ReadWorkflowStep, UpdateWorkflow, WriteWorkflowStep,
           JobCompleted, jobVars
  <1>3. cleanup' = cleanup \/ cleanup' = [cleanup EXCEPT ![j] = "byUpdate"]
    BY DEF UpdateStep, ReadJobRun, ReadWorkflowStep, UpdateWorkflow, WriteWorkflowStep,
           JobCompleted, StartCleanup, cleanupVars
  <1>4. \A i \in Jobs : cleanup'[i] = "byJob" => cleanup[i] = "byJob"
    BY <1>1, <1>3 DEF TypeOK
  <1>5. QED
    BY <1>1, <1>2, <1>4 DEF FinalKept, JobKept

(* The next stage of one call keeps what is known of all others, as long   *)
(* as the rows and results they rely on stay.                              *)
LEMMA AdvanceKept ==
    ASSUME TypeOK, NEW j \in Jobs, NEW s \in Statuses, NEW c \in Calls,
           Advance(j, s, c),
           \A i \in Jobs : EngineKept(i),
           UNCHANGED <<dbStatus, wfResults>>,
           c.run \in Terminal => c.run = dbStatus[j],
           c.at = "write" /\ c.run \in Terminal =>
               (wfResults[j] = "success" <=> c.run = "eDone")
    PROVE  \A i \in Jobs, t \in Statuses : CallKept(i, t)'
  <1> SUFFICES ASSUME NEW i \in Jobs, NEW t \in Statuses PROVE CallKept(i, t)'
    OBVIOUS
  <1>1. CallKept(i, t)
    BY DEF EngineKept
  <1>2. CASE i = j /\ t = s
    <2>1. updates'[i][t] = c
        BY <1>2 DEF Advance, TypeOK
    <2>2. QED
        BY <1>2, <2>1 DEF CallKept
  <1>3. CASE ~(i = j /\ t = s)
    <2>1. updates'[i][t] = updates[i][t]
        BY <1>3 DEF Advance, TypeOK
    <2>2. QED
        BY <1>1, <2>1 DEF CallKept
  <1>4. QED
    BY <1>2, <1>3

(* The call that ends jobUpdated holds no status.                          *)
LEMMA JobUpdatedKept ==
    ASSUME TypeOK, NEW j \in Jobs, NEW s \in Statuses, JobUpdated(j, s),
           \A i \in Jobs : EngineKept(i),
           UNCHANGED <<dbStatus, wfResults>>
    PROVE  \A i \in Jobs, t \in Statuses : CallKept(i, t)'
  <1> DEFINE c == IF s \in Terminal THEN Call("completed", "eUnitialized", "eUnitialized")
                  ELSE NoCall
  <1>1. c \in Calls
    BY CallType DEF NoCall, Stages, Statuses
  <1>2. c.run \notin Terminal
    BY DEF Call, NoCall, Terminal
  <1>3. Advance(j, s, c)
    BY DEF JobUpdated
  <1> HIDE DEF c
  <1>4. QED
    BY <1>1, <1>2, <1>3, AdvanceKept

(* Reading the two rows, and the end of the call.                          *)
LEMMA ReadKept ==
    ASSUME OutcomeInv, NEW j \in Jobs, NEW s \in Statuses,
           ReadJobRun(j, s) \/ ReadWorkflowStep(j, s) \/ JobCompleted(j, s)
    PROVE  \A i \in Jobs : EngineKept(i)'
  <1>1. TypeOK /\ \A i \in Jobs : EngineKept(i)
    BY DEF OutcomeInv
  <1>2. UNCHANGED <<dbStatus, wfResults, complete>>
    BY DEF ReadJobRun, ReadWorkflowStep, JobCompleted, workflowVars
  <1>3. \A i \in Jobs, t \in Statuses : CallKept(i, t)'
    <2>1. updates[j][s] \in Calls /\ CallKept(j, s)
        BY <1>1 DEF TypeOK, EngineKept
    <2>2. CASE JobUpdated(j, s)
        BY <1>1, <1>2, <2>2, JobUpdatedKept
    <2>3. CASE Advance(j, s, Call("readStep", dbStatus[j], "eUnitialized"))
      <3>1. Call("readStep", dbStatus[j], "eUnitialized") \in Calls
        BY <1>1, CallType DEF TypeOK, Stages, Statuses
      <3>2. /\ Call("readStep", dbStatus[j], "eUnitialized").run = dbStatus[j]
            /\ Call("readStep", dbStatus[j], "eUnitialized").at # "write"
        BY DEF Call
      <3>3. QED
        BY <1>1, <1>2, <2>3, <3>1, <3>2, AdvanceKept
    <2>4. CASE Advance(j, s, Call("apply", updates[j][s].run, stepState[j]))
      <3>1. updates[j][s].run \in Statuses /\ stepState[j] \in Statuses
        BY <1>1, <2>1 DEF Calls, TypeOK
      <3>2. Call("apply", updates[j][s].run, stepState[j]) \in Calls
        BY <3>1, CallType DEF Stages
      <3>3. /\ Call("apply", updates[j][s].run, stepState[j]).run = updates[j][s].run
            /\ Call("apply", updates[j][s].run, stepState[j]).at # "write"
        BY DEF Call
      <3>4. QED
        BY <1>1, <1>2, <2>1, <2>4, <3>2, <3>3, AdvanceKept DEF CallKept
    <2>5. CASE Advance(j, s, NoCall)
      <3>1. NoCall \in Calls
        BY CallType DEF NoCall, Stages, Statuses
      <3>2. NoCall.run \notin Terminal
        BY DEF NoCall, Call, Terminal
      <3>3. QED
        BY <1>1, <1>2, <2>5, <3>1, <3>2, AdvanceKept
    <2>6. QED
        BY <2>2, <2>3, <2>4, <2>5 DEF ReadJobRun, ReadWorkflowStep, JobCompleted
  <1>4. QED
    BY <1>1, <1>2, <1>3 DEF EngineKept

(* WorkflowJob.update changes the result of a workflow only to what the    *)
(* final row says, so it contradicts neither an earlier completion nor     *)
(* another call that is about to write.                                    *)
LEMMA UpdateWorkflowKept ==
    ASSUME OutcomeInv, NEW j \in Jobs, NEW s \in Statuses, UpdateWorkflow(j, s)
    PROVE  \A i \in Jobs : EngineKept(i)'
  <1>1. TypeOK /\ \A i \in Jobs : EngineKept(i)
    BY DEF OutcomeInv
  <1>2. UNCHANGED <<dbStatus, complete>>
    BY DEF UpdateWorkflow
  <1>3. updates[j][s] \in Calls /\ CallKept(j, s)
    BY <1>1 DEF TypeOK, EngineKept
  <1> DEFINE run == updates[j][s].run
  <1>4. CASE JobUpdated(j, s) /\ UNCHANGED wfResults
    <2>1. \A i \in Jobs, t \in Statuses : CallKept(i, t)'
        BY <1>1, <1>2, <1>4, JobUpdatedKept
    <2>2. QED
        BY <1>1, <1>2, <1>4, <2>1 DEF EngineKept
  <1>5. CASE /\ wfResults' = [wfResults EXCEPT ![j] = IF run \notin Terminal THEN @
                                 ELSE IF run = "eDone" THEN "success" ELSE "failure"]
             /\ JobUpdated(j, s) \/ Advance(j, s, Call("write", run, "eUnitialized"))
    <2>1. \A i \in Jobs : i # j => wfResults'[i] = wfResults[i]
        BY <1>1, <1>5 DEF TypeOK
    <2>2. run \notin Terminal => wfResults'[j] = wfResults[j]
        BY <1>1, <1>5 DEF TypeOK
    <2>3. run \in Terminal => /\ run = dbStatus[j]
                              /\ wfResults'[j] = "success" <=> run = "eDone"
        BY <1>1, <1>3, <1>5 DEF TypeOK, CallKept
    <2>4. PICK c \in Calls : /\ updates' = [updates EXCEPT ![j][s] = c]
                             /\ c.run \in {run, "eUnitialized"}
      <3>1. CASE JobUpdated(j, s)
        <4> DEFINE c == IF s \in Terminal
                        THEN Call("completed", "eUnitialized", "eUnitialized") ELSE NoCall
        <4>1. c \in Calls
            BY CallType DEF NoCall, Stages, Statuses
        <4>2. c.run = "eUnitialized"
            BY DEF Call, NoCall
        <4>3. updates' = [updates EXCEPT ![j][s] = c]
            BY <3>1 DEF JobUpdated, Advance
        <4> HIDE DEF c
        <4>4. QED
            BY <4>1, <4>2, <4>3
      <3>2. CASE Advance(j, s, Call("write", run, "eUnitialized"))
        <4>1. Call("write", run, "eUnitialized") \in Calls
            BY <1>3, CallType DEF Calls, Stages, Statuses
        <4>2. Call("write", run, "eUnitialized").run = run
            BY DEF Call
        <4>3. QED
            BY <3>2, <4>1, <4>2 DEF Advance
      <3>3. QED
        BY <1>5, <3>1, <3>2
    <2>5. ASSUME NEW i \in Jobs, NEW t \in Statuses PROVE CallKept(i, t)'
      <3>1. CallKept(i, t)
        BY <1>1 DEF EngineKept
      <3>2. CASE i # j
        <4>1. updates'[i][t] = updates[i][t]
            BY <1>1, <2>4, <3>2 DEF TypeOK
        <4>2. QED
            BY <1>2, <2>1, <3>1, <3>2, <4>1 DEF CallKept
      <3>3. CASE i = j
        <4>1. updates'[j][t] = IF t = s THEN c ELSE updates[j][t]
            BY <1>1, <2>4 DEF TypeOK
        <4>2. "eUnitialized" \notin Terminal
            BY DEF Terminal
        <4>3. CASE updates'[j][t] = c
            BY <1>2, <2>2, <2>3, <2>4, <3>3, <4>2, <4>3 DEF CallKept
        <4>4. CASE updates'[j][t] = updates[j][t]
            BY <1>2, <2>2, <2>3, <3>1, <3>3, <4>4 DEF CallKept
        <4>5. QED
            BY <4>1, <4>3, <4>4
      <3>4. QED
        BY <3>2, <3>3
    <2>6. ASSUME NEW i \in Jobs, i \in complete'
          PROVE  /\ dbStatus'[i] \in Terminal
                 /\ wfResults'[i] = "success" <=> dbStatus'[i] = "eDone"
      <3>1. /\ dbStatus[i] \in Terminal
            /\ wfResults[i] = "success" <=> dbStatus[i] = "eDone"
        BY <1>1, <1>2, <2>6 DEF EngineKept
      <3>2. QED
        BY <1>2, <2>1, <2>2, <2>3, <3>1
    <2>7. QED
        BY <2>5, <2>6 DEF EngineKept
  <1>6. QED
    BY <1>4, <1>5 DEF UpdateWorkflow

(* A workflow that completes was told what the final row says.             *)
LEMMA WriteStepKept ==
    ASSUME OutcomeInv, NEW j \in Jobs, NEW s \in Statuses, WriteWorkflowStep(j, s)
    PROVE  \A i \in Jobs : EngineKept(i)'
  <1>1. TypeOK /\ \A i \in Jobs : EngineKept(i)
    BY DEF OutcomeInv
  <1>2. UNCHANGED <<dbStatus, wfResults>> /\ JobUpdated(j, s)
    BY DEF WriteWorkflowStep
  <1>3. \A i \in Jobs, t \in Statuses : CallKept(i, t)'
    BY <1>1, <1>2, JobUpdatedKept
  <1>4. CallKept(j, s) /\ updates[j][s].at = "write"
    BY <1>1 DEF EngineKept, WriteWorkflowStep
  <1>5. complete' = complete \/ (complete' = complete \cup {j} /\ updates[j][s].run \in Terminal)
    BY DEF WriteWorkflowStep
  <1>6. ASSUME NEW i \in Jobs, i \in complete'
        PROVE  /\ dbStatus'[i] \in Terminal
               /\ wfResults'[i] = "success" <=> dbStatus'[i] = "eDone"
    <2>1. CASE i \in complete
        BY <1>1, <1>2, <2>1 DEF EngineKept
    <2>2. CASE i = j /\ updates[j][s].run \in Terminal
        BY <1>2, <1>4, <2>2 DEF CallKept
    <2>3. QED
        BY <1>5, <1>6, <2>1, <2>2
  <1>7. QED
    BY <1>3, <1>6 DEF EngineKept

-----------------------------------------------------------------------------
(* The invariant holds at the start: nothing is final yet.                 *)
LEMMA InitOutcome == Init => OutcomeInv
  <1> SUFFICES ASSUME Init PROVE OutcomeInv
    OBVIOUS
  <1>1. TypeOK
    BY InitType
  <1>2. ASSUME NEW j \in Jobs PROVE JobKept(j)
    BY DEF Init, JobKept, Early, Late, Terminal
  <1>3. ASSUME NEW j \in Jobs, NEW s \in Statuses PROVE CallKept(j, s)
    <2>1. updates[j][s].run = "eUnitialized"
        BY DEF Init, NoCall, Call
    <2>2. QED
        BY <2>1 DEF CallKept, Terminal
  <1>4. complete = {}
    BY DEF Init
  <1>5. QED
    BY <1>1, <1>2, <1>3, <1>4 DEF OutcomeInv, EngineKept

(* Every step keeps the invariant and every final row.                     *)
LEMMA OutcomeStep == OutcomeInv /\ [Next]_vars => OutcomeInv' /\ FinalKept
  <1> SUFFICES ASSUME OutcomeInv, [Next]_vars PROVE OutcomeInv' /\ FinalKept
    OBVIOUS
  <1>1. TypeOK'
    BY TypeStep DEF OutcomeInv
  <1>2. Kept
    <2>1. CASE UNCHANGED vars
      <3>1. UNCHANGED <<pc, res, results, status, dbStatus, updates, cleanup,
                        wfResults, complete>>
        BY <2>1 DEF vars, jobVars, recordVars, workflowVars, cleanupVars
      <3>2. \A i \in Jobs : EngineKept(i)'
        BY <3>1, EngineUnchanged DEF OutcomeInv
      <3>3. \A i \in Jobs : JobKept(i)'
        BY <3>1 DEF OutcomeInv, JobKept
      <3>4. FinalKept
        BY <3>1 DEF FinalKept
      <3>5. QED
        BY <3>2, <3>3, <3>4 DEF Kept
    <2>2. ASSUME NEW j \in Jobs, Create(j) \/ CookAdvances(j) \/ CookFallsSilent(j) PROVE Kept
        BY <2>2, OutsideKept
    <2>3. ASSUME NEW j \in Jobs, JobStep(j) PROVE Kept
      <3>1. CASE Execute(j) \/ PollPending(j)
        BY <3>1, PendingKept
      <3>2. CASE PollDone(j) \/ PollError(j) \/ PollCancelled(j)
        BY <3>2, PollEndKept
      <3>3. CASE Return(j)
        BY <3>3, ReturnKept
      <3>4. CASE \/ Acquire(j) \/ Post(j) \/ StageFiles(j) \/ Patch(j)
                 \/ RequestFails(j) \/ RequestStops(j)
                 \/ PollFails(j) \/ PollStops(j)
                 \/ SignalCompletion(j) \/ EndCleanup(j)
        <4>1. UNCHANGED <<recordVars, workflowVars>>
            BY <3>4 DEF Acquire, Post, StageFiles, Patch, RequestFails, RequestStops,
                        PollFails, CountFailure, PollAgain, Expire, PollStops, SignalCompletion, EndCleanup
        <4>2. QED
            BY <3>4, <4>1, QuietStepKept
      <3>5. QED
        BY <2>3, <3>1, <3>2, <3>3, <3>4 DEF JobStep
    <2>4. ASSUME NEW j \in Jobs, NEW s \in Statuses, UpdateStep(j, s) PROVE Kept
      <3>1. \A i \in Jobs : EngineKept(i)'
        BY <2>4, ReadKept, UpdateWorkflowKept, WriteStepKept DEF UpdateStep
      <3>2. QED
        BY <2>4, <3>1, UpdateJobKept DEF Kept
    <2>5. QED
        BY <2>1, <2>2, <2>3, <2>4 DEF Next
  <1>3. QED
    BY <1>1, <1>2 DEF OutcomeInv, Kept

(* A workflow that has completed tells whoever waits what the final JobRun *)
(* row says, in whatever order the un-awaited calls of updateEngines run.  *)
THEOREM OutcomeAgreesAlways == Spec => []OutcomeAgrees
  <1>1. OutcomeInv => OutcomeAgrees
    BY DEF OutcomeInv, EngineKept, OutcomeAgrees, TypeOK
  <1>2. QED
    BY <1>1, InitOutcome, OutcomeStep, PTL DEF Spec

(* A JobRun row that says done, error or cancelled is never written again, *)
(* for any retry counts, permits, reports of Cook and database failures.   *)
THEOREM FinalStatusKept == Spec => FinalStatusStays
  <1>1. OutcomeInv /\ [Next]_vars =>
            [\A j \in Jobs : dbStatus[j] \in Terminal => dbStatus'[j] = dbStatus[j]]_vars
    BY OutcomeStep DEF FinalKept
  <1>2. QED
    BY <1>1, InitOutcome, OutcomeStep, PTL DEF Spec, FinalStatusStays

-----------------------------------------------------------------------------
(* What is known of the cleanup of a scene's job: it has begun once or not *)
(* at all, only for a success, and before startJobWorker returns one.      *)
CleanupKept(j) ==
    /\ cleanups[j] = IF cleanup[j] = "none" THEN 0 ELSE 1
    /\ cleanup[j] # "none" => results[j] = "success"
    /\ pc[j] \in Late => (res[j] = "success" <=> results[j] = "success")
    /\ pc[j] \in {"cleanup", "returning", "ended"} /\ results[j] = "success"
           => cleanup[j] # "none"

CleanupInv == \A j \in Scenes : CleanupKept(j)

(* The jobs a step does not concern keep theirs.                           *)
LEMMA CleanupUnchanged ==
    ASSUME NEW i \in Scenes, CleanupKept(i),
           pc'[i] = pc[i], res'[i] = res[i], results'[i] = results[i],
           cleanup'[i] = cleanup[i], cleanups'[i] = cleanups[i]
    PROVE  CleanupKept(i)'
    BY DEF CleanupKept

(* Until polling ends no success is reported, and nothing is cleaned up.   *)
LEMMA EarlyCleanup ==
    ASSUME OutcomeInv, NEW j \in Scenes, CleanupKept(j), pc[j] \in Early
    PROVE  results[j] # "success" /\ cleanup[j] = "none" /\ cleanups[j] = 0
  <1>1. JobKept(j)
    BY ConstantsAssumption DEF OutcomeInv
  <1>2. QED
    BY <1>1 DEF JobKept, CleanupKept

(* A step of executeJob up to the end of polling.                          *)
LEMMA EarlyStepCleanup ==
    ASSUME OutcomeInv, CleanupInv, NEW j \in Jobs,
           \/ Create(j) \/ CookAdvances(j) \/ CookFallsSilent(j) \/ Execute(j)
           \/ Acquire(j) \/ Post(j)
           \/ StageFiles(j) \/ Patch(j) \/ RequestFails(j) \/ RequestStops(j)
           \/ PollPending(j) \/ PollDone(j) \/ PollError(j) \/ PollCancelled(j)
           \/ PollFails(j) \/ PollStops(j)
    PROVE  CleanupInv'
  <1> USE DEF Goto, jobVars, cleanupVars
  <1>1. /\ pc \in [Jobs -> PCs] /\ res \in [Jobs -> Results] /\ results \in [Jobs -> Results]
        /\ JobKept(j) /\ Scenes \subseteq Jobs
    BY ConstantsAssumption DEF OutcomeInv, TypeOK
  <1>2. UNCHANGED <<cleanup, cleanups>>
    BY DEF Create, CookAdvances, CookFallsSilent, Execute, Acquire, Post, StageFiles, Patch, RequestFails,
           RequestStops, PollPending, PollDone, PollError, PollCancelled, EndPolling,
           PollFails, CountFailure, PollAgain, Expire, PollStops
  <1>3. \A i \in Jobs : i # j => /\ pc'[i] = pc[i] /\ res'[i] = res[i]
                                 /\ results'[i] = results[i]
    BY <1>1 DEF Create, CookAdvances, CookFallsSilent, Execute, Acquire, Post, StageFiles, Patch, RequestFails,
           RequestStops, PollPending, PollDone, PollError, PollCancelled, EndPolling,
           PollFails, CountFailure, PollAgain, Expire, PollStops
  <1>4. pc[j] \in Early
    BY DEF Create, CookAdvances, CookFallsSilent, Execute, Acquire, Post, StageFiles, Patch, RequestFails,
           RequestStops, PollPending, PollDone, PollError, PollCancelled,
           PollFails, CountFailure, PollAgain, Expire, PollStops, Early
  <1>5. results[j] # "success" /\ status[j] \notin Terminal
    BY <1>1, <1>4 DEF JobKept
  <1>6. /\ pc'[j] \in Early \cup {"signal"}
        /\ pc'[j] = "signal" => (res'[j] = "success" <=> results'[j] = "success")
        /\ pc'[j] # "signal" => results'[j] = results[j]
    <2>1. CASE \/ Create(j) \/ CookAdvances(j) \/ CookFallsSilent(j) \/ Execute(j)
           \/ Acquire(j) \/ Post(j)
               \/ Patch(j)
      BY <1>1, <1>4, <2>1 DEF Create, CookAdvances, CookFallsSilent, Execute, Acquire, Post,
             Patch, Early
    <2>2. CASE StageFiles(j) \/ RequestFails(j) \/ RequestStops(j)
      BY <1>1, <1>4, <1>5, <2>2 DEF StageFiles, RequestFails, RequestStops, Early
    <2>3. CASE PollPending(j) \/ PollFails(j) \/ PollStops(j)
      BY <1>1, <1>4, <1>5, <2>3 DEF PollPending, PollFails, CountFailure, PollAgain, Expire, PollStops, Early
    <2>4. CASE PollDone(j) \/ PollError(j) \/ PollCancelled(j)
      <3>1. PICK updated \in BOOLEAN, r \in {"success", "failure"} : EndPolling(j, updated, r)
        BY <2>4 DEF PollDone, PollError, PollCancelled
      <3>2. QED
        BY <1>1, <3>1 DEF EndPolling
    <2>5. QED
      BY <2>1, <2>2, <2>3, <2>4
  <1>7. ASSUME NEW i \in Scenes PROVE CleanupKept(i)'
    <2>1. CASE i # j
      BY <1>1, <1>2, <1>3, <2>1, CleanupUnchanged DEF CleanupInv
    <2>2. CASE i = j
      <3>1. CleanupKept(j) /\ cleanup[j] = "none" /\ cleanups[j] = 0
        BY <1>4, <2>2, EarlyCleanup DEF CleanupInv
      <3>2. QED
        BY <1>2, <1>6, <2>2, <3>1 DEF CleanupKept, Early, Late
    <2>3. QED
      BY <2>1, <2>2
  <1>8. QED
    BY <1>7 DEF CleanupInv

(* The claim of the cleanup, from either side.                             *)
LEMMA ClaimCleanup ==
    ASSUME OutcomeInv, CleanupInv, NEW j \in Jobs,
           SignalCompletion(j) \/ \E s \in Statuses : UpdateStep(j, s)
    PROVE  CleanupInv'
  <1>1. /\ pc \in [Jobs -> PCs] /\ Scenes \subseteq Jobs
        /\ cleanup \in [Jobs -> {"none", "byJob", "byUpdate", "done"}]
        /\ cleanups \in [Jobs -> Nat]
    BY ConstantsAssumption DEF OutcomeInv, TypeOK
  <1>2. UNCHANGED <<res, results>>
    BY DEF SignalCompletion, UpdateStep, ReadJobRun, ReadWorkflowStep, UpdateWorkflow,
           WriteWorkflowStep, JobCompleted, jobVars
  <1>3. /\ \/ CleanupDue(j) /\ \E caller \in {"byJob", "byUpdate"} : StartCleanup(j, caller)
           \/ UNCHANGED cleanupVars
        /\ pc' # pc /\ ~ CleanupDue(j) => UNCHANGED cleanupVars
        /\ pc' # pc /\ CleanupDue(j)
               => \E caller \in {"byJob", "byUpdate"} : StartCleanup(j, caller)
    BY DEF SignalCompletion, UpdateStep, ReadJobRun, ReadWorkflowStep, UpdateWorkflow,
           WriteWorkflowStep, JobCompleted, jobVars
  <1>4. \/ pc' = pc
        \/ /\ pc[j] = "signal"
           /\ \E l \in {"cleanup", "returning"} : pc' = [pc EXCEPT ![j] = l]
    BY DEF SignalCompletion, Goto, UpdateStep, ReadJobRun, ReadWorkflowStep, UpdateWorkflow,
           WriteWorkflowStep, JobCompleted, jobVars
  <1>5. ASSUME NEW i \in Scenes PROVE CleanupKept(i)'
    <2>1. i \in Jobs /\ CleanupKept(i)
      BY <1>1 DEF CleanupInv
    <2>2. CASE i # j
      <3>1. pc'[i] = pc[i] /\ cleanup'[i] = cleanup[i] /\ cleanups'[i] = cleanups[i]
        BY <1>1, <1>3, <1>4, <2>1, <2>2 DEF StartCleanup, cleanupVars
      <3>2. QED
        BY <1>2, <2>1, <3>1, CleanupUnchanged
    <2>3. CASE i = j
      <3>1. \/ pc'[j] = pc[j]
            \/ pc[j] = "signal" /\ pc'[j] \in {"cleanup", "returning"}
        BY <1>1, <1>4
      <3>2. CASE CleanupDue(j) /\ \E caller \in {"byJob", "byUpdate"} : StartCleanup(j, caller)
        <4>1. /\ results[j] = "success" /\ cleanup[j] = "none"
              /\ cleanup'[j] \in {"byJob", "byUpdate"} /\ cleanups'[j] = cleanups[j] + 1
          BY <1>1, <3>2 DEF CleanupDue, StartCleanup
        <4>2. cleanups'[j] = 1
          BY <2>1, <2>3, <4>1 DEF CleanupKept
        <4>3. QED
          BY <1>2, <2>1, <2>3, <3>1, <4>1, <4>2 DEF CleanupKept, Late
      <3>3. CASE UNCHANGED cleanupVars
        <4>1. cleanup'[j] = cleanup[j] /\ cleanups'[j] = cleanups[j]
          BY <3>3 DEF cleanupVars
        <4>2. CASE pc'[j] = pc[j]
          BY <1>2, <2>1, <2>3, <4>1, <4>2, CleanupUnchanged
        <4>3. CASE pc[j] = "signal" /\ pc'[j] \in {"cleanup", "returning"}
          <5>1. ~ CleanupDue(j)
            BY <1>1, <1>3, <3>3, <4>3 DEF CleanupDue, StartCleanup, cleanupVars
          <5>2. results[j] = "success" => cleanup[j] # "none"
            BY <2>3, <5>1 DEF CleanupDue
          <5>3. QED
            BY <1>2, <2>1, <2>3, <4>1, <4>3, <5>2 DEF CleanupKept, Late
        <4>4. QED
          BY <3>1, <4>2, <4>3
      <3>4. QED
        BY <1>3, <3>2, <3>3
    <2>4. QED
      BY <2>2, <2>3
  <1>6. QED
    BY <1>5 DEF CleanupInv

(* The end of the cleanup, and the return to executeJob.                   *)
LEMMA LateCleanup ==
    ASSUME OutcomeInv, CleanupInv, NEW j \in Jobs, EndCleanup(j) \/ Return(j)
    PROVE  CleanupInv'
  <1>1. /\ pc \in [Jobs -> PCs] /\ results \in [Jobs -> Results] /\ Scenes \subseteq Jobs
        /\ cleanup \in [Jobs -> {"none", "byJob", "byUpdate", "done"}] /\ JobKept(j)
    BY ConstantsAssumption DEF OutcomeInv, TypeOK
  <1>2. UNCHANGED <<res, cleanups>>
    BY DEF EndCleanup, Return, cleanupVars
  <1>3. ASSUME NEW i \in Scenes PROVE CleanupKept(i)'
    <2>1. i \in Jobs /\ CleanupKept(i)
      BY <1>1 DEF CleanupInv
    <2>2. CASE i # j
      <3>1. pc'[i] = pc[i] /\ results'[i] = results[i] /\ cleanup'[i] = cleanup[i]
        BY <1>1, <2>1, <2>2 DEF EndCleanup, Return, Goto, cleanupVars
      <3>2. QED
        BY <1>2, <2>1, <3>1, CleanupUnchanged
    <2>3. CASE i = j /\ EndCleanup(j)
      <3>1. /\ cleanup[j] # "none" /\ cleanup'[j] = "done" /\ results'[j] = results[j]
            /\ pc'[j] = pc[j] \/ (pc[j] = "cleanup" /\ pc'[j] = "returning")
        BY <1>1, <2>3 DEF EndCleanup, Goto, JobKept
      <3>2. QED
        BY <1>2, <2>1, <2>3, <3>1 DEF CleanupKept, Late
    <2>4. CASE i = j /\ Return(j)
      <3>1. /\ pc[j] = "returning" /\ pc'[j] \in {"queued", "ended"}
            /\ cleanup'[j] = cleanup[j]
            /\ results'[j] = "success" <=> res[j] = "success"
        BY <1>1, <2>4 DEF Return, Goto, cleanupVars
      <3>2. QED
        BY <1>2, <2>1, <2>4, <3>1 DEF CleanupKept, Late
    <2>5. QED
      BY <2>2, <2>3, <2>4
  <1>4. QED
    BY <1>3 DEF CleanupInv

LEMMA InitCleanup == Init => CleanupInv
  BY ConstantsAssumption DEF Init, CleanupInv, CleanupKept, Late

LEMMA CleanupStep == OutcomeInv /\ CleanupInv /\ [Next]_vars => CleanupInv'
  <1> SUFFICES ASSUME OutcomeInv, CleanupInv, [Next]_vars PROVE CleanupInv'
    OBVIOUS
  <1>1. CASE UNCHANGED vars
    BY <1>1 DEF CleanupInv, CleanupKept, vars, jobVars, cleanupVars
  <1>2. ASSUME NEW j \in Jobs, Create(j) \/ CookAdvances(j) \/ CookFallsSilent(j) PROVE CleanupInv'
    BY <1>2, EarlyStepCleanup
  <1>3. ASSUME NEW j \in Jobs, JobStep(j) PROVE CleanupInv'
    BY <1>3, EarlyStepCleanup, ClaimCleanup, LateCleanup DEF JobStep
  <1>4. ASSUME NEW j \in Jobs, NEW s \in Statuses, UpdateStep(j, s) PROVE CleanupInv'
    BY <1>4, ClaimCleanup
  <1>5. QED
    BY <1>1, <1>2, <1>3, <1>4 DEF Next

(* The objects of a finished scene are created once, whichever of the      *)
(* callers of cleanupJob comes first: by signalCompletion, inside the      *)
(* semaphore, or by updateEngines, which nobody awaits.                    *)
THEOREM CleanedUpOnceAlways == Spec => []CleanedUpOnce
  <1>1. CleanupInv => CleanedUpOnce
    BY DEF CleanupInv, CleanupKept, CleanedUpOnce
  <1>2. Init => OutcomeInv /\ CleanupInv
    BY InitOutcome, InitCleanup
  <1>3. (OutcomeInv /\ CleanupInv) /\ [Next]_vars => (OutcomeInv /\ CleanupInv)'
    BY OutcomeStep, CleanupStep
  <1>4. QED
    BY <1>1, <1>2, <1>3, PTL DEF Spec

=============================================================================
