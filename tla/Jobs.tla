-------------------------------- MODULE Jobs --------------------------------
(***************************************************************************)
(* The detection jobs of the agent: agent/core/job.go, with the callbacks  *)
(* of agent/core/callback.go it makes.                                     *)
(*                                                                         *)
(* One goroutine, WatchJob, polls the center for the plan to run and keeps *)
(* the map RunJobs up to date.  Every new plan gets a DetectionJob object  *)
(* and two goroutines, both started by schedulingJob(planID):              *)
(*   "main"  loads the classes, dumps coverage, tells the center that the  *)
(*           plan is ready and keeps dumping until its job is cancelled;   *)
(*   "mon"   watches the job: it reports an ending plan, cancels a         *)
(*           finished one and removes a cancelled one.                     *)
(* Both look their job up by plan in RunJobs again and again, so that what *)
(* they work on may not be the object they were started for.  Job objects  *)
(* are therefore modelled as heap objects with an identity: an element of  *)
(* Job stands for an address, and it is allocated again only when nothing  *)
(* refers to it any more.                                                  *)
(*                                                                         *)
(* A step of the model is what a goroutine does between two points at      *)
(* which another goroutine can observe or change what it relies on; the    *)
(* gap between reading RunJobs and storing the pointer back is such a      *)
(* point.  Sleeps and timers are not timed: a sleeping goroutine is one    *)
(* whose next step has not been taken yet.                                 *)
(***************************************************************************)
EXTENDS Naturals, FiniteSets

CONSTANTS
    Plan,          \* plan IDs of the center
    Job,           \* addresses of DetectionJob objects; bounds how many exist at once
    NoJob,         \* GetJob found nothing
    NoPlan,        \* the center has no plan for this project
    MergeEvery,    \* dumps between two merges of a running job (10 in the code)
    MaxCrash,      \* bound on the restarts of the agent process
    Faults         \* what may fail: a "callback" to the center, a "command", a "file"

ASSUME JobsAssumption ==
    /\ NoJob \notin Job
    /\ NoPlan \notin Plan
    /\ MergeEvery \in Nat \ {0}
    /\ MaxCrash \in Nat
    /\ Faults \subseteq {"callback", "command", "file"}

-----------------------------------------------------------------------------
(* Types *)

\* CodeCoverageExecStatus, as the center and DetectionJob.Status know it
ExecStatus == {"running", "ready", "ending", "cancel", "success", "fail"}

\* the statuses on which the monitor stops watching a job
Finished == {"fail", "success", "cancel"}

\* DetectionJob.JobStatus; "none" is the empty string it starts with
JobStatuses == {"none", "running", "ready", "fail"}

Role == {"main", "mon"}

\* a goroutine is identified by its role and the job it was started for
Proc == Role \X Job

\* Labels at which a goroutine waits for a DumpLock, and the label it
\* continues at once it holds it.  Suffix 1: the first dump of main, N: a
\* later one, R: within report; "lockWait": report's own critical section.
Locks == [dumpWait1 |-> "dump1", dumpWaitN |-> "dumpN", mergeWaitN |-> "mergeN",
          dumpWaitR |-> "dumpR", mergeWaitR |-> "mergeR", lockWait |-> "locked"]

Waiting == DOMAIN Locks

Holding == {"dump1", "dumpN", "mergeN", "dumpR", "mergeR", "locked"}

\* the steps of callbackEndWithMessage
Failing == {"fail", "store", "post"}

Label == Waiting \cup Holding \cup Failing \cup
         {"done",
          "start", "load", "ready", "getReady", "setReady", "loop",
          "check", "report", "xml", "html", "cleanup", "delete"}

VARIABLES
    RunJobs,    \* sync.Map: plan -> *DetectionJob
    PlanID,     \* per job object: the plan it was made for
    Status,     \* per job object: the status last seen at the center, or "fail"
    JobStatus,  \* per job object: what schedulingJob made of it
    ctxDone,    \* the job objects whose context is cancelled, or that are unused
    DumpLock,   \* per job object: the set of goroutines holding its mutex
    pc,         \* per goroutine: where it is
    job,        \* per goroutine: the pointer held by schedulingJob or report
    inner,      \* per goroutine: the pointer held by the function it called
    loopTimes,  \* per main goroutine: dumps since the last merge
    watch,      \* WatchJob: where it is, the answer of status(), its pointer
    dir,        \* plans whose directory exists under the work dir (persistent)
    srv,        \* the center: status of each plan, "none" before it is started
    cur,        \* the center: the plan status() answers with
    crashes,    \* restarts so far
    stale       \* history: plans for which SetJob stored a pointer the map no longer held

jobVars   == <<PlanID, Status, JobStatus, ctxDone>>
goVars    == <<pc, job, inner, loopTimes>>
agentVars == <<RunJobs, jobVars, DumpLock, goVars, watch, stale>>
srvVars   == <<srv, cur>>
vars      == <<agentVars, dir, srvVars, crashes>>

TypeOK ==
    /\ RunJobs \in [Plan -> Job \cup {NoJob}]
    /\ PlanID \in [Job -> Plan \cup {NoPlan}]
    /\ Status \in [Job -> ExecStatus]
    /\ JobStatus \in [Job -> JobStatuses]
    /\ ctxDone \in SUBSET Job
    /\ DumpLock \in [Job -> SUBSET Proc]
    /\ pc \in [Proc -> Label]
    /\ job \in [Proc -> Job \cup {NoJob}]
    /\ inner \in [Proc -> Job \cup {NoJob}]
    /\ loopTimes \in [Job -> 1..MergeEvery]
    /\ watch \in [at: {"poll", "save", "create", "update"},
                  plan: Plan \cup {NoPlan}, status: ExecStatus, job: Job \cup {NoJob}]
    /\ dir \in SUBSET Plan
    /\ srv \in [Plan -> ExecStatus \cup {"none"}]
    /\ cur \in Plan \cup {NoPlan}
    /\ crashes \in 0..MaxCrash
    /\ stale \in SUBSET Plan

-----------------------------------------------------------------------------
(* Initial state: an agent that has just started, with an empty work dir. *)

Idle == [at |-> "poll", plan |-> NoPlan, status |-> "running", job |-> NoJob]

Init ==
    /\ RunJobs = [p \in Plan |-> NoJob]
    /\ PlanID = [j \in Job |-> NoPlan]
    /\ Status = [j \in Job |-> "running"]
    /\ JobStatus = [j \in Job |-> "none"]
    /\ ctxDone = Job
    /\ DumpLock = [j \in Job |-> {}]
    /\ pc = [g \in Proc |-> "done"]
    /\ job = [g \in Proc |-> NoJob]
    /\ inner = [g \in Proc |-> NoJob]
    /\ loopTimes = [j \in Job |-> 1]
    /\ watch = Idle
    /\ stale = {}
    /\ dir = {}
    /\ srv = [p \in Plan |-> "none"]
    /\ cur = NoPlan
    /\ crashes = 0

-----------------------------------------------------------------------------
(* Helpers *)

GetJob(p) == RunJobs[p]

\* RunJobs.Store.  The history variable records a store of a pointer that the
\* map no longer holds for the plan: the job was deleted or replaced after
\* the caller read it.
SetJob(p, j) ==
    /\ RunJobs' = [RunJobs EXCEPT ![p] = j]
    /\ stale' = IF RunJobs[p] = j THEN stale ELSE stale \cup {p}

Goto(r, j, label) == pc' = [pc EXCEPT ![<<r, j>>] = label]

\* The goroutine returns from schedulingJob (or from the monitor's closure).
Return(r, j) ==
    /\ pc' = [pc EXCEPT ![<<r, j>>] = "done"]
    /\ job' = [job EXCEPT ![<<r, j>>] = NoJob]
    /\ inner' = [inner EXCEPT ![<<r, j>>] = NoJob]

\* Enter dumpExec or mergeAllSvcExec: look the job up, then wait for its lock;
\* without a job the function returns at once and the caller goes on at next.
Enter(r, j, wait, next) ==
    LET o == GetJob(PlanID[j]) IN
    /\ inner' = [inner EXCEPT ![<<r, j>>] = o]
    /\ Goto(r, j, IF o = NoJob THEN next ELSE wait)

\* A POST to the center.  A 200 answer means that the center has recorded the
\* status; when the call fails the center may have recorded it or not.  The
\* center never leaves a finished status, and "ready" only follows "running".
Record(p, s) ==
    IF srv[p] \in Finished \/ (s = "ready" /\ srv[p] # "running")
    THEN srv
    ELSE [srv EXCEPT ![p] = s]

PostOK(p, s) == srv' = Record(p, s)

PostFails(p, s) == "callback" \in Faults /\ srv' \in {srv, Record(p, s)}

Post(p, s) == PostOK(p, s) \/ PostFails(p, s)

-----------------------------------------------------------------------------
(* WatchJob and saveJob *)

\* status(): an answer without an error and with a plan.  The other answers
\* only make WatchJob sleep and poll again.
Poll ==
    /\ watch.at = "poll"
    /\ cur # NoPlan
    /\ watch' = [watch EXCEPT !.at = "save", !.plan = cur, !.status = srv[cur]]
    /\ UNCHANGED <<RunJobs, jobVars, DumpLock, goVars, stale, dir, srvVars, crashes>>

\* Mutant of SaveNew: the jobs of other plans are left running.
SaveNewKeepsOthers ==
    /\ watch.at = "save"
    /\ GetJob(watch.plan) = NoJob
    /\ watch' = [watch EXCEPT !.at = "create"]
    /\ UNCHANGED <<RunJobs, jobVars, DumpLock, goVars, stale, dir, srvVars, crashes>>

\* saveJob of a plan that is not in RunJobs cancels every job that is.
SaveNew ==
    /\ watch.at = "save"
    /\ GetJob(watch.plan) = NoJob
    /\ ctxDone' = ctxDone \cup {j \in Job : \E p \in Plan : RunJobs[p] = j}
    /\ watch' = [watch EXCEPT !.at = "create"]
    /\ UNCHANGED <<RunJobs, PlanID, Status, JobStatus, DumpLock, goVars, stale, dir, srvVars, crashes>>

\* Nothing refers to the object: the address can be allocated.
Unused(j) ==
    /\ \A r \in Role : pc[<<r, j>>] = "done"
    /\ \A p \in Plan : RunJobs[p] # j
    /\ \A g \in Proc : job[g] # j /\ inner[g] # j

\* ... then writes the maven settings, stores the new job and starts
\* schedulingJob for it.
Create(j) ==
    /\ watch.at = "create"
    /\ Unused(j)
    /\ PlanID' = [PlanID EXCEPT ![j] = watch.plan]
    /\ Status' = [Status EXCEPT ![j] = watch.status]
    /\ JobStatus' = [JobStatus EXCEPT ![j] =
                        IF watch.status \in {"running", "ready"} THEN "running" ELSE "none"]
    /\ ctxDone' = ctxDone \ {j}
    /\ DumpLock' = [DumpLock EXCEPT ![j] = {}]
    /\ RunJobs' = [RunJobs EXCEPT ![watch.plan] = j]
    /\ pc' = [pc EXCEPT ![<<"main", j>>] = "start", ![<<"mon", j>>] = "check"]
    /\ loopTimes' = [loopTimes EXCEPT ![j] = 1]
    /\ watch' = Idle
    /\ UNCHANGED <<job, inner, stale, dir, srvVars, crashes>>

\* The settings file cannot be created, opened or written: saveJob returns
\* without a job, after it has cancelled the others.
CreateAborts ==
    /\ watch.at = "create"
    /\ "file" \in Faults
    /\ watch' = Idle
    /\ UNCHANGED <<RunJobs, jobVars, DumpLock, goVars, stale, dir, srvVars, crashes>>

\* saveJob of a known plan: write the status into the object ...
SaveKnown ==
    /\ watch.at = "save"
    /\ GetJob(watch.plan) # NoJob
    /\ Status' = [Status EXCEPT ![GetJob(watch.plan)] = watch.status]
    /\ watch' = [watch EXCEPT !.at = "update", !.job = GetJob(watch.plan)]
    /\ UNCHANGED <<RunJobs, PlanID, JobStatus, ctxDone, DumpLock, goVars, stale, dir, srvVars, crashes>>

\* ... and store the pointer again.
Update ==
    /\ watch.at = "update"
    /\ SetJob(watch.plan, watch.job)
    /\ watch' = Idle
    /\ UNCHANGED <<jobVars, DumpLock, goVars, dir, srvVars, crashes>>

-----------------------------------------------------------------------------
(* dumpExec, mergeAllSvcExec and report's critical section: the DumpLock    *)

Acquire(r, j) ==
    /\ pc[<<r, j>>] \in Waiting
    /\ DumpLock[inner[<<r, j>>]] = {}
    /\ DumpLock' = [DumpLock EXCEPT ![inner[<<r, j>>]] = {<<r, j>>}]
    /\ Goto(r, j, Locks[pc[<<r, j>>]])
    /\ UNCHANGED <<RunJobs, jobVars, job, inner, loopTimes, watch, stale, dir, srvVars, crashes>>

\* the deferred Unlock; the caller decides where the goroutine continues
Unlock(r, j) == DumpLock' = [DumpLock EXCEPT ![inner[<<r, j>>]] = {}]

-----------------------------------------------------------------------------
(* callbackEndWithMessage, called by main and by the monitor *)

\* where the goroutine continues after callbackEndWithMessage
AfterFailing(r, j) ==
    IF r = "main" THEN Return(r, j)
    ELSE Goto(r, j, "check") /\ inner' = [inner EXCEPT ![<<r, j>>] = NoJob] /\ UNCHANGED job

\* Write the failure into the job found ...
FailJob(r, j) ==
    /\ pc[<<r, j>>] = "fail"
    /\ LET o == GetJob(PlanID[j]) IN
       IF o = NoJob
       THEN /\ AfterFailing(r, j)
            /\ UNCHANGED <<Status, JobStatus>>
       ELSE /\ Status' = [Status EXCEPT ![o] = "fail"]
            /\ JobStatus' = [JobStatus EXCEPT ![o] = "fail"]
            /\ inner' = [inner EXCEPT ![<<r, j>>] = o]
            /\ Goto(r, j, "store")
            /\ UNCHANGED job
    /\ UNCHANGED <<RunJobs, PlanID, ctxDone, DumpLock, loopTimes, watch, stale, dir, srvVars, crashes>>

\* Mutant of FailStore: the job is not cancelled.
FailStoreKeepsContext(r, j) ==
    /\ pc[<<r, j>>] = "store"
    /\ SetJob(PlanID[j], inner[<<r, j>>])
    /\ Goto(r, j, "post")
    /\ UNCHANGED <<jobVars, DumpLock, job, inner, loopTimes, watch, dir, srvVars, crashes>>

\* ... then cancel the job and store the pointer again.
FailStore(r, j) ==
    /\ pc[<<r, j>>] = "store"
    /\ ctxDone' = ctxDone \cup {inner[<<r, j>>]}
    /\ SetJob(PlanID[j], inner[<<r, j>>])
    /\ Goto(r, j, "post")
    /\ UNCHANGED <<PlanID, Status, JobStatus, DumpLock, job, inner, loopTimes, watch, dir, srvVars, crashes>>

\* callbackEnd(fail); a failure of the call is only logged.
FailPost(r, j) ==
    /\ pc[<<r, j>>] = "post"
    /\ Post(PlanID[j], "fail")
    /\ AfterFailing(r, j)
    /\ UNCHANGED <<RunJobs, jobVars, DumpLock, loopTimes, watch, stale, dir, cur, crashes>>

-----------------------------------------------------------------------------
(* main: schedulingJob after it has started the monitor *)

\* The job is gone, is not to be run, or its directory cannot be made.
StartReturns(j) ==
    /\ pc[<<"main", j>>] = "start"
    /\ \/ GetJob(PlanID[j]) = NoJob
       \/ GetJob(PlanID[j]) # NoJob /\ JobStatus[GetJob(PlanID[j])] # "running"
       \/ PlanID[j] \notin dir /\ "file" \in Faults
    /\ Return("main", j)
    /\ UNCHANGED <<RunJobs, jobVars, DumpLock, loopTimes, watch, stale, dir, srvVars, crashes>>

Start(j) ==
    /\ pc[<<"main", j>>] = "start"
    /\ GetJob(PlanID[j]) # NoJob
    /\ JobStatus[GetJob(PlanID[j])] = "running"
    /\ dir' = dir \cup {PlanID[j]}
    /\ Goto("main", j, "load")
    /\ UNCHANGED <<RunJobs, jobVars, DumpLock, job, inner, loopTimes, watch, stale, srvVars, crashes>>

\* loadClassSources succeeds and the first dumpExec begins.
LoadOK(j) ==
    /\ pc[<<"main", j>>] = "load"
    /\ Enter("main", j, "dumpWait1", "ready")
    /\ UNCHANGED <<RunJobs, jobVars, DumpLock, job, loopTimes, watch, stale, dir, srvVars, crashes>>

\* No service has a jar, or the extraction fails; in the latter case
\* loadClassSources has already told the center so.
LoadFails(j) ==
    /\ pc[<<"main", j>>] = "load"
    /\ "command" \in Faults
    /\ UNCHANGED srv \/ Post(PlanID[j], "fail")
    /\ Goto("main", j, "fail")
    /\ UNCHANGED <<RunJobs, jobVars, DumpLock, job, inner, loopTimes, watch, stale, dir, cur, crashes>>

\* Mutant of DumpEnds: the deferred Unlock is missing.
DumpEndsKeepsLock(r, j) ==
    /\ UNCHANGED DumpLock
    /\ dir' \in {dir, dir \cup {PlanID[j]}}

\* The end of a dumpExec.  While it held the lock it may have made the
\* directories of the services again (mkdir -p).
DumpEnds(r, j) ==
    /\ Unlock(r, j)
    /\ dir' \in {dir, dir \cup {PlanID[j]}}

FirstDumpEnds(j) ==
    /\ pc[<<"main", j>>] = "dump1"
    /\ DumpEnds("main", j)
    /\ Goto("main", j, "ready")
    /\ inner' = [inner EXCEPT ![<<"main", j>>] = NoJob]
    /\ UNCHANGED <<RunJobs, jobVars, job, loopTimes, watch, stale, srvVars, crashes>>

\* callbackReady makes no call when the job is gone or was already ready.
ReadyOK(j) ==
    LET o == GetJob(PlanID[j]) IN
    /\ pc[<<"main", j>>] = "ready"
    /\ IF o = NoJob \/ (o # NoJob /\ Status[o] = "ready")
       THEN UNCHANGED srv
       ELSE PostOK(PlanID[j], "ready")
    /\ Goto("main", j, "getReady")
    /\ UNCHANGED <<RunJobs, jobVars, DumpLock, job, inner, loopTimes, watch, stale, dir, cur, crashes>>

ReadyFails(j) ==
    LET o == GetJob(PlanID[j]) IN
    /\ pc[<<"main", j>>] = "ready"
    /\ o # NoJob
    /\ Status[o] # "ready"
    /\ PostFails(PlanID[j], "ready")
    /\ Goto("main", j, "fail")
    /\ UNCHANGED <<RunJobs, jobVars, DumpLock, job, inner, loopTimes, watch, stale, dir, cur, crashes>>

\* Look the job up again and mark it ready ...
GetReady(j) ==
    LET o == GetJob(PlanID[j]) IN
    /\ pc[<<"main", j>>] = "getReady"
    /\ IF o = NoJob
       THEN Return("main", j) /\ UNCHANGED JobStatus
       ELSE /\ JobStatus' = [JobStatus EXCEPT ![o] = "ready"]
            /\ job' = [job EXCEPT ![<<"main", j>>] = o]
            /\ Goto("main", j, "setReady")
            /\ UNCHANGED inner
    /\ UNCHANGED <<RunJobs, PlanID, Status, ctxDone, DumpLock, loopTimes, watch, stale, dir, srvVars, crashes>>

\* ... and store the pointer.
SetReady(j) ==
    /\ pc[<<"main", j>>] = "setReady"
    /\ SetJob(PlanID[j], job[<<"main", j>>])
    /\ Goto("main", j, "loop")
    /\ UNCHANGED <<jobVars, DumpLock, job, inner, loopTimes, watch, dir, srvVars, crashes>>

\* The dump loop: it ends with the context of the job it was marked ready in.
LoopReturns(j) ==
    /\ pc[<<"main", j>>] = "loop"
    /\ job[<<"main", j>>] \in ctxDone
    /\ Return("main", j)
    /\ UNCHANGED <<RunJobs, jobVars, DumpLock, loopTimes, watch, stale, dir, srvVars, crashes>>

\* Mutant of LoopCounts: the merge comes one dump late.
LoopCountsLate(j) ==
    IF loopTimes[j] > MergeEvery
    THEN /\ loopTimes' = [loopTimes EXCEPT ![j] = 1]
         /\ Enter("main", j, "mergeWaitN", "loop")
    ELSE /\ loopTimes' = [loopTimes EXCEPT ![j] = @ + 1]
         /\ inner' = [inner EXCEPT ![<<"main", j>>] = NoJob]
         /\ Goto("main", j, "loop")

\* After a dump, or after a dumpExec that found no job: loopTimes++, and every
\* MergeEvery-th time a mergeAllSvcExec.
LoopCounts(j) ==
    IF loopTimes[j] + 1 > MergeEvery
    THEN /\ loopTimes' = [loopTimes EXCEPT ![j] = 1]
         /\ Enter("main", j, "mergeWaitN", "loop")
    ELSE /\ loopTimes' = [loopTimes EXCEPT ![j] = @ + 1]
         /\ inner' = [inner EXCEPT ![<<"main", j>>] = NoJob]
         /\ Goto("main", j, "loop")

LoopDumps(j) ==
    /\ pc[<<"main", j>>] = "loop"
    /\ job[<<"main", j>>] \notin ctxDone
    /\ IF GetJob(PlanID[j]) = NoJob
       THEN LoopCounts(j)
       ELSE Enter("main", j, "dumpWaitN", "loop") /\ UNCHANGED loopTimes
    /\ UNCHANGED <<RunJobs, jobVars, DumpLock, job, watch, stale, dir, srvVars, crashes>>

LoopDumpEnds(j) ==
    /\ pc[<<"main", j>>] = "dumpN"
    /\ DumpEnds("main", j)
    /\ LoopCounts(j)
    /\ UNCHANGED <<RunJobs, jobVars, job, watch, stale, srvVars, crashes>>

LoopMergeEnds(j) ==
    /\ pc[<<"main", j>>] = "mergeN"
    /\ Unlock("main", j)
    /\ inner' = [inner EXCEPT ![<<"main", j>>] = NoJob]
    /\ Goto("main", j, "loop")
    /\ UNCHANGED <<RunJobs, jobVars, job, loopTimes, watch, stale, dir, srvVars, crashes>>

-----------------------------------------------------------------------------
(* mon: the goroutine schedulingJob starts first.  A round that does        *)
(* nothing but sleep is a stuttering step.  That its GetJob always finds a  *)
(* job is a result (MonitorHasJob below).                                   *)

\* Mutant of CheckCancelled: the monitor does not look at the context.
CheckCancelledAlways(j) ==
    /\ pc[<<"mon", j>>] = "check"
    /\ GetJob(PlanID[j]) # NoJob
    /\ Goto("mon", j, "cleanup")
    /\ UNCHANGED <<RunJobs, jobVars, DumpLock, job, inner, loopTimes, watch, stale, dir, srvVars, crashes>>

CheckCancelled(j) ==
    LET o == GetJob(PlanID[j]) IN
    /\ pc[<<"mon", j>>] = "check"
    /\ o # NoJob
    /\ o \in ctxDone
    /\ Goto("mon", j, "cleanup")
    /\ UNCHANGED <<RunJobs, jobVars, DumpLock, job, inner, loopTimes, watch, stale, dir, srvVars, crashes>>

\* The monitor returns: from a job that is finished, which it cancels, or from
\* none.
CheckFinished(j) ==
    LET o == GetJob(PlanID[j]) IN
    /\ pc[<<"mon", j>>] = "check"
    /\ o # NoJob => o \notin ctxDone /\ Status[o] \in Finished
    /\ ctxDone' = ctxDone \cup ({o} \ {NoJob})
    /\ Return("mon", j)
    /\ UNCHANGED <<RunJobs, PlanID, Status, JobStatus, DumpLock, loopTimes, watch, stale, dir, srvVars, crashes>>

\* Mutant of CheckEnding: the status is looked at before the context.
CheckEndingFirst(j) ==
    LET o == GetJob(PlanID[j]) IN
    /\ pc[<<"mon", j>>] = "check"
    /\ o # NoJob
    /\ Status[o] = "ending"
    /\ Goto("mon", j, "report")
    /\ UNCHANGED <<RunJobs, jobVars, DumpLock, job, inner, loopTimes, watch, stale, dir, srvVars, crashes>>

CheckEnding(j) ==
    LET o == GetJob(PlanID[j]) IN
    /\ pc[<<"mon", j>>] = "check"
    /\ o # NoJob
    /\ o \notin ctxDone
    /\ Status[o] = "ending"
    /\ Goto("mon", j, "report")
    /\ UNCHANGED <<RunJobs, jobVars, DumpLock, job, inner, loopTimes, watch, stale, dir, srvVars, crashes>>

\* report looks the job up again.  When it is still there and ending, report
\* keeps the pointer and calls dumpExec; otherwise it returns nil.
ReportStarts(j) ==
    LET o == GetJob(PlanID[j]) IN
    /\ pc[<<"mon", j>>] = "report"
    /\ IF o # NoJob /\ Status[o] = "ending"
       THEN /\ job' = [job EXCEPT ![<<"mon", j>>] = o]
            /\ inner' = [inner EXCEPT ![<<"mon", j>>] = o]
            /\ Goto("mon", j, "dumpWaitR")
       ELSE Goto("mon", j, "check") /\ UNCHANGED <<job, inner>>
    /\ UNCHANGED <<RunJobs, jobVars, DumpLock, loopTimes, watch, stale, dir, srvVars, crashes>>

\* dumpExec ends, mergeAllSvcExec begins with the job of the plan (MonitorHasJob).
ReportDumpEnds(j) ==
    /\ pc[<<"mon", j>>] = "dumpR"
    /\ DumpEnds("mon", j)
    /\ Goto("mon", j, "mergeWaitR")
    /\ inner' = [inner EXCEPT ![<<"mon", j>>] = GetJob(PlanID[j])]
    /\ UNCHANGED <<RunJobs, jobVars, job, loopTimes, watch, stale, srvVars, crashes>>

\* mergeAllSvcExec ends, report locks the job it looked up itself.
ReportMergeEnds(j) ==
    /\ pc[<<"mon", j>>] = "mergeR"
    /\ Unlock("mon", j)
    /\ inner' = [inner EXCEPT ![<<"mon", j>>] = job[<<"mon", j>>]]
    /\ Goto("mon", j, "lockWait")
    /\ UNCHANGED <<RunJobs, jobVars, job, loopTimes, watch, stale, dir, srvVars, crashes>>

\* The project file is merged and the lock released.
ReportMerged(j) ==
    /\ pc[<<"mon", j>>] = "locked"
    /\ Unlock("mon", j)
    /\ inner' = [inner EXCEPT ![<<"mon", j>>] = NoJob]
    /\ Goto("mon", j, "xml")
    /\ UNCHANGED <<RunJobs, jobVars, job, loopTimes, watch, stale, dir, srvVars, crashes>>

\* No service file was found, or the project file cannot be made or merged:
\* report returns the error while it still holds the lock.
ReportMergeFails(j) ==
    /\ pc[<<"mon", j>>] = "locked"
    /\ "command" \in Faults
    /\ inner' = [inner EXCEPT ![<<"mon", j>>] = NoJob]
    /\ Goto("mon", j, "fail")
    /\ UNCHANGED <<RunJobs, jobVars, DumpLock, job, loopTimes, watch, stale, dir, srvVars, crashes>>

\* The XML report is made and callbackEnd(success) delivers it.
ReportXml(j) ==
    /\ pc[<<"mon", j>>] = "xml"
    /\ PostOK(PlanID[j], "success")
    /\ Goto("mon", j, "html")
    /\ UNCHANGED <<RunJobs, jobVars, DumpLock, job, inner, loopTimes, watch, stale, dir, cur, crashes>>

ReportXmlFails(j) ==
    /\ pc[<<"mon", j>>] = "xml"
    /\ \/ "command" \in Faults /\ UNCHANGED srv
       \/ PostFails(PlanID[j], "success")
    /\ Goto("mon", j, "fail")
    /\ UNCHANGED <<RunJobs, jobVars, DumpLock, job, inner, loopTimes, watch, stale, dir, cur, crashes>>

\* The HTML report, delivered by callbackReport to a plan already reported.
ReportHtml(j) ==
    /\ pc[<<"mon", j>>] = "html"
    /\ job' = [job EXCEPT ![<<"mon", j>>] = NoJob]
    /\ Goto("mon", j, "check")
    /\ UNCHANGED <<RunJobs, jobVars, DumpLock, inner, loopTimes, watch, stale, dir, srvVars, crashes>>

ReportHtmlFails(j) ==
    /\ pc[<<"mon", j>>] = "html"
    /\ {"command", "callback"} \cap Faults # {}
    /\ Goto("mon", j, "fail")
    /\ UNCHANGED <<RunJobs, jobVars, DumpLock, job, inner, loopTimes, watch, stale, dir, srvVars, crashes>>

\* Mutant of Cleanup: DeleteJob comes before the removal of the directory.
CleanupDeletesFirst(j) ==
    /\ pc[<<"mon", j>>] = "cleanup"
    /\ RunJobs' = [RunJobs EXCEPT ![PlanID[j]] = NoJob]
    /\ Goto("mon", j, "delete")
    /\ UNCHANGED <<jobVars, DumpLock, job, inner, loopTimes, watch, stale, dir, srvVars, crashes>>

\* Five minutes after the cancellation: rm -rf of the plan's directory (an
\* error is only logged), then DeleteJob.
Cleanup(j) ==
    /\ pc[<<"mon", j>>] = "cleanup"
    /\ \/ dir' = dir \ {PlanID[j]}
       \/ "command" \in Faults /\ UNCHANGED dir
    /\ Goto("mon", j, "delete")
    /\ UNCHANGED <<RunJobs, jobVars, DumpLock, job, inner, loopTimes, watch, stale, srvVars, crashes>>

\* Mutant of DeleteJob: the return after it is missing.
DeleteJobContinues(j) ==
    /\ pc[<<"mon", j>>] = "delete"
    /\ RunJobs' = [RunJobs EXCEPT ![PlanID[j]] = NoJob]
    /\ Goto("mon", j, "check")
    /\ UNCHANGED <<jobVars, DumpLock, job, inner, loopTimes, watch, stale, dir, srvVars, crashes>>

DeleteJob(j) ==
    /\ pc[<<"mon", j>>] = "delete"
    /\ RunJobs' = [RunJobs EXCEPT ![PlanID[j]] = NoJob]
    /\ Return("mon", j)
    /\ UNCHANGED <<jobVars, DumpLock, loopTimes, watch, stale, dir, srvVars, crashes>>

-----------------------------------------------------------------------------
(* The environment: the users of the center, and the end of the process *)

UserStarts(p) ==
    /\ srv[p] = "none"
    /\ srv' = [srv EXCEPT ![p] = "running"]
    /\ cur' = p
    /\ UNCHANGED <<agentVars, dir, crashes>>

UserEnds(p) ==
    /\ srv[p] \in {"running", "ready"}
    /\ srv' = [srv EXCEPT ![p] = "ending"]
    /\ UNCHANGED <<agentVars, dir, cur, crashes>>

UserCancels(p) ==
    /\ srv[p] \in {"running", "ready", "ending"}
    /\ srv' = [srv EXCEPT ![p] = "cancel"]
    /\ UNCHANGED <<agentVars, dir, cur, crashes>>

\* The agent's pod is killed or panics and is started again: the maps and the
\* goroutines are gone (what freed job objects held does not matter), the work
\* dir is a persistent volume.
Crash ==
    /\ crashes < MaxCrash
    /\ crashes' = crashes + 1
    /\ RunJobs' = [p \in Plan |-> NoJob]
    /\ ctxDone' = Job
    /\ DumpLock' = [j \in Job |-> {}]
    /\ pc' = [g \in Proc |-> "done"]
    /\ job' = [g \in Proc |-> NoJob]
    /\ inner' = [g \in Proc |-> NoJob]
    /\ watch' = Idle
    /\ stale' = {}
    /\ UNCHANGED <<PlanID, Status, JobStatus, loopTimes, dir, srvVars>>

-----------------------------------------------------------------------------
(* The specification *)

CallbackEndWithMessage(r, j) ==
    FailJob(r, j) \/ FailStore(r, j) \/ FailPost(r, j)

MainStep(j) ==
    \/ Start(j) \/ StartReturns(j) \/ LoadOK(j) \/ LoadFails(j)
    \/ FirstDumpEnds(j) \/ ReadyOK(j) \/ ReadyFails(j) \/ GetReady(j) \/ SetReady(j)
    \/ LoopReturns(j) \/ LoopDumps(j) \/ LoopDumpEnds(j) \/ LoopMergeEnds(j)
    \/ CallbackEndWithMessage("main", j)

Report(j) ==
    \/ ReportStarts(j) \/ ReportDumpEnds(j) \/ ReportMergeEnds(j)
    \/ ReportMerged(j) \/ ReportMergeFails(j)
    \/ ReportXml(j) \/ ReportXmlFails(j)
    \/ ReportHtml(j) \/ ReportHtmlFails(j)

MonStep(j) ==
    \/ CheckCancelled(j) \/ CheckFinished(j) \/ CheckEnding(j)
    \/ Report(j)
    \/ Cleanup(j) \/ DeleteJob(j)
    \/ CallbackEndWithMessage("mon", j)

WatchStep == Poll \/ SaveNew \/ SaveKnown \/ Update \/ CreateAborts \/ \E j \in Job : Create(j)

Environment == Crash \/ \E p \in Plan : UserStarts(p) \/ UserEnds(p) \/ UserCancels(p)

Next ==
    \/ WatchStep
    \/ \E j \in Job : MainStep(j) \/ MonStep(j) \/ \E r \in Role : Acquire(r, j)
    \/ Environment

Spec == Init /\ [][Next]_vars

\* Every goroutine that can run does run, the commands it starts end, and a
\* waiting goroutine gets a mutex that is free again and again (Go's mutexes
\* hand over to the longest waiter).  The settings file can be written now and
\* then.  Nothing is assumed of the users and nothing of crashes.
Fairness ==
    /\ WF_vars(WatchStep)
    /\ SF_vars(\E j \in Job : Create(j))
    /\ \A j \in Job : WF_vars(MainStep(j)) /\ WF_vars(MonStep(j))
    /\ \A j \in Job, r \in Role : SF_vars(Acquire(r, j))

FairSpec == Spec /\ Fairness

-----------------------------------------------------------------------------
(* Properties.  The maps and the goroutines are tied together by "the job I *)
(* read is the job the map holds"; the code does not protect that, and once *)
(* a SetJob has brought back a job that was deleted (its plan is in stale)  *)
(* an unwatched job stays in RunJobs for good.  What is true of every plan, *)
(* and what only of a plan that has not become stale, is what the           *)
(* properties below tell apart.                                             *)

\* The monitor of j has not returned.
Monitored(j) == pc[<<"mon", j>>] # "done"

\* The job is not cancelled, and its plan is not stale.
Live(j) == j \notin ctxDone /\ PlanID[j] \notin stale

\* No plan is ever watched by two monitors: two of them would both report it
\* and remove each other's directory.  schedulingJob is started only for a
\* plan that saveJob did not find, and only the plan's own monitor removes it.
OneMonitor ==
    \A i, j \in Job :
        Monitored(i) /\ Monitored(j) /\ PlanID[i] = PlanID[j] => i = j

\* The GetJob of a monitor always finds a job, whatever stale stores happen:
\* the early returns of the monitor and of report for a missing job are dead
\* code, and a monitor never leaves a plan behind that nobody removes.
MonitorHasJob ==
    \A j \in Job : Monitored(j) => RunJobs[PlanID[j]] # NoJob

\* One plan runs at a time: at most one job is not cancelled.  saveJob
\* cancels every job it finds before it stores a new one, so that two plans
\* never reset each other's coverage counters with "dump --reset".
OneLiveJob ==
    \A i, j \in Job : Live(i) /\ Live(j) => i = j

\* A monitor that waits for a DumpLock waits for a goroutine that is going to
\* release it.  report returns with the lock held when the merge fails, so
\* this rests on the job being cancelled before the monitor looks at it again.
MonitorNotStuck ==
    \A j \in Job :
        pc[<<"mon", j>>] \in Waiting /\ PlanID[j] \notin stale =>
            \A g \in DumpLock[inner[<<"mon", j>>]] : pc[g] \in Holding

\* The directory of a plan is not removed while a job of the plan that has
\* not been cancelled collects coverage in it: the monitor removes directory
\* and job of a cancelled plan before saveJob can start the plan again.
LiveJobHasDir ==
    \A j \in Job :
        Live(j) /\ pc[<<"main", j>>] \notin {"start", "done"} => PlanID[j] \in dir

\* A plan that is to be prepared is reported ready or failed, and a plan that
\* is ending is reported, unless another plan takes over: after any
\* interleaving of poll, dump loop and monitor, and after a restart.
PlanProgresses ==
    \A p \in Plan, s \in {"running", "ending"} :
        (cur = p /\ srv[p] = s) ~> (srv[p] # s \/ cur # p \/ p \in stale)

\* The monitor of a cancelled job comes to its end, also when the
\* cancellation finds it in the middle of a report.
CancelledMonitorEnds ==
    \A j \in Job :
        (Monitored(j) /\ j \in ctxDone) ~> (~Monitored(j) \/ PlanID[j] \in stale)

=============================================================================
