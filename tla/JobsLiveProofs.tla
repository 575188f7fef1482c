-------------------------- MODULE JobsLiveProofs --------------------------
(***************************************************************************)
(* The third and fourth layers of the proofs about Jobs: one live job, its *)
(* directory, and the locks a monitor waits for.                           *)
(***************************************************************************)
EXTENDS JobsProofs

-----------------------------------------------------------------------------
(* The inductive invariant of the third layer *)

\* A job that is neither cancelled nor stale is the one in the map.
Registered ==
    \A j \in Job : Live(j) => PlanID[j] \in Plan /\ RunJobs[PlanID[j]] = j

\* When saveJob is about to create a job, there is none.
CreateAlone ==
    watch.at = "create" => \A j \in Job : ~Live(j)

\* Of a plan that is not stale the monitor finds the job it was started for,
\* and it removes the plan only after the cancellation of that job.
MonitorOwn ==
    \A j \in Job : Monitored(j) /\ PlanID[j] \notin stale =>
        /\ RunJobs[PlanID[j]] = j
        /\ pc[<<"mon", j>>] \in {"cleanup", "delete"} => j \in ctxDone

LiveInv == Registered /\ CreateAlone /\ MonitorOwn /\ OneLiveJob /\ LiveJobHasDir

-----------------------------------------------------------------------------
(* What a step of a goroutine changes *)

\* The steps of goroutine <<r, j>>.
GoStep(r, j) ==
    \/ r = "main" /\ MainStep(j)
    \/ r = "mon" /\ MonStep(j)
    \/ Acquire(r, j)

\* A goroutine changes its own label and its own pointers; a pointer it takes
\* up is one it had or the one the map holds for its plan.
OwnPointers(r, j) ==
    /\ PlanID' = PlanID
    /\ watch' = watch
    /\ pc[<<r, j>>] # "done"
    /\ \A g \in Proc \ {<<r, j>>} : pc'[g] = pc[g] /\ inner'[g] = inner[g] /\ job'[g] = job[g]
    /\ inner'[<<r, j>>] \in {inner[<<r, j>>], NoJob, RunJobs[PlanID[j]], job[<<r, j>>]}
    /\ job'[<<r, j>>] \in {job[<<r, j>>], NoJob, RunJobs[PlanID[j]]}
    /\ pc'[<<r, j>>] = "done" => inner'[<<r, j>>] = NoJob /\ job'[<<r, j>>] = NoJob

\* It changes the map for its own plan only, either by DeleteJob or by a SetJob;
\* and a SetJob that changes it makes the plan stale.
OwnPlan(r, j) ==
    /\ ctxDone \subseteq ctxDone'
    /\ stale \subseteq stale'
    /\ \A p \in Plan : RunJobs'[p] # RunJobs[p] =>
        /\ p = PlanID[j]
        /\ RunJobs'[p] \in {NoJob, inner[<<r, j>>], job[<<r, j>>]}
        /\ p \in stale' \/ (r = "mon" /\ DeleteJob(j))

LEMMA MainPointers ==
  ASSUME TypeInv, NEW j \in Job, MainStep(j)
  PROVE  OwnPointers("main", j)
<1> <<"main", j>> \in Proc
  BY DEF Proc, Role
<1> USE DEF TypeInv, TypeOK, OwnPointers, jobVars, goVars, Goto, Return, Enter, GetJob
<1>1. CASE Start(j) \/ StartReturns(j) \/ LoadOK(j) \/ LoadFails(j)
  BY <1>1 DEF Start, StartReturns, LoadOK, LoadFails
<1>2. CASE FirstDumpEnds(j) \/ ReadyOK(j) \/ ReadyFails(j) \/ SetReady(j)
  BY <1>2 DEF FirstDumpEnds, ReadyOK, ReadyFails, SetReady
<1>3. CASE GetReady(j)
  BY <1>3 DEF GetReady
<1>4. CASE LoopReturns(j) \/ LoopMergeEnds(j)
  BY <1>4 DEF LoopReturns, LoopMergeEnds
<1>5. CASE LoopDumps(j) \/ LoopDumpEnds(j)
  BY <1>5 DEF LoopDumps, LoopDumpEnds, LoopCounts
<1>6. CASE CallbackEndWithMessage("main", j)
  BY <1>6 DEF CallbackEndWithMessage, FailJob, FailStore, FailPost, AfterFailing
<1> QED
  BY <1>1, <1>2, <1>3, <1>4, <1>5, <1>6 DEF MainStep

LEMMA MonPointers ==
  ASSUME TypeInv, NEW j \in Job, MonStep(j)
  PROVE  OwnPointers("mon", j)
<1> <<"mon", j>> \in Proc
  BY DEF Proc, Role
<1> USE DEF TypeInv, TypeOK, OwnPointers, jobVars, goVars, Goto, Return, GetJob
<1>1. CASE CheckCancelled(j) \/ CheckFinished(j) \/ CheckEnding(j)
  BY <1>1 DEF CheckCancelled, CheckFinished, CheckEnding
<1>2. CASE Cleanup(j) \/ DeleteJob(j)
  BY <1>2 DEF Cleanup, DeleteJob
<1>3. CASE ReportStarts(j) \/ ReportDumpEnds(j) \/ ReportMergeEnds(j)
  BY <1>3 DEF ReportStarts, ReportDumpEnds, ReportMergeEnds
<1>4. CASE ReportMerged(j) \/ ReportMergeFails(j) \/ ReportXml(j) \/ ReportXmlFails(j)
           \/ ReportHtml(j) \/ ReportHtmlFails(j)
  BY <1>4 DEF ReportMerged, ReportMergeFails, ReportXml, ReportXmlFails, ReportHtml, ReportHtmlFails
<1>5. CASE CallbackEndWithMessage("mon", j)
  BY <1>5 DEF CallbackEndWithMessage, FailJob, FailStore, FailPost, AfterFailing
<1> QED
  BY <1>1, <1>2, <1>3, <1>4, <1>5 DEF MonStep, Report

LEMMA GoPointers ==
  ASSUME TypeInv, NEW r \in Role, NEW j \in Job, GoStep(r, j)
  PROVE  OwnPointers(r, j)
<1>1. CASE Acquire(r, j)
  BY <1>1, LocksHolding DEF Acquire, OwnPointers, Goto, TypeInv, TypeOK, jobVars, Proc, Holding
<1> QED
  BY <1>1, MainPointers, MonPointers DEF GoStep

LEMMA GoPlan ==
  ASSUME TypeInv, NEW r \in Role, NEW j \in Job, GoStep(r, j)
  PROVE  OwnPlan(r, j)
<1> USE DEF TypeInv, TypeOK, OwnPlan
<1>1. CASE FailStore(r, j)
  BY <1>1 DEF FailStore, SetJob
<1>2. CASE r = "main" /\ SetReady(j)
  BY <1>2 DEF SetReady, SetJob, jobVars
<1>3. CASE r = "mon" /\ DeleteJob(j)
  BY <1>3 DEF DeleteJob, jobVars
<1>4. CASE r = "main" /\ MainStep(j) /\ ~FailStore(r, j) /\ ~SetReady(j)
  BY <1>4
     DEF MainStep, Start, StartReturns, LoadOK, LoadFails, FirstDumpEnds, ReadyOK, ReadyFails,
         GetReady, LoopReturns, LoopDumps, LoopDumpEnds, LoopMergeEnds,
         CallbackEndWithMessage, FailJob, FailPost, jobVars
<1>5. CASE r = "mon" /\ MonStep(j) /\ ~FailStore(r, j) /\ ~DeleteJob(j)
  BY <1>5
     DEF MonStep, CheckCancelled, CheckFinished, CheckEnding, Cleanup, Report, ReportStarts,
         ReportDumpEnds, ReportMergeEnds, ReportMerged, ReportMergeFails, ReportXml,
         ReportXmlFails, ReportHtml, ReportHtmlFails, CallbackEndWithMessage, FailJob, FailPost,
         jobVars
<1>6. CASE Acquire(r, j)
  BY <1>6 DEF Acquire, jobVars
<1> QED
  BY <1>1, <1>2, <1>3, <1>4, <1>5, <1>6 DEF GoStep, MainStep, MonStep, CallbackEndWithMessage

\* Only Cleanup removes a directory.
LEMMA GoDir ==
  ASSUME NEW r \in Role, NEW j \in Job, GoStep(r, j)
  PROVE  \/ dir \subseteq dir'
         \/ r = "mon" /\ pc[<<"mon", j>>] = "cleanup" /\ dir \ {PlanID[j]} \subseteq dir'
<1>1. CASE r = "main" /\ MainStep(j)
  BY <1>1
     DEF MainStep, Start, StartReturns, LoadOK, LoadFails, FirstDumpEnds, ReadyOK, ReadyFails,
         GetReady, SetReady, LoopReturns, LoopDumps, LoopDumpEnds, LoopMergeEnds, DumpEnds,
         CallbackEndWithMessage, FailJob, FailStore, FailPost
<1>2. CASE r = "mon" /\ MonStep(j)
  BY <1>2
     DEF MonStep, CheckCancelled, CheckFinished, CheckEnding, Cleanup, DeleteJob, Report,
         ReportStarts, ReportDumpEnds, ReportMergeEnds, ReportMerged, ReportMergeFails, ReportXml,
         ReportXmlFails, ReportHtml, ReportHtmlFails, DumpEnds,
         CallbackEndWithMessage, FailJob, FailStore, FailPost
<1>3. CASE Acquire(r, j)
  BY <1>3 DEF Acquire
<1> QED
  BY <1>1, <1>2, <1>3 DEF GoStep

\* main comes past its start only with the directory made.
LEMMA MainStarted ==
  ASSUME TypeInv, NEW j \in Job, GoStep("main", j), pc[<<"main", j>>] = "start"
  PROVE  pc'[<<"main", j>>] = "done" \/ PlanID[j] \in dir'
<1> <<"main", j>> \in Proc
  BY DEF Proc, Role
<1>1. Start(j) \/ StartReturns(j)
  BY LocksHolding
     DEF GoStep, MainStep, Start, StartReturns, LoadOK, LoadFails, FirstDumpEnds, ReadyOK, ReadyFails,
         GetReady, SetReady, LoopReturns, LoopDumps, LoopDumpEnds, LoopMergeEnds,
         CallbackEndWithMessage, FailJob, FailStore, FailPost, Acquire
<1> QED
  BY <1>1 DEF Start, StartReturns, Return, TypeInv, TypeOK

\* The monitor begins to clean up only when it has seen the cancellation.
LEMMA MonCleans ==
  ASSUME TypeInv, NEW j \in Job, GoStep("mon", j), pc'[<<"mon", j>>] \in {"cleanup", "delete"}
  PROVE  CheckCancelled(j) \/ Cleanup(j)
<1> <<"mon", j>> \in Proc
  BY DEF Proc, Role
<1> USE DEF TypeInv, TypeOK, Goto, Return
<1>1. ~Acquire("mon", j)
  BY LocksHolding DEF Acquire, Holding
<1>2. ~CallbackEndWithMessage("mon", j)
  BY DEF CallbackEndWithMessage, FailJob, FailStore, FailPost, AfterFailing
<1>3. ~CheckFinished(j) /\ ~CheckEnding(j) /\ ~DeleteJob(j)
  BY DEF CheckFinished, CheckEnding, DeleteJob
<1>4. ~Report(j)
  BY DEF Report, ReportStarts, ReportDumpEnds, ReportMergeEnds, ReportMerged, ReportMergeFails,
         ReportXml, ReportXmlFails, ReportHtml, ReportHtmlFails
<1> QED
  BY <1>1, <1>2, <1>3, <1>4 DEF GoStep, MonStep

-----------------------------------------------------------------------------
(* Layer 3: the live job *)

LEMMA GoLiveInv ==
  ASSUME TypeInv, MonitorInv, LiveInv, NEW r \in Role, NEW j \in Job, GoStep(r, j)
  PROVE  LiveInv'
<1>1. OwnPointers(r, j) /\ OwnPlan(r, j)
  BY GoPointers, GoPlan
<1>2. \A i \in Job : Live(i)' => Live(i)
  BY <1>1 DEF Live, OwnPointers, OwnPlan
<1>3. \A i \in Job : Monitored(i)' => Monitored(i)
  BY <1>1 DEF Monitored, OwnPointers, Proc, Role
<1>4. \A i \in Job : Live(i)' => RunJobs'[PlanID[i]] = RunJobs[PlanID[i]]
  <2> SUFFICES ASSUME NEW i \in Job, Live(i)', RunJobs'[PlanID[i]] # RunJobs[PlanID[i]]
               PROVE  FALSE
    OBVIOUS
  <2>1. PlanID[i] \in Plan /\ RunJobs[PlanID[i]] = i /\ i \notin ctxDone
    BY <1>2 DEF LiveInv, Registered, Live
  <2>2. PlanID[i] = PlanID[j] /\ r = "mon" /\ DeleteJob(j) /\ PlanID[i] \notin stale
    BY <1>1, <2>1 DEF OwnPlan, OwnPointers, Live
  <2>3. RunJobs[PlanID[j]] = j /\ j \in ctxDone
    BY <2>2 DEF DeleteJob, LiveInv, MonitorOwn, Monitored
  <2> QED
    BY <2>1, <2>2, <2>3
<1>5. Registered'
  BY <1>1, <1>2, <1>4 DEF LiveInv, Registered, OwnPointers
<1>6. CreateAlone'
  BY <1>1, <1>2 DEF LiveInv, CreateAlone, OwnPointers
<1>7. OneLiveJob'
  BY <1>2 DEF LiveInv, OneLiveJob
<1>8. MonitorOwn'
  <2> SUFFICES ASSUME NEW i \in Job, Monitored(i)', PlanID'[i] \notin stale'
               PROVE  /\ RunJobs'[PlanID'[i]] = i
                      /\ pc'[<<"mon", i>>] \in {"cleanup", "delete"} => i \in ctxDone'
    BY DEF MonitorOwn
  <2>1. /\ Monitored(i)
        /\ PlanID'[i] = PlanID[i]
        /\ PlanID[i] \in Plan
        /\ RunJobs[PlanID[i]] = i
        /\ pc[<<"mon", i>>] \in {"cleanup", "delete"} => i \in ctxDone
    BY <1>1, <1>3 DEF OwnPointers, OwnPlan, LiveInv, MonitorOwn, Monitored, TypeInv, ProcHasPlan, Role
  <2>2. RunJobs'[PlanID[i]] = RunJobs[PlanID[i]]
    <3> SUFFICES ASSUME RunJobs'[PlanID[i]] # RunJobs[PlanID[i]]
                 PROVE  FALSE
      OBVIOUS
    <3>1. PlanID[i] = PlanID[j] /\ r = "mon" /\ DeleteJob(j)
      BY <1>1, <2>1 DEF OwnPlan
    <3>2. i = j
      BY <2>1, <3>1 DEF DeleteJob, Monitored, MonitorInv, OneMonitor
    <3> QED
      BY <3>1, <3>2 DEF DeleteJob, Return, Monitored, TypeInv, TypeOK, Proc, Role
  <2>3. ASSUME pc'[<<"mon", i>>] \in {"cleanup", "delete"}
        PROVE  i \in ctxDone'
    <3>1. CASE <<r, j>> = <<"mon", i>>
      <4>1. CheckCancelled(i) \/ Cleanup(i)
        BY <2>3, <3>1, MonCleans
      <4> QED
        BY <1>1, <2>1, <4>1 DEF CheckCancelled, Cleanup, GetJob, OwnPlan
    <3>2. CASE <<r, j>> # <<"mon", i>>
      BY <1>1, <2>1, <2>3, <3>2 DEF OwnPointers, OwnPlan, Proc, Role
    <3> QED
      BY <3>1, <3>2
  <2> QED
    BY <2>1, <2>2, <2>3
<1>9. LiveJobHasDir'
  <2> SUFFICES ASSUME NEW i \in Job, Live(i)', pc'[<<"main", i>>] \notin {"start", "done"}
               PROVE  PlanID[i] \in dir'
    BY <1>1 DEF LiveJobHasDir, OwnPointers
  <2>1. Live(i) /\ RunJobs[PlanID[i]] = i
    BY <1>2 DEF LiveInv, Registered
  <2>2. CASE pc[<<"main", i>>] = "start"
    <3>1. <<r, j>> = <<"main", i>>
      BY <1>1, <2>2 DEF OwnPointers, Proc, Role
    <3> QED
      BY <2>2, <3>1, MainStarted
  <2>3. CASE pc[<<"main", i>>] # "start"
    <3>1. PlanID[i] \in dir
      BY <1>1, <2>1, <2>3 DEF LiveInv, LiveJobHasDir, OwnPointers, Proc, Role
    <3>2. ASSUME r = "mon", pc[<<"mon", j>>] = "cleanup", PlanID[i] = PlanID[j]
          PROVE  FALSE
      BY <2>1, <3>2 DEF LiveInv, MonitorOwn, Monitored, Live
    <3> QED
      BY <3>1, <3>2, GoDir
  <2> QED
    BY <2>2, <2>3
<1> QED
  BY <1>5, <1>6, <1>7, <1>8, <1>9 DEF LiveInv

\* A step that moves no goroutine, keeps the directories and changes the map
\* only for a plan that gets stale.
LEMMA LiveFrame ==
  ASSUME TypeInv, LiveInv, PlanID' = PlanID, pc' = pc, dir' = dir,
         ctxDone \subseteq ctxDone', stale \subseteq stale',
         watch'.at = "create" => watch.at = "create",
         \A p \in Plan : p \notin stale' => RunJobs'[p] = RunJobs[p]
  PROVE  LiveInv'
<1>1. \A i \in Job : Live(i)' => Live(i)
  BY DEF Live
<1>2. Registered'
  BY <1>1 DEF LiveInv, Registered, Live
<1>3. MonitorOwn'
  BY DEF LiveInv, MonitorOwn, Monitored, TypeInv, ProcHasPlan, Role
<1> QED
  BY <1>1, <1>2, <1>3 DEF LiveInv, CreateAlone, OneLiveJob, LiveJobHasDir

LEMMA WatchLiveInv ==
  ASSUME TypeInv, MonitorInv, LiveInv, WatchStep
  PROVE  LiveInv'
<1>1. CASE Poll \/ SaveKnown \/ CreateAborts
  BY <1>1, LiveFrame DEF Poll, SaveKnown, CreateAborts, jobVars, goVars, Idle, TypeInv, TypeOK
<1>2. CASE Update
  BY <1>2, LiveFrame DEF Update, SetJob, jobVars, goVars, Idle, TypeInv, TypeOK
<1>3. CASE SaveNew
  <2>1. /\ RunJobs' = RunJobs /\ PlanID' = PlanID /\ pc' = pc /\ stale' = stale
        /\ ctxDone' = ctxDone \cup {j \in Job : \E p \in Plan : RunJobs[p] = j}
    BY <1>3 DEF SaveNew, goVars
  <2>2. \A i \in Job : ~Live(i)'
    BY <2>1 DEF Live, LiveInv, Registered
  <2>3. MonitorOwn'
    BY <2>1 DEF LiveInv, MonitorOwn, Monitored
  <2> QED
    BY <2>2, <2>3 DEF LiveInv, Registered, CreateAlone, OneLiveJob, LiveJobHasDir
<1>4. ASSUME NEW j \in Job, Create(j)
      PROVE  LiveInv'
  <2>1. /\ \A i \in Job \ {j} : PlanID'[i] = PlanID[i]
        /\ PlanID'[j] = watch.plan
        /\ watch.plan \in Plan
        /\ \A p \in Plan : RunJobs'[p] = IF p = watch.plan THEN j ELSE RunJobs[p]
        /\ ctxDone' = ctxDone \ {j}
        /\ stale' = stale
        /\ watch'.at = "poll"
    BY <1>4 DEF Create, Idle, TypeInv, TypeOK, WatchHasPlan
  <2>2. /\ \A g \in Proc : g # <<"main", j>> /\ g # <<"mon", j>> => pc'[g] = pc[g]
        /\ pc'[<<"main", j>>] = "start"
        /\ pc'[<<"mon", j>>] = "check"
    BY <1>4 DEF Create, TypeInv, TypeOK, Proc, Role
  <2>3. \A i \in Job : Live(i)' => i = j
    <3>1. \A i \in Job : ~Live(i)
      BY <1>4 DEF Create, LiveInv, CreateAlone
    <3> QED
      BY <2>1, <3>1 DEF Live
  <2>4. Registered' /\ CreateAlone' /\ OneLiveJob' /\ LiveJobHasDir'
    BY <2>1, <2>2, <2>3 DEF Registered, CreateAlone, OneLiveJob, LiveJobHasDir
  <2>5. MonitorOwn'
    <3> SUFFICES ASSUME NEW i \in Job, Monitored(i)', PlanID'[i] \notin stale'
                 PROVE  /\ RunJobs'[PlanID'[i]] = i
                        /\ pc'[<<"mon", i>>] \in {"cleanup", "delete"} => i \in ctxDone'
      BY DEF MonitorOwn
    <3>1. CASE i = j
      BY <2>1, <2>2, <3>1
    <3>2. CASE i # j
      <4>1. pc'[<<"mon", i>>] = pc[<<"mon", i>>] /\ Monitored(i)
        BY <2>2, <3>2 DEF Monitored, Proc, Role
      <4>2. PlanID[i] \in Plan /\ PlanID[i] # watch.plan
        BY <1>4, <4>1 DEF Create, MonitorInv, CreateUnwatched, Monitored, TypeInv, ProcHasPlan, Role
      <4> QED
        BY <2>1, <3>2, <4>1, <4>2 DEF LiveInv, MonitorOwn
    <3> QED
      BY <3>1, <3>2
  <2> QED
    BY <2>4, <2>5 DEF LiveInv
<1> QED
  BY <1>1, <1>2, <1>3, <1>4 DEF WatchStep

LEMMA NextLiveInv ==
  ASSUME TypeInv, MonitorInv, LiveInv, [Next]_vars
  PROVE  LiveInv'
<1>1. ASSUME NEW j \in Job, MainStep(j) \/ MonStep(j) \/ \E r \in Role : Acquire(r, j)
      PROVE  LiveInv'
  BY <1>1, GoLiveInv DEF GoStep, Role
<1>2. CASE Environment
  <2>1. CASE Crash
    BY <2>1 DEF Crash, Idle, Proc, Role, LiveInv, Registered, CreateAlone, MonitorOwn, OneLiveJob,
                LiveJobHasDir, Monitored, Live
  <2>2. CASE ~Crash
    BY <1>2, <2>2, LiveFrame DEF Environment, UserStarts, UserEnds, UserCancels,
                                 agentVars, jobVars, goVars
  <2> QED
    BY <2>1, <2>2
<1>3. CASE UNCHANGED vars
  BY <1>3, LiveFrame DEF vars, agentVars, jobVars, goVars
<1> QED
  BY <1>1, <1>2, <1>3, WatchLiveInv DEF Next

LEMMA SpecLiveInv == Spec => [](TypeInv /\ MonitorInv /\ LiveInv)
<1>1. Init => MonitorInv /\ LiveInv
  BY DEF Init, Idle, Proc, Role, MonitorInv, OneMonitor, MonitorHasJob, CreateUnwatched, Monitored,
         LiveInv, Registered, CreateAlone, MonitorOwn, OneLiveJob, LiveJobHasDir, Live
<1> QED
  BY <1>1, InitTypeInv, NextTypeInv, NextMonitorInv, NextLiveInv, PTL DEF Spec

\* One plan runs at a time: of the plans that no stale store has hit, at most
\* one job is not cancelled, and saveJob creates a job only when there is none.
THEOREM LiveJob == Spec => []OneLiveJob
  BY SpecLiveInv, PTL DEF LiveInv

\* No monitor removes the directory in which a live job collects coverage.
THEOREM Directory == Spec => []LiveJobHasDir
  BY SpecLiveInv, PTL DEF LiveInv

-----------------------------------------------------------------------------
(* Layer 4: the locks *)

\* A pointer found under a plan is to a job of that plan.
PlanOfPointers ==
    /\ \A p \in Plan : RunJobs[p] # NoJob => PlanID[RunJobs[p]] = p
    /\ \A r \in Role, j \in Job :
        /\ inner[<<r, j>>] # NoJob => PlanID[inner[<<r, j>>]] = PlanID[j]
        /\ job[<<r, j>>] # NoJob => PlanID[job[<<r, j>>]] = PlanID[j]
        /\ pc[<<r, j>>] = "done" => inner[<<r, j>>] = NoJob /\ job[<<r, j>>] = NoJob
    /\ watch.at = "update" => PlanID[watch.job] = watch.plan

\* The monitor of a plan that is not stale locks, and fails, its own job.
MonitorPointers ==
    \A j \in Job : PlanID[j] \notin stale =>
        /\ pc[<<"mon", j>>] \in Waiting \cup Holding \cup {"store"} => inner[<<"mon", j>>] = j
        /\ pc[<<"mon", j>>] \in {"dumpWaitR", "dumpR", "mergeWaitR", "mergeR"} => job[<<"mon", j>>] = j

\* main never leaves a DumpLock behind.
MainReleases ==
    \A o, k \in Job : <<"main", k>> \in DumpLock[o] =>
        pc[<<"main", k>>] \in Holding /\ inner[<<"main", k>>] = o

\* A monitor leaves behind only the lock of its own job, on its way to cancel
\* the job or with the job cancelled.
MonitorLeaks ==
    \A o, k \in Job : <<"mon", k>> \in DumpLock[o] /\ PlanID[o] \notin stale =>
        /\ k = o
        /\ pc[<<"mon", o>>] \in Holding \cup Failing \cup {"check", "cleanup", "delete", "done"}
        /\ pc[<<"mon", o>>] \in {"post", "check"} => o \in ctxDone

LockInv == PlanOfPointers /\ MonitorPointers /\ MainReleases /\ MonitorLeaks

\* The lock of a job is taken by Acquire and released where the holder goes
\* on, except where report fails.
LEMMA GoLocks ==
  ASSUME TypeInv, NEW r \in Role, NEW j \in Job, GoStep(r, j)
  PROVE  \/ Acquire(r, j)
         \/ /\ pc[<<r, j>>] \in Holding
            /\ DumpLock' = [DumpLock EXCEPT ![inner[<<r, j>>]] = {}]
         \/ /\ DumpLock' = DumpLock
            /\ pc[<<r, j>>] \notin Holding \/ (r = "mon" /\ ReportMergeFails(j))
<1> USE DEF Holding
<1>1. CASE r = "main" /\ MainStep(j)
  BY <1>1
     DEF MainStep, Start, StartReturns, LoadOK, LoadFails, FirstDumpEnds, ReadyOK, ReadyFails,
         GetReady, SetReady, LoopReturns, LoopDumps, LoopDumpEnds, LoopMergeEnds, DumpEnds, Unlock,
         CallbackEndWithMessage, FailJob, FailStore, FailPost
<1>2. CASE r = "mon" /\ MonStep(j)
  BY <1>2
     DEF MonStep, CheckCancelled, CheckFinished, CheckEnding, Cleanup, DeleteJob, Report,
         ReportStarts, ReportDumpEnds, ReportMergeEnds, ReportMerged, ReportMergeFails, ReportXml,
         ReportXmlFails, ReportHtml, ReportHtmlFails, DumpEnds, Unlock,
         CallbackEndWithMessage, FailJob, FailStore, FailPost
<1> QED
  BY <1>1, <1>2 DEF GoStep

LEMMA GoLockTaken ==
  ASSUME TypeInv, NEW r \in Role, NEW j \in Job, GoStep(r, j), NEW o \in Job
  PROVE  DumpLock'[o] \subseteq DumpLock[o] \cup {<<r, j>>}
<1>1. CASE Acquire(r, j)
  BY <1>1 DEF Acquire, TypeInv, TypeOK
<1>2. CASE DumpLock' = [DumpLock EXCEPT ![inner[<<r, j>>]] = {}]
  BY <1>2 DEF TypeInv, TypeOK
<1> QED
  BY <1>1, <1>2, GoLocks

LEMMA GoPlanOfPointers ==
  ASSUME TypeInv, PlanOfPointers, NEW r \in Role, NEW j \in Job, GoStep(r, j)
  PROVE  PlanOfPointers'
<1>1. OwnPointers(r, j) /\ OwnPlan(r, j) /\ PlanID[j] \in Plan
  BY GoPointers, GoPlan DEF OwnPointers, TypeInv, ProcHasPlan
<1>2. \A p \in Plan : RunJobs'[p] # NoJob => PlanID[RunJobs'[p]] = p
  BY <1>1 DEF OwnPlan, PlanOfPointers
<1>3. ASSUME NEW x \in Role, NEW i \in Job
      PROVE  /\ inner'[<<x, i>>] # NoJob => PlanID[inner'[<<x, i>>]] = PlanID[i]
             /\ job'[<<x, i>>] # NoJob => PlanID[job'[<<x, i>>]] = PlanID[i]
             /\ pc'[<<x, i>>] = "done" => inner'[<<x, i>>] = NoJob /\ job'[<<x, i>>] = NoJob
  <2>1. CASE <<x, i>> = <<r, j>>
    BY <1>1, <2>1 DEF OwnPointers, PlanOfPointers
  <2>2. CASE <<x, i>> # <<r, j>>
    BY <1>1, <2>2 DEF OwnPointers, PlanOfPointers, Proc
  <2> QED
    BY <2>1, <2>2
<1> QED
  BY <1>1, <1>2, <1>3 DEF PlanOfPointers, OwnPointers

LEMMA GoMonitorPointers ==
  ASSUME TypeInv, MonitorInv, LiveInv, MonitorPointers,
         NEW r \in Role, NEW j \in Job, GoStep(r, j)
  PROVE  MonitorPointers'
<1>1. OwnPointers(r, j) /\ OwnPlan(r, j)
  BY GoPointers, GoPlan
<1> SUFFICES ASSUME NEW i \in Job, PlanID[i] \notin stale'
             PROVE  /\ pc'[<<"mon", i>>] \in Waiting \cup Holding \cup {"store"} =>
                            inner'[<<"mon", i>>] = i
                    /\ pc'[<<"mon", i>>] \in {"dumpWaitR", "dumpR", "mergeWaitR", "mergeR"} =>
                            job'[<<"mon", i>>] = i
  BY <1>1 DEF MonitorPointers, OwnPointers
<1>2. PlanID[i] \notin stale
  BY <1>1 DEF OwnPlan
<1>3. CASE <<r, j>> # <<"mon", i>>
  BY <1>1, <1>2, <1>3 DEF OwnPointers, MonitorPointers, Proc, Role
<1>4. CASE <<r, j>> = <<"mon", i>>
  <2> <<"mon", i>> \in Proc
    BY DEF Proc, Role
  <2>1. RunJobs[PlanID[i]] = i
    BY <1>1, <1>2, <1>4 DEF OwnPointers, LiveInv, MonitorOwn, Monitored
  <2> USE LocksHolding DEF TypeInv, TypeOK, Goto, Return, GetJob, Holding
  <2>2. CASE Acquire("mon", i)
    BY <1>2, <2>2 DEF Acquire, MonitorPointers, Locks
  <2>3. CASE CallbackEndWithMessage("mon", i)
    BY <1>2, <2>1, <2>3, JobsAssumption
       DEF CallbackEndWithMessage, FailJob, FailStore, FailPost, AfterFailing
  <2>4. CASE CheckCancelled(i) \/ CheckFinished(i) \/ CheckEnding(i) \/ Cleanup(i) \/ DeleteJob(i)
    BY <2>4 DEF CheckCancelled, CheckFinished, CheckEnding, Cleanup, DeleteJob
  <2>5. CASE ReportStarts(i)
    BY <2>1, <2>5 DEF ReportStarts
  <2>6. CASE ReportDumpEnds(i) \/ ReportMergeEnds(i)
    BY <1>2, <2>1, <2>6 DEF ReportDumpEnds, ReportMergeEnds, MonitorPointers
  <2>7. CASE ReportMerged(i) \/ ReportMergeFails(i) \/ ReportXml(i) \/ ReportXmlFails(i)
             \/ ReportHtml(i) \/ ReportHtmlFails(i)
    BY <2>7 DEF ReportMerged, ReportMergeFails, ReportXml, ReportXmlFails, ReportHtml,
                ReportHtmlFails
  <2> QED
    BY <1>4, <2>2, <2>3, <2>4, <2>5, <2>6, <2>7 DEF GoStep, MonStep, Report
<1> QED
  BY <1>3, <1>4

LEMMA GoMainReleases ==
  ASSUME TypeInv, MainReleases, NEW r \in Role, NEW j \in Job, GoStep(r, j)
  PROVE  MainReleases'
<1>1. OwnPointers(r, j)
  BY GoPointers
<1> SUFFICES ASSUME NEW o \in Job, NEW k \in Job, <<"main", k>> \in DumpLock'[o]
             PROVE  pc'[<<"main", k>>] \in Holding /\ inner'[<<"main", k>>] = o
  BY DEF MainReleases
<1>2. CASE <<r, j>> = <<"main", k>>
  <2>1. CASE Acquire("main", k)
    <3>1. /\ pc[<<"main", k>>] \notin Holding
          /\ pc'[<<"main", k>>] \in Holding
          /\ inner' = inner
      BY <2>1, LocksHolding DEF Acquire, Goto, Holding, TypeInv, TypeOK, Proc, Role
    <3>2. <<"main", k>> \notin DumpLock[o]
      BY <3>1 DEF MainReleases
    <3> QED
      BY <2>1, <3>1, <3>2 DEF Acquire, TypeInv, TypeOK
  <2>2. CASE ~Acquire("main", k)
    <3>1. <<"main", k>> \in DumpLock[o] /\ o # inner[<<"main", k>>]
      BY <1>2, <2>2, GoLocks DEF TypeInv, TypeOK, MainReleases
    <3> QED
      BY <3>1 DEF MainReleases
  <2> QED
    BY <2>1, <2>2
<1>3. CASE <<r, j>> # <<"main", k>>
  <2>1. <<"main", k>> \in DumpLock[o]
    BY <1>3, GoLockTaken
  <2> QED
    BY <1>1, <1>3, <2>1 DEF MainReleases, OwnPointers, Proc, Role
<1> QED
  BY <1>2, <1>3

\* A monitor whose job's lock it has left behind goes on to cancel the job.
LEMMA MonAfterLeak ==
  ASSUME TypeInv, NEW j \in Job, GoStep("mon", j), RunJobs[PlanID[j]] = j,
         pc[<<"mon", j>>] = "store" => inner[<<"mon", j>>] = j,
         pc[<<"mon", j>>] \in {"post", "check"} => j \in ctxDone,
         \/ pc[<<"mon", j>>] \in Failing \cup {"check", "cleanup", "delete"}
         \/ ReportMergeFails(j)
  PROVE  /\ pc'[<<"mon", j>>] \in Failing \cup {"check", "cleanup", "delete", "done"}
         /\ pc'[<<"mon", j>>] \in {"post", "check"} => j \in ctxDone'
<1> <<"mon", j>> \in Proc
  BY DEF Proc, Role
<1> USE DEF TypeInv, TypeOK, Goto, Return, GetJob, Failing
<1>1. CASE ReportMergeFails(j)
  BY <1>1 DEF ReportMergeFails
<1>2. CASE CallbackEndWithMessage("mon", j)
  BY <1>2, JobsAssumption
     DEF CallbackEndWithMessage, FailJob, FailStore, FailPost, AfterFailing, jobVars
<1>3. CASE CheckCancelled(j) \/ CheckFinished(j) \/ Cleanup(j) \/ DeleteJob(j)
  BY <1>3 DEF CheckCancelled, CheckFinished, Cleanup, DeleteJob
<1>4. CASE CheckEnding(j)
  BY <1>4 DEF CheckEnding
<1>5. \/ ReportMergeFails(j) \/ CallbackEndWithMessage("mon", j)
      \/ CheckCancelled(j) \/ CheckFinished(j) \/ CheckEnding(j) \/ Cleanup(j) \/ DeleteJob(j)
  BY LocksHolding
     DEF GoStep, MonStep, Report, Acquire, ReportStarts, ReportDumpEnds, ReportMergeEnds,
         ReportMerged, ReportMergeFails, ReportXml, ReportXmlFails, ReportHtml, ReportHtmlFails
<1> QED
  BY <1>1, <1>2, <1>3, <1>4, <1>5

LEMMA GoMonitorLeaks ==
  ASSUME TypeInv, LiveInv, LockInv, NEW r \in Role, NEW j \in Job, GoStep(r, j)
  PROVE  MonitorLeaks'
<1>1. OwnPointers(r, j) /\ OwnPlan(r, j)
  BY GoPointers, GoPlan
<1> SUFFICES ASSUME NEW o \in Job, NEW k \in Job,
                    <<"mon", k>> \in DumpLock'[o], PlanID[o] \notin stale'
             PROVE  /\ k = o
                    /\ pc'[<<"mon", o>>] \in
                            Holding \cup Failing \cup {"check", "cleanup", "delete", "done"}
                    /\ pc'[<<"mon", o>>] \in {"post", "check"} => o \in ctxDone'
  BY <1>1 DEF MonitorLeaks, OwnPointers
<1>2. PlanID[o] \notin stale
  BY <1>1 DEF OwnPlan
<1>3. CASE <<"mon", k>> \notin DumpLock[o]
  <2>1. <<r, j>> = <<"mon", k>>
    BY <1>3, GoLockTaken
  <2>2. Acquire("mon", k)
    BY <1>3, <2>1, GoLocks DEF TypeInv, TypeOK
  <2>3. inner[<<"mon", k>>] = o /\ pc[<<"mon", k>>] \in Waiting
    BY <1>3, <2>2 DEF Acquire, TypeInv, TypeOK
  <2>4. PlanID[k] = PlanID[o]
    BY <2>3, JobsAssumption DEF LockInv, PlanOfPointers, Role
  <2>5. k = o
    BY <1>2, <2>3, <2>4 DEF LockInv, MonitorPointers
  <2>6. pc'[<<"mon", o>>] \in Holding
    BY <2>2, <2>5, LocksHolding DEF Acquire, Goto, TypeInv, TypeOK, Proc, Role
  <2> QED
    BY <2>5, <2>6 DEF Holding
<1>4. CASE <<"mon", k>> \in DumpLock[o]
  <2>1. /\ k = o
        /\ pc[<<"mon", o>>] \in Holding \cup Failing \cup {"check", "cleanup", "delete", "done"}
        /\ pc[<<"mon", o>>] \in {"post", "check"} => o \in ctxDone
    BY <1>2, <1>4 DEF LockInv, MonitorLeaks
  <2>2. CASE <<r, j>> # <<"mon", o>>
    BY <1>1, <2>1, <2>2 DEF OwnPointers, OwnPlan, Proc, Role
  <2>3. CASE <<r, j>> = <<"mon", o>>
    <3>1. pc[<<"mon", o>>] # "done" /\ RunJobs[PlanID[o]] = o
      BY <1>1, <1>2, <2>3 DEF OwnPointers, LiveInv, MonitorOwn, Monitored
    <3>2. ~Acquire("mon", o)
      BY <2>1, LocksHolding DEF Acquire, Holding, Failing
    <3>3. pc[<<"mon", o>>] \in Holding => ReportMergeFails(o)
      <4> SUFFICES ASSUME pc[<<"mon", o>>] \in Holding, ~ReportMergeFails(o)
                   PROVE  FALSE
        OBVIOUS
      <4>1. inner[<<"mon", o>>] = o
        BY <1>2 DEF LockInv, MonitorPointers
      <4>2. DumpLock' = [DumpLock EXCEPT ![o] = {}]
        BY <2>3, <3>2, <4>1, GoLocks
      <4> QED
        BY <4>2 DEF TypeInv, TypeOK
    <3>4. pc[<<"mon", o>>] = "store" => inner[<<"mon", o>>] = o
      BY <1>2 DEF LockInv, MonitorPointers
    <3>5. GoStep("mon", o)
      BY <2>3
    <3> QED
      BY <2>1, <3>1, <3>3, <3>4, <3>5, MonAfterLeak
  <2> QED
    BY <2>2, <2>3
<1> QED
  BY <1>3, <1>4

LEMMA GoLockInv ==
  ASSUME TypeInv, MonitorInv, LiveInv, LockInv, NEW r \in Role, NEW j \in Job, GoStep(r, j)
  PROVE  LockInv'
  BY GoPlanOfPointers, GoMonitorPointers, GoMainReleases, GoMonitorLeaks DEF LockInv

\* A step that moves no goroutine.
LEMMA LockFrame ==
  ASSUME LockInv, PlanID' = PlanID, pc' = pc, inner' = inner, job' = job, DumpLock' = DumpLock,
         ctxDone \subseteq ctxDone', stale \subseteq stale',
         \A p \in Plan : RunJobs'[p] # NoJob => PlanID[RunJobs'[p]] = p,
         watch'.at = "update" => PlanID[watch'.job] = watch'.plan
  PROVE  LockInv'
<1>1. PlanOfPointers'
  BY DEF LockInv, PlanOfPointers
<1>2. MonitorPointers'
  BY DEF LockInv, MonitorPointers
<1>3. MainReleases'
  BY DEF LockInv, MainReleases
<1>4. MonitorLeaks'
  BY DEF LockInv, MonitorLeaks
<1> QED
  BY <1>1, <1>2, <1>3, <1>4 DEF LockInv

LEMMA WatchLockInv ==
  ASSUME TypeInv, LockInv, WatchStep
  PROVE  LockInv'
<1> USE DEF TypeInv, TypeOK, jobVars, goVars
<1>1. \A p \in Plan : RunJobs[p] # NoJob => PlanID[RunJobs[p]] = p
  BY DEF LockInv, PlanOfPointers
<1>2. CASE Poll \/ SaveNew \/ CreateAborts
  <2>1. watch'.at # "update"
    <3>1. CASE Poll
      BY <3>1 DEF Poll
    <3>2. CASE SaveNew
      BY <3>2 DEF SaveNew
    <3>3. CASE CreateAborts
      BY <3>3 DEF CreateAborts, Idle
    <3> QED
      BY <1>2, <3>1, <3>2, <3>3
  <2> QED
    BY <1>1, <1>2, <2>1, LockFrame DEF Poll, SaveNew, CreateAborts
<1>3. CASE SaveKnown
  <2>1. /\ watch'.job = RunJobs[watch.plan] /\ watch'.plan = watch.plan
        /\ RunJobs[watch.plan] # NoJob
        /\ watch.plan \in Plan
    BY <1>3 DEF SaveKnown, GetJob, WatchHasPlan
  <2> QED
    BY <1>1, <1>3, <2>1, LockFrame DEF SaveKnown
<1>4. CASE Update
  <2>1. PlanID[watch.job] = watch.plan
    BY <1>4 DEF Update, LockInv, PlanOfPointers
  <2>2. \A p \in Plan : RunJobs'[p] # NoJob => PlanID[RunJobs'[p]] = p
    BY <1>1, <1>4, <2>1 DEF Update, SetJob
  <2> QED
    BY <1>4, <2>2, LockFrame DEF Update, SetJob, Idle
<1>5. ASSUME NEW j \in Job, Create(j)
      PROVE  LockInv'
  <2>1. /\ \A i \in Job \ {j} : PlanID'[i] = PlanID[i] /\ DumpLock'[i] = DumpLock[i]
        /\ PlanID'[j] = watch.plan
        /\ DumpLock'[j] = {}
        /\ \A p \in Plan : RunJobs'[p] = IF p = watch.plan THEN j ELSE RunJobs[p]
        /\ ctxDone' = ctxDone \ {j}
        /\ stale' = stale /\ inner' = inner /\ job' = job
        /\ watch'.at = "poll"
    BY <1>5 DEF Create, Idle
  <2>2. /\ \A g \in Proc : g # <<"main", j>> /\ g # <<"mon", j>> => pc'[g] = pc[g]
        /\ pc'[<<"main", j>>] = "start"
        /\ pc'[<<"mon", j>>] = "check"
    BY <1>5 DEF Create, Proc, Role
  <2>3. /\ \A x \in Role : pc[<<x, j>>] = "done"
        /\ \A p \in Plan : RunJobs[p] # j
        /\ \A x \in Role, i \in Job : inner[<<x, i>>] # j /\ job[<<x, i>>] # j
    BY <1>5 DEF Create, Unused, Proc
  <2>4. \A p \in Plan : RunJobs'[p] # NoJob => PlanID'[RunJobs'[p]] = p
    BY <1>1, <2>1, <2>3
  <2>5. ASSUME NEW x \in Role, NEW i \in Job
        PROVE  /\ inner'[<<x, i>>] # NoJob => PlanID'[inner'[<<x, i>>]] = PlanID'[i]
               /\ job'[<<x, i>>] # NoJob => PlanID'[job'[<<x, i>>]] = PlanID'[i]
               /\ pc'[<<x, i>>] = "done" => inner'[<<x, i>>] = NoJob /\ job'[<<x, i>>] = NoJob
    <3>1. inner[<<x, i>>] \in Job \cup {NoJob} /\ job[<<x, i>>] \in Job \cup {NoJob}
      BY DEF Proc
    <3>2. CASE i = j
      BY <2>1, <2>3, <3>2 DEF LockInv, PlanOfPointers
    <3>3. CASE i # j
      BY <2>1, <2>2, <2>3, <3>1, <3>3 DEF LockInv, PlanOfPointers, Proc
    <3> QED
      BY <3>2, <3>3
  <2>6. PlanOfPointers'
    BY <2>1, <2>4, <2>5 DEF PlanOfPointers
  <2>7. MonitorPointers'
    BY <2>1, <2>2, LocksHolding, SMTT(40) DEF LockInv, MonitorPointers, Holding, Proc, Role
  <2>8. MainReleases'
    <3> SUFFICES ASSUME NEW o \in Job, NEW k \in Job, <<"main", k>> \in DumpLock'[o]
                 PROVE  pc'[<<"main", k>>] \in Holding /\ inner'[<<"main", k>>] = o
      BY DEF MainReleases
    <3>1. /\ <<"main", k>> \in DumpLock[o]
          /\ pc[<<"main", k>>] \in Holding
          /\ inner[<<"main", k>>] = o
      BY <2>1 DEF LockInv, MainReleases
    <3>2. k # j
      BY <2>3, <3>1 DEF Role, Holding
    <3> QED
      BY <2>1, <2>2, <3>1, <3>2 DEF Proc, Role
  <2>9. MonitorLeaks'
    <3> SUFFICES ASSUME NEW o \in Job, NEW k \in Job,
                        <<"mon", k>> \in DumpLock'[o], PlanID'[o] \notin stale'
                 PROVE  /\ k = o
                        /\ pc'[<<"mon", o>>] \in
                                Holding \cup Failing \cup {"check", "cleanup", "delete", "done"}
                        /\ pc'[<<"mon", o>>] \in {"post", "check"} => o \in ctxDone'
      BY DEF MonitorLeaks
    <3>1. o # j
      BY <2>1
    <3> QED
      BY <2>1, <2>2, <3>1 DEF LockInv, MonitorLeaks, Proc, Role
  <2> QED
    BY <2>6, <2>7, <2>8, <2>9 DEF LockInv
<1> QED
  BY <1>2, <1>3, <1>4, <1>5 DEF WatchStep

LEMMA NextLockInv ==
  ASSUME TypeInv, MonitorInv, LiveInv, LockInv, [Next]_vars
  PROVE  LockInv'
<1>1. ASSUME NEW j \in Job, MainStep(j) \/ MonStep(j) \/ \E r \in Role : Acquire(r, j)
      PROVE  LockInv'
  BY <1>1, GoLockInv DEF GoStep, Role
<1>2. ASSUME UNCHANGED agentVars
      PROVE  LockInv'
  BY <1>2, LockFrame DEF agentVars, jobVars, goVars, LockInv, PlanOfPointers
<1>3. CASE Crash
  BY <1>3, LocksHolding DEF Crash, Idle, Proc, Role, LockInv, PlanOfPointers, MonitorPointers,
                            MainReleases, MonitorLeaks, Holding
<1> QED
  BY <1>1, <1>2, <1>3, WatchLockInv
     DEF Next, Environment, UserStarts, UserEnds, UserCancels, vars

\* A monitor never waits for a lock that nobody is going to release, although
\* report leaves the lock of its job locked when it fails: only the monitor of
\* the job itself leaks the lock, and it cancels the job before it looks again.
THEOREM MonitorLocks == Spec => []MonitorNotStuck
<1>1. Init => LockInv
  BY LocksHolding DEF Init, Idle, Proc, Role, LockInv, PlanOfPointers, MonitorPointers,
                      MainReleases, MonitorLeaks, Holding
<1>2. TypeInv /\ LockInv => MonitorNotStuck
  <2> SUFFICES ASSUME TypeInv, LockInv, NEW j \in Job,
                      pc[<<"mon", j>>] \in Waiting, PlanID[j] \notin stale,
                      NEW g \in DumpLock[inner[<<"mon", j>>]]
               PROVE  pc[g] \in Holding
    BY DEF MonitorNotStuck
  <2>1. inner[<<"mon", j>>] = j
    BY DEF LockInv, MonitorPointers
  <2>2. PICK x \in Role, k \in Job : g = <<x, k>>
    BY <2>1 DEF TypeInv, TypeOK, Proc
  <2>3. CASE x = "main"
    BY <2>1, <2>2, <2>3 DEF LockInv, MainReleases
  <2>4. CASE x = "mon"
    BY <2>1, <2>2, <2>4, LocksHolding DEF LockInv, MonitorLeaks, Holding, Failing
  <2> QED
    BY <2>3, <2>4 DEF Role
<1>3. Spec => [](TypeInv /\ LockInv)
  BY <1>1, SpecLiveInv, NextLockInv, PTL DEF Spec
<1> QED
  BY <1>2, <1>3, PTL

=============================================================================
