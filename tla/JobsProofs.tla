---------------------------- MODULE JobsProofs ----------------------------
(***************************************************************************)
(* Proofs about Jobs, for every set of plans and of job objects and for    *)
(* every kind of failure.                                                  *)
(***************************************************************************)
EXTENDS Jobs, TLAPS

-----------------------------------------------------------------------------
(* The inductive invariants of the first two layers. *)

\* Types.  The plan the center answers with has been started, a poll that has
\* been answered is about a plan, a goroutine that runs has one, and a
\* pointer that is about to be stored is not nil.
CurStarted == cur # NoPlan => srv[cur] # "none"

WatchHasPlan ==
    /\ watch.at # "poll" => watch.plan \in Plan
    /\ watch.at = "update" => watch.job \in Job

ProcHasPlan ==
    \A r \in Role, j \in Job :
        /\ pc[<<r, j>>] # "done" => PlanID[j] \in Plan
        /\ pc[<<r, j>>] = "store" => inner[<<r, j>>] \in Job
        /\ r = "main" /\ pc[<<r, j>>] = "setReady" => job[<<r, j>>] \in Job

TypeInv == TypeOK /\ CurStarted /\ WatchHasPlan /\ ProcHasPlan

\* Monitors.  When saveJob is about to create a job, no monitor watches its
\* plan any more.
CreateUnwatched ==
    watch.at = "create" => \A j \in Job : Monitored(j) => PlanID[j] # watch.plan

MonitorInv == OneMonitor /\ MonitorHasJob /\ CreateUnwatched

-----------------------------------------------------------------------------
(* Layer 1: types *)

LEMMA InitTypeInv == Init => TypeInv
<1> SUFFICES ASSUME Init PROVE TypeInv
  OBVIOUS
<1> USE JobsAssumption DEF Init
<1>1. /\ RunJobs \in [Plan -> Job \cup {NoJob}]
      /\ PlanID \in [Job -> Plan \cup {NoPlan}]
      /\ Status \in [Job -> ExecStatus]
      /\ JobStatus \in [Job -> JobStatuses]
  BY DEF ExecStatus, JobStatuses
<1>2. /\ ctxDone \in SUBSET Job
      /\ DumpLock \in [Job -> SUBSET Proc]
      /\ stale \in SUBSET Plan
  OBVIOUS
<1>3. /\ pc \in [Proc -> Label]
      /\ job \in [Proc -> Job \cup {NoJob}]
      /\ inner \in [Proc -> Job \cup {NoJob}]
  BY DEF Label
<1>4. loopTimes \in [Job -> 1..MergeEvery]
  OBVIOUS
<1>5. watch \in [at: {"poll", "save", "create", "update"},
                plan: Plan \cup {NoPlan}, status: ExecStatus, job: Job \cup {NoJob}]
  BY DEF Idle, ExecStatus
<1>6. /\ dir \in SUBSET Plan
      /\ srv \in [Plan -> ExecStatus \cup {"none"}]
      /\ cur \in Plan \cup {NoPlan}
      /\ crashes \in 0..MaxCrash
  OBVIOUS
<1>7. CurStarted /\ WatchHasPlan /\ ProcHasPlan
  BY DEF CurStarted, WatchHasPlan, ProcHasPlan, Idle, Proc
<1> QED
  BY <1>1, <1>2, <1>3, <1>4, <1>5, <1>6, <1>7 DEF TypeInv, TypeOK

\* What a POST leaves in the center.
LEMMA PostType ==
  ASSUME TypeInv, NEW p, NEW s \in ExecStatus, Post(p, s)
  PROVE  /\ srv' \in [Plan -> ExecStatus \cup {"none"}]
         /\ \A q \in Plan : srv[q] # "none" => srv'[q] # "none"
  BY DEF TypeInv, TypeOK, CurStarted, Post, PostOK, PostFails, Record, ExecStatus, Finished

LEMMA SetJobType ==
  ASSUME TypeInv, NEW p \in Plan, NEW j \in Job, SetJob(p, j)
  PROVE  /\ RunJobs' \in [Plan -> Job \cup {NoJob}]
         /\ stale' \in SUBSET Plan
  BY DEF TypeInv, TypeOK, SetJob

LEMMA WatchTypeInv ==
  ASSUME TypeInv, WatchStep
  PROVE  TypeInv'
<1> USE DEF TypeInv, TypeOK, jobVars, goVars, srvVars
<1>1. CASE Poll
  BY <1>1 DEF Poll, CurStarted, WatchHasPlan, ProcHasPlan, Proc
<1>2. CASE SaveNew
  BY <1>2 DEF SaveNew, CurStarted, WatchHasPlan, ProcHasPlan, Proc
<1>3. CASE SaveKnown
  <2>1. GetJob(watch.plan) \in Job
    BY <1>3 DEF SaveKnown, GetJob, WatchHasPlan
  <2> QED
    BY <1>3, <2>1 DEF SaveKnown, CurStarted, WatchHasPlan, ProcHasPlan, Proc
<1>4. CASE Update
  <2>1. /\ RunJobs' \in [Plan -> Job \cup {NoJob}]
        /\ stale' \in SUBSET Plan
    BY <1>4, SetJobType DEF Update, WatchHasPlan
  <2> QED
    BY <1>4, <2>1 DEF Update, CurStarted, WatchHasPlan, ProcHasPlan, Proc, Idle, ExecStatus
<1>5. CASE CreateAborts
  BY <1>5 DEF CreateAborts, CurStarted, WatchHasPlan, ProcHasPlan, Proc, Idle, ExecStatus
<1>6. ASSUME NEW j \in Job, Create(j)
      PROVE  TypeInv'
  <2>1. /\ RunJobs' \in [Plan -> Job \cup {NoJob}]
        /\ PlanID' \in [Job -> Plan \cup {NoPlan}]
        /\ Status' \in [Job -> ExecStatus]
        /\ JobStatus' \in [Job -> JobStatuses]
        /\ ctxDone' \in SUBSET Job
        /\ DumpLock' \in [Job -> SUBSET Proc]
    BY <1>6 DEF Create, JobStatuses
  <2>2. pc' \in [Proc -> Label]
    BY <1>6 DEF Create, Label
  <2>3. loopTimes' \in [Job -> 1..MergeEvery]
    BY <1>6, JobsAssumption DEF Create
  <2>4. /\ watch' \in [at: {"poll", "save", "create", "update"},
                  plan: Plan \cup {NoPlan}, status: ExecStatus, job: Job \cup {NoJob}]
        /\ WatchHasPlan'
    BY <1>6 DEF Create, Idle, ExecStatus, WatchHasPlan
  <2>5. ProcHasPlan'
    BY <1>6 DEF Create, ProcHasPlan, WatchHasPlan, Proc, Role
  <2> QED
    BY <1>6, <2>1, <2>2, <2>3, <2>4, <2>5 DEF Create, CurStarted
<1> QED
  BY <1>1, <1>2, <1>3, <1>4, <1>5, <1>6 DEF WatchStep

\* A goroutine that waits for a lock continues where it holds it.
LEMMA LocksHolding ==
  /\ Waiting = {"dumpWait1", "dumpWaitN", "mergeWaitN", "dumpWaitR", "mergeWaitR", "lockWait"}
  /\ \A w \in Waiting : Locks[w] \in Holding
  BY DEF Waiting, Locks, Holding

LEMMA AcquireTypeInv ==
  ASSUME TypeInv, NEW r \in Role, NEW j \in Job, Acquire(r, j)
  PROVE  TypeInv'
<1>1. /\ pc[<<r, j>>] \in Waiting
      /\ Locks[pc[<<r, j>>]] \in Label \ {"store", "setReady"}
      /\ <<r, j>> \in Proc
  BY LocksHolding DEF Acquire, Label, Holding, Proc
<1>2. /\ pc' \in [Proc -> Label]
      /\ DumpLock' \in [Job -> SUBSET Proc]
  BY <1>1 DEF Acquire, Goto, TypeInv, TypeOK
<1>3. ProcHasPlan'
  BY <1>1, <1>2, LocksHolding, ZenonT(40) DEF Acquire, Goto, TypeInv, TypeOK, ProcHasPlan, jobVars, Proc
<1> QED
  BY <1>2, <1>3 DEF Acquire, TypeInv, TypeOK, jobVars, srvVars, CurStarted, WatchHasPlan

LEMMA AfterFailingType ==
  ASSUME TypeInv, NEW r \in Role, NEW j \in Job, AfterFailing(r, j), PlanID' = PlanID,
         pc[<<r, j>>] # "done"
  PROVE  /\ pc' \in [Proc -> Label]
         /\ inner' \in [Proc -> Job \cup {NoJob}]
         /\ job' \in [Proc -> Job \cup {NoJob}]
         /\ ProcHasPlan'
<1>1. "done" \in Label /\ "check" \in Label
  BY DEF Label
<1>2. /\ pc' \in {[pc EXCEPT ![<<r, j>>] = "done"], [pc EXCEPT ![<<r, j>>] = "check"]}
      /\ inner' = [inner EXCEPT ![<<r, j>>] = NoJob]
      /\ job' \in {[job EXCEPT ![<<r, j>>] = NoJob], job}
  BY DEF AfterFailing, Return, Goto
<1>3. /\ pc' \in [Proc -> Label]
      /\ inner' \in [Proc -> Job \cup {NoJob}]
      /\ job' \in [Proc -> Job \cup {NoJob}]
  BY <1>1, <1>2, ZenonT(40) DEF TypeInv, TypeOK
<1>4. ASSUME NEW x \in Role, NEW i \in Job
      PROVE  /\ pc'[<<x, i>>] # "done" => PlanID'[i] \in Plan
             /\ pc'[<<x, i>>] = "store" => inner'[<<x, i>>] \in Job
             /\ x = "main" /\ pc'[<<x, i>>] = "setReady" => job'[<<x, i>>] \in Job
  <2>1. CASE <<x, i>> = <<r, j>>
    BY <1>2, <2>1 DEF TypeInv, TypeOK, ProcHasPlan, Proc
  <2>2. CASE <<x, i>> # <<r, j>>
    BY <1>2, <2>2 DEF TypeInv, TypeOK, ProcHasPlan, Proc
  <2> QED
    BY <2>1, <2>2
<1> QED
  BY <1>3, <1>4 DEF ProcHasPlan

LEMMA FailTypeInv ==
  ASSUME TypeInv, NEW r \in Role, NEW j \in Job, CallbackEndWithMessage(r, j)
  PROVE  TypeInv'
<1> USE DEF TypeInv, TypeOK, jobVars, goVars, srvVars, Goto
<1>1. CASE FailJob(r, j)
  <2>1. PlanID[j] \in Plan /\ GetJob(PlanID[j]) \in Job \cup {NoJob}
    BY <1>1 DEF FailJob, ProcHasPlan, GetJob
  <2>2. CASE GetJob(PlanID[j]) = NoJob
    <3>1. /\ pc' \in [Proc -> Label]
          /\ inner' \in [Proc -> Job \cup {NoJob}]
          /\ job' \in [Proc -> Job \cup {NoJob}]
          /\ ProcHasPlan'
      BY <1>1, <2>2, AfterFailingType DEF FailJob
    <3> QED
      BY <1>1, <2>2, <3>1 DEF FailJob, CurStarted, WatchHasPlan
  <2>3. CASE GetJob(PlanID[j]) # NoJob
    <3>1. Status' \in [Job -> ExecStatus] /\ JobStatus' \in [Job -> JobStatuses]
      BY <1>1, <2>1, <2>3 DEF FailJob, ExecStatus, JobStatuses
    <3>2. "store" \in Label
      BY DEF Label, Failing
    <3>3. /\ pc' = [pc EXCEPT ![<<r, j>>] = "store"]
          /\ inner' = [inner EXCEPT ![<<r, j>>] = GetJob(PlanID[j])]
          /\ job' = job
          /\ PlanID' = PlanID
      BY <1>1, <2>3 DEF FailJob
    <3>4. /\ pc' \in [Proc -> Label]
          /\ inner' \in [Proc -> Job \cup {NoJob}]
      BY <2>1, <3>2, <3>3
    <3>5. ProcHasPlan'
      BY <2>1, <2>3, <3>3 DEF ProcHasPlan, Proc
    <3> QED
      BY <1>1, <2>3, <3>1, <3>3, <3>4, <3>5 DEF FailJob, CurStarted, WatchHasPlan
  <2> QED
    BY <2>2, <2>3
<1>2. CASE FailStore(r, j)
  <2>1. PlanID[j] \in Plan /\ inner[<<r, j>>] \in Job
    BY <1>2 DEF FailStore, ProcHasPlan
  <2>2. /\ RunJobs' \in [Plan -> Job \cup {NoJob}]
        /\ stale' \in SUBSET Plan
        /\ ctxDone' \in SUBSET Job
    BY <1>2, <2>1, SetJobType DEF FailStore
  <2> QED
    BY <1>2, <2>2
       DEF FailStore, CurStarted, WatchHasPlan, ProcHasPlan, Proc, Role, Label, Failing
<1>3. CASE FailPost(r, j)
  <2>1. /\ srv' \in [Plan -> ExecStatus \cup {"none"}]
        /\ \A q \in Plan : srv[q] # "none" => srv'[q] # "none"
    BY <1>3, PostType DEF FailPost, ExecStatus
  <2> QED
    BY <1>3, <2>1, AfterFailingType DEF FailPost, CurStarted, WatchHasPlan
<1> QED
  BY <1>1, <1>2, <1>3 DEF CallbackEndWithMessage

LEMMA MainTypeInv ==
  ASSUME TypeInv, NEW j \in Job, MainStep(j)
  PROVE  TypeInv'
<1> "main" \in Role
  BY DEF Role
<1> USE DEF TypeInv, TypeOK, jobVars, goVars, srvVars, Goto
<1>1. CASE Start(j)
  BY <1>1 DEF Start, CurStarted, WatchHasPlan, ProcHasPlan, Proc, Role, Label
<1>2. CASE StartReturns(j)
  BY <1>2 DEF StartReturns, Return, CurStarted, WatchHasPlan, ProcHasPlan, Proc, Role, Label
<1>3. CASE LoadOK(j)
  BY <1>3 DEF LoadOK, Enter, GetJob, CurStarted, WatchHasPlan, ProcHasPlan, Proc, Role,
              Label, Waiting, Locks
<1>4. CASE LoadFails(j)
  <2>1. /\ srv' \in [Plan -> ExecStatus \cup {"none"}]
        /\ \A q \in Plan : srv[q] # "none" => srv'[q] # "none"
    BY <1>4, PostType DEF LoadFails, ExecStatus
  <2> QED
    BY <1>4, <2>1 DEF LoadFails, CurStarted, WatchHasPlan, ProcHasPlan, Proc, Role, Label, Failing
<1>5. CASE FirstDumpEnds(j)
  BY <1>5 DEF FirstDumpEnds, DumpEnds, Unlock, CurStarted, WatchHasPlan, ProcHasPlan, Proc, Role,
              Label
<1>6. CASE ReadyOK(j)
  <2>1. /\ srv' \in [Plan -> ExecStatus \cup {"none"}]
        /\ \A q \in Plan : srv[q] # "none" => srv'[q] # "none"
    BY <1>6, PostType DEF ReadyOK, Post, ExecStatus
  <2> QED
    BY <1>6, <2>1 DEF ReadyOK, CurStarted, WatchHasPlan, ProcHasPlan, Proc, Role, Label
<1>7. CASE ReadyFails(j)
  <2>1. /\ srv' \in [Plan -> ExecStatus \cup {"none"}]
        /\ \A q \in Plan : srv[q] # "none" => srv'[q] # "none"
    BY <1>7, PostType DEF ReadyFails, Post, ExecStatus
  <2> QED
    BY <1>7, <2>1 DEF ReadyFails, CurStarted, WatchHasPlan, ProcHasPlan, Proc, Role, Label, Failing
<1>8. CASE GetReady(j)
  <2>1. GetJob(PlanID[j]) \in Job \cup {NoJob}
    BY <1>8 DEF GetReady, GetJob, ProcHasPlan
  <2>2. CASE GetJob(PlanID[j]) = NoJob
    <3>1. Return("main", j) /\ JobStatus' = JobStatus
      BY <1>8, <2>2 DEF GetReady
    <3> QED
      BY <1>8, <3>1 DEF GetReady, Return, CurStarted, WatchHasPlan, ProcHasPlan, Proc, Role, Label
  <2>3. CASE GetJob(PlanID[j]) # NoJob
    <3>1. /\ JobStatus' = [JobStatus EXCEPT ![GetJob(PlanID[j])] = "ready"]
          /\ job' = [job EXCEPT ![<<"main", j>>] = GetJob(PlanID[j])]
          /\ pc' = [pc EXCEPT ![<<"main", j>>] = "setReady"]
          /\ inner' = inner
      BY <1>8, <2>3 DEF GetReady
    <3>2. /\ JobStatus' \in [Job -> JobStatuses]
          /\ job' \in [Proc -> Job \cup {NoJob}]
          /\ pc' \in [Proc -> Label]
      BY <2>1, <3>1 DEF Label, JobStatuses
    <3>3. ProcHasPlan'
      BY <1>8, <2>1, <2>3, <3>1 DEF GetReady, ProcHasPlan, Proc
    <3> QED
      BY <1>8, <3>1, <3>2, <3>3 DEF GetReady, CurStarted, WatchHasPlan
  <2> QED
    BY <2>2, <2>3
<1>9. CASE SetReady(j)
  <2>1. PlanID[j] \in Plan /\ job[<<"main", j>>] \in Job
    BY <1>9 DEF SetReady, ProcHasPlan
  <2>2. /\ RunJobs' \in [Plan -> Job \cup {NoJob}]
        /\ stale' \in SUBSET Plan
    BY <1>9, <2>1, SetJobType DEF SetReady
  <2> QED
    BY <1>9, <2>2 DEF SetReady, CurStarted, WatchHasPlan, ProcHasPlan, Proc, Role, Label
<1>10. CASE LoopReturns(j)
  BY <1>10 DEF LoopReturns, Return, CurStarted, WatchHasPlan, ProcHasPlan, Proc, Role, Label
<1>11. ASSUME LoopCounts(j), pc[<<"main", j>>] # "done"
       PROVE  /\ pc' \in [Proc -> Label]
              /\ inner' \in [Proc -> Job \cup {NoJob}]
              /\ loopTimes' \in [Job -> 1..MergeEvery]
              /\ \A r \in Role, i \in Job :
                    /\ pc'[<<r, i>>] # "done" => pc[<<r, i>>] # "done"
                    /\ pc'[<<r, i>>] \in {"store", "setReady"} =>
                            pc'[<<r, i>>] = pc[<<r, i>>] /\ inner'[<<r, i>>] = inner[<<r, i>>]
  <2>1. PlanID[j] \in Plan
    BY <1>11 DEF ProcHasPlan
  <2>2. loopTimes' \in [Job -> 1..MergeEvery]
    BY <1>11, JobsAssumption DEF LoopCounts
  <2>3. /\ pc' \in {[pc EXCEPT ![<<"main", j>>] = "loop"],
                    [pc EXCEPT ![<<"main", j>>] = "mergeWaitN"]}
        /\ inner' \in {[inner EXCEPT ![<<"main", j>>] = NoJob],
                       [inner EXCEPT ![<<"main", j>>] = GetJob(PlanID[j])]}
    BY <1>11 DEF LoopCounts, Enter
  <2>4. "loop" \in Label /\ "mergeWaitN" \in Label
    BY LocksHolding DEF Label
  <2>5. pc' \in [Proc -> Label] /\ inner' \in [Proc -> Job \cup {NoJob}]
    <3>1. pc' \in [Proc -> Label]
      BY <2>3, <2>4
    <3>2. GetJob(PlanID[j]) \in Job \cup {NoJob}
      BY <2>1 DEF GetJob
    <3>3. inner' \in [Proc -> Job \cup {NoJob}]
      BY <2>3, <3>2
    <3> QED
      BY <3>1, <3>3
  <2>6. ASSUME NEW r \in Role, NEW i \in Job
        PROVE  /\ pc'[<<r, i>>] # "done" => pc[<<r, i>>] # "done"
               /\ pc'[<<r, i>>] \in {"store", "setReady"} =>
                    pc'[<<r, i>>] = pc[<<r, i>>] /\ inner'[<<r, i>>] = inner[<<r, i>>]
    <3>1. CASE <<r, i>> = <<"main", j>>
      BY <1>11, <2>3, <3>1 DEF Proc
    <3>2. CASE <<r, i>> # <<"main", j>>
      BY <2>3, <3>2 DEF Proc
    <3> QED
      BY <3>1, <3>2
  <2> QED
    BY <2>2, <2>5, <2>6
<1>12. CASE LoopDumps(j)
  <2>1. CASE GetJob(PlanID[j]) = NoJob
    BY <1>11, <1>12, <2>1 DEF LoopDumps, CurStarted, WatchHasPlan, ProcHasPlan
  <2>2. CASE GetJob(PlanID[j]) # NoJob
    <3>1. /\ pc' = [pc EXCEPT ![<<"main", j>>] = "dumpWaitN"]
          /\ inner' = [inner EXCEPT ![<<"main", j>>] = GetJob(PlanID[j])]
          /\ GetJob(PlanID[j]) \in Job
          /\ "dumpWaitN" \in Label
      BY <1>12, <2>2, LocksHolding DEF LoopDumps, Enter, GetJob, ProcHasPlan, Label
    <3>2. pc' \in [Proc -> Label] /\ inner' \in [Proc -> Job \cup {NoJob}]
      BY <3>1
    <3> QED
      BY <1>12, <2>2, <3>1, <3>2 DEF LoopDumps, CurStarted, WatchHasPlan, ProcHasPlan, Proc
  <2> QED
    BY <2>1, <2>2
<1>13. CASE LoopDumpEnds(j)
  <2>1. /\ DumpLock' \in [Job -> SUBSET Proc]
        /\ dir' \in SUBSET Plan
    BY <1>13 DEF LoopDumpEnds, DumpEnds, Unlock, ProcHasPlan
  <2> QED
    BY <1>11, <1>13, <2>1 DEF LoopDumpEnds, CurStarted, WatchHasPlan, ProcHasPlan
<1>14. CASE LoopMergeEnds(j)
  BY <1>14 DEF LoopMergeEnds, Unlock, CurStarted, WatchHasPlan, ProcHasPlan, Proc, Role, Label
<1>15. CASE CallbackEndWithMessage("main", j)
  BY <1>15, FailTypeInv
<1> QED
  BY <1>1, <1>2, <1>3, <1>4, <1>5, <1>6, <1>7, <1>8, <1>9, <1>10, <1>12, <1>13, <1>14, <1>15
     DEF MainStep

LEMMA MonTypeInv ==
  ASSUME TypeInv, NEW j \in Job, MonStep(j)
  PROVE  TypeInv'
<1> "mon" \in Role
  BY DEF Role
<1> USE DEF TypeInv, TypeOK, jobVars, goVars, srvVars, Goto
<1>1. CASE CheckCancelled(j)
  BY <1>1 DEF CheckCancelled, CurStarted, WatchHasPlan, ProcHasPlan, Proc, Role, Label
<1>2. CASE CheckFinished(j)
  <2>1. ctxDone' \in SUBSET Job
    BY <1>2 DEF CheckFinished, GetJob, ProcHasPlan
  <2> QED
    BY <1>2, <2>1 DEF CheckFinished, Return, CurStarted, WatchHasPlan, ProcHasPlan, Proc, Role, Label
<1>3. CASE CheckEnding(j)
  BY <1>3 DEF CheckEnding, CurStarted, WatchHasPlan, ProcHasPlan, Proc, Role, Label
<1>4. CASE ReportStarts(j)
  <2>1. /\ pc' \in {[pc EXCEPT ![<<"mon", j>>] = "dumpWaitR"], [pc EXCEPT ![<<"mon", j>>] = "check"]}
        /\ inner' \in {[inner EXCEPT ![<<"mon", j>>] = GetJob(PlanID[j])], inner}
        /\ job' \in {[job EXCEPT ![<<"mon", j>>] = GetJob(PlanID[j])], job}
        /\ GetJob(PlanID[j]) \in Job \cup {NoJob}
    BY <1>4 DEF ReportStarts, GetJob, ProcHasPlan
  <2>2. "dumpWaitR" \in Label /\ "check" \in Label
    BY LocksHolding DEF Label
  <2>3. /\ pc' \in [Proc -> Label]
        /\ inner' \in [Proc -> Job \cup {NoJob}]
        /\ job' \in [Proc -> Job \cup {NoJob}]
    <3>1. pc' \in [Proc -> Label]
      BY <2>1, <2>2
    <3>2. inner' \in [Proc -> Job \cup {NoJob}]
      BY <2>1
    <3>3. job' \in [Proc -> Job \cup {NoJob}]
      BY <2>1
    <3> QED
      BY <3>1, <3>2, <3>3
  <2>4. ASSUME NEW x \in Role, NEW i \in Job
        PROVE  /\ pc'[<<x, i>>] # "done" => PlanID'[i] \in Plan
               /\ pc'[<<x, i>>] = "store" => inner'[<<x, i>>] \in Job
               /\ x = "main" /\ pc'[<<x, i>>] = "setReady" => job'[<<x, i>>] \in Job
    <3>1. CASE <<x, i>> = <<"mon", j>>
      BY <1>4, <2>1, <3>1 DEF ReportStarts, ProcHasPlan, Proc
    <3>2. CASE <<x, i>> # <<"mon", j>>
      BY <1>4, <2>1, <3>2 DEF ReportStarts, ProcHasPlan, Proc
    <3> QED
      BY <3>1, <3>2
  <2> QED
    BY <1>4, <2>3, <2>4 DEF ReportStarts, CurStarted, WatchHasPlan, ProcHasPlan
<1>5. CASE ReportDumpEnds(j)
  BY <1>5, LocksHolding, ZenonT(40) DEF ReportDumpEnds, DumpEnds, Unlock, GetJob, CurStarted, WatchHasPlan,
                            ProcHasPlan, Proc, Role, Label
<1>6. CASE ReportMergeEnds(j)
  BY <1>6, LocksHolding DEF ReportMergeEnds, Unlock, CurStarted, WatchHasPlan, ProcHasPlan, Proc,
                            Role, Label
<1>7. CASE ReportMerged(j)
  BY <1>7 DEF ReportMerged, Unlock, CurStarted, WatchHasPlan, ProcHasPlan, Proc, Role, Label
<1>8. CASE ReportMergeFails(j)
  BY <1>8 DEF ReportMergeFails, CurStarted, WatchHasPlan, ProcHasPlan, Proc, Role, Label, Failing
<1>9. CASE ReportXml(j) \/ ReportXmlFails(j)
  <2>1. /\ srv' \in [Plan -> ExecStatus \cup {"none"}]
        /\ \A q \in Plan : srv[q] # "none" => srv'[q] # "none"
    BY <1>9, PostType DEF ReportXml, ReportXmlFails, Post, ExecStatus
  <2>2. CASE ReportXml(j)
    BY <2>1, <2>2 DEF ReportXml, CurStarted, WatchHasPlan, ProcHasPlan, Proc, Role, Label
  <2>3. CASE ReportXmlFails(j)
    BY <2>1, <2>3 DEF ReportXmlFails, CurStarted, WatchHasPlan, ProcHasPlan, Proc, Role, Label, Failing
  <2> QED
    BY <1>9, <2>2, <2>3
<1>10. CASE ReportHtml(j)
  BY <1>10 DEF ReportHtml, CurStarted, WatchHasPlan, ProcHasPlan, Proc, Role, Label
<1>11. CASE ReportHtmlFails(j)
  BY <1>11 DEF ReportHtmlFails, CurStarted, WatchHasPlan, ProcHasPlan, Proc, Role, Label, Failing
<1>12. CASE Cleanup(j)
  BY <1>12 DEF Cleanup, CurStarted, WatchHasPlan, ProcHasPlan, Proc, Role, Label
<1>13. CASE DeleteJob(j)
  BY <1>13 DEF DeleteJob, Return, CurStarted, WatchHasPlan, ProcHasPlan, Proc, Role, Label
<1>14. CASE CallbackEndWithMessage("mon", j)
  BY <1>14, FailTypeInv
<1> QED
  BY <1>1, <1>2, <1>3, <1>4, <1>5, <1>6, <1>7, <1>8, <1>9, <1>10, <1>11, <1>12, <1>13, <1>14
     DEF MonStep, Report

LEMMA EnvironmentTypeInv ==
  ASSUME TypeInv, Environment
  PROVE  TypeInv'
<1> USE DEF TypeInv, TypeOK, agentVars, jobVars, goVars, srvVars, WatchHasPlan, ProcHasPlan, Proc
<1>1. ASSUME NEW p \in Plan, UserStarts(p) \/ UserEnds(p) \/ UserCancels(p)
      PROVE  TypeInv'
  BY <1>1 DEF UserStarts, UserEnds, UserCancels, CurStarted, ExecStatus
<1>2. CASE Crash
  <2>1. /\ RunJobs' \in [Plan -> Job \cup {NoJob}]
        /\ DumpLock' \in [Job -> SUBSET Proc]
        /\ pc' \in [Proc -> Label]
        /\ inner' \in [Proc -> Job \cup {NoJob}]
        /\ job' \in [Proc -> Job \cup {NoJob}]
    BY <1>2 DEF Crash, Label
  <2>2. crashes' \in 0..MaxCrash
    BY <1>2, JobsAssumption DEF Crash
  <2> QED
    BY <1>2, <2>1, <2>2 DEF Crash, CurStarted, Idle, ExecStatus
<1> QED
  BY <1>1, <1>2 DEF Environment

LEMMA NextTypeInv ==
  ASSUME TypeInv, [Next]_vars
  PROVE  TypeInv'
<1>1. CASE UNCHANGED vars
  BY <1>1 DEF TypeInv, TypeOK, CurStarted, WatchHasPlan, ProcHasPlan, vars, agentVars, jobVars,
              goVars, srvVars
<1> QED
  BY <1>1, WatchTypeInv, MainTypeInv, MonTypeInv, AcquireTypeInv, EnvironmentTypeInv DEF Next

\* Every variable of the agent keeps its type: a status that a job takes over
\* is one it can have, the dump counter stays within one merge period.
THEOREM TypeCorrect == Spec => []TypeOK
<1>1. Spec => []TypeInv
  BY InitTypeInv, NextTypeInv, PTL DEF Spec
<1> QED
  BY <1>1, PTL DEF TypeInv

-----------------------------------------------------------------------------
(* Layer 2: monitors *)

\* A step that starts no monitor, removes no job and leaves WatchJob alone.
LEMMA MonitorFrame ==
  ASSUME MonitorInv, PlanID' = PlanID, watch' = watch,
         \A j \in Job : Monitored(j)' => Monitored(j),
         \A j \in Job : Monitored(j) /\ RunJobs[PlanID[j]] # NoJob => RunJobs'[PlanID[j]] # NoJob
  PROVE  MonitorInv'
<1>1. OneMonitor'
  BY DEF MonitorInv, OneMonitor
<1>2. MonitorHasJob'
  BY DEF MonitorInv, MonitorHasJob
<1>3. CreateUnwatched'
  BY DEF MonitorInv, CreateUnwatched
<1> QED
  BY <1>1, <1>2, <1>3 DEF MonitorInv

\* A SetJob of a pointer that is not nil leaves a job under every plan that
\* had one.
LEMMA SetJobKeeps ==
  ASSUME TypeInv, NEW p \in Plan, NEW j \in Job, SetJob(p, j)
  PROVE  \A q \in Plan : RunJobs[q] # NoJob => RunJobs'[q] # NoJob
  BY JobsAssumption DEF TypeInv, TypeOK, SetJob

LEMMA MainLabel ==
  ASSUME TypeInv, NEW j \in Job, MainStep(j)
  PROVE  /\ \A i \in Job : pc'[<<"mon", i>>] = pc[<<"mon", i>>]
         /\ PlanID' = PlanID
         /\ watch' = watch
<1> USE DEF Goto, Return, jobVars, goVars
<1>1. \E l \in Label : pc' = [pc EXCEPT ![<<"main", j>>] = l]
  <2> USE LocksHolding DEF Label, Failing
  <2>1. CASE CallbackEndWithMessage("main", j)
    BY <2>1 DEF CallbackEndWithMessage, FailJob, FailStore, FailPost, AfterFailing
  <2>2. CASE LoopDumps(j) \/ LoopDumpEnds(j) \/ LoopMergeEnds(j) \/ LoopReturns(j)
    BY <2>2 DEF LoopDumps, LoopDumpEnds, LoopMergeEnds, LoopReturns, LoopCounts, Enter
  <2>3. CASE Start(j) \/ StartReturns(j) \/ LoadOK(j) \/ LoadFails(j)
    BY <2>3 DEF Start, StartReturns, LoadOK, LoadFails, Enter
  <2>4. CASE FirstDumpEnds(j) \/ ReadyOK(j) \/ ReadyFails(j) \/ GetReady(j) \/ SetReady(j)
    BY <2>4 DEF FirstDumpEnds, ReadyOK, ReadyFails, GetReady, SetReady
  <2> QED
    BY <2>1, <2>2, <2>3, <2>4 DEF MainStep
<1>2. \A i \in Job : pc'[<<"mon", i>>] = pc[<<"mon", i>>]
  BY <1>1 DEF TypeInv, TypeOK, Proc, Role
<1>3. PlanID' = PlanID /\ watch' = watch
  BY DEF MainStep, Start, StartReturns, LoadOK, LoadFails, FirstDumpEnds, ReadyOK, ReadyFails,
         GetReady, SetReady, LoopReturns, LoopDumps, LoopDumpEnds, LoopMergeEnds,
         CallbackEndWithMessage, FailJob, FailStore, FailPost
<1> QED
  BY <1>2, <1>3

LEMMA FailStoreKeeps ==
  ASSUME TypeInv, NEW r \in Role, NEW j \in Job, FailStore(r, j)
  PROVE  \A q \in Plan : RunJobs[q] # NoJob => RunJobs'[q] # NoJob
<1>1. PlanID[j] \in Plan /\ inner[<<r, j>>] \in Job
  BY DEF FailStore, TypeInv, ProcHasPlan
<1> QED
  BY <1>1, SetJobKeeps DEF FailStore

LEMMA MainMonitorInv ==
  ASSUME TypeInv, MonitorInv, NEW j \in Job, MainStep(j)
  PROVE  MonitorInv'
<1>1. \A q \in Plan : RunJobs[q] # NoJob => RunJobs'[q] # NoJob
  <2>1. CASE FailStore("main", j)
    BY <2>1, FailStoreKeeps DEF Role
  <2>2. CASE SetReady(j)
    <3>1. PlanID[j] \in Plan /\ job[<<"main", j>>] \in Job
      BY <2>2 DEF SetReady, TypeInv, ProcHasPlan, Role
    <3> QED
      BY <2>2, <3>1, SetJobKeeps DEF SetReady
  <2>3. CASE ~FailStore("main", j) /\ ~SetReady(j)
    BY <2>3
       DEF MainStep, Start, StartReturns, LoadOK, LoadFails, FirstDumpEnds, ReadyOK, ReadyFails,
           GetReady, LoopReturns, LoopDumps, LoopDumpEnds, LoopMergeEnds,
           CallbackEndWithMessage, FailJob, FailPost
  <2> QED
    BY <2>1, <2>2, <2>3
<1>2. \A i \in Job : Monitored(i) => PlanID[i] \in Plan
  BY DEF Monitored, TypeInv, ProcHasPlan, Role
<1> QED
  BY <1>1, <1>2, MainLabel, MonitorFrame DEF Monitored

LEMMA MonLabel ==
  ASSUME TypeInv, NEW j \in Job, MonStep(j)
  PROVE  /\ \A i \in Job : pc'[<<"main", i>>] = pc[<<"main", i>>]
         /\ \A i \in Job : i # j => pc'[<<"mon", i>>] = pc[<<"mon", i>>]
         /\ Monitored(j)
         /\ PlanID' = PlanID
         /\ watch' = watch
<1> USE DEF Goto, Return, jobVars, goVars
<1>1. \E l \in Label : pc' = [pc EXCEPT ![<<"mon", j>>] = l]
  <2> USE LocksHolding DEF Label, Failing
  <2>1. CASE CallbackEndWithMessage("mon", j)
    BY <2>1 DEF CallbackEndWithMessage, FailJob, FailStore, FailPost, AfterFailing
  <2>2. CASE CheckCancelled(j) \/ CheckFinished(j) \/ CheckEnding(j) \/ Cleanup(j) \/ DeleteJob(j)
    BY <2>2 DEF CheckCancelled, CheckFinished, CheckEnding, Cleanup, DeleteJob
  <2>3. CASE Report(j)
    BY <2>3 DEF Report, ReportStarts, ReportDumpEnds, ReportMergeEnds, ReportMerged,
                ReportMergeFails, ReportXml, ReportXmlFails, ReportHtml, ReportHtmlFails
  <2> QED
    BY <2>1, <2>2, <2>3 DEF MonStep
<1>2. /\ \A i \in Job : pc'[<<"main", i>>] = pc[<<"main", i>>]
      /\ \A i \in Job : i # j => pc'[<<"mon", i>>] = pc[<<"mon", i>>]
  BY <1>1 DEF TypeInv, TypeOK, Proc, Role
<1>3. Monitored(j) /\ PlanID' = PlanID /\ watch' = watch
  BY DEF Monitored, MonStep, CheckCancelled, CheckFinished, CheckEnding, Cleanup, DeleteJob,
         Report, ReportStarts, ReportDumpEnds, ReportMergeEnds, ReportMerged,
         ReportMergeFails, ReportXml, ReportXmlFails, ReportHtml, ReportHtmlFails,
         CallbackEndWithMessage, FailJob, FailStore, FailPost
<1> QED
  BY <1>2, <1>3

\* Only DeleteJob takes a job out of the map.
LEMMA MonKeeps ==
  ASSUME TypeInv, NEW j \in Job, MonStep(j), ~DeleteJob(j)
  PROVE  \A q \in Plan : RunJobs[q] # NoJob => RunJobs'[q] # NoJob
<1>1. CASE FailStore("mon", j)
  BY <1>1, FailStoreKeeps DEF Role
<1>2. CASE ~FailStore("mon", j)
  BY <1>2
     DEF MonStep, CheckCancelled, CheckFinished, CheckEnding, Cleanup, Report, ReportStarts,
         ReportDumpEnds, ReportMergeEnds, ReportMerged, ReportMergeFails, ReportXml,
         ReportXmlFails, ReportHtml, ReportHtmlFails, CallbackEndWithMessage, FailJob, FailPost
<1> QED
  BY <1>1, <1>2

LEMMA MonMonitorInv ==
  ASSUME TypeInv, MonitorInv, NEW j \in Job, MonStep(j)
  PROVE  MonitorInv'
<1>1. \A i \in Job : Monitored(i) => PlanID[i] \in Plan
  BY DEF Monitored, TypeInv, ProcHasPlan, Role
<1>2. \A i \in Job : Monitored(i)' => Monitored(i)
  BY MonLabel DEF Monitored
<1>3. CASE ~DeleteJob(j)
  BY <1>1, <1>2, <1>3, MonLabel, MonKeeps, MonitorFrame
<1>4. CASE DeleteJob(j)
  <2>1. ~Monitored(j)'
    BY <1>4 DEF DeleteJob, Return, Monitored, TypeInv, TypeOK, Proc, Role
  <2>2. OneMonitor'
    BY <1>2, MonLabel DEF MonitorInv, OneMonitor
  <2>3. MonitorHasJob'
    <3> SUFFICES ASSUME NEW i \in Job, Monitored(i)'
                 PROVE  RunJobs'[PlanID[i]] # NoJob
      BY MonLabel DEF MonitorHasJob
    <3>1. Monitored(i) /\ i # j /\ PlanID[i] # PlanID[j]
      BY <1>2, <2>1, MonLabel DEF MonitorInv, OneMonitor
    <3> QED
      BY <1>1, <1>4, <3>1 DEF DeleteJob, MonitorInv, MonitorHasJob, TypeInv, TypeOK
  <2>4. CreateUnwatched'
    BY <1>2, MonLabel DEF MonitorInv, CreateUnwatched
  <2> QED
    BY <2>2, <2>3, <2>4 DEF MonitorInv
<1> QED
  BY <1>3, <1>4

LEMMA WatchMonitorInv ==
  ASSUME TypeInv, MonitorInv, WatchStep
  PROVE  MonitorInv'
<1>1. \A i \in Job : Monitored(i) => PlanID[i] \in Plan
  BY DEF Monitored, TypeInv, ProcHasPlan, Role
<1>2. ASSUME PlanID' = PlanID, pc' = pc, watch'.at # "create",
             \A q \in Plan : RunJobs[q] # NoJob => RunJobs'[q] # NoJob
      PROVE  MonitorInv'
  BY <1>1, <1>2 DEF MonitorInv, OneMonitor, MonitorHasJob, CreateUnwatched, Monitored
<1>3. CASE Poll
  BY <1>2, <1>3 DEF Poll, jobVars, goVars, TypeInv, TypeOK
<1>4. CASE SaveKnown
  BY <1>2, <1>4 DEF SaveKnown, goVars, TypeInv, TypeOK
<1>5. CASE CreateAborts
  BY <1>2, <1>5 DEF CreateAborts, jobVars, goVars, Idle
<1>6. CASE Update
  <2>1. \A q \in Plan : RunJobs[q] # NoJob => RunJobs'[q] # NoJob
    BY <1>6, SetJobKeeps DEF Update, TypeInv, WatchHasPlan
  <2> QED
    BY <1>2, <1>6, <2>1 DEF Update, jobVars, goVars, Idle
<1>7. CASE SaveNew
  <2>1. pc' = pc /\ PlanID' = PlanID /\ RunJobs' = RunJobs /\ watch'.plan = watch.plan
    BY <1>7 DEF SaveNew, goVars, TypeInv, TypeOK
  <2>2. \A i \in Job : Monitored(i) => PlanID[i] # watch.plan
    BY <1>7 DEF SaveNew, GetJob, MonitorInv, MonitorHasJob
  <2> QED
    BY <2>1, <2>2 DEF MonitorInv, OneMonitor, MonitorHasJob, CreateUnwatched, Monitored
<1>8. ASSUME NEW j \in Job, Create(j)
      PROVE  MonitorInv'
  <2>1. /\ \A i \in Job \ {j} : pc'[<<"mon", i>>] = pc[<<"mon", i>>] /\ PlanID'[i] = PlanID[i]
        /\ PlanID'[j] = watch.plan
        /\ watch.plan \in Plan
        /\ \A q \in Plan : RunJobs'[q] = IF q = watch.plan THEN j ELSE RunJobs[q]
    BY <1>8 DEF Create, TypeInv, TypeOK, WatchHasPlan, Proc, Role
  <2>2. \A i \in Job : Monitored(i) => PlanID[i] # watch.plan
    BY <1>8 DEF Create, MonitorInv, CreateUnwatched
  <2>3. \A i \in Job \ {j} : Monitored(i)' => Monitored(i) /\ PlanID'[i] = PlanID[i]
    BY <2>1 DEF Monitored
  <2>4. OneMonitor'
    BY <2>1, <2>2, <2>3 DEF OneMonitor, MonitorInv
  <2>5. MonitorHasJob'
    BY <1>1, <2>1, <2>2, <2>3, JobsAssumption DEF MonitorHasJob, MonitorInv
  <2>6. CreateUnwatched'
    BY <1>8 DEF Create, CreateUnwatched, Idle
  <2> QED
    BY <2>4, <2>5, <2>6 DEF MonitorInv
<1> QED
  BY <1>3, <1>4, <1>5, <1>6, <1>7, <1>8 DEF WatchStep

LEMMA NextMonitorInv ==
  ASSUME TypeInv, MonitorInv, [Next]_vars
  PROVE  MonitorInv'
<1>1. ASSUME NEW r \in Role, NEW j \in Job, Acquire(r, j)
      PROVE  MonitorInv'
  <2>1. \A i \in Job : Monitored(i)' => Monitored(i)
    BY <1>1, LocksHolding DEF Acquire, Goto, Monitored, TypeInv, TypeOK, Proc, Role
  <2> QED
    BY <1>1, <2>1, MonitorFrame DEF Acquire, jobVars
<1>2. CASE Environment
  <2>1. CASE Crash
    BY <2>1 DEF Crash, Idle, Proc, Role,
                MonitorInv, OneMonitor, MonitorHasJob, CreateUnwatched, Monitored
  <2>2. CASE ~Crash
    BY <1>2, <2>2, MonitorFrame DEF Environment, UserStarts, UserEnds, UserCancels,
                                    agentVars, jobVars, goVars, Monitored
  <2> QED
    BY <2>1, <2>2
<1>3. CASE UNCHANGED vars
  BY <1>3, MonitorFrame DEF vars, agentVars, jobVars, goVars, Monitored
<1> QED
  BY <1>1, <1>2, <1>3, WatchMonitorInv, MainMonitorInv, MonMonitorInv DEF Next

LEMMA SpecMonitorInv == Spec => [](TypeInv /\ MonitorInv)
<1>1. Init => MonitorInv
  BY DEF Init, Idle, Proc, Role, MonitorInv, OneMonitor, MonitorHasJob, CreateUnwatched, Monitored
<1> QED
  BY <1>1, InitTypeInv, NextTypeInv, NextMonitorInv, PTL DEF Spec

\* For every number of plans and jobs, every failure and every restart: no
\* plan has two monitors.
THEOREM Monitors == Spec => []OneMonitor
BY SpecMonitorInv, PTL DEF MonitorInv

\* Under the same conditions a monitor always finds a job for its plan: the
\* early returns of the monitor and of report for a missing job are dead code.
THEOREM MonitorsFindJobs == Spec => []MonitorHasJob
BY SpecMonitorInv, PTL DEF MonitorInv

=============================================================================
