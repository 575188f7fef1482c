------------------------------ MODULE Coverage ------------------------------
(***************************************************************************)
(* The data plane of a job: dumpExec, mergeAllSvcExec and report of        *)
(* agent/core/job.go, with agent/pkg/limit_wait_group.                     *)
(*                                                                         *)
(* The JaCoCo agent in a pod counts what is executed.  dumpExec takes the  *)
(* counters of all pods and resets them, with one goroutine per service    *)
(* and at most Limit of them at once, and leaves one exec file per         *)
(* service; mergeAllSvcExec replaces the files of a service by one; report *)
(* does both and merges the files of all services into what is sent to the *)
(* center.  Two goroutines of a job do this under its DumpLock, the main   *)
(* one again and again and the monitor for an ending plan.  When a job is  *)
(* started and cancelled is the subject of Jobs, what the registry holds   *)
(* the subject of Services; here these things only happen.                 *)
(*                                                                         *)
(* What is counted is abstracted to units, things executed by a test.  The *)
(* merge of files is the union of their units.                             *)
(***************************************************************************)
EXTENDS Naturals, FiniteSets

CONSTANTS
    Service,     \* names of services
    Pod,         \* addresses of pods
    Svc,         \* Svc[p]: the service of pod p
    Unit,        \* what tests execute
    None,        \* no service, file, holder or report
    Limit,       \* size of the limited wait group (5 in the code)
    MaxRounds,   \* bound on the dumps of main, and on the reports, that are started
    MaxChange,   \* bound on pods stopped and started, registry events, cancellations
    MaxFail      \* bound on failing commands and files, and on restarts

-----------------------------------------------------------------------------
(* Types *)

Caller == {"main", "mon"}

\* The three waits are those in front of DumpLock.Lock(): of dumpExec, of
\* mergeAllSvcExec, and of report itself.
Label == {"idle", "dumpWait", "dump", "mergeWait", "merge", "projectWait", "project", "post"}

\* A service in the registry.  One that is not in it is skipped like a deleted one.
Registered == [pods: SUBSET Pod, HasError: SUBSET Pod, ErrorMessage: BOOLEAN, IsDelete: BOOLEAN]

\* An exec file in the directory of a service
File == [name: Nat, units: SUBSET Unit]

\* A dump goroutine: the pods it has yet to go through, what it has dumped, its
\* file, the pods it could not reach, whether its merge has failed, and over how
\* many pods it ranges to mark them.
Dumper == [at: {"get", "dump", "note", "mark"}, left: SUBSET Pod, got: SUBSET Unit, file: Nat,
           podErrorMap: SUBSET Pod, failed: BOOLEAN, len: Nat]

\* The service mergeAllSvcExec is at: the files it has listed, the one it has made
Merging == [svc: Service, old: SUBSET File, new: Nat, failed: BOOLEAN]

\* There are finitely many services and pods, and None is none of what it stands for.
ASSUME CoverageAssumption ==
    /\ IsFiniteSet(Service) /\ IsFiniteSet(Pod)
    /\ Svc \in [Pod -> Service]
    /\ Limit \in Nat \ {0}
    /\ {MaxRounds, MaxChange, MaxFail} \subseteq Nat
    /\ None \notin Service \cup Nat \cup Caller
    /\ None \notin Dumper \cup Merging
    /\ \A U \in SUBSET Unit : U # None

VARIABLES
    up,          \* the pods that run
    counter,     \* per pod: the units counted since the last reset
    executed,    \* history: all units executed
    reg,         \* the registry
    dirs,        \* the services with a directory for the plan
    exec,        \* per service: the exec files in it (persistent)
    DumpLock,    \* who holds the mutex of the job
    ctxDone,     \* the context of the job is cancelled
    at,          \* where main and monitor are
    todo,        \* the services that Services.Range has not come to
    wg, c,       \* the wait group and the channel of limitSyncGroup
    go,          \* per service: its dump goroutine
    merging,     \* mergeAllSvcExec between making a file and removing the others
    svcExecMap,  \* per service: the file that report got from mergeAllSvcExec
    project,     \* the content of the project file
    due,         \* history, per service: what the report under way has to have
    report,      \* the report delivered last
    rounds, changes, fails

podVars    == <<up, counter, executed>>
fileVars   == <<dirs, exec>>
lockVars   == <<DumpLock, ctxDone, at>>
dumpVars   == <<todo, wg, c, go>>
mergeVars  == <<merging, svcExecMap>>
reportVars == <<project, report>>
boundVars  == <<rounds, changes, fails>>
vars == <<podVars, reg, fileVars, lockVars, dumpVars, mergeVars, reportVars, due, boundVars>>

TypeOK ==
    /\ up \in SUBSET Pod /\ counter \in [Pod -> SUBSET Unit] /\ executed \in SUBSET Unit
    /\ reg \in [Service -> Registered]
    /\ dirs \in SUBSET Service
    /\ exec \in [Service -> SUBSET File] /\ \A s \in Service : IsFiniteSet(exec[s])
    /\ DumpLock \in Caller \cup {None} /\ ctxDone \in BOOLEAN /\ at \in [Caller -> Label]
    /\ todo \in SUBSET Service
    /\ wg \in Nat /\ c \in 0..Limit
    /\ go \in [Service -> Dumper \cup {None}]
    /\ merging \in Merging \cup {None}
    /\ svcExecMap \in [Service -> Nat \cup {None}]
    /\ project \in SUBSET Unit
    /\ due \in [Service -> SUBSET Unit]
    /\ report \in (SUBSET Unit) \cup {None}
    /\ rounds \in [Caller -> 0..MaxRounds] /\ changes \in 0..MaxChange /\ fails \in 0..MaxFail

PodsOf(s) == {p \in Pod : Svc[p] = s}

NoService(v) == [s \in Service |-> v]

\* A job that has just been started, by an agent that has loaded the registry
Fresh(lock, ctx, a, t, w, ch, g, m, em, pr, du) ==
    /\ lock = None /\ ctx = FALSE
    /\ a = [r \in Caller |-> "idle"]
    /\ t = {} /\ w = 0 /\ ch = 0
    /\ g = NoService(None)
    /\ m = None /\ em = NoService(None)
    /\ pr = {} /\ du = NoService({})

Init ==
    /\ up = Pod
    /\ counter = [p \in Pod |-> {}]
    /\ executed = {}
    /\ reg = [s \in Service |-> [pods |-> PodsOf(s), HasError |-> {},
                                 ErrorMessage |-> FALSE, IsDelete |-> FALSE]]
    /\ dirs = {} /\ exec = NoService({})
    /\ Fresh(DumpLock, ctxDone, at, todo, wg, c, go, merging, svcExecMap, project, due)
    /\ report = None
    /\ rounds = [r \in Caller |-> 0] /\ changes = 0 /\ fails = 0

-----------------------------------------------------------------------------
(* Bounds, faults and what they cost *)

Costs(s, U) == due' = [due EXCEPT ![s] = @ \ U]

Fails == fails < MaxFail /\ fails' = fails + 1 /\ UNCHANGED <<rounds, changes>>

Changed == changes < MaxChange /\ changes' = changes + 1 /\ UNCHANGED <<rounds, fails>>

NewRound(r) ==
    /\ rounds[r] < MaxRounds
    /\ rounds' = [rounds EXCEPT ![r] = @ + 1]
    /\ UNCHANGED <<changes, fails>>

Counted(P) == UNION {counter[p] : p \in P}

Content(F) == UNION {f.units : f \in F}

Named(s, n) == {f \in exec[s] : f.name = n}

\* os.CreateTemp: a name that nothing in the directory has and report does not hold
FreeName(s) ==
    CHOOSE n \in 0..(Cardinality(exec[s]) + 1) : n # svcExecMap[s] /\ Named(s, n) = {}

Goto(r, label) == at' = [at EXCEPT ![r] = label]

-----------------------------------------------------------------------------
(* main and monitor *)

\* What a report that begins now has to have of service s: what is in a file or
\* dumped, and what the pods in the registry have counted; but not what a
\* fault before has cost: a pod marked or going to be marked is skipped, and
\* the files of a merge that has failed go.
Due(s) ==
    IF reg[s].IsDelete THEN {}
    ELSE Content(exec[s] \ (IF merging # None /\ merging.svc = s /\ merging.failed THEN merging.old ELSE {}))
         \cup (IF go[s] = None THEN Counted(reg[s].pods \ reg[s].HasError)
               ELSE go[s].got \cup Counted(reg[s].pods \ (reg[s].HasError \cup go[s].podErrorMap)))

\* The dump loop of schedulingJob comes round, or the monitor calls report.
Begin(r) ==
    /\ at[r] = "idle"
    /\ ~ctxDone
    /\ NewRound(r)
    /\ Goto(r, "dumpWait")
    /\ due' = IF r = "mon" THEN [s \in Service |-> Due(s)] ELSE due
    /\ UNCHANGED <<podVars, reg, fileVars, DumpLock, ctxDone, dumpVars, mergeVars, reportVars>>

\* DumpLock.Lock(), and Services.Range begins
Lock(r) ==
    /\ DumpLock = None
    /\ DumpLock' = r
    /\ \/ at[r] = "dumpWait" /\ Goto(r, "dump") /\ todo' = Service
       \/ at[r] = "mergeWait" /\ Goto(r, "merge") /\ todo' = Service
       \/ at[r] = "projectWait" /\ Goto(r, "project") /\ UNCHANGED todo
    /\ UNCHANGED <<podVars, reg, fileVars, ctxDone, wg, c, go, mergeVars, reportVars, due, boundVars>>

Doing(label) == \E r \in Caller : DumpLock = r /\ at[r] = label

\* A Range that finds the context done ends.
RangeStops ==
    /\ ctxDone
    /\ todo # {} /\ merging = None
    /\ todo' = {}
    /\ UNCHANGED <<podVars, reg, fileVars, lockVars, wg, c, go, mergeVars, reportVars, due, boundVars>>

-----------------------------------------------------------------------------
(* dumpExec and its wait group *)

NewDumper == [at |-> "get", left |-> {}, got |-> {}, file |-> 0, podErrorMap |-> {}, failed |-> FALSE, len |-> 0]

\* Mutant of Add: the goroutine is not counted.
AddUncounted == c < Limit /\ c' = c + 1 /\ wg' = wg

\* Mutant of Add: a full channel does not block.
AddUnlimited == c' = (IF c < Limit THEN c + 1 ELSE c) /\ wg' = wg + 1

\* Add(1) counts the goroutine and waits for a place in the channel.
Add == c < Limit /\ c' = c + 1 /\ wg' = wg + 1

\* wait.Add(1) and the go statement, for the next service of the range
RangeDumps(s) ==
    /\ Doing("dump")
    /\ ~ctxDone
    /\ s \in todo
    /\ todo' = todo \ {s}
    /\ Add
    /\ go' = [go EXCEPT ![s] = NewDumper]
    /\ UNCHANGED <<podVars, reg, fileVars, lockVars, mergeVars, reportVars, due, boundVars>>

\* Mutant of Done: the place in the channel is not given back.
DoneKeepsPlace(s) ==
    /\ UNCHANGED c
    /\ wg' = wg - 1
    /\ go' = [go EXCEPT ![s] = None]

\* Mutant of Done: it is called at the return as well as deferred.
DoneTwice(s) ==
    /\ c' = c - 2
    /\ wg' = wg - 2
    /\ go' = [go EXCEPT ![s] = None]

\* The goroutine ends, with the deferred wait.Done().
Done(s) ==
    /\ c' = c - 1
    /\ wg' = IF wg = 0 THEN 0 ELSE wg - 1
    /\ go' = [go EXCEPT ![s] = None]

\* wait.Wait() returns and the lock is released.  The monitor goes on to
\* mergeAllSvcExec; main does so every ten times, which Jobs counts.
DumpReturns(r) ==
    /\ DumpLock = r
    /\ at[r] = "dump"
    /\ todo = {}
    /\ wg = 0
    /\ DumpLock' = None
    /\ \/ Goto(r, "mergeWait")
       \/ r = "main" /\ Goto(r, "idle")
    /\ UNCHANGED <<podVars, reg, fileVars, ctxDone, dumpVars, mergeVars, reportVars, due, boundVars>>

-----------------------------------------------------------------------------
(* dumpExec: the goroutine of a service *)

Running(s, label) == go[s] # None /\ go[s].at = label

\* The service is deleted, before the dump or after it.
DeletedReturns(s) ==
    /\ Running(s, "get") \/ Running(s, "note")
    /\ reg[s].IsDelete
    /\ Done(s)
    /\ UNCHANGED <<podVars, reg, fileVars, lockVars, todo, mergeVars, reportVars, due, boundVars>>

\* The directory or the file cannot be made.
GetFails(s) ==
    /\ Running(s, "get")
    /\ ~reg[s].IsDelete
    /\ Fails /\ Costs(s, Counted(PodsOf(s)))
    /\ dirs' \in {dirs, dirs \cup {s}}
    /\ Done(s)
    /\ UNCHANGED <<podVars, reg, exec, lockVars, todo, mergeVars, reportVars>>

\* An empty file is made, and the pods are gone through but for the marked ones.
Get(s) ==
    /\ Running(s, "get")
    /\ ~reg[s].IsDelete
    /\ dirs' = dirs \cup {s}
    /\ exec' = [exec EXCEPT ![s] = @ \cup {[name |-> FreeName(s), units |-> {}]}]
    /\ go' = [go EXCEPT ![s].at = "dump", ![s].left = reg[s].pods \ reg[s].HasError, ![s].file = FreeName(s)]
    /\ UNCHANGED <<podVars, reg, lockVars, todo, wg, c, mergeVars, reportVars, due, boundVars>>

\* Mutant of DumpPod: all pods are dumped into one temporary file.
DumpPodOver(s, p) ==
    /\ Running(s, "dump")
    /\ p \in go[s].left \cap up
    /\ counter' = [counter EXCEPT ![p] = {}]
    /\ go' = [go EXCEPT ![s].left = @ \ {p}, ![s].got = counter[p]]
    /\ UNCHANGED <<up, executed, reg, fileVars, lockVars, todo, wg, c, mergeVars, reportVars, due, boundVars>>

\* "dump --reset" of one pod
DumpPod(s, p) ==
    /\ Running(s, "dump")
    /\ p \in go[s].left \cap up
    /\ counter' = [counter EXCEPT ![p] = {}]
    /\ go' = [go EXCEPT ![s].left = @ \ {p}, ![s].got = @ \cup counter[p]]
    /\ UNCHANGED <<up, executed, reg, fileVars, lockVars, todo, wg, c, mergeVars, reportVars, due, boundVars>>

\* The pod does not answer: it is noted and passed over.
DialFails(s, p) ==
    /\ Running(s, "dump")
    /\ p \in go[s].left
    /\ IF p \in up THEN Fails ELSE UNCHANGED boundVars
    /\ Costs(s, counter[p])
    /\ go' = [go EXCEPT ![s].left = @ \ {p}, ![s].podErrorMap = @ \cup {p}]
    /\ UNCHANGED <<podVars, reg, fileVars, lockVars, todo, wg, c, mergeVars, reportVars>>

\* The dump of a pod fails, before or after the reset: the goroutine returns, and
\* what it has dumped of other pods stays in temporary files nobody reads.
DumpFails(s, p) ==
    /\ Running(s, "dump")
    /\ p \in go[s].left
    /\ Fails /\ Costs(s, go[s].got \cup Counted(go[s].left))
    /\ counter' \in {counter, [counter EXCEPT ![p] = {}]}
    /\ Done(s)
    /\ UNCHANGED <<up, executed, reg, fileVars, lockVars, todo, mergeVars, reportVars>>

\* mergeExec of the dumps of the pods into the file of the service
MergePods(s) ==
    /\ Running(s, "dump")
    /\ go[s].left = {}
    /\ \E failed \in BOOLEAN :
        /\ IF failed THEN Fails /\ Costs(s, go[s].got) /\ UNCHANGED exec
           ELSE /\ exec' = [exec EXCEPT ![s] =
                       (@ \ Named(s, go[s].file)) \cup {[name |-> go[s].file, units |-> go[s].got]}]
                /\ UNCHANGED <<due, boundVars>>
        /\ go' = [go EXCEPT ![s].at = "note", ![s].got = {}, ![s].failed = failed]
    /\ UNCHANGED <<podVars, reg, dirs, lockVars, todo, wg, c, mergeVars, reportVars>>

\* nowSvc.ErrorMessage += svcErrorMessage, and the range over nowSvc.Pods begins
Note(s) ==
    /\ Running(s, "note")
    /\ ~reg[s].IsDelete
    /\ reg' = [reg EXCEPT ![s].ErrorMessage = @ \/ go[s].failed]
    /\ go' = [go EXCEPT ![s].at = "mark", ![s].len = Cardinality(reg[s].pods)]
    /\ UNCHANGED <<podVars, fileVars, lockVars, todo, wg, c, mergeVars, reportVars, due, boundVars>>

\* The pods that did not answer are marked, in the slice the registry has by now,
\* of which only as many are looked at as there were.
Mark(s) ==
    /\ Running(s, "mark")
    /\ \E P \in SUBSET reg[s].pods :
        /\ Cardinality(P) = go[s].len
        /\ reg' = [reg EXCEPT ![s].HasError = @ \cup (go[s].podErrorMap \cap P)]
    /\ Done(s)
    /\ UNCHANGED <<podVars, fileVars, lockVars, todo, mergeVars, reportVars, due, boundVars>>

-----------------------------------------------------------------------------
(* mergeAllSvcExec *)

\* A service that is deleted, that has no directory, or for which no file can
\* be made, is passed over.
MergeSkips(s) ==
    /\ Doing("merge")
    /\ ~ctxDone
    /\ merging = None
    /\ s \in todo
    /\ todo' = todo \ {s}
    /\ \/ (reg[s].IsDelete \/ s \notin dirs) /\ UNCHANGED <<due, boundVars>>
       \/ ~reg[s].IsDelete /\ s \in dirs /\ Fails /\ Costs(s, Content(exec[s]))
    /\ UNCHANGED <<podVars, reg, fileVars, lockVars, wg, c, go, mergeVars, reportVars>>

\* All files of the directory are merged into a new one, or the merge fails.
MergeSvc(s) ==
    /\ Doing("merge")
    /\ ~ctxDone
    /\ merging = None
    /\ s \in todo
    /\ ~reg[s].IsDelete /\ s \in dirs
    /\ todo' = todo \ {s}
    /\ \E failed \in BOOLEAN :
        /\ IF failed THEN Fails /\ Costs(s, Content(exec[s])) ELSE UNCHANGED <<due, boundVars>>
        /\ merging' = [svc |-> s, old |-> exec[s], new |-> FreeName(s), failed |-> failed]
        /\ exec' = [exec EXCEPT ![s] = @ \cup
               {[name |-> FreeName(s), units |-> IF failed THEN {} ELSE Content(exec[s])]}]
    /\ UNCHANGED <<podVars, reg, dirs, lockVars, wg, c, go, svcExecMap, reportVars>>

\* A merge that has failed for a service that is deleted by now leaves the files.
MergeReturns ==
    /\ merging # None
    /\ merging.failed /\ reg[merging.svc].IsDelete
    /\ merging' = None
    /\ UNCHANGED <<podVars, reg, fileVars, lockVars, dumpVars, svcExecMap, reportVars, due, boundVars>>

\* Mutant of NoteMerge: the failure is only logged.
NoteMergeNot == UNCHANGED reg

\* nowSvc.ErrorMessage += ...
NoteMerge == reg' = [reg EXCEPT ![merging.svc].ErrorMessage = @ \/ merging.failed]

\* Otherwise the listed files are removed, also when the merge has failed, which
\* is noted.  A file that cannot be removed stays.
RemoveMerged ==
    /\ merging # None
    /\ ~(merging.failed /\ reg[merging.svc].IsDelete)
    /\ NoteMerge
    /\ svcExecMap' = IF DumpLock = "mon" THEN [svcExecMap EXCEPT ![merging.svc] = merging.new] ELSE svcExecMap
    /\ \/ exec' = [exec EXCEPT ![merging.svc] = @ \ merging.old] /\ UNCHANGED boundVars
       \/ \E f \in merging.old : exec' = [exec EXCEPT ![merging.svc] = @ \ (merging.old \ {f})] /\ Fails
    /\ merging' = None
    /\ UNCHANGED <<podVars, dirs, lockVars, dumpVars, reportVars, due>>

MergeAllReturns(r) ==
    /\ DumpLock = r
    /\ at[r] = "merge"
    /\ todo = {} /\ merging = None
    /\ DumpLock' = None
    /\ Goto(r, IF r = "mon" THEN "projectWait" ELSE "idle")
    /\ UNCHANGED <<podVars, reg, fileVars, ctxDone, dumpVars, mergeVars, reportVars, due, boundVars>>

-----------------------------------------------------------------------------
(* report *)

Listed == {s \in Service : svcExecMap[s] # None}

\* Files that main has merged and removed since mergeAllSvcExec returned them
Gone == {s \in Listed : Named(s, svcExecMap[s]) = {}}

\* The files of the services are merged into the project file.
MergeProject ==
    /\ at["mon"] = "project"
    /\ Listed # {} /\ Gone = {}
    /\ project' = UNION {Content(Named(s, svcExecMap[s])) : s \in Listed}
    /\ DumpLock' = None
    /\ Goto("mon", "post")
    /\ UNCHANGED <<podVars, reg, fileVars, ctxDone, dumpVars, mergeVars, report, due, boundVars>>

ReportReturns ==
    /\ Goto("mon", "idle")
    /\ svcExecMap' = NoService(None)
    /\ project' = {} /\ due' = NoService({})

\* Nothing to merge, a file that is gone, or a command that fails: report
\* returns with the lock held, and callbackEndWithMessage cancels the job.
MergeProjectFails ==
    /\ at["mon"] = "project"
    /\ IF Listed = {} \/ Gone # {} THEN UNCHANGED boundVars ELSE Fails
    /\ ctxDone' = TRUE
    /\ ReportReturns
    /\ UNCHANGED <<podVars, reg, fileVars, DumpLock, dumpVars, merging, report>>

\* The project file is turned into a report, and callbackEnd delivers it.  An
\* error before or after that cancels the job.
Deliver ==
    /\ at["mon"] = "post"
    /\ \/ report' = project /\ UNCHANGED <<ctxDone, boundVars>>
       \/ report' \in {project, report} /\ ctxDone' = TRUE /\ Fails
    /\ ReportReturns
    /\ UNCHANGED <<podVars, reg, fileVars, DumpLock, dumpVars, merging>>

-----------------------------------------------------------------------------
(* What happens around it *)

\* A test runs code of pod p (external).
Execute(u, p) ==
    /\ u \notin executed
    /\ p \in up
    /\ executed' = executed \cup {u}
    /\ counter' = [counter EXCEPT ![p] = @ \cup {u}]
    /\ UNCHANGED <<up, reg, fileVars, lockVars, dumpVars, mergeVars, reportVars, due, boundVars>>

\* A pod stops, with its counters, or starts (external).
PodChanges(p) ==
    /\ Changed
    /\ up' = IF p \in up THEN up \ {p} ELSE up \cup {p}
    /\ counter' = [counter EXCEPT ![p] = {}]
    /\ Costs(Svc[p], counter[p])
    /\ UNCHANGED <<executed, reg, fileVars, lockVars, dumpVars, mergeVars, reportVars>>

\* saveServices stores a new slice of the pods that run.
SavePods(s) ==
    /\ reg' = [reg EXCEPT ![s].pods = up \cap PodsOf(s), ![s].HasError = {}]
    /\ UNCHANGED <<podVars, fileVars, lockVars, dumpVars, mergeVars, reportVars, due, boundVars>>

\* deleteService
Delete(s) ==
    /\ ~reg[s].IsDelete
    /\ Changed
    /\ reg' = [reg EXCEPT ![s].IsDelete = TRUE]
    /\ Costs(s, Unit)
    /\ UNCHANGED <<podVars, fileVars, lockVars, dumpVars, mergeVars, reportVars>>

\* saveJob cancels the job for one of another plan: the report under way may miss
\* whatever Range has not come to.
Cancel ==
    /\ ~ctxDone
    /\ Changed
    /\ ctxDone' = TRUE
    /\ due' = NoService({})
    /\ UNCHANGED <<podVars, reg, fileVars, DumpLock, at, dumpVars, mergeVars, reportVars>>

\* The agent starts again, loads the registry and takes the plan up: the
\* directory of the plan is all that is left.
Restart ==
    /\ reg' = [s \in Service |-> [reg[s] EXCEPT !.pods = up \cap PodsOf(s), !.HasError = {}, !.ErrorMessage = FALSE]]
    /\ Fresh(DumpLock', ctxDone', at', todo', wg', c', go', merging', svcExecMap', project', due')
    /\ UNCHANGED <<podVars, fileVars, report>>

Crash == Fails /\ Restart

\* saveServices has stored a shorter slice while the goroutine ranges over the
\* indices of the one before: out of range, and the agent ends.
MarkPanics(s) ==
    /\ Running(s, "mark")
    /\ go[s].len > Cardinality(reg[s].pods)
    /\ Restart
    /\ UNCHANGED boundVars

-----------------------------------------------------------------------------
(* The specification *)

Dump(s) ==
    \/ DeletedReturns(s) \/ GetFails(s) \/ Get(s)
    \/ \E p \in Pod : DumpPod(s, p) \/ DialFails(s, p) \/ DumpFails(s, p)
    \/ MergePods(s) \/ Note(s) \/ Mark(s) \/ MarkPanics(s)

RangeStep ==
    \/ RangeStops \/ MergeReturns \/ RemoveMerged
    \/ \E s \in Service : RangeDumps(s) \/ MergeSkips(s) \/ MergeSvc(s)

Returns(r) == DumpReturns(r) \/ MergeAllReturns(r)

Project == MergeProject \/ MergeProjectFails \/ Deliver

\* The steps of a round that has begun
System ==
    \/ \E r \in Caller : Lock(r) \/ Returns(r)
    \/ RangeStep
    \/ \E s \in Service : Dump(s)
    \/ Project

Environment ==
    \/ \E u \in Unit, p \in Pod : Execute(u, p)
    \/ \E p \in Pod : PodChanges(p)
    \/ \E s \in Service : SavePods(s) \/ Delete(s)
    \/ Cancel \/ Crash

Next == (\E r \in Caller : Begin(r)) \/ System \/ Environment

Spec == Init /\ [][Next]_vars

\* Some goroutine that can run does, and commands end.
FairSpec == Spec /\ WF_vars(System)

-----------------------------------------------------------------------------
(* Properties *)

\* dumpExec returns, and releases the DumpLock, only when all its goroutines have
\* ended: no merge lists a file that is still being filled, and no two dumps
\* of a service reset the same counters.
NoStraggler == ~Doing("dump") => go = NoService(None)

\* No more goroutines than the size of the wait group run at a time.
LimitKept == Cardinality({s \in Service : go[s] # None}) <= Limit

\* What has got into the files of a service stays in them, through merges, files
\* that cannot be removed and crashes between the merge and the removal; a
\* failed merge, whose files are removed all the same (job.go:532), is at least
\* noted at the service.
DumpedStays ==
    [][\A s \in Service : Content(exec[s]) \subseteq Content(exec'[s]) \/ reg'[s].ErrorMessage]_vars

\* Every report comes to its end, whatever fails: the wait group blocks nobody
\* for good, and the monitor gets the DumpLock each of the three times.
ReportEnds == at["mon"] # "idle" ~> at["mon"] = "idle"

\* What is still somewhere of service s: in its pods, in a dump, in a file
Kept(s) ==
    Counted(PodsOf(s)) \cup Content(exec[s]) \cup (IF go[s] = None THEN {} ELSE go[s].got)

L == INSTANCE Ledger WITH kept <- [s \in Service |-> Kept(s)]

\* The data plane implements the ledger: no interleaving of main, monitor and
\* dump goroutines loses a unit that the report under way has to have, a fault
\* of one service costs another nothing, and the report that is delivered has
\* all that is due.
KeepsLedger == L!Spec
=============================================================================
