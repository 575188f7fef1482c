# erda-sourcecov in TLA+

erda-sourcecov measures the test coverage of the Java services of a project
that runs in a Kubernetes namespace.  It consists of two programs:

* an **operator** (`main.go`, `controllers/`, `api/`) that keeps one
  StatefulSet, with its service account, role and binding, per `Agent` resource;
* the **agent** that this StatefulSet runs (`agent/`).  It polls the *center*
  (the erda platform) for a coverage plan, dumps the JaCoCo counters of the
  project's pods while the plan runs, merges the dumps, and sends a report when
  the plan ends.

This directory holds TLA+ models of the parts of these programs that are hard
to test, the TLC configurations that check them, and TLAPS proofs.

## Inventory

| Part | State | Operations | Interacts with |
|---|---|---|---|
| Detection jobs, `agent/core/job.go` | `RunJobs` (plan → `*DetectionJob`); per job `Status`, `JobStatus`, context, `DumpLock`; the plan's directory | `WatchJob`, `saveJob`, `schedulingJob` (two goroutines per job), `report`, `callbackEndWithMessage`, `dumpExec`, `mergeAllSvcExec` | center (poll, callbacks), service registry (reads it), work directory |
| Callbacks, `agent/core/callback.go` | none | `status`, `callbackReady`, `callbackEnd`, `callbackReport`, `uploadFile` | center, HTTP client |
| Reconciler, `controllers/` | none of its own: Agent with the annotation `spec`, StatefulSet, access objects at the API server; informer caches; work queue | `Reconcile`, `CreateResource`, `UpdateResource`, `upsertResource`, `ConvertAgent`, `FillDefaultValue` | API server, garbage collector, users |
| Service registry, `agent/core/watcher.go` | `Services` (name → `*Service` with pods and jars) | informer callbacks, `saveServices`, `reloadJarAddr`, `deleteService` | API server, pods, jobs |
| Coverage data, in `job.go` | counters in the pods, `.exec` files per service | the bodies of `dumpExec`, `mergeAllSvcExec`, `mergeExec` | pods, registry, `limit_wait_group` |
| HTTP client, `agent/pkg/httpclient` | request, retry options, DNS cache | `Do`, retry loop, cache refresh | network |
| Limited wait group | a channel and a wait group | `Add`, `Done`, `Wait` | `dumpExec` |
| Configuration, entry points, generated code | set once | - | - |

What is hard about each part:

* **Jobs.** All goroutines share unprotected job objects and find them by plan
  id again and again, minutes apart.  A job may have been deleted, or replaced
  by a later job of the same plan, between a `GetJob` and the `SetJob` that
  follows it.  `report` leaves the `DumpLock` locked on three error returns.
  Correct means: one monitor per plan, one job that is not cancelled, no
  directory removed under a job that uses it, no monitor waiting for ever, and
  every plan answered to the center.
* **Reconciler.** Reads come from caches, writes may conflict, the process may
  stop between two of them, and what has been applied is remembered in the very
  object that users edit.  Correct means: it converges, it overwrites nobody's
  edit, it leaves nothing behind, and the StatefulSet never runs without its
  access objects.
* **Registry.** Informer events race with reloads of jars that take minutes;
  locks are per object and every event makes a new object.  Jobs must not start
  before what was there at the start is loaded.  Correct means: the gate opens
  only then, the registry catches up with the cluster, a registered service is
  loaded, and a deletion is noticed.
* **Coverage data.** `dump --reset` moves coverage from a pod into a file: each
  error return afterwards may lose it.  Up to five goroutines dump while the
  registry changes under them, and two callers dump, merge and remove files in
  the same directories.  Correct means: what a report has to have gets into it
  unless a fault has cost it, a fault of one service costs no other, files are
  not touched while they are written, and every report comes to an end.
* **HTTP client.** A retry after a timeout replays a body that may have been
  consumed; an upload is streamed by a goroutine that may fail in the middle;
  redirects may lose the body; lookups race with the refresh of the DNS cache.
  Correct means: what arrives is whole, what is taken for stored is stored,
  requests end, and the cache keeps nothing older than its last refresh.

The complete list of hazards, each at its line and with the properties that
would catch it, is `hazards` in `PROJECT.json`.

## Modules

| Module | Models | Used by |
|---|---|---|
| `Jobs` | `job.go` and the callbacks it makes | `MCJobs`, `JobsProofs` |
| `MCJobs` | instances of `Jobs` for TLC (symmetry, view, constraints) | runs `jobs*` |
| `JobsProofs` | type correctness and the monitors, proved for all parameters | `JobsLiveProofs` |
| `JobsLiveProofs` | the remaining safety invariants of `Jobs`, proved | - |
| `Reconciler` | `agent_controller.go`, `converter.go` | `MCReconciler`, `ReconcilerProofs` |
| `MCReconciler` | instances of `Reconciler` for TLC | runs `reconciler*` |
| `ReconcilerProofs` | types, users' edits and access objects, proved for all parameters | - |
| `Services` | `watcher.go`, and the mark that `dumpExec` leaves in a service | `MCServices`, `ServicesProofs` |
| `MCServices` | instances of `Services` for TLC (labels) | runs `services*` |
| `ServicesProofs` | type correctness and loading, proved for all parameters | `RegistryProofs` |
| `RegistryProofs` | the preload and the registry following the cluster, proved | - |
| `Ledger` | abstract: what the data plane promises a report | `Coverage` |
| `Coverage` | `dumpExec`, `mergeAllSvcExec`, `report` of `job.go`; `limit_wait_group` | `MCCoverage`, `CoverageProofs` |
| `MCCoverage` | an instance of `Coverage` for TLC | run `coverage` |
| `CoverageProofs` | types, the wait group and the exec files, proved for all parameters | `LedgerProofs` |
| `LedgerProofs` | `Coverage` implements `Ledger`, proved | - |
| `DnsCache` | `dnscache.go` | `HttpClient` |
| `HttpClient` | a request of `client.go`, `request.go`, `retry.go`, composed with `DnsCache` | `MCHttpClient`, `HttpProofs` |
| `HttpProofs` | the DNS cache, types, bodies and retries of requests, proved for all parameters | - |
| `MCHttpClient` | an instance of `HttpClient` for TLC: the kinds of request | run `http` |

### Jobs

`Job` is a set of *addresses* of `DetectionJob` objects.  An address is
allocated (`Create`) only when neither the map nor a goroutine refers to it
(`Unused`), so a job object has an identity and pointer comparisons mean what
they mean in Go.  `RunJobs`, `Status`, `JobStatus`, `DumpLock` are the fields of
the same names; `ctxDone` is the set of jobs whose context is cancelled.
Goroutines are pairs `<<role, job>>`: `<<"main", j>>` is `schedulingJob` started
for `j`, `<<"mon", j>>` the closure it starts first.  `pc` says where a goroutine
is, `job` and `inner` are its local pointers: `job` the one of `schedulingJob` or
`report`, `inner` the one of the function called from there.  `watch` is the
single goroutine of `WatchJob`.

| Code | Actions |
|---|---|
| `WatchJob`, `status` | `Poll` |
| `saveJob`, unknown plan | `SaveNew` (cancel all), then `Create` or `CreateAborts` |
| `saveJob`, known plan | `SaveKnown`, `Update` |
| `schedulingJob` | `Start`, `StartReturns`, `LoadOK`, `LoadFails`, `FirstDumpEnds`, `ReadyOK`, `ReadyFails`, `GetReady`, `SetReady`, `LoopReturns`, `LoopDumps`, `LoopDumpEnds`, `LoopMergeEnds` |
| its monitor | `CheckCancelled`, `CheckFinished`, `CheckEnding`, `Cleanup`, `DeleteJob` |
| `report` | `ReportStarts`, `ReportDumpEnds`, `ReportMergeEnds`, `ReportMerged`, `ReportMergeFails`, `ReportXml`, `ReportXmlFails`, `ReportHtml`, `ReportHtmlFails` |
| `callbackEndWithMessage` | `FailJob`, `FailStore`, `FailPost` |
| `DumpLock.Lock()` in `dumpExec`, `mergeAllSvcExec`, `report` | `Acquire` |
| center, users, pod restarts (external) | `Record`, `UserStarts`, `UserEnds`, `UserCancels`, `Crash` |

Granularity.  A step ends wherever another goroutine can change what the code
relies on next.  A `GetJob` and the reads of the object found that follow it at
once are one step; a `GetJob` and a later `SetJob` are two.  The races on the
string `job.Status` are benign in this respect: a torn read of a string compares
unequal to all the constants, or equal to the old or the new value, so that the
monitor sleeps one round more or does what a step of the model does.  Sleeps are
not timed.  A `Lock` and the commands run under it are one section between
`Acquire` and the step that unlocks.  `retry.RetryOnConflict` repeats only
conflict errors of the Kubernetes API, which callbacks never return, so a
callback is one attempt.

The center is external.  It is modelled by what the agent's code takes for
granted: it answers with one plan, keeps a finished status, and accepts `ready`
only for a running plan.  A failing POST may or may not have been recorded.

`stale` is a history variable: the plans for which some `SetJob` has stored a
pointer that the map no longer held (`saveJob`, `callbackEndWithMessage` and
`schedulingJob` all do this).  Such a store resurrects a deleted job; since its
monitor has returned, nobody ever removes it again.  This is a real weakness of
the code and reachable in the model; the properties say what holds in spite of
it and what holds only for plans that it has not hit.  The monitor's returns for a
plan without a job are in the model (`CheckFinished`, `ReportStarts`), although
`MonitorHasJob` shows that they are never taken.  `Crash` empties `stale`
together with the map.

Other behaviour worth knowing, visible in the model: a monitor that sees a
finished status (`CheckFinished`) returns without `DeleteJob` and `rm`, so every
plan that ends normally stays in `RunJobs` with its directory until the next
restart; a main goroutine of an earlier job marks and fails the later job of the
plan; an ending plan is reported again every 30 seconds until the poll has seen
the new status.

### Reconciler

Each call to the API server is one action; between two of them users, garbage
collector, StatefulSet controller and restarts act.  `agent`, `sts`, `rbac` are
the objects at the API server, `cAgent` and `cSts` the caches Reconcile reads,
`lAgent` and `lSts` its local copies.  A spec is abstracted to one field that a
StatefulSet can change (`image`), one that it cannot (`store`: storage size and
class, labels), whether the defaults are filled in, and whether it carries the
snapshot annotation that `convertSts` deletes from the Agent.  A write carries
the resourceVersion that was read; since versions are only compared for
equality among the three copies of an object, a fresh one is any of four values
that no copy has, which keeps the model finite without a bound on writes.

| Code | Actions |
|---|---|
| `Reconcile` up to the comparison | `GetAgent`, `GetSts`, `GetStsNotFound`, `UnmarshalFails` |
| `CreateResource` | `UpsertResource` for account, role, binding; `CreateSts`; `Annotate` |
| `UpdateResource` | `UpsertResource` for role, binding, account; `UpdateSts`; `Annotate` |
| rest of `Reconcile` | `UpdateStatus`, `StatusPanics` |
| `SetupWithManager` | `SyncAgent`, `SyncSts` queue a request when a cache changes |
| errors, restarts (external) | `Error`, `Crash` |
| Kubernetes, users (external) | `CollectGarbage`, `StsProgress`, `UserCreates`, `UserEdits`, `UserDeletes` |

An `upsertResource` is one step: a Create that is refused and the Update that
follows have the same effect as one write, because the access objects carry no
resourceVersion and nobody else writes them.

### Services

`Services` is the map of the same name.  Every writer stores the pointer that it
has just found under the name, and nothing takes an entry out (`DeleteService`
deletes from `RunJobs`, whose keys are plan ids), so a service is one object for
the life of the process and a record stands for it: image, pods, what
`JarAddrList` holds, the two marks, and `reaper`, the goroutine that
`saveServices` leaves to delete the service later.  `go` says what each goroutine
does: nothing, about to `saveServices` with the pods that it has listed, in
`reloadJarAddr` about to copy, or about to store the result.  `"watcher"` is the
goroutine of `WatchJacocoPod`, `"informer"` the one that calls the handlers, and
`Thread` are the ones started for a reload; their number bounds how many reloads
run at once.  `boot`, `gate`, `list` and `next` are the position of
`WatchJacocoPod`, the lock `WhenStartLoadAllDeploymentLock`, the deployments it
has listed and how many of them it has taken up.

| Code | Actions |
|---|---|
| `WatchJacocoPod` | `Connect`, `ListDeployments`, `Preload`, `OpenGate`, `StartInformer`, `GiveUp` (an error of the client or the list) |
| the handlers | `AddFunc`, `UpdateFunc`, `DeleteFunc`, `DeleteFuncNotDeployment`; each calls `GetServiceByDeploy` or `DeleteServiceLater` |
| `saveServices` | `SaveNewSync`, `SaveNewAsync`, `SaveOld`, `SaveOldNewImage` |
| its deferred deletion | `ReaperWakes`, `Reap` |
| `getServiceJarPackage`, `copyFromPod` | `GetServiceJarPackage`, `GetServiceJarPackagePanics` |
| rest of `reloadJarAddr` | `ReloadJarAddr` |
| `dumpExec` on a failed merge | `MergeFails` |
| cluster, informer, restarts (external) | `Apply`, `Remove`, `PodsChange`, `StatusChanges`, `Relist`, `Restart` |

A copy ends with the jars of the image that the pod runs, with an error, or with
`"partial"`: `copyFromPod` reads `err` while the streaming goroutine may still
assign it, so a stream that fails may look like the end of the archive.  An
index into an empty `Pods` panics; no goroutine recovers, so the agent starts
again.  A broken watch loses the events that were on their way and lists anew;
what the list misses arrives as `DeletedFinalStateUnknown`.

The cluster is external.  The informer watches deployments, not pods: pods start
and terminate with no event (`PodsChange`), a pod that terminates is still listed
until it is gone, and the status of a deployment follows its pods at some later
time or not at all (`StatusChanges`, the only event that comes of pods).
`ready[d]` are the pods that are there and that the last status of `d` has
counted.  `RegistryFollows` claims these, and thereby assumes nothing of when
pods and statuses change.

What the code does not promise, visible in the model and therefore not stated as
a property: the jars may be those of an earlier image (the event of a new image
precedes its pods, and concurrent reloads of a service share no lock); a pod that
is gone stays registered until the next event of its deployment, and one that no
status counts yet may be missing; a deletion
that arrives as `DeletedFinalStateUnknown` is ignored; services are registered
under the label `app` but deleted under the name of the deployment; an event is
dropped when the pods cannot be listed.

### Coverage and Ledger

`Coverage` opens up what `Jobs` treats as one critical section.  What is counted
is abstracted to *units*, things that a test executes; a file holds a set of
units, and `jacococli merge` makes the union.  `counter[p]` is what pod `p` has
counted since its last reset, `exec[s]` the exec files in the directory of
service `s`, `reg` the part of the registry that a dump reads and writes.  `at`
says where the two callers are, `main` (the dump loop of `schedulingJob`) and
`mon` (the monitor, in `report`), which exclude each other by `DumpLock`.
`go[s]` is the dump goroutine of `s`; `wg` and `c` are the wait group and the
channel of `limitSyncGroup`; `todo` is what `Services.Range` has not come to.

| Code | Actions |
|---|---|
| the dump loop comes round, the monitor calls `report` | `Begin` |
| `DumpLock.Lock()` in three places | `Lock` |
| `Services.Range` in `dumpExec` | `RangeDumps` (with `Add`), `RangeStops` |
| the goroutine of a service | `Get`, `GetFails`, `DumpPod`, `DialFails`, `DumpFails`, `MergePods`, `Note`, `Mark`, `MarkPanics`, `DeletedReturns`; the last step of each path includes the deferred `Done` |
| `wait.Wait()` and the unlock | `DumpReturns` |
| `mergeAllSvcExec` | `MergeSkips`, `MergeSvc`, then `RemoveMerged` or `MergeReturns`; `MergeAllReturns` |
| rest of `report`, and `callbackEndWithMessage` after it | `MergeProject`, `MergeProjectFails`, `Deliver`, `ReportReturns` |
| registry (`Services` has the whole of it) | `SavePods`, `Delete` |
| `saveJob` for another plan | `Cancel` |
| tests, pods, restarts (external) | `Execute`, `PodChanges`, `Crash` |

Steps are as fine as files and registry are shared: between the listing of a
directory and the removal of its files, between a dump and its merge, and
between the length of a slice that `range` has taken and the index into the
slice that `saveServices` has stored since.  A shorter slice makes that index
panic, which ends the agent (`MarkPanics`).  `RangeDumps` takes the look at the
context and the `Add` that may wait for a place as one step; the code may start
one more goroutine for a job that is cancelled while it waits there, which is
what a cancellation right after the step is in the model.  The pods of a service have no order.

`Ledger` is the abstract specification, with no files, goroutines and locks: it
knows what was executed, what is kept per service, what is due to the report
under way, and the report delivered last.  A report is due to have what was kept
when it began, less what faults of the service have cost since.  `Coverage`
implements it (`KeepsLedger`) with `kept` mapped to the union of the counters of
the pods, of the running dump and of the files.  `due` is a history variable of
`Coverage` that no action of the code reads.  It is set when the monitor calls
`report`, and a failing step takes out of it what the code may lose by that
failure, so that every other step is obliged to lose nothing:

* a pod that does not answer costs what it has counted, a failing dump costs
  what the goroutine has dumped and has yet to dump, a failing merge the files
  that are merged (they are removed all the same), always of one service;
* a pod that is marked with `HasError` is passed over until the registry gets
  new pods, so what it has counted is not due;
* a deletion costs the service all, a cancellation the report all: after it
  `Range` ends early and the report that is delivered may be short.

This is an upper bound of the loss, not its exact amount.  A failing step of
`main` is charged also where the report could still get the units, as after a
goroutine that cannot make its exec file (`GetFails`, nothing was dumped) or
a merge that is skipped (`MergeSkips`, the files stay).  And `Forget` of `Ledger`
lets any of what is kept go while no report is under way, so that between two
reports `DumpedStays` alone says what files keep.

`Deliver` of `Ledger` then says that the report has every due unit and nothing
that was never executed.  It is safety only; that the report ends is `ReportEnds`.

Visible in the model and therefore not stated as a property: `main` may merge
and remove the files of a service between `mergeAllSvcExec` and the next `Lock`
of `report`; the merge of the project then misses a file and fails, with the
`DumpLock` held, and the plan fails.  Such a report is not delivered short.

### HttpClient and DnsCache

One request from its making to its end, against a transport and a server that
are external: the server may take the body and answer, answer without taking it
(a proxy's page, an error), redirect, break the connection, or stay silent.  What
is assumed of it is that it answers an upload with 2xx, JSON and `success` only if
it has taken the body to its end.  `i` and `j` are the counters of `retry` and `retryIfTimeout`; `left` is what
the next attempt will find of the body, `out` what the attempt under way carries.
For a multipart body `pipe`, `written` and `file` are the state of the goroutine
that writes the form.  The body is abstracted to whole or part.

| Code | Definitions |
|---|---|
| `Get`, `Head`, the other methods, `newRequest` | `Defaults`, `RetryOption`, `mergeRetryOptions` |
| `Do` and the body setters | `Do`, `DoFails` |
| `dupRequest` | `dupRequest`, `dupRequestFails` |
| `mkDialContext` | `Dial`, `Connect` (`Reuse`: an idle connection) |
| `WithCompleteRedirect`, the client's timeout | `Redirect`, `Timeout` |
| goroutine of `MultipartFormDataBody` | `Write`, `WriteEnds`, `ReadFails`, `WriteFails` |
| `retryIfTimeout`, `retry` | `Judge` (with `Wants`, `Asked`, `Panics`) |
| `JSON`, and the check of `uploadFile` | `JSON` |
| `lookup` of the DNS cache | `Take`, `Load`, `Resolve`, `Store`, `Return` |
| `startRefresh` | `Refresh` |

A lookup keeps running when the attempt that started it has timed out, and stores
its answer later: the maps of before a refresh are part of the state, since a
lookup may still hold them.  `DnsFresh` is about the map in use; a lookup that took
the map before the refresh may still be answered from the old one.

Where code and comment disagree: `mergeRetryOptions` says of `NoRetry` that the
request is "run only once" (`retry.go:50`), but `retryIfTimeout` sends it up to
three times when attempts time out, although the server may have taken it each
time.  Other behaviour that the model shows and no property forbids: a request
with `Retry5XX` alone panics when the server cannot be reached; after an error
of a reader given to `RawBody` the next attempt sends the rest of the body alone;
when `Do` fails, the goroutine of a multipart body waits for ever and keeps the
file open.  The agent itself uses this client only to upload files.

## Runs

All bounds are constants of the configurations.

| Run | Instance | Checks |
|---|---|---|
| `jobs` | 1 plan, 2 jobs, everything may fail, merge every 2nd dump, symmetric jobs | `TypeOK`, `OneMonitor`, `MonitorHasJob`, `MonitorNotStuck`, `LiveJobHasDir` |
| `jobs_two_plans` | 2 plans, 2 jobs, no failures, until a plan gets stale, one of the plans may end | `OneLiveJob` |
| `jobs_progress_faults` | 1 plan, 1 job, 1 restart, failing commands, fairness | `PlanProgresses`, `CancelledMonitorEnds` |
| `reconciler` | 2 Agents in turn, 1 edit at any time, 1 error or restart | `TypeOK`, `StsHasRbac`, `NoLostEdit` |
| `reconciler_converges` | 1 Agent, deleted at any time, 1 edit while the operator is idle, 1 status change, fairness | `Converges`, `DeletedIsCleaned` |
| `reconciler_lost_annotation` | 1 Agent, 1 edit at any time | `Converges` is **violated** |
| `reconciler_immutable` | 1 Agent, 1 edit of a field a StatefulSet cannot change | `Converges` is **violated** |
| `services` | 1 deployment, 2 images, 3 changes, 1 broken watch, 2 reloads at once, connecting, copying and merging may fail, fairness | `TypeOK`, `EveryServiceLoads`, `PreloadComplete`, `RegistryFollows`, `DeletionNoticed` |
| `services_reaped` | 1 deployment, 1 change, fairness | `DeletedIsReaped` is **violated** |
| `services_no_pods` | 1 deployment, no changes, fairness | `PreloadEnds` is **violated** |
| `coverage` | 2 services, one with 2 pods and one without, 1 unit, limit 1, 1 round of main and 1 report, 1 change, 1 fault, fairness | `TypeOK`, `NoStraggler`, `LimitKept`, `DumpedStays`, `ReportEnds`, `KeepsLedger` |
| `http` | 6 kinds of request, 1 other lookup at a time, 2 addresses, 1 refresh, files of 2 writes, fairness | `TypeOK`, `DnsFresh`, `RetriedWhole`, `StoredIfOk`, `NoPanicByDefault`, `RequestEnds` |

Why these bounds are enough to be interesting: two job addresses let a plan be
deleted and started again while main and monitor of its first job are still
under way, which is what all hazards of pointer reuse need, and three
generations arise as addresses are reused.  Two plans are needed for
`OneLiveJob` only.  The two-plan run stops at states with a stale plan, beyond
which `OneLiveJob` says nothing about that plan.  Two Agents in turn let every
object of a deleted Agent meet its successor.  The reconciler model needs no
bound on writes or rounds; edits, status changes and failures are bounded by
one, because the next Reconcile starts from scratch and only the objects
remember anything.  A *change* of `Services` is an edit, a creation, a deletion,
pods that start or go, a new status, or a restart of the agent, at any moment: three
of them let pods start and be counted after an edit, or a
deployment go and come back with another image and other pods while the handler
and a reload still work on the first.  A list of pods that fails (`"pods"`) is
left out, because `RegistryFollows` does not hold with it; the theorems of
`ServicesProofs` include it, the two of `RegistryProofs` exclude it as well.  Two images suffice to tell an outdated
copy from a current one.  The runs have one deployment, named like its label;
`RegistryTracks` is about any number of them and any labels.

`coverage`: two pods of one service let one of them fail after the other was
reset, and a second service makes the limit of one bind.  One unit is enough,
because the properties speak of each unit by itself and TLC lets it be executed
in either pod at any moment.  One round of main next to one report gives every
meeting of the two callers at the lock; a change is a pod that stops or starts, a
deletion or a cancellation, while registry events are not bounded.  `http`: the
six kinds of request cover each default, each option, the three kinds of body,
and `NoRetry` among others.  Attempts, redirects and addresses need no bound, as
the counters of the code bound the attempts.  `DnsFresh` needs one lookup that
outlives a refresh during which the host moves.

Deadlock checking is off for `jobs_progress_faults`, where the only address may
be held for ever by a main goroutine that waits for a lock that report leaked,
for reconciler and registry, which are idle when there is nothing to do, and
for `coverage`, where the rounds end.

Fairness.  `Jobs`: every goroutine that can run does (Go's scheduler), commands
end, a mutex that is free again and again is obtained by each waiter (Go's
mutexes hand over to the longest waiter), and the settings file can be written
now and then.  Nothing is assumed of users, callbacks failing, and restarts;
`PlanProgresses` is checked without lost callbacks and without file errors,
because the code gives up after one lost callback, and returns silently when
the plan's directory cannot be made.  `Reconciler`: the worker takes what is
queued (the back-off of errors is finite), the watches deliver, the garbage
collector works.  `Services`: goroutines that can run do, and the informer
delivers, and the ten minutes before the deferred deletion pass; nothing is
assumed of the cluster and of restarts.
`Coverage`: some goroutine that can run does and commands end, nothing more: the
lock need not be handed over fairly, since rounds are bounded, and tests, pods,
registry and users owe nothing.  `HttpClient`: the client's goroutines run and
its timer fires; the server, the dial and the lookups need not make progress.

### Findings

* `reconciler_lost_annotation`.  The StatefulSet is created before the
  annotation is written.  A concurrent edit, an error or a restart in between
  leaves an Agent without annotation, for which `json.Unmarshal("")` fails in
  every later Reconcile.
* `reconciler_immutable`.  An edit of storage or labels makes every later
  Reconcile fail, as the new StatefulSet spec is refused, and hides all other
  edits and the status until somebody takes it back.
* `services_reaped`.  `DeleteService`, which the goroutine of a deleted service
  calls after ten minutes, deletes the name from `RunJobs`, whose keys are plan
  ids, and not from `Services`.  The service stays registered and marked as
  deleted until the agent restarts, and when its deployment is created again its
  pods are not dumped.
* `services_no_pods`.  The preload takes the first pod of every enabled
  deployment; one without pods, for instance scaled to zero, makes it panic
  after every start, before the gate opens, so that the agent neither watches
  nor runs jobs.

## Proofs

Every invariant and action property that a passing run checks, and the
refinement, is also a theorem, for all values of the constants (the two of
`RegistryProofs` with a hypothesis on `Faults`, as in the run).  The bounds of
the runs (`MaxCrash`, `MaxChange`, `MaxFail`, `MaxAgents` and so on) are any
natural numbers there.  The assumptions on the constants say what they stand for
(finite sets of services, a limit that is not zero, a `None` that is none of the
values it is an alternative to); TLC evaluates them in every run.  Each inductive
invariant also holds in a TLC run on the instance of its component (not kept).

### Jobs

The theorems hold for all sets `Plan`, `Job`, all `Faults`, every `MergeEvery`
and `MaxCrash` that satisfy `JobsAssumption`.  The inductive invariant of `Jobs`
has four layers, each preserved with the help of the ones before it.

1. `TypeInv` (`JobsProofs`): `TypeOK`, and that a goroutine that runs has a plan
   and a pointer about to be stored is not nil.  Gives `TypeCorrect`.
2. `MonitorInv`: `OneMonitor` and `MonitorHasJob` depend on each other (a
   monitor that is alone is the only one to delete its job; a plan with a
   monitor has a job, so `saveJob` creates none) and on `CreateUnwatched`, which
   carries the result of `saveJob`'s lookup to the creation.  Gives `Monitors`
   and `MonitorsFindJobs`.
3. `LiveInv` (`JobsLiveProofs`): `OneLiveJob` and `LiveJobHasDir` need that a
   live job is the one in the map (`Registered`), that nothing is live when
   `saveJob` is about to create (`CreateAlone`), and that the monitor of a plan
   that is not stale removes the plan only after the cancellation of its own job
   (`MonitorOwn`).  The argument: a `SetJob` that changes the map makes the plan
   stale, nothing else but the plan's own monitor removes the entry, and by then
   the job is cancelled; so a job stays registered as long as it is live, and a
   lookup that finds no job proves that none is live.  Gives `LiveJob` and
   `Directory`.
4. `LockInv`: a pointer held under a plan is to a job of that plan
   (`PlanOfPointers`), a monitor of a plan that is not stale locks its own job
   (`MonitorPointers`), the main goroutine releases every `DumpLock` it takes
   (`MainReleases`), and a monitor that keeps one, by the return that skips the
   `Unlock`, is on its way to cancel that job, and then only cleans up
   (`MonitorLeaks`); so it never comes back to wait for the lock it kept.  Gives
   `MonitorLocks`.

### Services

`ServicesProofs` proves its theorems for all sets of names, images, addresses
and threads, all labels and all `Faults` that satisfy `ServicesAssumption` and
`NoneAssumption`.

1. `TypeInv`: `TypeOK`, that a goroutine about to store has a result that a copy
   can return (`CopyHasResult`), and that nothing has been listed before the list
   (`NotListed`).  `TypeOK` alone is not inductive: without `NotListed` a shorter
   list could replace one of which more has been taken up.  `CopyHasResult` is
   for the next layer.  Gives `ServicesTypeCorrect`.
2. `LoaderInv`: `EveryServiceLoads`, and that a goroutine that loads the
   registered object has one (`LoaderRegistered`), since otherwise the one
   loader of a service could drop its result.  Gives `ServicesLoad`.

`RegistryProofs` adds two theorems with the hypothesis that the pods of a service
can always be listed (`"pods" \notin Faults`).  Without it both are false of the
code, which drops a deployment of the preload, or an event, whose pods it cannot
list.  All other failures, restarts and broken watches are included.

3. `PreloadInv`: `PreloadComplete` speaks of the moment the gate opens, so the
   invariant has to carry what `WatchJacocoPod` has done by then.  What it has
   taken up from its list is registered, but for the deployment it has in hand
   (`Preloaded`); before the gate opens nobody else loads a service for the first
   time (`Roles`) and nobody runs out of turn (`BootOrder`); and afterwards none of
   the listed services is being loaded for the first time (`AllLoaded`), because
   a first load needs a service that is not registered.  Gives `JobsFindServices`.
4. `FollowInv`: `RegistryFollows` is about an informer that is idle.  At any other
   time an enabled deployment is `Tracked`: the last of its pending events shows
   it as it is, or no event of it is pending and what the informer has in hand
   for its label, or else the registry, has its image and the pods that its
   status counts.  Pods that start or go by themselves do not disturb this: the
   first are not counted yet, the others not any more (`ReadyThere`).  Deployments
   that share a label are the hard case: an event of one overwrites the entry of
   the other.  The entry still has the pods of both, which are listed by label,
   and the image is claimed only for a label that is one deployment's own.  Also checked by TLC with two deployments of one label.
   Gives `RegistryTracks`.

### Coverage and Ledger

The theorems hold for any finite sets of services and pods, any units and any
size of the wait group.

1. `LockInv` (`CoverageProofs`): `TypeOK`; whoever is in a critical section holds
   the `DumpLock`; there are dump goroutines only while some caller is in
   `dumpExec` (`NoStraggler`), none of them for a service that `Range` has not come
   to, and merges only with the lock held; `wg` and `c` are both the number of
   goroutines.  `NoStraggler` needs the last, since `Wait` sees only `wg`, and the
   count needs that no service gets a second goroutine.  `TypeOK` itself needs
   that there is always a free name for a new file.  Gives `TypeCorrect`,
   `DumpWaits`, `LimitHolds`.
2. `FileInv`: the file that a goroutine has made is empty until it is merged into,
   and as long as a merge that has not failed has yet to remove its files, the new
   file is there and has all of their content.  Together with `LockInv`, by which
   no dump runs during a merge, it follows that only a failed merge loses what was
   dumped, and that it leaves its note.  Gives `DumpedIsKept`.
3. `LedgerProofs` shows `Spec => KeepsLedger`, one step per action.  Four simple
   invariants say where units can be: only in pods of their service (`PodInv`),
   in files only where there is a directory (`DirInv`), nowhere unless executed
   (`UnitInv`), and no goroutine writes a file that `mergeAllSvcExec` has returned
   (`ListedInv`).  `DueInv` is the core: for every position of the monitor in
   `report` it says where what is due of a service is, first in pods that the
   next dump will ask, then in the running dump, in files that no failed merge is
   about to remove, in the merged file of the service, and in the project file.
   It has to hold while main dumps and merges between the three critical sections
   of `report`, which is why `dumpWait` counts the dump of main among the places
   and `mergeWait` only the files that stay.  Gives `ImplementsLedger`.

### Reconciler

The theorems hold for any number of Agents, edits, status changes and errors.

1. `TypeInv`: `TypeOK`, and that an update has a StatefulSet to update.  That
   `UpdateSts` has one is part of `TypeOK`, and inductive only when the steps
   before it know it too.  Gives `OperatorTypeCorrect`.
2. `CopyInv`: a copy with the resourceVersion of the Agent is the Agent, as the
   cache has it (`CacheExact`) or with what Reconcile has made of it by then
   (`CopyExact`).  It is kept because every write takes a version that no copy
   has (`FreshIsFresh`: four versions for three copies).  Since the API server
   refuses every other copy, a write is of the current spec.  Gives `EditsSurvive`.
3. `RbacInv`: `StsHasRbac` must survive the deletion of an Agent and the creation
   of another of the same name, with the collector at work.  Copies of Agents
   come in the order of their uids (`UidsOrdered`), so when an Agent has a
   StatefulSet, Reconcile has done with all Agents before it (`OwnerSeen`) and
   cannot hand an access object back to one of them; and what
   `CreateResource` has made for a living Agent has not been collected
   (`RbacMade`).  Gives `PodsHaveAccess`.

### HttpClient

`HttpProofs` proves its theorems for any set of requests, lookups and addresses,
any number of refreshes and any size of files, with any order of retry options.

1. `ReqInv`: what is left of a body that is not the caller's own reader is whole,
   what an attempt carries is whole or, after a redirect of a pipe, nothing, and
   an answer "2xx" in JSON comes with the body having been taken (`BodyInv`).  That
   `ok` is set only when the request is done is needed because a later attempt
   would change the answer.  Gives `BodiesReplayed` and `UploadsStored`.  The
   second rests on the assumption about the server in `Serve` and `Refuse`.
2. `DnsInv`: `DnsFresh` is not inductive, since a lookup may be about to store.
   A lookup that holds the current map has an answer of after the refresh, no
   lookup holds a map that is yet to come, and those maps are empty.  Gives
   `CacheFresh`.  That a request touches the cache only by lookups
   (`RequestsLookUp`) carries it from the cache to the composed system.
3. `Fields` and `OkType`: the types of a request, of which `ReqInv` knows the
   fields and `DnsInv` gives those of the cache.  The counters stay in range
   because `mergeRetryOptions` never asks for more attempts than one of its options
   (`RetryTimes`).  Gives `HttpTypeCorrect`.
4. `Judged`: an attempt without a response has an error.  With the options the
   client chooses itself the first function that is asked then is `RetryErrResp`'s,
   or there is none, so that no function reads the missing response
   (`DefaultFns`).  Gives `DefaultsSafe`.

### Only model-checked

The liveness properties: `PlanProgresses`, `CancelledMonitorEnds`, `Converges`,
`DeletedIsCleaned`, `DeletionNoticed`, `ReportEnds`, `RequestEnds`.  They rest on
fairness, and the prover handles neither `ENABLED` nor fairness.  The properties
that the code violates (`Converges`, `DeletedIsReaped` and `PreloadEnds`, see Findings) are shown by
counterexamples.

## Not modelled

Message texts (`buildCallbackErrorMessage` cuts them after 1500 bytes), URLs,
headers, TLS, traces and the progress display of the HTTP client, its `inet`
protocol and the ways to read an answer that the agent does not use;
configuration, entry points and generated code (set once, or nothing but wiring);
paths, modes and links of the archives copied out of pods.  `Coverage` takes
starting, ending and cancelling a job as given, which is the subject of `Jobs`,
and the registry's events, which is the subject of `Services`; the removal of a
plan's directory five minutes after the cancellation is in `Jobs` only.

## Plan

The components of the inventory that have state of their own are modelled, their
safety properties are checked and proved.  What may follow:

1. proofs: the same theorems from weaker assumptions where one turns out not to be
   needed, and shorter arguments for the data plane;
2. `HttpClient`: the ways to read an answer that the agent does not use yet;
3. when the code changes: the definition that `map` names for the changed lines
   first, then the runs, then the proofs that use it.
