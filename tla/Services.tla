------------------------------ MODULE Services ------------------------------
(***************************************************************************)
(* The service registry of the agent: agent/core/watcher.go.               *)
(*                                                                         *)
(* WatchJacocoPod preloads the services of all deployments, lets WatchJob  *)
(* through the gate WhenStartLoadAllDeploymentLock, and from then on       *)
(* follows the deployments with an informer.  A service is registered      *)
(* under the label "app" of its deployment; its jars are copied out of one *)
(* of its pods by reloadJarAddr, in the goroutine that registers it or in  *)
(* one of its own.                                                         *)
(*                                                                         *)
(* All writers of the map store the pointer they have just found under the *)
(* same name, and nothing takes an entry out, so that a service is one     *)
(* object for the life of the process and a record stands for it.          *)
(*                                                                         *)
(* The informer is external: it calls one handler at a time, in the order  *)
(* of the watch, and lists again when the watch breaks.                    *)
(***************************************************************************)
EXTENDS Naturals, Sequences, FiniteSets

CONSTANTS
    Name,        \* names of deployments and of services
    App,         \* App[d]: the label "app" of deployment d
    Image,       \* images, and the jars found in a pod that runs one
    Addr,        \* addresses of pods
    Thread,      \* goroutines started for a reload; bounds how many run at once
    None,        \* an object that does not exist
    Faults,      \* what may fail: "client" (connecting, listing the deployments),
                 \* "pods" (listing the pods), "copy" (copying out of a running pod),
                 \* "merge" (merging what a job has dumped)
    MaxChange,   \* bound on the changes of the cluster and restarts of the agent
    MaxRelist    \* bound on the watches that break

ASSUME ServicesAssumption ==
    /\ IsFiniteSet(Name)
    /\ App \in [Name -> Name]
    /\ Image \cap {"none", "partial", "error"} = {}
    /\ Thread \cap {"watcher", "informer"} = {}
    /\ Faults \subseteq {"client", "pods", "copy", "merge"}
    /\ {MaxChange, MaxRelist} \subseteq Nat

-----------------------------------------------------------------------------
(* Types *)

\* A deployment: its image, and whether one of the variables OPEN_JACOCO_AGENT
\* and SOURCECOV_ENABLED is "true".
Deployment == [image: Image, on: BOOLEAN]

Pod == [image: Image, addr: Addr]

\* What JarAddrList holds: nothing yet, the jars of an image, or what a copy
\* that was cut short without an error has left.
Jars == Image \cup {"none", "partial"}

\* reaper: the goroutine that saveServices starts to delete the service later
Service == [image: Image, pods: SUBSET Pod, jars: Jars, ErrorMessage: BOOLEAN,
            IsDelete: BOOLEAN, reaper: {"waits", "sleeps", "ended"}]

ASSUME NoneAssumption == None \notin Service

\* "unknown" is a deletion of which the informer has no object to show.
Event == [type: {"add", "update"}, name: Name, deploy: Deployment]
    \cup [type: {"delete", "unknown"}, name: Name]

\* The watcher runs WatchJacocoPod, the informer the event handlers.
Go == {"watcher", "informer"} \cup Thread

Idle == [at |-> "idle"]

\* A goroutine between getServiceByDeploy and saveServices
Saving == [at: {"save"}, name: Name, image: Image, pods: SUBSET Pod, sync: BOOLEAN]

\* A goroutine in reloadJarAddr: own when it was given the registered object,
\* otherwise pods is what the object it was given holds; got is the result.
Loading == [at: {"copy", "store"}, name: Name, own: BOOLEAN, pods: SUBSET Pod,
            got: Jars \cup {"error"}]

VARIABLES
    deployments,   \* the deployments at the API server
    pods,          \* per label the pods at the API server, those that terminate too
    ready,         \* per deployment the pods that its status counts
    changes,       \* changes and restarts so far
    events,        \* events of the watch that have not been handled
    known,         \* names of the deployments in the store of the informer
    relists,       \* watches broken so far
    boot,          \* where WatchJacocoPod is
    gate,          \* WhenStartLoadAllDeploymentLock
    list,          \* the deployments WatchJacocoPod has listed
    next,          \* how many of them have been taken up
    watchListDeployLoadDoneNum,
    Services,      \* the registry
    go             \* what the goroutines do

clusterVars == <<deployments, pods, ready, changes>>
watchVars   == <<events, known, relists>>
bootVars    == <<boot, gate, list, next>>
vars == <<clusterVars, watchVars, bootVars, watchListDeployLoadDoneNum, Services, go>>

TypeOK ==
    /\ deployments \in [Name -> Deployment \cup {None}]
    /\ pods \in [Name -> SUBSET Pod]
    /\ ready \in [Name -> SUBSET Pod]
    /\ changes \in 0..MaxChange
    /\ events \in Seq(Event)
    /\ known \in SUBSET Name
    /\ relists \in 0..MaxRelist
    /\ boot \in {"client", "list", "preload", "start", "watching", "ended"}
    /\ gate \in {"locked", "open"}
    /\ list \in Seq([name: Name, deploy: Deployment])
    /\ next \in 0..Len(list)
    /\ watchListDeployLoadDoneNum \in 0..Len(list)
    /\ Services \in [Name -> Service \cup {None}]
    /\ go \in [Go -> Saving \cup Loading \cup {Idle}]

\* The agent right after its start: WatchJacocoPod has locked the gate.
Start(b, g, l, n, done, svcs, work) ==
    /\ b = "client" /\ g = "locked"
    /\ l = <<>> /\ n = 0 /\ done = 0
    /\ svcs = [m \in Name |-> None]
    /\ work = [r \in Go |-> Idle]

Deployments(n) == {d \in Name : App[d] = n /\ deployments[d] # None}

\* The pods that may run for service n
Pods(n) == {[image |-> deployments[d].image, addr |-> a] : d \in Deployments(n), a \in Addr}

Init ==
    /\ deployments \in [Name -> Deployment \cup {None}]
    /\ pods \in [Name -> SUBSET Pod]
    /\ \A n \in Name : pods[n] \subseteq Pods(n)
    /\ ready \in [Name -> SUBSET Pod]
    /\ \A d \in Name : ready[d] \subseteq IF deployments[d] = None THEN {} ELSE pods[App[d]]
    /\ changes = 0
    /\ events = <<>> /\ known = {} /\ relists = 0
    /\ Start(boot, gate, list, next, watchListDeployLoadDoneNum, Services, go)

-----------------------------------------------------------------------------
(* The cluster and the informer (external) *)

Existing == {d \in Name : deployments[d] # None}

\* The sequences in which the elements of D come once each
Orders(D) ==
    {q \in [1..Cardinality(D) -> D] : \A i, j \in 1..Cardinality(D) : q[i] = q[j] => i = j}

Emit(q) == events' = IF boot = "watching" THEN events \o q ELSE events

Changed ==
    /\ changes < MaxChange
    /\ changes' = changes + 1

\* A deployment is created or edited.
Apply(d, new) ==
    /\ Changed
    /\ deployments[d] # new
    /\ deployments' = [deployments EXCEPT ![d] = new]
    /\ Emit(<<[type |-> IF deployments[d] = None THEN "add" ELSE "update",
               name |-> d, deploy |-> new]>>)
    /\ UNCHANGED <<pods, ready, known, relists, bootVars, watchListDeployLoadDoneNum, Services, go>>

Remove(d) ==
    /\ Changed
    /\ deployments[d] # None
    /\ deployments' = [deployments EXCEPT ![d] = None]
    /\ ready' = [ready EXCEPT ![d] = {}]
    /\ Emit(<<[type |-> "delete", name |-> d]>>)
    /\ UNCHANGED <<pods, known, relists, bootVars, watchListDeployLoadDoneNum, Services, go>>

\* Pods of service n are started, or are gone: no deployment changes, and the
\* informer, which watches nothing else and never lists by itself, is not told.
PodsChange(n) ==
    /\ Changed
    /\ \E new \in SUBSET (pods[n] \cup Pods(n)) :
        /\ new # pods[n]
        /\ pods' = [pods EXCEPT ![n] = new]
        /\ ready' = [d \in Name |-> IF App[d] = n THEN ready[d] \cap new ELSE ready[d]]
    /\ UNCHANGED <<deployments, watchVars, bootVars, watchListDeployLoadDoneNum, Services, go>>

\* The status of a deployment is brought up to date, at some time after its pods
\* have changed; it may count pods that terminate and miss some that run.
StatusChanges(d) ==
    /\ Changed
    /\ deployments[d] # None
    /\ \E new \in SUBSET pods[App[d]] : ready' = [ready EXCEPT ![d] = new]
    /\ Emit(<<[type |-> "update", name |-> d, deploy |-> deployments[d]]>>)
    /\ UNCHANGED <<deployments, pods, known, relists, bootVars, watchListDeployLoadDoneNum, Services, go>>

\* The store of the informer once it has handled the events of q
StoreAfter(q) ==
    {d \in Name : LET E == {i \in 1..Len(q) : q[i].name = d}
                  IN  IF E = {} THEN d \in known
                      ELSE \E i \in E : /\ q[i].type \in {"add", "update"}
                                        /\ \A j \in E : j <= i}

\* What a list makes of name d for an informer with that store
ListEvent(d, store) ==
    IF d \notin Existing THEN [type |-> "unknown", name |-> d]
    ELSE [type |-> IF d \in store THEN "update" ELSE "add", name |-> d, deploy |-> deployments[d]]

Listed(store) ==
    {[i \in DOMAIN q |-> ListEvent(q[i], store)] : q \in Orders(Existing \cup store)}

\* The watch breaks, events that were on their way are lost, and a new list
\* takes their place: a deployment that it misses is deleted, in an unknown state.
Relist ==
    /\ boot = "watching"
    /\ relists < MaxRelist
    /\ relists' = relists + 1
    /\ \E k \in 0..Len(events) :
        LET kept == SubSeq(events, 1, k)
        IN  \E q \in Listed(StoreAfter(kept)) : events' = kept \o q
    /\ UNCHANGED <<clusterVars, known, bootVars, watchListDeployLoadDoneNum, Services, go>>

-----------------------------------------------------------------------------
(* getServiceByDeploy and saveServices *)

\* getServiceByDeploy reads the pods of the label.  It returns nil, and the caller
\* is done, when the deployment is not enabled or the pods cannot be listed.
GetServiceByDeploy(g, e, sync) ==
    \/ /\ ~e.deploy.on \/ "pods" \in Faults
       /\ UNCHANGED go
    \/ /\ e.deploy.on
       /\ go' = [go EXCEPT ![g] =
              [at |-> "save", name |-> App[e.name], image |-> e.deploy.image,
               pods |-> pods[App[e.name]], sync |-> sync]]

Load(n, own, ps) == [at |-> "copy", name |-> n, own |-> own, pods |-> ps, got |-> "none"]

\* A service that is not registered gets an entry and, waiting for its
\* context, the goroutine that is to delete it.
Register(g) ==
    /\ go[g].at = "save"
    /\ Services[go[g].name] = None
    /\ Services' = [Services EXCEPT ![go[g].name] =
           [image |-> go[g].image, pods |-> go[g].pods, jars |-> "none",
            ErrorMessage |-> FALSE, IsDelete |-> FALSE, reaper |-> "waits"]]

\* go func() { reloadJarAddr(svc) }
GoLoad(g, load) ==
    \E t \in Thread :
        /\ go[t] = Idle
        /\ go' = [go EXCEPT ![g] = Idle, ![t] = load]

\* Mutant of SaveNewSync: the caller does not wait for the jars.
SaveNewNoWait(g) ==
    /\ Register(g)
    /\ go[g].sync
    /\ GoLoad(g, Load(go[g].name, TRUE, {}))
    /\ UNCHANGED <<clusterVars, watchVars, bootVars, watchListDeployLoadDoneNum>>

SaveNewSync(g) ==
    /\ Register(g)
    /\ go[g].sync
    /\ go' = [go EXCEPT ![g] = Load(go[g].name, TRUE, {})]
    /\ UNCHANGED <<clusterVars, watchVars, bootVars, watchListDeployLoadDoneNum>>

\* Mutant of SaveNewAsync: the jars are not loaded.
SaveNewOnly(g) ==
    /\ Register(g)
    /\ ~go[g].sync
    /\ go' = [go EXCEPT ![g] = Idle]
    /\ UNCHANGED <<clusterVars, watchVars, bootVars, watchListDeployLoadDoneNum>>

SaveNewAsync(g) ==
    /\ Register(g)
    /\ ~go[g].sync
    /\ GoLoad(g, Load(go[g].name, TRUE, {}))
    /\ UNCHANGED <<clusterVars, watchVars, bootVars, watchListDeployLoadDoneNum>>

\* Mutant of SaveOld: a service whose image is the same is left alone.
SaveOldImageOnly(g) ==
    /\ go[g].at = "save"
    /\ Services[go[g].name] # None
    /\ Services[go[g].name].image = go[g].image
    /\ go' = [go EXCEPT ![g] = Idle]
    /\ UNCHANGED <<clusterVars, watchVars, bootVars, watchListDeployLoadDoneNum, Services>>

\* A registered service with the same image only gets the new pods.
SaveOld(g) ==
    /\ go[g].at = "save"
    /\ Services[go[g].name] # None
    /\ Services[go[g].name].image = go[g].image
    /\ Services' = [Services EXCEPT ![go[g].name].pods = go[g].pods]
    /\ go' = [go EXCEPT ![g] = Idle]
    /\ UNCHANGED <<clusterVars, watchVars, bootVars, watchListDeployLoadDoneNum>>

\* With another image its jars are loaded again, from the pods just listed: the
\* goroutine is given the new object, whose LoadJarPackageLock nobody else knows.
SaveOldNewImage(g) ==
    /\ go[g].at = "save"
    /\ Services[go[g].name] # None
    /\ Services[go[g].name].image # go[g].image
    /\ Services' = [Services EXCEPT ![go[g].name].pods = go[g].pods,
                                    ![go[g].name].image = go[g].image]
    /\ GoLoad(g, Load(go[g].name, FALSE, go[g].pods))
    /\ UNCHANGED <<clusterVars, watchVars, bootVars, watchListDeployLoadDoneNum>>

-----------------------------------------------------------------------------
(* reloadJarAddr *)

SourcePods(g) == IF go[g].own THEN Services[go[g].name].pods ELSE go[g].pods

\* getServiceJarPackage copies /app out of the first pod and looks for jars.
\* When the pod is gone or the copy breaks off, that is an error if the stream
\* sets err before copyFromPod reads it, or if the archive ends in the middle;
\* otherwise the end of the stream looks like the end of the archive.
GetServiceJarPackage(g) ==
    /\ go[g].at = "copy"
    /\ \E pod \in SourcePods(g) :
        \/ /\ pod \in pods[go[g].name]
           /\ go' = [go EXCEPT ![g].at = "store", ![g].got = pod.image]
        \/ /\ pod \notin pods[go[g].name] \/ "copy" \in Faults
           /\ \E r \in {"error", "partial"} :
               go' = [go EXCEPT ![g].at = "store", ![g].got = r]
    /\ UNCHANGED <<clusterVars, watchVars, bootVars, watchListDeployLoadDoneNum, Services>>

\* svc.Pods[0] of a service without pods panics: the process ends, and starts again.
GetServiceJarPackagePanics(g) ==
    /\ go[g].at = "copy"
    /\ SourcePods(g) = {}
    /\ Start(boot', gate', list', next', watchListDeployLoadDoneNum', Services', go')
    /\ events' = <<>> /\ known' = {}
    /\ UNCHANGED <<clusterVars, relists>>

\* Mutant of ReloadJarAddr: the error is not looked at.
ReloadJarAddrUnchecked(g) ==
    /\ go[g].at = "store"
    /\ Services' =
        IF Services[go[g].name] = None THEN Services
        ELSE [Services EXCEPT ![go[g].name].jars = go[g].got]
    /\ go' = [go EXCEPT ![g] = Idle]
    /\ UNCHANGED <<clusterVars, watchVars, bootVars, watchListDeployLoadDoneNum>>

\* The result goes to what is registered under the name by now.
ReloadJarAddr(g) ==
    /\ go[g].at = "store"
    /\ Services' =
        IF Services[go[g].name] = None THEN Services
        ELSE IF go[g].got = "error"
             THEN [Services EXCEPT ![go[g].name].ErrorMessage = TRUE]
             ELSE [Services EXCEPT ![go[g].name].jars = go[g].got]
    /\ go' = [go EXCEPT ![g] = Idle]
    /\ UNCHANGED <<clusterVars, watchVars, bootVars, watchListDeployLoadDoneNum>>

\* dumpExec and mergeAllSvcExec, run by a job, note a merge that fails in the
\* service, if it is not deleted.
MergeFails(n) ==
    /\ "merge" \in Faults
    /\ gate = "open"
    /\ Services[n] # None
    /\ ~Services[n].IsDelete
    /\ Services' = [Services EXCEPT ![n].ErrorMessage = TRUE]
    /\ UNCHANGED <<clusterVars, watchVars, bootVars, watchListDeployLoadDoneNum, go>>

-----------------------------------------------------------------------------
(* deleteService, and the goroutine that saveServices leaves for it *)

\* deleteService is called with the name of the deployment.
DeleteServiceLater(n) ==
    Services' = IF Services[n] = None THEN Services
                ELSE [Services EXCEPT ![n].IsDelete = TRUE]

\* The context is done: sleep for ten minutes.
ReaperWakes(n) ==
    /\ Services[n] # None
    /\ Services[n].reaper = "waits"
    /\ Services[n].IsDelete
    /\ Services' = [Services EXCEPT ![n].reaper = "sleeps"]
    /\ UNCHANGED <<clusterVars, watchVars, bootVars, watchListDeployLoadDoneNum, go>>

\* DeleteService deletes the name from RunJobs, whose keys are plan IDs: the
\* service stays, and so does every job.
DeleteService(n) == Services' = [Services EXCEPT ![n].reaper = "ended"]

Reap(n) ==
    /\ Services[n] # None
    /\ Services[n].reaper = "sleeps"
    /\ Services[n].IsDelete
    /\ DeleteService(n)
    /\ UNCHANGED <<clusterVars, watchVars, bootVars, watchListDeployLoadDoneNum, go>>

-----------------------------------------------------------------------------
(* WatchJacocoPod *)

Connect ==
    /\ boot = "client"
    /\ boot' = "list"
    /\ UNCHANGED <<clusterVars, watchVars, gate, list, next, watchListDeployLoadDoneNum, Services, go>>

\* No client, or no list: WatchJob is let through and nothing is ever watched.
GiveUp ==
    /\ "client" \in Faults
    /\ boot \in {"client", "list"}
    /\ boot' = "ended"
    /\ gate' = "open"
    /\ UNCHANGED <<clusterVars, watchVars, list, next, watchListDeployLoadDoneNum, Services, go>>

ListDeployments ==
    /\ boot = "list"
    /\ boot' = "preload"
    /\ \E q \in Orders(Existing) :
        list' = [i \in DOMAIN q |-> [name |-> q[i], deploy |-> deployments[q[i]]]]
    /\ UNCHANGED <<clusterVars, watchVars, gate, next, watchListDeployLoadDoneNum, Services, go>>

\* The next deployment of the list
Preload ==
    /\ boot = "preload"
    /\ go["watcher"] = Idle
    /\ next < Len(list)
    /\ next' = next + 1
    /\ GetServiceByDeploy("watcher", list[next + 1], TRUE)
    /\ UNCHANGED <<clusterVars, watchVars, boot, gate, list, watchListDeployLoadDoneNum, Services>>

OpenGate ==
    /\ boot = "preload"
    /\ go["watcher"] = Idle
    /\ next = Len(list)
    /\ boot' = "start"
    /\ gate' = "open"
    /\ UNCHANGED <<clusterVars, watchVars, list, next, watchListDeployLoadDoneNum, Services, go>>

\* The informer lists the deployments anew and watches them from there.
StartInformer ==
    /\ boot = "start"
    /\ boot' = "watching"
    /\ events' \in Listed({})
    /\ UNCHANGED <<clusterVars, known, relists, gate, list, next, watchListDeployLoadDoneNum, Services, go>>

-----------------------------------------------------------------------------
(* The event handlers *)

Receive(type) ==
    /\ go["informer"] = Idle
    /\ events # <<>>
    /\ Head(events).type = type
    /\ events' = Tail(events)
    /\ UNCHANGED <<clusterVars, relists, bootVars>>

\* As many additions as deployments were preloaded are handled synchronously; the
\* counter is compared with that number only and stops there.
AddFunc ==
    /\ Receive("add")
    /\ known' = known \cup {Head(events).name}
    /\ GetServiceByDeploy("informer", Head(events), watchListDeployLoadDoneNum < Len(list))
    /\ watchListDeployLoadDoneNum' =
        IF watchListDeployLoadDoneNum < Len(list) THEN watchListDeployLoadDoneNum + 1
        ELSE watchListDeployLoadDoneNum
    /\ UNCHANGED Services

UpdateFunc ==
    /\ Receive("update")
    /\ known' = known \cup {Head(events).name}
    /\ GetServiceByDeploy("informer", Head(events), FALSE)
    /\ UNCHANGED <<watchListDeployLoadDoneNum, Services>>

\* Mutant of DeleteFunc: the object is taken for one of another type.
DeleteFuncUnknown ==
    /\ Receive("delete")
    /\ known' = known \ {Head(events).name}
    /\ UNCHANGED <<watchListDeployLoadDoneNum, Services, go>>

DeleteFunc ==
    /\ Receive("delete")
    /\ known' = known \ {Head(events).name}
    /\ DeleteServiceLater(Head(events).name)
    /\ UNCHANGED <<watchListDeployLoadDoneNum, go>>

\* A DeletedFinalStateUnknown is not a Deployment: it is only logged.
DeleteFuncNotDeployment ==
    /\ Receive("unknown")
    /\ known' = known \ {Head(events).name}
    /\ UNCHANGED <<watchListDeployLoadDoneNum, Services, go>>

-----------------------------------------------------------------------------

\* The agent is restarted.
Restart ==
    /\ Changed
    /\ Start(boot', gate', list', next', watchListDeployLoadDoneNum', Services', go')
    /\ events' = <<>> /\ known' = {}
    /\ UNCHANGED <<deployments, pods, ready, relists>>

Cluster ==
    \/ \E d \in Name, new \in Deployment : Apply(d, new)
    \/ \E d \in Name : Remove(d)
    \/ \E n \in Name : PodsChange(n)
    \/ \E d \in Name : StatusChanges(d)
    \/ Relist
    \/ Restart

Boot == Connect \/ ListDeployments \/ Preload \/ OpenGate \/ StartInformer

Handle == AddFunc \/ UpdateFunc \/ DeleteFunc \/ DeleteFuncNotDeployment

Work(g) ==
    \/ SaveNewSync(g) \/ SaveNewAsync(g) \/ SaveOld(g) \/ SaveOldNewImage(g)
    \/ GetServiceJarPackage(g) \/ GetServiceJarPackagePanics(g) \/ ReloadJarAddr(g)

Next ==
    \/ Cluster
    \/ Boot
    \/ GiveUp
    \/ Handle
    \/ \E g \in Go : Work(g)
    \/ \E n \in Name : ReaperWakes(n) \/ Reap(n) \/ MergeFails(n)

Spec == Init /\ [][Next]_vars

\* Goroutines that can run do, sleeps end, and the informer delivers.
FairSpec ==
    /\ Spec
    /\ WF_vars(Boot)
    /\ WF_vars(Handle)
    /\ \A g \in Go : WF_vars(Work(g))
    /\ \A n \in Name : WF_vars(ReaperWakes(n) \/ Reap(n))

-----------------------------------------------------------------------------
(* Properties *)

Loads(g, n) == go[g].at \in {"copy", "store"} /\ go[g].name = n /\ go[g].own

\* Every service that is registered has had its jars loaded, with or without
\* success, or a goroutine is under way to do so, whoever registered it.
EveryServiceLoads ==
    \A n \in Name : Services[n] # None =>
        \/ Services[n].jars # "none"
        \/ Services[n].ErrorMessage
        \/ \E g \in Go : Loads(g, n)

\* WatchJob, which waits for the gate, finds every service that was there at
\* the start, and none of them without its jars or an error: a job that starts
\* right away misses no classes because they are still being copied.
PreloadComplete ==
    gate = "open" =>
        \A i \in 1..Len(list) : list[i].deploy.on =>
            LET n == App[list[i].name]
            IN  Services[n] # None /\ ~\E g \in Go : Loads(g, n)

Quiet == boot = "watching" /\ events = <<>> /\ go["informer"] = Idle

\* When the informer has nothing left to do, every enabled deployment has a
\* service with all pods that its status counts and that are still there, and, if
\* it shares its label with no other deployment, with its image, whatever order
\* list, watch, broken watches and changes came in.  Pods that are gone may stay.
RegistryFollows ==
    Quiet => \A d \in Name : deployments[d] # None /\ deployments[d].on =>
        /\ Services[App[d]] # None
        /\ ready[d] \subseteq Services[App[d]].pods
        /\ (\A e \in Name : App[e] = App[d] => e = d)
              => Services[App[d]].image = deployments[d].image

\* A deployment that goes while the informer knows it gets its service marked
\* as deleted, so that it is not dumped any more, whatever fails meanwhile,
\* unless the agent restarts or a watch breaks.
DeletionNoticed ==
    \A d \in Name :
        boot = "watching" /\ d \in known /\ deployments[d] = None
            ~> \/ boot # "watching"
               \/ relists > 0
               \/ Services[d] = None
               \/ Services[d].IsDelete

\* A service that is marked as deleted is out of the registry in the end, as the
\* goroutine that saveServices leaves for it calls DeleteService.
DeletedIsReaped ==
    \A n \in Name : Services[n] # None /\ Services[n].IsDelete ~> Services[n] = None

\* The services are preloaded after every start of the agent, and the
\* informer runs.
PreloadEnds == []<>(boot = "watching")
=============================================================================
