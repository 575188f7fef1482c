--------------------------- MODULE RegistryProofs ---------------------------
(***************************************************************************)
(* Proofs that the registry of Services is complete when WatchJob is let   *)
(* through and follows the cluster from then on, for any number of         *)
(* deployments, also when several share a label, and any order of changes, *)
(* broken watches and restarts.                                            *)
(***************************************************************************)
EXTENDS ServicesProofs

-----------------------------------------------------------------------------
(* The inductive invariant *)

Own(g) == go[g].at \in {"copy", "store"} /\ go[g].own

\* Only WatchJacocoPod and the event handlers save services, one waiting for the
\* jars; until the gate opens, it is the only one that loads them.
Roles ==
    /\ \A t \in Thread : go[t].at # "save"
    /\ go["watcher"].at = "save" => go["watcher"].sync
    /\ gate = "locked" => \A t \in Thread : ~Own(t)

\* What WatchJacocoPod has done where
BootOrder ==
    /\ boot \in {"client", "list", "preload"} => gate = "locked"
    /\ boot \in {"start", "watching", "ended"} => gate = "open" /\ go["watcher"] = Idle /\ next = Len(list)
    /\ boot = "ended" => list = <<>>
    /\ boot \in {"client", "list"} => next = 0 /\ go["watcher"] = Idle
    /\ boot # "watching" => events = <<>> /\ go["informer"] = Idle

\* The deployments taken up so far have their service, but for the one at hand.
Preloaded ==
    \A i \in 1..next : list[i].deploy.on =>
        \/ Services[App[list[i].name]] # None
        \/ i = next /\ go["watcher"].at = "save" /\ go["watcher"].name = App[list[i].name]

\* Once the gate is open, none of them is being loaded.
AllLoaded ==
    gate = "open" =>
        \A i \in 1..Len(list) : list[i].deploy.on => ~\E g \in Go : Loads(g, App[list[i].name])

PreloadInv == Roles /\ BootOrder /\ Preloaded /\ AllLoaded

NoEvent(q, d) == \A i \in 1..Len(q) : q[i].name # d

\* The last event of d in q shows the deployment as dep.
Shows(q, d, dep) ==
    \E i \in 1..Len(q) :
        /\ q[i].name = d /\ q[i].type \in {"add", "update"} /\ q[i].deploy = dep
        /\ \A j \in 1..Len(q) : j > i => q[j].name # d

Sole(d) == \A e \in Name : App[e] = App[d] => e = d

InHand(d) == go["informer"].at = "save" /\ go["informer"].name = App[d]

\* What the informer has in hand for the service of d, or else the registry, has
\* the pods that the status of d counts.
Follows(d) ==
    /\ InHand(d) =>
        /\ ready[d] \subseteq go["informer"].pods
        /\ Sole(d) => go["informer"].image = deployments[d].image
    /\ ~InHand(d) =>
        /\ Services[App[d]] # None
        /\ ready[d] \subseteq Services[App[d]].pods
        /\ Sole(d) => Services[App[d]].image = deployments[d].image

\* An enabled deployment has its last event before it, or is followed.
Tracked(d) ==
    deployments[d] # None /\ deployments[d].on =>
        \/ Shows(events, d, deployments[d])
        \/ NoEvent(events, d) /\ Follows(d)

\* The pods that a status counts are there.
ReadyThere == \A d \in Name : ready[d] \subseteq pods[App[d]]

FollowInv ==
    /\ ReadyThere
    /\ boot = "watching" => \A d \in Name : Tracked(d)

-----------------------------------------------------------------------------
(* What a step does to the registry and to the goroutines *)

SameServices ==
    \A m \in Name :
        /\ Services'[m] # None <=> Services[m] # None
        /\ Services[m] # None =>
            Services'[m].pods = Services[m].pods /\ Services'[m].image = Services[m].image

\* A goroutine saves a service; who loads its jars depends on whether it is new and
\* whether the goroutine is to wait.
Saves(g) ==
    LET n == go[g].name
    IN  /\ go[g].at = "save"
        /\ Services'[n] # None
        /\ Services'[n].pods = go[g].pods /\ Services'[n].image = go[g].image
        /\ \A m \in Name \ {n} : Services'[m] = Services[m]
        /\ \/ go'[g] = Idle
           \/ go'[g].at = "copy" /\ go'[g].name = n /\ Services[n] = None
        /\ \A x \in Go \ {g} :
            \/ go'[x] = go[x]
            \/ /\ x \in Thread /\ go'[x].at = "copy" /\ go'[x].name = n
               /\ go'[x].own => Services[n] = None /\ ~go[g].sync

\* A goroutine goes on loading jars.
LoadsOn(g) ==
    /\ go[g].at \in {"copy", "store"}
    /\ SameServices
    /\ \/ go'[g] = Idle
       \/ go'[g].at = "store" /\ go'[g].name = go[g].name /\ go'[g].own = go[g].own
    /\ \A x \in Go \ {g} : go'[x] = go[x]

LEMMA GoTypes ==
  ASSUME TypeInv
  PROVE  /\ DOMAIN go = Go /\ go = [x \in Go |-> go[x]]
         /\ \A x \in Go : /\ go[x].at \in {"idle", "save", "copy", "store"}
                          /\ go[x].at = "idle" => go[x] = Idle
                          /\ go[x].at = "save" => go[x] \in Saving /\ go[x].name \in Name
                          /\ go[x].at \in {"copy", "store"} => go[x] \in Loading /\ go[x].name \in Name
         /\ Services = [m \in Name |-> Services[m]]
         /\ \A m \in Name : Services[m] # None => Services[m] \in Service
<1>1. go \in [Go -> Saving \cup Loading \cup {Idle}] /\ Services \in [Name -> Service \cup {None}]
  BY DEF TypeInv, TypeOK
<1> QED
  BY <1>1 DEF Saving, Loading, Idle

LEMMA GoLoadEffect ==
  ASSUME TypeInv, NEW g \in Go, go[g].at = "save", NEW w, GoLoad(g, w)
  PROVE  /\ go'[g] = Idle
         /\ \A x \in Go \ {g} : go'[x] = go[x] \/ (x \in Thread /\ go'[x] = w)
<1>1. PICK t \in Thread : go[t] = Idle /\ go' = [go EXCEPT ![g] = Idle, ![t] = w]
  BY DEF GoLoad
<1>2. t \in Go /\ t # g
  BY <1>1 DEF Go, Idle
<1> QED
  BY <1>1, <1>2, GoTypes

LEMMA SaveNewEffect ==
  ASSUME TypeInv, NEW g \in Go, SaveNewSync(g) \/ SaveNewAsync(g)
  PROVE  Saves(g)
<1> DEFINE n == go[g].name
           svc == [image |-> go[g].image, pods |-> go[g].pods, jars |-> "none",
                   ErrorMessage |-> FALSE, IsDelete |-> FALSE, reaper |-> "waits"]
           w == Load(n, TRUE, {})
<1>1. go[g].at = "save" /\ Services[n] = None /\ Services' = [Services EXCEPT ![n] = svc]
  BY DEF SaveNewSync, SaveNewAsync, Register
<1>2. go[g] \in Saving /\ n \in Name
  BY <1>1, GoTypes
<1>3. svc \in Service /\ svc.pods = go[g].pods /\ svc.image = go[g].image
  BY <1>2 DEF Saving, Service, Jars
<1>4. w.at = "copy" /\ w.name = n /\ w.own
  BY DEF Load
<1>5. \/ go' = [go EXCEPT ![g] = w]
      \/ ~go[g].sync /\ GoLoad(g, w)
  BY DEF SaveNewSync, SaveNewAsync
<1> HIDE DEF svc, w
<1>6. Services'[n] = svc /\ svc # None /\ \A m \in Name \ {n} : Services'[m] = Services[m]
  BY <1>1, <1>2, <1>3, GoTypes, NoneAssumption
<1>7. CASE go' = [go EXCEPT ![g] = w]
  <2>1. go'[g] = w /\ \A x \in Go \ {g} : go'[x] = go[x]
    BY <1>7, GoTypes
  <2> QED
    BY <1>1, <1>3, <1>4, <1>6, <2>1 DEF Saves
<1>8. CASE ~go[g].sync /\ GoLoad(g, w)
  <2>1. /\ go'[g] = Idle
        /\ \A x \in Go \ {g} : go'[x] = go[x] \/ (x \in Thread /\ go'[x] = w)
    BY <1>1, <1>8, GoLoadEffect
  <2> QED
    BY <1>1, <1>3, <1>4, <1>6, <1>8, <2>1 DEF Saves
<1> QED
  BY <1>5, <1>7, <1>8

LEMMA SaveOldEffect ==
  ASSUME TypeInv, NEW g \in Go, SaveOld(g) \/ SaveOldNewImage(g)
  PROVE  Saves(g)
<1> DEFINE n == go[g].name
<1>1. go[g].at = "save" /\ Services[n] # None
  BY DEF SaveOld, SaveOldNewImage
<1>2. go[g] \in Saving /\ n \in Name /\ Services[n] \in Service
  BY <1>1, GoTypes
<1>3. CASE SaveOld(g)
  <2> DEFINE svc == [Services[n] EXCEPT !.pods = go[g].pods]
  <2>1. Services[n].image = go[g].image /\ Services' = [Services EXCEPT ![n] = svc]
    BY <1>3 DEF SaveOld
  <2>2. svc \in Service /\ svc.pods = go[g].pods /\ svc.image = go[g].image
    BY <1>2, <2>1 DEF Saving, Service
  <2> HIDE DEF svc
  <2>3. Services'[n] = svc /\ svc # None /\ \A m \in Name \ {n} : Services'[m] = Services[m]
    BY <1>2, <2>1, <2>2, GoTypes, NoneAssumption
  <2>4. go'[g] = Idle /\ \A x \in Go \ {g} : go'[x] = go[x]
    BY <1>3, GoTypes DEF SaveOld
  <2> QED
    BY <1>1, <2>2, <2>3, <2>4 DEF Saves
<1>4. CASE SaveOldNewImage(g)
  <2> DEFINE svc == [[Services[n] EXCEPT !.pods = go[g].pods] EXCEPT !.image = go[g].image]
             w == Load(n, FALSE, go[g].pods)
  <2>1. Services' = [Services EXCEPT ![n] = svc]
    BY <1>2, <1>4, GoTypes DEF SaveOldNewImage
  <2>2. svc \in Service /\ svc.pods = go[g].pods /\ svc.image = go[g].image
    BY <1>2 DEF Saving, Service
  <2>3. w.at = "copy" /\ w.name = n /\ ~w.own
    BY DEF Load
  <2>4. GoLoad(g, w)
    BY <1>4 DEF SaveOldNewImage
  <2> HIDE DEF svc, w
  <2>5. Services'[n] = svc /\ svc # None /\ \A m \in Name \ {n} : Services'[m] = Services[m]
    BY <1>2, <2>1, <2>2, GoTypes, NoneAssumption
  <2>6. /\ go'[g] = Idle
        /\ \A x \in Go \ {g} : go'[x] = go[x] \/ (x \in Thread /\ go'[x] = w)
    BY <1>1, <2>4, GoLoadEffect
  <2> QED
    BY <1>1, <2>2, <2>3, <2>5, <2>6 DEF Saves
<1> QED
  BY <1>3, <1>4

\* Replacing a service by one with the same pods and image
LEMMA ReplaceSame ==
  ASSUME TypeInv, NEW n \in Name, Services[n] # None, NEW svc \in Service,
         svc.pods = Services[n].pods, svc.image = Services[n].image,
         Services' = [Services EXCEPT ![n] = svc]
  PROVE  SameServices
<1>1. svc # None
  BY NoneAssumption
<1>2. \A m \in Name : Services'[m] = IF m = n THEN svc ELSE Services[m]
  BY GoTypes
<1> QED
  BY <1>1, <1>2 DEF SameServices

LEMMA LoadEffect ==
  ASSUME TypeInv, NEW g \in Go, GetServiceJarPackage(g) \/ ReloadJarAddr(g)
  PROVE  LoadsOn(g)
<1> DEFINE n == go[g].name
<1>1. go[g].at \in {"copy", "store"} /\ go[g] \in Loading /\ n \in Name
  BY GoTypes DEF GetServiceJarPackage, ReloadJarAddr
<1>2. CASE GetServiceJarPackage(g)
  <2>1. PICK r : go' = [go EXCEPT ![g].at = "store", ![g].got = r]
    BY <1>2 DEF GetServiceJarPackage
  <2>2. /\ go'[g].at = "store" /\ go'[g].name = n /\ go'[g].own = go[g].own
        /\ \A x \in Go \ {g} : go'[x] = go[x]
    BY <1>1, <2>1, GoTypes DEF Loading
  <2>3. SameServices
    BY <1>2 DEF GetServiceJarPackage, SameServices
  <2> QED
    BY <1>1, <2>2, <2>3 DEF LoadsOn
<1>3. CASE ReloadJarAddr(g)
  <2>1. go'[g] = Idle /\ \A x \in Go \ {g} : go'[x] = go[x]
    BY <1>3, GoTypes DEF ReloadJarAddr
  <2>2. SameServices
    <3>1. CASE Services[n] = None
      BY <1>3, <3>1 DEF ReloadJarAddr, SameServices
    <3>2. CASE Services[n] # None
      <4> DEFINE svc == IF go[g].got = "error" THEN [Services[n] EXCEPT !.ErrorMessage = TRUE]
                        ELSE [Services[n] EXCEPT !.jars = go[g].got]
      <4>1. Services[n] \in Service /\ go[g].got \in Jars \cup {"error"}
        BY <1>1, <3>2, GoTypes DEF Loading
      <4>2. Services' = [Services EXCEPT ![n] = svc]
        BY <1>3, <3>2 DEF ReloadJarAddr
      <4>3. svc \in Service /\ svc.pods = Services[n].pods /\ svc.image = Services[n].image
        BY <4>1 DEF Service
      <4> HIDE DEF svc
      <4> QED
        BY <1>1, <3>2, <4>2, <4>3, ReplaceSame
    <3> QED
      BY <3>1, <3>2
  <2> QED
    BY <1>1, <2>1, <2>2 DEF LoadsOn
<1> QED
  BY <1>2, <1>3

LEMMA MarkEffect ==
  ASSUME TypeInv, NEW n \in Name, ReaperWakes(n) \/ Reap(n) \/ MergeFails(n)
  PROVE  SameServices /\ UNCHANGED <<clusterVars, watchVars, bootVars, go>>
<1>1. Services[n] \in Service /\ Services[n] # None
  BY GoTypes DEF ReaperWakes, Reap, MergeFails
<1>2. CASE ReaperWakes(n) \/ Reap(n)
  <2>1. PICK x \in {"sleeps", "ended"} : Services' = [Services EXCEPT ![n].reaper = x]
    BY <1>2 DEF ReaperWakes, Reap, DeleteService
  <2> DEFINE svc == [Services[n] EXCEPT !.reaper = x]
  <2>2. /\ svc \in Service /\ svc.pods = Services[n].pods /\ svc.image = Services[n].image
        /\ Services' = [Services EXCEPT ![n] = svc]
    BY <1>1, <2>1 DEF Service
  <2> HIDE DEF svc
  <2> QED
    BY <1>1, <1>2, <2>2, ReplaceSame DEF ReaperWakes, Reap
<1>3. CASE MergeFails(n)
  <2> DEFINE svc == [Services[n] EXCEPT !.ErrorMessage = TRUE]
  <2>1. /\ svc \in Service /\ svc.pods = Services[n].pods /\ svc.image = Services[n].image
        /\ Services' = [Services EXCEPT ![n] = svc]
    BY <1>1, <1>3 DEF Service, MergeFails
  <2> HIDE DEF svc
  <2> QED
    BY <1>1, <1>3, <2>1, ReplaceSame DEF MergeFails
<1> QED
  BY <1>2, <1>3

LEMMA DeleteEffect ==
  ASSUME TypeInv, NEW n \in Name, DeleteServiceLater(n)
  PROVE  SameServices
<1>1. CASE Services[n] = None
  BY <1>1 DEF DeleteServiceLater, SameServices
<1>2. CASE Services[n] # None
  <2> DEFINE svc == [Services[n] EXCEPT !.IsDelete = TRUE]
  <2>1. Services' = [Services EXCEPT ![n] = svc]
    BY <1>2 DEF DeleteServiceLater
  <2>2. Services[n] \in Service
    BY <1>2, GoTypes
  <2>3. svc \in Service /\ svc.pods = Services[n].pods /\ svc.image = Services[n].image
    BY <2>2 DEF Service
  <2> HIDE DEF svc
  <2> QED
    BY <1>2, <2>1, <2>3, ReplaceSame
<1> QED
  BY <1>1, <1>2

\* Work is one of the two, unless the process panics.
LEMMA WorkEffect ==
  ASSUME TypeInv, NEW g \in Go, Work(g)
  PROVE  \/ GetServiceJarPackagePanics(g)
         \/ (Saves(g) \/ LoadsOn(g)) /\ UNCHANGED <<clusterVars, watchVars, bootVars>>
<1>1. CASE SaveNewSync(g) \/ SaveNewAsync(g)
  BY <1>1, SaveNewEffect DEF SaveNewSync, SaveNewAsync
<1>2. CASE SaveOld(g) \/ SaveOldNewImage(g)
  BY <1>2, SaveOldEffect DEF SaveOld, SaveOldNewImage
<1>3. CASE GetServiceJarPackage(g) \/ ReloadJarAddr(g)
  BY <1>3, LoadEffect DEF GetServiceJarPackage, ReloadJarAddr
<1> QED
  BY <1>1, <1>2, <1>3 DEF Work

\* The informer takes the next event; if it shows an enabled deployment, it has the
\* service of that in hand next, with the pods there are.
Takes(e) ==
    /\ go["informer"] = Idle
    /\ events # <<>> /\ e = Head(events) /\ events' = Tail(events)
    /\ SameServices
    /\ UNCHANGED <<clusterVars, relists, bootVars>>
    /\ \A x \in Go \ {"informer"} : go'[x] = go[x]
    /\ \/ go'["informer"] = Idle
       \/ /\ go'["informer"].at = "save" /\ go'["informer"].name = App[e.name]
          /\ go'["informer"].pods = pods[App[e.name]] /\ go'["informer"].image = e.deploy.image
    /\ e.type \in {"add", "update"} /\ e.deploy.on /\ "pods" \notin Faults => go'["informer"].at = "save"

LEMMA HandleEffect ==
  ASSUME TypeInv, Handle
  PROVE  \E e \in Event : Takes(e)
<1> DEFINE e == Head(events)
<1>1. events # <<>> /\ events' = Tail(events) /\ go["informer"] = Idle /\ UNCHANGED <<clusterVars, relists, bootVars>>
  BY DEF Handle, AddFunc, UpdateFunc, DeleteFunc, DeleteFuncNotDeployment, Receive
<1>2. e \in Event
  BY <1>1, HeadTailProperties DEF TypeInv, TypeOK
<1>3. e.name \in Name /\ "informer" \in Go
  BY <1>2 DEF Event, Go
<1>4. ASSUME NEW sync, GetServiceByDeploy("informer", e, sync), UNCHANGED Services
      PROVE  Takes(e)
  <2>1. SameServices
    BY <1>4 DEF SameServices
  <2>2. CASE UNCHANGED go /\ (~e.deploy.on \/ "pods" \in Faults)
    BY <1>1, <2>1, <2>2 DEF Takes
  <2>3. CASE ~(UNCHANGED go /\ (~e.deploy.on \/ "pods" \in Faults))
    <3> DEFINE s == [at |-> "save", name |-> App[e.name], image |-> e.deploy.image,
                     pods |-> pods[App[e.name]], sync |-> sync]
    <3>1. go' = [go EXCEPT !["informer"] = s]
      BY <1>4, <2>3 DEF GetServiceByDeploy
    <3>2. s.at = "save" /\ s.name = App[e.name] /\ s.pods = pods[App[e.name]] /\ s.image = e.deploy.image
      OBVIOUS
    <3> HIDE DEF s
    <3>3. go'["informer"] = s /\ \A x \in Go \ {"informer"} : go'[x] = go[x]
      BY <1>3, <3>1, GoTypes
    <3> QED
      BY <1>1, <2>1, <3>2, <3>3 DEF Takes
  <2> QED
    BY <2>2, <2>3
<1>5. CASE AddFunc \/ UpdateFunc
  BY <1>2, <1>4, <1>5 DEF AddFunc, UpdateFunc
<1>6. CASE DeleteFunc
  BY <1>1, <1>2, <1>3, <1>6, DeleteEffect DEF DeleteFunc, Receive, Takes
<1>7. CASE DeleteFuncNotDeployment
  BY <1>1, <1>2, <1>7 DEF DeleteFuncNotDeployment, Receive, Takes, SameServices
<1> QED
  BY <1>5, <1>6, <1>7 DEF Handle

-----------------------------------------------------------------------------
(* The preload *)

LEMMA StartPreloadInv ==
  ASSUME Start(boot', gate', list', next', watchListDeployLoadDoneNum', Services', go'), events' = <<>>
  PROVE  PreloadInv'
<1>1. /\ boot' = "client" /\ gate' = "locked" /\ next' = 0
      /\ \A g \in Go : go'[g] = Idle
  BY DEF Start
<1>2. Idle.at = "idle"
  BY DEF Idle
<1>3. Roles' /\ BootOrder'
  BY <1>1, <1>2 DEF Roles, Own, BootOrder, Go
<1> QED
  BY <1>1, <1>3 DEF PreloadInv, Preloaded, AllLoaded

\* The list has the deployments WatchJacocoPod takes up.
LEMMA ListTypes ==
  ASSUME TypeInv
  PROVE  /\ Len(list) \in Nat /\ next \in 0..Len(list)
         /\ \A i \in 1..Len(list) : list[i].name \in Name /\ App[list[i].name] \in Name
<1>1. list \in Seq([name: Name, deploy: Deployment]) /\ next \in 0..Len(list) /\ App \in [Name -> Name]
  BY ServicesAssumption DEF TypeInv, TypeOK
<1>2. Len(list) \in Nat /\ \A i \in 1..Len(list) : list[i] \in [name: Name, deploy: Deployment]
  BY <1>1, ElementOfSeq, LenProperties
<1> QED
  BY <1>1, <1>2

LEMMA BootPreloadInv ==
  ASSUME "pods" \notin Faults, TypeInv, PreloadInv, Boot \/ GiveUp
  PROVE  PreloadInv'
<1>0. /\ TypeOK /\ Roles /\ BootOrder /\ Preloaded /\ AllLoaded
      /\ Idle.at = "idle" /\ "watcher" \in Go /\ "informer" \in Go /\ Thread \subseteq Go
  BY DEF PreloadInv, TypeInv, Idle, Go
<1>1. CASE Connect \/ StartInformer
  <2>1. UNCHANGED <<gate, list, next, Services, go>>
    BY <1>1 DEF Connect, StartInformer
  <2>2. Roles' /\ Preloaded' /\ AllLoaded'
    BY <1>0, <2>1 DEF Roles, Own, Preloaded, AllLoaded, Loads
  <2>3. BootOrder'
    BY <1>0, <1>1 DEF Connect, StartInformer, BootOrder, watchVars
  <2> QED
    BY <2>2, <2>3 DEF PreloadInv
<1>2. CASE GiveUp
  <2>1. list = <<>> /\ next = 0 /\ go["watcher"] = Idle /\ go["informer"] = Idle /\ events = <<>>
    BY <1>0, <1>2 DEF GiveUp, TypeInv, NotListed, BootOrder
  <2>2. UNCHANGED <<list, next, Services, go, events>> /\ gate' = "open" /\ boot' = "ended"
    BY <1>2 DEF GiveUp, watchVars
  <2> QED
    BY <1>0, <2>1, <2>2 DEF PreloadInv, Roles, Own, BootOrder, Preloaded, AllLoaded
<1>3. CASE ListDeployments
  <2>1. next = 0 /\ gate = "locked" /\ go["watcher"] = Idle /\ go["informer"] = Idle /\ events = <<>>
    BY <1>0, <1>3 DEF ListDeployments, BootOrder
  <2>2. UNCHANGED <<next, gate, Services, go, events>> /\ boot' = "preload"
    BY <1>3 DEF ListDeployments, watchVars
  <2> QED
    BY <1>0, <2>1, <2>2 DEF PreloadInv, Roles, Own, BootOrder, Preloaded, AllLoaded
<1>4. CASE Preload
  <2> DEFINE e == list[next + 1]
             s == [at |-> "save", name |-> App[e.name], image |-> e.deploy.image,
                   pods |-> pods[App[e.name]], sync |-> TRUE]
  <2>1. /\ boot = "preload" /\ boot' = boot /\ gate = "locked" /\ gate' = gate /\ next < Len(list)
        /\ next' = next + 1 /\ go["watcher"] = Idle /\ go["informer"] = Idle /\ events = <<>>
        /\ UNCHANGED <<list, Services, events>>
    BY <1>0, <1>4 DEF Preload, BootOrder, watchVars
  <2>2. (go' = go /\ ~e.deploy.on) \/ go' = [go EXCEPT !["watcher"] = s]
    BY <1>4 DEF Preload, GetServiceByDeploy
  <2>3. s.at = "save" /\ s.name = App[e.name] /\ s.sync
    OBVIOUS
  <2> HIDE DEF s
  <2>4. /\ \A x \in Go \ {"watcher"} : go'[x] = go[x]
        /\ (go'["watcher"] = Idle /\ ~e.deploy.on) \/ go'["watcher"] = s
    BY <1>0, <2>1, <2>2, GoTypes
  <2>5. Roles'
    BY <1>0, <2>1, <2>3, <2>4, ServicesAssumption DEF Roles, Own
  <2>6. BootOrder'
    BY <1>0, <2>1, <2>4 DEF BootOrder
  <2>7. Preloaded'
    BY <1>0, <2>1, <2>3, <2>4, ListTypes DEF Preloaded
  <2> QED
    BY <2>1, <2>5, <2>6, <2>7 DEF PreloadInv, AllLoaded
<1>5. CASE OpenGate
  <2>1. /\ gate = "locked" /\ go["watcher"] = Idle /\ go["informer"] = Idle /\ events = <<>> /\ next = Len(list)
        /\ boot' = "start" /\ gate' = "open" /\ UNCHANGED <<list, next, Services, go, events>>
    BY <1>0, <1>5 DEF OpenGate, BootOrder, watchVars
  <2>2. \A g \in Go : ~Own(g)
    BY <1>0, <2>1 DEF Roles, Own, Go
  <2> QED
    BY <1>0, <2>1, <2>2 DEF PreloadInv, Roles, Own, BootOrder, Preloaded, AllLoaded, Loads
<1> QED
  BY <1>1, <1>2, <1>3, <1>4, <1>5 DEF Boot

LEMMA WorkPreloadInv ==
  ASSUME TypeInv, PreloadInv, NEW g \in Go, Work(g)
  PROVE  PreloadInv'
<1>0. /\ TypeOK /\ Roles /\ BootOrder /\ Preloaded /\ AllLoaded
      /\ Idle.at = "idle" /\ "watcher" \in Go /\ "informer" \in Go /\ Thread \subseteq Go
      /\ "watcher" \notin Thread /\ "informer" \notin Thread
  BY ServicesAssumption DEF PreloadInv, TypeInv, Idle, Go
<1>1. CASE GetServiceJarPackagePanics(g)
  BY <1>1, StartPreloadInv DEF GetServiceJarPackagePanics
<1>2. CASE LoadsOn(g) /\ UNCHANGED <<clusterVars, watchVars, bootVars>>
  <2>1. UNCHANGED <<boot, gate, list, next, events>>
    BY <1>2 DEF bootVars, watchVars
  <2>2. \A x \in Go : /\ go[x] = Idle => go'[x] = Idle
                      /\ go'[x].at = "save" => go'[x] = go[x]
                      /\ go[x].at = "save" => go'[x] = go[x]
                      /\ Own(x)' => Own(x)
                      /\ \A n : Loads(x, n)' => Loads(x, n)
    BY <1>0, <1>2 DEF LoadsOn, Own, Loads
  <2>3. \A i \in 1..next : Services[App[list[i].name]] # None => Services'[App[list[i].name]] # None
    BY <1>2, ListTypes DEF LoadsOn, SameServices
  <2>4. Roles' /\ BootOrder'
    BY <1>0, <2>1, <2>2 DEF Roles, BootOrder
  <2>5. Preloaded'
    BY <1>0, <2>1, <2>2, <2>3 DEF Preloaded
  <2>6. AllLoaded'
    BY <1>0, <2>1, <2>2 DEF AllLoaded
  <2> QED
    BY <2>4, <2>5, <2>6 DEF PreloadInv
<1>3. CASE Saves(g) /\ UNCHANGED <<clusterVars, watchVars, bootVars>>
  <2> DEFINE n == go[g].name
  <2>1. UNCHANGED <<boot, gate, list, next, events>>
    BY <1>3 DEF bootVars, watchVars
  <2>2. g \notin Thread /\ g \in {"watcher", "informer"} /\ n \in Name /\ go[g].at = "save"
    BY <1>0, <1>3, GoTypes DEF Saves, Roles, Go
  <2>3. g = "watcher" => gate = "locked" /\ go[g].sync
    BY <1>0, <2>2 DEF BootOrder, Roles, TypeOK
  <2>4. g = "informer" => boot = "watching" /\ gate = "open" /\ go["watcher"] = Idle /\ next = Len(list)
    BY <1>0, <2>2 DEF BootOrder
  <2>5. \A x \in Go : /\ x # g /\ go[x] = Idle /\ x \notin Thread => go'[x] = Idle
                      /\ go'[x].at = "save" => go'[x] = go[x]
                      /\ x # g /\ go[x].at = "save" /\ x \notin Thread => go'[x] = go[x]
                      /\ x \in Thread /\ Own(x)' => Own(x) \/ ~go[g].sync
                      /\ \A m : Loads(x, m)' => Loads(x, m) \/ Services[m] = None
    BY <1>0, <1>3, <2>2 DEF Saves, Own, Loads
  <2>6. \A m \in Name : Services[m] # None \/ m = n => Services'[m] # None
    BY <1>3 DEF Saves
  <2>7. Roles'
    BY <1>0, <2>1, <2>2, <2>3, <2>4, <2>5 DEF Roles
  <2>8. BootOrder'
    BY <1>0, <2>1, <2>2, <2>3, <2>4, <2>5 DEF BootOrder
  <2>9. Preloaded'
    <3>1. \A i \in 1..next : list[i].deploy.on /\ Services[App[list[i].name]] = None
             => g = "watcher" /\ App[list[i].name] = n
      BY <1>0, <2>2, <2>4 DEF Preloaded
    <3> QED
      BY <2>1, <2>6, <3>1, ListTypes DEF Preloaded
  <2>10. AllLoaded'
    <3>1. gate = "open" => \A i \in 1..Len(list) : list[i].deploy.on => Services[App[list[i].name]] # None
      BY <1>0, <2>2, <2>3, <2>4 DEF Preloaded
    <3> QED
      BY <1>0, <2>1, <2>5, <3>1 DEF AllLoaded
  <2> QED
    BY <2>7, <2>8, <2>9, <2>10 DEF PreloadInv
<1> QED
  BY <1>1, <1>2, <1>3, WorkEffect

LEMMA HandlePreloadInv ==
  ASSUME TypeInv, PreloadInv, Handle
  PROVE  PreloadInv'
<1>0. /\ TypeOK /\ Roles /\ BootOrder /\ Preloaded /\ AllLoaded
      /\ Idle.at = "idle" /\ "watcher" \in Go /\ "informer" \in Go /\ Thread \subseteq Go
      /\ "watcher" \notin Thread /\ "informer" \notin Thread
  BY ServicesAssumption DEF PreloadInv, TypeInv, Idle, Go
<1>1. PICK e \in Event : Takes(e)
  BY HandleEffect
<1>2. UNCHANGED <<boot, gate, list, next>> /\ events # <<>>
  BY <1>1 DEF Takes, bootVars
<1>3. boot = "watching"
  BY <1>0, <1>2 DEF BootOrder
<1>4. \A x \in Go : /\ x # "informer" => go'[x] = go[x]
                    /\ Own(x)' => Own(x)
                    /\ \A m : Loads(x, m)' => Loads(x, m)
  BY <1>0, <1>1 DEF Takes, Own, Loads
<1>5. Roles' /\ BootOrder'
  BY <1>0, <1>2, <1>3, <1>4 DEF Roles, BootOrder
<1>6. \A i \in 1..next : Services[App[list[i].name]] # None => Services'[App[list[i].name]] # None
  BY <1>1, ListTypes DEF Takes, SameServices
<1>7. Preloaded'
  BY <1>0, <1>2, <1>4, <1>6 DEF Preloaded
<1>8. AllLoaded'
  BY <1>0, <1>2, <1>4 DEF AllLoaded
<1> QED
  BY <1>5, <1>7, <1>8 DEF PreloadInv

LEMMA NextPreloadInv ==
  ASSUME "pods" \notin Faults, TypeInv, PreloadInv, [Next]_vars
  PROVE  PreloadInv'
<1>1. CASE Restart
  BY <1>1, StartPreloadInv DEF Restart
<1>2. CASE Cluster /\ ~Restart
  <2>1. UNCHANGED <<bootVars, Services, go>> /\ (boot # "watching" => events' = events)
    BY <1>2 DEF Cluster, Apply, Remove, PodsChange, StatusChanges, Relist, Emit, watchVars
  <2> QED
    BY <2>1 DEF PreloadInv, bootVars, Roles, Own, BootOrder, Preloaded, AllLoaded, Loads
<1>3. ASSUME NEW n \in Name, ReaperWakes(n) \/ Reap(n) \/ MergeFails(n)
      PROVE  PreloadInv'
  <2>1. SameServices /\ UNCHANGED <<clusterVars, watchVars, bootVars, go>>
    BY <1>3, MarkEffect
  <2>2. Roles' /\ BootOrder' /\ AllLoaded'
    BY <2>1 DEF PreloadInv, bootVars, watchVars, Roles, Own, BootOrder, AllLoaded, Loads
  <2>3. Preloaded'
    BY <2>1, ListTypes DEF PreloadInv, bootVars, Preloaded, SameServices
  <2> QED
    BY <2>2, <2>3 DEF PreloadInv
<1>4. CASE UNCHANGED vars
  BY <1>4 DEF vars, PreloadInv, bootVars, watchVars, Roles, Own, BootOrder, Preloaded, AllLoaded, Loads
<1> QED
  BY <1>1, <1>2, <1>3, <1>4, BootPreloadInv, WorkPreloadInv, HandlePreloadInv DEF Next

LEMMA SpecPreloadInv ==
  ASSUME "pods" \notin Faults
  PROVE  Spec => [](TypeInv /\ PreloadInv)
<1>1. Init => PreloadInv
  <2> SUFFICES ASSUME Init PROVE PreloadInv
    OBVIOUS
  <2>1. /\ boot = "client" /\ gate = "locked" /\ next = 0 /\ events = <<>>
        /\ \A g \in Go : go[g] = Idle
    BY DEF Init, Start
  <2>2. Idle.at = "idle"
    BY DEF Idle
  <2>3. Roles /\ BootOrder
    BY <2>1, <2>2 DEF Roles, Own, BootOrder, Go
  <2> QED
    BY <2>1, <2>3 DEF PreloadInv, Preloaded, AllLoaded
<1>2. TypeInv /\ PreloadInv /\ [Next]_vars => PreloadInv'
  BY NextPreloadInv
<1> QED
  BY <1>1, <1>2, SpecLoaderInv, PTL DEF Spec

\* As long as the pods can be listed, whatever else fails and however the cluster
\* changes meanwhile: WatchJob finds the service of every deployment that was
\* enabled at the start, and none still being loaded.
THEOREM JobsFindServices ==
  ASSUME "pods" \notin Faults
  PROVE  Spec => []PreloadComplete
<1>1. TypeInv /\ PreloadInv => PreloadComplete
  <2> SUFFICES ASSUME TypeInv, PreloadInv, gate = "open"
               PROVE  \A i \in 1..Len(list) : list[i].deploy.on =>
                         /\ Services[App[list[i].name]] # None
                         /\ ~\E g \in Go : Loads(g, App[list[i].name])
    BY DEF PreloadComplete
  <2>1. next = Len(list) /\ go["watcher"].at # "save"
    BY DEF PreloadInv, BootOrder, TypeInv, TypeOK, Idle
  <2> QED
    BY <2>1 DEF PreloadInv, Preloaded, AllLoaded
<1> QED
  BY <1>1, SpecPreloadInv, PTL

-----------------------------------------------------------------------------
(* Events *)

\* Events appended to others
LEMMA AppendEvents ==
  ASSUME NEW p \in Seq(Event), NEW q \in Seq(Event), NEW d, NEW dep
  PROVE  /\ Shows(q, d, dep) => Shows(p \o q, d, dep)
         /\ NoEvent(q, d) /\ Shows(p, d, dep) => Shows(p \o q, d, dep)
         /\ NoEvent(q, d) /\ NoEvent(p, d) => NoEvent(p \o q, d)
<1>1. /\ Len(p) \in Nat /\ Len(q) \in Nat /\ Len(p \o q) = Len(p) + Len(q)
      /\ \A i \in 1..Len(p) : (p \o q)[i] = p[i]
      /\ \A i \in 1..Len(q) : (p \o q)[Len(p) + i] = q[i]
      /\ \A i \in 1..(Len(p) + Len(q)) : i > Len(p) => i - Len(p) \in 1..Len(q) /\ (p \o q)[i] = q[i - Len(p)]
  BY ConcatProperties, LenProperties
<1>2. ASSUME Shows(q, d, dep) PROVE Shows(p \o q, d, dep)
  <2>1. PICK i \in 1..Len(q) :
          /\ q[i].name = d /\ q[i].type \in {"add", "update"} /\ q[i].deploy = dep
          /\ \A j \in 1..Len(q) : j > i => q[j].name # d
    BY <1>2 DEF Shows
  <2>2. ASSUME NEW j \in 1..Len(p \o q), j > Len(p) + i PROVE (p \o q)[j].name # d
    <3>1. j > Len(p) /\ j - Len(p) > i
      BY <1>1, <2>2
    <3>2. j - Len(p) \in 1..Len(q) /\ (p \o q)[j] = q[j - Len(p)]
      BY <1>1, <3>1
    <3> QED
      BY <2>1, <3>1, <3>2
  <2>3. Len(p) + i \in 1..Len(p \o q) /\ (p \o q)[Len(p) + i] = q[i]
    BY <1>1
  <2> QED
    BY <2>1, <2>2, <2>3 DEF Shows
<1>3. ASSUME NoEvent(q, d), Shows(p, d, dep) PROVE Shows(p \o q, d, dep)
  <2>1. PICK i \in 1..Len(p) :
          /\ p[i].name = d /\ p[i].type \in {"add", "update"} /\ p[i].deploy = dep
          /\ \A j \in 1..Len(p) : j > i => p[j].name # d
    BY <1>3 DEF Shows
  <2>2. \A j \in 1..Len(p \o q) : j > i => (p \o q)[j].name # d
    BY <1>1, <1>3, <2>1 DEF NoEvent
  <2>3. i \in 1..Len(p \o q) /\ (p \o q)[i] = p[i]
    BY <1>1
  <2> QED
    BY <2>1, <2>2, <2>3 DEF Shows
<1>4. ASSUME NoEvent(q, d), NoEvent(p, d) PROVE NoEvent(p \o q, d)
  BY <1>1, <1>4 DEF NoEvent
<1> QED
  BY <1>2, <1>3, <1>4

\* The first event taken off others
LEMMA TakeEvent ==
  ASSUME NEW q \in Seq(Event), q # <<>>, NEW d, NEW dep
  PROVE  /\ NoEvent(q, d) => Head(q).name # d /\ NoEvent(Tail(q), d)
         /\ Shows(q, d, dep) =>
              \/ Shows(Tail(q), d, dep)
              \/ /\ Head(q).name = d /\ Head(q).type \in {"add", "update"} /\ Head(q).deploy = dep
                 /\ NoEvent(Tail(q), d)
<1>1. /\ Len(q) \in Nat \ {0} /\ Len(Tail(q)) = Len(q) - 1 /\ Head(q) = q[1]
      /\ \A i \in 1..Len(Tail(q)) : Tail(q)[i] = q[i + 1]
  BY HeadTailProperties, EmptySeq
<1>2. ASSUME Shows(q, d, dep)
      PROVE  \/ Shows(Tail(q), d, dep)
             \/ /\ Head(q).name = d /\ Head(q).type \in {"add", "update"} /\ Head(q).deploy = dep
                /\ NoEvent(Tail(q), d)
  <2>1. PICK i \in 1..Len(q) :
          /\ q[i].name = d /\ q[i].type \in {"add", "update"} /\ q[i].deploy = dep
          /\ \A j \in 1..Len(q) : j > i => q[j].name # d
    BY <1>2 DEF Shows
  <2>2. \A j \in 1..Len(Tail(q)) : j > i - 1 => Tail(q)[j].name # d
    BY <1>1, <2>1
  <2>3. CASE i = 1
    BY <1>1, <2>1, <2>2, <2>3 DEF NoEvent
  <2>4. CASE i > 1
    <3>1. i - 1 \in 1..Len(Tail(q)) /\ Tail(q)[i - 1] = q[i]
      BY <1>1, <2>4
    <3> QED
      BY <2>1, <2>2, <3>1 DEF Shows
  <2> QED
    BY <2>3, <2>4
<1>3. NoEvent(q, d) => Head(q).name # d /\ NoEvent(Tail(q), d)
  BY <1>1 DEF NoEvent
<1> QED
  BY <1>2, <1>3

\* An order of a set of names has every one of them, and once.
LEMMA OrdersOnto ==
  ASSUME NEW D \in SUBSET Name, NEW q \in Orders(D)
  PROVE  /\ DOMAIN q = 1..Cardinality(D) /\ Cardinality(D) \in Nat
         /\ \A d \in D : \E i \in DOMAIN q : q[i] = d /\ \A j \in DOMAIN q : j # i => q[j] # d
<1>1. IsFiniteSet(D) /\ Cardinality(D) \in Nat
  BY FS_Subset, FS_CardinalityType, ServicesAssumption
<1>2. /\ q \in [1..Cardinality(D) -> D]
      /\ \A i, j \in 1..Cardinality(D) : q[i] = q[j] => i = j
  BY DEF Orders
<1>3. q \in Injection(1..Cardinality(D), D)
  BY <1>2 DEF Injection, IsInjective
<1>4. Cardinality(1..Cardinality(D)) = Cardinality(D)
  BY <1>1, FS_Interval
<1>5. q \in Surjection(1..Cardinality(D), D)
  BY <1>1, <1>3, <1>4, FS_Injection
<1> QED
  BY <1>1, <1>2, <1>5 DEF Surjection

\* A list shows every deployment as it is.
LEMMA ListedShows ==
  ASSUME TypeInv, NEW store \in SUBSET Name, NEW p \in Listed(store), NEW d \in Existing
  PROVE  Shows(p, d, deployments[d])
<1> DEFINE D == Existing \cup store
<1>1. PICK q \in Orders(D) : p = [i \in DOMAIN q |-> ListEvent(q[i], store)]
  BY DEF Listed
<1>2. D \in SUBSET Name
  BY DEF Existing
<1>3. PICK i \in DOMAIN q : q[i] = d /\ \A j \in DOMAIN q : j # i => q[j] # d
  BY <1>2, OrdersOnto
<1>4. DOMAIN q = 1..Cardinality(D) /\ Cardinality(D) \in Nat /\ \A j \in DOMAIN q : q[j] \in D
  BY <1>2, OrdersOnto DEF Orders
<1>5. \A j \in DOMAIN q : p[j] = ListEvent(q[j], store) /\ p[j].name = q[j]
  BY <1>1 DEF ListEvent
<1>6. Len(p) = Cardinality(D)
  <2>1. p \in Seq(Event)
    BY ListedSeq DEF TypeInv
  <2>2. DOMAIN p = 1..Cardinality(D)
    BY <1>1, <1>4
  <2> QED
    BY <1>4, <2>1, <2>2, LenProperties
<1>7. p[i].type \in {"add", "update"} /\ p[i].deploy = deployments[d]
  <2>1. p[i] = [type |-> IF d \in store THEN "update" ELSE "add", name |-> d, deploy |-> deployments[d]]
    BY <1>3, <1>5 DEF ListEvent
  <2> QED
    BY <2>1
<1>8. DOMAIN q = 1..Len(p) /\ Len(p) \in Nat
  BY <1>4, <1>6
<1>9. p[i].name = d /\ \A j \in DOMAIN q : j # i => p[j].name # d
  BY <1>3, <1>5
<1>10. \A j \in 1..Len(p) : j > i => p[j].name # d
  BY <1>8, <1>9
<1> QED
  BY <1>7, <1>8, <1>9, <1>10 DEF Shows

-----------------------------------------------------------------------------
(* The registry follows the cluster *)

\* Changes of other deployments, and pods of this one that are gone
LEMMA OthersChange ==
  ASSUME TypeInv, NEW d \in Name, Tracked(d),
         deployments'[d] = deployments[d], ready'[d] \subseteq ready[d], UNCHANGED <<Services, go>>,
         NEW q \in Seq(Event), events' = events \o q, NoEvent(q, d)
  PROVE  Tracked(d)'
<1>1. events \in Seq(Event)
  BY DEF TypeInv, TypeOK
<1>2. Follows(d) => Follows(d)'
  BY DEF Follows, InHand, Sole
<1> QED
  BY <1>1, <1>2, AppendEvents DEF Tracked

\* An event that shows the deployment makes up for whatever has changed.
LEMMA ShownAgain ==
  ASSUME TypeInv, NEW d \in Name, NEW p \in Seq(Event), NEW q \in Seq(Event), events' = p \o q,
         deployments'[d] # None => Shows(q, d, deployments'[d])
  PROVE  Tracked(d)'
BY AppendEvents DEF Tracked

LEMMA ApplyTracked ==
  ASSUME TypeInv, boot = "watching", FollowInv, NEW a \in Name, NEW new \in Deployment, Apply(a, new),
         NEW d \in Name
  PROVE  Tracked(d)'
<1> DEFINE e == [type |-> IF deployments[a] = None THEN "add" ELSE "update", name |-> a, deploy |-> new]
<1>1. events' = events \o <<e>> /\ UNCHANGED <<ready, Services, go>>
  BY DEF Apply, Emit
<1>2. e \in Event /\ e.name = a /\ e.type \in {"add", "update"} /\ e.deploy = new
  BY DEF Event
<1> HIDE DEF e
<1>3. <<e>> \in Seq(Event) /\ Len(<<e>>) = 1 /\ <<e>>[1] = e /\ events \in Seq(Event)
  BY <1>2 DEF TypeInv, TypeOK
<1>4. deployments'[d] = IF d = a THEN new ELSE deployments[d]
  BY DEF Apply, TypeInv, TypeOK
<1>5. CASE d = a
  <2>1. Shows(<<e>>, d, new)
    BY <1>2, <1>3, <1>5 DEF Shows
  <2> QED
    BY <1>1, <1>3, <1>4, <1>5, <2>1, ShownAgain
<1>6. CASE d # a
  <2>1. NoEvent(<<e>>, d)
    BY <1>2, <1>3, <1>6 DEF NoEvent
  <2>2. Tracked(d)
    BY DEF FollowInv
  <2> QED
    BY <1>1, <1>3, <1>4, <1>6, <2>1, <2>2, OthersChange
<1> QED
  BY <1>5, <1>6

LEMMA RemoveTracked ==
  ASSUME TypeInv, boot = "watching", FollowInv, NEW a \in Name, Remove(a), NEW d \in Name
  PROVE  Tracked(d)'
<1> DEFINE e == [type |-> "delete", name |-> a]
<1>1. events' = events \o <<e>> /\ UNCHANGED <<Services, go>> /\ ready'[d] \subseteq ready[d]
  BY DEF Remove, Emit, TypeInv, TypeOK
<1>2. e \in Event /\ e.name = a
  BY DEF Event
<1> HIDE DEF e
<1>3. <<e>> \in Seq(Event) /\ Len(<<e>>) = 1 /\ <<e>>[1] = e
  BY <1>2
<1>4. deployments'[d] = IF d = a THEN None ELSE deployments[d]
  BY DEF Remove, TypeInv, TypeOK
<1>5. CASE d = a
  BY <1>4, <1>5 DEF Tracked
<1>6. CASE d # a
  <2>1. NoEvent(<<e>>, d)
    BY <1>2, <1>3, <1>6 DEF NoEvent
  <2>2. Tracked(d)
    BY DEF FollowInv
  <2> QED
    BY <1>1, <1>3, <1>4, <1>6, <2>1, <2>2, OthersChange
<1> QED
  BY <1>5, <1>6

LEMMA PodsChangeTracked ==
  ASSUME TypeInv, boot = "watching", FollowInv, NEW n \in Name, PodsChange(n), NEW d \in Name
  PROVE  Tracked(d)'
<1>1. UNCHANGED <<deployments, events, Services, go>> /\ ready'[d] \subseteq ready[d]
  BY DEF PodsChange, watchVars
<1>2. Tracked(d)
  BY DEF FollowInv
<1> QED
  BY <1>1, <1>2 DEF Tracked, Follows, InHand, Sole

LEMMA StatusTracked ==
  ASSUME TypeInv, boot = "watching", FollowInv, NEW a \in Name, StatusChanges(a), NEW d \in Name
  PROVE  Tracked(d)'
<1> DEFINE e == [type |-> "update", name |-> a, deploy |-> deployments[a]]
<1>1. events' = events \o <<e>> /\ UNCHANGED <<deployments, Services, go>>
  BY DEF StatusChanges, Emit
<1>2. e \in Event /\ e.name = a /\ e.type = "update" /\ e.deploy = deployments[a]
  BY DEF Event, StatusChanges, TypeInv, TypeOK
<1> HIDE DEF e
<1>3. <<e>> \in Seq(Event) /\ Len(<<e>>) = 1 /\ <<e>>[1] = e /\ events \in Seq(Event)
  BY <1>2 DEF TypeInv, TypeOK
<1>4. CASE d = a
  <2>1. Shows(<<e>>, d, deployments[d])
    BY <1>2, <1>3, <1>4 DEF Shows
  <2> QED
    BY <1>1, <1>3, <2>1, ShownAgain
<1>5. CASE d # a
  <2>1. NoEvent(<<e>>, d)
    BY <1>2, <1>3, <1>5 DEF NoEvent
  <2>2. Tracked(d) /\ ready'[d] = ready[d]
    BY <1>5 DEF FollowInv, StatusChanges, TypeInv, TypeOK
  <2> QED
    BY <1>1, <1>3, <2>1, <2>2, OthersChange
<1> QED
  BY <1>4, <1>5

LEMMA NextReadyThere ==
  ASSUME TypeInv, ReadyThere, [Next]_vars
  PROVE  ReadyThere'
<1> USE DEF ReadyThere
<1>1. CASE UNCHANGED <<pods, ready>>
  BY <1>1
<1>2. ASSUME NEW d \in Name, Remove(d) PROVE ReadyThere'
  BY <1>2 DEF Remove, TypeInv, TypeOK
<1>3. ASSUME NEW n \in Name, PodsChange(n) PROVE ReadyThere'
  BY <1>3 DEF PodsChange, TypeInv, TypeOK
<1>4. ASSUME NEW d \in Name, StatusChanges(d) PROVE ReadyThere'
  BY <1>4 DEF StatusChanges, TypeInv, TypeOK
<1>5. CASE Boot \/ GiveUp \/ Handle \/ Relist \/ Restart \/ UNCHANGED vars
  BY <1>1, <1>5 DEF Boot, GiveUp, Handle, Relist, Restart, Connect, ListDeployments, Preload, OpenGate,
     StartInformer, AddFunc, UpdateFunc, DeleteFunc, DeleteFuncNotDeployment, Receive, vars, clusterVars
<1>6. ASSUME NEW d \in Name, NEW new \in Deployment, Apply(d, new) PROVE ReadyThere'
  BY <1>1, <1>6 DEF Apply
<1>7. ASSUME NEW g \in Go, Work(g) PROVE ReadyThere'
  BY <1>1, <1>7, WorkEffect DEF GetServiceJarPackagePanics, clusterVars
<1>8. ASSUME NEW n \in Name, ReaperWakes(n) \/ Reap(n) \/ MergeFails(n) PROVE ReadyThere'
  BY <1>1, <1>8, MarkEffect DEF clusterVars
<1> QED
  BY <1>2, <1>3, <1>4, <1>5, <1>6, <1>7, <1>8 DEF Next, Cluster

LEMMA RelistTracked ==
  ASSUME TypeInv, Relist, NEW d \in Name
  PROVE  Tracked(d)'
<1>1. PICK k \in 0..Len(events) : \E q \in Listed(StoreAfter(SubSeq(events, 1, k))) :
        events' = SubSeq(events, 1, k) \o q
  BY DEF Relist
<1> DEFINE kept == SubSeq(events, 1, k)
<1>2. PICK q \in Listed(StoreAfter(kept)) : events' = kept \o q
  BY <1>1
<1>3. StoreAfter(kept) \in SUBSET Name
  BY DEF StoreAfter
<1>4. q \in Seq(Event)
  BY <1>2, <1>3, ListedSeq DEF TypeInv
<1>5. kept \in Seq(Event)
  <2>1. events \in Seq(Event)
    BY DEF TypeInv, TypeOK
  <2> QED
    BY <2>1
<1>6. deployments' = deployments
  BY DEF Relist, clusterVars
<1>7. deployments[d] # None => Shows(q, d, deployments[d])
  BY <1>2, <1>3, ListedShows DEF Existing
<1> HIDE DEF kept
<1> QED
  BY <1>2, <1>4, <1>5, <1>6, <1>7, ShownAgain

LEMMA HandleTracked ==
  ASSUME "pods" \notin Faults, TypeInv, boot = "watching", FollowInv, Handle, NEW d \in Name
  PROVE  Tracked(d)'
<1>1. PICK e \in Event : Takes(e)
  BY HandleEffect
<1>2. /\ e = Head(events) /\ events # <<>> /\ events' = Tail(events) /\ events \in Seq(Event)
      /\ UNCHANGED <<deployments, pods, ready>> /\ go["informer"].at = "idle" /\ SameServices
      /\ e.name \in Name /\ App[d] \in Name /\ Idle.at = "idle" /\ ready[d] \subseteq pods[App[d]]
  BY <1>1, ServicesAssumption DEF Takes, clusterVars, TypeInv, TypeOK, Idle, Event, FollowInv, ReadyThere
<1> SUFFICES ASSUME deployments[d] # None, deployments[d].on
             PROVE  Shows(Tail(events), d, deployments[d]) \/ (NoEvent(Tail(events), d) /\ Follows(d)')
  BY <1>2 DEF Tracked
<1>3. Tracked(d)
  BY DEF FollowInv
<1>4. CASE NoEvent(events, d) /\ Follows(d)
  <2>1. NoEvent(Tail(events), d) /\ e.name # d
    BY <1>2, <1>4, TakeEvent
  <2>2. ~InHand(d)
    BY <1>2 DEF InHand
  <2>3. CASE InHand(d)'
    <3>1. go'["informer"].pods = pods[App[d]] /\ App[e.name] = App[d]
      BY <1>1, <1>2, <2>3 DEF Takes, InHand
    <3>2. ~Sole(d)
      BY <1>2, <2>1, <3>1 DEF Sole
    <3> QED
      BY <1>2, <2>1, <2>3, <3>1, <3>2 DEF Follows, Sole
  <2>4. CASE ~InHand(d)'
    BY <1>2, <1>4, <2>1, <2>2, <2>4 DEF Follows, Sole, SameServices
  <2> QED
    BY <2>3, <2>4
<1>5. CASE Shows(events, d, deployments[d])
  <2>1. CASE Shows(Tail(events), d, deployments[d])
    BY <2>1
  <2>2. CASE ~Shows(Tail(events), d, deployments[d])
    <3>1. /\ e.name = d /\ e.type \in {"add", "update"} /\ e.deploy = deployments[d]
          /\ NoEvent(Tail(events), d)
      BY <1>2, <1>5, <2>2, TakeEvent
    <3>2. /\ go'["informer"].at = "save" /\ go'["informer"].name = App[d]
          /\ go'["informer"].pods = pods[App[d]] /\ go'["informer"].image = deployments[d].image
      BY <1>1, <1>2, <3>1 DEF Takes
    <3> QED
      BY <1>2, <3>1, <3>2 DEF Follows, InHand
  <2> QED
    BY <2>1, <2>2
<1> QED
  BY <1>3, <1>4, <1>5 DEF Tracked

LEMMA WorkTracked ==
  ASSUME TypeInv, PreloadInv, boot = "watching", FollowInv, NEW g \in Go, NEW d \in Name,
         Saves(g) \/ LoadsOn(g), UNCHANGED <<clusterVars, watchVars>>
  PROVE  Tracked(d)'
<1>0. /\ UNCHANGED <<deployments, ready, events>> /\ App[d] \in Name
      /\ Idle.at = "idle" /\ "informer" \in Go /\ "informer" \notin Thread
  BY ServicesAssumption DEF clusterVars, watchVars, Idle, Go
<1> SUFFICES ASSUME Follows(d) PROVE Follows(d)'
  BY <1>0 DEF FollowInv, Tracked
<1>1. CASE Saves(g)
  <2>1. g = "informer"
    BY <1>0, <1>1 DEF Saves, PreloadInv, Roles, BootOrder, Go
  <2>2. ~InHand(d)'
    BY <1>0, <1>1, <2>1 DEF Saves, InHand
  <2>3. CASE InHand(d)
    BY <1>0, <1>1, <2>1, <2>2, <2>3 DEF Saves, InHand, Follows, Sole
  <2>4. CASE ~InHand(d)
    <3>1. App[d] # go[g].name
      BY <1>1, <2>1, <2>4 DEF Saves, InHand
    <3> QED
      BY <1>0, <1>1, <2>2, <2>4, <3>1 DEF Saves, Follows, Sole
  <2> QED
    BY <2>3, <2>4
<1>2. CASE LoadsOn(g)
  <2>1. InHand(d)' <=> InHand(d)
    BY <1>0, <1>2 DEF LoadsOn, InHand
  <2>2. InHand(d) => go'["informer"] = go["informer"]
    BY <1>0, <1>2 DEF LoadsOn, InHand
  <2> QED
    BY <1>0, <1>2, <2>1, <2>2 DEF LoadsOn, SameServices, Follows, Sole
<1> QED
  BY <1>1, <1>2

LEMMA NextFollowInv ==
  ASSUME "pods" \notin Faults, TypeInv, PreloadInv, FollowInv, [Next]_vars
  PROVE  FollowInv'
<1> SUFFICES ASSUME boot' = "watching", NEW d \in Name PROVE Tracked(d)'
  BY NextReadyThere DEF FollowInv
<1>1. CASE StartInformer
  <2>1. events' \in Listed({}) /\ deployments' = deployments
    BY <1>1 DEF StartInformer, clusterVars
  <2>2. deployments[d] # None => Shows(events', d, deployments[d])
    BY <2>1, ListedShows DEF Existing
  <2> QED
    BY <2>1, <2>2 DEF Tracked
<1>2. CASE ~StartInformer
  <2>1. ~Connect /\ ~GiveUp /\ ~ListDeployments /\ ~OpenGate /\ ~Preload /\ ~Restart
        /\ \A g \in Go : ~GetServiceJarPackagePanics(g)
    BY DEF Connect, GiveUp, ListDeployments, OpenGate, Preload, Restart, GetServiceJarPackagePanics, Start
  <2>2. CASE Cluster
    <3>1. boot = "watching"
      BY <2>1, <2>2 DEF Cluster, Apply, Remove, PodsChange, StatusChanges, Relist, bootVars
    <3> QED
      BY <2>1, <2>2, <3>1, ApplyTracked, RemoveTracked, PodsChangeTracked, StatusTracked, RelistTracked DEF Cluster
  <2>3. CASE Handle
    <3>1. boot = "watching"
      BY <2>3 DEF Handle, AddFunc, UpdateFunc, DeleteFunc, DeleteFuncNotDeployment, Receive, bootVars
    <3> QED
      BY <2>3, <3>1, HandleTracked
  <2>4. ASSUME NEW g \in Go, Work(g) PROVE Tracked(d)'
    <3>1. (Saves(g) \/ LoadsOn(g)) /\ UNCHANGED <<clusterVars, watchVars, bootVars>>
      BY <2>1, <2>4, WorkEffect
    <3>2. boot = "watching"
      BY <3>1 DEF bootVars
    <3> QED
      BY <3>1, <3>2, WorkTracked
  <2>5. ASSUME SameServices, UNCHANGED <<deployments, ready, events, boot, go>> PROVE Tracked(d)'
    <3>1. Tracked(d) /\ App[d] \in Name
      BY <2>5, ServicesAssumption DEF FollowInv
    <3> QED
      BY <2>5, <3>1 DEF Tracked, Follows, InHand, Sole, SameServices
  <2>6. ASSUME NEW n \in Name, ReaperWakes(n) \/ Reap(n) \/ MergeFails(n) PROVE Tracked(d)'
    BY <2>5, <2>6, MarkEffect DEF clusterVars, watchVars, bootVars
  <2>7. CASE UNCHANGED vars
    BY <2>5, <2>7 DEF vars, clusterVars, watchVars, bootVars, SameServices
  <2> QED
    BY <1>2, <2>1, <2>2, <2>3, <2>4, <2>6, <2>7 DEF Next, Boot
<1> QED
  BY <1>1, <1>2

\* As long as the pods can be listed, for any number of deployments, with labels of
\* their own or shared, and any order of lists, changes, broken watches and
\* restarts: an informer that has nothing left to do has left the registry with
\* every pod that is there and counted by the status of its deployment, and, where
\* the label is one deployment's own, with its image.  Nothing is assumed of when
\* pods start and go, nor of how long after that a status follows, if it does.
THEOREM RegistryTracks ==
  ASSUME "pods" \notin Faults
  PROVE  Spec => []RegistryFollows
<1>1. Init => FollowInv
  BY DEF Init, Start, FollowInv, ReadyThere
<1>2. TypeInv /\ PreloadInv /\ FollowInv /\ [Next]_vars => FollowInv'
  BY NextFollowInv
<1>3. FollowInv => RegistryFollows
  <2> SUFFICES ASSUME FollowInv, Quiet, NEW d \in Name, deployments[d] # None, deployments[d].on
               PROVE  /\ Services[App[d]] # None
                      /\ ready[d] \subseteq Services[App[d]].pods
                      /\ Sole(d) => Services[App[d]].image = deployments[d].image
    BY DEF RegistryFollows, Sole
  <2>1. Tracked(d) /\ ~Shows(events, d, deployments[d])
    BY DEF FollowInv, Quiet, Shows
  <2>2. ~InHand(d)
    BY DEF Quiet, InHand, Idle
  <2> QED
    BY <2>1, <2>2 DEF Tracked, Follows
<1> QED
  BY <1>1, <1>2, <1>3, SpecPreloadInv, PTL DEF Spec
=============================================================================
