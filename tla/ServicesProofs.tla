--------------------------- MODULE ServicesProofs ---------------------------
(***************************************************************************)
(* Proofs about Services, for every cluster and every kind of failure.     *)
(***************************************************************************)
EXTENDS Services, FiniteSetTheorems, SequenceTheorems, TLAPS

-----------------------------------------------------------------------------
(* Types *)

\* A copy that has ended has a result.
CopyHasResult == \A g \in Go : go[g].at = "store" => go[g].got # "none"

\* Nothing is counted before the deployments are listed.
NotListed == boot \in {"client", "list"} => list = <<>>

TypeInv == TypeOK /\ CopyHasResult /\ NotListed

\* A goroutine that loads the jars of a registered object finds it registered.
LoaderRegistered ==
    \A g \in Go : go[g].at \in {"copy", "store"} /\ go[g].own => Services[go[g].name] # None

LoaderInv == LoaderRegistered /\ EveryServiceLoads

\* Any values listed in one of the orders of a set of names are a sequence.
LEMMA OrdersSeq ==
  ASSUME NEW D \in SUBSET Name, NEW q \in Orders(D), NEW S, NEW f \in [DOMAIN q -> S]
  PROVE  f \in Seq(S) /\ \A i \in DOMAIN q : q[i] \in D
<1>1. Cardinality(D) \in Nat
  BY FS_Subset, FS_CardinalityType, ServicesAssumption
<1>2. DOMAIN q = 1..Cardinality(D) /\ \A i \in DOMAIN q : q[i] \in D
  BY DEF Orders
<1> QED
  BY <1>1, <1>2, SeqDef

\* The events of a list are events.
LEMMA ListedSeq ==
  ASSUME TypeOK, NEW store \in SUBSET Name, NEW e \in Listed(store)
  PROVE  e \in Seq(Event)
<1>1. PICK q \in Orders(Existing \cup store) : e = [i \in DOMAIN q |-> ListEvent(q[i], store)]
  BY DEF Listed
<1>2. Existing \cup store \in SUBSET Name
  BY DEF Existing
<1>3. \A i \in DOMAIN q : q[i] \in Name
  BY <1>2, DOMAIN q = 1..Cardinality(Existing \cup store) DEF Orders
<1>4. \A i \in DOMAIN q : ListEvent(q[i], store) \in Event
  BY <1>3 DEF ListEvent, Existing, Event, TypeOK
<1> QED
  BY <1>1, <1>2, <1>4, OrdersSeq

LEMMA StartTypeInv ==
  ASSUME NEW b, NEW g, NEW l, NEW n, NEW done, NEW svcs, NEW work,
         Start(b, g, l, n, done, svcs, work)
  PROVE  /\ b = "client" /\ g = "locked" /\ l = <<>>
         /\ l \in Seq([name: Name, deploy: Deployment])
         /\ n \in 0..Len(l) /\ done \in 0..Len(l)
         /\ svcs \in [Name -> Service \cup {None}]
         /\ work \in [Go -> Saving \cup Loading \cup {Idle}]
         /\ \A r \in Go : work[r] = Idle
  BY DEF Start

LEMMA InitTypeInv == Init => TypeInv
<1> SUFFICES ASSUME Init PROVE TypeInv
  OBVIOUS
<1> USE ServicesAssumption
<1>1. <<>> \in Seq(Event)
  OBVIOUS
<1> QED
  BY <1>1, StartTypeInv DEF Init, TypeInv, TypeOK, CopyHasResult, NotListed, Idle

LEMMA ClusterTypeInv ==
  ASSUME TypeInv, Cluster
  PROVE  TypeInv'
<1> USE DEF TypeInv, TypeOK, CopyHasResult, NotListed
<1>2. ASSUME NEW d \in Name, NEW new \in Deployment, Apply(d, new)
      PROVE  TypeInv'
  <2> DEFINE e == [type |-> IF deployments[d] = None THEN "add" ELSE "update",
                   name |-> d, deploy |-> new]
  <2>1. e \in Event /\ Emit(<<e>>)
    BY <1>2 DEF Event, Apply
  <2> HIDE DEF e
  <2>2. events' \in Seq(Event)
    BY <2>1 DEF Emit
  <2> QED
    BY <1>2, <2>2, ServicesAssumption DEF Apply, Changed, bootVars
<1>3. ASSUME NEW d \in Name, Remove(d)
      PROVE  TypeInv'
  <2> DEFINE e == [type |-> "delete", name |-> d]
  <2>1. e \in Event /\ Emit(<<e>>)
    BY <1>3 DEF Event, Remove
  <2> HIDE DEF e
  <2>2. events' \in Seq(Event)
    BY <2>1 DEF Emit
  <2> QED
    BY <1>3, <2>2, ServicesAssumption DEF Remove, Changed, bootVars
<1>4. ASSUME NEW n \in Name, PodsChange(n)
      PROVE  TypeInv'
  <2>1. PICK new \in SUBSET (pods[n] \cup Pods(n)) :
          /\ pods' = [pods EXCEPT ![n] = new]
          /\ ready' = [d \in Name |-> IF App[d] = n THEN ready[d] \cap new ELSE ready[d]]
    BY <1>4 DEF PodsChange
  <2>2. Pods(n) \subseteq Pod
    BY DEF Pods, Pod, Deployments, Deployment
  <2>3. pods' \in [Name -> SUBSET Pod]
    BY <2>1, <2>2
  <2>4. ready' \in [Name -> SUBSET Pod]
    BY <2>1
  <2> QED
    BY <1>4, <2>3, <2>4, ServicesAssumption DEF PodsChange, Changed, watchVars, bootVars
<1>7. ASSUME NEW d \in Name, StatusChanges(d)
      PROVE  TypeInv'
  <2> DEFINE e == [type |-> "update", name |-> d, deploy |-> deployments[d]]
  <2>1. e \in Event /\ Emit(<<e>>)
    BY <1>7 DEF Event, StatusChanges
  <2> HIDE DEF e
  <2>2. events' \in Seq(Event)
    BY <2>1 DEF Emit
  <2>3. pods[App[d]] \subseteq Pod
    BY ServicesAssumption
  <2>4. ready' \in [Name -> SUBSET Pod]
    BY <1>7, <2>3 DEF StatusChanges
  <2> QED
    BY <1>7, <2>2, <2>4, ServicesAssumption DEF StatusChanges, Changed, bootVars
<1>5. CASE Relist
  <2>0. PICK k \in 0..Len(events) :
          \E q \in Listed(StoreAfter(SubSeq(events, 1, k))) : events' = SubSeq(events, 1, k) \o q
    BY <1>5 DEF Relist
  <2>1. PICK q \in Listed(StoreAfter(SubSeq(events, 1, k))) : events' = SubSeq(events, 1, k) \o q
    BY <2>0
  <2>2. q \in Seq(Event)
    BY ListedSeq DEF StoreAfter
  <2>3. SubSeq(events, 1, k) \in Seq(Event)
    BY <2>1, SubSeqProperties, ElementOfSeq, LenProperties
  <2>4. events' \in Seq(Event)
    BY <2>1, <2>2, <2>3
  <2> QED
    BY <1>5, <2>4, ServicesAssumption DEF Relist, clusterVars, bootVars
<1>6. CASE Restart
  BY <1>6, StartTypeInv, ServicesAssumption, SMTT(40) DEF Restart, Changed, Idle
<1> QED
  BY <1>2, <1>3, <1>4, <1>5, <1>6, <1>7 DEF Cluster

\* getServiceByDeploy gives a goroutine at most a service to save.
LEMMA GetServiceTypeInv ==
  ASSUME TypeInv, NEW g \in Go, NEW sync \in BOOLEAN, NEW e,
         e.name \in Name, e.deploy \in Deployment, GetServiceByDeploy(g, e, sync)
  PROVE  go' \in [Go -> Saving \cup Loading \cup {Idle}] /\ CopyHasResult'
<1> USE ServicesAssumption DEF TypeInv, TypeOK, CopyHasResult, NotListed
<1>1. CASE go' = go
  BY <1>1
<1>2. CASE go' # go
  <2> DEFINE s == [at |-> "save", name |-> App[e.name], image |-> e.deploy.image,
                   pods |-> pods[App[e.name]], sync |-> sync]
  <2>1. go' = [go EXCEPT ![g] = s]
    BY <1>2 DEF GetServiceByDeploy
  <2>2. s \in Saving /\ s.at = "save"
    BY DEF Saving, Deployment
  <2> HIDE DEF s
  <2> QED
    BY <2>1, <2>2
<1> QED
  BY <1>1, <1>2

LEMMA BootTypeInv ==
  ASSUME TypeInv, Boot \/ GiveUp
  PROVE  TypeInv'
<1> USE DEF TypeInv, TypeOK, CopyHasResult, NotListed, clusterVars, watchVars
<1>1. CASE Connect \/ GiveUp \/ OpenGate
  BY <1>1 DEF Connect, GiveUp, OpenGate
<1>2. CASE ListDeployments
  <2>1. PICK q \in Orders(Existing) :
          list' = [i \in DOMAIN q |-> [name |-> q[i], deploy |-> deployments[q[i]]]]
    BY <1>2 DEF ListDeployments
  <2>2. \A i \in DOMAIN q : q[i] \in Existing
    BY DOMAIN q = 1..Cardinality(Existing) DEF Orders
  <2>3. list' \in [DOMAIN q -> [name: Name, deploy: Deployment]]
    BY <2>1, <2>2 DEF Existing
  <2>4. Existing \in SUBSET Name
    BY DEF Existing
  <2>5. list' \in Seq([name: Name, deploy: Deployment])
    BY <2>3, <2>4, OrdersSeq
  <2>6. next = 0 /\ watchListDeployLoadDoneNum = 0 /\ Len(list') \in Nat
    BY <1>2, <2>5, EmptySeq, LenProperties DEF ListDeployments
  <2> QED
    BY <1>2, <2>5, <2>6 DEF ListDeployments
<1>3. CASE Preload
  <2>0. next + 1 \in 1..Len(list)
    BY <1>3, LenProperties DEF Preload
  <2>1. list[next + 1] \in [name: Name, deploy: Deployment]
    BY <2>0, ElementOfSeq
  <2>2. go' \in [Go -> Saving \cup Loading \cup {Idle}] /\ CopyHasResult'
    BY <1>3, <2>1, GetServiceTypeInv DEF Preload, Go
  <2> QED
    BY <1>3, <2>2 DEF Preload
<1>4. CASE StartInformer
  BY <1>4, ListedSeq DEF StartInformer
<1> QED
  BY <1>1, <1>2, <1>3, <1>4 DEF Boot

LEMMA HandleTypeInv ==
  ASSUME TypeInv, Handle
  PROVE  TypeInv'
<1> USE DEF TypeInv, TypeOK, CopyHasResult, NotListed, clusterVars, bootVars
<1>1. ASSUME NEW type, Receive(type)
      PROVE  /\ Head(events) \in Event /\ Head(events).name \in Name
             /\ type \in {"add", "update"} => Head(events).deploy \in Deployment
             /\ events' \in Seq(Event)
  BY <1>1, HeadTailProperties DEF Receive, Event
<1>2. CASE AddFunc
  <2>1. Receive("add")
    BY <1>2 DEF AddFunc
  <2>2. (watchListDeployLoadDoneNum < Len(list)) \in BOOLEAN
    OBVIOUS
  <2>3. go' \in [Go -> Saving \cup Loading \cup {Idle}] /\ CopyHasResult'
    BY <1>1, <1>2, <2>1, <2>2, GetServiceTypeInv DEF AddFunc, Go
  <2> QED
    BY <1>1, <1>2, <2>1, <2>3 DEF AddFunc, Receive
<1>3. CASE UpdateFunc
  <2>1. Receive("update")
    BY <1>3 DEF UpdateFunc
  <2>2. go' \in [Go -> Saving \cup Loading \cup {Idle}] /\ CopyHasResult'
    BY <1>1, <1>3, <2>1, GetServiceTypeInv DEF UpdateFunc, Go
  <2> QED
    BY <1>1, <1>3, <2>1, <2>2 DEF UpdateFunc, Receive
<1>4. CASE DeleteFunc
  <2>1. Receive("delete")
    BY <1>4 DEF DeleteFunc
  <2> DEFINE n == Head(events).name
  <2>2. Services[n] # None => [Services[n] EXCEPT !.IsDelete = TRUE] \in Service
    BY <1>1, <2>1, ZenonT(40) DEF Service
  <2>3. Services' \in [Name -> Service \cup {None}]
    BY <1>1, <1>4, <2>1, <2>2 DEF DeleteFunc, DeleteServiceLater
  <2> QED
    BY <1>1, <1>4, <2>1, <2>3 DEF DeleteFunc, Receive
<1>5. CASE DeleteFuncNotDeployment
  <2>1. Receive("unknown")
    BY <1>5 DEF DeleteFuncNotDeployment
  <2> QED
    BY <1>1, <1>5, <2>1 DEF DeleteFuncNotDeployment, Receive
<1> QED
  BY <1>2, <1>3, <1>4, <1>5 DEF Handle

LEMMA WorkTypeInv ==
  ASSUME TypeInv, LoaderRegistered, NEW g \in Go, Work(g)
  PROVE  TypeInv'
<1> USE DEF TypeInv, TypeOK, CopyHasResult, NotListed, clusterVars, watchVars, bootVars
<1> DEFINE n == go[g].name
<1>1. /\ go[g].at = "save" => go[g] \in Saving
      /\ go[g].at \in {"copy", "store"} => go[g] \in Loading
      /\ go[g].at # "idle" => n \in Name
  BY DEF Saving, Loading, Idle
<1>2. ASSUME NEW own \in BOOLEAN, NEW ps \in SUBSET Pod, NEW m \in Name
      PROVE  Load(m, own, ps) \in Loading /\ Load(m, own, ps).at = "copy"
  BY DEF Load, Loading, Jars
<1>3. ASSUME NEW h \in Go, NEW own \in BOOLEAN, NEW ps \in SUBSET Pod, NEW m \in Name,
             \/ go' = [go EXCEPT ![h] = Load(m, own, ps)]
             \/ GoLoad(h, Load(m, own, ps))
      PROVE  go' \in [Go -> Saving \cup Loading \cup {Idle}] /\ CopyHasResult'
  <2> DEFINE w == Load(m, own, ps)
  <2>1. w \in Loading /\ w.at = "copy"
    BY <1>2
  <2> HIDE DEF w
  <2>2. CASE go' = [go EXCEPT ![h] = w]
    BY <2>1, <2>2
  <2>3. CASE GoLoad(h, w)
    <3>1. PICK t \in Thread : go' = [go EXCEPT ![h] = Idle, ![t] = w]
      BY <2>3 DEF GoLoad
    <3>2. \A x \in Go : go'[x] \in {go[x], Idle, w} /\ go' \in [Go -> Saving \cup Loading \cup {Idle}]
      BY <2>1, <3>1 DEF Go
    <3> QED
      BY <2>1, <3>2, SMTT(40) DEF Idle
  <2> QED
    BY <1>3, <2>2, <2>3 DEF w
<1>4. ASSUME Register(g)
      PROVE  Services' \in [Name -> Service \cup {None}]
  <2> DEFINE s == [image |-> go[g].image, pods |-> go[g].pods, jars |-> "none",
                   ErrorMessage |-> FALSE, IsDelete |-> FALSE, reaper |-> "waits"]
  <2>1. s \in Service
    BY <1>1, <1>4 DEF Register, Service, Saving, Jars
  <2>2. Services' = [Services EXCEPT ![n] = s]
    BY <1>4 DEF Register
  <2> HIDE DEF s
  <2> QED
    BY <2>1, <2>2
<1>5. CASE SaveNewSync(g)
  BY <1>1, <1>3, <1>4, <1>5 DEF SaveNewSync, Register
<1>6. CASE SaveNewAsync(g)
  BY <1>1, <1>3, <1>4, <1>6 DEF SaveNewAsync, Register
<1>7. CASE SaveOld(g)
  <2>1. Services[n] \in Service /\ go[g].pods \in SUBSET Pod
    BY <1>1, <1>7 DEF SaveOld, Saving
  <2>2. [Services[n] EXCEPT !.pods = go[g].pods] \in Service
    BY <2>1 DEF Service
  <2>3. Services' \in [Name -> Service \cup {None}]
    BY <1>7, <2>2 DEF SaveOld
  <2> QED
    BY <1>7, <2>3 DEF SaveOld, Idle
<1>8. CASE SaveOldNewImage(g)
  <2>1. Services[n] \in Service /\ go[g].pods \in SUBSET Pod /\ go[g].image \in Image
    BY <1>1, <1>8 DEF SaveOldNewImage, Saving
  <2>2. [[Services[n] EXCEPT !.pods = go[g].pods] EXCEPT !.image = go[g].image] \in Service
    BY <2>1 DEF Service
  <2>3. Services' \in [Name -> Service \cup {None}]
    BY <1>1, <1>8, <2>2 DEF SaveOldNewImage
  <2> QED
    BY <1>1, <1>3, <1>8, <2>1, <2>3 DEF SaveOldNewImage
<1>9. CASE GetServiceJarPackage(g)
  <2>1. PICK x \in Image \cup {"error", "partial"} :
          go' = [go EXCEPT ![g].at = "store", ![g].got = x]
    <3>1. SourcePods(g) \subseteq Pod
      <4>1. CASE go[g].own
        <5>1. Services[n] \in Service
          BY <1>1, <1>9, <4>1 DEF GetServiceJarPackage, LoaderRegistered
        <5> QED
          BY <4>1, <5>1 DEF SourcePods, Service
      <4>2. CASE ~go[g].own
        BY <1>1, <1>9, <4>2 DEF GetServiceJarPackage, SourcePods, Loading
      <4> QED
        BY <4>1, <4>2
    <3> QED
      BY <1>9, <3>1 DEF GetServiceJarPackage, Pod
  <2>2. [[go[g] EXCEPT !.at = "store"] EXCEPT !.got = x] \in Loading
    BY <1>1, <1>9 DEF GetServiceJarPackage, Loading, Jars
  <2>3. x # "none"
    BY ServicesAssumption
  <2>4. go' = [go EXCEPT ![g] = [[go[g] EXCEPT !.at = "store"] EXCEPT !.got = x]]
    BY <2>1
  <2>5. go' \in [Go -> Saving \cup Loading \cup {Idle}]
    BY <2>2, <2>4
  <2>6. CopyHasResult'
    BY <1>1, <1>9, <2>3, <2>4 DEF GetServiceJarPackage, Loading
  <2> QED
    BY <1>9, <2>5, <2>6 DEF GetServiceJarPackage
<1>10. CASE GetServiceJarPackagePanics(g)
  BY <1>10, StartTypeInv DEF GetServiceJarPackagePanics, Idle
<1>11. CASE ReloadJarAddr(g)
  <2>1. Services' \in [Name -> Service \cup {None}]
    <3>1. CASE Services[n] = None
      BY <1>11, <3>1 DEF ReloadJarAddr
    <3>2. CASE Services[n] # None
      <4>1. Services[n] \in Service /\ go[g].got \in Jars \cup {"error"}
        BY <1>1, <1>11, <3>2 DEF ReloadJarAddr, Loading
      <4>2. [Services[n] EXCEPT !.ErrorMessage = TRUE] \in Service
        BY <4>1 DEF Service
      <4>3. go[g].got # "error" => [Services[n] EXCEPT !.jars = go[g].got] \in Service
        BY <4>1 DEF Service
      <4> QED
        BY <1>11, <3>2, <4>2, <4>3 DEF ReloadJarAddr
    <3> QED
      BY <3>1, <3>2
  <2> QED
    BY <1>11, <2>1 DEF ReloadJarAddr, Idle
<1> QED
  BY <1>5, <1>6, <1>7, <1>8, <1>9, <1>10, <1>11 DEF Work

LEMMA ReaperTypeInv ==
  ASSUME TypeInv, NEW n \in Name, ReaperWakes(n) \/ Reap(n) \/ MergeFails(n)
  PROVE  TypeInv'
<1> USE DEF TypeInv, TypeOK, CopyHasResult, NotListed, clusterVars, watchVars, bootVars
<1>1. Services[n] \in Service
  BY DEF ReaperWakes, Reap, MergeFails
<1>2. /\ \A x \in {"sleeps", "ended"} : [Services[n] EXCEPT !.reaper = x] \in Service
      /\ [Services[n] EXCEPT !.ErrorMessage = TRUE] \in Service
  BY <1>1 DEF Service
<1>3. Services' \in [Name -> Service \cup {None}]
  BY <1>2 DEF ReaperWakes, Reap, DeleteService, MergeFails
<1> QED
  BY <1>3 DEF ReaperWakes, Reap, MergeFails

LEMMA NextTypeInv == TypeInv /\ LoaderRegistered /\ [Next]_vars => TypeInv'
<1> SUFFICES ASSUME TypeInv, LoaderRegistered, [Next]_vars PROVE TypeInv'
  OBVIOUS
<1>1. CASE UNCHANGED vars
  BY <1>1 DEF TypeInv, TypeOK, CopyHasResult, NotListed, vars, clusterVars, watchVars, bootVars
<1> QED
  BY <1>1, ClusterTypeInv, BootTypeInv, HandleTypeInv, WorkTypeInv, ReaperTypeInv DEF Next

-----------------------------------------------------------------------------
(* Every service is loaded *)

LEMMA GetServiceLoaderInv ==
  ASSUME TypeInv, LoaderInv, NEW g \in Go, go[g] = Idle, NEW sync, NEW e,
         GetServiceByDeploy(g, e, sync), UNCHANGED Services
  PROVE  LoaderInv'
<1> DEFINE s == [at |-> "save", name |-> App[e.name], image |-> e.deploy.image,
                 pods |-> pods[App[e.name]], sync |-> sync]
<1>1. go' = go \/ go' = [go EXCEPT ![g] = s]
  BY DEF GetServiceByDeploy
<1>2. s.at = "save" /\ go[g].at = "idle"
  BY DEF Idle
<1> HIDE DEF s
<1>3. \A x \in Go : go'[x] = go[x] \/ (go[x].at = "idle" /\ go'[x].at = "save")
  BY <1>1, <1>2 DEF TypeInv, TypeOK
<1> QED
  BY <1>3 DEF LoaderInv, LoaderRegistered, EveryServiceLoads, Loads

\* Replacing a service by one with the same jars and no fewer errors
LEMMA MarkLoaderInv ==
  ASSUME TypeInv, LoaderInv, NEW n \in Name, UNCHANGED go,
         \/ Services' = Services
         \/ \E svc \in Service :
              /\ Services[n] # None /\ svc # None
              /\ svc.jars = Services[n].jars /\ (Services[n].ErrorMessage => svc.ErrorMessage)
              /\ Services' = [Services EXCEPT ![n] = svc]
  PROVE  LoaderInv'
<1>1. \A m \in Name : Services'[m] # None <=> Services[m] # None
  BY DEF TypeInv, TypeOK
<1>2. \A m \in Name : Services'[m] # None =>
        Services'[m].jars = Services[m].jars /\ (Services[m].ErrorMessage => Services'[m].ErrorMessage)
  BY DEF TypeInv, TypeOK
<1>3. \A g \in Go : go[g].at \in {"copy", "store"} => go[g].name \in Name
  BY DEF TypeInv, TypeOK, Saving, Loading, Idle
<1>4. LoaderRegistered'
  BY <1>1, <1>3 DEF LoaderInv, LoaderRegistered
<1>5. EveryServiceLoads'
  BY <1>1, <1>2 DEF LoaderInv, EveryServiceLoads, Loads
<1> QED
  BY <1>4, <1>5 DEF LoaderInv

\* Steps that change neither the registry nor the goroutines, start the agent
\* anew, or give an idle goroutine a service to save
LEMMA BootLoaderInv ==
  ASSUME TypeInv, LoaderInv, Cluster \/ Boot \/ GiveUp
  PROVE  LoaderInv'
<1> USE DEF LoaderInv, LoaderRegistered, EveryServiceLoads, Loads
<1>1. CASE UNCHANGED <<Services, go>>
  BY <1>1
<1>2. CASE Restart
  BY <1>2 DEF Restart, Start, Idle
<1>3. CASE Preload
  BY <1>3, GetServiceLoaderInv DEF Preload, Go
<1> QED
  BY <1>1, <1>2, <1>3 DEF Cluster, Boot, GiveUp, Apply, Remove, PodsChange, StatusChanges, Relist,
     Connect, ListDeployments, OpenGate, StartInformer

LEMMA HandleLoaderInv ==
  ASSUME TypeInv, LoaderInv, Handle
  PROVE  LoaderInv'
<1>1. CASE AddFunc \/ UpdateFunc
  BY <1>1, GetServiceLoaderInv DEF AddFunc, UpdateFunc, Receive, Go
<1>2. CASE DeleteFunc
  <2> DEFINE n == Head(events).name
  <2>1. Head(events) \in Event /\ n \in Name
    BY <1>2, HeadTailProperties DEF DeleteFunc, Receive, TypeInv, TypeOK, Event
  <2> HIDE DEF n
  <2>2. Services[n] # None => Services[n] \in Service
    BY <2>1 DEF TypeInv, TypeOK
  <2>3. Services' = IF Services[n] = None THEN Services
                    ELSE [Services EXCEPT ![n] = [Services[n] EXCEPT !.IsDelete = TRUE]]
    BY <1>2, <2>1 DEF DeleteFunc, DeleteServiceLater, n
  <2> DEFINE svc == [Services[n] EXCEPT !.IsDelete = TRUE]
  <2>4. Services[n] # None =>
          /\ svc \in Service /\ svc # None
          /\ svc.jars = Services[n].jars /\ svc.ErrorMessage = Services[n].ErrorMessage
    BY <2>2, NoneAssumption DEF Service
  <2> HIDE DEF svc
  <2>5. \/ Services' = Services
        \/ \E x \in Service :
              /\ Services[n] # None /\ x # None
              /\ x.jars = Services[n].jars /\ (Services[n].ErrorMessage => x.ErrorMessage)
              /\ Services' = [Services EXCEPT ![n] = x]
    BY <2>3, <2>4 DEF svc
  <2> QED
    BY <1>2, <2>1, <2>5, MarkLoaderInv DEF DeleteFunc
<1>3. CASE DeleteFuncNotDeployment
  BY <1>3 DEF DeleteFuncNotDeployment, LoaderInv, LoaderRegistered, EveryServiceLoads, Loads
<1> QED
  BY <1>1, <1>2, <1>3 DEF Handle

\* The deferred deletion and a failed merge leave a service with its jars and
\* its error.
LEMMA MarkedService ==
  ASSUME TypeInv, NEW n \in Name, ReaperWakes(n) \/ Reap(n) \/ MergeFails(n)
  PROVE  \E svc \in Service :
            /\ Services[n] # None
            /\ svc.jars = Services[n].jars
            /\ Services[n].ErrorMessage => svc.ErrorMessage
            /\ Services' = [Services EXCEPT ![n] = svc]
<1>1. Services[n] \in Service /\ Services[n] # None
  BY DEF TypeInv, TypeOK, ReaperWakes, Reap, MergeFails
<1>2. CASE ReaperWakes(n) \/ Reap(n)
  <2>1. PICK x \in {"sleeps", "ended"} : Services' = [Services EXCEPT ![n].reaper = x]
    BY <1>2 DEF ReaperWakes, Reap, DeleteService
  <2> DEFINE svc == [Services[n] EXCEPT !.reaper = x]
  <2>2. /\ svc \in Service /\ svc.jars = Services[n].jars
        /\ svc.ErrorMessage = Services[n].ErrorMessage /\ Services' = [Services EXCEPT ![n] = svc]
    BY <1>1, <2>1 DEF Service
  <2> HIDE DEF svc
  <2> QED
    BY <1>1, <2>2
<1>3. CASE MergeFails(n)
  <2> DEFINE svc == [Services[n] EXCEPT !.ErrorMessage = TRUE]
  <2>1. /\ svc \in Service /\ svc.jars = Services[n].jars
        /\ svc.ErrorMessage /\ Services' = [Services EXCEPT ![n] = svc]
    BY <1>1, <1>3 DEF Service, MergeFails
  <2> HIDE DEF svc
  <2> QED
    BY <1>1, <2>1
<1> QED
  BY <1>2, <1>3

LEMMA ReaperLoaderInv ==
  ASSUME TypeInv, LoaderInv, NEW n \in Name, ReaperWakes(n) \/ Reap(n) \/ MergeFails(n)
  PROVE  LoaderInv'
<1>1. PICK svc \in Service :
        /\ Services[n] # None
        /\ svc.jars = Services[n].jars /\ (Services[n].ErrorMessage => svc.ErrorMessage)
        /\ Services' = [Services EXCEPT ![n] = svc]
  BY MarkedService
<1>2. svc # None
  BY NoneAssumption
<1> QED
  BY <1>1, <1>2, MarkLoaderInv DEF ReaperWakes, Reap, MergeFails

LEMMA WorkLoaderInv ==
  ASSUME TypeInv, LoaderInv, NEW g \in Go, Work(g)
  PROVE  LoaderInv'
<1> DEFINE n == go[g].name
<1>0. DOMAIN go = Go /\ go = [x \in Go |-> go[x]]
  BY DEF TypeInv, TypeOK
<1>1. /\ \A x \in Go : go[x].at # "idle" => go[x].name \in Name
      /\ go[g].at = "save" => go[g] \in Saving
      /\ go[g].at \in {"copy", "store"} => go[g] \in Loading
  BY DEF TypeInv, TypeOK, Saving, Loading, Idle
<1>2. ASSUME SaveNewSync(g) \/ SaveNewAsync(g)
      PROVE  LoaderInv'
  <2>1. Register(g) /\ go[g].at = "save" /\ n \in Name
    BY <1>1, <1>2 DEF SaveNewSync, SaveNewAsync, Register
  <2> DEFINE svc == [image |-> go[g].image, pods |-> go[g].pods, jars |-> "none",
                     ErrorMessage |-> FALSE, IsDelete |-> FALSE, reaper |-> "waits"]
  <2>2. svc # None /\ Services' = [Services EXCEPT ![n] = svc]
    <3>1. svc \in Service
      BY <1>1, <2>1 DEF Service, Saving, Jars
    <3>2. Services' = [Services EXCEPT ![n] = svc]
      BY <2>1 DEF Register
    <3> QED
      BY <3>1, <3>2, NoneAssumption
  <2> HIDE DEF svc
  <2>3. Services'[n] # None /\ \A m \in Name \ {n} : Services'[m] = Services[m]
    BY <2>1, <2>2 DEF TypeInv, TypeOK
  <2> DEFINE w == Load(n, TRUE, {})
  <2>4. w.at = "copy" /\ w.name = n /\ w.own
    BY DEF Load
  <2>5. go' = [go EXCEPT ![g] = w] \/ GoLoad(g, w)
    BY <1>2 DEF SaveNewSync, SaveNewAsync
  <2> HIDE DEF w
  <2>6. PICK t \in Go : /\ go[t].at \in {"idle", "save"} /\ go'[t] = w
                        /\ \A x \in Go \ {t} : go'[x] = go[x] \/ (go'[x] = Idle /\ x = g)
    <3>1. CASE go' = [go EXCEPT ![g] = w]
      <4>1. go'[g] = w /\ \A x \in Go \ {g} : go'[x] = go[x]
        BY <1>0, <3>1
      <4> QED
        BY <2>1, <4>1
    <3>2. CASE GoLoad(g, w)
      <4>1. PICK y \in Thread : go[y] = Idle /\ go' = [go EXCEPT ![g] = Idle, ![y] = w]
        BY <3>2 DEF GoLoad
      <4>2. y \in Go /\ go[y].at = "idle" /\ g # y
        BY <2>1, <4>1 DEF Go, Idle
      <4>3. /\ go'[y] = w
            /\ \A x \in Go \ {y} : go'[x] = go[x] \/ (go'[x] = Idle /\ x = g)
        BY <1>0, <4>1, <4>2
      <4> QED
        BY <4>2, <4>3
    <3> QED
      BY <2>5, <3>1, <3>2
  <2>7. LoaderRegistered'
    BY <1>1, <2>1, <2>3, <2>4, <2>6 DEF Idle, LoaderInv, LoaderRegistered, EveryServiceLoads, Loads
  <2>8. EveryServiceLoads'
    BY <1>1, <2>1, <2>3, <2>4, <2>6 DEF Idle, LoaderInv, LoaderRegistered, EveryServiceLoads, Loads
  <2> QED
    BY <2>7, <2>8 DEF LoaderInv
<1>3. ASSUME NEW svc \in Service, svc # None, n \in Name, Services[n] # None,
             svc.jars = Services[n].jars, svc.ErrorMessage = Services[n].ErrorMessage,
             Services' = [Services EXCEPT ![n] = svc],
             go[g].at = "save",
             \A x \in Go : \/ go'[x] = go[x]
                           \/ x = g /\ go'[x] = Idle
                           \/ go[x] = Idle /\ go'[x].at = "copy" /\ ~go'[x].own
      PROVE  LoaderInv'
  <2>1. \A m \in Name : /\ Services'[m] # None <=> Services[m] # None
                        /\ Services'[m] # None => /\ Services'[m].jars = Services[m].jars
                                                  /\ Services'[m].ErrorMessage = Services[m].ErrorMessage
    BY <1>3 DEF TypeInv, TypeOK
  <2>2. LoaderRegistered'
    BY <1>1, <1>3, <2>1 DEF Idle, LoaderInv, LoaderRegistered, EveryServiceLoads, Loads
  <2>3. EveryServiceLoads'
    BY <1>1, <1>3, <2>1 DEF Idle, LoaderInv, LoaderRegistered, EveryServiceLoads, Loads
  <2> QED
    BY <2>2, <2>3 DEF LoaderInv
<1>4. CASE SaveOld(g)
  <2>1. n \in Name /\ Services[n] \in Service /\ Services[n] # None /\ go[g].pods \in SUBSET Pod
    BY <1>1, <1>4 DEF SaveOld, Saving, TypeInv, TypeOK
  <2> DEFINE svc == [Services[n] EXCEPT !.pods = go[g].pods]
  <2>2. /\ svc \in Service /\ svc # None
        /\ svc.jars = Services[n].jars /\ svc.ErrorMessage = Services[n].ErrorMessage
    BY <2>1, NoneAssumption DEF Service
  <2>3. Services' = [Services EXCEPT ![n] = svc]
    BY <1>4 DEF SaveOld
  <2> HIDE DEF svc
  <2>4. \A x \in Go : go'[x] = go[x] \/ (x = g /\ go'[x] = Idle)
    BY <1>0, <1>4 DEF SaveOld
  <2> QED
    BY <1>3, <1>4, <2>1, <2>2, <2>3, <2>4 DEF SaveOld
<1>5. CASE SaveOldNewImage(g)
  <2>1. /\ n \in Name /\ Services[n] \in Service /\ Services[n] # None
        /\ go[g].pods \in SUBSET Pod /\ go[g].image \in Image
    BY <1>1, <1>5 DEF SaveOldNewImage, Saving, TypeInv, TypeOK
  <2> DEFINE svc == [[Services[n] EXCEPT !.pods = go[g].pods] EXCEPT !.image = go[g].image]
  <2>2. /\ svc \in Service /\ svc # None
        /\ svc.jars = Services[n].jars /\ svc.ErrorMessage = Services[n].ErrorMessage
    BY <2>1, NoneAssumption DEF Service
  <2>3. Services' = [Services EXCEPT ![n] = svc]
    BY <1>5, <2>1 DEF SaveOldNewImage, TypeInv, TypeOK
  <2> HIDE DEF svc
  <2> DEFINE w == Load(n, FALSE, go[g].pods)
  <2>4. w.at = "copy" /\ ~w.own /\ GoLoad(g, w)
    BY <1>5 DEF Load, SaveOldNewImage
  <2> HIDE DEF w
  <2>5. \A x \in Go : \/ go'[x] = go[x]
                      \/ x = g /\ go'[x] = Idle
                      \/ go[x] = Idle /\ go'[x].at = "copy" /\ ~go'[x].own
    BY <2>4 DEF GoLoad, Go, TypeInv, TypeOK
  <2> QED
    BY <1>3, <1>5, <2>1, <2>2, <2>3, <2>5 DEF SaveOldNewImage
<1>6. CASE GetServiceJarPackage(g)
  <2>1. go[g] \in Loading /\ go[g].at = "copy"
    BY <1>1, <1>6 DEF GetServiceJarPackage
  <2>2. PICK r : go' = [go EXCEPT ![g].at = "store", ![g].got = r]
    BY <1>6 DEF GetServiceJarPackage
  <2>3. /\ go'[g].at = "store" /\ go'[g].name = n /\ go'[g].own = go[g].own
        /\ \A x \in Go \ {g} : go'[x] = go[x]
    BY <2>1, <2>2 DEF Loading, TypeInv, TypeOK
  <2>4. Services' = Services
    BY <1>6 DEF GetServiceJarPackage
  <2> QED
    BY <2>1, <2>3, <2>4 DEF LoaderInv, LoaderRegistered, EveryServiceLoads, Loads
<1>7. CASE GetServiceJarPackagePanics(g)
  BY <1>7 DEF GetServiceJarPackagePanics, Start, Idle,
     LoaderInv, LoaderRegistered, EveryServiceLoads, Loads
<1>8. CASE ReloadJarAddr(g)
  <2>1. /\ n \in Name /\ go[g].at = "store" /\ go[g].got # "none"
        /\ \A x \in Go : go'[x] = IF x = g THEN Idle ELSE go[x]
    BY <1>1, <1>8 DEF ReloadJarAddr, TypeInv, TypeOK, CopyHasResult
  <2>2. CASE Services[n] = None
    <3>1. Services' = Services
      BY <1>8, <2>2 DEF ReloadJarAddr
    <3> QED
      BY <2>1, <2>2, <3>1 DEF Idle, LoaderInv, LoaderRegistered, EveryServiceLoads, Loads
  <2>3. CASE Services[n] # None
    <3>1. Services[n] \in Service
      BY <2>1, <2>3 DEF TypeInv, TypeOK
    <3> DEFINE svc == IF go[g].got = "error" THEN [Services[n] EXCEPT !.ErrorMessage = TRUE]
                      ELSE [Services[n] EXCEPT !.jars = go[g].got]
    <3>2. Services' = [Services EXCEPT ![n] = svc]
      BY <1>8, <2>3 DEF ReloadJarAddr
    <3>3. svc.jars # "none" \/ svc.ErrorMessage
      BY <2>1, <3>1 DEF Service
    <3>4. svc # None
      <4>1. go[g].got # "error" => go[g].got \in Jars
        BY <1>1, <2>1 DEF Loading
      <4> QED
        BY <3>1, <4>1, NoneAssumption DEF Service
    <3> HIDE DEF svc
    <3>5. Services'[n] = svc /\ \A m \in Name \ {n} : Services'[m] = Services[m]
      BY <2>1, <3>2 DEF TypeInv, TypeOK
    <3>6. LoaderRegistered'
      BY <1>1, <2>1, <3>4, <3>5 DEF Idle, LoaderInv, LoaderRegistered, EveryServiceLoads, Loads
    <3>7. EveryServiceLoads'
      BY <1>1, <2>1, <3>3, <3>5 DEF Idle, LoaderInv, LoaderRegistered, EveryServiceLoads, Loads
    <3> QED
      BY <3>6, <3>7 DEF LoaderInv
  <2> QED
    BY <2>2, <2>3
<1> QED
  BY <1>2, <1>4, <1>5, <1>6, <1>7, <1>8 DEF Work

LEMMA NextLoaderInv == TypeInv /\ LoaderInv /\ [Next]_vars => LoaderInv'
<1> SUFFICES ASSUME TypeInv, LoaderInv, [Next]_vars PROVE LoaderInv'
  OBVIOUS
<1>1. CASE UNCHANGED vars
  BY <1>1 DEF LoaderInv, LoaderRegistered, EveryServiceLoads, Loads, vars
<1> QED
  BY <1>1, BootLoaderInv, HandleLoaderInv, WorkLoaderInv, ReaperLoaderInv DEF Next

LEMMA SpecLoaderInv == Spec => [](TypeInv /\ LoaderInv)
<1>1. Init => LoaderInv
  BY DEF Init, Start, LoaderInv, LoaderRegistered, EveryServiceLoads, Idle
<1>2. LoaderInv => LoaderRegistered
  BY DEF LoaderInv
<1> QED
  BY <1>1, <1>2, InitTypeInv, NextTypeInv, NextLoaderInv, PTL DEF Spec

\* Every variable of the registry keeps its type, for any set of deployments,
\* labels, images and reload goroutines.
THEOREM ServicesTypeCorrect == Spec => []TypeOK
  BY SpecLoaderInv, PTL DEF TypeInv

\* Whoever registers a service, preload or event handler, synchronously or
\* not, its jars are loaded or being loaded, whatever happens to it meanwhile.
THEOREM ServicesLoad == Spec => []EveryServiceLoads
  BY SpecLoaderInv, PTL DEF LoaderInv
=============================================================================
