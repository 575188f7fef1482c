-------------------------- MODULE ReconcilerProofs --------------------------
(***************************************************************************)
(* Proofs about Reconciler, for any number of Agents, edits, errors and    *)
(* restarts and any values of the specs.                                   *)
(***************************************************************************)
EXTENDS Reconciler, TLAPS

-----------------------------------------------------------------------------
(* The inductive invariant *)

\* What Reconcile makes of the Agent it has read: at first it completes the spec,
\* then ConvertAgent takes the snapshot annotation out.
Converting == pc \in {"createSa", "createRole", "createRb", "createSts",
                      "updateRole", "updateRb", "updateSa", "updateSts", "annotate"}

\* The update of the StatefulSet has one to update.
StsToUpdate == pc \in {"updateRole", "updateRb", "updateSa"} => lSts # None

TypeInv == TypeOK /\ StsToUpdate

\* A copy with the resourceVersion of the Agent is that of the Agent.
CacheExact == agent # None /\ cAgent # None /\ cAgent.rv = agent.rv => cAgent = agent

CopyExact ==
    agent # None /\ lAgent # None /\ lAgent.rv = agent.rv =>
        lAgent = IF Converting THEN ConvertAgent(FillDefaultValue(agent)) ELSE FillDefaultValue(agent)

\* Agents come one after the other, and so do the copies of them.
UidsOrdered ==
    /\ agent # None => agent.uid = uids
    /\ cAgent # None => cAgent.uid <= uids
    /\ lAgent # None => lAgent.uid <= uids
    /\ sts # None => sts.owner <= uids
    /\ cAgent # None /\ lAgent # None => lAgent.uid <= cAgent.uid

\* When the Agent has a StatefulSet, Reconcile has done with the Agents before it.
OwnerSeen ==
    agent # None /\ sts # None /\ sts.owner = agent.uid =>
        /\ cAgent # None => cAgent.uid = agent.uid
        /\ lAgent # None => lAgent.uid = agent.uid

\* What CreateResource has made so far has not been collected.
RbacMade ==
    agent # None /\ lAgent # None /\ ~agent.deleting /\ lAgent.uid = agent.uid =>
        /\ pc \in {"createRole", "createRb", "createSts"} => rbac["sa"] = agent.uid
        /\ pc \in {"createRb", "createSts"} => rbac["role"] = agent.uid
        /\ pc = "createSts" => rbac["rb"] = agent.uid

CopyInv == CacheExact /\ CopyExact

RbacInv == UidsOrdered /\ OwnerSeen /\ RbacMade /\ StsHasRbac

-----------------------------------------------------------------------------
(* Records *)

\* Four versions are enough: there are three copies.
LEMMA FreshIsFresh ==
  ASSUME NEW a, NEW b, NEW d
  PROVE  /\ Fresh({a, b, d}) \in Version
         /\ a # None => a.rv # Fresh({a, b, d})
         /\ b # None => b.rv # Fresh({a, b, d})
         /\ d # None => d.rv # Fresh({a, b, d})
<1>1. \E v \in Version : v # a.rv /\ v # b.rv /\ v # d.rv
  <2>1. {1, 2, 3, 4} \subseteq Version
    BY DEF Version
  <2> QED
    BY <2>1
<1>2. \E v \in Version : \A x \in {a, b, d} \ {None} : x.rv # v
  BY <1>1
<1> QED
  BY <1>2 DEF Fresh

LEMMA FillType ==
  ASSUME NEW a \in Agents
  PROVE  /\ FillDefaultValue(a) \in Agents
         /\ FillDefaultValue(a).uid = a.uid /\ FillDefaultValue(a).rv = a.rv
<1> DEFINE sp == [a.spec EXCEPT !.opt = @ \cup {"defaults"}]
<1>1. a.spec \in AgentSpec
  BY DEF Agents
<1>2. sp \in AgentSpec
  BY <1>1 DEF AgentSpec
<1>3. FillDefaultValue(a) = [a EXCEPT !.spec = sp]
  BY DEF FillDefaultValue, Agents
<1> HIDE DEF sp
<1> QED
  BY <1>2, <1>3 DEF Agents

LEMMA ConvertType ==
  ASSUME NEW a \in Agents
  PROVE  /\ ConvertAgent(a) \in Agents
         /\ ConvertAgent(a).uid = a.uid /\ ConvertAgent(a).rv = a.rv
<1> DEFINE sp == [a.spec EXCEPT !.opt = @ \ {"snapshot"}]
<1>1. a.spec \in AgentSpec
  BY DEF Agents
<1>2. sp \in AgentSpec
  BY <1>1 DEF AgentSpec
<1>3. ConvertAgent(a) = [a EXCEPT !.spec = sp]
  BY DEF ConvertAgent, Agents
<1> HIDE DEF sp
<1> QED
  BY <1>2, <1>3 DEF Agents

LEMMA CopyTypes ==
  ASSUME TypeOK
  PROVE  /\ agent # None => agent \in Agents
         /\ cAgent # None => cAgent \in Agents
         /\ lAgent # None => lAgent \in Agents
         /\ sts # None => sts \in StatefulSets
         /\ cSts # None => cSts \in StatefulSets
         /\ lSts # None => lSts \in StatefulSets
BY DEF TypeOK

LEMMA VersionTypes ==
  ASSUME TypeOK
  PROVE  /\ AgentVersion \in Version /\ StsVersion \in Version
         /\ agent # None => agent.rv # AgentVersion
         /\ cAgent # None => cAgent.rv # AgentVersion
         /\ lAgent # None => lAgent.rv # AgentVersion
BY FreshIsFresh DEF AgentVersion, StsVersion

-----------------------------------------------------------------------------
(* Types *)

LEMMA ReturnType ==
  ASSUME TypeOK, NEW again \in BOOLEAN, Return(again)
  PROVE  pc' = "idle" /\ lAgent' = None /\ lSts' = None /\ queued' \in BOOLEAN
<1>1. queued \in BOOLEAN
  BY DEF TypeOK
<1> QED
  BY <1>1, Zenon DEF Return

LEMMA RestartsType ==
  ASSUME TypeOK, Restarts
  PROVE  /\ pc' = "idle" /\ lAgent' = None /\ lSts' = None /\ queued' \in BOOLEAN
         /\ cAgent' = agent /\ cSts' = sts
BY Zenon DEF Restarts

\* What a write of the Agent that Reconcile has read makes of it
LEMMA UpdateAgentType ==
  ASSUME TypeOK, NEW new \in Agents, UpdateAgent(new)
  PROVE  /\ agent' \in Agents
         /\ agent' = agent \/ agent'.rv = AgentVersion
         /\ agent'.uid = new.uid /\ agent'.deleting = new.deleting /\ agent'.spec = new.spec
BY VersionTypes DEF UpdateAgent, Agents

LEMMA ReconcileType ==
  ASSUME TypeInv, Reconcile
  PROVE  TypeInv'
<1> USE DEF apiVars, cacheVars, userVars, TypeInv, StsToUpdate
<1>1. CASE GetAgent
  <2>1. CASE cAgent = None \/ (cAgent # None /\ cAgent.deleting)
    BY <1>1, <2>1 DEF GetAgent, TypeOK
  <2>2. CASE ~(cAgent = None \/ (cAgent # None /\ cAgent.deleting))
    <3>1. FillDefaultValue(cAgent) \in Agents
      BY <2>2, FillType, CopyTypes
    <3> QED
      BY <1>1, <2>2, <3>1, ReconcilerAssumption DEF GetAgent, TypeOK, Label
  <2> QED
    BY <2>1, <2>2
<1>2. CASE GetSts \/ GetStsNotFound
  <2>1. ConvertAgent(lAgent) \in Agents /\ lAgent # None
    BY <1>2, ConvertType, CopyTypes DEF GetSts, GetStsNotFound, TypeOK
  <2> QED
    BY <1>2, <2>1, ReconcilerAssumption DEF GetSts, GetStsNotFound, TypeOK, Label
<1>3. CASE UnmarshalFails
  BY <1>3, ReturnType DEF UnmarshalFails, TypeOK, Label
<1>4. ASSUME NEW o \in Rbac, NEW from \in Label \ {"idle"}, NEW to \in Label \ {"idle"},
             to \in {"updateRole", "updateRb", "updateSa", "updateSts"} => lSts # None,
             UpsertResource(o, from, to)
      PROVE  TypeInv'
  <2>1. lAgent \in Agents
    BY <1>4, CopyTypes DEF UpsertResource, TypeOK
  <2>2. lAgent.uid \in 0..MaxAgents
    BY <2>1, ReconcilerAssumption DEF Agents
  <2> QED
    BY <1>4, <2>1, <2>2 DEF UpsertResource, Goto, TypeOK
<1>5. CASE CreateResource \/ UpdateResource
  <2>1. pc \in {"updateRole", "updateRb", "updateSa"} => lSts # None
    OBVIOUS
  <2> HIDE DEF TypeInv, StsToUpdate
  <2>2. CASE CreateResource
    BY <1>4, <2>2 DEF CreateResource, Rbac, Label
  <2>3. CASE UpsertResource("role", "updateRole", "updateRb")
    BY <1>4, <2>1, <2>3 DEF UpsertResource, Rbac, Label
  <2>4. CASE UpsertResource("rb", "updateRb", "updateSa")
    BY <1>4, <2>1, <2>4 DEF UpsertResource, Rbac, Label
  <2>5. CASE UpsertResource("sa", "updateSa", "updateSts")
    BY <1>4, <2>1, <2>5 DEF UpsertResource, Rbac, Label
  <2> QED
    BY <1>5, <2>2, <2>3, <2>4, <2>5 DEF UpdateResource
<1>6. CASE CreateSts
  <2>1. CASE sts = None
    <3>1. lAgent \in Agents
      BY <1>6, CopyTypes DEF CreateSts, TypeOK
    <3>2. [owner |-> lAgent.uid, rv |-> StsVersion, spec |-> lAgent.spec, status |-> 0] \in StatefulSets
      BY <3>1, VersionTypes, ReconcilerAssumption DEF Agents, StatefulSets
    <3> QED
      BY <1>6, <2>1, <3>1, <3>2 DEF CreateSts, Goto, TypeOK, Label
  <2>2. CASE sts # None
    BY <1>6, <2>2, ReturnType DEF CreateSts, TypeOK, Label
  <2> QED
    BY <2>1, <2>2
<1>7. CASE UpdateSts
  <2>1. CASE sts # None /\ sts.rv = lSts.rv /\ sts.spec.store = lAgent.spec.store
    <3>1. lAgent \in Agents /\ sts \in StatefulSets
      BY <1>7, <2>1, CopyTypes DEF UpdateSts, TypeOK
    <3>2. [sts EXCEPT !.spec = lAgent.spec, !.rv = StsVersion] \in StatefulSets
      BY <3>1, VersionTypes DEF Agents, StatefulSets
    <3> QED
      BY <1>7, <2>1, <3>1, <3>2 DEF UpdateSts, Goto, TypeOK, Label
  <2>2. CASE ~(sts # None /\ sts.rv = lSts.rv /\ sts.spec.store = lAgent.spec.store)
    BY <1>7, <2>2, ReturnType DEF UpdateSts, TypeOK, Label
  <2> QED
    BY <2>1, <2>2
<1>8. CASE Annotate
  <2>1. agent' \in Agents \cup {None}
    <3>1. CASE AgentCurrent
      <4>1. agent \in Agents /\ lAgent \in Agents
        BY <1>8, <3>1, CopyTypes DEF Annotate, AgentCurrent, TypeOK
      <4>2. [agent EXCEPT !.spec = lAgent.spec, !.ann = lAgent.spec] \in Agents
        BY <4>1 DEF Agents
      <4> QED
        BY <1>8, <3>1, <4>2, UpdateAgentType DEF Annotate
    <3> QED
      BY <1>8, <3>1 DEF Annotate, TypeOK
  <2> QED
    BY <1>8, <2>1, ReturnType DEF Annotate, TypeOK, Label
<1>9. CASE UpdateStatus
  <2>1. agent' \in Agents \cup {None}
    <3>1. CASE cSts.status # lAgent.status /\ AgentCurrent
      <4>1. agent \in Agents /\ cSts \in StatefulSets
        BY <1>9, <3>1, CopyTypes DEF UpdateStatus, AgentCurrent
      <4>2. [agent EXCEPT !.status = cSts.status] \in Agents
        BY <4>1 DEF Agents, StatefulSets
      <4> QED
        BY <1>9, <3>1, <4>2, UpdateAgentType DEF UpdateStatus
    <3> QED
      BY <1>9, <3>1 DEF UpdateStatus, TypeOK
  <2>2. (cSts.status # lAgent.status /\ ~AgentCurrent) \in BOOLEAN
    OBVIOUS
  <2> QED
    BY <1>9, <2>1, <2>2, ReturnType DEF UpdateStatus, TypeOK, Label
<1>10. CASE StatusPanics
  BY <1>10, RestartsType DEF StatusPanics, TypeOK, Label
<1> QED
  BY <1>1, <1>2, <1>3, <1>5, <1>6, <1>7, <1>8, <1>9, <1>10 DEF Reconcile

LEMMA UsersType ==
  ASSUME TypeInv, UserCreates \/ UserEdits \/ UserDeletes
  PROVE  /\ TypeInv'
         /\ UserCreates => agent' \in Agents
         /\ agent' # None => agent'.rv = AgentVersion
         /\ agent # None /\ agent' # None => agent'.uid = agent.uid /\ (agent.deleting => agent'.deleting)
<1> USE DEF cacheVars, opVars, userVars, TypeInv, StsToUpdate
<1>1. UserSpec \subseteq AgentSpec
  BY DEF UserSpec
<1>2. CASE UserCreates
  <2>1. PICK s \in UserSpec :
          agent' = [uid |-> uids + 1, rv |-> AgentVersion, deleting |-> FALSE,
                    spec |-> s, ann |-> None, status |-> 0]
    BY <1>2 DEF UserCreates
  <2>2. uids + 1 \in 1..MaxAgents /\ 0 \in 0..MaxStatus
    BY <1>2, ReconcilerAssumption DEF UserCreates, TypeOK
  <2>3. agent' \in Agents
    BY <1>1, <2>1, <2>2, VersionTypes DEF Agents
  <2> QED
    BY <1>2, <2>1, <2>2, <2>3, ReconcilerAssumption DEF UserCreates, TypeOK
<1>3. CASE UserEdits
  <2>1. PICK s \in UserSpec : agent' = [agent EXCEPT !.spec = s, !.rv = AgentVersion]
    BY <1>3 DEF UserEdits
  <2>2. agent \in Agents
    BY <1>3, CopyTypes DEF UserEdits
  <2>3. /\ agent' \in Agents /\ agent'.rv = AgentVersion
        /\ agent'.uid = agent.uid /\ agent'.deleting = agent.deleting
    BY <1>1, <2>1, <2>2, VersionTypes DEF Agents
  <2>4. edits' \in 0..MaxEdits
    <3>1. edits \in 0..MaxEdits /\ edits < MaxEdits /\ edits' = edits + 1 /\ MaxEdits \in Nat
      BY <1>3, ReconcilerAssumption DEF UserEdits, TypeOK
    <3> QED
      BY <3>1
  <2> QED
    BY <1>3, <2>3, <2>4 DEF UserEdits, TypeOK
<1>4. CASE UserDeletes
  <2>1. agent \in Agents
    BY <1>4, CopyTypes DEF UserDeletes
  <2>2. \/ agent' = None
        \/ /\ agent' \in Agents /\ agent'.rv = AgentVersion
           /\ agent'.uid = agent.uid /\ agent'.deleting
    BY <1>4, <2>1, VersionTypes DEF UserDeletes, Agents
  <2> QED
    BY <1>4, <2>2 DEF UserCreates, UserDeletes, TypeOK
<1> QED
  BY <1>2, <1>3, <1>4

LEMMA NextType ==
  ASSUME TypeInv, [Next]_vars
  PROVE  TypeInv'
<1> USE DEF apiVars, cacheVars, opVars, userVars, TypeInv, StsToUpdate
<1>1. CASE UNCHANGED vars
  BY <1>1 DEF vars, TypeOK
<1>2. CASE Error \/ Crash
  <2>1. fails' \in 0..MaxFail
    <3>1. fails \in 0..MaxFail /\ fails < MaxFail /\ fails' = fails + 1 /\ MaxFail \in Nat
      BY <1>2, ReconcilerAssumption DEF Error, Crash, TypeOK
    <3> QED
      BY <3>1
  <2>2. CASE Error
    BY <2>1, <2>2, ReturnType DEF Error, TypeOK, Label
  <2>3. CASE Crash
    BY <2>1, <2>3, RestartsType DEF Crash, TypeOK, Label
  <2> QED
    BY <1>2, <2>2, <2>3
<1>4. CASE SyncAgent \/ SyncSts
  BY <1>4 DEF SyncAgent, SyncSts, TypeOK
<1>5. CASE CollectGarbage
  <2>1. 0 \in 0..MaxAgents
    BY ReconcilerAssumption
  <2> QED
    BY <1>5, <2>1 DEF CollectGarbage, TypeOK
<1>6. CASE StsProgress
  <2>1. sts \in StatefulSets
    BY <1>6, CopyTypes DEF StsProgress
  <2>2. sts.status + 1 \in 0..MaxStatus
    BY <1>6, <2>1, ReconcilerAssumption DEF StsProgress, StatefulSets
  <2>3. sts' \in StatefulSets
    BY <1>6, <2>1, <2>2, VersionTypes DEF StsProgress, StatefulSets
  <2> QED
    BY <1>6, <2>3 DEF StsProgress, TypeOK
<1> QED
  BY <1>1, <1>2, <1>4, <1>5, <1>6, ReconcileType, UsersType DEF Next, Kubernetes

-----------------------------------------------------------------------------
(* What a step does to the Agent and to its copies *)

\* The Agent stays, goes, or gets a version that no copy has.
AgentKept == agent' = agent \/ agent' = None

AgentWritten ==
    /\ agent' \in Agents /\ agent'.rv = AgentVersion
    /\ cAgent' = cAgent /\ (lAgent' = None \/ (lAgent' = lAgent /\ pc' = pc))
    /\ agent # None => agent'.uid = agent.uid /\ (agent.deleting => agent'.deleting)

LEMMA AgentStep ==
  ASSUME TypeInv, [Next]_vars
  PROVE  AgentKept \/ AgentWritten
<1> USE DEF apiVars, cacheVars, opVars, userVars
<1>1. TypeOK
  BY DEF TypeInv
<1>2. CASE Annotate
  <2>1. CASE AgentCurrent
    <3> DEFINE new == [agent EXCEPT !.spec = lAgent.spec, !.ann = lAgent.spec]
    <3>1. agent \in Agents /\ lAgent \in Agents
      BY <1>1, <1>2, <2>1, CopyTypes DEF Annotate, AgentCurrent, TypeOK
    <3>2. new \in Agents /\ new.uid = agent.uid /\ new.deleting = agent.deleting
      BY <3>1 DEF Agents
    <3>3. UpdateAgent(new)
      BY <1>2, <2>1 DEF Annotate
    <3> HIDE DEF new
    <3> QED
      BY <1>1, <1>2, <3>2, <3>3, UpdateAgentType DEF Annotate, Return, AgentKept, AgentWritten
  <2> QED
    BY <1>2, <2>1 DEF Annotate, AgentKept
<1>3. CASE UpdateStatus
  <2>1. CASE cSts.status # lAgent.status /\ AgentCurrent
    <3> DEFINE new == [agent EXCEPT !.status = cSts.status]
    <3>1. agent \in Agents /\ cSts \in StatefulSets
      BY <1>1, <1>3, <2>1, CopyTypes DEF UpdateStatus, AgentCurrent
    <3>2. new \in Agents /\ new.uid = agent.uid /\ new.deleting = agent.deleting
      BY <3>1 DEF Agents, StatefulSets
    <3>3. UpdateAgent(new)
      BY <1>3, <2>1 DEF UpdateStatus
    <3> HIDE DEF new
    <3> QED
      BY <1>1, <1>3, <3>2, <3>3, UpdateAgentType DEF UpdateStatus, Return, AgentKept, AgentWritten
  <2> QED
    BY <1>3, <2>1 DEF UpdateStatus, AgentKept
<1>4. CASE Reconcile /\ ~Annotate /\ ~UpdateStatus
  BY <1>4 DEF Reconcile, GetAgent, GetSts, GetStsNotFound, UnmarshalFails, CreateResource, UpdateResource,
              UpsertResource, CreateSts, UpdateSts, StatusPanics, AgentKept
<1>5. CASE UserCreates \/ UserEdits \/ UserDeletes
  <2>1. TypeOK' /\ cAgent' = cAgent /\ lAgent' = lAgent /\ pc' = pc
    BY <1>5, UsersType DEF UserCreates, UserEdits, UserDeletes, TypeInv
  <2> QED
    BY <1>5, <2>1, UsersType DEF AgentKept, AgentWritten, TypeOK
<1>6. CASE Error \/ Crash \/ Kubernetes \/ StsProgress \/ UNCHANGED vars
  BY <1>6 DEF Error, Crash, Kubernetes, SyncAgent, SyncSts, CollectGarbage, StsProgress, vars, AgentKept
<1> QED
  BY <1>2, <1>3, <1>4, <1>5, <1>6 DEF Next

LEMMA CopyStep ==
  ASSUME TypeInv, [Next]_vars
  PROVE  /\ cAgent' \in {cAgent, agent}
         /\ \/ lAgent' = None
            \/ lAgent' = lAgent /\ (Converting' <=> Converting)
            \/ ~Converting' /\ cAgent # None /\ lAgent' = FillDefaultValue(cAgent)
            \/ lAgent # None /\ ~Converting /\ Converting' /\ lAgent' = ConvertAgent(lAgent)
<1> USE DEF apiVars, cacheVars, opVars, userVars
<1>1. CASE GetAgent
  BY <1>1 DEF GetAgent, Converting
<1>2. CASE GetSts \/ GetStsNotFound
  BY <1>2 DEF GetSts, GetStsNotFound, Converting, TypeInv, TypeOK
<1>3. CASE CreateResource \/ UpdateResource
  BY <1>3 DEF CreateResource, UpdateResource, UpsertResource, Goto, Converting
<1>4. CASE CreateSts \/ UpdateSts
  BY <1>4 DEF CreateSts, UpdateSts, Goto, Return, Converting
<1>5. CASE UnmarshalFails \/ Annotate \/ UpdateStatus \/ StatusPanics \/ Error \/ Crash
  BY <1>5 DEF UnmarshalFails, Annotate, UpdateStatus, StatusPanics, Error, Crash, Return, Restarts
<1>6. CASE Kubernetes \/ StsProgress \/ UserCreates \/ UserEdits \/ UserDeletes \/ UNCHANGED vars
  BY <1>6 DEF Kubernetes, SyncAgent, SyncSts, CollectGarbage, StsProgress, UserCreates, UserEdits, UserDeletes,
              vars, Converting
<1> QED
  BY <1>1, <1>2, <1>3, <1>4, <1>5, <1>6 DEF Next, Reconcile

-----------------------------------------------------------------------------
(* The copies of the Agent *)

LEMMA NextCopyInv ==
  ASSUME TypeInv, CopyInv, [Next]_vars
  PROVE  CopyInv'
<1>1. TypeOK
  BY DEF TypeInv
<1>2. CASE agent' = None
  BY <1>2 DEF CopyInv, CacheExact, CopyExact
<1>3. CASE AgentWritten
  BY <1>1, <1>3, VersionTypes DEF AgentWritten, CopyInv, CacheExact, CopyExact
<1>4. CASE agent' = agent /\ agent # None
  <2>1. CacheExact'
    BY <1>4, CopyStep DEF CopyInv, CacheExact
  <2>2. CASE lAgent' = None
    BY <2>1, <2>2 DEF CopyInv, CopyExact
  <2>3. CASE lAgent' = lAgent /\ (Converting' <=> Converting)
    BY <1>4, <2>1, <2>3 DEF CopyInv, CopyExact
  <2>4. CASE ~Converting' /\ cAgent # None /\ lAgent' = FillDefaultValue(cAgent)
    <3>1. lAgent'.rv = cAgent.rv
      BY <1>1, <2>4, FillType, CopyTypes
    <3> QED
      BY <1>4, <2>1, <2>4, <3>1 DEF CopyInv, CopyExact, CacheExact
  <2>5. CASE lAgent # None /\ ~Converting /\ Converting' /\ lAgent' = ConvertAgent(lAgent)
    <3>1. lAgent'.rv = lAgent.rv
      BY <1>1, <2>5, ConvertType, CopyTypes
    <3> QED
      BY <1>4, <2>1, <2>5, <3>1 DEF CopyInv, CopyExact
  <2> QED
    BY <2>2, <2>3, <2>4, <2>5, CopyStep
<1> QED
  BY <1>2, <1>3, <1>4, AgentStep DEF AgentKept

LEMMA InitInv == Init => TypeInv /\ CopyInv /\ RbacInv
<1> SUFFICES ASSUME Init
             PROVE  TypeInv /\ CopyInv /\ RbacInv
  OBVIOUS
<1>1. {0} \subseteq 0..MaxAgents /\ 0 \in 0..MaxEdits /\ 0 \in 0..MaxFail
  BY ReconcilerAssumption
<1>2. TypeInv
  BY <1>1 DEF Init, TypeInv, TypeOK, StsToUpdate, Label
<1>3. CopyInv /\ RbacInv
  BY DEF Init, CopyInv, CacheExact, CopyExact, RbacInv, UidsOrdered, OwnerSeen, RbacMade, StsHasRbac
<1> QED
  BY <1>2, <1>3

\* For any number of Agents, edits, errors and restarts: types are kept, and
\* Reconcile never goes on without the Agent, or the StatefulSet, it needs.
THEOREM OperatorTypeCorrect == Spec => []TypeOK
<1>1. TypeInv => TypeOK
  BY DEF TypeInv
<1> QED
  BY <1>1, InitInv, NextType, PTL DEF Spec

LEMMA EndOfReconcile ==
  ASSUME TypeInv, CopyInv, [Next]_vars, pc # "idle", pc' = "idle", agent # None, agent' # None
  PROVE  agent'.spec \in {agent.spec, ConvertAgent(FillDefaultValue(agent)).spec}
<1> USE DEF apiVars, cacheVars, opVars, userVars
<1>1. TypeOK
  BY DEF TypeInv
<1>2. CASE Annotate /\ AgentCurrent
  <2> DEFINE new == [agent EXCEPT !.spec = lAgent.spec, !.ann = lAgent.spec]
  <2>1. agent \in Agents /\ lAgent \in Agents /\ lAgent # None /\ Converting
    BY <1>1, <1>2, CopyTypes DEF Annotate, TypeOK, Converting
  <2>2. new \in Agents /\ new.spec = lAgent.spec
    BY <2>1 DEF Agents
  <2>3. UpdateAgent(new)
    BY <1>2 DEF Annotate
  <2>4. lAgent = ConvertAgent(FillDefaultValue(agent))
    BY <1>2, <2>1 DEF AgentCurrent, CopyInv, CopyExact
  <2> HIDE DEF new
  <2> QED
    BY <1>1, <2>2, <2>3, <2>4, UpdateAgentType
<1>3. CASE UpdateStatus /\ cSts.status # lAgent.status /\ AgentCurrent
  <2> DEFINE new == [agent EXCEPT !.status = cSts.status]
  <2>1. agent \in Agents /\ cSts \in StatefulSets
    BY <1>1, <1>3, CopyTypes DEF UpdateStatus, AgentCurrent
  <2>2. new \in Agents /\ new.spec = agent.spec
    BY <2>1 DEF Agents, StatefulSets
  <2>3. UpdateAgent(new)
    BY <1>3 DEF UpdateStatus
  <2> HIDE DEF new
  <2> QED
    BY <1>1, <2>2, <2>3, UpdateAgentType
<1>4. CASE ~(Annotate /\ AgentCurrent) /\ ~(UpdateStatus /\ cSts.status # lAgent.status /\ AgentCurrent)
  <2>1. agent' = agent
    BY <1>4 DEF Next, Reconcile, GetAgent, GetSts, GetStsNotFound, UnmarshalFails, CreateResource, UpdateResource,
                UpsertResource, CreateSts, UpdateSts, Annotate, UpdateStatus, StatusPanics, Error, Crash,
                Kubernetes, SyncAgent, SyncSts, CollectGarbage, StsProgress, UserCreates, UserEdits, UserDeletes, vars
  <2> QED
    BY <2>1
<1> QED
  BY <1>2, <1>3, <1>4

\* The operator never writes an older spec over an edit of a user, however stale
\* the copy it works on: a write that the API server takes is of a copy of the
\* Agent as it is.
THEOREM EditsSurvive == Spec => NoLostEdit
<1>1. Spec => [](TypeInv /\ CopyInv)
  BY InitInv, NextType, NextCopyInv, PTL DEF Spec
<1>2. ASSUME TypeInv, CopyInv, [Next]_vars
      PROVE  [pc # "idle" /\ pc' = "idle" /\ agent # None /\ agent' # None =>
                agent'.spec \in {agent.spec, ConvertAgent(FillDefaultValue(agent)).spec}]_vars
  BY <1>2, EndOfReconcile
<1> QED
  BY <1>1, <1>2, PTL DEF Spec, NoLostEdit


-----------------------------------------------------------------------------
(* The access objects of the StatefulSet *)

\* The Agent goes on under its uid, or one with a new uid appears.
SameAgent ==
    /\ uids' = uids
    /\ agent' # None => agent # None /\ agent'.uid = agent.uid /\ (agent.deleting => agent'.deleting)

NewAgent ==
    /\ uids' = uids + 1
    /\ agent' # None /\ agent'.uid = uids'
    /\ UNCHANGED <<sts, rbac, cAgent, lAgent, pc>>

LEMMA UidStep ==
  ASSUME TypeInv, [Next]_vars
  PROVE  SameAgent \/ NewAgent
<1> USE DEF apiVars, cacheVars, opVars, userVars
<1>1. CASE UserCreates
  <2>1. agent' \in Agents
    BY <1>1, UsersType
  <2>2. agent' # None
    BY <2>1, ReconcilerAssumption
  <2> QED
    BY <1>1, <2>2 DEF UserCreates, NewAgent
<1>2. CASE ~UserCreates
  <2>1. uids' = uids
    BY <1>2 DEF Next, Reconcile, GetAgent, GetSts, GetStsNotFound, UnmarshalFails, CreateResource, UpdateResource,
                UpsertResource, CreateSts, UpdateSts, Annotate, UpdateStatus, StatusPanics, Error, Crash,
                Kubernetes, SyncAgent, SyncSts, CollectGarbage, StsProgress, UserEdits, UserDeletes, vars
  <2>2. agent = None => agent' = None
    BY <1>2 DEF Next, Reconcile, GetAgent, GetSts, GetStsNotFound, UnmarshalFails, CreateResource, UpdateResource,
                UpsertResource, CreateSts, UpdateSts, Annotate, UpdateStatus, AgentCurrent, StatusPanics, Error, Crash,
                Kubernetes, SyncAgent, SyncSts, CollectGarbage, StsProgress, UserEdits, UserDeletes, vars
  <2> QED
    BY <2>1, <2>2, AgentStep DEF SameAgent, AgentKept, AgentWritten
<1> QED
  BY <1>1, <1>2

\* The StatefulSet keeps its owner, or is made, as the last of the four objects.
StsKept == sts' # None => sts # None /\ sts'.owner = sts.owner

StsMade ==
    /\ sts = None
    /\ sts'.owner = lAgent.uid
    /\ pc = "createSts"
    /\ UNCHANGED <<agent, rbac, cAgent, lAgent>>

LEMMA StsStep ==
  ASSUME TypeInv, [Next]_vars
  PROVE  StsKept \/ StsMade
<1> USE DEF apiVars, cacheVars, opVars, userVars
<1>1. TypeOK
  BY DEF TypeInv
<1>2. CASE CreateSts
  <2>1. CASE sts = None
    <3>1. sts' = [owner |-> lAgent.uid, rv |-> StsVersion, spec |-> lAgent.spec, status |-> 0]
      BY <1>2, <2>1 DEF CreateSts
    <3>2. sts'.owner = lAgent.uid
      BY <3>1
    <3> QED
      BY <1>2, <2>1, <3>2 DEF CreateSts, Goto, StsMade
  <2> QED
    BY <1>2, <2>1 DEF CreateSts, StsKept
<1>3. CASE UpdateSts
  <2>1. sts # None => sts \in StatefulSets
    BY <1>1, CopyTypes
  <2> QED
    BY <1>3, <2>1 DEF UpdateSts, StatefulSets, StsKept
<1>4. CASE StsProgress
  <2>1. sts \in StatefulSets
    BY <1>1, <1>4, CopyTypes DEF StsProgress
  <2> QED
    BY <1>4, <2>1 DEF StsProgress, StatefulSets, StsKept
<1>5. CASE ~CreateSts /\ ~UpdateSts /\ ~StsProgress
  <2>1. sts' = sts \/ sts' = None
    BY <1>5 DEF Next, Reconcile, GetAgent, GetSts, GetStsNotFound, UnmarshalFails, CreateResource, UpdateResource,
                UpsertResource, Annotate, UpdateStatus, StatusPanics, Error, Crash, Kubernetes, SyncAgent, SyncSts,
                CollectGarbage, UserCreates, UserEdits, UserDeletes, vars
  <2> QED
    BY <2>1 DEF StsKept
<1> QED
  BY <1>2, <1>3, <1>4, <1>5

\* An access object is made for the Agent that Reconcile works on, or collected.
RbacStays(o) == rbac'[o] = rbac[o]

RbacOwned(o) == rbac'[o] = lAgent.uid /\ lAgent # None

RbacCollected(o) == Orphan(rbac[o]) /\ agent' = agent

LEMMA RbacStep ==
  ASSUME TypeInv, [Next]_vars, NEW o \in Rbac
  PROVE  RbacStays(o) \/ RbacOwned(o) \/ RbacCollected(o)
<1> USE DEF apiVars, cacheVars, opVars, userVars
<1>1. rbac \in [Rbac -> 0..MaxAgents] /\ (pc # "idle" => lAgent # None)
  BY DEF TypeInv, TypeOK
<1>2. CASE CreateResource \/ UpdateResource
  BY <1>1, <1>2 DEF CreateResource, UpdateResource, UpsertResource, RbacStays, RbacOwned
<1>3. CASE CollectGarbage
  BY <1>1, <1>3 DEF CollectGarbage, RbacStays, RbacCollected
<1>4. CASE ~(CreateResource \/ UpdateResource) /\ ~CollectGarbage
  BY <1>4 DEF Next, Reconcile, GetAgent, GetSts, GetStsNotFound, UnmarshalFails, CreateSts, UpdateSts,
              Annotate, UpdateStatus, StatusPanics, Error, Crash, Kubernetes, SyncAgent, SyncSts,
              StsProgress, UserCreates, UserEdits, UserDeletes, vars, RbacStays
<1> QED
  BY <1>2, <1>3, <1>4

\* The copy that Reconcile works on stays one of the same Agent.
LEMMA CopyUid ==
  ASSUME TypeInv, [Next]_vars, lAgent' # None
  PROVE  \/ lAgent # None /\ lAgent'.uid = lAgent.uid
         \/ cAgent # None /\ lAgent'.uid = cAgent.uid /\ cAgent' = cAgent
<1>1. TypeOK
  BY DEF TypeInv
<1>2. CASE GetAgent
  <2>1. cAgent' = cAgent
    BY <1>2 DEF GetAgent, cacheVars
  <2>2. CASE lAgent' = lAgent
    BY <2>2
  <2>3. CASE lAgent' = FillDefaultValue(cAgent) /\ cAgent # None
    BY <1>1, <2>1, <2>3, FillType, CopyTypes
  <2> QED
    BY <1>2, <2>2, <2>3 DEF GetAgent
<1>3. CASE ~GetAgent
  <2>1. lAgent' \in {None, lAgent, ConvertAgent(lAgent)} /\ (lAgent' # None => lAgent # None)
    BY <1>3 DEF Next, Reconcile, GetSts, GetStsNotFound, UnmarshalFails, CreateResource, UpdateResource,
                UpsertResource, CreateSts, UpdateSts, Annotate, UpdateStatus, StatusPanics, Error, Crash,
                Kubernetes, SyncAgent, SyncSts, CollectGarbage, StsProgress, UserCreates, UserEdits, UserDeletes,
                vars, Goto, Return, Restarts, apiVars, cacheVars, opVars, userVars, TypeInv, TypeOK
  <2> QED
    BY <1>1, <2>1, ConvertType, CopyTypes
<1> QED
  BY <1>2, <1>3

LEMMA UidTypes ==
  ASSUME TypeInv
  PROVE  /\ uids \in Nat
         /\ agent # None => agent.uid \in Nat \ {0}
         /\ cAgent # None => cAgent.uid \in Nat
         /\ lAgent # None => lAgent.uid \in Nat
         /\ sts # None => sts.owner \in Nat
<1>1. uids \in 0..MaxAgents /\ TypeOK
  BY DEF TypeInv, TypeOK
<1> QED
  BY <1>1, CopyTypes DEF Agents, StatefulSets

LEMMA NextUids ==
  ASSUME TypeInv, UidsOrdered, [Next]_vars
  PROVE  UidsOrdered'
<1>1. CASE NewAgent
  BY <1>1, UidTypes DEF NewAgent, UidsOrdered
<1>2. CASE SameAgent
  <2>1. (agent' # None => agent'.uid = uids') /\ uids' = uids
    BY <1>2 DEF SameAgent, UidsOrdered
  <2>2. cAgent' # None => cAgent'.uid <= uids /\ cAgent'.uid \in Nat
    BY CopyStep, UidTypes DEF UidsOrdered
  <2>3. lAgent' # None => lAgent'.uid <= uids /\ lAgent'.uid \in Nat
    BY CopyUid, UidTypes DEF UidsOrdered
  <2>4. sts' # None => sts'.owner <= uids
    <3>1. pc = "createSts" => lAgent # None
      BY DEF TypeInv, TypeOK
    <3> QED
      BY <3>1, StsStep DEF StsKept, StsMade, UidsOrdered
  <2>5. cAgent' # None /\ lAgent' # None => lAgent'.uid <= cAgent'.uid
    <3>1. CASE cAgent' = cAgent
      BY <3>1, CopyUid, UidTypes DEF UidsOrdered
    <3>2. CASE cAgent' = agent
      BY <2>3, <3>2 DEF UidsOrdered
    <3> QED
      BY <3>1, <3>2, CopyStep
  <2> QED
    BY <2>1, <2>2, <2>3, <2>4, <2>5 DEF UidsOrdered
<1> QED
  BY <1>1, <1>2, UidStep

LEMMA NextOwnerSeen ==
  ASSUME TypeInv, UidsOrdered, OwnerSeen, [Next]_vars
  PROVE  OwnerSeen'
<1>1. CASE NewAgent
  BY <1>1, UidTypes DEF NewAgent, UidsOrdered, OwnerSeen
<1>2. CASE SameAgent
  <2> SUFFICES ASSUME agent' # None, sts' # None, sts'.owner = agent'.uid
               PROVE  /\ cAgent' # None => cAgent'.uid = agent'.uid
                      /\ lAgent' # None => lAgent'.uid = agent'.uid
    BY DEF OwnerSeen
  <2>1. agent # None /\ agent'.uid = agent.uid
    BY <1>2 DEF SameAgent
  <2>2. /\ cAgent # None => cAgent.uid = agent.uid
        /\ lAgent # None => lAgent.uid = agent.uid
    <3>1. CASE StsKept
      BY <2>1, <3>1 DEF StsKept, OwnerSeen
    <3>2. CASE StsMade
      <4>1. lAgent # None
        BY <3>2 DEF StsMade, TypeInv, TypeOK
      <4> QED
        BY <2>1, <3>2, <4>1, UidTypes DEF StsMade, UidsOrdered
    <3> QED
      BY <3>1, <3>2, StsStep
  <2>3. cAgent' # None => cAgent'.uid = agent.uid
    BY <2>2, CopyStep
  <2> QED
    BY <2>1, <2>2, <2>3, CopyUid
<1> QED
  BY <1>1, <1>2, UidStep

\* An access object of the Agent stays one while the Agent is not being deleted and
\* Reconcile does not work for another one.
LEMMA OwnedStays ==
  ASSUME TypeInv, [Next]_vars, NEW o \in Rbac,
         agent # None, ~agent.deleting, rbac[o] = agent.uid,
         lAgent # None => lAgent.uid = agent.uid
  PROVE  rbac'[o] = agent.uid
BY RbacStep DEF RbacStays, RbacOwned, RbacCollected, Orphan

\* CreateResource makes one object after the other.
LEMMA CreateSteps ==
  ASSUME TypeInv, [Next]_vars, lAgent' # None, pc' \in {"createRole", "createRb", "createSts"}
  PROVE  /\ lAgent' = lAgent
         /\ \/ pc' = pc
            \/ pc = "createSa" /\ pc' = "createRole" /\ rbac'["sa"] = lAgent.uid
            \/ pc = "createRole" /\ pc' = "createRb" /\ rbac'["role"] = lAgent.uid
            \/ pc = "createRb" /\ pc' = "createSts" /\ rbac'["rb"] = lAgent.uid
<1> USE DEF apiVars, cacheVars, opVars, userVars
<1>1. rbac \in [Rbac -> 0..MaxAgents]
  BY DEF TypeInv, TypeOK
<1>2. CASE CreateResource \/ UpdateResource
  BY <1>1, <1>2 DEF CreateResource, UpdateResource, UpsertResource, Goto, Rbac
<1>3. CASE ~(CreateResource \/ UpdateResource)
  BY <1>3 DEF Next, Reconcile, GetAgent, GetSts, GetStsNotFound, UnmarshalFails, CreateSts, UpdateSts,
              Annotate, UpdateStatus, StatusPanics, Error, Crash, Kubernetes, SyncAgent, SyncSts, CollectGarbage,
              StsProgress, UserCreates, UserEdits, UserDeletes, vars, Goto, Return, Restarts
<1> QED
  BY <1>2, <1>3

LEMMA NextRbacMade ==
  ASSUME TypeInv, UidsOrdered, RbacMade, [Next]_vars
  PROVE  RbacMade'
<1> SUFFICES ASSUME agent' # None, lAgent' # None, ~agent'.deleting, lAgent'.uid = agent'.uid,
                    pc' \in {"createRole", "createRb", "createSts"}
             PROVE  /\ rbac'["sa"] = agent'.uid
                    /\ pc' \in {"createRb", "createSts"} => rbac'["role"] = agent'.uid
                    /\ pc' = "createSts" => rbac'["rb"] = agent'.uid
  BY DEF RbacMade
<1>1. lAgent' = lAgent
  BY CreateSteps
<1>2. SameAgent
  <2>1. CASE NewAgent
    BY <1>1, <2>1, UidTypes DEF NewAgent, UidsOrdered
  <2> QED
    BY <2>1, UidStep
<1>3. agent # None /\ ~agent.deleting /\ agent'.uid = agent.uid /\ lAgent.uid = agent.uid
  BY <1>1, <1>2 DEF SameAgent
<1>4. \A o \in Rbac : rbac[o] = agent.uid => rbac'[o] = agent.uid
  BY <1>1, <1>3, OwnedStays
<1> QED
  BY <1>1, <1>3, <1>4, CreateSteps DEF RbacMade, Rbac

LEMMA NextStsHasRbac ==
  ASSUME TypeInv, RbacInv, [Next]_vars
  PROVE  StsHasRbac'
<1> SUFFICES ASSUME agent' # None, sts' # None, ~agent'.deleting, sts'.owner = agent'.uid,
                    NEW o \in Rbac
             PROVE  rbac'[o] = agent'.uid
  BY DEF StsHasRbac
<1>1. SameAgent
  <2>1. CASE NewAgent
    BY <2>1, UidTypes DEF NewAgent, RbacInv, UidsOrdered
  <2> QED
    BY <2>1, UidStep
<1>2. agent # None /\ ~agent.deleting /\ agent'.uid = agent.uid
  BY <1>1 DEF SameAgent
<1>3. CASE StsKept
  <2>1. sts # None /\ sts.owner = agent.uid
    BY <1>2, <1>3 DEF StsKept
  <2>2. rbac[o] = agent.uid /\ (lAgent # None => lAgent.uid = agent.uid)
    BY <1>2, <2>1 DEF RbacInv, OwnerSeen, StsHasRbac
  <2> QED
    BY <1>2, <2>2, OwnedStays
<1>4. CASE StsMade
  <2>1. lAgent # None /\ lAgent.uid = agent.uid
    BY <1>2, <1>4 DEF StsMade, TypeInv, TypeOK
  <2> QED
    BY <1>2, <1>4, <2>1 DEF StsMade, RbacInv, RbacMade, Rbac
<1> QED
  BY <1>3, <1>4, StsStep

\* For any number of Agents of the name, however they are made, deleted and made
\* again while the operator fails and restarts: the StatefulSet of an Agent never
\* exists without the access objects of its pod.
THEOREM PodsHaveAccess == Spec => []StsHasRbac
<1>1. ASSUME TypeInv, RbacInv, [Next]_vars
      PROVE  RbacInv'
  BY <1>1, NextUids, NextOwnerSeen, NextRbacMade, NextStsHasRbac DEF RbacInv
<1>2. RbacInv => StsHasRbac
  BY DEF RbacInv
<1> QED
  BY <1>1, <1>2, InitInv, NextType, PTL DEF Spec
=============================================================================
