----------------------------- MODULE Reconciler -----------------------------
(***************************************************************************)
(* The operator: controllers/agent_controller.go and converter.go.         *)
(*                                                                         *)
(* Reconcile brings the objects of one Agent resource about: a service     *)
(* account, a role, a role binding and the StatefulSet that runs the       *)
(* agent.  It decides whether the StatefulSet is to be changed by          *)
(* comparing the spec with a copy of the spec it has last applied, which   *)
(* it keeps in the annotation "spec" of the Agent itself.                  *)
(*                                                                         *)
(* Every call to the API server is a step, because users, the garbage      *)
(* collector and the StatefulSet controller act between two of them, and   *)
(* because the operator can be stopped or get an error there.  Get and     *)
(* List are answered from the informer caches, which lag behind.  Writes   *)
(* of an object that was read carry its resourceVersion.                   *)
(***************************************************************************)
EXTENDS Naturals

CONSTANTS
    Image,       \* values of the fields of a spec that can be changed in place
    Store,       \* values of the fields that a StatefulSet cannot change: storage, labels
    Option,      \* the options users set: subset of {"defaults", "snapshot"}
    None,        \* an object or annotation that does not exist
    MaxAgents,   \* bound on the Agents created under the name
    MaxEdits,    \* bound on the changes of their specs
    MaxStatus,   \* bound on the status changes of the StatefulSets
    MaxFail,     \* bound on API errors and restarts of the operator
    Patient      \* TRUE: users touch an Agent only while the operator has nothing to do

\* AgentSpec.  "defaults" is in opt when the fields that FillDefaultValue completes
\* are set, "snapshot" when spec.annotations has the key pvc.erda.io/snapshot.
AgentSpec == [image: Image, store: Store, opt: SUBSET {"defaults", "snapshot"}]

UserSpec == {s \in AgentSpec : s.opt \subseteq Option}

Rbac == {"sa", "role", "rb"}

Label == {"idle", "getSts", "status",
          "createSa", "createRole", "createRb", "createSts",
          "updateRole", "updateRb", "updateSa", "updateSts", "annotate"}

VARIABLES
    agent,    \* the Agent at the API server, or None
    sts,      \* the StatefulSet, or None
    rbac,     \* per access object the uid of its owner, 0 when there is none
    cAgent,   \* the Agent in the informer cache
    cSts,     \* the StatefulSet in the informer cache
    pc,       \* where Reconcile is
    lAgent,   \* Reconcile: agent
    lSts,     \* Reconcile: oldDeploy
    queued,   \* the workqueue holds a request for the Agent
    uids,     \* Agents created so far
    edits,    \* changes of specs so far
    fails     \* errors and restarts so far

apiVars   == <<agent, sts, rbac>>
cacheVars == <<cAgent, cSts>>
opVars    == <<pc, lAgent, lSts, queued>>
userVars  == <<uids, edits>>
vars      == <<apiVars, cacheVars, opVars, userVars, fails>>

\* A resourceVersion is only ever compared with those of the other copies of the
\* object, so that a new one is any that none of the three copies has.
Version == 1..4

Agents == [uid: 1..MaxAgents, rv: Version, deleting: BOOLEAN,
           spec: AgentSpec, ann: AgentSpec \cup {None}, status: 0..MaxStatus]

StatefulSets == [owner: 0..MaxAgents, rv: Version, spec: AgentSpec, status: 0..MaxStatus]

ASSUME ReconcilerAssumption ==
    /\ {MaxAgents, MaxEdits, MaxStatus, MaxFail} \subseteq Nat
    /\ Option \subseteq {"defaults", "snapshot"}
    /\ Patient \in BOOLEAN
    /\ None \notin Agents \cup StatefulSets

TypeOK ==
    /\ {agent, cAgent, lAgent} \subseteq Agents \cup {None}
    /\ {sts, cSts, lSts} \subseteq StatefulSets \cup {None}
    /\ rbac \in [Rbac -> 0..MaxAgents]
    /\ pc \in Label
    /\ pc # "idle" => lAgent # None
    /\ pc = "updateSts" => lSts # None
    /\ queued \in BOOLEAN
    /\ uids \in 0..MaxAgents
    /\ edits \in 0..MaxEdits
    /\ fails \in 0..MaxFail

Init ==
    /\ agent = None /\ sts = None /\ rbac = [o \in Rbac |-> 0]
    /\ cAgent = None /\ cSts = None
    /\ pc = "idle" /\ lAgent = None /\ lSts = None /\ queued = FALSE
    /\ uids = 0 /\ edits = 0 /\ fails = 0

-----------------------------------------------------------------------------
(* Helpers *)

FillDefaultValue(a) == [a EXCEPT !.spec.opt = @ \cup {"defaults"}]

\* ConvertAgent makes the four objects of the Agent.  On the way convertSts
\* takes the snapshot annotation out of the Agent; nothing uses its value.
ConvertAgent(a) == [a EXCEPT !.spec.opt = @ \ {"snapshot"}]

\* Reconcile returns: with an error or a RequeueAfter the request comes back,
\* otherwise only the events that arrived in the meantime count.
Return(again) ==
    /\ pc' = "idle"
    /\ lAgent' = None
    /\ lSts' = None
    /\ queued' = (queued \/ again)

Goto(label) == pc' = label /\ UNCHANGED <<lAgent, lSts, queued>>

Fresh(copies) == CHOOSE v \in Version : \A c \in copies \ {None} : c.rv # v

AgentVersion == Fresh({agent, cAgent, lAgent})

StsVersion == Fresh({sts, cSts, lSts})

\* A write of the Agent that Reconcile has read: the API server refuses it
\* when the object has changed, and does not count a write that changes nothing.
UpdateAgent(new) ==
    agent' = IF new = agent THEN agent ELSE [new EXCEPT !.rv = AgentVersion]

AgentCurrent == agent # None /\ agent.rv = lAgent.rv

-----------------------------------------------------------------------------
(* Reconcile *)

\* Mutant of GetAgent: no return when the Agent is not found.
GetAgentContinues ==
    /\ pc = "idle"
    /\ queued
    /\ queued' = FALSE
    /\ pc' = "getSts"
    /\ lAgent' = IF cAgent = None THEN None ELSE FillDefaultValue(cAgent)
    /\ UNCHANGED <<lSts, apiVars, cacheVars, userVars, fails>>

\* Get the Agent; without one, or with one being deleted, nothing is done.
GetAgent ==
    /\ pc = "idle"
    /\ queued
    /\ queued' = FALSE
    /\ IF cAgent = None \/ (cAgent # None /\ cAgent.deleting)
       THEN UNCHANGED <<pc, lAgent>>
       ELSE pc' = "getSts" /\ lAgent' = FillDefaultValue(cAgent)
    /\ UNCHANGED <<lSts, apiVars, cacheVars, userVars, fails>>

\* Mutant of GetSts: the comparison has lost its negation.
GetStsInverted ==
    /\ pc = "getSts"
    /\ cSts # None
    /\ lAgent.ann # None
    /\ IF lAgent.spec = lAgent.ann
       THEN pc' = "updateRole" /\ lAgent' = ConvertAgent(lAgent) /\ lSts' = cSts
       ELSE pc' = "status" /\ UNCHANGED <<lAgent, lSts>>
    /\ UNCHANGED <<queued, apiVars, cacheVars, userVars, fails>>

\* Get the StatefulSet and compare the spec with the annotation.
GetSts ==
    /\ pc = "getSts"
    /\ cSts # None
    /\ lAgent.ann # None
    /\ IF lAgent.spec # lAgent.ann
       THEN pc' = "updateRole" /\ lAgent' = ConvertAgent(lAgent) /\ lSts' = cSts
       ELSE pc' = "status" /\ UNCHANGED <<lAgent, lSts>>
    /\ UNCHANGED <<queued, apiVars, cacheVars, userVars, fails>>

GetStsNotFound ==
    /\ pc = "getSts"
    /\ cSts = None
    /\ pc' = "createSa"
    /\ lAgent' = ConvertAgent(lAgent)
    /\ UNCHANGED <<lSts, queued, apiVars, cacheVars, userVars, fails>>

\* There is a StatefulSet but no annotation: json.Unmarshal of "" is an error.
UnmarshalFails ==
    /\ pc = "getSts"
    /\ cSts # None
    /\ lAgent.ann = None
    /\ Return(TRUE)
    /\ UNCHANGED <<apiVars, cacheVars, userVars, fails>>

\* Mutant of UpsertResource: an object that exists already is left as it is.
CreateIfAbsent(o, from, to) ==
    /\ pc = from
    /\ rbac' = [rbac EXCEPT ![o] = IF @ = 0 THEN lAgent.uid ELSE @]
    /\ Goto(to)
    /\ UNCHANGED <<agent, sts, cacheVars, userVars, fails>>

\* upsertResource of an access object: create it, or update the one there is.
\* Its content depends on the Agent's name only; its owner is the Agent.
UpsertResource(o, from, to) ==
    /\ pc = from
    /\ rbac' = [rbac EXCEPT ![o] = lAgent.uid]
    /\ Goto(to)
    /\ UNCHANGED <<agent, sts, cacheVars, userVars, fails>>

CreateResource ==
    \/ UpsertResource("sa", "createSa", "createRole")
    \/ UpsertResource("role", "createRole", "createRb")
    \/ UpsertResource("rb", "createRb", "createSts")

UpdateResource ==
    \/ UpsertResource("role", "updateRole", "updateRb")
    \/ UpsertResource("rb", "updateRb", "updateSa")
    \/ UpsertResource("sa", "updateSa", "updateSts")

\* Mutant of CreateSts: the StatefulSet has no owner reference.
CreateStsUnowned ==
    /\ pc = "createSts"
    /\ IF sts = None
       THEN /\ sts' = [owner |-> 0, rv |-> StsVersion, spec |-> lAgent.spec, status |-> 0]
            /\ Goto("annotate")
       ELSE Return(TRUE) /\ UNCHANGED sts
    /\ UNCHANGED <<agent, rbac, cacheVars, userVars, fails>>

\* Create of the StatefulSet, refused when there is one that the cache has not
\* shown or that an Agent of the same name has left.
CreateSts ==
    /\ pc = "createSts"
    /\ IF sts = None
       THEN /\ sts' = [owner |-> lAgent.uid, rv |-> StsVersion, spec |-> lAgent.spec, status |-> 0]
            /\ Goto("annotate")
       ELSE Return(TRUE) /\ UNCHANGED sts
    /\ UNCHANGED <<agent, rbac, cacheVars, userVars, fails>>

\* Update of oldDeploy with the new spec.  The API server refuses it when the
\* StatefulSet has changed since it was read, and when it would change the
\* volume claims or the selector.
UpdateSts ==
    /\ pc = "updateSts"
    /\ IF sts # None /\ sts.rv = lSts.rv /\ sts.spec.store = lAgent.spec.store
       THEN /\ sts' = IF sts.spec = lAgent.spec THEN sts
                      ELSE [sts EXCEPT !.spec = lAgent.spec, !.rv = StsVersion]
            /\ Goto("annotate")
       ELSE Return(TRUE) /\ UNCHANGED sts
    /\ UNCHANGED <<agent, rbac, cacheVars, userVars, fails>>

\* Mutant of Annotate: the Agent is written whatever its resourceVersion is.
AnnotateUnconditionally ==
    /\ pc = "annotate"
    /\ IF agent # None
       THEN UpdateAgent([agent EXCEPT !.spec = lAgent.spec, !.ann = lAgent.spec])
       ELSE UNCHANGED agent
    /\ Return(TRUE)
    /\ UNCHANGED <<sts, rbac, cacheVars, userVars, fails>>

\* Record the spec in the annotation.  The Agent is written as a whole, with
\* the spec that was read and completed; success asks for another round.
Annotate ==
    /\ pc = "annotate"
    /\ IF AgentCurrent
       THEN UpdateAgent([agent EXCEPT !.spec = lAgent.spec, !.ann = lAgent.spec])
       ELSE UNCHANGED agent
    /\ Return(TRUE)
    /\ UNCHANGED <<sts, rbac, cacheVars, userVars, fails>>

\* Nothing to apply: list the StatefulSets and copy the status.
UpdateStatus ==
    /\ pc = "status"
    /\ cSts # None
    /\ IF cSts.status # lAgent.status /\ AgentCurrent
       THEN UpdateAgent([agent EXCEPT !.status = cSts.status])
       ELSE UNCHANGED agent
    /\ Return(cSts.status # lAgent.status /\ ~AgentCurrent)
    /\ UNCHANGED <<sts, rbac, cacheVars, userVars, fails>>

\* A new operator process: it lists everything into its caches, and every
\* Agent it finds is queued.
Restarts ==
    /\ pc' = "idle" /\ lAgent' = None /\ lSts' = None
    /\ cAgent' = agent /\ cSts' = sts
    /\ queued' = (agent # None)

\* The list is empty: Size() of an empty list is not 0, Items[0] panics.
StatusPanics ==
    /\ pc = "status"
    /\ cSts = None
    /\ Restarts
    /\ UNCHANGED <<apiVars, userVars, fails>>

Reconcile ==
    \/ GetAgent \/ GetSts \/ GetStsNotFound \/ UnmarshalFails
    \/ CreateResource \/ CreateSts \/ UpdateResource \/ UpdateSts \/ Annotate
    \/ UpdateStatus \/ StatusPanics

\* A call fails before it has an effect, or the answer to the previous one was
\* lost; or the operator is stopped between two calls.
Error ==
    /\ pc # "idle"
    /\ fails < MaxFail
    /\ fails' = fails + 1
    /\ Return(TRUE)
    /\ UNCHANGED <<apiVars, cacheVars, userVars>>

Crash ==
    /\ fails < MaxFail
    /\ fails' = fails + 1
    /\ Restarts
    /\ UNCHANGED <<apiVars, userVars>>

-----------------------------------------------------------------------------
(* Kubernetes, external: caches, garbage collector, StatefulSet controller  *)

\* SetupWithManager watches the Agents and the StatefulSets they own: a change
\* that reaches a cache queues a request for the Agent.
SyncAgent ==
    /\ cAgent # agent
    /\ cAgent' = agent
    /\ queued' = TRUE
    /\ UNCHANGED <<apiVars, cSts, pc, lAgent, lSts, userVars, fails>>

\* Mutant of SyncSts: the manager does not watch the StatefulSets it owns.
SyncStsUnwatched ==
    /\ cSts # sts
    /\ cSts' = sts
    /\ UNCHANGED <<queued, apiVars, cAgent, pc, lAgent, lSts, userVars, fails>>

SyncSts ==
    /\ cSts # sts
    /\ cSts' = sts
    /\ queued' = TRUE
    /\ UNCHANGED <<apiVars, cAgent, pc, lAgent, lSts, userVars, fails>>

\* The owner is gone, or is being deleted in the foreground.
Orphan(uid) == uid # 0 /\ (agent = None \/ (agent # None /\ (agent.uid # uid \/ agent.deleting)))

CollectGarbage ==
    /\ \/ \E o \in Rbac : Orphan(rbac[o]) /\ rbac' = [rbac EXCEPT ![o] = 0] /\ UNCHANGED <<agent, sts>>
       \/ sts # None /\ Orphan(sts.owner) /\ sts' = None /\ UNCHANGED <<agent, rbac>>
       \/ /\ agent # None /\ agent.deleting
          /\ \A o \in Rbac : rbac[o] # agent.uid
          /\ sts = None \/ (sts # None /\ sts.owner # agent.uid)
          /\ agent' = None /\ UNCHANGED <<sts, rbac>>
    /\ UNCHANGED <<cacheVars, opVars, userVars, fails>>

StsProgress ==
    /\ sts # None /\ sts.status < MaxStatus
    /\ sts' = [sts EXCEPT !.status = @ + 1, !.rv = StsVersion]
    /\ UNCHANGED <<agent, rbac, cacheVars, opVars, userVars, fails>>

-----------------------------------------------------------------------------
(* The users *)

\* The operator has seen everything and has nothing to do.
Quiet == pc = "idle" /\ ~queued /\ cAgent = agent /\ cSts = sts

UserCreates ==
    /\ agent = None
    /\ uids < MaxAgents
    /\ uids' = uids + 1
    /\ \E s \in UserSpec :
        agent' = [uid |-> uids + 1, rv |-> AgentVersion, deleting |-> FALSE,
                  spec |-> s, ann |-> None, status |-> 0]
    /\ UNCHANGED <<sts, rbac, cacheVars, opVars, edits, fails>>

UserEdits ==
    /\ agent # None
    /\ ~agent.deleting
    /\ Patient => Quiet
    /\ edits < MaxEdits
    /\ edits' = edits + 1
    /\ \E s \in UserSpec \ {agent.spec} : agent' = [agent EXCEPT !.spec = s, !.rv = AgentVersion]
    /\ UNCHANGED <<sts, rbac, cacheVars, opVars, uids, fails>>

\* in the background, or in the foreground
UserDeletes ==
    /\ agent # None
    /\ ~agent.deleting
    /\ \/ agent' = None
       \/ agent' = [agent EXCEPT !.deleting = TRUE, !.rv = AgentVersion]
    /\ UNCHANGED <<sts, rbac, cacheVars, opVars, userVars, fails>>

-----------------------------------------------------------------------------
(* The specification *)

Kubernetes == SyncAgent \/ SyncSts \/ CollectGarbage

Next ==
    \/ Reconcile \/ Error \/ Crash
    \/ Kubernetes \/ StsProgress
    \/ UserCreates \/ UserEdits \/ UserDeletes

\* The worker takes what is in the queue, informers and garbage collector make
\* progress.  Nothing is assumed of the users, of errors or of the status.
Fairness ==
    /\ WF_vars(Reconcile)
    /\ WF_vars(SyncAgent) /\ WF_vars(SyncSts) /\ WF_vars(CollectGarbage)

Spec == Init /\ [][Next]_vars

FairSpec == Spec /\ Fairness

-----------------------------------------------------------------------------
(* Properties *)

\* The StatefulSet of an Agent never exists without the account, the role and
\* the binding its pod needs: CreateResource makes it last, and what a deleted
\* Agent of the same name left behind is taken over before the garbage
\* collector can remove it.
StsHasRbac ==
    agent # None /\ sts # None /\ ~agent.deleting /\ sts.owner = agent.uid =>
        \A o \in Rbac : rbac[o] = agent.uid

\* The operator writes the whole Agent, spec included, from a copy it has read
\* some time ago: it completes the spec that is there and takes the snapshot
\* annotation out of it, but never writes an older spec over a user's edit.
NoLostEdit ==
    [][pc # "idle" /\ pc' = "idle" /\ agent # None /\ agent' # None =>
        agent'.spec \in {agent.spec, ConvertAgent(FillDefaultValue(agent)).spec}]_vars

\* What the cluster is to look like: the StatefulSet has the spec of the Agent
\* and the Agent shows the status of the StatefulSet.
Desired ==
    agent # None /\ ~agent.deleting =>
        /\ sts # None
        /\ sts.owner = agent.uid
        /\ sts.spec = ConvertAgent(FillDefaultValue(agent)).spec
        /\ agent.status = sts.status

\* Reconcile moves the cluster to the desired state: once the users have
\* stopped, the cluster gets there and stays there.
Converges == <>[]Desired

\* A deleted Agent leaves nothing behind: everything ConvertAgent makes is owned
\* by the Agent, also what a Reconcile under way makes after the deletion.
DeletedIsCleaned ==
    agent = None ~> (agent # None \/ (sts = None /\ \A o \in Rbac : rbac[o] = 0))

=============================================================================
