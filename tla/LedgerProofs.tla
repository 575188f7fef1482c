---------------------------- MODULE LedgerProofs ----------------------------
(***************************************************************************)
(* The data plane implements the ledger: Coverage!Spec => Ledger!Spec.     *)
(*                                                                         *)
(* The heart of the argument is DueOf: for every stage the monitor can be  *)
(* at, where what is due of a service is.  It goes from the counters of    *)
(* the pods to the dump goroutine, from there to a file, from the files to *)
(* the one that mergeAllSvcExec returns and from there to the project      *)
(* file, while the main goroutine dumps and merges between the three       *)
(* critical sections of report, and faults cost what they cost.            *)
(***************************************************************************)
EXTENDS CoverageProofs

-----------------------------------------------------------------------------
(* Where units can be *)

\* The registry and a goroutine have only pods of the service, a goroutine that
\* does not dump has nothing in its hands, and a pod that is down counts nothing.
PodInv ==
    /\ \A s \in Service : reg[s].pods \subseteq PodsOf(s)
    /\ \A s \in Service : go[s] # None =>
           go[s].left \subseteq PodsOf(s) /\ (go[s].at # "dump" => go[s].got = {})
    /\ \A p \in Pod \ up : counter[p] = {}

\* There are files only in directories.
DirInv == \A s \in Service \ dirs : exec[s] = {} /\ ~Running(s, "dump")

\* Nothing is anywhere that was not executed.
UnitInv ==
    /\ \A p \in Pod : counter[p] \subseteq executed
    /\ \A s \in Service : Content(exec[s]) \subseteq executed
    /\ \A s \in Service : go[s] # None => go[s].got \subseteq executed
    /\ project \subseteq executed

\* mergeAllSvcExec returns a file only for services that its range has come to,
\* and no goroutine writes into such a file.
ListedInv ==
    /\ at["mon"] \in {"idle", "dumpWait", "dump", "mergeWait"} => \A s \in Service : svcExecMap[s] = None
    /\ at["mon"] = "merge" => \A s \in todo : svcExecMap[s] = None
    /\ merging # None => merging.svc \notin todo
    /\ \A s \in Service : Running(s, "dump") => go[s].file # svcExecMap[s]

-----------------------------------------------------------------------------
(* Where the due units are *)

\* The files of a service but for those that a failed merge is about to remove
FailedOld(s) == IF merging # None /\ merging.svc = s /\ merging.failed THEN merging.old ELSE {}

Secure(s) == exec[s] \ FailedOld(s)

InHand(s) == IF go[s] = None THEN {} ELSE go[s].got

\* What the next dump, after the one under way, is going to find in the pods
NextDump(s) ==
    Counted(reg[s].pods \ (reg[s].HasError \cup (IF go[s] = None THEN {} ELSE go[s].podErrorMap)))

\* What the dump of the monitor has not got into a file yet
InDump(s) ==
    IF Running(s, "dump") THEN go[s].got \cup Counted(go[s].left)
    ELSE IF Running(s, "get") \/ (go[s] = None /\ s \in todo) THEN Counted(reg[s].pods \ reg[s].HasError)
    ELSE {}

\* mergeAllSvcExec of the monitor is through with service s.
Merged(s) ==
    \/ at["mon"] \in {"projectWait", "project"}
    \/ at["mon"] = "merge" /\ s \notin todo /\ ~(merging # None /\ merging.svc = s)

DueOf(s) ==
    /\ reg[s].IsDelete => due[s] = {}
    /\ due[s] \subseteq Counted(PodsOf(s)) \cup Content(Secure(s)) \cup InHand(s)
    /\ at["mon"] = "dumpWait" => due[s] \subseteq Content(Secure(s)) \cup InHand(s) \cup NextDump(s)
    /\ at["mon"] = "dump" => due[s] \subseteq Content(exec[s]) \cup InDump(s)
    /\ at["mon"] = "mergeWait" => due[s] \subseteq Content(Secure(s))
    /\ at["mon"] = "merge" /\ s \in todo => due[s] \subseteq Content(exec[s])
    /\ at["mon"] = "merge" /\ merging # None /\ merging.svc = s =>
           \A f \in Named(s, merging.new) : due[s] \subseteq f.units
    /\ Merged(s) => /\ svcExecMap[s] = None => due[s] = {}
                    /\ \A f \in Named(s, svcExecMap[s]) : due[s] \subseteq f.units
    /\ at["mon"] = "post" => due[s] \subseteq project

DueInv ==
    /\ ctxDone \/ at["mon"] = "idle" => \A s \in Service : due[s] = {}
    /\ \A s \in Service : DueOf(s)

-----------------------------------------------------------------------------
(* The simple invariants *)

\* The pods of the registry, and of a goroutine, that a step leaves
PodsKept(s) ==
    /\ reg'[s].pods \subseteq reg[s].pods \cup (up \cap PodsOf(s))
    /\ go'[s] # None =>
           \/ go[s] # None /\ go'[s].left \subseteq go[s].left
              /\ (go'[s].at = "dump" \/ go'[s].got = {} \/ (go[s].at # "dump" /\ go'[s].got = go[s].got))
           \/ go'[s].left \subseteq reg[s].pods /\ (go'[s].at = "dump" \/ go'[s].got = {})

LEMMA PodFrame ==
  ASSUME PodInv, \A s \in Service : PodsKept(s),
         \A p \in Pod : p \notin up' => counter'[p] = {}
  PROVE  PodInv'
<1>1. \A s \in Service : reg'[s].pods \subseteq PodsOf(s)
  BY DEF PodInv, PodsKept
<1>2. ASSUME NEW s \in Service, go'[s] # None
      PROVE  go'[s].left \subseteq PodsOf(s) /\ (go'[s].at # "dump" => go'[s].got = {})
  BY <1>2 DEF PodInv, PodsKept
<1> QED
  BY <1>1, <1>2 DEF PodInv, PodsOf

\* The usual case: a service that the step does not touch
LEMMA PodsKeptSame ==
  ASSUME NEW s \in Service, reg'[s] = reg[s] \/ SameReg(s), go'[s] = go[s] \/ go'[s] = None
  PROVE  PodsKept(s)
BY DEF PodsKept, SameReg

LEMMA RestartPodInv ==
  ASSUME TypeOK, PodInv, Restart
  PROVE  PodInv'
<1>1. \A s \in Service : PodsKept(s)
  BY RestartFields DEF PodsKept, NoService
<1> QED
  BY <1>1, RestartFields, PodFrame DEF PodInv, podVars

LEMMA DumpPodInv ==
  ASSUME TypeOK, PodInv, NEW s \in Service, Dump(s)
  PROVE  PodInv'
<1>1. CASE DeletedReturns(s) \/ GetFails(s) \/ \E p \in Pod : DumpFails(s, p)
  <2>1. reg' = reg /\ \A t \in Service : go'[t] = go[t] \/ go'[t] = None
    BY <1>1, DoneFields DEF DeletedReturns, GetFails, DumpFails
  <2>2. \A p \in Pod : p \notin up' => counter'[p] = {}
    BY <1>1 DEF DeletedReturns, GetFails, DumpFails, podVars, PodInv, TypeOK
  <2> QED
    BY <2>1, <2>2, PodsKeptSame, PodFrame
<1>2. CASE Get(s)
  <2>1. PodsKept(s)
    BY <1>2, GetFields DEF PodsKept, Get
  <2> QED
    BY <1>2, <2>1, GetFields, PodsKeptSame, PodFrame DEF Get, podVars, PodInv
<1>3. ASSUME NEW p \in Pod, DumpPod(s, p)
      PROVE  PodInv'
  <2>1. PodsKept(s)
    BY <1>3, DumpPodFields DEF PodsKept, DumpPod
  <2>2. \A q \in Pod : q \notin up' => counter'[q] = {}
    BY <1>3 DEF DumpPod, PodInv, TypeOK
  <2>3. reg' = reg /\ \A t \in Service \ {s} : go'[t] = go[t]
    BY <1>3, DumpPodFields DEF DumpPod
  <2> QED
    BY <2>1, <2>2, <2>3, PodsKeptSame, PodFrame
<1>4. ASSUME NEW p \in Pod, DialFails(s, p)
      PROVE  PodInv'
  <2>1. PodsKept(s)
    BY <1>4, DialFailsFields DEF PodsKept, DialFails
  <2>2. reg' = reg /\ \A t \in Service \ {s} : go'[t] = go[t]
    BY <1>4, DialFailsFields DEF DialFails
  <2>3. \A q \in Pod : q \notin up' => counter'[q] = {}
    BY <1>4 DEF DialFails, podVars, PodInv
  <2> QED
    BY <2>1, <2>2, <2>3, PodsKeptSame, PodFrame
<1>5. CASE MergePods(s)
  <2>1. PodsKept(s) /\ \A t \in Service \ {s} : go'[t] = go[t]
    BY <1>5, MergePodsGoes, MergePodsFields DEF PodsKept, MergePods
  <2> QED
    BY <1>5, <2>1, PodsKeptSame, PodFrame DEF MergePods, podVars, PodInv
<1>6. CASE Note(s)
  <2>1. PodsKept(s)
    BY <1>6, NoteFields, NoteReg DEF PodsKept, SameReg
  <2> QED
    BY <1>6, <2>1, NoteFields, NoteReg, PodsKeptSame, PodFrame, ZenonT(40) DEF Note, podVars, PodInv
<1>7. CASE Mark(s)
  <2>1. PodsKept(s)
    BY <1>7, DoneFields, MarkReg DEF PodsKept, Mark
  <2> QED
    BY <1>7, <2>1, DoneFields, MarkReg, PodsKeptSame, PodFrame DEF Mark, podVars, PodInv
<1>8. CASE MarkPanics(s)
  BY <1>8, RestartPodInv DEF MarkPanics
<1> QED
  BY <1>1, <1>2, <1>3, <1>4, <1>5, <1>6, <1>7, <1>8 DEF Dump

LEMMA NextPodInv ==
  ASSUME LockInv, PodInv, [Next]_vars
  PROVE  PodInv'
<1>1. TypeOK
  BY DEF LockInv
<1>2. ASSUME UNCHANGED <<reg, up, counter, go>>
      PROVE  PodInv'
  BY <1>2, PodsKeptSame, PodFrame DEF PodInv
<1>3. CASE UNCHANGED vars
  BY <1>2, <1>3 DEF vars, podVars, dumpVars
<1>4. ASSUME NEW r \in Caller, Begin(r) \/ Lock(r) \/ Returns(r)
      PROVE  PodInv'
  BY <1>2, <1>4 DEF Begin, Lock, Returns, DumpReturns, MergeAllReturns, podVars, dumpVars
<1>5. CASE Project
  BY <1>2, <1>5 DEF Project, MergeProject, MergeProjectFails, Deliver, podVars, dumpVars
<1>6. CASE RangeStep
  <2>1. CASE RangeStops \/ MergeReturns \/ \E s \in Service : MergeSkips(s) \/ MergeSvc(s)
    BY <1>2, <2>1 DEF RangeStops, MergeReturns, MergeSkips, MergeSvc, podVars, dumpVars
  <2>2. CASE RemoveMerged
    <3>1. \A s \in Service : PodsKept(s)
      BY <1>1, <2>2, RemoveReg, PodsKeptSame DEF RemoveMerged, dumpVars
    <3> QED
      BY <2>2, <3>1, PodFrame DEF RemoveMerged, podVars, PodInv
  <2>3. ASSUME NEW s \in Service, RangeDumps(s)
        PROVE  PodInv'
    <3>1. /\ go'[s].left = {} /\ go'[s].got = {} /\ reg' = reg
          /\ \A t \in Service \ {s} : go'[t] = go[t]
      BY <1>1, <2>3 DEF RangeDumps, NewDumper, TypeOK
    <3>2. \A t \in Service : PodsKept(t)
      BY <3>1 DEF PodsKept
    <3> QED
      BY <2>3, <3>2, PodFrame DEF RangeDumps, podVars, PodInv
  <2> QED
    BY <1>6, <2>1, <2>2, <2>3 DEF RangeStep
<1>7. CASE Environment
  <2>1. ASSUME UNCHANGED <<reg, go>>, \A p \in Pod : p \notin up' => counter'[p] = {}
        PROVE  PodInv'
    BY <2>1, PodsKeptSame, PodFrame
  <2>2. ASSUME NEW u \in Unit, NEW p \in Pod, Execute(u, p)
        PROVE  PodInv'
    BY <1>1, <2>1, <2>2 DEF Execute, dumpVars, TypeOK, PodInv
  <2>3. ASSUME NEW p \in Pod, PodChanges(p)
        PROVE  PodInv'
    BY <1>1, <2>1, <2>3 DEF PodChanges, dumpVars, TypeOK, PodInv
  <2>4. ASSUME NEW s \in Service, SavePods(s)
        PROVE  PodInv'
    <3>1. \A t \in Service : PodsKept(t)
      BY <1>1, <2>4, SavePodsReg DEF PodsKept, SavePods, SameReg, dumpVars
    <3> QED
      BY <2>4, <3>1, PodFrame DEF SavePods, podVars, PodInv
  <2>5. ASSUME NEW s \in Service, Delete(s)
        PROVE  PodInv'
    <3>1. \A t \in Service : PodsKept(t)
      BY <1>1, <2>5, DeleteReg DEF PodsKept, Delete, SameReg, dumpVars
    <3> QED
      BY <2>5, <3>1, PodFrame DEF Delete, podVars, PodInv
  <2>6. CASE Cancel
    BY <1>2, <2>6 DEF Cancel, podVars, dumpVars
  <2>7. CASE Crash
    BY <1>1, <2>7, RestartPodInv DEF Crash
  <2> QED
    BY <1>7, <2>2, <2>3, <2>4, <2>5, <2>6, <2>7 DEF Environment
<1> QED
  BY <1>1, <1>3, <1>4, <1>5, <1>6, <1>7, DumpPodInv DEF Next, System

\* How a goroutine gets to the dump of its pods
LEMMA DumpingStep ==
  ASSUME LockInv, [Next]_vars, NEW t \in Service, Running(t, "dump")'
  PROVE  Get(t) \/ (Running(t, "dump") /\ go'[t].file = go[t].file)
<1>1. TypeOK
  BY DEF LockInv
<1>2. CASE go' = go
  BY <1>2 DEF Running
<1>3. ASSUME go'[t] = go[t]
      PROVE  Running(t, "dump") /\ go'[t].file = go[t].file
  BY <1>3 DEF Running
<1>4. ASSUME Restart
      PROVE  FALSE
  BY <1>4 DEF Restart, Fresh, NoService, Running
<1>5. ASSUME NEW s \in Service, Dump(s)
      PROVE  Get(t) \/ (Running(t, "dump") /\ go'[t].file = go[t].file)
  <2>1. CASE DeletedReturns(s) \/ GetFails(s) \/ (\E p \in Pod : DumpFails(s, p)) \/ Mark(s)
    BY <1>1, <1>3, <2>1 DEF DeletedReturns, GetFails, DumpFails, Mark, Done, TypeOK, Running
  <2>2. CASE Get(s)
    BY <1>1, <1>3, <2>2, GetFields
  <2>3. ASSUME NEW p \in Pod, DumpPod(s, p)
        PROVE  Running(t, "dump") /\ go'[t].file = go[t].file
    BY <1>1, <1>3, <2>3, DumpPodFields DEF Running
  <2>4. ASSUME NEW p \in Pod, DialFails(s, p)
        PROVE  Running(t, "dump") /\ go'[t].file = go[t].file
    BY <1>1, <1>3, <2>4, DialFailsFields DEF Running
  <2>5. CASE MergePods(s)
    <3>1. go'[s].at = "note" /\ \A r \in Service \ {s} : go'[r] = go[r]
      BY <1>1, <2>5, MergePodsGoes, MergePodsFields
    <3> QED
      BY <1>3, <3>1 DEF Running
  <2>6. CASE Note(s)
    <3>1. go'[s].at = "mark" /\ \A r \in Service \ {s} : go'[r] = go[r]
      BY <1>1, <2>6, NoteFields
    <3> QED
      BY <1>3, <3>1 DEF Running
  <2>7. CASE MarkPanics(s)
    BY <1>4, <2>7 DEF MarkPanics
  <2> QED
    BY <1>5, <2>1, <2>2, <2>3, <2>4, <2>5, <2>6, <2>7 DEF Dump
<1>6. CASE UNCHANGED vars
  BY <1>2, <1>6 DEF vars, dumpVars
<1>7. ASSUME NEW r \in Caller, Begin(r) \/ Lock(r) \/ Returns(r)
      PROVE  go' = go
  BY <1>7 DEF Begin, Lock, Returns, DumpReturns, MergeAllReturns, dumpVars
<1>8. CASE Project
  BY <1>2, <1>8 DEF Project, MergeProject, MergeProjectFails, Deliver, dumpVars
<1>9. CASE Environment
  BY <1>2, <1>4, <1>9 DEF Environment, Execute, PodChanges, SavePods, Delete, Cancel, Crash, dumpVars
<1>10. CASE RangeStep
  <2>1. ASSUME NEW s \in Service, RangeDumps(s)
        PROVE  go'[t] = go[t]
    BY <1>1, <2>1 DEF RangeDumps, NewDumper, TypeOK, Running
  <2> QED
    BY <1>2, <1>3, <1>10, <2>1 DEF RangeStep, RangeStops, MergeReturns, RemoveMerged, MergeSkips, MergeSvc, dumpVars
<1> QED
  BY <1>2, <1>5, <1>6, <1>7, <1>8, <1>9, <1>10 DEF Next, System

LEMMA DirsStay ==
  ASSUME [Next]_vars
  PROVE  dirs \subseteq dirs'
<1>1. CASE UNCHANGED vars
  BY <1>1 DEF vars, fileVars
<1>2. ASSUME NEW r \in Caller, Begin(r) \/ Lock(r) \/ Returns(r)
      PROVE  dirs \subseteq dirs'
  BY <1>2 DEF Begin, Lock, Returns, DumpReturns, MergeAllReturns, fileVars
<1>3. CASE Project
  BY <1>3 DEF Project, MergeProject, MergeProjectFails, Deliver, fileVars
<1>4. CASE Environment
  BY <1>4 DEF Environment, Execute, PodChanges, SavePods, Delete, Cancel, Crash, Restart, fileVars
<1>5. CASE RangeStep
  BY <1>5 DEF RangeStep, RangeStops, MergeReturns, RemoveMerged, RangeDumps, MergeSkips, MergeSvc, fileVars
<1>6. ASSUME NEW s \in Service, Dump(s)
      PROVE  dirs \subseteq dirs'
  BY <1>6 DEF Dump, DeletedReturns, GetFails, Get, DumpPod, DialFails, DumpFails, MergePods, Note,
              Mark, MarkPanics, Restart, fileVars
<1> QED
  BY <1>1, <1>2, <1>3, <1>4, <1>5, <1>6 DEF Next, System

LEMMA NextDirInv ==
  ASSUME LockInv, DirInv, [Next]_vars
  PROVE  DirInv'
<1>1. TypeOK
  BY DEF LockInv
<1>2. ASSUME NEW t \in Service, t \notin dirs'
      PROVE  ~Running(t, "dump")'
  BY <1>2, DumpingStep, DirsStay DEF DirInv, Get
<1>3. ASSUME NEW t \in Service, t \notin dirs'
      PROVE  exec'[t] = {}
  <2>1. t \notin dirs /\ exec[t] = {}
    BY <1>3, DirsStay DEF DirInv
  <2>2. CASE RemoveMerged
    BY <1>1, <2>1, <2>2 DEF RemoveMerged, TypeOK
  <2>3. ASSUME NEW s \in Service, Get(s) \/ MergeSvc(s)
        PROVE  exec'[t] = {}
    BY <1>1, <1>3, <2>1, <2>3 DEF Get, MergeSvc, TypeOK
  <2>4. ASSUME NEW s \in Service, MergePods(s)
        PROVE  exec'[t] = {}
    <3>1. t # s
      BY <2>1, <2>4 DEF MergePods, DirInv
    <3> QED
      BY <1>1, <2>1, <2>4, <3>1 DEF MergePods, TypeOK
  <2> QED
    BY <2>1, <2>2, <2>3, <2>4, ExecChanges
<1> QED
  BY <1>2, <1>3 DEF DirInv

LEMMA UnitFrame ==
  ASSUME UnitInv, UNCHANGED <<executed, counter, exec, project>>,
         \A s \in Service : go'[s] # None => go'[s].got = {} \/ (go[s] # None /\ go'[s].got = go[s].got)
  PROVE  UnitInv'
BY DEF UnitInv, Content

LEMMA RestartUnitInv ==
  ASSUME TypeOK, UnitInv, Restart
  PROVE  UnitInv'
BY RestartFields DEF podVars, fileVars, NoService, UnitInv, Content

LEMMA DumpUnitInv ==
  ASSUME LockInv, UnitInv, NEW s \in Service, Dump(s)
  PROVE  UnitInv'
<1>1. TypeOK
  BY DEF LockInv
<1>2. CASE DeletedReturns(s) \/ GetFails(s) \/ Mark(s)
  BY <1>1, <1>2, DoneFields, UnitFrame DEF DeletedReturns, GetFails, Mark, podVars, fileVars, reportVars
<1>3. ASSUME NEW p \in Pod, DumpFails(s, p)
      PROVE  UnitInv'
  <2>1. \A q \in Pod : counter'[q] \subseteq counter[q]
    BY <1>1, <1>3 DEF DumpFails, TypeOK
  <2>2. \A t \in Service : go'[t] = go[t] \/ go'[t] = None
    BY <1>1, <1>3, DoneFields DEF DumpFails
  <2> QED
    BY <1>3, <2>1, <2>2 DEF DumpFails, fileVars, reportVars, UnitInv, Content
<1>4. CASE Get(s)
  <2>1. \A t \in Service : go'[t] # None => go[t] # None /\ go'[t].got = go[t].got
    BY <1>1, <1>4, GetFields
  <2>2. \A t \in Service : Content(exec'[t]) \subseteq Content(exec[t])
    <3>1. \A t \in Service : \A f \in exec'[t] : f \in exec[t] \/ f.units = {}
      BY <1>1, <1>4 DEF Get, TypeOK
    <3> QED
      BY <3>1 DEF Content
  <2> QED
    BY <1>4, <2>1, <2>2 DEF Get, podVars, reportVars, UnitInv, Content
<1>5. ASSUME NEW p \in Pod, DumpPod(s, p)
      PROVE  UnitInv'
  <2>1. \A q \in Pod : counter'[q] \subseteq counter[q]
    BY <1>1, <1>5 DEF DumpPod, TypeOK
  <2>2. \A t \in Service : go'[t] # None => go'[t].got \subseteq executed
    BY <1>1, <1>5, DumpPodFields DEF UnitInv
  <2> QED
    BY <1>5, <2>1, <2>2 DEF DumpPod, fileVars, reportVars, UnitInv, Content
<1>6. ASSUME NEW p \in Pod, DialFails(s, p)
      PROVE  UnitInv'
  BY <1>1, <1>6, DialFailsFields, UnitFrame DEF DialFails, podVars, fileVars, reportVars
<1>7. CASE MergePods(s)
  <2>1. PICK failed \in BOOLEAN : MergePodsTo(s, failed)
    BY <1>1, <1>7, MergePodsGoes
  <2>2. go[s] # None /\ go'[s].got = {} /\ \A t \in Service \ {s} : go'[t] = go[t]
    BY <1>1, <2>1, MergePodsFields
  <2>3. \A t \in Service : Content(exec'[t]) \subseteq executed
    <3>1. \A t \in Service : \A f \in exec'[t] : f \in exec[t] \/ (t = s /\ f.units = go[s].got)
      BY <1>1, <2>1 DEF MergePodsTo, TypeOK
    <3> QED
      BY <2>2, <3>1 DEF Content, UnitInv
  <2> QED
    BY <1>7, <2>2, <2>3 DEF MergePods, podVars, reportVars, UnitInv, Content
<1>8. CASE Note(s)
  BY <1>1, <1>8, NoteFields, UnitFrame DEF Note, podVars, fileVars, reportVars
<1>9. CASE MarkPanics(s)
  BY <1>1, <1>9, RestartUnitInv DEF MarkPanics
<1> QED
  BY <1>2, <1>3, <1>4, <1>5, <1>6, <1>7, <1>8, <1>9 DEF Dump

LEMMA NextUnitInv ==
  ASSUME LockInv, FileInv, UnitInv, [Next]_vars
  PROVE  UnitInv'
<1>1. TypeOK
  BY DEF LockInv
<1>2. CASE UNCHANGED vars
  BY <1>2, UnitFrame DEF vars, podVars, fileVars, reportVars, dumpVars
<1>3. ASSUME NEW r \in Caller, Begin(r) \/ Lock(r) \/ Returns(r)
      PROVE  UnitInv'
  BY <1>3, UnitFrame DEF Begin, Lock, Returns, DumpReturns, MergeAllReturns, podVars, fileVars, reportVars, dumpVars
<1>4. CASE Project
  <2>1. project' \subseteq executed
    <3>1. CASE MergeProject
      BY <3>1 DEF MergeProject, Content, Named, Listed, UnitInv
    <3>2. CASE MergeProjectFails \/ Deliver
      BY <3>2 DEF MergeProjectFails, Deliver, ReportReturns
    <3> QED
      BY <1>4, <3>1, <3>2 DEF Project
  <2> QED
    BY <1>4, <2>1 DEF Project, MergeProject, MergeProjectFails, Deliver, podVars, fileVars, dumpVars, UnitInv, Content
<1>5. CASE RangeStep
  <2>1. CASE RangeStops \/ MergeReturns \/ \E s \in Service : MergeSkips(s)
    BY <2>1, UnitFrame DEF RangeStops, MergeReturns, MergeSkips, podVars, fileVars, reportVars, dumpVars
  <2>2. CASE RemoveMerged
    <3>1. \A s \in Service : exec'[s] \subseteq exec[s]
      BY <1>1, <2>2 DEF RemoveMerged, TypeOK
    <3> QED
      BY <2>2, <3>1 DEF RemoveMerged, podVars, reportVars, dumpVars, UnitInv, Content
  <2>3. ASSUME NEW s \in Service, MergeSvc(s)
        PROVE  UnitInv'
    <3>1. \A t \in Service : Content(exec'[t]) \subseteq Content(exec[t])
      <4>1. \A t \in Service : \A f \in exec'[t] : f \in exec[t] \/ f.units = {} \/ (t = s /\ f.units = Content(exec[s]))
        BY <1>1, <2>3 DEF MergeSvc, TypeOK
      <4> QED
        BY <4>1 DEF Content
    <3> QED
      BY <2>3, <3>1 DEF MergeSvc, podVars, reportVars, UnitInv, Content
  <2>4. ASSUME NEW s \in Service, RangeDumps(s)
        PROVE  UnitInv'
    <3>1. go'[s].got = {} /\ \A t \in Service \ {s} : go'[t] = go[t]
      BY <1>1, <2>4 DEF RangeDumps, NewDumper, TypeOK
    <3> QED
      BY <2>4, <3>1, UnitFrame DEF RangeDumps, podVars, fileVars, reportVars
  <2> QED
    BY <1>5, <2>1, <2>2, <2>3, <2>4 DEF RangeStep
<1>6. CASE Environment
  <2>1. ASSUME NEW u \in Unit, NEW p \in Pod, Execute(u, p)
        PROVE  UnitInv'
    <3>1. \A q \in Pod : counter'[q] \subseteq counter[q] \cup {u}
      BY <1>1, <2>1 DEF Execute, TypeOK
    <3> QED
      BY <2>1, <3>1 DEF Execute, fileVars, reportVars, dumpVars, UnitInv, Content
  <2>2. ASSUME NEW p \in Pod, PodChanges(p)
        PROVE  UnitInv'
    <3>1. \A q \in Pod : counter'[q] \subseteq counter[q]
      BY <1>1, <2>2 DEF PodChanges, TypeOK
    <3> QED
      BY <2>2, <3>1 DEF PodChanges, fileVars, reportVars, dumpVars, UnitInv, Content
  <2>3. CASE Cancel \/ \E s \in Service : SavePods(s) \/ Delete(s)
    BY <2>3, UnitFrame DEF Cancel, SavePods, Delete, podVars, fileVars, reportVars, dumpVars
  <2>4. CASE Crash
    BY <1>1, <2>4, RestartUnitInv DEF Crash
  <2> QED
    BY <1>6, <2>1, <2>2, <2>3, <2>4 DEF Environment
<1> QED
  BY <1>2, <1>3, <1>4, <1>5, <1>6, DumpUnitInv DEF Next, System

\* The steps that change what mergeAllSvcExec has returned
LEMMA ListChanges ==
  ASSUME TypeOK, [Next]_vars, svcExecMap' # svcExecMap
  PROVE  RemoveMerged \/ svcExecMap' = NoService(None)
<1>1. CASE UNCHANGED vars
  BY <1>1 DEF vars, mergeVars
<1>2. ASSUME NEW r \in Caller, Begin(r) \/ Lock(r) \/ Returns(r)
      PROVE  FALSE
  BY <1>2 DEF Begin, Lock, Returns, DumpReturns, MergeAllReturns, mergeVars
<1>3. CASE Project
  BY <1>3 DEF Project, MergeProject, MergeProjectFails, Deliver, ReportReturns, mergeVars
<1>4. CASE Environment
  BY <1>4, RestartFields DEF Environment, Execute, PodChanges, SavePods, Delete, Cancel, Crash, mergeVars
<1>5. CASE RangeStep
  BY <1>5 DEF RangeStep, RangeStops, MergeReturns, RangeDumps, MergeSkips, MergeSvc, mergeVars
<1>6. ASSUME NEW s \in Service, Dump(s)
      PROVE  svcExecMap' = NoService(None)
  BY <1>6, RestartFields DEF Dump, DeletedReturns, GetFails, Get, DumpPod, DialFails, DumpFails, MergePods, Note,
              Mark, MarkPanics, mergeVars
<1> QED
  BY <1>1, <1>2, <1>3, <1>4, <1>5, <1>6 DEF Next, System

LEMMA NextListedInv ==
  ASSUME LockInv, ListedInv, [Next]_vars
  PROVE  ListedInv'
<1> DEFINE A == at'["mon"] \in {"idle", "dumpWait", "dump", "mergeWait"} => \A s \in Service : svcExecMap'[s] = None
<1> DEFINE B == at'["mon"] = "merge" => \A s \in todo' : svcExecMap'[s] = None
<1> DEFINE C == merging' # None => merging'.svc \notin todo'
<1>1. TypeOK
  BY DEF LockInv
<1>2. ASSUME NEW t \in Service, Running(t, "dump")'
      PROVE  go'[t].file # svcExecMap'[t]
  <2>1. TypeOK'
    BY NextTypeOK
  <2>2. go'[t] \in Dumper
    BY <1>2, <2>1 DEF TypeOK, Running
  <2>3. go'[t].file \in Nat
    BY <2>2 DEF Dumper
  <2>4. go'[t].file # svcExecMap[t]
    BY <1>1, <1>2, DumpingStep, GetFields, FreeNameFree DEF ListedInv
  <2>5. svcExecMap'[t] = svcExecMap[t] \/ svcExecMap'[t] = None
    <3>1. CASE RemoveMerged
      <4>1. go' = NoService(None)
        BY <3>1, MergesAlone DEF RemoveMerged, dumpVars
      <4> QED
        BY <1>2, <4>1 DEF NoService, Running
    <3>2. CASE svcExecMap' # svcExecMap
      BY <1>1, <3>1, <3>2, ListChanges DEF NoService
    <3> QED
      BY <3>2
  <2> QED
    BY <2>3, <2>4, <2>5, CoverageAssumption
<1>3. ASSUME A, B, C
      PROVE  ListedInv'
  BY <1>2, <1>3 DEF ListedInv, Running
<1>4. ASSUME at'["mon"] = at["mon"], UNCHANGED <<svcExecMap, merging>>, todo' \subseteq todo
      PROVE  A /\ B /\ C
  BY <1>4 DEF ListedInv
<1>5. CASE UNCHANGED vars
  BY <1>3, <1>4, <1>5 DEF vars, lockVars, dumpVars, mergeVars
<1>6. ASSUME NEW r \in Caller, Begin(r)
      PROVE  ListedInv'
  <2>1. /\ UNCHANGED <<svcExecMap, merging, todo>>
        /\ \/ at'["mon"] = at["mon"]
           \/ at["mon"] = "idle" /\ at'["mon"] = "dumpWait"
    BY <1>1, <1>6 DEF Begin, Goto, TypeOK, Caller, mergeVars, dumpVars
  <2> QED
    BY <1>3, <2>1 DEF ListedInv
<1>7. ASSUME NEW r \in Caller, Lock(r)
      PROVE  ListedInv'
  <2>1. /\ UNCHANGED <<svcExecMap, merging>>
        /\ \/ at'["mon"] = at["mon"]
           \/ at["mon"] = "dumpWait" /\ at'["mon"] = "dump"
           \/ at["mon"] = "mergeWait" /\ at'["mon"] = "merge"
           \/ at["mon"] = "projectWait" /\ at'["mon"] = "project"
    BY <1>1, <1>7 DEF Lock, Goto, TypeOK, Caller, mergeVars
  <2>2. merging = None
    BY <1>7, CoverageAssumption DEF Lock, Doing, LockInv, MergeHeld
  <2>3. at["mon"] # "merge"
    BY <1>7, CoverageAssumption DEF Lock, LockInv, LockHeld, Caller
  <2>4. todo' \subseteq Service
    BY <1>1, <1>7 DEF Lock, TypeOK
  <2> QED
    BY <1>3, <2>1, <2>2, <2>3, <2>4 DEF ListedInv
<1>8. ASSUME NEW r \in Caller, Returns(r)
      PROVE  ListedInv'
  <2>1. /\ UNCHANGED <<svcExecMap, merging, todo>>
        /\ \/ at'["mon"] = at["mon"]
           \/ at["mon"] = "dump" /\ at'["mon"] = "mergeWait"
           \/ at["mon"] = "merge" /\ at'["mon"] = "projectWait"
    BY <1>1, <1>8 DEF Returns, DumpReturns, MergeAllReturns, Goto, TypeOK, Caller, mergeVars, dumpVars
  <2> QED
    BY <1>3, <2>1 DEF ListedInv
<1>9. CASE Project
  <2>1. CASE MergeProject
    <3>1. UNCHANGED <<svcExecMap, merging, todo>> /\ at'["mon"] = "post"
      BY <1>1, <2>1 DEF MergeProject, Goto, TypeOK, Caller, mergeVars, dumpVars
    <3> QED
      BY <1>3, <3>1 DEF ListedInv
  <2>2. CASE MergeProjectFails \/ Deliver
    <3>1. UNCHANGED <<merging, todo>> /\ svcExecMap' = NoService(None)
      BY <2>2 DEF MergeProjectFails, Deliver, ReportReturns, dumpVars
    <3> QED
      BY <1>1, <1>3, <3>1 DEF ListedInv, NoService, TypeOK
  <2> QED
    BY <1>9, <2>1, <2>2 DEF Project
<1>10. CASE RangeStep
  <2>1. CASE RangeStops \/ \E s \in Service : RangeDumps(s) \/ MergeSkips(s)
    BY <1>3, <1>4, <2>1 DEF RangeStops, RangeDumps, MergeSkips, lockVars, mergeVars
  <2>2. CASE MergeReturns
    BY <1>3, <2>2 DEF MergeReturns, lockVars, dumpVars, ListedInv
  <2>3. ASSUME NEW s \in Service, MergeSvc(s)
        PROVE  ListedInv'
    <3>1. merging'.svc = s /\ todo' = todo \ {s} /\ UNCHANGED <<at, svcExecMap>>
      BY <2>3 DEF MergeSvc, lockVars
    <3> QED
      BY <1>3, <3>1 DEF ListedInv
  <2>4. CASE RemoveMerged
    <3>1. /\ UNCHANGED <<at, todo>> /\ merging' = None /\ merging # None
          /\ \A s \in Service \ {merging.svc} : svcExecMap'[s] = svcExecMap[s]
          /\ DumpLock # "mon" => svcExecMap' = svcExecMap
      BY <1>1, <2>4 DEF RemoveMerged, lockVars, dumpVars, TypeOK
    <3>2. DumpLock = "mon" => at["mon"] = "merge"
      BY <3>1 DEF LockInv, MergeHeld, Doing
    <3> QED
      BY <1>1, <1>3, <3>1, <3>2 DEF ListedInv, TypeOK
  <2> QED
    BY <1>10, <2>1, <2>2, <2>3, <2>4 DEF RangeStep
<1>11. ASSUME NEW s \in Service, Dump(s)
      PROVE  ListedInv'
  <2>1. CASE MarkPanics(s)
    BY <1>1, <1>3, <2>1, RestartFields DEF MarkPanics, NoService, Caller
  <2>2. CASE ~MarkPanics(s)
    BY <1>3, <1>4, <1>11, <2>2 DEF Dump, DeletedReturns, GetFails, Get, DumpPod, DialFails, DumpFails,
                                   MergePods, Note, Mark, lockVars, mergeVars
  <2> QED
    BY <2>1, <2>2
<1>12. CASE Environment
  <2>1. CASE Crash
    BY <1>1, <1>3, <2>1, RestartFields DEF Crash, NoService, Caller
  <2>2. CASE ~Crash
    BY <1>3, <1>4, <1>12, <2>2 DEF Environment, Execute, PodChanges, SavePods, Delete, Cancel,
                                   lockVars, dumpVars, mergeVars
  <2> QED
    BY <2>1, <2>2
<1> QED
  BY <1>5, <1>6, <1>7, <1>8, <1>9, <1>10, <1>11, <1>12 DEF Next, System

-----------------------------------------------------------------------------
(* The due units: dump goroutines *)

DataInv == LockInv /\ FileInv /\ PodInv /\ DirInv /\ UnitInv /\ ListedInv

MergingOf(s) == merging # None /\ merging.svc = s

\* A step that leaves the files, the goroutine and the merge of service t alone
LeavesFiles(t) ==
    /\ due'[t] \subseteq due[t]
    /\ exec'[t] = exec[t] /\ svcExecMap'[t] = svcExecMap[t] /\ project' = project
    /\ t \in todo' <=> t \in todo
    /\ go'[t] = go[t] /\ reg'[t].IsDelete = reg[t].IsDelete
    /\ merging' = merging \/ (~MergingOf(t) /\ ~MergingOf(t)')

\* and that takes nothing due from its pods
LEMMA DueKeeps ==
  ASSUME NEW t \in Service, DueOf(t), LeavesFiles(t), at'["mon"] = at["mon"],
         due'[t] \cap Counted(PodsOf(t)) \subseteq Counted(PodsOf(t))',
         due'[t] \cap NextDump(t) \subseteq NextDump(t)',
         due'[t] \cap InDump(t) \subseteq InDump(t)'
  PROVE  DueOf(t)'
<1>1. Content(Secure(t))' = Content(Secure(t)) /\ Content(exec'[t]) = Content(exec[t]) /\ InHand(t)' = InHand(t)
  BY DEF LeavesFiles, MergingOf, Secure, FailedOld, InHand, Content
<1>2. Merged(t)' => Merged(t)
  BY DEF LeavesFiles, MergingOf, Merged
<1>3. MergingOf(t)' => MergingOf(t) /\ merging' = merging
  BY DEF LeavesFiles, MergingOf
<1>4. Named(t, svcExecMap[t])' = Named(t, svcExecMap[t])
  BY DEF LeavesFiles, Named
<1>5. /\ reg'[t].IsDelete => due'[t] = {}
      /\ due'[t] \subseteq Counted(PodsOf(t))' \cup Content(Secure(t))' \cup InHand(t)'
      /\ at'["mon"] = "mergeWait" => due'[t] \subseteq Content(Secure(t))'
      /\ at'["mon"] = "merge" /\ t \in todo' => due'[t] \subseteq Content(exec'[t])
      /\ at'["mon"] = "post" => due'[t] \subseteq project'
  BY <1>1 DEF DueOf, LeavesFiles
<1>6. /\ at'["mon"] = "dumpWait" => due'[t] \subseteq Content(Secure(t))' \cup InHand(t)' \cup NextDump(t)'
      /\ at'["mon"] = "dump" => due'[t] \subseteq Content(exec'[t]) \cup InDump(t)'
  BY <1>1 DEF DueOf, LeavesFiles
<1>7. at'["mon"] = "merge" /\ MergingOf(t)' => \A f \in Named(t, merging.new)' : due'[t] \subseteq f.units
  BY <1>3 DEF DueOf, LeavesFiles, MergingOf, Named
<1>8. Merged(t)' => /\ svcExecMap'[t] = None => due'[t] = {}
                    /\ \A f \in Named(t, svcExecMap[t])' : due'[t] \subseteq f.units
  BY <1>2, <1>4 DEF DueOf, LeavesFiles
<1> QED
  BY <1>5, <1>6, <1>7, <1>8 DEF DueOf, MergingOf, Content

\* A service that a step does not touch
Untouched(t) ==
    /\ LeavesFiles(t) /\ SameReg(t)
    /\ \A p \in PodsOf(t) : counter[p] \subseteq counter'[p]

LEMMA DueFrame ==
  ASSUME PodInv, NEW t \in Service, DueOf(t), Untouched(t), at'["mon"] = at["mon"]
  PROVE  DueOf(t)'
<1>1. Counted(PodsOf(t)) \subseteq Counted(PodsOf(t))'
  BY DEF Untouched, Counted, PodsOf
<1>2. NextDump(t) \subseteq NextDump(t)'
  BY DEF PodInv, Untouched, LeavesFiles, SameReg, NextDump, Counted
<1>3. InDump(t) \subseteq InDump(t)'
  <2>1. CASE Running(t, "dump")
    BY <2>1 DEF PodInv, Untouched, LeavesFiles, InDump, Running, Counted
  <2>2. CASE ~Running(t, "dump")
    BY <2>2 DEF PodInv, Untouched, LeavesFiles, SameReg, InDump, Running, Counted
  <2> QED
    BY <2>1, <2>2
<1> QED
  BY <1>1, <1>2, <1>3, DueKeeps DEF Untouched

LEMMA NothingDue ==
  ASSUME NEW t \in Service, due'[t] = {}
  PROVE  DueOf(t)'
BY DEF DueOf

\* What has to be shown of the service whose goroutine makes a step
LEMMA DumpDue ==
  ASSUME DataInv, NEW s \in Service, DueOf(s), go[s] # None,
         UNCHANGED <<at, merging, svcExecMap, project>>,
         reg'[s].IsDelete = reg[s].IsDelete,
         due'[s] \subseteq due[s],
         Content(exec[s]) \subseteq Content(exec'[s]),
         \A f \in exec'[s] : f \in exec[s] \/ f.name # svcExecMap[s],
         due'[s] \subseteq Counted(PodsOf(s))' \cup Content(exec'[s]) \cup InHand(s)',
         at["mon"] = "dumpWait" => due'[s] \subseteq Content(exec'[s]) \cup InHand(s)' \cup NextDump(s)',
         at["mon"] = "dump" => due'[s] \subseteq Content(exec'[s]) \cup InDump(s)'
  PROVE  DueOf(s)'
<1>1. merging = None /\ at["mon"] \notin {"merge", "project"}
  <2>1. merging = None /\ Doing("dump")
    BY DumpsAlone DEF DataInv
  <2> QED
    BY <2>1 DEF DataInv, LockInv, LockHeld, Doing, Caller
<1>2. Content(Secure(s))' = Content(exec'[s]) /\ Content(Secure(s)) = Content(exec[s])
  BY <1>1 DEF Secure, FailedOld, Content
<1>3. Merged(s)' => Merged(s)
  BY <1>1 DEF Merged
<1>4. \A f \in Named(s, svcExecMap[s])' : f \in Named(s, svcExecMap[s])
  BY DEF Named
<1> QED
  BY <1>1, <1>2, <1>3, <1>4 DEF DueOf

LEMMA CostsDue ==
  ASSUME TypeOK, NEW s \in Service, NEW U, Costs(s, U)
  PROVE  due'[s] = due[s] \ U /\ \A t \in Service \ {s} : due'[t] = due[t]
BY DEF TypeOK, Costs

\* A step of a goroutine changes nothing of the other services.
LEMMA DumpOthers ==
  ASSUME DataInv, NEW s \in Service, Dump(s), ~MarkPanics(s), NEW t \in Service \ {s}
  PROVE  Untouched(t) /\ due'[t] = due[t] /\ \A p \in PodsOf(t) : counter'[p] = counter[p]
<1> USE DEF podVars, fileVars, mergeVars, reportVars, dumpVars
<1>1. TypeOK
  BY DEF DataInv, LockInv
<1>2. /\ UNCHANGED <<svcExecMap, project, todo, merging>>
      /\ exec'[t] = exec[t]
  BY <1>1 DEF Dump, DeletedReturns, GetFails, Get, DumpPod, DialFails, DumpFails, MergePods, Note, Mark, TypeOK
<1>3. go'[t] = go[t]
  <2>1. CASE DeletedReturns(s) \/ GetFails(s) \/ Mark(s) \/ \E p \in Pod : DumpFails(s, p)
    BY <1>1, <2>1, DoneFields DEF DeletedReturns, GetFails, Mark, DumpFails
  <2>2. CASE MergePods(s)
    BY <1>1, <2>2, MergePodsGoes, MergePodsFields
  <2> QED
    BY <1>1, <2>1, <2>2, GetFields, DumpPodFields, DialFailsFields, NoteFields DEF Dump
<1>4. SameReg(t)
  <2>1. CASE Note(s)
    BY <1>1, <2>1, NoteReg
  <2>2. CASE Mark(s)
    BY <1>1, <2>2, MarkReg
  <2> QED
    BY <2>1, <2>2 DEF Dump, DeletedReturns, GetFails, Get, DumpPod, DialFails, DumpFails, MergePods, SameReg
<1>5. due'[t] = due[t]
  <2>1. CASE MergePods(s)
    <3>1. PICK failed \in BOOLEAN : MergePodsTo(s, failed)
      BY <1>1, <2>1, MergePodsGoes
    <3> QED
      BY <1>1, <3>1, CostsDue DEF MergePodsTo
  <2> QED
    BY <1>1, <2>1, CostsDue DEF Dump, DeletedReturns, GetFails, Get, DumpPod, DialFails, DumpFails, Note, Mark
<1>6. \A p \in PodsOf(t) : counter'[p] = counter[p]
  <2>1. ASSUME NEW p \in Pod, p \in go[s].left, go[s] # None
        PROVE  p \notin PodsOf(t)
    BY <2>1 DEF DataInv, PodInv, PodsOf
  <2>2. ASSUME NEW p \in Pod, DumpPod(s, p) \/ DumpFails(s, p)
        PROVE  \A q \in PodsOf(t) : counter'[q] = counter[q]
    BY <1>1, <2>1, <2>2 DEF DumpPod, DumpFails, Running, TypeOK, PodsOf
  <2> QED
    BY <2>2 DEF Dump, DeletedReturns, GetFails, Get, DialFails, MergePods, Note, Mark
<1> QED
  BY <1>2, <1>3, <1>4, <1>5, <1>6 DEF Untouched, LeavesFiles, SameReg

LEMMA DumpDueShrinks ==
  ASSUME TypeOK, NEW s \in Service, Dump(s), ~MarkPanics(s)
  PROVE  due'[s] \subseteq due[s]
<1>1. CASE MergePods(s)
  BY <1>1, MergePodsGoes, CostsDue DEF MergePodsTo
<1> QED
  BY <1>1, CostsDue DEF Dump, DeletedReturns, GetFails, Get, DumpPod, DialFails, DumpFails, Note, Mark

LEMMA DumpDueOf ==
  ASSUME DataInv, NEW s \in Service, DueOf(s), Dump(s), ~MarkPanics(s)
  PROVE  DueOf(s)'
<1>1. TypeOK /\ PodInv
  BY DEF DataInv, LockInv
<1>2. CASE DeletedReturns(s)
  BY <1>2, NothingDue DEF DeletedReturns, DueOf
<1>3. CASE GetFails(s)
  <2>1. /\ go[s] # None /\ go[s].got = {} /\ go'[s] = None
        /\ due'[s] = due[s] \ Counted(PodsOf(s))
        /\ UNCHANGED <<at, merging, svcExecMap, project, exec, reg>>
    BY <1>1, <1>3, DoneFields, CostsDue DEF GetFails, Running, PodInv, lockVars, mergeVars, reportVars
  <2>2. due'[s] \subseteq Content(exec'[s])
    <3>1. merging = None
      BY <2>1, DumpsAlone DEF DataInv
    <3> QED
      BY <2>1, <3>1 DEF DueOf, InHand, Secure, FailedOld, Content
  <2> QED
    BY <2>1, <2>2, DumpDue
<1>4. CASE Get(s)
  <2>1. /\ UNCHANGED <<at, merging, svcExecMap, project, reg, counter, due>>
        /\ exec'[s] = exec[s] \cup {[name |-> FreeName(s), units |-> {}]}
        /\ FreeName(s) # svcExecMap[s]
        /\ Running(s, "get")
    BY <1>1, <1>4, FreeNameFree DEF Get, TypeOK, lockVars, mergeVars, reportVars, podVars
  <2>2. Content(exec'[s]) = Content(exec[s])
    BY <2>1 DEF Content
  <2>3. /\ go[s] # None /\ merging = None
        /\ Content(Secure(s)) = Content(exec[s])
    BY <2>1, DumpsAlone DEF Running, DataInv, Secure, FailedOld, Content
  <2>4. InHand(s)' = InHand(s) /\ NextDump(s)' = NextDump(s) /\ Counted(PodsOf(s))' = Counted(PodsOf(s))
    BY <1>1, <1>4, <2>1, GetFields DEF InHand, NextDump, Counted, PodsOf
  <2>5. InDump(s) \subseteq InDump(s)'
    BY <1>1, <1>4, <2>1, GetFields DEF InDump, Running, Counted
  <2>6. \A f \in exec'[s] : f \in exec[s] \/ f.name # svcExecMap[s]
    BY <2>1
  <2>7. /\ due'[s] \subseteq Counted(PodsOf(s))' \cup Content(exec'[s]) \cup InHand(s)'
        /\ at["mon"] = "dumpWait" => due'[s] \subseteq Content(exec'[s]) \cup InHand(s)' \cup NextDump(s)'
        /\ at["mon"] = "dump" => due'[s] \subseteq Content(exec'[s]) \cup InDump(s)'
    BY <2>1, <2>2, <2>3, <2>4, <2>5 DEF DueOf
  <2> QED
    BY <2>1, <2>2, <2>3, <2>6, <2>7, DumpDue
<1>5. ASSUME NEW p \in Pod, DumpPod(s, p)
      PROVE  DueOf(s)'
  <2>1. /\ UNCHANGED <<at, merging, svcExecMap, project, reg, exec, due>>
        /\ counter' = [counter EXCEPT ![p] = {}]
        /\ p \in go[s].left
    BY <1>5 DEF DumpPod, lockVars, mergeVars, reportVars, fileVars
  <2>2. /\ go[s] # None /\ merging = None
        /\ Content(Secure(s)) = Content(exec[s]) /\ Content(exec'[s]) = Content(exec[s])
    BY <1>1, <1>5, <2>1, DumpPodFields, DumpsAlone DEF DataInv, Secure, FailedOld, Content
  <2>3. ASSUME NEW P \in SUBSET Pod
        PROVE  Counted(P) \subseteq (UNION {counter'[q] : q \in P}) \cup InHand(s)'
    <3>1. InHand(s)' = go[s].got \cup counter[p]
      BY <1>1, <1>5, DumpPodFields DEF InHand
    <3>2. \A q \in P : q # p => counter'[q] = counter[q]
      BY <1>1, <2>1 DEF TypeOK
    <3> QED
      BY <3>1, <3>2 DEF Counted
  <2>4. InHand(s) \subseteq InHand(s)'
    BY <1>1, <1>5, DumpPodFields DEF InHand
  <2>5. NextDump(s) \subseteq NextDump(s)' \cup InHand(s)'
    <3> DEFINE P == reg[s].pods \ (reg[s].HasError \cup go[s].podErrorMap)
    <3>1. P \in SUBSET Pod
      BY <1>1 DEF TypeOK, Registered
    <3>2. NextDump(s) = Counted(P) /\ NextDump(s)' = UNION {counter'[q] : q \in P}
      BY <1>1, <1>5, <2>1, DumpPodFields DEF NextDump, Counted
    <3> HIDE DEF P
    <3> QED
      BY <2>3, <3>1, <3>2
  <2>6. InDump(s) \subseteq InDump(s)'
    <3>1. /\ InDump(s) = go[s].got \cup Counted(go[s].left)
          /\ InDump(s)' = go[s].got \cup counter[p] \cup Counted(go[s].left \ {p})'
      BY <1>1, <1>5, DumpPodFields DEF InDump, Running, Counted
    <3>2. \A q \in go[s].left \ {p} : counter'[q] = counter[q]
      BY <1>1, <1>5, <2>1, DumpPodFields DEF PodInv, PodsOf, TypeOK
    <3> QED
      BY <1>1, <1>5, <3>1, <3>2, DumpPodFields DEF Counted
  <2>7. Counted(PodsOf(s)) \subseteq Counted(PodsOf(s))' \cup InHand(s)'
    BY <2>3 DEF PodsOf, Counted
  <2>8. /\ due'[s] \subseteq Counted(PodsOf(s))' \cup Content(exec'[s]) \cup InHand(s)'
        /\ at["mon"] = "dumpWait" => due'[s] \subseteq Content(exec'[s]) \cup InHand(s)' \cup NextDump(s)'
        /\ at["mon"] = "dump" => due'[s] \subseteq Content(exec'[s]) \cup InDump(s)'
    BY <2>1, <2>2, <2>4, <2>5, <2>6, <2>7 DEF DueOf
  <2> QED
    BY <2>1, <2>2, <2>8, DumpDue
<1>6. ASSUME NEW p \in Pod, DialFails(s, p)
      PROVE  DueOf(s)'
  <2>1. /\ UNCHANGED <<at, merging, svcExecMap, project, reg, exec, counter>>
        /\ due'[s] = due[s] \ counter[p]
    BY <1>1, <1>6, CostsDue DEF DialFails, lockVars, mergeVars, reportVars, fileVars, podVars
  <2>2. /\ go[s] # None /\ merging = None
        /\ Content(Secure(s)) = Content(exec[s]) /\ Content(exec'[s]) = Content(exec[s])
    BY <1>1, <1>6, <2>1, DialFailsFields, DumpsAlone DEF DataInv, Secure, FailedOld, Content
  <2>3. InHand(s)' = InHand(s) /\ Counted(PodsOf(s))' = Counted(PodsOf(s))
    BY <1>1, <1>6, <2>1, DialFailsFields DEF InHand, Counted, PodsOf
  <2>4. NextDump(s) \subseteq NextDump(s)' \cup counter[p]
    BY <1>1, <1>6, <2>1, DialFailsFields DEF NextDump, Counted
  <2>5. InDump(s) \subseteq InDump(s)' \cup counter[p]
    BY <1>1, <1>6, <2>1, DialFailsFields DEF InDump, Running, Counted
  <2>6. /\ due'[s] \subseteq Counted(PodsOf(s))' \cup Content(exec'[s]) \cup InHand(s)'
        /\ at["mon"] = "dumpWait" => due'[s] \subseteq Content(exec'[s]) \cup InHand(s)' \cup NextDump(s)'
        /\ at["mon"] = "dump" => due'[s] \subseteq Content(exec'[s]) \cup InDump(s)'
    BY <2>1, <2>2, <2>3, <2>4, <2>5 DEF DueOf
  <2> QED
    BY <2>1, <2>2, <2>6, DumpDue
<1>7. ASSUME NEW p \in Pod, DumpFails(s, p)
      PROVE  DueOf(s)'
  <2>1. /\ UNCHANGED <<at, merging, svcExecMap, project, reg, exec>>
        /\ due'[s] = due[s] \ (go[s].got \cup Counted(go[s].left))
        /\ Running(s, "dump") /\ p \in go[s].left
    BY <1>1, <1>7, CostsDue DEF DumpFails, lockVars, mergeVars, reportVars, fileVars
  <2>2. /\ go[s] # None /\ go'[s] = None /\ merging = None
        /\ Content(Secure(s)) = Content(exec[s]) /\ Content(exec'[s]) = Content(exec[s])
    BY <1>1, <1>7, <2>1, DoneFields, DumpsAlone DEF DumpFails, Running, DataInv, Secure, FailedOld, Content
  <2>3. InHand(s) = go[s].got /\ InDump(s) = go[s].got \cup Counted(go[s].left)
    BY <2>1, <2>2 DEF InHand, InDump
  <2>4. \A q \in Pod : counter'[q] = counter[q] \/ (q = p /\ counter[q] \subseteq Counted(go[s].left))
    BY <1>1, <1>7, <2>1 DEF DumpFails, TypeOK, Counted
  <2>5. Counted(PodsOf(s)) \subseteq Counted(PodsOf(s))' \cup Counted(go[s].left)
    BY <2>4 DEF Counted, PodsOf
  <2>6. NextDump(s) \subseteq NextDump(s)' \cup Counted(go[s].left)
    <3>1. reg[s].pods \subseteq Pod
      BY <1>1 DEF TypeOK, Registered
    <3>2. /\ NextDump(s) = UNION {counter[q] : q \in reg[s].pods \ (reg[s].HasError \cup go[s].podErrorMap)}
          /\ NextDump(s)' = UNION {counter'[q] : q \in reg[s].pods \ reg[s].HasError}
      BY <2>1, <2>2 DEF NextDump, Counted
    <3> QED
      BY <2>4, <3>1, <3>2
  <2>7. /\ due'[s] \subseteq Counted(PodsOf(s))' \cup Content(exec'[s]) \cup InHand(s)'
        /\ at["mon"] = "dumpWait" => due'[s] \subseteq Content(exec'[s]) \cup InHand(s)' \cup NextDump(s)'
        /\ at["mon"] = "dump" => due'[s] \subseteq Content(exec'[s]) \cup InDump(s)'
    BY <2>1, <2>2, <2>3, <2>5, <2>6 DEF DueOf
  <2> QED
    BY <2>1, <2>2, <2>7, DumpDue
<1>8. CASE MergePods(s)
  <2>1. PICK failed \in BOOLEAN : MergePodsTo(s, failed)
    BY <1>1, <1>8, MergePodsGoes
  <2>2. /\ UNCHANGED <<at, merging, svcExecMap, project, reg, counter>>
        /\ Running(s, "dump") /\ go[s].left = {}
    BY <1>8 DEF MergePods, lockVars, mergeVars, reportVars, podVars
  <2>3. /\ go[s] # None /\ merging = None
        /\ Content(Secure(s)) = Content(exec[s])
        /\ go[s].file # svcExecMap[s]
    BY <2>2, DumpsAlone DEF Running, DataInv, ListedInv, Secure, FailedOld, Content
  <2>4. /\ due'[s] \subseteq due[s]
        /\ due'[s] \cap go[s].got \subseteq Content(exec'[s])
        /\ Content(exec[s]) \subseteq Content(exec'[s])
        /\ \A f \in exec'[s] : f \in exec[s] \/ f.name # svcExecMap[s]
    <3>1. CASE failed
      BY <1>1, <2>1, <3>1, CostsDue DEF MergePodsTo, Content
    <3>2. CASE ~failed
      <4>1. /\ exec'[s] = (exec[s] \ Named(s, go[s].file)) \cup {[name |-> go[s].file, units |-> go[s].got]}
            /\ due' = due
        BY <1>1, <2>1, <3>2 DEF MergePodsTo, TypeOK
      <4>2. \A f \in Named(s, go[s].file) : f.units = {}
        BY <2>2 DEF DataInv, FileInv, DumpFileEmpty
      <4>3. go[s].got \subseteq Content(exec'[s])
        <5> DEFINE n == [name |-> go[s].file, units |-> go[s].got]
        <5>1. n \in exec'[s] /\ n.units = go[s].got
          BY <4>1
        <5> HIDE DEF n
        <5> QED
          BY <5>1 DEF Content
      <4>4. \A f \in exec[s] : f \in exec'[s] \/ f.units = {}
        BY <4>1, <4>2
      <4>5. Content(exec[s]) \subseteq Content(exec'[s])
        BY <4>4 DEF Content
      <4>6. \A f \in exec'[s] : f \in exec[s] \/ f.name # svcExecMap[s]
        BY <2>3, <4>1
      <4> QED
        BY <4>1, <4>3, <4>5, <4>6
    <3> QED
      BY <3>1, <3>2
  <2>5. /\ InHand(s) = go[s].got /\ InDump(s) = go[s].got
        /\ Counted(PodsOf(s))' = Counted(PodsOf(s)) /\ NextDump(s)' = NextDump(s)
    BY <1>1, <2>1, <2>2, MergePodsFields DEF InHand, InDump, Running, NextDump, Counted, PodsOf
  <2>6. /\ due'[s] \subseteq Counted(PodsOf(s))' \cup Content(exec'[s]) \cup InHand(s)'
        /\ at["mon"] = "dumpWait" => due'[s] \subseteq Content(exec'[s]) \cup InHand(s)' \cup NextDump(s)'
        /\ at["mon"] = "dump" => due'[s] \subseteq Content(exec'[s]) \cup InDump(s)'
    BY <2>3, <2>4, <2>5 DEF DueOf
  <2> QED
    BY <2>2, <2>3, <2>4, <2>6, DumpDue
<1>9. CASE Note(s)
  <2>1. UNCHANGED <<at, merging, svcExecMap, project, exec, counter, due>>
    BY <1>9 DEF Note, lockVars, mergeVars, reportVars, fileVars, podVars
  <2>2. /\ go[s] # None /\ merging = None
        /\ Content(Secure(s)) = Content(exec[s]) /\ Content(exec'[s]) = Content(exec[s])
    BY <1>1, <1>9, <2>1, NoteFields, DumpsAlone DEF DataInv, Secure, FailedOld, Content
  <2>3. /\ InHand(s)' = InHand(s) /\ InDump(s) = {}
        /\ Counted(PodsOf(s))' = Counted(PodsOf(s)) /\ NextDump(s)' = NextDump(s)
        /\ reg'[s].IsDelete = reg[s].IsDelete
    BY <1>1, <1>9, <2>1, NoteFields, NoteReg DEF InHand, InDump, Running, NextDump, Counted, PodsOf, SameReg
  <2>4. /\ due'[s] \subseteq Counted(PodsOf(s))' \cup Content(exec'[s]) \cup InHand(s)'
        /\ at["mon"] = "dumpWait" => due'[s] \subseteq Content(exec'[s]) \cup InHand(s)' \cup NextDump(s)'
        /\ at["mon"] = "dump" => due'[s] \subseteq Content(exec'[s]) \cup InDump(s)'
    BY <2>1, <2>2, <2>3 DEF DueOf
  <2> QED
    BY <2>1, <2>2, <2>3, <2>4, DumpDue
<1>10. CASE Mark(s)
  <2>1. UNCHANGED <<at, merging, svcExecMap, project, exec, counter, due>> /\ Running(s, "mark")
    BY <1>10 DEF Mark, lockVars, mergeVars, reportVars, fileVars, podVars
  <2>2. /\ go[s] # None /\ go'[s] = None /\ merging = None
        /\ Content(Secure(s)) = Content(exec[s]) /\ Content(exec'[s]) = Content(exec[s])
    BY <1>1, <1>10, <2>1, DoneFields, DumpsAlone DEF Mark, Running, DataInv, Secure, FailedOld, Content
  <2>3. /\ InHand(s) = {} /\ InDump(s) = {}
        /\ Counted(PodsOf(s))' = Counted(PodsOf(s)) /\ NextDump(s) \subseteq NextDump(s)'
        /\ reg'[s].IsDelete = reg[s].IsDelete
    BY <1>1, <1>10, <2>1, <2>2, MarkReg DEF PodInv, InHand, InDump, Running, NextDump, Counted, PodsOf
  <2>4. /\ due'[s] \subseteq Counted(PodsOf(s))' \cup Content(exec'[s]) \cup InHand(s)'
        /\ at["mon"] = "dumpWait" => due'[s] \subseteq Content(exec'[s]) \cup InHand(s)' \cup NextDump(s)'
        /\ at["mon"] = "dump" => due'[s] \subseteq Content(exec'[s]) \cup InDump(s)'
    BY <2>1, <2>2, <2>3 DEF DueOf
  <2> QED
    BY <2>1, <2>2, <2>3, <2>4, DumpDue
<1> QED
  BY <1>2, <1>3, <1>4, <1>5, <1>6, <1>7, <1>8, <1>9, <1>10 DEF Dump

-----------------------------------------------------------------------------
(* The due units: mergeAllSvcExec *)

\* Who merges is at "merge", be it main while the monitor waits.
LEMMA MergeStage ==
  ASSUME LockInv, Doing("merge") \/ merging # None
  PROVE  /\ Doing("merge") /\ (\A s \in Service : go[s] = None)
         /\ at["mon"] \notin {"dump", "project"}
         /\ DumpLock = "mon" <=> at["mon"] = "merge"
<1>1. Doing("merge") /\ go = NoService(None)
  BY MergesAlone
<1> QED
  BY <1>1 DEF NoService, Doing, LockInv, LockHeld, Caller

LEMMA RangeDumpsDue ==
  ASSUME DataInv, DueInv, NEW s \in Service, RangeDumps(s)
  PROVE  \A t \in Service : DueOf(t)'
<1>1. TypeOK
  BY DEF DataInv, LockInv
<1>2. /\ UNCHANGED <<at, merging, svcExecMap, project, reg, exec, counter, due>>
      /\ s \in todo /\ todo' = todo \ {s} /\ Doing("dump")
      /\ go'[s] = NewDumper /\ \A t \in Service \ {s} : go'[t] = go[t]
  BY <1>1 DEF RangeDumps, lockVars, mergeVars, reportVars, fileVars, podVars, TypeOK
<1>3. go[s] = None
  BY <1>2 DEF DataInv, LockInv, RangeFresh, Busy
<1>4. at["mon"] \notin {"merge", "project"}
  BY <1>2 DEF DataInv, LockInv, LockHeld, Doing, Caller
<1>5. NewDumper # None /\ NewDumper.at = "get" /\ NewDumper.got = {} /\ NewDumper.podErrorMap = {}
  <2>1. NewDumper \in Dumper
    BY DEF NewDumper, Dumper
  <2> QED
    BY <2>1, CoverageAssumption DEF NewDumper
<1>6. ASSUME NEW t \in Service \ {s}
      PROVE  DueOf(t)'
  BY <1>2, <1>6, DueFrame DEF Untouched, LeavesFiles, SameReg, DataInv, DueInv
<1>7. DueOf(s)'
  <2>1. /\ InHand(s)' = {} /\ InHand(s) = {}
        /\ NextDump(s)' = NextDump(s) /\ InDump(s)' = InDump(s)
        /\ Counted(PodsOf(s))' = Counted(PodsOf(s))
        /\ Content(Secure(s))' = Content(Secure(s)) /\ Content(exec'[s]) = Content(exec[s])
        /\ Merged(s)' => Merged(s)
        /\ Named(s, svcExecMap[s])' = Named(s, svcExecMap[s])
    BY <1>2, <1>3, <1>4, <1>5 DEF InHand, NextDump, InDump, Running, Counted, PodsOf, Secure, FailedOld, Content, Merged, Named
  <2>2. DueOf(s)
    BY DEF DueInv
  <2> QED
    BY <1>2, <1>4, <2>1, <2>2 DEF DueOf
<1> QED
  BY <1>6, <1>7

LEMMA MergeSkipsDue ==
  ASSUME DataInv, DueInv, NEW s \in Service, MergeSkips(s)
  PROVE  \A t \in Service : DueOf(t)'
<1>1. TypeOK
  BY DEF DataInv, LockInv
<1>2. /\ UNCHANGED <<at, merging, svcExecMap, project, reg, exec, counter, go>>
      /\ s \in todo /\ todo' = todo \ {s} /\ Doing("merge") /\ merging = None
  BY DEF MergeSkips, lockVars, mergeVars, reportVars, fileVars, podVars
<1>3. /\ \A t \in Service \ {s} : due'[t] = due[t]
      /\ due'[s] = due[s] \/ due'[s] = due[s] \ Content(exec[s])
  BY <1>1, CostsDue DEF MergeSkips
<1>4. at["mon"] = "merge" => due'[s] = {}
  <2>1. DueOf(s)
    BY DEF DueInv
  <2>2. at["mon"] = "merge" => due[s] \subseteq Content(exec[s])
    BY <1>2, <2>1 DEF DueOf
  <2>3. CASE reg[s].IsDelete
    BY <1>3, <2>1, <2>3 DEF DueOf
  <2>4. CASE s \notin dirs
    BY <1>3, <2>2, <2>4 DEF DataInv, DirInv, Content
  <2>5. CASE ~reg[s].IsDelete /\ s \in dirs
    BY <1>1, <2>2, <2>5, CostsDue DEF MergeSkips
  <2> QED
    BY <2>3, <2>4, <2>5
<1>5. ASSUME NEW t \in Service \ {s}
      PROVE  DueOf(t)'
  BY <1>2, <1>3, <1>5, DueFrame DEF Untouched, LeavesFiles, SameReg, DataInv, DueInv
<1>6. DueOf(s)'
  <2>1. CASE at["mon"] = "merge"
    BY <1>4, <2>1, NothingDue
  <2>2. CASE at["mon"] # "merge"
    <3>1. go[s] = None /\ at["mon"] \notin {"dump", "project"}
      BY <1>2, MergeStage DEF DataInv
    <3>2. /\ InHand(s)' = InHand(s)
          /\ NextDump(s)' = NextDump(s)
          /\ Counted(PodsOf(s))' = Counted(PodsOf(s))
          /\ Content(Secure(s))' = Content(Secure(s))
          /\ Merged(s)' => Merged(s)
          /\ Named(s, svcExecMap[s])' = Named(s, svcExecMap[s])
      BY <1>2, <2>2, <3>1 DEF InHand, NextDump, Counted, PodsOf, Secure, FailedOld, Content, Merged, Named
    <3>3. DueOf(s)
      BY DEF DueInv
    <3> QED
      BY <1>2, <1>3, <2>2, <3>1, <3>2, <3>3 DEF DueOf
  <2> QED
    BY <2>1, <2>2
<1> QED
  BY <1>5, <1>6

LEMMA MergeSvcDue ==
  ASSUME DataInv, DueInv, NEW s \in Service, MergeSvc(s)
  PROVE  \A t \in Service : DueOf(t)'
<1>1. TypeOK /\ DueOf(s)
  BY DEF DataInv, LockInv, DueInv
<1>2. /\ UNCHANGED <<at, svcExecMap, project, reg, counter, go>>
      /\ s \in todo /\ todo' = todo \ {s} /\ Doing("merge") /\ merging = None
  BY DEF MergeSvc, lockVars, reportVars, podVars
<1>3. PICK failed \in BOOLEAN :
        /\ IF failed THEN Fails /\ Costs(s, Content(exec[s])) ELSE UNCHANGED <<due, boundVars>>
        /\ merging' = [svc |-> s, old |-> exec[s], new |-> FreeName(s), failed |-> failed]
        /\ exec' = [exec EXCEPT ![s] = @ \cup
               {[name |-> FreeName(s), units |-> IF failed THEN {} ELSE Content(exec[s])]}]
  BY DEF MergeSvc
<1>4. /\ merging'.svc = s /\ merging'.old = exec[s] /\ merging'.new = FreeName(s) /\ merging'.failed = failed
      /\ \A t \in Service \ {s} : exec'[t] = exec[t]
      /\ exec'[s] = exec[s] \cup {[name |-> FreeName(s), units |-> IF failed THEN {} ELSE Content(exec[s])]}
  BY <1>1, <1>3 DEF TypeOK
<1>5. /\ \A t \in Service \ {s} : due'[t] = due[t]
      /\ due'[s] = IF failed THEN due[s] \ Content(exec[s]) ELSE due[s]
  BY <1>1, <1>3, CostsDue
<1>6. FreeName(s) # svcExecMap[s] /\ \A f \in exec[s] : f.name # FreeName(s)
  BY <1>1, FreeNameFree DEF Named
<1>7. /\ go[s] = None /\ at["mon"] \notin {"dump", "project"}
      /\ at["mon"] = "merge" => due[s] \subseteq Content(exec[s])
  BY <1>1, <1>2, MergeStage DEF DataInv, DueOf
<1>8. ASSUME NEW t \in Service \ {s}
      PROVE  DueOf(t)'
  <2>1. ~MergingOf(t) /\ ~MergingOf(t)'
    BY <1>2, <1>4 DEF MergingOf
  <2> QED
    BY <1>2, <1>4, <1>5, <2>1, DueFrame DEF Untouched, LeavesFiles, SameReg, DataInv, DueInv
<1>9. ASSUME NEW f \in exec'[s]
      PROVE  /\ f.name = FreeName(s) => f.units = IF failed THEN {} ELSE Content(exec[s])
             /\ f.name = svcExecMap[s] => f \in exec[s]
  BY <1>4, <1>6
<1>10. Content(Secure(s)) = Content(exec[s]) /\ due'[s] \cap Content(exec[s]) \subseteq Content(Secure(s))'
  <2>1. Content(Secure(s)) = Content(exec[s])
    BY <1>2 DEF Secure, FailedOld, Content
  <2>2. CASE failed
    BY <1>5, <2>1, <2>2
  <2>3. CASE ~failed
    <3>1. Secure(s)' = exec'[s]
      BY <1>4, <2>3 DEF Secure, FailedOld
    <3> QED
      BY <1>4, <2>1, <3>1 DEF Content
  <2> QED
    BY <2>1, <2>2, <2>3
<1>11. InHand(s)' = InHand(s) /\ NextDump(s)' = NextDump(s) /\ Counted(PodsOf(s))' = Counted(PodsOf(s))
  BY <1>2 DEF InHand, NextDump, Counted, PodsOf
<1>12. Merged(s)' => Merged(s)
  <2>1. merging' \in Merging
    BY <1>1, <1>3, FreeNameFree DEF Merging, TypeOK
  <2> QED
    BY <1>2, <1>4, <2>1, CoverageAssumption DEF Merged
<1>13. DueOf(s)'
  <2>1. due'[s] \subseteq due[s] /\ (at["mon"] = "merge" /\ failed => due'[s] = {})
    BY <1>5, <1>7
  <2>2. at["mon"] = "merge" => \A f \in Named(s, merging.new)' : due'[s] \subseteq f.units
    BY <1>4, <1>7, <1>9, <2>1 DEF Named
  <2>3. Merged(s)' => /\ svcExecMap'[s] = None => due'[s] = {}
                      /\ \A f \in Named(s, svcExecMap[s])' : due'[s] \subseteq f.units
    BY <1>1, <1>2, <1>9, <1>12, <2>1 DEF DueOf, Named
  <2>4. /\ due'[s] \subseteq Counted(PodsOf(s))' \cup Content(Secure(s))' \cup InHand(s)'
        /\ at["mon"] = "dumpWait" => due'[s] \subseteq Content(Secure(s))' \cup InHand(s)' \cup NextDump(s)'
        /\ at["mon"] = "mergeWait" => due'[s] \subseteq Content(Secure(s))'
    BY <1>1, <1>10, <1>11, <2>1 DEF DueOf
  <2> QED
    BY <1>1, <1>2, <1>7, <2>1, <2>2, <2>3, <2>4 DEF DueOf
<1> QED
  BY <1>8, <1>13

LEMMA MergeEndsDue ==
  ASSUME DataInv, DueInv, MergeReturns \/ RemoveMerged
  PROVE  \A t \in Service : DueOf(t)'
<1>1. TypeOK /\ merging.svc \in Service /\ merging # None /\ MergedFileReady
  BY DEF DataInv, LockInv, FileInv, TypeOK, Merging, MergeReturns, RemoveMerged
<1> PICK s \in Service : s = merging.svc
  BY <1>1
<1>2. DueOf(s)
  BY <1>1 DEF DueInv
<1>3. /\ UNCHANGED <<at, project, counter, go, due, todo>> /\ merging' = None
      /\ \A t \in Service : SameReg(t)
      /\ \A t \in Service \ {s} : exec'[t] = exec[t] /\ svcExecMap'[t] = svcExecMap[t]
  <2>1. CASE MergeReturns
    BY <2>1 DEF MergeReturns, lockVars, reportVars, podVars, dumpVars, fileVars, SameReg
  <2>2. CASE RemoveMerged
    BY <1>1, <2>2, RemoveReg DEF RemoveMerged, lockVars, reportVars, podVars, dumpVars, TypeOK
  <2> QED
    BY <2>1, <2>2
<1>4. /\ go[s] = None /\ at["mon"] \notin {"dump", "project"}
      /\ DumpLock = "mon" <=> at["mon"] = "merge"
  BY <1>1, MergeStage DEF DataInv
<1>5. ASSUME NEW t \in Service \ {s}
      PROVE  DueOf(t)'
  <2>1. ~MergingOf(t) /\ ~MergingOf(t)'
    BY <1>3, <1>5 DEF MergingOf
  <2> QED
    BY <1>3, <2>1, DueFrame DEF Untouched, LeavesFiles, SameReg, DataInv, DueInv
<1>6. CASE MergeReturns
  <2>1. due'[s] = {}
    BY <1>2, <1>3, <1>6 DEF MergeReturns, DueOf
  <2>2. DueOf(s)'
    BY <1>1, <2>1, NothingDue
  <2> QED
    BY <1>5, <2>2
<1>7. CASE RemoveMerged
  <2>1. /\ exec'[s] \subseteq exec[s] /\ exec[s] \ merging.old \subseteq exec'[s]
        /\ svcExecMap'[s] = IF at["mon"] = "merge" THEN merging.new ELSE svcExecMap[s]
    BY <1>1, <1>4, <1>7 DEF RemoveMerged, TypeOK
  <2>2. Content(Secure(s)) \subseteq Content(Secure(s))'
    <3>1. Secure(s)' = exec'[s]
      BY <1>3 DEF Secure, FailedOld
    <3>2. CASE merging.failed
      BY <1>1, <2>1, <3>1, <3>2 DEF Secure, FailedOld, Content
    <3>3. CASE ~merging.failed
      BY <1>1, <1>7, <3>1, <3>3, RemoveKeeps DEF DataInv, Secure, FailedOld, Content
    <3> QED
      BY <3>2, <3>3
  <2>3. InHand(s)' = InHand(s) /\ NextDump(s)' = NextDump(s) /\ Counted(PodsOf(s))' = Counted(PodsOf(s))
    BY <1>1, <1>3 DEF SameReg, InHand, NextDump, Counted, PodsOf
  <2>4. s \notin todo' /\ merging.new \in Nat
    BY <1>1, <1>3 DEF DataInv, ListedInv, TypeOK, Merging
  <2>5. Merged(s)' => /\ svcExecMap'[s] = None => due'[s] = {}
                      /\ \A f \in Named(s, svcExecMap[s])' : due'[s] \subseteq f.units
    <3>1. CASE at["mon"] = "merge"
      <4>1. \A f \in Named(s, merging.new) : due[s] \subseteq f.units
        BY <1>1, <1>2, <3>1 DEF DueOf
      <4> QED
        BY <1>3, <2>1, <2>4, <3>1, <4>1, CoverageAssumption DEF Named
    <3>2. CASE at["mon"] # "merge"
      BY <1>2, <1>3, <2>1, <3>2 DEF DueOf, Merged, Named
    <3> QED
      BY <3>1, <3>2
  <2>6. /\ due'[s] \subseteq Counted(PodsOf(s))' \cup Content(Secure(s))' \cup InHand(s)'
        /\ at["mon"] = "dumpWait" => due'[s] \subseteq Content(Secure(s))' \cup InHand(s)' \cup NextDump(s)'
        /\ at["mon"] = "mergeWait" => due'[s] \subseteq Content(Secure(s))'
        /\ at["mon"] = "post" => due'[s] \subseteq project'
        /\ reg'[s].IsDelete => due'[s] = {}
    BY <1>1, <1>2, <1>3, <2>2, <2>3 DEF DueOf, SameReg
  <2>7. DueOf(s)'
    BY <1>3, <1>4, <2>4, <2>5, <2>6 DEF DueOf
  <2> QED
    BY <1>5, <2>7
<1> QED
  BY <1>6, <1>7

-----------------------------------------------------------------------------
(* The due units: main, monitor and what happens around them *)

LEMMA BeginDue ==
  ASSUME DataInv, DueInv, NEW r \in Caller, Begin(r)
  PROVE  DueInv'
<1>1. TypeOK /\ PodInv
  BY DEF DataInv, LockInv
<1>2. UNCHANGED <<ctxDone, merging, svcExecMap, project, reg, exec, counter, go, todo>> /\ ~ctxDone
  BY DEF Begin, dumpVars, mergeVars, reportVars, fileVars, podVars
<1>3. CASE r = "main"
  <2>1. at'["mon"] = at["mon"] /\ due' = due
    BY <1>1, <1>3 DEF Begin, Goto, TypeOK, Caller
  <2>2. \A t \in Service : DueOf(t)'
    BY <1>1, <1>2, <2>1, DueFrame DEF Untouched, LeavesFiles, SameReg, DueInv
  <2> QED
    BY <1>2, <2>1, <2>2 DEF DueInv
<1>4. CASE r = "mon"
  <2>1. at'["mon"] = "dumpWait" /\ \A s \in Service : due'[s] = Due(s)
    BY <1>1, <1>4 DEF Begin, Goto, TypeOK, Caller
  <2>2. ASSUME NEW s \in Service
        PROVE  DueOf(s)'
    <3>1. Content(Secure(s))' = Content(Secure(s)) /\ InHand(s)' = InHand(s) /\ NextDump(s)' = NextDump(s)
      BY <1>2 DEF Secure, FailedOld, Content, InHand, NextDump, Counted
    <3>2. NextDump(s) \subseteq Counted(PodsOf(s))'
      BY <1>1, <1>2 DEF PodInv, NextDump, Counted, PodsOf
    <3>3. reg[s].IsDelete => Due(s) = {}
      BY DEF Due
    <3>4. Due(s) \subseteq Content(Secure(s)) \cup InHand(s) \cup NextDump(s)
      BY DEF Due, Secure, FailedOld, InHand, NextDump
    <3> QED
      BY <1>2, <2>1, <3>1, <3>2, <3>3, <3>4 DEF DueOf, Merged
  <2> QED
    BY <1>2, <2>1, <2>2 DEF DueInv
<1> QED
  BY <1>3, <1>4 DEF Caller

LEMMA LockDue ==
  ASSUME DataInv, DueInv, NEW r \in Caller, Lock(r)
  PROVE  DueInv'
<1>1. TypeOK /\ PodInv
  BY DEF DataInv, LockInv
<1>2. UNCHANGED <<ctxDone, merging, svcExecMap, project, reg, exec, counter, go, due>>
  BY DEF Lock, mergeVars, reportVars, fileVars, podVars
<1>3. merging = None /\ (\A s \in Service : go[s] = None) /\ at["mon"] \notin {"dump", "merge", "project"}
  <2>1. ~Doing("dump") /\ ~Doing("merge")
    BY CoverageAssumption DEF Lock, Doing
  <2> QED
    BY <2>1, CoverageAssumption DEF Lock, DataInv, LockInv, NoStraggler, NoService, MergeHeld, LockHeld, Caller
<1>4. \/ at'["mon"] = at["mon"]
      \/ at["mon"] = "dumpWait" /\ at'["mon"] = "dump" /\ todo' = Service
      \/ at["mon"] = "mergeWait" /\ at'["mon"] = "merge" /\ todo' = Service
      \/ at["mon"] = "projectWait" /\ at'["mon"] = "project"
  BY <1>1 DEF Lock, Goto, TypeOK, Caller
<1>5. ASSUME NEW s \in Service
      PROVE  DueOf(s)'
  <2>1. DueOf(s)
    BY DEF DueInv
  <2>2. /\ Content(Secure(s))' = Content(Secure(s)) /\ InHand(s)' = {} /\ InHand(s) = {}
        /\ NextDump(s)' = NextDump(s)
        /\ Content(Secure(s)) = Content(exec[s]) /\ Content(exec'[s]) = Content(exec[s])
        /\ Counted(PodsOf(s))' = Counted(PodsOf(s))
        /\ Named(s, svcExecMap[s])' = Named(s, svcExecMap[s])
    BY <1>2, <1>3 DEF Secure, FailedOld, Content, InHand, NextDump, Counted, PodsOf, Named
  <2>3. todo' = Service => InDump(s)' = NextDump(s)
    BY <1>2, <1>3 DEF InDump, Running, NextDump, Counted
  <2>4. Merged(s)' => Merged(s)
    BY <1>3, <1>4 DEF Merged
  <2> QED
    BY <1>2, <1>3, <1>4, <2>1, <2>2, <2>3, <2>4 DEF DueOf
<1> QED
  BY <1>2, <1>4, <1>5 DEF DueInv

LEMMA ReturnsDue ==
  ASSUME DataInv, DueInv, NEW r \in Caller, Returns(r)
  PROVE  DueInv'
<1>1. TypeOK /\ PodInv
  BY DEF DataInv, LockInv
<1>2. UNCHANGED <<ctxDone, merging, svcExecMap, project, reg, exec, counter, go, due, todo>>
  BY DEF Returns, DumpReturns, MergeAllReturns, dumpVars, mergeVars, reportVars, fileVars, podVars
<1>3. CASE at'["mon"] = at["mon"]
  <2>1. \A t \in Service : DueOf(t)'
    BY <1>1, <1>2, <1>3, DueFrame DEF Untouched, LeavesFiles, SameReg, DueInv
  <2> QED
    BY <1>2, <1>3, <2>1 DEF DueInv
<1>4. CASE at["mon"] = "dump" /\ at'["mon"] = "mergeWait"
  <2>1. DumpReturns(r)
    BY <1>1, <1>4 DEF Returns, MergeAllReturns, Goto, TypeOK, Caller
  <2>2. todo = {} /\ Busy = {}
    BY <1>1, <2>1, BusyFinite DEF DumpReturns, DataInv, LockInv, PlacesCounted
  <2>3. merging = None
    BY <2>1 DEF DumpReturns, DataInv, LockInv, MergeHeld, Doing
  <2>4. ASSUME NEW s \in Service
        PROVE  DueOf(s)'
    <3>1. DueOf(s) /\ go[s] = None
      BY <2>2 DEF DueInv, Busy
    <3>2. /\ InDump(s) = {} /\ Content(Secure(s))' = Content(exec[s]) /\ InHand(s)' = {}
      BY <1>2, <2>2, <2>3, <3>1 DEF InDump, Running, Secure, FailedOld, Content, InHand
    <3> QED
      BY <1>2, <1>4, <3>1, <3>2 DEF DueOf, Merged
  <2> QED
    BY <1>2, <1>4, <2>4 DEF DueInv
<1>5. CASE at["mon"] = "merge" /\ at'["mon"] = "projectWait"
  <2>1. MergeAllReturns(r)
    BY <1>1, <1>5 DEF Returns, DumpReturns, Goto, TypeOK, Caller
  <2>2. todo = {} /\ merging = None
    BY <2>1 DEF MergeAllReturns
  <2>3. ASSUME NEW s \in Service
        PROVE  DueOf(s)'
    <3>1. DueOf(s) /\ Merged(s)
      BY <1>5, <2>2 DEF DueInv, Merged
    <3>2. /\ Content(Secure(s))' = Content(Secure(s)) /\ InHand(s)' = InHand(s)
          /\ Counted(PodsOf(s))' = Counted(PodsOf(s))
          /\ Named(s, svcExecMap[s])' = Named(s, svcExecMap[s])
      BY <1>2 DEF Secure, FailedOld, Content, InHand, Counted, PodsOf, Named
    <3> QED
      BY <1>2, <1>5, <3>1, <3>2 DEF DueOf
  <2> QED
    BY <1>2, <1>5, <2>3 DEF DueInv
<1> QED
  BY <1>1, <1>3, <1>4, <1>5 DEF Returns, DumpReturns, MergeAllReturns, Goto, TypeOK, Caller

LEMMA ProjectDue ==
  ASSUME DataInv, DueInv, Project
  PROVE  DueInv'
<1>1. TypeOK
  BY DEF DataInv, LockInv
<1>2. CASE MergeProject
  <2>1. /\ UNCHANGED <<ctxDone, merging, svcExecMap, reg, exec, counter, go, due>>
        /\ at["mon"] = "project" /\ at'["mon"] = "post"
    BY <1>1, <1>2 DEF MergeProject, Goto, TypeOK, Caller, dumpVars, mergeVars, fileVars, podVars
  <2>2. ASSUME NEW s \in Service
        PROVE  DueOf(s)'
    <3>1. DueOf(s) /\ Merged(s)
      BY <2>1 DEF DueInv, Merged
    <3>2. CASE svcExecMap[s] = None
      BY <2>1, <3>1, <3>2, NothingDue DEF DueOf
    <3>3. CASE svcExecMap[s] # None
      <4>1. s \in Listed /\ Named(s, svcExecMap[s]) # {}
        BY <1>2, <3>3 DEF MergeProject, Listed, Gone
      <4>2. due[s] \subseteq Content(Named(s, svcExecMap[s]))
        BY <3>1, <4>1 DEF DueOf, Content
      <4>3. due'[s] \subseteq project'
        BY <1>2, <2>1, <4>1, <4>2 DEF MergeProject
      <4>4. /\ Content(Secure(s))' = Content(Secure(s)) /\ InHand(s)' = InHand(s)
            /\ Counted(PodsOf(s))' = Counted(PodsOf(s))
        BY <2>1 DEF Secure, FailedOld, Content, InHand, Counted, PodsOf
      <4> QED
        BY <2>1, <3>1, <4>3, <4>4 DEF DueOf, Merged
    <3> QED
      BY <3>2, <3>3
  <2> QED
    BY <2>1, <2>2 DEF DueInv
<1>3. CASE MergeProjectFails \/ Deliver
  <2>1. \A s \in Service : due'[s] = {}
    BY <1>3 DEF MergeProjectFails, Deliver, ReportReturns, NoService
  <2> QED
    BY <2>1, NothingDue DEF DueInv
<1> QED
  BY <1>2, <1>3 DEF Project

LEMMA EnvironmentDue ==
  ASSUME DataInv, DueInv, Environment
  PROVE  DueInv'
<1>1. TypeOK /\ PodInv
  BY DEF DataInv, LockInv
<1>2. ASSUME UNCHANGED <<at, ctxDone>>, \A t \in Service : due'[t] \subseteq due[t] /\ DueOf(t)'
      PROVE  DueInv'
  BY <1>2 DEF DueInv
<1>3. ASSUME NEW u \in Unit, NEW p \in Pod, Execute(u, p)
      PROVE  DueInv'
  <2>1. UNCHANGED <<at, ctxDone, merging, svcExecMap, project, reg, exec, go, due, todo>>
    BY <1>3 DEF Execute, lockVars, dumpVars, mergeVars, reportVars, fileVars
  <2>2. \A q \in Pod : counter[q] \subseteq counter'[q]
    BY <1>1, <1>3 DEF Execute, TypeOK
  <2>3. \A t \in Service : DueOf(t)'
    BY <1>1, <2>1, <2>2, DueFrame DEF Untouched, LeavesFiles, SameReg, DueInv, PodsOf
  <2> QED
    BY <1>2, <2>1, <2>3
<1>4. ASSUME NEW p \in Pod, PodChanges(p)
      PROVE  DueInv'
  <2>1. Svc[p] \in Service
    BY CoverageAssumption
  <2>2. /\ UNCHANGED <<at, ctxDone, merging, svcExecMap, project, reg, exec, go, todo>>
        /\ \A q \in Pod \ {p} : counter'[q] = counter[q]
        /\ due'[Svc[p]] = due[Svc[p]] \ counter[p]
        /\ \A t \in Service \ {Svc[p]} : due'[t] = due[t]
    BY <1>1, <1>4, <2>1, CostsDue DEF PodChanges, TypeOK, lockVars, dumpVars, mergeVars, reportVars, fileVars
  <2>3. ASSUME NEW t \in Service \ {Svc[p]}
        PROVE  DueOf(t)'
    <3>1. \A q \in PodsOf(t) : counter[q] \subseteq counter'[q]
      BY <2>2, <2>3 DEF PodsOf
    <3> QED
      BY <1>1, <2>2, <3>1, DueFrame DEF Untouched, LeavesFiles, SameReg, DueInv
  <2>4. ASSUME NEW t \in Service, t = Svc[p]
        PROVE  DueOf(t)'
    <3>1. /\ DueOf(t) /\ LeavesFiles(t)
      BY <2>2, <2>4 DEF DueInv, LeavesFiles
    <3>2. due'[t] \cap Counted(PodsOf(t)) \subseteq Counted(PodsOf(t))'
      BY <2>2, <2>4 DEF Counted, PodsOf
    <3>3. due'[t] \cap NextDump(t) \subseteq NextDump(t)'
      BY <1>1, <2>2, <2>4 DEF PodInv, PodsOf, NextDump, Counted
    <3>4. due'[t] \cap InDump(t) \subseteq InDump(t)'
      <4>1. CASE Running(t, "dump")
        BY <1>1, <2>2, <2>4, <4>1 DEF PodInv, PodsOf, InDump, Running, Counted
      <4>2. CASE ~Running(t, "dump")
        BY <1>1, <2>2, <2>4, <4>2 DEF PodInv, PodsOf, InDump, Running, Counted
      <4> QED
        BY <4>1, <4>2
    <3> QED
      BY <2>2, <3>1, <3>2, <3>3, <3>4, DueKeeps
  <2> QED
    BY <1>2, <2>1, <2>2, <2>3, <2>4
<1>5. ASSUME NEW s \in Service, SavePods(s)
      PROVE  DueInv'
  <2>1. UNCHANGED <<at, ctxDone, merging, svcExecMap, project, counter, up, exec, go, due, todo>>
    BY <1>5 DEF SavePods, lockVars, dumpVars, mergeVars, reportVars, fileVars, podVars
  <2>2. ASSUME NEW t \in Service \ {s}
        PROVE  DueOf(t)'
    BY <1>1, <1>5, <2>1, SavePodsReg, DueFrame DEF Untouched, LeavesFiles, SameReg, DueInv
  <2>3. DueOf(s)'
    <3>1. DueOf(s) /\ LeavesFiles(s)
      BY <1>1, <1>5, <2>1, SavePodsReg DEF DueInv, LeavesFiles
    <3>2. ASSUME NEW E \in SUBSET Pod
          PROVE  Counted(reg[s].pods \ (reg[s].HasError \cup E)) \subseteq
                     UNION {counter'[q] : q \in reg'[s].pods \ (reg'[s].HasError \cup E)}
      BY <1>1, <1>5, <2>1, SavePodsReg DEF PodInv, PodsOf, Counted
    <3>3. Counted(PodsOf(s))' = Counted(PodsOf(s))
      BY <2>1 DEF Counted, PodsOf
    <3>4. NextDump(s) \subseteq NextDump(s)'
      <4>1. go[s] # None => go[s].podErrorMap \in SUBSET Pod
        BY <1>1 DEF TypeOK, Dumper
      <4> QED
        BY <2>1, <3>2, <4>1 DEF NextDump, Counted
    <3>5. InDump(s) \subseteq InDump(s)'
      <4>1. Counted(reg[s].pods \ reg[s].HasError) \subseteq UNION {counter'[q] : q \in reg'[s].pods \ reg'[s].HasError}
        BY <1>1, <1>5, <2>1, SavePodsReg DEF PodInv, PodsOf, Counted
      <4> QED
        BY <2>1, <4>1 DEF InDump, Running, Counted
    <3> QED
      BY <2>1, <3>1, <3>3, <3>4, <3>5, DueKeeps
  <2> QED
    BY <1>2, <2>1, <2>2, <2>3
<1>6. ASSUME NEW s \in Service, Delete(s)
      PROVE  DueInv'
  <2>1. /\ UNCHANGED <<at, ctxDone, merging, svcExecMap, project, counter, exec, go, todo>>
        /\ due'[s] = due[s] \ Unit /\ \A t \in Service \ {s} : due'[t] = due[t]
    BY <1>1, <1>6, CostsDue DEF Delete, lockVars, dumpVars, mergeVars, reportVars, fileVars, podVars
  <2>2. due'[s] = {}
    BY <1>1, <2>1 DEF TypeOK
  <2>3. ASSUME NEW t \in Service \ {s}
        PROVE  DueOf(t)'
    BY <1>1, <1>6, <2>1, DeleteReg, DueFrame DEF Untouched, LeavesFiles, SameReg, DueInv
  <2> QED
    BY <1>2, <2>1, <2>2, <2>3, NothingDue
<1>7. CASE Cancel \/ Crash
  <2>1. \A s \in Service : due'[s] = {}
    BY <1>1, <1>7, RestartFields DEF Cancel, Crash, NoService
  <2> QED
    BY <2>1, NothingDue DEF DueInv
<1> QED
  BY <1>3, <1>4, <1>5, <1>6, <1>7 DEF Environment

LEMMA NextDueInv ==
  ASSUME DataInv, DueInv, [Next]_vars
  PROVE  DueInv'
<1>1. TypeOK /\ PodInv
  BY DEF DataInv, LockInv
<1>2. ASSUME UNCHANGED <<at, ctxDone>>, \A t \in Service : due'[t] \subseteq due[t] /\ DueOf(t)'
      PROVE  DueInv'
  BY <1>2 DEF DueInv
<1>3. CASE UNCHANGED vars
  <2>1. \A t \in Service : DueOf(t)'
    BY <1>1, <1>3, DueFrame DEF vars, podVars, fileVars, lockVars, dumpVars, mergeVars, reportVars,
                                Untouched, LeavesFiles, SameReg, DueInv
  <2> QED
    BY <1>2, <1>3, <2>1 DEF vars, lockVars
<1>4. ASSUME NEW s \in Service, Dump(s)
      PROVE  DueInv'
  <2>1. CASE MarkPanics(s)
    <3>1. \A t \in Service : due'[t] = {}
      BY <1>1, <2>1, RestartFields DEF MarkPanics, NoService
    <3> QED
      BY <3>1, NothingDue DEF DueInv
  <2>2. CASE ~MarkPanics(s)
    <3>1. UNCHANGED <<at, ctxDone>>
      BY <1>4, <2>2 DEF Dump, DeletedReturns, GetFails, Get, DumpPod, DialFails, DumpFails, MergePods, Note, Mark, lockVars
    <3>2. DueOf(s)'
      BY <1>4, <2>2, DumpDueOf DEF DueInv
    <3>3. \A t \in Service \ {s} : due'[t] = due[t] /\ DueOf(t)'
      BY <1>1, <1>4, <2>2, <3>1, DumpOthers, DueFrame DEF DueInv
    <3>4. due'[s] \subseteq due[s]
      BY <1>1, <1>4, <2>2, DumpDueShrinks
    <3> QED
      BY <1>2, <3>1, <3>2, <3>3, <3>4
  <2> QED
    BY <2>1, <2>2
<1>5. CASE RangeStep
  <2>1. CASE RangeStops
    <3>1. \A t \in Service : due'[t] = {}
      BY <2>1 DEF RangeStops, DueInv
    <3> QED
      BY <3>1, NothingDue DEF DueInv
  <2>2. CASE ~RangeStops
    <3>1. \A t \in Service : DueOf(t)'
      BY <1>5, <2>2, RangeDumpsDue, MergeSkipsDue, MergeSvcDue, MergeEndsDue DEF RangeStep
    <3>2. UNCHANGED <<at, ctxDone>> /\ \A t \in Service : due'[t] \subseteq due[t]
      BY <1>1, <1>5, <2>2, CostsDue DEF RangeStep, MergeReturns, RemoveMerged, RangeDumps, MergeSkips, MergeSvc, lockVars
    <3> QED
      BY <1>2, <3>1, <3>2
  <2> QED
    BY <2>1, <2>2
<1> QED
  BY <1>3, <1>4, <1>5, BeginDue, LockDue, ReturnsDue, ProjectDue, EnvironmentDue DEF Next, System

-----------------------------------------------------------------------------
(* The steps of the ledger *)

\* What is due is kept.
LEMMA DueIsKept ==
  ASSUME NEW s \in Service, DueOf(s)'
  PROVE  due'[s] \subseteq Kept(s)'
<1>1. Content(Secure(s))' \subseteq Content(exec[s])'
  BY DEF Content, Secure
<1>2. due'[s] \subseteq Counted(PodsOf(s))' \cup Content(Secure(s))' \cup InHand(s)'
  BY DEF DueOf
<1> QED
  BY <1>1, <1>2 DEF Kept, InHand

\* A service of which a step changes neither pods nor files nor goroutine
LEMMA KeptSame ==
  ASSUME NEW t \in Service, exec'[t] = exec[t], go'[t] = go[t],
         \A p \in PodsOf(t) : counter'[p] = counter[p]
  PROVE  Kept(t)' = Kept(t)
BY DEF Kept, Counted, PodsOf, Content

LEMMA LedgerFault ==
  ASSUME NEW s \in Service, Kept(s)' \subseteq Kept(s), due'[s] \subseteq due[s], DueInv',
         \A t \in Service \ {s} : Kept(t)' = Kept(t) /\ due'[t] = due[t],
         UNCHANGED <<executed, report>>
  PROVE  L!Next
<1>1. due'[s] \subseteq Kept(s)'
  BY DueIsKept DEF DueInv
<1> QED
  BY <1>1 DEF L!Next, L!Fault

LEMMA LedgerStop ==
  ASSUME \A s \in Service : Kept(s)' \subseteq Kept(s) /\ due'[s] = {}, UNCHANGED <<executed, report>>
  PROVE  L!Next
BY DEF L!Next, L!Stop

LEMMA LedgerStutter ==
  ASSUME UNCHANGED <<exec, go, counter, executed, due, report>>
  PROVE  UNCHANGED L!vars
<1>1. \A t \in Service : Kept(t)' = Kept(t)
  BY KeptSame
<1> QED
  BY <1>1 DEF L!vars

LEMMA DumpKept ==
  ASSUME DataInv, NEW s \in Service, Dump(s), ~MarkPanics(s)
  PROVE  Kept(s)' \subseteq Kept(s)
<1> USE DEF podVars, fileVars
<1>1. TypeOK /\ PodInv
  BY DEF DataInv, LockInv
<1>2. CASE DeletedReturns(s) \/ GetFails(s) \/ Mark(s) \/ \E p \in Pod : DumpFails(s, p)
  <2>1. exec' = exec /\ go'[s] = None /\ \A q \in Pod : counter'[q] \subseteq counter[q]
    BY <1>1, <1>2, DoneFields DEF DeletedReturns, GetFails, Mark, DumpFails, TypeOK
  <2> QED
    BY <2>1 DEF Kept, Counted, PodsOf, Content
<1>3. CASE Get(s)
  <2>1. counter' = counter /\ go'[s] # None /\ go[s] # None /\ go'[s].got = go[s].got
    BY <1>1, <1>3, GetFields DEF Get
  <2>2. \A f \in exec'[s] : f \in exec[s] \/ f.units = {}
    BY <1>1, <1>3 DEF Get, TypeOK
  <2> QED
    BY <2>1, <2>2 DEF Kept, Counted, PodsOf, Content
<1>4. ASSUME NEW p \in Pod, DumpPod(s, p)
      PROVE  Kept(s)' \subseteq Kept(s)
  <2>1. /\ exec' = exec /\ go'[s] # None /\ go[s] # None /\ go'[s].got = go[s].got \cup counter[p]
        /\ \A q \in Pod : counter'[q] \subseteq counter[q]
    BY <1>1, <1>4, DumpPodFields DEF DumpPod, TypeOK
  <2>2. p \in PodsOf(s)
    BY <1>1, <1>4, <2>1 DEF DumpPod, PodInv
  <2>3. counter[p] \subseteq Counted(PodsOf(s))
    BY <2>2 DEF Counted
  <2>4. Counted(PodsOf(s))' \subseteq Counted(PodsOf(s))
    BY <2>1 DEF Counted, PodsOf
  <2> QED
    BY <2>1, <2>3, <2>4 DEF Kept, Content
<1>5. ASSUME NEW p \in Pod, DialFails(s, p)
      PROVE  Kept(s)' \subseteq Kept(s)
  <2>1. UNCHANGED <<exec, counter>> /\ go'[s].got = go[s].got /\ go'[s] # None /\ go[s] # None
    BY <1>1, <1>5, DialFailsFields DEF DialFails
  <2> QED
    BY <2>1 DEF Kept, Counted, PodsOf, Content
<1>6. CASE Note(s)
  <2>1. UNCHANGED <<exec, counter>> /\ go'[s].got = go[s].got /\ go'[s] # None /\ go[s] # None
    BY <1>1, <1>6, NoteFields DEF Note
  <2> QED
    BY <2>1 DEF Kept, Counted, PodsOf, Content
<1>7. CASE MergePods(s)
  <2>1. PICK failed \in BOOLEAN : MergePodsTo(s, failed)
    BY <1>1, <1>7, MergePodsGoes
  <2>2. go[s] # None /\ go'[s] # None /\ go'[s].got = {} /\ counter' = counter
    BY <1>1, <1>7, <2>1, MergePodsFields DEF MergePods
  <2>3. \A f \in exec'[s] : f \in exec[s] \/ f.units = go[s].got
    BY <1>1, <2>1 DEF MergePodsTo, TypeOK
  <2> QED
    BY <2>2, <2>3 DEF Kept, Counted, PodsOf, Content
<1> QED
  BY <1>2, <1>3, <1>4, <1>5, <1>6, <1>7 DEF Dump

LEMMA RestartLedger ==
  ASSUME TypeOK, Restart
  PROVE  L!Next
<1>1. ASSUME NEW s \in Service
      PROVE  Kept(s)' \subseteq Kept(s) /\ due'[s] = {}
  BY RestartFields DEF Kept, Counted, PodsOf, Content, NoService, podVars, fileVars
<1> QED
  BY <1>1, RestartFields, LedgerStop DEF podVars

LEMMA DumpLedger ==
  ASSUME DataInv, DueInv, DueInv', NEW s \in Service, Dump(s)
  PROVE  L!Next
<1>1. TypeOK
  BY DEF DataInv, LockInv
<1>2. CASE MarkPanics(s)
  BY <1>1, <1>2, RestartLedger DEF MarkPanics
<1>3. CASE ~MarkPanics(s)
  <2>1. Kept(s)' \subseteq Kept(s) /\ due'[s] \subseteq due[s]
    BY <1>1, <1>3, DumpKept, DumpDueShrinks
  <2>2. \A t \in Service \ {s} : Kept(t)' = Kept(t) /\ due'[t] = due[t]
    BY <1>3, DumpOthers, KeptSame DEF Untouched, LeavesFiles
  <2>3. UNCHANGED <<executed, report>>
    BY <1>3 DEF Dump, DeletedReturns, GetFails, Get, DumpPod, DialFails, DumpFails, MergePods, Note, Mark,
                podVars, reportVars
  <2> QED
    BY <2>1, <2>2, <2>3, LedgerFault
<1> QED
  BY <1>2, <1>3

LEMMA RangeLedger ==
  ASSUME DataInv, DueInv, DueInv', RangeStep
  PROVE  [L!Next]_(L!vars)
<1> USE DEF podVars, fileVars, dumpVars, reportVars
<1>1. TypeOK
  BY DEF DataInv, LockInv
<1>2. CASE RangeStops \/ MergeReturns
  BY <1>2, LedgerStutter DEF RangeStops, MergeReturns
<1>3. ASSUME NEW s \in Service, RangeDumps(s)
      PROVE  L!Next
  <2>1. UNCHANGED <<exec, counter, executed, due, report>> /\ s \in todo /\ Doing("dump")
    BY <1>3 DEF RangeDumps
  <2>2. go'[s].got = {} /\ go[s] = None /\ \A t \in Service \ {s} : go'[t] = go[t]
    BY <1>1, <1>3, <2>1 DEF RangeDumps, NewDumper, TypeOK, DataInv, LockInv, RangeFresh, Busy
  <2>3. Kept(s)' \subseteq Kept(s)
    BY <2>1, <2>2 DEF Kept, Counted, PodsOf, Content
  <2>4. \A t \in Service \ {s} : Kept(t)' = Kept(t) /\ due'[t] = due[t]
    BY <2>1, <2>2, KeptSame
  <2> QED
    BY <2>1, <2>3, <2>4, LedgerFault
<1>4. ASSUME NEW s \in Service, MergeSkips(s)
      PROVE  L!Next
  <2>1. UNCHANGED <<exec, counter, go, executed, report>>
    BY <1>4 DEF MergeSkips
  <2>2. \A t \in Service : Kept(t)' = Kept(t)
    BY <2>1, KeptSame
  <2>3. due'[s] \subseteq due[s] /\ \A t \in Service \ {s} : due'[t] = due[t]
    BY <1>1, <1>4, CostsDue DEF MergeSkips
  <2> QED
    BY <2>1, <2>2, <2>3, LedgerFault
<1>5. ASSUME NEW s \in Service, MergeSvc(s)
      PROVE  L!Next
  <2>1. UNCHANGED <<counter, go, executed, report>>
    BY <1>5 DEF MergeSvc
  <2>2. /\ \A t \in Service \ {s} : exec'[t] = exec[t]
        /\ \A f \in exec'[s] : f \in exec[s] \/ f.units = {} \/ f.units = Content(exec[s])
    BY <1>1, <1>5 DEF MergeSvc, TypeOK
  <2>3. Content(exec'[s]) \subseteq Content(exec[s])
    BY <2>2 DEF Content
  <2>4. Kept(s)' \subseteq Kept(s)
    BY <2>1, <2>3 DEF Kept, Counted, PodsOf
  <2>5. due'[s] \subseteq due[s] /\ \A t \in Service \ {s} : due'[t] = due[t]
    BY <1>1, <1>5, CostsDue DEF MergeSvc
  <2>6. \A t \in Service \ {s} : Kept(t)' = Kept(t)
    BY <2>1, <2>2, KeptSame
  <2> QED
    BY <2>1, <2>4, <2>5, <2>6, LedgerFault
<1>6. CASE RemoveMerged
  <2>1. merging.svc \in Service
    BY <1>1, <1>6 DEF RemoveMerged, TypeOK, Merging
  <2> PICK s \in Service : s = merging.svc
    BY <2>1
  <2>2. /\ UNCHANGED <<counter, go, executed, due, report>>
        /\ exec'[s] \subseteq exec[s] /\ \A t \in Service \ {s} : exec'[t] = exec[t]
    BY <1>1, <1>6 DEF RemoveMerged, TypeOK
  <2>3. Kept(s)' \subseteq Kept(s)
    BY <2>2 DEF Kept, Counted, PodsOf, Content
  <2>4. \A t \in Service \ {s} : Kept(t)' = Kept(t)
    BY <2>2, KeptSame
  <2> QED
    BY <2>2, <2>3, <2>4, LedgerFault
<1> QED
  BY <1>2, <1>3, <1>4, <1>5, <1>6 DEF RangeStep

LEMMA CallerLedger ==
  ASSUME DataInv, DueInv', NEW r \in Caller, Begin(r) \/ Lock(r) \/ Returns(r)
  PROVE  [L!Next]_(L!vars)
<1>1. UNCHANGED <<exec, counter, go, executed, report>>
  BY DEF Begin, Lock, Returns, DumpReturns, MergeAllReturns, podVars, fileVars, dumpVars, reportVars
<1>2. CASE due' = due
  BY <1>1, <1>2, LedgerStutter
<1>3. CASE due' # due
  <2>1. ASSUME NEW s \in Service
        PROVE  Kept(s)' = Kept(s) /\ due'[s] \subseteq Kept(s)'
    BY <1>1, KeptSame, DueIsKept DEF DueInv
  <2>2. L!Begin
    BY <1>1, <2>1 DEF L!Begin
  <2> QED
    BY <2>2 DEF L!Next
<1> QED
  BY <1>2, <1>3

LEMMA ProjectLedger ==
  ASSUME DataInv, DueInv, Project
  PROVE  [L!Next]_(L!vars)
<1> USE DEF podVars, fileVars, dumpVars
<1>1. TypeOK /\ UNCHANGED <<exec, counter, go, executed>>
  BY DEF DataInv, LockInv, Project, MergeProject, MergeProjectFails, Deliver
<1>2. \A s \in Service : Kept(s)' = Kept(s)
  BY <1>1, KeptSame
<1>3. CASE MergeProject
  BY <1>1, <1>3, LedgerStutter DEF MergeProject
<1>4. CASE MergeProjectFails \/ (Deliver /\ report' = report)
  <2>1. report' = report /\ \A s \in Service : due'[s] = {}
    BY <1>4 DEF MergeProjectFails, Deliver, ReportReturns, NoService
  <2> QED
    BY <1>1, <1>2, <2>1, LedgerStop
<1>5. CASE Deliver /\ report' = project
  <2>1. at["mon"] = "post" /\ \A s \in Service : due'[s] = {}
    BY <1>5 DEF Deliver, ReportReturns, NoService
  <2>2. \A s \in Service : due[s] \subseteq project
    BY <2>1 DEF DueInv, DueOf
  <2>3. project \subseteq executed /\ project # None
    BY <1>1, CoverageAssumption DEF DataInv, UnitInv, TypeOK
  <2>4. L!Deliver
    BY <1>1, <1>2, <1>5, <2>1, <2>2, <2>3 DEF L!Deliver
  <2> QED
    BY <2>4 DEF L!Next
<1> QED
  BY <1>3, <1>4, <1>5 DEF Project, Deliver

LEMMA EnvironmentLedger ==
  ASSUME DataInv, DueInv, DueInv', Environment
  PROVE  [L!Next]_(L!vars)
<1> USE DEF podVars, fileVars, dumpVars, reportVars
<1>1. TypeOK
  BY DEF DataInv, LockInv
<1>2. ASSUME NEW u \in Unit, NEW p \in Pod, Execute(u, p)
      PROVE  L!Next
  <2>1. /\ UNCHANGED <<exec, go, due, report>> /\ u \notin executed /\ executed' = executed \cup {u}
        /\ counter'[p] = counter[p] \cup {u} /\ \A q \in Pod \ {p} : counter'[q] = counter[q]
    BY <1>1, <1>2 DEF Execute, TypeOK
  <2>2. Svc[p] \in Service
    BY CoverageAssumption
  <2> PICK s \in Service : s = Svc[p]
    BY <2>2
  <2>3. Kept(s)' = Kept(s) \cup {u}
    <3>1. p \in PodsOf(s)
      BY DEF PodsOf
    <3>2. Counted(PodsOf(s))' = Counted(PodsOf(s)) \cup {u}
      BY <2>1, <3>1 DEF Counted, PodsOf
    <3> QED
      BY <2>1, <3>2 DEF Kept, Content
  <2>4. \A t \in Service \ {s} : Kept(t)' = Kept(t)
    BY <2>1, KeptSame DEF PodsOf
  <2>5. L!Execute(s, u)
    BY <2>1, <2>3, <2>4 DEF L!Execute
  <2> QED
    BY <2>5 DEF L!Next
<1>3. ASSUME NEW p \in Pod, PodChanges(p)
      PROVE  L!Next
  <2>1. Svc[p] \in Service
    BY CoverageAssumption
  <2> PICK s \in Service : s = Svc[p]
    BY <2>1
  <2>2. /\ UNCHANGED <<exec, go, executed, report>>
        /\ counter'[p] = {} /\ \A q \in Pod \ {p} : counter'[q] = counter[q]
        /\ due'[s] \subseteq due[s] /\ \A t \in Service \ {s} : due'[t] = due[t]
    BY <1>1, <1>3, CostsDue DEF PodChanges, TypeOK
  <2>3. Kept(s)' \subseteq Kept(s)
    <3>1. Counted(PodsOf(s))' \subseteq Counted(PodsOf(s))
      BY <2>2 DEF Counted, PodsOf
    <3> QED
      BY <2>2, <3>1 DEF Kept, Content
  <2>4. \A t \in Service \ {s} : Kept(t)' = Kept(t)
    BY <2>2, KeptSame DEF PodsOf
  <2> QED
    BY <2>2, <2>3, <2>4, LedgerFault
<1>4. ASSUME NEW s \in Service, SavePods(s)
      PROVE  UNCHANGED L!vars
  BY <1>4, LedgerStutter DEF SavePods
<1>5. ASSUME NEW s \in Service, Delete(s)
      PROVE  L!Next
  <2>1. /\ UNCHANGED <<exec, go, counter, executed, report>>
        /\ due'[s] \subseteq due[s] /\ \A t \in Service \ {s} : due'[t] = due[t]
    BY <1>1, <1>5, CostsDue DEF Delete
  <2>2. \A t \in Service : Kept(t)' = Kept(t)
    BY <2>1, KeptSame
  <2> QED
    BY <2>1, <2>2, LedgerFault
<1>6. CASE Cancel
  <2>1. UNCHANGED <<exec, go, counter, executed, report>> /\ \A s \in Service : due'[s] = {}
    BY <1>6 DEF Cancel, NoService
  <2>2. \A s \in Service : Kept(s)' = Kept(s)
    BY <2>1, KeptSame
  <2> QED
    BY <2>1, <2>2, LedgerStop
<1>7. CASE Crash
  BY <1>1, <1>7, RestartLedger DEF Crash
<1> QED
  BY <1>2, <1>3, <1>4, <1>5, <1>6, <1>7 DEF Environment

LEMMA NextLedger ==
  ASSUME DataInv, DueInv, DueInv', [Next]_vars
  PROVE  [L!Next]_(L!vars)
<1>1. CASE UNCHANGED vars
  BY <1>1, LedgerStutter DEF vars, podVars, fileVars, dumpVars, reportVars
<1> QED
  BY <1>1, DumpLedger, RangeLedger, CallerLedger, ProjectLedger, EnvironmentLedger DEF Next, System

LEMMA InitData == Init => DataInv /\ DueInv
<1> SUFFICES ASSUME Init
             PROVE  DataInv /\ DueInv
  OBVIOUS
<1>1. /\ \A s \in Service : go[s] = None /\ exec[s] = {} /\ svcExecMap[s] = None /\ due[s] = {}
      /\ \A s \in Service : reg[s].pods = PodsOf(s)
      /\ \A p \in Pod : counter[p] = {}
      /\ merging = None /\ todo = {} /\ project = {} /\ up = Pod
  BY DEF Init, Fresh, NoService
<1>2. PodInv /\ DirInv /\ UnitInv /\ ListedInv
  BY <1>1 DEF PodInv, DirInv, UnitInv, ListedInv, Running, Content
<1>3. DueInv
  BY <1>1 DEF DueInv, DueOf
<1> QED
  BY <1>2, <1>3, InitLockInv, InitFileInv DEF DataInv

LEMMA NextData ==
  ASSUME DataInv, DueInv, [Next]_vars
  PROVE  DataInv' /\ DueInv'
BY NextLockInv, NextFileInv, NextPodInv, NextDirInv, NextUnitInv, NextListedInv, NextDueInv DEF DataInv

LEMMA InitLedger == Init => L!Init
<1> SUFFICES ASSUME Init
             PROVE  L!Init
  OBVIOUS
<1>1. \A s \in Service : Kept(s) = {}
  BY DEF Init, Fresh, NoService, Kept, Counted, PodsOf, Content
<1> QED
  BY <1>1 DEF Init, Fresh, NoService, L!Init

\* The data plane implements the ledger, for any services, pods, units and sizes
\* of the wait group: no interleaving of main, monitor and dump goroutines takes
\* away a unit that the report under way has to have, a fault of one service
\* costs another nothing, and a report that is delivered has all that is due
\* and nothing that was not executed.
THEOREM ImplementsLedger == Spec => KeepsLedger
<1>1. Spec => [](DataInv /\ DueInv)
  BY InitData, NextData, PTL DEF Spec
<1>2. ASSUME DataInv, DueInv, [Next]_vars
      PROVE  [L!Next]_(L!vars)
  BY <1>2, NextData, NextLedger
<1> QED
  BY <1>1, <1>2, InitLedger, PTL DEF Spec, KeepsLedger, L!Spec

=============================================================================
