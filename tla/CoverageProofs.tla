--------------------------- MODULE CoverageProofs ---------------------------
(***************************************************************************)
(* Proofs about Coverage, for every set of services, pods and units and    *)
(* every size of the wait group.                                           *)
(*                                                                         *)
(* LockInv says what the DumpLock and the wait group keep apart: dump      *)
(* goroutines and merges never overlap, and both counters of the wait      *)
(* group are the number of goroutines.  FileInv says what a file holds     *)
(* while it is being made: from the two it follows that the removal of     *)
(* merged files loses nothing.                                             *)
(***************************************************************************)
EXTENDS Coverage, FiniteSetTheorems, TLAPS

-----------------------------------------------------------------------------
(* The inductive invariant of the lock and the wait group *)

\* The services with a dump goroutine
Busy == {s \in Service : go[s] # None}

\* Whoever is in a critical section of the job holds its DumpLock.
LockHeld == \A r \in Caller : at[r] \in {"dump", "merge", "project"} => DumpLock = r

\* A service that the range of dumpExec has not come to has no goroutine.
RangeFresh == Doing("dump") => todo \cap Busy = {}

\* mergeAllSvcExec replaces the files of a service only with the lock held.
MergeHeld == merging # None => Doing("merge")

\* The wait group and its channel count the goroutines.
PlacesCounted == wg = Cardinality(Busy) /\ c = Cardinality(Busy)

LockInv == TypeOK /\ LockHeld /\ NoStraggler /\ RangeFresh /\ MergeHeld /\ PlacesCounted

\* There is always a name for a new file: a directory has fewer files than the
\* names that are tried.
LEMMA FreeNameFree ==
  ASSUME TypeOK, NEW s \in Service
  PROVE  /\ FreeName(s) \in Nat
         /\ FreeName(s) # svcExecMap[s]
         /\ Named(s, FreeName(s)) = {}
<1> DEFINE K == Cardinality(exec[s])
<1> DEFINE S == (0..(K + 1)) \ {svcExecMap[s]}
<1>1. IsFiniteSet(exec[s]) /\ K \in Nat
  BY FS_CardinalityType DEF TypeOK
<1> HIDE DEF K
<1>2. IsFiniteSet(0..(K + 1)) /\ Cardinality(0..(K + 1)) = K + 2
  BY <1>1, FS_Interval
<1>3. IsFiniteSet(S) /\ Cardinality(S) > K
  <2>1. /\ IsFiniteSet(S)
        /\ Cardinality(S) = K + 2 \/ Cardinality(S) = (K + 2) - 1
    BY <1>2, FS_RemoveElement, ZenonT(40)
  <2> QED
    BY <1>1, <2>1
<1>4. \E n \in S : Named(s, n) = {}
  <2> SUFFICES ASSUME \A n \in S : Named(s, n) # {}
               PROVE  FALSE
    OBVIOUS
  <2> DEFINE g == [n \in S |-> CHOOSE f \in exec[s] : f.name = n]
  <2>1. \A n \in S : g[n] \in exec[s] /\ g[n].name = n
    BY DEF Named
  <2>2. \E x, y \in S : x # y /\ g[x] = g[y]
    <3>1. g \in [S -> exec[s]]
      BY <2>1
    <3> HIDE DEF g, S
    <3> QED
      BY <1>1, <1>3, <3>1, FS_PigeonHole DEF K
  <2> QED
    BY <2>1, <2>2
<1>5. \E n \in 0..(K + 1) : n # svcExecMap[s] /\ Named(s, n) = {}
  BY <1>4
<1> QED
  BY <1>1, <1>5 DEF FreeName, K

-----------------------------------------------------------------------------
(* The wait group *)

LEMMA BusyFinite ==
  ASSUME TypeOK
  PROVE  IsFiniteSet(Busy) /\ Cardinality(Busy) \in Nat /\ (Cardinality(Busy) = 0 <=> Busy = {})
<1>1. Busy \in SUBSET Service
  BY DEF Busy
<1>2. IsFiniteSet(Busy)
  BY <1>1, CoverageAssumption, FS_Subset
<1> QED
  BY <1>2, FS_CardinalityType, FS_EmptySet

\* The end of a goroutine gives its place back.
LEMMA DoneCounts ==
  ASSUME TypeOK, PlacesCounted, NEW s \in Service, go[s] # None, Done(s)
  PROVE  /\ wg' \in Nat /\ c' \in 0..Limit
         /\ go' \in [Service -> Dumper \cup {None}]
         /\ Busy' = Busy \ {s}
         /\ PlacesCounted'
<1>1. go' \in [Service -> Dumper \cup {None}] /\ Busy' = Busy \ {s}
  BY DEF Done, TypeOK, Busy
<1>2. s \in Busy
  BY DEF Busy
<1>3. Cardinality(Busy') = Cardinality(Busy) - 1
  BY <1>1, <1>2, BusyFinite, FS_RemoveElement
<1>4. Cardinality(Busy) # 0
  BY <1>2, BusyFinite
<1> QED
  BY <1>1, <1>3, <1>4, BusyFinite, CoverageAssumption DEF Done, TypeOK, PlacesCounted

\* A new goroutine takes a place.
LEMMA AddCounts ==
  ASSUME TypeOK, PlacesCounted, NEW s \in Service, go[s] = None, Add,
         go' = [go EXCEPT ![s] = NewDumper]
  PROVE  /\ wg' \in Nat /\ c' \in 0..Limit
         /\ go' \in [Service -> Dumper \cup {None}]
         /\ Busy' = Busy \cup {s}
         /\ PlacesCounted'
<1>1. NewDumper \in Dumper
  BY DEF NewDumper, Dumper
<1>2. go' \in [Service -> Dumper \cup {None}] /\ Busy' = Busy \cup {s} /\ s \notin Busy
  BY <1>1, CoverageAssumption DEF TypeOK, Busy
<1>3. Cardinality(Busy') = Cardinality(Busy) + 1
  BY <1>2, BusyFinite, FS_AddElement
<1> QED
  BY <1>2, <1>3, BusyFinite, CoverageAssumption DEF Add, TypeOK, PlacesCounted

-----------------------------------------------------------------------------
(* Type correctness *)

BoundsOK == rounds \in [Caller -> 0..MaxRounds] /\ changes \in 0..MaxChange /\ fails \in 0..MaxFail

LEMMA BoundsKept ==
  ASSUME TypeOK
  PROVE  /\ Fails => BoundsOK'
         /\ Changed => BoundsOK'
         /\ \A r \in Caller : NewRound(r) => BoundsOK'
         /\ UNCHANGED boundVars => BoundsOK'
BY CoverageAssumption DEF TypeOK, BoundsOK, Fails, Changed, NewRound, boundVars

LEMMA CostsType ==
  ASSUME TypeOK, NEW s \in Service, NEW U, Costs(s, U)
  PROVE  due' \in [Service -> SUBSET Unit]
BY DEF TypeOK, Costs

\* Exec files come and go one at a time, or many go.
LEMMA ExecType ==
  ASSUME TypeOK, NEW s \in Service, NEW F \in SUBSET exec[s], NEW n \in Nat, NEW U \in SUBSET Unit
  PROVE  /\ [exec EXCEPT ![s] = F \cup {[name |-> n, units |-> U]}] \in [Service -> SUBSET File]
         /\ [exec EXCEPT ![s] = F] \in [Service -> SUBSET File]
         /\ IsFiniteSet(F) /\ IsFiniteSet(F \cup {[name |-> n, units |-> U]})
<1>1. IsFiniteSet(exec[s])
  BY DEF TypeOK
<1>2. IsFiniteSet(F) /\ IsFiniteSet(F \cup {[name |-> n, units |-> U]})
  BY <1>1, FS_Subset, FS_AddElement, Zenon
<1>3. [name |-> n, units |-> U] \in File
  BY DEF File
<1> QED
  BY <1>2, <1>3 DEF TypeOK

LEMMA RestartTypeOK ==
  ASSUME TypeOK, Restart, BoundsOK'
  PROVE  TypeOK'
<1>1. reg' \in [Service -> Registered]
  <2>1. ASSUME NEW s \in Service
        PROVE  [reg[s] EXCEPT !.pods = up \cap PodsOf(s), !.HasError = {}, !.ErrorMessage = FALSE] \in Registered
    <3>1. reg[s] \in Registered /\ up \cap PodsOf(s) \in SUBSET Pod
      BY DEF TypeOK
    <3> QED
      BY <3>1 DEF Registered
  <2> QED
    BY <2>1 DEF Restart
<1>2. /\ DumpLock' \in Caller \cup {None} /\ ctxDone' \in BOOLEAN /\ at' \in [Caller -> Label]
      /\ todo' \in SUBSET Service /\ project' \in SUBSET Unit
      /\ go' \in [Service -> Dumper \cup {None}] /\ merging' \in Merging \cup {None}
      /\ svcExecMap' \in [Service -> Nat \cup {None}] /\ due' \in [Service -> SUBSET Unit]
  BY DEF Restart, Fresh, NoService, Label
<1>3. wg' \in Nat /\ c' \in 0..Limit
  <2>1. Limit \in Nat /\ wg' = 0 /\ c' = 0
    BY CoverageAssumption DEF Restart, Fresh
  <2> QED
    BY <2>1
<1> QED
  BY <1>1, <1>2, <1>3 DEF Restart, BoundsOK, TypeOK, podVars, fileVars

\* What the steps of a goroutine do to it
GoesTo(s, d) ==
    /\ go[s] \in Dumper /\ s \in Busy
    /\ d \in Dumper
    /\ go' \in [Service -> Dumper \cup {None}]
    /\ go'[s] = d /\ \A t \in Service \ {s} : go'[t] = go[t]
    /\ Busy' = Busy

LEMMA GoesOn ==
  ASSUME TypeOK, NEW s \in Service, go[s] # None, NEW d \in Dumper, go' = [go EXCEPT ![s] = d]
  PROVE  GoesTo(s, d)
BY CoverageAssumption DEF TypeOK, Busy, GoesTo

LEMMA GetGoes ==
  ASSUME TypeOK, NEW s \in Service, Get(s)
  PROVE  GoesTo(s, [go[s] EXCEPT !.at = "dump", !.left = reg[s].pods \ reg[s].HasError, !.file = FreeName(s)])
<1> DEFINE d == [go[s] EXCEPT !.at = "dump", !.left = reg[s].pods \ reg[s].HasError, !.file = FreeName(s)]
<1>1. go[s] # None /\ go[s] \in Dumper
  BY DEF Get, Running, TypeOK
<1>2. d \in Dumper
  BY <1>1, FreeNameFree DEF Dumper, TypeOK, Registered
<1>3. go' = [go EXCEPT ![s] = d]
  BY DEF Get, TypeOK
<1> HIDE DEF d
<1> QED
  BY <1>1, <1>2, <1>3, GoesOn DEF d

LEMMA DumpPodGoes ==
  ASSUME TypeOK, NEW s \in Service, NEW p \in Pod, DumpPod(s, p)
  PROVE  GoesTo(s, [go[s] EXCEPT !.left = @ \ {p}, !.got = @ \cup counter[p]])
<1> DEFINE d == [go[s] EXCEPT !.left = @ \ {p}, !.got = @ \cup counter[p]]
<1>1. go[s] # None /\ go[s] \in Dumper
  BY DEF DumpPod, Running, TypeOK
<1>2. d \in Dumper
  BY <1>1 DEF Dumper, TypeOK
<1>3. go' = [go EXCEPT ![s] = d]
  BY DEF DumpPod, TypeOK
<1> HIDE DEF d
<1> QED
  BY <1>1, <1>2, <1>3, GoesOn DEF d

LEMMA DialFailsGoes ==
  ASSUME TypeOK, NEW s \in Service, NEW p \in Pod, DialFails(s, p)
  PROVE  GoesTo(s, [go[s] EXCEPT !.left = @ \ {p}, !.podErrorMap = @ \cup {p}])
<1> DEFINE d == [go[s] EXCEPT !.left = @ \ {p}, !.podErrorMap = @ \cup {p}]
<1>1. go[s] # None /\ go[s] \in Dumper
  BY DEF DialFails, Running, TypeOK
<1>2. d \in Dumper
  BY <1>1 DEF Dumper, TypeOK
<1>3. go' = [go EXCEPT ![s] = d]
  BY DEF DialFails, TypeOK
<1> HIDE DEF d
<1> QED
  BY <1>1, <1>2, <1>3, GoesOn DEF d

\* The merge of the dumps of the pods, which may have failed
MergePodsTo(s, failed) ==
    /\ IF failed THEN Fails /\ Costs(s, go[s].got) /\ UNCHANGED exec
       ELSE /\ exec' = [exec EXCEPT ![s] =
                   (@ \ Named(s, go[s].file)) \cup {[name |-> go[s].file, units |-> go[s].got]}]
            /\ UNCHANGED <<due, boundVars>>
    /\ GoesTo(s, [go[s] EXCEPT !.at = "note", !.got = {}, !.failed = failed])

LEMMA MergePodsGoes ==
  ASSUME TypeOK, NEW s \in Service, MergePods(s)
  PROVE  \E failed \in BOOLEAN : MergePodsTo(s, failed)
<1>1. go[s] # None /\ go[s] \in Dumper
  BY DEF MergePods, Running, TypeOK
<1> PICK failed \in BOOLEAN :
        /\ IF failed THEN Fails /\ Costs(s, go[s].got) /\ UNCHANGED exec
           ELSE /\ exec' = [exec EXCEPT ![s] =
                       (@ \ Named(s, go[s].file)) \cup {[name |-> go[s].file, units |-> go[s].got]}]
                /\ UNCHANGED <<due, boundVars>>
        /\ go' = [go EXCEPT ![s].at = "note", ![s].got = {}, ![s].failed = failed]
  BY DEF MergePods
<1> DEFINE d == [go[s] EXCEPT !.at = "note", !.got = {}, !.failed = failed]
<1>2. d \in Dumper
  BY <1>1 DEF Dumper
<1>3. go' = [go EXCEPT ![s] = d]
  BY DEF TypeOK
<1> HIDE DEF d
<1>4. GoesTo(s, d)
  BY <1>1, <1>2, <1>3, GoesOn
<1> QED
  BY <1>4 DEF MergePodsTo, d

LEMMA NoteGoes ==
  ASSUME TypeOK, NEW s \in Service, Note(s)
  PROVE  GoesTo(s, [go[s] EXCEPT !.at = "mark", !.len = Cardinality(reg[s].pods)])
<1> DEFINE d == [go[s] EXCEPT !.at = "mark", !.len = Cardinality(reg[s].pods)]
<1>1. go[s] # None /\ go[s] \in Dumper
  BY DEF Note, Running, TypeOK
<1>2. Cardinality(reg[s].pods) \in Nat
  <2>1. reg[s].pods \in SUBSET Pod
    BY DEF TypeOK, Registered
  <2>2. IsFiniteSet(reg[s].pods)
    BY <2>1, CoverageAssumption, FS_Subset
  <2> QED
    BY <2>2, FS_CardinalityType
<1>3. d \in Dumper
  BY <1>1, <1>2 DEF Dumper
<1>4. go' = [go EXCEPT ![s] = d]
  BY DEF Note, TypeOK
<1> HIDE DEF d
<1> QED
  BY <1>1, <1>3, <1>4, GoesOn DEF d

\* The same, field by field
LEMMA GetFields ==
  ASSUME TypeOK, NEW s \in Service, Get(s)
  PROVE  /\ go[s] # None /\ go'[s] # None /\ \A t \in Service \ {s} : go'[t] = go[t]
         /\ go'[s].at = "dump" /\ go'[s].left = reg[s].pods \ reg[s].HasError
         /\ go'[s].got = go[s].got /\ go'[s].file = FreeName(s) /\ go'[s].podErrorMap = go[s].podErrorMap
<1>1. /\ go[s] \in Dumper /\ go'[s] \in Dumper /\ \A t \in Service \ {s} : go'[t] = go[t]
      /\ go'[s] = [go[s] EXCEPT !.at = "dump", !.left = reg[s].pods \ reg[s].HasError, !.file = FreeName(s)]
  BY GetGoes DEF GoesTo
<1>2. go[s] # None /\ go'[s] # None
  BY <1>1, CoverageAssumption
<1> QED
  BY <1>1, <1>2 DEF Dumper

LEMMA DumpPodFields ==
  ASSUME TypeOK, NEW s \in Service, NEW p \in Pod, DumpPod(s, p)
  PROVE  /\ go[s] # None /\ go'[s] # None /\ \A t \in Service \ {s} : go'[t] = go[t]
         /\ go[s].at = "dump" /\ go'[s].at = "dump" /\ go'[s].left = go[s].left \ {p}
         /\ go'[s].got = go[s].got \cup counter[p] /\ go'[s].file = go[s].file
         /\ go'[s].podErrorMap = go[s].podErrorMap
<1>1. /\ go[s] \in Dumper /\ go'[s] \in Dumper /\ \A t \in Service \ {s} : go'[t] = go[t]
      /\ go'[s] = [go[s] EXCEPT !.left = @ \ {p}, !.got = @ \cup counter[p]]
  BY DumpPodGoes DEF GoesTo
<1>2. go[s] # None /\ go'[s] # None /\ go[s].at = "dump"
  BY <1>1, CoverageAssumption DEF DumpPod, Running
<1> QED
  BY <1>1, <1>2 DEF Dumper

LEMMA DialFailsFields ==
  ASSUME TypeOK, NEW s \in Service, NEW p \in Pod, DialFails(s, p)
  PROVE  /\ go[s] # None /\ go'[s] # None /\ \A t \in Service \ {s} : go'[t] = go[t]
         /\ go[s].at = "dump" /\ go'[s].at = "dump" /\ go'[s].left = go[s].left \ {p}
         /\ go'[s].got = go[s].got /\ go'[s].file = go[s].file
         /\ go'[s].podErrorMap = go[s].podErrorMap \cup {p}
<1>1. /\ go[s] \in Dumper /\ go'[s] \in Dumper /\ \A t \in Service \ {s} : go'[t] = go[t]
      /\ go'[s] = [go[s] EXCEPT !.left = @ \ {p}, !.podErrorMap = @ \cup {p}]
  BY DialFailsGoes DEF GoesTo
<1>2. go[s] # None /\ go'[s] # None /\ go[s].at = "dump"
  BY <1>1, CoverageAssumption DEF DialFails, Running
<1> QED
  BY <1>1, <1>2 DEF Dumper

LEMMA MergePodsFields ==
  ASSUME TypeOK, NEW s \in Service, NEW failed \in BOOLEAN, MergePodsTo(s, failed)
  PROVE  /\ go[s] # None /\ go'[s] # None /\ \A t \in Service \ {s} : go'[t] = go[t]
         /\ go'[s].at = "note" /\ go'[s].left = go[s].left /\ go'[s].got = {}
         /\ go'[s].podErrorMap = go[s].podErrorMap
<1>1. /\ go[s] \in Dumper /\ go'[s] \in Dumper /\ \A t \in Service \ {s} : go'[t] = go[t]
      /\ go'[s] = [go[s] EXCEPT !.at = "note", !.got = {}, !.failed = failed]
  BY DEF MergePodsTo, GoesTo
<1>2. go[s] # None /\ go'[s] # None
  BY <1>1, CoverageAssumption
<1> QED
  BY <1>1, <1>2 DEF Dumper

LEMMA NoteFields ==
  ASSUME TypeOK, NEW s \in Service, Note(s)
  PROVE  /\ go[s] # None /\ go'[s] # None /\ \A t \in Service \ {s} : go'[t] = go[t]
         /\ go[s].at = "note" /\ go'[s].at = "mark" /\ go'[s].left = go[s].left
         /\ go'[s].got = go[s].got /\ go'[s].podErrorMap = go[s].podErrorMap
<1>1. /\ go[s] \in Dumper /\ go'[s] \in Dumper /\ \A t \in Service \ {s} : go'[t] = go[t]
      /\ go'[s] = [go[s] EXCEPT !.at = "mark", !.len = Cardinality(reg[s].pods)]
  BY NoteGoes DEF GoesTo
<1>2. go[s] # None /\ go'[s] # None /\ go[s].at = "note"
  BY <1>1, CoverageAssumption DEF Note, Running
<1> QED
  BY <1>1, <1>2 DEF Dumper

LEMMA DoneFields ==
  ASSUME TypeOK, NEW s \in Service, Done(s)
  PROVE  go'[s] = None /\ \A t \in Service \ {s} : go'[t] = go[t]
BY DEF Done, TypeOK

\* What the steps do to the registry: pods and marks change only where they say
SameReg(t) ==
    reg'[t].pods = reg[t].pods /\ reg'[t].HasError = reg[t].HasError /\ reg'[t].IsDelete = reg[t].IsDelete

LEMMA NoteReg ==
  ASSUME TypeOK, NEW s \in Service, Note(s), NEW t \in Service
  PROVE  SameReg(t)
<1> DEFINE b == reg[s].ErrorMessage \/ go[s].failed
<1>1. reg' = [reg EXCEPT ![s] = [@ EXCEPT !.ErrorMessage = b]]
  BY DEF Note
<1> HIDE DEF b
<1> QED
  BY <1>1 DEF SameReg, TypeOK, Registered

LEMMA RemoveReg ==
  ASSUME TypeOK, RemoveMerged, NEW t \in Service
  PROVE  SameReg(t)
<1> DEFINE b == reg[merging.svc].ErrorMessage \/ merging.failed
<1>1. reg' = [reg EXCEPT ![merging.svc] = [@ EXCEPT !.ErrorMessage = b]]
  BY DEF RemoveMerged, NoteMerge
<1> HIDE DEF b
<1> QED
  BY <1>1 DEF SameReg, TypeOK, Registered

LEMMA MarkReg ==
  ASSUME TypeOK, NEW s \in Service, Mark(s)
  PROVE  /\ \A t \in Service \ {s} : SameReg(t)
         /\ reg'[s].pods = reg[s].pods /\ reg'[s].IsDelete = reg[s].IsDelete
         /\ reg'[s].HasError \subseteq reg[s].HasError \cup go[s].podErrorMap
BY DEF Mark, SameReg, TypeOK, Registered

LEMMA SavePodsReg ==
  ASSUME TypeOK, NEW s \in Service, SavePods(s)
  PROVE  /\ \A t \in Service \ {s} : SameReg(t)
         /\ reg'[s].pods = up \cap PodsOf(s) /\ reg'[s].HasError = {} /\ reg'[s].IsDelete = reg[s].IsDelete
BY DEF SavePods, SameReg, TypeOK, Registered

LEMMA DeleteReg ==
  ASSUME TypeOK, NEW s \in Service, Delete(s)
  PROVE  /\ \A t \in Service \ {s} : SameReg(t)
         /\ reg'[s].pods = reg[s].pods /\ reg'[s].HasError = reg[s].HasError
BY DEF Delete, SameReg, TypeOK, Registered

LEMMA RestartFields ==
  ASSUME TypeOK, Restart
  PROVE  /\ go' = NoService(None) /\ merging' = None /\ due' = NoService({}) /\ svcExecMap' = NoService(None)
         /\ at' = [r \in Caller |-> "idle"] /\ project' = {} /\ todo' = {}
         /\ UNCHANGED <<podVars, fileVars, report>>
         /\ \A s \in Service : reg'[s].pods = up \cap PodsOf(s)
<1>1. \A s \in Service : reg'[s].pods = up \cap PodsOf(s)
  BY DEF Restart, TypeOK, Registered
<1> QED
  BY <1>1 DEF Restart, Fresh

LEMMA DumpTypeOK ==
  ASSUME LockInv, NEW s \in Service, Dump(s)
  PROVE  TypeOK'
<1> USE DEF podVars, fileVars, lockVars, dumpVars, mergeVars, reportVars, boundVars
<1>1. TypeOK /\ PlacesCounted
  BY DEF LockInv
<1>2. ASSUME go[s] # None, Done(s)
      PROVE  wg' \in Nat /\ c' \in 0..Limit /\ go' \in [Service -> Dumper \cup {None}]
  BY <1>1, <1>2, DoneCounts
<1>3. CASE DeletedReturns(s)
  BY <1>1, <1>2, <1>3 DEF DeletedReturns, Running, TypeOK
<1>4. CASE GetFails(s)
  <2>1. BoundsOK' /\ due' \in [Service -> SUBSET Unit]
    BY <1>1, <1>4, BoundsKept, CostsType DEF GetFails
  <2> QED
    BY <1>1, <1>2, <1>4, <2>1 DEF GetFails, Running, BoundsOK, TypeOK
<1>5. CASE Get(s)
  <2>1. FreeName(s) \in Nat
    BY <1>1, FreeNameFree
  <2>2. exec' \in [Service -> SUBSET File] /\ \A t \in Service : IsFiniteSet(exec'[t])
    BY <1>1, <1>5, <2>1, ExecType DEF Get, TypeOK
  <2>3. go' \in [Service -> Dumper \cup {None}]
    BY <1>1, <1>5, GetGoes DEF GoesTo
  <2> QED
    BY <1>1, <1>5, <2>2, <2>3 DEF Get, TypeOK
<1>6. ASSUME NEW p \in Pod, DumpPod(s, p)
      PROVE  TypeOK'
  <2>1. go' \in [Service -> Dumper \cup {None}]
    BY <1>1, <1>6, DumpPodGoes DEF GoesTo
  <2> QED
    BY <1>1, <1>6, <2>1 DEF DumpPod, TypeOK
<1>7. ASSUME NEW p \in Pod, DialFails(s, p)
      PROVE  TypeOK'
  <2>1. go' \in [Service -> Dumper \cup {None}]
    BY <1>1, <1>7, DialFailsGoes DEF GoesTo
  <2>2. BoundsOK' /\ due' \in [Service -> SUBSET Unit]
    BY <1>1, <1>7, BoundsKept, CostsType DEF DialFails
  <2> QED
    BY <1>1, <1>7, <2>1, <2>2 DEF DialFails, BoundsOK, TypeOK
<1>8. ASSUME NEW p \in Pod, DumpFails(s, p)
      PROVE  TypeOK'
  <2>1. BoundsOK' /\ due' \in [Service -> SUBSET Unit]
    BY <1>1, <1>8, BoundsKept, CostsType DEF DumpFails
  <2> QED
    BY <1>1, <1>2, <1>8, <2>1 DEF DumpFails, Running, BoundsOK, TypeOK
<1>9. CASE MergePods(s)
  <2>1. PICK failed \in BOOLEAN : MergePodsTo(s, failed)
    BY <1>1, <1>9, MergePodsGoes
  <2>2. go' \in [Service -> Dumper \cup {None}]
    BY <2>1 DEF MergePodsTo, GoesTo
  <2>3. exec' \in [Service -> SUBSET File] /\ \A t \in Service : IsFiniteSet(exec'[t])
    <3>1. CASE failed
      BY <1>1, <2>1, <3>1 DEF MergePodsTo, TypeOK
    <3>2. CASE ~failed
      <4> DEFINE F == exec[s] \ Named(s, go[s].file)
      <4>1. go[s].file \in Nat /\ go[s].got \in SUBSET Unit /\ F \in SUBSET exec[s]
        BY <2>1 DEF MergePodsTo, GoesTo, Dumper
      <4>2. exec' = [exec EXCEPT ![s] = F \cup {[name |-> go[s].file, units |-> go[s].got]}]
        BY <2>1, <3>2 DEF MergePodsTo
      <4> HIDE DEF F
      <4>3. /\ exec' \in [Service -> SUBSET File]
            /\ IsFiniteSet(F \cup {[name |-> go[s].file, units |-> go[s].got]})
        BY <1>1, <4>1, <4>2, ExecType
      <4> QED
        BY <1>1, <4>2, <4>3 DEF TypeOK
    <3> QED
      BY <3>1, <3>2
  <2>4. BoundsOK' /\ due' \in [Service -> SUBSET Unit]
    BY <1>1, <2>1, BoundsKept, CostsType DEF MergePodsTo, TypeOK
  <2> QED
    BY <1>1, <1>9, <2>2, <2>3, <2>4 DEF MergePods, BoundsOK, TypeOK
<1>10. CASE Note(s)
  <2>1. go[s] \in Dumper /\ go' \in [Service -> Dumper \cup {None}]
    BY <1>1, <1>10, NoteGoes DEF GoesTo
  <2>2. reg' \in [Service -> Registered]
    <3> DEFINE b == reg[s].ErrorMessage \/ go[s].failed
    <3>1. reg' = [reg EXCEPT ![s] = [@ EXCEPT !.ErrorMessage = b]] /\ b \in BOOLEAN
      BY <1>10 DEF Note
    <3> HIDE DEF b
    <3> QED
      BY <1>1, <3>1, SMTT(40) DEF TypeOK, Registered
  <2> QED
    BY <1>1, <1>10, <2>1, <2>2 DEF Note, TypeOK
<1>11. CASE Mark(s)
  <2>1. reg' \in [Service -> Registered]
    BY <1>1, <1>11 DEF Mark, TypeOK, Registered
  <2> QED
    BY <1>1, <1>2, <1>11, <2>1 DEF Mark, Running, TypeOK
<1>12. CASE MarkPanics(s)
  BY <1>1, <1>12, RestartTypeOK, BoundsKept DEF MarkPanics
<1> QED
  BY <1>3, <1>4, <1>5, <1>6, <1>7, <1>8, <1>9, <1>10, <1>11, <1>12 DEF Dump

LEMMA RangeTypeOK ==
  ASSUME LockInv, RangeStep
  PROVE  TypeOK'
<1> USE DEF podVars, fileVars, lockVars, dumpVars, mergeVars, reportVars, boundVars
<1>1. TypeOK /\ PlacesCounted
  BY DEF LockInv
<1>2. CASE RangeStops
  BY <1>1, <1>2 DEF RangeStops, TypeOK
<1>3. CASE MergeReturns
  BY <1>1, <1>3 DEF MergeReturns, TypeOK
<1>4. CASE RemoveMerged
  <2>1. merging \in Merging /\ merging.svc \in Service /\ merging.new \in Nat /\ merging.failed \in BOOLEAN
    BY <1>1, <1>4 DEF RemoveMerged, TypeOK, Merging
  <2>2. reg' \in [Service -> Registered]
    <3> DEFINE b == reg[merging.svc].ErrorMessage \/ merging.failed
    <3>1. reg' = [reg EXCEPT ![merging.svc] = [@ EXCEPT !.ErrorMessage = b]]
      BY <1>4 DEF RemoveMerged, NoteMerge
    <3>2. b \in BOOLEAN
      OBVIOUS
    <3> HIDE DEF b
    <3> QED
      BY <1>1, <2>1, <3>1, <3>2, SMTT(40) DEF TypeOK, Registered
  <2>3. svcExecMap' \in [Service -> Nat \cup {None}]
    BY <1>1, <1>4, <2>1 DEF RemoveMerged, TypeOK
  <2>4. BoundsOK'
    BY <1>1, <1>4, BoundsKept DEF RemoveMerged
  <2>5. exec' \in [Service -> SUBSET File] /\ \A s \in Service : IsFiniteSet(exec'[s])
    <3>1. \E F \in SUBSET exec[merging.svc] : exec' = [exec EXCEPT ![merging.svc] = F]
      BY <1>4 DEF RemoveMerged
    <3>2. PICK F \in SUBSET exec[merging.svc] : exec' = [exec EXCEPT ![merging.svc] = F]
      BY <3>1
    <3>3. IsFiniteSet(F)
      BY <1>1, <2>1, FS_Subset DEF TypeOK
    <3> QED
      BY <1>1, <2>1, <3>2, <3>3 DEF TypeOK
  <2> QED
    BY <1>1, <1>4, <2>2, <2>3, <2>4, <2>5 DEF RemoveMerged, BoundsOK, TypeOK
<1>5. ASSUME NEW s \in Service, RangeDumps(s)
      PROVE  TypeOK'
  <2>1. go[s] = None
    BY <1>5 DEF RangeDumps, LockInv, RangeFresh, Busy
  <2>2. wg' \in Nat /\ c' \in 0..Limit /\ go' \in [Service -> Dumper \cup {None}]
    BY <1>1, <1>5, <2>1, AddCounts DEF RangeDumps
  <2> QED
    BY <1>1, <1>5, <2>2 DEF RangeDumps, TypeOK
<1>6. ASSUME NEW s \in Service, MergeSkips(s)
      PROVE  TypeOK'
  <2>1. BoundsOK' /\ due' \in [Service -> SUBSET Unit]
    BY <1>1, <1>6, BoundsKept, CostsType DEF MergeSkips, TypeOK
  <2> QED
    BY <1>1, <1>6, <2>1 DEF MergeSkips, BoundsOK, TypeOK
<1>7. ASSUME NEW s \in Service, MergeSvc(s)
      PROVE  TypeOK'
  <2> PICK failed \in BOOLEAN :
        /\ IF failed THEN Fails /\ Costs(s, Content(exec[s])) ELSE UNCHANGED <<due, boundVars>>
        /\ merging' = [svc |-> s, old |-> exec[s], new |-> FreeName(s), failed |-> failed]
        /\ exec' = [exec EXCEPT ![s] = @ \cup
               {[name |-> FreeName(s), units |-> IF failed THEN {} ELSE Content(exec[s])]}]
    BY <1>7 DEF MergeSvc
  <2>1. FreeName(s) \in Nat /\ exec[s] \in SUBSET File
    BY <1>1, FreeNameFree DEF TypeOK
  <2>2. merging' \in Merging
    BY <2>1 DEF Merging
  <2>3. (IF failed THEN {} ELSE Content(exec[s])) \in SUBSET Unit
    BY <2>1 DEF Content, File
  <2>4. exec' \in [Service -> SUBSET File] /\ \A t \in Service : IsFiniteSet(exec'[t])
    BY <1>1, <2>1, <2>3, ExecType DEF TypeOK
  <2>5. BoundsOK' /\ due' \in [Service -> SUBSET Unit]
    BY <1>1, BoundsKept, CostsType DEF TypeOK
  <2> QED
    BY <1>1, <1>7, <2>2, <2>4, <2>5 DEF MergeSvc, BoundsOK, TypeOK
<1> HIDE DEF podVars, fileVars, lockVars, dumpVars, mergeVars, reportVars, boundVars
<1> QED
  BY <1>2, <1>3, <1>4, <1>5, <1>6, <1>7 DEF RangeStep

LEMMA CallerTypeOK ==
  ASSUME TypeOK, NEW r \in Caller, Begin(r) \/ Lock(r) \/ Returns(r)
  PROVE  TypeOK'
<1> USE DEF podVars, fileVars, lockVars, dumpVars, mergeVars, reportVars, boundVars
<1>1. CASE Begin(r)
  <2>1. ASSUME NEW s \in Service
        PROVE  Due(s) \in SUBSET Unit
    <3>1. \A P \in SUBSET Pod : Counted(P) \in SUBSET Unit
      BY DEF Counted, TypeOK
    <3>2. \A F \in SUBSET exec[s] : Content(F) \in SUBSET Unit
      BY DEF Content, TypeOK, File
    <3>3. reg[s].pods \in SUBSET Pod
      BY DEF TypeOK, Registered
    <3>4. go[s] # None => go[s].got \in SUBSET Unit
      BY DEF TypeOK, Dumper
    <3> QED
      BY <3>1, <3>2, <3>3, <3>4 DEF Due
  <2>2. BoundsOK' /\ due' \in [Service -> SUBSET Unit]
    BY <1>1, <2>1, BoundsKept DEF Begin, TypeOK
  <2> QED
    BY <1>1, <2>2 DEF Begin, Goto, BoundsOK, TypeOK, Label
<1>2. CASE Lock(r)
  BY <1>2 DEF Lock, Goto, TypeOK, Label
<1>3. CASE Returns(r)
  BY <1>3 DEF Returns, DumpReturns, MergeAllReturns, Goto, TypeOK, Label
<1> QED
  BY <1>1, <1>2, <1>3

LEMMA ProjectTypeOK ==
  ASSUME TypeOK, Project
  PROVE  TypeOK'
<1> USE DEF podVars, fileVars, lockVars, dumpVars, mergeVars, reportVars, boundVars
<1>1. CASE MergeProject
  <2>1. project' \in SUBSET Unit
    BY <1>1 DEF MergeProject, Content, Named, Listed, TypeOK, File
  <2> QED
    BY <1>1, <2>1 DEF MergeProject, Goto, TypeOK, Caller, Label
<1>2. ASSUME ReportReturns
      PROVE  /\ at' \in [Caller -> Label] /\ svcExecMap' \in [Service -> Nat \cup {None}]
             /\ project' \in SUBSET Unit /\ due' \in [Service -> SUBSET Unit]
  BY <1>2 DEF ReportReturns, Goto, NoService, TypeOK, Caller, Label
<1>3. CASE MergeProjectFails
  BY <1>2, <1>3, BoundsKept DEF MergeProjectFails, BoundsOK, TypeOK
<1>4. CASE Deliver
  BY <1>2, <1>4, BoundsKept DEF Deliver, BoundsOK, TypeOK
<1> QED
  BY <1>1, <1>3, <1>4 DEF Project

LEMMA EnvironmentTypeOK ==
  ASSUME TypeOK, Environment
  PROVE  TypeOK'
<1> USE DEF podVars, fileVars, lockVars, dumpVars, mergeVars, reportVars, boundVars
<1>1. ASSUME NEW u \in Unit, NEW p \in Pod, Execute(u, p)
      PROVE  TypeOK'
  BY <1>1 DEF Execute, TypeOK
<1>2. ASSUME NEW p \in Pod, PodChanges(p)
      PROVE  TypeOK'
  <2>1. BoundsOK' /\ due' \in [Service -> SUBSET Unit]
    BY <1>2, BoundsKept, CostsType, CoverageAssumption DEF PodChanges
  <2> QED
    BY <1>2, <2>1 DEF PodChanges, BoundsOK, TypeOK
<1>3. ASSUME NEW s \in Service, SavePods(s)
      PROVE  TypeOK'
  <2>1. reg' \in [Service -> Registered]
    BY <1>3, ZenonT(40) DEF SavePods, TypeOK, Registered
  <2> QED
    BY <1>3, <2>1 DEF SavePods, TypeOK
<1>4. ASSUME NEW s \in Service, Delete(s)
      PROVE  TypeOK'
  <2>1. BoundsOK' /\ due' \in [Service -> SUBSET Unit]
    BY <1>4, BoundsKept, CostsType DEF Delete
  <2>2. reg' \in [Service -> Registered]
    BY <1>4, ZenonT(40) DEF Delete, TypeOK, Registered
  <2> QED
    BY <1>4, <2>1, <2>2 DEF Delete, BoundsOK, TypeOK
<1>5. CASE Cancel
  BY <1>5, BoundsKept DEF Cancel, NoService, BoundsOK, TypeOK
<1>6. CASE Crash
  BY <1>6, BoundsKept, RestartTypeOK DEF Crash
<1> QED
  BY <1>1, <1>2, <1>3, <1>4, <1>5, <1>6 DEF Environment

LEMMA NextTypeOK ==
  ASSUME LockInv, [Next]_vars
  PROVE  TypeOK'
<1>1. TypeOK
  BY DEF LockInv
<1>2. CASE UNCHANGED vars
  BY <1>1, <1>2 DEF vars, podVars, fileVars, lockVars, dumpVars, mergeVars, reportVars, boundVars, TypeOK
<1> QED
  BY <1>1, <1>2, DumpTypeOK, RangeTypeOK, CallerTypeOK, ProjectTypeOK, EnvironmentTypeOK DEF Next, System

-----------------------------------------------------------------------------
(* The lock and the wait group *)

LEMMA NoneBusy ==
  ASSUME go \in [Service -> Dumper \cup {None}]
  PROVE  go = NoService(None) <=> Busy = {}
BY DEF Busy, NoService

LEMMA LockFrame ==
  ASSUME LockInv, TypeOK', UNCHANGED <<at, DumpLock, todo, merging>>,
         Busy' \subseteq Busy, PlacesCounted'
  PROVE  LockInv'
<1>1. NoStraggler'
  <2>1. ASSUME ~Doing("dump")
        PROVE  go' = NoService(None)
    <3>1. Busy = {}
      BY <2>1 DEF LockInv, NoStraggler, NoService, Busy
    <3> QED
      BY <3>1 DEF Busy, NoService, TypeOK
  <2> QED
    BY <2>1 DEF NoStraggler, Doing, Caller
<1> QED
  BY <1>1 DEF LockInv, LockHeld, RangeFresh, MergeHeld, Doing

LEMMA RestartLockInv ==
  ASSUME Restart, TypeOK'
  PROVE  LockInv'
<1>1. Busy' = {} /\ wg' = 0 /\ c' = 0 /\ merging' = None
  BY DEF Restart, Fresh, NoService, Busy
<1>2. PlacesCounted'
  BY <1>1, FS_EmptySet DEF PlacesCounted
<1> QED
  BY <1>1, <1>2 DEF Restart, Fresh, LockInv, LockHeld, NoStraggler, RangeFresh, MergeHeld

LEMMA DumpLockInv ==
  ASSUME LockInv, NEW s \in Service, Dump(s)
  PROVE  LockInv'
<1>1. TypeOK /\ PlacesCounted /\ TypeOK'
  BY DumpTypeOK DEF LockInv
<1>2. CASE MarkPanics(s)
  BY <1>1, <1>2, RestartLockInv DEF MarkPanics
<1>3. ASSUME Done(s), go[s] # None, UNCHANGED <<at, DumpLock, todo, merging>>
      PROVE  LockInv'
  BY <1>1, <1>3, DoneCounts, LockFrame
<1>4. ASSUME NEW d, GoesTo(s, d), UNCHANGED <<at, DumpLock, todo, merging, wg, c>>
      PROVE  LockInv'
  BY <1>1, <1>4, LockFrame DEF GoesTo, PlacesCounted
<1>5. CASE DeletedReturns(s) \/ GetFails(s) \/ (\E p \in Pod : DumpFails(s, p)) \/ Mark(s)
  BY <1>3, <1>5 DEF DeletedReturns, GetFails, DumpFails, Mark, Running, lockVars, mergeVars
<1>6. CASE Get(s)
  BY <1>1, <1>4, <1>6, GetGoes DEF Get, lockVars, mergeVars
<1>7. CASE \E p \in Pod : DumpPod(s, p)
  BY <1>1, <1>4, <1>7, DumpPodGoes DEF DumpPod, lockVars, mergeVars
<1>8. CASE \E p \in Pod : DialFails(s, p)
  BY <1>1, <1>4, <1>8, DialFailsGoes DEF DialFails, lockVars, mergeVars
<1>9. CASE MergePods(s)
  BY <1>1, <1>4, <1>9, MergePodsGoes DEF MergePods, MergePodsTo, lockVars, mergeVars
<1>10. CASE Note(s)
  BY <1>1, <1>4, <1>10, NoteGoes DEF Note, lockVars, mergeVars
<1> QED
  BY <1>2, <1>5, <1>6, <1>7, <1>8, <1>9, <1>10 DEF Dump

LEMMA RangeLockInv ==
  ASSUME LockInv, RangeStep
  PROVE  LockInv'
<1>1. TypeOK /\ PlacesCounted /\ TypeOK'
  BY RangeTypeOK DEF LockInv
<1>2. ASSUME UNCHANGED <<at, DumpLock, wg, c, go>>, todo' \subseteq todo,
             merging' = None \/ Doing("merge")
      PROVE  LockInv'
  <2>1. Busy' = Busy
    BY <1>2 DEF Busy
  <2> QED
    BY <1>1, <1>2, <2>1 DEF LockInv, LockHeld, NoStraggler, RangeFresh, MergeHeld, PlacesCounted, Doing
<1>3. CASE RangeStops
  BY <1>2, <1>3 DEF RangeStops, lockVars, mergeVars
<1>4. CASE MergeReturns
  BY <1>2, <1>4 DEF MergeReturns, lockVars, dumpVars
<1>5. CASE RemoveMerged
  BY <1>2, <1>5 DEF RemoveMerged, lockVars, dumpVars
<1>6. ASSUME NEW s \in Service, RangeDumps(s)
      PROVE  LockInv'
  <2>1. go[s] = None
    BY <1>6 DEF RangeDumps, LockInv, RangeFresh, Busy
  <2>2. Busy' = Busy \cup {s} /\ PlacesCounted'
    BY <1>1, <1>6, <2>1, AddCounts DEF RangeDumps
  <2>3. LockHeld' /\ MergeHeld' /\ Doing("dump")'
    BY <1>6 DEF RangeDumps, lockVars, mergeVars, LockInv, LockHeld, MergeHeld, Doing
  <2>4. RangeFresh'
    BY <1>6, <2>2 DEF RangeDumps, LockInv, RangeFresh
  <2> QED
    BY <1>1, <2>2, <2>3, <2>4 DEF LockInv, NoStraggler
<1>7. ASSUME NEW s \in Service, MergeSkips(s)
      PROVE  LockInv'
  BY <1>2, <1>7 DEF MergeSkips, lockVars, mergeVars
<1>8. ASSUME NEW s \in Service, MergeSvc(s)
      PROVE  LockInv'
  BY <1>2, <1>8 DEF MergeSvc, lockVars
<1> QED
  BY <1>3, <1>4, <1>5, <1>6, <1>7, <1>8 DEF RangeStep

LEMMA CallerLockInv ==
  ASSUME LockInv, NEW r \in Caller, Begin(r) \/ Lock(r) \/ Returns(r)
  PROVE  LockInv'
<1>1. TypeOK /\ PlacesCounted /\ TypeOK'
  BY CallerTypeOK DEF LockInv
<1>2. ASSUME UNCHANGED <<wg, c, go>>
      PROVE  Busy' = Busy /\ PlacesCounted'
  BY <1>1, <1>2 DEF Busy, PlacesCounted
<1>3. None \notin Caller
  BY CoverageAssumption
<1>4. CASE Begin(r)
  <2>1. \A l \in {"dump", "merge"} : Doing(l)' <=> Doing(l)
    BY <1>1, <1>4 DEF Begin, Goto, Doing, TypeOK
  <2>2. LockHeld'
    BY <1>1, <1>4 DEF Begin, Goto, LockInv, LockHeld, TypeOK
  <2>3. UNCHANGED <<wg, c, go, todo, merging>>
    BY <1>4 DEF Begin, dumpVars, mergeVars
  <2> QED
    BY <1>1, <1>2, <2>1, <2>2, <2>3 DEF LockInv, NoStraggler, RangeFresh, MergeHeld
<1>5. CASE Lock(r)
  <2>1. ~Doing("dump") /\ ~Doing("merge")
    BY <1>3, <1>5 DEF Lock, Doing
  <2>2. go = NoService(None) /\ merging = None
    BY <2>1 DEF LockInv, NoStraggler, MergeHeld
  <2>3. UNCHANGED <<wg, c, go, merging>> /\ Busy' = {}
    BY <1>5, <2>2 DEF Lock, mergeVars, Busy, NoService
  <2>4. LockHeld'
    BY <1>1, <1>3, <1>5 DEF Lock, Goto, LockInv, LockHeld, TypeOK
  <2> QED
    BY <1>1, <1>2, <2>2, <2>3, <2>4 DEF LockInv, NoStraggler, RangeFresh, MergeHeld
<1>6. CASE Returns(r)
  <2>1. go = NoService(None) /\ merging = None
    <3>1. CASE DumpReturns(r)
      <4>1. wg = 0 /\ ~Doing("merge")
        BY <3>1 DEF DumpReturns, Doing
      <4>2. Busy = {}
        BY <1>1, <4>1, BusyFinite DEF PlacesCounted
      <4> QED
        BY <1>1, <4>1, <4>2, NoneBusy DEF LockInv, MergeHeld, TypeOK
    <3>2. CASE MergeAllReturns(r)
      <4>1. ~Doing("dump")
        BY <3>2 DEF MergeAllReturns, Doing
      <4> QED
        BY <3>2, <4>1 DEF MergeAllReturns, LockInv, NoStraggler
    <3> QED
      BY <1>6, <3>1, <3>2 DEF Returns
  <2>2. /\ UNCHANGED <<wg, c, go, merging>> /\ Busy' = {}
        /\ DumpLock = r /\ DumpLock' = None
        /\ \E l \in {"idle", "mergeWait", "projectWait"} : Goto(r, l)
    BY <1>6, <2>1 DEF Returns, DumpReturns, MergeAllReturns, dumpVars, mergeVars, Busy, NoService
  <2>3. LockHeld'
    BY <1>1, <2>2 DEF Goto, LockInv, LockHeld, TypeOK
  <2> QED
    BY <1>1, <1>2, <2>1, <2>2, <2>3 DEF LockInv, NoStraggler, RangeFresh, MergeHeld
<1> QED
  BY <1>4, <1>5, <1>6

LEMMA ProjectLockInv ==
  ASSUME LockInv, Project
  PROVE  LockInv'
<1>1. TypeOK /\ PlacesCounted /\ TypeOK'
  BY ProjectTypeOK DEF LockInv
<1>2. UNCHANGED <<todo, wg, c, go, merging>>
  BY DEF Project, MergeProject, MergeProjectFails, Deliver, dumpVars, mergeVars
<1>3. Busy' = Busy /\ PlacesCounted'
  BY <1>1, <1>2 DEF Busy, PlacesCounted
<1>4. LockHeld'
  <2>1. /\ at["mon"] \in {"project", "post"} /\ \E l \in {"idle", "post"} : Goto("mon", l)
        /\ DumpLock' = DumpLock \/ at["mon"] = "project"
    BY DEF Project, MergeProject, MergeProjectFails, Deliver, ReportReturns
  <2> QED
    BY <1>1, <2>1 DEF LockInv, LockHeld, Goto, TypeOK, Caller
<1>5. \A l \in {"dump", "merge"} : Doing(l)' <=> Doing(l)
  <2>1. CASE MergeProject
    BY <1>1, <2>1, CoverageAssumption DEF MergeProject, Goto, Doing, LockInv, LockHeld, TypeOK, Caller
  <2>2. CASE MergeProjectFails \/ Deliver
    BY <1>1, <2>2 DEF MergeProjectFails, Deliver, ReportReturns, Goto, Doing, TypeOK, Caller
  <2> QED
    BY <2>1, <2>2 DEF Project
<1> QED
  BY <1>1, <1>2, <1>3, <1>4, <1>5 DEF LockInv, NoStraggler, RangeFresh, MergeHeld

LEMMA NextLockInv ==
  ASSUME LockInv, [Next]_vars
  PROVE  LockInv'
<1>1. TypeOK'
  BY NextTypeOK
<1>2. ASSUME UNCHANGED <<lockVars, dumpVars, mergeVars>> \/ (UNCHANGED <<at, DumpLock, dumpVars, mergeVars>>)
      PROVE  LockInv'
  <2>1. Busy' = Busy
    BY <1>2 DEF dumpVars, Busy
  <2> QED
    BY <1>1, <1>2, <2>1, LockFrame DEF lockVars, dumpVars, mergeVars, LockInv, PlacesCounted
<1>3. CASE UNCHANGED vars
  BY <1>2, <1>3 DEF vars
<1>4. CASE Environment
  <2>1. CASE Crash
    BY <1>1, <2>1, RestartLockInv DEF Crash
  <2>2. CASE ~Crash
    BY <1>2, <1>4, <2>2 DEF Environment, Execute, PodChanges, SavePods, Delete, Cancel
  <2> QED
    BY <2>1, <2>2
<1> QED
  BY <1>3, <1>4, DumpLockInv, RangeLockInv, CallerLockInv, ProjectLockInv DEF Next, System

LEMMA InitLockInv == Init => LockInv
<1> SUFFICES ASSUME Init
             PROVE  LockInv
  OBVIOUS
<1>1. Busy = {}
  BY DEF Init, Fresh, NoService, Busy
<1>2. PlacesCounted
  BY <1>1, FS_EmptySet DEF Init, Fresh, PlacesCounted
<1>3. \A s \in Service : [pods |-> PodsOf(s), HasError |-> {}, ErrorMessage |-> FALSE, IsDelete |-> FALSE] \in Registered
  BY DEF PodsOf, Registered
<1>4. reg \in [Service -> Registered] /\ exec \in [Service -> SUBSET File]
  BY <1>3 DEF Init, NoService
<1>5. \A s \in Service : IsFiniteSet(exec[s])
  BY FS_EmptySet DEF Init, NoService
<1>6. BoundsOK /\ wg \in Nat /\ c \in 0..Limit
  <2>1. MaxRounds \in Nat /\ MaxChange \in Nat /\ MaxFail \in Nat /\ Limit \in Nat
    BY CoverageAssumption
  <2> QED
    BY <2>1 DEF Init, Fresh, BoundsOK
<1>7. TypeOK
  BY <1>4, <1>5, <1>6 DEF Init, Fresh, NoService, BoundsOK, TypeOK, Label
<1> QED
  BY <1>1, <1>2, <1>7 DEF Init, Fresh, LockInv, LockHeld, NoStraggler, RangeFresh, MergeHeld

\* For every set of services and pods, every size of the wait group, all
\* failures, cancellations and restarts: types are kept.
THEOREM TypeCorrect == Spec => []TypeOK
<1>1. LockInv => TypeOK
  BY DEF LockInv
<1> QED
  BY <1>1, InitLockInv, NextLockInv, PTL DEF Spec

\* No dump goroutine outlives the dumpExec that has started it: its wait.Wait()
\* returns only when the last of them has called Done.
THEOREM DumpWaits == Spec => []NoStraggler
<1>1. LockInv => NoStraggler
  BY DEF LockInv
<1> QED
  BY <1>1, InitLockInv, NextLockInv, PTL DEF Spec

\* Never more dump goroutines run than the wait group has places, and none of
\* the returns of a goroutine gives back a place twice or keeps it.
THEOREM LimitHolds == Spec => []LimitKept
<1>1. LockInv => LimitKept
  BY DEF LockInv, PlacesCounted, TypeOK, LimitKept, Busy
<1> QED
  BY <1>1, InitLockInv, NextLockInv, PTL DEF Spec

-----------------------------------------------------------------------------
(* The exec files *)

\* The file that a dump goroutine has made is empty until it merges into it.
DumpFileEmpty ==
    \A s \in Service : Running(s, "dump") => \A f \in Named(s, go[s].file) : f.units = {}

\* What is going to be removed is there, and the file that replaces it has all of it.
MergedFileReady ==
    merging # None =>
        /\ merging.old \subseteq exec[merging.svc]
        /\ \A f \in merging.old : f.name # merging.new
        /\ ~merging.failed => [name |-> merging.new, units |-> Content(merging.old)] \in exec[merging.svc]

FileInv == DumpFileEmpty /\ MergedFileReady

\* While a goroutine dumps there is no merge, and the other way round.
LEMMA DumpsAlone ==
  ASSUME LockInv, NEW s \in Service, go[s] # None
  PROVE  merging = None /\ Doing("dump")
<1>1. Doing("dump")
  BY DEF LockInv, NoStraggler, NoService
<1>2. ~Doing("merge")
  BY <1>1 DEF Doing
<1> QED
  BY <1>1, <1>2 DEF LockInv, MergeHeld

LEMMA MergesAlone ==
  ASSUME LockInv, Doing("merge") \/ merging # None
  PROVE  Doing("merge") /\ go = NoService(None)
<1>1. Doing("merge")
  BY DEF LockInv, MergeHeld
<1>2. ~Doing("dump")
  BY <1>1 DEF Doing
<1> QED
  BY <1>1, <1>2 DEF LockInv, NoStraggler

LEMMA FileFrame ==
  ASSUME FileInv, UNCHANGED <<exec, merging>>,
         \A s \in Service : Running(s, "dump")' => Running(s, "dump") /\ go'[s].file = go[s].file
  PROVE  FileInv'
BY DEF FileInv, DumpFileEmpty, MergedFileReady, Named, Content

LEMMA DumpFileInv ==
  ASSUME LockInv, FileInv, NEW s \in Service, Dump(s)
  PROVE  FileInv'
<1>1. TypeOK
  BY DEF LockInv
<1>2. CASE MarkPanics(s)
  BY <1>2 DEF MarkPanics, Restart, Fresh, NoService, FileInv, DumpFileEmpty, MergedFileReady, Running
<1>3. CASE DeletedReturns(s) \/ GetFails(s) \/ (\E p \in Pod : DumpFails(s, p)) \/ Mark(s)
  <2>1. \A t \in Service : go'[t] = go[t] \/ go'[t] = None
    BY <1>1, <1>3 DEF DeletedReturns, GetFails, DumpFails, Mark, Done, TypeOK
  <2>2. UNCHANGED <<exec, merging>>
    BY <1>3 DEF DeletedReturns, GetFails, DumpFails, Mark, fileVars, mergeVars
  <2> QED
    BY <2>1, <2>2, FileFrame DEF Running
<1>4. CASE Get(s)
  <2>1. go'[s].file = FreeName(s) /\ (\A t \in Service \ {s} : go'[t] = go[t]) /\ go[s] # None
    BY <1>1, <1>4, GetGoes DEF GoesTo, Dumper, Busy
  <2>2. /\ exec'[s] = exec[s] \cup {[name |-> FreeName(s), units |-> {}]}
        /\ \A t \in Service \ {s} : exec'[t] = exec[t]
        /\ merging' = merging
    BY <1>1, <1>4 DEF Get, TypeOK, mergeVars
  <2>3. MergedFileReady'
    BY <2>1, <2>2, DumpsAlone DEF MergedFileReady
  <2>4. \A f \in exec'[s] : f.name = FreeName(s) => f.units = {}
    <3>1. \A f \in exec[s] : f.name # FreeName(s)
      BY <1>1, FreeNameFree DEF Named
    <3> QED
      BY <2>2, <3>1
  <2>5. ASSUME NEW t \in Service, Running(t, "dump")'
        PROVE  \A f \in Named(t, go[t].file)' : f.units = {}
    <3>1. CASE t = s
      BY <2>1, <2>4, <3>1 DEF Named
    <3>2. CASE t # s
      BY <2>1, <2>2, <2>5, <3>2 DEF Named, FileInv, DumpFileEmpty, Running
    <3> QED
      BY <3>1, <3>2
  <2> QED
    BY <2>3, <2>5 DEF FileInv, DumpFileEmpty
<1>5. ASSUME NEW p \in Pod, DumpPod(s, p) \/ DialFails(s, p)
      PROVE  FileInv'
  <2>1. /\ \A t \in Service \ {s} : go'[t] = go[t]
        /\ go'[s].file = go[s].file /\ Running(s, "dump")
    <3>1. CASE DumpPod(s, p)
      BY <1>1, <3>1, DumpPodGoes DEF GoesTo, Dumper, DumpPod
    <3>2. CASE DialFails(s, p)
      BY <1>1, <3>2, DialFailsGoes DEF GoesTo, Dumper, DialFails
    <3> QED
      BY <1>5, <3>1, <3>2
  <2>2. UNCHANGED <<exec, merging>>
    BY <1>5 DEF DumpPod, DialFails, fileVars, mergeVars
  <2> QED
    BY <2>1, <2>2, FileFrame DEF Running
<1>6. CASE MergePods(s)
  <2>1. PICK failed \in BOOLEAN : MergePodsTo(s, failed)
    BY <1>1, <1>6, MergePodsGoes
  <2>2. go'[s].at = "note" /\ (\A t \in Service \ {s} : go'[t] = go[t]) /\ go[s] # None
    BY <2>1 DEF MergePodsTo, GoesTo, Dumper, Busy
  <2>3. merging' = merging /\ \A t \in Service \ {s} : exec'[t] = exec[t]
    BY <1>1, <1>6 DEF MergePods, mergeVars, TypeOK
  <2>4. MergedFileReady'
    BY <2>2, <2>3, DumpsAlone DEF MergedFileReady
  <2>5. DumpFileEmpty'
    BY <2>2, <2>3 DEF FileInv, DumpFileEmpty, Running, Named
  <2> QED
    BY <2>4, <2>5 DEF FileInv
<1>7. CASE Note(s)
  <2>1. go'[s].at = "mark" /\ \A t \in Service \ {s} : go'[t] = go[t]
    BY <1>1, <1>7, NoteGoes DEF GoesTo, Dumper
  <2>2. UNCHANGED <<exec, merging>>
    BY <1>7 DEF Note, fileVars, mergeVars
  <2> QED
    BY <2>1, <2>2, FileFrame DEF Running
<1> QED
  BY <1>2, <1>3, <1>4, <1>5, <1>6, <1>7 DEF Dump

LEMMA RangeFileInv ==
  ASSUME LockInv, FileInv, RangeStep
  PROVE  FileInv'
<1>1. TypeOK
  BY DEF LockInv
<1>2. CASE RangeStops \/ (\E s \in Service : MergeSkips(s))
  BY <1>2, FileFrame DEF RangeStops, MergeSkips, fileVars, mergeVars, Running
<1>3. CASE MergeReturns \/ RemoveMerged
  <2>1. merging' = None /\ go' = NoService(None)
    BY <1>3, MergesAlone DEF MergeReturns, RemoveMerged, dumpVars
  <2> QED
    BY <2>1 DEF FileInv, DumpFileEmpty, MergedFileReady, Running, NoService
<1>4. ASSUME NEW s \in Service, RangeDumps(s)
      PROVE  FileInv'
  <2>1. UNCHANGED <<exec, merging>> /\ go'[s].at = "get" /\ \A t \in Service \ {s} : go'[t] = go[t]
    BY <1>1, <1>4 DEF RangeDumps, fileVars, mergeVars, NewDumper, TypeOK
  <2> QED
    BY <2>1, FileFrame DEF Running
<1>5. ASSUME NEW s \in Service, MergeSvc(s)
      PROVE  FileInv'
  <2>1. go' = NoService(None)
    BY <1>5, MergesAlone DEF MergeSvc
  <2>2. PICK failed \in BOOLEAN :
          /\ merging' = [svc |-> s, old |-> exec[s], new |-> FreeName(s), failed |-> failed]
          /\ exec' = [exec EXCEPT ![s] = @ \cup
               {[name |-> FreeName(s), units |-> IF failed THEN {} ELSE Content(exec[s])]}]
    BY <1>5 DEF MergeSvc
  <2>3. \A f \in exec[s] : f.name # FreeName(s)
    BY <1>1, FreeNameFree DEF Named
  <2>4. /\ merging'.svc = s /\ merging'.old = exec[s] /\ merging'.new = FreeName(s) /\ merging'.failed = failed
        /\ exec[s] \subseteq exec'[s]
        /\ ~failed => [name |-> FreeName(s), units |-> Content(exec[s])] \in exec'[s]
    BY <1>1, <2>2 DEF TypeOK
  <2>5. MergedFileReady'
    BY <2>3, <2>4 DEF MergedFileReady, Content
  <2> QED
    BY <2>1, <2>5 DEF FileInv, DumpFileEmpty, Running, NoService
<1> QED
  BY <1>2, <1>3, <1>4, <1>5 DEF RangeStep

LEMMA NextFileInv ==
  ASSUME LockInv, FileInv, [Next]_vars
  PROVE  FileInv'
<1>1. ASSUME UNCHANGED <<exec, merging, go>>
      PROVE  FileInv'
  BY <1>1, FileFrame DEF Running
<1>2. CASE UNCHANGED vars
  BY <1>1, <1>2 DEF vars, fileVars, mergeVars, dumpVars
<1>3. ASSUME NEW r \in Caller, Begin(r) \/ Lock(r) \/ Returns(r)
      PROVE  FileInv'
  BY <1>1, <1>3 DEF Begin, Lock, Returns, DumpReturns, MergeAllReturns, fileVars, mergeVars, dumpVars
<1>4. CASE Project
  BY <1>1, <1>4 DEF Project, MergeProject, MergeProjectFails, Deliver, fileVars, mergeVars, dumpVars
<1>5. CASE Environment
  <2>1. CASE Crash
    BY <2>1 DEF Crash, Restart, Fresh, NoService, FileInv, DumpFileEmpty, MergedFileReady, Running
  <2>2. CASE ~Crash
    BY <1>1, <1>5, <2>2 DEF Environment, Execute, PodChanges, SavePods, Delete, Cancel, fileVars, mergeVars, dumpVars
  <2> QED
    BY <2>1, <2>2
<1> QED
  BY <1>2, <1>3, <1>4, <1>5, DumpFileInv, RangeFileInv DEF Next, System

LEMMA InitFileInv == Init => FileInv
BY DEF Init, Fresh, NoService, FileInv, DumpFileEmpty, MergedFileReady, Running

\* The steps that change files
LEMMA ExecChanges ==
  ASSUME [Next]_vars, exec' # exec
  PROVE  RemoveMerged \/ \E s \in Service : Get(s) \/ MergePods(s) \/ MergeSvc(s)
<1>1. CASE UNCHANGED vars
  BY <1>1 DEF vars, fileVars
<1>2. ASSUME NEW r \in Caller, Begin(r) \/ Lock(r) \/ Returns(r)
      PROVE  FALSE
  BY <1>2 DEF Begin, Lock, Returns, DumpReturns, MergeAllReturns, fileVars
<1>3. CASE Project
  BY <1>3 DEF Project, MergeProject, MergeProjectFails, Deliver, fileVars
<1>4. CASE Environment
  BY <1>4 DEF Environment, Execute, PodChanges, SavePods, Delete, Cancel, Crash, Restart, fileVars
<1>5. CASE RangeStep
  BY <1>5 DEF RangeStep, RangeStops, MergeReturns, RangeDumps, MergeSkips, fileVars
<1>6. ASSUME NEW s \in Service, Dump(s)
      PROVE  Get(s) \/ MergePods(s)
  BY <1>6 DEF Dump, DeletedReturns, GetFails, DumpPod, DialFails, DumpFails, Note, Mark, MarkPanics, Restart, fileVars
<1> QED
  BY <1>1, <1>2, <1>3, <1>4, <1>5, <1>6 DEF Next, System

\* The removal of merged files loses nothing.
LEMMA RemoveKeeps ==
  ASSUME LockInv, FileInv, RemoveMerged, ~merging.failed
  PROVE  Content(exec[merging.svc]) \subseteq Content(exec'[merging.svc])
<1> DEFINE t == merging.svc
<1> DEFINE new == [name |-> merging.new, units |-> Content(merging.old)]
<1>1. TypeOK /\ t \in Service
  BY DEF LockInv, RemoveMerged, TypeOK, Merging
<1>2. new \in exec[t] /\ new \notin merging.old
  BY DEF RemoveMerged, FileInv, MergedFileReady
<1>3. exec[t] \ merging.old \subseteq exec'[t]
  BY <1>1 DEF RemoveMerged, TypeOK
<1>4. new \in exec'[t] /\ new.units = Content(merging.old)
  BY <1>2, <1>3
<1> HIDE DEF new
<1> QED
  BY <1>3, <1>4 DEF Content

\* What a step does to the files of a service
LEMMA FilesStay ==
  ASSUME LockInv, FileInv, [Next]_vars, NEW t \in Service
  PROVE  Content(exec[t]) \subseteq Content(exec'[t]) \/ reg'[t].ErrorMessage
<1>1. TypeOK
  BY DEF LockInv
<1>2. ASSUME exec[t] \subseteq exec'[t]
      PROVE  Content(exec[t]) \subseteq Content(exec'[t])
  BY <1>2 DEF Content
<1>3. CASE UNCHANGED exec
  BY <1>2, <1>3
<1>4. ASSUME NEW s \in Service, Get(s)
      PROVE  exec[t] \subseteq exec'[t]
  BY <1>1, <1>4 DEF Get, TypeOK
<1>5. ASSUME NEW s \in Service, MergeSvc(s)
      PROVE  exec[t] \subseteq exec'[t]
  BY <1>1, <1>5 DEF MergeSvc, TypeOK
<1>6. ASSUME NEW s \in Service, MergePods(s)
      PROVE  Content(exec[t]) \subseteq Content(exec'[t])
  <2>1. PICK failed \in BOOLEAN : MergePodsTo(s, failed)
    BY <1>1, <1>6, MergePodsGoes
  <2>2. CASE failed \/ t # s
    BY <1>1, <1>2, <2>1, <2>2 DEF MergePodsTo, TypeOK
  <2>3. CASE ~failed /\ t = s
    <3>1. exec[s] \ Named(s, go[s].file) \subseteq exec'[s]
      BY <1>1, <2>1, <2>3 DEF MergePodsTo, TypeOK
    <3>2. \A f \in Named(s, go[s].file) : f.units = {}
      BY <1>6 DEF MergePods, FileInv, DumpFileEmpty
    <3> QED
      BY <2>3, <3>1, <3>2 DEF Content
  <2> QED
    BY <2>2, <2>3
<1>7. ASSUME RemoveMerged, t = merging.svc, ~merging.failed
      PROVE  Content(exec[t]) \subseteq Content(exec'[t])
  BY <1>7, RemoveKeeps
<1>8. CASE RemoveMerged
  <2>1. merging.svc \in Service
    BY <1>1, <1>8 DEF RemoveMerged, TypeOK, Merging
  <2>2. CASE t # merging.svc
    BY <1>1, <1>2, <1>8, <2>1, <2>2 DEF RemoveMerged, TypeOK
  <2>3. CASE t = merging.svc /\ merging.failed
    <3> DEFINE b == reg[t].ErrorMessage \/ merging.failed
    <3>1. reg' = [reg EXCEPT ![t] = [@ EXCEPT !.ErrorMessage = b]]
      BY <1>8, <2>3 DEF RemoveMerged, NoteMerge
    <3>2. b = TRUE
      BY <2>3
    <3> HIDE DEF b
    <3> QED
      BY <1>1, <3>1, <3>2 DEF TypeOK, Registered
  <2> QED
    BY <1>7, <1>8, <2>2, <2>3
<1>9. CASE exec' # exec
  BY <1>2, <1>4, <1>5, <1>6, <1>8, <1>9, ExecChanges
<1> QED
  BY <1>3, <1>9

\* What has been dumped into the files of a service is not lost by a merge that
\* races a dump, by files that cannot be removed or by a crash in between, but
\* by a failed merge only, which leaves a note at the service.
THEOREM DumpedIsKept == Spec => DumpedStays
<1>1. ASSUME LockInv, FileInv, [Next]_vars
      PROVE  [\A s \in Service : Content(exec[s]) \subseteq Content(exec'[s]) \/ reg'[s].ErrorMessage]_vars
  BY <1>1, FilesStay
<1>2. Spec => [](LockInv /\ FileInv)
  BY InitLockInv, NextLockInv, InitFileInv, NextFileInv, PTL DEF Spec
<1> QED
  BY <1>1, <1>2, PTL DEF Spec, DumpedStays

=============================================================================
