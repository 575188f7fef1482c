------------------------------- MODULE MCJobs -------------------------------
(***************************************************************************)
(* Instances of Jobs for TLC.                                              *)
(***************************************************************************)
EXTENDS Jobs, TLC

\* The addresses are interchangeable, and so are the plans.
Symmetry == Permutations(Job) \cup Permutations(Plan)

\* What an address held before it was freed is overwritten when it is
\* allocated again, and nothing reads it in between.
Mask(f, none) == [j \in Job |-> IF Unused(j) THEN none ELSE f[j]]

View == <<RunJobs, Mask(PlanID, NoPlan), Mask(Status, "none"), Mask(JobStatus, "none"),
          ctxDone \cup {j \in Job : Unused(j)}, Mask(DumpLock, {}), pc, job, inner,
          [j \in Job |-> IF pc[<<"main", j>>] = "done" THEN 0 ELSE loopTimes[j]],
          watch, stale, dir, srvVars, crashes>>

\* Bounds of the instance with two plans: it stops at a stale store, and the
\* users end or cancel one of the plans only.
NotStale == stale = {}

OnePlanEnds ==
    Cardinality({p \in Plan : srv[p] \in {"ending", "cancel", "success"}}) <= 1
=============================================================================
