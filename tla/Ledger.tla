------------------------------- MODULE Ledger -------------------------------
(***************************************************************************)
(* What the data plane of a job promises to whoever asks for a report.     *)
(*                                                                         *)
(* Tests execute units of the code of services.  A report is due to have   *)
(* what was kept when it began, less what a fault has cost since; nothing  *)
(* else may take a due unit away, whatever is dumped, merged and removed   *)
(* in the meantime, and the report that is delivered has every due unit    *)
(* and nothing that was never executed.  There are no files, goroutines    *)
(* and locks here: Coverage has them and implements this.                  *)
(***************************************************************************)
CONSTANTS Service, Unit, None

VARIABLES
    executed,   \* the units executed so far
    kept,       \* per service: the units that are still somewhere
    due,        \* per service: what the report under way has to have
    report      \* the report delivered last

vars == <<executed, kept, due, report>>

Init ==
    /\ executed = {}
    /\ kept = [s \in Service |-> {}]
    /\ due = [s \in Service |-> {}]
    /\ report = None

\* A test executes a unit of a service for the first time.
Execute(s, u) ==
    /\ u \notin executed
    /\ executed' = executed \cup {u}
    /\ kept' = [kept EXCEPT ![s] = @ \cup {u}]
    /\ UNCHANGED <<due, report>>

\* A report begins: it can ask only for what is kept.
Begin ==
    /\ \A s \in Service : due'[s] \subseteq kept[s]
    /\ UNCHANGED <<executed, kept, report>>

\* A fault of one service costs units of that service only, and the report is
\* not blamed for them.
Fault(s) ==
    /\ kept'[s] \subseteq kept[s] /\ due'[s] \subseteq due[s] \cap kept'[s]
    /\ \A t \in Service \ {s} : kept'[t] = kept[t] /\ due'[t] = due[t]
    /\ UNCHANGED <<executed, report>>

\* The job is cancelled or the agent starts again: no report is under way.
Stop ==
    /\ \A s \in Service : kept'[s] \subseteq kept[s] /\ due'[s] = {}
    /\ UNCHANGED <<executed, report>>

\* Units that no report waits for may get lost, by a fault of an earlier time.
Forget ==
    /\ \A s \in Service : kept'[s] \subseteq kept[s] /\ due[s] \subseteq kept'[s]
    /\ UNCHANGED <<executed, due, report>>

Deliver ==
    /\ report' # None /\ report' \subseteq executed
    /\ \A s \in Service : due[s] \subseteq report' /\ due'[s] = {}
    /\ UNCHANGED <<executed, kept>>

Next ==
    \/ \E s \in Service, u \in Unit : Execute(s, u)
    \/ \E s \in Service : Fault(s)
    \/ Begin \/ Stop \/ Forget \/ Deliver

Spec == Init /\ [][Next]_vars
=============================================================================
