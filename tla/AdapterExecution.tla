--------------------------- MODULE AdapterExecution ---------------------------
(***************************************************************************)
(* `orbitfabric adapter execute` from the launch of the endpoint on: an     *)
(* output directory that outlives the runs, the result file an adapter      *)
(* writes there, and what the command makes of it.  The adapter keeps the   *)
(* execution contract: it writes results of the operation it was asked for  *)
(* and exits with zero exactly after one that says so, but it may crash     *)
(* before it writes one.                                                    *)
(***************************************************************************)
CONSTANTS
  Procs,       \* execute commands on one output directory
  Operations,  \* the operations of the package
  None,        \* no file, no operation, no report
  Unfinished   \* a file that does not conform yet

Succeeded == {"succeeded", "succeeded_with_warnings"}
Outcomes == Succeeded \cup {"failed"}
Result == [operation : Operations, outcome : Outcomes]

VARIABLES
  file,    \* integration_result.json: None, Unfinished or a result
  pc,      \* "idle", "adapter", "exited" or "reported"
  asked,   \* the operation the adapter was started with
  code,    \* "zero" or "nonzero", of the adapter
  report   \* the result in the execution report

vars == <<file, pc, asked, code, report>>

TypeOK ==
  /\ file \in Result \cup {None, Unfinished}
  /\ pc \in [Procs -> {"idle", "adapter", "exited", "reported"}]
  /\ asked \in [Procs -> Operations \cup {None}]
  /\ code \in [Procs -> {"zero", "nonzero"}]
  /\ report \in [Procs -> Result \cup {None}]

Return(p, l, r) ==
  /\ pc' = [pc EXCEPT ![p] = l]
  /\ report' = [report EXCEPT ![p] = r]

\* The checks of execute passed; nothing in the output directory is touched.
Run(p) ==
  /\ pc[p] \in {"idle", "reported"}
  /\ \E o \in Operations : asked' = [asked EXCEPT ![p] = o]
  /\ Return(p, "adapter", None)
  /\ UNCHANGED <<file, code>>

\* The adapter writes its result, which takes a while, and exits as it says.
AdapterWrites(p) ==
  /\ pc[p] = "adapter"
  /\ file' = Unfinished
  /\ UNCHANGED <<pc, asked, code, report>>

AdapterFinishes(p) ==
  /\ pc[p] = "adapter"
  /\ \E o \in Outcomes :
       /\ file' = [operation |-> asked[p], outcome |-> o]
       /\ code' = [code EXCEPT ![p] = IF o \in Succeeded THEN "zero" ELSE "nonzero"]
  /\ pc' = [pc EXCEPT ![p] = "exited"]
  /\ UNCHANGED <<asked, report>>

AdapterCrashes(p) ==
  /\ pc[p] = "adapter"
  /\ code' = [code EXCEPT ![p] = "nonzero"]
  /\ pc' = [pc EXCEPT ![p] = "exited"]
  /\ UNCHANGED <<file, asked, report>>

\* The file is missing or does not conform: ExecutionError.
NoResult(p) ==
  /\ pc[p] = "exited"
  /\ file \in {None, Unfinished}
  /\ Return(p, "idle", None)
  /\ UNCHANGED <<file, asked, code>>

\* Any conformant result that is in the directory is the result of this run.
TakeResult(p) ==
  /\ pc[p] = "exited"
  /\ file \notin {None, Unfinished}
  /\ Return(p, "reported", file)
  /\ UNCHANGED <<file, asked, code>>

Init ==
  /\ file = None
  /\ pc = [p \in Procs |-> "idle"]
  /\ asked = [p \in Procs |-> None]
  /\ code = [p \in Procs |-> "zero"]
  /\ report = [p \in Procs |-> None]

Next == \E p \in Procs :
  \/ Run(p)
  \/ AdapterWrites(p)
  \/ AdapterFinishes(p)
  \/ AdapterCrashes(p)
  \/ NoResult(p)
  \/ TakeResult(p)

Spec == Init /\ [][Next]_vars

\* What the execution contract demands of a caller: a result that contradicts the requested
\* operation or the exit status is a violation, never a report.
ContradictionsRefused ==
  \A p \in Procs : pc[p] = "reported" =>
    /\ report[p].operation = asked[p]
    /\ (code[p] = "zero") <=> (report[p].outcome \in Succeeded)

=============================================================================
