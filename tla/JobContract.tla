----------------------------- MODULE JobContract -----------------------------
(***************************************************************************)
(* What a Job promises the code that owns it: the life of a job as seen    *)
(* through its public interface (the signals of job.h and the deletion of  *)
(* the object), without threads, locks or event queues.                    *)
(*                                                                         *)
(*   - a job is started at most once, and then reports exactly one result; *)
(*   - progress is only announced while the operation is in progress;      *)
(*   - a started job is deleted after its result, and only then;           *)
(*   - a job that was executed synchronously, or was never started, is     *)
(*     only deleted by its owner, and reports nothing;                     *)
(*   - once the event loop has ended, no job announces anything.           *)
(***************************************************************************)
EXTENDS Naturals

CONSTANTS Jobs,      \* the jobs an application creates
          Outcomes   \* the results an operation can have

VARIABLES
  phase,      \* phase[j]: where the job is in its life
  report,     \* report[j]: the results that were emitted, in a set
  progress,   \* progress[j]: number of progress announcements
  looping     \* the application's event loop is running

vars == <<phase, report, progress, looping>>

Phases == {"fresh", "running", "executed", "reported", "gone"}

TypeOK ==
  /\ phase \in [Jobs -> Phases]
  /\ report \in [Jobs -> SUBSET Outcomes]
  /\ progress \in [Jobs -> Nat]
  /\ looping \in BOOLEAN

Init ==
  /\ phase = [j \in Jobs |-> "fresh"]
  /\ report = [j \in Jobs |-> {}]
  /\ progress = [j \in Jobs |-> 0]
  /\ looping = TRUE

Move(j, from, to) ==
  /\ phase[j] = from
  /\ phase' = [phase EXCEPT ![j] = to]

Start(j) ==
  /\ Move(j, "fresh", "running")
  /\ UNCHANGED <<report, progress, looping>>

Execute(j) ==
  /\ Move(j, "fresh", "executed")
  /\ UNCHANGED <<report, progress, looping>>

\* A synchronous execution posts its announcements too; the event loop
\* delivers them after exec() has returned.
Announce(j) ==
  /\ looping
  /\ phase[j] \in {"running", "executed"}
  /\ progress' = [progress EXCEPT ![j] = @ + 1]
  /\ UNCHANGED <<phase, report, looping>>

Report(j, r) ==
  /\ looping
  /\ Move(j, "running", "reported")
  /\ report' = [report EXCEPT ![j] = {r}]
  /\ UNCHANGED <<progress, looping>>

Vanish(j) ==
  /\ Move(j, "reported", "gone")
  /\ UNCHANGED <<report, progress, looping>>

Discard(j) ==
  /\ phase[j] \in {"fresh", "executed"}
  /\ phase' = [phase EXCEPT ![j] = "gone"]
  /\ UNCHANGED <<report, progress, looping>>

EndLoop ==
  /\ looping
  /\ looping' = FALSE
  /\ UNCHANGED <<phase, report, progress>>

Next ==
  \/ \E j \in Jobs :
       \/ Start(j) \/ Execute(j) \/ Announce(j) \/ Vanish(j) \/ Discard(j)
       \/ \E r \in Outcomes : Report(j, r)
  \/ EndLoop

Spec == Init /\ [][Next]_vars
==============================================================================
