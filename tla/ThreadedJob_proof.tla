-------------------------- MODULE ThreadedJob_proof --------------------------
(***************************************************************************)
(* Proofs about ThreadedJob, for any set of jobs, any number of GpgME      *)
(* operations per worker function and any number of progress callbacks.    *)
(*                                                                         *)
(* The invariants are not inductive by themselves: they rest on what the   *)
(* queue of a job can hold (JobInv), namely progress events followed by at *)
(* most one closing event, "finished" or "delete", and on what the closing *)
(* event says about the thread.                                            *)
(***************************************************************************)
EXTENDS ThreadedJob, TLAPS

\* The events a job's queue can close with.
Closing == {"finished", "delete"}
Ending(j) == events[j] # <<>> /\ events[j][Len(events[j])] \in Closing

\* Nothing is queued behind a closing event.
QueueShape(j) ==
  \A i \in 1..Len(events[j]) : events[j][i] \in Closing => i = Len(events[j])

\* A closing event means that the worker function has returned.
ClosedByThread(j) ==
  \A i \in 1..Len(events[j]) :
     events[j][i] \in Closing => worker[j] \in {"finishing", "stopped"}

\* The mutex is held exactly while run() executes the worker function.
LockedInRun(j) == locked[j] <=> worker[j] \in {"running", "inOp"}

\* Progress is delivered or still queued.
ProgressConserved(j) ==
  Exists(j) => sent[j] = seen[j] + Len(events[j]) - (IF Ending(j) THEN 1 ELSE 0)

\* The stages of a job's life and its report agree.
Stages(j) ==
  /\ life[j] = "none" => worker[j] = "off" /\ ~executed[j]
  /\ life[j] # "deleted" /\ worker[j] = "off" /\ ~executed[j] =>
       events[j] = <<>> /\ sent[j] = 0 /\ seen[j] = 0
  /\ life[j] = "deleting" => Len(events[j]) = 1 /\ events[j][1] = "delete"
  /\ life[j] # "deleting" => \A i \in 1..Len(events[j]) : events[j][i] # "delete"
  /\ life[j] \in {"none", "alive"} => report[j] = {}
  /\ life[j] = "deleting" => report[j] # {}
  /\ life[j] = "deleted" => worker[j] \in {"off", "finishing", "stopped"} /\ events[j] = <<>>
  /\ report[j] # {} => worker[j] \in {"finishing", "stopped"}
  /\ executed[j] => worker[j] = "off"

JobInv(j) ==
  /\ life[j] # "aborted"
  /\ QueueShape(j)
  /\ ClosedByThread(j)
  /\ LockedInRun(j)
  /\ ProgressConserved(j)
  /\ Stages(j)
  /\ report[j] # {} => seen[j] = sent[j]
  /\ report[j] \in {{}, {result[j]}}
  /\ report[j] \in SUBSET Outcomes
  /\ worker[j] \in {"started", "inOp"} => opsLeft[j] > 0
  /\ worker[j] = "running" /\ opsLeft[j] = 0 => result[j] \in Outcomes
  /\ worker[j] \in {"returned", "finishing", "stopped"} => result[j] \in Outcomes
  /\ j \in contextMap <=> Exists(j)

IInv == TypeOK /\ \A j \in Jobs : JobInv(j)

------------------------------------------------------------------------------
(* Type correctness.                                                       *)

\* The event at the head of a queue, as an element of the sequence.
LEMMA HeadOfQueue ==
  ASSUME TypeOK, NEW j \in Jobs, NEW e, Pending(j, e)
  PROVE  /\ Len(events[j]) \in Nat /\ Len(events[j]) > 0
         /\ events[j][1] = e
         /\ Len(Tail(events[j])) = Len(events[j]) - 1
         /\ \A i \in 1..(Len(events[j]) - 1) : Tail(events[j])[i] = events[j][i + 1]
  BY DEF TypeOK, Pending

\* When the end of the thread is delivered it is the only event of the job,
\* the thread has left run(), and nothing was reported before.
LEMMA FinishedEvent ==
  ASSUME TypeOK, NEW j \in Jobs, JobInv(j), Pending(j, "finished")
  PROVE  /\ Len(events[j]) = 1
         /\ worker[j] \in {"finishing", "stopped"}
         /\ life[j] = "alive"
         /\ result[j] \in Outcomes
         /\ report[j] = {}
         /\ sent[j] = seen[j]
<1>1. Len(events[j]) \in Nat /\ Len(events[j]) > 0 /\ events[j][1] = "finished"
  BY HeadOfQueue
<1>2. Len(events[j]) = 1 /\ worker[j] \in {"finishing", "stopped"}
  <2>1. 1 \in 1..Len(events[j]) /\ events[j][1] \in Closing
    BY <1>1 DEF Closing
  <2>2. QED
    BY <2>1 DEF JobInv, QueueShape, ClosedByThread
<1>3. life[j] = "alive"
  <2>1. life[j] # "deleting"
    BY <1>1 DEF JobInv, Stages
  <2>2. QED
    BY <2>1 DEF Pending, Exists
<1>4. Ending(j)
  BY <1>1, <1>2 DEF Ending, Closing, Pending
<1>5. sent[j] = seen[j]
  BY <1>2, <1>3, <1>4 DEF JobInv, ProgressConserved, Exists, TypeOK
<1>6. QED
  BY <1>2, <1>3, <1>5 DEF JobInv, Stages

\* The deletion of a job is only ever delivered when its thread has ended.
LEMMA DeleteEvent ==
  ASSUME TypeOK, NEW j \in Jobs, JobInv(j), Pending(j, "delete")
  PROVE  /\ life[j] = "deleting"
         /\ worker[j] \in {"finishing", "stopped"}
<1>1. Len(events[j]) \in Nat /\ Len(events[j]) > 0 /\ events[j][1] = "delete"
  BY HeadOfQueue
<1>2. QED
  BY <1>1 DEF JobInv, Stages, ClosedByThread, Closing

\* Every action keeps the variables in their types.
LEMMA TypeStep == IInv /\ [Next]_vars => TypeOK'
<1> SUFFICES ASSUME IInv, [Next]_vars PROVE TypeOK'
  OBVIOUS
<1>a. TypeOK
  BY DEF IInv
<1>b. \A j \in Jobs : JobInv(j)
  BY DEF IInv
<1> USE BoundsAssumption, <1>a
    DEF TypeOK, Lives, Workers, Events, Outcomes, NoResult, threadVars, gpgmeVars, ownerVars
<1>1. CASE UNCHANGED vars
  BY <1>1 DEF vars
<1>2. CASE AboutToQuit
  BY <1>2 DEF AboutToQuit
<1>3. ASSUME NEW j \in Jobs, OwnerStep(j) PROVE TypeOK'
  <2>1. CASE Construct(j)
    BY <2>1 DEF Construct
  <2>2. CASE SetWorkerFunction(j)
    BY <2>2 DEF SetWorkerFunction
  <2>3. CASE StartNow(j)
    BY <2>3 DEF StartNow, StartThread, WorkerMove
  <2>4. CASE Run(j)
    BY <2>4 DEF Run, StartThread, WorkerMove
  <2>5. CASE Exec(j)
    BY <2>5 DEF Exec
  <2>6. CASE SlotCancel(j)
    BY <2>6 DEF SlotCancel
  <2>7. CASE DeleteByOwner(j)
    BY <2>7 DEF DeleteByOwner, Destroy
  <2>8. QED
    BY <1>3, <2>1, <2>2, <2>3, <2>4, <2>5, <2>6, <2>7 DEF OwnerStep
<1>4. ASSUME NEW j \in Jobs, WorkerStep(j) PROVE TypeOK'
  <2>1. CASE EnterRun(j)
    BY <2>1 DEF EnterRun, WorkerMove
  <2>2. CASE BeginOp(j)
    BY <2>2 DEF BeginOp, WorkerMove
  <2>3. CASE ShowProgress(j)
    BY <2>3 DEF ShowProgress, Post
  <2>4. CASE EndOp(j)
    BY <2>4, <1>b DEF EndOp, WorkerMove, JobInv
  <2>5. CASE ReturnFromRun(j)
    BY <2>5 DEF ReturnFromRun, WorkerMove
  <2>6. CASE EmitFinished(j)
    BY <2>6 DEF EmitFinished, WorkerMove, Post
  <2>7. CASE ThreadStops(j)
    BY <2>7 DEF ThreadStops, WorkerMove
  <2>8. QED
    BY <1>4, <2>1, <2>2, <2>3, <2>4, <2>5, <2>6, <2>7 DEF WorkerStep
<1>5. ASSUME NEW j \in Jobs, LoopStep(j) PROVE TypeOK'
  <2>1. CASE DeliverProgress(j)
    BY <2>1 DEF DeliverProgress, Pending, Consume
  <2>2. CASE SlotFinished(j)
    <3>1. result[j] \in Outcomes
      BY <2>2, <1>b, FinishedEvent DEF SlotFinished
    <3>2. QED
      BY <2>2, <3>1 DEF SlotFinished, Pending
  <2>3. CASE DeferredDelete(j)
    BY <2>3 DEF DeferredDelete, Destroy
  <2>4. QED
    BY <1>5, <2>1, <2>2, <2>3 DEF LoopStep
<1>6. QED
  BY <1>1, <1>2, <1>3, <1>4, <1>5 DEF Next

------------------------------------------------------------------------------
(* The inductive invariant.                                                *)

\* What the invariant says of a job only depends on the job's own state.
Same(k) ==
  /\ life'[k] = life[k] /\ worker'[k] = worker[k] /\ locked'[k] = locked[k]
  /\ opsLeft'[k] = opsLeft[k] /\ result'[k] = result[k] /\ events'[k] = events[k]
  /\ sent'[k] = sent[k] /\ seen'[k] = seen[k] /\ report'[k] = report[k]
  /\ executed'[k] = executed[k]
  /\ k \in contextMap' <=> k \in contextMap

\* For a job whose variables all stay the same, its part of the invariant does too.
LEMMA SameJob ==
  ASSUME NEW k \in Jobs, JobInv(k), Same(k)
  PROVE  JobInv(k)'
  BY DEF Same, JobInv, QueueShape, ClosedByThread, LockedInRun, ProgressConserved, Stages,
         Exists, Ending, Closing

\* The steps of a job leave every other job alone.
LEMMA OthersUntouched ==
  ASSUME TypeOK, NEW j \in Jobs, NEW k \in Jobs \ {j}, OwnerStep(j) \/ WorkerStep(j) \/ LoopStep(j)
  PROVE  Same(k)
<1> USE DEF TypeOK, Same, threadVars, gpgmeVars, ownerVars
<1>1. CASE OwnerStep(j)
  BY <1>1 DEF OwnerStep, Construct, SetWorkerFunction, StartNow, Run, StartThread, WorkerMove,
              Exec, SlotCancel, DeleteByOwner, Destroy
<1>2. CASE WorkerStep(j)
  BY <1>2 DEF WorkerStep, EnterRun, BeginOp, ShowProgress, EndOp, ReturnFromRun, EmitFinished,
              ThreadStops, WorkerMove, Post
<1>3. CASE LoopStep(j)
  BY <1>3 DEF LoopStep, DeliverProgress, Consume, SlotFinished, DeferredDelete, Destroy
<1>4. QED
  BY <1>1, <1>2, <1>3

\* A progress event keeps the count of progress when it is queued, and when it
\* is delivered.
LEMMA ProgressQueued ==
  ASSUME TypeOK, NEW j \in Jobs, ProgressConserved(j), ~Ending(j), ~Ending(j)',
         life' = life, seen' = seen, sent'[j] = sent[j] + 1,
         Len(events[j]) \in Nat, Len(events'[j]) = Len(events[j]) + 1
  PROVE  ProgressConserved(j)'
<1>1. sent[j] \in Nat /\ seen[j] \in Nat
  BY BoundsAssumption DEF TypeOK
<1>2. Exists(j)' <=> Exists(j)
  BY DEF Exists
<1>3. QED
  BY <1>1, <1>2 DEF ProgressConserved

\* Delivering a progress event keeps the count: one less in the queue, one more seen.
LEMMA ProgressDelivered ==
  ASSUME TypeOK, NEW j \in Jobs, ProgressConserved(j), Ending(j)' <=> Ending(j),
         life' = life, sent' = sent, seen'[j] = seen[j] + 1,
         Len(events[j]) \in Nat, Len(events'[j]) = Len(events[j]) - 1
  PROVE  ProgressConserved(j)'
<1>1. sent[j] \in Nat /\ seen[j] \in Nat
  BY BoundsAssumption DEF TypeOK
<1>2. Exists(j)' <=> Exists(j)
  BY DEF Exists
<1>3. CASE Ending(j)
  BY <1>1, <1>2, <1>3 DEF ProgressConserved
<1>4. CASE ~Ending(j)
  <2>1. ~Ending(j)'
    BY <1>4
  <2>2. QED
    BY <1>1, <1>2, <1>4, <2>1 DEF ProgressConserved
<1>5. QED
  BY <1>3, <1>4

\* The steps of a job preserve what the invariant says of it.
LEMMA OwnerKeepsJobInv ==
  ASSUME TypeOK, NEW j \in Jobs, JobInv(j), OwnerStep(j)
  PROVE  JobInv(j)'
<1> USE DEF TypeOK, JobInv, QueueShape, ClosedByThread, LockedInRun, ProgressConserved, Stages,
            Exists, Ending, Closing, threadVars, gpgmeVars, ownerVars, Started
<1>1. CASE Construct(j)
  BY <1>1 DEF Construct
<1>2. CASE SetWorkerFunction(j)
  BY <1>2 DEF SetWorkerFunction
<1>3. CASE StartNow(j)
  BY <1>3 DEF StartNow, StartThread, WorkerMove
<1>4. CASE Run(j)
  BY <1>4 DEF Run, StartThread, WorkerMove
<1>5. CASE Exec(j)
  <2>1. events[j] = <<>> /\ seen[j] = 0 /\ sent[j] = 0
    BY <1>5 DEF Exec
  <2>2. PICK n \in 0..MaxProgress :
          /\ events' = [events EXCEPT ![j] = @ \o [i \in 1..n |-> "progress"]]
          /\ sent' = [sent EXCEPT ![j] = n]
    BY <1>5 DEF Exec
  <2>3. n \in Nat
    BY BoundsAssumption
  <2>4. events'[j] = [i \in 1..n |-> "progress"]
    <3>1. [i \in 1..n |-> "progress"] \in Seq({"progress"})
      BY <2>3
    <3>2. QED
      BY <2>1, <2>2, <3>1
  <2>5. Len(events'[j]) = n /\ \A i \in 1..n : events'[j][i] = "progress"
    BY <2>3, <2>4
  <2>6. ~Ending(j)'
    BY <2>3, <2>5
  <2>7. /\ life' = life /\ worker' = worker /\ locked' = locked /\ result' = result
        /\ opsLeft' = opsLeft /\ seen' = seen /\ report' = report /\ contextMap' = contextMap
        /\ executed'[j] /\ life[j] = "alive" /\ worker[j] = "off" /\ sent'[j] = n
    BY <1>5, <2>2 DEF Exec
  <2>8. ProgressConserved(j)'
    BY <2>1, <2>3, <2>5, <2>6, <2>7
  <2>9. QueueShape(j)' /\ ClosedByThread(j)' /\ Stages(j)'
    BY <2>5, <2>7
  <2>10. QED
    BY <2>7, <2>8, <2>9
<1>6. CASE SlotCancel(j)
  BY <1>6 DEF SlotCancel
<1>7. CASE DeleteByOwner(j)
  BY <1>7 DEF DeleteByOwner, Destroy, ThreadActive
<1>8. QED
  BY ONLY OwnerStep(j), <1>1, <1>2, <1>3, <1>4, <1>5, <1>6, <1>7 DEF OwnerStep

\* The same for the steps of its worker thread.
LEMMA WorkerKeepsJobInv ==
  ASSUME TypeOK, NEW j \in Jobs, JobInv(j), WorkerStep(j)
  PROVE  JobInv(j)'
<1> USE DEF TypeOK, JobInv, QueueShape, ClosedByThread, LockedInRun, ProgressConserved, Stages,
            Exists, Ending, Closing, threadVars, gpgmeVars, ownerVars, Started, WorkerMove
<1>1. CASE EnterRun(j)
  BY <1>1 DEF EnterRun
<1>2. CASE BeginOp(j)
  BY <1>2 DEF BeginOp
<1>3. CASE ShowProgress(j)
  <2>1. /\ events'[j] = Append(events[j], "progress") /\ sent'[j] = sent[j] + 1
        /\ worker[j] = "inOp"
        /\ life' = life /\ worker' = worker /\ locked' = locked /\ result' = result
        /\ opsLeft' = opsLeft /\ seen' = seen /\ report' = report /\ contextMap' = contextMap
        /\ executed' = executed
    BY <1>3 DEF ShowProgress, Post
  <2>2. /\ Len(events'[j]) = Len(events[j]) + 1
        /\ \A i \in 1..Len(events[j]) : events'[j][i] = events[j][i] /\ events[j][i] \notin Closing
        /\ events'[j][Len(events'[j])] = "progress"
    BY <2>1
  <2>3. Len(events[j]) \in Nat
    BY <2>1
  <2>4. ~Ending(j) /\ ~Ending(j)'
    BY ONLY <2>2, <2>3 DEF Ending
  <2>5. ProgressConserved(j)'
    BY <2>1, <2>2, <2>3, <2>4, ProgressQueued
  <2>6. ASSUME NEW i \in 1..Len(events'[j]) PROVE events'[j][i] \notin Closing
    <3>1. i \in 1..Len(events[j]) \/ i = Len(events'[j])
      BY ONLY <2>2, <2>3
    <3>2. QED
      BY ONLY <2>2, <3>1 DEF Closing
  <2>7. QueueShape(j)' /\ ClosedByThread(j)'
    BY ONLY <2>6 DEF QueueShape, ClosedByThread
  <2>8. life[j] # "deleting"
    BY <2>1
  <2>9. Stages(j)'
    BY ONLY Stages(j), <2>1, <2>6, <2>8 DEF Stages, Closing
  <2>10. QED
    BY <2>1, <2>5, <2>7, <2>9
<1>4. CASE EndOp(j)
  BY <1>4 DEF EndOp, Outcomes
<1>5. CASE ReturnFromRun(j)
  BY <1>5 DEF ReturnFromRun
<1>6. CASE EmitFinished(j)
  BY <1>6 DEF EmitFinished, Post
<1>7. CASE ThreadStops(j)
  BY <1>7 DEF ThreadStops
<1>8. QED
  BY ONLY WorkerStep(j), <1>1, <1>2, <1>3, <1>4, <1>5, <1>6, <1>7 DEF WorkerStep

\* The same for the events that the event loop delivers to it.
LEMMA LoopKeepsJobInv ==
  ASSUME TypeOK, NEW j \in Jobs, JobInv(j), LoopStep(j)
  PROVE  JobInv(j)'
<1> USE DEF TypeOK, JobInv, QueueShape, ClosedByThread, LockedInRun, ProgressConserved, Stages,
            Exists, Ending, Closing, threadVars, gpgmeVars, ownerVars, Started
<1>1. CASE DeliverProgress(j)
  <2>1. /\ Len(events[j]) \in Nat /\ Len(events[j]) > 0
        /\ events[j][1] = "progress"
        /\ Len(events'[j]) = Len(events[j]) - 1
        /\ \A i \in 1..(Len(events[j]) - 1) : events'[j][i] = events[j][i + 1]
    BY <1>1, HeadOfQueue DEF DeliverProgress, Consume
  <2>2. /\ seen'[j] = seen[j] + 1 /\ sent' = sent
        /\ life' = life /\ worker' = worker /\ locked' = locked /\ result' = result
        /\ opsLeft' = opsLeft /\ report' = report /\ contextMap' = contextMap
        /\ executed' = executed
    BY <1>1 DEF DeliverProgress
  <2>3. life[j] = "alive" /\ report[j] = {}
    <3>1. life[j] # "deleting"
      BY <2>1
    <3>2. QED
      BY <1>1, <3>1 DEF DeliverProgress, Pending
  <2>4. ~(worker[j] = "off" /\ ~executed[j])
    BY <2>1, <2>3
  <2>5. Ending(j)' <=> Ending(j)
    BY <2>1
  <2>6. ProgressConserved(j)'
    BY <2>1, <2>2, <2>5, ProgressDelivered
  <2>7. QueueShape(j)' /\ ClosedByThread(j)'
    <3>1. ASSUME NEW i \in 1..Len(events'[j]), events'[j][i] \in Closing
          PROVE  i = Len(events'[j]) /\ worker'[j] \in {"finishing", "stopped"}
      <4>1. i + 1 \in 1..Len(events[j]) /\ events[j][i + 1] \in Closing
        BY ONLY <2>1, <3>1
      <4>2. i + 1 = Len(events[j]) /\ worker[j] \in {"finishing", "stopped"}
        BY ONLY <4>1, QueueShape(j), ClosedByThread(j) DEF QueueShape, ClosedByThread
      <4>3. QED
        BY ONLY <2>1, <2>2, <4>2
    <3>2. QED
      BY ONLY <3>1 DEF QueueShape, ClosedByThread
  <2>8. \A i \in 1..Len(events'[j]) : events'[j][i] # "delete"
    <3>1. \A i \in 1..Len(events[j]) : events[j][i] # "delete"
      BY <2>3
    <3>2. \A i \in 1..(Len(events[j]) - 1) : i + 1 \in 1..Len(events[j])
      BY <2>1
    <3>3. QED
      BY ONLY <2>1, <3>1, <3>2
  <2>9. Stages(j)'
    BY ONLY Stages(j), <2>2, <2>3, <2>4, <2>8 DEF Stages
  <2>10. QED
    BY <2>2, <2>3, <2>6, <2>7, <2>9
<1>2. CASE SlotFinished(j)
  <2>1. /\ Len(events[j]) = 1 /\ worker[j] \in {"finishing", "stopped"} /\ life[j] = "alive"
        /\ result[j] \in Outcomes /\ report[j] = {} /\ sent[j] = seen[j]
    BY ONLY TypeOK, JobInv(j), <1>2, FinishedEvent DEF SlotFinished
  <2>2. /\ Len(events'[j]) = 1 /\ events'[j][1] = "delete" /\ life'[j] = "deleting" /\ report'[j] = {result[j]}
        /\ worker' = worker /\ locked' = locked /\ result' = result /\ opsLeft' = opsLeft
        /\ sent' = sent /\ seen' = seen /\ contextMap' = contextMap /\ executed' = executed
    <3>1. Tail(events[j]) \in Seq(Events) /\ Len(Tail(events[j])) = 0
      BY <1>2, <2>1, HeadOfQueue DEF SlotFinished, Pending
    <3>2. events'[j] = Append(Tail(events[j]), "delete")
      BY ONLY TypeOK, <1>2 DEF SlotFinished, TypeOK
    <3>3. Len(events'[j]) = 1 /\ events'[j][1] = "delete"
      BY ONLY <3>1, <3>2
    <3>4. report'[j] = {result[j]}
      BY ONLY TypeOK, <1>2, <2>1 DEF SlotFinished, TypeOK
    <3>5. QED
      BY ONLY TypeOK, <1>2, <3>3, <3>4 DEF SlotFinished, TypeOK, threadVars, gpgmeVars
  <2>3. Ending(j)' /\ Len(events'[j]) = 1
    BY <2>2
  <2>4. ProgressConserved(j)'
    BY BoundsAssumption, <2>1, <2>2, <2>3
  <2>5. QED
    BY <2>1, <2>2, <2>3, <2>4
<1>3. CASE DeferredDelete(j)
  BY <1>3, HeadOfQueue, DeleteEvent DEF DeferredDelete, Destroy, ThreadActive
<1>4. QED
  BY ONLY LoopStep(j), <1>1, <1>2, <1>3 DEF LoopStep

\* The inductive invariant holds in the initial state.
LEMMA InitIInv == Init => IInv
  BY BoundsAssumption
     DEF Init, IInv, TypeOK, Lives, Workers, Events, Outcomes, NoResult, JobInv, QueueShape,
         ClosedByThread, LockedInRun, ProgressConserved, Stages, Exists, Ending, Closing

\* Every step of the owners, the threads and the event loop preserves it.
LEMMA InductiveStep == IInv /\ [Next]_vars => IInv'
<1> SUFFICES ASSUME IInv, [Next]_vars PROVE IInv'
  OBVIOUS
<1>1. TypeOK /\ TypeOK'
  BY TypeStep DEF IInv
<1>2. SUFFICES ASSUME NEW k \in Jobs PROVE JobInv(k)'
  BY <1>1 DEF IInv
<1>3. JobInv(k)
  BY DEF IInv
<1>4. CASE UNCHANGED vars
  <2>1. Same(k)
    BY <1>4 DEF Same, vars, threadVars, gpgmeVars, ownerVars
  <2>2. QED
    BY <1>3, <2>1, SameJob
<1>5. CASE AboutToQuit
  <2>1. Same(k)
    BY <1>1, <1>5 DEF TypeOK, Same, AboutToQuit, threadVars
  <2>2. QED
    BY <1>3, <2>1, SameJob
<1>6. ASSUME NEW j \in Jobs, OwnerStep(j) \/ WorkerStep(j) \/ LoopStep(j)
      PROVE  JobInv(k)'
  <2>1. CASE k = j
    BY <1>1, <1>3, <1>6, <2>1, OwnerKeepsJobInv, WorkerKeepsJobInv, LoopKeepsJobInv
  <2>2. CASE k # j
    <3>1. Same(k)
      BY <1>1, <1>6, <2>2, OthersUntouched
    <3>2. QED
      BY <1>3, <3>1, SameJob
  <2>3. QED
    BY <2>1, <2>2
<1>7. QED
  BY <1>4, <1>5, <1>6 DEF Next

\* So it holds in every reachable state.
LEMMA Invariance == Spec => []IInv
  BY InitIInv, InductiveStep, PTL DEF Spec

------------------------------------------------------------------------------
(* What follows for the properties of ThreadedJob.                         *)

\* Type correctness of the job engine.
THEOREM TypeCorrect == Spec => []TypeOK
<1>1. IInv => TypeOK
  BY DEF IInv
<1>2. QED
  BY <1>1, Invariance, PTL

\* deleteLater() in slotFinished() is late enough: no job object, and with it
\* no QThread, is ever destroyed while its thread runs.
THEOREM JobsOutliveTheirThreads == Spec => []NoThreadDestroyedRunning
<1>1. IInv => NoThreadDestroyedRunning
  BY DEF IInv, JobInv, NoThreadDestroyedRunning
<1>2. QED
  BY <1>1, Invariance, PTL

\* slotFinished() never blocks the GUI thread on the mutex that run() holds.
THEOREM GuiThreadNeverBlocks == Spec => []GuiNeverWaits
<1>1. IInv => GuiNeverWaits
  <2> SUFFICES ASSUME IInv, NEW j \in Jobs, Exists(j), events[j] # <<>>,
                      Head(events[j]) = "finished"
               PROVE  ~locked[j]
    BY DEF GuiNeverWaits
  <2>1. TypeOK /\ JobInv(j)
    BY DEF IInv
  <2>2. worker[j] \in {"finishing", "stopped"}
    BY <2>1, FinishedEvent DEF Pending
  <2>3. QED
    BY <2>1, <2>2 DEF JobInv, LockedInRun
<1>2. QED
  BY <1>1, Invariance, PTL

\* No progress signal is lost before, or delivered after, the result.
THEOREM ProgressPrecedesResult == Spec => []ProgressBeforeResult
<1>1. IInv => ProgressBeforeResult
  BY DEF IInv, JobInv, ProgressBeforeResult
<1>2. QED
  BY <1>1, Invariance, PTL

\* At most one result is reported: the one the worker function returned.
THEOREM OneTrueReport == Spec => []ReportIsTheResult
<1>1. IInv => ReportIsTheResult
  BY DEF IInv, JobInv, ReportIsTheResult
<1>2. QED
  BY <1>1, Invariance, PTL

\* g_context_map never holds a deleted job and never misses a living one.
THEOREM RegistryIsExact == Spec => []ContextMapIsExact
<1>1. IInv => ContextMapIsExact
  BY DEF IInv, JobInv, ContextMapIsExact, TypeOK
<1>2. QED
  BY <1>1, Invariance, PTL

------------------------------------------------------------------------------
(* The jobs implement JobContract.                                         *)

\* The phase of a job only depends on the job's own state.
LEMMA SamePhase ==
  ASSUME NEW k \in Jobs, Same(k)
  PROVE  Phase(k)' = Phase(k)
  BY DEF Same, Phase, Started

\* A step that moves one job from a phase to another is a move of the contract.
LEMMA PhaseMove ==
  ASSUME NEW j \in Jobs, NEW to, Phase(j)' = to,
         \A k \in Jobs \ {j} : Phase(k)' = Phase(k)
  PROVE  [k \in Jobs |-> Phase(k)]' = [[k \in Jobs |-> Phase(k)] EXCEPT ![j] = to]
  OBVIOUS

\* Initially the jobs are in the initial state of the contract.
LEMMA ContractInit == Init => Contract!Init
<1> SUFFICES ASSUME Init PROVE Contract!Init
  OBVIOUS
<1>1. \A j \in Jobs : Phase(j) = "fresh"
  BY DEF Init, Phase, Started
<1>2. QED
  BY <1>1 DEF Init, Contract!Init

\* What the owner does is a step of the contract, or does not show.
LEMMA ContractOwner ==
  ASSUME TypeOK, NEW j \in Jobs, JobInv(j), OwnerStep(j),
         \A k \in Jobs \ {j} : Phase(k)' = Phase(k)
  PROVE  Contract!Next \/ UNCHANGED Contract!vars
<1>1. CASE Construct(j)
  <2>1. Phase(j)' = Phase(j)
    BY <1>1 DEF Construct, threadVars, ownerVars, Phase, Started, JobInv, Stages, TypeOK
  <2>2. QED
    BY <1>1, <2>1 DEF Construct, ownerVars, Contract!vars
<1>2. CASE SetWorkerFunction(j)
  <2>1. Phase(j)' = Phase(j)
    BY <1>2 DEF SetWorkerFunction, ownerVars, Phase, Started
  <2>2. QED
    BY <1>2, <2>1 DEF SetWorkerFunction, ownerVars, Contract!vars
<1>3. CASE StartNow(j) \/ Run(j)
  <2>1. /\ Phase(j) = "fresh" /\ Phase(j)' = "running"
        /\ UNCHANGED <<report, seen, looping>>
    BY <1>3 DEF StartNow, Run, StartThread, WorkerMove, ownerVars, Phase, Started, JobInv,
                Stages, TypeOK
  <2>2. Contract!Start(j)
    BY <2>1, PhaseMove DEF Contract!Start, Contract!Move
  <2>3. QED
    BY <2>2 DEF Contract!Next
<1>4. CASE Exec(j)
  <2>1. /\ Phase(j) = "fresh" /\ Phase(j)' = "executed"
        /\ UNCHANGED <<report, seen, looping>>
    BY <1>4 DEF Exec, threadVars, Phase, Started, JobInv, Stages, TypeOK
  <2>2. Contract!Execute(j)
    BY <2>1, PhaseMove DEF Contract!Execute, Contract!Move
  <2>3. QED
    BY <2>2 DEF Contract!Next
<1>5. CASE SlotCancel(j)
  <2>1. Phase(j)' = Phase(j)
    BY <1>5 DEF SlotCancel, threadVars, Phase, Started
  <2>2. QED
    BY <1>5, <2>1 DEF SlotCancel, Contract!vars
<1>6. CASE DeleteByOwner(j)
  <2>1. /\ Phase(j) \in {"fresh", "executed"} /\ Phase(j)' = "gone"
        /\ UNCHANGED <<report, seen, looping>>
    BY <1>6 DEF DeleteByOwner, Destroy, ownerVars, ThreadActive, Phase, Started, JobInv, Stages,
                TypeOK
  <2>2. Contract!Discard(j)
    BY <2>1, PhaseMove DEF Contract!Discard
  <2>3. QED
    BY <2>2 DEF Contract!Next
<1>7. QED
  BY <1>1, <1>2, <1>3, <1>4, <1>5, <1>6 DEF OwnerStep

\* The worker thread never shows: all its steps are stuttering steps.
LEMMA ContractWorker ==
  ASSUME TypeOK, NEW j \in Jobs, WorkerStep(j),
         \A k \in Jobs \ {j} : Phase(k)' = Phase(k)
  PROVE  UNCHANGED Contract!vars
<1>1. /\ UNCHANGED <<life, report, executed, seen, looping>>
      /\ worker[j] # "off" /\ worker'[j] # "off"
  BY DEF WorkerStep, EnterRun, BeginOp, ShowProgress, EndOp, ReturnFromRun, EmitFinished,
         ThreadStops, WorkerMove, threadVars, ownerVars, TypeOK
<1>2. Phase(j)' = Phase(j)
  BY <1>1 DEF Phase, Started
<1>3. QED
  BY <1>1, <1>2 DEF Contract!vars

\* What the event loop delivers is a step of the contract.
LEMMA ContractLoop ==
  ASSUME TypeOK, NEW j \in Jobs, JobInv(j), LoopStep(j),
         \A k \in Jobs \ {j} : Phase(k)' = Phase(k)
  PROVE  Contract!Next
<1>1. CASE DeliverProgress(j)
  <2>1. events[j][1] = "progress" /\ 1 \in 1..Len(events[j])
    BY <1>1, HeadOfQueue DEF DeliverProgress
  <2>2. life[j] = "alive"
    BY <1>1, <2>1 DEF DeliverProgress, Pending, Exists, JobInv, Stages
  <2>3. report[j] = {} /\ ~(worker[j] = "off" /\ ~executed[j])
    BY <2>1, <2>2 DEF JobInv, Stages
  <2>4. Phase(j) \in {"running", "executed"} /\ Phase(j)' = Phase(j)
    BY <1>1, <2>2, <2>3 DEF DeliverProgress, threadVars, Phase, Started
  <2>5. Contract!Announce(j)
    BY <1>1, <2>4 DEF DeliverProgress, Contract!Announce
  <2>6. QED
    BY <2>5 DEF Contract!Next
<1>2. CASE SlotFinished(j)
  <2>1. /\ worker[j] \in {"finishing", "stopped"} /\ life[j] = "alive" /\ report[j] = {}
        /\ result[j] \in Outcomes /\ ~executed[j]
    BY <1>2, FinishedEvent DEF SlotFinished, JobInv, Stages
  <2>2. /\ looping /\ Phase(j) = "running" /\ Phase(j)' = "reported"
        /\ report' = [report EXCEPT ![j] = {result[j]}]
        /\ UNCHANGED <<seen, looping>>
    BY <1>2, <2>1 DEF SlotFinished, Phase, Started, TypeOK
  <2>3. Contract!Report(j, result[j])
    BY <2>2, PhaseMove DEF Contract!Report, Contract!Move
  <2>4. QED
    BY <2>1, <2>3 DEF Contract!Next
<1>3. CASE DeferredDelete(j)
  <2>1. life[j] = "deleting" /\ worker[j] \in {"finishing", "stopped"} /\ report[j] # {}
    BY <1>3, DeleteEvent DEF DeferredDelete, JobInv, Stages
  <2>2. /\ Phase(j) = "reported" /\ Phase(j)' = "gone"
        /\ UNCHANGED <<report, seen, looping>>
    BY <1>3, <2>1 DEF DeferredDelete, Destroy, ThreadActive, ownerVars, Phase, TypeOK
  <2>3. Contract!Vanish(j)
    BY <2>2, PhaseMove DEF Contract!Vanish, Contract!Move
  <2>4. QED
    BY <2>3 DEF Contract!Next
<1>4. QED
  BY <1>1, <1>2, <1>3 DEF LoopStep

\* Every job keeps the contract of job.h: one start, progress only while the
\* operation is in progress, exactly one result, deletion only after it.
THEOREM JobsKeepTheContract == Spec => KeepsContract
<1>1. ASSUME IInv, [Next]_vars PROVE [Contract!Next]_(Contract!vars)
  <2>1. TypeOK /\ \A j \in Jobs : JobInv(j)
    BY <1>1 DEF IInv
  <2>2. CASE UNCHANGED vars
    <3>1. \A k \in Jobs : Phase(k)' = Phase(k)
      BY <2>2 DEF vars, threadVars, ownerVars, Phase, Started
    <3>2. QED
      BY <2>2, <3>1 DEF vars, ownerVars, Contract!vars
  <2>3. CASE AboutToQuit
    <3>1. \A k \in Jobs : Phase(k)' = Phase(k)
      BY <2>3 DEF AboutToQuit, threadVars, Phase, Started
    <3>2. Contract!EndLoop
      BY <2>3, <3>1 DEF AboutToQuit, Contract!EndLoop
    <3>3. QED
      BY <3>2 DEF Contract!Next
  <2>4. ASSUME NEW j \in Jobs, OwnerStep(j) \/ WorkerStep(j) \/ LoopStep(j)
        PROVE  [Contract!Next]_(Contract!vars)
    <3>1. \A k \in Jobs \ {j} : Phase(k)' = Phase(k)
      BY <2>1, <2>4, OthersUntouched, SamePhase
    <3>2. QED
      BY <2>1, <2>4, <3>1, ContractOwner, ContractWorker, ContractLoop
  <2>5. QED
    BY <1>1, <2>2, <2>3, <2>4 DEF Next
<1>2. QED
  BY <1>1, ContractInit, Invariance, PTL DEF Spec, KeepsContract, Contract!Spec
==============================================================================
