----------------------------- MODULE ThreadedJob -----------------------------
(***************************************************************************)
(* The engine of every asynchronous job of the library: ThreadedJobMixin   *)
(* (src/src/threadedjobmixin.h) with its worker thread, the mutex that     *)
(* guards the worker function and its result, the queued events that carry *)
(* progress and the end of the operation to the thread that owns the job,  *)
(* cancellation, the registry of contexts (g_context_map) and deletion.    *)
(*                                                                         *)
(* Two kinds of processes interleave: the GUI thread, which runs the       *)
(* owner's code and the event loop, one handler at a time, and the worker  *)
(* thread of each job. They share the context's cancel flag, the mutex of  *)
(* Thread<T_result>, and the events posted to the job.                     *)
(***************************************************************************)
EXTENDS Naturals, Sequences

CONSTANTS
  Jobs,          \* the jobs an application creates
  MaxOps,        \* bound: GpgME operations in one worker function
  MaxProgress    \* bound: progress callbacks in the life of a job

ASSUME BoundsAssumption ==
  /\ MaxOps \in Nat \ {0}
  /\ MaxProgress \in Nat

VARIABLES
  life,         \* life[j]: construction and destruction of the job object
  function,     \* function[j]: m_function is set
  worker,       \* worker[j]: where the worker thread is
  locked,       \* locked[j]: the worker holds m_mutex
  opsLeft,      \* opsLeft[j]: operations the worker function still has to do
  cancelFlag,   \* cancelFlag[j]: the context's request to stop the operation
  result,       \* result[j]: m_result, the value the worker function returned
  events,       \* events[j]: what is posted to the job, oldest first
  sent,         \* sent[j]: progress callbacks so far
  contextMap,   \* the jobs registered in g_context_map
  looping,      \* the application's event loop is running
  \* what the owner observed
  executed,     \* executed[j]: exec() was called instead of start()
  cancelled,    \* cancelled[j]: slotCancel() was called between start and result
  seen,         \* seen[j]: progress signals delivered
  report        \* report[j]: the outcomes of the result signals emitted

gpgmeVars  == <<opsLeft, cancelFlag>>
threadVars == <<function, worker, locked, result>>
ownerVars  == <<executed, cancelled, seen, report>>
vars == <<life, threadVars, gpgmeVars, events, sent, contextMap, looping, ownerVars>>

Outcomes == {"ok", "error", "canceled"}
NoResult == "none"

Lives   == {"none", "alive", "deleting", "deleted", "aborted"}
Workers == {"off", "started", "running", "inOp", "returned", "finishing", "stopped"}
Events  == {"progress", "finished", "delete"}

\* QThread considers the thread as running from start() until it has finished.
ThreadActive == {"started", "running", "inOp", "returned"}

TypeOK ==
  /\ life \in [Jobs -> Lives]
  /\ function \in [Jobs -> BOOLEAN]
  /\ worker \in [Jobs -> Workers]
  /\ locked \in [Jobs -> BOOLEAN]
  /\ opsLeft \in [Jobs -> 0..MaxOps]
  /\ cancelFlag \in [Jobs -> BOOLEAN]
  /\ result \in [Jobs -> Outcomes \cup {NoResult}]
  /\ events \in [Jobs -> Seq(Events)]
  /\ sent \in [Jobs -> 0..MaxProgress]
  /\ contextMap \in SUBSET Jobs
  /\ looping \in BOOLEAN
  /\ executed \in [Jobs -> BOOLEAN]
  /\ cancelled \in [Jobs -> BOOLEAN]
  /\ seen \in [Jobs -> Nat]
  /\ report \in [Jobs -> SUBSET Outcomes]

Init ==
  /\ life = [j \in Jobs |-> "none"]
  /\ function = [j \in Jobs |-> FALSE]
  /\ worker = [j \in Jobs |-> "off"]
  /\ locked = [j \in Jobs |-> FALSE]
  /\ opsLeft = [j \in Jobs |-> 0]
  /\ cancelFlag = [j \in Jobs |-> FALSE]
  /\ result = [j \in Jobs |-> NoResult]
  /\ events = [j \in Jobs |-> <<>>]
  /\ sent = [j \in Jobs |-> 0]
  /\ contextMap = {}
  /\ looping = TRUE
  /\ executed = [j \in Jobs |-> FALSE]
  /\ cancelled = [j \in Jobs |-> FALSE]
  /\ seen = [j \in Jobs |-> 0]
  /\ report = [j \in Jobs |-> {}]

Exists(j) == life[j] \in {"alive", "deleting"}
Started(j) == worker[j] # "off"

Post(j, e) == events' = [events EXCEPT ![j] = Append(@, e)]
WorkerMove(j, from, to) ==
  /\ worker[j] = from
  /\ worker' = [worker EXCEPT ![j] = to]

------------------------------------------------------------------------------
(* The owner's calls, made in the GUI thread.                              *)

\* Construction and lateInitialization(): the job is its context's progress
\* provider, is told when its thread is finished, and is registered.
Construct(j) ==
  /\ life[j] = "none"
  /\ life' = [life EXCEPT ![j] = "alive"]
  /\ contextMap' = contextMap \cup {j}
  /\ UNCHANGED <<threadVars, gpgmeVars, events, sent, looping, ownerVars>>

\* startLater(): setWorkerFunction() under the thread's mutex.
SetWorkerFunction(j) ==
  /\ life[j] = "alive" /\ ~Started(j) /\ ~executed[j]
  /\ ~locked[j]
  /\ function' = [function EXCEPT ![j] = TRUE]
  /\ UNCHANGED <<life, worker, locked, result, gpgmeVars, events, sent, contextMap,
                 looping, ownerVars>>

\* (Mutant of StartThread: a job whose thread has ended can be started again.)
StartThreadAgain(j, n) ==
  /\ worker[j] \in {"off", "stopped"}
  /\ worker' = [worker EXCEPT ![j] = "started"]
  /\ opsLeft' = [opsLeft EXCEPT ![j] = n]

\* QThread::start() of a worker function that will do n operations.
StartThread(j, n) ==
  /\ WorkerMove(j, "off", "started")
  /\ opsLeft' = [opsLeft EXCEPT ![j] = n]

\* startNow(): run(), which asserts that a worker function is set.
StartNow(j) ==
  /\ life[j] = "alive" /\ ~executed[j]
  /\ function[j]
  /\ \E n \in 1..MaxOps : StartThread(j, n)
  /\ UNCHANGED <<life, function, locked, result, cancelFlag, events, sent, contextMap,
                 looping, ownerVars>>

\* start(...) and startIt(): run(func) sets the worker function and starts.
Run(j) ==
  /\ life[j] = "alive" /\ ~executed[j]
  /\ ~locked[j]
  /\ function' = [function EXCEPT ![j] = TRUE]
  /\ \E n \in 1..MaxOps : StartThread(j, n)
  /\ UNCHANGED <<life, locked, result, cancelFlag, events, sent, contextMap, looping,
                 ownerVars>>

\* exec(...): the worker function is called in the GUI thread. Its progress
\* callbacks are posted like any other; nothing is emitted or deleted.
Exec(j) ==
  /\ life[j] = "alive" /\ ~Started(j) /\ ~executed[j]
  /\ executed' = [executed EXCEPT ![j] = TRUE]
  /\ \E n \in 0..MaxProgress :
       /\ events' = [events EXCEPT ![j] = @ \o [i \in 1..n |-> "progress"]]
       /\ sent' = [sent EXCEPT ![j] = n]
  /\ UNCHANGED <<life, threadVars, gpgmeVars, contextMap, looping, cancelled, seen, report>>

\* (Mutants of SlotCancel: the job also schedules its deletion, or reports at once.)
SlotCancelAndDelete(j) ==
  /\ Exists(j)
  /\ cancelFlag' = [cancelFlag EXCEPT ![j] = TRUE]
  /\ cancelled' = [cancelled EXCEPT ![j] = @ \/ (Started(j) /\ report[j] = {})]
  /\ events' = [events EXCEPT ![j] = IF Len(@) < 2 THEN Append(@, "delete") ELSE @]
  /\ UNCHANGED <<life, threadVars, opsLeft, sent, contextMap, looping, executed, seen, report>>

SlotCancelAndReport(j) ==
  /\ Exists(j)
  /\ cancelFlag' = [cancelFlag EXCEPT ![j] = TRUE]
  /\ cancelled' = [cancelled EXCEPT ![j] = @ \/ (Started(j) /\ report[j] = {})]
  /\ report' = [report EXCEPT ![j] = IF Started(j) THEN @ \cup {"canceled"} ELSE @]
  /\ UNCHANGED <<life, threadVars, opsLeft, events, sent, contextMap, looping, executed, seen>>

\* Context::cancelPendingOperation() sets a flag of the context: it stops the
\* operation in progress, and the next one starts with the flag cleared.
SlotCancel(j) ==
  /\ Exists(j)
  /\ cancelFlag' = [cancelFlag EXCEPT ![j] = TRUE]
  /\ cancelled' = [cancelled EXCEPT ![j] = @ \/ (Started(j) /\ report[j] = {})]
  /\ UNCHANGED <<life, threadVars, opsLeft, events, sent, contextMap, looping, executed,
                 seen, report>>

\* ~ThreadedJobMixin(): leaves the registry, then destroys m_thread. ~QThread
\* waits for a thread that is finishing and aborts the program if it is active.
\* Events still posted to the job are dropped with it.
Destroy(j) ==
  /\ worker[j] # "finishing"
  /\ life' = [life EXCEPT ![j] = IF worker[j] \in ThreadActive THEN "aborted" ELSE "deleted"]
  /\ contextMap' = contextMap \ {j}

\* The owner deletes a job that it did not start, or that it executed.
DeleteByOwner(j) ==
  /\ life[j] = "alive" /\ ~Started(j)
  /\ Destroy(j)
  /\ events' = [events EXCEPT ![j] = <<>>]
  /\ UNCHANGED <<threadVars, gpgmeVars, sent, looping, ownerVars>>

------------------------------------------------------------------------------
(* The worker thread of a job: Thread::run() and the worker function.      *)

EnterRun(j) ==
  /\ ~locked[j]
  /\ WorkerMove(j, "started", "running")
  /\ locked' = [locked EXCEPT ![j] = TRUE]
  /\ UNCHANGED <<life, function, result, gpgmeVars, events, sent, contextMap, looping,
                 ownerVars>>

\* (Mutant of BeginOp: one more operation than the worker function has.)
BeginOpUnguarded(j) ==
  /\ WorkerMove(j, "running", "inOp")
  /\ cancelFlag' = [cancelFlag EXCEPT ![j] = FALSE]
  /\ UNCHANGED <<life, function, locked, result, opsLeft, events, sent, contextMap,
                 looping, executed, cancelled, seen, report>>

\* A GpgME operation begins; it forgets earlier requests to cancel.
BeginOp(j) ==
  /\ opsLeft[j] > 0
  /\ WorkerMove(j, "running", "inOp")
  /\ cancelFlag' = [cancelFlag EXCEPT ![j] = FALSE]
  /\ UNCHANGED <<life, function, locked, result, opsLeft, events, sent, contextMap,
                 looping, ownerVars>>

\* showProgress(): called by the operation, posts the signals to the job.
ShowProgress(j) ==
  /\ worker[j] = "inOp"
  /\ sent[j] < MaxProgress
  /\ sent' = [sent EXCEPT ![j] = @ + 1]
  /\ Post(j, "progress")
  /\ UNCHANGED <<life, threadVars, gpgmeVars, contextMap, looping, ownerVars>>

\* The operation ends. One that was asked to stop may still have completed.
\* A worker function that does several operations stops at the first failure.
EndOp(j) ==
  /\ WorkerMove(j, "inOp", "running")
  /\ \E o \in {"ok", "error"} \cup (IF cancelFlag[j] THEN {"canceled"} ELSE {}) :
       /\ result' = [result EXCEPT ![j] = o]
       /\ opsLeft' = [opsLeft EXCEPT ![j] = IF o = "ok" THEN @ - 1 ELSE 0]
  /\ UNCHANGED <<life, function, locked, cancelFlag, events, sent, contextMap, looping,
                 ownerVars>>

\* (Mutant of ReturnFromRun: the mutex stays locked.)
ReturnFromRunLocked(j) ==
  /\ opsLeft[j] = 0
  /\ WorkerMove(j, "running", "returned")
  /\ UNCHANGED <<life, function, locked, result, gpgmeVars, events, sent, contextMap, looping,
                 ownerVars>>

\* m_result holds the returned value; leaving run() releases the mutex.
ReturnFromRun(j) ==
  /\ opsLeft[j] = 0
  /\ WorkerMove(j, "running", "returned")
  /\ locked' = [locked EXCEPT ![j] = FALSE]
  /\ UNCHANGED <<life, function, result, gpgmeVars, events, sent, contextMap, looping,
                 ownerVars>>

\* (Mutants of EmitFinished: the event overtakes those in the queue, or
\* finished() is not connected.)
EmitFinishedFirst(j) ==
  /\ WorkerMove(j, "returned", "finishing")
  /\ events' = [events EXCEPT ![j] = <<"finished">> \o @]
  /\ UNCHANGED <<life, function, locked, result, gpgmeVars, sent, contextMap, looping,
                 ownerVars>>

EmitFinishedUnconnected(j) ==
  /\ WorkerMove(j, "returned", "finishing")
  /\ UNCHANGED <<life, function, locked, result, gpgmeVars, events, sent, contextMap, looping,
                 ownerVars>>

\* QThread emits finished(), which is queued to the job's thread.
EmitFinished(j) ==
  /\ WorkerMove(j, "returned", "finishing")
  /\ Post(j, "finished")
  /\ UNCHANGED <<life, function, locked, result, gpgmeVars, sent, contextMap, looping,
                 ownerVars>>

ThreadStops(j) ==
  /\ WorkerMove(j, "finishing", "stopped")
  /\ UNCHANGED <<life, function, locked, result, gpgmeVars, events, sent, contextMap,
                 looping, ownerVars>>

------------------------------------------------------------------------------
(* The event loop of the GUI thread delivers the events of a job in order. *)

Pending(j, e) ==
  /\ Exists(j)
  /\ events[j] # <<>>
  /\ Head(events[j]) = e

Consume(j) == events' = [events EXCEPT ![j] = Tail(@)]

DeliverProgress(j) ==
  /\ looping
  /\ Pending(j, "progress")
  /\ Consume(j)
  /\ seen' = [seen EXCEPT ![j] = @ + 1]
  /\ UNCHANGED <<life, threadVars, gpgmeVars, sent, contextMap, looping, executed,
                 cancelled, report>>

\* (Mutant of SlotFinished: without deleteLater().)
SlotFinishedWithoutDelete(j) ==
  /\ looping
  /\ Pending(j, "finished")
  /\ ~locked[j]
  /\ report' = [report EXCEPT ![j] = @ \cup {result[j]}]
  /\ Consume(j)
  /\ UNCHANGED <<life, threadVars, gpgmeVars, sent, contextMap, looping, executed, cancelled,
                 seen>>

\* slotFinished(): fetches the result under the mutex, emits done() and
\* result(), and posts the deletion of the job.
SlotFinished(j) ==
  /\ looping
  /\ Pending(j, "finished")
  /\ ~locked[j]
  /\ report' = [report EXCEPT ![j] = @ \cup {result[j]}]
  /\ events' = [events EXCEPT ![j] = Append(Tail(@), "delete")]
  /\ life' = [life EXCEPT ![j] = "deleting"]
  /\ UNCHANGED <<threadVars, gpgmeVars, sent, contextMap, looping, executed, cancelled,
                 seen>>

\* Deferred deletions are also carried out right after the loop has ended.
DeferredDelete(j) ==
  /\ Pending(j, "delete")
  /\ Destroy(j)
  /\ events' = [events EXCEPT ![j] = <<>>]
  /\ UNCHANGED <<threadVars, gpgmeVars, sent, looping, ownerVars>>

\* QCoreApplication::aboutToQuit cancels every job; no signal is delivered
\* after the loop has ended.
AboutToQuit ==
  /\ looping
  /\ looping' = FALSE
  /\ cancelFlag' = [j \in Jobs |-> cancelFlag[j] \/ Exists(j)]
  /\ cancelled' = [j \in Jobs |-> cancelled[j] \/ (Exists(j) /\ Started(j) /\ report[j] = {})]
  /\ UNCHANGED <<life, threadVars, opsLeft, events, sent, contextMap, executed, seen,
                 report>>

------------------------------------------------------------------------------
OwnerStep(j) ==
  \/ Construct(j) \/ SetWorkerFunction(j) \/ StartNow(j) \/ Run(j) \/ Exec(j)
  \/ SlotCancel(j) \/ DeleteByOwner(j)

WorkerStep(j) ==
  \/ EnterRun(j) \/ BeginOp(j) \/ ShowProgress(j) \/ EndOp(j) \/ ReturnFromRun(j)
  \/ EmitFinished(j) \/ ThreadStops(j)

LoopStep(j) == DeliverProgress(j) \/ SlotFinished(j) \/ DeferredDelete(j)

\* An aborted program takes no further step.
Alive == \A j \in Jobs : life[j] # "aborted"

Next ==
  /\ Alive
  /\ \/ \E j \in Jobs : OwnerStep(j) \/ WorkerStep(j) \/ LoopStep(j)
     \/ AboutToQuit

\* Threads are scheduled, operations end, and the event loop delivers what is
\* posted while it runs. The owner need not do anything.
Fairness == \A j \in Jobs : WF_vars(Alive /\ WorkerStep(j)) /\ WF_vars(Alive /\ LoopStep(j))

Spec == Init /\ [][Next]_vars
FairSpec == Spec /\ Fairness

------------------------------------------------------------------------------
(* Properties.                                                             *)

\* A job object is never destroyed while its thread runs: QThread would abort
\* the program. The job deletes itself, and its deletion is queued by
\* slotFinished(), which finished() of the thread triggers.
NoThreadDestroyedRunning == \A j \in Jobs : life[j] # "aborted"

\* Fetching the result in slotFinished() never makes the GUI thread wait for
\* m_mutex, which run() holds as long as the operation takes.
GuiNeverWaits ==
  \A j \in Jobs : Exists(j) /\ events[j] # <<>> /\ Head(events[j]) = "finished" => ~locked[j]

\* The progress signals and the result are queued by the worker in the order
\* in which they happen: when result() is emitted every progress signal of the
\* operation has been delivered, none is lost and none is still to come.
ProgressBeforeResult == \A j \in Jobs : report[j] # {} => seen[j] = sent[j]

\* What was reported is what the worker function returned, once.
ReportIsTheResult == \A j \in Jobs : report[j] \in {{}, {result[j]}}

\* Job::context() finds the context of every job and of no deleted one.
ContextMapIsExact == contextMap = {j \in Jobs : Exists(j)}

\* The public life of the jobs is the one JobContract promises.
Phase(j) ==
  CASE life[j] = "aborted" -> "aborted"
    [] life[j] = "deleted" -> "gone"
    [] life[j] \notin {"aborted", "deleted"} /\ report[j] # {} -> "reported"
    [] life[j] \notin {"aborted", "deleted"} /\ report[j] = {} /\ executed[j] -> "executed"
    [] life[j] \notin {"aborted", "deleted"} /\ report[j] = {} /\ ~executed[j] /\ Started(j) -> "running"
    [] OTHER -> "fresh"

Contract == INSTANCE JobContract WITH
  phase <- [j \in Jobs |-> Phase(j)], progress <- seen

\* A job keeps its contract in every behaviour (job.h, and the start()
\* functions that promise a result).
KeepsContract == Contract!Spec

\* A started job reports its result, cancelled or not, unless the application quits.
StartedIsReported == \A j \in Jobs : Started(j) ~> (report[j] # {} \/ ~looping)

\* A job that reported its result is deleted: callers never delete a started job.
ReportedIsDeleted == \A j \in Jobs : report[j] # {} ~> life[j] = "deleted"

\* job.h:67-69: "The result() signal of subclasses will still be emitted,
\* though, and will carry the information that the operation was canceled."
CancelIsReported ==
  \A j \in Jobs : cancelled[j] /\ report[j] # {} => report[j] = {"canceled"}
==============================================================================
