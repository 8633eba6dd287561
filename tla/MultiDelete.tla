----------------------------- MODULE MultiDelete -----------------------------
(***************************************************************************)
(* MultiDeleteJob (src/src/multideletejob.cpp): deletes a list of keys     *)
(* with one DeleteJob after the other. Each sub-job is only known through  *)
(* JobContract: it reports some result some time after it was started,     *)
(* whether or not it was asked to stop, and then deletes itself.           *)
(***************************************************************************)
EXTENDS Naturals

CONSTANTS
  MaxKeys   \* bound: the number of keys that are to be deleted

ASSUME KeysAssumption == MaxKeys \in Nat

VARIABLES
  state,      \* "fresh", "running", "reported", "failed" or "deleted"
  total,      \* the size of mKeys
  mIt,        \* the position in mKeys, from 1; total + 1 is mKeys.end()
  mJob,       \* the position of the key whose sub-job mJob points to; 0 is nullptr
  deleted,    \* the positions of the keys that are deleted
  cancelled,  \* slotCancel() was called between start and result
  progress,   \* the number of progress announcements
  report,     \* what the result signal carried
  sub,        \* the phases of the sub-jobs (JobContract)
  subReport,  \* the results of the sub-jobs (JobContract)
  looping

subVars == <<sub, subReport>>
vars == <<state, total, mIt, mJob, deleted, cancelled, progress, report, subVars, looping>>

Positions == 1..MaxKeys
Results == {"ok", "error", "canceled"}
NoKey == 0
NoReport == [err |-> "none", key |-> NoKey]

\* What an error is as a condition: GpgME++ takes one that says "canceled" for none.
IsError(r) == r = "error"

\* The DeleteJob started for each position; their progress is not connected.
SubJob == INSTANCE JobContract WITH
  Jobs <- Positions, Outcomes <- Results, phase <- sub, report <- subReport,
  progress <- [i \in Positions |-> 0]

TypeOK ==
  /\ state \in {"fresh", "running", "reported", "failed", "deleted"}
  /\ total \in 0..MaxKeys
  /\ mIt \in 1..(MaxKeys + 1)
  /\ mJob \in 0..MaxKeys
  /\ deleted \subseteq Positions
  /\ cancelled \in BOOLEAN
  /\ progress \in Nat
  /\ report \in [err : Results \cup {"none"}, key : 0..MaxKeys]
  /\ SubJob!TypeOK

Init ==
  /\ state = "fresh"
  /\ total = 0 /\ mIt = 1 /\ mJob = 0
  /\ deleted = {}
  /\ cancelled = FALSE
  /\ progress = 0
  /\ report = NoReport
  /\ SubJob!Init

AtEnd(it, n) == it > n

\* startAJob() for position it of n: true if it returned no error. A DeleteJob
\* that cannot be started deletes itself.
StartAJob(it, n, started) ==
  IF AtEnd(it, n)
  THEN /\ started
       /\ UNCHANGED <<mJob, subVars, looping>>
  ELSE /\ mJob' = it
       /\ IF started THEN SubJob!Start(it) ELSE SubJob!Discard(it)

\* start(): with no keys startAJob() succeeds without starting anything, and no
\* result will ever come. If it fails the job schedules its own deletion.
Start ==
  /\ state = "fresh"
  /\ \E n \in 0..MaxKeys, started \in BOOLEAN :
       /\ total' = n
       /\ mIt' = 1
       /\ StartAJob(1, n, started)
       /\ state' = IF started THEN "running" ELSE "failed"
  /\ UNCHANGED <<deleted, cancelled, progress, report>>

\* (Mutant of SlotCancel: mIt is left where it is.)
SlotCancelJobOnly ==
  /\ state # "deleted"
  /\ cancelled' = (cancelled \/ state = "running")
  /\ UNCHANGED <<state, total, mIt, mJob, deleted, progress, report, subVars, looping>>

\* slotCancel(): forwarded to the sub-job, which may complete all the same.
SlotCancel ==
  /\ state # "deleted"
  /\ mIt' = total + 1
  /\ cancelled' = (cancelled \/ state = "running")
  /\ UNCHANGED <<state, total, mJob, deleted, progress, report, subVars, looping>>

\* The event loop delivers the result r of the sub-job for position i. It may have
\* been canceled by the user, in a dialog, and not by slotCancel().
SubResult(i, r) ==
  /\ SubJob!Report(i, r)
  /\ deleted' = IF r = "ok" THEN deleted \cup {i} ELSE deleted

\* (Mutant of Finish: a progress announcement comes along with the result.)
FinishWithProgress(err, it) ==
  /\ report' = [err |-> err, key |-> IF IsError(err) /\ ~AtEnd(it, total) THEN it ELSE NoKey]
  /\ state' = "reported"
  /\ progress' = progress + 1

Finish(err, it) ==
  /\ report' = [err |-> err, key |-> IF IsError(err) /\ ~AtEnd(it, total) THEN it ELSE NoKey]
  /\ state' = "reported"
  /\ UNCHANGED progress

\* Only an error does not move on to the next key.
NextIt(r) == IF ~IsError(r) /\ ~AtEnd(mIt, total) THEN mIt + 1 ELSE mIt

\* (Mutants of IsLast: the keys that are left are forgotten; the result of a
\* sub-job that was canceled is ignored.)
IsLastAlways(r) == r \in Results
IsLastUnlessCanceled(r) == ~cancelled /\ (~IsError(r) => AtEnd(mIt', total))

IsLast(r) == ~IsError(r) => AtEnd(mIt', total)

\* slotResult(), when no further sub-job is started: after an error, at the
\* end of the keys, or after a cancel, which moved mIt to the end.
SlotResultLast ==
  \E i \in Positions, r \in Results :
     /\ SubResult(i, r)
     /\ mJob' = 0
     /\ mIt' = NextIt(r)
     /\ IsLast(r)
     /\ Finish(r, mIt')
     /\ UNCHANGED <<total, cancelled>>

\* slotResult(), when the sub-job for the next key is started, or fails to
\* start. Two jobs change state: the one that reported and the next one.
SlotResultNext ==
  \E i \in Positions, r \in Results :
     /\ sub[i] = "running" /\ looping /\ ~IsError(r)
     /\ ~AtEnd(mIt, total) /\ ~AtEnd(mIt + 1, total)
     /\ mIt' = mIt + 1
     /\ mJob' = mIt'
     /\ deleted' = IF r = "ok" THEN deleted \cup {i} ELSE deleted
     /\ subReport' = [subReport EXCEPT ![i] = {r}]
     /\ \/ /\ sub' = [sub EXCEPT ![i] = "reported", ![mIt'] = "running"]
           /\ progress' = progress + 1
           /\ UNCHANGED <<state, report>>
        \/ /\ sub' = [sub EXCEPT ![i] = "reported", ![mIt'] = "gone"]
           /\ Finish("error", mIt')
     /\ UNCHANGED <<total, cancelled, looping>>

\* deleteLater() of the sub-jobs and of the job itself.
SubJobDeleted ==
  /\ \E i \in Positions : SubJob!Vanish(i)
  /\ UNCHANGED <<state, total, mIt, mJob, deleted, cancelled, progress, report>>

DeferredDelete ==
  /\ state \in {"reported", "failed"}
  /\ state' = "deleted"
  /\ UNCHANGED <<total, mIt, mJob, deleted, cancelled, progress, report, subVars, looping>>

\* The application quits: aboutToQuit calls slotCancel() of every job.
AboutToQuit ==
  /\ SubJob!EndLoop
  /\ mIt' = IF state # "deleted" THEN total + 1 ELSE mIt
  /\ cancelled' = (cancelled \/ state = "running")
  /\ UNCHANGED <<state, total, mJob, deleted, progress, report>>

EventStep == SlotResultLast \/ SlotResultNext \/ SubJobDeleted \/ DeferredDelete
Next == Start \/ SlotCancel \/ EventStep \/ AboutToQuit

\* DeleteJobs end, and the event loop delivers their results while it runs.
Spec == Init /\ [][Next]_vars
FairSpec == Spec /\ WF_vars(EventStep)

------------------------------------------------------------------------------
\* The keys that were passed over because the user canceled their deletion.
PassedOver == {i \in Positions : "canceled" \in subReport[i]}

\* The key named by the result is the one that failed. Of the keys before it only those
\* are left whose deletion was canceled, and behind it none was started on.
ErrorKeyIsTheFailedOne ==
  state = "reported" /\ report.key # NoKey =>
    /\ report.err = "error"
    /\ deleted = (1..(report.key - 1)) \ PassedOver
    /\ \A i \in Positions : i > report.key => sub[i] = "fresh"

\* A result without a key is that of the last key, or of the one that slotCancel() found
\* in progress: all keys were gone through, or those up to that one. What became of the
\* keys before is not in the result; but nothing is left of them that was not canceled.
ResultIsTheLastOne ==
  state = "reported" /\ report.key = NoKey =>
    \E last \in 1..total :
      /\ ~cancelled => last = total
      /\ subReport[last] = {report.err}
      /\ \A i \in Positions : i > last => sub[i] = "fresh"
      /\ deleted = {i \in 1..last : i \notin PassedOver /\ (i = last => ~IsError(report.err))}

\* What the result signal of multideletejob.cpp:110 says of the keys is true; a job with
\* no keys has none.
ReportIsTrue == ErrorKeyIsTheFailedOne /\ ResultIsTheLastOne

\* Once canceled, no further key is started on.
NothingStartedAfterCancel ==
  [][cancelled => \A i \in Positions : sub'[i] = "running" => sub[i] = "running"]_vars

\* As a job of its own it keeps the contract of job.h.
Contract == INSTANCE JobContract WITH
  Jobs <- {"multi"}, Outcomes <- Results,
  phase <- [j \in {"multi"} |-> CASE state = "failed" -> "fresh"
                                  [] state = "deleted" -> "gone"
                                  [] OTHER -> state],
  report <- [j \in {"multi"} |-> {report.err} \ {"none"}],
  progress <- [j \in {"multi"} |-> progress]
KeepsContract == Contract!Spec

\* A job that was started with any keys emits its result and then deletes itself
\* (multideletejob.h:71-72), whatever becomes of the deletions.
EveryStartEnds == state = "running" /\ total > 0 ~> (state = "deleted" \/ ~looping)
==============================================================================
