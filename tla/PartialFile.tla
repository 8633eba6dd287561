----------------------------- MODULE PartialFile -----------------------------
(***************************************************************************)
(* The jobs that write their result to a file: PartialFileGuard            *)
(* (src/src/util.cpp), Cleaner (src/src/cleaner.cpp) and the *_to_filename *)
(* functions of the encrypt, decrypt, sign and verify jobs. gpg writes to  *)
(* a temporary .part file, which is renamed when the operation succeeded;  *)
(* a detached signature may be appended to an existing file instead. What  *)
(* is left of the temporary file is removed, if need be by a Cleaner that  *)
(* keeps trying.                                                           *)
(*                                                                         *)
(* All jobs write to the same output path: that is the hard case. Their    *)
(* temporary names differ, because they are random.                        *)
(***************************************************************************)
EXTENDS Naturals, Sequences, SequencesExt

CONSTANTS
  Jobs,       \* the jobs that write to the output path
  Foreign     \* stands for what other programs write there

ASSUME ForeignAssumption == Foreign \notin Jobs

VARIABLES
  pc,          \* pc[j]: where the worker function is
  appends,     \* appends[j]: m_appendSignature, for a detached signature
  existed,     \* existed[j]: the output file existed when the job was started
  tempName,    \* tempName[j]: mTempFileName is not empty
  temp,        \* temp[j]: the temporary file
  outcome,     \* outcome[j]: the error of the result that will be returned
  report,      \* report[j]: the error of the result of the finished job
  cleaner,     \* cleaner[j]: the Cleaner of the temporary file
  busy,        \* busy[j]: the temporary file cannot be removed for now
  output,      \* what was written to the output path, in order; <<>>: no file
  running      \* the application runs

jobVars == <<appends, existed, tempName, temp, outcome, report>>
vars == <<pc, jobVars, cleaner, busy, output, running>>

\* What may be found at the output path: whole results, and results of which
\* only a part was written.
Whole(j) == [by |-> j, whole |-> TRUE]
Part(j)  == [by |-> j, whole |-> FALSE]
Contents == {Whole(j) : j \in Jobs \cup {Foreign}} \cup {Part(j) : j \in Jobs}

PCs == {"idle", "named", "inOp", "succeeded", "appending", "committing", "closing", "done"}

TypeOK ==
  /\ pc \in [Jobs -> PCs]
  /\ appends \in [Jobs -> BOOLEAN]
  /\ existed \in [Jobs -> BOOLEAN]
  /\ tempName \in [Jobs -> BOOLEAN]
  /\ temp \in [Jobs -> {"absent", "partial", "complete"}]
  /\ outcome \in [Jobs -> {"ok", "error"}]
  /\ report \in [Jobs -> {"none", "ok", "error"}]
  /\ cleaner \in [Jobs -> {"none", "queued", "waiting"}]
  /\ busy \in [Jobs -> BOOLEAN]
  /\ output \in Seq(Contents)
  /\ running \in BOOLEAN

Init ==
  /\ pc = [j \in Jobs |-> "idle"]
  /\ appends \in [Jobs -> BOOLEAN]
  /\ existed = [j \in Jobs |-> FALSE]
  /\ tempName = [j \in Jobs |-> FALSE]
  /\ temp = [j \in Jobs |-> "absent"]
  /\ outcome = [j \in Jobs |-> "ok"]
  /\ report = [j \in Jobs |-> "none"]
  /\ cleaner = [j \in Jobs |-> "none"]
  /\ busy \in [Jobs -> BOOLEAN]
  /\ output \in {<<>>, <<Whole(Foreign)>>}
  /\ running = TRUE

Goto(j, from, to) ==
  /\ running
  /\ pc[j] = from
  /\ pc' = [pc EXCEPT ![j] = to]

\* The output file has content, so it exists (a file is never left empty).
OutputExists == output # <<>>

------------------------------------------------------------------------------
(* The worker function of a job.                                           *)

\* PartialFileGuard: a random name that is not in use.
ChooseName(j) ==
  /\ Goto(j, "idle", "named")
  /\ existed' = [existed EXCEPT ![j] = OutputExists]
  /\ tempName' = [tempName EXCEPT ![j] = TRUE]
  /\ UNCHANGED <<appends, temp, outcome, report, cleaner, busy, output, running>>

\* createPartFileName() hit a name in use ten times: GPG_ERR_EEXIST.
NoNameFound(j) ==
  /\ Goto(j, "idle", "done")
  /\ existed' = [existed EXCEPT ![j] = OutputExists]
  /\ report' = [report EXCEPT ![j] = "error"]
  /\ UNCHANGED <<appends, tempName, temp, outcome, cleaner, busy, output, running>>

\* A signing key cannot be added: the function returns before the operation.
SignerRejected(j) ==
  /\ Goto(j, "named", "closing")
  /\ outcome' = [outcome EXCEPT ![j] = "error"]
  /\ UNCHANGED <<appends, existed, tempName, temp, report, cleaner, busy, output, running>>

BeginOp(j) ==
  /\ Goto(j, "named", "inOp")
  /\ temp' = [temp EXCEPT ![j] = "partial"]
  /\ UNCHANGED <<appends, existed, tempName, outcome, report, cleaner, busy, output, running>>

\* The operation ends: with an error of one of its results, or completed.
OpFails(j) ==
  /\ Goto(j, "inOp", "closing")
  /\ outcome' = [outcome EXCEPT ![j] = "error"]
  /\ temp' \in {temp, [temp EXCEPT ![j] = "absent"]}
  /\ UNCHANGED <<appends, existed, tempName, report, cleaner, busy, output, running>>

OpSucceeds(j) ==
  /\ Goto(j, "inOp", "succeeded")
  /\ temp' = [temp EXCEPT ![j] = "complete"]
  /\ UNCHANGED <<appends, existed, tempName, outcome, report, cleaner, busy, output, running>>

\* (Mutant of DecideHowToSave: a signature is appended to a file that does not exist.)
DecideBySetting(j) ==
  /\ Goto(j, "succeeded", IF appends[j] THEN "appending" ELSE "committing")
  /\ UNCHANGED <<jobVars, cleaner, busy, output, running>>

\* Append the signature if that is wanted and the file exists; else rename.
DecideHowToSave(j) ==
  /\ Goto(j, "succeeded", IF appends[j] /\ OutputExists THEN "appending" ELSE "committing")
  /\ UNCHANGED <<jobVars, cleaner, busy, output, running>>

\* The temporary file is read and written to the end of the output file. Each of the
\* steps may fail, the last one after a part was written. What the function asks is
\* whether QFile::write() took everything, which it does by keeping it in its buffer: a
\* failure when the buffer is flushed, as the file is closed, nobody asks for.
AppendSignature(j) ==
  /\ Goto(j, "appending", "closing")
  /\ \/ /\ output' = Append(output, Whole(j))
        /\ UNCHANGED outcome
     \/ /\ output' \in {output, Append(output, Part(j))}
        /\ outcome' \in {outcome, [outcome EXCEPT ![j] = "error"]}
  /\ UNCHANGED <<appends, existed, tempName, temp, report, cleaner, busy, running>>

\* (Mutant of Commit: a rename that replaces the file.)
CommitOver(j) ==
  /\ Goto(j, "committing", "closing")
  /\ output' = <<Whole(j)>>
  /\ temp' = [temp EXCEPT ![j] = "absent"]
  /\ tempName' = [tempName EXCEPT ![j] = FALSE]
  /\ UNCHANGED <<appends, existed, outcome, report, cleaner, busy, running>>

\* commit(): a rename that does not replace an existing file. Whether it
\* succeeded is not asked by any of the callers.
Commit(j) ==
  /\ Goto(j, "committing", "closing")
  /\ \/ /\ ~OutputExists
        /\ output' = <<Whole(j)>>
        /\ temp' = [temp EXCEPT ![j] = "absent"]
        /\ tempName' = [tempName EXCEPT ![j] = FALSE]
     \/ UNCHANGED <<output, temp, tempName>>
  /\ UNCHANGED <<appends, existed, outcome, report, cleaner, busy, running>>

\* remove_file(): true if there is no such file any more.
RemoveFile(j) == IF busy[j] THEN temp[j] ELSE "absent"
Removed(j) == RemoveFile(j) = "absent"

\* ~PartialFileGuard() and the end of the worker function: what is not removed
\* now is left to a Cleaner, which the application object is asked to create.
Close(j) ==
  /\ Goto(j, "closing", "done")
  /\ IF tempName[j]
     THEN /\ temp' = [temp EXCEPT ![j] = RemoveFile(j)]
          /\ cleaner' = [cleaner EXCEPT ![j] = IF Removed(j) THEN "none" ELSE "queued"]
     ELSE UNCHANGED <<temp, cleaner>>
  /\ report' = [report EXCEPT ![j] = outcome[j]]
  /\ UNCHANGED <<appends, existed, tempName, outcome, busy, output, running>>

------------------------------------------------------------------------------
(* The GUI thread: the Cleaners and their timers.                          *)

CreateCleaner(j) ==
  /\ running
  /\ cleaner[j] = "queued"
  /\ cleaner' = [cleaner EXCEPT ![j] = "waiting"]
  /\ UNCHANGED <<pc, jobVars, busy, output, running>>

\* (Mutant of CleanerTimeout: the timer is not started again.)
CleanerTimeoutOnce(j) ==
  /\ running
  /\ cleaner[j] = "waiting"
  /\ temp' = [temp EXCEPT ![j] = RemoveFile(j)]
  /\ cleaner' = [cleaner EXCEPT ![j] = "none"]
  /\ UNCHANGED <<pc, appends, existed, tempName, outcome, report, busy, output, running>>

\* The timer fires: done if the file is gone, otherwise the timer is restarted.
CleanerTimeout(j) ==
  /\ running
  /\ cleaner[j] = "waiting"
  /\ temp' = [temp EXCEPT ![j] = RemoveFile(j)]
  /\ cleaner' = [cleaner EXCEPT ![j] = IF Removed(j) THEN "none" ELSE "waiting"]
  /\ UNCHANGED <<pc, appends, existed, tempName, outcome, report, busy, output, running>>

\* The application ends, with whatever its threads were doing. The Cleaners
\* that exist are destroyed with it and try a last time.
Exit ==
  /\ running
  /\ running' = FALSE
  /\ temp' = [j \in Jobs |-> IF cleaner[j] = "waiting" THEN RemoveFile(j) ELSE temp[j]]
  /\ cleaner' = [j \in Jobs |-> "none"]
  /\ UNCHANGED <<pc, appends, existed, tempName, outcome, report, busy, output>>

------------------------------------------------------------------------------
(* Other programs.                                                         *)

Release(j) ==
  /\ busy[j]
  /\ busy' = [busy EXCEPT ![j] = FALSE]
  /\ UNCHANGED <<pc, jobVars, cleaner, output, running>>

OthersCreateOutput ==
  /\ ~OutputExists
  /\ output' = <<Whole(Foreign)>>
  /\ UNCHANGED <<pc, jobVars, cleaner, busy, running>>

WorkerStep(j) ==
  \/ ChooseName(j) \/ NoNameFound(j) \/ SignerRejected(j) \/ BeginOp(j) \/ OpFails(j)
  \/ OpSucceeds(j) \/ DecideHowToSave(j) \/ AppendSignature(j) \/ Commit(j) \/ Close(j)
CleanerStep(j) == CreateCleaner(j) \/ CleanerTimeout(j)

Next ==
  \/ \E j \in Jobs : WorkerStep(j) \/ CleanerStep(j) \/ Release(j)
  \/ OthersCreateOutput
  \/ Exit

\* Operations end, timers fire, and no other program holds a file for ever.
Fairness == \A j \in Jobs : WF_vars(WorkerStep(j)) /\ WF_vars(CleanerStep(j)) /\ WF_vars(Release(j))
Spec == Init /\ [][Next]_vars
FairSpec == Spec /\ Fairness

------------------------------------------------------------------------------
\* Nothing that is at the output path is ever lost: jobs do not overwrite the
\* file of another program, nor that of each other.
OutputIsKept == [][IsPrefix(output, output')]_vars

\* What the jobs leave at the output path, and report of it. No file there begins with an
\* incomplete result: one is only found at the end of a file that a signature was to be
\* appended to. A job that reports an error has left no whole result, and no job leaves
\* two. (That a job succeeded does not say that its result is there: qgpgmesignjob.cpp:
\* 232-236 does not look at the close, and no job looks at commit().)
OutputMatchesReports ==
  \A j \in Jobs :
    /\ \A i \in DOMAIN output : output[i] = Part(j) => appends[j] /\ i > 1
    /\ report[j] = "error" => Whole(j) \notin ToSet(output)
    /\ \A i, k \in DOMAIN output : output[i].by = j /\ output[k].by = j => i = k

\* In the end the temporary file is gone, unless the application ended first.
TempFileIsRemoved == \A j \in Jobs : pc[j] = "done" ~> (temp[j] = "absent" \/ ~running)

\* encryptjob.h:130-132 (and decryptverifyjob.h, signjob.h, verifyopaquejob.h,
\* encryptarchivejob.h): "If a file with this path exists, then the job will
\* fail, i.e. you need to delete an existing file that shall be overwritten
\* before you start the job."
ExistingOutputFails == \A j \in Jobs : existed[j] /\ ~appends[j] => report[j] # "ok"
==============================================================================
