-------------------------- MODULE PartialFile_proof --------------------------
(***************************************************************************)
(* Proofs about PartialFile, for any set of jobs that write to one path.   *)
(*                                                                         *)
(* The path only ever grows at its end, by one result, or a part of one,   *)
(* of the job that takes the step (OutputGrows). What a job reports is     *)
(* true because it has written nothing before it appends or renames, it    *)
(* only appends to what is not empty, and its error is settled by the time *)
(* it closes (JobInv).                                                     *)
(***************************************************************************)
EXTENDS PartialFile, TLAPS

\* Something of j is found at the output path.
Wrote(j) == \E i \in DOMAIN output : output[i].by = j

WroteOnce(j) == \A i, k \in DOMAIN output : output[i].by = j /\ output[k].by = j => i = k

\* A part of the result of j is found behind something else, and only if j appends.
PartIsBehind(j) == \A i \in DOMAIN output : output[i] = Part(j) => appends[j] /\ i > 1

\* What a job has written, and what it will report of it.
JobInv(j) ==
  /\ pc[j] \notin {"closing", "done"} => ~Wrote(j) /\ outcome[j] = "ok"
  /\ pc[j] # "done" => report[j] = "none"
  /\ pc[j] = "appending" => appends[j] /\ output # <<>>
  /\ PartIsBehind(j)
  /\ outcome[j] = "error" \/ report[j] = "error" => Whole(j) \notin ToSet(output)
  /\ WroteOnce(j)

IInv == TypeOK /\ \A j \in Jobs : JobInv(j)

------------------------------------------------------------------------------
(* Lemmas about the output path.                                           *)

\* One more element: what a sequence contains, and where.
LEMMA Appended ==
  ASSUME NEW S, NEW s \in Seq(S), NEW c \in S
  PROVE  /\ Append(s, c) \in Seq(S)
         /\ IsPrefix(s, Append(s, c))
         /\ DOMAIN Append(s, c) = DOMAIN s \cup {Len(s) + 1}
         /\ Len(s) + 1 \notin DOMAIN s
         /\ \A i \in DOMAIN s : Append(s, c)[i] = s[i]
         /\ Append(s, c)[Len(s) + 1] = c
         /\ ToSet(Append(s, c)) = ToSet(s) \cup {c}
<1>1. /\ Append(s, c) \in Seq(S) /\ Len(s) \in Nat /\ Len(Append(s, c)) = Len(s) + 1
      /\ \A i \in 1..Len(s) : Append(s, c)[i] = s[i]
      /\ Append(s, c)[Len(s) + 1] = c
      /\ DOMAIN s = 1..Len(s) /\ DOMAIN Append(s, c) = 1..(Len(s) + 1)
  OBVIOUS
<1>2. DOMAIN Append(s, c) = DOMAIN s \cup {Len(s) + 1} /\ Len(s) + 1 \notin DOMAIN s
  BY <1>1
<1>3. IsPrefix(s, Append(s, c))
  <2>1. SubSeq(s, 1, Len(s)) = SubSeq(Append(s, c), 1, Len(s))
    BY <1>1
  <2>2. QED
    BY <1>1, <2>1 DEF IsPrefix
<1>4. ToSet(Append(s, c)) = ToSet(s) \cup {c}
  BY ONLY <1>1, <1>2 DEF ToSet
<1>5. QED
  BY <1>1, <1>2, <1>3, <1>4

\* What is found there tells jobs, other programs, parts and whole results apart.
LEMMA WhatIsWritten ==
  ASSUME NEW j \in Jobs, NEW k \in Jobs
  PROVE  /\ Whole(j) \in Contents /\ Part(j) \in Contents /\ Whole(Foreign) \in Contents
         /\ Whole(j).by = j /\ Part(j).by = j /\ Whole(Foreign).by # j
         /\ Whole(j) # Part(k) /\ Whole(Foreign) # Part(j) /\ Whole(Foreign) # Whole(j)
         /\ j # k => Whole(j) # Whole(k) /\ Part(j) # Part(k)
  BY ForeignAssumption DEF Whole, Part, Contents

\* A job writes nothing but a result of its own, or a part of it, at the end.
LEMMA OutputGrows ==
  ASSUME TypeOK, NEW j \in Jobs, WorkerStep(j) \/ CleanerStep(j) \/ Release(j)
  PROVE  output' = output \/ \E c \in {Whole(j), Part(j)} : output' = Append(output, c)
<1>1. CASE AppendSignature(j)
  BY <1>1 DEF AppendSignature
<1>2. CASE Commit(j)
  <2>1. Append(<<>>, Whole(j)) = <<Whole(j)>>
    OBVIOUS
  <2>2. QED
    BY <1>2, <2>1 DEF Commit, OutputExists
<1>3. CASE CleanerStep(j) \/ Release(j)
  BY <1>3 DEF CleanerStep, CreateCleaner, CleanerTimeout, Release
<1>4. CASE WorkerStep(j) /\ ~AppendSignature(j) /\ ~Commit(j)
  BY <1>4 DEF WorkerStep, ChooseName, NoNameFound, SignerRejected, BeginOp, OpFails, OpSucceeds,
              DecideHowToSave, Close
<1>5. QED
  BY <1>1, <1>2, <1>3, <1>4

\* What others write says nothing of a job.
LEMMA SameJob ==
  ASSUME TypeOK, NEW k \in Jobs, JobInv(k),
         pc'[k] = pc[k], appends'[k] = appends[k], outcome'[k] = outcome[k], report'[k] = report[k],
         output' = output \/ \E c \in Contents : c.by # k /\ output' = Append(output, c)
  PROVE  JobInv(k)'
<1>1. CASE output' = output
  BY <1>1 DEF JobInv, Wrote, WroteOnce, PartIsBehind
<1>2. ASSUME NEW c \in Contents, c.by # k, output' = Append(output, c)
      PROVE  JobInv(k)'
  <2>1. output \in Seq(Contents)
    BY DEF TypeOK
  <2>2. /\ DOMAIN output' = DOMAIN output \cup {Len(output) + 1}
        /\ \A i \in DOMAIN output : output'[i] = output[i]
        /\ output'[Len(output) + 1] = c
        /\ ToSet(output') = ToSet(output) \cup {c}
        /\ output' # <<>>
    BY <1>2, <2>1, Appended
  <2>3. Wrote(k)' <=> Wrote(k)
    BY ONLY <1>2, <2>2 DEF Wrote
  <2>4. WroteOnce(k)' <=> WroteOnce(k)
    BY ONLY <1>2, <2>2 DEF WroteOnce
  <2>5. c # Whole(k) /\ c # Part(k)
    BY <1>2, WhatIsWritten
  <2>6. PartIsBehind(k)'
    BY <2>2, <2>5 DEF JobInv, PartIsBehind
  <2>7. QED
    BY <2>2, <2>3, <2>4, <2>5, <2>6 DEF JobInv
<1>3. QED
  BY <1>1, <1>2

\* A job that wrote nothing before has written once after it appended c.
LEMMA FirstWrite ==
  ASSUME TypeOK, NEW j \in Jobs, NEW c \in Contents, c.by = j,
         ~Wrote(j), output' = Append(output, c)
  PROVE  /\ WroteOnce(j)'
         /\ \A d \in Contents : d.by = j /\ d \in ToSet(output') => d = c
         /\ output # <<>> => \A i \in DOMAIN output' : output'[i] = c => i > 1
<1>1. output \in Seq(Contents)
  BY DEF TypeOK
<1>2. /\ DOMAIN output' = DOMAIN output \cup {Len(output) + 1}
      /\ \A i \in DOMAIN output : output'[i] = output[i]
      /\ ToSet(output') = ToSet(output) \cup {c}
  BY <1>1, Appended
<1>3. WroteOnce(j)'
  BY <1>2 DEF WroteOnce, Wrote
<1>4. \A d \in ToSet(output) : d.by # j
  BY DEF ToSet, Wrote
<1>5. output # <<>> => \A i \in DOMAIN output' : output'[i] = c => i > 1
  <2> SUFFICES ASSUME output # <<>>, NEW i \in DOMAIN output', output'[i] = c PROVE i > 1
    OBVIOUS
  <2>1. i \notin DOMAIN output
    BY <1>2 DEF Wrote
  <2>2. i = Len(output) + 1 /\ Len(output) \in Nat /\ Len(output) # 0
    BY <1>1, <1>2, <2>1
  <2>3. QED
    BY <2>2
<1>6. QED
  BY <1>2, <1>3, <1>4, <1>5

\* A job that has written nothing is not found at the output path.
LEMMA NothingWritten ==
  ASSUME NEW j \in Jobs, ~Wrote(j)
  PROVE  PartIsBehind(j) /\ Whole(j) \notin ToSet(output) /\ WroteOnce(j)
  BY DEF Wrote, WroteOnce, PartIsBehind, ToSet, Part, Whole

------------------------------------------------------------------------------
(* Type correctness.                                                       *)

\* Every action keeps the variables in their types.
LEMMA TypeStep == TypeOK /\ [Next]_vars => TypeOK'
<1> SUFFICES ASSUME TypeOK, [Next]_vars PROVE TypeOK'
  OBVIOUS
<1>1. ASSUME NEW j \in Jobs, WorkerStep(j) \/ CleanerStep(j) \/ Release(j) PROVE TypeOK'
  <2>1. output' \in Seq(Contents)
    <3>1. output \in Seq(Contents)
      BY DEF TypeOK
    <3>2. QED
      BY <1>1, <3>1, OutputGrows, Appended, WhatIsWritten
  <2>2. RemoveFile(j) \in {"absent", "partial", "complete"}
    BY DEF RemoveFile, TypeOK
  <2> USE DEF TypeOK, PCs, Goto, jobVars
  <2>3. CASE CleanerStep(j) \/ Release(j)
    BY <2>1, <2>2, <2>3 DEF CleanerStep, CreateCleaner, CleanerTimeout, Release
  <2>4. CASE ChooseName(j) \/ NoNameFound(j)
    BY <2>1, <2>4 DEF ChooseName, NoNameFound, OutputExists
  <2>5. CASE SignerRejected(j) \/ BeginOp(j) \/ OpFails(j) \/ OpSucceeds(j) \/ DecideHowToSave(j)
    BY <2>1, <2>5 DEF SignerRejected, BeginOp, OpFails, OpSucceeds, DecideHowToSave
  <2>6. CASE AppendSignature(j) \/ Commit(j)
    BY <2>1, <2>6 DEF AppendSignature, Commit
  <2>7. CASE Close(j)
    BY <2>1, <2>2, <2>7 DEF Close
  <2>8. QED
    BY <1>1, <2>3, <2>4, <2>5, <2>6, <2>7 DEF WorkerStep
<1>2. CASE OthersCreateOutput
  BY <1>2 DEF OthersCreateOutput, TypeOK, jobVars, Contents
<1>3. CASE Exit
  BY <1>3 DEF Exit, TypeOK, RemoveFile
<1>4. CASE UNCHANGED vars
  BY <1>4 DEF vars, jobVars, TypeOK
<1>5. QED
  BY <1>1, <1>2, <1>3, <1>4 DEF Next

\* The variables have their types.
THEOREM TypeCorrect == Spec => []TypeOK
<1>1. Init => TypeOK
  <2>1. Whole(Foreign) \in Contents
    BY DEF Contents
  <2>2. <<>> \in Seq(Contents) /\ <<Whole(Foreign)>> \in Seq(Contents)
    BY <2>1
  <2>3. ASSUME Init PROVE output \in Seq(Contents)
    BY <2>2, <2>3 DEF Init
  <2>4. QED
    BY <2>3 DEF Init, TypeOK, PCs
<1>2. QED
  BY <1>1, TypeStep, PTL DEF Spec

------------------------------------------------------------------------------
(* What the jobs report.                                                   *)

\* A step of a job keeps what the invariant says of that job: it writes at most
\* once, and its error is settled when it does.
LEMMA WorkerKeepsJobInv ==
  ASSUME TypeOK, NEW j \in Jobs, JobInv(j), WorkerStep(j)
  PROVE  JobInv(j)'
<1>0. pc[j] \in PCs /\ output \in Seq(Contents)
  BY DEF TypeOK
<1>1. CASE ChooseName(j) \/ BeginOp(j) \/ OpSucceeds(j) \/ DecideHowToSave(j)
  BY <1>1 DEF ChooseName, BeginOp, OpSucceeds, DecideHowToSave, Goto, jobVars, TypeOK, JobInv,
              Wrote, WroteOnce, PartIsBehind, OutputExists
<1>2. CASE NoNameFound(j) \/ SignerRejected(j) \/ OpFails(j)
  <2>1. ~Wrote(j) /\ Whole(j) \notin ToSet(output) /\ PartIsBehind(j)
    BY <1>2, NothingWritten DEF NoNameFound, SignerRejected, OpFails, Goto, JobInv
  <2>2. output' = output /\ appends' = appends /\ pc'[j] \in {"closing", "done"}
        /\ (report'[j] # report[j] => pc'[j] = "done")
    BY <1>2 DEF NoNameFound, SignerRejected, OpFails, Goto, TypeOK
  <2>3. WroteOnce(j)' /\ PartIsBehind(j)'
    BY <2>1, <2>2 DEF Wrote, WroteOnce, PartIsBehind
  <2>4. pc'[j] # "done" => report'[j] = "none"
    BY <1>2 DEF NoNameFound, SignerRejected, OpFails, Goto, TypeOK, JobInv
  <2>5. QED
    BY <2>1, <2>2, <2>3, <2>4 DEF JobInv
<1>3. CASE AppendSignature(j)
  <2>1. /\ ~Wrote(j) /\ outcome[j] = "ok" /\ report[j] = "none" /\ appends[j] /\ output # <<>>
        /\ pc'[j] = "closing" /\ report' = report /\ appends' = appends
    BY <1>3 DEF AppendSignature, Goto, JobInv, TypeOK
  <2>2. CASE output' = Append(output, Whole(j)) /\ outcome' = outcome
    <3>1. WroteOnce(j)' /\ Part(j) \notin ToSet(output')
      BY <2>1, <2>2, FirstWrite, WhatIsWritten
    <3>2. PartIsBehind(j)'
      BY <3>1 DEF PartIsBehind, ToSet
    <3>3. QED
      BY <2>1, <2>2, <3>1, <3>2 DEF JobInv
  <2>3. CASE output' = output
    BY <2>1, <2>3, NothingWritten DEF JobInv, WroteOnce, PartIsBehind
  <2>4. CASE output' = Append(output, Part(j))
    <3>1. WroteOnce(j)' /\ Whole(j) \notin ToSet(output')
      BY <2>1, <2>4, FirstWrite, WhatIsWritten
    <3>2. \A i \in DOMAIN output' : output'[i] = Part(j) => i > 1
      BY <2>1, <2>4, FirstWrite, WhatIsWritten
    <3>3. PartIsBehind(j)'
      BY <2>1, <3>2 DEF PartIsBehind
    <3>4. QED
      BY <2>1, <2>4, <3>1, <3>3 DEF JobInv
  <2>5. QED
    BY <1>3, <2>2, <2>3, <2>4 DEF AppendSignature, TypeOK
<1>4. CASE Commit(j)
  <2>1. /\ ~Wrote(j) /\ outcome[j] = "ok" /\ report[j] = "none"
        /\ pc'[j] = "closing" /\ report' = report /\ appends' = appends /\ outcome' = outcome
    BY <1>4 DEF Commit, Goto, JobInv, TypeOK
  <2>2. CASE output' = <<Whole(j)>> /\ output = <<>>
    <3>1. output' = Append(output, Whole(j))
      BY <2>2
    <3>2. WroteOnce(j)' /\ Part(j) \notin ToSet(output')
      BY <2>1, <3>1, FirstWrite, WhatIsWritten
    <3>3. PartIsBehind(j)'
      BY <3>2 DEF PartIsBehind, ToSet
    <3>4. QED
      BY <2>1, <3>2, <3>3 DEF JobInv
  <2>3. CASE output' = output
    BY <2>1, <2>3, NothingWritten DEF JobInv, WroteOnce, PartIsBehind
  <2>4. QED
    BY <1>4, <2>2, <2>3 DEF Commit, OutputExists
<1>5. CASE Close(j)
  <2>1. /\ pc[j] = "closing" /\ pc'[j] = "done" /\ report'[j] = outcome[j]
        /\ output' = output /\ appends' = appends /\ outcome' = outcome
    BY <1>5 DEF Close, Goto, TypeOK
  <2>2. QED
    BY <2>1 DEF JobInv, WroteOnce, PartIsBehind
<1>6. QED
  BY <1>1, <1>2, <1>3, <1>4, <1>5 DEF WorkerStep

\* Cleaners, other programs and the end of the application change neither what a
\* job has written nor what it reports, and no job does so for another.
LEMMA OthersKeepJobInv ==
  ASSUME TypeOK, NEW k \in Jobs, JobInv(k),
         \/ OthersCreateOutput \/ Exit \/ UNCHANGED vars
         \/ CleanerStep(k) \/ Release(k)
         \/ \E j \in Jobs \ {k} : WorkerStep(j) \/ CleanerStep(j) \/ Release(j)
  PROVE  JobInv(k)'
<1>1. CASE OthersCreateOutput
  <2>1. output' = Append(output, Whole(Foreign))
    BY <1>1 DEF OthersCreateOutput, OutputExists
  <2>2. QED
    BY <1>1, <2>1, SameJob, WhatIsWritten DEF OthersCreateOutput, jobVars
<1>2. CASE Exit \/ UNCHANGED vars
  BY <1>2, SameJob DEF Exit, vars, jobVars
<1>3. CASE CleanerStep(k) \/ Release(k)
  BY <1>3, SameJob DEF CleanerStep, CreateCleaner, CleanerTimeout, Release, jobVars
<1>4. ASSUME NEW j \in Jobs \ {k}, WorkerStep(j) \/ CleanerStep(j) \/ Release(j)
      PROVE  JobInv(k)'
  <2>1. \/ output' = output
        \/ \E c \in Contents : c.by # k /\ output' = Append(output, c)
    BY <1>4, OutputGrows, WhatIsWritten
  <2>2. /\ pc'[k] = pc[k] /\ appends'[k] = appends[k]
        /\ outcome'[k] = outcome[k] /\ report'[k] = report[k]
    BY <1>4 DEF WorkerStep, ChooseName, NoNameFound, SignerRejected, BeginOp, OpFails, OpSucceeds,
                DecideHowToSave, AppendSignature, Commit, Close, CleanerStep, CreateCleaner,
                CleanerTimeout, Release, Goto, jobVars, TypeOK
  <2>3. QED
    BY <2>1, <2>2, SameJob
<1>5. QED
  BY <1>1, <1>2, <1>3, <1>4

\* The invariant holds in every state.
THEOREM InductiveInvariant == Spec => []IInv
<1>1. Init /\ TypeOK => IInv
  <2> SUFFICES ASSUME Init, TypeOK, NEW j \in Jobs PROVE JobInv(j)
    BY DEF IInv
  <2>1. \A i \in DOMAIN output : output[i] = Whole(Foreign)
    BY DEF Init
  <2>2. ~Wrote(j)
    BY <2>1, WhatIsWritten DEF Wrote
  <2>3. QED
    BY <2>2, NothingWritten DEF Init, JobInv
<1>2. IInv /\ [Next]_vars => IInv'
  <2> SUFFICES ASSUME IInv, [Next]_vars, NEW k \in Jobs PROVE JobInv(k)'
    BY TypeStep DEF IInv
  <2>1. TypeOK /\ JobInv(k)
    BY DEF IInv
  <2>2. CASE WorkerStep(k)
    BY <2>1, <2>2, WorkerKeepsJobInv
  <2>3. CASE ~WorkerStep(k)
    BY <2>1, <2>3, OthersKeepJobInv DEF Next
  <2>4. QED
    BY <2>2, <2>3
<1>3. QED
  BY <1>1, <1>2, TypeCorrect, PTL DEF Spec

\* However many jobs write to the path, it never begins with a part of a result, no job
\* writes twice, and one that reports an error has left no result (util.cpp,
\* qgpgmesignjob.cpp).
THEOREM ReportsMatchOutput == Spec => []OutputMatchesReports
<1>1. IInv => OutputMatchesReports
  BY DEF IInv, JobInv, WroteOnce, PartIsBehind, OutputMatchesReports
<1>2. QED
  BY <1>1, InductiveInvariant, PTL

\* Nothing that is at the output path is ever lost or changed: every step leaves it
\* alone or adds to its end.
THEOREM OutputKept == Spec => OutputIsKept
<1>1. TypeOK /\ [Next]_vars => IsPrefix(output, output') \/ UNCHANGED vars
  <2> SUFFICES ASSUME TypeOK, Next PROVE IsPrefix(output, output')
    OBVIOUS
  <2>1. output \in Seq(Contents)
    BY DEF TypeOK
  <2>2. IsPrefix(output, output)
    BY <2>1 DEF IsPrefix
  <2>3. CASE OthersCreateOutput
    <3>1. output' = Append(output, Whole(Foreign)) /\ Whole(Foreign) \in Contents
      BY <2>3 DEF OthersCreateOutput, OutputExists, Contents
    <3>2. QED
      BY <2>1, <3>1, Appended
  <2>4. CASE Exit
    BY <2>2, <2>4 DEF Exit
  <2>5. ASSUME NEW j \in Jobs, WorkerStep(j) \/ CleanerStep(j) \/ Release(j)
        PROVE  IsPrefix(output, output')
    <3>1. \A c \in {Whole(j), Part(j)} : IsPrefix(output, Append(output, c))
      BY <2>1, Appended, WhatIsWritten
    <3>2. QED
      BY <2>2, <2>5, <3>1, OutputGrows
  <2>6. QED
    BY <2>3, <2>4, <2>5 DEF Next
<1>2. TypeOK /\ [Next]_vars => [IsPrefix(output, output')]_vars
  BY <1>1
<1>3. QED
  BY <1>2, TypeCorrect, PTL DEF Spec, OutputIsKept
==============================================================================
