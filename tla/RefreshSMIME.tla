---------------------------- MODULE RefreshSMIME ----------------------------
(***************************************************************************)
(* QGpgMERefreshSMIMEKeysJob (src/src/qgpgmerefreshsmimekeysjob.cpp):      *)
(* refreshes S/MIME keys with gpgsm processes. The patterns that select    *)
(* the keys are spread over as many processes, one after the other, as the *)
(* length of a command line demands. A gpgsm that is given no pattern      *)
(* refreshes every key.                                                    *)
(*                                                                         *)
(* A pattern is known by its position and by its length once trimmed; what *)
(* is left of MAX_CMD_LENGTH for the patterns is Budget.                   *)
(***************************************************************************)
EXTENDS Naturals, Sequences, FiniteSetsExt

CONSTANTS
  Budget,        \* the length that a command line leaves for the patterns
  MaxPatterns,   \* bound: patterns of one job
  MaxLength      \* bound: length of a pattern

ASSUME LengthAssumption ==
  Budget \in Nat \ {0} /\ MaxPatterns \in Nat \ {0} /\ MaxLength \in Nat

VARIABLES
  state,       \* "fresh", "running", "deleting" or "deleted"
  startError,  \* what start() returned
  patterns,    \* the lengths of all patterns, in order
  popped,      \* how many patterns have left mPatternsToDo
  process,     \* a gpgsm process was started and has not been seen to exit
  command,     \* the positions of the patterns given to the latest process
  commands,    \* the positions of the patterns given to any process so far
  queuedExit,  \* slotProcessExited(0) was queued because there are no keys
  mError,
  lastExit,    \* how the latest process ended
  cancelled,   \* slotCancel() was called before the result
  report       \* what the result signal carried

vars == <<state, startError, patterns, popped, process, command, commands, queuedExit, mError,
          lastExit, cancelled, report>>

Errors == {"none", "ENOENT", "CANCELED", "GENERAL"}
Exits == {"ok", "failed"}
Positions == 1..MaxPatterns

TypeOK ==
  /\ state \in {"fresh", "running", "deleting", "deleted"}
  /\ startError \in {"none", "ENOENT", "INV_VALUE"}
  /\ patterns \in Seq(0..MaxLength)
  /\ popped \in 0..Len(patterns)
  /\ process \in BOOLEAN
  /\ command \subseteq Positions
  /\ commands \subseteq Positions
  /\ queuedExit \in BOOLEAN
  /\ mError \in Errors
  /\ lastExit \in Exits
  /\ cancelled \in BOOLEAN
  /\ report \in Errors \cup {"unreported"}

Init ==
  /\ state = "fresh" /\ startError = "none"
  /\ patterns = <<>> /\ popped = 0
  /\ process = FALSE /\ command = {} /\ commands = {} /\ queuedExit = FALSE
  /\ mError = "none" /\ lastExit = "ok" /\ cancelled = FALSE
  /\ report = "unreported"

\* The patterns of seq among the positions from..to that gpgsm is given, and
\* the length they take.
Given(seq, from, to) == {i \in from..to : seq[i] > 0}
Used(seq, from, to) == MapThenSumSet(LAMBDA i : seq[i] + 1, Given(seq, from, to))

\* (Mutant of Fits: the separator behind the pattern is forgotten.)
FitsTightly(seq, done, i) == seq[i] <= Budget - Used(seq, done + 1, i - 1)

\* The while loop of startAProcess(): patterns are taken from the front until
\* one does not fit into what is left; an empty one needs room, too.
Fits(seq, done, i) == seq[i] < Budget - Used(seq, done + 1, i - 1)
PoppedAfter(seq, done) ==
  LET stuck == {i \in (done + 1)..Len(seq) : ~Fits(seq, done, i)}
  IN  IF stuck = {} THEN Len(seq) ELSE Min(stuck) - 1

\* startAProcess() with patterns left to do; started says whether the process
\* could be started.
StartAProcess(seq, done, started) ==
  LET next == PoppedAfter(seq, done)
  IN  /\ popped' = next
      /\ process' = started
      /\ command' = Given(seq, done + 1, next)
      /\ commands' = IF started THEN commands \cup command' ELSE commands

\* start(patterns), also with the fingerprints of S/MIME keys: an empty list
\* becomes a single blank pattern. A failure schedules the job's deletion.
StartPatterns ==
  /\ state = "fresh" /\ startError = "none"
  /\ \E n \in Positions : \E seq \in [1..n -> 0..MaxLength], started \in BOOLEAN :
       /\ patterns' = seq
       /\ StartAProcess(seq, 0, started)
       /\ IF started
          THEN /\ state' = "running"
               /\ UNCHANGED <<mError, startError>>
          ELSE /\ state' = "deleting"
               /\ mError' = "ENOENT"
               /\ startError' = "ENOENT"
  /\ UNCHANGED <<queuedExit, lastExit, cancelled, report>>

\* start(keys) with no keys: pretends that a process was run.
StartNoKeys ==
  /\ state = "fresh" /\ startError = "none"
  /\ state' = "running"
  /\ queuedExit' = TRUE
  /\ UNCHANGED <<startError, patterns, popped, process, command, commands, mError, lastExit,
                 cancelled, report>>

\* start(keys) with a key that is not an S/MIME key.
StartWrongKeys ==
  /\ state = "fresh" /\ startError = "none"
  /\ startError' = "INV_VALUE"
  /\ UNCHANGED <<state, patterns, popped, process, command, commands, queuedExit, mError,
                 lastExit, cancelled, report>>

\* (Mutant of SlotCancel: the end of the killed process is not waited for.)
SlotCancelForgets ==
  /\ state # "deleted"
  /\ mError' = "CANCELED"
  /\ process' = FALSE
  /\ cancelled' = (cancelled \/ report = "unreported")
  /\ UNCHANGED <<state, startError, patterns, popped, command, commands, queuedExit, lastExit,
                 report>>

\* slotCancel(): kills the process, which is still waited for. It may also come before
\* the start, which does not look at it.
SlotCancel ==
  /\ state # "deleted"
  /\ mError' = "CANCELED"
  /\ cancelled' = (cancelled \/ report = "unreported")
  /\ UNCHANGED <<state, startError, patterns, popped, process, command, commands, queuedExit,
                 lastExit, report>>

\* The end of slotProcessExited(): done(), result() and deleteLater().
Report(err) ==
  /\ mError' = err
  /\ report' = err
  /\ state' = "deleting"

\* What an error is as a condition: GpgME++ takes one that says "canceled" for none.
IsError(err) == err \notin {"none", "CANCELED"}

\* The exit code counts unless there was an error before; it replaces a cancel.
ExitError(exit) == IF ~IsError(mError) /\ exit # "ok" THEN "GENERAL" ELSE mError

\* (Mutant of Done: the patterns that are left are forgotten.)
DoneAnyway == popped <= Len(patterns)

Done == IsError(mError) \/ popped = Len(patterns)

\* slotProcessExited() while there are patterns left and there was no error before:
\* whatever the exit code was, and also after a cancel, the next process is started.
NextProcess(exit) ==
  /\ ~Done
  /\ lastExit' = exit
  /\ \/ /\ StartAProcess(patterns, popped, TRUE)
        /\ UNCHANGED <<state, mError, report>>
     \/ /\ StartAProcess(patterns, popped, FALSE)
        /\ Report("ENOENT")

\* slotProcessExited() otherwise.
LastProcess(exit) ==
  /\ Done
  /\ lastExit' = exit
  /\ process' = FALSE
  /\ Report(ExitError(exit))
  /\ UNCHANGED <<popped, command, commands>>

\* A process ends, by itself or because it was killed, and finished() is delivered.
ProcessExited ==
  /\ state = "running" /\ process
  /\ \E exit \in Exits : NextProcess(exit) \/ LastProcess(exit)
  /\ UNCHANGED <<startError, patterns, queuedExit, cancelled>>

QueuedExit ==
  /\ state = "running" /\ queuedExit
  /\ queuedExit' = FALSE
  /\ LastProcess("ok")
  /\ UNCHANGED <<startError, patterns, cancelled>>

DeferredDelete ==
  /\ state = "deleting"
  /\ state' = "deleted"
  /\ UNCHANGED <<startError, patterns, popped, process, command, commands, queuedExit, mError,
                 lastExit, cancelled, report>>

EventStep == ProcessExited \/ QueuedExit \/ DeferredDelete
Next == StartPatterns \/ StartNoKeys \/ StartWrongKeys \/ SlotCancel \/ EventStep

\* gpgsm processes end, and the event loop delivers that they did.
Spec == Init /\ [][Next]_vars
FairSpec == Spec /\ WF_vars(EventStep)

------------------------------------------------------------------------------
\* No command line exceeds its limit: the unsigned length that is left never
\* wraps around below zero.
CommandFits ==
  MapThenSumSet(LAMBDA i : patterns[i] + 1, command) <= Budget

\* Any result but that no process could be started comes after every pattern was given to
\* some process: of a refresh that succeeded, failed or was cancelled nothing was left out.
ResultCoversEveryPattern ==
  report \in {"none", "CANCELED", "GENERAL"} => commands = Given(patterns, 1, Len(patterns))

\* A cancelled refresh never reports a success, and only such a one reports a cancel: if
\* the last process ended well, and was not killed. (job.h:67-69 wants it of every one.)
CancelIsNoSuccess ==
  /\ report = "none" => ~cancelled
  /\ report = "CANCELED" => cancelled

\* The failure of the last process is reported, cancelled or not. (That of an earlier one
\* is not.)
LastFailureIsReported ==
  report \in {"none", "CANCELED", "GENERAL"} => (report = "GENERAL" <=> lastExit = "failed")

\* What the result signal of qgpgmerefreshsmimekeysjob.cpp:253 says of the whole refresh.
ReportIsTrue == ResultCoversEveryPattern /\ CancelIsNoSuccess /\ LastFailureIsReported

\* A pattern that fills a command line by itself is never taken from the list
\* (qgpgmerefreshsmimekeysjob.cpp:136): one process after the other is started without
\* patterns, until one cannot be started.
TooLong == \E i \in DOMAIN patterns : patterns[i] >= Budget

\* Without such a pattern, the processes come to an end and the job is deleted
\* (refreshkeysjob.h:64-65), also if it is cancelled again and again.
EveryRefreshEnds == state = "running" /\ ~TooLong ~> state = "deleted"
==============================================================================
