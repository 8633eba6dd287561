# QGpgME: models, checks and proofs

QGpgME (`src/src`) is a Qt interface to GpgME. An application asks a *protocol*
for a *job* (encrypt, verify, list keys, import, refresh, …), starts it, goes on
with its event loop, and receives a `result()` signal. Behind that promise there
is, for every job, a GpgME context, a worker thread, a mutex, and a number of
events that are posted from the worker thread to the thread of the application.
This directory holds TLA+ modules that model how the jobs behave, TLC
configurations that check them on small instances, and proofs, checked by
TLAPS, that most of what is checked holds for any number of jobs, keys, devices
and so on.

`tlc -config X.cfg M` checks a run, `tlapm M.tla` a proof. `PROJECT.json` maps
every definition to the lines of code it models, and lists runs, mutants,
hazards, findings and theorems.

## 1. Inventory

### The parts of the system

| Part | Source (in `src/src`) | State | Operations | Module |
|---|---|---|---|---|
| Job engine | `threadedjobmixin.h`, `job.cpp` | worker function and result under a mutex, the thread, events posted to the job, the context's cancel flag, `g_context_map` | construct, `start`/`startIt`/`startLater`+`startNow`, `exec`, `slotCancel`, progress, `slotFinished`, deletion, `aboutToQuit` | `ThreadedJob`, `JobContract` |
| Protocols and backend | `qgpgmebackend.cpp`, `protocol_p.h` | singletons | check an engine, factories with the settings of each context | `Protocols` |
| Settings of jobs | `encryptjob.cpp`, …, `qgpgmeencryptjob.cpp`, … | what the owner sets in the private object of a job | setters, `start`, `startIt`, `startLater`/`startNow`, what they refuse, what the worker function gets | `FileJobs`, `JobClasses` |
| Worker functions | `qgpgme*job.cpp`, `threadedjobmixin.cpp` | none beyond the job's | the calls of GpgME or of programs, in order, their errors, the audit log | `WorkerFunctions`, `Requests` |
| Dates of expiry | `qgpgmechangeexpiryjob.cpp`, `qgpgmequickjob.cpp`, `qgpgmesignkeyjob.cpp`, `qgpgmeaddexistingsubkeyjob.cpp` | none | dates to seconds, with integer widths | `Expiry` |
| Lists of keys, key for a mailbox, WKD refresh | `qgpgmelistallkeysjob.cpp`, `qgpgmekeyformailboxjob.cpp`, `qgpgmewkdrefreshjob.cpp` | keys found, the nested job, the mode of the shared context | list, sort, merge, choose, collect addresses, use another job | `KeyLists`, `Requests` |
| Key listing | `qgpgmekeylistjob.cpp` | patterns, chunk size, keys | list a chunk, shrink and retry, announce keys | `KeyListChunks` |
| Byte buffers | `dataprovider.cpp`, `filelistdataprovider.cpp` | byte array and offset, device, list of names | read, write, seek, release | `Buffers`, `Requests` |
| Device hand-over | `threadedjobmixin.h`, the worker functions, `dataprovider.cpp` | the thread in which each `QIODevice` lives, who owns it, whether it is open | `run(func, io…)`, lock, `ToThreadMover`, data providers, return | `DeviceHandoff` |
| Bundled deletion | `multideletejob.cpp` | keys, iterator, current sub-job | `start`, `slotResult`, `slotCancel` | `MultiDelete` |
| Default key generation | `defaultkeygenerationjob.cpp` | the job in the wrapper | `start`, event filter, deletion of both | `Requests` |
| S/MIME refresh | `qgpgmerefreshsmimekeysjob.cpp` | patterns to do, process, error | `start`, `startAProcess`, `slotProcessExited`, `slotCancel` | `RefreshSMIME` |
| Results in files | `util.cpp`, `cleaner.cpp`, `*_to_filename` functions | temporary file, output file, timers | choose a name, operate, rename or append, remove, retry | `PartialFile` |
| Crypto configuration | `qgpgmenewcryptoconfig.cpp` | components, groups and entries in memory, changed entries | `entry`, getters, setters, defaults, `resetToDefault`, `sync`, `clear`, reload | `CryptoConfig`, `LdapServer` |
| Directory lookups | `qgpgmewkdlookupjob.cpp`, `qgpgmeadqueryjob.cpp` | connection to dirmngr, tries, answer | connect, launch dirmngr, wait, ask, read the answer, make the result | `DirectoryLookup` (their use of the configuration is in `CryptoConfig`) |
| Web key service, smart cards | `qgpgmewkspublishjob.cpp`, `qgpgmegpgcardjob.cpp` | a process in the worker thread | check, create, receive; run gpg-card | `WorkerFunctions`, `Requests` |
| Distinguished names | `dn.cpp` | a counted private object, shared by copies | parse, escape, copy, assign, append, reorder | `DN` |
| Logging | `debug.cpp` | | | not modelled |

### How they interact

* The **owner** of a job lives in the GUI thread. It calls `start()` once, may
  call `slotCancel()` at any time, and is told of progress and the result by
  signals. It never deletes a job that it started: the job deletes itself.
* The **worker thread** calls GpgME, which calls `showProgress()` in the worker
  thread; three queued calls carry it to the GUI thread. `QThread::finished` is
  queued as well, so that both arrive in order.
* The owner **lends** devices. They are moved to the thread of the job and must
  be back in the owner's thread, closed and without any other owner, before the
  result is emitted.
* `MultiDeleteJob` **uses other jobs** through their signals only.
* The worker functions of the search by mailbox and of the WKD refresh **make
  another job**, on the very context of their own, and call its `exec()`.
* A **factory** makes the context that its job will own; what it sets there, and
  what `start()` binds or tells the context, is all that a worker function has.
* `Cleaner` objects are **created by the worker** but live in the application's
  thread, because they need timers and outlive the job.
* The **configuration** is used by the GUI, and by worker threads of lookups.

### What is hard, and what makes each part correct

* *Engine*: interleaving of GUI, worker and event queue; a cancel at any moment;
  the end of the event loop. Correct when the GUI never blocks, no running
  thread is destroyed, progress precedes one true result, every start is
  answered, every answered job is deleted.
* *Devices*: the order in which locals are destroyed on every path of every
  worker function. Correct when a device is used, closed and destroyed in the
  thread it lives in, and is home and free when the result is emitted.
* *Deletion, refresh, listing*: sequences of operations of which one fails, is
  cancelled or retried. Correct when the one result tells the truth about the
  whole sequence, and when there is a result.
* *Files*: other programs, other jobs, failures of every step. Correct when
  nothing is overwritten, nothing partial is taken for a file, and temporary
  files disappear.
* *Requests as a whole*: several calls of which one fails, programs that crash,
  a clock that goes on, settings that travel from a setter through `start()` into
  another thread, contexts that two jobs think they own. Correct when the result
  tells what happened, dates and settings arrive as they were given, keys are
  looked for where they should be, and everything is deleted once.
* *Buffers and names*: ends of buffers, separators inside of values, objects that
  are shared. Correct when buffers behave like files, names are read back as
  they were written, and the attributes of a name are its own.
* *Lookups*: a server process that comes up late, never, or ends; errors that are
  no errors. Correct when every lookup ends, no failure passes for an answer, and
  the answer is read as it was sent.
* *Configuration*: conversions to and from text, failing components, plain
  pointers to entries. Correct when what was saved is what is read, and an entry
  is only deleted under somebody if the application asked for it.

The hazards, each at the line where it bites, are in `PROJECT.json`.

## 2. Modules

| Module | Models | Composition |
|---|---|---|
| `JobContract` | the public life of jobs: *fresh, running, executed, reported, gone* | abstract specification |
| `ThreadedJob` | the job engine | implements `JobContract` (`KeepsContract`) |
| `MultiDelete` | `MultiDeleteJob` | uses `JobContract` for its sub-jobs (`SubJob`), implements it itself (`KeepsContract`) |
| `DeviceHandoff` | devices lent to jobs | |
| `RefreshSMIME` | `QGpgMERefreshSMIMEKeysJob` | |
| `PartialFile` | output files of jobs | |
| `KeyListChunks` | `QGpgMEKeyListJob` | used by `Requests` (`List`) |
| `Expiry`, `Buffers`, `KeyLists`, `Protocols` | dates, data providers, lists of keys, factories | operators |
| `WorkerFunctions` | what each worker function asks of GpgME or of a program | EXTENDS those |
| `JobClasses`, `FileJobs` | which ways to start each class has; settings of the jobs | EXTEND each other up to `Requests` |
| `Requests`, `MCRequests` | one request from factory to deletion | EXTENDS `FileJobs`, INSTANCE `KeyListChunks` |
| `DirectoryLookup` | `QGpgMEWKDLookupJob`, `QGpgMEADQueryJob` | |
| `LdapServer` | `parseURL()`, `splitURL()` | operators |
| `CryptoConfig`, `MCCryptoConfig` | `QGpgMENewCryptoConfig` and its users | EXTENDS `LdapServer` |
| `DN`, `MCDN` | `QGpgME::DN` | |
| `X_proof`, for eight of these `X` | the theorems about `X` (section 4) | EXTENDS `X` |

Definitions called `…` in comments *Mutant of …* are wrong variants of the
definition below them. They are not used by the specifications; each stands for
a plausible bug and is there to show that the property named with it in
`PROJECT.json` notices the bug.

### ThreadedJob

One GUI thread and one worker per job. The GUI runs one handler at a time, so
every owner call and every delivery of an event is one step; the worker's steps
are the points at which others can see it: it enters `run()` and takes the
mutex, begins and ends an operation, reports progress, leaves `run()`, emits
`finished()`, and stops.

| Variable | Code |
|---|---|
| `life[j]` | the job object; `"aborted"` is `~QThread` of a running thread |
| `function[j]`, `result[j]`, `locked[j]` | `Thread::m_function`, `m_result`, `m_mutex` |
| `worker[j]` | where the `QThread` is between `start()` and its end |
| `opsLeft[j]` | GpgME operations the worker function has still to do (changing an expiry date makes two calls, a merged listing makes two) |
| `cancelFlag[j]` | what `Context::cancelPendingOperation()` sets |
| `events[j]` | events posted to the job: progress, finished, delete |
| `contextMap` | `g_context_map` |
| `looping` | the event loop runs |
| `executed`, `cancelled`, `seen`, `report`, `sent` | observations the properties are about |

`showProgress()` posts three calls; they are one event, because nothing can come
between them that tells them apart. A job is created in the thread in which it
is used; jobs created inside of a worker function are not part of the model.
`slotFinished()` takes the mutex, so its action waits for it; that it never has
to is the property `GuiNeverWaits`. GpgME is modelled by how it is used: an
operation clears an earlier request to stop when it begins, and one that was
asked to stop may still complete.

### Requests, and the modules of operators below it

`ThreadedJob` shows how jobs, their threads and the event loop interleave, and
knows a worker function by the number of its operations. `Requests` looks into
the worker functions: it follows one request through all that happens to it, for
every kind of job.

A worker function is the *sequence of its calls* (`Program`), computed from what
`start()` bound; `WorkerFunctions` and `FileJobs` have one operator for each
function of the code, with its name. The actions then make the calls one by one;
each succeeds, fails or is cancelled, and the sequence ends or goes on (`Stops`,
`GoesOn`) as the code's conditions say.

| Variable | Code |
|---|---|
| `req` | the request: which job, from which protocol, with which engines and versions installed, and its arguments |
| `stage` | from the factory (`CreateJob`), through the setters (`Configure`, `Reconfigure`), `Start`, `StartNow`, the worker function and the audit log, to the result and the deletion |
| `ctx` | what factory, `start()` and worker function have set in the context |
| `settings`, `wanted`, `bound` | the private object of the job, and what its owner set last; what `start()` bound to the worker function |
| `todo`, `made` | the calls to come, and those made, with their outcome, time and context |
| `code`, `found`, `log` | the result |
| `clock`, `entered` | time, which goes on between start, worker and engine (`Tick`) |
| `provider`, `file`, `agree` | a byte array provider, or one of a device, next to the file that it should behave like |
| `device` | an input device: a process, or one with another end |
| `nested`, `context` | the job made inside of a worker function; how often the context was deleted |
| `wrapper`, `posted` | `DefaultKeyGenerationJob`; deferred deletions in their order |
| `lengths`, `pc`, … | the variables of `KeyListChunks` |

* `start()` copies what the worker function needs; the function that `startIt()`
  hands to the thread holds a pointer to the job's private object instead
  (`WithFiles`). `Reconfigure` is the owner who calls a setter afterwards, which
  changes nothing in the first case; in the second the worker function sees it
  (section 6). `wanted` follows the setters, to say which of them is passed on.
  The several reads of the settings in one worker function are taken as one, at
  its entry; that a setter writes while the worker reads is a data race whose
  other outcomes are not modelled.
* `WriteAsserts` and the default key generation without gpg end the program
  (stage `"crashed"`), as the code does.
* An int is one of `-IntSize..(IntSize - 1)`: `seek()` computes the place of a
  byte array in one.
* `JobClasses` lists, for every class, whether it overrides `startIt()`, and what
  the inherited one or `startNow()` does.
* The engine is modelled by how it is used: a call of it ends in one of three
  ways; `EngineExpiry` says what it makes of a number of seconds, within the
  widths `UnsignedLong` and `Unsigned32`.
* The nested listing of a search by mailbox or of a WKD refresh is the one of
  `KeyListChunks`, in steps of the outer request. The code never deletes the
  nested job, and `LeaveNestedJob` says so.

### DN

`d` maps each object to its private object in `heap`; `ref` and `unref` count.
The parser is one operator per state of `parse_dn()` and its helpers, folded over
the characters (`ParsePlain`, `ParseEscape`, …); `dn_escape`, `listAttributes`, `serialise`
and `reorder_dn` are the writer. `value` is what each object
was given, to compare it with: attributes of its own, an order that all who share
the private object have in common, and the order in which it was first shown.

### DeviceHandoff

A worker function is the sequence of its declarations and calls (`encrypt`,
`sign`, …, translated one by one), and its scope is a stack of local objects
with destructors, so that the order of destruction is the reverse of the order
of declaration on each path, early returns included. Devices carry the thread
they live in; `moveToThread` only works from the thread in which an object
lives. The owner's part is what `threadedjobmixin.h:206-209` describes: it waits
for the result, and then may delete or reuse its devices at once.

### MultiDelete, RefreshSMIME, KeyListChunks

`MultiDelete` has the iterator, the current sub-job and the sub-jobs' phases;
`slotResult()` is split into `SlotResultLast` (nothing further is started) and
`SlotResultNext` (the next sub-job is started, or fails to). A canceled `Error` is
`false` where the code tests `if (error)` (gpgme++ has `mErr && !isCanceled()`);
`IsError` of `MultiDelete`, `RefreshSMIME` and `DirectoryLookup` is that test, and
a sub-job reports a cancel also without `slotCancel()`, when the user canceled in a
dialog. `RefreshSMIME` and
`KeyListChunks` know patterns by position and length; command lines and the
channel to gpgsm have a budget of length.

### PartialFile

`PartialFileGuard` with its destructor, `commit()`, the appending of detached
signatures, which may fail unnoticed when the file is closed, and `Cleaner`. `output` is the sequence of what was written to the
one path that all jobs share, so that "nothing is lost" is the statement that
the sequence only grows at its end.

### DirectoryLookup

The two worker functions share most of their text, so the lookups of both kinds
share the actions, and differ in who may disable dirmngr (`ReadGpgOption`,
`ReadGpgsmOption`), in the errors that are ignored (`Benign`) and in how the
answer is read. dirmngr is a process of its own that may be launched by anybody
and end at any time (`DirmngrChanges`), and the options may change between two
steps of a lookup (`OptionsChange`). `answer` is the Assuan transaction of the
lookup's context, of which the code takes the last one. A line of an answer is
known by its kind. `wanted` collects the lookups for which dirmngr was not
disabled at some time, to say what launching it may be blamed on. A result is an
error and data, which are missing for an Active Directory query without an answer
(`NoResult`), and carry the pattern that was asked for otherwise.

### CryptoConfig and LdapServer

`Components` is a small image of what gpgconf lists; `setComponent` groups it as
the code does. `stored` is what gpgconf has, `memory` what the process has; both
hold *encoded* values, and `View` is what the application reads with the getter
of the entry's type, which falls back to the default (`currentValue`), so the
conversions are passed in both directions. `held`, `lookup` and `stale` track
plain pointers to entries, `staleUsed` the lookups that have used a deleted one,
and `cleared` those during which the application cleared the configuration.
Loading (`Component`) is one step; that two threads also race for the hash tables
during it is not modelled.

## 3. Runs

| Run | Instance | What it shows |
|---|---|---|
| `threadedjob` | 2 jobs, worker functions of up to 2 operations, 1 progress callback | engine properties, contract, liveness |
| `multidelete` | 0 to 3 keys | truth of the result, cancel, contract, end |
| `refreshsmime` | up to 4 patterns of length 0 to 4, budget 4 | limits, truth of the result, end |
| `partialfile` | 2 jobs and another program, one path | files |
| `requests` | requests of 49 kinds with their arguments: dates from now on to behind the last that can be told, lists of up to 5 patterns of length 1 to 4, rings of up to 3 keys, 3 names, inputs of up to 3 bytes, an int of -5 to 4 | truth of the result, dates, settings, lists, data, ownership, end |
| `dn` | 3 objects (with symmetry), short texts with every separator, up to 2 attributes | sharing, orders, round trip |
| `devicehandoff` | 2 jobs of any kind, 2 devices | devices |
| `directorylookup` | 1 lookup of each kind, 2 tries, answers of up to 3 lines | retries, truth of the result, attributes, end |
| `cryptoconfig` | 1 lookup, 7 options of which the application changes up to 2, servers with separators and percent signs | round trip, defaults, pointers |
| `threadedjob_cancel`, `partialfile_existing`, `keylistchunks_retry` | smaller | disagreements, see section 6 |

**Why the bounds are enough.** Jobs share nothing but the event loop and the
registry; two jobs show every interference, and the theorems below cover any
number. Two operations have a before, a between and an after, which is where a
cancel can fall. Three keys have a first, a middle and a last. Patterns of
several lengths below, at and above the limits reach: an empty one, one that
fills the line exactly, a chunk that must be halved twice, and a pattern that
never fits, or fills a line by itself. Two devices fill the two roles of every function, and two jobs use
them one after the other or at the same time. Two tries have one that is repeated
and one that is the last; three lines have an attribute, something between, and a
continuation. A request meets no other request: what jobs do to each other is in
`ThreadedJob`, `DeviceHandoff`, `PartialFile` and `CryptoConfig`. Its integers
are 3 and 5 bits wide (`Unsigned32` = 8, `UnsignedLong` = 32), so that a few days
are enough to reach every wrap and every clip; the clock may go on by 2, which
lets a date pass between start and worker, and between worker and engine. Three
objects that share private ones have one that changes, one that is assigned and
one that looks on.

The bounds are `MaxOps`, `MaxProgress`, `MaxKeys`, `MaxServers`, `MaxNumber`,
`MaxUsed`, `MaxTries` (the code's 5), `MaxLines`, `MaxPatterns`, `MaxLength`,
`MaxDelay`, `MaxDataOps`, `LastDate`, `MaxAttributes` and `IntSize`; `Limit` and `Budget`
stand for lengths of lines that the code, or the channel to gpgsm, has as
thousands of characters.

**Deadlock** is not checked: in each of these systems everything may come to its
end (all jobs deleted, the application ended). That nothing gets stuck half-way
is what the liveness properties say.

**Fairness.** Worker threads are scheduled (`WF` on the steps of each worker),
GpgME operations end, and the event loop delivers what is posted while it runs
(`WF` on the deliveries). The owner need not do anything, and the application
may quit at any time; no fairness is assumed for either, nor for the coming and going of dirmngr; but a dirmngr that is
there answers a command, or ends (the code waits for it without a timeout).
`PartialFile` assumes
that a file that is in use elsewhere is closed at some time, without which the
Cleaner would rightly keep trying for ever. `Requests` assumes that the owner who
asked for a job starts it and that its calls and processes end; it does not
assume that a listing fails, that time passes, or that anybody changes settings.
A process that is run by the web key service always comes back, because the code
waits for it with a timeout; gpg-card and a process that sends input are waited
for without end or are under the control of the owner, and fairness stands for
their ending.

### The properties

* `ThreadedJob`: `NoThreadDestroyedRunning`, `GuiNeverWaits`,
  `ProgressBeforeResult`, `ReportIsTheResult`, `KeepsContract`,
  `StartedIsReported` and `ReportedIsDeleted`.
* `MultiDelete`: `ReportIsTrue` (the key that the result names is the one that
  failed, and a result without one is that of the last key that was tried; of the
  keys before, only those are left whose deletion the user canceled, and none
  behind was begun), `NothingStartedAfterCancel`, `KeepsContract`,
  `EveryStartEnds` (for a job with any keys).
* `RefreshSMIME`: `CommandFits`, `ReportIsTrue` (a result of processes that ran
  comes after all patterns were given away, a success hides no cancel, and the
  failure of the last process is reported), `EveryRefreshEnds` (if no pattern fills a
  command line).
* `PartialFile`: `OutputMatchesReports` (no file begins with an incomplete
  result, only an appended one may be cut off; an error leaves no whole result, no
  job leaves two), `OutputIsKept`,
  `TempFileIsRemoved`.
* `DeviceHandoff`: `UsedAtHome`, `CleanAtResult`, `DevicesComeHome`.
* `DirectoryLookup`: `ResultIsTheAnswer` (a result is without an error exactly if
  the lookup's own command was answered or cancelled, and is what came for it), `AttributesAreWhole`,
  `DirmngrIsWanted`, `LookupsEnd`.
* `CryptoConfig`: `SavedIsReadBack` (what was saved, or the default after a
  reset), `OnlyClearPullsAway` (a lookup uses a deleted entry only if the
  application cleared the configuration meanwhile).
* `Requests`:
  `TruthfulReport` (a success means that every call succeeded, nothing is called
  after a failure, a bad passphrase is blamed only if it was the reason, and the
  audit log is that of the call);
  `ExpiryIsKept` (a key expires when it was asked to, however long the job
  waited, and a change to a past date never makes it unlimited);
  `ListsAsAsked` (keys are looked for locally, remotely or offline as the
  application said, and a borrowed context is given back as it was);
  `ListIsMerged` (sorted, each key once, with what either copy knows);
  `BestKey` (a candidate is found if there is one; what
  `keyformailboxjob.h:58-60` promises, if only usable ones have a validity, and
  else that an unusable one needs a validity to be preferred);
  `DataIsPassedOn` (byte arrays and devices behave like files while places are
  ints, and crash only for a write across the end; broken processes are noticed;
  and every setting of the time of `start()`, or of the worker function's entry
  after `startIt()`, reaches GpgME);
  `OneOwnerDeletes` (contexts are deleted once, and a job not before its wrapper);
  `KeysInOrder` and `GivesUpOnlyForALongPattern` (those of `KeyListChunks`, in
  its own job and nested in others); and `RequestsEnd`.
* `DN`: `OnlyOrdersAreShared` (private objects live as long as they are referred
  to, the attributes of a name are its own, its order is that of all sharers, and
  what is shown is in the order of when it was first shown), `DnIsReadBack`.

Every module with variables has a type invariant. That of `ThreadedJob` is
checked and proved; those of `MultiDelete`, `DeviceHandoff`, `PartialFile` and
`RefreshSMIME` are proved, and that of `DirectoryLookup` as a part of its
inductive invariant; the others are there to be read. Every property of a passing run has a
mutant of the code that violates it, and several have one for each of the
things that they say.

## 4. Proofs

Each module `X_proof` EXTENDS `X` and proves theorems of its `Spec`, for every
value of the constants that the assumptions of the modules allow: any number of
jobs, keys, devices, lookups, patterns and calls, where the runs have two or
three.

| Module | Theorem | States |
|---|---|---|
| `ThreadedJob_proof` | `TypeCorrect` | `TypeOK` |
| | `JobsOutliveTheirThreads` | `NoThreadDestroyedRunning` |
| | `GuiThreadNeverBlocks` | `GuiNeverWaits` |
| | `ProgressPrecedesResult` | `ProgressBeforeResult` |
| | `OneTrueReport` | `ReportIsTheResult` |
| | `RegistryIsExact` | `ContextMapIsExact` |
| | `JobsKeepTheContract` | `KeepsContract`: the engine refines `JobContract` |
| `MultiDelete_proof` | `TypeCorrect`, `InductiveInvariant` | `TypeOK`, `IInv` |
| | `ReportTrue` | `ReportIsTrue` |
| | `NoStartAfterCancel` | `NothingStartedAfterCancel`, an action property |
| | `Refinement` | `KeepsContract`: the client of jobs refines `JobContract` too |
| `DeviceHandoff_proof` | `TypeCorrect`, `InductiveInvariant` | `TypeOK`, `IInv` |
| | `DevicesUsedAtHome` | `UsedAtHome` |
| | `DevicesCleanAtResult` | `CleanAtResult` |
| `PartialFile_proof` | `TypeCorrect`, `InductiveInvariant` | `TypeOK`, `IInv` |
| | `ReportsMatchOutput` | `OutputMatchesReports` |
| | `OutputKept` | `OutputIsKept`, an action property |
| `RefreshSMIME_proof` | `TypeCorrect`, `InductiveInvariant` | `TypeOK`, `IInv` |
| | `CommandsFit` | `CommandFits` |
| | `ReportTrue` | `ReportIsTrue` |
| `CryptoConfig_proof` | `InductiveInvariant` | `IInv` |
| | `ApplicationIsSafe` | `OnlyLookupsAreStale`: what the application holds is never deleted |
| | `OnlyClear` | `OnlyClearPullsAway` |
| | `SavedReadBack` | `SavedIsReadBack` |
| `DirectoryLookup_proof` | `InductiveInvariant` | `IInv` |
| | `ResultIsAnswer` | `ResultIsTheAnswer` |
| | `LaunchedIsWanted` | `DirmngrIsWanted` |
| | `AttributesWhole` | `AttributesAreWhole` |
| `Requests_proof` | `InductiveInvariant` | `IInv` |
| | `OneOwner` | `OneOwnerDeletes` |
| | `ListedInOrder`, `GivesUpRightly` | `KeysInOrder`, `GivesUpOnlyForALongPattern` |
| | `ResultsAreTrue` | `TruthfulReport` |
| | `ListedAsAsked` | `ListsAsAsked` |
| | `ExpiryKept` | `ExpiryIsKept` |
| | `BestIsChosen` | `BestKey` |
| | `ListsAreMerged` | `ListIsMerged` |
| | `DataPassedOn` | `DataIsPassedOn` |

### What is assumed

Besides the bounds being numbers (`BoundsAssumption`, `KeysAssumption`,
`LengthAssumption`, `InputAssumption`, `RequestBounds`), the proofs use: that a
lookup is either of the web key directory or of Active Directory
(`LookupsAssumption`); that owner, jobs, devices and other programs are different
(`DistinctAssumption`, `ForeignAssumption`); and of the set of requests that a
listing is given a list of patterns (`PatternLengths`), that the listing of
all keys knows the one option that `listallkeysjob.h` has (`ListAllOptions`),
that `startIt()` is only for the classes that have something to start
(`ClassesStarted`, the assertion of `job.cpp:96`), and that dates fit into an
unsigned long, and the time of an existing subkey into the 32 bits that OpenPGP
gives it (`DatesFit`, with the widths of `DatesAssumption`); that the engine lists no
key of a ring twice (`RingsKnown`), and that the candidates for a mailbox have
validities and times that are numbers (`CandidatesKnown`); that a job is configured with settings that it has, of which the flags
leave the file modes to the jobs (`SettingsKnown`), that a `start()` of the
classes that know both ways is given what its signature says (`ArgumentsKnown`),
and that data are bytes and a device is handed over unread (`DataKnown`). In `CryptoConfig` the marks of the model, "nothing" and "the default",
are told from all values (`DefaultAssumption`), and the servers are those whose
text can be understood at all (`UrlsAssumption`, with `Readable`: ASCII, a number for a
port, and no host called `ldap`; section 6 again). TLC
evaluates all of these for the constants of the runs. Nothing is assumed of the
lengths of patterns: they may be longer than a command line.
Nor is anything assumed of what users, owners and the application do meanwhile:
they may cancel in dialogs, call setters after the start, and clear the
configuration at any time.

### The invariants

No property is inductive alone. What each proof adds is what the code relies on
without saying so.

* **ThreadedJob.** That the GUI never waits needs that a `finished` event is
  only queued when the worker has returned (`ClosedByThread`) and that the mutex
  is held exactly inside `run()` (`LockedInRun`). That progress precedes the
  result needs that a closing event is the last of its queue (`QueueShape`) and
  that progress is either delivered or queued (`ProgressConserved`). That no
  running thread is destroyed needs `ClosedByThread` with the stages of a job's
  life (`Stages`). Every action touches one job; lemmas say that the others keep
  `JobInv` when their variables are unchanged (`Same`).
* **MultiDelete.** `Sequential`: while the bundle runs, the keys before the
  iterator are gone or were passed over, those behind it are untouched, and the one at
  the iterator runs, unless a cancel has moved the iterator to the end.
* **DeviceHandoff.** The invariant is about the scope of each worker function,
  read as a stack, and about the calls that are still to come: no mover of a
  device is declared above a data object of the same device (`Stacked`,
  `Pending`), and all movers are declared before the function can return
  (`WellFormed`). So whenever it returns, unwinding the stack closes a device
  before it moves it home. Each device that is away is waited for by such a mover,
  declared or to be declared, of one running job (`Away`). That every worker function of
  the code is of this shape is shown by `InputsAreWellFormed` and the lemmas after it.
* **PartialFile.** What each job may have written at each point of its function,
  whatever the others do (`JobInv`): nothing before the end, a part only when
  appending, noticed or not, and behind what was there (`PartIsBehind`), the whole only
  without an error, and once.
* **RefreshSMIME.** The patterns that were given to processes are those before a
  position, and the length of a command line is a sum over the patterns between
  two positions. That the sum of the model, which is a fold over a set, can be
  split and taken step by step is proved in the lemmas before.
* **CryptoConfig.** While anybody has a pointer to an entry that exists, the
  configuration is in memory (`LivePointers`), so that nothing reloads it under
  the pointer; only `clear()` makes one stale, and only one of a lookup
  (`OnlyLookupsAreStale`), whose use of it `OnlyClearPullsAway` is about. That what is saved is read back is a matter of each
  entry (`ViewInv`): what memory or a file has for it is the text of what was set,
  or nothing where the default is meant, and never an empty argument of an
  option that needs one. It rests on lemmas about the conversions, of which
  `ParsedAsSplit` is the deepest: `parseURL(splitURL(url)) = url` for every
  readable server, whatever its parts are.
* **DirectoryLookup.** What a lookup still has to do and what it knows at each
  point of `connectToDirmngr()` and of the transactions; in particular that the
  answer it returns came in reply to its own command, although all lookups talk
  to the same dirmngr. The attributes of a result (`AttributesFit`) are those of
  the lines up to where the answer was read, as the fold over its lines builds them.
* **Requests.** Eleven invariants that go side by side: who owns the context
  (`OwnerInv`); what the listing has done (`ListingInv`: the keys are those of
  the patterns before `first`, in order, and for patterns of one length there is
  one for each, because full chunks fit once one has); what the calls so far, the
  calls to come, the code, the import's statuses and the log have to do with each
  other (`CallsInv`); how the context is set, call by call, against how the
  request wants it (`ModeInv`); and what the calls to come and those made are told
  of a date (`DatesInv`): the number for a call is computed when the worker
  function is entered, from the clock of then, and the call may be made later;
  what was chosen of the candidates (`ChoiceInv`): the choice, step by step, is always
  one that none of the candidates so far outdoes, if only usable ones have a validity; and the lists of all keys
  (`MergeInv`): both are strictly ascending after every call, and hold the
  ring if all calls so far succeeded. That sorting, merging and dropping of
  doubles do this to lists of any length is proved in `SortedList`, `MergedList`
  and `SecretList`. The other four are about what is passed on: a byte array and
  its file have the same content, and the same position while it is an int
  (`BytesInv`); a device says that it
  ended only when it did, and why (`DeviceInv`); the settings are those that the
  owner wants last, of which a started job keeps what it needs (`WantedInv`); and of a job with settings the
  calls made and the calls to come are, one after the other, the program (`Plan`)
  of the settings that are to last (`Handover`, `Lasting`), in a context that was
  told of them once (`SettingsInv`). What the program of each kind of job says,
  through `start()` or `startIt()`, is compared with what the job was told in
  `ProgramsTold`; this is where a setting that one of the two ways forgets would show.

### Induction

The prover cannot instantiate the induction theorems of its library. Where a
recursive function has to be reasoned about (the sums of `RefreshSMIME_proof` and
`Requests_proof`), induction is done by hand, as in Euclid: a set of counterexamples has a
least element (`LeastNumber`, by the finiteness of intervals), and one step below it
there is none. Sums over a set are then known by what they are
for the empty set and for one element more.

The algorithms on data are folds over sequences (`FoldLeft` of the community
modules), which are recursive functions on sets of positions. `FoldExists` proves
once that such a function exists, and `FoldSteps` that it is what one gets by going
through the sequence step by step; for each fold a lemma `...Steps` says
what its steps are, and a property is then kept from step to step. That the names of
files are joined alike by `encodeFilenames()` and by what gpgtar expects, and that each
signer gets a call of its own, in order, are relations between two folds that go
through the same list (`NamesJoined`, `SignersAdded`). These lemmas
stand at the begin of each proof module that needs them.

### What TLC alone checks, and why

* Liveness: `StartedIsReported`, `ReportedIsDeleted`, `EveryStartEnds`,
  `EveryRefreshEnds`, `TempFileIsRemoved`, `DevicesComeHome`, `LookupsEnd`,
  `RequestsEnd`. The prover has no support for fairness with `ENABLED`.
* `OnlyOrdersAreShared` and `DnIsReadBack`: the parser of names is a machine of many
  states over single characters, and the counting of references a sum over all
  objects; they are left to the small instance.

## 5. What is not modelled, and why

* Data: the content of keys, results and messages, formatting, conversions of
  strings to and from GpgME, and logging (`debug.cpp`).
* Settings that are handed through without a branch: the encoding of input, file
  names inside of messages, base 64.
* The signals of archive jobs that translate the progress of gpgtar.
* Data races in the sense of the memory model, e.g. of two threads on
  `g_context_map`, on the hash tables of the configuration, or on the singletons
  that `QGpgME::cryptoConfig()` creates without a lock, also from worker threads.
* In `DeviceHandoff`, an owner who drops a device it has lent. The weak pointer
  then cannot be locked, and the worker functions use the device without asking.
* In `RefreshSMIME`, `slotStatus()`, which nothing connects.
* In `DeviceHandoff`, the bytes of the result: the return statement copies them
  before a destructor of the scope runs, by the rules of the language.
* In `DirectoryLookup`, a dirmngr that never answers.
* In `CryptoConfig`, lists of strings and of numbers, and URLs of other than
  local files.
* In `DirectoryLookup`, the arguments and options of the AD query's command.
* In `Requests`, `DefaultKeyGenerationJob` is started once and is not deleted by
  others; a place of a byte array that does not fit an int is only followed up to
  the seek; the merged listing of all keys leaves no null key, as a chunk does
  (`NullKey`); `sign_key()` counts the days at its entry, as
  adding a signing key takes no time; whether a device is one that can be read,
  written and sought at once (`isSupported()`) is given by what it is; archive
  jobs are asked with a device or with files.

## 6. Where code and words disagree

Shown by a run each:

1. **A cancel may be lost** (`threadedjob_cancel`, `CancelIsReported`).
   `job.h:67-69` promises that the result of a cancelled job says so. The cancel
   only sets a flag that the next operation clears, and a job cancelled before
   its first operation, between two, or at the end, reports something else.
2. **An existing output file is no error** (`partialfile_existing`,
   `ExistingOutputFails`). `encryptjob.h:130-132` and its like say that the job
   will fail; `commit()`'s answer is ignored, the job reports success, and its
   result is removed with the temporary file.
3. **A retry loses keys** (`keylistchunks_retry`, `EveryPatternIsListed`). When
   a later chunk is too long, `list_keys()` drops the keys that it has and goes
   on with the patterns that are left.

Reached by the passing runs, whose properties say what is left:

* **A cancel is no error.** A canceled `Error` is `false` in a condition. So a
  deletion that the user cancels in a dialog is passed over by `MultiDeleteJob`,
  which deletes the next keys and may report success with one left
  (`multideletejob.cpp:105`). A cancelled S/MIME refresh starts the next process
  as long as patterns are left (`qgpgmerefreshsmimekeysjob.cpp:240`), and the exit
  of the last one, if it was killed, turns the cancel into a general error (line
  249); `job.h:67-69` promises a cancel. A cancelled lookup has a result without
  an error, of the data that came so far (`qgpgmewkdlookupjob.cpp:163-176`,
  `qgpgmeadqueryjob.cpp:220-236`). A canceled `nextKey()` does not end the loop of
  a listing, which may leave a null key in the list (`qgpgmekeylistjob.cpp:76-78`);
  the loop in `qgpgmelistallkeysjob.cpp` is the same.
* **No keys, no result.** `MultiDeleteJob::start()` with no keys returns success
  and never reports (`multideletejob.cpp:129`).
* **A pattern that fills a command line** is never taken from the list by the
  S/MIME refresh (`qgpgmerefreshsmimekeysjob.cpp:134`): one process after the other
  is started, without patterns, which means all keys. The same happens once when a
  blank pattern meets a line without room.
* **A signature may be cut off unnoticed.** Appending looks at what `write()`
  returns and not at the closing of the file (`qgpgmesignjob.cpp:232-236`).
* **Settings changed after `startIt()`** (`job.h:96-98`) reach the worker thread,
  unsynchronised and behind the checks: the function handed to it captures the
  job's private object. `QGpgMESignKeyJob` asserts against it; the others do not.
* **Two threads do talk to gpgconf.** The comment at
  `qgpgmenewcryptoconfig.cpp:62-63` asks who would; `startDirmngr()` does, from the
  worker thread of a lookup, and `clear()` in the application deletes the entry
  that it is about to use.
* **Disabled keys may be chosen.** The choice of a key for a mailbox is not
  transitive: a disabled key with a validity may displace one that can be used,
  and one of lower validity the former (`keyformailboxjob.h:58-60`).
* **An old errno.** Whether a device's `-1` is its end or an error is decided by
  `errno`, which nobody clears before (`dataprovider.cpp:225`): an end may be taken
  for an error.
* **Places are ints.** `seek()` of a byte array computes the place in an int
  (`dataprovider.cpp:120`), and a write across its end fails an assertion (line 109).
* **No gpg.** `DefaultKeyGenerationJob::start()` without gpg dereferences a null
  protocol (`defaultkeygenerationjob.cpp:111`).
* **Names share their order.** `setAttributeOrder()` is `const` and changes the
  order of all copies, leaves the list that was reordered before, so that
  `prettyDN()` is not "according to the set order" (`dn.h:71`), and is lost when
  the object detaches.

Met while modelling, without a run.

*Starting jobs*

* `QGpgMEDeleteJob::startIt()` (`qgpgmedeletejob.cpp:68-71`) returns success and
  starts nothing, so that there is never a result (`job.h:98-103`): the stage
  `"idle"`. That of an export answers that it is not implemented; classes without
  settings assert.
* `EncryptJob::start()` and `exec()` with explicit flags ignore
  `encryptionFlags()`. `start()` of an archive job without a device returns an
  error, but the job does not delete itself; nor do `gpgCard`, `revokeKey`, the
  quick jobs and `setPrimaryUserID` when they refuse. The deprecated overloads of
  the quick jobs drop the error.
* A second `start()` of `DefaultKeyGenerationJob` loses the first job, whose `done()` deletes the wrapper and with it
  the second one. With the order in which the deletions are queued, the event
  filter is never reached.

*Nested jobs*

* The search by mailbox leaks its key list job (`new`) and the WKD refresh
  releases its import job; each wraps the raw context in a shared pointer of its
  own, which is why they must not be deleted. Such a job stays in
  `g_context_map`, takes over the progress provider, and, if its outer job was
  executed in the GUI thread, stays connected to `aboutToQuit`, where
  `slotCancel()` uses a deleted context. The refresh ignores the error of
  `exec()`.

*Keys*

* In the search by mailbox a cancelled listing counts as no error, and a key is
  chosen from a part of the list. "Newest" is the last usable subkey, not the
  newest, and only looked for if the key is to encrypt.
* The merged result of an older engine's two listings hides that the first was
  cancelled. The newer `listAllKeys` ignores `mergeKeys`.
* Keys are announced with `nextKey()` when the listing has ended, not as they
  arrive (`keylistjob.h:66-67`).
* Quick jobs turn a date that is now into 0, which means never, and a past one
  into a huge number. A certification that is to end today or earlier has no end.
  `changeExpiry` ignores `UpdateAllSubkeys` when it is given subkeys.
* The quick jobs' and the web key service's `const char*` arguments are bound as
  pointers and read in the other thread. `check()` never sets its `reason` when
  the engine is missing.
* `QGpgMERefreshSMIMEKeysJob` ignores the exit code of every process but the
  last, and does not delete
  itself when `start(keys)` is given a key of the wrong protocol.

*Data*

* A byte array does not check seeks to before its begin; devices do. The first `-1` of a device that sets no error is
  an end, the second an error.
* An error while the audit log is fetched replaces the last error in the log's
  text.
* `DN`: `dn_escape()` does not escape `=`, `#` and blanks at the ends.
  With an empty default order the pretty name is empty.

*Configuration and lookups*

* `urlpart_decode()` (`qgpgmenewcryptoconfig.cpp:275`) takes Latin-1 bytes for
  UTF-8, which spoils umlauts in user names, passwords and base DNs. The servers
  of the run are ASCII.
* `splitURL()` is not "the opposite of parseURL" (`qgpgmenewcryptoconfig.cpp:513`)
  for a server whose host name is `ldap`: `parseURL()` drops a leading `ldap:` as
  an optional prefix, which `splitURL()` does not write. No server of the run has
  that name.
* `setStringValue("")` resets an entry with a default to it, although the comment
  (line 613) speaks of entries without one. `setURLValue()` asks `path()` whether
  a URL is empty but stores the local file, which may be empty when `path()` is
  not. `setURLValueList()` lacks the test for an empty list that its siblings
  have; an error of `sync()` is only logged.
* A line of an `AD_QUERY` answer that is not understood is skipped, but its
  continuation lines are not: they end up in the value of the attribute before it
  (`qgpgmeadqueryjob.cpp:177-186`). `name:` without a space and a value also counts
  as not understood. `AttributesAreWhole` is about answers in which all lines are
  understood.
* `startDirmngr()` of the AD query reads two options one after the other, and
  uses an entry without asking whether there is one.
* An AD query without data returns a null result, a WKD lookup without a key one
  that is not null.

## 7. Plan

Done in this order: job engine with its contract and proofs; its client
`MultiDelete`; the jobs with an algorithm of their own (`RefreshSMIME`,
`KeyListChunks`); files; devices; configuration; directory lookups; the
algorithms on dates, buffers and lists of keys; requests of every kind, with
their settings and nested jobs; distinguished names.

Next:

1. Proofs: the part of `OnlyOrdersAreShared` that counts references; type invariants of
   `CryptoConfig` and `DN`.
2. An owner who drops a device that it has lent, in `DeviceHandoff`.
3. The progress of gpgtar that archive jobs translate.
