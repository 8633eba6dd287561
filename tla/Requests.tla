------------------------------- MODULE Requests -------------------------------
(***************************************************************************)
(* One request of the application on its way to the engine and back: a     *)
(* factory makes the job and its context, start() checks the arguments,    *)
(* the worker function makes its calls of GpgME or of an external program, *)
(* each of which may fail or be cancelled, and the job reports and is      *)
(* deleted. Some worker functions use another job: the listing nested in   *)
(* them is the one of KeyListChunks. How the steps of several jobs, their  *)
(* threads and the event loop interleave is the matter of ThreadedJob.     *)
(***************************************************************************)
EXTENDS FileJobs

CONSTANTS
  RequestSet,   \* the requests: [kind, protocol, engines, version, installed, a]
  MaxDelay,     \* bound: how far the clock goes during a request
  MaxDataOps,   \* bound: calls of a data provider
  Limit,        \* of the channel to gpgsm, see KeyListChunks
  MaxPatterns,  \* bound: patterns of a listing
  MaxLength     \* bound: length of a pattern

ASSUME RequestBounds ==
  /\ {MaxDelay, MaxDataOps, Limit, MaxPatterns} \subseteq Nat
  /\ {MaxLength, IntSize} \subseteq Nat \ {0}

VARIABLES
  req,        \* the request
  stage,      \* where it is: see Stages
  ctx,        \* the settings of the job's context
  settings,   \* the settings of the job, if it is one of FileJobs
  wanted,     \* the values with which its owner has called each setter last
  bound,      \* what start() left to the worker function, of such a job
  todo,       \* the calls the worker function has still to make
  made,       \* the calls it has made: [op, what, outcome, at, ctx]
  code,       \* the error of the result
  found,      \* what else the result holds: lists of keys, or a key for a mailbox
  log,        \* the audit log of the result
  clock,      \* the time
  entered,    \* the time when the worker function was entered
  provider,   \* the byte array provider of the job's data
  file,       \* what a file in its place would be: [content, pos]
  agree,      \* the provider has answered all calls as the file would
  dataOps,    \* the calls of the provider so far
  device,     \* an input device: [process, left, end, errorOccurred, read, errno]
  nested,     \* the job made in the worker function: "none", "kept" or "deleted"
  wrapper,    \* the DefaultKeyGenerationJob around the job: "none", "alive" or "deleted"
  posted,     \* the deferred deletions posted: of "job" and "wrapper"
  context,    \* "none", "alive", "deleted", or what should never be
  lengths, pc, first, chunkSize, keys, result, emitted   \* of the listing

resultVars == <<todo, made, code, found, log>>
settingVars == <<settings, wanted, bound>>
timeVars == <<clock, entered>>
dataVars == <<provider, file, agree, dataOps, device>>
ownerVars == <<nested, context>>
wrapperVars == <<wrapper, posted>>
listVars == <<lengths, pc, first, chunkSize, keys, result, emitted>>
vars == <<req, stage, ctx, settingVars, resultVars, timeVars, dataVars, ownerVars, wrapperVars, listVars>>

List == INSTANCE KeyListChunks

\* "idle" is a job whose startIt() does nothing, "crashed" the end of the program.
Stages == {"asked", "crashed", "no job", "created", "refused", "idle", "prepared", "started", "working",
           "logging", "listing", "returned", "reported", "gone"}
Ended == {"returned", "reported", "gone"}

DatedKinds == {"changeExpiry", "createKey", "createSubkey", "signKey", "addExistingSubkey"}
DatedOps == {"setExpire", "createKey", "createSubkey", "signKey", "addExistingSubkey"}
QuickKinds == {"createKey", "createSubkey", "addUid", "revUid", "revokeSignature", "addAdsk",
               "setKeyEnabled"}
NoLogKinds == {"changeExpiry", "gpgCard", "listAllKeys", "setPrimaryUserID", "tofuPolicy"}
WksKinds == {"wksCheck", "wksCreate", "wksReceive"}
ListingKinds == {"keyList", "locateKeys"}            \* these are such a listing,
NestingKinds == {"keyForMailbox", "wkdRefresh"}      \* and these make a job for it

\* The factory that makes the job for a request.
JobFor(kind) ==
  CASE kind \in QuickKinds -> "quick"
    [] kind \in WksKinds -> "wksPublish"
    [] kind = "defaultKeyGeneration" -> "keyGeneration"
    [] kind = "encryptArchiveJob" -> "encryptArchive"
    [] kind = "signArchiveJob" -> "signArchive"
    [] kind = "signEncryptArchiveJob" -> "signEncryptArchive"
    [] kind = "decryptVerifyArchiveJob" -> "decryptVerifyArchive"
    [] OTHER -> kind

ContextFor(r) ==
  LET c == NewContext(r.protocol) IN
  CASE r.kind = "keyList" -> keyListJob(c, r.a.remote, r.a.includeSigs, FALSE)
    [] r.kind = "listAllKeys" -> listAllKeysJob(c, r.a.includeSigs, r.a.validate)
    [] r.kind = "locateKeys" -> locateKeysJob(c)
    [] r.kind = "download" -> downloadJob(c, TRUE)
    [] r.kind = "encrypt" -> armoredJob(c, TRUE, FALSE)
    [] r.kind = "verify" -> textModeJob(c, TRUE)
    [] r.kind = "export" -> publicKeyExportJob(c, TRUE)
    [] r.kind = "secretExport" -> secretKeyExportJob(c, TRUE)
    [] r.kind = "secretSubkeyExport" -> secretSubkeyExportJob(c, TRUE)
    [] r.kind \in {"encryptArchive"} \cup (ArchiveKinds \ {"decryptVerifyArchiveJob"}) -> archiveJob(c, TRUE)
    [] r.kind \in {"encryptJob", "signJob"} -> armoredJob(c, TRUE, FALSE)
    [] r.kind = "signEncryptJob" -> signEncryptJob(c, TRUE, FALSE)
    [] r.kind \in {"verifyOpaqueJob", "verifyDetachedJob"} -> textModeJob(c, TRUE)
    [] r.kind = "decryptVerifyJob" -> decryptVerifyJob(c, TRUE)
    [] OTHER -> c

\* The worker function that start() or startIt() binds.
Program(r, c, s, now) ==
  CASE r.kind \in FileJobKinds /\ r.a.how = "startIt" -> FileWorker(r.kind, s)
    [] r.kind \in FileJobKinds /\ r.a.how = "start" -> DataWorker(r.kind, s)
    [] r.kind = "changeExpiry" -> change_expiry(r.a, s.options, now)
    [] r.kind = "createKey" -> createWorker(r.a, now)
    [] r.kind = "createSubkey" -> addSubkeyWorker(r.a, now)
    [] r.kind = "addUid" -> addUidWorker(r.a)
    [] r.kind = "revUid" -> revUidWorker(r.a)
    [] r.kind = "revokeSignature" -> revokeSignatureWorker(r.a)
    [] r.kind = "addAdsk" -> addAdskWorker(r.a)
    [] r.kind = "setKeyEnabled" -> set_key_enabled(r.a)
    [] r.kind = "signKey" -> sign_key(s, now)
    [] r.kind = "addExistingSubkey" -> add_subkey(r.a)
    [] r.kind = "changeOwnerTrust" -> ChangeOwnerTrust(r.a, r.version)
    [] r.kind = "setPrimaryUserID" -> set_primary_userid(r.version)
    [] r.kind = "revokeKey" -> revoke_key(r.a)
    [] r.kind = "addUserID" -> add_user_id(r.a)
    [] r.kind = "changePasswd" -> change_passwd(r.a)
    [] r.kind = "tofuPolicy" -> policy_worker(r.a)
    [] r.kind = "delete" -> delete_key(r.a)
    [] r.kind = "keyGeneration" -> generate_key(r.a)
    [] r.kind = "defaultKeyGeneration" -> default_generate_key(r.a)
    [] r.kind = "importFromKeyserver" -> importfromkeyserver(r.a)
    [] r.kind = "receiveKeys" -> receive_keys(r.a)
    [] r.kind = "import" -> import_qba(s)
    [] r.kind \in Exports -> export_qba(s, c)
    [] r.kind = "listAllKeys" -> list_keys(r.version)
    [] r.kind = "wksCheck" -> check_worker(r.a, r.installed)
    [] r.kind = "wksCreate" -> create_worker(r.a, r.installed)
    [] r.kind = "wksReceive" -> receive_worker(r.a, r.installed)
    [] r.kind = "gpgCard" -> do_work
    [] r.kind \in {"encrypt", "decrypt", "encryptArchive", "download", "verify"} -> <<Ask(r.kind, r.a)>>

\* The patterns of the listing, by their lengths.
Addresses(r) == EmailsOf(r.a.uids, r.a.wholeKeys)
PatternsOf(r) ==
  CASE r.kind \in ListingKinds -> r.a.lengths
    [] r.kind = "keyForMailbox" -> <<1>>
    [] r.kind = "wkdRefresh" -> [i \in DOMAIN Addresses(r) |-> 1]

\* A listing has a list of patterns, and every pattern a length.
ASSUME PatternLengths ==
  \A r \in RequestSet : r.kind \in ListingKinds \cup NestingKinds => PatternsOf(r) \in Seq(Nat)

\* Dates fit into an unsigned long, and the time of a subkey that OpenPGP knows into 32 bits.
DateOf(r) == IF r.kind = "signKey" THEN r.a.set.expiry ELSE r.a.expiry
ASSUME DatesFit ==
  \A r \in RequestSet : r.kind \in DatedKinds /\ DateOf(r) # None =>
    /\ DateOf(r) \in Int /\ DateOf(r) < UnsignedLong
    /\ r.kind = "addExistingSubkey" => DateOf(r) \in 0..(Unsigned32 - 1)

\* startIt() and startLater() are not for classes without a private class (job.cpp:96).
ASSUME ClassesStarted ==
  \A r \in RequestSet : "how" \in DOMAIN r.a /\ r.a.how # "start" => r.kind \in DOMAIN ClassOf

\* listallkeysjob.h knows no other option.
ASSUME ListAllOptions ==
  \A r \in RequestSet : r.kind = "listAllKeys" =>
    r.version \in Nat /\ r.a.set.options \subseteq {"DisableAutomaticTrustDatabaseCheck"}

\* The engine lists no key of its ring twice.
ASSUME RingsKnown ==
  \A r \in RequestSet : r.kind = "listAllKeys" =>
    /\ r.a.mergeKeys \in BOOLEAN
    /\ r.a.ring \in Seq([fpr : Nat, secret : BOOLEAN])
    /\ \A i, k \in DOMAIN r.a.ring : i # k => r.a.ring[i].fpr # r.a.ring[k].fpr

\* The candidates for a mailbox.
ASSUME CandidatesKnown ==
  \A r \in RequestSet : r.kind = "keyForMailbox" =>
    /\ r.a.canEncrypt \in BOOLEAN
    /\ r.a.ring \in Seq([encrypts : BOOLEAN, ok : BOOLEAN, validity : Nat, time : Nat, place : Nat \ {0}])

\* The modes that tell GpgME of files are for the jobs to set, and no setting of their owners.
FileModes == {"EncryptFile", "SignFile", "EncryptArchive", "SignArchive", "DecryptArchive"}
Settings == UNION {DOMAIN Defaults(kind) : kind \in SettableKinds}
ASSUME SettingsKnown ==
  \A r \in RequestSet : r.kind \in SettableKinds =>
    LET defaults == DOMAIN Defaults(r.kind) IN
    /\ defaults \subseteq DOMAIN r.a.set /\ DOMAIN r.a.set \subseteq Settings
    /\ "flags" \in defaults => r.a.set.flags \cap FileModes = {}
    /\ "signers" \in defaults => r.a.set.signers \in Seq(STRING)
    /\ "allSignatures" \in defaults => r.a.set.allSignatures \in BOOLEAN

\* Of these jobs start() may be given other values, but not for the names of outputs.
ASSUME ArgumentsKnown ==
  \A r \in RequestSet :
    /\ r.kind \in FileJobKinds => "how" \in DOMAIN r.a /\ r.a.how \in {"start", "startIt"}
    /\ r.kind \in FileJobKinds /\ r.a.how = "start" =>
         /\ "given" \in DOMAIN r.a
         /\ DOMAIN r.a.given = {"inputPaths", "recipients", "signers", "flags", "alwaysTrust", "device"}
         /\ r.a.given.flags \cap FileModes = {}
         /\ r.a.given.signers \in Seq(STRING)
    /\ r.kind \in SettableKinds \ FileJobKinds => "given" \notin DOMAIN r.a

\* Data are bytes; an input device or process was not read before.
ASSUME DataKnown ==
  \A r \in RequestSet :
    /\ r.kind = "import" => r.a.bytes \in Seq(Nat)
    /\ r.kind = "encryptArchive" => r.a.names \in Seq(Seq(Nat))
    /\ r.kind = "encrypt" =>
         r.a.device \in [process : {"none", "running"}, left : Nat, end : {"0", "-1", "EIO"},
                         errorOccurred : {FALSE}, read : {"none"}, errno : {FALSE}]

\* ctx->setFlag("proc-all-sigs", "1")
TellAllSignatures(s, c) ==
  IF "allSignatures" \in DOMAIN s /\ s.allSignatures THEN [c EXCEPT !.allSignatures = TRUE] ELSE c

NothingFound == [public |-> <<>>, secret |-> <<>>, best |-> NoCandidate, statuses |-> {}]
NoLog == [text |-> "none", code |-> "ok"]
NoDevice ==
  [process |-> "none", left |-> 0, end |-> "0", errorOccurred |-> FALSE, read |-> "none", errno |-> FALSE]

Init ==
  /\ req \in RequestSet
  /\ stage = "asked"
  /\ ctx = NewContext(req.protocol) /\ settings = <<>> /\ bound = <<>>
  /\ wanted = IF req.kind \in SettableKinds THEN req.a.set ELSE <<>>
  /\ todo = <<>> /\ made = <<>> /\ code = "ok" /\ found = NothingFound /\ log = NoLog
  /\ clock = 0 /\ entered = 0
  /\ provider = NewProvider(<<>>) /\ file = [content |-> <<>>, pos |-> 0]
  /\ agree = TRUE /\ dataOps = 0 /\ device = NoDevice
  /\ nested = "none" /\ context = "none" /\ wrapper = "none" /\ posted = <<>>
  /\ lengths = <<>> /\ pc = "idle" /\ first = 1 /\ chunkSize = 0
  /\ keys = <<>> /\ result = "ok" /\ emitted = {}

------------------------------------------------------------------------------
(* The GUI thread *)

\* protocol->...Job(): null without the engine, or if the engine cannot do it; the job for
\* gpg-card is the backend's own. The wrapper of a key generation is there before, and asks
\* for the job in its start(), which takes for granted that there is one.
CreateJob ==
  /\ stage = "asked"
  /\ IF req.kind = "gpgCard"
        \/ (Protocol(req.protocol, req.engines) # "null" /\ Offered(JobFor(req.kind), req.protocol))
     THEN stage' = "created" /\ ctx' = ContextFor(req) /\ context' = "alive"
     ELSE /\ stage' = IF req.kind = "defaultKeyGeneration" THEN "crashed" ELSE "no job"
          /\ UNCHANGED <<ctx, context>>
  /\ settings' = IF req.kind \in SettableKinds THEN Defaults(req.kind) ELSE settings
  /\ wrapper' = IF req.kind = "defaultKeyGeneration" THEN "alive" ELSE wrapper
  /\ UNCHANGED <<req, wanted, bound, resultVars, timeVars, dataVars, nested, posted, listVars>>

How == IF "how" \in DOMAIN req.a THEN req.a.how ELSE "start"
WithFiles == req.kind \in FileJobKinds /\ How = "startIt"

\* The owner calls the setters.
Configured == AllSet(req.kind, Defaults(req.kind), req.a.set)
Configure ==
  /\ stage = "created" /\ req.kind \in SettableKinds /\ settings # Configured
  /\ settings' = AllSet(req.kind, settings, req.a.set)
  /\ UNCHANGED <<req, stage, ctx, wanted, bound, resultVars, timeVars, dataVars, ownerVars, wrapperVars, listVars>>

\* He may take them back one by one, also when the job is started, if the setters do not
\* assert against it: nothing keeps him from it. Once the worker function has read them
\* that changes nothing any more.
Blank(setting) == IF setting = "flags" THEN {} ELSE Defaults(req.kind)[setting]
Reconfigure ==
  /\ stage \in {"prepared", "started"} /\ req.kind \in SettableKinds \ {"signKey"}
  /\ \E setting \in DOMAIN Defaults(req.kind) :
       wanted' = [wanted EXCEPT ![setting] = Blank(setting)]
  /\ settings' = AllSet(req.kind, Defaults(req.kind), wanted')
  /\ UNCHANGED <<req, stage, ctx, bound, resultVars, timeVars, dataVars, ownerVars, wrapperVars, listVars>>

Given == IF "given" \in DOMAIN req.a THEN req.a.given ELSE <<>>
Answered ==
  CASE WithFiles -> startIt(req.kind, settings)
    [] ~WithFiles /\ How = "startIt" -> StartItCode(req.kind)
    [] How # "startIt" /\ req.kind \in FileJobKinds -> StartWithData(req.kind, Given)
    [] OTHER -> StartCode(req.kind, req.a, req.installed)

\* start(), startIt(), startLater() or exec(), which calls the worker function in the GUI
\* thread. The owner has called the setters before. All but startIt() tell the context at
\* once to check all signatures.
Start ==
  /\ stage = "created"
  /\ req.kind \in SettableKinds => settings = Configured
  /\ code' = Answered
  /\ stage' = CASE code' # "ok" -> "refused"
                [] code' = "ok" /\ How = "startLater" -> "prepared"
                [] code' = "ok" /\ How = "startIt" /\ ClassOf[req.kind].startIt = "nothing" -> "idle"
                [] OTHER -> "started"
  /\ IF req.kind \in SettableKinds /\ How # "startIt" /\ code' = "ok"
     THEN bound' = Bound(req.kind, settings, Given) /\ ctx' = TellAllSignatures(settings, ctx)
     ELSE UNCHANGED <<bound, ctx>>
  /\ UNCHANGED <<req, settings, wanted, todo, made, found, log, timeVars, dataVars, ownerVars, wrapperVars,
                 listVars>>

\* startNow() runs what startLater() has prepared.
StartNow ==
  /\ stage = "prepared" /\ ClassOf[req.kind].startNow = "run"
  /\ stage' = "started"
  /\ UNCHANGED <<req, ctx, settingVars, resultVars, timeVars, dataVars, ownerVars, wrapperVars, listVars>>

\* Time only matters to requests with a date.
Tick ==
  /\ stage \in {"started", "working"} /\ clock < MaxDelay /\ req.kind \in DatedKinds
  /\ clock' = clock + 1
  /\ UNCHANGED <<req, settingVars, wrapperVars, stage, ctx, resultVars, entered, dataVars, ownerVars, listVars>>

\* slotFinished() emits done(), then the result, and then the job posts its deletion; the
\* key list job announces its keys before, and a wrapper posts its own deletion at done().
Report ==
  /\ stage = "returned"
  /\ stage' = "reported"
  /\ posted' = IF wrapper = "alive" THEN <<"wrapper", "job">> ELSE <<"job">>
  /\ IF req.kind \in ListingKinds THEN List!ResultHook ELSE UNCHANGED listVars
  /\ UNCHANGED <<req, settingVars, wrapper, ctx, resultVars, timeVars, dataVars, ownerVars>>

\* Each owner of a context is a shared pointer made of a plain one; the first that goes
\* deletes the context.
Released == IF context = "alive" THEN "deleted" ELSE "deleted twice"

\* eventFilter(): as long as the wrapper lives, it keeps its job from being deleted.
Filtered == wrapper = "alive"

\* The job is deleted, by deleteLater() or, after exec(), by its owner.
DeferredDelete ==
  /\ stage = "reported" /\ posted # <<>> /\ Head(posted) = "job"
  /\ posted' = Tail(posted)
  /\ IF Filtered THEN UNCHANGED <<stage, context>> ELSE stage' = "gone" /\ context' = Released
  /\ UNCHANGED <<req, ctx, settingVars, resultVars, timeVars, dataVars, nested, wrapper, listVars>>

\* The wrapper goes, and posts the deletion of its job, of which there is never more than one.
DeleteWrapper ==
  /\ stage = "reported" /\ posted # <<>> /\ Head(posted) = "wrapper"
  /\ wrapper' = "deleted"
  /\ posted' = IF "job" \in ToSet(Tail(posted)) THEN Tail(posted) ELSE Append(Tail(posted), "job")
  /\ UNCHANGED <<req, stage, ctx, settingVars, resultVars, timeVars, dataVars, ownerVars, listVars>>

------------------------------------------------------------------------------
(* The worker function *)

\* The names of an archive job's files as one text, with a NUL between two of them.
JoinedByNul(names) ==
  FoldLeft(LAMBDA joined, name :
             CASE name = <<>> -> joined
               [] name # <<>> /\ joined = <<>> -> name
               [] OTHER -> joined \o <<0>> \o name,
           <<>>, names)

Input(r) == CASE r.kind = "import" -> r.a.bytes
              [] r.kind = "encryptArchive" -> encodeFilenames(r.a.names)
              [] OTHER -> <<>>
InputFile(r) == IF r.kind = "encryptArchive" THEN JoinedByNul(r.a.names) ELSE Input(r)

EnterWorker ==
  /\ stage = "started" /\ req.kind \notin ListingKinds \cup NestingKinds
  /\ stage' = "working"
  /\ todo' = Program(req, ctx, IF WithFiles THEN settings ELSE bound, clock)
  /\ ctx' = CASE WithFiles -> TellAllSignatures(settings, ctx)
              [] req.kind = "listAllKeys" -> [ctx EXCEPT !.trustCheck = TrustCheck(bound.options, req.version)]
              [] OTHER -> ctx
  /\ entered' = clock
  /\ provider' = IF req.kind = "decrypt" THEN NewDevice(req.a.sequential) ELSE NewProvider(Input(req))
  /\ file' = [content |-> InputFile(req), pos |-> 0]
  /\ device' = IF req.kind = "encrypt" THEN req.a.device ELSE device
  /\ UNCHANGED <<req, settingVars, wrapperVars, made, code, found, log, clock, agree, dataOps, ownerVars, listVars>>

\* PartialFileGuard finds no name for the temporary file, and the worker function returns.
NoPartFile ==
  /\ stage = "started" /\ WithFiles /\ req.kind \in WithPartFile
  /\ stage' = "returned" /\ code' = "EEXIST"
  /\ UNCHANGED <<req, ctx, settingVars, todo, made, found, log, timeVars, dataVars, ownerVars,
                 wrapperVars, listVars>>

\* The mode that a worker function sets before the listing nested in it.
NestedMode == CASE req.kind = "keyForMailbox" -> {"Locate", "Signatures", "Validate"}
                [] req.kind = "wkdRefresh" -> {"LocateExternal"}
                [] OTHER -> ctx.mode

\* list_keys() of a key list job; do_work() and locate_external_keys() make one on the
\* context of their own job, and call its exec().
EnterListing ==
  /\ stage = "started" /\ req.kind \in ListingKinds \cup NestingKinds
  /\ req.kind = "wkdRefresh" => Addresses(req) # <<>>
  /\ stage' = "listing"
  /\ ctx' = [ctx EXCEPT !.mode = NestedMode]
  /\ nested' = IF req.kind \in NestingKinds THEN "kept" ELSE nested
  /\ lengths' = PatternsOf(req)
  /\ pc' = "listing" /\ chunkSize' = Len(lengths')
  /\ UNCHANGED <<req, settingVars, wrapperVars, resultVars, timeVars, dataVars, context, first, keys, result, emitted>>

NothingToRefresh ==
  /\ stage = "started" /\ req.kind = "wkdRefresh" /\ Addresses(req) = <<>>
  /\ stage' = "returned"
  /\ UNCHANGED <<req, settingVars, wrapperVars, ctx, resultVars, timeVars, dataVars, ownerVars, listVars>>

\* (Mutant of Stops: isCanceled() is not asked for.)
StopsOnError(call, outcome) == outcome \notin {"ok", "canceled"} /\ ~GoesOn(call)

Stops(call, outcome) == outcome # "ok" /\ ~GoesOn(call)

\* do_list_keys() adds to the mode for its listing, and sets it back however that ends.
ModeOf(call) == IF call.op = "list" /\ call.what = "all" THEN ctx.mode \cup {"WithSecret"} ELSE ctx.mode

\* Not all worker functions ask for the audit log, and none that no signing key stopped.
HasLog(call) ==
  /\ req.kind \notin NoLogKinds \cup QuickKinds \cup WksKinds
  /\ call.op # "addSigningKey"

\* A call comes back, and the worker function goes on or returns.
Goes(call, outcome) ==
  /\ made' = Append(made, [op |-> call.op, what |-> call.what, outcome |-> outcome, at |-> clock,
                           ctx |-> [ctx EXCEPT !.mode = ModeOf(call)]])
  /\ todo' = IF Stops(call, outcome) THEN <<>> ELSE Tail(todo)
  /\ stage' = CASE todo' # <<>> -> stage
                [] todo' = <<>> /\ HasLog(call) -> "logging"
                [] OTHER -> "returned"

IsNext(ops) == stage = "working" /\ todo # <<>> /\ Head(todo).op \in ops
Special == {"return", "list", "process", "importKeys"}
Outcomes == {"ok", "failed", "canceled"}
\* Adding a signing key only looks at the key, and takes no time in which to cancel it.
OutcomesOf(op) == IF op = "addSigningKey" THEN {"ok", "failed"} ELSE Outcomes

ReturnEarly ==
  /\ IsNext({"return"})
  /\ code' = Head(todo).what
  /\ stage' = "returned" /\ todo' = <<>>
  /\ UNCHANGED <<req, settingVars, wrapperVars, ctx, made, found, log, timeVars, dataVars, ownerVars, listVars>>

CallEngine ==
  /\ stage = "working" /\ todo # <<>> /\ Head(todo).op \notin Special
  /\ req.kind = "encrypt" => device.read \in {"0", "EIO"}
  /\ \E outcome \in OutcomesOf(Head(todo).op) : Goes(Head(todo), outcome) /\ code' = outcome
  /\ UNCHANGED <<req, settingVars, wrapperVars, ctx, found, log, timeVars, dataVars, ownerVars, listVars>>

CallImport ==
  /\ IsNext({"importKeys"})
  /\ \E outcome \in Outcomes, statuses \in SUBSET {"ok", "BAD_PASSPHRASE"} :
       /\ Goes(Head(todo), outcome)
       /\ code' = ImportCode(outcome, statuses)
       /\ found' = [found EXCEPT !.statuses = statuses]
  /\ UNCHANGED <<req, settingVars, wrapperVars, ctx, log, timeVars, dataVars, ownerVars, listVars>>

\* waitForStarted() and waitForFinished() in the worker thread.
RunProcess ==
  /\ IsNext({"process"})
  /\ \E end \in {"not started", "exit 0", "exit 1", "crash", "timeout"} :
       /\ Goes(Head(todo), IF end = "exit 0" THEN "ok" ELSE end)
       /\ code' = ProcessCode(Head(todo).what, end)
  /\ UNCHANGED <<req, settingVars, wrapperVars, ctx, found, log, timeVars, dataVars, ownerVars, listVars>>

\* The audit log is asked for after the last call; that it cannot be had is no error of
\* the result.
TakeLog ==
  /\ stage = "logging"
  /\ stage' = "returned"
  /\ \E logCode \in {"ok", "failed"} :
       log' = audit_log_as_html(ctx.protocol, Last(made).outcome, logCode)
  /\ UNCHANGED <<req, settingVars, wrapperVars, ctx, todo, made, code, found, timeVars, dataVars, ownerVars,
                 listVars>>

------------------------------------------------------------------------------
(* Lists of keys *)

\* What the engine lists of the ring; a listing of public keys knows no secret ones.
EngineLists(what) ==
  CASE what = "public" -> [i \in DOMAIN req.a.ring |-> [req.a.ring[i] EXCEPT !.secret = FALSE]]
    [] what = "secret" -> SecretOnes(req.a.ring)
    [] what = "all" -> req.a.ring

\* KeyListResult::mergeWith(): an error stays, but a cancellation counts as none.
MergedCode(before, now) == IF before = "failed" THEN before ELSE now

\* What the worker function has after the listing.
Found(what, listed) ==
  CASE what = "public" -> [found EXCEPT !.public = Sorted(listed)]
    [] what = "secret" ->
         [found EXCEPT !.secret = Sorted(listed),
                       !.public = IF req.a.mergeKeys THEN merge_keys(@, Sorted(listed)) ELSE @]
    [] what = "all" ->
         [found EXCEPT !.public = Sorted(listed), !.secret = SecretOnes(Sorted(listed))]

\* A listing that fails, or is not even started, leaves the keys it has listed so far.
CallList ==
  /\ req.kind = "listAllKeys" /\ IsNext({"list"})
  /\ LET what == Head(todo).what
         all == EngineLists(what) IN
     \E outcome \in Outcomes, n \in 0..Len(all) :
       /\ outcome = "ok" => n = Len(all)
       /\ Goes(Head(todo), outcome)
       /\ code' = MergedCode(code, outcome)
       /\ found' = Found(what, SubSeq(all, 1, n))
  /\ UNCHANGED <<req, settingVars, wrapperVars, ctx, log, timeVars, dataVars, ownerVars, listVars>>

ListingStep ==
  /\ stage = "listing"
  /\ List!Retry \/ List!ListChunk
  /\ UNCHANGED <<req, settingVars, wrapperVars, stage, ctx, resultVars, timeVars, dataVars, ownerVars>>
ListingStops ==
  /\ stage = "listing"
  /\ List!ListFails \/ List!EarlyEnd
  /\ UNCHANGED <<req, settingVars, wrapperVars, stage, ctx, resultVars, timeVars, dataVars, ownerVars>>

ListingReturns ==
  /\ stage = "listing" /\ pc = "returned" /\ req.kind \in ListingKinds
  /\ stage' = "returned"
  /\ code' = result
  /\ UNCHANGED <<req, settingVars, wrapperVars, ctx, todo, made, found, log, timeVars, dataVars, ownerVars, listVars>>

\* (Mutant of LeaveNestedJob: the nested job is deleted like any other.)
DeleteNestedJob == nested' = "deleted" /\ context' = Released

\* The nested job is never deleted: it would take the context along.
LeaveNestedJob == UNCHANGED <<nested, context>>

\* do_work() after exec(), which announces the keys to nobody: a cancelled listing is not
\* an error here, and what was listed before is chosen from.
ChooseKey ==
  /\ stage = "listing" /\ pc = "returned" /\ req.kind = "keyForMailbox"
  /\ stage' = "returned"
  /\ code' = result
  /\ \E n \in 0..Len(req.a.ring) :
       /\ result = "ok" => n = Len(req.a.ring)
       /\ found' = IF result \in {"ok", "canceled"}
                   THEN [found EXCEPT !.best = Chosen(SubSeq(req.a.ring, 1, n), req.a.canEncrypt)]
                   ELSE found
  /\ LeaveNestedJob
  /\ List!ResultHook
  /\ UNCHANGED <<req, settingVars, wrapperVars, ctx, todo, made, log, timeVars, dataVars>>

\* locate_external_keys() after exec(), whose result it drops: the result is that of the
\* imports. The saver of the mode sets it back.
RefreshEnds ==
  /\ stage = "listing" /\ pc = "returned" /\ req.kind = "wkdRefresh"
  /\ stage' = "returned"
  /\ ctx' = ContextFor(req)
  /\ code' \in {"ok", result}
  /\ LeaveNestedJob
  /\ List!ResultHook
  /\ UNCHANGED <<req, settingVars, wrapperVars, todo, made, found, log, timeVars, dataVars>>

------------------------------------------------------------------------------
(* What GpgME asks of the data providers during a call *)

\* A byte array is asked for as long as its place is an int
\* (what comes after a place that is no int is not followed).
DataAsked(kinds) ==
  /\ stage = "working" /\ req.kind \in kinds
  /\ dataOps < MaxDataOps
  /\ req.kind # "decrypt" => file.pos < IntSize
  /\ dataOps' = dataOps + 1
  /\ UNCHANGED <<req, settingVars, wrapperVars, ctx, resultVars, timeVars, ownerVars, listVars, device>>

\* The file in the place of the provider.
FileRead(n) == SubSeq(file.content, file.pos + 1, Min({file.pos + n, Len(file.content)}))
FileWritten(bytes) ==
  [i \in 1..Max({Len(file.content), file.pos + Len(bytes)}) |->
     CASE i \in (file.pos + 1)..(file.pos + Len(bytes)) -> bytes[i - file.pos]
       [] i \notin (file.pos + 1)..(file.pos + Len(bytes)) /\ i <= Len(file.content) -> file.content[i]
       [] OTHER -> 0]

ReadData ==
  /\ DataAsked({"import", "encryptArchive"})
  /\ \E n \in 1..2 :
       /\ provider' = read(provider, n)
       /\ agree' = (agree /\ BytesRead(provider, n) = FileRead(n))
       /\ file' = [file EXCEPT !.pos = @ + Len(FileRead(n))]
  /\ UNCHANGED stage

Place(offset, whence) ==
  CASE whence = "SEEK_SET" -> offset
    [] whence = "SEEK_CUR" -> file.pos + offset
    [] whence = "SEEK_END" -> Len(file.content) + offset

\* A write that begins before the end and ends behind it, for which the byte array provider
\* is not made.
AcrossTheEnd(bytes) == file.pos < Len(file.content) /\ Len(file.content) < file.pos + Len(bytes)

WriteData ==
  /\ DataAsked(Exports)
  /\ \E bytes \in {<<1>>, <<2, 3>>} :
       /\ MayWrite(provider, Len(bytes))
       /\ agree' = (agree /\ ~AcrossTheEnd(bytes))
       /\ provider' = write(provider, bytes)
       /\ file' = [content |-> FileWritten(bytes), pos |-> file.pos + Len(bytes)]
  /\ UNCHANGED stage

\* The assertion of write() fails, and with it the program.
WriteAsserts ==
  /\ DataAsked(Exports)
  /\ \E bytes \in {<<1>>, <<2, 3>>} :
       /\ ~MayWrite(provider, Len(bytes))
       /\ agree' = (agree /\ AcrossTheEnd(bytes))
  /\ stage' = "crashed"
  /\ UNCHANGED <<provider, file>>

\* write() to a device, with which GpgME may also write across the end.
WriteDevice ==
  /\ DataAsked({"decrypt"})
  /\ \E bytes \in {<<1>>, <<2, 3>>} :
       /\ provider' = DeviceWrite(provider, bytes)
       /\ file' = [content |-> FileWritten(bytes), pos |-> file.pos + Len(bytes)]
  /\ UNCHANGED <<stage, agree>>

\* GpgME seeks in the devices of which isSupported() says that it may.
SeekDevice ==
  /\ DataAsked({"decrypt"}) /\ isSupported(provider, "Seek")
  /\ \E offset \in -1..1, whence \in {"SEEK_SET", "SEEK_CUR", "SEEK_END"} :
       LET place == Place(offset, whence)
           sought == DeviceSeek(provider, offset, whence) IN
       /\ provider' = sought.device
       /\ agree' = (agree /\ (sought.answer = "EINVAL" <=> place < 0))
       /\ file' = IF place < 0 THEN file ELSE [file EXCEPT !.pos = place]
  /\ UNCHANGED stage

\* GpgME asks for no place before the front.
SeekData ==
  /\ DataAsked({"import", "encryptArchive"} \cup Exports)
  /\ \E offset \in (-1..1) \cup {IntSize}, whence \in {"SEEK_SET", "SEEK_CUR", "SEEK_END"} :
       LET place == Place(offset, whence) IN
       /\ place >= 0
       /\ provider' = seek(provider, offset, whence)
       /\ file' = [file EXCEPT !.pos = place]
  /\ UNCHANGED <<stage, agree>>

\* A process that sends the input.
ProcessSends ==
  /\ stage = "working" /\ device.process = "running"
  /\ \/ dataOps < MaxDataOps /\ dataOps' = dataOps + 1 /\ device' = [device EXCEPT !.left = @ + 1]
     \/ UNCHANGED dataOps /\ \E end \in {"exited", "failed"} : device' = [device EXCEPT !.process = end]
  /\ UNCHANGED <<req, settingVars, wrapperVars, stage, ctx, resultVars, timeVars, provider, file, agree, ownerVars, listVars>>

\* read() of the device provider, which waits for a process; GpgME reads on until it is
\* told of an end or of an error.
Answer == CASE device.process # "none" -> ProcessRead(device.process, device.left)
            [] device.process = "none" /\ device.left > 0 -> "bytes"
            [] OTHER -> device.end
ReadDevice ==
  /\ IsNext({"encrypt"}) /\ device.read \notin {"0", "EIO"}
  /\ device.process = "running" => device.left > 0
  /\ \E errno \in BOOLEAN :
       device' = [device EXCEPT !.read = DeviceRead(Answer, device.errorOccurred, errno),
                                !.errno = errno,
                                !.errorOccurred = ErrorOccurredAfter(Answer, @),
                                !.left = IF Answer = "bytes" THEN @ - 1 ELSE @]
  /\ UNCHANGED <<req, settingVars, wrapperVars, stage, ctx, resultVars, timeVars, provider, file, agree, dataOps, ownerVars,
                 listVars>>

------------------------------------------------------------------------------
WorkerStep ==
  \/ EnterWorker \/ NoPartFile \/ EnterListing \/ NothingToRefresh
  \/ ReturnEarly \/ CallEngine \/ CallImport \/ RunProcess \/ CallList \/ TakeLog
  \/ ListingStep \/ ListingReturns \/ ChooseKey \/ RefreshEnds
  \/ ProcessSends \/ ReadDevice
DataStep == ReadData \/ WriteData \/ WriteAsserts \/ SeekData \/ WriteDevice \/ SeekDevice
Next == CreateJob \/ Configure \/ Reconfigure \/ Start \/ StartNow \/ Report \/ DeferredDelete \/ DeleteWrapper \/ WorkerStep \/ DataStep
        \/ Tick \/ ListingStops

Spec == Init /\ [][Next]_vars

\* Every call of the engine comes back, every process that is run or read from ends, and
\* the event loop goes on; that a listing fails is not relied on.
FairSpec == /\ Spec
            /\ WF_vars(CreateJob) /\ WF_vars(Configure) /\ WF_vars(Start) /\ WF_vars(StartNow)
            /\ WF_vars(Report)
            /\ WF_vars(DeferredDelete \/ DeleteWrapper)
            /\ WF_vars(WorkerStep)

------------------------------------------------------------------------------
TypeOK ==
  /\ stage \in Stages
  /\ clock \in 0..MaxDelay /\ entered \in 0..clock
  /\ nested \in {"none", "kept", "deleted"}
  /\ context \in {"none", "alive", "deleted", "deleted twice"}
  /\ dataOps \in 0..MaxDataOps /\ agree \in BOOLEAN
  /\ pc # "idle" => List!TypeOK
  /\ ctx.mode \subseteq {"Local", "Extern", "Locate", "LocateExternal", "Signatures", "Validate"}

Calls == {made[i] : i \in DOMAIN made}

\* The worker functions pass on what their calls answer: a result without an error means
\* that all of them succeeded, nothing is called after a failure or a cancellation, and a
\* bad passphrase is only blamed when all keys of an import failed for it. (The second of
\* the listings of an older engine may hide that the first was cancelled.) The audit log
\* belongs to the last call; the reader of a failed one gets the engine's diagnostics.
TruthfulReport ==
  /\ \A i \in DOMAIN made : i < Len(made) => made[i].outcome = "ok" \/ GoesOn(made[i])
  /\ stage \in Ended /\ code = "ok" =>
       \A call \in Calls : call.outcome = "ok" \/ (GoesOn(call) /\ call.outcome = "canceled")
  /\ stage \in Ended /\ req.kind = "import" /\ code = "BAD_PASSPHRASE" =>
       found.statuses = {"BAD_PASSPHRASE"} /\ \E call \in Calls : call.outcome = "failed"
  /\ log.text # "none" => made # <<>> /\ Last(made).op # "addSigningKey"
  /\ log.text = "audit log" => ctx.protocol = CMS /\ code # "failed"

DatedCalls == {call \in Calls : req.kind \in DatedKinds /\ call.op \in DatedOps}
Expires(call) ==
  IF call.op = "addExistingSubkey" THEN call.what.expires ELSE EngineExpiry(call.what.expires, call.at)
Date == DateOf(req)
Wanted(call) == IF call.op = "signKey" THEN Min({Date, LastDate}) ELSE Date

\* A key, a subkey or a certification expires at the date that was asked for, no matter
\* how long its job waited for its thread, or at most as much later as the engine was
\* called after the seconds were counted; without a date it never does. A change to a date that is past ends the
\* validity at once, and never makes it unlimited. (Nothing is claimed of the other jobs
\* when the date is past as their worker function runs.)
ExpiryIsKept == \A call \in DatedCalls :
  /\ Date = None => Expires(call) = Never
  /\ Date # None /\ Wanted(call) > entered =>
       Expires(call) \in Wanted(call)..(Wanted(call) + call.at - entered)
  /\ Date # None /\ call.op = "setExpire" /\ Date <= entered =>
       Expires(call) \in (entered + 1)..(call.at + 1)

ModeAsked ==
  CASE req.kind = "keyList" -> {IF req.a.remote THEN "Extern" ELSE "Local"}
                               \cup (IF req.a.includeSigs THEN {"Signatures"} ELSE {})
    [] req.kind \in {"locateKeys", "keyForMailbox"} -> {"Locate", "Signatures", "Validate"}
    [] req.kind = "wkdRefresh" -> {"LocateExternal"}
    [] req.kind = "listAllKeys" -> {"Local"} \cup (IF req.a.includeSigs THEN {"Signatures"} ELSE {})
                                   \cup (IF req.a.validate THEN {"Validate"} ELSE {})

\* The engine looks for keys where it was asked to, and nowhere else: a listing is either
\* local or not, a validating listing of all keys stays offline, and checks the trust
\* database unless its owner has switched that off, and a nested listing
\* does not take over the mode of the context it borrows, nor leave its own there (but
\* for the one for a mailbox).
ListsAsAsked ==
  /\ stage = "listing" => ctx.mode = ModeAsked
  /\ \A call \in Calls : call.op = "list" =>
       /\ call.ctx.mode \ {"WithSecret"} = ModeAsked
       /\ req.a.validate => call.ctx.offline
       /\ req.version >= V2_1_0 => (call.ctx.trustCheck <=> req.a.set.options = {})
  /\ stage \in Ended /\ req.kind # "keyForMailbox" => ctx.mode = ContextFor(req).mode

RingFprs == {req.a.ring[i].fpr : i \in DOMAIN req.a.ring}
FprsOf(list) == {list[i].fpr : i \in DOMAIN list}

\* The lists of all keys are sorted and hold each key once, even if a listing failed; a
\* complete list holds the whole ring, and merging two listings keeps which of the keys
\* are secret.
ListIsMerged == stage \in Ended /\ req.kind = "listAllKeys" =>
  /\ \A list \in {found.public, found.secret} :
       \A i, k \in DOMAIN list : i < k => list[i].fpr < list[k].fpr
  /\ (\A call \in Calls : call.outcome = "ok") =>
       /\ FprsOf(found.public) = RingFprs
       /\ FprsOf(found.secret) = FprsOf(SecretOnes(req.a.ring))
       /\ req.a.mergeKeys \/ req.version >= V2_1_0 => SecretOnes(found.public) = found.secret

\* The candidates for the mailbox that can be had.
Usable == {req.a.ring[i] : i \in {k \in DOMAIN req.a.ring : Eligible(req.a.ring[k], req.a.canEncrypt)}}

\* A key for the mailbox is found if and only if there is one, and it is one of them. One that
\* is not usable is chosen before a usable one only for a validity of its own, as a disabled
\* key or one with a revoked user ID may have; then the order in which the keys are listed
\* decides. As long as only usable ones have a validity, the one with the highest validity is
\* chosen, and one that is not usable only if there is no other (keyformailboxjob.h:58-60
\* says so of all keys). Of several with that validity it is the one with the newest
\* encryption subkey, but only if keys that can encrypt were asked for; otherwise the first.
BestKey == stage \in Ended /\ req.kind = "keyForMailbox" /\ code = "ok" =>
  LET best == found.best IN
  /\ best.place = 0 <=> Usable = {}
  /\ best.place # 0 => best \in Usable
  /\ (\E c \in Usable : c.ok) => best.ok \/ best.validity > 0
  /\ (\A c \in Usable : c.ok \/ c.validity = 0) => \A other \in Usable :
       /\ other.validity <= best.validity
       /\ other.ok => best.ok
       /\ other.ok /\ other.validity = best.validity =>
            Age(other, req.a.canEncrypt) <= Age(best, req.a.canEncrypt)

BytesArePassedOn ==
  /\ agree
  /\ stage = "working" => /\ provider.array = file.content
                          /\ req.kind = "decrypt" \/ file.pos < IntSize => provider.off = file.pos
DevicesAreReadToTheEnd ==
  /\ device.read = "EIO" =>
       device.process = "failed" \/ device.end = "EIO" \/ (device.end = "-1" /\ device.errno)
  /\ device.read = "0" => device.process # "failed" /\ device.left = 0

ModeOfJob ==
  [encryptJob |-> {"EncryptFile"}, signEncryptJob |-> {"EncryptFile"}, signJob |-> {"SignFile"},
   encryptArchiveJob |-> {"EncryptArchive"}, signEncryptArchiveJob |-> {"EncryptArchive"},
   signArchiveJob |-> {"SignArchive"}, decryptVerifyArchiveJob |-> {"DecryptArchive"}]
GivenOrSet(given, set) == [f \in DOMAIN given \cup DOMAIN set |-> IF f \in DOMAIN given THEN given[f] ELSE set[f]]
\* What the owner wants: start() makes copies at once, but the worker function of startIt()
\* reads the settings themselves.
Lasting == IF WithFiles THEN wanted ELSE req.a.set
Told == IF How = "startIt" \/ "given" \notin DOMAIN req.a THEN Lasting ELSE GivenOrSet(req.a.given, Lasting)
SignersTold == IF req.kind = "signKey" THEN <<Told.signer>> ELSE Told.signers
NotNull(signers) ==
  FoldLeft(LAMBDA keyed, signer : IF signer = "null" THEN keyed ELSE Append(keyed, signer), <<>>, signers)
NamesFiles == (How = "startIt" \/ req.kind \in ArchiveKinds) /\ req.kind \in DOMAIN ModeOfJob

\* The operation of a job is made for what its owner set, or gave to start().
AsTold(call) ==
  /\ \A f \in (DOMAIN call.what \cap DOMAIN Told) \ {"flags", "origin", "options"} :
       call.what[f] = Told[f]
  /\ "flags" \in DOMAIN call.what =>
       /\ call.what.flags \cap FileModes = IF NamesFiles THEN ModeOfJob[req.kind] ELSE {}
       /\ How = "startIt" /\ "flags" \in DOMAIN Defaults(req.kind) =>
            call.what.flags \ FileModes = Lasting.flags
  /\ call.ctx.allSignatures = ("allSignatures" \in DOMAIN Defaults(req.kind) /\ Lasting.allSignatures)
  /\ req.kind # "changeExpiry" => [i \in 1..(Len(made) - 1) |-> made[i].what] =
       IF {"signer", "signers"} \cap DOMAIN Defaults(req.kind) # {}
       THEN NotNull(SignersTold) ELSE <<>>
  /\ req.kind = "import" => call.what.origin = KeyOrigin(Told) /\ call.what.options = Told.options
  /\ req.kind \in Exports => call.what.mode = ContextFor(req).exportMode \cup Told.flags
  /\ req.kind = "changeExpiry" /\ Told.options = {} => {c.what.part : c \in Calls} \subseteq
       {IF req.a.subkeys THEN "subkeys" ELSE "primary key"}
  /\ req.kind = "signKey" => call.what.options = SigningOptions(Told)

SettingsArePassedOn == \A call \in Calls :
  req.kind \in SettableKinds \ {"listAllKeys"} /\ call.op # "addSigningKey" => AsTold(call)

\* Whatever GpgME reads, writes and seeks, a byte array behaves like a file with the same
\* content as long as its place is an int, and its assertion fails exactly for a write
\* across the end; the names of an archive's files are those of the job, one by one. A device
\* that ends without an error is taken for a broken one only if it answers -1 while errno
\* holds an older error, and a process that failed is never taken for one that has sent
\* everything. An operation is made with the files, keys and flags of its job: after start()
\* as they were then, whatever setters its owner calls later, but after startIt() as they are
\* when the worker function is entered, with whatever he has changed until then. Its input
\* is taken for the name of a file, or for a list of names, if and only if it is one, and
\* nothing is signed before all signers were accepted.
DataIsPassedOn == BytesArePassedOn /\ DevicesAreReadToTheEnd /\ SettingsArePassedOn

\* However many owners a context gets, one of them deletes it; and, as a comment in
\* eventFilter() wants it, a job lives at least as long as the wrapper around it.
OneOwnerDeletes == context # "deleted twice" /\ (stage = "gone" => wrapper # "alive")

\* What KeyListChunks says of a listing holds when other jobs use it.
KeysInOrder == List!KeysInOrder /\ (stage \in Ended => List!EqualPatternsAreComplete)
GivesUpOnlyForALongPattern == List!GivesUpOnlyForALongPattern

\* Every request comes to an end, and its job is deleted, if start() took it; but for the
\* one whose startIt() does nothing. The program only ends before for a default key
\* generation without an engine, and for a write across the end of an export's data.
Crashes ==
  /\ stage = "crashed" /\ req.kind \in Exports \cup {"defaultKeyGeneration"}
  /\ req.kind = "defaultKeyGeneration" => Protocol(OpenPGP, req.engines) = "null"
RequestsEnd == <>(stage \in {"no job", "refused", "idle", "gone"} \/ Crashes)
==============================================================================
