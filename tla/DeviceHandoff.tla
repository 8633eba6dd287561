---------------------------- MODULE DeviceHandoff ----------------------------
(***************************************************************************)
(* How the owner of a job lends it QIODevices. run(func, io) and           *)
(* run(func, io1, io2) of ThreadedJobMixin (src/src/threadedjobmixin.h)    *)
(* move the devices to the job's thread and bind only weak pointers; the   *)
(* worker function locks them, wraps them in data providers, and leaves    *)
(* its scope, which closes the devices, moves them back and forgets them,  *)
(* before the result reaches the owner, who may then reuse or delete them. *)
(*                                                                         *)
(* A worker function is the sequence of its declarations and calls; its    *)
(* scope is the stack of the local objects that have a destructor.         *)
(***************************************************************************)
EXTENDS Naturals, Sequences, SequencesExt

CONSTANTS Jobs, Devices,
          Gui,         \* the thread of the owner and of its jobs
          NoDevice,    \* a null pointer
          NoThread     \* a null QThread pointer

ASSUME DistinctAssumption ==
  /\ Jobs \cap Devices = {}
  /\ {Gui, NoDevice, NoThread} \cap (Jobs \cup Devices) = {}
  /\ Gui # NoThread

VARIABLES
  stage,      \* stage[j]: "fresh", "running", "finished", "reported" or "gone"
  body,       \* body[j]: what the worker function still has to do
  scope,      \* scope[j]: its live local objects, in the order of declaration
  lent,       \* lent[j]: the device in each role
  target,     \* target[j]: the thread argument of the worker function
  home,       \* home[d]: the thread the device lives in
  open,       \* open[d]: the device is open
  owned,      \* the devices the owner holds a shared_ptr of
  destroyed   \* destroyed[d]: the thread that destroyed the device

jobVars == <<stage, body, scope, lent, target>>
deviceVars == <<home, open, owned, destroyed>>
vars == <<jobVars, deviceVars>>

\* A job's own buffer, which the functions that take a QByteArray create, is
\* named like the job, and so is the job's thread.
AllDevices == Devices \cup Jobs
Threads == Jobs \cup {Gui}

Roles == {"in", "data", "out"}

------------------------------------------------------------------------------
(* The worker functions. Signature and signed data of a detached signature *)
(* have the roles "in" and "data".                                         *)

Lock(r)  == [do |-> "lock", role |-> r]    \* shared_ptr from the weak_ptr
Mover(r) == [do |-> "mover", role |-> r]   \* ToThreadMover
Data(r)  == [do |-> "data", role |-> r]    \* provider and GpgME::Data
Buffer   == [do |-> "buffer", role |-> "in"]
Signers  == [do |-> "signers", role |-> "none"]
Operate  == [do |-> "operate", role |-> "none"]

encrypt == <<Lock("in"), Lock("out"), Mover("out"), Mover("in"), Data("in"), Data("out"), Operate>>

decrypt == <<Lock("in"), Lock("out"), Mover("out"), Mover("in"), Data("in"), Data("out"), Operate>>

decrypt_verify ==
  <<Lock("in"), Lock("out"), Mover("out"), Mover("in"), Data("in"), Data("out"), Operate>>

verify_opaque ==
  <<Lock("out"), Lock("in"), Mover("out"), Mover("in"), Data("in"), Data("out"), Operate>>

\* (Mutants of sign: the data object outlives the mover, the mover is missing.)
sign_moved_early ==
  <<Lock("in"), Lock("out"), Data("in"), Mover("in"), Mover("out"), Signers, Data("out"), Operate>>

sign_not_moved == <<Lock("in"), Lock("out"), Mover("out"), Data("in"), Signers, Data("out"), Operate>>

sign ==
  <<Lock("in"), Lock("out"), Mover("in"), Mover("out"), Data("in"), Signers, Data("out"), Operate>>

sign_encrypt ==
  <<Lock("in"), Lock("out"), Mover("out"), Mover("in"), Data("in"), Signers, Data("out"), Operate>>

verify_detached ==
  <<Lock("in"), Lock("data"), Mover("in"), Mover("data"), Data("in"), Data("data"), Operate>>

download == <<Lock("out"), Mover("out"), Data("out"), Operate>>

encrypt_to_io_device == <<Lock("out"), Mover("out"), Data("out"), Operate>>
sign_to_io_device == <<Lock("out"), Mover("out"), Data("out"), Operate>>
sign_encrypt_to_io_device == <<Lock("out"), Mover("out"), Data("out"), Operate>>

decrypt_verify_from_io_device == <<Lock("in"), Mover("in"), Data("in"), Operate>>

Inputs == {encrypt, decrypt, decrypt_verify, verify_opaque, sign, sign_encrypt}
Archives == {encrypt_to_io_device, sign_to_io_device, sign_encrypt_to_io_device}

\* (Mutant of QbaThread: the buffer is moved to the owner's thread.)
QbaThreadGui == Gui

\* The *_qba functions: a QBuffer around the bytes, and no thread to move it to.
QbaThread == NoThread
Qba(f) == <<Buffer>> \o f

encrypt_qba == Qba(encrypt)
decrypt_qba == Qba(decrypt)
decrypt_verify_qba == Qba(decrypt_verify)
verify_opaque_qba == Qba(verify_opaque)
sign_qba == Qba(sign)
sign_encrypt_qba == Qba(sign_encrypt)

BytesInputs == {encrypt_qba, decrypt_qba, decrypt_verify_qba, verify_opaque_qba, sign_qba,
                sign_encrypt_qba}

------------------------------------------------------------------------------
\* (Mutant of BoundStrongly: the function holds shared pointers, until it is deleted.)
BoundShared(j) == IF stage[j] = "gone" THEN {} ELSE {lent[j][r] : r \in Roles}

\* What a std::bind in the thread's function holds: weak pointers count for nothing.
BoundStrongly(j) == {}

Refers(e) == e.what \in {"ref", "data", "buffer"}

\* Who holds a shared_ptr of d, when s is the scope of each job.
HoldersIn(d, s) ==
  {j \in Jobs : d \in BoundStrongly(j) \/ \E i \in DOMAIN s[j] : s[j][i].dev = d /\ Refers(s[j][i])}
    \cup (IF d \in owned THEN {Gui} ELSE {})
Holders(d) == HoldersIn(d, scope)

\* The owner knows that a device it lent is in use until it gets the result.
InUse(d) == \E j \in Jobs : stage[j] \in {"running", "finished"} /\ \E r \in Roles : lent[j][r] = d

Init ==
  /\ stage = [j \in Jobs |-> "fresh"]
  /\ body = [j \in Jobs |-> <<>>]
  /\ scope = [j \in Jobs |-> <<>>]
  /\ lent = [j \in Jobs |-> [r \in Roles |-> NoDevice]]
  /\ target = [j \in Jobs |-> NoThread]
  /\ home = [d \in AllDevices |-> IF d \in Jobs THEN d ELSE Gui]
  /\ open = [d \in AllDevices |-> d \in Devices]
  /\ owned = Devices
  /\ destroyed = [d \in AllDevices |-> NoThread]

------------------------------------------------------------------------------
(* The owner.                                                              *)

Available(d) == d \in owned /\ open[d] /\ ~InUse(d)

\* run(func, io1, io2): the devices are moved to the job's thread, which starts.
RunWith(j, f, devices) ==
  /\ stage[j] = "fresh"
  /\ stage' = [stage EXCEPT ![j] = "running"]
  /\ body' = [body EXCEPT ![j] = f]
  /\ lent' = [lent EXCEPT ![j] = devices]
  /\ target' = [target EXCEPT ![j] = Gui]
  /\ home' = [d \in AllDevices |->
                IF \E r \in Roles : devices[r] = d THEN j ELSE home[d]]
  /\ UNCHANGED <<scope, open, owned, destroyed>>

Given(in, data, out) == [r \in Roles |-> CASE r = "in" -> in [] r = "data" -> data [] r = "out" -> out]

\* start(in, out) of the jobs that read a device; the output is optional.
StartInput(j) ==
  \E f \in Inputs : \E in \in Devices : \E out \in (Devices \ {in}) \cup {NoDevice} :
    /\ Available(in) /\ (out = NoDevice \/ Available(out))
    /\ RunWith(j, f, Given(in, NoDevice, out))

StartVerifyDetached(j) ==
  \E in \in Devices : \E data \in Devices \ {in} :
    /\ Available(in) /\ Available(data)
    /\ RunWith(j, verify_detached, Given(in, data, NoDevice))

StartDownload(j) ==
  \E out \in Devices \cup {NoDevice} :
    /\ out = NoDevice \/ Available(out)
    /\ RunWith(j, download, Given(NoDevice, NoDevice, out))

\* The archive jobs do not start without a device (GPG_ERR_INV_VALUE).
StartArchive(j) ==
  \E out \in Devices :
    /\ Available(out)
    /\ \E f \in Archives : RunWith(j, f, Given(NoDevice, NoDevice, out))

StartExtract(j) ==
  \E in \in Devices :
    /\ Available(in)
    /\ RunWith(j, decrypt_verify_from_io_device, Given(in, NoDevice, NoDevice))

\* start(bytes): run(func) of a function that makes its own device.
StartBytes(j) ==
  /\ stage[j] = "fresh"
  /\ \E f \in BytesInputs : body' = [body EXCEPT ![j] = f]
  /\ stage' = [stage EXCEPT ![j] = "running"]
  /\ lent' = [lent EXCEPT ![j] = Given(j, NoDevice, NoDevice)]
  /\ target' = [target EXCEPT ![j] = QbaThread]
  /\ UNCHANGED <<scope, deviceVars>>

\* Between two jobs the owner opens a device again, or deletes it.
Reopen(d) ==
  /\ d \in owned /\ ~open[d] /\ ~InUse(d)
  /\ open' = [open EXCEPT ![d] = TRUE]
  /\ UNCHANGED <<jobVars, home, owned, destroyed>>

Forget(d) ==
  /\ d \in owned /\ ~InUse(d)
  /\ owned' = owned \ {d}
  /\ destroyed' = IF Holders(d) = {Gui} THEN [destroyed EXCEPT ![d] = Gui] ELSE destroyed
  /\ UNCHANGED <<jobVars, home, open>>

------------------------------------------------------------------------------
(* The worker thread of a job.                                             *)

Doing(j, what) ==
  /\ stage[j] = "running"
  /\ body[j] # <<>>
  /\ Head(body[j]).do = what

Device(j) == lent[j][Head(body[j]).role]
Proceed(j) == body' = [body EXCEPT ![j] = Tail(@)]
Push(j, what, d) == scope' = [scope EXCEPT ![j] = Append(@, [what |-> what, dev |-> d])]

CreateBuffer(j) ==
  /\ Doing(j, "buffer")
  /\ Push(j, "buffer", j)
  /\ open' = [open EXCEPT ![j] = TRUE]
  /\ Proceed(j)
  /\ UNCHANGED <<stage, lent, target, home, owned, destroyed>>

LockWeakPointer(j) ==
  /\ Doing(j, "lock")
  /\ Push(j, "ref", IF Device(j) # NoDevice /\ Holders(Device(j)) # {} THEN Device(j) ELSE NoDevice)
  /\ Proceed(j)
  /\ UNCHANGED <<stage, lent, target, deviceVars>>

DeclareMover(j) ==
  /\ Doing(j, "mover")
  /\ Push(j, "mover", Device(j))
  /\ Proceed(j)
  /\ UNCHANGED <<stage, lent, target, deviceVars>>

\* A provider of the device, or of a byte array where there is no output device.
DeclareData(j) ==
  /\ Doing(j, "data")
  /\ Push(j, "data", Device(j))
  /\ Proceed(j)
  /\ UNCHANGED <<stage, lent, target, deviceVars>>

Return(j) == body' = [body EXCEPT ![j] = <<>>]

\* addSigningKey() accepts every signer, or the function returns its error.
AddSigners(j) ==
  /\ Doing(j, "signers")
  /\ Proceed(j) \/ Return(j)
  /\ UNCHANGED <<stage, scope, lent, target, deviceVars>>

\* The operation, and the return statement, which copies what the locals hold.
OperateAndReturn(j) ==
  /\ Doing(j, "operate")
  /\ Return(j)
  /\ UNCHANGED <<stage, scope, lent, target, deviceVars>>

Leaving(j, what) ==
  /\ stage[j] = "running" /\ body[j] = <<>> /\ scope[j] # <<>>
  /\ Last(scope[j]).what \in what

Pop(j) == scope' = [scope EXCEPT ![j] = Front(@)]

\* ~Data releases the provider: a device is closed, a byte array is cleared.
\* The provider's shared_ptr goes with it.
DestroyData(j) ==
  /\ Leaving(j, {"data"})
  /\ LET d == Last(scope[j]).dev IN
       open' = IF d = NoDevice THEN open ELSE [open EXCEPT ![d] = FALSE]
  /\ Pop(j)
  /\ UNCHANGED <<stage, body, lent, target, home, owned, destroyed>>

\* ~ToThreadMover: QObject::moveToThread() only pushes an object away from the
\* thread it is called in.
DestroyMover(j) ==
  /\ Leaving(j, {"mover"})
  /\ LET d == Last(scope[j]).dev IN
       home' = IF d # NoDevice /\ target[j] # NoThread /\ home[d] = j
               THEN [home EXCEPT ![d] = target[j]] ELSE home
  /\ Pop(j)
  /\ UNCHANGED <<stage, body, lent, target, open, owned, destroyed>>

\* The last shared_ptr destroys the device.
DropReference(j) ==
  /\ Leaving(j, {"ref", "buffer"})
  /\ Pop(j)
  /\ LET d == Last(scope[j]).dev IN
       destroyed' = IF d # NoDevice /\ HoldersIn(d, scope') = {}
                    THEN [destroyed EXCEPT ![d] = j] ELSE destroyed
  /\ UNCHANGED <<stage, body, lent, target, home, open, owned>>

\* The thread's run() ends with its function, and finished() is posted.
ThreadEnds(j) ==
  /\ stage[j] = "running" /\ body[j] = <<>> /\ scope[j] = <<>>
  /\ stage' = [stage EXCEPT ![j] = "finished"]
  /\ UNCHANGED <<body, scope, lent, target, deviceVars>>

\* slotFinished() in the owner's thread.
SlotFinished(j) ==
  /\ stage[j] = "finished"
  /\ stage' = [stage EXCEPT ![j] = "reported"]
  /\ UNCHANGED <<body, scope, lent, target, deviceVars>>

\* deleteLater(): the thread's function and what it holds are destroyed.
DeferredDelete(j) ==
  /\ stage[j] = "reported"
  /\ stage' = [stage EXCEPT ![j] = "gone"]
  /\ UNCHANGED <<body, scope, lent, target, deviceVars>>

------------------------------------------------------------------------------
OwnerStep ==
  \/ \E j \in Jobs : \/ StartInput(j) \/ StartVerifyDetached(j) \/ StartDownload(j)
                     \/ StartArchive(j) \/ StartExtract(j) \/ StartBytes(j)
  \/ \E d \in Devices : Reopen(d) \/ Forget(d)

WorkerStep(j) ==
  \/ CreateBuffer(j) \/ LockWeakPointer(j) \/ DeclareMover(j) \/ DeclareData(j)
  \/ AddSigners(j) \/ OperateAndReturn(j)
  \/ DestroyData(j) \/ DestroyMover(j) \/ DropReference(j) \/ ThreadEnds(j)

LoopStep(j) == SlotFinished(j) \/ DeferredDelete(j)

Next == OwnerStep \/ \E j \in Jobs : WorkerStep(j) \/ LoopStep(j)

Spec == Init /\ [][Next]_vars
FairSpec == Spec /\ \A j \in Jobs : WF_vars(WorkerStep(j)) /\ WF_vars(LoopStep(j))

------------------------------------------------------------------------------
(* Properties.                                                             *)

Stages == {"fresh", "running", "finished", "reported", "gone"}
Locals == [what : {"ref", "mover", "data", "buffer"}, dev : AllDevices \cup {NoDevice}]

TypeOK ==
  /\ stage \in [Jobs -> Stages]
  /\ \A j \in Jobs : \A i \in DOMAIN scope[j] : scope[j][i] \in Locals
  /\ lent \in [Jobs -> [Roles -> AllDevices \cup {NoDevice}]]
  /\ target \in [Jobs -> {Gui, NoThread}]
  /\ home \in [AllDevices -> Threads]
  /\ open \in [AllDevices -> BOOLEAN]
  /\ owned \subseteq Devices
  /\ destroyed \in [AllDevices -> Threads \cup {NoThread}]

\* As long as a worker reads, writes or closes a device through a data object,
\* the device lives in the worker's thread and exists; and a device, the owner's or
\* a job's own buffer, is destroyed in the thread in which it lives.
UsedAtHome ==
  /\ \A j \in Jobs : \A i \in DOMAIN scope[j] :
       scope[j][i].what = "data" /\ scope[j][i].dev # NoDevice
         => /\ home[scope[j][i].dev] = j
            /\ destroyed[scope[j][i].dev] = NoThread
  /\ \A d \in AllDevices : destroyed[d] # NoThread => destroyed[d] = home[d]

\* threadedjobmixin.h:206-209: when the result is emitted, the receiver can
\* clean up the devices: they live in its thread, and nobody else holds them.
CleanAtResult ==
  \A j \in Jobs : stage[j] = "reported" =>
    \A r \in Roles : LET d == lent[j][r] IN
      d \in Devices /\ ~InUse(d) => home[d] = Gui /\ Holders(d) \subseteq {Gui}

\* Every device lent to a job comes back to the owner's thread.
DevicesComeHome == \A d \in Devices : home[d] \in Jobs ~> home[d] = Gui
==============================================================================
