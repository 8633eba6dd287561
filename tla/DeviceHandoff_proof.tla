-------------------------- MODULE DeviceHandoff_proof --------------------------
(***************************************************************************)
(* Proofs about DeviceHandoff, for any number of jobs and devices: a       *)
(* device is used and destroyed where it lives, and it has come home when  *)
(* the result is reported.                                                 *)
(*                                                                         *)
(* The properties do not follow step by step: that a device comes home     *)
(* rests on what the worker function still has to do. The invariant (IInv) *)
(* therefore says of every job, whatever its function is, what may follow  *)
(* (WellFormed) and how it relates to the local objects that exist: each   *)
(* device that is away is waited for by a mover, declared or to be         *)
(* declared before the function can return (Away), and a mover is never    *)
(* above a data object of the same device, because the stack of local      *)
(* objects is taken down from the top (Stacked, Pending).                  *)
(***************************************************************************)
EXTENDS DeviceHandoff, SequenceTheorems, TLAPS

------------------------------------------------------------------------------
(* What is left of a worker function.                                      *)

DeviceCalls == {"lock", "mover", "data"}
Calls == [do : DeviceCalls \cup {"buffer", "signers", "operate"}, role : Roles \cup {"none"}]

\* The function declares a mover for the device in this role.
Moves(b, r) == \E p \in DOMAIN b : b[p].do = "mover" /\ b[p].role = r

\* All movers are declared before the function can return, and each before the data
\* object of the same role.
WellFormed(b) ==
  /\ b \in Seq(Calls)
  /\ \A p \in DOMAIN b : b[p].do \in DeviceCalls => b[p].role \in Roles
  /\ \A p, q \in DOMAIN b :
       q < p /\ b[p].do = "mover" =>
         /\ b[q].do \notin {"signers", "operate"}
         /\ b[q].do = "data" => b[q].role # b[p].role

------------------------------------------------------------------------------
(* The inductive invariant.                                                *)

\* Only a running job has something to do, and local objects.
Shaped(j) ==
  /\ WellFormed(body[j])
  /\ scope[j] \in Seq(Locals)
  /\ stage[j] # "running" => body[j] = <<>> /\ scope[j] = <<>>

\* A job has devices of the owner or its own buffer, a different one in each role, and
\* moves to the owner's thread what came from there.
Lending(j) ==
  /\ lent[j] \in [Roles -> Devices \cup {j, NoDevice}]
  /\ \A r, s \in Roles : lent[j][r] = lent[j][s] => r = s \/ lent[j][r] = NoDevice
  /\ \A r \in Roles : /\ lent[j][r] \in Devices => target[j] = Gui
                      /\ lent[j][r] = j => target[j] = NoThread

\* The local objects are about the devices of the job.
Declared(j) ==
  \A i \in DOMAIN scope[j] :
    \/ scope[j][i].dev = NoDevice
    \/ \E r \in Roles : scope[j][i].dev = lent[j][r]
    \/ scope[j][i].what = "buffer" /\ scope[j][i].dev = j

\* Until the function returns, its devices stay.
InWork(j) ==
  body[j] # <<>> => \A r \in Roles : lent[j][r] \in Devices => home[lent[j][r]] = j

\* No mover was declared after a data object of the same device.
Stacked(j) ==
  \A i, k \in DOMAIN scope[j] :
    i < k /\ scope[j][i].what = "data" /\ scope[j][k].what = "mover"
      => scope[j][i].dev # scope[j][k].dev \/ scope[j][i].dev = NoDevice

\* Nor will one be.
Pending(j) ==
  \A p \in DOMAIN body[j] : \A i \in DOMAIN scope[j] :
    body[j][p].do = "mover" /\ scope[j][i].what = "data"
      => scope[j][i].dev # lent[j][body[j][p].role] \/ scope[j][i].dev = NoDevice

\* A device with a data object lives with the job; the byte array of a data object
\* without a device exists.
DataAtHome(j) ==
  \A i \in DOMAIN scope[j] : scope[j][i].what = "data" /\ scope[j][i].dev # NoDevice =>
    home[scope[j][i].dev] = j

\* The buffer of a job stays in its thread, and is destroyed once, when nothing refers
\* to it.
OwnBuffer(j) ==
  /\ home[j] = j
  /\ destroyed[j] # NoThread =>
       /\ stage[j] # "fresh" /\ body[j] = <<>>
       /\ \A i \in DOMAIN scope[j] : scope[j][i].dev = j => ~Refers(scope[j][i])

JobInv(j) ==
  /\ Shaped(j) /\ Lending(j) /\ Declared(j) /\ InWork(j) /\ Stacked(j) /\ Pending(j)
  /\ DataAtHome(j) /\ OwnBuffer(j)

\* A mover waits for the device d in the scope of job j, or will.
MoverFor(j, d) ==
  \/ \E r \in Roles : lent[j][r] = d /\ Moves(body[j], r)
  \/ \E i \in DOMAIN scope[j] : scope[j][i].what = "mover" /\ scope[j][i].dev = d

\* A device of the owner that is away is with a running job, which will move it home.
Away ==
  \A d \in Devices : home[d] # Gui =>
    \E j \in Jobs : /\ home[d] = j /\ stage[j] = "running"
                    /\ \E r \in Roles : lent[j][r] = d
                    /\ MoverFor(j, d)

\* The owner keeps what is in use, and a device is destroyed once, where it lives.
Kept ==
  /\ \A d \in Devices : /\ InUse(d) => d \in owned
                        /\ destroyed[d] # NoThread => d \notin owned
  /\ \A d \in AllDevices : destroyed[d] # NoThread => destroyed[d] = home[d]

Bodies == body \in [Jobs -> Seq(Calls)] /\ scope \in [Jobs -> Seq(Locals)]

IInv == TypeOK /\ Bodies /\ (\A j \in Jobs : JobInv(j)) /\ Away /\ Kept
------------------------------------------------------------------------------
(* Sequences: one call is done, one local object comes or goes.            *)

LEMMA TailOf ==
  ASSUME NEW S, NEW s \in Seq(S), s # <<>>
  PROVE  /\ Head(s) = s[1] /\ 1 \in DOMAIN s
         /\ Tail(s) \in Seq(S)
         /\ \A p \in DOMAIN Tail(s) : p \in Nat /\ p + 1 \in DOMAIN s /\ Tail(s)[p] = s[p + 1]
         /\ \A p \in DOMAIN s : p # 1 => p - 1 \in DOMAIN Tail(s) /\ Tail(s)[p - 1] = s[p]
<1>1. Len(s) \in Nat /\ DOMAIN s = 1..Len(s) /\ Len(s) # 0
  BY LenProperties
<1>2. Tail(s) \in Seq(S) /\ Len(Tail(s)) = Len(s) - 1
      /\ \A p \in 1..Len(Tail(s)) : Tail(s)[p] = s[p + 1]
  BY HeadTailProperties
<1>3. DOMAIN Tail(s) = 1..(Len(s) - 1)
  BY <1>2, LenProperties
<1>4. Head(s) = s[1]
  OBVIOUS
<1>5. QED
  BY <1>1, <1>2, <1>3, <1>4

LEMMA AppendTo ==
  ASSUME NEW S, NEW s \in Seq(S), NEW e \in S
  PROVE  /\ Append(s, e) \in Seq(S)
         /\ \A i \in DOMAIN s : i \in DOMAIN Append(s, e) /\ Append(s, e)[i] = s[i]
         /\ Len(s) + 1 \in DOMAIN Append(s, e) /\ Append(s, e)[Len(s) + 1] = e
         /\ \A i \in DOMAIN Append(s, e) : i \in DOMAIN s \/ (i = Len(s) + 1 /\ Append(s, e)[i] = e)
<1>1. Len(s) \in Nat /\ DOMAIN s = 1..Len(s)
  BY LenProperties
<1>2. /\ Append(s, e) \in Seq(S) /\ Len(Append(s, e)) = Len(s) + 1
      /\ \A i \in 1..Len(s) : Append(s, e)[i] = s[i]
      /\ Append(s, e)[Len(s) + 1] = e
  BY AppendProperties
<1>3. DOMAIN Append(s, e) = 1..(Len(s) + 1)
  BY <1>2, LenProperties
<1>4. QED
  BY <1>1, <1>2, <1>3

LEMMA FrontOf ==
  ASSUME NEW S, NEW s \in Seq(S), s # <<>>
  PROVE  /\ Front(s) \in Seq(S)
         /\ Last(s) = s[Len(s)] /\ Len(s) \in DOMAIN s
         /\ \A i \in DOMAIN Front(s) : i \in DOMAIN s /\ i < Len(s) /\ Front(s)[i] = s[i]
         /\ \A i \in DOMAIN s : i # Len(s) => i \in DOMAIN Front(s) /\ Front(s)[i] = s[i]
         /\ \A i \in DOMAIN s : i \in Nat
<1>1. Len(s) \in Nat /\ DOMAIN s = 1..Len(s) /\ Len(s) # 0
  BY LenProperties
<1>2. \A i \in 1..(Len(s) - 1) : s[i] \in S
  BY <1>1, ElementOfSeq
<1>3. /\ SubSeq(s, 1, Len(s) - 1) \in Seq(S)
      /\ Len(SubSeq(s, 1, Len(s) - 1)) = Len(s) - 1
      /\ \A i \in 1..(Len(s) - 1) : SubSeq(s, 1, Len(s) - 1)[i] = s[i]
  BY <1>1, <1>2, SubSeqProperties
<1>4. DOMAIN Front(s) = 1..(Len(s) - 1)
  BY <1>3, LenProperties DEF Front
<1>5. QED
  BY <1>1, <1>3, <1>4 DEF Front, Last

------------------------------------------------------------------------------
(* The worker functions are well formed, and move what they are lent.      *)

LEMMA RestIsWellFormed ==
  ASSUME NEW b, WellFormed(b), b # <<>>
  PROVE  /\ WellFormed(Tail(b))
         /\ \A r : Moves(b, r) => Moves(Tail(b), r) \/ (Head(b).do = "mover" /\ Head(b).role = r)
<1>1. /\ Head(b) = b[1] /\ Tail(b) \in Seq(Calls)
      /\ \A p \in DOMAIN Tail(b) : p \in Nat /\ p + 1 \in DOMAIN b /\ Tail(b)[p] = b[p + 1]
      /\ \A p \in DOMAIN b : p # 1 => p - 1 \in DOMAIN Tail(b) /\ Tail(b)[p - 1] = b[p]
  BY TailOf DEF WellFormed
<1>2. WellFormed(Tail(b))
  <2>1. \A p \in DOMAIN Tail(b) : Tail(b)[p].do \in DeviceCalls => Tail(b)[p].role \in Roles
    BY <1>1 DEF WellFormed
  <2>2. ASSUME NEW p \in DOMAIN Tail(b), NEW q \in DOMAIN Tail(b), q < p, Tail(b)[p].do = "mover"
        PROVE  /\ Tail(b)[q].do \notin {"signers", "operate"}
               /\ Tail(b)[q].do = "data" => Tail(b)[q].role # Tail(b)[p].role
    <3>1. p + 1 \in DOMAIN b /\ q + 1 \in DOMAIN b /\ q + 1 < p + 1
      BY <1>1, <2>2
    <3>2. Tail(b)[p] = b[p + 1] /\ Tail(b)[q] = b[q + 1]
      BY <1>1
    <3>3. QED
      BY <2>2, <3>1, <3>2 DEF WellFormed
  <2>3. QED
    BY <1>1, <2>1, <2>2 DEF WellFormed
<1>3. \A r : Moves(b, r) => Moves(Tail(b), r) \/ (Head(b).do = "mover" /\ Head(b).role = r)
  BY <1>1 DEF Moves
<1>4. QED
  BY <1>2, <1>3

\* A function that can return at once moves nothing any more.
LEMMA ReturningIsDone ==
  ASSUME NEW b, WellFormed(b), b # <<>>, Head(b).do \in {"signers", "operate"}
  PROVE  \A r : ~Moves(b, r)
<1>1. Head(b) = b[1] /\ 1 \in DOMAIN b /\ DOMAIN b = 1..Len(b) /\ Len(b) \in Nat
  BY TailOf, LenProperties DEF WellFormed
<1>2. QED
  BY <1>1 DEF WellFormed, Moves

LEMMA InputsAreWellFormed ==
  \A f \in Inputs : WellFormed(f) /\ f # <<>> /\ Moves(f, "in") /\ Moves(f, "out")
<1> USE DEF Moves, WellFormed, Lock, Mover, Data, Signers, Operate, Calls, DeviceCalls, Roles
<1>1. WellFormed(encrypt) /\ encrypt # <<>> /\ Moves(encrypt, "in") /\ Moves(encrypt, "out")
  BY DEF encrypt
<1>2. WellFormed(decrypt) /\ decrypt # <<>> /\ Moves(decrypt, "in") /\ Moves(decrypt, "out")
  BY DEF decrypt
<1>3. WellFormed(decrypt_verify) /\ decrypt_verify # <<>> /\ Moves(decrypt_verify, "in") /\ Moves(decrypt_verify, "out")
  BY DEF decrypt_verify
<1>4. WellFormed(verify_opaque) /\ verify_opaque # <<>> /\ Moves(verify_opaque, "in") /\ Moves(verify_opaque, "out")
  BY DEF verify_opaque
<1>5. WellFormed(sign) /\ sign # <<>> /\ Moves(sign, "in") /\ Moves(sign, "out")
  BY DEF sign
<1>6. WellFormed(sign_encrypt) /\ sign_encrypt # <<>> /\ Moves(sign_encrypt, "in") /\ Moves(sign_encrypt, "out")
  BY DEF sign_encrypt
<1>7. QED
  <2> HIDE DEF Moves, WellFormed
  <2>1. QED
    BY <1>1, <1>2, <1>3, <1>4, <1>5, <1>6 DEF Inputs

LEMMA OutputsAreWellFormed ==
  \A f \in Archives \cup {download} : WellFormed(f) /\ f # <<>> /\ Moves(f, "out")
<1> USE DEF Moves, WellFormed, Lock, Mover, Data, Signers, Operate, Calls, DeviceCalls, Roles
<1>1. WellFormed(encrypt_to_io_device) /\ encrypt_to_io_device # <<>> /\ Moves(encrypt_to_io_device, "out")
  BY DEF encrypt_to_io_device
<1>2. WellFormed(sign_to_io_device) /\ sign_to_io_device # <<>> /\ Moves(sign_to_io_device, "out")
  BY DEF sign_to_io_device
<1>3. WellFormed(sign_encrypt_to_io_device) /\ sign_encrypt_to_io_device # <<>> /\ Moves(sign_encrypt_to_io_device, "out")
  BY DEF sign_encrypt_to_io_device
<1>4. WellFormed(download) /\ download # <<>> /\ Moves(download, "out")
  BY DEF download
<1>5. QED
  <2> HIDE DEF Moves, WellFormed
  <2>1. QED
    BY <1>1, <1>2, <1>3, <1>4 DEF Archives

LEMMA OthersAreWellFormed ==
  /\ WellFormed(verify_detached) /\ verify_detached # <<>>
  /\ Moves(verify_detached, "in") /\ Moves(verify_detached, "data")
  /\ WellFormed(decrypt_verify_from_io_device) /\ decrypt_verify_from_io_device # <<>>
  /\ Moves(decrypt_verify_from_io_device, "in")
<1> USE DEF Moves, WellFormed, Lock, Mover, Data, Signers, Operate, Calls, DeviceCalls, Roles
<1>1. WellFormed(verify_detached) /\ verify_detached # <<>> /\ Moves(verify_detached, "in") /\ Moves(verify_detached, "data")
  BY DEF verify_detached
<1>2. WellFormed(decrypt_verify_from_io_device) /\ decrypt_verify_from_io_device # <<>> /\ Moves(decrypt_verify_from_io_device, "in")
  BY DEF decrypt_verify_from_io_device
<1>3. QED
  <2> HIDE DEF Moves, WellFormed
  <2>1. QED
    BY <1>1, <1>2

\* So are the functions that make a device of bytes first.
LEMMA BytesAreWellFormed == \A f \in BytesInputs : WellFormed(f)
<1>1. ASSUME NEW f \in Inputs PROVE WellFormed(Qba(f))
  <2>1. WellFormed(f) /\ f \in Seq(Calls)
    BY InputsAreWellFormed DEF WellFormed
  <2>2. <<Buffer>> \in Seq(Calls) /\ Len(<<Buffer>>) = 1 /\ <<Buffer>>[1] = Buffer
    BY DEF Buffer, Calls, Roles
  <2>3. /\ Qba(f) \in Seq(Calls) /\ Len(Qba(f)) = 1 + Len(f)
        /\ \A i \in 1..(1 + Len(f)) : Qba(f)[i] = IF i <= 1 THEN Buffer ELSE f[i - 1]
    BY <2>1, <2>2, ConcatProperties DEF Qba
  <2>4. DOMAIN f = 1..Len(f) /\ Len(f) \in Nat /\ DOMAIN Qba(f) = 1..(1 + Len(f))
    BY <2>1, <2>3, LenProperties
  <2>5. /\ Qba(f)[1].do = "buffer"
        /\ \A p \in DOMAIN Qba(f) : p # 1 => p - 1 \in DOMAIN f /\ Qba(f)[p] = f[p - 1]
    BY <2>3, <2>4 DEF Buffer
  <2>6. \A p \in DOMAIN Qba(f) : Qba(f)[p].do \in DeviceCalls => Qba(f)[p].role \in Roles
    BY <2>1, <2>5 DEF WellFormed, DeviceCalls
  <2>7. ASSUME NEW p \in DOMAIN Qba(f), NEW q \in DOMAIN Qba(f), q < p, Qba(f)[p].do = "mover"
        PROVE  /\ Qba(f)[q].do \notin {"signers", "operate"}
               /\ Qba(f)[q].do = "data" => Qba(f)[q].role # Qba(f)[p].role
    <3>1. CASE q = 1
      BY <2>5, <3>1
    <3>2. CASE q # 1
      <4>1. /\ p # 1 /\ p - 1 \in DOMAIN f /\ q - 1 \in DOMAIN f /\ q - 1 < p - 1
            /\ Qba(f)[p] = f[p - 1] /\ Qba(f)[q] = f[q - 1]
        BY <2>4, <2>5, <2>7, <3>2
      <4>2. QED
        BY <2>1, <2>7, <4>1 DEF WellFormed
    <3>3. QED
      BY <3>1, <3>2
  <2>8. QED
    BY <2>3, <2>6, <2>7 DEF WellFormed
<1>2. QED
  BY <1>1 DEF BytesInputs, Inputs, encrypt_qba, decrypt_qba, decrypt_verify_qba, verify_opaque_qba,
              sign_qba, sign_encrypt_qba
------------------------------------------------------------------------------
(* Steps.                                                                  *)

\* A step that is not about job k; no device is taken away from its thread.
Untouched(k) ==
  /\ body'[k] = body[k] /\ scope'[k] = scope[k] /\ lent'[k] = lent[k] /\ target'[k] = target[k]
  /\ stage'[k] = stage[k]
  /\ home'[k] = home[k] /\ destroyed'[k] = destroyed[k]
  /\ \A d \in AllDevices : home[d] = k => home'[d] = k

LEMMA UntouchedKeeps ==
  ASSUME NEW k \in Jobs, JobInv(k), Untouched(k)
  PROVE  JobInv(k)'
<1> USE DEF Untouched, JobInv
<1>1. Shaped(k)' /\ Lending(k)' /\ Stacked(k)' /\ Pending(k)'
  BY DEF Shaped, Lending, Stacked, Pending
<1>2. Declared(k)' /\ OwnBuffer(k)'
  BY DEF Declared, OwnBuffer
<1>3. InWork(k)'
  BY DEF InWork, AllDevices
<1>4. DataAtHome(k)'
  <2>1. \A i \in DOMAIN scope[k] : scope[k][i] \in Locals
    BY ElementOfSeq, LenProperties DEF Shaped
  <2>2. \A i \in DOMAIN scope[k] : scope[k][i].dev \in AllDevices \cup {NoDevice}
    BY <2>1 DEF Locals
  <2>3. QED
    BY <2>2 DEF DataAtHome
<1>5. QED
  BY <1>1, <1>2, <1>3, <1>4

LEMMA InitInvariant == Init => IInv
<1> SUFFICES ASSUME Init PROVE IInv
  OBVIOUS
<1>0. \A j \in Jobs : j \in AllDevices /\ j \notin Devices /\ j # NoDevice /\ j \in Threads
  BY DistinctAssumption DEF AllDevices, Threads
<1>1. TypeOK
  <2>1. /\ stage \in [Jobs -> Stages] /\ lent \in [Jobs -> [Roles -> AllDevices \cup {NoDevice}]]
        /\ target \in [Jobs -> {Gui, NoThread}]
    BY DEF Init, Stages
  <2>3. home \in [AllDevices -> Threads] /\ destroyed \in [AllDevices -> Threads \cup {NoThread}]
    BY DEF Init, Threads
  <2>4. open \in [AllDevices -> BOOLEAN] /\ owned \subseteq Devices
    BY DEF Init
  <2>5. \A j \in Jobs : \A i \in DOMAIN scope[j] : scope[j][i] \in Locals
    BY DEF Init
  <2>6. QED
    BY <2>1, <2>3, <2>4, <2>5 DEF TypeOK
<1>2. ASSUME NEW j \in Jobs PROVE JobInv(j)
  <2>1. stage[j] = "fresh" /\ body[j] = <<>> /\ scope[j] = <<>>
        /\ target[j] = NoThread
        /\ lent[j] = [r \in Roles |-> NoDevice] /\ home[j] = j /\ destroyed[j] = NoThread
    BY <1>0 DEF Init
  <2>2. <<>> \in Seq(Calls) /\ <<>> \in Seq(Locals) /\ DOMAIN <<>> = {}
    OBVIOUS
  <2>3. Shaped(j)
    BY <2>1, <2>2 DEF Shaped, WellFormed
  <2>4. Lending(j)
    BY <1>0, <2>1, DistinctAssumption DEF Lending
  <2>5. QED
    BY <2>1, <2>2, <2>3, <2>4 DEF JobInv, Declared, InWork, Stacked, Pending, DataAtHome, OwnBuffer
<1>3. Away /\ Kept
  <2>1. \A d \in Devices : home[d] = Gui /\ d \in owned
    BY DistinctAssumption DEF Init, AllDevices
  <2>2. \A d \in AllDevices : destroyed[d] = NoThread
    BY DEF Init
  <2>3. QED
    BY <2>1, <2>2 DEF Away, Kept, AllDevices
<1>4. Bodies
  BY DEF Init, Bodies
<1>5. QED
  BY <1>1, <1>2, <1>3, <1>4 DEF IInv

\* The owner runs a function with devices that are available, and which it moves back.
LEMMA RunKeeps ==
  ASSUME IInv, NEW j \in Jobs, NEW f, WellFormed(f), f # <<>>,
         NEW devices \in [Roles -> Devices \cup {NoDevice}],
         \A r, s \in Roles : devices[r] = devices[s] => r = s \/ devices[r] = NoDevice,
         \A r \in Roles : devices[r] \in Devices => Available(devices[r]) /\ Moves(f, r),
         RunWith(j, f, devices)
  PROVE  IInv'
<1>0. /\ Jobs \cap Devices = {} /\ NoDevice \notin AllDevices /\ Gui \notin Jobs /\ Gui # NoThread
      /\ j \in AllDevices /\ j \in Threads /\ j # NoThread /\ Devices \subseteq AllDevices
  BY DistinctAssumption DEF AllDevices, Threads
<1>1. /\ stage[j] = "fresh" /\ JobInv(j)
      /\ stage' = [stage EXCEPT ![j] = "running"] /\ body' = [body EXCEPT ![j] = f]
      /\ lent' = [lent EXCEPT ![j] = devices] /\ target' = [target EXCEPT ![j] = Gui]
      /\ home' = [d \in AllDevices |-> IF \E r \in Roles : devices[r] = d THEN j ELSE home[d]]
      /\ UNCHANGED <<scope, open, owned, destroyed>>
  BY DEF RunWith, IInv
<1>2. TypeOK'
  <2>1. /\ stage' \in [Jobs -> Stages] /\ lent' \in [Jobs -> [Roles -> AllDevices \cup {NoDevice}]]
        /\ target' \in [Jobs -> {Gui, NoThread}]
    BY <1>0, <1>1 DEF IInv, TypeOK, Stages
  <2>2. home' \in [AllDevices -> Threads]
    BY <1>0, <1>1 DEF IInv, TypeOK
  <2>3. QED
    BY <1>1, <2>1, <2>2 DEF IInv, TypeOK
<1>3. \A d \in AllDevices : home'[d] = home[d] \/ (d \in Devices /\ home'[d] = j /\ ~InUse(d) /\ d \in owned)
  BY <1>0, <1>1 DEF Available
<1>4. ASSUME NEW k \in Jobs, k # j PROVE JobInv(k)'
  <2>1. \A d \in AllDevices : home[d] = k => home'[d] = k
    <3>1. ASSUME NEW d \in Devices, home[d] = k PROVE InUse(d)
      BY <1>0, <3>1 DEF IInv, Away, InUse
    <3>2. QED
      BY <1>3, <3>1
  <2>2. Untouched(k)
    BY <1>0, <1>1, <1>3, <1>4, <2>1 DEF Untouched, AllDevices, IInv, TypeOK, Bodies
  <2>3. QED
    BY <2>2, UntouchedKeeps DEF IInv
<1>5. JobInv(j)'
  <2>1. /\ stage'[j] = "running" /\ body'[j] = f /\ lent'[j] = devices /\ target'[j] = Gui
        /\ scope'[j] = <<>>
        /\ home'[j] = home[j] /\ destroyed'[j] = destroyed[j]
    BY <1>0, <1>1, <1>3 DEF IInv, TypeOK, Bodies, JobInv, Shaped
  <2>2. Shaped(j)'
    BY <1>1, <2>1 DEF Shaped, JobInv
  <2>3. Lending(j)'
    BY <1>0, <2>1 DEF Lending
  <2>4. InWork(j)'
    BY <1>0, <1>1, <2>1 DEF InWork, JobInv
  <2>5. OwnBuffer(j)'
    BY <1>1, <2>1 DEF OwnBuffer, JobInv, InWork
  <2>6. Declared(j)' /\ Stacked(j)' /\ Pending(j)' /\ DataAtHome(j)'
    BY <2>1 DEF Declared, Stacked, Pending, DataAtHome
  <2>7. QED
    BY <2>2, <2>3, <2>4, <2>5, <2>6 DEF JobInv
<1>6. Away'
  <2> SUFFICES ASSUME NEW d \in Devices, home'[d] # Gui
               PROVE  \E k \in Jobs : /\ home'[d] = k /\ stage'[k] = "running"
                                      /\ \E r \in Roles : lent'[k][r] = d
                                      /\ MoverFor(k, d)'
    BY DEF Away
  <2>1. CASE \E r \in Roles : devices[r] = d
    <3>1. home'[d] = j /\ stage'[j] = "running" /\ lent'[j] = devices /\ body'[j] = f
      BY <1>0, <1>1, <2>1 DEF IInv, TypeOK, Bodies
    <3>2. QED
      BY <2>1, <3>1 DEF MoverFor
  <2>2. CASE ~\E r \in Roles : devices[r] = d
    <3>1. home'[d] = home[d]
      BY <1>0, <1>1, <2>2
    <3>2. PICK k \in Jobs : /\ home[d] = k /\ stage[k] = "running"
                            /\ \E r \in Roles : lent[k][r] = d
                            /\ MoverFor(k, d)
      BY <3>1 DEF IInv, Away
    <3>3. k # j /\ stage'[k] = stage[k] /\ lent'[k] = lent[k] /\ body'[k] = body[k] /\ scope' = scope
      BY <1>1, <3>2 DEF IInv, TypeOK
    <3>4. QED
      BY <3>1, <3>2, <3>3 DEF MoverFor
  <2>3. QED
    BY <2>1, <2>2
<1>7. Kept'
  <2>1. ASSUME NEW d \in Devices, InUse(d)' PROVE d \in owned
    <3>1. PICK k \in Jobs, r \in Roles : stage'[k] \in {"running", "finished"} /\ lent'[k][r] = d
      BY <2>1 DEF InUse
    <3>2. CASE k = j
      BY <1>1, <3>1, <3>2 DEF IInv, TypeOK, Available
    <3>3. CASE k # j
      BY <1>1, <3>1, <3>3 DEF IInv, Kept, InUse
    <3>4. QED
      BY <3>2, <3>3
  <2>2. \A d \in AllDevices : destroyed[d] # NoThread => home'[d] = home[d]
    BY <1>3 DEF IInv, Kept
  <2>3. QED
    BY <1>1, <2>1, <2>2 DEF IInv, Kept
<1>8. Bodies'
  BY <1>1 DEF Bodies, IInv, WellFormed
<1>9. QED
  BY <1>2, <1>4, <1>5, <1>6, <1>7, <1>8 DEF IInv
\* Devices in their roles; those that are given are different ones.
LEMMA GivenDevices ==
  ASSUME NEW in, NEW data, NEW out,
         in = data => in = NoDevice, in = out => in = NoDevice, data = out => data = NoDevice
  PROVE  /\ Given(in, data, out) \in [Roles -> {in, data, out}]
         /\ Given(in, data, out)["in"] = in
         /\ Given(in, data, out)["data"] = data
         /\ Given(in, data, out)["out"] = out
         /\ \A r, s \in Roles : Given(in, data, out)[r] = Given(in, data, out)[s]
                                  => r = s \/ Given(in, data, out)[r] = NoDevice
<1>1. /\ Given(in, data, out)["in"] = in
      /\ Given(in, data, out)["data"] = data
      /\ Given(in, data, out)["out"] = out
  BY DEF Given, Roles
<1>2. \A r \in Roles : r = "in" \/ r = "data" \/ r = "out"
  BY DEF Roles
<1>3. \A r \in Roles : (CASE r = "in" -> in [] r = "data" -> data [] r = "out" -> out) \in {in, data, out}
  BY <1>2
<1>4. Given(in, data, out) \in [Roles -> {in, data, out}]
  BY <1>3 DEF Given
<1>5. QED
  BY <1>1, <1>2, <1>4

LEMMA StartsKeep ==
  ASSUME IInv, NEW j \in Jobs,
         \/ StartInput(j) \/ StartVerifyDetached(j) \/ StartDownload(j) \/ StartArchive(j)
         \/ StartExtract(j)
  PROVE  IInv'
<1>0. NoDevice \notin Devices /\ \A r \in Roles : r = "in" \/ r = "data" \/ r = "out"
  BY DistinctAssumption DEF Roles
<1>1. CASE StartInput(j)
  <2>1. PICK f \in Inputs : \E in \in Devices : \E out \in (Devices \ {in}) \cup {NoDevice} :
          /\ Available(in) /\ (out = NoDevice \/ Available(out))
          /\ RunWith(j, f, Given(in, NoDevice, out))
    BY <1>1 DEF StartInput
  <2>2. PICK in \in Devices : \E out \in (Devices \ {in}) \cup {NoDevice} :
          /\ Available(in) /\ (out = NoDevice \/ Available(out))
          /\ RunWith(j, f, Given(in, NoDevice, out))
    BY <2>1
  <2>3. PICK out \in (Devices \ {in}) \cup {NoDevice} :
          /\ Available(in) /\ (out = NoDevice \/ Available(out))
          /\ RunWith(j, f, Given(in, NoDevice, out))
    BY <2>2
  <2> DEFINE devices == Given(in, NoDevice, out)
  <2>4. /\ devices \in [Roles -> Devices \cup {NoDevice}]
        /\ devices["in"] = in /\ devices["data"] = NoDevice /\ devices["out"] = out
        /\ \A r, s \in Roles : devices[r] = devices[s] => r = s \/ devices[r] = NoDevice
    <3>1. in # NoDevice /\ in # out
      BY <1>0, <2>3
    <3>2. QED
      BY <2>3, <3>1, GivenDevices
  <2>5. WellFormed(f) /\ f # <<>> /\ Moves(f, "in") /\ Moves(f, "out")
    BY InputsAreWellFormed
  <2>6. \A r \in Roles : devices[r] \in Devices => Available(devices[r]) /\ Moves(f, r)
    BY <1>0, <2>3, <2>4, <2>5
  <2>7. QED
    BY <2>3, <2>4, <2>5, <2>6, RunKeeps
<1>2. CASE StartVerifyDetached(j)
  <2>1. PICK in \in Devices : \E data \in Devices \ {in} :
          /\ Available(in) /\ Available(data)
          /\ RunWith(j, verify_detached, Given(in, data, NoDevice))
    BY <1>2 DEF StartVerifyDetached
  <2>2. PICK data \in Devices \ {in} :
          /\ Available(in) /\ Available(data)
          /\ RunWith(j, verify_detached, Given(in, data, NoDevice))
    BY <2>1
  <2> DEFINE devices == Given(in, data, NoDevice)
  <2>3. /\ devices \in [Roles -> Devices \cup {NoDevice}]
        /\ devices["in"] = in /\ devices["data"] = data /\ devices["out"] = NoDevice
        /\ \A r, s \in Roles : devices[r] = devices[s] => r = s \/ devices[r] = NoDevice
    <3>1. in # NoDevice /\ in # data /\ data # NoDevice
      BY <1>0, <2>2
    <3>2. QED
      BY <2>2, <3>1, GivenDevices
  <2>4. \A r \in Roles : devices[r] \in Devices =>
          Available(devices[r]) /\ Moves(verify_detached, r)
    BY <1>0, <2>2, <2>3, OthersAreWellFormed
  <2>5. QED
    BY <2>2, <2>3, <2>4, OthersAreWellFormed, RunKeeps
<1>3. ASSUME NEW f \in Archives \cup {download}, NEW out \in Devices \cup {NoDevice},
             out = NoDevice \/ Available(out), RunWith(j, f, Given(NoDevice, NoDevice, out))
      PROVE  IInv'
  <2> DEFINE devices == Given(NoDevice, NoDevice, out)
  <2>1. /\ devices \in [Roles -> Devices \cup {NoDevice}]
        /\ devices["in"] = NoDevice /\ devices["data"] = NoDevice /\ devices["out"] = out
        /\ \A r, s \in Roles : devices[r] = devices[s] => r = s \/ devices[r] = NoDevice
    BY GivenDevices
  <2>2. WellFormed(f) /\ f # <<>> /\ Moves(f, "out")
    BY OutputsAreWellFormed
  <2>3. \A r \in Roles : devices[r] \in Devices => Available(devices[r]) /\ Moves(f, r)
    BY <1>0, <1>3, <2>1, <2>2
  <2>4. QED
    BY <1>3, <2>1, <2>2, <2>3, RunKeeps
<1>4. CASE StartDownload(j)
  BY <1>3, <1>4 DEF StartDownload
<1>5. CASE StartArchive(j)
  BY <1>3, <1>5 DEF StartArchive
<1>6. CASE StartExtract(j)
  <2>1. PICK in \in Devices :
          /\ Available(in)
          /\ RunWith(j, decrypt_verify_from_io_device, Given(in, NoDevice, NoDevice))
    BY <1>6 DEF StartExtract
  <2> DEFINE devices == Given(in, NoDevice, NoDevice)
  <2>2. /\ devices \in [Roles -> Devices \cup {NoDevice}]
        /\ devices["in"] = in /\ devices["data"] = NoDevice /\ devices["out"] = NoDevice
        /\ \A r, s \in Roles : devices[r] = devices[s] => r = s \/ devices[r] = NoDevice
    BY <1>0, GivenDevices
  <2>3. \A r \in Roles : devices[r] \in Devices =>
          Available(devices[r]) /\ Moves(decrypt_verify_from_io_device, r)
    BY <1>0, <2>1, <2>2, OthersAreWellFormed
  <2>4. QED
    BY <2>1, <2>2, <2>3, OthersAreWellFormed, RunKeeps
<1>7. QED
  BY <1>1, <1>2, <1>4, <1>5, <1>6

\* A job with bytes makes its own device.
LEMMA StartBytesKeeps ==
  ASSUME IInv, NEW j \in Jobs, StartBytes(j)
  PROVE  IInv'
<1>0. /\ j \notin Devices /\ j # NoDevice /\ NoDevice \notin Devices /\ j \in AllDevices
      /\ \A r \in Roles : r = "in" \/ r = "data" \/ r = "out"
  BY DistinctAssumption DEF AllDevices, Roles
<1>1. PICK f \in BytesInputs : body' = [body EXCEPT ![j] = f]
  BY DEF StartBytes
<1> DEFINE devices == Given(j, NoDevice, NoDevice)
<1>2. /\ stage[j] = "fresh" /\ JobInv(j)
      /\ stage' = [stage EXCEPT ![j] = "running"] /\ lent' = [lent EXCEPT ![j] = devices]
      /\ target' = [target EXCEPT ![j] = NoThread]
      /\ UNCHANGED <<scope, home, open, owned, destroyed>>
  BY DEF StartBytes, IInv, QbaThread, deviceVars
<1>3. /\ devices \in [Roles -> {j, NoDevice}]
      /\ \A r, s \in Roles : devices[r] = devices[s] => r = s \/ devices[r] = NoDevice
  BY <1>0, GivenDevices
<1> HIDE DEF devices
<1>4. WellFormed(f)
  BY BytesAreWellFormed
<1>5. TypeOK'
  BY <1>0, <1>2, <1>3 DEF IInv, TypeOK, Stages
<1>6. ASSUME NEW k \in Jobs, k # j PROVE JobInv(k)'
  <2>1. Untouched(k)
    BY <1>1, <1>2, <1>6 DEF Untouched, IInv, TypeOK, Bodies
  <2>2. QED
    BY <2>1, UntouchedKeeps DEF IInv
<1>7. JobInv(j)'
  <2>1. /\ stage'[j] = "running" /\ body'[j] = f /\ lent'[j] = devices /\ target'[j] = NoThread
        /\ scope'[j] = <<>>
        /\ home'[j] = home[j] /\ destroyed'[j] = destroyed[j]
    BY <1>0, <1>1, <1>2 DEF IInv, TypeOK, Bodies, JobInv, Shaped
  <2>2. Shaped(j)'
    BY <1>2, <1>4, <2>1 DEF Shaped, JobInv
  <2>3. Lending(j)'
    <3>1. devices \in [Roles -> Devices \cup {j, NoDevice}] /\ \A r \in Roles : devices[r] \notin Devices
      BY <1>0, <1>3
    <3>2. QED
      BY <1>3, <2>1, <3>1 DEF Lending
  <2>4. InWork(j)'
    BY <1>0, <1>2, <1>3, <2>1 DEF InWork, JobInv
  <2>5. OwnBuffer(j)'
    BY <1>2, <2>1 DEF OwnBuffer, JobInv, InWork
  <2>6. Declared(j)' /\ Stacked(j)' /\ Pending(j)' /\ DataAtHome(j)'
    BY <2>1 DEF Declared, Stacked, Pending, DataAtHome
  <2>7. QED
    BY <2>2, <2>3, <2>4, <2>5, <2>6 DEF JobInv
<1>8. Away'
  <2> SUFFICES ASSUME NEW d \in Devices, home'[d] # Gui
               PROVE  \E k \in Jobs : /\ home'[d] = k /\ stage'[k] = "running"
                                      /\ \E r \in Roles : lent'[k][r] = d
                                      /\ MoverFor(k, d)'
    BY DEF Away
  <2>1. PICK k \in Jobs : /\ home[d] = k /\ stage[k] = "running"
                          /\ \E r \in Roles : lent[k][r] = d
                          /\ MoverFor(k, d)
    BY <1>2 DEF IInv, Away
  <2>2. k # j /\ stage'[k] = stage[k] /\ lent'[k] = lent[k] /\ body'[k] = body[k] /\ scope' = scope
    BY <1>1, <1>2, <2>1 DEF IInv, TypeOK, Bodies
  <2>3. QED
    BY <1>2, <2>1, <2>2 DEF MoverFor
<1>9. Kept'
  <2>1. ASSUME NEW d \in Devices, InUse(d)' PROVE InUse(d)
    <3>1. PICK k \in Jobs, r \in Roles : stage'[k] \in {"running", "finished"} /\ lent'[k][r] = d
      BY <2>1 DEF InUse
    <3>2. k # j
      BY <1>0, <1>2, <1>3, <3>1 DEF IInv, TypeOK
    <3>3. QED
      BY <1>2, <3>1, <3>2 DEF IInv, InUse
  <2>2. QED
    BY <1>2, <2>1 DEF IInv, Kept
<1>10. Bodies'
  BY <1>1, <1>2, <1>4 DEF Bodies, IInv, WellFormed
<1>11. QED
  BY <1>5, <1>6, <1>7, <1>8, <1>9, <1>10 DEF IInv

\* What the owner does with a device between two jobs.
LEMMA OwnerKeeps ==
  ASSUME IInv, NEW d \in Devices, Reopen(d) \/ Forget(d)
  PROVE  IInv'
<1>1. UNCHANGED <<stage, body, scope, lent, target, home>>
  BY DEF Reopen, Forget, jobVars
<1>2. CASE Reopen(d)
  <2>1. UNCHANGED <<owned, destroyed>> /\ open' = [open EXCEPT ![d] = TRUE]
    BY <1>2 DEF Reopen
  <2>2. TypeOK'
    BY <1>1, <2>1 DEF IInv, TypeOK
  <2>3. \A j \in Jobs : Untouched(j)
    BY <1>1, <2>1 DEF Untouched
  <2>4. \A j \in Jobs : JobInv(j)'
    BY <2>3, UntouchedKeeps DEF IInv
  <2>5. Away' /\ Kept' /\ Bodies'
    BY <1>1, <2>1 DEF IInv, Away, Kept, Bodies, MoverFor, InUse
  <2>6. QED
    BY <2>2, <2>4, <2>5 DEF IInv
<1>3. CASE Forget(d)
  <2>1. /\ ~InUse(d) /\ owned' = owned \ {d} /\ open' = open
        /\ destroyed' = destroyed \/ destroyed' = [destroyed EXCEPT ![d] = Gui]
    BY <1>3 DEF Forget
  <2>2. d \in AllDevices /\ d \notin Jobs
    BY DistinctAssumption DEF AllDevices
  <2>3. \A e \in AllDevices : e # d => destroyed'[e] = destroyed[e]
    BY <2>1, <2>2 DEF IInv, TypeOK
  <2>4. TypeOK'
    BY <1>1, <2>1, <2>2 DEF IInv, TypeOK, Threads
  <2>5. \A j \in Jobs : Untouched(j)
    BY <1>1, <2>2, <2>3 DEF Untouched, AllDevices
  <2>6. \A j \in Jobs : JobInv(j)'
    BY <2>5, UntouchedKeeps DEF IInv
  <2>7. home[d] = Gui
    BY <2>1 DEF IInv, Away, InUse
  <2>8. destroyed'[d] = destroyed[d] \/ destroyed'[d] = Gui
    BY <2>1, <2>2 DEF IInv, TypeOK
  <2>9. Kept'
    <3>1. \A e \in Devices : InUse(e)' => InUse(e)
      BY <1>1 DEF InUse
    <3>2. \A e \in AllDevices : destroyed'[e] # NoThread => destroyed'[e] = home'[e]
      BY <1>1, <2>3, <2>7, <2>8 DEF IInv, Kept
    <3>3. \A e \in Devices : destroyed'[e] # NoThread => e \notin owned'
      BY <2>1, <2>3 DEF IInv, Kept, AllDevices
    <3>4. QED
      BY <2>1, <3>1, <3>2, <3>3 DEF IInv, Kept
  <2>10. Away' /\ Bodies'
    <3>1. Away'
      BY <1>1 DEF IInv, Away, MoverFor
    <3>2. QED
      BY <1>1, <3>1 DEF IInv, Bodies
  <2>11. QED
    BY <2>4, <2>6, <2>9, <2>10 DEF IInv
<1>4. QED
  BY <1>2, <1>3
\* What a step of a worker function leaves alone, and what it may do to devices.
LEMMA WorkerKeeps ==
  ASSUME IInv, NEW j \in Jobs, JobInv(j)', TypeOK', Bodies',
         \A k \in Jobs : k # j => Untouched(k),
         UNCHANGED <<stage, lent, owned>>,
         \A d \in Devices : home'[d] = home[d] \/ home'[d] = Gui,
         \A d \in AllDevices : home'[d] # home[d] =>
           destroyed[d] = NoThread /\ destroyed'[d] = NoThread,
         \A d \in AllDevices : destroyed'[d] # destroyed[d] => d = j /\ destroyed'[d] = home'[d],
         \A d \in Devices : home'[d] = j /\ MoverFor(j, d) => MoverFor(j, d)'
  PROVE  IInv'
<1>1. \A k \in Jobs : JobInv(k)'
  BY UntouchedKeeps DEF IInv
<1>2. Away'
  <2> SUFFICES ASSUME NEW d \in Devices, home'[d] # Gui
               PROVE  \E k \in Jobs : /\ home'[d] = k /\ stage'[k] = "running"
                                      /\ \E r \in Roles : lent'[k][r] = d
                                      /\ MoverFor(k, d)'
    BY DEF Away
  <2>1. home'[d] = home[d]
    OBVIOUS
  <2>2. PICK k \in Jobs : /\ home[d] = k /\ stage[k] = "running"
                          /\ \E r \in Roles : lent[k][r] = d
                          /\ MoverFor(k, d)
    BY <2>1 DEF IInv, Away
  <2>3. MoverFor(k, d)'
    <3>1. CASE k = j
      BY <2>1, <2>2, <3>1
    <3>2. CASE k # j
      BY <2>2, <3>2 DEF Untouched, MoverFor
    <3>3. QED
      BY <3>1, <3>2
  <2>4. QED
    BY <2>1, <2>2, <2>3
<1>3. Kept'
  <2>1. \A d \in Devices : d \in AllDevices /\ d # j /\ (InUse(d)' => InUse(d))
    BY DistinctAssumption DEF InUse, AllDevices
  <2>2. ASSUME NEW d \in AllDevices, destroyed'[d] # NoThread PROVE destroyed'[d] = home'[d]
    BY <2>2 DEF IInv, Kept
  <2>3. \A d \in Devices : destroyed'[d] = destroyed[d]
    BY <2>1
  <2>4. QED
    BY <2>1, <2>2, <2>3 DEF IInv, Kept
<1>4. QED
  BY <1>1, <1>2, <1>3 DEF IInv

\* A declaration of the worker function.
LEMMA PushKeeps ==
  ASSUME IInv, NEW j \in Jobs, stage[j] = "running", body[j] # <<>>,
         NEW what \in {"ref", "mover", "data", "buffer"}, NEW d \in AllDevices \cup {NoDevice},
         Push(j, what, d), Proceed(j),
         UNCHANGED <<stage, lent, target, home, owned, destroyed>>,
         open' \in [AllDevices -> BOOLEAN],
         \/ d = NoDevice
         \/ \E r \in Roles : d = lent[j][r]
         \/ what = "buffer" /\ d = j,
         what = "mover" <=> Head(body[j]).do = "mover",
         what \in {"mover", "data"} => Head(body[j]).do = what /\ d = lent[j][Head(body[j]).role]
  PROVE  IInv'
<1> DEFINE b == body[j]
           s == scope[j]
           e == [what |-> what, dev |-> d]
           n == Len(s) + 1
<1>1. /\ JobInv(j) /\ WellFormed(b) /\ b \in Seq(Calls) /\ s \in Seq(Locals) /\ e \in Locals
      /\ DOMAIN b = 1..Len(b)
  BY LenProperties DEF IInv, JobInv, Shaped, WellFormed, Locals
<1>2. e.what = what /\ e.dev = d
  OBVIOUS
<1>3. /\ body' = [body EXCEPT ![j] = Tail(@)] /\ scope' = [scope EXCEPT ![j] = Append(@, e)]
      /\ body'[j] = Tail(b) /\ scope'[j] = Append(s, e)
      /\ \A k \in Jobs : k # j => body'[k] = body[k] /\ scope'[k] = scope[k]
  BY DEF Push, Proceed, IInv, Bodies
<1> HIDE DEF e
<1>4. /\ Append(s, e) \in Seq(Locals)
      /\ \A i \in DOMAIN s : i \in DOMAIN Append(s, e) /\ Append(s, e)[i] = s[i]
      /\ n \in DOMAIN Append(s, e) /\ Append(s, e)[n] = e
      /\ \A i \in DOMAIN Append(s, e) : i \in DOMAIN s \/ (i = n /\ Append(s, e)[i] = e)
      /\ DOMAIN s = 1..Len(s) /\ Len(s) \in Nat
  BY <1>1, AppendTo, LenProperties
<1>5. /\ WellFormed(Tail(b)) /\ Tail(b) \in Seq(Calls) /\ Head(b) = b[1] /\ 1 \in DOMAIN b
      /\ \A p \in DOMAIN Tail(b) : p \in Nat /\ p + 1 \in DOMAIN b /\ Tail(b)[p] = b[p + 1]
      /\ \A r : Moves(b, r) => Moves(Tail(b), r) \/ (Head(b).do = "mover" /\ Head(b).role = r)
  <2>0. b # <<>>
    OBVIOUS
  <2> HIDE DEF b
  <2>1. /\ WellFormed(Tail(b))
        /\ \A r : Moves(b, r) => Moves(Tail(b), r) \/ (Head(b).do = "mover" /\ Head(b).role = r)
    BY <1>1, <2>0, RestIsWellFormed
  <2>2. /\ Tail(b) \in Seq(Calls) /\ Head(b) = b[1] /\ 1 \in DOMAIN b
        /\ \A p \in DOMAIN Tail(b) : p \in Nat /\ p + 1 \in DOMAIN b /\ Tail(b)[p] = b[p + 1]
    BY <1>1, <2>0, TailOf
  <2>3. QED
    BY <2>1, <2>2
<1>6. Shaped(j)' /\ Lending(j)' /\ InWork(j)' /\ OwnBuffer(j)'
  <2>1. Shaped(j)'
    BY <1>3, <1>4, <1>5 DEF Shaped
  <2>2. Lending(j)' /\ InWork(j)'
    BY <1>1 DEF Lending, InWork, JobInv
  <2>3. destroyed[j] = NoThread /\ home[j] = j
    BY <1>1 DEF JobInv, OwnBuffer, InWork
  <2>4. QED
    BY <2>1, <2>2, <2>3 DEF OwnBuffer
<1>7. Declared(j)'
  BY <1>1, <1>2, <1>3, <1>4 DEF Declared, JobInv
<1>8. Stacked(j)'
  <2> SUFFICES ASSUME NEW i \in DOMAIN Append(s, e), NEW k \in DOMAIN Append(s, e), i < k,
                      Append(s, e)[i].what = "data", Append(s, e)[k].what = "mover"
               PROVE  Append(s, e)[i].dev # Append(s, e)[k].dev \/ Append(s, e)[i].dev = NoDevice
    BY <1>3 DEF Stacked
  <2>1. i \in DOMAIN s /\ Append(s, e)[i] = s[i]
    BY <1>4
  <2>2. CASE k \in DOMAIN s
    BY <1>1, <1>4, <2>1, <2>2 DEF JobInv, Stacked
  <2>3. CASE k = n
    <3>1. Append(s, e)[k] = e /\ what = "mover"
      BY <1>2, <1>4, <2>3
    <3>2. b[1].do = "mover" /\ d = lent[j][b[1].role]
      BY <1>5, <3>1
    <3>3. QED
      BY <1>1, <1>2, <1>5, <2>1, <3>1, <3>2 DEF JobInv, Pending
  <2>4. QED
    BY <1>4, <2>2, <2>3
<1>9. Pending(j)'
  <2> SUFFICES ASSUME NEW p \in DOMAIN Tail(b), NEW i \in DOMAIN Append(s, e),
                      Tail(b)[p].do = "mover", Append(s, e)[i].what = "data"
               PROVE  Append(s, e)[i].dev # lent[j][Tail(b)[p].role] \/ Append(s, e)[i].dev = NoDevice
    <3> HIDE DEF b, s
    <3>1. lent' = lent /\ body'[j] = Tail(b) /\ scope'[j] = Append(s, e)
      BY <1>3
    <3>2. QED
      BY <3>1 DEF Pending
  <2>1. p + 1 \in DOMAIN b /\ Tail(b)[p] = b[p + 1] /\ 1 < p + 1
    <3>1. DOMAIN Tail(b) = 1..Len(Tail(b)) /\ p \in Nat /\ p # 0
      BY <1>5, LenProperties
    <3>2. QED
      BY <1>5, <3>1
  <2>2. CASE i \in DOMAIN s
    BY <1>1, <1>4, <2>1, <2>2 DEF JobInv, Pending
  <2>3. CASE i = n
    <3>1. Append(s, e)[i] = e /\ what = "data"
      BY <1>2, <1>4, <2>3
    <3>2. b[1].do = "data" /\ d = lent[j][b[1].role]
      BY <1>5, <3>1
    <3>3. b[1].role # b[p + 1].role /\ b[1].role \in Roles /\ b[p + 1].role \in Roles
      BY <1>1, <1>5, <2>1, <3>2 DEF WellFormed, DeviceCalls
    <3>4. lent[j][b[1].role] # lent[j][b[p + 1].role] \/ lent[j][b[1].role] = NoDevice
      BY <1>1, <3>3 DEF JobInv, Lending
    <3>5. QED
      BY <1>2, <2>1, <3>1, <3>2, <3>4
  <2>4. QED
    BY <1>4, <2>2, <2>3
<1>10. DataAtHome(j)'
  <2> SUFFICES ASSUME NEW i \in DOMAIN Append(s, e), Append(s, e)[i].what = "data",
                      Append(s, e)[i].dev # NoDevice
               PROVE  home[Append(s, e)[i].dev] = j
    BY <1>3 DEF DataAtHome
  <2>1. CASE i \in DOMAIN s
    BY <1>1, <1>4, <2>1 DEF JobInv, DataAtHome
  <2>2. CASE i = n
    <3>1. Append(s, e)[i] = e /\ what = "data"
      BY <1>2, <1>4, <2>2
    <3>2. b[1].do = "data" /\ d = lent[j][b[1].role] /\ b[1].role \in Roles
      BY <1>1, <1>5, <3>1 DEF WellFormed, DeviceCalls
    <3>3. d \in Devices \/ d = j \/ d = NoDevice
      BY <1>1, <3>2 DEF JobInv, Lending
    <3>4. d # NoDevice => home[d] = j
      BY <1>1, <3>2, <3>3 DEF JobInv, InWork, OwnBuffer
    <3>5. QED
      BY <1>2, <3>1, <3>4
  <2>3. QED
    BY <1>4, <2>1, <2>2
<1>11. JobInv(j)'
  BY <1>6, <1>7, <1>8, <1>9, <1>10 DEF JobInv
<1>12. \A k \in Jobs : k # j => Untouched(k)
  BY <1>3 DEF Untouched
<1>13. Bodies'
  BY <1>1, <1>3, <1>4, <1>5 DEF IInv, Bodies
<1>14. TypeOK'
  <2>1. ASSUME NEW k \in Jobs, NEW i \in DOMAIN scope'[k] PROVE scope'[k][i] \in Locals
    <3>1. scope'[k] \in Seq(Locals)
      BY <1>13 DEF Bodies
    <3>2. QED
      BY <2>1, <3>1, ElementOfSeq, LenProperties
  <2>2. QED
    BY <2>1 DEF IInv, TypeOK
<1>15. ASSUME NEW dev \in Devices, MoverFor(j, dev) PROVE MoverFor(j, dev)'
  <2>1. CASE \E r \in Roles : lent[j][r] = dev /\ Moves(b, r)
    <3>1. PICK r \in Roles : lent[j][r] = dev /\ Moves(b, r)
      BY <2>1
    <3>2. CASE Moves(Tail(b), r)
      BY <1>3, <3>1, <3>2 DEF MoverFor
    <3>3. CASE Head(b).do = "mover" /\ Head(b).role = r
      <4>1. e.what = "mover" /\ e.dev = dev
        BY <1>2, <3>1, <3>3
      <4>2. n \in DOMAIN scope'[j] /\ scope'[j][n].what = "mover" /\ scope'[j][n].dev = dev
        BY <1>3, <1>4, <4>1
      <4>3. QED
        BY <4>2 DEF MoverFor
    <3>4. QED
      BY <1>5, <3>1, <3>2, <3>3
  <2>2. CASE \E i \in DOMAIN s : s[i].what = "mover" /\ s[i].dev = dev
    BY <1>3, <1>4, <2>2 DEF MoverFor
  <2>3. QED
    BY <1>15, <2>1, <2>2 DEF MoverFor
<1>16. QED
  BY <1>11, <1>12, <1>13, <1>14, <1>15, WorkerKeeps
LEMMA DeclarationsKeep ==
  ASSUME IInv, NEW j \in Jobs,
         CreateBuffer(j) \/ LockWeakPointer(j) \/ DeclareMover(j) \/ DeclareData(j)
  PROVE  IInv'
<1>1. /\ stage[j] = "running" /\ body[j] # <<>> /\ JobInv(j) /\ j \in AllDevices
      /\ open \in [AllDevices -> BOOLEAN]
  BY DEF CreateBuffer, LockWeakPointer, DeclareMover, DeclareData, Doing, IInv, TypeOK, AllDevices
<1>2. Head(body[j]).do \in DeviceCalls => /\ Device(j) \in AllDevices \cup {NoDevice}
                                          /\ \E r \in Roles : Device(j) = lent[j][r]
  <2>1. Head(body[j]) = body[j][1] /\ 1 \in DOMAIN body[j]
    BY <1>1, TailOf DEF JobInv, Shaped, WellFormed
  <2>2. Head(body[j]).do \in DeviceCalls => Head(body[j]).role \in Roles
    BY <1>1, <2>1 DEF JobInv, Shaped, WellFormed
  <2>3. QED
    BY <1>1, <2>2 DEF Device, JobInv, Lending, AllDevices
<1>3. CASE CreateBuffer(j)
  <2>1. /\ Head(body[j]).do = "buffer" /\ Push(j, "buffer", j) /\ Proceed(j)
        /\ open' = [open EXCEPT ![j] = TRUE]
        /\ UNCHANGED <<stage, lent, target, home, owned, destroyed>>
    BY <1>3 DEF CreateBuffer, Doing
  <2>2. open' \in [AllDevices -> BOOLEAN]
    BY <1>1, <2>1
  <2>3. QED
    BY <1>1, <2>1, <2>2, PushKeeps
<1>4. CASE LockWeakPointer(j)
  <2>1. PICK d \in AllDevices \cup {NoDevice} :
          /\ Push(j, "ref", d)
          /\ d = NoDevice \/ \E r \in Roles : d = lent[j][r]
    BY <1>2, <1>4 DEF LockWeakPointer, Doing, DeviceCalls
  <2>2. /\ Head(body[j]).do = "lock" /\ Proceed(j) /\ open' = open
        /\ UNCHANGED <<stage, lent, target, home, owned, destroyed>>
    BY <1>4 DEF LockWeakPointer, Doing, deviceVars
  <2>3. QED
    BY <1>1, <2>1, <2>2, PushKeeps
<1>5. CASE DeclareMover(j)
  <2>1. /\ Head(body[j]).do = "mover" /\ Push(j, "mover", Device(j)) /\ Proceed(j)
        /\ open' = open
        /\ UNCHANGED <<stage, lent, target, home, owned, destroyed>>
    BY <1>5 DEF DeclareMover, Doing, deviceVars
  <2>2. Device(j) = lent[j][Head(body[j]).role]
    BY DEF Device
  <2>3. Device(j) \in AllDevices \cup {NoDevice} /\ \E r \in Roles : Device(j) = lent[j][r]
    BY <1>2, <2>1 DEF DeviceCalls
  <2>4. QED
    BY <1>1, <2>1, <2>2, <2>3, PushKeeps
<1>6. CASE DeclareData(j)
  <2>1. /\ Head(body[j]).do = "data" /\ Push(j, "data", Device(j)) /\ Proceed(j)
        /\ open' = open
        /\ UNCHANGED <<stage, lent, target, home, owned, destroyed>>
    BY <1>6 DEF DeclareData, Doing, deviceVars
  <2>2. Device(j) = lent[j][Head(body[j]).role]
    BY DEF Device
  <2>3. Device(j) \in AllDevices \cup {NoDevice} /\ \E r \in Roles : Device(j) = lent[j][r]
    BY <1>2, <2>1 DEF DeviceCalls
  <2>4. QED
    BY <1>1, <2>1, <2>2, <2>3, PushKeeps
<1>7. QED
  BY <1>3, <1>4, <1>5, <1>6

\* A call after which the function may return: there are no movers to be declared.
LEMMA CallKeeps ==
  ASSUME IInv, NEW j \in Jobs, stage[j] = "running", body[j] # <<>>,
         Head(body[j]).do \in {"signers", "operate"},
         NEW rest \in {Tail(body[j]), <<>>}, body' = [body EXCEPT ![j] = rest],
         UNCHANGED <<stage, scope, lent, target, home, open, owned, destroyed>>
  PROVE  IInv'
<1>1. JobInv(j) /\ WellFormed(body[j])
  BY DEF IInv, JobInv, Shaped
<1>2. /\ WellFormed(Tail(body[j])) /\ \A r : ~Moves(body[j], r)
      /\ \A p \in DOMAIN Tail(body[j]) : p + 1 \in DOMAIN body[j] /\ Tail(body[j])[p] = body[j][p + 1]
  BY <1>1, RestIsWellFormed, ReturningIsDone, TailOf DEF WellFormed
<1>3. <<>> \in Seq(Calls) /\ DOMAIN <<>> = {}
  OBVIOUS
<1>4. WellFormed(rest) /\ rest \in Seq(Calls)
  <2>1. CASE rest = Tail(body[j])
    <3>1. WellFormed(rest)
      BY <1>2, <2>1
    <3>2. QED
      BY <3>1 DEF WellFormed
  <2>2. CASE rest = <<>>
    BY <1>3, <2>2 DEF WellFormed
  <2>3. QED
    BY <2>1, <2>2
<1>5. body'[j] = rest /\ \A k \in Jobs : k # j => body'[k] = body[k]
  BY DEF IInv, Bodies
<1>6. Shaped(j)' /\ Lending(j)' /\ Declared(j)' /\ Stacked(j)'
  BY <1>1, <1>4, <1>5 DEF JobInv, Shaped, Lending, Declared, Stacked
<1>7. Pending(j)'
  <2>1. CASE rest = <<>>
    BY <1>3, <1>5, <2>1 DEF Pending
  <2>2. CASE rest = Tail(body[j])
    <3>1. \A p \in DOMAIN rest : \A i \in DOMAIN scope[j] :
            rest[p].do = "mover" /\ scope[j][i].what = "data"
              => scope[j][i].dev # lent[j][rest[p].role] \/ scope[j][i].dev = NoDevice
      BY <1>1, <1>2, <2>2 DEF JobInv, Pending
    <3>2. QED
      BY <1>5, <3>1 DEF Pending
  <2>3. QED
    BY <2>1, <2>2
<1>8. InWork(j)'
  BY <1>1, <1>5 DEF JobInv, InWork
<1>9. DataAtHome(j)' /\ OwnBuffer(j)'
  BY <1>1 DEF JobInv, DataAtHome, OwnBuffer
<1>10. JobInv(j)'
  BY <1>6, <1>7, <1>8, <1>9 DEF JobInv
<1>11. \A k \in Jobs : k # j => Untouched(k)
  BY <1>5 DEF Untouched
<1>12. TypeOK' /\ Bodies'
  BY <1>4 DEF IInv, TypeOK, Bodies
<1>13. \A d \in Devices : MoverFor(j, d) => MoverFor(j, d)'
  BY <1>2 DEF MoverFor
<1>14. QED
  BY <1>10, <1>11, <1>12, <1>13, WorkerKeeps

LEMMA CallsKeep ==
  ASSUME IInv, NEW j \in Jobs, AddSigners(j) \/ OperateAndReturn(j)
  PROVE  IInv'
<1>1. /\ stage[j] = "running" /\ body[j] # <<>>
      /\ Head(body[j]).do \in {"signers", "operate"}
      /\ UNCHANGED <<stage, scope, lent, target, home, open, owned, destroyed>>
      /\ Proceed(j) \/ Return(j)
  BY DEF AddSigners, OperateAndReturn, Doing, deviceVars
<1>2. CASE Proceed(j)
  <2>1. body' = [body EXCEPT ![j] = Tail(body[j])]
    BY <1>2 DEF Proceed, IInv, Bodies
  <2>2. QED
    BY <1>1, <2>1, CallKeeps
<1>3. CASE Return(j)
  BY <1>1, <1>3, CallKeeps DEF Return
<1>4. QED
  BY <1>1, <1>2, <1>3
\* The last local object goes when the function has returned. Only the mover of a
\* device of the owner takes it away from the thread, and only the last reference to
\* the buffer of the job destroys anything.
LEMMA PopKeeps ==
  ASSUME IInv, NEW j \in Jobs, stage[j] = "running", body[j] = <<>>, scope[j] # <<>>, Pop(j),
         UNCHANGED <<stage, body, lent, target, owned>>,
         open' \in [AllDevices -> BOOLEAN],
         home' \in [AllDevices -> Threads], destroyed' \in [AllDevices -> Threads \cup {NoThread}],
         NEW last, last = Last(scope[j]),
         \A d \in AllDevices :
           \/ home'[d] = home[d]
           \/ /\ d \in Devices /\ home[d] = j /\ home'[d] = Gui
              /\ last.what = "mover" /\ last.dev = d,
         last.what = "mover" /\ last.dev \in Devices => home'[last.dev] # j,
         \A d \in AllDevices :
           \/ destroyed'[d] = destroyed[d]
           \/ /\ d = j /\ destroyed'[d] = j
              /\ \A i \in DOMAIN scope'[j] : scope'[j][i].dev = j => ~Refers(scope'[j][i])
  PROVE  IInv'
<1> DEFINE s == scope[j]
<1>0. Gui \notin Jobs /\ Jobs \cap Devices = {} /\ NoDevice \notin AllDevices
      /\ Devices \subseteq AllDevices /\ j \in AllDevices
  BY DistinctAssumption DEF AllDevices
<1>1. JobInv(j) /\ s \in Seq(Locals) /\ home[j] = j
  BY DEF IInv, JobInv, Shaped, OwnBuffer
<1>2. /\ Front(s) \in Seq(Locals) /\ last = s[Len(s)] /\ Len(s) \in DOMAIN s
      /\ \A i \in DOMAIN Front(s) : i \in DOMAIN s /\ i < Len(s) /\ Front(s)[i] = s[i]
      /\ \A i \in DOMAIN s : i # Len(s) => i \in DOMAIN Front(s) /\ Front(s)[i] = s[i]
  BY <1>1, FrontOf
<1>3. /\ scope'[j] = Front(s) /\ \A k \in Jobs : k # j => scope'[k] = scope[k]
      /\ scope' = [scope EXCEPT ![j] = Front(s)]
  BY DEF Pop, IInv, Bodies
<1> HIDE DEF s
<1>4. home'[j] = j
  BY <1>0, <1>1
<1>5. Shaped(j)' /\ Lending(j)' /\ InWork(j)' /\ Pending(j)'
  BY <1>1, <1>2, <1>3 DEF JobInv, Shaped, Lending, InWork, Pending
<1>6. Declared(j)'
  BY <1>1, <1>2, <1>3 DEF JobInv, Declared, s
<1>7. Stacked(j)'
  BY <1>1, <1>2, <1>3 DEF JobInv, Stacked, s
<1>8. DataAtHome(j)'
  <2> SUFFICES ASSUME NEW i \in DOMAIN Front(s), Front(s)[i].what = "data",
                      Front(s)[i].dev # NoDevice
               PROVE  home'[Front(s)[i].dev] = j
    BY <1>3 DEF DataAtHome
  <2>1. i \in DOMAIN s /\ i < Len(s) /\ Front(s)[i] = s[i] /\ s[i] \in Locals
    BY <1>1, <1>2, ElementOfSeq, LenProperties
  <2>2. CASE s[i].dev = NoDevice
    BY <1>1, <2>1, <2>2 DEF JobInv, DataAtHome, s
  <2>3. CASE s[i].dev # NoDevice
    <3>1. s[i].dev \in AllDevices /\ home[s[i].dev] = j
      BY <1>1, <2>1, <2>3 DEF JobInv, DataAtHome, s, Locals
    <3>2. last.what = "mover" => last.dev # s[i].dev
      BY <1>1, <1>2, <2>1, <2>3 DEF JobInv, Stacked, s
    <3>3. home'[s[i].dev] = home[s[i].dev]
      BY <3>1, <3>2
    <3>4. QED
      BY <2>1, <2>3, <3>1, <3>3
  <2>4. QED
    BY <2>2, <2>3
<1>9. OwnBuffer(j)'
  <2>1. CASE destroyed'[j] = destroyed[j]
    BY <1>1, <1>2, <1>3, <1>4, <2>1 DEF JobInv, OwnBuffer, s
  <2>2. CASE destroyed'[j] # destroyed[j]
    BY <1>0, <1>4, <2>2 DEF OwnBuffer
  <2>3. QED
    BY <2>1, <2>2
<1>10. JobInv(j)'
  BY <1>5, <1>6, <1>7, <1>8, <1>9 DEF JobInv
<1>11. \A k \in Jobs : k # j => Untouched(k)
  BY <1>0, <1>3 DEF Untouched, AllDevices
<1>12. Bodies'
  BY <1>2, <1>3 DEF IInv, Bodies
<1>13. TypeOK'
  <2>1. ASSUME NEW k \in Jobs, NEW i \in DOMAIN scope'[k] PROVE scope'[k][i] \in Locals
    <3>1. scope'[k] \in Seq(Locals)
      BY <1>12 DEF Bodies
    <3>2. QED
      BY <2>1, <3>1, ElementOfSeq, LenProperties
  <2>2. QED
    BY <2>1 DEF IInv, TypeOK
<1>14. ASSUME NEW d \in AllDevices, home'[d] # home[d]
       PROVE  d \in Devices /\ destroyed[d] = NoThread /\ destroyed'[d] = NoThread
  <2>1. d \in Devices /\ last.what = "mover" /\ last.dev = d
    BY <1>14
  <2>2. \E r \in Roles : lent[j][r] = d
    BY <1>0, <1>1, <1>2, <2>1 DEF JobInv, Declared, s
  <2>3. destroyed[d] = NoThread
    BY <2>1, <2>2 DEF IInv, Kept, InUse
  <2>4. QED
    BY <1>0, <2>1, <2>3
<1>15. \A d \in AllDevices : destroyed'[d] # destroyed[d] => d = j /\ destroyed'[d] = home'[d]
  BY <1>4
<1>16. ASSUME NEW d \in Devices, home'[d] = j, MoverFor(j, d) PROVE MoverFor(j, d)'
  <2>1. \A r : ~Moves(body[j], r)
    BY DEF Moves
  <2>2. PICK i \in DOMAIN s : s[i].what = "mover" /\ s[i].dev = d
    BY <1>16, <2>1 DEF MoverFor, s
  <2>3. i # Len(s)
    BY <1>2, <1>16, <2>2
  <2>4. QED
    BY <1>2, <1>3, <2>2, <2>3 DEF MoverFor
<1>17. QED
  BY <1>0, <1>10, <1>11, <1>12, <1>13, <1>14, <1>15, <1>16, WorkerKeeps
LEMMA DestructorsKeep ==
  ASSUME IInv, NEW j \in Jobs, DestroyData(j) \/ DestroyMover(j) \/ DropReference(j)
  PROVE  IInv'
<1> DEFINE last == Last(scope[j])
           d == last.dev
<1>0. /\ Gui \notin Jobs /\ Jobs \cap Devices = {} /\ NoDevice \notin AllDevices /\ Gui # NoThread
      /\ Devices \subseteq AllDevices /\ j \in AllDevices /\ j \in Threads /\ Gui \in Threads
      /\ AllDevices = Devices \cup Jobs
  BY DistinctAssumption DEF AllDevices, Threads
<1>1. /\ stage[j] = "running" /\ body[j] = <<>> /\ scope[j] # <<>> /\ Pop(j) /\ JobInv(j)
      /\ UNCHANGED <<stage, body, lent, target, owned>>
  BY DEF DestroyData, DestroyMover, DropReference, Leaving, IInv
<1>2. /\ Len(scope[j]) \in DOMAIN scope[j] /\ last = scope[j][Len(scope[j])] /\ last \in Locals
      /\ DOMAIN scope'[j] = DOMAIN Front(scope[j]) /\ scope'[j] = Front(scope[j])
  BY <1>1, FrontOf, ElementOfSeq, LenProperties DEF JobInv, Shaped, Pop, IInv, Bodies
<1>3. d \in AllDevices \cup {NoDevice}
  BY <1>2 DEF Locals
<1>4. /\ home \in [AllDevices -> Threads] /\ destroyed \in [AllDevices -> Threads \cup {NoThread}]
      /\ open \in [AllDevices -> BOOLEAN]
  BY DEF IInv, TypeOK
<1>5. d = NoDevice \/ (\E r \in Roles : d = lent[j][r]) \/ (last.what = "buffer" /\ d = j)
  BY <1>1, <1>2 DEF JobInv, Declared
<1>6. d \in Devices \/ d = j \/ d = NoDevice
  BY <1>1, <1>5 DEF JobInv, Lending
<1>7. CASE DestroyData(j)
  <2>1. /\ last.what = "data" /\ UNCHANGED <<home, destroyed>>
        /\ open' = IF d = NoDevice THEN open ELSE [open EXCEPT ![d] = FALSE]
    BY <1>7 DEF DestroyData, Leaving
  <2>2. open' \in [AllDevices -> BOOLEAN]
    BY <1>3, <1>4, <2>1
  <2>3. last.what # "mover" /\ last = Last(scope[j])
    BY <2>1
  <2> HIDE DEF last, d
  <2>4. QED
    BY <1>1, <1>4, <2>1, <2>2, <2>3, PopKeeps
<1>8. CASE DestroyMover(j)
  <2>1. /\ last.what = "mover" /\ UNCHANGED <<open, destroyed>>
        /\ home' = IF d # NoDevice /\ target[j] # NoThread /\ home[d] = j
                   THEN [home EXCEPT ![d] = target[j]] ELSE home
    BY <1>8 DEF DestroyMover, Leaving
  <2>2. d # NoDevice => \E r \in Roles : d = lent[j][r]
    BY <1>5, <2>1
  <2>3. /\ d \in Devices => target[j] = Gui
        /\ d = j => target[j] = NoThread
    BY <1>0, <1>1, <2>2 DEF JobInv, Lending
  <2>4. home' \in [AllDevices -> Threads]
    BY <1>0, <1>3, <1>4, <1>6, <2>1, <2>3
  <2>5. \A x \in AllDevices :
           \/ home'[x] = home[x]
           \/ x \in Devices /\ home[x] = j /\ home'[x] = Gui /\ last.what = "mover" /\ last.dev = x
    BY <1>0, <1>4, <1>6, <2>1, <2>3
  <2>6. last.dev \in Devices => home'[last.dev] # j
    BY <1>0, <1>4, <2>1, <2>3
  <2>7. last = Last(scope[j])
    OBVIOUS
  <2> HIDE DEF last, d
  <2>8. QED
    BY <1>1, <1>4, <2>1, <2>4, <2>5, <2>6, <2>7, PopKeeps
<1>9. CASE DropReference(j)
  <2>1. /\ last.what \in {"ref", "buffer"} /\ UNCHANGED <<open, home>>
        /\ destroyed' = IF d # NoDevice /\ HoldersIn(d, scope') = {}
                        THEN [destroyed EXCEPT ![d] = j] ELSE destroyed
    BY <1>9 DEF DropReference, Leaving
  <2>2. d \in Devices => HoldersIn(d, scope') # {}
    <3>1. ASSUME d \in Devices PROVE d \in owned
      <4>1. \E r \in Roles : lent[j][r] = d
        BY <1>0, <1>5, <3>1
      <4>2. QED
        BY <1>1, <3>1, <4>1 DEF IInv, Kept, InUse
    <3>2. QED
      BY <3>1 DEF HoldersIn
  <2>3. HoldersIn(j, scope') = {} =>
          \A i \in DOMAIN scope'[j] : scope'[j][i].dev = j => ~Refers(scope'[j][i])
    BY DEF HoldersIn
  <2>4. destroyed' \in [AllDevices -> Threads \cup {NoThread}]
    BY <1>0, <1>3, <1>4, <2>1
  <2>5. \A x \in AllDevices :
           \/ destroyed'[x] = destroyed[x]
           \/ /\ x = j /\ destroyed'[x] = j
              /\ \A i \in DOMAIN scope'[j] : scope'[j][i].dev = j => ~Refers(scope'[j][i])
    BY <1>0, <1>4, <1>6, <2>1, <2>2, <2>3
  <2>6. last = Last(scope[j]) /\ last.what # "mover"
    BY <2>1
  <2> HIDE DEF last, d
  <2>7. QED
    BY <1>1, <1>4, <2>1, <2>4, <2>5, <2>6, PopKeeps
<1>10. QED
  BY <1>7, <1>8, <1>9

\* The thread ends, its end is noticed, and the job is deleted.
LEMMA EndsKeep ==
  ASSUME IInv, NEW j \in Jobs, ThreadEnds(j) \/ SlotFinished(j) \/ DeferredDelete(j)
  PROVE  IInv'
<1>1. PICK next \in {"finished", "reported", "gone"} :
        /\ stage' = [stage EXCEPT ![j] = next]
        /\ next = "finished" => stage[j] = "running"
        /\ stage[j] # "fresh"
  BY DEF ThreadEnds, SlotFinished, DeferredDelete
<1>2. /\ body[j] = <<>> /\ scope[j] = <<>> /\ JobInv(j)
      /\ UNCHANGED <<body, scope, lent, target, home, open, owned, destroyed>>
  BY DEF ThreadEnds, SlotFinished, DeferredDelete, IInv, JobInv, Shaped, deviceVars
<1>3. stage'[j] = next /\ \A k \in Jobs : k # j => stage'[k] = stage[k]
  BY <1>1 DEF IInv, TypeOK
<1>4. TypeOK' /\ Bodies'
  <2>1. stage' \in [Jobs -> Stages]
    BY <1>1 DEF IInv, TypeOK, Stages
  <2>2. QED
    BY <1>2, <2>1 DEF IInv, TypeOK, Bodies
<1>5. ASSUME NEW k \in Jobs, k # j PROVE JobInv(k)'
  <2>1. Untouched(k)
    BY <1>2, <1>3, <1>5 DEF Untouched
  <2>2. QED
    BY <2>1, UntouchedKeeps DEF IInv
<1>6. JobInv(j)'
  <2>1. Shaped(j)' /\ Lending(j)' /\ Declared(j)' /\ Stacked(j)' /\ Pending(j)'
    BY <1>2, <1>3 DEF JobInv, Shaped, Lending, Declared, Stacked, Pending
  <2>2. InWork(j)' /\ DataAtHome(j)' /\ OwnBuffer(j)'
    BY <1>1, <1>2, <1>3 DEF JobInv, InWork, DataAtHome, OwnBuffer
  <2>3. QED
    BY <2>1, <2>2 DEF JobInv
<1>7. Away'
  <2> SUFFICES ASSUME NEW d \in Devices, home[d] # Gui
               PROVE  \E k \in Jobs : /\ home[d] = k /\ stage'[k] = "running"
                                      /\ \E r \in Roles : lent[k][r] = d
                                      /\ MoverFor(k, d)
    BY <1>2 DEF Away, MoverFor
  <2>1. PICK k \in Jobs : /\ home[d] = k /\ stage[k] = "running"
                          /\ \E r \in Roles : lent[k][r] = d
                          /\ MoverFor(k, d)
    BY DEF IInv, Away
  <2>2. k # j
    <3>1. ~MoverFor(j, d)
      BY <1>2 DEF MoverFor, Moves
    <3>2. QED
      BY <2>1, <3>1
  <2>3. QED
    BY <1>3, <2>1, <2>2
<1>8. Kept'
  <2>1. ASSUME NEW d \in Devices, InUse(d)' PROVE InUse(d)
    <3>1. PICK k \in Jobs, r \in Roles : stage'[k] \in {"running", "finished"} /\ lent[k][r] = d
      BY <1>2, <2>1 DEF InUse
    <3>2. stage[k] \in {"running", "finished"}
      BY <1>1, <1>3, <3>1
    <3>3. QED
      BY <3>1, <3>2 DEF InUse
  <2>2. QED
    BY <1>2, <2>1 DEF IInv, Kept
<1>9. QED
  BY <1>4, <1>5, <1>6, <1>7, <1>8 DEF IInv

LEMMA StepInvariant == IInv /\ [Next]_vars => IInv'
<1> SUFFICES ASSUME IInv, [Next]_vars PROVE IInv'
  OBVIOUS
<1>1. CASE OwnerStep
  BY <1>1, StartsKeep, StartBytesKeeps, OwnerKeeps DEF OwnerStep
<1>2. ASSUME NEW j \in Jobs, WorkerStep(j) \/ LoopStep(j) PROVE IInv'
  BY <1>2, DeclarationsKeep, CallsKeep, DestructorsKeep, EndsKeep DEF WorkerStep, LoopStep
<1>3. CASE UNCHANGED vars
  <2>1. UNCHANGED <<stage, body, scope, lent, target, home, open, owned, destroyed>>
    BY <1>3 DEF vars, jobVars, deviceVars
  <2>2. \A k \in Jobs : JobInv(k)'
    BY <2>1, UntouchedKeeps DEF Untouched, IInv
  <2>3. TypeOK' /\ Bodies'
    BY <2>1 DEF IInv, TypeOK, Bodies
  <2>4. Away' /\ Kept'
    BY <2>1 DEF IInv, Away, MoverFor, Kept, InUse
  <2>5. QED
    BY <2>2, <2>3, <2>4 DEF IInv
<1>4. QED
  BY <1>1, <1>2, <1>3 DEF Next

------------------------------------------------------------------------------
(* The theorems.                                                           *)

\* The invariant holds in every reachable state.
THEOREM InductiveInvariant == Spec => []IInv
<1>1. QED
  BY InitInvariant, StepInvariant, PTL DEF Spec

\* Every variable has its type.
THEOREM TypeCorrect == Spec => []TypeOK
<1>1. IInv => TypeOK
  BY DEF IInv
<1>2. QED
  BY <1>1, InductiveInvariant, PTL

\* Whatever jobs run at the same time, a worker function uses a device (through a
\* data object, whose destructor closes it) only while it lives in the worker's
\* thread and exists, and devices are destroyed in the threads they live in.
THEOREM DevicesUsedAtHome == Spec => []UsedAtHome
<1>1. ASSUME IInv PROVE UsedAtHome
  <2>1. ASSUME NEW j \in Jobs, NEW i \in DOMAIN scope[j],
               scope[j][i].what = "data", scope[j][i].dev # NoDevice
        PROVE  home[scope[j][i].dev] = j /\ destroyed[scope[j][i].dev] = NoThread
    <3> DEFINE d == scope[j][i].dev
    <3>1. JobInv(j)
      BY <1>1 DEF IInv
    <3>2. home[d] = j
      BY <2>1, <3>1 DEF JobInv, DataAtHome
    <3>3. PICK r \in Roles : d = lent[j][r]
      BY <2>1, <3>1 DEF JobInv, Declared
    <3>4. CASE d \in Devices
      <4>1. stage[j] = "running"
        BY <2>1, <3>1 DEF JobInv, Shaped
      <4>2. QED
        BY <1>1, <3>2, <3>3, <3>4, <4>1 DEF IInv, Kept, InUse
    <3>5. CASE d = j
      BY <2>1, <3>1, <3>2, <3>5 DEF JobInv, OwnBuffer, Refers
    <3>6. QED
      BY <2>1, <3>1, <3>3, <3>4, <3>5 DEF JobInv, Lending
  <2>2. QED
    BY <1>1, <2>1 DEF UsedAtHome, IInv, Kept
<1>2. QED
  BY <1>1, InductiveInvariant, PTL

\* When a result is reported, the devices of the job that no other job has been given
\* since live in the owner's thread, and nobody else holds them: the owner can do with
\* them what it likes (threadedjobmixin.h:206-209).
THEOREM DevicesCleanAtResult == Spec => []CleanAtResult
<1>1. ASSUME IInv PROVE CleanAtResult
  <2> SUFFICES ASSUME NEW d \in Devices, ~InUse(d)
               PROVE  home[d] = Gui /\ Holders(d) \subseteq {Gui}
    BY DEF CleanAtResult
  <2>1. home[d] = Gui
    BY <1>1 DEF IInv, Away, InUse
  <2>2. ASSUME NEW j \in Jobs, NEW i \in DOMAIN scope[j], scope[j][i].dev = d
        PROVE  FALSE
    <3>1. JobInv(j) /\ d # NoDevice /\ d # j
      BY <1>1, DistinctAssumption DEF IInv
    <3>2. stage[j] = "running"
      BY <2>2, <3>1 DEF JobInv, Shaped
    <3>3. \E r \in Roles : lent[j][r] = d
      BY <2>2, <3>1 DEF JobInv, Declared
    <3>4. QED
      BY <3>2, <3>3 DEF InUse
  <2>3. Holders(d) \subseteq {Gui}
    BY <2>2 DEF Holders, HoldersIn, BoundStrongly
  <2>4. QED
    BY <2>1, <2>3
<1>2. QED
  BY <1>1, InductiveInvariant, PTL
==============================================================================
