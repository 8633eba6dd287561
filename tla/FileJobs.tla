------------------------------- MODULE FileJobs -------------------------------
(***************************************************************************)
(* The jobs that encrypt, sign, decrypt and verify, and what their owner   *)
(* may set before he starts them: the settings of each job, its setters,   *)
(* what startIt() and start() refuse, and the calls of GpgME that the      *)
(* worker function makes of the settings. With startIt() GpgME reads and   *)
(* writes the files itself; start() is given bytes or devices.             *)
(*                                                                         *)
(* start() binds its worker function to copies of what it needs. The one   *)
(* that startIt() binds has no copy of the settings: it captures the job's *)
(* private object, and reads it in the other thread.                       *)
(***************************************************************************)
EXTENDS WorkerFunctions, JobClasses

Missing == ""

\* for (signer : signers) if (!signer.isNull()) addSigningKey(signer)
AddSigningKeys(signers) ==
  FoldLeft(LAMBDA calls, signer : IF signer = "null" THEN calls ELSE Append(calls, Ask("addSigningKey", signer)),
           <<>>, signers)

RefusedWithout(paths) == IF Missing \in paths THEN "INV_VALUE" ELSE "ok"

------------------------------------------------------------------------------
\* encryptjob_p.h, encryptjob.cpp, qgpgmeencryptjob.cpp
EncryptJob == [inputFile |-> Missing, outputFile |-> Missing, recipients |-> {}, flags |-> {"EncryptFile"}]

setEncryptJob(s, a) ==
  [s EXCEPT !.inputFile = a.inputFile, !.outputFile = a.outputFile, !.recipients = a.recipients,
            !.flags = a.flags \cup {"EncryptFile"}]

startItEncrypt(s) == RefusedWithout({s.inputFile, s.outputFile})

encrypt_to_filename(s) ==
  <<Ask("encrypt", [s EXCEPT !.flags = @ \cup {"EncryptFile"}])>>

\* (Mutant of StartFlags: the flag that is on by default is not taken off.)
StartFlagsAsSet(s, alwaysTrust) == (IF alwaysTrust THEN {"AlwaysTrust"} ELSE {}) \cup s.flags

\* start() and exec() with alwaysTrust: the input is no file name.
StartFlags(s, alwaysTrust) ==
  (IF alwaysTrust THEN {"AlwaysTrust"} ELSE {}) \cup (s.flags \ {"EncryptFile"})

\* Of the arguments of start() and exec() recipients, signers and alwaysTrust matter.
start_encrypt(s, a) == [recipients |-> a.recipients, flags |-> StartFlags(s, a.alwaysTrust)]

encrypt(s) == <<Ask("encrypt", s)>>

------------------------------------------------------------------------------
\* signencryptjob_p.h, signencryptjob.cpp, qgpgmesignencryptjob.cpp
SignEncryptJob ==
  [inputFile |-> Missing, outputFile |-> Missing, signers |-> <<>>, recipients |-> {},
   flags |-> {"EncryptFile"}]

setSignEncryptJob(s, a) ==
  [s EXCEPT !.inputFile = a.inputFile, !.outputFile = a.outputFile, !.signers = a.signers,
            !.recipients = a.recipients, !.flags = a.flags \cup {"EncryptFile"}]

startItSignEncrypt(s) == RefusedWithout({s.inputFile, s.outputFile})

sign_encrypt_to_filename(s) ==
  Append(AddSigningKeys(s.signers), Ask("signEncrypt", [s EXCEPT !.flags = @ \cup {"EncryptFile"}]))

start_sign_encrypt(s, a) ==
  [signers |-> a.signers, recipients |-> a.recipients, flags |-> StartFlags(s, a.alwaysTrust)]

sign_encrypt(s) == Append(AddSigningKeys(s.signers), Ask("signEncrypt", s))

------------------------------------------------------------------------------
\* signjob_p.h, signjob.cpp, qgpgmesignjob.cpp; start() is told the mode.
SignJob ==
  [inputFile |-> Missing, outputFile |-> Missing, signers |-> <<>>, flags |-> {"SignFile"},
   append |-> FALSE]

setSignJob(s, a) ==
  [s EXCEPT !.inputFile = a.inputFile, !.outputFile = a.outputFile, !.signers = a.signers,
            !.flags = a.flags \cup {"SignFile"}, !.append = a.append]

startItSign(s) == RefusedWithout({s.inputFile, s.outputFile})

sign_to_filename(s) ==
  Append(AddSigningKeys(s.signers), Ask("sign", [s EXCEPT !.flags = @ \cup {"SignFile"}]))

start_sign(a) == [signers |-> a.signers, flags |-> a.flags]

sign(s) == Append(AddSigningKeys(s.signers), Ask("sign", s))

------------------------------------------------------------------------------
\* decryptverifyjob_p.h, decryptverifyjob.cpp, qgpgmedecryptverifyjob.cpp
DecryptVerifyJob == [inputFile |-> Missing, outputFile |-> Missing, allSignatures |-> FALSE]

setDecryptVerifyJob(s, a) ==
  [s EXCEPT !.inputFile = a.inputFile, !.outputFile = a.outputFile, !.allSignatures = a.allSignatures]

startItDecryptVerify(s) == RefusedWithout({s.inputFile, s.outputFile})

decrypt_verify_from_filename(s) == <<Ask("decryptVerify", s)>>

\* start() and exec() of the three jobs that verify leave no settings to the worker function:
\* the one they heed, allSignatures, is told to the context at once.
start_decrypt_verify == [flags |-> {}]

decrypt_verify(s) == <<Ask("decryptVerify", s)>>

\* verifyopaquejob_p.h, verifyopaquejob.cpp, qgpgmeverifyopaquejob.cpp
VerifyOpaqueJob == [inputFile |-> Missing, outputFile |-> Missing, allSignatures |-> FALSE]

setVerifyOpaqueJob(s, a) ==
  [s EXCEPT !.inputFile = a.inputFile, !.outputFile = a.outputFile, !.allSignatures = a.allSignatures]

startItVerifyOpaque(s) == RefusedWithout({s.inputFile, s.outputFile})

verify_opaque_from_filename(s) == <<Ask("verifyOpaque", s)>>

start_verify_opaque == [flags |-> {}]

verify_opaque(s) == <<Ask("verifyOpaque", s)>>

\* verifydetachedjob_p.h, verifydetachedjob.cpp, qgpgmeverifydetachedjob.cpp
VerifyDetachedJob == [signatureFile |-> Missing, signedFile |-> Missing, allSignatures |-> FALSE]

setVerifyDetachedJob(s, a) ==
  [s EXCEPT !.signatureFile = a.signatureFile, !.signedFile = a.signedFile,
            !.allSignatures = a.allSignatures]

startItVerifyDetached(s) == RefusedWithout({s.signatureFile, s.signedFile})

verify_detached_from_filename(s) == <<Ask("verifyDetached", s)>>

start_verify_detached == [flags |-> {}]

verify_detached(s) == <<Ask("verifyDetached", s)>>

------------------------------------------------------------------------------
(* Archives. Each has one worker function for files and for devices, in    *)
(* which s holds what was set, or what start() was given.                  *)

\* encryptarchivejob_p.h, encryptarchivejob.cpp, qgpgmeencryptarchivejob.cpp
EncryptArchiveJob ==
  [inputPaths |-> {}, outputFile |-> Missing, recipients |-> {}, flags |-> {"EncryptArchive"},
   baseDirectory |-> Missing]

setEncryptArchiveJob(s, a) ==
  [s EXCEPT !.inputPaths = a.inputPaths, !.outputFile = a.outputFile, !.recipients = a.recipients,
            !.flags = a.flags \cup {"EncryptArchive"}, !.baseDirectory = a.baseDirectory]

startItEncryptArchive(s) == RefusedWithout({s.outputFile})

encryptArchive(s) == <<Ask("encryptArchive", [s EXCEPT !.flags = @ \cup {"EncryptArchive"}])>>

\* start() is told all but the base directory.
start_encryptArchive(s, a) ==
  [inputPaths |-> a.inputPaths, recipients |-> a.recipients, flags |-> a.flags,
   baseDirectory |-> s.baseDirectory]

\* signencryptarchivejob_p.h, signencryptarchivejob.cpp, qgpgmesignencryptarchivejob.cpp
SignEncryptArchiveJob ==
  [inputPaths |-> {}, outputFile |-> Missing, signers |-> <<>>, recipients |-> {},
   flags |-> {"EncryptArchive"}, baseDirectory |-> Missing]

setSignEncryptArchiveJob(s, a) ==
  [s EXCEPT !.inputPaths = a.inputPaths, !.outputFile = a.outputFile, !.signers = a.signers,
            !.recipients = a.recipients, !.flags = a.flags \cup {"EncryptArchive"},
            !.baseDirectory = a.baseDirectory]

startItSignEncryptArchive(s) == RefusedWithout({s.outputFile})

signEncryptArchive(s) ==
  Append(AddSigningKeys(s.signers),
         Ask("signEncryptArchive", [s EXCEPT !.flags = @ \cup {"EncryptArchive"}]))

start_signEncryptArchive(s, a) ==
  [inputPaths |-> a.inputPaths, signers |-> a.signers, recipients |-> a.recipients,
   flags |-> a.flags, baseDirectory |-> s.baseDirectory]

\* signarchivejob_p.h, signarchivejob.cpp, qgpgmesignarchivejob.cpp: flags cannot be set.
SignArchiveJob ==
  [inputPaths |-> {}, outputFile |-> Missing, signers |-> <<>>, baseDirectory |-> Missing]

setSignArchiveJob(s, a) ==
  [s EXCEPT !.inputPaths = a.inputPaths, !.outputFile = a.outputFile, !.signers = a.signers,
            !.baseDirectory = a.baseDirectory]

startItSignArchive(s) == RefusedWithout({s.outputFile})

signArchive(s) ==
  Append(AddSigningKeys(s.signers),
         Ask("signArchive", [f \in DOMAIN s \cup {"flags"} |-> IF f = "flags" THEN {"SignArchive"} ELSE s[f]]))

start_signArchive(s, a) ==
  [inputPaths |-> a.inputPaths, signers |-> a.signers, baseDirectory |-> s.baseDirectory]

\* decryptverifyarchivejob_p.h, decryptverifyarchivejob.cpp, qgpgmedecryptverifyarchivejob.cpp
DecryptVerifyArchiveJob ==
  [inputFile |-> Missing, outputDirectory |-> Missing, allSignatures |-> FALSE]

setDecryptVerifyArchiveJob(s, a) ==
  [s EXCEPT !.inputFile = a.inputFile, !.outputDirectory = a.outputDirectory,
            !.allSignatures = a.allSignatures]

startItDecryptVerifyArchive(s) == RefusedWithout({s.inputFile})

decryptVerifyArchive(s) ==
  <<Ask("decryptVerifyArchive",
         [f \in DOMAIN s \cup {"flags"} |-> IF f = "flags" THEN {"DecryptArchive"} ELSE s[f]])>>

start_decryptVerifyArchive(s) == [outputDirectory |-> s.outputDirectory]

------------------------------------------------------------------------------
(* Other jobs with settings, of which start() makes copies *)

\* importjob_p.h, importjob.cpp
ImportJob == [origin |-> "OriginUnknown", url |-> Missing, filter |-> Missing, options |-> {}]

setImportJob(s, a) ==
  [s EXCEPT !.origin = a.origin, !.url = a.url, !.filter = a.filter, !.options = a.options]

\* qgpgmesignkeyjob.cpp; the trust stands for its depth and scope, too.
SignKeyJob ==
  [signer |-> "null", nonRevocable |-> FALSE, exportable |-> FALSE, dupeOk |-> FALSE,
   trust |-> "None", expiry |-> None]

\* Each setter asserts that the job is not started.
setSignKeyJob(s, a) ==
  [s EXCEPT !.signer = a.signer, !.nonRevocable = a.nonRevocable, !.exportable = a.exportable,
            !.dupeOk = a.dupeOk, !.trust = a.trust, !.expiry = a.expiry]

\* exportjob_p.h, exportjob.cpp, qgpgmeexportjob.cpp
ExportJob == [filter |-> Missing, flags |-> {}]

setExportJob(s, a) == [s EXCEPT !.filter = a.filter, !.flags = a.flags]

\* changeexpiryjob_p.h, changeexpiryjob.cpp
ChangeExpiryJob == [options |-> {}]

setOptions(s, a) == [s EXCEPT !.options = a.options]

\* listallkeysjob_p.h, listallkeysjob.cpp
ListAllKeysJob == [options |-> {}]

setListOptions(s, a) == [s EXCEPT !.options = a.options]

------------------------------------------------------------------------------
FileJobKinds ==
  {"encryptJob", "signEncryptJob", "signJob", "decryptVerifyJob", "verifyOpaqueJob",
   "verifyDetachedJob", "encryptArchiveJob", "signEncryptArchiveJob", "signArchiveJob",
   "decryptVerifyArchiveJob"}
ArchiveKinds ==
  {"encryptArchiveJob", "signEncryptArchiveJob", "signArchiveJob", "decryptVerifyArchiveJob"}

Exports == {"export", "secretExport", "secretSubkeyExport"}
SettableKinds == FileJobKinds \cup Exports \cup {"import", "signKey", "changeExpiry", "listAllKeys"}

\* The jobs whose startIt() writes to a temporary file first.
WithPartFile == FileJobKinds \ {"verifyDetachedJob", "decryptVerifyArchiveJob"}

\* The settings of a job that was just made.
Defaults(kind) ==
  CASE kind = "encryptJob" -> EncryptJob
    [] kind = "signEncryptJob" -> SignEncryptJob
    [] kind = "signJob" -> SignJob
    [] kind = "decryptVerifyJob" -> DecryptVerifyJob
    [] kind = "verifyOpaqueJob" -> VerifyOpaqueJob
    [] kind = "verifyDetachedJob" -> VerifyDetachedJob
    [] kind = "encryptArchiveJob" -> EncryptArchiveJob
    [] kind = "signEncryptArchiveJob" -> SignEncryptArchiveJob
    [] kind = "signArchiveJob" -> SignArchiveJob
    [] kind = "decryptVerifyArchiveJob" -> DecryptVerifyArchiveJob
    [] kind = "import" -> ImportJob
    [] kind = "signKey" -> SignKeyJob
    [] kind \in Exports -> ExportJob
    [] kind = "changeExpiry" -> ChangeExpiryJob
    [] kind = "listAllKeys" -> ListAllKeysJob

\* The settings after all setters were called with the values a.
AllSet(kind, s, a) ==
  CASE kind = "encryptJob" -> setEncryptJob(s, a)
    [] kind = "signEncryptJob" -> setSignEncryptJob(s, a)
    [] kind = "signJob" -> setSignJob(s, a)
    [] kind = "decryptVerifyJob" -> setDecryptVerifyJob(s, a)
    [] kind = "verifyOpaqueJob" -> setVerifyOpaqueJob(s, a)
    [] kind = "verifyDetachedJob" -> setVerifyDetachedJob(s, a)
    [] kind = "encryptArchiveJob" -> setEncryptArchiveJob(s, a)
    [] kind = "signEncryptArchiveJob" -> setSignEncryptArchiveJob(s, a)
    [] kind = "signArchiveJob" -> setSignArchiveJob(s, a)
    [] kind = "decryptVerifyArchiveJob" -> setDecryptVerifyArchiveJob(s, a)
    [] kind = "import" -> setImportJob(s, a)
    [] kind = "signKey" -> setSignKeyJob(s, a)
    [] kind \in Exports -> setExportJob(s, a)
    [] kind = "changeExpiry" -> setOptions(s, a)
    [] kind = "listAllKeys" -> setListOptions(s, a)

startIt(kind, s) ==
  CASE kind = "encryptJob" -> startItEncrypt(s)
    [] kind = "signEncryptJob" -> startItSignEncrypt(s)
    [] kind = "signJob" -> startItSign(s)
    [] kind = "decryptVerifyJob" -> startItDecryptVerify(s)
    [] kind = "verifyOpaqueJob" -> startItVerifyOpaque(s)
    [] kind = "verifyDetachedJob" -> startItVerifyDetached(s)
    [] kind = "encryptArchiveJob" -> startItEncryptArchive(s)
    [] kind = "signEncryptArchiveJob" -> startItSignEncryptArchive(s)
    [] kind = "signArchiveJob" -> startItSignArchive(s)
    [] kind = "decryptVerifyArchiveJob" -> startItDecryptVerifyArchive(s)

\* start() of an archive job wants a device; that of the others takes what it gets.
StartWithData(kind, a) == IF kind \in ArchiveKinds /\ ~a.device THEN "INV_VALUE" ELSE "ok"

\* The worker function that startIt() binds, with the settings it finds when it runs.
FileWorker(kind, s) ==
  CASE kind = "encryptJob" -> encrypt_to_filename(s)
    [] kind = "signEncryptJob" -> sign_encrypt_to_filename(s)
    [] kind = "signJob" -> sign_to_filename(s)
    [] kind = "decryptVerifyJob" -> decrypt_verify_from_filename(s)
    [] kind = "verifyOpaqueJob" -> verify_opaque_from_filename(s)
    [] kind = "verifyDetachedJob" -> verify_detached_from_filename(s)
    [] kind = "encryptArchiveJob" -> encryptArchive(s)
    [] kind = "signEncryptArchiveJob" -> signEncryptArchive(s)
    [] kind = "signArchiveJob" -> signArchive(s)
    [] kind = "decryptVerifyArchiveJob" -> decryptVerifyArchive(s)

\* What start() leaves to the worker function, of its arguments a and of the settings.
Bound(kind, s, a) ==
  CASE kind = "encryptJob" -> start_encrypt(s, a)
    [] kind = "signEncryptJob" -> start_sign_encrypt(s, a)
    [] kind = "signJob" -> start_sign(a)
    [] kind = "decryptVerifyJob" -> start_decrypt_verify
    [] kind = "verifyOpaqueJob" -> start_verify_opaque
    [] kind = "verifyDetachedJob" -> start_verify_detached
    [] kind = "encryptArchiveJob" -> start_encryptArchive(s, a)
    [] kind = "signEncryptArchiveJob" -> start_signEncryptArchive(s, a)
    [] kind = "signArchiveJob" -> start_signArchive(s, a)
    [] kind = "decryptVerifyArchiveJob" -> start_decryptVerifyArchive(s)
    [] kind \in SettableKinds \ FileJobKinds -> s

\* The worker function that start() binds, with what it left to it.
DataWorker(kind, s) ==
  CASE kind = "encryptJob" -> encrypt(s)
    [] kind = "signEncryptJob" -> sign_encrypt(s)
    [] kind = "signJob" -> sign(s)
    [] kind = "decryptVerifyJob" -> decrypt_verify(s)
    [] kind = "verifyOpaqueJob" -> verify_opaque(s)
    [] kind = "verifyDetachedJob" -> verify_detached(s)
    [] kind \in ArchiveKinds -> FileWorker(kind, s)
==============================================================================
