------------------------------ MODULE JobClasses ------------------------------
(***************************************************************************)
(* The leaf classes of Job that have a private class, and what their       *)
(* private class makes of Job::startIt() and Job::startNow() (job.cpp).    *)
(* The constructor of each, and lateInitialization(), make the job the     *)
(* owner of its context. The other leaf classes have no private class, and *)
(* the two functions may not be called for them.                           *)
(***************************************************************************)

\* startIt() runs the worker function with the settings of the job, answers with an error
\* (after an assertion, in most classes, which a release leaves out), or does nothing.
\* startNow() runs the worker function that startLater() has set.
Class(startIt, startNow) == [startIt |-> startIt, startNow |-> startNow]

QGpgMEEncryptJob == Class("settings", "run")
QGpgMESignEncryptJob == Class("settings", "run")
QGpgMESignJob == Class("settings", "run")
QGpgMEDecryptVerifyJob == Class("settings", "run")
QGpgMEVerifyOpaqueJob == Class("settings", "run")
QGpgMEVerifyDetachedJob == Class("settings", "run")
QGpgMEEncryptArchiveJob == Class("settings", "run")
QGpgMESignEncryptArchiveJob == Class("settings", "run")
QGpgMESignArchiveJob == Class("settings", "run")
QGpgMEDecryptVerifyArchiveJob == Class("settings", "run")
QGpgMEWKDRefreshJob == Class("settings", "run")
QGpgMEDeleteJob == Class("nothing", "run")
QGpgMEExportJob == Class("NOT_IMPLEMENTED", "run")
QGpgMEImportJob == Class("NOT_SUPPORTED", "run")
QGpgMEChangeExpiryJob == Class("NOT_SUPPORTED", "run")
QGpgMEListAllKeysJob == Class("NOT_SUPPORTED", "run")
QGpgMEQuickJob == Class("NOT_SUPPORTED", "assert")

ClassOf ==
  [encryptJob |-> QGpgMEEncryptJob, signEncryptJob |-> QGpgMESignEncryptJob,
   signJob |-> QGpgMESignJob, decryptVerifyJob |-> QGpgMEDecryptVerifyJob,
   verifyOpaqueJob |-> QGpgMEVerifyOpaqueJob, verifyDetachedJob |-> QGpgMEVerifyDetachedJob,
   encryptArchiveJob |-> QGpgMEEncryptArchiveJob,
   signEncryptArchiveJob |-> QGpgMESignEncryptArchiveJob,
   signArchiveJob |-> QGpgMESignArchiveJob,
   decryptVerifyArchiveJob |-> QGpgMEDecryptVerifyArchiveJob,
   wkdRefresh |-> QGpgMEWKDRefreshJob, delete |-> QGpgMEDeleteJob,
   export |-> QGpgMEExportJob, import |-> QGpgMEImportJob,
   changeExpiry |-> QGpgMEChangeExpiryJob, listAllKeys |-> QGpgMEListAllKeysJob,
   createKey |-> QGpgMEQuickJob]

\* What startIt() returns for the classes that have no startIt() of their own settings.
StartItCode(kind) ==
  IF ClassOf[kind].startIt \in {"settings", "nothing"} THEN "ok" ELSE ClassOf[kind].startIt
==============================================================================
