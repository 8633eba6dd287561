------------------------------ MODULE Protocols ------------------------------
(***************************************************************************)
(* The factories of jobs (src/src/protocol_p.h) and the backend with its   *)
(* two protocols (src/src/qgpgmebackend.cpp). A factory makes the context  *)
(* that the job will own; what it sets there is all that the job's worker  *)
(* function finds, and much of what the application asked for.             *)
(***************************************************************************)
EXTENDS Naturals

OpenPGP == "OpenPGP"
CMS == "CMS"

\* checkEngine(): an engine that is not installed has no protocol, and no job.
Protocol(name, installed) ==
  IF name \in {OpenPGP, CMS} /\ name \in installed THEN name ELSE "null"

\* What Context::createForProtocol() makes.
NewContext(protocol) ==
  [protocol |-> protocol, mode |-> {"Local"}, armor |-> FALSE, textMode |-> FALSE,
   offline |-> FALSE, exportMode |-> {}, allSignatures |-> FALSE,
   trustCheck |-> TRUE]

\* The jobs that only gpg can do; for gpgsm the factories return null.
OnlyForOpenPGP ==
  {"changeExpiry", "signKey", "changeOwnerTrust", "addExistingSubkey", "addUserID",
   "locateKeys", "wkdLookup", "wksPublish", "tofuPolicy", "quick", "revokeKey",
   "setPrimaryUserID", "encryptArchive", "signArchive", "signEncryptArchive",
   "decryptVerifyArchive", "wkdRefresh", "receiveKeys"}
OnlyForCMS == {"refreshKeys"}

Offered(job, protocol) ==
  /\ job \in OnlyForOpenPGP => protocol = OpenPGP
  /\ job \in OnlyForCMS => protocol = CMS

\* (Mutant of listMode: both sources at once.)
listModeBoth(mode, remote) == mode \cup (IF remote THEN {"Extern"} ELSE {"Local"})

listMode(mode, remote) ==
  IF remote THEN (mode \cup {"Extern"}) \ {"Local"} ELSE (mode \cup {"Local"}) \ {"Extern"}

More(mode, includeSigs, validate) ==
  mode \cup (IF includeSigs THEN {"Signatures"} ELSE {}) \cup (IF validate THEN {"Validate"} ELSE {})

keyListJob(c, remote, includeSigs, validate) ==
  [c EXCEPT !.mode = More(listMode(@, remote), includeSigs, validate)]

\* A validating listing of the whole keyring must not fetch revocation lists.
listAllKeysJob(c, includeSigs, validate) ==
  [c EXCEPT !.mode = More(listMode(@, FALSE), includeSigs, validate),
            !.offline = @ \/ validate]

locateKeysJob(c) == [c EXCEPT !.mode = {"Locate", "Signatures", "Validate"}]

\* Downloading is a listing of external keys, too.
downloadJob(c, armor) == [c EXCEPT !.armor = armor, !.mode = {"Extern"}]

\* encryptJob(), signJob()
armoredJob(c, armor, textMode) == [c EXCEPT !.armor = armor, !.textMode = textMode]

\* verifyDetachedJob(), verifyOpaqueJob()
textModeJob(c, textMode) == [c EXCEPT !.textMode = textMode]

\* The factories for two things at once.
signEncryptJob(c, armor, textMode) == [c EXCEPT !.armor = armor, !.textMode = textMode]
decryptVerifyJob(c, textMode) == [c EXCEPT !.textMode = textMode]

publicKeyExportJob(c, armor) == [c EXCEPT !.armor = armor]
secretKeyExportJob(c, armor) == [c EXCEPT !.armor = armor, !.exportMode = {"ExportSecret"}]
secretSubkeyExportJob(c, armor) ==
  [c EXCEPT !.armor = armor, !.exportMode = {"ExportSecretSubkey"}]

\* The factories of archive jobs.
archiveJob(c, armor) == [c EXCEPT !.armor = armor]
==============================================================================
