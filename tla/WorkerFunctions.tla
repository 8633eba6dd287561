--------------------------- MODULE WorkerFunctions ---------------------------
(***************************************************************************)
(* The worker functions of the jobs, and what their start() checks before. *)
(* A worker function is the sequence of the calls of GpgME, or of external *)
(* programs, that it makes for the arguments a of the job at the time now; *)
(* it ends with the first call that does not succeed. A call is [op, what] *)
(* where what is all that the engine is told.                              *)
(***************************************************************************)
EXTENDS Expiry, Buffers, KeyLists, Protocols

Ask(op, what) == [op |-> op, what |-> what]
ReturnAtOnce(code) == <<Ask("return", code)>>

\* engineVersion() is compared with these.
V2_1_0 == 1
V2_3_8 == 2
V2_4_6 == 3

------------------------------------------------------------------------------
\* qgpgmechangeexpiryjob.cpp: the primary key, the given subkeys or all subkeys.
change_expiry(a, options, now) ==
  LET expire(part) == <<Ask("setExpire", [part |-> part, expires |-> SecondsAtLeastOne(a.expiry, now)])>>
  IN (IF ~a.subkeys \/ "UpdatePrimaryKey" \in options THEN expire("primary key") ELSE <<>>)
     \o (CASE a.subkeys -> expire("subkeys")
           [] ~a.subkeys /\ "UpdateAllSubkeys" \in options -> expire("all subkeys")
           [] OTHER -> <<>>)

\* qgpgmequickjob.cpp
createWorker(a, now) == <<Ask("createKey", [expires |-> SecondsUntil(a.expiry, now)])>>
addSubkeyWorker(a, now) == <<Ask("createSubkey", [expires |-> SecondsUntil(a.expiry, now)])>>
addUidWorker(a) == <<Ask("addUid", a)>>
revUidWorker(a) == <<Ask("revUid", a)>>
revokeSignatureWorker(a) == <<Ask("revokeSignature", a)>>
addAdskWorker(a) == <<Ask("addAdsk", a)>>
set_key_enabled(a) == <<Ask("setKeyEnabled", a)>>

\* qgpgmesignkeyjob.cpp: start() makes the options of the settings s, sign_key() tells them
\* to the interactor, after the signing key was accepted.
SigningOptions(a) ==
  (IF a.nonRevocable THEN {"NonRevocable"} ELSE {}) \cup (IF a.exportable THEN {"Exportable"} ELSE {})
  \cup (IF a.trust \in {"Partial", "Complete"} THEN {"Trust"} ELSE {})

sign_key(a, now) ==
  (IF a.signer # "null" THEN <<Ask("addSigningKey", a.signer)>> ELSE <<>>)
  \o <<Ask("signKey", [expires |-> CertExpire(a.expiry, now), options |-> SigningOptions(a),
                       dupeOk |-> a.dupeOk])>>

\* qgpgmeaddexistingsubkeyjob.cpp: a composite subkey has several keygrips.
add_subkey(a) ==
  IF a.keyGrips > 1 THEN ReturnAtOnce("NOT_SUPPORTED")
  ELSE <<Ask("addExistingSubkey", [expires |-> SubkeyTime(a.expiry)])>>

\* qgpgmechangeownertrustjob.cpp: start() chooses by the version of the engine.
set_owner_trust(a) == <<Ask("setOwnerTrust", a)>>
change_ownertrust(a) == <<Ask("editOwnerTrust", a)>>
ChangeOwnerTrust(a, version) == IF version < V2_4_6 THEN change_ownertrust(a) ELSE set_owner_trust(a)

\* qgpgmesetprimaryuseridjob.cpp: older engines know user IDs by their text only.
set_primary_userid(version) ==
  <<Ask("setPrimaryUid", IF version >= V2_3_8 THEN "uidhash" ELSE "id")>>

\* qgpgmerevokekeyjob.cpp, qgpgmeadduseridjob.cpp, qgpgmechangepasswdjob.cpp, ...
revoke_key(a) == <<Ask("revokeKey", a)>>
add_user_id(a) == <<Ask("addUserID", a)>>
change_passwd(a) == <<Ask("passwd", a)>>
policy_worker(a) == <<Ask("setTofuPolicy", a)>>
delete_key(a) == <<Ask("deleteKey", a)>>
generate_key(a) == <<Ask("generateKey", a)>>

\* defaultkeygenerationjob.cpp: the parameters are fixed but for the address and the name.
default_generate_key(a) == generate_key(a)
importfromkeyserver(a) == <<Ask("importFromKeyserver", a)>>
receive_keys(a) == <<Ask("receiveKeys", a)>>

------------------------------------------------------------------------------
\* qgpgmeimportjob.cpp: what the context is told of the import.
originToString == [OriginKS |-> "ks", OriginDane |-> "dane", OriginWKD |-> "wkd",
                   OriginURL |-> "url", OriginFile |-> "file", OriginSelf |-> "self"]
KeyOrigin(a) == IF a.origin \in DOMAIN originToString THEN <<originToString[a.origin], a.url>> ELSE <<>>

import_qba(a) ==
  <<Ask("importKeys", [origin |-> KeyOrigin(a), filter |-> a.filter, options |-> a.options])>>

\* (Mutant of ImportCode: any status instead of all.)
ImportCodeAny(code, statuses) ==
  IF code = "failed" /\ "BAD_PASSPHRASE" \in statuses THEN "BAD_PASSPHRASE" ELSE code

\* An import that failed for nothing but bad passphrases says so.
ImportCode(code, statuses) ==
  IF code = "failed" /\ statuses # {} /\ statuses \subseteq {"BAD_PASSPHRASE"}
  THEN "BAD_PASSPHRASE" ELSE code

\* qgpgmeexportjob.cpp: the mode of the factory and that of the application.
export_qba(a, c) ==
  <<Ask("exportKeys", [mode |-> c.exportMode \cup a.flags, filter |-> a.filter])>>

------------------------------------------------------------------------------
\* qgpgmelistallkeysjob.cpp: newer engines heed the option of the job.
TrustCheck(options, version) ==
  version < V2_1_0 \/ "DisableAutomaticTrustDatabaseCheck" \notin options

\* Older engines list public and secret keys one after the
\* other, and the error of the first listing survives the second.
list_keys_legacy == <<Ask("list", "public"), Ask("list", "secret")>>
do_list_keys == <<Ask("list", "all")>>
list_keys(version) == IF version < V2_1_0 THEN list_keys_legacy ELSE do_list_keys

\* How a call that did not succeed goes on: all but the listings of older engines end
\* the worker function.
GoesOn(call) == call.op = "list" /\ call.what = "public"

------------------------------------------------------------------------------
\* qgpgmewkspublishjob.cpp: gpg-wks-client is run in the worker thread.
WksClient(a, installed, arguments) ==
  CASE a.empty -> ReturnAtOnce("INV_ARG")
    [] ~a.empty /\ ~installed -> ReturnAtOnce("NOT_SUPPORTED")
    [] OTHER -> <<Ask("process", arguments)>>
check_worker(a, installed) == WksClient(a, installed, "--supported")
create_worker(a, installed) == WksClient(a, installed, "--create")
receive_worker(a, installed) == WksClient(a, installed, "--receive")

\* (Mutant of WksCode: the exit code is not looked at.)
WksCodeByStatus(arguments, end) ==
  CASE end = "not started" -> "NOT_SUPPORTED"
    [] end = "timeout" -> "TIMEOUT"
    [] end \in {"exit 0", "exit 1"} -> "ok"
    [] OTHER -> "GENERAL"

WksCode(arguments, end) ==
  CASE end = "not started" -> "NOT_SUPPORTED"
    [] end = "timeout" -> "TIMEOUT"
    [] end = "exit 0" -> "ok"
    [] OTHER -> IF arguments = "--supported" THEN "NOT_ENABLED" ELSE "GENERAL"

\* qgpgmegpgcardjob.cpp: everything but a normal exit counts as exit code 1.
CardCode(end) == IF end = "exit 0" THEN "ok" ELSE "exit 1"
do_work == <<Ask("process", "gpg-card")>>

ProcessCode(arguments, end) ==
  IF arguments = "gpg-card" THEN CardCode(end) ELSE WksCode(arguments, end)

------------------------------------------------------------------------------
\* (Mutant of audit_log_as_html: lastError() is not asked for.)
AuditLogAlways(protocol, lastError, code) ==
  [text |-> IF protocol = CMS THEN "audit log" ELSE "diagnostics", code |-> code]

\* threadedjobmixin.cpp: gpg has diagnostics only; gpgsm has an audit log, in place of which
\* it gives diagnostics after an error. (A cancellation is not an error here.)
audit_log_as_html(protocol, lastError, code) ==
  [text |-> CASE code # "ok" -> "the error"
              [] code = "ok" /\ protocol = CMS /\ lastError # "failed" -> "audit log"
              [] OTHER -> "diagnostics",
   code |-> code]

------------------------------------------------------------------------------
\* check_arguments() of a revocation: the key, the reason, and the lines of the text.
check_arguments(a) ==
  CASE a.nullKey -> "INV_ARG"
    [] ~a.nullKey /\ (~a.reasonValid \/ "empty or broken" \in a.lines) -> "INV_VALUE"
    [] OTHER -> "ok"

\* What start() returns.
StartCode(kind, a, installed) ==
  CASE kind = "revokeKey" -> check_arguments(a)
    [] kind \in {"createSubkey", "setKeyEnabled"} -> IF a.nullKey THEN "INV_VALUE" ELSE "ok"
    [] kind = "setPrimaryUserID" -> IF a.nullKey THEN "INV_ARG" ELSE "ok"
    [] kind = "gpgCard" -> IF installed THEN "ok" ELSE "NOT_SUPPORTED"
    [] OTHER -> "ok"
==============================================================================
