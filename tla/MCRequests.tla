----------------------------- MODULE MCRequests -----------------------------
(***************************************************************************)
(* Small sets of requests for the model checker.                           *)
(***************************************************************************)
EXTENDS Requests

Base == [protocol |-> OpenPGP, engines |-> {OpenPGP, CMS}, version |-> V2_4_6, installed |-> TRUE]
Make(kind, arguments) == {Base @@ [kind |-> kind, a |-> a] : a \in arguments}
Plain == {[nullKey |-> FALSE]}

\* Requests without arguments that matter, with either protocol and engine missing.
SimpleKinds == {"addUid", "revUid", "revokeSignature", "addAdsk", "addUserID", "changePasswd",
                "tofuPolicy", "delete", "keyGeneration", "importFromKeyserver", "receiveKeys",
                "download", "verify"}
Simple == {[protocol |-> p, engines |-> e, version |-> V2_4_6, installed |-> TRUE, kind |-> k,
            a |-> [nullKey |-> FALSE]] :
             p \in {OpenPGP, CMS}, e \in {{OpenPGP}, {OpenPGP, CMS}}, k \in SimpleKinds}
DefaultKeys == {[Base EXCEPT !.engines = e] @@ [kind |-> "defaultKeyGeneration", a |-> [nullKey |-> FALSE]] :
                  e \in {{}, {OpenPGP}, {OpenPGP, CMS}}}
ByVersion == {[Base EXCEPT !.version = v] @@ [kind |-> k, a |-> [nullKey |-> n]] :
                v \in {0, V2_1_0, V2_3_8, V2_4_6}, k \in {"setPrimaryUserID", "changeOwnerTrust"},
                n \in BOOLEAN}

Dates == {None} \cup 0..4
Dated ==
  Make("changeExpiry", [expiry : Dates, subkeys : BOOLEAN,
                        set : [options : SUBSET {"UpdatePrimaryKey", "UpdateAllSubkeys"}]])
  \cup Make("createKey", [expiry : Dates])
  \cup Make("createSubkey", [expiry : Dates, nullKey : BOOLEAN])
  \cup Make("signKey", [set : [expiry : Dates, signer : {"null", "k1"}, nonRevocable : {FALSE},
                               exportable : BOOLEAN, trust : {"None", "Partial"}, dupeOk : BOOLEAN]])
  \cup Make("addExistingSubkey", [expiry : Dates, keyGrips : 1..2])

Revocations == Make("revokeKey", [nullKey : BOOLEAN, reasonValid : BOOLEAN,
                                  lines : SUBSET {"text", "empty or broken"}])
Enabled == Make("setKeyEnabled", [nullKey : BOOLEAN])

\* Jobs that are started with startIt(), though their class has none of its own.
WithoutStartIt == {Base @@ [kind |-> k, a |-> [how |-> "startIt", expiry |-> None, includeSigs |-> FALSE, validate |-> FALSE,
                                             ring |-> <<>>, mergeKeys |-> FALSE,
                                             set |-> [options |-> {}, filter |-> Missing, flags |-> {}]]] :
                     k \in {"delete", "export", "changeExpiry", "listAllKeys", "createKey"}}

Programs == {[Base EXCEPT !.installed = i] @@ [kind |-> k, a |-> [empty |-> e]] :
               i \in BOOLEAN, k \in WksKinds \cup {"gpgCard"}, e \in BOOLEAN}
  \cup {[Base EXCEPT !.engines = {}] @@ [kind |-> "gpgCard", a |-> [empty |-> FALSE]]}

\* Lists of keys.
Lengths == UNION {[1..n -> 1..MaxLength] : n \in 0..MaxPatterns}
Lists ==
  Make("keyList", [lengths : Lengths, remote : {FALSE}, includeSigs : {FALSE}])
  \cup Make("keyList", [lengths : {<<1, 1>>}, remote : BOOLEAN, includeSigs : BOOLEAN])
  \cup Make("locateKeys", [lengths : {<<1>>}])

Key(fpr, secret) == [fpr |-> fpr, secret |-> secret]
Rings == {<<>>, <<Key(2, TRUE), Key(1, FALSE)>>, <<Key(3, TRUE), Key(1, TRUE), Key(2, FALSE)>>}
AllLists == {[Base EXCEPT !.version = v] @@ [kind |-> "listAllKeys", a |-> a] :
               v \in {0, V2_1_0},
               a \in [ring : Rings, mergeKeys : BOOLEAN, includeSigs : BOOLEAN, validate : BOOLEAN,
                    set : [options : SUBSET {"DisableAutomaticTrustDatabaseCheck"}]]}

\* Up to three candidates for a mailbox; only what counts of them differs.
Candidates == {[encrypts |-> e, ok |-> o, validity |-> v, time |-> t, place |-> 1] :
                 e \in BOOLEAN, o \in BOOLEAN, v \in 0..2, t \in 1..2}
Mailboxes == Make("keyForMailbox", [ring : UNION {[1..n -> Candidates] : n \in 0..2}, canEncrypt : BOOLEAN])
  \cup Make("keyForMailbox", [ring : [1..3 -> {c \in Candidates : c.encrypts}], canEncrypt : {TRUE}])

Uids == [addr : 0..2, revoked : BOOLEAN, wkd : BOOLEAN]
Refreshes == Make("wkdRefresh", [uids : {u \in SUBSET Uids : Cardinality(u) <= 2}, wholeKeys : BOOLEAN, how : {"startIt"}])

\* Data.
Origins == [origin : {"OriginUnknown", "OriginWKD"}, url : {"url"}, filter : {Missing, "filter"}, options : {{}}]
Texts == {<<>>, <<5>>, <<5, 0, 6>>}
Transfers ==
  Make("import", [bytes : Texts, how : {"start"}, set : Origins])
  \cup Make("import", [bytes : {<<5>>}, how : {"startIt", "startLater"}, set : Origins])
  \cup Make("decrypt", [sequential : BOOLEAN])
  \cup {[Base EXCEPT !.protocol = CMS] @@ [kind |-> k, a |-> [set |-> v]] :
          k \in Exports, v \in [filter : {Missing, "filter"}, flags : SUBSET {"ExportMinimal"}]}
  \cup Make("encryptArchive", [names : UNION {[1..n -> {<<>>, <<7>>, <<7, 8>>}] : n \in 0..3}])
  \cup Make("encrypt", [device : [process : {"none"}, left : 0..2, end : {"0", "-1", "EIO"},
                                  errorOccurred : {FALSE}, read : {"none"}, errno : {FALSE}]])
  \cup Make("encrypt", [device : [process : {"running"}, left : {0}, end : {"0"},
                                  errorOccurred : {FALSE}, read : {"none"}, errno : {FALSE}]])

\* Jobs with settings, started either way. Two settings of a job are interesting.
Paths == {Missing, "path"}
Signers == {<<>>, <<"k1">>, <<"null", "k1">>, <<"k2", "null", "k1">>}
Common == [inputFile |-> "in", outputFile |-> "out", signatureFile |-> "signature", signedFile |-> "in",
           outputDirectory |-> Missing, baseDirectory |-> Missing, inputPaths |-> {"p"},
           recipients |-> {"r"}, signers |-> <<"k1">>, flags |-> {}, append |-> FALSE,
           allSignatures |-> FALSE]
Variants ==
  {[Common EXCEPT !.inputFile = i, !.outputFile = o, !.signatureFile = i, !.signedFile = o] :
     i \in Paths, o \in Paths}
  \cup {[Common EXCEPT !.signers = k, !.recipients = r, !.flags = f, !.append = b, !.allSignatures = b,
                       !.outputDirectory = d, !.baseDirectory = d] :
          k \in Signers, r \in {{}, {"r"}}, f \in {{}, {"NoCompress"}}, b \in BOOLEAN, d \in {Missing, "dir"}}
Passed(always, has) == [inputPaths |-> {"p"}, recipients |-> {"r"}, signers |-> <<"k1", "null", "k2">>,
                          flags |-> {}, alwaysTrust |-> always, device |-> has]
Files ==
  {Base @@ [kind |-> k, a |-> [how |-> "startIt", set |-> v]] : k \in FileJobKinds, v \in Variants}
  \cup {Base @@ [kind |-> k, a |-> [how |-> "start", set |-> v, given |-> Passed(always, has)]] :
          k \in FileJobKinds, v \in Variants, always \in BOOLEAN, has \in BOOLEAN}
  \cup {[Base EXCEPT !.protocol = CMS] @@ [kind |-> k, a |-> [how |-> "startIt", set |-> Common]] :
          k \in FileJobKinds}

MCRequestSet == Simple \cup DefaultKeys \cup ByVersion \cup Dated \cup Revocations \cup Enabled \cup Programs \cup Lists
                \cup AllLists \cup WithoutStartIt \cup Mailboxes \cup Refreshes \cup Transfers \cup Files
=============================================================================
