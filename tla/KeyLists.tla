------------------------------- MODULE KeyLists -------------------------------
(***************************************************************************)
(* What jobs compute from lists of keys: the merging of the public and the *)
(* secret keys (src/src/qgpgmelistallkeysjob.cpp), the choice of a key for *)
(* a mailbox (src/src/qgpgmekeyformailboxjob.cpp), and the addresses of a  *)
(* WKD refresh (src/src/qgpgmewkdrefreshjob.cpp).                          *)
(*                                                                         *)
(* A key of a list is [fpr, secret]; fingerprints are numbers, to be       *)
(* ordered. A candidate for a mailbox is a matching user ID together with  *)
(* what counts of its key: [encrypts, ok, validity, time].                 *)
(***************************************************************************)
EXTENDS Naturals, Sequences, Folds, SequencesExt

\* std::sort by fingerprint, and std::merge of sorted lists: the keys of the second
\* list go behind their equals.
Insert(key, list) ==
  LET n == Cardinality({i \in DOMAIN list : list[i].fpr <= key.fpr}) IN InsertAt(list, n + 1, key)
Sorted(list) == FoldLeft(LAMBDA sorted, key : Insert(key, sorted), <<>>, list)

\* Key::mergeWith(): what either copy knows.
mergeWith(key, other) == [key EXCEPT !.secret = @ \/ other.secret]

\* (Mutant of unique_by_merge: the first of equal keys is kept as it is.)
unique_by_dropping(list) ==
  FoldLeft(LAMBDA done, key :
             IF done # <<>> /\ Last(done).fpr = key.fpr THEN done ELSE Append(done, key),
           <<>>, list)

\* Merges each run of keys with equal fingerprints into its first.
unique_by_merge(list) ==
  FoldLeft(LAMBDA done, key :
             IF done # <<>> /\ Last(done).fpr = key.fpr
             THEN [done EXCEPT ![Len(done)] = mergeWith(@, key)]
             ELSE Append(done, key),
           <<>>, list)

merge_keys(pub, sec) == unique_by_merge(FoldLeft(LAMBDA all, key : Insert(key, all), pub, sec))

\* std::copy_if: the secret keys among the keys of the one listing of newer engines.
SecretOnes(keys) ==
  FoldLeft(LAMBDA secret, key : IF key.secret THEN Append(secret, key) ELSE secret, <<>>, keys)

------------------------------------------------------------------------------
NoCandidate == [encrypts |-> FALSE, ok |-> FALSE, validity |-> 0, time |-> 0, place |-> 0]

\* The creation time of the last usable encryption subkey, as do_work() takes it.
Age(candidate, canEncrypt) == IF canEncrypt THEN candidate.time ELSE 0

\* (Mutant of Better: the second rule without its condition.)
BetterOrOk(new, old, canEncrypt) ==
  \/ old.place = 0
  \/ new.ok
  \/ old.validity < new.validity

\* Whether do_work() takes the candidate instead of the one it has.
Better(new, old, canEncrypt) ==
  \/ old.place = 0
  \/ ~old.ok /\ new.ok
  \/ old.validity < new.validity
  \/ /\ old.validity = new.validity /\ new.ok
     /\ Age(new, canEncrypt) > Age(old, canEncrypt)

Eligible(candidate, canEncrypt) == canEncrypt => candidate.encrypts

Chosen(candidates, canEncrypt) ==
  FoldLeft(LAMBDA best, c :
             IF Eligible(c, canEncrypt) /\ Better(c, best, canEncrypt) THEN c ELSE best,
           NoCandidate, candidates)

------------------------------------------------------------------------------
\* The addresses of the user IDs that are not revoked and have one; for whole keys
\* only of those that came from a WKD.
toEmailAddresses(uids) == {u.addr : u \in {v \in uids : ~v.revoked /\ v.addr # 0}}
toEmailAddressesOriginatingFromWKD(uids) == toEmailAddresses({u \in uids : u.wkd})

\* Sorted, and each of them once.
EmailsOf(uids, wholeKeys) ==
  SetToSortSeq(IF wholeKeys THEN toEmailAddressesOriginatingFromWKD(uids)
               ELSE toEmailAddresses(uids), LAMBDA a, b : a < b)
==============================================================================
